\* Two replicas with one key and two endpoints each; broadcasts are lost, nodes
\* lag, blocks are slow, transactions fail on delivery and the mempool drops what
\* it has admitted.
SPECIFICATION FairSpec
CONSTANTS
  c1 = c1
  c2 = c2
  l1 = l1
  l2 = l2
  Clients = {c1, c2}
  Licenses = {l1, l2}
  Batches <- BatchesUneven
  MaxRetries = 1
  NumEndpoints = 2
  Faults = {"lost", "slow", "cancel", "evicted", "lagging", "rejected", "deliver", "unreachable"}
PROPERTIES
  EveryCallReturns
  RejectedCallResyncs

\* One client with two batches, every fault but a mempool that drops what it
\* has admitted.
SPECIFICATION FairSpec
CONSTANTS
  c1 = c1
  c2 = c2
  l1 = l1
  l2 = l2
  Clients = {c1}
  Licenses = {l1, l2}
  Batches <- BatchesOfOne
  MaxRetries = 1
  NumEndpoints = 1
  Faults = {"lost", "unanswered", "late", "query", "lagging", "slow", "cancel", "gas", "rejected", "deliver"}
INVARIANTS
  TxTypeOK
  NeverAhead
  UnconfirmedWasAdmitted
  OnePendingTransaction
PROPERTIES
  ImplementsContract
  EveryCallReturns

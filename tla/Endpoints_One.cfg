\* The processor, which rotates and asks, and the monitor, which asks.
SPECIFICATION FairSpec
CONSTANTS
  e1 = e1
  e2 = e2
  e3 = e3
  processor = processor
  monitor = monitor
  owned = owned
  delegated = delegated
  Goroutines = {processor, monitor}
  Rotating = {processor}
  Asking = {processor, monitor}
  Configured <- Three
  Situations <- Mixed
  MaxRetries = 2
INVARIANTS
  EndpointsTypeOK
  ConnectionsAccounted
  AsksEveryEndpoint
PROPERTIES
  FailedQueryTriedAll
  FailedAskHadNoChoice
  QueriesEnd

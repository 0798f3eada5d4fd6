\* The two queries that NewMinerManager runs at once; the first endpoint fails,
\* the second is healthy.
SPECIFICATION FairSpec
CONSTANTS
  e1 = e1
  e2 = e2
  e3 = e3
  processor = processor
  monitor = monitor
  owned = owned
  delegated = delegated
  Goroutines = {owned, delegated}
  Rotating = {owned, delegated}
  Asking = {}
  Configured <- Two
  Situations <- FirstFlaky
  MaxRetries = 3
PROPERTIES
  FallbackIsUsed

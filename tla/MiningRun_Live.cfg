\* Two endpoints, two licenses in batches of one, and the fairness of the
\* goroutines: a run goes through to its end, and the whole is an EpochFeed with its fairness.
SPECIFICATION RunFairSpec
CONSTANTS
  Endpoints = {n1, n2}
  MaxEpoch = 2
  Licenses = {l1, l2}
  BatchSize = 1
PROPERTIES
  FairSpec
  FinalEpochTakenUp

\* Two endpoints, one of which may lag.
SPECIFICATION RunSpec
CONSTANTS
  Endpoints = {n1, n2}
  MaxEpoch = 2
  Licenses = {l1}
  BatchSize = 1
INVARIANT
  WorkDiscardedOnlyWhenPassed

\* Four licenses in batches of two: up to two full batches, or one and a
\* partial one.  Two epochs, one endpoint.
SPECIFICATION RunSpec
CONSTANTS
  Endpoints = {n1}
  MaxEpoch = 2
  Licenses = {l1, l2, l3, l4}
  BatchSize = 2
SYMMETRY LicenseSymmetry
INVARIANTS
  RunTypeOK
  WinsAccounted
  RunIsComplete
  WinsCoverResults
  DiscardOnlyPassed
PROPERTY
  ExpiredRunSubmitsNothing

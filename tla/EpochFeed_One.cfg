\* One endpoint, five epochs: enough for every place an epoch can wait in to
\* hold an older one when the chain enters the last.
SPECIFICATION FairSpec
CONSTANTS
  Endpoints = {n1}
  MaxEpoch = 5
INVARIANTS
  TypeOK
  BoundedReprocessing
PROPERTIES
  FreshAfterRecheck
  ShutsDown

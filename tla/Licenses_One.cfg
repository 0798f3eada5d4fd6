SPECIFICATION FairSpec
CONSTANTS
  e1 = e1
  e2 = e2
  License <- Ids
  Endpoints = {e1, e2}
  Limit = 1
  MaxConcurrency = 1
  MaxBalance = 2
  Worlds <- SomeWorlds
  Transfers <- Moves
  MaxChanges = 2
INVARIANTS
  ListingFaithful
  OwnedFaithful
PROPERTIES
  ListingsEnd

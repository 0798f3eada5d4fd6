\* Two key pairs, two stops, one key set by hand, one abandoned registration.
\* Mining is one state here and lasts: with all stops spent nothing need follow.
CHECK_DEADLOCK FALSE
SPECIFICATION FairSpec
CONSTANTS
  Keys = {k1, k2}
  NoKey = NoKey
  MaxStops = 2
  MaxOutside = 1
  MaxAbandoned = 1
INVARIANTS
  AutoTypeOK
  KeysPersist
  MinesRegistered
  NeverReplacesItself
  AlwaysAWayOut
PROPERTIES
  StopsWhenTold
  MiningBegins

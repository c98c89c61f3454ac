SPECIFICATION FairReferenceSpec
CONSTANTS
  Form <- MCForm
  Groups <- MCGroups
  OpeningTables <- MCOpeningTables
  Users <- MCUsers
  Feeds <- MCFeeds
  Corridors <- MCCorridors
  Targets <- MCTargets
  Scale = 100
  Spread = 2
  Retention = 0
  LastDay = 1
  MaxStarts = 2
INVARIANT
  PolicyIsApplied
PROPERTY
  CacheCatchesUp
CHECK_DEADLOCK FALSE

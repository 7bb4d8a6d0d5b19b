SPECIFICATION FairSpec
CONSTANTS
  Threads = {t1, t2, t3}
  Categories = {generic, system, user}
  MaxItems = 2
  Null = Null
  Raw = Raw
  Gone = Gone

INVARIANTS
  HandedOutIsLive
  ScansOnlyBuilt
  AbortOnlyWhenFull
  ExitDestroysAll
PROPERTIES
  SlotStable
  InternsCategories
  LockIsReleased
  SomeoneEnters

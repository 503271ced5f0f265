SPECIFICATION Spec
CONSTANTS
  p = p
  q = q
  r = r
  Threads <- Trio
  NoThread = NoThread
  Channels <- Names
  Flavor <- Flavors
  Cap <- UnitCap
  Starts <- OnlyAsking
  Stock <- Stocked
  Drops <- AllDrops
  Clones <- AllClones
  Calls <- AllCalls
  MaxCalls = 1
  MaxTicks = 2
INVARIANT NoneWasReady
CHECK_DEADLOCK FALSE

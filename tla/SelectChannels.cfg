SPECIFICATION FairSpec
CONSTANTS
  p = p
  q = q
  r = r
  Threads <- Trio
  NoThread = NoThread
  Channels <- Names
  Flavor <- Flavors
  Cap <- UnitCap
  Starts <- Everywhere
  Stock <- Stocked
  Drops <- AllDrops
  Clones <- AllClones
  Calls <- AllCalls
  MaxCalls = 1
  MaxTicks = 2
INVARIANTS TypeOK EntriesMatch PairsMatch ClosedMeansDrained HandlesCounted NoneExcused
PROPERTIES SelectReturns TimedReturns
CHECK_DEADLOCK FALSE

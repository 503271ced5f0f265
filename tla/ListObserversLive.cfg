SPECIFICATION FairObsSpec
CONSTANTS
  s1 = s1
  s2 = s2
  r1 = r1
  Senders <- TwoSenders
  Receivers <- OneReceiver
  BlockCap = 1
  MaxSends = 1
  Reclaim = FALSE
  NoMsg = NoMsg
INVARIANTS TypeOK ObservationsTrue
PROPERTY EveryCallReturns

SPECIFICATION FairObsSpec
CONSTANTS
  s1 = s1
  r1 = r1
  Senders <- OneSender
  Receivers <- OneReceiver
  Cap = 2
  MaxSends = 4
  NoMsg = NoMsg
INVARIANTS ObservationsTrue DropsRest WordsAgree
PROPERTY EveryCallReturns

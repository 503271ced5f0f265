SPECIFICATION FairSpec
CONSTANTS
  s1 = s1
  s2 = s2
  r1 = r1
  r2 = r2
  Senders <- OneSender
  Receivers <- TwoReceivers
  Timed <- OneReceiver
  Cap = 1
  MaxSends = 1
  NoThread = NoThread
PROPERTY NotStuck

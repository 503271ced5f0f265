SPECIFICATION FairSpec
CONSTANTS
  s1 = s1
  s2 = s2
  r1 = r1
  r2 = r2
  Senders <- OneSender
  Receivers <- TwoReceivers
  Timed <- OneSender
  Cap = 1
  MaxSends = 2
  NoThread = NoThread
INVARIANTS TypeOK NoLostWakeup EntriesMatch
PROPERTY NotStuck

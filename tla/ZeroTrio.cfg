SPECIFICATION FairSpec
CONSTANTS
  s1 = s1
  s2 = s2
  r1 = r1
  r2 = r2
  Senders <- OneSender
  Receivers <- TwoReceivers
  SendKinds = {"try", "block", "select"}
  RecvKinds = {"try", "block", "select"}
  Timed <- TimedReceiver
  MaxCalls = 1
  NoThread = NoThread
  NoMsg = NoMsg
  NoPacket = NoPacket
INVARIANTS IInv EntriesMatch PacketsAlive NeverBothAsleep
PROPERTIES Implements Meets Releases

SPECIFICATION Spec
CONSTANTS
  s1 = s1
  s2 = s2
  r1 = r1
  r2 = r2
  Senders <- TwoSenders
  Receivers <- TwoReceivers
  BlockCap = 2
  MaxSends = 2
  Reclaim = TRUE
  NoMsg = NoMsg
SYMMETRY Symmetric
INVARIANTS IInv SlotAlive ReleasedOnce
PROPERTY Implements

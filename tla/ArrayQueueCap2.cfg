SPECIFICATION Spec
CONSTANTS
  s1 = s1
  s2 = s2
  r1 = r1
  r2 = r2
  Senders <- TwoSenders
  Receivers <- TwoReceivers
  Cap = 2
  MaxSends = 3
  NoMsg = NoMsg
SYMMETRY Symmetric
INVARIANTS TypeOK IInv SlotExclusive
PROPERTY Implements

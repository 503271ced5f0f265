--------------------------- MODULE MCArrayChannel -----------------------------
(* Finite instances of ArrayChannel for TLC. *)
EXTENDS ArrayChannel, TLC

CONSTANTS s1, s2, r1, r2

OneSender == {s1}
TwoSenders == {s1, s2}
OneReceiver == {r1}
TwoReceivers == {r1, r2}
===============================================================================

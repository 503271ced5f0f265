--------------------------- MODULE MCArrayObservers ---------------------------
(* Finite instances of ArrayObservers for TLC. *)
EXTENDS ArrayObservers, TLC

CONSTANTS s1, r1

OneSender == {s1}
OneReceiver == {r1}
===============================================================================

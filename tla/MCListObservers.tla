--------------------------- MODULE MCListObservers ----------------------------
(* Finite instances of ListObservers for TLC. *)
EXTENDS ListObservers, TLC

CONSTANTS s1, s2, r1

TwoSenders == {s1, s2}
OneReceiver == {r1}
===============================================================================

----------------------------- MODULE MCListQueue ------------------------------
(* Finite instances of ListQueue for TLC. *)
EXTENDS ListQueue, TLC

CONSTANTS s1, s2, r1, r2

TwoSenders == {s1, s2}
OneReceiver == {r1}
TwoReceivers == {r1, r2}

\* Threads of the same side are interchangeable.
Symmetric == Permutations(Senders) \cup Permutations(Receivers)
===============================================================================

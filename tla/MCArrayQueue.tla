---------------------------- MODULE MCArrayQueue ------------------------------
(* Finite instances of ArrayQueue for TLC. *)
EXTENDS ArrayQueue, TLC

CONSTANTS s1, s2, r1, r2

OneSender == {s1}
TwoSenders == {s1, s2}
OneReceiver == {r1}
TwoReceivers == {r1, r2}

\* Threads of the same side are interchangeable.
Symmetric == Permutations(Senders) \cup Permutations(Receivers)
===============================================================================

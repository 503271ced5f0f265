---------------------------- MODULE MCZeroChannel -----------------------------
(* Finite instances of ZeroChannel for TLC. *)
EXTENDS ZeroChannel, TLC

CONSTANTS s1, s2, r1, r2

Nobody == {}
OneSender == {s1}
TwoSenders == {s1, s2}
OneReceiver == {r1}
TwoReceivers == {r1, r2}
TimedPair == {s1, r1}
TimedReceiver == {r1}

\* Threads of the same side that have or have not a deadline are interchangeable.
Symmetric == Permutations(Senders \ Timed) \cup Permutations(Receivers \ Timed)
===============================================================================

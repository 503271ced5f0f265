----------------------------- MODULE SelectProofs -----------------------------
(***************************************************************************)
(* Proofs about Select, for any finite set of threads, any channels, calls *)
(* and handles: the counts of Channel are the handles there are, a channel *)
(* is disconnected when a side has none, entries are in the wakers exactly *)
(* while their threads wait, a disconnection is answered only when the     *)
(* channel is drained, two threads that a zero-capacity channel pairs stay *)
(* at its two ends until the message has changed hands, and an answer that *)
(* nothing was ready is one, unless a channel is disconnected.             *)
(***************************************************************************)
EXTENDS Select, FiniteSetTheorems, SequenceTheorems, WellFoundedInduction, TLAPS

HandlesOf(c, s) == {h \in held : h[2] = c /\ h[3] = s}

\* Who has swapped the last handle of the channel away and has not disconnected it yet.
Disconnecting(c) == \E t \in Threads : pc[t] = "disconnect" /\ token[t].op.chan = c

\* The part of the state that this is about.
HandlesType ==
  /\ DOMAIN pc = Threads /\ DOMAIN token = Threads
  /\ held \subseteq Threads \X Channels \X Sides /\ IsFiniteSet(held)
  /\ handles \in [Channels -> [Sides -> Nat]]
  /\ disconnected \in [Channels -> BOOLEAN]

CountsOK == \A c \in Counted, s \in Sides : handles[c][s] = Cardinality(HandlesOf(c, s))

ClosedOK == \A c \in Counted : (\E s \in Sides : handles[c][s] = 0) <=> disconnected[c] \/ Disconnecting(c)

HInv == HandlesType /\ CountsOK /\ ClosedOK

\* A step of t that has nothing to do with handles.
Quiet(t) ==
  /\ pc[t] # "disconnect" /\ pc'[t] # "disconnect"
  /\ \A u \in Threads \ {t} : pc'[u] = pc[u] /\ token'[u] = token[u]
  /\ DOMAIN pc' = Threads /\ DOMAIN token' = Threads
  /\ UNCHANGED handleVars
-------------------------------------------------------------------------------
\* The stated invariant is the conjunction of the two that are proved.
LEMMA HInvImplies == HInv => HandlesCounted
  BY DEF HInv, CountsOK, ClosedOK, HandlesCounted, HandlesOf, Disconnecting

\* The handles of a side are finitely many.
LEMMA FiniteSides ==
  ASSUME HandlesType, NEW c, NEW s
  PROVE  IsFiniteSet(HandlesOf(c, s)) /\ Cardinality(HandlesOf(c, s)) \in Nat
<1>1. HandlesOf(c, s) \in SUBSET held BY DEF HandlesOf
<1>2. IsFiniteSet(HandlesOf(c, s)) BY <1>1, FS_Subset DEF HandlesType
<1> QED BY <1>2, FS_CardinalityType

\* A channel starts with handles of both sides, or of none.
LEMMA HInit == Init => HInv
<1> SUFFICES ASSUME Init PROVE HInv OBVIOUS
<1>1. held \subseteq Threads \X Channels \X Sides /\ IsFiniteSet(held)
  BY SelectAssumption DEF Init
<1>2. \A c, s : IsFiniteSet(HandlesOf(c, s)) /\ Cardinality(HandlesOf(c, s)) \in Nat
  <2> TAKE c, s
  <2>1. HandlesOf(c, s) \in SUBSET held BY DEF HandlesOf
  <2>2. IsFiniteSet(HandlesOf(c, s)) BY <2>1, <1>1, FS_Subset
  <2> QED BY <2>2, FS_CardinalityType
<1>3. \A c \in Channels, s \in Sides :
        handles[c][s] = Cardinality({h \in held : c \in Counted /\ h[2] = c /\ h[3] = s})
  BY DEF Init
<1>4. \A c \in Counted, s \in Sides : handles[c][s] = Cardinality(HandlesOf(c, s))
  <2> TAKE c \in Counted, s \in Sides
  <2>1. {h \in held : c \in Counted /\ h[2] = c /\ h[3] = s} = HandlesOf(c, s) BY DEF HandlesOf
  <2> QED BY <1>3, <2>1 DEF Counted
<1>5. \A c \in Channels \ Counted, s \in Sides : handles[c][s] = 0
  <2> TAKE c \in Channels \ Counted, s \in Sides
  <2>1. {h \in held : c \in Counted /\ h[2] = c /\ h[3] = s} = {} OBVIOUS
  <2> QED BY <1>3, <2>1, FS_EmptySet
<1>6. handles \in [Channels -> [Sides -> Nat]]
  <2>1. \A c \in Channels, s \in Sides : handles[c][s] \in Nat BY <1>2, <1>4, <1>5
  <2> QED BY <2>1 DEF Init
<1>7. HandlesType BY <1>1, <1>6 DEF HandlesType, Init
<1>8. ASSUME NEW c \in Counted
      PROVE  (\E s \in Sides : handles[c][s] = 0) <=> disconnected[c] \/ Disconnecting(c)
  <2>1. ~Disconnecting(c) BY DEF Init, Disconnecting
  <2>2. \A s \in Sides : handles[c][s] = 0 <=> HandlesOf(c, s) = {}
    BY <1>2, <1>4, FS_EmptySet
  <2>3. HandlesOf(c, "send") = {} <=> HandlesOf(c, "recv") = {}
    BY PairsAssumption DEF Init, HandlesOf
  <2>4. (\E s \in Sides : handles[c][s] = 0) <=> (\A s \in Sides : handles[c][s] = 0)
    BY <2>2, <2>3 DEF Sides
  <2>5. disconnected[c] <=> handles[c] = [s \in Sides |-> 0] BY DEF Init, Counted
  <2>6. handles[c] = [s \in Sides |-> 0] <=> \A s \in Sides : handles[c][s] = 0
    BY <1>6 DEF Counted
  <2> QED BY <2>1, <2>4, <2>5, <2>6
<1> QED BY <1>4, <1>7, <1>8 DEF HInv, CountsOK, ClosedOK
-------------------------------------------------------------------------------
(* Most steps are quiet. *)

LEMMA QuietKeeps ==
  ASSUME HInv, NEW t \in Threads, Quiet(t)
  PROVE  HInv'
<1>1. HandlesType' BY DEF HInv, HandlesType, Quiet, handleVars
<1>2. CountsOK' BY DEF HInv, CountsOK, Quiet, handleVars, HandlesOf
<1>3. \A c : Disconnecting(c)' <=> Disconnecting(c) BY DEF Quiet, Disconnecting
<1>4. ClosedOK' BY <1>3 DEF HInv, ClosedOK, Quiet, handleVars
<1> QED BY <1>1, <1>2, <1>4 DEF HInv

LEMMA RunSelectGoes ==
  ASSUME DOMAIN pc = Threads, NEW t \in Threads, NEW list, NEW m, RunSelect(t, list, m)
  PROVE  /\ pc'[t] # "disconnect" /\ DOMAIN pc' = Threads
         /\ \A u \in Threads \ {t} : pc'[u] = pc[u]
  BY DEF RunSelect, Goto

LEMMA ReturnGoes ==
  ASSUME DOMAIN pc = Threads, DOMAIN token = Threads, NEW t \in Threads, NEW iterates, Return(t, iterates)
  PROVE  /\ pc'[t] # "disconnect" /\ DOMAIN pc' = Threads /\ DOMAIN token' = Threads
         /\ \A u \in Threads \ {t} : pc'[u] = pc[u] /\ token'[u] = token[u]
<1>1. DOMAIN token' = Threads /\ \A u \in Threads \ {t} : token'[u] = token[u] BY DEF Return
<1>2. CASE iterates /\ mode[t] = "iter" BY <1>1, <1>2, RunSelectGoes DEF Return
<1>3. CASE ~(iterates /\ mode[t] = "iter") BY <1>1, <1>3 DEF Return, Goto
<1> QED BY <1>2, <1>3

LEMMA NextOpGoes ==
  ASSUME DOMAIN pc = Threads, NEW t \in Threads, NEW here, NEW there, NextOp(t, here, there),
         here # "disconnect", there # "disconnect"
  PROVE  /\ pc'[t] # "disconnect" /\ DOMAIN pc' = Threads
         /\ \A u \in Threads \ {t} : pc'[u] = pc[u]
  BY DEF NextOp, Goto

LEMMA FireQuiet ==
  ASSUME HInv, NEW t \in Threads, NEW o, Fire(t, o), pc[t] # "disconnect"
  PROVE  Quiet(t)
  BY DEF Fire, Goto, Token, Quiet, HInv, HandlesType
\* Every step of a thread but the swap of is_disconnected.
LEMMA StepsQuiet ==
  ASSUME HInv, NEW t \in Threads, Step(t), ~Disconnect(t)
  PROVE  Quiet(t)
<1> USE DEF HInv, HandlesType
<1>1. CASE StartCall(t)
  BY <1>1, RunSelectGoes DEF StartCall, Quiet, Goto, Token
<1>2. CASE Sleep(t)
  BY <1>2 DEF Sleep, Quiet, Goto, Token
<1>3. CASE Snapshot(t)
  BY <1>3, NextOpGoes DEF Snapshot, Quiet, Goto, Token
<1>4. CASE Try(t)
  BY <1>4, NextOpGoes, FireQuiet DEF Try, Quiet, Goto, Token
<1>5. CASE Compare(t)
  BY <1>5, NextOpGoes DEF Compare, Quiet, Goto, Token
<1>6. CASE Retry(t)
  BY <1>6, NextOpGoes, FireQuiet DEF Retry, Quiet, Goto, Token
<1>7. CASE Pause(t)
  BY <1>7 DEF Pause, Quiet, Goto, Token
<1>8. CASE Unpause(t)
  BY <1>8, NextOpGoes DEF Unpause, Quiet, Goto, Token
<1>9. CASE RegisterOp(t)
  BY <1>9 DEF RegisterOp, Quiet, Goto, Token
<1>10. CASE Check(t)
  BY <1>10 DEF Check, Quiet, Goto, Token
<1>11. CASE Abort(t)
  BY <1>11 DEF Abort, Quiet, Goto, Token
<1>12. CASE Selected(t)
  BY <1>12 DEF Selected, Quiet, Goto, Token
<1>13. CASE Wait(t)
  BY <1>13 DEF Wait, Quiet, Goto, Token
<1>14. CASE UnregisterOp(t)
  BY <1>14 DEF UnregisterOp, Quiet, Goto, Token
<1>15. CASE Accept(t)
  BY <1>15, FireQuiet DEF Accept, Quiet, Goto, Token
<1>16. CASE Late(t)
  BY <1>16, RunSelectGoes DEF Late, Quiet, Goto, Token
<1>17. CASE Nothing(t)
  BY <1>17, ReturnGoes DEF Nothing, Quiet, Goto, Token
<1>18. CASE CompleteClosed(t)
  BY <1>18, ReturnGoes DEF CompleteClosed, Quiet, Goto, Token
<1>19. CASE CompleteSlot(t)
  BY <1>19, ReturnGoes DEF CompleteSlot, Quiet, Goto, Token
<1>20. CASE Wake(t)
  BY <1>20, ReturnGoes DEF Wake, Quiet, Goto, Token
<1>21. CASE CompletePacket(t)
  BY <1>21, ReturnGoes DEF CompletePacket, Quiet, Goto, Token
<1>22. CASE CompleteTime(t)
  BY <1>22, ReturnGoes DEF CompleteTime, Quiet, Goto, Token
<1>23. CASE DisconnectSenders(t)
  BY <1>23 DEF DisconnectSenders, Quiet, Goto, Token
<1>24. CASE DisconnectReceivers(t)
  BY <1>24 DEF DisconnectReceivers, Quiet, Goto, Token
<1> QED BY <1>1, <1>2, <1>3, <1>4, <1>5, <1>6, <1>7, <1>8, <1>9, <1>10, <1>11, <1>12, <1>13, <1>14, <1>15, <1>16, <1>17, <1>18, <1>19, <1>20, <1>21, <1>22, <1>23, <1>24 DEF Step

\* The clock changes nothing here.
LEMMA ClockKeeps ==
  ASSUME HInv, UNCHANGED <<pc, token, handleVars>>
  PROVE  HInv'
<1>1. HandlesType' /\ CountsOK' BY DEF HInv, HandlesType, CountsOK, HandlesOf, handleVars
<1>2. ClosedOK' BY DEF HInv, ClosedOK, Disconnecting, handleVars
<1> QED BY <1>1, <1>2 DEF HInv
-------------------------------------------------------------------------------
(* The steps of handles. *)

\* The thread that was about to disconnect has done so.
LEMMA DisconnectKeeps ==
  ASSUME HInv, NEW t \in Threads, Disconnect(t)
  PROVE  HInv'
<1> DEFINE c == token[t].op.chan
<1>1. HandlesType' BY DEF HInv, HandlesType, Disconnect, Goto
<1>2. CountsOK' BY DEF HInv, CountsOK, HandlesOf, Disconnect
<1>3. pc[t] = "disconnect" /\ disconnected' = [disconnected EXCEPT ![c] = TRUE] /\ handles' = handles
  BY DEF Disconnect
<1>4. pc'[t] # "disconnect" /\ \A u \in Threads \ {t} : pc'[u] = pc[u] /\ token'[u] = token[u]
  BY DEF HInv, HandlesType, Disconnect, Goto
<1>5. ASSUME NEW d \in Counted
      PROVE  (\E s \in Sides : handles'[d][s] = 0) <=> disconnected'[d] \/ Disconnecting(d)'
  <2>1. (\E s \in Sides : handles[d][s] = 0) <=> disconnected[d] \/ Disconnecting(d)
    BY DEF HInv, ClosedOK
  <2>2. CASE d = c
    <3>1. Disconnecting(d) BY <1>3, <2>2 DEF Disconnecting
    <3>2. disconnected'[d] BY <1>3, <2>2 DEF HInv, HandlesType, Counted
    <3> QED BY <1>3, <2>1, <3>1, <3>2
  <2>3. CASE d # c
    <3>1. Disconnecting(d)' <=> Disconnecting(d) BY <1>3, <1>4, <2>3 DEF Disconnecting
    <3>2. disconnected'[d] = disconnected[d] BY <1>3, <2>3 DEF HInv, HandlesType, Counted
    <3> QED BY <1>3, <2>1, <3>1, <3>2
  <2> QED BY <2>2, <2>3
<1> QED BY <1>1, <1>2, <1>5 DEF HInv, ClosedOK

\* A handle that goes was counted; the thread that drops the last one is about to disconnect.
LEMMA DropKeeps ==
  ASSUME HInv, NEW t \in Threads, DropHandle(t)
  PROVE  HInv'
<1>1. PICK h \in held :
        LET c == h[2] s == h[3] IN
        /\ h[1] = t /\ h \in Drops /\ pc[t] = "idle"
        /\ held' = held \ {h}
        /\ IF c \in Counted
           THEN /\ handles' = [handles EXCEPT ![c][s] = @ - 1]
                /\ IF handles[c][s] = 1
                   THEN Token(t, "drop", Op(c, s), 0) /\ Goto(t, "disconnect")
                   ELSE UNCHANGED <<token, pc>>
           ELSE UNCHANGED <<handles, token, pc>>
        /\ disconnected' = disconnected
  BY DEF DropHandle
<1> DEFINE c == h[2]
           s == h[3]
<1>2. c \in Channels /\ s \in Sides BY DEF HInv, HandlesType
<1>3. DOMAIN pc' = Threads /\ DOMAIN token' = Threads
  BY <1>1 DEF HInv, HandlesType, Token, Goto
<1>4. held' \subseteq Threads \X Channels \X Sides /\ IsFiniteSet(held')
  BY <1>1, FS_RemoveElement DEF HInv, HandlesType
<1>5. \A d, e : HandlesOf(d, e)' = IF d = c /\ e = s THEN HandlesOf(d, e) \ {h} ELSE HandlesOf(d, e)
  BY <1>1 DEF HandlesOf
<1>6. \A d, e : IsFiniteSet(HandlesOf(d, e)) /\ Cardinality(HandlesOf(d, e)) \in Nat
  BY FiniteSides DEF HInv
<1>7. CASE c \notin Counted
  <2>1. HandlesType' BY <1>1, <1>3, <1>4, <1>7 DEF HInv, HandlesType
  <2>2. CountsOK' BY <1>1, <1>5, <1>7 DEF HInv, CountsOK
  <2>3. ClosedOK' BY <1>1, <1>7 DEF HInv, ClosedOK, Disconnecting
  <2> QED BY <2>1, <2>2, <2>3 DEF HInv
<1>8. CASE c \in Counted
  <2>1. handles' = [handles EXCEPT ![c][s] = @ - 1] BY <1>1, <1>8
  <2>2. h \in HandlesOf(c, s) BY DEF HandlesOf
  <2>3. Cardinality(HandlesOf(c, s) \ {h}) = Cardinality(HandlesOf(c, s)) - 1
    <3>1. IsFiniteSet(HandlesOf(c, s)) BY <1>6
    <3> HIDE DEF c, s
    <3> QED BY <2>2, <3>1, FS_RemoveElement
  <2>4. Cardinality(HandlesOf(c, s) \ {h}) \in Nat
    BY <1>6, FS_RemoveElement, FS_CardinalityType
  <2>5. handles[c][s] = Cardinality(HandlesOf(c, s)) BY <1>2, <1>8 DEF HInv, CountsOK
  <2>6. handles'[c][s] = handles[c][s] - 1 /\ handles'[c][s] \in Nat
    BY <1>2, <2>1, <2>3, <2>4, <2>5 DEF HInv, HandlesType
  <2>7. \A d \in Channels, e \in Sides : ~(d = c /\ e = s) => handles'[d][e] = handles[d][e]
    BY <1>2, <2>1 DEF HInv, HandlesType
  <2>8. HandlesType' BY <1>1, <1>2, <1>3, <1>4, <2>1, <2>6 DEF HInv, HandlesType
  <2>9. ASSUME NEW d \in Counted, NEW e \in Sides
        PROVE  handles'[d][e] = Cardinality(HandlesOf(d, e)')
    <3>1. handles[d][e] = Cardinality(HandlesOf(d, e)) BY DEF HInv, CountsOK
    <3>2. CASE d = c /\ e = s BY <1>5, <2>3, <2>5, <2>6, <3>2
    <3>3. CASE ~(d = c /\ e = s) BY <1>5, <2>7, <3>1, <3>3 DEF Counted
    <3> QED BY <3>2, <3>3
  <2>10. ASSUME NEW d \in Counted
         PROVE  (\E e \in Sides : handles'[d][e] = 0) <=> disconnected'[d] \/ Disconnecting(d)'
    <3>1. (\E e \in Sides : handles[d][e] = 0) <=> disconnected[d] \/ Disconnecting(d)
      BY DEF HInv, ClosedOK
    <3>2. CASE handles[c][s] = 1
      <4>1. pc'[t] = "disconnect" /\ token'[t].op.chan = c
        BY <1>1, <1>8, <3>2 DEF Token, Goto, Op, HInv, HandlesType
      <4>2. \A u \in Threads \ {t} : pc'[u] = pc[u] /\ token'[u] = token[u]
        BY <1>1, <1>8, <3>2 DEF Token, Goto, HInv, HandlesType
      <4>3. CASE d = c
        <5>1. Disconnecting(d)' BY <4>1, <4>3 DEF Disconnecting
        <5> QED BY <1>2, <2>6, <3>2, <4>3, <5>1
      <4>4. CASE d # c
        <5>1. Disconnecting(d)' <=> Disconnecting(d) BY <1>1, <4>1, <4>2, <4>4 DEF Disconnecting
        <5>2. \A e \in Sides : handles'[d][e] = handles[d][e] BY <2>7, <4>4 DEF Counted
        <5> QED BY <1>1, <3>1, <5>1, <5>2
      <4> QED BY <4>3, <4>4
    <3>3. CASE handles[c][s] # 1
      <4>1. Disconnecting(d)' <=> Disconnecting(d) BY <1>1, <1>8, <3>3 DEF Disconnecting
      <4>2. handles[c][s] # 0 /\ handles'[c][s] # 0
        BY <1>2, <2>6, <3>3 DEF HInv, HandlesType
      <4>3. \A e \in Sides : handles'[d][e] = 0 <=> handles[d][e] = 0
        BY <2>7, <4>2 DEF Counted
      <4> QED BY <1>1, <3>1, <4>1, <4>3
    <3> QED BY <3>2, <3>3
  <2> QED BY <2>8, <2>9, <2>10 DEF HInv, CountsOK, ClosedOK
<1> QED BY <1>7, <1>8

\* A clone is made of a handle that is there, so the side has not gone.
LEMMA CloneKeeps ==
  ASSUME HInv, NEW t \in Threads, CloneHandle(t)
  PROVE  HInv'
<1>1. PICK h \in held, u \in Threads :
        /\ <<u, h[2], h[3]>> \in Clones \ held
        /\ held' = held \cup {<<u, h[2], h[3]>>}
        /\ handles' = IF h[2] \in Counted THEN [handles EXCEPT ![h[2]][h[3]] = @ + 1] ELSE handles
        /\ UNCHANGED <<pc, token, disconnected>>
  BY DEF CloneHandle
<1> DEFINE c == h[2]
           s == h[3]
           mine == <<u, c, s>>
<1>2. c \in Channels /\ s \in Sides BY DEF HInv, HandlesType
<1>3. held' \subseteq Threads \X Channels \X Sides /\ IsFiniteSet(held')
  <2>1. held' = held \cup {mine} BY <1>1
  <2>2. mine \in Threads \X Channels \X Sides BY <1>2
  <2>3. IsFiniteSet(held) BY DEF HInv, HandlesType
  <2>4. IsFiniteSet(held \cup {mine})
    <3> HIDE DEF mine
    <3> QED BY <2>3, FS_AddElement
  <2> QED BY <2>1, <2>2, <2>4 DEF HInv, HandlesType
<1>4. \A d, e : HandlesOf(d, e)' = IF d = c /\ e = s THEN HandlesOf(d, e) \cup {mine} ELSE HandlesOf(d, e)
  BY <1>1 DEF HandlesOf
<1>5. IsFiniteSet(HandlesOf(c, s)) /\ Cardinality(HandlesOf(c, s)) \in Nat
  BY FiniteSides DEF HInv
<1>6. Cardinality(HandlesOf(c, s) \cup {mine}) = Cardinality(HandlesOf(c, s)) + 1
  <2>1. mine \notin HandlesOf(c, s) BY <1>1 DEF HandlesOf
  <2> QED BY <1>5, <2>1, FS_AddElement
<1>7. Cardinality(HandlesOf(c, s)) # 0
  <2>1. h \in HandlesOf(c, s) BY DEF HandlesOf
  <2> QED BY <1>5, <2>1, FS_EmptySet
<1>8. HandlesType' BY <1>1, <1>2, <1>3 DEF HInv, HandlesType
<1>9. \A d \in Counted, e \in Sides :
        handles'[d][e] = IF d = c /\ e = s THEN handles[d][e] + 1 ELSE handles[d][e]
  BY <1>1, <1>2 DEF HInv, HandlesType, Counted
<1>10. ASSUME NEW d \in Counted, NEW e \in Sides
       PROVE  handles'[d][e] = Cardinality(HandlesOf(d, e)')
  <2>1. handles[d][e] = Cardinality(HandlesOf(d, e)) BY DEF HInv, CountsOK
  <2>2. CASE d = c /\ e = s
    <3>1. HandlesOf(d, e)' = HandlesOf(c, s) \cup {mine} BY <1>4, <2>2
    <3> QED BY <1>6, <1>9, <2>1, <2>2, <3>1
  <2>3. CASE ~(d = c /\ e = s) BY <1>4, <1>9, <2>1, <2>3
  <2> QED BY <2>2, <2>3
<1>11. ASSUME NEW d \in Counted
       PROVE  (\E e \in Sides : handles'[d][e] = 0) <=> disconnected'[d] \/ Disconnecting(d)'
  <2>1. (\E e \in Sides : handles[d][e] = 0) <=> disconnected[d] \/ Disconnecting(d)
    BY DEF HInv, ClosedOK
  <2>2. \A e \in Sides : handles'[d][e] = 0 <=> handles[d][e] = 0
    <3>1. d = c => handles[d][s] = Cardinality(HandlesOf(c, s)) BY <1>2 DEF HInv, CountsOK
    <3> QED BY <1>2, <1>5, <1>7, <1>9, <3>1
  <2>3. Disconnecting(d)' <=> Disconnecting(d) BY <1>1 DEF Disconnecting
  <2> QED BY <1>1, <2>1, <2>2, <2>3
<1> QED BY <1>8, <1>10, <1>11 DEF HInv, CountsOK, ClosedOK
-------------------------------------------------------------------------------
LEMMA HStep == HInv /\ [Next]_vars => HInv'
<1> SUFFICES ASSUME HInv, [Next]_vars PROVE HInv' OBVIOUS
<1>1. CASE UNCHANGED vars BY <1>1, ClockKeeps DEF vars
<1>2. ASSUME NEW t \in Threads, Step(t) PROVE HInv'
  <2>1. CASE Disconnect(t) BY <2>1, DisconnectKeeps
  <2>2. CASE ~Disconnect(t) BY <1>2, <2>2, StepsQuiet, QuietKeeps
  <2> QED BY <2>1, <2>2
<1>3. ASSUME NEW t \in Threads, DropHandle(t) PROVE HInv' BY <1>3, DropKeeps
<1>4. ASSUME NEW t \in Threads, CloneHandle(t) PROVE HInv' BY <1>4, CloneKeeps
<1>5. ASSUME NEW t \in Threads, Expire(t) PROVE HInv' BY <1>5, ClockKeeps DEF Expire
<1>6. ASSUME NEW c \in Channels, TimerFires(c) PROVE HInv' BY <1>6, ClockKeeps DEF TimerFires
<1> QED BY <1>1, <1>2, <1>3, <1>4, <1>5, <1>6 DEF Next

\* Sender and Receiver handles are counted exactly, however many threads clone and drop them at
\* once, and a channel is disconnected, or one thread is about to do it, exactly when one of its
\* sides has no handle left (channel.rs:344, channel.rs:568, channel.rs:1013).
THEOREM CountsCorrect == Spec => []HandlesCounted
<1>1. Init => HInv BY HInit
<1>2. HInv /\ [Next]_vars => HInv' BY HStep
<1>3. HInv => HandlesCounted BY HInvImplies
<1> QED BY <1>1, <1>2, <1>3, PTL DEF Spec
-------------------------------------------------------------------------------
(* Where a call is, what it has registered, and whom it is paired with. *)

\* There are no handles to send to a timer.
Ops == {o \in [chan : Channels, side : Sides] : o.side = "send" => o.chan \in Counted}
Modes == {"now", "never", "at", "recv", "recvAt", "iter"}
Kinds == {"none", "closed", "slot", "packet", "time", "wake", "drop"}
Item == [thread : Threads, oper : Nat]

CallTyped ==
  /\ pc \in [Threads -> Labels] /\ i \in [Threads -> Nat]
  /\ ops \in [Threads -> Seq(Ops)] /\ mode \in [Threads -> Modes]
  /\ registered \in [Threads -> Nat]
  /\ token \in [Threads -> [kind : Kinds, op : Ops \cup {NoOp}, pos : Nat]]

SharedTyped ==
  /\ head \in [Channels -> Nat] /\ tail \in [Channels -> Nat] /\ due \in [Channels -> BOOLEAN]
  /\ held \subseteq Threads \X Channels \X Sides
  /\ disconnected \in [Channels -> BOOLEAN]
  /\ entries \in [Channels -> [Sides -> Seq(Item)]]
  /\ select \in [Threads -> Nat] /\ peer \in [Threads -> Threads \cup {NoThread}]

Typed == CallTyped /\ SharedTyped

Dropping == {"disconnect", "wakeSenders", "wakeReceivers"}
Trying == {"snapshot", "try", "compare", "retry", "pause", "unpause"}

\* The operation a call has got to is one of its list; where it is in registering them.
PlaceOK(t) ==
  /\ pc[t] \notin Listless => i[t] \in 1 .. Len(ops[t])
  /\ pc[t] \in Trying => registered[t] = 0
  /\ pc[t] = "register" => registered[t] + 1 = i[t]
  /\ pc[t] \in {"check", "abort", "selected"} => registered[t] = i[t]
  /\ pc[t] = "wait" => registered[t] = Len(ops[t]) /\ i[t] = 1
  /\ pc[t] = "unregister" => i[t] <= registered[t]
  /\ pc[t] \in {"unregister", "accept"} => registered[t] <= Len(ops[t])
  /\ pc[t] \in {"idle"} \cup Dropping => ops[t] = <<>>
  /\ Plain(mode[t]) => \A k \in DOMAIN ops[t] : Flavor[ops[t][k].chan] \in {"list", "never"}

\* The handles that a call works on stay with its thread.
HeldOK ==
  /\ \A t \in Threads : \A k \in DOMAIN ops[t] : <<t, ops[t][k].chan, ops[t][k].side>> \in held
  /\ \A h \in held : h[3] = "send" => h[2] \in Counted

\* The token belongs to the end of a call, or of a drop.
TokenOK(t) ==
  /\ pc[t] = "complete" => token[t].kind \in {"closed", "slot", "packet", "time"}
  /\ pc[t] = "wake" => token[t].kind = "wake"
  /\ pc[t] \in Dropping => token[t].kind = "drop" /\ token[t].op.chan \in Counted
  /\ pc[t] \in {"wakeSenders", "wakeReceivers"} => Flavor[token[t].op.chan] # "zero"
  /\ pc[t] \notin Dropping \cup {"complete", "wake"} => token[t].kind = "none"
  /\ pc[t] \in {"complete", "wake"} => \E k \in DOMAIN ops[t] : token[t].op = ops[t][k]
  /\ token[t].kind = "closed" => token[t].op.chan \in Counted

\* What the later steps of a call rest on: it has not begun to wait for anything.
CallOK(t) == PlaceOK(t) /\ TokenOK(t)
CallsOK == HeldOK /\ \A t \in Threads : CallOK(t)

\* A registration has begun, and Context::with has reset the context.
Begun(t) == pc[t] \in Registering \cup {"accept"} /\ ~(pc[t] = "register" /\ i[t] = 1)

\* Who may have selected an operation, and which.
SelectedOK(t) ==
  /\ pc[t] = "pause" => select[t] \in {Waiting, Disconnected, Operation(0)}
  /\ pc[t] = "unpause" => select[t] \in {Aborted, Disconnected}
  /\ pc[t] \in {"unregister", "accept"} => select[t] # Waiting
  /\ pc[t] \in {"pause", "unpause"} => Flavor[Mine(t).chan] = "zero"
  /\ pc[t] \in {"pause", "unpause"} /\ select[t] = Disconnected => disconnected[Mine(t).chan]
  /\ Begun(t) /\ select[t] >= Operation(0) => Selection(t) \in 1 .. registered[t]

\* The entries of a waker, each of which is there once.
Items(o) == Range(entries[o.chan][o.side])
Distinct(q) == \A j, k \in 1 .. Len(q) : q[j] = q[k] => j = k

\* An entry belongs to an operation that is registered.
ItemOK(e, o) ==
  LET t == e.thread IN
  \/ e.oper = 0 /\ pc[t] \in {"pause", "unpause"} /\ Mine(t) = o
  \/ /\ pc[t] \in Registering /\ e.oper \in 1 .. registered[t] /\ ops[t][e.oper] = o
     /\ pc[t] = "unregister" => e.oper >= i[t]

EntriesOK ==
  /\ \A c \in Channels, s \in Sides : Distinct(entries[c][s])
  /\ \A c \in Channels, s \in Sides : \A e \in Items(Op(c, s)) : ItemOK(e, Op(c, s))

Entry(t, n) == [thread |-> t, oper |-> n]

\* Does an operation wait in a waker?
Queues(o) == Flavor[o.chan] \in {"array", "zero"} \/ (Flavor[o.chan] = "list" /\ o.side = "recv")

\* What waits is in a waker.
PresentOK(t) ==
  /\ pc[t] \in Registering /\ Begun(t) /\ select[t] = Waiting =>
       \A n \in 1 .. registered[t] : Queues(ops[t][n]) => Entry(t, n) \in Items(ops[t][n])
  /\ pc[t] \in {"pause", "unpause"} => (Entry(t, 0) \in Items(Mine(t)) <=> select[t] # Operation(0))

WaitsOK == EntriesOK /\ \A t \in Threads : SelectedOK(t) /\ PresentOK(t)

QueuesOK ==
  \A c \in Counted :
    /\ head[c] <= tail[c]
    /\ Flavor[c] = "array" => tail[c] <= head[c] + Cap[c]
    /\ Flavor[c] = "zero" => head[c] = tail[c]

\* One end of a pair: it goes straight on to hand over the message.
PairedOK(t) ==
  /\ pc[t] \in Registering \cup {"pause", "accept", "complete"}
  /\ pc[t] = "complete" => token[t].kind = "packet"
  /\ pc[t] = "pause" => select[t] = Operation(0)
  /\ pc[t] \in Registering \cup {"accept"} => Begun(t) /\ select[t] >= Operation(1)
  /\ Flavor[Bound(t).chan] = "zero"

\* The two ends.
PeerOK(t) ==
  \A u \in Threads : peer[t] = u =>
    /\ peer[u] = t /\ u # t /\ PairedOK(t)
    /\ Bound(t).chan = Bound(u).chan /\ Bound(t).side = Opposite(Bound(u).side)

PeersOK == \A t \in Threads : PeerOK(t)
-------------------------------------------------------------------------------
(* Operators of the model. *)

\* Min of a set of natural numbers is its least element.
LEMMA MinIsLeast ==
  ASSUME NEW S \in SUBSET Nat, S # {}
  PROVE  Min(S) \in S /\ \A y \in S : Min(S) <= y
<1>1. PICK x \in S : \A y \in S : ~(<<y, x>> \in OpToRel(<, Nat))
  <2>1. PICK z \in S : TRUE
    OBVIOUS
  <2>2. IsWellFoundedOn(OpToRel(<, Nat), Nat)
    BY NatLessThanWellFounded
  <2> QED
    BY <2>1, <2>2, WFMin
<1>2. ASSUME NEW y \in S PROVE x <= y
  <2>1. \A a, b \in Nat : a < b => <<a, b>> \in OpToRel(<, Nat)
    BY DEF OpToRel
  <2>2. ~(y < x)
    BY <1>1, <2>1
  <2> QED
    BY <2>2
<1> QED
  BY <1>2 DEF Min

\* RemoveAt moves what follows one place down.
LEMMA RemoveAtShifts ==
  ASSUME NEW S, NEW q \in Seq(S), NEW n \in 1 .. Len(q)
  PROVE  /\ RemoveAt(q, n) \in Seq(S)
         /\ Len(RemoveAt(q, n)) = Len(q) - 1
         /\ \A j \in 1 .. Len(q) - 1 : RemoveAt(q, n)[j] = q[IF j < n THEN j ELSE j + 1]
<1> DEFINE before == SubSeq(q, 1, n - 1)
           after == SubSeq(q, n + 1, Len(q))
<1>1. before \in Seq(S) /\ Len(before) = n - 1 /\ \A j \in 1 .. n - 1 : before[j] = q[j]
  BY SubSeqProperties, n - 1 \in Int, LenProperties
<1>2. /\ after \in Seq(S) /\ Len(after) = Len(q) - n
      /\ \A j \in 1 .. Len(q) - n : after[j] = q[n + j]
  BY SubSeqProperties, LenProperties
<1>3. RemoveAt(q, n) = before \o after
  BY DEF RemoveAt
<1> HIDE DEF before, after
<1>4. RemoveAt(q, n) \in Seq(S) /\ Len(RemoveAt(q, n)) = Len(q) - 1
  BY <1>1, <1>2, <1>3, ConcatProperties, LenProperties
<1>5. ASSUME NEW j \in 1 .. Len(q) - 1
      PROVE  RemoveAt(q, n)[j] = q[IF j < n THEN j ELSE j + 1]
  <2>1. RemoveAt(q, n)[j] = IF j <= Len(before) THEN before[j] ELSE after[j - Len(before)]
    BY <1>1, <1>2, <1>3, ConcatProperties, LenProperties
  <2>2. CASE j < n
    BY <2>1, <2>2, <1>1
  <2>3. CASE ~(j < n)
    BY <2>1, <2>3, <1>1, <1>2
  <2> QED
    BY <2>2, <2>3
<1> QED
  BY <1>4, <1>5

\* What is left of a sequence without repetitions when one of its elements is removed.
LEMMA RemoveAtIs ==
  ASSUME NEW S, NEW q \in Seq(S), Distinct(q), NEW n \in 1 .. Len(q)
  PROVE  /\ RemoveAt(q, n) \in Seq(S) /\ Distinct(RemoveAt(q, n))
         /\ Range(RemoveAt(q, n)) = Range(q) \ {q[n]}
<1> DEFINE r == RemoveAt(q, n)
           From(k) == IF k < n THEN k ELSE k + 1
<1>1. r \in Seq(S) /\ Len(r) = Len(q) - 1 /\ \A k \in 1 .. Len(q) - 1 : r[k] = q[From(k)]
  BY RemoveAtShifts
<1>2. DOMAIN r = 1 .. Len(q) - 1 /\ DOMAIN q = 1 .. Len(q) /\ Len(q) \in Nat
  BY <1>1, LenProperties
<1>3. \A k \in 1 .. Len(q) - 1 : From(k) \in 1 .. Len(q) /\ From(k) # n
  BY <1>2
<1>4. \A j, k \in 1 .. Len(q) - 1 : From(j) = From(k) => j = k
  BY <1>2
<1>5. \A m \in 1 .. Len(q) : m # n => \E k \in 1 .. Len(q) - 1 : From(k) = m
  <2> TAKE m \in 1 .. Len(q)
  <2> HAVE m # n
  <2>1. CASE m < n BY <1>2, <2>1
  <2>2. CASE m > n
    <3>1. m - 1 \in 1 .. Len(q) - 1 /\ From(m - 1) = m BY <1>2, <2>2
    <3> QED BY <3>1
  <2> QED BY <1>2, <2>1, <2>2
<1> HIDE DEF From
<1>6. \A j, k \in 1 .. Len(r) : r[j] = r[k] => j = k
  BY <1>1, <1>3, <1>4 DEF Distinct
<1>7. Range(r) = Range(q) \ {q[n]}
  <2>1. ASSUME NEW x \in Range(r) PROVE x \in Range(q) /\ x # q[n]
    <3>1. PICK k \in 1 .. Len(q) - 1 : x = r[k] BY <1>2 DEF Range
    <3>2. x = q[From(k)] /\ From(k) \in 1 .. Len(q) /\ From(k) # n BY <1>1, <1>3, <3>1
    <3> QED BY <1>2, <3>2 DEF Distinct, Range
  <2>2. ASSUME NEW x \in Range(q), x # q[n] PROVE x \in Range(r)
    <3>1. PICK m \in 1 .. Len(q) : x = q[m] BY <1>2 DEF Range
    <3>2. m # n BY <2>2, <3>1
    <3>3. PICK k \in 1 .. Len(q) - 1 : From(k) = m BY <1>5, <3>2
    <3>4. x = r[k] BY <1>1, <3>1, <3>3
    <3> QED BY <1>2, <3>4 DEF Range
  <2> QED BY <2>1, <2>2
<1> HIDE DEF r
<1>8. Distinct(r) BY <1>6 DEF Distinct
<1> QED BY <1>1, <1>7, <1>8 DEF r

LEMMA RemoveFirstIs ==
  ASSUME NEW S, NEW q \in Seq(S), Distinct(q), NEW e
  PROVE  /\ RemoveFirst(q, e) \in Seq(S) /\ Distinct(RemoveFirst(q, e))
         /\ Range(RemoveFirst(q, e)) = Range(q) \ {e}
<1> DEFINE I == {n \in 1 .. Len(q) : q[n] = e}
<1>0. Len(q) \in Nat /\ DOMAIN q = 1 .. Len(q) BY LenProperties
<1>1. CASE I = {}
  <2>1. RemoveFirst(q, e) = q BY <1>1 DEF RemoveFirst
  <2>2. e \notin Range(q) BY <1>0, <1>1 DEF Range
  <2> QED BY <2>1, <2>2
<1>2. CASE I # {}
  <2>1. I \in SUBSET Nat BY <1>0
  <2> HIDE DEF I
  <2>2. Min(I) \in I BY <1>2, <2>1, MinIsLeast
  <2>3. RemoveFirst(q, e) = RemoveAt(q, Min(I)) BY <1>2 DEF RemoveFirst, SelectInSeq, I
  <2>4. Min(I) \in 1 .. Len(q) /\ q[Min(I)] = e BY <2>2 DEF I
  <2> QED BY <2>3, <2>4, RemoveAtIs
<1> QED BY <1>1, <1>2

LEMMA AppendIs ==
  ASSUME NEW S, NEW q \in Seq(S), Distinct(q), NEW e \in S, e \notin Range(q)
  PROVE  /\ Append(q, e) \in Seq(S) /\ Distinct(Append(q, e))
         /\ Range(Append(q, e)) = Range(q) \cup {e}
<1>1. /\ Append(q, e) \in Seq(S) /\ Len(Append(q, e)) = Len(q) + 1
      /\ \A k \in 1 .. Len(q) : Append(q, e)[k] = q[k]
      /\ Append(q, e)[Len(q) + 1] = e
  BY AppendProperties
<1>2. Len(q) \in Nat /\ DOMAIN q = 1 .. Len(q) /\ DOMAIN Append(q, e) = 1 .. Len(q) + 1
  BY <1>1, LenProperties
<1>3. \A k \in 1 .. Len(q) : q[k] # e BY <1>2 DEF Range
<1>4. Distinct(Append(q, e)) BY <1>1, <1>2, <1>3 DEF Distinct
<1>5. Range(Append(q, e)) = Range(q) \cup {e} BY <1>1, <1>2 DEF Range
<1> QED BY <1>1, <1>4, <1>5

\* An operation is its channel and its side.
LEMMA OpIs ==
  ASSUME NEW o \in Ops
  PROVE  /\ o.chan \in Channels /\ o.side \in Sides /\ o = Op(o.chan, o.side)
         /\ Flavor[o.chan] \in {"array", "list", "zero", "after", "tick", "never"}
         /\ o.chan \in Counted <=> Flavor[o.chan] \in {"array", "list", "zero"}
         /\ o.chan \notin Counted => o.side = "recv"
         /\ o.side = "send" \/ o.side = "recv"
  BY SelectAssumption DEF Ops, Op, Counted, Sides

\* What the handle of each flavor says, where it matters below.
LEMMA HandleIs ==
  ASSUME SharedTyped, NEW t \in Threads, NEW o \in Ops
  PROVE  /\ Handle(t, o).waits <=> Queues(o)
         /\ o.chan \notin Counted => ~Handle(t, o).closed
         /\ Flavor[o.chan] = "never" => ~Handle(t, o).ready
         /\ Flavor[o.chan] \in {"array", "list"} /\ o.side = "recv" =>
              /\ Handle(t, o).closed <=> head[o.chan] = tail[o.chan] /\ disconnected[o.chan]
              /\ Handle(t, o).ready <=> head[o.chan] # tail[o.chan] \/ disconnected[o.chan]
         /\ Flavor[o.chan] = "array" /\ o.side = "send" =>
              /\ Handle(t, o).closed <=> disconnected[o.chan]
              /\ Handle(t, o).ready <=> tail[o.chan] # head[o.chan] + Cap[o.chan] \/ disconnected[o.chan]
         /\ Flavor[o.chan] = "list" /\ o.side = "send" =>
              /\ Handle(t, o).closed <=> disconnected[o.chan]
         /\ Flavor[o.chan] = "zero" =>
              /\ Handle(t, o).closed <=>
                   Wakeable(t, o.chan, Opposite(o.side)) = {} /\ disconnected[o.chan]
              /\ Handle(t, o).ready <=>
                   Wakeable(t, o.chan, Opposite(o.side)) # {} \/ disconnected[o.chan]
<1>0. disconnected[o.chan] \in BOOLEAN BY OpIs DEF SharedTyped
<1>1. o.side = "send" \/ o.side = "recv" BY OpIs
<1> DEFINE c == o.chan
<1>2. CASE o.side = "send"
  <2>1. c \in Counted BY <1>2 DEF Ops
  <2>2. Handle(t, o) = SenderHandle(t, c) BY <1>2 DEF Handle
  <2>3. CASE Flavor[c] = "array"
    <3>1. Handle(t, o) = ArraySender(c) BY <2>2, <2>3 DEF SenderHandle
    <3>2. ArraySender(c).closed <=> disconnected[c] BY <1>0 DEF ArraySender
    <3>3. ArraySender(c).ready <=> tail[c] # head[c] + Cap[c] \/ disconnected[c]
      BY <1>0 DEF ArraySender, IsFull
    <3>4. ArraySender(c).waits BY DEF ArraySender
    <3> QED BY <1>2, <2>1, <2>3, <3>1, <3>2, <3>3, <3>4 DEF Queues
  <2>4. CASE Flavor[c] = "list"
    <3>1. Handle(t, o) = ListSender(c) BY <2>2, <2>4 DEF SenderHandle
    <3>2. (ListSender(c).closed <=> disconnected[c]) /\ ~ListSender(c).waits BY <1>0 DEF ListSender
    <3> QED BY <1>2, <2>1, <2>4, <3>1, <3>2 DEF Queues
  <2>5. CASE Flavor[c] = "zero"
    <3>1. Handle(t, o) = ZeroSender(t, c) BY <2>2, <2>5 DEF SenderHandle
    <3>2. Opposite(o.side) = "recv" BY <1>2 DEF Opposite
    <3>3. ZeroSender(t, c).closed <=> Wakeable(t, c, "recv") = {} /\ disconnected[c]
      BY <1>0 DEF ZeroSender
    <3>4. ZeroSender(t, c).ready <=> Wakeable(t, c, "recv") # {} \/ disconnected[c]
      BY <1>0 DEF ZeroSender
    <3>5. ZeroSender(t, c).waits BY DEF ZeroSender
    <3> QED BY <1>2, <2>1, <2>5, <3>1, <3>2, <3>3, <3>4, <3>5 DEF Queues
  <2> QED BY <2>1, <2>3, <2>4, <2>5 DEF Counted
<1>3. CASE o.side = "recv"
  <2>2. Handle(t, o) = ReceiverHandle(t, c) BY <1>3 DEF Handle
  <2>3. CASE Flavor[c] = "array"
    <3>1. Handle(t, o) = ArrayReceiver(c) BY <2>2, <2>3 DEF ReceiverHandle
    <3>2. ArrayReceiver(c).closed <=> head[c] = tail[c] /\ disconnected[c]
      BY <1>0 DEF ArrayReceiver, IsEmpty
    <3>3. ArrayReceiver(c).ready <=> head[c] # tail[c] \/ disconnected[c]
      BY <1>0 DEF ArrayReceiver, IsEmpty
    <3>4. ArrayReceiver(c).waits BY DEF ArrayReceiver
    <3> QED BY <1>3, OpIs, <2>3, <3>1, <3>2, <3>3, <3>4 DEF Queues
  <2>4. CASE Flavor[c] = "list"
    <3>1. Handle(t, o) = ListReceiver(c) BY <2>2, <2>4 DEF ReceiverHandle
    <3>2. ListReceiver(c).closed <=> head[c] = tail[c] /\ disconnected[c]
      BY <1>0 DEF ListReceiver, IsEmpty
    <3>3. ListReceiver(c).ready <=> head[c] # tail[c] \/ disconnected[c]
      BY <1>0 DEF ListReceiver, IsEmpty
    <3>4. ListReceiver(c).waits BY DEF ListReceiver
    <3> QED BY <1>3, OpIs, <2>4, <3>1, <3>2, <3>3, <3>4 DEF Queues
  <2>5. CASE Flavor[c] = "zero"
    <3>1. Handle(t, o) = ZeroReceiver(t, c) BY <2>2, <2>5 DEF ReceiverHandle
    <3>2. Opposite(o.side) = "send" BY <1>3 DEF Opposite
    <3>3. ZeroReceiver(t, c).closed <=> Wakeable(t, c, "send") = {} /\ disconnected[c]
      BY <1>0 DEF ZeroReceiver
    <3>4. ZeroReceiver(t, c).ready <=> Wakeable(t, c, "send") # {} \/ disconnected[c]
      BY <1>0 DEF ZeroReceiver
    <3>5. ZeroReceiver(t, c).waits BY DEF ZeroReceiver
    <3> QED BY <1>3, OpIs, <2>5, <3>1, <3>2, <3>3, <3>4, <3>5 DEF Queues
  <2>6. CASE Flavor[c] = "after"
    <3>1. Handle(t, o) = AfterReceiver(c) BY <2>2, <2>6 DEF ReceiverHandle
    <3> QED BY <1>3, OpIs, <2>6, <3>1 DEF AfterReceiver, Queues
  <2>7. CASE Flavor[c] = "tick"
    <3>1. Handle(t, o) = TickReceiver(c) BY <2>2, <2>7 DEF ReceiverHandle
    <3> QED BY <1>3, OpIs, <2>7, <3>1 DEF TickReceiver, Queues
  <2>8. CASE Flavor[c] = "never"
    <3>1. Handle(t, o) = NeverReceiver BY <2>2, <2>8 DEF ReceiverHandle
    <3> QED BY <1>3, OpIs, <2>8, <3>1 DEF NeverReceiver, Queues
  <2> QED BY <2>3, <2>4, <2>5, <2>6, <2>7, <2>8, OpIs
<1> QED BY <1>1, <1>2, <1>3

\* run_select goes through the list in another order.
LEMMA ShuffledIs ==
  ASSUME NEW S, NEW list \in Seq(S), NEW order \in Shuffled(list)
  PROVE  /\ order \in Seq(S) /\ Len(order) = Len(list) /\ DOMAIN order = DOMAIN list
         /\ \A k \in DOMAIN order : \E j \in DOMAIN list : order[k] = list[j]
<1>1. PICK p \in Bijection(DOMAIN list, DOMAIN list) : order = [k \in DOMAIN list |-> list[p[k]]]
  BY DEF Shuffled
<1>2. p \in [DOMAIN list -> DOMAIN list] BY DEF Bijection, Injection
<1>3. DOMAIN list = 1 .. Len(list) /\ Len(list) \in Nat BY LenProperties
<1>4. \A k \in DOMAIN list : list[p[k]] \in S /\ p[k] \in DOMAIN list
  BY <1>2, <1>3, ElementOfSeq
<1>5. order \in [1 .. Len(list) -> S] BY <1>1, <1>3, <1>4
<1>6. order \in Seq(S) BY <1>3, <1>5
<1>7. Len(order) = Len(list) BY <1>3, <1>5, <1>6, LenProperties
<1> QED BY <1>1, <1>3, <1>4, <1>6, <1>7

\* The empty list has no order but itself.
LEMMA EmptyIs == <<>> \in Seq(Ops) /\ Len(<<>>) = 0
  OBVIOUS
-------------------------------------------------------------------------------
(* A step of t leaves the calls of the others alone, and the types. *)

Own(t) ==
  \A u \in Threads \ {t} :
    /\ pc'[u] = pc[u] /\ i'[u] = i[u] /\ ops'[u] = ops[u] /\ mode'[u] = mode[u]
    /\ registered'[u] = registered[u] /\ token'[u] = token[u]

LEMMA RunSelectCall ==
  ASSUME CallTyped, NEW t \in Threads, NEW list \in Seq(Ops), NEW m \in Modes,
         RunSelect(t, list, m)
  PROVE  /\ pc' \in [Threads -> Labels] /\ i' \in [Threads -> Nat] /\ ops' \in [Threads -> Seq(Ops)]
         /\ mode' \in [Threads -> Modes] /\ registered' \in [Threads -> Nat]
         /\ \A u \in Threads \ {t} :
              /\ pc'[u] = pc[u] /\ i'[u] = i[u] /\ ops'[u] = ops[u] /\ mode'[u] = mode[u]
              /\ registered'[u] = registered[u]
         /\ i'[t] = 1 /\ registered'[t] = 0 /\ mode'[t] = m
         /\ pc'[t] \in {"nothing", "sleep", "snapshot", "try"}
         /\ pc'[t] \in {"snapshot", "try"} => Len(ops'[t]) > 0
         /\ \A k \in DOMAIN ops'[t] : \E j \in DOMAIN list : ops'[t][k] = list[j]
<1>1. PICK order \in Shuffled(list) : ops' = [ops EXCEPT ![t] = order] BY DEF RunSelect
<1>2. /\ order \in Seq(Ops) /\ Len(order) = Len(list)
      /\ \A k \in DOMAIN order : \E j \in DOMAIN list : order[k] = list[j]
  BY ShuffledIs
<1>3. ops' \in [Threads -> Seq(Ops)] /\ ops'[t] = order /\ \A u \in Threads \ {t} : ops'[u] = ops[u]
  BY <1>1, <1>2 DEF CallTyped
<1>4. Len(list) \in Nat BY LenProperties
<1> DEFINE label == IF m = "now" /\ Len(list) = 0 THEN "nothing"
             ELSE IF Len(list) = 0 \/ (Plain(m) /\ Flavor[list[1].chan] = "never") THEN "sleep"
             ELSE IF m = "now" /\ Len(list) > 1 THEN "snapshot"
             ELSE "try"
<1>5. /\ label \in {"nothing", "sleep", "snapshot", "try"}
      /\ label \in {"snapshot", "try"} => Len(list) > 0
  BY <1>4
<1>6. pc' = [pc EXCEPT ![t] = label] BY DEF RunSelect, Goto
<1> HIDE DEF label
<1>7. pc' \in [Threads -> Labels] /\ pc'[t] = label /\ \A u \in Threads \ {t} : pc'[u] = pc[u]
  BY <1>5, <1>6 DEF CallTyped, Labels
<1>8. /\ i' \in [Threads -> Nat] /\ mode' \in [Threads -> Modes] /\ registered' \in [Threads -> Nat]
      /\ i'[t] = 1 /\ registered'[t] = 0 /\ mode'[t] = m
      /\ \A u \in Threads \ {t} :
           i'[u] = i[u] /\ mode'[u] = mode[u] /\ registered'[u] = registered[u]
  BY DEF RunSelect, CallTyped
<1> QED BY <1>2, <1>3, <1>5, <1>7, <1>8

LEMMA ReturnCall ==
  ASSUME CallTyped, NEW t \in Threads, NEW iterates, Return(t, iterates)
  PROVE  /\ CallTyped' /\ Own(t)
         /\ token'[t] = NoToken
         /\ \/ pc'[t] = "idle" /\ ops'[t] = <<>> /\ registered'[t] = 0
            \/ /\ i'[t] = 1 /\ registered'[t] = 0 /\ mode'[t] = mode[t]
               /\ pc'[t] \in {"nothing", "sleep", "snapshot", "try"}
               /\ pc'[t] \in {"snapshot", "try"} => Len(ops'[t]) > 0
               /\ \A k \in DOMAIN ops'[t] : \E j \in DOMAIN ops[t] : ops'[t][k] = ops[t][j]
<1>1. /\ token' \in [Threads -> [kind : Kinds, op : Ops \cup {NoOp}, pos : Nat]]
      /\ token'[t] = NoToken /\ \A u \in Threads \ {t} : token'[u] = token[u]
  BY DEF Return, CallTyped, NoToken, Kinds
<1>2. CASE iterates /\ mode[t] = "iter"
  <2>1. RunSelect(t, ops[t], mode[t]) BY <1>2 DEF Return
  <2>2. ops[t] \in Seq(Ops) /\ mode[t] \in Modes BY DEF CallTyped
  <2>3. CallTyped' BY <1>1, <2>1, <2>2, RunSelectCall DEF CallTyped
  <2>4. Own(t) BY <1>1, <2>1, <2>2, RunSelectCall DEF Own
  <2> QED BY <1>1, <2>1, <2>2, <2>3, <2>4, RunSelectCall
<1>3. CASE ~(iterates /\ mode[t] = "iter")
  <2>1. /\ pc' = [pc EXCEPT ![t] = "idle"] /\ ops' = [ops EXCEPT ![t] = <<>>]
        /\ mode' = [mode EXCEPT ![t] = "now"] /\ i' = [i EXCEPT ![t] = 0]
        /\ registered' = [registered EXCEPT ![t] = 0]
    BY <1>3 DEF Return, Goto
  <2>2. CallTyped' BY <1>1, <2>1 DEF CallTyped, Labels, Modes
  <2>3. Own(t) BY <1>1, <2>1 DEF Own, CallTyped
  <2>4. pc'[t] = "idle" /\ ops'[t] = <<>> /\ registered'[t] = 0 BY <2>1 DEF CallTyped
  <2> QED BY <1>1, <2>2, <2>3, <2>4
<1> QED BY <1>2, <1>3

LEMMA NextOpCall ==
  ASSUME CallTyped, NEW t \in Threads, NEW here \in Labels, NEW there \in Labels,
         NextOp(t, here, there)
  PROVE  /\ pc' \in [Threads -> Labels] /\ i' \in [Threads -> Nat]
         /\ \A u \in Threads \ {t} : pc'[u] = pc[u] /\ i'[u] = i[u]
         /\ \/ pc'[t] = here /\ i'[t] = i[t] + 1 /\ i[t] < Len(ops[t])
            \/ pc'[t] = there /\ i'[t] = 1
<1>1. CASE i[t] < Len(ops[t])
  <2>1. i' = [i EXCEPT ![t] = i[t] + 1] /\ pc' = [pc EXCEPT ![t] = here]
    BY <1>1 DEF NextOp, Goto
  <2>2. i[t] + 1 \in Nat BY DEF CallTyped
  <2> QED BY <1>1, <2>1, <2>2 DEF CallTyped
<1>2. CASE ~(i[t] < Len(ops[t]))
  <2>1. i' = [i EXCEPT ![t] = 1] /\ pc' = [pc EXCEPT ![t] = there]
    BY <1>2 DEF NextOp, Goto
  <2> QED BY <2>1 DEF CallTyped
<1> QED BY <1>1, <1>2

LEMMA FireCall ==
  ASSUME CallTyped, SharedTyped, NEW t \in Threads, NEW o \in Ops, Fire(t, o)
  PROVE  /\ CallTyped' /\ Own(t)
         /\ pc'[t] = "complete" /\ token'[t].op = o
         /\ token'[t].kind \in {"closed", "slot", "packet", "time"}
         /\ token'[t].kind = "closed" <=> Handle(t, o).closed
         /\ UNCHANGED <<i, ops, mode, registered, handleVars>>
<1>1. PICK kind \in {"closed", "slot", "packet", "time"}, pos \in Nat :
        Token(t, kind, o, pos) /\ (kind = "closed" <=> Handle(t, o).closed)
  <2>1. o.chan \in Timers => ~Handle(t, o).closed
    BY HandleIs DEF Timers, Counted
  <2>2. CASE Handle(t, o).closed /\ Token(t, "closed", o, 0) BY <2>2
  <2>3. CASE ~Handle(t, o).closed /\ Token(t, "slot", o, tail[o.chan])
    BY <2>3, OpIs DEF SharedTyped
  <2>4. CASE ~Handle(t, o).closed /\ Token(t, "slot", o, head[o.chan])
    BY <2>4, OpIs DEF SharedTyped
  <2>5. CASE ~Handle(t, o).closed /\ Token(t, "packet", o, 0) BY <2>5
  <2>6. CASE o.chan \in Timers /\ Token(t, "time", o, 0) BY <2>1, <2>6
  <2>7. \/ Handle(t, o).closed /\ Token(t, "closed", o, 0)
        \/ ~Handle(t, o).closed /\ Token(t, "slot", o, tail[o.chan])
        \/ ~Handle(t, o).closed /\ Token(t, "slot", o, head[o.chan])
        \/ ~Handle(t, o).closed /\ Token(t, "packet", o, 0)
        \/ o.chan \in Timers /\ Token(t, "time", o, 0)
    BY Zenon DEF Fire
  <2> QED BY <2>2, <2>3, <2>4, <2>5, <2>6, <2>7
<1>2. token' = [token EXCEPT ![t] = [kind |-> kind, op |-> o, pos |-> pos]]
  BY <1>1 DEF Token
<1>3. pc' = [pc EXCEPT ![t] = "complete"] /\ UNCHANGED <<i, ops, mode, registered, handleVars>>
  BY DEF Fire, Goto, callVars, scanVars, handleVars
<1>4. CallTyped' BY <1>1, <1>2, <1>3 DEF CallTyped, Labels, Kinds
<1>5. Own(t) BY <1>2, <1>3 DEF Own, CallTyped
<1>6. pc'[t] = "complete" /\ token'[t] = [kind |-> kind, op |-> o, pos |-> pos]
  BY <1>2, <1>3 DEF CallTyped
<1> QED BY <1>1, <1>3, <1>4, <1>5, <1>6

\* The invariant that the other properties follow from.
Base == Typed /\ CallsOK /\ WaitsOK

LEMMA MineIs ==
  ASSUME Typed, CallsOK, NEW t \in Threads, pc[t] \notin Listless
  PROVE  /\ i[t] \in 1 .. Len(ops[t]) /\ Len(ops[t]) \in Nat /\ DOMAIN ops[t] = 1 .. Len(ops[t])
         /\ Mine(t) \in Ops
<1>1. ops[t] \in Seq(Ops) BY DEF Typed, CallTyped
<1>2. i[t] \in 1 .. Len(ops[t]) BY DEF CallsOK, CallOK, PlaceOK
<1>3. Len(ops[t]) \in Nat /\ DOMAIN ops[t] = 1 .. Len(ops[t]) BY <1>1, LenProperties
<1>4. ops[t][i[t]] \in Ops BY <1>1, <1>2, ElementOfSeq
<1> QED BY <1>2, <1>3, <1>4 DEF Mine

\* The handles of a call are those of its thread, who has none to send to a timer.
LEMMA CallIs ==
  ASSUME Typed, CallsOK, NEW t \in Threads, NEW call \in Calls[t],
         \A k \in DOMAIN call.ops : <<t, call.ops[k].chan, call.ops[k].side>> \in held
  PROVE  call.ops \in Seq(Ops) /\ call.mode \in Modes
<1> DEFINE list == call.ops
<1>1. list \in Seq([chan : Channels, side : Sides]) /\ call.mode \in Modes
  BY CallsAssumption DEF Modes
<1>2. DOMAIN list = 1 .. Len(list) /\ Len(list) \in Nat BY <1>1, LenProperties
<1>3. ASSUME NEW k \in 1 .. Len(list) PROVE list[k] \in Ops
  <2>1. list[k] \in [chan : Channels, side : Sides] BY <1>1, ElementOfSeq
  <2>2. <<t, list[k].chan, list[k].side>> \in held BY <1>2
  <2>3. list[k].side = "send" => list[k].chan \in Counted BY <2>2 DEF CallsOK, HeldOK
  <2> QED BY <2>1, <2>3 DEF Ops
<1> HIDE DEF list
<1>4. list = [k \in 1 .. Len(list) |-> list[k]] BY <1>1, <1>2
<1>5. list \in Seq(Ops) BY <1>2, <1>3, <1>4
<1> QED BY <1>1, <1>5 DEF list

\* The operation that a call accepts is one of its list.
LEMMA AcceptIs ==
  ASSUME Base, NEW t \in Threads, pc[t] = "accept", select[t] >= Operation(1)
  PROVE  /\ Selection(t) \in 1 .. registered[t] /\ Selection(t) \in DOMAIN ops[t]
         /\ ops[t][Selection(t)] \in Ops
<1>1. Begun(t) BY DEF Begun
<1>2. select[t] >= Operation(0) BY DEF Operation, Base, Typed, SharedTyped
<1>3. Selection(t) \in 1 .. registered[t] BY <1>1, <1>2 DEF Base, WaitsOK, SelectedOK
<1>4. registered[t] <= Len(ops[t]) BY DEF Base, CallsOK, CallOK, PlaceOK
<1>5. ops[t] \in Seq(Ops) /\ registered[t] \in Nat BY DEF Base, Typed, CallTyped
<1>6. Len(ops[t]) \in Nat /\ DOMAIN ops[t] = 1 .. Len(ops[t]) BY <1>5, LenProperties
<1>7. Selection(t) \in 1 .. Len(ops[t]) BY <1>3, <1>4, <1>5, <1>6
<1> QED BY <1>3, <1>5, <1>6, <1>7, ElementOfSeq

\* A step that leaves every call variable but these alone.
LEMMA GotoCall ==
  ASSUME CallTyped, NEW t \in Threads, NEW label \in Labels, Goto(t, label),
         UNCHANGED <<i, ops, mode, registered, token>>
  PROVE  CallTyped' /\ Own(t) /\ pc'[t] = label
  BY DEF CallTyped, Goto, Own

LEMMA StepOwn ==
  ASSUME Base, NEW t \in Threads, Step(t)
  PROVE  CallTyped' /\ Own(t)
<1> USE DEF Base, Typed
<1>0. CallTyped OBVIOUS
<1>1. CASE StartCall(t)
  <2>1. PICK call \in Calls[t] :
          /\ \A k \in DOMAIN call.ops : <<t, call.ops[k].chan, call.ops[k].side>> \in held
          /\ RunSelect(t, call.ops, call.mode)
    BY <1>1 DEF StartCall
  <2>2. call.ops \in Seq(Ops) /\ call.mode \in Modes BY <2>1, CallIs
  <2>3. token' = token BY <1>1 DEF StartCall
  <2>4. CallTyped' BY <2>1, <2>2, <2>3, RunSelectCall DEF CallTyped
  <2>5. Own(t) BY <2>1, <2>2, <2>3, RunSelectCall DEF Own
  <2> QED BY <2>4, <2>5
<1>2. CASE Sleep(t) BY <1>2, GotoCall DEF Sleep, Labels, callVars, scanVars
<1>3. CASE Snapshot(t)
  <2>1. NextOp(t, "snapshot", "try") /\ UNCHANGED <<ops, mode, registered, token>>
    BY <1>3 DEF Snapshot, callVars
  <2>2. "snapshot" \in Labels /\ "try" \in Labels BY DEF Labels
  <2>3. CallTyped' BY <1>0, <2>1, <2>2, NextOpCall DEF CallTyped
  <2>4. Own(t) BY <1>0, <2>1, <2>2, NextOpCall DEF Own
  <2> QED BY <2>3, <2>4
<1>4. CASE Try(t)
  <2>1. CASE Fire(t, Mine(t)) BY <1>4, <2>1, MineIs, FireCall DEF Try, Listless
  <2>2. CASE ~Fire(t, Mine(t))
    <3> DEFINE there == CASE mode[t] = "now" /\ Len(ops[t]) = 1 -> "nothing"
                       [] mode[t] = "now" /\ Len(ops[t]) > 1 -> "compare"
                       [] Plain(mode[t]) -> "register"
                       [] OTHER -> "retry"
    <3>1. there \in Labels BY DEF Labels
    <3>2. NextOp(t, "try", there) /\ UNCHANGED <<ops, mode, registered, token>>
      BY <1>4, <2>2 DEF Try, callVars, scanVars
    <3> HIDE DEF there
    <3>3. "try" \in Labels BY DEF Labels
    <3>4. CallTyped' BY <1>0, <3>1, <3>2, <3>3, NextOpCall DEF CallTyped
    <3>5. Own(t) BY <1>0, <3>1, <3>2, <3>3, NextOpCall DEF Own
    <3> QED BY <3>4, <3>5
  <2> QED BY <2>1, <2>2
<1>5. CASE Compare(t)
  <2>1. PICK there \in {"try", "nothing"} :
          NextOp(t, "compare", there) /\ UNCHANGED <<ops, mode, registered, token>>
    BY <1>5 DEF Compare, callVars
  <2>2. "compare" \in Labels /\ there \in Labels BY DEF Labels
  <2>3. CallTyped' BY <1>0, <2>1, <2>2, NextOpCall DEF CallTyped
  <2>4. Own(t) BY <1>0, <2>1, <2>2, NextOpCall DEF Own
  <2> QED BY <2>3, <2>4
<1>6. CASE Retry(t)
  <2>1. CASE Fire(t, Mine(t)) BY <1>6, <2>1, MineIs, FireCall DEF Retry, Listless
  <2>2. CASE NextOp(t, "retry", "register") /\ UNCHANGED <<ops, mode, registered, token>>
    <3>1. "retry" \in Labels /\ "register" \in Labels BY DEF Labels
    <3>2. CallTyped' BY <1>0, <2>2, <3>1, NextOpCall DEF CallTyped
    <3>3. Own(t) BY <1>0, <2>2, <3>1, NextOpCall DEF Own
    <3> QED BY <3>2, <3>3
  <2>3. CASE Goto(t, "pause") /\ UNCHANGED <<i, ops, mode, registered, token>>
    BY <2>3, GotoCall DEF Labels
  <2> QED BY <1>6, <2>1, <2>2, <2>3 DEF Retry, callVars, scanVars
<1>7. CASE Pause(t)
  <2>1. CASE Goto(t, "unpause") /\ UNCHANGED token
    BY <1>7, <2>1, GotoCall DEF Pause, Labels, callVars, scanVars
  <2>2. CASE Goto(t, "complete") /\ Token(t, "packet", Mine(t), 0)
    <3>1. Mine(t) \in Ops BY <1>7, MineIs DEF Pause, Listless
    <3>2. UNCHANGED <<i, ops, mode, registered>> BY <1>7 DEF Pause, callVars, scanVars
    <3>3. CallTyped' BY <2>2, <3>1, <3>2 DEF CallTyped, Goto, Token, Labels, Kinds
    <3>4. Own(t) BY <2>2, <3>2 DEF CallTyped, Own, Goto, Token
    <3> QED BY <3>3, <3>4
  <2> QED BY <1>7, <2>1, <2>2 DEF Pause
<1>8. CASE Unpause(t)
  <2>1. CASE select[t] = Aborted
    <3>1. NextOp(t, "retry", "register") /\ UNCHANGED <<ops, mode, registered, token>>
      BY <1>8, <2>1 DEF Unpause, callVars, scanVars
    <3>2. "retry" \in Labels /\ "register" \in Labels BY DEF Labels
    <3>3. CallTyped' BY <1>0, <3>1, <3>2, NextOpCall DEF CallTyped
    <3>4. Own(t) BY <1>0, <3>1, <3>2, NextOpCall DEF Own
    <3> QED BY <3>3, <3>4
  <2>2. CASE select[t] # Aborted
    <3>1. Mine(t) \in Ops BY <1>8, MineIs DEF Unpause, Listless
    <3>2. Goto(t, "complete") /\ Token(t, "closed", Mine(t), 0) /\ UNCHANGED <<i, ops, mode, registered>>
      BY <1>8, <2>2 DEF Unpause, callVars, scanVars
    <3>3. CallTyped' BY <3>1, <3>2 DEF CallTyped, Goto, Token, Labels, Kinds
    <3>4. Own(t) BY <3>2 DEF CallTyped, Own, Goto, Token
    <3> QED BY <3>3, <3>4
  <2> QED BY <2>1, <2>2
<1>9. CASE RegisterOp(t)
  <2>1. PICK label \in {"check", "selected", "abort"} : Goto(t, label)
    BY <1>9 DEF RegisterOp
  <2>2. registered' = [registered EXCEPT ![t] = i[t]] /\ UNCHANGED <<i, ops, mode, token>>
    BY <1>9 DEF RegisterOp, callVars
  <2>3. CallTyped' BY <2>1, <2>2 DEF CallTyped, Goto, Labels
  <2>4. Own(t) BY <2>1, <2>2 DEF CallTyped, Goto, Own
  <2> QED BY <2>3, <2>4
<1>10. CASE Check(t)
  <2>1. PICK label \in {"selected", "abort"} : Goto(t, label) BY <1>10 DEF Check
  <2>2. label \in Labels BY DEF Labels
  <2> QED BY <1>10, <2>1, <2>2, GotoCall DEF Check, callVars, scanVars
<1>11. CASE Abort(t)
  BY <1>11 DEF Abort, Goto, CallTyped, Own, Labels, callVars, scanVars
<1>12. CASE Selected(t)
  <2>1. PICK label \in {"register", "wait", "unregister"}, n \in Nat :
          Goto(t, label) /\ i' = [i EXCEPT ![t] = n]
    <3>1. i[t] + 1 \in Nat /\ 1 \in Nat BY DEF CallTyped
    <3>2. CASE select[t] = Waiting /\ i[t] < Len(ops[t])
      <4>1. Goto(t, "register") /\ i' = [i EXCEPT ![t] = i[t] + 1] BY <1>12, <3>2 DEF Selected
      <4> QED BY <3>1, <4>1
    <3>3. CASE ~(select[t] = Waiting /\ i[t] < Len(ops[t]))
      <4>1. (Goto(t, "wait") \/ Goto(t, "unregister")) /\ i' = [i EXCEPT ![t] = 1]
        BY <1>12, <3>3 DEF Selected
      <4> QED BY <3>1, <4>1
    <3> QED BY <3>2, <3>3
  <2>2. UNCHANGED <<ops, mode, registered, token>> BY <1>12 DEF Selected, callVars, scanVars
  <2>3. CallTyped' BY <2>1, <2>2 DEF CallTyped, Goto, Labels
  <2>4. Own(t) BY <2>1, <2>2 DEF CallTyped, Goto, Own
  <2> QED BY <2>3, <2>4
<1>13. CASE Wait(t) BY <1>13, GotoCall DEF Wait, Labels, callVars, scanVars
<1>14. CASE UnregisterOp(t)
  <2>1. PICK label \in {pc[t], "accept"}, n \in Nat :
          pc' = [pc EXCEPT ![t] = label] /\ i' = [i EXCEPT ![t] = n]
    <3>1. i[t] + 1 \in Nat /\ 1 \in Nat /\ pc = [pc EXCEPT ![t] = pc[t]] BY DEF CallTyped
    <3>2. CASE i[t] < registered[t]
      <4>1. pc' = pc /\ i' = [i EXCEPT ![t] = i[t] + 1] BY <1>14, <3>2 DEF UnregisterOp
      <4> QED BY <3>1, <4>1
    <3>3. CASE ~(i[t] < registered[t])
      <4>1. pc' = [pc EXCEPT ![t] = "accept"] /\ i' = [i EXCEPT ![t] = 1]
        BY <1>14, <3>3 DEF UnregisterOp, Goto
      <4> QED BY <3>1, <4>1
    <3> QED BY <3>2, <3>3
  <2>2. UNCHANGED <<ops, mode, registered, token>> BY <1>14 DEF UnregisterOp, callVars, scanVars
  <2>3. CallTyped' BY <2>1, <2>2 DEF CallTyped, Labels
  <2>4. Own(t) BY <2>1, <2>2 DEF CallTyped, Own
  <2> QED BY <2>3, <2>4
<1>15. CASE Accept(t)
  <2>1. CASE select[t] >= Operation(1) /\ Fire(t, ops[t][Selection(t)])
    BY <1>15, <2>1, AcceptIs, FireCall DEF Accept
  <2>2. CASE Goto(t, "late") /\ UNCHANGED <<i, ops, mode, registered, token>>
    BY <2>2, GotoCall DEF Labels
  <2>3. CASE /\ select[t] >= Operation(1) /\ UNCHANGED <<i, ops, mode, registered>>
             /\ Token(t, "packet", ops[t][Selection(t)], 0) /\ Goto(t, "complete")
    <3>1. ops[t][Selection(t)] \in Ops BY <1>15, <2>3, AcceptIs DEF Accept
    <3>2. CallTyped' BY <2>3, <3>1 DEF CallTyped, Goto, Token, Labels, Kinds
    <3>3. Own(t) BY <2>3 DEF CallTyped, Own, Goto, Token
    <3> QED BY <3>2, <3>3
  <2> QED BY <1>15, <2>1, <2>2, <2>3 DEF Accept, callVars, scanVars
<1>16. CASE Late(t)
  <2>1. CASE Goto(t, "nothing") /\ UNCHANGED <<ops, mode, i, scanVars>>
    BY <1>16, <2>1, GotoCall DEF Late, Labels, scanVars
  <2>2. CASE ~(Goto(t, "nothing") /\ UNCHANGED <<ops, mode, i, scanVars>>)
    <3> DEFINE m == IF mode[t] = "at" /\ expired[t] THEN "now" ELSE mode[t]
    <3>1. RunSelect(t, ops[t], m) /\ token' = token BY <1>16, <2>2 DEF Late
    <3>2. m \in Modes /\ ops[t] \in Seq(Ops) BY DEF CallTyped, Modes
    <3> HIDE DEF m
    <3>3. CallTyped' BY <1>0, <3>1, <3>2, RunSelectCall DEF CallTyped
    <3>4. Own(t) BY <1>0, <3>1, <3>2, RunSelectCall DEF Own
    <3> QED BY <3>3, <3>4
  <2> QED BY <2>1, <2>2
<1>17. CASE Nothing(t) BY <1>17, ReturnCall DEF Nothing
<1>18. CASE CompleteClosed(t) BY <1>18, ReturnCall DEF CompleteClosed
<1>19. CASE CompleteSlot(t)
  <2>1. CASE Return(t, TRUE) BY <2>1, ReturnCall
  <2>2. CASE ~Return(t, TRUE)
    <3>1. /\ Token(t, "wake", token[t].op, 0) /\ Goto(t, "wake")
          /\ UNCHANGED <<i, ops, mode, registered>>
      BY <1>19, <2>2 DEF CompleteSlot, callVars, scanVars
    <3>2. token[t].op \in Ops \cup {NoOp} BY DEF CallTyped
    <3>3. CallTyped' BY <3>1, <3>2 DEF CallTyped, Goto, Token, Labels, Kinds
    <3>4. Own(t) BY <3>1 DEF CallTyped, Own, Goto, Token
    <3> QED BY <3>3, <3>4
  <2> QED BY <2>1, <2>2
<1>20. CASE Wake(t) BY <1>20, ReturnCall DEF Wake
<1>21. CASE CompletePacket(t) BY <1>21, ReturnCall DEF CompletePacket
<1>22. CASE CompleteTime(t) BY <1>22, ReturnCall DEF CompleteTime
<1>23. CASE Disconnect(t)
  <2>1. UNCHANGED <<i, ops, mode, registered>> BY <1>23 DEF Disconnect, callVars, scanVars
  <2>2. PICK label \in {"idle", "wakeSenders", "wakeReceivers"}, tok \in {token[t], NoToken} :
          pc' = [pc EXCEPT ![t] = label] /\ token' = [token EXCEPT ![t] = tok]
    <3>1. token = [token EXCEPT ![t] = token[t]] BY DEF CallTyped
    <3> QED BY <1>23, <3>1 DEF Disconnect, Goto
  <2>3. label \in Labels /\ tok \in [kind : Kinds, op : Ops \cup {NoOp}, pos : Nat]
    BY DEF CallTyped, Labels, NoToken, Kinds
  <2>4. CallTyped' BY <2>1, <2>2, <2>3 DEF CallTyped
  <2>5. Own(t) BY <2>1, <2>2 DEF CallTyped, Own
  <2> QED BY <2>4, <2>5
<1>24. CASE DisconnectSenders(t)
  BY <1>24, GotoCall DEF DisconnectSenders, Labels, callVars, scanVars
<1>25. CASE DisconnectReceivers(t)
  BY <1>25 DEF DisconnectReceivers, CallTyped, Own, Goto, Labels, NoToken, Kinds, callVars, scanVars
<1> HIDE DEF Base, Typed
<1> QED BY <1>1, <1>2, <1>3, <1>4, <1>5, <1>6, <1>7, <1>8, <1>9, <1>10, <1>11, <1>12, <1>13, <1>14, <1>15, <1>16, <1>17, <1>18, <1>19, <1>20, <1>21, <1>22, <1>23, <1>24, <1>25 DEF Step
-------------------------------------------------------------------------------
(* Every call stays where its list and its token say. *)

LEMMA OthersCall ==
  ASSUME CallsOK, NEW t \in Threads, Own(t), NEW u \in Threads \ {t}
  PROVE  PlaceOK(u)' /\ TokenOK(u)'
<1>1. PlaceOK(u) /\ TokenOK(u) BY DEF CallsOK, CallOK
<1>2. /\ pc'[u] = pc[u] /\ i'[u] = i[u] /\ ops'[u] = ops[u] /\ mode'[u] = mode[u]
      /\ registered'[u] = registered[u] /\ token'[u] = token[u]
  BY DEF Own
<1>3. PlaceOK(u)' BY <1>1, <1>2 DEF PlaceOK, Plain
<1>4. TokenOK(u)' BY <1>1, <1>2 DEF TokenOK
<1> QED BY <1>3, <1>4

\* A call that begins, or begins again.
LEMMA RunSelectPlace ==
  ASSUME CallTyped, NEW t \in Threads, NEW list \in Seq(Ops), NEW m \in Modes,
         RunSelect(t, list, m),
         Plain(m) => \A k \in DOMAIN list : Flavor[list[k].chan] \in {"list", "never"}
  PROVE  PlaceOK(t)'
<1>1. /\ i'[t] = 1 /\ registered'[t] = 0 /\ mode'[t] = m
      /\ pc'[t] \in {"nothing", "sleep", "snapshot", "try"}
      /\ pc'[t] \in {"snapshot", "try"} => Len(ops'[t]) > 0
      /\ \A k \in DOMAIN ops'[t] : \E j \in DOMAIN list : ops'[t][k] = list[j]
      /\ ops' \in [Threads -> Seq(Ops)]
  BY RunSelectCall
<1>2. Len(ops'[t]) \in Nat BY <1>1, LenProperties
<1>3. i'[t] <= Len(ops'[t]) \/ pc'[t] \in Listless BY <1>1, <1>2 DEF Listless
<1>4. Plain(m) => \A k \in DOMAIN ops'[t] : Flavor[ops'[t][k].chan] \in {"list", "never"}
  BY <1>1
<1> QED BY <1>1, <1>2, <1>3, <1>4 DEF PlaceOK, Listless, Trying, Dropping, Plain

LEMMA ReturnPlace ==
  ASSUME CallTyped, NEW t \in Threads, PlaceOK(t), NEW iterates, Return(t, iterates)
  PROVE  PlaceOK(t)'
<1>1. CASE iterates /\ mode[t] = "iter"
  <2>1. RunSelect(t, ops[t], mode[t]) BY <1>1 DEF Return
  <2>2. ops[t] \in Seq(Ops) /\ mode[t] \in Modes BY DEF CallTyped
  <2>3. Plain(mode[t]) => \A k \in DOMAIN ops[t] : Flavor[ops[t][k].chan] \in {"list", "never"}
    BY DEF PlaceOK
  <2> QED BY <2>1, <2>2, <2>3, RunSelectPlace
<1>2. CASE ~(iterates /\ mode[t] = "iter")
  <2>1. pc'[t] = "idle" /\ ops'[t] = <<>> /\ mode'[t] = "now"
    BY <1>2 DEF Return, Goto, CallTyped
  <2> QED BY <2>1 DEF PlaceOK, Listless, Trying, Dropping, Plain
<1> QED BY <1>1, <1>2

\* A call that goes on with its list.
LEMMA OnwardPlace ==
  ASSUME Typed, CallsOK, NEW t \in Threads, UNCHANGED <<ops, mode>>,
         pc'[t] \notin Listless, i'[t] \in 1 .. Len(ops[t]),
         pc'[t] \in Trying => registered'[t] = 0,
         pc'[t] = "register" => registered'[t] + 1 = i'[t],
         pc'[t] \in {"check", "abort", "selected"} => registered'[t] = i'[t],
         pc'[t] = "wait" => registered'[t] = Len(ops[t]) /\ i'[t] = 1,
         pc'[t] = "unregister" => i'[t] <= registered'[t],
         pc'[t] \in {"unregister", "accept"} => registered'[t] <= Len(ops[t])
  PROVE  PlaceOK(t)'
<1>1. Plain(mode[t]) => \A k \in DOMAIN ops[t] : Flavor[ops[t][k].chan] \in {"list", "never"}
  BY DEF CallsOK, CallOK, PlaceOK
<1> QED BY <1>1 DEF PlaceOK, Listless, Dropping, Plain

LEMMA StepPlace ==
  ASSUME Base, NEW t \in Threads, Step(t)
  PROVE  PlaceOK(t)'
<1> USE DEF Base, Typed
<1>0. CallTyped /\ PlaceOK(t) BY DEF CallsOK, CallOK
<1>a. /\ i[t] \in Nat /\ registered[t] \in Nat /\ ops[t] \in Seq(Ops) /\ mode[t] \in Modes
      /\ pc[t] \in Labels /\ Len(ops[t]) \in Nat
  BY LenProperties DEF CallTyped
<1>1. CASE StartCall(t)
  <2>1. PICK call \in Calls[t] :
          /\ \A k \in DOMAIN call.ops : <<t, call.ops[k].chan, call.ops[k].side>> \in held
          /\ RunSelect(t, call.ops, call.mode)
    BY <1>1 DEF StartCall
  <2>2. call.ops \in Seq(Ops) /\ call.mode \in Modes BY <2>1, CallIs
  <2>3. Plain(call.mode) => Len(call.ops) = 1 /\ Flavor[call.ops[1].chan] \in {"list", "never"}
    BY CallsAssumption DEF Plain
  <2>4. DOMAIN call.ops = 1 .. Len(call.ops) BY <2>2, LenProperties
  <2>5. Plain(call.mode) => \A k \in DOMAIN call.ops : Flavor[call.ops[k].chan] \in {"list", "never"}
    BY <2>3, <2>4
  <2> QED BY <2>1, <2>2, <2>5, RunSelectPlace
<1>2. CASE Sleep(t)
  <2>1. pc'[t] = "nothing" /\ UNCHANGED <<ops, mode>> BY <1>2 DEF Sleep, Goto, CallTyped, callVars
  <2> QED BY <1>0, <2>1 DEF PlaceOK, Listless, Trying, Dropping, Plain
<1>3. CASE Snapshot(t)
  <2>1. NextOp(t, "snapshot", "try") /\ UNCHANGED <<ops, mode, registered>> /\ pc[t] = "snapshot"
    BY <1>3 DEF Snapshot, callVars
  <2>2. "snapshot" \in Labels /\ "try" \in Labels BY DEF Labels
  <2>3. \/ pc'[t] = "snapshot" /\ i'[t] = i[t] + 1 /\ i[t] < Len(ops[t])
        \/ pc'[t] = "try" /\ i'[t] = 1
    BY <1>0, <2>1, <2>2, NextOpCall
  <2>4. i[t] \in 1 .. Len(ops[t]) /\ registered[t] = 0
    BY <1>0, <2>1 DEF PlaceOK, Listless, Trying
  <2>5. i'[t] \in 1 .. Len(ops[t]) BY <1>a, <2>3, <2>4
  <2> QED BY <2>1, <2>3, <2>4, <2>5, OnwardPlace DEF Listless, Trying
<1>4. CASE Try(t)
  <2>1. i[t] \in 1 .. Len(ops[t]) /\ registered[t] = 0 /\ UNCHANGED <<ops, mode, registered>>
    BY <1>0, <1>4 DEF Try, PlaceOK, Listless, Trying, Fire, callVars, scanVars
  <2>2. CASE Fire(t, Mine(t))
    <3>1. pc'[t] = "complete" /\ i' = i BY <1>4, <2>2, MineIs, FireCall DEF Try, Listless
    <3> QED BY <2>1, <3>1, OnwardPlace DEF Listless, Trying
  <2>3. CASE ~Fire(t, Mine(t))
    <3>1. PICK there \in {"nothing", "compare", "register", "retry"} : NextOp(t, "try", there)
      BY <1>4, <2>3 DEF Try
    <3>2. "try" \in Labels /\ there \in Labels BY DEF Labels
    <3>3. \/ pc'[t] = "try" /\ i'[t] = i[t] + 1 /\ i[t] < Len(ops[t])
          \/ pc'[t] = there /\ i'[t] = 1
      BY <1>0, <3>1, <3>2, NextOpCall
    <3>4. i'[t] \in 1 .. Len(ops[t]) BY <1>a, <2>1, <3>3
    <3>5. CASE pc'[t] = "nothing" BY <1>0, <2>1, <3>5 DEF PlaceOK, Listless, Trying, Dropping, Plain
    <3>6. CASE pc'[t] # "nothing"
      BY <2>1, <3>3, <3>4, <3>6, OnwardPlace DEF Listless, Trying
    <3> QED BY <3>5, <3>6
  <2> QED BY <2>2, <2>3
<1>5. CASE Compare(t)
  <2>1. PICK there \in {"try", "nothing"} :
          NextOp(t, "compare", there) /\ UNCHANGED <<ops, mode, registered>>
    BY <1>5 DEF Compare, callVars
  <2>2. "compare" \in Labels /\ there \in Labels BY DEF Labels
  <2>3. \/ pc'[t] = "compare" /\ i'[t] = i[t] + 1 /\ i[t] < Len(ops[t])
        \/ pc'[t] = there /\ i'[t] = 1
    BY <1>0, <2>1, <2>2, NextOpCall
  <2>4. i[t] \in 1 .. Len(ops[t]) /\ registered[t] = 0
    BY <1>0, <1>5 DEF Compare, PlaceOK, Listless, Trying
  <2>5. i'[t] \in 1 .. Len(ops[t]) BY <1>a, <2>3, <2>4
  <2>6. CASE pc'[t] = "nothing" BY <1>0, <2>1, <2>6 DEF PlaceOK, Listless, Trying, Dropping, Plain
  <2>7. CASE pc'[t] # "nothing" BY <2>1, <2>3, <2>4, <2>5, <2>7, OnwardPlace DEF Listless, Trying
  <2> QED BY <2>6, <2>7
<1>6. CASE Retry(t)
  <2>1. i[t] \in 1 .. Len(ops[t]) /\ registered[t] = 0 /\ UNCHANGED <<ops, mode, registered>>
    BY <1>0, <1>6 DEF Retry, PlaceOK, Listless, Trying, Fire, callVars, scanVars
  <2>2. CASE Fire(t, Mine(t))
    <3>1. pc'[t] = "complete" /\ i' = i BY <1>6, <2>2, MineIs, FireCall DEF Retry, Listless
    <3> QED BY <2>1, <3>1, OnwardPlace DEF Listless, Trying
  <2>3. CASE NextOp(t, "retry", "register")
    <3>1. "retry" \in Labels /\ "register" \in Labels BY DEF Labels
    <3>2. \/ pc'[t] = "retry" /\ i'[t] = i[t] + 1 /\ i[t] < Len(ops[t])
          \/ pc'[t] = "register" /\ i'[t] = 1
      BY <1>0, <2>3, <3>1, NextOpCall
    <3>3. i'[t] \in 1 .. Len(ops[t]) BY <1>a, <2>1, <3>2
    <3> QED BY <2>1, <3>2, <3>3, OnwardPlace DEF Listless, Trying
  <2>4. CASE Goto(t, "pause") /\ i' = i
    <3>1. pc'[t] = "pause" BY <2>4 DEF Goto, CallTyped
    <3> QED BY <2>1, <2>4, <3>1, OnwardPlace DEF Listless, Trying
  <2> QED BY <1>6, <2>2, <2>3, <2>4 DEF Retry
<1>7. CASE Pause(t)
  <2>1. i[t] \in 1 .. Len(ops[t]) /\ registered[t] = 0 /\ UNCHANGED <<i, ops, mode, registered>>
    BY <1>0, <1>7 DEF Pause, PlaceOK, Listless, Trying, callVars, scanVars
  <2>2. pc'[t] = "unpause" \/ pc'[t] = "complete" BY <1>7 DEF Pause, Goto, CallTyped
  <2> QED BY <2>1, <2>2, OnwardPlace DEF Listless, Trying
<1>8. CASE Unpause(t)
  <2>1. i[t] \in 1 .. Len(ops[t]) /\ registered[t] = 0 /\ UNCHANGED <<ops, mode, registered>>
    BY <1>0, <1>8 DEF Unpause, PlaceOK, Listless, Trying, callVars, scanVars
  <2>2. CASE NextOp(t, "retry", "register")
    <3>1. "retry" \in Labels /\ "register" \in Labels BY DEF Labels
    <3>2. \/ pc'[t] = "retry" /\ i'[t] = i[t] + 1 /\ i[t] < Len(ops[t])
          \/ pc'[t] = "register" /\ i'[t] = 1
      BY <1>0, <2>2, <3>1, NextOpCall
    <3>3. i'[t] \in 1 .. Len(ops[t]) BY <1>a, <2>1, <3>2
    <3> QED BY <2>1, <3>2, <3>3, OnwardPlace DEF Listless, Trying
  <2>3. CASE Goto(t, "complete") /\ i' = i
    <3>1. pc'[t] = "complete" BY <2>3 DEF Goto, CallTyped
    <3> QED BY <2>1, <2>3, <3>1, OnwardPlace DEF Listless, Trying
  <2> QED BY <1>8, <2>2, <2>3 DEF Unpause
<1>9. CASE RegisterOp(t)
  <2>1. PICK label \in {"check", "selected", "abort"} : Goto(t, label)
    BY <1>9 DEF RegisterOp
  <2>2. registered'[t] = i[t] /\ UNCHANGED <<i, ops, mode>>
    BY <1>9 DEF RegisterOp, callVars, CallTyped
  <2>3. i[t] \in 1 .. Len(ops[t]) BY <1>0, <1>9 DEF RegisterOp, PlaceOK, Listless
  <2>4. pc'[t] = label BY <2>1 DEF Goto, CallTyped
  <2> QED BY <2>2, <2>3, <2>4, OnwardPlace DEF Listless, Trying
<1>10. CASE Check(t)
  <2>1. PICK label \in {"selected", "abort"} : Goto(t, label) BY <1>10 DEF Check
  <2>2. i[t] \in 1 .. Len(ops[t]) /\ registered[t] = i[t] /\ UNCHANGED <<i, ops, mode, registered>>
    BY <1>0, <1>10 DEF Check, PlaceOK, Listless, callVars, scanVars
  <2>3. pc'[t] = label BY <2>1 DEF Goto, CallTyped
  <2> QED BY <2>2, <2>3, OnwardPlace DEF Listless, Trying
<1>11. CASE Abort(t)
  <2>1. i[t] \in 1 .. Len(ops[t]) /\ registered[t] = i[t] /\ UNCHANGED <<ops, mode, registered>>
    BY <1>0, <1>11 DEF Abort, PlaceOK, Listless, callVars, scanVars
  <2>2. pc'[t] = "unregister" /\ i'[t] = 1 BY <1>11 DEF Abort, Goto, CallTyped
  <2>3. i'[t] \in 1 .. Len(ops[t]) /\ i'[t] <= registered'[t] /\ registered'[t] <= Len(ops[t])
    BY <1>a, <2>1, <2>2
  <2> QED BY <2>1, <2>2, <2>3, OnwardPlace DEF Listless, Trying
<1>12. CASE Selected(t)
  <2>1. i[t] \in 1 .. Len(ops[t]) /\ registered[t] = i[t] /\ UNCHANGED <<ops, mode, registered>>
    BY <1>0, <1>12 DEF Selected, PlaceOK, Listless, callVars, scanVars
  <2>2. CASE select[t] = Waiting /\ i[t] < Len(ops[t])
    <3>1. pc'[t] = "register" /\ i'[t] = i[t] + 1 BY <1>12, <2>2 DEF Selected, Goto, CallTyped
    <3>2. i'[t] \in 1 .. Len(ops[t]) BY <1>a, <2>1, <2>2, <3>1
    <3> QED BY <2>1, <3>1, <3>2, OnwardPlace DEF Listless, Trying
  <2>3. CASE ~(select[t] = Waiting /\ i[t] < Len(ops[t]))
    <3>1. i'[t] = 1 /\ (pc'[t] = "unregister" \/ (pc'[t] = "wait" /\ ~(i[t] < Len(ops[t]))))
      <4>1. CASE select[t] = Waiting
        <5>1. i' = [i EXCEPT ![t] = 1] /\ pc' = [pc EXCEPT ![t] = "wait"]
          BY <1>12, <2>3, <4>1 DEF Selected, Goto
        <5> QED BY <2>3, <4>1, <5>1 DEF CallTyped
      <4>2. CASE select[t] # Waiting
        <5>1. i' = [i EXCEPT ![t] = 1] /\ pc' = [pc EXCEPT ![t] = "unregister"]
          BY <1>12, <4>2 DEF Selected, Goto
        <5> QED BY <5>1 DEF CallTyped
      <4> QED BY <4>1, <4>2
    <3>2. /\ i'[t] \in 1 .. Len(ops[t]) /\ i'[t] <= registered'[t] /\ registered'[t] <= Len(ops[t])
          /\ pc'[t] = "wait" => registered'[t] = Len(ops[t])
      BY <1>a, <2>1, <3>1
    <3> QED BY <2>1, <3>1, <3>2, OnwardPlace DEF Listless, Trying
  <2> QED BY <2>2, <2>3
<1>13. CASE Wait(t)
  <2>1. /\ i[t] \in 1 .. Len(ops[t]) /\ registered[t] = Len(ops[t])
        /\ UNCHANGED <<i, ops, mode, registered>>
    BY <1>0, <1>13 DEF Wait, PlaceOK, Listless, callVars, scanVars
  <2>2. pc'[t] = "unregister" BY <1>13 DEF Wait, Goto, CallTyped
  <2>3. i'[t] <= registered'[t] /\ registered'[t] <= Len(ops[t]) BY <1>a, <2>1
  <2> QED BY <2>1, <2>2, <2>3, OnwardPlace DEF Listless, Trying
<1>14. CASE UnregisterOp(t)
  <2>1. /\ i[t] \in 1 .. Len(ops[t]) /\ i[t] <= registered[t] /\ registered[t] <= Len(ops[t])
        /\ UNCHANGED <<ops, mode, registered>> /\ pc[t] = "unregister"
    BY <1>0, <1>14 DEF UnregisterOp, PlaceOK, Listless, callVars, scanVars
  <2>2. CASE i[t] < registered[t]
    <3>1. pc'[t] = "unregister" /\ i'[t] = i[t] + 1
      BY <1>14, <2>1, <2>2 DEF UnregisterOp, CallTyped
    <3>2. i'[t] \in 1 .. Len(ops[t]) /\ i'[t] <= registered'[t] BY <1>a, <2>1, <2>2, <3>1
    <3> QED BY <2>1, <3>1, <3>2, OnwardPlace DEF Listless, Trying
  <2>3. CASE ~(i[t] < registered[t])
    <3>1. pc'[t] = "accept" /\ i'[t] = 1 BY <1>14, <2>3 DEF UnregisterOp, Goto, CallTyped
    <3>2. i'[t] \in 1 .. Len(ops[t]) BY <1>a, <2>1, <3>1
    <3> QED BY <2>1, <3>1, <3>2, OnwardPlace DEF Listless, Trying
  <2> QED BY <2>2, <2>3
<1>15. CASE Accept(t)
  <2>1. i[t] \in 1 .. Len(ops[t]) BY <1>0, <1>15 DEF Accept, PlaceOK, Listless
  <2>2. UNCHANGED <<i, ops, mode, registered>> BY <1>15 DEF Accept, Fire, callVars, scanVars
  <2>3. pc'[t] = "late" \/ pc'[t] = "complete" BY <1>15 DEF Accept, Fire, Goto, CallTyped
  <2> QED BY <2>1, <2>2, <2>3, OnwardPlace DEF Listless, Trying
<1>16. CASE Late(t)
  <2>1. CASE Goto(t, "nothing") /\ UNCHANGED <<ops, mode, i, scanVars>>
    <3>1. pc'[t] = "nothing" BY <2>1 DEF Goto, CallTyped
    <3> QED BY <1>0, <2>1, <3>1 DEF PlaceOK, Listless, Trying, Dropping, Plain
  <2>2. CASE ~(Goto(t, "nothing") /\ UNCHANGED <<ops, mode, i, scanVars>>)
    <3> DEFINE m == IF mode[t] = "at" /\ expired[t] THEN "now" ELSE mode[t]
    <3>1. RunSelect(t, ops[t], m) BY <1>16, <2>2 DEF Late
    <3>2. m \in Modes /\ (Plain(m) => Plain(mode[t])) BY <1>a DEF Modes, Plain
    <3> HIDE DEF m
    <3>3. Plain(m) => \A k \in DOMAIN ops[t] : Flavor[ops[t][k].chan] \in {"list", "never"}
      BY <1>0, <3>2 DEF PlaceOK
    <3> QED BY <1>0, <1>a, <3>1, <3>2, <3>3, RunSelectPlace
  <2> QED BY <2>1, <2>2
<1>17. CASE Nothing(t) BY <1>0, <1>17, ReturnPlace DEF Nothing
<1>18. CASE CompleteClosed(t) BY <1>0, <1>18, ReturnPlace DEF CompleteClosed
<1>19. CASE CompleteSlot(t)
  <2>1. CASE Return(t, TRUE) BY <1>0, <2>1, ReturnPlace
  <2>2. CASE ~Return(t, TRUE)
    <3>1. Goto(t, "wake") /\ UNCHANGED <<i, ops, mode, registered>>
      BY <1>19, <2>2 DEF CompleteSlot, callVars, scanVars
    <3>2. pc'[t] = "wake" BY <3>1 DEF Goto, CallTyped
    <3>3. i[t] \in 1 .. Len(ops[t]) BY <1>0, <1>19 DEF CompleteSlot, PlaceOK, Listless
    <3> QED BY <3>1, <3>2, <3>3, OnwardPlace DEF Listless, Trying
  <2> QED BY <2>1, <2>2
<1>20. CASE Wake(t) BY <1>0, <1>20, ReturnPlace DEF Wake
<1>21. CASE CompletePacket(t) BY <1>0, <1>21, ReturnPlace DEF CompletePacket
<1>22. CASE CompleteTime(t) BY <1>0, <1>22, ReturnPlace DEF CompleteTime
<1>23. CASE Disconnect(t) \/ DisconnectSenders(t) \/ DisconnectReceivers(t)
  <2>1. pc[t] \in Dropping /\ UNCHANGED <<ops, mode>>
    BY <1>23 DEF Disconnect, DisconnectSenders, DisconnectReceivers, Dropping, callVars
  <2>2. pc'[t] \in {"idle", "wakeSenders", "wakeReceivers"}
    BY <1>23 DEF Disconnect, DisconnectSenders, DisconnectReceivers, Goto, CallTyped
  <2> QED BY <1>0, <2>1, <2>2 DEF PlaceOK, Listless, Trying, Dropping, Plain
<1> HIDE DEF Base, Typed
<1> QED BY <1>1, <1>2, <1>3, <1>4, <1>5, <1>6, <1>7, <1>8, <1>9, <1>10, <1>11, <1>12, <1>13, <1>14, <1>15, <1>16, <1>17, <1>18, <1>19, <1>20, <1>21, <1>22, <1>23 DEF Step

\* The labels at which a thread has a token.
Bearing == Dropping \cup {"complete", "wake"}

LEMMA BareToken ==
  ASSUME NEW t \in Threads, pc'[t] \notin Bearing, token'[t].kind = "none"
  PROVE  TokenOK(t)'
  BY DEF TokenOK, Bearing, Dropping

\* A step of a call that is between its operations.
LEMMA PlainToken ==
  ASSUME CallsOK, NEW t \in Threads, pc[t] \notin Bearing, pc'[t] \notin Bearing, token' = token
  PROVE  TokenOK(t)'
<1>1. token[t].kind = "none" BY DEF CallsOK, CallOK, TokenOK, Bearing
<1> QED BY <1>1, BareToken

LEMMA FireToken ==
  ASSUME Typed, NEW t \in Threads, NEW k \in DOMAIN ops[t], ops[t][k] \in Ops, Fire(t, ops[t][k])
  PROVE  TokenOK(t)'
<1> DEFINE o == ops[t][k]
<1>1. /\ pc'[t] = "complete" /\ token'[t].op = o /\ ops' = ops
      /\ token'[t].kind \in {"closed", "slot", "packet", "time"}
      /\ token'[t].kind = "closed" <=> Handle(t, o).closed
  BY FireCall DEF Typed
<1>2. token'[t].kind = "closed" => o.chan \in Counted BY <1>1, HandleIs DEF Typed
<1>3. \E n \in DOMAIN ops'[t] : token'[t].op = ops'[t][n] BY <1>1
<1> HIDE DEF o
<1> QED BY <1>1, <1>2, <1>3 DEF TokenOK, Dropping

LEMMA ReturnToken ==
  ASSUME CallTyped, NEW t \in Threads, NEW iterates, Return(t, iterates)
  PROVE  TokenOK(t)'
<1>1. token'[t].kind = "none" BY ReturnCall DEF NoToken
<1>2. pc'[t] \in {"idle", "nothing", "sleep", "snapshot", "try"} BY ReturnCall
<1> QED BY <1>1, <1>2, BareToken DEF Bearing, Dropping

LEMMA StepToken ==
  ASSUME Base, NEW t \in Threads, Step(t)
  PROVE  TokenOK(t)'
<1> USE DEF Base, Typed
<1>0. CallTyped /\ TokenOK(t) BY DEF CallsOK, CallOK
<1>1. CASE StartCall(t)
  <2>1. PICK call \in Calls[t] :
          /\ \A k \in DOMAIN call.ops : <<t, call.ops[k].chan, call.ops[k].side>> \in held
          /\ RunSelect(t, call.ops, call.mode)
    BY <1>1 DEF StartCall
  <2>2. call.ops \in Seq(Ops) /\ call.mode \in Modes BY <2>1, CallIs
  <2>3. token' = token /\ pc[t] = "idle" BY <1>1 DEF StartCall
  <2>4. pc'[t] \in {"nothing", "sleep", "snapshot", "try"} BY <2>1, <2>2, RunSelectCall
  <2> QED BY <2>3, <2>4, PlainToken DEF Bearing, Dropping
<1>2. CASE Sleep(t) \/ Abort(t) \/ Wait(t)
  <2>1. pc[t] \in {"sleep", "abort", "wait"} /\ token' = token BY <1>2 DEF Sleep, Abort, Wait
  <2>2. pc'[t] \in {"nothing", "unregister"} BY <1>2 DEF Sleep, Abort, Wait, Goto, CallTyped
  <2> QED BY <2>1, <2>2, PlainToken DEF Bearing, Dropping
<1>3. CASE Snapshot(t)
  <2>1. NextOp(t, "snapshot", "try") /\ token' = token /\ pc[t] = "snapshot" BY <1>3 DEF Snapshot
  <2>2. pc'[t] \in {"snapshot", "try"} BY <1>0, <2>1, NextOpCall DEF Labels
  <2> QED BY <2>1, <2>2, PlainToken DEF Bearing, Dropping
<1>4. CASE Try(t)
  <2>1. CASE Fire(t, Mine(t)) BY <1>4, <2>1, MineIs, FireToken DEF Try, Listless, Mine
  <2>2. CASE ~Fire(t, Mine(t))
    <3>1. PICK there \in {"nothing", "compare", "register", "retry"} : NextOp(t, "try", there)
      BY <1>4, <2>2 DEF Try
    <3>2. token' = token /\ pc[t] = "try" BY <1>4, <2>2 DEF Try
    <3>3. "try" \in Labels /\ there \in Labels BY DEF Labels
    <3>4. pc'[t] = "try" \/ pc'[t] = there BY <1>0, <3>1, <3>3, NextOpCall
    <3> QED BY <3>2, <3>4, PlainToken DEF Bearing, Dropping
  <2> QED BY <2>1, <2>2
<1>5. CASE Compare(t)
  <2>1. PICK there \in {"try", "nothing"} : NextOp(t, "compare", there) BY <1>5 DEF Compare
  <2>2. "compare" \in Labels /\ there \in Labels BY DEF Labels
  <2>3. pc'[t] = "compare" \/ pc'[t] = there BY <1>0, <2>1, <2>2, NextOpCall
  <2>4. token' = token /\ pc[t] = "compare" BY <1>5 DEF Compare
  <2> QED BY <2>3, <2>4, PlainToken DEF Bearing, Dropping
<1>6. CASE Retry(t)
  <2>1. CASE Fire(t, Mine(t)) BY <1>6, <2>1, MineIs, FireToken DEF Retry, Listless, Mine
  <2>2. CASE ~Fire(t, Mine(t))
    <3>1. token' = token /\ pc[t] = "retry" BY <1>6, <2>2 DEF Retry
    <3>2. NextOp(t, "retry", "register") \/ Goto(t, "pause") BY <1>6, <2>2 DEF Retry
    <3>3. NextOp(t, "retry", "register") => pc'[t] \in {"retry", "register"}
      BY <1>0, NextOpCall DEF Labels
    <3>4. Goto(t, "pause") => pc'[t] = "pause" BY <1>0 DEF Goto, CallTyped
    <3> QED BY <3>1, <3>2, <3>3, <3>4, PlainToken DEF Bearing, Dropping
  <2> QED BY <2>1, <2>2
<1>7. CASE Pause(t)
  <2>1. CASE Goto(t, "unpause") /\ UNCHANGED token
    <3>1. pc[t] = "pause" /\ pc'[t] = "unpause" BY <1>7, <2>1 DEF Pause, Goto, CallTyped
    <3> QED BY <2>1, <3>1, PlainToken DEF Bearing, Dropping
  <2>2. CASE Goto(t, "complete") /\ Token(t, "packet", Mine(t), 0)
    <3>1. i[t] \in DOMAIN ops[t] BY <1>7, MineIs DEF Pause, Listless
    <3>2. pc'[t] = "complete" /\ token'[t].kind = "packet" /\ token'[t].op = ops[t][i[t]]
      BY <2>2 DEF Goto, Token, CallTyped, Mine
    <3>3. ops' = ops BY <1>7 DEF Pause, callVars
    <3> QED BY <3>1, <3>2, <3>3 DEF TokenOK, Dropping
  <2> QED BY <1>7, <2>1, <2>2 DEF Pause
<1>8. CASE Unpause(t)
  <2>1. CASE select[t] = Aborted
    <3>1. NextOp(t, "retry", "register") /\ token' = token /\ pc[t] = "unpause"
      BY <1>8, <2>1 DEF Unpause
    <3>2. pc'[t] \in {"retry", "register"} BY <1>0, <3>1, NextOpCall DEF Labels
    <3> QED BY <3>1, <3>2, PlainToken DEF Bearing, Dropping
  <2>2. CASE select[t] # Aborted
    <3>1. i[t] \in DOMAIN ops[t] /\ Mine(t) \in Ops BY <1>8, MineIs DEF Unpause, Listless
    <3>2. Goto(t, "complete") /\ Token(t, "closed", Mine(t), 0) /\ ops' = ops /\ pc[t] = "unpause"
      BY <1>8, <2>2 DEF Unpause, callVars
    <3>3. pc'[t] = "complete" /\ token'[t].kind = "closed" /\ token'[t].op = Mine(t)
      BY <3>2 DEF Goto, Token, CallTyped
    <3>4. Mine(t).chan \in Counted
      <4>1. Flavor[Mine(t).chan] = "zero" BY <3>2 DEF WaitsOK, SelectedOK
      <4> QED BY <3>1, <4>1, OpIs
    <3>5. Mine(t) = ops[t][i[t]] BY DEF Mine
    <3> QED BY <3>1, <3>2, <3>3, <3>4, <3>5 DEF TokenOK, Dropping
  <2> QED BY <2>1, <2>2
<1>9. CASE RegisterOp(t) \/ Check(t)
  <2>1. PICK label \in {"check", "selected", "abort"} : Goto(t, label)
    BY <1>9 DEF RegisterOp, Check
  <2>2. pc[t] \in {"register", "check"} /\ token' = token BY <1>9 DEF RegisterOp, Check
  <2>3. pc'[t] = label BY <2>1 DEF Goto, CallTyped
  <2> QED BY <2>2, <2>3, PlainToken DEF Bearing, Dropping
<1>12. CASE Selected(t)
  <2>1. PICK label \in {"register", "wait", "unregister"} : Goto(t, label)
    BY <1>12 DEF Selected
  <2>2. pc[t] = "selected" /\ token' = token BY <1>12 DEF Selected
  <2>3. pc'[t] = label BY <2>1 DEF Goto, CallTyped
  <2> QED BY <2>2, <2>3, PlainToken DEF Bearing, Dropping
<1>14. CASE UnregisterOp(t)
  <2>1. pc[t] = "unregister" /\ token' = token BY <1>14 DEF UnregisterOp
  <2>2. pc'[t] = pc[t] \/ pc'[t] = "accept" BY <1>14 DEF UnregisterOp, Goto, CallTyped
  <2> QED BY <2>1, <2>2, PlainToken DEF Bearing, Dropping
<1>15. CASE Accept(t)
  <2>1. CASE select[t] >= Operation(1) /\ Fire(t, ops[t][Selection(t)])
    BY <1>15, <2>1, AcceptIs, FireToken DEF Accept
  <2>2. CASE Goto(t, "late") /\ token' = token
    <3>1. pc[t] = "accept" /\ pc'[t] = "late" BY <1>15, <2>2 DEF Accept, Goto, CallTyped
    <3> QED BY <2>2, <3>1, PlainToken DEF Bearing, Dropping
  <2>3. CASE /\ select[t] >= Operation(1) /\ ops' = ops
             /\ Token(t, "packet", ops[t][Selection(t)], 0) /\ Goto(t, "complete")
    <3>1. Selection(t) \in DOMAIN ops[t] BY <1>15, <2>3, AcceptIs DEF Accept
    <3>2. pc'[t] = "complete" /\ token'[t].kind = "packet" /\ token'[t].op = ops[t][Selection(t)]
      BY <2>3 DEF Goto, Token, CallTyped
    <3> QED BY <2>3, <3>1, <3>2 DEF TokenOK, Dropping
  <2> QED BY <1>15, <2>1, <2>2, <2>3 DEF Accept, callVars
<1>16. CASE Late(t)
  <2>1. pc[t] = "late" /\ token' = token BY <1>16 DEF Late
  <2>2. CASE Goto(t, "nothing")
    <3>1. pc'[t] = "nothing" BY <2>2 DEF Goto, CallTyped
    <3> QED BY <2>1, <3>1, PlainToken DEF Bearing, Dropping
  <2>3. CASE ~Goto(t, "nothing")
    <3> DEFINE m == IF mode[t] = "at" /\ expired[t] THEN "now" ELSE mode[t]
    <3>1. RunSelect(t, ops[t], m) BY <1>16, <2>3 DEF Late
    <3>2. m \in Modes /\ ops[t] \in Seq(Ops) BY DEF CallTyped, Modes
    <3> HIDE DEF m
    <3>3. pc'[t] \in {"nothing", "sleep", "snapshot", "try"} BY <1>0, <3>1, <3>2, RunSelectCall
    <3> QED BY <2>1, <3>3, PlainToken DEF Bearing, Dropping
  <2> QED BY <2>2, <2>3
<1>17. CASE Nothing(t) BY <1>0, <1>17, ReturnToken DEF Nothing
<1>18. CASE CompleteClosed(t) BY <1>0, <1>18, ReturnToken DEF CompleteClosed
<1>19. CASE CompleteSlot(t)
  <2>1. CASE Return(t, TRUE) BY <1>0, <2>1, ReturnToken
  <2>2. CASE ~Return(t, TRUE)
    <3>1. Goto(t, "wake") /\ Token(t, "wake", token[t].op, 0) /\ ops' = ops /\ pc[t] = "complete"
      BY <1>19, <2>2 DEF CompleteSlot, callVars
    <3>2. pc'[t] = "wake" /\ token'[t].kind = "wake" /\ token'[t].op = token[t].op
      BY <3>1 DEF Goto, Token, CallTyped
    <3>3. \E k \in DOMAIN ops[t] : token[t].op = ops[t][k] BY <1>0, <3>1 DEF TokenOK
    <3> QED BY <3>1, <3>2, <3>3 DEF TokenOK, Dropping
  <2> QED BY <2>1, <2>2
<1>20. CASE Wake(t) BY <1>0, <1>20, ReturnToken DEF Wake
<1>21. CASE CompletePacket(t) BY <1>0, <1>21, ReturnToken DEF CompletePacket
<1>22. CASE CompleteTime(t) BY <1>0, <1>22, ReturnToken DEF CompleteTime
<1>23. CASE Disconnect(t)
  <2>1. token[t].kind = "drop" /\ token[t].op.chan \in Counted
    BY <1>0, <1>23 DEF Disconnect, TokenOK, Dropping
  <2>2. CASE Goto(t, "idle") /\ token' = [token EXCEPT ![t] = NoToken]
    <3>1. pc'[t] = "idle" /\ token'[t].kind = "none" BY <2>2 DEF Goto, CallTyped, NoToken
    <3> QED BY <3>1, BareToken DEF Bearing, Dropping
  <2>3. CASE /\ Goto(t, "wakeSenders") \/ Goto(t, "wakeReceivers")
             /\ token' = token /\ Flavor[token[t].op.chan] # "zero"
    <3>1. pc'[t] \in {"wakeSenders", "wakeReceivers"} BY <2>3 DEF Goto, CallTyped
    <3> QED BY <2>1, <2>3, <3>1 DEF TokenOK, Dropping
  <2> QED BY <1>23, <2>2, <2>3 DEF Disconnect
<1>24. CASE DisconnectSenders(t)
  <2>1. pc[t] = "wakeSenders" /\ pc'[t] = "wakeReceivers" /\ token' = token
    BY <1>24 DEF DisconnectSenders, Goto, CallTyped
  <2> QED BY <1>0, <2>1 DEF TokenOK, Dropping
<1>25. CASE DisconnectReceivers(t)
  <2>1. pc'[t] = "idle" /\ token'[t].kind = "none"
    BY <1>25 DEF DisconnectReceivers, Goto, CallTyped, NoToken
  <2> QED BY <2>1, BareToken DEF Bearing, Dropping
<1> HIDE DEF Base, Typed
<1> QED BY <1>1, <1>2, <1>3, <1>4, <1>5, <1>6, <1>7, <1>8, <1>9, <1>12, <1>14, <1>15, <1>16, <1>17, <1>18, <1>19, <1>20, <1>21, <1>22, <1>23, <1>24, <1>25 DEF Step

\* Between its first and its last operation a call works on the handles it was given.
LEMMA StepOps ==
  ASSUME Base, NEW t \in Threads, Step(t), NEW k \in DOMAIN ops'[t]
  PROVE  <<t, ops'[t][k].chan, ops'[t][k].side>> \in held
<1> USE DEF Base, Typed
<1>0. /\ CallTyped /\ ops[t] \in Seq(Ops) /\ mode[t] \in Modes
      /\ \A j \in DOMAIN ops[t] : <<t, ops[t][j].chan, ops[t][j].side>> \in held
  BY DEF CallTyped, CallsOK, HeldOK
<1>1. CASE ops' = ops BY <1>0, <1>1
<1>2. CASE StartCall(t)
  <2>1. PICK call \in Calls[t] :
          /\ \A j \in DOMAIN call.ops : <<t, call.ops[j].chan, call.ops[j].side>> \in held
          /\ RunSelect(t, call.ops, call.mode)
    BY <1>2 DEF StartCall
  <2>2. call.ops \in Seq(Ops) /\ call.mode \in Modes BY <2>1, CallIs
  <2>3. \E j \in DOMAIN call.ops : ops'[t][k] = call.ops[j] BY <1>0, <2>1, <2>2, RunSelectCall
  <2> QED BY <2>1, <2>3
<1>3. ASSUME NEW iterates, Return(t, iterates)
      PROVE  <<t, ops'[t][k].chan, ops'[t][k].side>> \in held
  <2>1. CASE ops'[t] = <<>>
    <3>1. DOMAIN <<>> = {} OBVIOUS
    <3> QED BY <2>1, <3>1
  <2>2. CASE ops'[t] # <<>>
    <3>1. \E j \in DOMAIN ops[t] : ops'[t][k] = ops[t][j] BY <1>0, <1>3, <2>2, ReturnCall
    <3> QED BY <1>0, <3>1
  <2> QED BY <2>1, <2>2
<1>4. CASE Late(t) /\ ops' # ops
  <2> DEFINE m == IF mode[t] = "at" /\ expired[t] THEN "now" ELSE mode[t]
  <2>1. RunSelect(t, ops[t], m) BY <1>4 DEF Late
  <2>2. m \in Modes BY <1>0 DEF Modes
  <2> HIDE DEF m
  <2>3. \E j \in DOMAIN ops[t] : ops'[t][k] = ops[t][j] BY <1>0, <2>1, <2>2, RunSelectCall
  <2> QED BY <1>0, <2>3
<1>5. \/ ops' = ops \/ StartCall(t) \/ Late(t) \/ (\E iterates \in BOOLEAN : Return(t, iterates))
  <2>1. CASE Sleep(t) \/ Snapshot(t) \/ Compare(t) \/ Pause(t) \/ Unpause(t) \/ RegisterOp(t)
    BY <2>1 DEF Sleep, Snapshot, Compare, Pause, Unpause, RegisterOp, callVars
  <2>2. CASE Check(t) \/ Abort(t) \/ Selected(t) \/ Wait(t) \/ UnregisterOp(t) \/ Disconnect(t)
    BY <2>2 DEF Check, Abort, Selected, Wait, UnregisterOp, Disconnect, callVars
  <2>3. CASE DisconnectSenders(t) \/ DisconnectReceivers(t)
    BY <2>3 DEF DisconnectSenders, DisconnectReceivers, callVars
  <2>4. CASE Try(t) \/ Retry(t) BY <2>4 DEF Try, Retry, Fire, callVars
  <2>5. CASE Accept(t) BY <2>5 DEF Accept, Fire, callVars
  <2>6. CASE Nothing(t) \/ CompleteClosed(t) \/ Wake(t) \/ CompletePacket(t) \/ CompleteTime(t)
    BY <2>6 DEF Nothing, CompleteClosed, Wake, CompletePacket, CompleteTime
  <2>7. CASE CompleteSlot(t) BY <2>7 DEF CompleteSlot, callVars
  <2> QED BY <2>1, <2>2, <2>3, <2>4, <2>5, <2>6, <2>7 DEF Step
<1> QED BY <1>1, <1>2, <1>3, <1>4, <1>5

LEMMA StepHeld ==
  ASSUME NEW t \in Threads, Step(t)
  PROVE  held' = held
<1>1. CASE StartCall(t) \/ Sleep(t) \/ Snapshot(t) \/ Compare(t) \/ Pause(t) \/ Unpause(t)
  BY <1>1 DEF StartCall, Sleep, Snapshot, Compare, Pause, Unpause, handleVars
<1>2. CASE RegisterOp(t) \/ Check(t) \/ Abort(t) \/ Selected(t) \/ Wait(t) \/ UnregisterOp(t)
  BY <1>2 DEF RegisterOp, Check, Abort, Selected, Wait, UnregisterOp, handleVars
<1>3. CASE Disconnect(t) \/ DisconnectSenders(t) \/ DisconnectReceivers(t)
  BY <1>3 DEF Disconnect, DisconnectSenders, DisconnectReceivers, handleVars
<1>4. CASE Try(t) \/ Retry(t) \/ Accept(t) BY <1>4 DEF Try, Retry, Accept, Fire, handleVars
<1>5. CASE Late(t) \/ Nothing(t) \/ CompleteClosed(t) \/ CompleteSlot(t) \/ Wake(t)
           \/ CompletePacket(t) \/ CompleteTime(t)
  BY <1>5 DEF Late, Nothing, CompleteClosed, CompleteSlot, Wake, CompletePacket, CompleteTime,
              handleVars
<1> QED BY <1>1, <1>2, <1>3, <1>4, <1>5 DEF Step

LEMMA StepCalls ==
  ASSUME Base, NEW t \in Threads, Step(t)
  PROVE  CallsOK'
<1>1. Own(t) /\ CallTyped' BY StepOwn
<1>2. held' = held BY StepHeld
<1>3. CallsOK BY DEF Base
<1>4. \A u \in Threads : PlaceOK(u)' /\ TokenOK(u)'
  BY <1>1, <1>3, OthersCall, StepPlace, StepToken
<1>5. HeldOK'
  <2>1. ASSUME NEW u \in Threads, NEW k \in DOMAIN ops'[u]
        PROVE  <<u, ops'[u][k].chan, ops'[u][k].side>> \in held
    <3>1. CASE u = t BY <3>1, StepOps
    <3>2. CASE u # t
      <4>1. ops'[u] = ops[u] BY <1>1, <3>2 DEF Own
      <4> QED BY <1>3, <4>1 DEF CallsOK, HeldOK
    <3> QED BY <3>1, <3>2
  <2> QED BY <1>2, <1>3, <2>1 DEF CallsOK, HeldOK
<1> QED BY <1>4, <1>5 DEF CallsOK, CallOK
-------------------------------------------------------------------------------
(* What the steps do to the wakers. *)

LEMMA RegisterIs ==
  ASSUME SharedTyped, EntriesOK, NEW t \in Threads, NEW o \in Ops, NEW n \in Nat,
         entries' = [entries EXCEPT ![o.chan][o.side] = Append(@, Entry(t, n))],
         Entry(t, n) \notin Items(o)
  PROVE  /\ entries' \in [Channels -> [Sides -> Seq(Item)]]
         /\ Distinct(entries'[o.chan][o.side])
         /\ Range(entries'[o.chan][o.side]) = Items(o) \cup {Entry(t, n)}
         /\ \A c \in Channels, s \in Sides :
              ~(c = o.chan /\ s = o.side) => entries'[c][s] = entries[c][s]
<1> DEFINE q == entries[o.chan][o.side]
           r == Append(q, Entry(t, n))
<1>1. o.chan \in Channels /\ o.side \in Sides BY OpIs
<1>2. q \in Seq(Item) /\ Distinct(q) BY <1>1 DEF SharedTyped, EntriesOK
<1>3. Entry(t, n) \in Item BY DEF Entry, Item
<1>4. Entry(t, n) \notin Range(q) BY DEF Items
<1> HIDE DEF q
<1>5. r \in Seq(Item) /\ Distinct(r) /\ Range(r) = Range(q) \cup {Entry(t, n)}
  BY <1>2, <1>3, <1>4, AppendIs
<1>6. entries' = [entries EXCEPT ![o.chan][o.side] = r] BY DEF q
<1> HIDE DEF r
<1>7. entries'[o.chan][o.side] = r BY <1>1, <1>6 DEF SharedTyped
<1>8. entries' \in [Channels -> [Sides -> Seq(Item)]] BY <1>1, <1>5, <1>6 DEF SharedTyped
<1>9. \A c \in Channels, s \in Sides : ~(c = o.chan /\ s = o.side) => entries'[c][s] = entries[c][s]
  BY <1>1, <1>6 DEF SharedTyped
<1> QED BY <1>5, <1>7, <1>8, <1>9 DEF Items, q

LEMMA UnregisterIs ==
  ASSUME SharedTyped, EntriesOK, NEW t \in Threads, NEW o \in Ops, NEW n \in Nat,
         Unregister(t, o, n)
  PROVE  /\ entries' \in [Channels -> [Sides -> Seq(Item)]]
         /\ Distinct(entries'[o.chan][o.side])
         /\ Range(entries'[o.chan][o.side]) = Items(o) \ {Entry(t, n)}
         /\ \A c \in Channels, s \in Sides :
              ~(c = o.chan /\ s = o.side) => entries'[c][s] = entries[c][s]
<1> DEFINE q == entries[o.chan][o.side]
           r == RemoveFirst(q, Entry(t, n))
<1>1. o.chan \in Channels /\ o.side \in Sides BY OpIs
<1>2. q \in Seq(Item) /\ Distinct(q) BY <1>1 DEF SharedTyped, EntriesOK
<1> HIDE DEF q
<1>5. r \in Seq(Item) /\ Distinct(r) /\ Range(r) = Range(q) \ {Entry(t, n)}
  BY <1>2, RemoveFirstIs
<1>6. entries' = [entries EXCEPT ![o.chan][o.side] = r] BY DEF q, Unregister, Entry
<1> HIDE DEF r
<1>7. entries'[o.chan][o.side] = r BY <1>1, <1>6 DEF SharedTyped
<1>8. entries' \in [Channels -> [Sides -> Seq(Item)]] BY <1>1, <1>5, <1>6 DEF SharedTyped
<1>9. \A c \in Channels, s \in Sides : ~(c = o.chan /\ s = o.side) => entries'[c][s] = entries[c][s]
  BY <1>1, <1>6 DEF SharedTyped
<1> QED BY <1>5, <1>7, <1>8, <1>9 DEF Items, q

\* Who is woken: the thread of an entry, which is not the waker.
Woken(t, o, e) ==
  /\ e \in Items(o) /\ e \in Item /\ e.thread # t /\ select[e.thread] = Waiting
  /\ select' = [select EXCEPT ![e.thread] = Operation(e.oper)]
  /\ entries' \in [Channels -> [Sides -> Seq(Item)]]
  /\ Distinct(entries'[o.chan][o.side])
  /\ Range(entries'[o.chan][o.side]) = Items(o) \ {e}
  /\ \A c \in Channels, s \in Sides :
       ~(c = o.chan /\ s = o.side) => entries'[c][s] = entries[c][s]

LEMMA WakeOneIs ==
  ASSUME SharedTyped, EntriesOK, NEW t \in Threads, NEW c \in Channels, NEW s \in Sides,
         WakeOne(t, c, s)
  PROVE  \/ Wakeable(t, c, s) = {} /\ UNCHANGED <<entries, select>>
         \/ Wakeable(t, c, s) # {} /\ \E e \in Item : Woken(t, Op(c, s), e)
<1> DEFINE able == Wakeable(t, c, s)
           q == entries[c][s]
           k == CHOOSE m \in able : \A j \in able : m <= j
<1>1. CASE able = {} BY <1>1 DEF WakeOne
<1>2. CASE able # {}
  <2>1. q \in Seq(Item) /\ Distinct(q) BY DEF SharedTyped, EntriesOK
  <2>2. DOMAIN q = 1 .. Len(q) /\ Len(q) \in Nat BY <2>1, LenProperties
  <2>3. able \in SUBSET Nat /\ able \subseteq DOMAIN q BY <2>2 DEF Wakeable
  <2>4. k \in able
    <3> HIDE DEF able
    <3>1. Min(able) \in able /\ \A y \in able : Min(able) <= y BY <1>2, <2>3, MinIsLeast
    <3> QED BY <3>1
  <2>5. /\ select' = [select EXCEPT ![q[k].thread] = Operation(q[k].oper)]
        /\ entries' = [entries EXCEPT ![c][s] = RemoveAt(@, k)]
    BY <1>2 DEF WakeOne
  <2> HIDE DEF k
  <2>6. k \in 1 .. Len(q) /\ q[k].thread # t /\ select[q[k].thread] = Waiting
    BY <2>2, <2>3, <2>4 DEF Wakeable
  <2> HIDE DEF able
  <2> DEFINE r == RemoveAt(q, k)
  <2>7. q[k] \in Item /\ q[k] \in Range(q) BY <2>1, <2>2, <2>6, ElementOfSeq DEF Range
  <2>8. entries' = [entries EXCEPT ![c][s] = r] BY <2>5
  <2> HIDE DEF q
  <2>9. r \in Seq(Item) /\ Distinct(r) /\ Range(r) = Range(q) \ {q[k]}
    BY <2>1, <2>6, RemoveAtIs
  <2> HIDE DEF r
  <2>10. entries'[c][s] = r /\ entries' \in [Channels -> [Sides -> Seq(Item)]]
    BY <2>8, <2>9 DEF SharedTyped
  <2>11. \A d \in Channels, z \in Sides : ~(d = c /\ z = s) => entries'[d][z] = entries[d][z]
    BY <2>8 DEF SharedTyped
  <2>12. Op(c, s).chan = c /\ Op(c, s).side = s /\ Items(Op(c, s)) = Range(q)
    BY DEF Op, Items, q
  <2>13. Woken(t, Op(c, s), q[k])
    BY <2>5, <2>6, <2>7, <2>9, <2>10, <2>11, <2>12 DEF Woken
  <2> QED BY <1>2, <2>7, <2>13 DEF able
<1> QED BY <1>1, <1>2

WakersTyped ==
  entries \in [Channels -> [Sides -> Seq(Item)]] /\ select \in [Threads -> Nat]
AllDistinct == \A c \in Channels, s \in Sides : Distinct(entries[c][s])

\* What may happen to the entries of thread u in one step.
Keeps(u) ==
  \A c \in Channels, s \in Sides : \A e \in Item : e.thread = u =>
    (e \in Range(entries'[c][s]) <=> e \in Range(entries[c][s]))
Gains(u, o, n) ==
  \A c \in Channels, s \in Sides : \A e \in Item : e.thread = u =>
    (e \in Range(entries'[c][s]) <=>
       e \in Range(entries[c][s]) \/ (c = o.chan /\ s = o.side /\ e = Entry(u, n)))
Loses(u, o, n) ==
  \A c \in Channels, s \in Sides : \A e \in Item : e.thread = u =>
    (e \in Range(entries'[c][s]) <=>
       e \in Range(entries[c][s]) /\ ~(c = o.chan /\ s = o.side /\ e = Entry(u, n)))

\* What may happen to a thread in a step of another.
Left(u) == select'[u] = select[u] /\ Keeps(u)
Taken(u) ==
  \E c \in Channels, s \in Sides, n \in Nat :
    /\ select[u] = Waiting /\ Entry(u, n) \in Range(entries[c][s])
    /\ select'[u] = Operation(n) /\ Loses(u, Op(c, s), n)
Cut(u) ==
  \E c \in Channels, s \in Sides, n \in Nat :
    /\ select[u] = Waiting /\ Entry(u, n) \in Range(entries[c][s])
    /\ select'[u] = Disconnected /\ Keeps(u)
    /\ disconnected'[c] \/ Flavor[c] # "zero"

Mild(t) ==
  /\ WakersTyped' /\ AllDistinct'
  /\ \A u \in Threads \ {t} : Left(u) \/ Taken(u) \/ Cut(u)

LEMMA ItemIs ==
  ASSUME NEW e \in Item
  PROVE  e.thread \in Threads /\ e.oper \in Nat /\ e = Entry(e.thread, e.oper)
  BY DEF Item, Entry

\* A step that does nothing to a waker.
LEMMA StillMild ==
  ASSUME SharedTyped, EntriesOK, NEW t \in Threads, entries' = entries, select' \in [Threads -> Nat],
         \A u \in Threads \ {t} : select'[u] = select[u]
  PROVE  Mild(t) /\ Keeps(t)
<1>1. WakersTyped' BY DEF WakersTyped, SharedTyped
<1>2. AllDistinct' BY DEF AllDistinct, EntriesOK
<1>3. \A u : Keeps(u) BY DEF Keeps
<1> QED BY <1>1, <1>2, <1>3 DEF Mild, Left

LEMMA EnterMild ==
  ASSUME SharedTyped, EntriesOK, NEW t \in Threads, NEW o \in Ops, NEW n \in Nat,
         entries' = [entries EXCEPT ![o.chan][o.side] = Append(@, Entry(t, n))],
         Entry(t, n) \notin Items(o), select' \in [Threads -> Nat],
         \A u \in Threads \ {t} : select'[u] = select[u]
  PROVE  Mild(t) /\ Gains(t, o, n)
<1>1. /\ entries' \in [Channels -> [Sides -> Seq(Item)]]
      /\ Distinct(entries'[o.chan][o.side])
      /\ Range(entries'[o.chan][o.side]) = Items(o) \cup {Entry(t, n)}
      /\ \A c \in Channels, s \in Sides :
           ~(c = o.chan /\ s = o.side) => entries'[c][s] = entries[c][s]
  BY RegisterIs
<1>2. WakersTyped' BY <1>1 DEF WakersTyped
<1>3. AllDistinct' BY <1>1 DEF AllDistinct, EntriesOK
<1>4. \A e : e \in Range(entries'[o.chan][o.side]) <=>
               e \in Range(entries[o.chan][o.side]) \/ e = Entry(t, n)
  BY <1>1 DEF Items
<1>5. Entry(t, n).thread = t BY DEF Entry
<1>6. Gains(t, o, n) BY <1>1, <1>4 DEF Gains
<1>7. ASSUME NEW u \in Threads \ {t} PROVE Keeps(u)
  <2> SUFFICES ASSUME NEW c \in Channels, NEW s \in Sides, NEW e \in Item, e.thread = u
               PROVE  e \in Range(entries'[c][s]) <=> e \in Range(entries[c][s])
    BY DEF Keeps
  <2>1. e # Entry(t, n) BY <1>5
  <2>2. CASE c = o.chan /\ s = o.side BY <1>4, <2>1, <2>2
  <2>3. CASE ~(c = o.chan /\ s = o.side) BY <1>1, <2>3
  <2> QED BY <2>2, <2>3
<1> QED BY <1>2, <1>3, <1>6, <1>7 DEF Mild, Left

LEMMA LeaveMild ==
  ASSUME SharedTyped, EntriesOK, NEW t \in Threads, NEW o \in Ops, NEW n \in Nat,
         Unregister(t, o, n), select' \in [Threads -> Nat],
         \A u \in Threads \ {t} : select'[u] = select[u]
  PROVE  Mild(t) /\ Loses(t, o, n)
<1>1. /\ entries' \in [Channels -> [Sides -> Seq(Item)]]
      /\ Distinct(entries'[o.chan][o.side])
      /\ Range(entries'[o.chan][o.side]) = Items(o) \ {Entry(t, n)}
      /\ \A c \in Channels, s \in Sides :
           ~(c = o.chan /\ s = o.side) => entries'[c][s] = entries[c][s]
  BY UnregisterIs
<1>2. WakersTyped' BY <1>1 DEF WakersTyped
<1>3. AllDistinct' BY <1>1 DEF AllDistinct, EntriesOK
<1>4. \A e : e \in Range(entries'[o.chan][o.side]) <=>
               e \in Range(entries[o.chan][o.side]) /\ e # Entry(t, n)
  BY <1>1 DEF Items
<1>5. Entry(t, n).thread = t BY DEF Entry
<1>6. Loses(t, o, n) BY <1>1, <1>4 DEF Loses
<1>7. ASSUME NEW u \in Threads \ {t} PROVE Keeps(u)
  <2> SUFFICES ASSUME NEW c \in Channels, NEW s \in Sides, NEW e \in Item, e.thread = u
               PROVE  e \in Range(entries'[c][s]) <=> e \in Range(entries[c][s])
    BY DEF Keeps
  <2>1. e # Entry(t, n) BY <1>5
  <2>2. CASE c = o.chan /\ s = o.side BY <1>4, <2>1, <2>2
  <2>3. CASE ~(c = o.chan /\ s = o.side) BY <1>1, <2>3
  <2> QED BY <2>2, <2>3
<1> QED BY <1>2, <1>3, <1>6, <1>7 DEF Mild, Left

LEMMA WakeMild ==
  ASSUME SharedTyped, EntriesOK, NEW t \in Threads, NEW c \in Channels, NEW s \in Sides,
         WakeOne(t, c, s)
  PROVE  Mild(t) /\ Keeps(t) /\ select'[t] = select[t]
<1>1. CASE UNCHANGED <<entries, select>> BY <1>1, StillMild DEF SharedTyped
<1>2. ASSUME NEW e \in Item, Woken(t, Op(c, s), e)
      PROVE  Mild(t) /\ Keeps(t) /\ select'[t] = select[t]
  <2>0. e.thread \in Threads /\ e.oper \in Nat /\ e = Entry(e.thread, e.oper) BY ItemIs
  <2>1. /\ e \in Range(entries[c][s]) /\ e.thread # t /\ select[e.thread] = Waiting
        /\ select' = [select EXCEPT ![e.thread] = Operation(e.oper)]
        /\ entries' \in [Channels -> [Sides -> Seq(Item)]]
        /\ Distinct(entries'[c][s])
        /\ Range(entries'[c][s]) = Range(entries[c][s]) \ {e}
        /\ \A d \in Channels, z \in Sides : ~(d = c /\ z = s) => entries'[d][z] = entries[d][z]
    BY <1>2 DEF Woken, Items, Op
  <2>2. Operation(e.oper) \in Nat BY <2>0 DEF Operation
  <2>3. select' \in [Threads -> Nat] /\ select'[e.thread] = Operation(e.oper)
        /\ \A u \in Threads \ {e.thread} : select'[u] = select[u]
    BY <2>0, <2>1, <2>2 DEF SharedTyped
  <2>4. WakersTyped' BY <2>1, <2>3 DEF WakersTyped
  <2>5. AllDistinct' BY <2>1 DEF AllDistinct, EntriesOK
  <2>6. \A u \in Threads \ {e.thread} : Keeps(u) BY <2>1 DEF Keeps
  <2>7. Loses(e.thread, Op(c, s), e.oper)
    <3>1. Op(c, s).chan = c /\ Op(c, s).side = s BY DEF Op
    <3>2. \A f : f \in Range(entries'[c][s]) <=> f \in Range(entries[c][s]) /\ f # e BY <2>1
    <3> QED BY <2>0, <2>1, <3>1, <3>2 DEF Loses
  <2>8. Taken(e.thread) BY <2>0, <2>1, <2>3, <2>7 DEF Taken
  <2>9. \A u \in Threads \ {e.thread} : Left(u) BY <2>3, <2>6 DEF Left
  <2>10. Mild(t) BY <2>4, <2>5, <2>8, <2>9 DEF Mild
  <2> QED BY <2>1, <2>3, <2>6, <2>10
<1> QED BY <1>1, <1>2, WakeOneIs

\* A disconnection: the threads that wait for the channel are told.
LEMMA WakeAllMild ==
  ASSUME SharedTyped, EntriesOK, NEW t \in Threads, NEW c \in Channels, NEW sides \in SUBSET Sides,
         select' = WakeAll(c, sides), entries' = entries, disconnected'[c] \/ Flavor[c] # "zero"
  PROVE  Mild(t) /\ Keeps(t)
<1>1. \A u : Keeps(u) BY DEF Keeps
<1>2. ASSUME NEW u \in Threads
      PROVE  /\ select'[u] = select[u] \/ select'[u] = Disconnected
             /\ select'[u] = select[u] \/ Cut(u)
  <2>1. CASE select[u] = Waiting /\ \E s \in sides : \E k \in DOMAIN entries[c][s] : entries[c][s][k].thread = u
    <3>1. select'[u] = Disconnected BY <2>1 DEF WakeAll
    <3>2. PICK s \in sides : \E k \in DOMAIN entries[c][s] : entries[c][s][k].thread = u BY <2>1
    <3>8. PICK k \in DOMAIN entries[c][s] : entries[c][s][k].thread = u BY <3>2
    <3>3. entries[c][s] \in Seq(Item) BY DEF SharedTyped
    <3>4. k \in 1 .. Len(entries[c][s]) BY <3>8, <3>3, LenProperties
    <3>5. entries[c][s][k] \in Item /\ entries[c][s][k] \in Range(entries[c][s])
      BY <3>8, <3>3, <3>4, ElementOfSeq DEF Range
    <3>6. PICK n \in Nat : Entry(u, n) \in Range(entries[c][s]) BY <3>8, <3>5, ItemIs
    <3>7. Cut(u) BY <1>1, <2>1, <3>1, <3>6 DEF Cut
    <3> QED BY <3>1, <3>7
  <2>2. CASE ~(select[u] = Waiting /\ \E s \in sides : \E k \in DOMAIN entries[c][s] : entries[c][s][k].thread = u)
    BY <2>2 DEF WakeAll
  <2> QED BY <2>1, <2>2
<1>3. select' \in [Threads -> Nat]
  <2>1. DOMAIN select' = Threads /\ select' = [u \in Threads |-> select'[u]] BY DEF WakeAll
  <2>2. \A u \in Threads : select'[u] \in Nat BY <1>2 DEF SharedTyped, Disconnected
  <2> QED BY <2>1, <2>2
<1>4. WakersTyped' BY <1>3 DEF WakersTyped, SharedTyped
<1>5. AllDistinct' BY DEF AllDistinct, EntriesOK
<1> QED BY <1>1, <1>2, <1>4, <1>5 DEF Mild, Left

\* What a step does to the entries of its own thread.
Outcome(t) ==
  \/ pc[t] = "retry" /\ pc'[t] = "pause" /\ Gains(t, Mine(t), 0)
  \/ pc[t] = "unpause" /\ Loses(t, Mine(t), 0)
  \/ pc[t] = "register" /\ Queues(Mine(t)) /\ Gains(t, Mine(t), i[t])
  \/ pc[t] = "unregister" /\ Loses(t, Mine(t), i[t])
  \/ /\ pc[t] \notin {"unpause", "unregister"} /\ ~(pc[t] = "retry" /\ pc'[t] = "pause")
     /\ pc[t] = "register" => ~Queues(Mine(t))
     /\ Keeps(t)

\* An entry is there only while its thread is registered.
LEMMA NoItems ==
  ASSUME EntriesOK, NEW t \in Threads, pc[t] \notin Registering \cup {"pause", "unpause"}
  PROVE  \A c \in Channels, s \in Sides : \A e \in Range(entries[c][s]) : e.thread # t
<1> TAKE c \in Channels, s \in Sides
<1> TAKE e \in Range(entries[c][s])
<1>1. Items(Op(c, s)) = Range(entries[c][s]) BY DEF Items, Op
<1>2. ItemOK(e, Op(c, s)) BY <1>1 DEF EntriesOK
<1> QED BY <1>2 DEF ItemOK

LEMMA FireMild ==
  ASSUME SharedTyped, EntriesOK, NEW t \in Threads, NEW o \in Ops, Fire(t, o)
  PROVE  Mild(t) /\ Keeps(t) /\ select'[t] = select[t]
<1>1. CASE UNCHANGED <<entries, select>> BY <1>1, StillMild DEF SharedTyped
<1>2. CASE WakeOne(t, o.chan, Opposite(o.side))
  <2>1. o.chan \in Channels /\ Opposite(o.side) \in Sides BY OpIs DEF Opposite, Sides
  <2> QED BY <1>2, <2>1, WakeMild
<1> QED BY <1>1, <1>2 DEF Fire

\* A step that changes no waker, and no selection but its own.
LEMMA StillOutcome ==
  ASSUME Typed, EntriesOK, NEW t \in Threads, entries' = entries,
         pc[t] \notin {"unpause", "unregister", "register", "retry"},
         select' \in [Threads -> Nat], \A u \in Threads \ {t} : select'[u] = select[u]
  PROVE  Mild(t) /\ Outcome(t)
  BY StillMild DEF Typed, Outcome

LEMMA StepMild ==
  ASSUME Base, NEW t \in Threads, Step(t)
  PROVE  Mild(t) /\ Outcome(t)
<1> USE DEF Base
<1>0. /\ Typed /\ SharedTyped /\ EntriesOK /\ CallTyped /\ select \in [Threads -> Nat]
      /\ i[t] \in Nat /\ select[t] \in Nat
  BY DEF Typed, WaitsOK, SharedTyped, CallTyped
<1>1. CASE StartCall(t) \/ Sleep(t) \/ Snapshot(t) \/ Compare(t) \/ Check(t) \/ Selected(t)
  <2>1. UNCHANGED <<entries, select>>
    BY <1>1 DEF StartCall, Sleep, Snapshot, Compare, Check, Selected, waitVars
  <2>2. pc[t] \in {"idle", "sleep", "snapshot", "compare", "check", "selected"}
    BY <1>1 DEF StartCall, Sleep, Snapshot, Compare, Check, Selected
  <2> QED BY <1>0, <2>1, <2>2, StillOutcome
<1>2. CASE Late(t) \/ Nothing(t) \/ CompleteClosed(t) \/ CompleteSlot(t) \/ CompletePacket(t)
           \/ CompleteTime(t)
  <2>1. UNCHANGED <<entries, select>>
    BY <1>2 DEF Late, Nothing, CompleteClosed, CompleteSlot, CompletePacket, CompleteTime, waitVars
  <2>2. pc[t] \in {"late", "nothing", "complete"}
    BY <1>2 DEF Late, Nothing, CompleteClosed, CompleteSlot, CompletePacket, CompleteTime
  <2> QED BY <1>0, <2>1, <2>2, StillOutcome
<1>3. CASE Pause(t) \/ Abort(t) \/ Wait(t)
  <2>1. entries' = entries /\ pc[t] \in {"pause", "abort", "wait"} BY <1>3 DEF Pause, Abort, Wait
  <2>2. select' = select \/ select' = [select EXCEPT ![t] = Aborted]
    <3>1. CASE Pause(t) \/ Wait(t) BY <3>1 DEF Pause, Wait
    <3>2. CASE Abort(t)
      <4>1. select = [select EXCEPT ![t] = select[t]] BY <1>0
      <4> QED BY <3>2, <4>1 DEF Abort
    <3> QED BY <1>3, <3>1, <3>2
  <2>3. select' \in [Threads -> Nat] /\ \A u \in Threads \ {t} : select'[u] = select[u]
    BY <1>0, <2>2 DEF Aborted
  <2> QED BY <1>0, <2>1, <2>3, StillOutcome
<1>4. CASE Try(t)
  <2>1. pc[t] = "try" BY <1>4 DEF Try
  <2>2. CASE Fire(t, Mine(t))
    <3>1. Mine(t) \in Ops BY <1>0, <2>1, MineIs DEF Listless
    <3>2. Mild(t) /\ Keeps(t) BY <1>0, <2>2, <3>1, FireMild
    <3> QED BY <2>1, <3>2 DEF Outcome
  <2>3. CASE ~Fire(t, Mine(t))
    <3>1. UNCHANGED <<entries, select>> BY <1>4, <2>3 DEF Try, waitVars
    <3> QED BY <1>0, <2>1, <3>1, StillOutcome
  <2> QED BY <2>2, <2>3
<1>5. CASE Accept(t)
  <2>1. pc[t] = "accept" BY <1>5 DEF Accept
  <2>2. CASE select[t] >= Operation(1) /\ Fire(t, ops[t][Selection(t)])
    <3>1. ops[t][Selection(t)] \in Ops BY <2>1, <2>2, AcceptIs
    <3>2. Mild(t) /\ Keeps(t) BY <1>0, <2>2, <3>1, FireMild
    <3> QED BY <2>1, <3>2 DEF Outcome
  <2>3. CASE ~(select[t] >= Operation(1) /\ Fire(t, ops[t][Selection(t)]))
    <3>1. UNCHANGED <<entries, select>> BY <1>5, <2>3 DEF Accept, waitVars
    <3> QED BY <1>0, <2>1, <3>1, StillOutcome
  <2> QED BY <2>2, <2>3
<1>6. CASE Retry(t)
  <2>1. pc[t] = "retry" BY <1>6 DEF Retry
  <2>2. Mine(t) \in Ops BY <1>0, <2>1, MineIs DEF Listless
  <2>3. CASE Fire(t, Mine(t))
    <3>1. Mild(t) /\ Keeps(t) BY <1>0, <2>2, <2>3, FireMild
    <3>2. pc'[t] = "complete" BY <1>0, <2>3 DEF Fire, Goto, CallTyped
    <3> QED BY <2>1, <3>1, <3>2 DEF Outcome
  <2>4. CASE NextOp(t, "retry", "register") /\ UNCHANGED waitVars
    <3>1. Mild(t) /\ Keeps(t) BY <1>0, <2>4, StillMild DEF waitVars
    <3>2. pc'[t] \in {"retry", "register"} BY <1>0, <2>4, NextOpCall DEF Labels
    <3> QED BY <2>1, <3>1, <3>2 DEF Outcome
  <2>5. CASE /\ Register(t, Mine(t), 0) /\ select' = [select EXCEPT ![t] = Waiting]
             /\ Goto(t, "pause")
    <3>1. entries' = [entries EXCEPT ![Mine(t).chan][Mine(t).side] = Append(@, Entry(t, 0))]
      BY <2>5 DEF Register, Entry
    <3>2. Entry(t, 0) \notin Items(Mine(t))
      <4>1. Mine(t).chan \in Channels /\ Mine(t).side \in Sides BY <2>2, OpIs
      <4>2. Entry(t, 0).thread = t BY DEF Entry
      <4>3. pc[t] \notin Registering \cup {"pause", "unpause"} BY <2>1 DEF Registering
      <4> QED BY <1>0, <4>1, <4>2, <4>3, NoItems DEF Items
    <3>3. select' \in [Threads -> Nat] /\ \A u \in Threads \ {t} : select'[u] = select[u]
      BY <1>0, <2>5 DEF Waiting
    <3>4. Mild(t) /\ Gains(t, Mine(t), 0) BY <1>0, <2>2, <3>1, <3>2, <3>3, EnterMild
    <3>5. pc'[t] = "pause" BY <1>0, <2>5 DEF Goto, CallTyped
    <3> QED BY <2>1, <3>4, <3>5 DEF Outcome
  <2> QED BY <1>6, <2>3, <2>4, <2>5 DEF Retry
<1>7. CASE Unpause(t)
  <2>1. pc[t] = "unpause" /\ Unregister(t, Mine(t), 0) /\ select' = select BY <1>7 DEF Unpause
  <2>2. Mine(t) \in Ops BY <1>0, <2>1, MineIs DEF Listless
  <2>3. Mild(t) /\ Loses(t, Mine(t), 0) BY <1>0, <2>1, <2>2, LeaveMild
  <2> QED BY <2>1, <2>3 DEF Outcome
<1>8. CASE UnregisterOp(t)
  <2>1. pc[t] = "unregister" /\ Unregister(t, Mine(t), i[t]) /\ select' = select
    BY <1>8 DEF UnregisterOp
  <2>2. Mine(t) \in Ops BY <1>0, <2>1, MineIs DEF Listless
  <2>3. Mild(t) /\ Loses(t, Mine(t), i[t]) BY <1>0, <2>1, <2>2, LeaveMild
  <2> QED BY <2>1, <2>3 DEF Outcome
<1>9. CASE RegisterOp(t)
  <2>1. pc[t] = "register" BY <1>9 DEF RegisterOp
  <2>2. Mine(t) \in Ops BY <1>0, <2>1, MineIs DEF Listless
  <2>3. select' \in [Threads -> Nat] /\ \A u \in Threads \ {t} : select'[u] = select[u]
    <3>1. select' = select \/ select' = [select EXCEPT ![t] = Waiting] BY <1>9 DEF RegisterOp
    <3> QED BY <1>0, <3>1 DEF Waiting
  <2>4. Handle(t, Mine(t)).waits <=> Queues(Mine(t)) BY <1>0, <2>2, HandleIs
  <2>5. CASE ~Queues(Mine(t))
    <3>1. entries' = entries BY <1>9, <2>4, <2>5 DEF RegisterOp
    <3>2. Mild(t) /\ Keeps(t) BY <1>0, <2>3, <3>1, StillMild
    <3> QED BY <2>1, <2>5, <3>2 DEF Outcome
  <2>6. CASE Queues(Mine(t))
    <3>1. entries' = [entries EXCEPT ![Mine(t).chan][Mine(t).side] = Append(@, Entry(t, i[t]))]
      BY <1>9, <2>4, <2>6 DEF RegisterOp, Register, Entry
    <3>2. Entry(t, i[t]) \notin Items(Mine(t))
      <4>1. Mine(t) = Op(Mine(t).chan, Mine(t).side) /\ Mine(t).chan \in Channels /\ Mine(t).side \in Sides
        BY <2>2, OpIs
      <4>2. registered[t] + 1 = i[t] /\ registered[t] \in Nat
        BY <1>0, <2>1 DEF CallsOK, CallOK, PlaceOK, CallTyped
      <4>3. ASSUME Entry(t, i[t]) \in Items(Mine(t)) PROVE FALSE
        <5>1. ItemOK(Entry(t, i[t]), Mine(t)) BY <1>0, <4>1, <4>3, Zenon DEF EntriesOK
        <5>2. i[t] \in 1 .. registered[t] BY <2>1, <5>1 DEF ItemOK, Entry
        <5> QED BY <4>2, <5>2
      <4> QED BY <4>3
    <3>3. Mild(t) /\ Gains(t, Mine(t), i[t]) BY <1>0, <2>2, <2>3, <3>1, <3>2, EnterMild
    <3> QED BY <2>1, <2>6, <3>3 DEF Outcome
  <2> QED BY <2>5, <2>6
<1>10. CASE Wake(t)
  <2>1. pc[t] = "wake" BY <1>10 DEF Wake
  <2>2. PICK k \in DOMAIN ops[t] : token[t].op = ops[t][k]
    BY <2>1 DEF CallsOK, CallOK, TokenOK
  <2>3. ops[t] \in Seq(Ops) BY <1>0 DEF CallTyped
  <2>4. k \in 1 .. Len(ops[t]) BY <2>2, <2>3, LenProperties
  <2>5. token[t].op \in Ops BY <2>2, <2>3, <2>4, ElementOfSeq
  <2>6. token[t].op.chan \in Channels /\ Opposite(token[t].op.side) \in Sides
    BY <2>5, OpIs DEF Opposite, Sides
  <2>7. Mild(t) /\ Keeps(t) BY <1>0, <1>10, <2>6, WakeMild DEF Wake
  <2> QED BY <2>1, <2>7 DEF Outcome
<1>11. CASE Disconnect(t) \/ DisconnectSenders(t) \/ DisconnectReceivers(t)
  <2> DEFINE c == token[t].op.chan
  <2>1. pc[t] \in Dropping /\ entries' = entries
    BY <1>11 DEF Disconnect, DisconnectSenders, DisconnectReceivers, Dropping
  <2>2. c \in Counted /\ c \in Channels BY <2>1 DEF CallsOK, CallOK, TokenOK, Counted
  <2>3. CASE select' = select
    BY <1>0, <2>1, <2>3, StillOutcome DEF Dropping
  <2>4. CASE select' # select
    <3>1. PICK sides \in SUBSET Sides : select' = WakeAll(c, sides)
      BY <1>11, <2>4 DEF Disconnect, DisconnectSenders, DisconnectReceivers, Sides
    <3>2. disconnected'[c] \/ Flavor[c] # "zero"
      <4>1. CASE Disconnect(t) BY <1>0, <2>2, <4>1 DEF Disconnect, SharedTyped
      <4>2. CASE ~Disconnect(t)
        <5>1. pc[t] \in {"wakeSenders", "wakeReceivers"}
          BY <1>11, <4>2 DEF DisconnectSenders, DisconnectReceivers
        <5> QED BY <5>1 DEF CallsOK, CallOK, TokenOK
      <4> QED BY <4>1, <4>2
    <3> HIDE DEF c
    <3>3. Mild(t) /\ Keeps(t) BY <1>0, <2>1, <2>2, <3>1, <3>2, WakeAllMild
    <3> QED BY <2>1, <3>3 DEF Outcome, Dropping
  <2> QED BY <2>3, <2>4
<1> HIDE DEF Base
<1> QED BY <1>1, <1>2, <1>3, <1>4, <1>5, <1>6, <1>7, <1>8, <1>9, <1>10, <1>11 DEF Step
-------------------------------------------------------------------------------
(* The entries and the selections of the other threads. *)

Grows == \A c \in Channels : disconnected[c] => disconnected'[c]

\* A registered operation is one of the call's.
LEMMA RegisteredIs ==
  ASSUME Typed, CallsOK, NEW t \in Threads, pc[t] \in Registering \cup {"accept"},
         NEW n \in 1 .. registered[t]
  PROVE  n \in DOMAIN ops[t] /\ ops[t][n] \in Ops /\ n \in Nat
<1>1. /\ ops[t] \in Seq(Ops) /\ registered[t] \in Nat /\ i[t] \in Nat
      /\ Len(ops[t]) \in Nat /\ DOMAIN ops[t] = 1 .. Len(ops[t])
  BY LenProperties DEF Typed, CallTyped
<1>2. registered[t] <= Len(ops[t])
  BY <1>1 DEF CallsOK, CallOK, PlaceOK, Registering, Listless
<1>3. n \in 1 .. Len(ops[t]) BY <1>1, <1>2
<1> QED BY <1>1, <1>3, ElementOfSeq

LEMMA OthersItems ==
  ASSUME Base, NEW t \in Threads, NEW u \in Threads \ {t}, Mild(t), Own(t),
         NEW c \in Channels, NEW s \in Sides, NEW e \in Range(entries'[c][s]), e.thread = u
  PROVE  ItemOK(e, Op(c, s))'
<1>1. e \in Item
  <2>1. entries'[c][s] \in Seq(Item) BY DEF Mild, WakersTyped
  <2>2. DOMAIN entries'[c][s] = 1 .. Len(entries'[c][s]) BY <2>1, LenProperties
  <2> QED BY <2>1, <2>2, ElementOfSeq DEF Range
<1>2. e \in Range(entries[c][s])
  <2>1. CASE Left(u) BY <1>1, <2>1 DEF Left, Keeps
  <2>2. CASE Taken(u) BY <1>1, <2>2 DEF Taken, Loses
  <2>3. CASE Cut(u) BY <1>1, <2>3 DEF Cut, Keeps
  <2> QED BY <2>1, <2>2, <2>3 DEF Mild
<1>3. ItemOK(e, Op(c, s))
  <2>1. Range(entries[c][s]) = Items(Op(c, s)) BY DEF Items, Op
  <2> QED BY <1>2, <2>1 DEF Base, WaitsOK, EntriesOK
<1>4. pc'[u] = pc[u] /\ i'[u] = i[u] /\ ops'[u] = ops[u] /\ registered'[u] = registered[u]
  BY DEF Own
<1> QED BY <1>3, <1>4 DEF ItemOK, Mine

\* The operation that an entry stands for.
LEMMA EntryIs ==
  ASSUME Base, NEW u \in Threads, NEW c \in Channels, NEW s \in Sides, NEW n \in Nat,
         Entry(u, n) \in Range(entries[c][s])
  PROVE  \/ n = 0 /\ pc[u] \in {"pause", "unpause"} /\ Mine(u) = Op(c, s)
         \/ /\ pc[u] \in Registering /\ n \in 1 .. registered[u] /\ ops[u][n] = Op(c, s)
            /\ pc[u] = "unregister" => n >= i[u]
<1>1. Range(entries[c][s]) = Items(Op(c, s)) BY DEF Items, Op
<1>2. ItemOK(Entry(u, n), Op(c, s)) BY <1>1 DEF Base, WaitsOK, EntriesOK
<1> QED BY <1>2 DEF ItemOK, Entry

LEMMA OthersSelected ==
  ASSUME Base, NEW t \in Threads, NEW u \in Threads \ {t}, Mild(t), Own(t), Grows
  PROVE  SelectedOK(u)'
<1>1. SelectedOK(u) BY DEF Base, WaitsOK
<1>2. /\ pc'[u] = pc[u] /\ i'[u] = i[u] /\ ops'[u] = ops[u] /\ registered'[u] = registered[u]
      /\ Mine(u)' = Mine(u) /\ (Begun(u)' <=> Begun(u))
  BY DEF Own, Mine, Begun
<1>3. pc[u] \in {"pause", "unpause"} => Mine(u).chan \in Channels
  <2>1. pc[u] \in {"pause", "unpause"} => Mine(u) \in Ops BY MineIs DEF Base, Listless
  <2> QED BY <2>1, OpIs
<1>4. CASE select'[u] = select[u]
  BY <1>1, <1>2, <1>3, <1>4 DEF SelectedOK, Selection, Grows
<1>5. CASE Taken(u)
  <2>1. PICK c \in Channels, s \in Sides, n \in Nat :
          select[u] = Waiting /\ Entry(u, n) \in Range(entries[c][s]) /\ select'[u] = Operation(n)
    BY <1>5 DEF Taken
  <2>2. Selection(u)' = n /\ select'[u] \notin {Waiting, Aborted, Disconnected}
    BY <2>1 DEF Selection, Operation, Waiting, Aborted, Disconnected
  <2>3. CASE n = 0 /\ pc[u] \in {"pause", "unpause"}
    <3>1. pc[u] = "pause" BY <1>1, <2>1, <2>3 DEF SelectedOK, Waiting, Aborted, Disconnected
    <3>2. ~Begun(u) BY <3>1 DEF Begun, Registering
    <3> QED BY <1>1, <1>2, <2>1, <2>2, <2>3, <3>1, <3>2 DEF SelectedOK
  <2>4. CASE pc[u] \in Registering /\ n \in 1 .. registered[u]
    <3>1. pc[u] \notin {"pause", "unpause"} BY <2>4 DEF Registering
    <3> QED BY <1>2, <2>2, <2>4, <3>1 DEF SelectedOK
  <2> QED BY <2>1, <2>3, <2>4, EntryIs
<1>6. CASE Cut(u)
  <2>1. PICK c \in Channels, s \in Sides, n \in Nat :
          /\ select[u] = Waiting /\ Entry(u, n) \in Range(entries[c][s])
          /\ select'[u] = Disconnected /\ (disconnected'[c] \/ Flavor[c] # "zero")
    BY <1>6 DEF Cut
  <2>2. ~(select'[u] >= Operation(0)) /\ select'[u] # Waiting
    BY <2>1 DEF Operation, Disconnected, Waiting
  <2>3. CASE n = 0 /\ pc[u] \in {"pause", "unpause"} /\ Mine(u) = Op(c, s)
    <3>1. Mine(u).chan = c BY <2>3 DEF Op
    <3>2. pc[u] = "pause" BY <1>1, <2>1, <2>3 DEF SelectedOK, Waiting, Aborted, Disconnected
    <3> QED BY <1>1, <1>2, <2>1, <2>2, <3>1, <3>2 DEF SelectedOK
  <2>4. CASE pc[u] \in Registering
    <3>1. pc[u] \notin {"pause", "unpause"} BY <2>4 DEF Registering
    <3> QED BY <1>2, <2>2, <3>1 DEF SelectedOK
  <2> QED BY <2>1, <2>3, <2>4, EntryIs
<1> QED BY <1>4, <1>5, <1>6 DEF Mild, Left

LEMMA EntryItem ==
  ASSUME NEW u \in Threads, NEW n \in Nat
  PROVE  Entry(u, n) \in Item /\ Entry(u, n).thread = u /\ Entry(u, n).oper = n
  BY DEF Entry, Item

LEMMA OthersPresent ==
  ASSUME Base, NEW t \in Threads, NEW u \in Threads \ {t}, Mild(t), Own(t)
  PROVE  PresentOK(u)'
<1>1. PresentOK(u) /\ SelectedOK(u) /\ Typed /\ CallsOK BY DEF Base, WaitsOK
<1>2. /\ pc'[u] = pc[u] /\ i'[u] = i[u] /\ ops'[u] = ops[u] /\ registered'[u] = registered[u]
      /\ Mine(u)' = Mine(u) /\ (Begun(u)' <=> Begun(u))
  BY DEF Own, Mine, Begun
<1>3. pc[u] \in {"pause", "unpause"} => Mine(u) \in Ops BY MineIs DEF Base, Listless
<1>4. CASE Keeps(u) /\ (select'[u] = select[u] \/ (select[u] = Waiting /\ select'[u] = Disconnected))
  <2>1. \A o \in Ops : \A n \in Nat :
          Entry(u, n) \in Range(entries'[o.chan][o.side]) <=> Entry(u, n) \in Items(o)
    BY <1>4, OpIs, EntryItem DEF Keeps, Items
  <2>2. ASSUME pc[u] \in Registering, Begun(u), select'[u] = Waiting, NEW n \in 1 .. registered[u],
               Queues(ops[u][n])
        PROVE  Entry(u, n) \in Range(entries'[ops[u][n].chan][ops[u][n].side])
    <3>1. select[u] = Waiting BY <1>4, <2>2 DEF Waiting, Disconnected
    <3>2. Entry(u, n) \in Items(ops[u][n]) BY <1>1, <2>2, <3>1 DEF PresentOK
    <3>3. ops[u][n] \in Ops /\ n \in Nat BY <1>1, <2>2, RegisteredIs
    <3> QED BY <2>1, <3>2, <3>3
  <2>3. ASSUME pc[u] \in {"pause", "unpause"}
        PROVE  Entry(u, 0) \in Range(entries'[Mine(u).chan][Mine(u).side]) <=> select'[u] # Operation(0)
    <3>1. Entry(u, 0) \in Items(Mine(u)) <=> select[u] # Operation(0) BY <1>1, <2>3 DEF PresentOK
    <3>2. select'[u] # Operation(0) <=> select[u] # Operation(0)
      BY <1>4 DEF Waiting, Disconnected, Operation
    <3> QED BY <1>3, <2>1, <2>3, <3>1, <3>2
  <2> QED BY <1>2, <2>2, <2>3 DEF PresentOK, Items
<1>5. CASE Taken(u)
  <2>1. PICK c \in Channels, s \in Sides, n \in Nat :
          /\ select[u] = Waiting /\ Entry(u, n) \in Range(entries[c][s])
          /\ select'[u] = Operation(n) /\ Loses(u, Op(c, s), n)
    BY <1>5 DEF Taken
  <2>2. select'[u] # Waiting BY <2>1 DEF Operation, Waiting
  <2>3. CASE n = 0 /\ pc[u] \in {"pause", "unpause"} /\ Mine(u) = Op(c, s)
    <3>1. Op(c, s).chan = c /\ Op(c, s).side = s BY DEF Op
    <3>2. Entry(u, 0) \notin Range(entries'[c][s])
      BY <2>1, <2>3, <3>1, EntryItem DEF Loses
    <3> QED BY <1>2, <2>1, <2>2, <2>3, <3>1, <3>2 DEF PresentOK, Items
  <2>4. CASE pc[u] \in Registering
    <3>1. pc[u] \notin {"pause", "unpause"} BY <2>4 DEF Registering
    <3> QED BY <1>2, <2>2, <3>1 DEF PresentOK
  <2> QED BY <2>1, <2>3, <2>4, EntryIs
<1> QED BY <1>4, <1>5 DEF Mild, Left, Cut
-------------------------------------------------------------------------------
(* The entries and the selection of the thread that takes the step. *)

OwnItems(t) ==
  \A c \in Channels, s \in Sides : \A e \in Range(entries'[c][s]) :
    e.thread = t => ItemOK(e, Op(c, s))'

OwnOK(t) == OwnItems(t) /\ SelectedOK(t)' /\ PresentOK(t)'

\* t has no entry after the step.
Bare(t) == \A c \in Channels, s \in Sides : \A e \in Range(entries'[c][s]) : e.thread # t

\* A thread that is outside of a registration, or at the beginning of one.
LEMMA OutsideOK ==
  ASSUME NEW t \in Threads, Bare(t),
         \/ pc'[t] \notin Registering \cup {"pause", "unpause", "accept"}
         \/ pc'[t] = "register" /\ i'[t] = 1
  PROVE  OwnOK(t)
<1>1. OwnItems(t) BY DEF OwnItems, Bare
<1>2. ~Begun(t)' BY DEF Begun
<1>3. pc'[t] \notin {"pause", "unpause", "unregister", "accept"} BY DEF Registering
<1>4. SelectedOK(t)' BY <1>2, <1>3 DEF SelectedOK
<1>5. PresentOK(t)' BY <1>2, <1>3 DEF PresentOK
<1> QED BY <1>1, <1>4, <1>5 DEF OwnOK

\* The items of the wakers after the step.
LEMMA ItemsNext ==
  ASSUME NEW t \in Threads, Mild(t), NEW c \in Channels, NEW s \in Sides,
         NEW e \in Range(entries'[c][s])
  PROVE  e \in Item /\ e = Entry(e.thread, e.oper) /\ e.oper \in Nat
<1>1. entries'[c][s] \in Seq(Item) BY DEF Mild, WakersTyped
<1>2. DOMAIN entries'[c][s] = 1 .. Len(entries'[c][s]) BY <1>1, LenProperties
<1>3. e \in Item BY <1>1, <1>2, ElementOfSeq DEF Range
<1> QED BY <1>3, ItemIs

LEMMA BareStays ==
  ASSUME Base, NEW t \in Threads, Mild(t), Outcome(t),
         pc[t] \notin Registering \cup {"pause", "unpause"}, pc'[t] # "pause"
  PROVE  Bare(t)
<1>1. Keeps(t) BY DEF Outcome, Registering
<1>2. \A c \in Channels, s \in Sides : \A e \in Range(entries[c][s]) : e.thread # t
  BY NoItems DEF Base, WaitsOK
<1> SUFFICES ASSUME NEW c \in Channels, NEW s \in Sides, NEW e \in Range(entries'[c][s]), e.thread = t
             PROVE  FALSE
  BY DEF Bare
<1>3. e \in Item BY ItemsNext
<1>4. e \in Range(entries[c][s]) BY <1>1, <1>3 DEF Keeps
<1> QED BY <1>2, <1>4

\* While a thread pauses it has at most the one entry.
LEMMA PauseItems ==
  ASSUME Base, NEW t \in Threads, pc[t] \in {"pause", "unpause"}, NEW c \in Channels, NEW s \in Sides,
         NEW e \in Range(entries[c][s]), e \in Item, e.thread = t
  PROVE  e = Entry(t, 0) /\ Mine(t) = Op(c, s)
<1>1. e.oper \in Nat /\ e = Entry(t, e.oper) BY ItemIs
<1>2. pc[t] \notin Registering BY DEF Registering
<1> QED BY <1>1, <1>2, EntryIs

LEMMA RetryOK ==
  ASSUME Base, NEW t \in Threads, Retry(t), pc'[t] = "pause", Mild(t), Outcome(t)
  PROVE  OwnOK(t)
<1> USE DEF Base
<1>0. Typed /\ EntriesOK /\ select \in [Threads -> Nat]
  BY DEF WaitsOK, Typed, SharedTyped
<1>1. pc[t] = "retry" BY DEF Retry
<1>2. Mine(t) \in Ops BY <1>0, <1>1, MineIs DEF Listless
<1>3. Gains(t, Mine(t), 0) BY <1>1 DEF Outcome
<1>4. /\ Flavor[Mine(t).chan] = "zero" /\ select' = [select EXCEPT ![t] = Waiting]
      /\ UNCHANGED <<i, ops>>
  <2>1. ~Fire(t, Mine(t)) BY <1>0 DEF Fire, Goto, Typed, CallTyped
  <2>2. ~NextOp(t, "retry", "register")
    <3>1. "retry" \in Labels /\ "register" \in Labels BY DEF Labels
    <3> QED BY <1>0, <3>1, NextOpCall DEF Typed
  <2> QED BY <2>1, <2>2 DEF Retry, callVars
<1>5. Mine(t)' = Mine(t) BY <1>4 DEF Mine
<1>6. select'[t] = Waiting BY <1>0, <1>4
<1>7. ~Begun(t)' /\ pc'[t] \notin Registering BY DEF Begun, Registering
<1>8. SelectedOK(t)' BY <1>4, <1>5, <1>6, <1>7 DEF SelectedOK, Waiting, Disconnected
<1>9. PresentOK(t)'
  <2>1. Mine(t).chan \in Channels /\ Mine(t).side \in Sides BY <1>2, OpIs
  <2>2. Entry(t, 0) \in Range(entries'[Mine(t).chan][Mine(t).side])
    BY <1>3, <2>1, EntryItem DEF Gains
  <2>3. select'[t] # Operation(0) BY <1>6 DEF Waiting, Operation
  <2> QED BY <1>5, <1>7, <2>2, <2>3 DEF PresentOK, Items
<1>10. OwnItems(t)
  <2> SUFFICES ASSUME NEW c \in Channels, NEW s \in Sides, NEW e \in Range(entries'[c][s]), e.thread = t
               PROVE  ItemOK(e, Op(c, s))'
    BY DEF OwnItems
  <2>1. e \in Item BY ItemsNext
  <2>2. e \notin Range(entries[c][s]) BY <1>0, <1>1, NoItems DEF Registering
  <2>3. c = Mine(t).chan /\ s = Mine(t).side /\ e = Entry(t, 0) BY <1>3, <2>1, <2>2 DEF Gains
  <2>4. Mine(t) = Op(c, s) BY <1>2, <2>3, OpIs
  <2> QED BY <1>5, <2>3, <2>4 DEF ItemOK, Entry
<1> QED BY <1>8, <1>9, <1>10 DEF OwnOK

LEMMA PauseOK ==
  ASSUME Base, NEW t \in Threads, Pause(t), Mild(t), Outcome(t)
  PROVE  OwnOK(t)
<1> USE DEF Base
<1>0. Typed /\ EntriesOK /\ SelectedOK(t) /\ PresentOK(t) /\ select \in [Threads -> Nat]
  BY DEF WaitsOK, Typed, SharedTyped
<1>1. pc[t] = "pause" /\ UNCHANGED <<i, ops, disconnected>> BY DEF Pause, callVars, handleVars
<1>2. Mine(t) \in Ops BY <1>0, <1>1, MineIs DEF Listless
<1>3. Keeps(t) BY <1>1 DEF Outcome
<1>4. Mine(t)' = Mine(t) BY <1>1 DEF Mine
<1>5. ASSUME NEW c \in Channels, NEW s \in Sides, NEW e \in Range(entries'[c][s]), e.thread = t
      PROVE  e = Entry(t, 0) /\ Mine(t) = Op(c, s) /\ e \in Range(entries[c][s])
  <2>1. e \in Item BY <1>5, ItemsNext
  <2>2. e \in Range(entries[c][s]) BY <1>3, <1>5, <2>1 DEF Keeps
  <2> QED BY <1>1, <1>5, <2>1, <2>2, PauseItems
<1>6. CASE pc'[t] = "complete"
  <2>1. select[t] = Operation(0) BY <1>0, <1>6 DEF Pause, Goto, Typed, CallTyped
  <2>2. Entry(t, 0) \notin Items(Mine(t)) BY <1>0, <1>1, <2>1 DEF PresentOK
  <2>3. \A c \in Channels, s \in Sides : Mine(t) = Op(c, s) => Items(Mine(t)) = Range(entries[c][s])
    BY DEF Items, Op
  <2>4. Bare(t) BY <1>5, <2>2, <2>3 DEF Bare
  <2> QED BY <1>6, <2>4, OutsideOK DEF Registering
<1>7. CASE pc'[t] # "complete"
  <2>1. /\ pc'[t] = "unpause"
        /\ \/ select[t] = Waiting /\ select' = [select EXCEPT ![t] = Aborted]
           \/ select[t] = Disconnected /\ select' = select
    BY <1>0, <1>7 DEF Pause, Goto, Typed, CallTyped
  <2>2. select[t] # Operation(0) /\ select'[t] # Operation(0) /\ select'[t] # Waiting
        /\ select'[t] \in {Aborted, Disconnected}
        /\ (select'[t] = Disconnected => select[t] = Disconnected)
    BY <1>0, <2>1 DEF Waiting, Aborted, Disconnected, Operation
  <2>3. ~Begun(t)' /\ pc'[t] \notin Registering BY <2>1 DEF Begun, Registering
  <2>4. SelectedOK(t)'
    BY <1>0, <1>1, <1>4, <2>1, <2>2, <2>3 DEF SelectedOK
  <2>5. PresentOK(t)'
    <3>1. Entry(t, 0) \in Items(Mine(t)) BY <1>0, <1>1, <2>2 DEF PresentOK
    <3>2. Mine(t).chan \in Channels /\ Mine(t).side \in Sides BY <1>2, OpIs
    <3>3. Entry(t, 0) \in Range(entries'[Mine(t).chan][Mine(t).side])
      BY <1>3, <3>1, <3>2, EntryItem DEF Keeps, Items
    <3> QED BY <1>4, <2>1, <2>2, <2>3, <3>3 DEF PresentOK, Items
  <2>6. OwnItems(t)
    <3> SUFFICES ASSUME NEW c \in Channels, NEW s \in Sides, NEW e \in Range(entries'[c][s]), e.thread = t
                 PROVE  ItemOK(e, Op(c, s))'
      BY DEF OwnItems
    <3>1. e = Entry(t, 0) /\ Mine(t) = Op(c, s) BY <1>5
    <3> QED BY <1>4, <2>1, <3>1 DEF ItemOK, Entry
  <2> QED BY <2>4, <2>5, <2>6 DEF OwnOK
<1> QED BY <1>6, <1>7

LEMMA UnpauseOK ==
  ASSUME Base, NEW t \in Threads, Unpause(t), Mild(t), Outcome(t)
  PROVE  OwnOK(t)
<1> USE DEF Base
<1>0. Typed /\ EntriesOK BY DEF WaitsOK
<1>1. pc[t] = "unpause" BY DEF Unpause
<1>2. Loses(t, Mine(t), 0) BY <1>1 DEF Outcome
<1>3. Bare(t)
  <2> SUFFICES ASSUME NEW c \in Channels, NEW s \in Sides, NEW e \in Range(entries'[c][s]), e.thread = t
               PROVE  FALSE
    BY DEF Bare
  <2>1. e \in Item BY ItemsNext
  <2>2. e \in Range(entries[c][s]) /\ ~(c = Mine(t).chan /\ s = Mine(t).side /\ e = Entry(t, 0))
    BY <1>2, <2>1 DEF Loses
  <2>3. e = Entry(t, 0) /\ Mine(t) = Op(c, s) BY <1>1, <2>1, <2>2, PauseItems
  <2> QED BY <2>2, <2>3 DEF Op
<1>4. \/ pc'[t] \in {"retry", "complete"}
      \/ pc'[t] = "register" /\ i'[t] = 1
  <2>1. CASE select[t] = Aborted
    <3>1. NextOp(t, "retry", "register") BY <2>1 DEF Unpause
    <3>2. "retry" \in Labels /\ "register" \in Labels BY DEF Labels
    <3> QED BY <1>0, <3>1, <3>2, NextOpCall DEF Typed
  <2>2. CASE select[t] # Aborted BY <1>0, <2>2 DEF Unpause, Goto, Typed, CallTyped
  <2> QED BY <2>1, <2>2
<1> QED BY <1>3, <1>4, OutsideOK DEF Registering

\* A step between registering and unregistering.
LEMMA WithinOK ==
  ASSUME Base, NEW t \in Threads, Mild(t), Outcome(t),
         pc[t] \in {"check", "abort", "selected", "wait"},
         pc'[t] \in Registering, Begun(t)',
         pc'[t] = "unregister" => i'[t] = 1 /\ select'[t] # Waiting,
         registered'[t] = registered[t], ops'[t] = ops[t],
         select'[t] = select[t] \/ select'[t] = Aborted
  PROVE  OwnOK(t)
<1> USE DEF Base
<1>0. /\ Typed /\ CallsOK /\ SelectedOK(t) /\ PresentOK(t) /\ pc[t] \in Registering
      /\ registered[t] \in Nat
  BY DEF WaitsOK, Registering, Typed, CallTyped
<1>1. Keeps(t) BY DEF Outcome
<1>2. Begun(t) BY DEF Begun, Registering
<1>3. pc'[t] \notin {"pause", "unpause", "accept"} BY DEF Registering
<1>4. SelectedOK(t)'
  <2>1. select'[t] >= Operation(0) => select'[t] = select[t] BY DEF Aborted, Operation
  <2> QED BY <1>0, <1>2, <1>3, <2>1 DEF SelectedOK, Selection
<1>5. PresentOK(t)'
  <2> SUFFICES ASSUME select'[t] = Waiting, NEW n \in 1 .. registered[t], Queues(ops[t][n])
               PROVE  Entry(t, n) \in Range(entries'[ops[t][n].chan][ops[t][n].side])
    BY <1>3 DEF PresentOK, Items
  <2>1. select[t] = Waiting BY DEF Aborted, Waiting
  <2>2. Entry(t, n) \in Items(ops[t][n]) BY <1>0, <1>2, <2>1 DEF PresentOK
  <2>3. ops[t][n] \in Ops /\ n \in Nat BY <1>0, RegisteredIs
  <2>4. ops[t][n].chan \in Channels /\ ops[t][n].side \in Sides BY <2>3, OpIs
  <2> QED BY <1>1, <2>2, <2>3, <2>4, EntryItem DEF Keeps, Items
<1>6. OwnItems(t)
  <2> SUFFICES ASSUME NEW c \in Channels, NEW s \in Sides, NEW e \in Range(entries'[c][s]), e.thread = t
               PROVE  ItemOK(e, Op(c, s))'
    BY DEF OwnItems
  <2>1. e \in Item /\ e = Entry(t, e.oper) /\ e.oper \in Nat BY ItemsNext
  <2>2. e \in Range(entries[c][s]) BY <1>1, <2>1 DEF Keeps
  <2>3. e.oper \in 1 .. registered[t] /\ ops[t][e.oper] = Op(c, s)
    BY <1>0, <2>1, <2>2, EntryIs DEF Registering
  <2>4. pc'[t] = "unregister" => e.oper >= i'[t] BY <1>0, <2>3
  <2> QED BY <2>3, <2>4 DEF ItemOK
<1> QED BY <1>4, <1>5, <1>6 DEF OwnOK

LEMMA RegisterOK ==
  ASSUME Base, NEW t \in Threads, RegisterOp(t), Mild(t), Outcome(t)
  PROVE  OwnOK(t)
<1> USE DEF Base
<1>0. /\ Typed /\ CallsOK /\ EntriesOK /\ SelectedOK(t) /\ PresentOK(t)
      /\ registered[t] \in Nat /\ i[t] \in Nat /\ select \in [Threads -> Nat]
  BY DEF WaitsOK, Typed, CallTyped, SharedTyped
<1>1. pc[t] = "register" /\ UNCHANGED <<i, ops>> BY DEF RegisterOp, callVars
<1>2. registered[t] + 1 = i[t] BY <1>0, <1>1 DEF CallsOK, CallOK, PlaceOK
<1>3. registered'[t] = i[t] BY <1>0 DEF RegisterOp, Typed, CallTyped
<1>4. pc'[t] \in {"check", "selected", "abort"}
  <2>1. PICK label \in {"check", "selected", "abort"} : Goto(t, label) BY DEF RegisterOp
  <2> QED BY <1>0, <2>1 DEF Goto, Typed, CallTyped
<1>5. Begun(t)' /\ pc'[t] \notin {"pause", "unpause", "accept", "unregister"} /\ pc'[t] \in Registering
  BY <1>4 DEF Begun, Registering
<1>6. select'[t] = IF i[t] = 1 THEN Waiting ELSE select[t] BY <1>0 DEF RegisterOp
<1>7. i[t] # 1 => Begun(t) BY <1>1 DEF Begun, Registering
<1>8. Mine(t) \in Ops /\ Mine(t) = ops[t][i[t]] /\ Mine(t).chan \in Channels /\ Mine(t).side \in Sides
  BY <1>0, <1>1, MineIs, OpIs DEF Listless, Mine
<1>9. \/ Queues(Mine(t)) /\ Gains(t, Mine(t), i[t])
      \/ ~Queues(Mine(t)) /\ Keeps(t)
  BY <1>1 DEF Outcome
<1>10. SelectedOK(t)'
  <2> SUFFICES ASSUME select'[t] >= Operation(0) PROVE Selection(t)' \in 1 .. registered'[t]
    BY <1>5 DEF SelectedOK
  <2>1. i[t] # 1 /\ select'[t] = select[t] BY <1>6 DEF Waiting, Operation
  <2>2. Selection(t) \in 1 .. registered[t] BY <1>0, <1>7, <2>1 DEF SelectedOK
  <2>3. Selection(t)' = Selection(t) BY <2>1 DEF Selection
  <2> QED BY <1>0, <1>2, <1>3, <2>2, <2>3
<1>11. PresentOK(t)'
  <2> SUFFICES ASSUME select'[t] = Waiting, NEW n \in 1 .. i[t], Queues(ops[t][n])
               PROVE  Entry(t, n) \in Range(entries'[ops[t][n].chan][ops[t][n].side])
    BY <1>1, <1>3, <1>5 DEF PresentOK, Items
  <2>1. CASE n = i[t]
    BY <1>8, <1>9, <2>1, EntryItem DEF Gains
  <2>2. CASE n # i[t]
    <3>1. n \in 1 .. registered[t] /\ i[t] # 1 BY <1>0, <1>2, <2>2
    <3>2. select[t] = Waiting BY <1>6, <3>1
    <3>3. pc[t] \in Registering BY <1>1 DEF Registering
    <3>4. Entry(t, n) \in Items(ops[t][n]) BY <1>0, <1>7, <3>1, <3>2, <3>3 DEF PresentOK
    <3>5. ops[t][n] \in Ops /\ n \in Nat BY <1>0, <3>1, <3>3, RegisteredIs
    <3>6. ops[t][n].chan \in Channels /\ ops[t][n].side \in Sides BY <3>5, OpIs
    <3> QED BY <1>9, <3>4, <3>5, <3>6, EntryItem DEF Keeps, Gains, Items
  <2> QED BY <2>1, <2>2
<1>12. OwnItems(t)
  <2> SUFFICES ASSUME NEW c \in Channels, NEW s \in Sides, NEW e \in Range(entries'[c][s]), e.thread = t
               PROVE  ItemOK(e, Op(c, s))'
    BY DEF OwnItems
  <2>1. e \in Item /\ e = Entry(t, e.oper) /\ e.oper \in Nat BY ItemsNext
  <2>2. CASE e \in Range(entries[c][s])
    <3>1. e.oper \in 1 .. registered[t] /\ ops[t][e.oper] = Op(c, s)
      BY <1>1, <2>1, <2>2, EntryIs DEF Registering
    <3>2. e.oper \in 1 .. i[t] BY <1>0, <1>2, <3>1
    <3> QED BY <1>1, <1>3, <1>5, <3>1, <3>2 DEF ItemOK
  <2>3. CASE e \notin Range(entries[c][s])
    <3>1. c = Mine(t).chan /\ s = Mine(t).side /\ e = Entry(t, i[t])
      BY <1>9, <2>1, <2>3 DEF Keeps, Gains
    <3>2. Mine(t) = Op(c, s) /\ e.oper = i[t] BY <1>8, <3>1, OpIs DEF Entry
    <3>3. i[t] \in 1 .. i[t] BY <1>0, <1>2
    <3> QED BY <1>1, <1>3, <1>5, <1>8, <3>2, <3>3 DEF ItemOK
  <2> QED BY <2>2, <2>3
<1> QED BY <1>10, <1>11, <1>12 DEF OwnOK

LEMMA UnregisterOK ==
  ASSUME Base, NEW t \in Threads, UnregisterOp(t), Mild(t), Outcome(t)
  PROVE  OwnOK(t)
<1> USE DEF Base
<1>0. /\ Typed /\ CallsOK /\ EntriesOK /\ SelectedOK(t) /\ PresentOK(t)
      /\ registered[t] \in Nat /\ i[t] \in Nat
  BY DEF WaitsOK, Typed, CallTyped
<1>1. pc[t] = "unregister" /\ UNCHANGED <<select, ops, registered>>
  BY DEF UnregisterOp, callVars, scanVars
<1>2. Loses(t, Mine(t), i[t]) BY <1>1 DEF Outcome
<1>3. select[t] # Waiting /\ Begun(t) BY <1>0, <1>1 DEF SelectedOK, Begun, Registering
<1>4. ASSUME NEW c \in Channels, NEW s \in Sides, NEW e \in Range(entries'[c][s]), e.thread = t
      PROVE  e.oper \in 1 .. registered[t] /\ ops[t][e.oper] = Op(c, s) /\ e.oper > i[t]
  <2>1. e \in Item /\ e = Entry(t, e.oper) /\ e.oper \in Nat BY <1>4, ItemsNext
  <2>2. e \in Range(entries[c][s]) /\ ~(c = Mine(t).chan /\ s = Mine(t).side /\ e = Entry(t, i[t]))
    BY <1>2, <1>4, <2>1 DEF Loses
  <2>3. e.oper \in 1 .. registered[t] /\ ops[t][e.oper] = Op(c, s) /\ e.oper >= i[t]
    BY <1>1, <2>1, <2>2, EntryIs DEF Registering
  <2>4. e.oper # i[t]
    <3> SUFFICES ASSUME e.oper = i[t] PROVE FALSE OBVIOUS
    <3>1. Mine(t) = Op(c, s) BY <2>3 DEF Mine
    <3>2. Mine(t).chan = c /\ Mine(t).side = s BY <3>1 DEF Op
    <3> QED BY <2>1, <2>2, <3>2
  <2> QED BY <1>0, <2>1, <2>3, <2>4
<1>5. CASE i[t] < registered[t]
  <2>1. pc'[t] = "unregister" /\ i'[t] = i[t] + 1
    BY <1>0, <1>1, <1>5 DEF UnregisterOp, Typed, CallTyped
  <2>2. SelectedOK(t)' BY <1>0, <1>1, <1>3, <2>1 DEF SelectedOK, Begun, Selection
  <2>3. PresentOK(t)' BY <1>1, <1>3, <2>1 DEF PresentOK
  <2>4. OwnItems(t)
    <3> SUFFICES ASSUME NEW c \in Channels, NEW s \in Sides, NEW e \in Range(entries'[c][s]), e.thread = t
                 PROVE  ItemOK(e, Op(c, s))'
      BY DEF OwnItems
    <3>1. e.oper \in 1 .. registered[t] /\ ops[t][e.oper] = Op(c, s) /\ e.oper > i[t] BY <1>4
    <3>2. e.oper >= i'[t] BY <1>0, <2>1, <3>1
    <3> QED BY <1>1, <2>1, <3>1, <3>2 DEF ItemOK, Registering
  <2> QED BY <2>2, <2>3, <2>4 DEF OwnOK
<1>6. CASE ~(i[t] < registered[t])
  <2>1. pc'[t] = "accept" BY <1>0, <1>6 DEF UnregisterOp, Goto, Typed, CallTyped
  <2>2. Begun(t)' BY <2>1 DEF Begun
  <2>3. SelectedOK(t)' BY <1>0, <1>1, <1>3, <2>1 DEF SelectedOK, Begun, Selection
  <2>4. PresentOK(t)' BY <2>1 DEF PresentOK, Registering
  <2>5. OwnItems(t)
    <3> SUFFICES ASSUME NEW c \in Channels, NEW s \in Sides, NEW e \in Range(entries'[c][s]), e.thread = t
                 PROVE  FALSE
      BY DEF OwnItems
    <3>1. e.oper \in 1 .. registered[t] /\ e.oper > i[t] BY <1>4
    <3> QED BY <1>0, <1>6, <3>1
  <2> QED BY <2>3, <2>4, <2>5 DEF OwnOK
<1> QED BY <1>5, <1>6

LEMMA StepOK ==
  ASSUME Base, NEW t \in Threads, Step(t)
  PROVE  OwnOK(t)
<1>0. /\ Mild(t) /\ Outcome(t) /\ CallTyped /\ SharedTyped /\ CallsOK /\ Typed
      /\ select \in [Threads -> Nat] /\ PlaceOK(t) /\ SelectedOK(t)
  BY StepMild DEF Base, Typed, SharedTyped, CallsOK, CallOK, WaitsOK
<1>1. CASE Retry(t) /\ pc'[t] = "pause" BY <1>0, <1>1, RetryOK
<1>2. CASE Pause(t) BY <1>0, <1>2, PauseOK
<1>3. CASE Unpause(t) BY <1>0, <1>3, UnpauseOK
<1>4. CASE RegisterOp(t) BY <1>0, <1>4, RegisterOK
<1>5. CASE UnregisterOp(t) BY <1>0, <1>5, UnregisterOK
<1>6. CASE Check(t)
  <2>1. PICK label \in {"selected", "abort"} : Goto(t, label) BY <1>6 DEF Check
  <2>2. pc'[t] = label BY <1>0, <2>1 DEF Goto, CallTyped
  <2>3. pc[t] = "check" /\ UNCHANGED <<select, registered, ops>>
    BY <1>6 DEF Check, waitVars, scanVars, callVars
  <2>4. Begun(t)' /\ pc'[t] \in Registering /\ pc'[t] # "unregister" BY <2>2 DEF Begun, Registering
  <2> QED BY <1>0, <2>3, <2>4, WithinOK
<1>7. CASE Abort(t) \/ Wait(t)
  <2>1. /\ pc'[t] = "unregister" /\ pc[t] \in {"abort", "wait"} /\ UNCHANGED <<registered, ops>>
    BY <1>0, <1>7 DEF Abort, Wait, Goto, CallTyped, scanVars, callVars
  <2>2. (select'[t] = select[t] \/ select'[t] = Aborted) /\ select'[t] # Waiting
    BY <1>0, <1>7 DEF Abort, Wait, Aborted, Waiting
  <2>3. i'[t] = 1
    <3>1. CASE Abort(t) BY <1>0, <3>1 DEF Abort, CallTyped
    <3>2. CASE Wait(t) BY <1>0, <3>2 DEF Wait, PlaceOK
    <3> QED BY <1>7, <3>1, <3>2
  <2>4. Begun(t)' /\ pc'[t] \in Registering BY <2>1 DEF Begun, Registering
  <2> QED BY <1>0, <2>1, <2>2, <2>3, <2>4, WithinOK
<1>8. CASE Selected(t)
  <2>1. pc[t] = "selected" /\ UNCHANGED <<select, registered, ops>>
    BY <1>8 DEF Selected, waitVars, scanVars, callVars
  <2>a. i[t] \in 1 .. Len(ops[t]) /\ Len(ops[t]) \in Nat BY <1>0, <2>1, MineIs DEF Listless
  <2>2. i[t] \in Nat /\ i[t] # 0 BY <2>a
  <2>3. CASE select[t] = Waiting /\ i[t] < Len(ops[t])
    <3>1. i' = [i EXCEPT ![t] = i[t] + 1] /\ pc' = [pc EXCEPT ![t] = "register"]
      BY <1>8, <2>3 DEF Selected, Goto
    <3>2. pc'[t] = "register" /\ i'[t] # 1 BY <1>0, <2>2, <3>1 DEF CallTyped
    <3>3. Begun(t)' /\ pc'[t] \in Registering BY <3>2 DEF Begun, Registering
    <3> QED BY <1>0, <2>1, <3>2, <3>3, WithinOK
  <2>4. CASE select[t] = Waiting /\ ~(i[t] < Len(ops[t]))
    <3>1. pc' = [pc EXCEPT ![t] = "wait"] BY <1>8, <2>4 DEF Selected, Goto
    <3>2. pc'[t] = "wait" BY <1>0, <3>1 DEF CallTyped
    <3>3. Begun(t)' /\ pc'[t] \in Registering BY <3>2 DEF Begun, Registering
    <3> QED BY <1>0, <2>1, <3>2, <3>3, WithinOK
  <2>5. CASE select[t] # Waiting
    <3>1. i' = [i EXCEPT ![t] = 1] /\ pc' = [pc EXCEPT ![t] = "unregister"]
      BY <1>8, <2>5 DEF Selected, Goto
    <3>2. pc'[t] = "unregister" /\ i'[t] = 1 /\ select'[t] # Waiting BY <1>0, <2>1, <2>5, <3>1 DEF CallTyped
    <3>3. Begun(t)' /\ pc'[t] \in Registering BY <3>2 DEF Begun, Registering
    <3> QED BY <1>0, <2>1, <3>2, <3>3, WithinOK
  <2> QED BY <2>3, <2>4, <2>5
<1>9. CASE Try(t) \/ Retry(t)
  <2>1. pc[t] \in {"try", "retry"} BY <1>9 DEF Try, Retry
  <2>2. CASE pc'[t] = "pause"
    <3>1. CASE Retry(t) BY <1>1, <2>2, <3>1
    <3>2. CASE Try(t)
      <4>1. CASE Fire(t, Mine(t)) BY <1>0, <2>2, <4>1 DEF Fire, Goto, CallTyped
      <4>2. CASE ~Fire(t, Mine(t))
        <5>1. PICK there \in {"nothing", "compare", "register", "retry"} : NextOp(t, "try", there)
          BY <3>2, <4>2 DEF Try
        <5>2. "try" \in Labels /\ there \in Labels BY DEF Labels
        <5> QED BY <1>0, <2>2, <5>1, <5>2, NextOpCall
      <4> QED BY <4>1, <4>2
    <3> QED BY <1>9, <3>1, <3>2
  <2>3. CASE pc'[t] # "pause"
    <3>1. Bare(t) BY <1>0, <2>1, <2>3, BareStays DEF Registering
    <3>2. \/ pc'[t] \in {"complete", "try", "nothing", "compare", "retry"}
          \/ pc'[t] = "register" /\ i'[t] = 1
      <4>1. CASE Fire(t, Mine(t)) BY <1>0, <4>1 DEF Fire, Goto, CallTyped
      <4>2. CASE Try(t) /\ ~Fire(t, Mine(t))
        <5>1. PICK there \in {"nothing", "compare", "register", "retry"} : NextOp(t, "try", there)
          BY <4>2 DEF Try
        <5>2. "try" \in Labels /\ there \in Labels BY DEF Labels
        <5> QED BY <1>0, <5>1, <5>2, NextOpCall
      <4>3. CASE Retry(t) /\ ~Fire(t, Mine(t))
        <5>1. NextOp(t, "retry", "register") \/ Goto(t, "pause") BY <4>3 DEF Retry
        <5>2. ~Goto(t, "pause") BY <1>0, <2>3 DEF Goto, CallTyped
        <5>3. "retry" \in Labels /\ "register" \in Labels BY DEF Labels
        <5> QED BY <1>0, <5>1, <5>2, <5>3, NextOpCall
      <4> QED BY <1>9, <4>1, <4>2, <4>3
    <3> QED BY <3>1, <3>2, OutsideOK DEF Registering
  <2> QED BY <2>2, <2>3
<1>10. CASE Accept(t)
  <2>1. pc[t] = "accept" BY <1>10 DEF Accept
  <2>2. pc'[t] \in {"late", "complete"} BY <1>0, <1>10 DEF Accept, Fire, Goto, CallTyped
  <2>3. Bare(t) BY <1>0, <2>1, <2>2, BareStays DEF Registering
  <2> QED BY <2>2, <2>3, OutsideOK DEF Registering
<1>11. ASSUME pc[t] \notin Registering \cup {"pause", "unpause"},
              pc'[t] \notin Registering \cup {"pause", "unpause", "accept"}
       PROVE  OwnOK(t)
  BY <1>0, <1>11, BareStays, OutsideOK
<1>12. CASE StartCall(t)
  <2>1. PICK call \in Calls[t] :
          /\ \A k \in DOMAIN call.ops : <<t, call.ops[k].chan, call.ops[k].side>> \in held
          /\ RunSelect(t, call.ops, call.mode)
    BY <1>12 DEF StartCall
  <2>2. call.ops \in Seq(Ops) /\ call.mode \in Modes BY <1>0, <2>1, CallIs
  <2>3. pc'[t] \in {"nothing", "sleep", "snapshot", "try"} /\ pc[t] = "idle"
    BY <1>0, <1>12, <2>1, <2>2, RunSelectCall DEF StartCall
  <2> QED BY <1>11, <2>3 DEF Registering
<1>13. CASE Late(t)
  <2>1. pc[t] = "late" BY <1>13 DEF Late
  <2>2. pc'[t] \in {"nothing", "sleep", "snapshot", "try"}
    <3>1. CASE Goto(t, "nothing") BY <1>0, <3>1 DEF Goto, CallTyped
    <3>2. CASE ~Goto(t, "nothing")
      <4> DEFINE m == IF mode[t] = "at" /\ expired[t] THEN "now" ELSE mode[t]
      <4>1. RunSelect(t, ops[t], m) BY <1>13, <3>2 DEF Late
      <4>2. m \in Modes /\ ops[t] \in Seq(Ops) BY <1>0 DEF CallTyped, Modes
      <4> HIDE DEF m
      <4> QED BY <1>0, <4>1, <4>2, RunSelectCall
    <3> QED BY <3>1, <3>2
  <2> QED BY <1>11, <2>1, <2>2 DEF Registering
<1>14. CASE Sleep(t)
  <2>1. pc[t] = "sleep" /\ pc'[t] = "nothing" BY <1>0, <1>14 DEF Sleep, Goto, CallTyped
  <2> QED BY <1>11, <2>1 DEF Registering
<1>15. CASE Snapshot(t) \/ Compare(t)
  <2>1. pc[t] \in {"snapshot", "compare"} BY <1>15 DEF Snapshot, Compare
  <2>2. PICK here \in {"snapshot", "compare"}, there \in {"try", "nothing"} : NextOp(t, here, there)
    BY <1>15 DEF Snapshot, Compare
  <2>3. here \in Labels /\ there \in Labels BY DEF Labels
  <2>4. pc'[t] = here \/ pc'[t] = there BY <1>0, <2>2, <2>3, NextOpCall
  <2> QED BY <1>11, <2>1, <2>4 DEF Registering
<1>16. ASSUME NEW iterates, Return(t, iterates), pc[t] \in {"nothing", "complete", "wake"}
       PROVE  OwnOK(t)
  <2>1. pc'[t] \in {"idle", "nothing", "sleep", "snapshot", "try"} BY <1>0, <1>16, ReturnCall
  <2> QED BY <1>11, <1>16, <2>1 DEF Registering
<1>17. CASE Nothing(t) \/ CompleteClosed(t) \/ Wake(t) \/ CompletePacket(t) \/ CompleteTime(t)
  BY <1>16, <1>17 DEF Nothing, CompleteClosed, Wake, CompletePacket, CompleteTime
<1>18. CASE CompleteSlot(t)
  <2>1. pc[t] = "complete" BY <1>18 DEF CompleteSlot
  <2>2. CASE Return(t, TRUE) BY <1>16, <2>1, <2>2
  <2>3. CASE ~Return(t, TRUE)
    <3>1. pc'[t] = "wake" BY <1>0, <1>18, <2>3 DEF CompleteSlot, Goto, CallTyped
    <3> QED BY <1>11, <2>1, <3>1 DEF Registering
  <2> QED BY <2>2, <2>3
<1>19. CASE Disconnect(t) \/ DisconnectSenders(t) \/ DisconnectReceivers(t)
  <2>1. pc[t] \in Dropping BY <1>19 DEF Disconnect, DisconnectSenders, DisconnectReceivers, Dropping
  <2>2. pc'[t] \in {"idle", "wakeSenders", "wakeReceivers"}
    BY <1>0, <1>19 DEF Disconnect, DisconnectSenders, DisconnectReceivers, Goto, CallTyped
  <2> QED BY <1>11, <2>1, <2>2 DEF Registering, Dropping
<1> QED BY <1>2, <1>3, <1>4, <1>5, <1>6, <1>7, <1>8, <1>9, <1>10, <1>12, <1>13, <1>14, <1>15, <1>17, <1>18, <1>19 DEF Step
-------------------------------------------------------------------------------
(* What a step does to the channels. *)

\* An operation that takes effect, by what it does to its channel.
Fired(t, o) ==
  /\ Handle(t, o).ready
  /\ pc'[t] = "complete" /\ token'[t].op = o
  /\ UNCHANGED <<i, ops, mode, registered, handleVars>>
  /\ \/ /\ Handle(t, o).closed /\ token'[t].kind = "closed"
        /\ UNCHANGED <<channelVars, entries, select, peer>>
     \/ /\ ~Handle(t, o).closed /\ Flavor[o.chan] \in {"array", "list"} /\ o.side = "send"
        /\ token'[t].kind = "slot" /\ tail' = [tail EXCEPT ![o.chan] = @ + 1]
        /\ UNCHANGED <<head, due, entries, select, peer>>
     \/ /\ ~Handle(t, o).closed /\ Flavor[o.chan] \in {"array", "list"} /\ o.side = "recv"
        /\ token'[t].kind = "slot" /\ head' = [head EXCEPT ![o.chan] = @ + 1]
        /\ UNCHANGED <<tail, due, entries, select, peer>>
     \/ /\ ~Handle(t, o).closed /\ Flavor[o.chan] = "zero" /\ token'[t].kind = "packet"
        /\ \E e \in Item :
             /\ Woken(t, Op(o.chan, Opposite(o.side)), e)
             /\ peer' = [peer EXCEPT ![t] = e.thread, ![e.thread] = t]
        /\ UNCHANGED channelVars
     \/ /\ o.chan \in Timers /\ token'[t].kind = "time"
        /\ head' = [head EXCEPT ![o.chan] = @ + 1]
        /\ due' = [due EXCEPT ![o.chan] = Flavor[o.chan] = "after"]
        /\ UNCHANGED <<tail, entries, select, peer>>

LEMMA FireIs ==
  ASSUME Typed, EntriesOK, NEW t \in Threads, NEW o \in Ops, Fire(t, o), Handle(t, o).ready
  PROVE  Fired(t, o)
<1>0. SharedTyped /\ CallTyped /\ o.chan \in Channels BY OpIs DEF Typed
<1>1. /\ pc'[t] = "complete" /\ token'[t].op = o
      /\ UNCHANGED <<i, ops, mode, registered, handleVars>>
  BY <1>0, FireCall
<1>2. ASSUME NEW kind, NEW pos, Token(t, kind, o, pos) PROVE token'[t].kind = kind
  BY <1>0, <1>2 DEF Token, CallTyped
<1>3. CASE Handle(t, o).closed /\ Token(t, "closed", o, 0) /\ UNCHANGED <<channelVars, entries, select, peer>>
  BY <1>1, <1>2, <1>3 DEF Fired
<1>4. CASE /\ ~Handle(t, o).closed /\ Flavor[o.chan] \in {"array", "list"} /\ o.side = "send"
           /\ tail' = [tail EXCEPT ![o.chan] = @ + 1]
           /\ Token(t, "slot", o, tail[o.chan])
           /\ UNCHANGED <<head, due, entries, select, peer>>
  BY <1>1, <1>2, <1>4 DEF Fired
<1>5. CASE /\ ~Handle(t, o).closed /\ Flavor[o.chan] \in {"array", "list"} /\ o.side = "recv"
           /\ head' = [head EXCEPT ![o.chan] = @ + 1]
           /\ Token(t, "slot", o, head[o.chan])
           /\ UNCHANGED <<tail, due, entries, select, peer>>
  BY <1>1, <1>2, <1>5 DEF Fired
<1>6. CASE /\ ~Handle(t, o).closed /\ Flavor[o.chan] = "zero"
           /\ WakeOne(t, o.chan, Opposite(o.side))
           /\ LET u == CHOOSE u \in Threads : select'[u] # select[u]
              IN peer' = [peer EXCEPT ![t] = u, ![u] = t]
           /\ Token(t, "packet", o, 0)
           /\ UNCHANGED channelVars
  <2> DEFINE u == CHOOSE u \in Threads : select'[u] # select[u]
  <2>1. peer' = [peer EXCEPT ![t] = u, ![u] = t] BY <1>6
  <2>2. Opposite(o.side) \in Sides BY DEF Opposite, Sides
  <2>3. Wakeable(t, o.chan, Opposite(o.side)) # {} BY <1>0, <1>6, HandleIs
  <2>4. PICK e \in Item : Woken(t, Op(o.chan, Opposite(o.side)), e)
    BY <1>0, <1>6, <2>2, <2>3, WakeOneIs
  <2>5. select' = [select EXCEPT ![e.thread] = Operation(e.oper)] /\ select[e.thread] = Waiting
    BY <2>4 DEF Woken
  <2>6. e.thread \in Threads /\ Operation(e.oper) # Waiting
    BY ItemIs DEF Operation, Waiting
  <2>7. select \in [Threads -> Nat] BY <1>0 DEF SharedTyped
  <2>8. \A v \in Threads : select'[v] # select[v] <=> v = e.thread BY <2>5, <2>6, <2>7
  <2>9. u = e.thread BY <2>6, <2>8
  <2> HIDE DEF u
  <2>10. token'[t].kind = "packet" BY <1>2, <1>6
  <2>11. peer' = [peer EXCEPT ![t] = e.thread, ![e.thread] = t] BY <2>1, <2>9
  <2> QED BY <1>1, <1>6, <2>4, <2>10, <2>11 DEF Fired
<1>7. CASE /\ o.chan \in Timers
           /\ head' = [head EXCEPT ![o.chan] = @ + 1]
           /\ due' = [due EXCEPT ![o.chan] = Flavor[o.chan] = "after"]
           /\ Token(t, "time", o, 0)
           /\ UNCHANGED <<tail, entries, select, peer>>
  BY <1>1, <1>2, <1>7 DEF Fired
<1> QED BY <1>3, <1>4, <1>5, <1>6, <1>7, Zenon DEF Fire

\* Every other step leaves the queues alone, and all but a few the pairs.
LEMMA StepShape ==
  ASSUME Base, NEW t \in Threads, Step(t)
  PROVE  \/ /\ pc[t] \in {"try", "retry", "accept"}
            /\ \E o \in Ops :
                 /\ Fired(t, o)
                 /\ pc[t] = "accept" =>
                      select[t] >= Operation(1) /\ o = ops[t][Selection(t)] /\ Flavor[o.chan] # "zero"
         \/ UNCHANGED <<channelVars, peer>>
         \/ CompletePacket(t)
<1>0. Typed /\ CallsOK /\ EntriesOK BY DEF Base, WaitsOK
<1>1. CASE (Try(t) \/ Retry(t)) /\ Handle(t, Mine(t)).ready /\ Fire(t, Mine(t))
  <2>1. pc[t] \in {"try", "retry"} BY <1>1 DEF Try, Retry
  <2>2. Mine(t) \in Ops /\ i[t] \in DOMAIN ops[t] BY <1>0, <2>1, MineIs DEF Listless
  <2>3. Fired(t, Mine(t)) BY <1>0, <1>1, <2>2, FireIs
  <2>4. pc[t] # "accept" BY <2>1
  <2> QED BY <2>1, <2>2, <2>3, <2>4
<1>2. CASE (Try(t) \/ Retry(t)) /\ ~(Handle(t, Mine(t)).ready /\ Fire(t, Mine(t)))
  BY <1>2 DEF Try, Retry, waitVars
<1>3. CASE Accept(t) /\ select[t] >= Operation(1) /\ Flavor[ops[t][Selection(t)].chan] # "zero"
                     /\ Handle(t, ops[t][Selection(t)]).ready /\ Fire(t, ops[t][Selection(t)])
  <2>1. pc[t] = "accept" BY <1>3 DEF Accept
  <2>2. ops[t][Selection(t)] \in Ops /\ Selection(t) \in DOMAIN ops[t] BY <1>3, <2>1, AcceptIs
  <2>3. Fired(t, ops[t][Selection(t)]) BY <1>0, <1>3, <2>2, FireIs
  <2> QED BY <1>3, <2>1, <2>2, <2>3
<1>4. CASE Accept(t) /\ ~(select[t] >= Operation(1) /\ Flavor[ops[t][Selection(t)].chan] # "zero"
                          /\ Handle(t, ops[t][Selection(t)]).ready /\ Fire(t, ops[t][Selection(t)]))
  BY <1>4, Zenon DEF Accept, waitVars
<1>5. CASE \/ StartCall(t) \/ Sleep(t) \/ Snapshot(t) \/ Compare(t) \/ Pause(t) \/ Unpause(t)
           \/ RegisterOp(t) \/ Check(t) \/ Abort(t) \/ Selected(t) \/ Wait(t) \/ UnregisterOp(t)
  BY <1>5 DEF StartCall, Sleep, Snapshot, Compare, Pause, Unpause, RegisterOp, Check, Abort, Selected,
              Wait, UnregisterOp, waitVars
<1>6. CASE \/ Late(t) \/ Nothing(t) \/ CompleteClosed(t) \/ CompleteSlot(t) \/ Wake(t)
           \/ CompleteTime(t) \/ Disconnect(t) \/ DisconnectSenders(t) \/ DisconnectReceivers(t)
  BY <1>6 DEF Late, Nothing, CompleteClosed, CompleteSlot, Wake, CompleteTime, Disconnect,
              DisconnectSenders, DisconnectReceivers, waitVars
<1> QED BY <1>1, <1>2, <1>3, <1>4, <1>5, <1>6 DEF Step

\* A channel is disconnected for good, by one step.
LEMMA StepCloses ==
  ASSUME NEW t \in Threads, Step(t)
  PROVE  disconnected' = disconnected \/ Disconnect(t)
<1>1. CASE \/ StartCall(t) \/ Sleep(t) \/ Snapshot(t) \/ Compare(t) \/ Pause(t) \/ Unpause(t)
           \/ RegisterOp(t) \/ Check(t) \/ Abort(t) \/ Selected(t) \/ Wait(t) \/ UnregisterOp(t)
  BY <1>1 DEF StartCall, Sleep, Snapshot, Compare, Pause, Unpause, RegisterOp, Check, Abort, Selected,
              Wait, UnregisterOp, handleVars
<1>2. CASE Try(t) \/ Retry(t) \/ Accept(t) BY <1>2 DEF Try, Retry, Accept, Fire, handleVars
<1>3. CASE \/ Late(t) \/ Nothing(t) \/ CompleteClosed(t) \/ CompleteSlot(t) \/ Wake(t)
           \/ CompletePacket(t) \/ CompleteTime(t) \/ DisconnectSenders(t) \/ DisconnectReceivers(t)
  BY <1>3 DEF Late, Nothing, CompleteClosed, CompleteSlot, Wake, CompletePacket, CompleteTime,
              DisconnectSenders, DisconnectReceivers, handleVars
<1> QED BY <1>1, <1>2, <1>3 DEF Step

LEMMA StepShared ==
  ASSUME Base, NEW t \in Threads, Step(t)
  PROVE  SharedTyped' /\ Grows
<1>0. SharedTyped /\ CallTyped /\ CallsOK BY DEF Base, Typed
<1>1. WakersTyped' BY StepMild DEF Mild
<1>2. held' \subseteq Threads \X Channels \X Sides BY <1>0, StepHeld DEF SharedTyped
<1>3. disconnected' \in [Channels -> BOOLEAN] /\ Grows
  <2>1. CASE disconnected' = disconnected BY <1>0, <2>1 DEF SharedTyped, Grows
  <2>2. CASE Disconnect(t)
    <3> DEFINE c == token[t].op.chan
    <3>1. disconnected' = [disconnected EXCEPT ![c] = TRUE] BY <2>2 DEF Disconnect
    <3> QED BY <1>0, <3>1 DEF SharedTyped, Grows
  <2> QED BY <2>1, <2>2, StepCloses
<1>4. /\ head' \in [Channels -> Nat] /\ tail' \in [Channels -> Nat] /\ due' \in [Channels -> BOOLEAN]
      /\ peer' \in [Threads -> Threads \cup {NoThread}]
  <2>1. CASE UNCHANGED <<head, tail, due, peer>> BY <1>0, <2>1 DEF SharedTyped
  <2>2. CASE CompletePacket(t)
    <3>1. UNCHANGED <<head, tail, due>> BY <2>2 DEF CompletePacket, channelVars
    <3>2. peer' = peer \/ peer' = [peer EXCEPT ![t] = NoThread, ![peer[t]] = NoThread]
      BY <2>2 DEF CompletePacket
    <3> QED BY <1>0, <3>1, <3>2 DEF SharedTyped
  <2>3. ASSUME NEW o \in Ops, Fired(t, o)
        PROVE  /\ head' \in [Channels -> Nat] /\ tail' \in [Channels -> Nat] /\ due' \in [Channels -> BOOLEAN]
               /\ peer' \in [Threads -> Threads \cup {NoThread}]
    <3>1. CASE UNCHANGED <<channelVars, peer>> BY <1>0, <3>1 DEF SharedTyped, channelVars
    <3>6. o.chan \in Channels /\ head[o.chan] + 1 \in Nat /\ tail[o.chan] + 1 \in Nat
      BY <1>0, OpIs DEF SharedTyped
    <3>2. CASE tail' = [tail EXCEPT ![o.chan] = @ + 1] /\ UNCHANGED <<head, due, peer>>
      BY <1>0, <3>2, <3>6 DEF SharedTyped
    <3>3. CASE head' = [head EXCEPT ![o.chan] = @ + 1] /\ UNCHANGED <<tail, due, peer>>
      BY <1>0, <3>3, <3>6 DEF SharedTyped
    <3>4. CASE /\ head' = [head EXCEPT ![o.chan] = @ + 1] /\ UNCHANGED <<tail, peer>>
               /\ due' = [due EXCEPT ![o.chan] = Flavor[o.chan] = "after"]
      BY <1>0, <3>4, <3>6 DEF SharedTyped
    <3>5. ASSUME NEW e \in Item, peer' = [peer EXCEPT ![t] = e.thread, ![e.thread] = t],
                 UNCHANGED channelVars
          PROVE  /\ head' \in [Channels -> Nat] /\ tail' \in [Channels -> Nat] /\ due' \in [Channels -> BOOLEAN]
                 /\ peer' \in [Threads -> Threads \cup {NoThread}]
      BY <1>0, <3>5, ItemIs DEF SharedTyped, channelVars
    <3> QED BY <2>3, <3>1, <3>2, <3>3, <3>4, <3>5 DEF Fired
  <2> QED BY <2>1, <2>2, <2>3, StepShape DEF channelVars
<1> QED BY <1>1, <1>2, <1>3, <1>4 DEF SharedTyped, WakersTyped

LEMMA StepBase ==
  ASSUME Base, NEW t \in Threads, Step(t)
  PROVE  Base'
<1>1. Own(t) /\ CallTyped' BY StepOwn
<1>2. SharedTyped' /\ Grows BY StepShared
<1>3. CallsOK' BY StepCalls
<1>4. Mild(t) BY StepMild
<1>5. OwnOK(t) BY StepOK
<1>6. \A u \in Threads : SelectedOK(u)' /\ PresentOK(u)'
  BY <1>1, <1>2, <1>4, <1>5, OthersSelected, OthersPresent DEF OwnOK
<1>7. ASSUME NEW c \in Channels, NEW s \in Sides, NEW e \in Range(entries'[c][s])
      PROVE  ItemOK(e, Op(c, s))'
  <2>1. e \in Item /\ e.thread \in Threads BY <1>4, ItemsNext, ItemIs
  <2>2. CASE e.thread = t BY <1>5, <2>2 DEF OwnOK, OwnItems
  <2>3. CASE e.thread # t BY <1>1, <1>4, <2>1, <2>3, OthersItems
  <2> QED BY <2>2, <2>3
<1>8. EntriesOK'
  <2>1. \A c \in Channels, s \in Sides : Distinct(entries'[c][s]) BY <1>4 DEF Mild, AllDistinct
  <2>2. \A c \in Channels, s \in Sides : Items(Op(c, s))' = Range(entries'[c][s]) BY DEF Items, Op
  <2> QED BY <1>7, <2>1, <2>2 DEF EntriesOK
<1> QED BY <1>1, <1>2, <1>3, <1>6, <1>8 DEF Base, Typed, WaitsOK

\* The steps of handles and of the clock: a thread between two calls may go to a disconnect.
LEMMA FrameBase ==
  ASSUME Base, UNCHANGED <<head, tail, disconnected, waitVars, i, ops, mode, registered>>, CallTyped',
         due' \in [Channels -> BOOLEAN], HeldOK', held' \subseteq Threads \X Channels \X Sides,
         \A u \in Threads :
           \/ pc'[u] = pc[u] /\ token'[u] = token[u]
           \/ /\ pc[u] = "idle" /\ pc'[u] = "disconnect"
              /\ token'[u].kind = "drop" /\ token'[u].op.chan \in Counted
  PROVE  Base'
<1>0. /\ Typed /\ CallsOK /\ EntriesOK /\ \A u \in Threads : SelectedOK(u) /\ PresentOK(u)
      /\ UNCHANGED <<entries, select, peer>>
  BY DEF Base, WaitsOK, waitVars
<1>1. Typed' BY <1>0 DEF Typed, SharedTyped
<1>2. ASSUME NEW u \in Threads
      PROVE  /\ PlaceOK(u)' /\ TokenOK(u)' /\ SelectedOK(u)' /\ PresentOK(u)'
             /\ pc'[u] = pc[u] \/ pc[u] = "idle"
  <2>0. PlaceOK(u) /\ TokenOK(u) BY <1>0 DEF CallsOK, CallOK
  <2>1. CASE pc'[u] = pc[u] /\ token'[u] = token[u]
    <3>1. PlaceOK(u)' BY <2>0, <2>1 DEF PlaceOK
    <3>2. TokenOK(u)' BY <2>0, <2>1 DEF TokenOK
    <3>3. (Begun(u)' <=> Begun(u)) /\ Mine(u)' = Mine(u) /\ Selection(u)' = Selection(u)
      BY <1>0, <2>1 DEF Begun, Mine, Selection
    <3>4. SelectedOK(u)' BY <1>0, <2>1, <3>3 DEF SelectedOK
    <3>5. PresentOK(u)' BY <1>0, <2>1, <3>3 DEF PresentOK, Items
    <3> QED BY <2>1, <3>1, <3>2, <3>4, <3>5
  <2>2. CASE /\ pc[u] = "idle" /\ pc'[u] = "disconnect"
             /\ token'[u].kind = "drop" /\ token'[u].op.chan \in Counted
    <3>1. PlaceOK(u)' BY <2>0, <2>2 DEF PlaceOK, Listless, Trying, Dropping
    <3>2. TokenOK(u)' BY <2>2 DEF TokenOK, Dropping
    <3>3. ~Begun(u)' /\ pc'[u] \notin Registering BY <2>2 DEF Begun, Registering
    <3>4. SelectedOK(u)' /\ PresentOK(u)' BY <2>2, <3>3 DEF SelectedOK, PresentOK
    <3> QED BY <2>2, <3>1, <3>2, <3>4
  <2> QED BY <2>1, <2>2
<1>3. CallsOK' BY <1>2 DEF CallsOK, CallOK
<1>4. EntriesOK'
  <2>1. \A c \in Channels, s \in Sides : Distinct(entries'[c][s]) BY <1>0 DEF EntriesOK
  <2>2. ASSUME NEW c \in Channels, NEW s \in Sides, NEW e \in Range(entries[c][s])
        PROVE  ItemOK(e, Op(c, s))'
    <3>1. Items(Op(c, s)) = Range(entries[c][s]) BY DEF Items, Op
    <3>2. ItemOK(e, Op(c, s)) BY <1>0, <3>1 DEF EntriesOK
    <3>3. e \in Item
      <4>1. entries[c][s] \in Seq(Item) BY <1>0 DEF Typed, SharedTyped
      <4>2. DOMAIN entries[c][s] = 1 .. Len(entries[c][s]) BY <4>1, LenProperties
      <4> QED BY <4>1, <4>2, ElementOfSeq DEF Range
    <3>4. e.thread \in Threads BY <3>3, ItemIs
    <3>5. pc[e.thread] # "idle" BY <3>2 DEF ItemOK, Registering
    <3>6. pc'[e.thread] = pc[e.thread] BY <1>2, <3>4, <3>5
    <3> QED BY <3>2, <3>6 DEF ItemOK, Mine
  <2>3. \A c \in Channels, s \in Sides : Items(Op(c, s))' = Range(entries[c][s])
    BY <1>0 DEF Items, Op
  <2> QED BY <2>1, <2>2, <2>3 DEF EntriesOK
<1> QED BY <1>1, <1>2, <1>3, <1>4 DEF Base, WaitsOK

LEMMA DropBase ==
  ASSUME Base, NEW t \in Threads, DropHandle(t)
  PROVE  Base'
<1>0. CallTyped /\ SharedTyped /\ CallsOK BY DEF Base, Typed
<1>1. PICK h \in held :
        LET c == h[2] s == h[3] IN
        /\ h[1] = t /\ pc[t] = "idle" /\ held' = held \ {h}
        /\ IF c \in Counted
           THEN /\ IF handles[c][s] = 1
                   THEN Token(t, "drop", Op(c, s), 0) /\ Goto(t, "disconnect")
                   ELSE UNCHANGED <<token, pc>>
           ELSE UNCHANGED <<token, pc>>
        /\ UNCHANGED <<channelVars, disconnected, waitVars, i, callVars, scanVars>>
  BY DEF DropHandle
<1>2. UNCHANGED <<head, tail, due, disconnected, waitVars, i, ops, mode, registered>>
  BY <1>1 DEF channelVars, callVars, scanVars
<1>3. held' \subseteq Threads \X Channels \X Sides BY <1>0, <1>1 DEF SharedTyped
<1>4. HeldOK'
  <2>1. ASSUME NEW u \in Threads, NEW k \in DOMAIN ops[u]
        PROVE  <<u, ops[u][k].chan, ops[u][k].side>> \in held'
    <3>1. <<u, ops[u][k].chan, ops[u][k].side>> \in held BY <1>0 DEF CallsOK, HeldOK
    <3>2. ops[t] = <<>> BY <1>0, <1>1 DEF CallsOK, CallOK, PlaceOK
    <3>3. DOMAIN <<>> = {} OBVIOUS
    <3>4. u # t BY <3>2, <3>3
    <3> QED BY <1>1, <3>1, <3>4
  <2> QED BY <1>0, <1>1, <1>2, <2>1 DEF CallsOK, HeldOK
<1>5. CASE UNCHANGED <<token, pc>>
  <2>1. CallTyped' BY <1>0, <1>2, <1>5 DEF CallTyped
  <2> QED BY <1>0, <1>2, <1>3, <1>4, <1>5, <2>1, FrameBase DEF SharedTyped
<1>6. CASE h[2] \in Counted /\ Token(t, "drop", Op(h[2], h[3]), 0) /\ Goto(t, "disconnect")
  <2> DEFINE c == h[2]
             s == h[3]
  <2>1. c \in Counted /\ c \in Channels /\ s \in Sides BY <1>0, <1>6 DEF SharedTyped
  <2>2. token' = [token EXCEPT ![t] = [kind |-> "drop", op |-> Op(c, s), pos |-> 0]]
        /\ pc' = [pc EXCEPT ![t] = "disconnect"]
    BY <1>6 DEF Token, Goto
  <2> HIDE DEF c, s
  <2>3. Op(c, s) \in Ops /\ Op(c, s).chan = c BY <2>1 DEF Op, Ops
  <2>4. [kind |-> "drop", op |-> Op(c, s), pos |-> 0] \in [kind : Kinds, op : Ops \cup {NoOp}, pos : Nat]
    BY <2>3 DEF Kinds
  <2>5. CallTyped' BY <1>0, <1>2, <2>2, <2>4 DEF CallTyped, Labels
  <2>6. \A u \in Threads :
           \/ pc'[u] = pc[u] /\ token'[u] = token[u]
           \/ /\ pc[u] = "idle" /\ pc'[u] = "disconnect"
              /\ token'[u].kind = "drop" /\ token'[u].op.chan \in Counted
    BY <1>0, <1>1, <2>1, <2>2, <2>3 DEF CallTyped
  <2> QED BY <1>0, <1>2, <1>3, <1>4, <2>5, <2>6, FrameBase DEF SharedTyped
<1> QED BY <1>1, <1>5, <1>6

LEMMA CloneBase ==
  ASSUME Base, NEW t \in Threads, CloneHandle(t)
  PROVE  Base'
<1>0. CallTyped /\ SharedTyped /\ CallsOK BY DEF Base, Typed
<1>1. PICK h \in held, u \in Threads :
        /\ <<u, h[2], h[3]>> \in Clones /\ held' = held \cup {<<u, h[2], h[3]>>}
        /\ UNCHANGED <<channelVars, disconnected, waitVars, pc, i, callVars, scanVars, token>>
  BY DEF CloneHandle
<1>2. UNCHANGED <<head, tail, due, disconnected, waitVars, pc, i, ops, mode, registered, token>>
  BY <1>1 DEF channelVars, callVars, scanVars
<1>3. held' \subseteq Threads \X Channels \X Sides BY <1>0, <1>1 DEF SharedTyped
<1>4. HeldOK'
  <2>1. \A g \in held' : g[3] = "send" => g[2] \in Counted
    BY <1>0, <1>1, ReceiversAssumption DEF CallsOK, HeldOK
  <2>2. \A v \in Threads : \A k \in DOMAIN ops[v] : <<v, ops[v][k].chan, ops[v][k].side>> \in held'
    BY <1>0, <1>1 DEF CallsOK, HeldOK
  <2> QED BY <1>2, <2>1, <2>2 DEF HeldOK
<1>5. CallTyped' BY <1>0, <1>2 DEF CallTyped
<1> QED BY <1>0, <1>2, <1>3, <1>4, <1>5, FrameBase DEF SharedTyped

LEMMA ClockBase ==
  ASSUME Base, UNCHANGED <<head, tail, handleVars, waitVars, pc, i, callVars, scanVars, token>>,
         due' \in [Channels -> BOOLEAN]
  PROVE  Base'
<1>0. CallTyped /\ SharedTyped /\ CallsOK BY DEF Base, Typed
<1>1. UNCHANGED <<head, tail, disconnected, held, waitVars, pc, i, ops, mode, registered, token>>
  BY DEF handleVars, callVars, scanVars
<1>2. held' \subseteq Threads \X Channels \X Sides BY <1>0, <1>1 DEF SharedTyped
<1>3. HeldOK' BY <1>0, <1>1 DEF CallsOK, HeldOK
<1>4. CallTyped' BY <1>0, <1>1 DEF CallTyped
<1> QED BY <1>1, <1>2, <1>3, <1>4, FrameBase

LEMMA BaseInit == Init => Base
<1> SUFFICES ASSUME Init PROVE Base OBVIOUS
<1>1. \A t \in Threads : pc[t] = "idle" /\ ops[t] = <<>> /\ mode[t] = "now" /\ token[t] = NoToken
  BY DEF Init
<1>2. DOMAIN <<>> = {} /\ <<>> \in Seq(Ops) /\ <<>> \in Seq(Item) OBVIOUS
<1>3. \A c \in Channels, s \in Sides : entries[c][s] = <<>> BY DEF Init
<1>4. CallTyped
  <2>1. NoToken \in [kind : Kinds, op : Ops \cup {NoOp}, pos : Nat] BY DEF NoToken, Kinds
  <2> QED BY <1>2, <2>1 DEF Init, CallTyped, Labels, Modes
<1>5. held \in Starts BY DEF Init
<1>6. SharedTyped
  <2>1. head \in [Channels -> Nat] /\ tail \in [Channels -> Nat] /\ due \in [Channels -> BOOLEAN]
    BY DEF Init
  <2>2. held \subseteq Threads \X Channels \X Sides BY <1>5, SelectAssumption
  <2>3. disconnected \in [Channels -> BOOLEAN]
    <3>1. disconnected = [c \in Channels |-> c \in Counted /\ handles[c] = [s \in Sides |-> 0]]
      BY DEF Init
    <3> QED BY <3>1
  <2>4. entries \in [Channels -> [Sides -> Seq(Item)]] BY <1>2 DEF Init
  <2>5. select \in [Threads -> Nat] /\ peer \in [Threads -> Threads \cup {NoThread}]
    BY DEF Init, Waiting
  <2> QED BY <2>1, <2>2, <2>3, <2>4, <2>5 DEF SharedTyped
<1>7. CallsOK
  <2>1. HeldOK BY <1>1, <1>2, <1>5, ReceiversAssumption DEF HeldOK
  <2>2. \A t \in Threads : PlaceOK(t) /\ TokenOK(t)
    BY <1>1 DEF PlaceOK, TokenOK, Listless, Trying, Dropping, Plain, NoToken
  <2> QED BY <2>1, <2>2 DEF CallsOK, CallOK
<1>8. EntriesOK
  <2>1. Distinct(<<>>) /\ Range(<<>>) = {} BY DEF Distinct, Range
  <2>2. \A c \in Channels, s \in Sides : Items(Op(c, s)) = {} BY <1>3, <2>1 DEF Items, Op
  <2> QED BY <1>3, <2>1, <2>2 DEF EntriesOK
<1>9. \A t \in Threads : SelectedOK(t) /\ PresentOK(t)
  BY <1>1 DEF SelectedOK, PresentOK, Begun, Registering
<1> QED BY <1>4, <1>6, <1>7, <1>8, <1>9 DEF Base, Typed, WaitsOK

LEMMA BaseStep == Base /\ [Next]_vars => Base'
<1> SUFFICES ASSUME Base, [Next]_vars PROVE Base' OBVIOUS
<1>0. SharedTyped BY DEF Base, Typed
<1>1. CASE UNCHANGED vars
  <2>1. UNCHANGED <<head, tail, due, handleVars, waitVars, pc, i, callVars, scanVars, token>>
    BY <1>1 DEF vars, channelVars
  <2> QED BY <1>0, <2>1, ClockBase DEF SharedTyped
<1>2. ASSUME NEW t \in Threads, Step(t) PROVE Base' BY <1>2, StepBase
<1>3. ASSUME NEW t \in Threads, DropHandle(t) PROVE Base' BY <1>3, DropBase
<1>4. ASSUME NEW t \in Threads, CloneHandle(t) PROVE Base' BY <1>4, CloneBase
<1>5. ASSUME NEW t \in Threads, Expire(t) PROVE Base'
  <2>1. UNCHANGED <<head, tail, due, handleVars, waitVars, pc, i, callVars, scanVars, token>>
    BY <1>5 DEF Expire, channelVars
  <2> QED BY <1>0, <2>1, ClockBase DEF SharedTyped
<1>6. ASSUME NEW c \in Channels, TimerFires(c) PROVE Base'
  <2>1. UNCHANGED <<head, tail, handleVars, waitVars, pc, i, callVars, scanVars, token>>
    BY <1>6 DEF TimerFires
  <2>2. due' \in [Channels -> BOOLEAN] BY <1>0, <1>6 DEF TimerFires, SharedTyped
  <2> QED BY <2>1, <2>2, ClockBase
<1> QED BY <1>1, <1>2, <1>3, <1>4, <1>5, <1>6 DEF Next

\* The stated invariant says it of what the handles answer.
LEMMA BaseMatches == Base => EntriesMatch
<1> SUFFICES ASSUME Base PROVE EntriesMatch OBVIOUS
<1>0. Typed /\ CallsOK /\ EntriesOK /\ \A t \in Threads : SelectedOK(t) /\ PresentOK(t)
  BY DEF Base, WaitsOK
<1>1. ASSUME NEW c \in Channels, NEW s \in Sides, NEW e \in Range(entries[c][s])
      PROVE  \/ e.oper = 0 /\ pc[e.thread] \in {"pause", "unpause"} /\ Mine(e.thread) = Op(c, s)
             \/ /\ pc[e.thread] \in Registering /\ e.oper \in 1 .. registered[e.thread]
                /\ ops[e.thread][e.oper] = Op(c, s)
                /\ pc[e.thread] = "unregister" => e.oper >= i[e.thread]
  <2>1. Items(Op(c, s)) = Range(entries[c][s]) BY DEF Items, Op
  <2> QED BY <1>0, <2>1 DEF EntriesOK, ItemOK
<1>2. ASSUME NEW t \in Threads, pc[t] = "wait", select[t] = Waiting, NEW k \in DOMAIN ops[t],
             Handle(t, ops[t][k]).waits
      PROVE  [thread |-> t, oper |-> k] \in Range(entries[ops[t][k].chan][ops[t][k].side])
  <2>1. ops[t] \in Seq(Ops) BY <1>0 DEF Typed, CallTyped
  <2>2. registered[t] = Len(ops[t]) BY <1>0, <1>2 DEF CallsOK, CallOK, PlaceOK
  <2>3. k \in 1 .. registered[t] BY <2>1, <2>2, LenProperties
  <2>4. ops[t][k] \in Ops BY <2>1, <2>2, <2>3, ElementOfSeq
  <2>5. Queues(ops[t][k]) BY <1>0, <1>2, <2>4, HandleIs DEF Typed
  <2>6. pc[t] \in Registering /\ Begun(t) BY <1>2 DEF Registering, Begun
  <2>7. Entry(t, k) \in Items(ops[t][k]) BY <1>0, <1>2, <2>3, <2>5, <2>6 DEF PresentOK
  <2> QED BY <2>7 DEF Entry, Items
<1>3. ASSUME NEW t \in Threads, pc[t] = "unpause"
      PROVE  [thread |-> t, oper |-> 0] \in Range(entries[Mine(t).chan][Mine(t).side])
  <2>1. select[t] \in {Aborted, Disconnected} BY <1>0, <1>3 DEF SelectedOK
  <2>2. select[t] # Operation(0) BY <2>1 DEF Aborted, Disconnected, Operation
  <2>3. Entry(t, 0) \in Items(Mine(t)) BY <1>0, <1>3, <2>2 DEF PresentOK
  <2> QED BY <2>3 DEF Entry, Items
<1> QED BY <1>1, <1>2, <1>3 DEF EntriesMatch

\* However a registration ends, by an operation that is ready, by another thread or by the clock,
\* its entries go with it; a thread that waits has an entry in every waker that can wake it, and
\* the unregister of a zero-capacity channel finds the one it unwraps (select.rs:276, zero.rs:153).
THEOREM EntriesCorrect == Spec => []EntriesMatch
<1>1. Init => Base BY BaseInit
<1>2. Base /\ [Next]_vars => Base' BY BaseStep
<1>3. Base => EntriesMatch BY BaseMatches
<1> QED BY <1>1, <1>2, <1>3, PTL DEF Spec
-------------------------------------------------------------------------------
(* The queues. *)

LEMMA FiredQueues ==
  ASSUME Base, QueuesOK, NEW t \in Threads, NEW o \in Ops, Fired(t, o)
  PROVE  QueuesOK'
<1> DEFINE c == o.chan
<1>0. SharedTyped /\ c \in Channels BY OpIs DEF Base, Typed
<1>1. head[c] \in Nat /\ tail[c] \in Nat BY <1>0 DEF SharedTyped
<1>2. CASE UNCHANGED <<head, tail>> BY <1>2 DEF QueuesOK
<1>3. CASE /\ ~Handle(t, o).closed /\ Flavor[c] \in {"array", "list"} /\ o.side = "send"
           /\ tail' = [tail EXCEPT ![c] = @ + 1] /\ head' = head
  <2>1. Flavor[c] = "array" => tail[c] # head[c] + Cap[c]
    <3>1. Flavor[c] = "array" => (Handle(t, o).closed <=> disconnected[c])
      BY <1>0, <1>3, HandleIs
    <3>2. Flavor[c] = "array" =>
            (Handle(t, o).ready <=> tail[c] # head[c] + Cap[c] \/ disconnected[c])
      BY <1>0, <1>3, HandleIs
    <3> QED BY <1>3, <3>1, <3>2 DEF Fired
  <2>2. ASSUME NEW d \in Counted
        PROVE  /\ head'[d] <= tail'[d]
               /\ Flavor[d] = "array" => tail'[d] <= head'[d] + Cap[d]
               /\ Flavor[d] = "zero" => head'[d] = tail'[d]
    <3>1. /\ head[d] <= tail[d] /\ (Flavor[d] = "array" => tail[d] <= head[d] + Cap[d])
          /\ (Flavor[d] = "zero" => head[d] = tail[d])
          /\ d \in Channels /\ head[d] \in Nat /\ tail[d] \in Nat
          /\ (Flavor[d] = "array" => Cap[d] \in Nat)
      BY <1>0, SelectAssumption DEF QueuesOK, SharedTyped, Counted
    <3>2. CASE d = c
      <4>1. tail'[d] = tail[d] + 1 /\ head'[d] = head[d] BY <1>0, <1>3, <3>1, <3>2 DEF SharedTyped
      <4> QED BY <1>3, <2>1, <3>1, <3>2, <4>1
    <3>3. CASE d # c
      <4>1. tail'[d] = tail[d] /\ head'[d] = head[d] BY <1>0, <1>3, <3>1, <3>3 DEF SharedTyped
      <4> QED BY <3>1, <4>1
    <3> QED BY <3>2, <3>3
  <2> QED BY <2>2 DEF QueuesOK
<1>4. CASE /\ ~Handle(t, o).closed /\ Flavor[c] \in {"array", "list"} /\ o.side = "recv"
           /\ head' = [head EXCEPT ![c] = @ + 1] /\ tail' = tail
  <2>1. head[c] # tail[c]
    <3>1. Handle(t, o).closed <=> head[c] = tail[c] /\ disconnected[c] BY <1>0, <1>4, HandleIs
    <3>2. Handle(t, o).ready <=> head[c] # tail[c] \/ disconnected[c] BY <1>0, <1>4, HandleIs
    <3> QED BY <1>4, <3>1, <3>2 DEF Fired
  <2>2. ASSUME NEW d \in Counted
        PROVE  /\ head'[d] <= tail'[d]
               /\ Flavor[d] = "array" => tail'[d] <= head'[d] + Cap[d]
               /\ Flavor[d] = "zero" => head'[d] = tail'[d]
    <3>1. /\ head[d] <= tail[d] /\ (Flavor[d] = "array" => tail[d] <= head[d] + Cap[d])
          /\ (Flavor[d] = "zero" => head[d] = tail[d])
          /\ d \in Channels /\ head[d] \in Nat /\ tail[d] \in Nat
          /\ (Flavor[d] = "array" => Cap[d] \in Nat)
      BY <1>0, SelectAssumption DEF QueuesOK, SharedTyped, Counted
    <3>2. CASE d = c
      <4>1. tail'[d] = tail[d] /\ head'[d] = head[d] + 1 BY <1>0, <1>4, <3>1, <3>2 DEF SharedTyped
      <4> QED BY <1>4, <2>1, <3>1, <3>2, <4>1
    <3>3. CASE d # c
      <4>1. tail'[d] = tail[d] /\ head'[d] = head[d] BY <1>0, <1>4, <3>1, <3>3 DEF SharedTyped
      <4> QED BY <3>1, <4>1
    <3> QED BY <3>2, <3>3
  <2> QED BY <2>2 DEF QueuesOK
<1>5. CASE c \in Timers /\ head' = [head EXCEPT ![c] = @ + 1] /\ tail' = tail
  <2>1. c \notin Counted BY <1>5 DEF Timers, Counted
  <2>2. \A d \in Counted : head'[d] = head[d] BY <1>0, <1>5, <2>1 DEF SharedTyped, Counted
  <2> QED BY <1>5, <2>2 DEF QueuesOK
<1> QED BY <1>2, <1>3, <1>4, <1>5, Zenon DEF Fired, channelVars

LEMMA QueuesStep == Base /\ QueuesOK /\ [Next]_vars => QueuesOK'
<1> SUFFICES ASSUME Base, QueuesOK, [Next]_vars PROVE QueuesOK' OBVIOUS
<1>1. CASE UNCHANGED <<head, tail>> BY <1>1 DEF QueuesOK
<1>2. ASSUME NEW t \in Threads, Step(t) PROVE QueuesOK'
  <2>1. CASE CompletePacket(t) BY <1>1, <2>1 DEF CompletePacket, channelVars
  <2> QED BY <1>1, <1>2, <2>1, StepShape, FiredQueues DEF channelVars
<1> QED BY <1>1, <1>2 DEF Next, vars, channelVars, DropHandle, CloneHandle, Expire, TimerFires

LEMMA QueuesInit == Init => QueuesOK
<1> SUFFICES ASSUME Init, NEW c \in Counted
             PROVE  /\ head[c] <= tail[c]
                    /\ Flavor[c] = "array" => tail[c] <= head[c] + Cap[c]
                    /\ Flavor[c] = "zero" => head[c] = tail[c]
  BY DEF QueuesOK
<1>1. c \in Channels BY DEF Counted
<1>2. head[c] = 0 /\ tail[c] = IF c \in Stock THEN 1 ELSE 0 BY <1>1 DEF Init
<1>3. Flavor[c] = "array" => Cap[c] \in Nat /\ Cap[c] # 0 BY <1>1, SelectAssumption
<1>4. c \in Stock => Flavor[c] # "zero" BY SelectAssumption
<1> QED BY <1>2, <1>3, <1>4
-------------------------------------------------------------------------------
(* The type invariant. *)

\* Timers do not count their handles.
Uncounted == \A c \in Channels \ Counted, s \in Sides : handles[c][s] = 0

LEMMA UncountedInit == Init => Uncounted
<1> SUFFICES ASSUME Init, NEW c \in Channels \ Counted, NEW s \in Sides PROVE handles[c][s] = 0
  BY DEF Uncounted
<1>1. handles[c][s] = Cardinality({h \in held : c \in Counted /\ h[2] = c /\ h[3] = s}) BY DEF Init
<1>2. {h \in held : c \in Counted /\ h[2] = c /\ h[3] = s} = {} OBVIOUS
<1> QED BY <1>1, <1>2, FS_EmptySet

LEMMA StepHandles ==
  ASSUME NEW t \in Threads, Step(t)
  PROVE  handles' = handles
<1>1. CASE \/ StartCall(t) \/ Sleep(t) \/ Snapshot(t) \/ Compare(t) \/ Pause(t) \/ Unpause(t)
           \/ RegisterOp(t) \/ Check(t) \/ Abort(t) \/ Selected(t) \/ Wait(t) \/ UnregisterOp(t)
  BY <1>1 DEF StartCall, Sleep, Snapshot, Compare, Pause, Unpause, RegisterOp, Check, Abort, Selected,
              Wait, UnregisterOp, handleVars
<1>2. CASE Try(t) \/ Retry(t) \/ Accept(t) BY <1>2 DEF Try, Retry, Accept, Fire, handleVars
<1>3. CASE \/ Late(t) \/ Nothing(t) \/ CompleteClosed(t) \/ CompleteSlot(t) \/ Wake(t)
           \/ CompletePacket(t) \/ CompleteTime(t) \/ Disconnect(t) \/ DisconnectSenders(t)
           \/ DisconnectReceivers(t)
  BY <1>3 DEF Late, Nothing, CompleteClosed, CompleteSlot, Wake, CompletePacket, CompleteTime,
              Disconnect, DisconnectSenders, DisconnectReceivers, handleVars
<1> QED BY <1>1, <1>2, <1>3 DEF Step

LEMMA UncountedStep == HInv /\ Uncounted /\ [Next]_vars => Uncounted'
<1> SUFFICES ASSUME HInv, Uncounted, [Next]_vars PROVE Uncounted' OBVIOUS
<1>1. CASE handles' = handles BY <1>1 DEF Uncounted
<1>2. ASSUME NEW c \in Counted, NEW s \in Sides, NEW n, handles' = [handles EXCEPT ![c][s] = n]
      PROVE  Uncounted'
  BY <1>2 DEF Uncounted, HInv, HandlesType, Counted
<1>3. ASSUME NEW t \in Threads, DropHandle(t) PROVE Uncounted'
  <2>1. PICK h \in held : IF h[2] \in Counted
                          THEN handles' = [handles EXCEPT ![h[2]][h[3]] = @ - 1]
                          ELSE handles' = handles
    BY <1>3 DEF DropHandle
  <2>2. h[3] \in Sides BY DEF HInv, HandlesType
  <2> QED BY <1>1, <1>2, <2>1, <2>2
<1>4. ASSUME NEW t \in Threads, CloneHandle(t) PROVE Uncounted'
  <2>1. PICK h \in held : IF h[2] \in Counted
                          THEN handles' = [handles EXCEPT ![h[2]][h[3]] = @ + 1]
                          ELSE handles' = handles
    BY <1>4 DEF CloneHandle
  <2>2. h[3] \in Sides BY DEF HInv, HandlesType
  <2> QED BY <1>1, <1>2, <2>1, <2>2
<1>5. ASSUME NEW t \in Threads, Step(t) PROVE Uncounted' BY <1>1, <1>5, StepHandles
<1> QED BY <1>1, <1>3, <1>4, <1>5 DEF Next, vars, handleVars, Expire, TimerFires

\* A thread has at most one handle of each side of a channel.
LEMMA SidesBounded ==
  ASSUME HInv, NEW c \in Channels, NEW s \in Sides
  PROVE  Cardinality(HandlesOf(c, s)) \in 0 .. Cardinality(Threads)
<1> DEFINE S == HandlesOf(c, s)
           f == [h \in S |-> h[1]]
<1>1. held \subseteq Threads \X Channels \X Sides BY DEF HInv, HandlesType
<1>2. \A h \in S : h[1] \in Threads /\ h = <<h[1], c, s>> BY <1>1 DEF HandlesOf
<1>3. f \in Injection(S, Threads) BY <1>2 DEF Injection, IsInjective
<1>4. IsFiniteSet(S) /\ Cardinality(S) \in Nat BY FiniteSides DEF HInv
<1>5. IsFiniteSet(Threads) /\ Cardinality(Threads) \in Nat BY SelectAssumption, FS_CardinalityType
<1> HIDE DEF S, f
<1>6. Cardinality(S) <= Cardinality(Threads) BY <1>3, <1>5, FS_Injection
<1> QED BY <1>4, <1>5, <1>6 DEF S

LEMMA TypeImplied == Base /\ HInv /\ QueuesOK /\ Uncounted => TypeOK
<1> SUFFICES ASSUME Base, HInv, QueuesOK, Uncounted PROVE TypeOK OBVIOUS
<1>0. Typed /\ CallsOK /\ CallTyped /\ SharedTyped BY DEF Base, Typed
<1>1. \A t \in Threads : pc[t] \in Labels \ Listless => i[t] \in DOMAIN ops[t] BY <1>0, MineIs
<1>2. \A c \in Channels : {head[c], tail[c]} \subseteq Nat BY <1>0 DEF SharedTyped
<1>3. \A c \in Counted : head[c] <= tail[c] /\ (Flavor[c] = "array" => tail[c] <= head[c] + Cap[c])
  BY DEF QueuesOK
<1>4. handles \in [Channels -> [Sides -> 0 .. Cardinality(Threads)]]
  <2>1. handles \in [Channels -> [Sides -> Nat]] BY DEF HInv, HandlesType
  <2>2. ASSUME NEW c \in Channels, NEW s \in Sides PROVE handles[c][s] \in 0 .. Cardinality(Threads)
    <3>1. CASE c \in Counted
      <4>1. handles[c][s] = Cardinality(HandlesOf(c, s)) BY <3>1 DEF HInv, CountsOK
      <4> QED BY <4>1, SidesBounded
    <3>2. CASE c \notin Counted
      <4>1. handles[c][s] = 0 BY <3>2 DEF Uncounted
      <4>2. Cardinality(Threads) \in Nat BY SelectAssumption, FS_CardinalityType
      <4> QED BY <4>1, <4>2
    <3> QED BY <3>1, <3>2
  <2> QED BY <2>1, <2>2
<1> QED BY <1>0, <1>1, <1>2, <1>3, <1>4 DEF TypeOK, CallTyped, SharedTyped

\* The types of the variables, for any threads, channels and calls: a call is always at an operation
\* of its list, no channel holds more than it can, and no handle is counted twice (select.rs:176).
THEOREM TypeCorrect == Spec => []TypeOK
<1>1. Init => Base /\ HInv /\ QueuesOK /\ Uncounted BY BaseInit, HInit, QueuesInit, UncountedInit
<1>2. Base /\ HInv /\ QueuesOK /\ Uncounted /\ [Next]_vars => (Base /\ HInv /\ QueuesOK /\ Uncounted)'
  BY BaseStep, HStep, QueuesStep, UncountedStep
<1>3. Base /\ HInv /\ QueuesOK /\ Uncounted => TypeOK BY TypeImplied
<1> QED BY <1>1, <1>2, <1>3, PTL DEF Spec
-------------------------------------------------------------------------------
(* The answer that a channel is disconnected. *)

\* What the answer claims of an operation.
Gone(o) ==
  /\ disconnected[o.chan] /\ handles[o.chan][Opposite(o.side)] = 0
  /\ o.side = "recv" => head[o.chan] = tail[o.chan]

\* A thread that has a handle finds those of the other side gone when the channel is disconnected.
LEMMA OtherSideGone ==
  ASSUME Base, HInv, NEW t \in Threads, NEW k \in DOMAIN ops[t], ops[t][k].chan \in Counted,
         ops[t][k] \in Ops, disconnected[ops[t][k].chan]
  PROVE  handles[ops[t][k].chan][Opposite(ops[t][k].side)] = 0
<1> DEFINE c == ops[t][k].chan
           s == ops[t][k].side
<1>1. s \in Sides BY OpIs
<1>2. <<t, c, s>> \in HandlesOf(c, s) BY DEF Base, CallsOK, HeldOK, HandlesOf
<1>3. IsFiniteSet(HandlesOf(c, s)) BY FiniteSides DEF HInv
<1>4. handles[c][s] = Cardinality(HandlesOf(c, s)) BY <1>1 DEF HInv, CountsOK
<1>5. handles[c][s] # 0 BY <1>2, <1>3, <1>4, FS_EmptySet
<1>6. \E z \in Sides : handles[c][z] = 0 BY DEF HInv, ClosedOK
<1> QED BY <1>1, <1>5, <1>6 DEF Sides, Opposite

\* The queue of a channel that an operation found closed is empty, or the operation is a send.
LEMMA ClosedIs ==
  ASSUME SharedTyped, QueuesOK, NEW t \in Threads, NEW o \in Ops, Handle(t, o).closed
  PROVE  /\ o.chan \in Counted /\ disconnected[o.chan]
         /\ o.side = "recv" => head[o.chan] = tail[o.chan]
<1>0. /\ o.chan \in Channels /\ Flavor[o.chan] \in {"array", "list", "zero", "after", "tick", "never"}
      /\ o.chan \in Counted <=> Flavor[o.chan] \in {"array", "list", "zero"}
      /\ o.side = "send" \/ o.side = "recv"
  BY OpIs
<1>1. o.chan \in Counted BY HandleIs
<1>2. CASE Flavor[o.chan] = "zero"
  <2>1. disconnected[o.chan] BY <1>2, HandleIs
  <2>2. head[o.chan] = tail[o.chan] BY <1>1, <1>2 DEF QueuesOK
  <2> QED BY <1>1, <2>1, <2>2
<1>3. CASE Flavor[o.chan] \in {"array", "list"} /\ o.side = "recv"
  <2>1. Handle(t, o).closed <=> head[o.chan] = tail[o.chan] /\ disconnected[o.chan] BY <1>3, HandleIs
  <2> QED BY <1>1, <2>1
<1>4. CASE Flavor[o.chan] \in {"array", "list"} /\ o.side = "send"
  <2>1. Handle(t, o).closed <=> disconnected[o.chan] BY <1>4, HandleIs
  <2> QED BY <1>1, <1>4, <2>1
<1> QED BY <1>0, <1>1, <1>2, <1>3, <1>4

\* Only two kinds of steps give that answer.
LEMMA StepClosed ==
  ASSUME Base, NEW t \in Threads, Step(t), token'[t].kind = "closed"
  PROVE  \/ \E o \in Ops : /\ Fired(t, o) /\ Handle(t, o).closed /\ token'[t].op = o
                           /\ UNCHANGED <<channelVars, handles, disconnected>>
                           /\ \E k \in DOMAIN ops[t] : o = ops[t][k]
         \/ /\ pc[t] = "unpause" /\ select[t] = Disconnected /\ token'[t].op = Mine(t)
            /\ UNCHANGED <<channelVars, handles, disconnected>>
<1>0. Typed /\ CallTyped /\ CallsOK /\ CallTyped' BY StepOwn DEF Base, Typed
<1>1. TokenOK(t) /\ TokenOK(t)' BY <1>0, StepToken DEF CallsOK, CallOK
<1>2. pc'[t] = "complete" BY <1>1 DEF TokenOK, Dropping
<1>3. CASE pc[t] \in {"try", "retry", "accept"} /\ \E o \in Ops : Fired(t, o) /\ \E k \in DOMAIN ops[t] : o = ops[t][k]
  <2>1. PICK o \in Ops : Fired(t, o) /\ \E k \in DOMAIN ops[t] : o = ops[t][k] BY <1>3
  <2>2. /\ Handle(t, o).closed /\ token'[t].op = o
        /\ UNCHANGED <<channelVars, handles, disconnected>>
    BY <2>1 DEF Fired, handleVars
  <2> QED BY <2>1, <2>2
<1>4. CASE Unpause(t)
  <2>1. pc[t] = "unpause" /\ UNCHANGED <<channelVars, handles, disconnected>>
    BY <1>4 DEF Unpause, handleVars
  <2>2. token[t].kind = "none" BY <1>1, <2>1 DEF TokenOK, Dropping
  <2>3. select[t] # Aborted /\ Token(t, "closed", Mine(t), 0) BY <1>4, <2>2 DEF Unpause
  <2>4. token'[t].op = Mine(t) BY <1>0, <2>3 DEF Token, CallTyped
  <2>5. select[t] = Disconnected BY <2>1, <2>3 DEF Base, WaitsOK, SelectedOK
  <2> QED BY <2>1, <2>4, <2>5
<1>5. ASSUME pc[t] \notin {"complete", "unpause"}, token'[t] = token[t] PROVE FALSE
  BY <1>1, <1>5 DEF TokenOK, Dropping
<1>6. ASSUME NEW iterates, Return(t, iterates) PROVE FALSE
  BY <1>0, <1>6, ReturnCall DEF NoToken
<1>7. CASE /\ Try(t) \/ Retry(t) \/ Accept(t)
           /\ ~(pc[t] \in {"try", "retry", "accept"} /\ \E o \in Ops : Fired(t, o) /\ \E k \in DOMAIN ops[t] : o = ops[t][k])
  <2>1. pc[t] \in {"try", "retry", "accept"} BY <1>7 DEF Try, Retry, Accept
  <2>2. CASE token'[t] = token[t] BY <1>5, <2>1, <2>2
  <2>3. CASE \E o : Token(t, "packet", o, 0) BY <1>0, <2>3 DEF Token, CallTyped
  <2>4. CASE Try(t) \/ Retry(t)
    <3>1. Mine(t) \in Ops /\ i[t] \in DOMAIN ops[t] BY <1>0, <2>1, MineIs DEF Listless
    <3>2. ~(Handle(t, Mine(t)).ready /\ Fire(t, Mine(t)))
      <4>1. Mine(t) = ops[t][i[t]] BY DEF Mine
      <4> QED BY <1>0, <1>7, <2>1, <3>1, <4>1, FireIs DEF Base, WaitsOK
    <3>3. token' = token BY <2>4, <3>2 DEF Try, Retry
    <3> QED BY <2>2, <3>3
  <2>5. CASE Accept(t)
    <3>1. CASE select[t] >= Operation(1) /\ Handle(t, ops[t][Selection(t)]).ready
                 /\ Fire(t, ops[t][Selection(t)])
      <4>1. pc[t] = "accept" BY <2>5 DEF Accept
      <4>2. ops[t][Selection(t)] \in Ops /\ Selection(t) \in DOMAIN ops[t] BY <3>1, <4>1, AcceptIs
      <4>3. Fired(t, ops[t][Selection(t)]) BY <1>0, <3>1, <4>2, FireIs DEF Base, WaitsOK
      <4> QED BY <1>7, <2>1, <4>2, <4>3
    <3>2. CASE ~(select[t] >= Operation(1) /\ Handle(t, ops[t][Selection(t)]).ready
                 /\ Fire(t, ops[t][Selection(t)]))
      <4>1. token' = token \/ Token(t, "packet", ops[t][Selection(t)], 0)
        BY <2>5, <3>2, Zenon DEF Accept
      <4> QED BY <2>2, <2>3, <4>1
    <3> QED BY <3>1, <3>2
  <2> QED BY <1>7, <2>4, <2>5
<1>8. CASE Pause(t)
  <2>1. pc[t] = "pause" BY <1>8 DEF Pause
  <2>2. token' = token \/ Token(t, "packet", Mine(t), 0) BY <1>8 DEF Pause
  <2> QED BY <1>0, <1>5, <2>1, <2>2 DEF Token, CallTyped
<1>9. CASE CompleteSlot(t)
  <2>1. Return(t, TRUE) \/ Goto(t, "wake") BY <1>9 DEF CompleteSlot
  <2> QED BY <1>0, <1>2, <1>6, <2>1 DEF Goto, CallTyped
<1>10. CASE Nothing(t) \/ CompleteClosed(t) \/ Wake(t) \/ CompletePacket(t) \/ CompleteTime(t)
  BY <1>6, <1>10 DEF Nothing, CompleteClosed, Wake, CompletePacket, CompleteTime
<1>11. CASE Disconnect(t) \/ DisconnectSenders(t) \/ DisconnectReceivers(t)
  <2>1. pc'[t] \in {"idle", "wakeSenders", "wakeReceivers"}
    BY <1>0, <1>11 DEF Disconnect, DisconnectSenders, DisconnectReceivers, Goto, CallTyped
  <2> QED BY <1>2, <2>1
<1>12. CASE \/ StartCall(t) \/ Sleep(t) \/ Snapshot(t) \/ Compare(t) \/ RegisterOp(t) \/ Check(t)
            \/ Abort(t) \/ Selected(t) \/ Wait(t) \/ UnregisterOp(t) \/ Late(t)
  <2>1. token' = token /\ pc[t] \notin {"complete", "unpause"}
    BY <1>12 DEF StartCall, Sleep, Snapshot, Compare, RegisterOp, Check, Abort, Selected, Wait,
                 UnregisterOp, Late
  <2> QED BY <1>5, <2>1
<1> QED BY <1>3, <1>4, <1>7, <1>8, <1>9, <1>10, <1>11, <1>12 DEF Step

\* No step makes it untrue: a drained channel takes no message, and a side that is gone gets no handle.
LEMMA StepGone ==
  ASSUME Base, QueuesOK, NEW t \in Threads, Step(t), NEW o \in Ops, o.chan \in Counted, Gone(o)
  PROVE  Gone(o)'
<1>0. SharedTyped /\ o.chan \in Channels BY DEF Base, Typed, Counted
<1>1. handles' = handles /\ disconnected'[o.chan] BY <1>0, StepHandles, StepShared DEF Grows, Gone
<1>2. CASE UNCHANGED <<head, tail>> BY <1>1, <1>2 DEF Gone
<1>3. ASSUME NEW p \in Ops, Fired(t, p), ~(UNCHANGED <<head, tail>>), o.side = "recv"
      PROVE  head'[o.chan] = tail'[o.chan]
  <2>0. p.chan \in Channels BY OpIs
  <2>1. CASE p.chan # o.chan
    <3>1. head'[o.chan] = head[o.chan] /\ tail'[o.chan] = tail[o.chan]
      BY <1>0, <1>3, <2>0, <2>1 DEF Fired, SharedTyped, channelVars
    <3> QED BY <1>3, <3>1 DEF Gone
  <2>2. CASE p.chan = o.chan
    <3>1. p.chan \notin Timers BY <2>2 DEF Timers, Counted
    <3>2. ~Handle(t, p).closed /\ Flavor[p.chan] \in {"array", "list"}
      BY <1>3, <3>1, Zenon DEF Fired, channelVars
    <3>3. CASE p.side = "send"
      <4>1. Handle(t, p).closed <=> disconnected[p.chan] BY <1>0, <3>2, <3>3, HandleIs
      <4> QED BY <2>2, <3>2, <4>1 DEF Gone
    <3>4. CASE p.side = "recv"
      <4>1. Handle(t, p).closed <=> head[p.chan] = tail[p.chan] /\ disconnected[p.chan]
        BY <1>0, <3>2, <3>4, HandleIs
      <4> QED BY <1>3, <2>2, <3>2, <4>1 DEF Gone
    <3> QED BY <3>3, <3>4, OpIs
  <2> QED BY <2>1, <2>2
<1>4. CASE CompletePacket(t) BY <1>2, <1>4 DEF CompletePacket, channelVars
<1> QED BY <1>1, <1>2, <1>3, <1>4, StepShape DEF Gone, channelVars

LEMMA DrainedStep ==
  ASSUME Base, HInv, QueuesOK, ClosedMeansDrained, [Next]_vars
  PROVE  ClosedMeansDrained'
<1>0. Typed /\ CallTyped /\ SharedTyped /\ CallsOK BY DEF Base, Typed
<1>1. ASSUME NEW u \in Threads, token[u].kind = "closed"
      PROVE  /\ Gone(token[u].op) /\ token[u].op.chan \in Counted /\ pc[u] = "complete"
             /\ \E k \in DOMAIN ops[u] : token[u].op = ops[u][k] /\ ops[u][k] \in Ops
  <2>1. token[u].op.chan \in Counted /\ pc[u] = "complete"
    BY <1>0, <1>1 DEF CallsOK, CallOK, TokenOK, Dropping
  <2>2. \E k \in DOMAIN ops[u] : token[u].op = ops[u][k]
    BY <1>0, <2>1 DEF CallsOK, CallOK, TokenOK
  <2>3. \A k \in DOMAIN ops[u] : ops[u][k] \in Ops
    <3>1. ops[u] \in Seq(Ops) BY <1>0 DEF CallTyped
    <3>2. DOMAIN ops[u] = 1 .. Len(ops[u]) BY <3>1, LenProperties
    <3> QED BY <3>1, <3>2, ElementOfSeq
  <2>4. Gone(token[u].op) BY <1>1 DEF ClosedMeansDrained, Gone
  <2> QED BY <2>1, <2>2, <2>3, <2>4
<1>2. ASSUME UNCHANGED <<head, tail, token, disconnected>>,
             \A u \in Threads : token[u].kind = "closed" =>
               LET o == token[u].op IN
               handles[o.chan][Opposite(o.side)] = 0 => handles'[o.chan][Opposite(o.side)] = 0
      PROVE  ClosedMeansDrained'
  BY <1>2 DEF ClosedMeansDrained
<1>3. CASE UNCHANGED vars BY <1>2, <1>3 DEF vars, channelVars, handleVars
<1>4. ASSUME NEW t \in Threads, Expire(t) PROVE ClosedMeansDrained'
  BY <1>2, <1>4 DEF Expire, channelVars, handleVars
<1>5. ASSUME NEW c \in Channels, TimerFires(c) PROVE ClosedMeansDrained'
  BY <1>2, <1>5 DEF TimerFires, handleVars
<1>6. ASSUME NEW t \in Threads, Step(t) PROVE ClosedMeansDrained'
  <2> SUFFICES ASSUME NEW u \in Threads, token'[u].kind = "closed" PROVE Gone(token[u].op)'
    BY DEF ClosedMeansDrained, Gone
  <2>1. Own(t) BY <1>6, StepOwn
  <2>2. CASE u # t
    <3>1. token'[u] = token[u] BY <2>1, <2>2 DEF Own
    <3> DEFINE o == token[u].op
    <3>2. o \in Ops /\ o.chan \in Counted /\ Gone(o) BY <1>1, <3>1
    <3>3. PICK p \in Ops : p = o BY <3>2
    <3>4. Gone(p)' BY <1>6, <3>2, <3>3, StepGone
    <3> QED BY <3>1, <3>3, <3>4 DEF Gone
  <2>3. CASE u = t
    <3>1. ASSUME NEW o \in Ops, Gone(o), token'[u].op = o,
                 UNCHANGED <<channelVars, handles, disconnected>>
          PROVE  Gone(token[u].op)'
      BY <3>1 DEF Gone, channelVars
    <3>2. CASE pc[t] = "unpause" /\ select[t] = Disconnected /\ token'[t].op = Mine(t)
               /\ UNCHANGED <<channelVars, handles, disconnected>>
      <4>1. Mine(t) \in Ops /\ i[t] \in DOMAIN ops[t] BY <1>0, <3>2, MineIs DEF Listless
      <4>2. disconnected[Mine(t).chan] /\ Flavor[Mine(t).chan] = "zero"
        BY <3>2 DEF Base, WaitsOK, SelectedOK
      <4>3. Mine(t).chan \in Counted BY <4>1, <4>2, OpIs
      <4>4. Mine(t) = ops[t][i[t]] BY DEF Mine
      <4>5. handles[Mine(t).chan][Opposite(Mine(t).side)] = 0
        BY <4>1, <4>2, <4>3, <4>4, OtherSideGone
      <4>6. head[Mine(t).chan] = tail[Mine(t).chan] BY <4>2, <4>3 DEF QueuesOK
      <4>7. Gone(Mine(t)) BY <4>2, <4>5, <4>6 DEF Gone
      <4> QED BY <2>3, <3>1, <3>2, <4>1, <4>7
    <3>3. ASSUME NEW o \in Ops, Handle(t, o).closed, token'[t].op = o,
                 UNCHANGED <<channelVars, handles, disconnected>>,
                 \E k \in DOMAIN ops[t] : o = ops[t][k]
          PROVE  Gone(token[u].op)'
      <4>1. /\ o.chan \in Counted /\ disconnected[o.chan]
            /\ o.side = "recv" => head[o.chan] = tail[o.chan]
        BY <1>0, <3>3, ClosedIs
      <4>2. handles[o.chan][Opposite(o.side)] = 0 BY <3>3, <4>1, OtherSideGone
      <4>3. Gone(o) BY <4>1, <4>2 DEF Gone
      <4> QED BY <2>3, <3>1, <3>3, <4>3
    <3> QED BY <1>6, <2>3, <3>2, <3>3, StepClosed
  <2> QED BY <2>2, <2>3
<1>7. ASSUME NEW t \in Threads, NEW h \in held,
             \/ handles' = handles
             \/ handles' = [handles EXCEPT ![h[2]][h[3]] = @ - 1] /\ h[2] \in Counted
             \/ handles' = [handles EXCEPT ![h[2]][h[3]] = @ + 1] /\ h[2] \in Counted
      PROVE  \A u \in Threads : token[u].kind = "closed" =>
               LET o == token[u].op IN
               handles[o.chan][Opposite(o.side)] = 0 => handles'[o.chan][Opposite(o.side)] = 0
  <2> SUFFICES ASSUME NEW c \in Counted, NEW s \in Sides, handles[c][s] = 0 PROVE handles'[c][s] = 0
    <3>1. \A u \in Threads : token[u].kind = "closed" =>
            token[u].op.chan \in Counted /\ Opposite(token[u].op.side) \in Sides
      BY <1>1 DEF Opposite, Sides
    <3> QED BY <3>1
  <2>1. handles[c][s] = Cardinality(HandlesOf(c, s)) BY DEF HInv, CountsOK
  <2>2. IsFiniteSet(HandlesOf(c, s)) BY FiniteSides DEF HInv
  <2>3. HandlesOf(c, s) = {} BY <2>1, <2>2, FS_EmptySet
  <2>4. ~(h[2] = c /\ h[3] = s) BY <2>3 DEF HandlesOf
  <2> QED BY <1>7, <2>4 DEF HInv, HandlesType, Counted
<1>8. ASSUME NEW t \in Threads, CloneHandle(t) PROVE ClosedMeansDrained'
  <2>1. UNCHANGED <<head, tail, token, disconnected>> BY <1>8 DEF CloneHandle, channelVars
  <2>2. PICK h \in held : \/ handles' = handles
                          \/ handles' = [handles EXCEPT ![h[2]][h[3]] = @ + 1] /\ h[2] \in Counted
    BY <1>8 DEF CloneHandle
  <2> QED BY <1>2, <1>7, <2>1, <2>2
<1>9. ASSUME NEW t \in Threads, DropHandle(t) PROVE ClosedMeansDrained'
  <2>1. UNCHANGED <<head, tail, disconnected>> /\ pc[t] = "idle" BY <1>9 DEF DropHandle, channelVars
  <2>2. PICK h \in held : \/ handles' = handles
                          \/ handles' = [handles EXCEPT ![h[2]][h[3]] = @ - 1] /\ h[2] \in Counted
    BY <1>9 DEF DropHandle
  <2>3. \A u \in Threads : token[u].kind = "closed" =>
               LET o == token[u].op IN
               handles[o.chan][Opposite(o.side)] = 0 => handles'[o.chan][Opposite(o.side)] = 0
    BY <1>7, <2>2
  <2>4. \A u \in Threads : token'[u].kind = "closed" => token'[u] = token[u]
    BY <1>0, <1>9 DEF DropHandle, Token, CallTyped
  <2> QED BY <2>1, <2>3, <2>4 DEF ClosedMeansDrained
<1> QED BY <1>3, <1>4, <1>5, <1>6, <1>8, <1>9 DEF Next

\* An operation answers that its channel is disconnected only when all handles of the other side are
\* gone for good, and a receive only when every message has been taken (channel.rs:622, list.rs:299).
THEOREM DrainedCorrect == Spec => []ClosedMeansDrained
<1>1. Init => Base /\ HInv /\ QueuesOK BY BaseInit, HInit, QueuesInit
<1>2. Init => ClosedMeansDrained BY DEF Init, ClosedMeansDrained, NoToken
<1>3. /\ Base /\ HInv /\ QueuesOK /\ ClosedMeansDrained /\ [Next]_vars
      => (Base /\ HInv /\ QueuesOK /\ ClosedMeansDrained)'
  BY BaseStep, HStep, QueuesStep, DrainedStep
<1> QED BY <1>1, <1>2, <1>3, PTL DEF Spec
-------------------------------------------------------------------------------
(* The pairs. *)

\* Nobody selects a thread that is paired.
LEMMA PairedLeft ==
  ASSUME Base, NEW t \in Threads, NEW v \in Threads \ {t}, Mild(t), PairedOK(v)
  PROVE  select'[v] = select[v]
<1>2. select[v] \in Nat BY DEF Base, Typed, SharedTyped
<1>3. ASSUME select[v] = Waiting, NEW c \in Channels, NEW s \in Sides, NEW n \in Nat,
             Entry(v, n) \in Range(entries[c][s])
      PROVE  FALSE
  <2>1. pc[v] \in Registering \cup {"pause", "unpause"} BY <1>3, EntryIs
  <2> QED BY <1>3, <2>1 DEF PairedOK, Waiting, Operation, Registering
<1>4. ~Taken(v) /\ ~Cut(v) BY <1>3 DEF Taken, Cut
<1> QED BY <1>4 DEF Mild, Left

\* Nor does a step of another thread change what it is bound to.
LEMMA PairedOther ==
  ASSUME Base, NEW t \in Threads, NEW v \in Threads \ {t}, Mild(t), Own(t), PairedOK(v)
  PROVE  PairedOK(v)' /\ Bound(v)' = Bound(v)
<1>2. select'[v] = select[v] BY PairedLeft
<1>3. /\ pc'[v] = pc[v] /\ i'[v] = i[v] /\ ops'[v] = ops[v] /\ token'[v] = token[v]
  BY DEF Own
<1>4. Bound(v)' = Bound(v) BY <1>2, <1>3 DEF Bound, Mine, Selection
<1>5. Begun(v)' <=> Begun(v) BY <1>3 DEF Begun
<1> QED BY <1>2, <1>3, <1>4, <1>5 DEF PairedOK

\* A step that pairs nobody: its thread is at no end of a pair, or stays at its end.
LEMMA PairsStay ==
  ASSUME Base, PeersOK, NEW t \in Threads, Mild(t), Own(t), peer' = peer,
         peer[t] = NoThread \/ (PairedOK(t)' /\ Bound(t)' = Bound(t))
  PROVE  PeersOK'
<1> SUFFICES ASSUME NEW v \in Threads, NEW u \in Threads, peer[v] = u
             PROVE  /\ peer[u] = v /\ u # v /\ PairedOK(v)'
                    /\ Bound(v)'.chan = Bound(u)'.chan
                    /\ Bound(v)'.side = Opposite(Bound(u)'.side)
  BY DEF PeersOK, PeerOK, Opposite
<1>1. /\ peer[u] = v /\ u # v /\ PairedOK(v)
      /\ Bound(v).chan = Bound(u).chan /\ Bound(v).side = Opposite(Bound(u).side)
  BY DEF PeersOK, PeerOK
<1>2. PairedOK(u) BY <1>1 DEF PeersOK, PeerOK
<1>3. peer[u] # NoThread /\ peer[v] # NoThread BY <1>1, SelectAssumption
<1>4. PairedOK(v)' /\ Bound(v)' = Bound(v) BY <1>1, <1>3, PairedOther
<1>5. Bound(u)' = Bound(u) BY <1>2, <1>3, PairedOther
<1> QED BY <1>1, <1>4, <1>5

\* A message has changed hands.
LEMMA PairEnds ==
  ASSUME Base, PeersOK, NEW t \in Threads, Mild(t), Own(t), peer[t] # NoThread,
         peer' = [peer EXCEPT ![t] = NoThread, ![peer[t]] = NoThread]
  PROVE  PeersOK'
<1>0. peer \in [Threads -> Threads \cup {NoThread}] /\ NoThread \notin Threads
  BY SelectAssumption DEF Base, Typed, SharedTyped
<1> SUFFICES ASSUME NEW v \in Threads, NEW u \in Threads, peer'[v] = u
             PROVE  /\ peer'[u] = v /\ u # v /\ PairedOK(v)'
                    /\ Bound(v)'.chan = Bound(u)'.chan
                    /\ Bound(v)'.side = Opposite(Bound(u)'.side)
  BY DEF PeersOK, PeerOK, Opposite
<1>1. v # t /\ v # peer[t] /\ peer[v] = u BY <1>0
<1>2. /\ peer[u] = v /\ u # v /\ PairedOK(v)
      /\ Bound(v).chan = Bound(u).chan /\ Bound(v).side = Opposite(Bound(u).side)
  BY <1>1 DEF PeersOK, PeerOK
<1>3. PairedOK(u) BY <1>2 DEF PeersOK, PeerOK
<1>4. peer[peer[t]] = t BY <1>0 DEF PeersOK, PeerOK
<1>5. u # t /\ u # peer[t] BY <1>1, <1>2, <1>4
<1>6. peer'[u] = v BY <1>0, <1>2, <1>5
<1>7. PairedOK(v)' /\ Bound(v)' = Bound(v) BY <1>1, <1>2, PairedOther
<1>8. Bound(u)' = Bound(u) BY <1>3, <1>5, PairedOther
<1> QED BY <1>2, <1>6, <1>7, <1>8

\* Two threads that were at no end of a pair have met.
LEMMA PairBegins ==
  ASSUME Base, PeersOK, NEW t \in Threads, NEW w \in Threads, w # t, Mild(t), Own(t),
         peer[t] = NoThread, peer[w] = NoThread,
         peer' = [peer EXCEPT ![t] = w, ![w] = t],
         PairedOK(t)', PairedOK(w)',
         Bound(t)'.chan = Bound(w)'.chan, Bound(t)'.side = Opposite(Bound(w)'.side),
         Bound(w)'.side = Opposite(Bound(t)'.side)
  PROVE  PeersOK'
<1>0. peer \in [Threads -> Threads \cup {NoThread}] /\ NoThread \notin Threads
  BY SelectAssumption DEF Base, Typed, SharedTyped
<1>a. peer'[t] = w /\ peer'[w] = t BY <1>0
<1> SUFFICES ASSUME NEW v \in Threads, NEW u \in Threads, peer'[v] = u
             PROVE  /\ peer'[u] = v /\ u # v /\ PairedOK(v)'
                    /\ Bound(v)'.chan = Bound(u)'.chan
                    /\ Bound(v)'.side = Opposite(Bound(u)'.side)
  BY DEF PeersOK, PeerOK, Opposite
<1>1. CASE v = t BY <1>a, <1>1
<1>2. CASE v = w BY <1>a, <1>2
<1>3. CASE v # t /\ v # w
  <2>1. peer[v] = u BY <1>0, <1>3
  <2>2. /\ peer[u] = v /\ u # v /\ PairedOK(v)
        /\ Bound(v).chan = Bound(u).chan /\ Bound(v).side = Opposite(Bound(u).side)
    BY <2>1 DEF PeersOK, PeerOK
  <2>3. PairedOK(u) BY <2>2 DEF PeersOK, PeerOK
  <2>4. u # t /\ u # w BY <1>0, <2>2
  <2>5. peer'[u] = v BY <1>0, <2>2, <2>4
  <2>6. PairedOK(v)' /\ Bound(v)' = Bound(v) BY <1>3, <2>2, PairedOther
  <2>7. Bound(u)' = Bound(u) BY <2>3, <2>4, PairedOther
  <2> QED BY <2>2, <2>5, <2>6, <2>7
<1> QED BY <1>1, <1>2, <1>3

\* A thread that is paired goes on to its end of the pair and nowhere else.
LEMMA StepPaired ==
  ASSUME Base, NEW t \in Threads, Step(t), PairedOK(t), peer[t] # NoThread
  PROVE  \/ peer' = peer /\ PairedOK(t)' /\ Bound(t)' = Bound(t)
         \/ peer' = [peer EXCEPT ![t] = NoThread, ![peer[t]] = NoThread]
<1>0. /\ Typed /\ CallTyped /\ CallsOK /\ PlaceOK(t) /\ TokenOK(t) /\ select[t] \in Nat
      /\ select \in [Threads -> Nat]
  BY DEF Base, Typed, SharedTyped, CallsOK, CallOK
<1>1. CASE RegisterOp(t) \/ Check(t) \/ Abort(t) \/ Selected(t) \/ Wait(t) \/ UnregisterOp(t)
  <2>1. pc[t] \in Registering
    BY <1>1 DEF RegisterOp, Check, Abort, Selected, Wait, UnregisterOp, Registering
  <2>2. Begun(t) /\ select[t] >= Operation(1) /\ select[t] # Waiting
    BY <1>0, <2>1 DEF PairedOK, Operation, Waiting
  <2>3. UNCHANGED <<ops, token, peer>>
    BY <1>1 DEF RegisterOp, Check, Abort, Selected, Wait, UnregisterOp, callVars, waitVars
  <2>4. select'[t] = select[t] /\ pc'[t] \in {"check", "abort", "selected", "unregister", "accept"}
    <3>1. CASE RegisterOp(t)
      <4>1. i[t] # 1 BY <2>2, <3>1 DEF RegisterOp, Begun
      <4> QED BY <1>0, <3>1, <4>1 DEF RegisterOp, Goto, CallTyped
    <3>2. CASE Check(t) BY <1>0, <3>2 DEF Check, Goto, CallTyped, waitVars
    <3>3. CASE Abort(t) BY <1>0, <2>2, <3>3 DEF Abort, Goto, CallTyped
    <3>4. CASE Selected(t) BY <1>0, <2>2, <3>4 DEF Selected, Goto, CallTyped, waitVars
    <3>5. CASE Wait(t) BY <1>0, <2>2, <3>5 DEF Wait, Goto, CallTyped
    <3>6. CASE UnregisterOp(t) BY <1>0, <3>6 DEF UnregisterOp, Goto, CallTyped
    <3> QED BY <1>1, <3>1, <3>2, <3>3, <3>4, <3>5, <3>6
  <2>5. Bound(t)' = Bound(t)
    <3>1. select[t] # Operation(0) /\ token[t].kind = "none"
      BY <1>0, <2>1, <2>2 DEF Operation, TokenOK, Registering, Dropping
    <3>2. Bound(t) = ops[t][Selection(t)] BY <2>2, <3>1 DEF Bound
    <3>3. select'[t] # Operation(0) /\ select'[t] >= Operation(1) /\ token'[t].kind # "packet"
      BY <2>2, <2>3, <2>4, <3>1
    <3>4. Bound(t)' = ops'[t][Selection(t)'] BY <3>3 DEF Bound
    <3>5. Selection(t)' = Selection(t) BY <2>4 DEF Selection
    <3> QED BY <2>3, <3>2, <3>4, <3>5
  <2>6. Begun(t)' BY <2>4 DEF Begun, Registering
  <2> QED BY <2>2, <2>3, <2>4, <2>5, <2>6 DEF PairedOK, Registering
<1>2. CASE Pause(t)
  <2>1. pc[t] = "pause" /\ peer' = peer BY <1>2 DEF Pause
  <2>2. select[t] = Operation(0) BY <2>1 DEF PairedOK
  <2>3. Token(t, "packet", Mine(t), 0) /\ Goto(t, "complete")
    BY <1>2, <2>2 DEF Pause, Operation, Waiting, Disconnected
  <2>4. pc'[t] = "complete" /\ token'[t].kind = "packet" /\ token'[t].op = Mine(t)
    BY <1>0, <2>3 DEF Token, Goto, CallTyped
  <2>5. Bound(t)' = Mine(t) BY <2>4 DEF Bound
  <2>6. Bound(t) = Mine(t) BY <1>0, <2>1, <2>2 DEF Bound, TokenOK, Dropping
  <2> QED BY <2>1, <2>4, <2>5, <2>6 DEF PairedOK, Registering
<1>3. CASE Accept(t)
  <2>1. pc[t] = "accept" BY <1>3 DEF Accept
  <2>2. select[t] >= Operation(1) BY <2>1 DEF PairedOK
  <2> DEFINE o == ops[t][Selection(t)]
  <2>3. Selection(t) \in DOMAIN ops[t] /\ o \in Ops BY <2>1, <2>2, AcceptIs
  <2>4. Bound(t) = o
    BY <1>0, <2>1, <2>2 DEF Bound, TokenOK, Dropping, Operation
  <2>5. Flavor[o.chan] = "zero" BY <2>4 DEF PairedOK
  <2>6. ~Plain(mode[t]) BY <1>0, <2>3, <2>5 DEF PlaceOK
  <2>7. Token(t, "packet", o, 0) /\ Goto(t, "complete") /\ peer' = peer
    <3> HIDE DEF o
    <3>1. ~(select[t] < Operation(1)) BY <1>0, <2>2 DEF Operation
    <3> QED BY <1>3, <2>5, <2>6, <3>1 DEF Accept, o, waitVars
  <2> HIDE DEF o
  <2>8. pc'[t] = "complete" /\ token'[t].kind = "packet" /\ token'[t].op = o
    BY <1>0, <2>7 DEF Token, Goto, CallTyped
  <2>9. Bound(t)' = o BY <2>8 DEF Bound
  <2> QED BY <2>4, <2>5, <2>7, <2>8, <2>9 DEF PairedOK, Registering
<1>4. CASE CompletePacket(t)
  BY <1>4 DEF CompletePacket
<1>5. CASE \/ StartCall(t) \/ Sleep(t) \/ Snapshot(t) \/ Try(t) \/ Compare(t) \/ Retry(t) \/ Unpause(t)
           \/ Late(t) \/ Nothing(t) \/ Wake(t) \/ Disconnect(t) \/ DisconnectSenders(t)
           \/ DisconnectReceivers(t)
  <2>1. pc[t] \in {"idle", "sleep", "snapshot", "try", "compare", "retry", "unpause", "late",
                   "nothing", "wake", "disconnect", "wakeSenders", "wakeReceivers"}
    BY <1>5 DEF StartCall, Sleep, Snapshot, Try, Compare, Retry, Unpause, Late, Nothing, Wake,
                Disconnect, DisconnectSenders, DisconnectReceivers
  <2> QED BY <2>1 DEF PairedOK, Registering
<1>6. CASE CompleteClosed(t) \/ CompleteSlot(t) \/ CompleteTime(t)
  BY <1>6 DEF CompleteClosed, CompleteSlot, CompleteTime, PairedOK
<1> QED BY <1>1, <1>2, <1>3, <1>4, <1>5, <1>6 DEF Step

\* The thread whose entry is taken is at the other end.
LEMMA FiredPairs ==
  ASSUME Base, PeersOK, NEW t \in Threads, NEW o \in Ops, Mild(t), Own(t), peer[t] = NoThread,
         pc'[t] = "complete", token'[t].op = o, token'[t].kind = "packet", Flavor[o.chan] = "zero",
         NEW e \in Item, Woken(t, Op(o.chan, Opposite(o.side)), e),
         peer' = [peer EXCEPT ![t] = e.thread, ![e.thread] = t]
  PROVE  PeersOK'
<1> DEFINE c == o.chan
           s == Opposite(o.side)
<1>0. /\ Typed /\ CallTyped /\ CallsOK /\ c \in Channels /\ s \in Sides /\ (o.side = "send" \/ o.side = "recv")
      /\ peer \in [Threads -> Threads \cup {NoThread}] /\ select \in [Threads -> Nat]
  BY OpIs DEF Base, Typed, SharedTyped, Opposite, Sides
<1>1. PICK u \in Threads, n \in Nat : e = Entry(u, n) BY ItemIs
<1>2. e.thread = u /\ e.oper = n BY <1>1, EntryItem
<1>3. Op(c, s).chan = c /\ Op(c, s).side = s BY DEF Op
<1>4. /\ e \in Range(entries[c][s]) /\ u # t /\ select[u] = Waiting
      /\ select' = [select EXCEPT ![u] = Operation(n)]
  BY <1>2, <1>3 DEF Woken, Items
<1>5. select'[u] = Operation(n) BY <1>0, <1>4
<1>6. \/ n = 0 /\ pc[u] \in {"pause", "unpause"} /\ Mine(u) = Op(c, s)
      \/ pc[u] \in Registering /\ n \in 1 .. registered[u] /\ ops[u][n] = Op(c, s)
  BY <1>0, <1>1, <1>4, EntryIs
<1>7. pc[u] \in Registering \cup {"pause"}
  BY <1>4, <1>6 DEF Base, WaitsOK, SelectedOK, Waiting, Aborted, Disconnected
<1>8. token[u].kind = "none" /\ PlaceOK(u)
  BY <1>0, <1>7 DEF CallsOK, CallOK, TokenOK, Dropping, Registering
<1>9. /\ pc'[u] = pc[u] /\ i'[u] = i[u] /\ ops'[u] = ops[u] /\ token'[u] = token[u]
  BY <1>4 DEF Own
<1>10. peer[u] = NoThread
  <2>1. ~PairedOK(u) BY <1>4, <1>7 DEF PairedOK, Operation, Waiting
  <2>2. peer[u] \notin Threads BY <2>1 DEF PeersOK, PeerOK
  <2> QED BY <1>0, <2>2
<1>11. Bound(t)' = o BY DEF Bound
<1>12. CASE n = 0 /\ pc[u] = "pause" /\ Mine(u) = Op(c, s)
  <2>1. Bound(u)' = Op(c, s) BY <1>5, <1>8, <1>9, <1>12 DEF Bound, Mine
  <2>2. PairedOK(t)' BY <1>11 DEF PairedOK, Registering
  <2>3. PairedOK(u)' BY <1>3, <1>5, <1>9, <1>12, <2>1 DEF PairedOK, Registering
  <2> HIDE DEF c, s
  <2>4. Bound(u)'.chan = c /\ Bound(u)'.side = s BY <1>3, <2>1
  <2>5. Bound(t)'.chan = c /\ Bound(t)'.side = Opposite(s) /\ s = Opposite(Bound(t)'.side)
    BY <1>0, <1>11 DEF c, s, Opposite
  <2> QED BY <1>0, <1>2, <1>4, <1>10, <2>2, <2>3, <2>4, <2>5, PairBegins
<1>13. CASE pc[u] \in Registering /\ n \in 1 .. registered[u] /\ ops[u][n] = Op(c, s)
  <2>0. n # 0 /\ registered[u] \in Nat /\ i[u] \in Nat BY <1>0, <1>13 DEF CallTyped
  <2>1. select'[u] # Operation(0) /\ select'[u] >= Operation(1) /\ Selection(u)' = n
    BY <1>5, <2>0 DEF Operation, Selection
  <2>2. Bound(u)' = ops'[u][n] BY <1>8, <1>9, <2>1 DEF Bound
  <2>3. Bound(u)' = Op(c, s) BY <1>9, <1>13, <2>2
  <2>4. Begun(u)
    <3>1. pc[u] = "register" => registered[u] + 1 = i[u] BY <1>8 DEF PlaceOK
    <3>2. ~(pc[u] = "register" /\ i[u] = 1) BY <1>13, <2>0, <3>1
    <3> QED BY <1>13, <3>2 DEF Begun
  <2>5. Begun(u)' BY <1>9, <2>4 DEF Begun
  <2>6. PairedOK(t)' BY <1>11 DEF PairedOK, Registering
  <2>7. PairedOK(u)' BY <1>3, <1>9, <1>13, <2>1, <2>3, <2>5 DEF PairedOK, Registering
  <2> HIDE DEF c, s
  <2>8. Bound(u)'.chan = c /\ Bound(u)'.side = s BY <1>3, <2>3
  <2>9. Bound(t)'.chan = c /\ Bound(t)'.side = Opposite(s) /\ s = Opposite(Bound(t)'.side)
    BY <1>0, <1>11 DEF c, s, Opposite
  <2> QED BY <1>0, <1>2, <1>4, <1>10, <2>6, <2>7, <2>8, <2>9, PairBegins
<1> QED BY <1>6, <1>7, <1>12, <1>13 DEF Registering

LEMMA StepPeers ==
  ASSUME Base, PeersOK, NEW t \in Threads, Step(t)
  PROVE  PeersOK'
<1>0. /\ Mild(t) /\ Own(t) /\ peer \in [Threads -> Threads \cup {NoThread}] /\ NoThread \notin Threads
  BY StepMild, StepOwn, SelectAssumption DEF Base, Typed, SharedTyped
<1>1. CASE peer[t] # NoThread
  <2>1. PairedOK(t) BY <1>0, <1>1 DEF PeersOK, PeerOK
  <2> QED BY <1>0, <1>1, <2>1, StepPaired, PairsStay, PairEnds
<1>2. CASE peer[t] = NoThread
  <2>1. CASE peer' = peer BY <1>0, <1>2, <2>1, PairsStay
  <2>2. CASE CompletePacket(t)
    <3>1. peer' = peer \/ peer' = [peer EXCEPT ![t] = NoThread, ![NoThread] = NoThread]
      BY <1>2, <2>2 DEF CompletePacket
    <3>2. [peer EXCEPT ![t] = NoThread, ![NoThread] = NoThread] = peer BY <1>0, <1>2
    <3> QED BY <2>1, <3>1, <3>2
  <2>3. ASSUME NEW o \in Ops, Fired(t, o) PROVE PeersOK'
    <3>1. CASE peer' # peer
      <4>1. /\ pc'[t] = "complete" /\ token'[t].op = o
            /\ Flavor[o.chan] = "zero" /\ token'[t].kind = "packet"
            /\ \E e \in Item :
                 /\ Woken(t, Op(o.chan, Opposite(o.side)), e)
                 /\ peer' = [peer EXCEPT ![t] = e.thread, ![e.thread] = t]
        BY <2>3, <3>1, Zenon DEF Fired
      <4> QED BY <1>0, <1>2, <4>1, FiredPairs
    <3> QED BY <2>1, <3>1
  <2> QED BY <2>1, <2>2, <2>3, StepShape
<1> QED BY <1>1, <1>2

LEMMA PeersStep ==
  ASSUME Base, PeersOK, [Next]_vars
  PROVE  PeersOK'
<1>0. CallTyped /\ CallsOK BY DEF Base, Typed
<1>1. ASSUME UNCHANGED <<waitVars, i, ops>>,
             \A v \in Threads : (pc'[v] = pc[v] /\ token'[v] = token[v]) \/ pc[v] = "idle"
      PROVE  PeersOK'
  <2> SUFFICES ASSUME NEW v \in Threads, NEW u \in Threads, peer[v] = u
               PROVE  /\ peer[u] = v /\ u # v /\ PairedOK(v)'
                      /\ Bound(v)'.chan = Bound(u)'.chan
                      /\ Bound(v)'.side = Opposite(Bound(u)'.side)
    BY <1>1 DEF PeersOK, PeerOK, Opposite, waitVars
  <2>1. /\ peer[u] = v /\ u # v /\ PairedOK(v)
        /\ Bound(v).chan = Bound(u).chan /\ Bound(v).side = Opposite(Bound(u).side)
    BY DEF PeersOK, PeerOK
  <2>2. PairedOK(u) BY <2>1 DEF PeersOK, PeerOK
  <2>3. /\ pc'[v] = pc[v] /\ token'[v] = token[v] /\ pc'[u] = pc[u] /\ token'[u] = token[u]
    BY <1>1, <2>1, <2>2 DEF PairedOK, Registering
  <2>4. Bound(v)' = Bound(v) /\ Bound(u)' = Bound(u)
    BY <1>1, <2>3 DEF Bound, Mine, Selection, waitVars
  <2>5. Begun(v)' <=> Begun(v) BY <1>1, <2>3 DEF Begun
  <2>6. PairedOK(v)' BY <1>1, <2>1, <2>3, <2>4, <2>5 DEF PairedOK, waitVars
  <2> QED BY <2>1, <2>4, <2>6
<1>2. CASE UNCHANGED vars BY <1>1, <1>2 DEF vars, callVars
<1>3. ASSUME NEW t \in Threads, Expire(t) PROVE PeersOK' BY <1>1, <1>3 DEF Expire, callVars
<1>4. ASSUME NEW c \in Channels, TimerFires(c) PROVE PeersOK' BY <1>1, <1>4 DEF TimerFires, callVars
<1>5. ASSUME NEW t \in Threads, CloneHandle(t) PROVE PeersOK' BY <1>1, <1>5 DEF CloneHandle, callVars
<1>6. ASSUME NEW t \in Threads, DropHandle(t) PROVE PeersOK'
  <2>1. UNCHANGED <<waitVars, i, ops>> /\ pc[t] = "idle" BY <1>6 DEF DropHandle, callVars
  <2>2. \A v \in Threads : v # t => pc'[v] = pc[v] /\ token'[v] = token[v]
    BY <1>0, <1>6 DEF DropHandle, Token, Goto, CallTyped
  <2> QED BY <1>1, <2>1, <2>2
<1>7. ASSUME NEW t \in Threads, Step(t) PROVE PeersOK' BY <1>7, StepPeers
<1> QED BY <1>2, <1>3, <1>4, <1>5, <1>6, <1>7 DEF Next

LEMMA PeersMatch == Base /\ PeersOK => PairsMatch
<1> SUFFICES ASSUME Base, PeersOK, NEW t \in Threads, peer[t] # NoThread
             PROVE  /\ peer[peer[t]] = t
                    /\ pc[t] \notin {"idle", "nothing", "late", "try", "retry"}
                    /\ Bound(t).chan = Bound(peer[t]).chan
                    /\ Bound(t).side = Opposite(Bound(peer[t]).side)
  BY DEF PairsMatch
<1>1. PICK u \in Threads : peer[t] = u BY DEF Base, Typed, SharedTyped
<1>2. /\ peer[u] = t /\ PairedOK(t)
      /\ Bound(t).chan = Bound(u).chan /\ Bound(t).side = Opposite(Bound(u).side)
  BY <1>1 DEF PeersOK, PeerOK
<1> QED BY <1>1, <1>2 DEF PairedOK, Registering

\* Two threads that a zero-capacity channel has paired are at the two ends of that channel, and
\* neither turns to anything else before the message has changed hands: no deadline, pause,
\* disconnection or other operation of the same selection gets between them (zero.rs:144, select.rs:276).
THEOREM PairsCorrect == Spec => []PairsMatch
<1>1. Init => Base BY BaseInit
<1>2. Init => PeersOK BY SelectAssumption DEF Init, PeersOK, PeerOK
<1>3. Base /\ PeersOK /\ [Next]_vars => (Base /\ PeersOK)' BY BaseStep, PeersStep
<1>4. Base /\ PeersOK => PairsMatch BY PeersMatch
<1> QED BY <1>1, <1>2, <1>3, <1>4, PTL DEF Spec
-------------------------------------------------------------------------------
(* An answer that nothing was ready (NothingCorrect).                       *)

\* What a handle answers to a call that does not block, written out.
LevelOf(o) ==
  LET c == o.chan IN
  IF Flavor[c] = "zero" THEN Current
  ELSE IF Flavor[c] = "after" THEN (IF due[c] THEN 1 ELSE 0)
  ELSE IF Flavor[c] = "tick" THEN (IF due[c] THEN head[c] + 1 ELSE head[c])
  ELSE IF Flavor[c] = "never" THEN 0
  ELSE IF o.side = "send" THEN head[c] ELSE tail[c]

ReadyOf(t, o) ==
  LET c == o.chan IN
  \/ Flavor[c] = "zero" /\ (Wakeable(t, c, Opposite(o.side)) # {} \/ disconnected[c])
  \/ Flavor[c] = "after" /\ due[c] /\ head[c] = 0
  \/ Flavor[c] = "tick" /\ due[c]
  \/ Flavor[c] \in {"array", "list"} /\ o.side = "recv" /\ (head[c] # tail[c] \/ disconnected[c])
  \/ Flavor[c] = "array" /\ o.side = "send" /\ (tail[c] # head[c] + Cap[c] \/ disconnected[c])
  \/ Flavor[c] = "list" /\ o.side = "send"

Answers ==
  \A t \in Threads, o \in Ops :
    /\ Handle(t, o).state = LevelOf(o)
    /\ Handle(t, o).ready <=> ReadyOf(t, o)

LEMMA AnswersAre == SharedTyped => Answers
<1> SUFFICES ASSUME SharedTyped, NEW t \in Threads, NEW o \in Ops
             PROVE  Handle(t, o).state = LevelOf(o) /\ (Handle(t, o).ready <=> ReadyOf(t, o))
  BY DEF Answers
<1> DEFINE c == o.chan
<1>1. (o.side = "send" \/ o.side = "recv") /\ (o.side = "send" => c \in Counted)
      /\ Flavor[c] \in {"array", "list", "zero", "after", "tick", "never"}
  BY OpIs DEF Ops
<1>2. CASE Flavor[c] = "zero"
  <2>1. Handle(t, o).ready <=> Wakeable(t, c, Opposite(o.side)) # {} \/ disconnected[c]
    BY <1>2, HandleIs
  <2>2. Handle(t, o) = IF o.side = "send" THEN ZeroSender(t, c) ELSE ZeroReceiver(t, c)
    BY <1>2 DEF Handle, SenderHandle, ReceiverHandle
  <2>3. Handle(t, o).state = Current BY <2>2 DEF ZeroSender, ZeroReceiver
  <2> QED BY <1>2, <2>1, <2>3 DEF LevelOf, ReadyOf
<1>3. CASE Flavor[c] = "array" /\ o.side = "send"
  <2>1. Handle(t, o) = ArraySender(c) BY <1>3 DEF Handle, SenderHandle
  <2>2. ArraySender(c).state = head[c] BY DEF ArraySender
  <2>3. Handle(t, o).ready <=> tail[c] # head[c] + Cap[c] \/ disconnected[c] BY <1>3, HandleIs
  <2> QED BY <1>3, <2>1, <2>2, <2>3 DEF LevelOf, ReadyOf
<1>4. CASE Flavor[c] = "list" /\ o.side = "send"
  <2>1. Handle(t, o) = ListSender(c) BY <1>4 DEF Handle, SenderHandle
  <2>2. ListSender(c).state = head[c] /\ ListSender(c).ready BY DEF ListSender
  <2> QED BY <1>4, <2>1, <2>2 DEF LevelOf, ReadyOf
<1>5. CASE Flavor[c] \in {"array", "list"} /\ o.side = "recv"
  <2>1. Handle(t, o) = ArrayReceiver(c) \/ Handle(t, o) = ListReceiver(c)
    BY <1>5 DEF Handle, ReceiverHandle
  <2>2. ArrayReceiver(c).state = tail[c] /\ ListReceiver(c).state = tail[c]
    BY DEF ArrayReceiver, ListReceiver
  <2>3. Handle(t, o).ready <=> head[c] # tail[c] \/ disconnected[c] BY <1>5, HandleIs
  <2>4. Handle(t, o).state = tail[c] BY <2>1, <2>2
  <2> QED BY <1>5, <2>3, <2>4 DEF LevelOf, ReadyOf
<1>6. CASE Flavor[c] = "after"
  <2>1. o.side = "recv" BY <1>1, <1>6 DEF Counted
  <2>2. Handle(t, o) = AfterReceiver(c) BY <1>6, <2>1 DEF Handle, ReceiverHandle
  <2>3. AfterReceiver(c).state = (IF due[c] THEN 1 ELSE 0)
        /\ (AfterReceiver(c).ready <=> due[c] /\ head[c] = 0)
    BY DEF AfterReceiver
  <2> QED BY <1>6, <2>2, <2>3 DEF LevelOf, ReadyOf
<1>7. CASE Flavor[c] = "tick"
  <2>1. o.side = "recv" BY <1>1, <1>7 DEF Counted
  <2>2. Handle(t, o) = TickReceiver(c) BY <1>7, <2>1 DEF Handle, ReceiverHandle
  <2>3. TickReceiver(c).state = (IF due[c] THEN head[c] + 1 ELSE head[c])
        /\ (TickReceiver(c).ready <=> due[c])
    BY DEF TickReceiver
  <2> QED BY <1>7, <2>2, <2>3 DEF LevelOf, ReadyOf
<1>8. CASE Flavor[c] = "never"
  <2>1. o.side = "recv" BY <1>1, <1>8 DEF Counted
  <2>2. Handle(t, o) = NeverReceiver BY <1>8, <2>1 DEF Handle, ReceiverHandle
  <2>3. NeverReceiver.state = 0 /\ ~NeverReceiver.ready BY DEF NeverReceiver
  <2> QED BY <1>8, <2>2, <2>3 DEF LevelOf, ReadyOf
<1> QED BY <1>1, <1>2, <1>3, <1>4, <1>5, <1>6, <1>7, <1>8

\* The positions only go up, and a timer goes from one message to the next.
Forward ==
  \A c \in Channels :
    /\ head[c] <= head'[c] /\ tail[c] <= tail'[c]
    /\ Flavor[c] = "after" => (due[c] => due'[c])
    /\ Flavor[c] = "tick" =>
         \/ head'[c] = head[c] /\ (due[c] => due'[c])
         \/ head'[c] = head[c] + 1 /\ due[c] /\ ~due'[c]

LEMMA StillForward ==
  ASSUME SharedTyped, UNCHANGED channelVars
  PROVE  Forward
  BY DEF SharedTyped, Forward, channelVars

LEMMA FiredForward ==
  ASSUME Base, NEW t \in Threads, NEW o \in Ops, Fired(t, o)
  PROVE  Forward
<1> DEFINE c == o.chan
<1>0. SharedTyped /\ c \in Channels BY OpIs DEF Base, Typed
<1>1. \A d \in Channels : head[d] \in Nat /\ tail[d] \in Nat /\ due[d] \in BOOLEAN
  BY <1>0 DEF SharedTyped
<1>2. CASE UNCHANGED channelVars BY <1>0, <1>2, StillForward
<1>3. CASE /\ Flavor[c] \in {"array", "list"}
           /\ tail' = [tail EXCEPT ![c] = @ + 1] /\ UNCHANGED <<head, due>>
  <2>1. \A d \in Channels : tail[d] <= tail'[d] BY <1>0, <1>1, <1>3 DEF SharedTyped
  <2> QED BY <1>1, <1>3, <2>1 DEF Forward
<1>4. CASE /\ Flavor[c] \in {"array", "list"}
           /\ head' = [head EXCEPT ![c] = @ + 1] /\ UNCHANGED <<tail, due>>
  <2>1. \A d \in Channels : head[d] <= head'[d] /\ (d # c => head'[d] = head[d])
    BY <1>0, <1>1, <1>4 DEF SharedTyped
  <2> QED BY <1>1, <1>4, <2>1 DEF Forward
<1>5. CASE /\ c \in Timers /\ tail' = tail
           /\ head' = [head EXCEPT ![c] = @ + 1]
           /\ due' = [due EXCEPT ![c] = Flavor[c] = "after"]
  <2>1. \A d \in Channels : head[d] <= head'[d] /\ (d # c => head'[d] = head[d] /\ due'[d] = due[d])
    BY <1>0, <1>1, <1>5 DEF SharedTyped
  <2>2. head'[c] = head[c] + 1 /\ due'[c] = (Flavor[c] = "after") BY <1>0, <1>5 DEF SharedTyped
  <2>3. Flavor[c] = "tick" => due[c]
    <3>1. Answers BY <1>0, AnswersAre
    <3>2. ReadyOf(t, o) BY <3>1 DEF Fired, Answers
    <3> QED BY <3>2 DEF ReadyOf
  <2>4. Flavor[c] = "after" => due'[c] = TRUE BY <2>2
  <2>5. Flavor[c] = "tick" => due'[c] = FALSE BY <2>2
  <2>6. ASSUME NEW d \in Channels
        PROVE  /\ head[d] <= head'[d] /\ tail[d] <= tail'[d]
               /\ Flavor[d] = "after" => (due[d] => due'[d])
               /\ Flavor[d] = "tick" =>
                    \/ head'[d] = head[d] /\ (due[d] => due'[d])
                    \/ head'[d] = head[d] + 1 /\ due[d] /\ ~due'[d]
    <3>1. CASE d = c BY <1>1, <1>5, <2>1, <2>2, <2>3, <2>4, <2>5, <3>1
    <3>2. CASE d # c BY <1>1, <1>5, <2>1, <3>2
    <3> QED BY <3>1, <3>2
  <2> QED BY <2>6 DEF Forward
<1> QED BY <1>2, <1>3, <1>4, <1>5, Zenon DEF Fired, channelVars

LEMMA StepForward ==
  ASSUME Base, NEW t \in Threads, Step(t)
  PROVE  Forward
<1>0. SharedTyped BY DEF Base, Typed
<1>1. CASE CompletePacket(t) BY <1>0, <1>1, StillForward DEF CompletePacket
<1>2. CASE UNCHANGED <<channelVars, peer>> BY <1>0, <1>2, StillForward
<1>3. ASSUME NEW o \in Ops, Fired(t, o) PROVE Forward BY <1>3, FiredForward
<1> QED BY <1>1, <1>2, <1>3, StepShape

LEMMA NextForward ==
  ASSUME Base, [Next]_vars
  PROVE  Forward /\ Grows
<1>0. SharedTyped BY DEF Base, Typed
<1>1. CASE UNCHANGED vars BY <1>0, <1>1, StillForward DEF vars, handleVars, Grows
<1>2. ASSUME NEW t \in Threads, Step(t) PROVE Forward /\ Grows BY <1>2, StepForward, StepShared
<1>3. ASSUME NEW t \in Threads, DropHandle(t) PROVE Forward /\ Grows
  BY <1>0, <1>3, StillForward DEF DropHandle, Grows
<1>4. ASSUME NEW t \in Threads, CloneHandle(t) PROVE Forward /\ Grows
  BY <1>0, <1>4, StillForward DEF CloneHandle, Grows
<1>5. ASSUME NEW t \in Threads, Expire(t) PROVE Forward /\ Grows
  BY <1>0, <1>5, StillForward DEF Expire, handleVars, Grows
<1>6. ASSUME NEW c \in Channels, TimerFires(c) PROVE Forward /\ Grows
  <2>1. UNCHANGED <<head, tail, disconnected>> /\ due' = [due EXCEPT ![c] = TRUE]
    BY <1>6 DEF TimerFires, handleVars
  <2>2. \A d \in Channels : due[d] => due'[d] BY <1>0, <2>1 DEF SharedTyped
  <2>3. \A d \in Channels : head[d] \in Nat /\ tail[d] \in Nat BY <1>0 DEF SharedTyped
  <2> QED BY <2>1, <2>2, <2>3 DEF Forward, Grows
<1> QED BY <1>1, <1>2, <1>3, <1>4, <1>5, <1>6 DEF Next

\* So what state() answers only goes up.
LEMMA LevelUp ==
  ASSUME SharedTyped, SharedTyped', Forward, NEW o \in Ops
  PROVE  LevelOf(o) \in Nat /\ LevelOf(o)' \in Nat /\ LevelOf(o) <= LevelOf(o)'
<1> DEFINE c == o.chan
<1>1. c \in Channels BY OpIs
<1>2. /\ head[c] \in Nat /\ tail[c] \in Nat /\ head'[c] \in Nat /\ tail'[c] \in Nat
      /\ due[c] \in BOOLEAN /\ due'[c] \in BOOLEAN
  BY <1>1 DEF SharedTyped
<1>3. /\ head[c] <= head'[c] /\ tail[c] <= tail'[c]
      /\ Flavor[c] = "after" => (due[c] => due'[c])
      /\ Flavor[c] = "tick" =>
           \/ head'[c] = head[c] /\ (due[c] => due'[c])
           \/ head'[c] = head[c] + 1 /\ due[c] /\ ~due'[c]
  BY <1>1 DEF Forward
<1> QED BY <1>2, <1>3 DEF LevelOf, Current

\* An operation that is not ready does not become so behind the back of its state, unless its
\* channel is disconnected, or has no buffer.
LEMMA NotReadyStays ==
  ASSUME SharedTyped, SharedTyped', QueuesOK, QueuesOK', Forward,
         NEW t \in Threads, NEW o \in Ops, Flavor[o.chan] # "zero",
         ~ReadyOf(t, o), LevelOf(o)' = LevelOf(o), ~disconnected'[o.chan]
  PROVE  ~ReadyOf(t, o)'
<1> DEFINE c == o.chan
<1>1. c \in Channels BY OpIs
<1>2. /\ head[c] \in Nat /\ tail[c] \in Nat /\ head'[c] \in Nat /\ tail'[c] \in Nat
      /\ due[c] \in BOOLEAN /\ due'[c] \in BOOLEAN
  BY <1>1 DEF SharedTyped
<1>3. /\ head[c] <= head'[c] /\ tail[c] <= tail'[c]
      /\ Flavor[c] = "after" => (due[c] => due'[c])
      /\ Flavor[c] = "tick" =>
           \/ head'[c] = head[c] /\ (due[c] => due'[c])
           \/ head'[c] = head[c] + 1 /\ due[c] /\ ~due'[c]
  BY <1>1 DEF Forward
<1>4. ReadyOf(t, o)' <=>
        \/ Flavor[c] = "after" /\ due'[c] /\ head'[c] = 0
        \/ Flavor[c] = "tick" /\ due'[c]
        \/ Flavor[c] \in {"array", "list"} /\ o.side = "recv" /\ head'[c] # tail'[c]
        \/ Flavor[c] = "array" /\ o.side = "send" /\ tail'[c] # head'[c] + Cap[c]
        \/ Flavor[c] = "list" /\ o.side = "send"
  BY DEF ReadyOf
<1>5. CASE Flavor[c] \in {"after", "tick", "never"} BY <1>2, <1>3, <1>4, <1>5 DEF ReadyOf, LevelOf
<1>6. CASE Flavor[c] \in {"array", "list"} /\ o.side = "recv"
  <2>1. head[c] = tail[c] BY <1>6 DEF ReadyOf
  <2>2. tail'[c] = tail[c] BY <1>6 DEF LevelOf
  <2>3. head'[c] <= tail'[c] BY <1>1, <1>6 DEF QueuesOK, Counted
  <2>4. head'[c] = tail'[c] BY <1>2, <1>3, <2>1, <2>2, <2>3
  <2> QED BY <1>4, <1>6, <2>4
<1>7. CASE Flavor[c] = "array" /\ o.side = "send"
  <2>1. tail[c] = head[c] + Cap[c] BY <1>7 DEF ReadyOf
  <2>2. head'[c] = head[c] BY <1>7 DEF LevelOf
  <2>3. tail'[c] <= head'[c] + Cap[c] BY <1>1, <1>7 DEF QueuesOK, Counted
  <2>5. Cap[c] \in Nat BY <1>1, <1>7, SelectAssumption
  <2>4. tail'[c] = head'[c] + Cap[c] BY <1>2, <1>3, <2>1, <2>2, <2>3, <2>5
  <2> QED BY <1>4, <1>7, <2>4
<1>8. CASE Flavor[c] = "list" /\ o.side = "send" BY <1>8 DEF ReadyOf
<1> QED BY <1>5, <1>6, <1>7, <1>8, OpIs
-------------------------------------------------------------------------------
(* The snapshot, and what the steps of others do to it. *)

ScanTyped ==
  /\ states \in [Threads -> Seq(Nat)]
  /\ changed \in [Threads -> BOOLEAN] /\ unready \in [Threads -> BOOLEAN]

\* A step of t that registers the operation it has got to.
Registers(t) ==
  \/ pc[t] = "retry" /\ pc'[t] = "pause"
  \/ pc[t] = "register" /\ Queues(Mine(t))

\* The snapshot of u after a registration of o.
Outdate(u, o) ==
  states'[u] = [k \in DOMAIN states[u] |->
                  IF Flavor[o.chan] = "zero" /\ ops[u][k] = Op(o.chan, Opposite(o.side))
                  THEN Outdated ELSE states[u][k]]

LEMMA RunSelectStates ==
  ASSUME ScanTyped, NEW t \in Threads, NEW list, NEW m, RunSelect(t, list, m)
  PROVE  /\ changed' = changed /\ states'[t] = <<>>
         /\ \A u \in Threads \ {t} : states'[u] = states[u]
  BY DEF ScanTyped, RunSelect

LEMMA ReturnStates ==
  ASSUME ScanTyped, NEW t \in Threads, NEW iterates, Return(t, iterates)
  PROVE  /\ changed' = changed /\ states'[t] = <<>>
         /\ \A u \in Threads \ {t} : states'[u] = states[u]
<1>1. CASE RunSelect(t, ops[t], mode[t]) BY <1>1, RunSelectStates
<1>2. CASE ~RunSelect(t, ops[t], mode[t]) BY <1>2 DEF Return, ScanTyped
<1> QED BY <1>1, <1>2

LEMMA StepStates ==
  ASSUME Base, ScanTyped, NEW t \in Threads, Step(t)
  PROVE  /\ \A u \in Threads \ {t} : changed'[u] = changed[u]
         /\ Registers(t) => \A u \in Threads : Outdate(u, Mine(t))
         /\ ~Registers(t) => \A u \in Threads \ {t} : states'[u] = states[u]
<1>0. /\ CallTyped /\ SharedTyped /\ Typed /\ CallsOK
      /\ changed \in [Threads -> BOOLEAN] /\ states \in [Threads -> Seq(Nat)]
  BY DEF Base, Typed, ScanTyped
<1>1. CASE \/ Sleep(t) \/ Pause(t) \/ Unpause(t) \/ Check(t) \/ Abort(t) \/ Selected(t) \/ Wait(t)
           \/ UnregisterOp(t) \/ Disconnect(t) \/ DisconnectSenders(t) \/ DisconnectReceivers(t)
  <2>1. UNCHANGED <<states, changed>>
    BY <1>1 DEF Sleep, Pause, Unpause, Check, Abort, Selected, Wait, UnregisterOp, Disconnect,
                DisconnectSenders, DisconnectReceivers, scanVars
  <2>2. pc[t] \notin {"retry", "register"}
    BY <1>1 DEF Sleep, Pause, Unpause, Check, Abort, Selected, Wait, UnregisterOp, Disconnect,
                DisconnectSenders, DisconnectReceivers
  <2> QED BY <2>1, <2>2 DEF Registers
<1>2. CASE StartCall(t) \/ Late(t)
  <2>1. pc[t] \notin {"retry", "register"} BY <1>2 DEF StartCall, Late
  <2>2. UNCHANGED <<states, changed>> \/ \E list, m : RunSelect(t, list, m)
    BY <1>2 DEF StartCall, Late, scanVars
  <2> QED BY <2>1, <2>2, RunSelectStates DEF Registers
<1>3. CASE \/ Nothing(t) \/ CompleteClosed(t) \/ CompleteSlot(t) \/ Wake(t) \/ CompletePacket(t)
           \/ CompleteTime(t)
  <2>1. pc[t] \notin {"retry", "register"}
    BY <1>3 DEF Nothing, CompleteClosed, CompleteSlot, Wake, CompletePacket, CompleteTime
  <2>2. UNCHANGED <<states, changed>> \/ \E iterates : Return(t, iterates)
    BY <1>3 DEF Nothing, CompleteClosed, CompleteSlot, Wake, CompletePacket, CompleteTime, scanVars
  <2> QED BY <2>1, <2>2, ReturnStates DEF Registers
<1>4. CASE Snapshot(t) \/ Compare(t)
  <2>1. pc[t] \notin {"retry", "register"} BY <1>4 DEF Snapshot, Compare
  <2>2. \A u \in Threads \ {t} : states'[u] = states[u] /\ changed'[u] = changed[u]
    BY <1>0, <1>4 DEF Snapshot, Compare
  <2> QED BY <2>1, <2>2 DEF Registers
<1>5. CASE Try(t) \/ Accept(t)
  <2>1. pc[t] \notin {"retry", "register"} BY <1>5 DEF Try, Accept
  <2>2. UNCHANGED <<states, changed>> BY <1>5 DEF Try, Accept, Fire, scanVars
  <2> QED BY <2>1, <2>2 DEF Registers
<1>6. CASE Retry(t)
  <2>1. pc[t] = "retry" BY <1>6 DEF Retry
  <2>2. CASE Fire(t, Mine(t))
    <3>1. pc'[t] = "complete" BY <1>0, <2>2 DEF Fire, Goto, CallTyped
    <3>2. UNCHANGED <<states, changed>> BY <2>2 DEF Fire, scanVars
    <3> QED BY <2>1, <3>1, <3>2 DEF Registers
  <2>3. CASE NextOp(t, "retry", "register") /\ UNCHANGED scanVars
    <3>1. pc'[t] \in {"retry", "register"} BY <1>0, <2>3, NextOpCall DEF Labels
    <3> QED BY <2>1, <2>3, <3>1 DEF Registers, scanVars
  <2>4. CASE Register(t, Mine(t), 0) /\ Goto(t, "pause") /\ changed' = changed
    <3>1. pc'[t] = "pause" BY <1>0, <2>4 DEF Goto, CallTyped
    <3>2. \A u \in Threads : Outdate(u, Mine(t)) BY <2>4 DEF Register, Outdate
    <3> QED BY <2>1, <2>4, <3>1, <3>2 DEF Registers
  <2> QED BY <1>6, <2>2, <2>3, <2>4 DEF Retry
<1>7. CASE RegisterOp(t)
  <2>1. pc[t] = "register" /\ changed' = changed BY <1>7 DEF RegisterOp
  <2>2. Mine(t) \in Ops BY <1>0, <2>1, MineIs DEF Listless
  <2>3. Handle(t, Mine(t)).waits <=> Queues(Mine(t)) BY <1>0, <2>2, HandleIs
  <2>4. CASE Queues(Mine(t))
    <3>1. Register(t, Mine(t), i[t]) BY <1>7, <2>3, <2>4 DEF RegisterOp
    <3>2. \A u \in Threads : Outdate(u, Mine(t)) BY <3>1 DEF Register, Outdate
    <3> QED BY <2>1, <2>4, <3>2 DEF Registers
  <2>5. CASE ~Queues(Mine(t))
    <3>1. states' = states BY <1>7, <2>3, <2>5 DEF RegisterOp
    <3> QED BY <2>1, <2>5, <3>1 DEF Registers
  <2> QED BY <2>4, <2>5
<1> QED BY <1>1, <1>2, <1>3, <1>4, <1>5, <1>6, <1>7 DEF Step

\* A thread makes itself selectable by registering, and by nothing else.
LEMMA SelectBack ==
  ASSUME Base, NEW t \in Threads, Step(t), select'[t] = Waiting
  PROVE  \/ select[t] = Waiting
         \/ pc[t] = "retry" /\ pc'[t] = "pause"
         \/ pc[t] = "register" /\ i[t] = 1
<1>0. /\ CallTyped /\ SharedTyped /\ Typed /\ CallsOK /\ EntriesOK
      /\ select \in [Threads -> Nat]
  BY DEF Base, Typed, WaitsOK, SharedTyped
<1>1. CASE \/ StartCall(t) \/ Sleep(t) \/ Snapshot(t) \/ Compare(t) \/ Check(t) \/ Selected(t)
           \/ Late(t) \/ Nothing(t) \/ CompleteClosed(t) \/ CompleteSlot(t) \/ CompletePacket(t)
           \/ CompleteTime(t) \/ Unpause(t) \/ UnregisterOp(t)
  <2>1. select' = select
    BY <1>1 DEF StartCall, Sleep, Snapshot, Compare, Check, Selected, Late, Nothing, CompleteClosed,
                CompleteSlot, CompletePacket, CompleteTime, Unpause, UnregisterOp, waitVars
  <2> QED BY <2>1
<1>2. CASE Pause(t) \/ Abort(t) \/ Wait(t)
  <2>1. select'[t] = select[t] \/ select'[t] = Aborted
    BY <1>0, <1>2 DEF Pause, Abort, Wait
  <2> QED BY <2>1 DEF Aborted, Waiting
<1>3. CASE Try(t)
  <2>1. pc[t] = "try" BY <1>3 DEF Try
  <2>2. CASE Fire(t, Mine(t)) BY <1>0, <2>1, <2>2, MineIs, FireMild DEF Listless
  <2>3. CASE ~Fire(t, Mine(t)) BY <1>3, <2>3 DEF Try, waitVars
  <2> QED BY <2>2, <2>3
<1>4. CASE Accept(t)
  <2>1. pc[t] = "accept" BY <1>4 DEF Accept
  <2>2. CASE select[t] >= Operation(1) /\ Fire(t, ops[t][Selection(t)])
    <3>1. ops[t][Selection(t)] \in Ops BY <2>1, <2>2, AcceptIs
    <3> QED BY <1>0, <2>2, <3>1, FireMild
  <2>3. CASE ~(select[t] >= Operation(1) /\ Fire(t, ops[t][Selection(t)]))
    BY <1>4, <2>3 DEF Accept, waitVars
  <2> QED BY <2>2, <2>3
<1>5. CASE Retry(t)
  <2>1. pc[t] = "retry" BY <1>5 DEF Retry
  <2>2. CASE Fire(t, Mine(t)) BY <1>0, <2>1, <2>2, MineIs, FireMild DEF Listless
  <2>3. CASE UNCHANGED waitVars BY <2>3 DEF waitVars
  <2>4. CASE Goto(t, "pause") BY <1>0, <2>1, <2>4 DEF Goto, CallTyped
  <2> QED BY <1>5, <2>2, <2>3, <2>4 DEF Retry
<1>6. CASE RegisterOp(t)
  <2>1. pc[t] = "register" BY <1>6 DEF RegisterOp
  <2>2. CASE i[t] = 1 BY <2>1, <2>2
  <2>3. CASE i[t] # 1 BY <1>6, <2>3 DEF RegisterOp
  <2> QED BY <2>2, <2>3
<1>7. CASE Wake(t)
  <2>1. pc[t] = "wake" BY <1>7 DEF Wake
  <2>2. PICK k \in DOMAIN ops[t] : token[t].op = ops[t][k]
    BY <1>0, <2>1 DEF CallsOK, CallOK, TokenOK
  <2>3. ops[t] \in Seq(Ops) BY <1>0 DEF CallTyped
  <2>4. k \in 1 .. Len(ops[t]) BY <2>2, <2>3, LenProperties
  <2>5. token[t].op \in Ops BY <2>2, <2>3, <2>4, ElementOfSeq
  <2>6. token[t].op.chan \in Channels /\ Opposite(token[t].op.side) \in Sides
    BY <2>5, OpIs DEF Opposite, Sides
  <2> QED BY <1>0, <1>7, <2>6, WakeMild DEF Wake
<1>8. CASE Disconnect(t) \/ DisconnectSenders(t) \/ DisconnectReceivers(t)
  <2>1. select' = select \/ \E c, sides : select' = WakeAll(c, sides)
    BY <1>8 DEF Disconnect, DisconnectSenders, DisconnectReceivers
  <2>2. ASSUME NEW c, NEW sides, select' = WakeAll(c, sides)
        PROVE  select'[t] = select[t] \/ select'[t] = Disconnected
    BY <2>2 DEF WakeAll
  <2> QED BY <2>1, <2>2 DEF Disconnected, Waiting
<1> QED BY <1>1, <1>2, <1>3, <1>4, <1>5, <1>6, <1>7, <1>8 DEF Step
-------------------------------------------------------------------------------
(* A zero-capacity channel has no state but the count of registrations. *)

WakeablesOK ==
  \A t \in Threads, c \in Channels, s \in Sides :
    Wakeable(t, c, s) # {} <=>
      \E e \in Range(entries[c][s]) : e.thread # t /\ select[e.thread] = Waiting

LEMMA WakeablesAre == WakeablesOK
  BY DEF WakeablesOK, Wakeable, Range

\* Nobody comes to be selectable but by a registration.
LEMMA WakersStay ==
  ASSUME Base, NEW t \in Threads, Step(t), NEW u \in Threads \ {t}, NEW c \in Channels, NEW s \in Sides,
         Wakeable(u, c, s) = {}, Wakeable(u, c, s)' # {}
  PROVE  Registers(t) /\ Mine(t) = Op(c, s)
<1>0. Typed /\ CallsOK /\ EntriesOK /\ CallTyped /\ Mild(t) /\ Outcome(t)
  BY StepMild DEF Base, WaitsOK, Typed
<1>1. PICK e \in Range(entries'[c][s]) : e.thread # u /\ select'[e.thread] = Waiting
  <2>1. WakeablesOK' BY WakeablesAre, PTL
  <2> QED BY <2>1 DEF WakeablesOK
<1>2. e \in Item /\ e.thread \in Threads /\ e.oper \in Nat /\ e = Entry(e.thread, e.oper)
  BY <1>0, ItemsNext, ItemIs
<1>3. ASSUME NEW f \in Range(entries[c][s]), f.thread # u PROVE select[f.thread] # Waiting
  <2>1. WakeablesOK BY WakeablesAre
  <2> QED BY <1>3, <2>1 DEF WakeablesOK
<1>4. e.thread = t
  <2> SUFFICES ASSUME e.thread # t PROVE FALSE OBVIOUS
  <2>1. Left(e.thread) \/ Taken(e.thread) \/ Cut(e.thread) BY <1>0, <1>2 DEF Mild
  <2>2. CASE Left(e.thread)
    <3>1. e \in Range(entries[c][s]) BY <1>2, <2>2 DEF Left, Keeps
    <3> QED BY <1>1, <1>3, <2>2, <3>1 DEF Left
  <2>3. CASE Taken(e.thread) BY <1>1, <2>3 DEF Taken, Operation, Waiting
  <2>4. CASE Cut(e.thread) BY <1>1, <2>4 DEF Cut, Disconnected, Waiting
  <2> QED BY <2>1, <2>2, <2>3, <2>4
\* An entry that was there cannot be selected again.
<1>5. ASSUME e \in Range(entries[c][s]), ~(pc[t] = "retry" /\ pc'[t] = "pause") PROVE FALSE
  <2>1. select[t] # Waiting BY <1>1, <1>3, <1>4, <1>5
  <2>2. pc[t] = "register" /\ i[t] = 1 BY <1>1, <1>4, <1>5, <2>1, SelectBack
  <2>3. Entry(t, e.oper) \in Range(entries[c][s]) BY <1>2, <1>4, <1>5
  <2>4. e.oper \in 1 .. registered[t] BY <1>2, <2>2, <2>3, EntryIs
  <2>5. registered[t] + 1 = 1 /\ registered[t] \in Nat
    BY <1>0, <2>2 DEF CallsOK, CallOK, PlaceOK, CallTyped
  <2> QED BY <1>2, <2>4, <2>5
<1>6. ASSUME NEW n \in Nat, Gains(t, Mine(t), n), e \notin Range(entries[c][s]), pc[t] \notin Listless
      PROVE  Mine(t) = Op(c, s)
  <2>1. c = Mine(t).chan /\ s = Mine(t).side BY <1>1, <1>2, <1>4, <1>6 DEF Gains
  <2>2. Mine(t) \in Ops BY <1>0, <1>6, MineIs
  <2> QED BY <2>1, <2>2, OpIs
<1>7. CASE pc[t] = "retry" /\ pc'[t] = "pause" /\ Gains(t, Mine(t), 0)
  <2>1. e \notin Range(entries[c][s])
    <3>1. pc[t] \notin Registering \cup {"pause", "unpause"} BY <1>7 DEF Registering
    <3> QED BY <1>0, <1>4, <3>1, NoItems
  <2> QED BY <1>6, <1>7, <2>1 DEF Registers, Listless
<1>8. CASE pc[t] = "unpause" /\ Loses(t, Mine(t), 0) BY <1>1, <1>2, <1>4, <1>5, <1>8 DEF Loses
<1>9. CASE pc[t] = "register" /\ Queues(Mine(t)) /\ Gains(t, Mine(t), i[t])
  <2>1. e \notin Range(entries[c][s]) BY <1>5, <1>9
  <2>2. i[t] \in Nat BY <1>0 DEF CallTyped
  <2> QED BY <1>6, <1>9, <2>1, <2>2 DEF Registers, Listless
<1>10. CASE pc[t] = "unregister" /\ Loses(t, Mine(t), i[t]) BY <1>1, <1>2, <1>4, <1>5, <1>10 DEF Loses
<1>11. CASE ~(pc[t] = "retry" /\ pc'[t] = "pause") /\ Keeps(t)
  BY <1>1, <1>2, <1>4, <1>5, <1>11 DEF Keeps
<1> QED BY <1>0, <1>7, <1>8, <1>9, <1>10, <1>11 DEF Outcome

\* What a step may do to the snapshot of u.
Marks(u) ==
  /\ states'[u] \in Seq(Nat) /\ Len(states'[u]) = Len(states[u])
  /\ \A k \in 1 .. Len(states[u]) :
       \/ states'[u][k] = states[u][k]
       \/ states'[u][k] = Outdated /\ Flavor[ops[u][k].chan] = "zero"

\* Nobody comes to be selectable for u unnoticed.
ZeroStays(u) ==
  \A k \in 1 .. Len(states[u]), o \in Ops :
    /\ o = ops[u][k] /\ Flavor[o.chan] = "zero"
    /\ Wakeable(u, o.chan, Opposite(o.side)) = {}
    => Wakeable(u, o.chan, Opposite(o.side))' = {} \/ states'[u][k] = Outdated

LEMMA OutdateMarks ==
  ASSUME ScanTyped, NEW u \in Threads, NEW o, Outdate(u, o)
  PROVE  Marks(u)
<1>1. states[u] \in Seq(Nat) BY DEF ScanTyped
<1>2. DOMAIN states[u] = 1 .. Len(states[u]) /\ Len(states[u]) \in Nat BY <1>1, LenProperties
<1> DEFINE q == states'[u]
<1>3. \A k \in 1 .. Len(states[u]) :
        \/ q[k] = states[u][k]
        \/ q[k] = Outdated /\ Flavor[o.chan] = "zero" /\ ops[u][k] = Op(o.chan, Opposite(o.side))
  BY <1>2 DEF Outdate
<1>4. DOMAIN q = 1 .. Len(states[u]) /\ q = [k \in 1 .. Len(states[u]) |-> q[k]]
  BY <1>2 DEF Outdate
<1>5. \A k \in 1 .. Len(states[u]) : q[k] \in Nat
  <2>1. \A k \in 1 .. Len(states[u]) : states[u][k] \in Nat BY <1>1, ElementOfSeq
  <2> QED BY <1>3, <2>1 DEF Outdated
<1> HIDE DEF q
<1>6. q \in Seq(Nat) /\ Len(q) = Len(states[u])
  <2> DEFINE n == Len(states[u])
  <2>1. q \in [1 .. n -> Nat] BY <1>4, <1>5
  <2>2. n \in Nat BY <1>2
  <2> HIDE DEF n
  <2>3. q \in Seq(Nat) BY <2>1, <2>2, SeqDef
  <2>4. DOMAIN q = 1 .. n /\ DOMAIN q = 1 .. Len(q) /\ Len(q) \in Nat BY <2>1, <2>3, LenProperties
  <2>5. Len(q) = n BY <2>2, <2>4
  <2> QED BY <2>3, <2>5 DEF n
<1>7. \A k \in 1 .. Len(states[u]) :
        q[k] = states[u][k] \/ (q[k] = Outdated /\ Flavor[ops[u][k].chan] = "zero")
  BY <1>3 DEF Op
<1> QED BY <1>6, <1>7 DEF Marks, q

LEMMA SameMarks ==
  ASSUME ScanTyped, NEW u \in Threads, states'[u] = states[u]
  PROVE  Marks(u)
  BY DEF ScanTyped, Marks

LEMMA OthersStates ==
  ASSUME Base, ScanTyped, NEW t \in Threads, Step(t), NEW u \in Threads \ {t},
         Len(states[u]) <= Len(ops[u])
  PROVE  Marks(u) /\ ZeroStays(u) /\ changed'[u] = changed[u]
<1>0. /\ changed'[u] = changed[u]
      /\ Registers(t) => Outdate(u, Mine(t))
      /\ ~Registers(t) => states'[u] = states[u]
  BY StepStates
<1>1. Marks(u) BY <1>0, OutdateMarks, SameMarks
<1>2. ZeroStays(u)
  <2> SUFFICES ASSUME NEW k \in 1 .. Len(states[u]), NEW o \in Ops, o = ops[u][k],
                      Flavor[o.chan] = "zero",
                      Wakeable(u, o.chan, Opposite(o.side)) = {},
                      Wakeable(u, o.chan, Opposite(o.side))' # {}
               PROVE  states'[u][k] = Outdated
    BY DEF ZeroStays
  <2>1. o.chan \in Channels /\ o.side \in Sides /\ o = Op(o.chan, o.side) BY OpIs
  <2>2. Opposite(o.side) \in Sides /\ Opposite(Opposite(o.side)) = o.side
    BY <2>1 DEF Opposite, Sides
  <2>3. Registers(t) /\ Mine(t) = Op(o.chan, Opposite(o.side)) BY <2>1, <2>2, WakersStay
  <2>4. Mine(t).chan = o.chan /\ Op(Mine(t).chan, Opposite(Mine(t).side)) = o
    BY <2>1, <2>2, <2>3 DEF Op
  <2>5. DOMAIN states[u] = 1 .. Len(states[u]) BY LenProperties DEF ScanTyped
  <2> QED BY <1>0, <2>3, <2>4, <2>5 DEF Outdate
<1> QED BY <1>0, <1>1, <1>2
-------------------------------------------------------------------------------
(* What an answer that nothing was ready rests on. *)

Several(t) == mode[t] = "now" /\ Len(ops[t]) > 1

\* The snapshot is of states that were.
Seen(t, k) == \A o \in Ops : o = ops[t][k] => states[t][k] <= LevelOf(o)

ScanOK(t) ==
  /\ Len(states[t]) <= Len(ops[t])
  /\ \A k \in 1 .. Len(states[t]) : Seen(t, k)
  /\ pc[t] = "snapshot" => Len(states[t]) + 1 = i[t]
  /\ pc[t] \in {"snapshot", "compare"} => Several(t)
  /\ pc[t] \in {"try", "compare"} /\ Several(t) => Len(states[t]) = Len(ops[t])

\* An operation whose state has changed since, one that was tried in vain, and the excuse.
Moved(t, k) == \A o \in Ops : o = ops[t][k] => states[t][k] # LevelOf(o)
Settled(t, k) ==
  \A o \in Ops : o = ops[t][k] =>
    ~ReadyOf(t, o) \/ states[t][k] # LevelOf(o) \/ disconnected[o.chan]
Excused(t) == \E k \in 1 .. Len(ops[t]) : disconnected[ops[t][k].chan]
Answering(t) == mode[t] = "now" \/ Timed(mode[t])

NothingOK(t) ==
  /\ pc[t] = "sleep" => \A k \in 1 .. Len(ops[t]) : Flavor[ops[t][k].chan] = "never"
  /\ Plain(mode[t]) => Len(ops[t]) = 1
  /\ pc[t] \in {"retry", "pause", "unpause"} => ~Plain(mode[t])
  /\ pc[t] = "try" /\ Several(t) => \A k \in 1 .. Len(ops[t]) : k < i[t] => Settled(t, k)
  /\ pc[t] = "compare" => \/ unready[t] \/ changed[t] \/ Excused(t)
                          \/ \E k \in 1 .. Len(ops[t]) : k >= i[t] /\ Moved(t, k)
  /\ pc[t] = "nothing" => Answering(t) /\ (unready[t] \/ Excused(t))
  /\ pc[t] \in Registering \cup {"accept", "late"} /\ mode[t] = "recvAt" => unready[t]

Scan == ScanTyped /\ \A t \in Threads : ScanOK(t) /\ NothingOK(t)

\* What the invariants so far say of a step and of the state after it.
Stepping ==
  /\ Base /\ Base' /\ QueuesOK /\ QueuesOK' /\ Forward /\ Grows /\ Watch

LEMMA UnreadyStays ==
  ASSUME Watch, NEW t \in Threads, unready[t], pc'[t] # "idle", Answering(t)'
  PROVE  unready'[t]
  BY DEF Watch, Answering

\* If nothing is ready after a step, it is written down.
LEMMA UnreadyNow ==
  ASSUME Watch, SharedTyped', NEW t \in Threads, pc'[t] # "idle", Answering(t)',
         ops'[t] \in Seq(Ops),
         \A k \in 1 .. Len(ops'[t]), o \in Ops : o = ops'[t][k] => ~ReadyOf(t, o)'
  PROVE  unready'[t]
<1>1. Answers' BY AnswersAre, PTL
<1>2. DOMAIN ops'[t] = 1 .. Len(ops'[t]) /\ \A k \in 1 .. Len(ops'[t]) : ops'[t][k] \in Ops
  BY LenProperties, ElementOfSeq
<1>3. \A o \in Ops : Handle(t, o).ready' <=> ReadyOf(t, o)' BY <1>1 DEF Answers
<1>4. ASSUME NEW k \in 1 .. Len(ops'[t]) PROVE ~(Handle(t, ops[t][k]).ready)'
  <2>1. PICK o \in Ops : o = ops'[t][k] BY <1>2
  <2>2. ~ReadyOf(t, o)' BY <2>1
  <2>3. ~(Handle(t, o).ready)' BY <1>3, <2>2
  <2>4. (Handle(t, ops[t][k]))' = Handle(t, o)'
    BY <2>1 DEF Handle, SenderHandle, ReceiverHandle, ArraySender, ArrayReceiver, ListSender, ListReceiver,
                ZeroSender, ZeroReceiver, AfterReceiver, TickReceiver, NeverReceiver
  <2> QED BY <2>3, <2>4
<1>5. NothingReady(t)' BY <1>2, <1>4 DEF NothingReady
<1> QED BY <1>5 DEF Watch, Answering

\* The snapshot of a thread whose call does not go on.
LEMMA SeenStays ==
  ASSUME Stepping, NEW u \in Threads, ScanOK(u), Marks(u), ops'[u] = ops[u],
         NEW k \in 1 .. Len(states[u])
  PROVE  Seen(u, k)'
<1>0. SharedTyped /\ SharedTyped' BY DEF Stepping, Base, Typed
<1> SUFFICES ASSUME NEW o \in Ops, o = ops'[u][k] PROVE states'[u][k] <= LevelOf(o)' BY DEF Seen
<1>1. LevelOf(o) \in Nat /\ LevelOf(o)' \in Nat /\ LevelOf(o) <= LevelOf(o)'
  BY <1>0, LevelUp DEF Stepping
<1>2. states[u][k] <= LevelOf(o) BY DEF ScanOK, Seen
<1>3. states'[u][k] = states[u][k] \/ states'[u][k] = 0 BY DEF Marks, Outdated
<1>4. states'[u][k] \in Nat
  <2>1. states'[u] \in Seq(Nat) /\ k \in 1 .. Len(states'[u]) BY DEF Marks
  <2> QED BY <2>1, ElementOfSeq
<1> QED BY <1>1, <1>2, <1>3, <1>4

LEMMA MovedStays ==
  ASSUME Stepping, ScanTyped, NEW u \in Threads, ScanOK(u), Marks(u), ops'[u] = ops[u],
         NEW k \in 1 .. Len(states[u]), NEW o \in Ops, o = ops[u][k],
         states[u][k] # LevelOf(o)
  PROVE  states'[u][k] # LevelOf(o)'
<1>0. SharedTyped /\ SharedTyped' BY DEF Stepping, Base, Typed
<1>1. LevelOf(o) \in Nat /\ LevelOf(o)' \in Nat /\ LevelOf(o) <= LevelOf(o)'
  BY <1>0, LevelUp DEF Stepping
<1>2. states[u][k] <= LevelOf(o) BY DEF ScanOK, Seen
<1>3. states[u][k] \in Nat BY ElementOfSeq DEF ScanTyped
<1>4. CASE states'[u][k] = states[u][k] BY <1>1, <1>2, <1>3, <1>4
<1>5. CASE states'[u][k] = Outdated /\ Flavor[o.chan] = "zero"
  <2>1. LevelOf(o)' = Current BY <1>5 DEF LevelOf
  <2> QED BY <1>5, <2>1 DEF Current, Outdated
<1> QED BY <1>4, <1>5 DEF Marks

LEMMA SettledStays ==
  ASSUME Stepping, ScanTyped, NEW u \in Threads, ScanOK(u), Marks(u), ZeroStays(u), ops'[u] = ops[u],
         NEW k \in 1 .. Len(states[u]), Settled(u, k)
  PROVE  Settled(u, k)'
<1>0. SharedTyped /\ SharedTyped' BY DEF Stepping, Base, Typed
<1> SUFFICES ASSUME NEW o \in Ops, o = ops'[u][k], states'[u][k] = LevelOf(o)', ~disconnected'[o.chan]
             PROVE  ~ReadyOf(u, o)'
  BY DEF Settled
<1>1. states[u][k] = LevelOf(o) BY MovedStays
<1>2. ~disconnected[o.chan] BY OpIs DEF Stepping, Grows
<1>3. ~ReadyOf(u, o) BY <1>1, <1>2 DEF Settled
<1>4. CASE Flavor[o.chan] # "zero"
  <2>1. LevelOf(o) \in Nat /\ LevelOf(o)' \in Nat /\ LevelOf(o) <= LevelOf(o)'
    BY <1>0, LevelUp DEF Stepping
  <2>2. states'[u][k] = states[u][k] BY <1>4 DEF Marks
  <2>3. LevelOf(o)' = LevelOf(o) BY <1>1, <2>2
  <2> QED BY <1>0, <1>3, <1>4, <2>3, NotReadyStays DEF Stepping
<1>5. CASE Flavor[o.chan] = "zero"
  <2>1. Wakeable(u, o.chan, Opposite(o.side)) = {} BY <1>3, <1>5 DEF ReadyOf
  <2>2. LevelOf(o)' = Current BY <1>5 DEF LevelOf
  <2>3. states'[u][k] # Outdated BY <2>2 DEF Current, Outdated
  <2>4. Wakeable(u, o.chan, Opposite(o.side))' = {} BY <1>5, <2>1, <2>3 DEF ZeroStays
  <2> QED BY <1>5, <2>4 DEF ReadyOf
<1> QED BY <1>4, <1>5

\* The steps of others, of handles and of the clock.
LEMMA OthersScan ==
  ASSUME Stepping, ScanTyped, NEW u \in Threads, ScanOK(u), NothingOK(u),
         pc'[u] = pc[u] \/ (pc[u] = "idle" /\ pc'[u] = "disconnect"),
         i'[u] = i[u], ops'[u] = ops[u], mode'[u] = mode[u], changed'[u] = changed[u],
         Marks(u), ZeroStays(u)
  PROVE  ScanOK(u)' /\ NothingOK(u)'
<1>0. CallTyped /\ ops[u] \in Seq(Ops) /\ Len(ops[u]) \in Nat /\ i[u] \in Nat
      /\ \A k \in 1 .. Len(ops[u]) : ops[u][k] \in Ops
  BY LenProperties, ElementOfSeq DEF Stepping, Base, Typed, CallTyped
<1>1. Several(u)' <=> Several(u) BY DEF Several
<1>2. Len(states'[u]) = Len(states[u]) BY DEF Marks
<1>3. ScanOK(u)'
  <2>1. \A k \in 1 .. Len(states'[u]) : Seen(u, k)' BY <1>2, SeenStays
  <2> QED BY <1>1, <1>2, <2>1 DEF ScanOK
<1>4. Excused(u) => Excused(u)'
  <2>1. ASSUME NEW k \in 1 .. Len(ops[u]), disconnected[ops[u][k].chan]
        PROVE  disconnected'[ops'[u][k].chan]
    <3>1. ops[u][k].chan \in Channels BY <1>0, OpIs
    <3> QED BY <2>1, <3>1 DEF Stepping, Grows
  <2> QED BY <2>1 DEF Excused
<1>5. Answering(u)' <=> Answering(u) BY DEF Answering
<1>6. unready[u] /\ Answering(u) /\ pc'[u] # "idle" => unready'[u]
  BY <1>5, UnreadyStays DEF Stepping
<1>7. Several(u) => Answering(u) BY DEF Several, Answering
<1>8. CASE pc'[u] = "disconnect" BY <1>3, <1>8 DEF NothingOK, Registering, Plain
<1>9. CASE pc'[u] = pc[u]
  <2>1. ASSUME pc[u] = "try", Several(u), NEW k \in 1 .. Len(ops[u]), k < i[u]
        PROVE  Settled(u, k)'
    <3>1. k \in 1 .. Len(states[u]) BY <2>1 DEF ScanOK
    <3>2. Settled(u, k) BY <2>1 DEF NothingOK
    <3> QED BY <3>1, <3>2, SettledStays
  <2>2. ASSUME pc[u] = "compare", NEW k \in 1 .. Len(ops[u]), Moved(u, k)
        PROVE  Moved(u, k)'
    <3>1. k \in 1 .. Len(states[u]) BY <2>2 DEF ScanOK
    <3> SUFFICES ASSUME NEW o \in Ops, o = ops'[u][k] PROVE states'[u][k] # LevelOf(o)' BY DEF Moved
    <3>2. states[u][k] # LevelOf(o) BY <2>2 DEF Moved
    <3> QED BY <3>1, <3>2, MovedStays
  <2>3. pc[u] = "compare" => Several(u) BY DEF ScanOK
  <2>4. pc'[u] = "compare" => \/ unready'[u] \/ changed'[u] \/ Excused(u)'
                              \/ \E k \in 1 .. Len(ops'[u]) : k >= i'[u] /\ Moved(u, k)'
    <3> SUFFICES ASSUME pc[u] = "compare"
                 PROVE  \/ unready'[u] \/ changed'[u] \/ Excused(u)'
                        \/ \E k \in 1 .. Len(ops'[u]) : k >= i'[u] /\ Moved(u, k)'
      BY <1>9
    <3>1. CASE unready[u] BY <1>6, <1>7, <1>9, <2>3, <3>1
    <3>2. CASE changed[u] \/ Excused(u) BY <1>4, <3>2
    <3>3. CASE \E k \in 1 .. Len(ops[u]) : k >= i[u] /\ Moved(u, k) BY <2>2, <3>3
    <3> QED BY <3>1, <3>2, <3>3 DEF NothingOK
  <2>5. pc'[u] = "nothing" => Answering(u)' /\ (unready'[u] \/ Excused(u)')
    BY <1>4, <1>5, <1>6, <1>9 DEF NothingOK
  <2>6. pc'[u] \in Registering \cup {"accept", "late"} /\ mode'[u] = "recvAt" => unready'[u]
    BY <1>6, <1>9 DEF NothingOK, Answering, Timed, Registering
  <2>7. pc'[u] = "try" /\ Several(u)' => \A k \in 1 .. Len(ops'[u]) : k < i'[u] => Settled(u, k)'
    BY <1>1, <1>9, <2>1
  <2>8. pc'[u] = "sleep" => \A k \in 1 .. Len(ops'[u]) : Flavor[ops'[u][k].chan] = "never"
    BY <1>9 DEF NothingOK
  <2>9. /\ Plain(mode'[u]) => Len(ops'[u]) = 1
        /\ pc'[u] \in {"retry", "pause", "unpause"} => ~Plain(mode'[u])
    BY <1>9 DEF NothingOK, Plain
  <2> QED BY <1>3, <2>4, <2>5, <2>6, <2>7, <2>8, <2>9 DEF NothingOK, Plain
<1> QED BY <1>3, <1>8, <1>9
-------------------------------------------------------------------------------
(* The types of the snapshot. *)

LEMMA WatchTyped ==
  ASSUME Watch
  PROVE  unready' \in [Threads -> BOOLEAN]
<1>1. \A t \in Threads :
        (/\ pc'[t] # "idle" /\ (mode'[t] = "now" \/ Timed(mode'[t]))
         /\ unready[t] \/ NothingReady(t)') \in BOOLEAN
  OBVIOUS
<1> QED BY <1>1, Zenon DEF Watch

LEMMA EmptyStates == <<>> \in Seq(Nat) /\ Len(<<>>) = 0
  OBVIOUS

\* What state() answers is a number.
LEMMA StateIs ==
  ASSUME Base, NEW t \in Threads, NEW o \in Ops
  PROVE  Handle(t, o).state = LevelOf(o) /\ LevelOf(o) \in Nat
<1>0. SharedTyped BY DEF Base, Typed
<1>1. Handle(t, o).state = LevelOf(o) BY <1>0, AnswersAre DEF Answers
<1>2. head[o.chan] \in Nat /\ tail[o.chan] \in Nat BY <1>0, OpIs DEF SharedTyped
<1>3. LevelOf(o) \in Nat BY <1>2 DEF LevelOf, Current
<1> QED BY <1>1, <1>3

LEMMA RunSelectTyped ==
  ASSUME ScanTyped, NEW t \in Threads, NEW list, NEW m, RunSelect(t, list, m)
  PROVE  states' \in [Threads -> Seq(Nat)] /\ changed' \in [Threads -> BOOLEAN]
  BY EmptyStates DEF ScanTyped, RunSelect

LEMMA ReturnTyped ==
  ASSUME ScanTyped, NEW t \in Threads, NEW iterates, Return(t, iterates)
  PROVE  states' \in [Threads -> Seq(Nat)] /\ changed' \in [Threads -> BOOLEAN]
<1>1. CASE RunSelect(t, ops[t], mode[t]) BY <1>1, RunSelectTyped
<1>2. CASE states' = [states EXCEPT ![t] = <<>>] /\ changed' = changed
  BY <1>2, EmptyStates DEF ScanTyped
<1> QED BY <1>1, <1>2 DEF Return

LEMMA OutdateTyped ==
  ASSUME ScanTyped, NEW t \in Threads, NEW o, NEW n, Register(t, o, n), changed' = changed
  PROVE  states' \in [Threads -> Seq(Nat)] /\ changed' \in [Threads -> BOOLEAN]
<1>1. \A u \in Threads : Outdate(u, o) BY DEF Register, Outdate
<1>2. \A u \in Threads : states'[u] \in Seq(Nat) BY <1>1, OutdateMarks DEF Marks
<1>3. states' = [u \in Threads |-> states'[u]] BY DEF Register
<1> QED BY <1>2, <1>3 DEF ScanTyped

LEMMA StepScanTyped ==
  ASSUME Base, ScanTyped, NEW t \in Threads, Step(t), pc[t] = "compare" => i[t] \in 1 .. Len(states[t])
  PROVE  states' \in [Threads -> Seq(Nat)] /\ changed' \in [Threads -> BOOLEAN]
<1>0. /\ CallTyped /\ SharedTyped /\ Typed /\ CallsOK
      /\ changed \in [Threads -> BOOLEAN] /\ states \in [Threads -> Seq(Nat)]
  BY DEF Base, Typed, ScanTyped
<1> DEFINE Goal == states' \in [Threads -> Seq(Nat)] /\ changed' \in [Threads -> BOOLEAN]
<1>1. CASE UNCHANGED <<states, changed>> BY <1>0, <1>1
<1>2. CASE \/ Sleep(t) \/ Pause(t) \/ Unpause(t) \/ Check(t) \/ Abort(t) \/ Selected(t) \/ Wait(t)
           \/ UnregisterOp(t) \/ Disconnect(t) \/ DisconnectSenders(t) \/ DisconnectReceivers(t)
  BY <1>1, <1>2 DEF Sleep, Pause, Unpause, Check, Abort, Selected, Wait, UnregisterOp, Disconnect,
                    DisconnectSenders, DisconnectReceivers, scanVars
<1>3. CASE StartCall(t) \/ Late(t)
  <2>1. UNCHANGED <<states, changed>> \/ \E list, m : RunSelect(t, list, m)
    BY <1>3 DEF StartCall, Late, scanVars
  <2> QED BY <1>1, <2>1, RunSelectTyped
<1>4. CASE \/ Nothing(t) \/ CompleteClosed(t) \/ CompleteSlot(t) \/ Wake(t) \/ CompletePacket(t)
           \/ CompleteTime(t)
  <2>1. UNCHANGED <<states, changed>> \/ \E iterates : Return(t, iterates)
    BY <1>4 DEF Nothing, CompleteClosed, CompleteSlot, Wake, CompletePacket, CompleteTime, scanVars
  <2> QED BY <1>1, <2>1, ReturnTyped
<1>5. CASE Try(t) \/ Accept(t) BY <1>1, <1>5 DEF Try, Accept, Fire, scanVars
<1>6. CASE Retry(t)
  <2>1. CASE Register(t, Mine(t), 0) /\ changed' = changed BY <2>1, OutdateTyped
  <2> QED BY <1>1, <1>6, <2>1 DEF Retry, Fire, scanVars
<1>7. CASE RegisterOp(t)
  <2>1. CASE Register(t, Mine(t), i[t]) BY <1>7, <2>1, OutdateTyped DEF RegisterOp
  <2> QED BY <1>1, <1>7, <2>1 DEF RegisterOp
<1>8. CASE Snapshot(t)
  <2>1. Mine(t) \in Ops BY <1>0, <1>8, MineIs DEF Snapshot, Listless
  <2>2. Handle(t, Mine(t)).state \in Nat BY <2>1, StateIs
  <2>3. Append(states[t], Handle(t, Mine(t)).state) \in Seq(Nat) BY <1>0, <2>2
  <2>4. states' = [states EXCEPT ![t] = Append(states[t], Handle(t, Mine(t)).state)] /\ changed' = changed
    BY <1>8 DEF Snapshot
  <2> QED BY <1>0, <2>3, <2>4
<1>9. CASE Compare(t)
  <2> DEFINE n == Handle(t, Mine(t)).state
             q == states[t]
             d == changed[t] \/ states[t][i[t]] # n
  <2>1. Mine(t) \in Ops BY <1>0, <1>9, MineIs DEF Compare, Listless
  <2>2. n \in Nat BY <2>1, StateIs
  <2>3. states' = [states EXCEPT ![t] = [q EXCEPT ![i[t]] = n]] BY <1>9 DEF Compare
  <2>4. changed' = [changed EXCEPT ![t] = d /\ ~(i[t] = Len(ops[t]))] BY <1>9 DEF Compare
  <2>5. q \in Seq(Nat) /\ i[t] \in 1 .. Len(q) BY <1>0, <1>9 DEF Compare
  <2> HIDE DEF n, q, d
  <2>6. [q EXCEPT ![i[t]] = n] \in Seq(Nat) BY <2>2, <2>5
  <2>7. (d /\ ~(i[t] = Len(ops[t]))) \in BOOLEAN OBVIOUS
  <2>8. changed' \in [Threads -> BOOLEAN] BY <1>0, <2>4, <2>7
  <2> QED BY <1>0, <2>3, <2>6, <2>8
<1> QED BY <1>2, <1>3, <1>4, <1>5, <1>6, <1>7, <1>8, <1>9 DEF Step
-------------------------------------------------------------------------------
(* The steps of the call itself. *)

LEMMA SameAnswers ==
  ASSUME UNCHANGED <<head, tail, due, disconnected, entries, select>>
  PROVE  /\ \A o : LevelOf(o)' = LevelOf(o)
         /\ \A u, o : ReadyOf(u, o)' <=> ReadyOf(u, o)
         /\ \A u : ZeroStays(u)
<1>1. \A u, c, s : Wakeable(u, c, s)' = Wakeable(u, c, s) BY DEF Wakeable
<1>2. \A o : LevelOf(o)' = LevelOf(o) BY DEF LevelOf
<1>3. \A u, o : ReadyOf(u, o)' <=> ReadyOf(u, o) BY <1>1 DEF ReadyOf
<1>4. \A u : ZeroStays(u) BY <1>1 DEF ZeroStays
<1> QED BY <1>2, <1>3, <1>4

LEMMA RunSelectScan ==
  ASSUME Stepping, ScanTyped, NEW t \in Threads, NEW list \in Seq(Ops), NEW m \in Modes,
         RunSelect(t, list, m), Plain(m) => Len(list) = 1
  PROVE  ScanOK(t)' /\ NothingOK(t)'
<1>0. CallTyped /\ SharedTyped' BY DEF Stepping, Base, Typed
<1>1. PICK order \in Shuffled(list) : ops' = [ops EXCEPT ![t] = order] BY DEF RunSelect
<1>2. /\ order \in Seq(Ops) /\ Len(order) = Len(list)
      /\ \A k \in DOMAIN order : \E j \in DOMAIN list : order[k] = list[j]
  BY <1>1, ShuffledIs
<1>3. ops'[t] = order /\ mode'[t] = m /\ i'[t] = 1 BY <1>0, <1>1 DEF RunSelect, CallTyped
<1>4. Len(list) \in Nat /\ DOMAIN list = 1 .. Len(list) /\ DOMAIN order = 1 .. Len(list)
  BY <1>2, LenProperties
<1>5. states'[t] = <<>> BY RunSelectStates
<1>6. pc'[t] = IF m = "now" /\ Len(list) = 0 THEN "nothing"
               ELSE IF Len(list) = 0 \/ (Plain(m) /\ Flavor[list[1].chan] = "never") THEN "sleep"
               ELSE IF m = "now" /\ Len(list) > 1 THEN "snapshot"
               ELSE "try"
  BY <1>0 DEF RunSelect, Goto, CallTyped
<1>7. Len(states'[t]) = 0 BY <1>5, EmptyStates
<1>8. Several(t)' <=> m = "now" /\ Len(list) > 1 BY <1>2, <1>3 DEF Several
<1>9. ScanOK(t)' BY <1>2, <1>3, <1>4, <1>6, <1>7, <1>8 DEF ScanOK
<1>10. pc'[t] = "sleep" => \A k \in 1 .. Len(ops'[t]) : Flavor[ops'[t][k].chan] = "never"
  <2> SUFFICES ASSUME pc'[t] = "sleep", NEW k \in 1 .. Len(list) PROVE Flavor[order[k].chan] = "never"
    BY <1>2, <1>3
  <2>1. Plain(m) /\ Flavor[list[1].chan] = "never" BY <1>4, <1>6
  <2>2. PICK j \in DOMAIN list : order[k] = list[j] BY <1>2, <1>4
  <2>3. j = 1 BY <1>4, <2>1, <2>2
  <2> QED BY <2>1, <2>2, <2>3
<1>11. pc'[t] = "nothing" => Answering(t)' /\ unready'[t]
  <2> SUFFICES ASSUME pc'[t] = "nothing" PROVE Answering(t)' /\ unready'[t] OBVIOUS
  <2>1. m = "now" /\ Len(ops'[t]) = 0 BY <1>2, <1>3, <1>6
  <2>2. Answering(t)' BY <1>3, <2>1 DEF Answering
  <2>3. \A k \in 1 .. Len(ops'[t]), o \in Ops : o = ops'[t][k] => ~ReadyOf(t, o)' BY <2>1
  <2>4. Watch BY DEF Stepping
  <2>5. unready'[t] BY <1>0, <1>2, <1>3, <2>2, <2>3, <2>4, UnreadyNow
  <2> QED BY <2>2, <2>5
<1>12. pc'[t] \in {"nothing", "sleep", "snapshot", "try"} BY <1>6
<1>13. pc'[t] \notin Registering \cup {"accept", "late", "retry", "pause", "unpause", "compare"}
  BY <1>12 DEF Registering
<1>14. Plain(mode'[t]) => Len(ops'[t]) = 1 BY <1>2, <1>3
<1>15. pc'[t] = "try" => ~Several(t)' BY <1>4, <1>6, <1>8
<1>16. NothingOK(t)' BY <1>10, <1>11, <1>13, <1>14, <1>15 DEF NothingOK, Plain
<1> QED BY <1>9, <1>16

\* A call that has returned, and a handle that is dropped.
LEMMA IdleScan ==
  ASSUME NEW t \in Threads, pc'[t] = "idle", ops'[t] = <<>>, states'[t] = <<>>, mode'[t] = "now"
  PROVE  ScanOK(t)' /\ NothingOK(t)'
<1>1. Len(ops'[t]) = 0 /\ Len(states'[t]) = 0 BY EmptyStates
<1>2. ScanOK(t)' BY <1>1 DEF ScanOK
<1>3. NothingOK(t)' BY <1>1 DEF NothingOK, Plain, Registering
<1> QED BY <1>2, <1>3

LEMMA ReturnScan ==
  ASSUME Stepping, ScanTyped, NEW t \in Threads, NothingOK(t), NEW iterates, Return(t, iterates)
  PROVE  ScanOK(t)' /\ NothingOK(t)'
<1>0. CallTyped BY DEF Stepping, Base, Typed
<1>1. CASE iterates /\ mode[t] = "iter"
  <2>1. RunSelect(t, ops[t], mode[t]) BY <1>1 DEF Return
  <2>2. ops[t] \in Seq(Ops) /\ mode[t] \in Modes BY <1>0 DEF CallTyped
  <2>3. Plain(mode[t]) => Len(ops[t]) = 1 BY DEF NothingOK
  <2> QED BY <2>1, <2>2, <2>3, RunSelectScan
<1>2. CASE ~(iterates /\ mode[t] = "iter")
  <2>1. /\ Goto(t, "idle") /\ ops' = [ops EXCEPT ![t] = <<>>] /\ mode' = [mode EXCEPT ![t] = "now"]
        /\ states' = [states EXCEPT ![t] = <<>>]
    BY <1>2 DEF Return
  <2>2. pc'[t] = "idle" /\ ops'[t] = <<>> /\ states'[t] = <<>> /\ mode'[t] = "now"
    BY <1>0, <2>1 DEF Goto, CallTyped, ScanTyped
  <2> QED BY <2>2, IdleScan
<1> QED BY <1>1, <1>2

\* Where it does not matter what was found.
LEMMA OnwardScan ==
  ASSUME Stepping, ScanTyped, NEW t \in Threads, ScanOK(t), NothingOK(t), Marks(t),
         ops'[t] = ops[t], mode'[t] = mode[t],
         pc'[t] \notin {"sleep", "snapshot", "try", "compare", "nothing"},
         pc'[t] \in {"retry", "pause", "unpause"} => ~Plain(mode[t]),
         pc'[t] \in Registering \cup {"accept", "late"} /\ mode[t] = "recvAt" => unready'[t]
  PROVE  ScanOK(t)' /\ NothingOK(t)'
<1>1. Len(states'[t]) = Len(states[t]) BY DEF Marks
<1>2. \A k \in 1 .. Len(states'[t]) : Seen(t, k)' BY <1>1, SeenStays
<1>3. ScanOK(t)' BY <1>1, <1>2 DEF ScanOK
<1>4. NothingOK(t)' BY DEF NothingOK, Plain
<1> QED BY <1>3, <1>4

\* A step of a registration, or of an end that waits for the other thread.
LEMMA QuietScan ==
  ASSUME Stepping, Scan, NEW t \in Threads, Step(t),
         \/ UnregisterOp(t) \/ Pause(t) \/ Unpause(t) \/ Retry(t) \/ RegisterOp(t) \/ Check(t)
         \/ Abort(t) \/ Selected(t) \/ Wait(t) \/ Accept(t)
  PROVE  ScanOK(t)' /\ NothingOK(t)'
<1>0. /\ Typed /\ CallTyped /\ SharedTyped /\ CallsOK /\ ScanTyped /\ ScanOK(t) /\ NothingOK(t)
      /\ Base /\ Watch
  BY DEF Stepping, Base, Typed, Scan
<1>1. ops' = ops /\ mode' = mode
  BY DEF UnregisterOp, Pause, Unpause, Retry, RegisterOp, Check, Abort, Selected, Wait, Accept, Fire, callVars
<1>2. Marks(t)
  <2>1. CASE states' = states BY <1>0, <2>1, SameMarks
  <2>2. ASSUME NEW n, Register(t, Mine(t), n) PROVE Marks(t)
    <3>1. Outdate(t, Mine(t)) BY <2>2 DEF Register, Outdate
    <3> QED BY <1>0, <3>1, OutdateMarks
  <2> QED BY <2>1, <2>2 DEF UnregisterOp, Pause, Unpause, Retry, RegisterOp, Check, Abort, Selected, Wait,
                           Accept, Fire, scanVars
<1>3. CASE UnregisterOp(t) \/ RegisterOp(t) \/ Check(t) \/ Abort(t) \/ Selected(t) \/ Wait(t) \/ Accept(t)
  <2>1. pc[t] \in Registering \cup {"accept"}
    BY <1>3 DEF UnregisterOp, RegisterOp, Check, Abort, Selected, Wait, Accept, Registering
  <2>2. pc'[t] \in Registering \cup {"accept", "late", "complete"}
    BY <1>0, <1>3 DEF UnregisterOp, RegisterOp, Check, Abort, Selected, Wait, Accept, Registering, Fire,
                      Goto, CallTyped
  <2>3. mode[t] = "recvAt" => unready'[t]
    <3> SUFFICES ASSUME mode[t] = "recvAt" PROVE unready'[t] OBVIOUS
    <3>1. unready[t] BY <1>0, <2>1 DEF NothingOK
    <3>2. Answering(t)' BY <1>1 DEF Answering, Timed
    <3>3. pc'[t] # "idle" BY <2>2 DEF Registering
    <3> QED BY <1>0, <3>1, <3>2, <3>3, UnreadyStays
  <2>4. pc'[t] \notin {"sleep", "snapshot", "try", "compare", "nothing", "retry", "pause", "unpause"}
    BY <2>2 DEF Registering
  <2> QED BY <1>0, <1>1, <1>2, <2>3, <2>4, OnwardScan
<1>4. CASE Pause(t) \/ Unpause(t) \/ Retry(t)
  <2>1. pc[t] \in {"retry", "pause", "unpause"} BY <1>4 DEF Pause, Unpause, Retry
  <2>2. ~Plain(mode[t]) /\ mode[t] # "recvAt" BY <1>0, <2>1 DEF NothingOK, Plain
  <2>3. pc'[t] \in {"retry", "pause", "unpause", "register", "complete"}
    <3>1. ASSUME NextOp(t, "retry", "register") PROVE pc'[t] \in {"retry", "register"}
      BY <1>0, <3>1, NextOpCall DEF Labels
    <3> QED BY <1>0, <1>4, <3>1 DEF Pause, Unpause, Retry, Fire, Goto, CallTyped
  <2>4. pc'[t] \notin {"sleep", "snapshot", "try", "compare", "nothing"} BY <2>3
  <2> QED BY <1>0, <1>1, <1>2, <2>2, <2>4, OnwardScan
<1> QED BY <1>3, <1>4

LEMMA CompleteScan ==
  ASSUME Stepping, Scan, NEW t \in Threads, Step(t),
         \/ Nothing(t) \/ CompleteClosed(t) \/ CompleteSlot(t) \/ Wake(t) \/ CompletePacket(t)
         \/ CompleteTime(t) \/ Disconnect(t) \/ DisconnectSenders(t) \/ DisconnectReceivers(t)
  PROVE  ScanOK(t)' /\ NothingOK(t)'
<1>0. Typed /\ CallTyped /\ CallsOK /\ ScanTyped /\ ScanOK(t) /\ NothingOK(t)
  BY DEF Stepping, Base, Typed, Scan
<1>1. ASSUME NEW iterates, Return(t, iterates) PROVE ScanOK(t)' /\ NothingOK(t)'
  BY <1>0, <1>1, ReturnScan
<1>2. CASE /\ UNCHANGED <<ops, mode, states>>
           /\ pc'[t] \in {"wake", "idle", "wakeSenders", "wakeReceivers"}
  <2>1. Marks(t) BY <1>0, <1>2, SameMarks
  <2>2. pc'[t] \notin Registering \cup {"accept", "late", "sleep", "snapshot", "try", "compare", "nothing",
                                        "retry", "pause", "unpause"}
    BY <1>2 DEF Registering
  <2> QED BY <1>0, <1>2, <2>1, <2>2, OnwardScan
<1>3. CASE \/ Nothing(t) \/ CompleteClosed(t) \/ Wake(t) \/ CompletePacket(t) \/ CompleteTime(t)
  BY <1>1, <1>3 DEF Nothing, CompleteClosed, Wake, CompletePacket, CompleteTime
<1>4. CASE CompleteSlot(t)
  <2>1. CASE Goto(t, "wake") /\ UNCHANGED <<callVars, scanVars>>
    BY <1>0, <1>2, <2>1 DEF Goto, CallTyped, callVars, scanVars
  <2> QED BY <1>1, <1>4, <2>1 DEF CompleteSlot
<1>5. CASE Disconnect(t) \/ DisconnectSenders(t) \/ DisconnectReceivers(t)
  <2>1. UNCHANGED <<ops, mode, states>>
    BY <1>5 DEF Disconnect, DisconnectSenders, DisconnectReceivers, callVars, scanVars
  <2>2. pc'[t] \in {"wake", "idle", "wakeSenders", "wakeReceivers"}
    BY <1>0, <1>5 DEF Disconnect, DisconnectSenders, DisconnectReceivers, Goto, CallTyped
  <2> QED BY <1>2, <2>1, <2>2
<1> QED BY <1>3, <1>4, <1>5

LEMMA BeginScan ==
  ASSUME Stepping, Scan, NEW t \in Threads, Step(t), StartCall(t) \/ Sleep(t) \/ Late(t)
  PROVE  ScanOK(t)' /\ NothingOK(t)'
<1>0. /\ Typed /\ CallTyped /\ CallsOK /\ ScanTyped /\ ScanOK(t) /\ NothingOK(t) /\ Watch /\ SharedTyped'
      /\ ops[t] \in Seq(Ops) /\ mode[t] \in Modes
  BY DEF Stepping, Base, Typed, Scan, CallTyped
\* The call answers that nothing was ready.
<1>1. ASSUME pc' = [pc EXCEPT ![t] = "nothing"], UNCHANGED <<ops, mode, states>>, Timed(mode[t]),
             unready'[t]
      PROVE  ScanOK(t)' /\ NothingOK(t)'
  <2>1. pc'[t] = "nothing" BY <1>0, <1>1 DEF CallTyped
  <2>2. Marks(t) BY <1>0, <1>1, SameMarks
  <2>3. \A k \in 1 .. Len(states'[t]) : Seen(t, k)' BY <1>0, <1>1, <2>2, SeenStays
  <2>4. ScanOK(t)' BY <1>0, <1>1, <2>1, <2>3 DEF ScanOK
  <2>5. Answering(t)' BY <1>1 DEF Answering
  <2>6. Plain(mode'[t]) => Len(ops'[t]) = 1 BY <1>0, <1>1 DEF NothingOK
  <2>7. NothingOK(t)' BY <1>1, <2>1, <2>5, <2>6 DEF NothingOK, Registering, Plain
  <2> QED BY <2>4, <2>7
<1>2. CASE StartCall(t)
  <2>1. PICK call \in Calls[t] :
          /\ \A k \in DOMAIN call.ops : <<t, call.ops[k].chan, call.ops[k].side>> \in held
          /\ RunSelect(t, call.ops, call.mode)
    BY <1>2 DEF StartCall
  <2>2. call.ops \in Seq(Ops) /\ call.mode \in Modes BY <1>0, <2>1, CallIs
  <2>3. Plain(call.mode) => Len(call.ops) = 1 BY CallsAssumption DEF Plain
  <2> QED BY <1>0, <2>1, <2>2, <2>3, RunSelectScan
<1>3. CASE Sleep(t)
  <2>1. pc[t] = "sleep" /\ Timed(mode[t]) /\ pc' = [pc EXCEPT ![t] = "nothing"]
        /\ UNCHANGED <<ops, mode, states>>
    BY <1>3 DEF Sleep, Goto, callVars, scanVars
  <2>2. \A k \in 1 .. Len(ops'[t]) : Flavor[ops'[t][k].chan] = "never" BY <1>0, <2>1 DEF NothingOK
  <2>3. \A k \in 1 .. Len(ops'[t]), o \in Ops : o = ops'[t][k] => ~ReadyOf(t, o)'
    BY <2>2 DEF ReadyOf
  <2>4. Answering(t)' BY <2>1 DEF Answering
  <2>5. pc'[t] # "idle" BY <1>0, <2>1 DEF CallTyped
  <2>6. ops'[t] \in Seq(Ops) BY <1>0, <2>1
  <2>7. unready'[t] BY <1>0, <2>3, <2>4, <2>5, <2>6, UnreadyNow
  <2> QED BY <1>1, <2>1, <2>7
<1>4. CASE Late(t)
  <2>1. pc[t] = "late" BY <1>4 DEF Late
  <2>2. CASE mode[t] = "recvAt" /\ expired[t]
    <3>1. pc' = [pc EXCEPT ![t] = "nothing"] /\ UNCHANGED <<ops, mode, states>>
      BY <1>4, <2>2 DEF Late, Goto, scanVars
    <3>2. unready[t] BY <1>0, <2>1, <2>2 DEF NothingOK
    <3>3. Answering(t)' /\ Timed(mode[t]) BY <2>2, <3>1 DEF Answering, Timed
    <3>4. pc'[t] # "idle" BY <1>0, <3>1 DEF CallTyped
    <3>5. unready'[t] BY <1>0, <3>2, <3>3, <3>4, UnreadyStays
    <3> QED BY <1>1, <3>1, <3>3, <3>5
  <2>3. CASE ~(mode[t] = "recvAt" /\ expired[t])
    <3> DEFINE m == IF mode[t] = "at" /\ expired[t] THEN "now" ELSE mode[t]
    <3>1. RunSelect(t, ops[t], m) BY <1>4, <2>3 DEF Late
    <3>2. m \in Modes BY <1>0 DEF Modes
    <3>3. Plain(m) => Len(ops[t]) = 1 BY <1>0 DEF NothingOK, Plain
    <3> HIDE DEF m
    <3> QED BY <1>0, <3>1, <3>2, <3>3, RunSelectScan
  <2> QED BY <2>2, <2>3
<1> QED BY <1>2, <1>3, <1>4
-------------------------------------------------------------------------------
\* The loops over the operations: snapshot, try, compare.

LEMMA NextOpIs ==
  ASSUME CallTyped, NEW t \in Threads, NEW here, NEW there, NextOp(t, here, there)
  PROVE  \/ i[t] < Len(ops[t]) /\ pc'[t] = here /\ i'[t] = i[t] + 1
         \/ ~(i[t] < Len(ops[t])) /\ pc'[t] = there /\ i'[t] = 1
  BY DEF CallTyped, NextOp, Goto

LEMMA SnapshotScan ==
  ASSUME Stepping, Scan, NEW t \in Threads, Snapshot(t)
  PROVE  ScanOK(t)' /\ NothingOK(t)'
<1> DEFINE o == Mine(t)
           q == states[t]
           n == Len(ops[t])
<1>0. /\ Typed /\ CallTyped /\ CallsOK /\ ScanTyped /\ ScanOK(t) /\ NothingOK(t) /\ Base
      /\ pc[t] = "snapshot"
  BY DEF Stepping, Base, Typed, Scan, Snapshot
<1>1. i[t] \in 1 .. n /\ n \in Nat /\ o \in Ops /\ o = ops[t][i[t]]
  BY <1>0, MineIs DEF Listless, Mine
<1>2. Handle(t, o).state = LevelOf(o) /\ LevelOf(o) \in Nat BY <1>0, <1>1, StateIs
<1>3. q \in Seq(Nat) /\ Len(q) \in Nat /\ Len(q) + 1 = i[t] BY <1>0 DEF ScanTyped, ScanOK
<1>4. /\ states' = [states EXCEPT ![t] = Append(q, LevelOf(o))]
      /\ ops' = ops /\ mode' = mode
      /\ UNCHANGED <<head, tail, due, disconnected, entries, select>>
      /\ NextOp(t, "snapshot", "try")
  BY <1>2 DEF Snapshot, channelVars, handleVars, waitVars, callVars
<1>5. states'[t] = Append(q, LevelOf(o)) BY <1>0, <1>4 DEF ScanTyped
<1>6. Several(t) /\ Several(t)' BY <1>0, <1>4 DEF ScanOK, Several
<1> HIDE DEF q
<1>7. /\ Len(states'[t]) = i[t]
      /\ \A k \in 1 .. Len(q) : states'[t][k] = q[k]
      /\ states'[t][i[t]] = LevelOf(o)
  BY <1>2, <1>3, <1>5
<1>8. ASSUME NEW k \in 1 .. Len(states'[t]) PROVE Seen(t, k)'
  <2> SUFFICES ASSUME NEW x \in Ops, x = ops'[t][k] PROVE states'[t][k] <= LevelOf(x)' BY DEF Seen
  <2>1. LevelOf(x)' = LevelOf(x) /\ LevelOf(x) \in Nat BY <1>0, <1>4, SameAnswers, StateIs
  <2>2. CASE k \in 1 .. Len(q)
    <3>1. q[k] <= LevelOf(x) BY <1>0, <1>4, <2>2 DEF ScanOK, Seen, q
    <3> QED BY <1>7, <2>1, <2>2, <3>1
  <2>3. CASE k = i[t]
    <3>1. x = o BY <1>1, <1>4, <2>3
    <3> QED BY <1>7, <2>1, <2>3, <3>1
  <2>4. k \in 1 .. Len(q) \/ k = i[t] BY <1>3, <1>7
  <2> QED BY <2>2, <2>3, <2>4
<1>9. \/ i[t] < n /\ pc'[t] = "snapshot" /\ i'[t] = i[t] + 1
      \/ ~(i[t] < n) /\ pc'[t] = "try" /\ i'[t] = 1
  BY <1>0, <1>4, NextOpIs
<1>10. Len(ops'[t]) = n BY <1>4
<1> HIDE DEF n, o
<1>11. Len(states'[t]) <= n BY <1>1, <1>7
<1>12. ScanOK(t)' BY <1>1, <1>6, <1>7, <1>8, <1>9, <1>10, <1>11 DEF ScanOK
<1>13. \A k \in 1 .. n : pc'[t] = "try" => ~(k < i'[t]) BY <1>1, <1>9
<1>14. Plain(mode'[t]) => Len(ops'[t]) = 1 BY <1>0, <1>4 DEF NothingOK
<1>15. pc'[t] \notin Registering \cup {"accept", "late", "retry", "pause", "unpause", "compare", "sleep", "nothing"}
  BY <1>9 DEF Registering
<1>16. NothingOK(t)' BY <1>10, <1>13, <1>14, <1>15 DEF NothingOK, Plain
<1> QED BY <1>12, <1>16

\* An operation that is tried in vain is not ready, and all of them were not if none has moved since.
LEMMA TryScan ==
  ASSUME Stepping, Scan, NEW t \in Threads, Try(t)
  PROVE  ScanOK(t)' /\ NothingOK(t)'
<1> DEFINE n == Len(ops[t])
<1>0. /\ Typed /\ CallTyped /\ SharedTyped /\ SharedTyped' /\ CallsOK /\ ScanTyped /\ ScanOK(t) /\ NothingOK(t)
      /\ Base /\ Watch /\ pc[t] = "try"
  BY DEF Stepping, Base, Typed, Scan, Try
<1>1. /\ i[t] \in 1 .. n /\ n \in Nat /\ Mine(t) \in Ops /\ Mine(t) = ops[t][i[t]]
      /\ ops[t] \in Seq(Ops) /\ \A k \in 1 .. n : ops[t][k] \in Ops
  BY <1>0, MineIs, ElementOfSeq DEF Listless, Mine, CallTyped
<1>2. ops' = ops /\ mode' = mode /\ states' = states /\ changed' = changed
  BY DEF Try, Fire, callVars, scanVars
<1>3. Marks(t) BY <1>0, <1>2, SameMarks
<1>4. CASE Fire(t, Mine(t))
  <2>1. pc'[t] = "complete" BY <1>0, <1>4 DEF Fire, Goto, CallTyped
  <2>2. pc'[t] \notin Registering \cup {"accept", "late", "sleep", "snapshot", "try", "compare", "nothing",
                                        "retry", "pause", "unpause"}
    BY <2>1 DEF Registering
  <2> QED BY <1>0, <1>2, <1>3, <2>2, OnwardScan
<1>5. CASE ~Fire(t, Mine(t))
  <2> DEFINE there == CASE mode[t] = "now" /\ Len(ops[t]) = 1 -> "nothing"
                        [] mode[t] = "now" /\ Len(ops[t]) > 1 -> "compare"
                        [] Plain(mode[t]) -> "register"
                        [] OTHER -> "retry"
  <2>1. /\ ~Handle(t, Mine(t)).ready /\ NextOp(t, "try", there)
        /\ UNCHANGED <<head, tail, due, disconnected, entries, select>>
    BY <1>5 DEF Try, channelVars, handleVars, waitVars
  <2>2. ~ReadyOf(t, Mine(t)) BY <1>0, <1>1, <2>1, AnswersAre DEF Answers
  <2>3. /\ \A o : LevelOf(o)' = LevelOf(o)
        /\ \A u, o : ReadyOf(u, o)' <=> ReadyOf(u, o)
        /\ ZeroStays(t)
    BY <2>1, SameAnswers
  <2>4. \/ i[t] < n /\ pc'[t] = "try" /\ i'[t] = i[t] + 1
        \/ ~(i[t] < n) /\ pc'[t] = there /\ i'[t] = 1
    BY <1>0, <2>1, NextOpIs
  <2>5. Several(t)' <=> Several(t) BY <1>2 DEF Several
  <2>6. \A k \in 1 .. Len(states'[t]) : Seen(t, k)' BY <1>0, <1>2, <1>3, SeenStays
  <2>7. Plain(mode'[t]) => Len(ops'[t]) = 1 BY <1>0, <1>2 DEF NothingOK
  <2>8. CASE i[t] < n
    <3>1. pc'[t] = "try" /\ i'[t] = i[t] + 1 BY <2>4, <2>8
    <3>2. ScanOK(t)' BY <1>0, <1>2, <2>5, <2>6, <3>1 DEF ScanOK
    <3>3. ASSUME Several(t), NEW k \in 1 .. n, k < i'[t] PROVE Settled(t, k)'
      <4>1. CASE k < i[t]
        <5>1. Settled(t, k) BY <1>0, <3>3, <4>1 DEF NothingOK
        <5>2. k \in 1 .. Len(states[t]) BY <1>0, <3>3 DEF ScanOK
        <5> QED BY <1>0, <1>2, <1>3, <2>3, <5>1, <5>2, SettledStays
      <4>2. CASE k = i[t]
        <5> SUFFICES ASSUME NEW o \in Ops, o = ops'[t][k] PROVE ~ReadyOf(t, o)' BY DEF Settled
        <5>1. o = Mine(t) BY <1>1, <1>2, <4>2
        <5> QED BY <2>2, <2>3, <5>1
      <4> QED BY <1>1, <3>1, <3>3, <4>1, <4>2
    <3>4. pc'[t] \notin Registering \cup {"accept", "late", "retry", "pause", "unpause", "compare", "sleep", "nothing"}
      BY <3>1 DEF Registering
    <3>5. NothingOK(t)' BY <1>2, <2>5, <2>7, <3>3, <3>4 DEF NothingOK, Plain
    <3> QED BY <3>2, <3>5
  <2>9. CASE ~(i[t] < n)
    <3>1. pc'[t] = there /\ i'[t] = 1 /\ i[t] = n BY <1>1, <2>4, <2>9
    <3>2. ASSUME \A k \in 1 .. n, o \in Ops : o = ops[t][k] => ~ReadyOf(t, o),
                 pc'[t] # "idle", Answering(t)
          PROVE  unready'[t]
      <4>1. Answering(t)' BY <1>2, <3>2 DEF Answering
      <4>2. \A k \in 1 .. Len(ops'[t]), o \in Ops : o = ops'[t][k] => ~ReadyOf(t, o)'
        BY <1>2, <2>3, <3>2
      <4>3. ops'[t] \in Seq(Ops) BY <1>1, <1>2
      <4> QED BY <1>0, <3>2, <4>1, <4>2, <4>3, UnreadyNow
    <3>3. ASSUME n = 1 PROVE \A k \in 1 .. n, o \in Ops : o = ops[t][k] => ~ReadyOf(t, o)
      <4>1. i[t] = 1 BY <3>1, <3>3
      <4> QED BY <1>1, <2>2, <3>3, <4>1
    <3>4. CASE mode[t] = "now" /\ n = 1
      <4>1. pc'[t] = "nothing" BY <3>1, <3>4 DEF Plain
      <4>2. Answering(t) /\ Answering(t)' BY <1>2, <3>4 DEF Answering
      <4>3. unready'[t] BY <3>2, <3>3, <3>4, <4>1, <4>2
      <4>4. ScanOK(t)' BY <1>0, <1>2, <2>6, <4>1 DEF ScanOK
      <4>5. pc'[t] \notin Registering \cup {"accept", "late", "retry", "pause", "unpause", "compare", "sleep", "try"}
        BY <4>1 DEF Registering
      <4>6. NothingOK(t)' BY <2>7, <4>2, <4>3, <4>5 DEF NothingOK, Plain
      <4> QED BY <4>4, <4>6
    <3>5. CASE mode[t] = "now" /\ n > 1
      <4>1. pc'[t] = "compare" BY <1>1, <3>1, <3>5 DEF Plain
      <4>2. Answering(t) /\ Several(t) BY <3>5 DEF Answering, Several
      <4>3. Len(states[t]) = n BY <1>0, <4>2 DEF ScanOK
      <4>4. ScanOK(t)' BY <1>0, <1>2, <2>5, <2>6, <4>1, <4>2, <4>3 DEF ScanOK
      <4>5. \/ unready'[t] \/ Excused(t)'
            \/ \E k \in 1 .. Len(ops'[t]) : k >= i'[t] /\ Moved(t, k)'
        <5>1. CASE \A k \in 1 .. n, o \in Ops : o = ops[t][k] => ~ReadyOf(t, o)
          BY <3>2, <4>1, <4>2, <5>1
        <5>2. ASSUME NEW k \in 1 .. n, NEW o \in Ops, o = ops[t][k], ReadyOf(t, o)
              PROVE  \/ disconnected[o.chan]
                     \/ states[t][k] # LevelOf(o)
          <6>1. k < i[t]
            <7>1. k # i[t] BY <1>1, <2>2, <5>2
            <7> QED BY <1>1, <3>1, <7>1
          <6>2. Settled(t, k) BY <1>0, <4>2, <6>1 DEF NothingOK
          <6> QED BY <5>2, <6>2 DEF Settled
        <5>3. ASSUME NEW k \in 1 .. n, NEW o \in Ops, o = ops[t][k], disconnected[o.chan]
              PROVE  Excused(t)'
          <6>1. disconnected'[ops'[t][k].chan] BY <1>2, <2>1, <5>3
          <6> QED BY <1>2, <6>1 DEF Excused
        <5>4. ASSUME NEW k \in 1 .. n, NEW o \in Ops, o = ops[t][k], states[t][k] # LevelOf(o)
              PROVE  \E j \in 1 .. Len(ops'[t]) : j >= i'[t] /\ Moved(t, j)'
          <6>1. states'[t][k] # LevelOf(o)' BY <1>2, <2>3, <5>4
          <6>2. \A x \in Ops : x = ops'[t][k] => x = o BY <1>2, <5>4
          <6>3. Moved(t, k)' BY <6>1, <6>2 DEF Moved
          <6>4. k >= i'[t] /\ k \in 1 .. Len(ops'[t]) BY <1>1, <1>2, <3>1
          <6> QED BY <6>3, <6>4
        <5> QED BY <5>1, <5>2, <5>3, <5>4
      <4>6. pc'[t] \notin Registering \cup {"accept", "late", "retry", "pause", "unpause", "nothing", "sleep", "try"}
        BY <4>1 DEF Registering
      <4>7. NothingOK(t)' BY <2>7, <4>5, <4>6 DEF NothingOK, Plain
      <4> QED BY <4>4, <4>7
    <3>6. CASE mode[t] # "now" /\ Plain(mode[t])
      <4>1. pc'[t] = "register" BY <3>1, <3>6
      <4>2. n = 1 BY <1>0, <3>6 DEF NothingOK
      <4>3. mode[t] = "recvAt" => unready'[t]
        <5> SUFFICES ASSUME mode[t] = "recvAt" PROVE unready'[t] OBVIOUS
        <5>1. Answering(t) BY DEF Answering, Timed
        <5> QED BY <3>2, <3>3, <4>1, <4>2, <5>1
      <4>4. pc'[t] \notin {"sleep", "snapshot", "try", "compare", "nothing", "retry", "pause", "unpause"}
        BY <4>1
      <4> QED BY <1>0, <1>2, <1>3, <4>3, <4>4, OnwardScan
    <3>7. CASE mode[t] # "now" /\ ~Plain(mode[t])
      <4>1. pc'[t] = "retry" BY <3>1, <3>7
      <4>2. pc'[t] \notin {"sleep", "snapshot", "try", "compare", "nothing"}
            /\ pc'[t] \notin Registering \cup {"accept", "late"}
        BY <4>1 DEF Registering
      <4> QED BY <1>0, <1>2, <1>3, <3>7, <4>2, OnwardScan
    <3>8. n = 1 \/ n > 1
      <4>1. n \in Nat /\ i[t] \in 1 .. n BY <1>1
      <4> HIDE DEF n
      <4> QED BY <4>1
    <3> QED BY <3>4, <3>5, <3>6, <3>7, <3>8 DEF Plain
  <2> QED BY <2>8, <2>9
<1> QED BY <1>4, <1>5

\* A state that has moved since the last look is found to have, before the selection fails.
LEMMA CompareScan ==
  ASSUME Stepping, Scan, NEW t \in Threads, Compare(t)
  PROVE  ScanOK(t)' /\ NothingOK(t)'
<1> DEFINE o == Mine(t)
           q == states[t]
           n == Len(ops[t])
           d == changed[t] \/ q[i[t]] # LevelOf(o)
           there == IF d THEN "try" ELSE "nothing"
<1>0. /\ Typed /\ CallTyped /\ CallsOK /\ ScanTyped /\ ScanOK(t) /\ NothingOK(t) /\ Base
      /\ Watch /\ pc[t] = "compare"
  BY DEF Stepping, Base, Typed, Scan, Compare
<1>1. i[t] \in 1 .. n /\ n \in Nat /\ o \in Ops /\ o = ops[t][i[t]]
  BY <1>0, MineIs DEF Listless, Mine
<1>2. Handle(t, o).state = LevelOf(o) /\ LevelOf(o) \in Nat BY <1>0, <1>1, StateIs
<1>3. Several(t) /\ q \in Seq(Nat) /\ Len(q) = n BY <1>0 DEF ScanTyped, ScanOK
<1>4. /\ states' = [states EXCEPT ![t] = [q EXCEPT ![i[t]] = LevelOf(o)]]
      /\ changed' = [changed EXCEPT ![t] = d /\ ~(i[t] = n)]
      /\ ops' = ops /\ mode' = mode
      /\ UNCHANGED <<head, tail, due, disconnected, entries, select>>
      /\ NextOp(t, "compare", there)
  BY <1>0, <1>2 DEF Compare, channelVars, handleVars, waitVars, callVars
<1>5. states'[t] = [q EXCEPT ![i[t]] = LevelOf(o)] BY <1>0, <1>4 DEF ScanTyped
<1>6. changed'[t] = (d /\ ~(i[t] = n)) BY <1>0, <1>4 DEF ScanTyped
<1>7. Several(t)' /\ Answering(t) /\ Answering(t)' BY <1>3, <1>4 DEF Several, Answering
<1>8. \/ i[t] < n /\ pc'[t] = "compare" /\ i'[t] = i[t] + 1
      \/ ~(i[t] < n) /\ pc'[t] = there /\ i'[t] = 1
  BY <1>0, <1>4, NextOpIs
<1>9. \A x : LevelOf(x)' = LevelOf(x) BY <1>4, SameAnswers
<1>10. Len(ops'[t]) = n /\ ops'[t] = ops[t] BY <1>4
<1>11. unready[t] => unready'[t]
  <2>1. pc'[t] # "idle" BY <1>8
  <2> QED BY <1>0, <1>7, <2>1, UnreadyStays
<1>12. Excused(t) => Excused(t)' BY <1>4 DEF Excused
<1>13. Plain(mode'[t]) => Len(ops'[t]) = 1 BY <1>0, <1>4 DEF NothingOK
<1> HIDE DEF q, n
<1>14. /\ Len(states'[t]) = n
       /\ \A k \in 1 .. n : k # i[t] => states'[t][k] = q[k]
       /\ states'[t][i[t]] = LevelOf(o)
  BY <1>1, <1>2, <1>3, <1>5
<1> HIDE DEF o
<1>15. ASSUME NEW k \in 1 .. Len(states'[t]) PROVE Seen(t, k)'
  <2> SUFFICES ASSUME NEW x \in Ops, x = ops'[t][k] PROVE states'[t][k] <= LevelOf(x)' BY DEF Seen
  <2>1. LevelOf(x)' = LevelOf(x) BY <1>9
  <2>2. CASE k # i[t]
    <3>1. k \in 1 .. Len(q) BY <1>3, <1>14
    <3>2. q[k] <= LevelOf(x) BY <1>0, <1>10, <3>1 DEF ScanOK, Seen, q
    <3>3. states'[t][k] = q[k] BY <1>14, <2>2
    <3> QED BY <2>1, <3>2, <3>3
  <2>3. CASE k = i[t]
    <3>1. x = o BY <1>1, <1>10, <2>3
    <3> QED BY <1>2, <1>14, <2>1, <2>3, <3>1
  <2> QED BY <2>2, <2>3
\* What was found to have moved is remembered; what has moved further on is still to be found.
<1>16. \/ unready'[t] \/ d \/ Excused(t)'
       \/ \E k \in 1 .. n : k > i[t] /\ Moved(t, k)'
  <2>1. ASSUME NEW k \in 1 .. n, k >= i[t], Moved(t, k)
        PROVE  d \/ (k > i[t] /\ Moved(t, k)')
    <3>1. CASE k = i[t] BY <1>1, <2>1, <3>1 DEF Moved, q
    <3>2. CASE k # i[t]
      <4>1. k > i[t] BY <1>1, <2>1, <3>2
      <4>2. Moved(t, k)'
        <5> SUFFICES ASSUME NEW x \in Ops, x = ops'[t][k] PROVE states'[t][k] # LevelOf(x)' BY DEF Moved
        <5>1. q[k] # LevelOf(x) BY <1>10, <2>1 DEF Moved, q
        <5>2. states'[t][k] = q[k] BY <1>14, <3>2
        <5> QED BY <1>9, <5>1, <5>2
      <4> QED BY <4>1, <4>2
    <3> QED BY <3>1, <3>2
  <2>2. unready[t] \/ changed[t] \/ Excused(t) \/ \E k \in 1 .. n : k >= i[t] /\ Moved(t, k)
    BY <1>0 DEF NothingOK, n
  <2> QED BY <1>11, <1>12, <2>1, <2>2
<1>17. CASE i[t] < n
  <2>1. pc'[t] = "compare" /\ i'[t] = i[t] + 1 BY <1>8, <1>17
  <2>2. ScanOK(t)' BY <1>7, <1>10, <1>14, <1>15, <2>1 DEF ScanOK
  <2>3. d => changed'[t]
    <3>1. i[t] # n BY <1>1, <1>17
    <3> QED BY <1>6, <3>1
  <2>4. \/ unready'[t] \/ changed'[t] \/ Excused(t)'
        \/ \E k \in 1 .. Len(ops'[t]) : k >= i'[t] /\ Moved(t, k)'
    <3>1. \A k \in 1 .. n : k > i[t] => k >= i'[t] BY <1>1, <2>1
    <3> QED BY <1>10, <1>16, <2>3, <3>1
  <2>5. pc'[t] \notin Registering \cup {"accept", "late", "retry", "pause", "unpause", "nothing", "sleep", "try"}
    BY <2>1 DEF Registering
  <2>6. NothingOK(t)' BY <1>13, <2>4, <2>5 DEF NothingOK, Plain
  <2> QED BY <2>2, <2>6
<1>18. CASE ~(i[t] < n)
  <2>1. pc'[t] = there /\ i'[t] = 1 /\ i[t] = n BY <1>1, <1>8, <1>18
  <2>2. \A k \in 1 .. n : ~(k > i[t]) /\ ~(k < i'[t]) BY <1>1, <2>1
  <2>3. pc'[t] \in {"try", "nothing"} BY <2>1
  <2>4. ScanOK(t)' BY <1>7, <1>10, <1>14, <1>15, <2>3 DEF ScanOK
  <2>5. pc'[t] = "nothing" => Answering(t)' /\ (unready'[t] \/ Excused(t)')
    <3>1. pc'[t] = "nothing" => ~d BY <2>1
    <3> QED BY <1>7, <1>16, <2>2, <3>1
  <2>6. pc'[t] \notin Registering \cup {"accept", "late", "retry", "pause", "unpause", "compare", "sleep"}
    BY <2>3 DEF Registering
  <2>7. NothingOK(t)' BY <1>10, <1>13, <2>2, <2>5, <2>6 DEF NothingOK, Plain
  <2> QED BY <2>4, <2>7
<1> QED BY <1>17, <1>18

LEMMA StepScan ==
  ASSUME Stepping, Scan, NEW t \in Threads, Step(t)
  PROVE  Scan'
<1>0. /\ Typed /\ CallTyped /\ CallsOK /\ ScanTyped /\ Base /\ Watch
      /\ \A u \in Threads : ScanOK(u) /\ NothingOK(u)
  BY DEF Stepping, Base, Typed, Scan
<1>1. ScanTyped'
  <2>1. pc[t] = "compare" => i[t] \in 1 .. Len(states[t])
    <3> SUFFICES ASSUME pc[t] = "compare" PROVE i[t] \in 1 .. Len(states[t]) OBVIOUS
    <3>1. i[t] \in 1 .. Len(ops[t]) BY <1>0, MineIs DEF Listless
    <3>2. Len(states[t]) = Len(ops[t]) BY <1>0 DEF ScanOK
    <3> QED BY <3>1, <3>2
  <2>2. states' \in [Threads -> Seq(Nat)] /\ changed' \in [Threads -> BOOLEAN]
    BY <1>0, <2>1, StepScanTyped
  <2> QED BY <1>0, <2>2, WatchTyped DEF ScanTyped
<1>2. ScanOK(t)' /\ NothingOK(t)'
  BY CompareScan, SnapshotScan, TryScan, BeginScan, CompleteScan, QuietScan DEF Step
<1>3. ASSUME NEW u \in Threads \ {t} PROVE ScanOK(u)' /\ NothingOK(u)'
  <2>1. Len(states[u]) <= Len(ops[u]) BY <1>0 DEF ScanOK
  <2>2. Marks(u) /\ ZeroStays(u) /\ changed'[u] = changed[u] BY <1>0, <2>1, OthersStates
  <2>3. pc'[u] = pc[u] /\ i'[u] = i[u] /\ ops'[u] = ops[u] /\ mode'[u] = mode[u]
    BY <1>0, StepOwn DEF Own
  <2> QED BY <1>0, <2>2, <2>3, OthersScan
<1> QED BY <1>1, <1>2, <1>3 DEF Scan

\* A handle that is dropped or cloned, and time.
LEMMA AsideScan ==
  ASSUME Stepping, Scan,
         UNCHANGED <<entries, select, i, ops, mode, states, changed>>,
         \A u \in Threads : pc'[u] = pc[u] \/ (pc[u] = "idle" /\ pc'[u] = "disconnect")
  PROVE  Scan'
<1>0. ScanTyped /\ Watch /\ \A u \in Threads : ScanOK(u) /\ NothingOK(u) BY DEF Scan, Stepping
<1>1. ScanTyped' BY <1>0, WatchTyped DEF ScanTyped
<1>2. \A u, c, s : Wakeable(u, c, s)' = Wakeable(u, c, s) BY DEF Wakeable
<1>3. ASSUME NEW u \in Threads PROVE ScanOK(u)' /\ NothingOK(u)'
  <2>1. ZeroStays(u) BY <1>2 DEF ZeroStays
  <2>2. Marks(u) BY <1>0, SameMarks
  <2> QED BY <1>0, <2>1, <2>2, OthersScan
<1> QED BY <1>1, <1>3 DEF Scan

LEMMA StillScan ==
  ASSUME Scan, UNCHANGED vars
  PROVE  Scan'
<1>0. /\ UNCHANGED <<head, tail, due, disconnected, entries, select, pc, i, ops, mode, states, changed>>
      /\ unready' = unready
  BY DEF vars, channelVars, handleVars, waitVars, callVars, scanVars
<1>1. ScanTyped' BY <1>0 DEF Scan, ScanTyped
<1>2. \A o : LevelOf(o)' = LevelOf(o) BY <1>0, SameAnswers
<1>3. \A u, o : ReadyOf(u, o)' <=> ReadyOf(u, o) BY <1>0, SameAnswers
<1>4. ASSUME NEW u \in Threads PROVE ScanOK(u)' /\ NothingOK(u)'
  <2>1. ScanOK(u) /\ NothingOK(u) BY DEF Scan
  <2>2. \A k : Seen(u, k)' <=> Seen(u, k) BY <1>0, <1>2 DEF Seen
  <2>3. \A k : Moved(u, k)' <=> Moved(u, k) BY <1>0, <1>2 DEF Moved
  <2>4. \A k : Settled(u, k)' <=> Settled(u, k) BY <1>0, <1>2, <1>3 DEF Settled
  <2>5. (Excused(u)' <=> Excused(u)) /\ (Answering(u)' <=> Answering(u)) /\ (Several(u)' <=> Several(u))
    BY <1>0 DEF Excused, Answering, Several
  <2>6. ScanOK(u)' BY <1>0, <2>1, <2>2, <2>5 DEF ScanOK
  <2>7. NothingOK(u)' BY <1>0, <2>1, <2>3, <2>4, <2>5 DEF NothingOK
  <2> QED BY <2>6, <2>7
<1> QED BY <1>1, <1>4 DEF Scan

LEMMA ScanInit == Init => Scan
<1> SUFFICES ASSUME Init PROVE Scan OBVIOUS
<1>1. /\ states = [t \in Threads |-> <<>>] /\ ops = [t \in Threads |-> <<>>]
      /\ pc = [t \in Threads |-> "idle"] /\ mode = [t \in Threads |-> "now"]
      /\ changed = [t \in Threads |-> FALSE] /\ unready = [t \in Threads |-> FALSE]
  BY DEF Init
<1>2. ScanTyped BY <1>1, EmptyStates DEF ScanTyped
<1>3. ASSUME NEW t \in Threads PROVE ScanOK(t) /\ NothingOK(t)
  <2>1. states[t] = <<>> /\ ops[t] = <<>> /\ pc[t] = "idle" /\ mode[t] = "now" BY <1>1
  <2>2. ScanOK(t) BY <2>1, EmptyStates DEF ScanOK
  <2>3. NothingOK(t) BY <2>1 DEF NothingOK, Plain, Registering
  <2> QED BY <2>2, <2>3
<1> QED BY <1>2, <1>3 DEF Scan

LEMMA ScanStep == Base /\ QueuesOK /\ Scan /\ [Next]_vars => Scan'
<1> SUFFICES ASSUME Base, QueuesOK, Scan, [Next]_vars PROVE Scan' OBVIOUS
<1>1. CASE UNCHANGED vars BY <1>1, StillScan
<1>2. CASE Next
  <2>1. Base' /\ QueuesOK' BY <1>2, BaseStep, QueuesStep
  <2>2. Forward /\ Grows BY NextForward
  <2>3. Watch BY <1>2 DEF Next
  <2>4. Stepping BY <2>1, <2>2, <2>3 DEF Stepping
  <2>5. ASSUME NEW t \in Threads, Step(t) PROVE Scan' BY <2>4, <2>5, StepScan
  <2>6. ASSUME NEW t \in Threads, DropHandle(t) PROVE Scan'
    <3>1. UNCHANGED <<entries, select, i, ops, mode, states, changed>>
      BY <2>6 DEF DropHandle, waitVars, callVars, scanVars
    <3>2. pc[t] = "idle" /\ (pc' = pc \/ pc' = [pc EXCEPT ![t] = "disconnect"])
      BY <2>6 DEF DropHandle, Goto
    <3>3. CallTyped BY DEF Base, Typed
    <3>4. \A u \in Threads : pc'[u] = pc[u] \/ (pc[u] = "idle" /\ pc'[u] = "disconnect")
      BY <3>2, <3>3 DEF CallTyped
    <3> QED BY <2>4, <3>1, <3>4, AsideScan
  <2>7. ASSUME NEW t \in Threads, CloneHandle(t) \/ Expire(t) PROVE Scan'
    <3>1. UNCHANGED <<entries, select, i, ops, mode, states, changed, pc>>
      BY <2>7 DEF CloneHandle, Expire, waitVars, callVars, scanVars
    <3> QED BY <2>4, <3>1, AsideScan
  <2>8. ASSUME NEW c \in Channels, TimerFires(c) PROVE Scan'
    <3>1. UNCHANGED <<entries, select, i, ops, mode, states, changed, pc>>
      BY <2>8 DEF TimerFires, waitVars, callVars, scanVars
    <3> QED BY <2>4, <3>1, AsideScan
  <2> QED BY <1>2, <2>5, <2>6, <2>7, <2>8 DEF Next
<1> QED BY <1>1, <1>2

\* A call answers that nothing was ready only if there was a moment of the call when no operation
\* was, unless one of its channels is disconnected: that is all the comparison of the states
\* (select.rs:222) can miss.
THEOREM NothingCorrect == Spec => []NoneExcused
<1>1. Base /\ Scan => NoneExcused
  <2> SUFFICES ASSUME Base, Scan, NEW t \in Threads, pc[t] = "nothing"
               PROVE  unready[t] \/ \E k \in DOMAIN ops[t] : disconnected[ops[t][k].chan]
    BY DEF NoneExcused
  <2>1. unready[t] \/ Excused(t) BY DEF Scan, NothingOK
  <2>2. ops[t] \in Seq(Ops) BY DEF Base, Typed, CallTyped
  <2>3. DOMAIN ops[t] = 1 .. Len(ops[t]) BY <2>2, LenProperties
  <2> QED BY <2>1, <2>3 DEF Excused
<1> QED BY <1>1, BaseInit, BaseStep, QueuesInit, QueuesStep, ScanInit, ScanStep, PTL DEF Spec
===============================================================================

--------------------------- MODULE ArrayQueueProofs ---------------------------
(* Proofs about ArrayQueue, for every set of threads and every capacity. *)
EXTENDS ArrayQueue, TLAPS

LEMMA StampFacts ==
  /\ \A l \in Nat, i \in 0 .. Cap - 1 : Stamp(l, i) \in Stamps
  /\ \A st \in Stamps : LapLater(st) \in Stamps /\ Advance(st) \in Stamps
BY CapAssumption DEF Stamp, Stamps, LapLater, Advance

LEMMA AtOrBeforeTransitive ==
  ASSUME NEW a \in Stamps, NEW b \in Stamps, NEW c \in Stamps,
         AtOrBefore(a, b), AtOrBefore(b, c)
  PROVE  AtOrBefore(a, c)
<1>1. /\ a.lap \in Nat /\ b.lap \in Nat /\ c.lap \in Nat
      /\ a.index \in 0 .. Cap - 1 /\ b.index \in 0 .. Cap - 1 /\ c.index \in 0 .. Cap - 1
  BY DEF Stamps
<1> QED
  BY <1>1, CapAssumption DEF AtOrBefore

\* The numbers inside the records, for the steps that only do arithmetic.
LEMMA TypedParts ==
  ASSUME TypeOK
  PROVE  /\ head \in Stamps /\ head.lap \in Nat /\ head.index \in 0 .. Cap - 1
         /\ tail \in Stamps /\ tail.lap \in Nat /\ tail.index \in 0 .. Cap - 1
         /\ \A t \in Threads :
              seen[t] \in Stamps /\ seen[t].lap \in Nat /\ seen[t].index \in 0 .. Cap - 1
         /\ \A i \in 0 .. Cap - 1 :
              /\ slots[i].stamp \in Stamps
              /\ slots[i].stamp.lap \in Nat /\ slots[i].stamp.index \in 0 .. Cap - 1
BY DEF TypeOK, Stamps

LEMMA InitTypeOK == Init => TypeOK
<1> SUFFICES ASSUME Init PROVE TypeOK
  OBVIOUS
<1> USE DEF Init
<1>1. Stamp(0, 0) \in Stamps /\ Stamp(1, 0) \in Stamps /\ \A i \in 0 .. Cap - 1 : Stamp(0, i) \in Stamps
  BY CapAssumption, StampFacts
<1>2. slots \in [0 .. Cap - 1 -> [stamp : Stamps, msg : Messages \cup {NoMsg}]]
  BY <1>1
<1>3. pc \in [Threads -> {"idle"}] /\ count \in [Senders -> 0 .. MaxSends]
  BY BoundAssumption
<1>4. \A t \in Threads : pc[t] \notin SendLabels \cup RecvLabels
  BY DEF SendLabels, RecvLabels
<1> QED
  BY <1>1, <1>2, <1>3, <1>4 DEF TypeOK, Threads

\* A message is put into a slot.
LEMMA SlotWritten ==
  ASSUME TypeOK, NEW t \in Threads
  PROVE  [slots EXCEPT ![seen[t].index].msg = msg[t]]
           \in [0 .. Cap - 1 -> [stamp : Stamps, msg : Messages \cup {NoMsg}]]
<1> DEFINE Slot == [stamp : Stamps, msg : Messages \cup {NoMsg}]
           i == seen[t].index
<1>1. /\ slots \in [0 .. Cap - 1 -> Slot] /\ msg[t] \in Messages \cup {NoMsg}
      /\ i \in 0 .. Cap - 1
  BY TypedParts DEF TypeOK
<1>2. [slots[i] EXCEPT !.msg = msg[t]] \in Slot
  BY <1>1
<1> HIDE DEF Slot, i
<1>3. [slots EXCEPT ![i] = [slots[i] EXCEPT !.msg = msg[t]]] \in [0 .. Cap - 1 -> Slot]
  BY <1>1, <1>2
<1> QED
  BY <1>3 DEF Slot, i

\* The type invariant is inductive by itself.
LEMMA NextTypeOK == TypeOK /\ [Next]_vars => TypeOK'
<1> SUFFICES ASSUME TypeOK, [Next]_vars PROVE TypeOK'
  OBVIOUS
<1> USE CapAssumption, BoundAssumption, ThreadAssumption, StampFacts
<1> USE DEF TypeOK, Threads, SendLabels, RecvLabels, Answered, Writing, Goto, queueVars, SlotOf
<1>1. ASSUME NEW s \in Senders, BeginSend(s) PROVE TypeOK'
  BY <1>1 DEF BeginSend, Messages
<1>2. ASSUME NEW s \in Senders, LoadTail(s) PROVE TypeOK'
  BY <1>2 DEF LoadTail
<1>3. ASSUME NEW s \in Senders, LoadSendStamp(s) PROVE TypeOK'
  BY <1>3 DEF LoadSendStamp
<1>4. ASSUME NEW s \in Senders, CasTail(s) PROVE TypeOK'
  <2>1. tail' \in Stamps
    BY <1>4 DEF CasTail
  <2>2. count[s] + 1 \in 0 .. MaxSends
    BY <1>4 DEF CasTail
  <2>3. count' \in [Senders -> 0 .. MaxSends]
    BY <1>4, <2>2 DEF CasTail
  <2>4. \A z \in Senders : pc'[z] \in SendLabels /\ ~Writing(z)' => z # s /\ pc[z] = pc'[z]
    BY <1>4 DEF CasTail
  <2>5. \A z \in Senders \ {s} : count'[z] = count[z]
    BY <1>4 DEF CasTail
  <2> QED
    BY <1>4, <2>1, <2>3, <2>4, <2>5 DEF CasTail
<1>5. ASSUME NEW s \in Senders, CasTailFails(s) PROVE TypeOK'
  BY <1>5 DEF CasTailFails
<1>6. ASSUME NEW s \in Senders, LoadHeadWhenFull(s) PROVE TypeOK'
  BY <1>6 DEF LoadHeadWhenFull
<1>7. ASSUME NEW s \in Senders, WriteMsg(s) PROVE TypeOK'
  <2>1. slots' \in [0 .. Cap - 1 -> [stamp : Stamps, msg : Messages \cup {NoMsg}]]
    <3>1. slots' = [slots EXCEPT ![seen[s].index].msg = msg[s]]
      BY <1>7 DEF WriteMsg
    <3> HIDE DEF TypeOK
    <3> QED
      BY <3>1, SlotWritten
  <2>2. \A z \in Senders : Writing(z)' => Writing(z)
    BY <1>7 DEF WriteMsg
  <2> QED
    BY <1>7, <2>1, <2>2 DEF WriteMsg
<1>8. ASSUME NEW s \in Senders, Publish(s) PROVE TypeOK'
  BY <1>8 DEF Publish
<1>9. ASSUME NEW r \in Receivers, BeginRecv(r) PROVE TypeOK'
  BY <1>9 DEF BeginRecv
<1>10. ASSUME NEW r \in Receivers, LoadHead(r) PROVE TypeOK'
  BY <1>10 DEF LoadHead
<1>11. ASSUME NEW r \in Receivers, LoadRecvStamp(r) PROVE TypeOK'
  BY <1>11 DEF LoadRecvStamp
<1>12. ASSUME NEW r \in Receivers, CasHead(r) PROVE TypeOK'
  BY <1>12 DEF CasHead
<1>13. ASSUME NEW r \in Receivers, CasHeadFails(r) PROVE TypeOK'
  BY <1>13 DEF CasHeadFails
<1>14. ASSUME NEW r \in Receivers, LoadTailWhenEmpty(r) PROVE TypeOK'
  BY <1>14 DEF LoadTailWhenEmpty
<1>15. ASSUME NEW r \in Receivers, CheckDisconnected(r) PROVE TypeOK'
  BY <1>15 DEF CheckDisconnected
<1>16. ASSUME NEW r \in Receivers, ReloadTail(r) PROVE TypeOK'
  BY <1>16 DEF ReloadTail
<1>17. ASSUME NEW r \in Receivers, ReadMsg(r) PROVE TypeOK'
  <2>1. SlotOf(r).msg \in Messages \cup {NoMsg}
    BY DEF Stamps
  <2> QED
    BY <1>17, <2>1 DEF ReadMsg
<1>18. ASSUME NEW r \in Receivers, Release(r) PROVE TypeOK'
  BY <1>18 DEF Release
<1>19. ASSUME NEW t \in Threads, Return(t) PROVE TypeOK'
  BY <1>19 DEF Return
<1>20. ASSUME NEW t \in Threads, DropHandle(t) PROVE TypeOK'
  BY <1>20 DEF DropHandle
<1>21. ASSUME UNCHANGED vars PROVE TypeOK'
  BY <1>21 DEF vars
<1> QED
  BY <1>1, <1>2, <1>3, <1>4, <1>5, <1>6, <1>7, <1>8, <1>9, <1>10, <1>11, <1>12, <1>13, <1>14,
     <1>15, <1>16, <1>17, <1>18, <1>19, <1>20, <1>21
  DEF Next, SendStep, RecvStep, Terminated

\* Every reachable state is well typed.
THEOREM TypeCorrect == Spec => []TypeOK
BY InitTypeOK, NextTypeOK, PTL DEF Spec
-------------------------------------------------------------------------------
(* The inductive invariant. *)

LEMMA InitIInv == Init => IInv
<1> SUFFICES ASSUME Init PROVE IInv
  OBVIOUS
<1> USE CapAssumption DEF Init, Stamp
<1>1. \A z \in Threads : pc[z] = "idle"
  OBVIOUS
<1>2. head.lap = 1 /\ head.index = 0 /\ tail.lap = 0 /\ tail.index = 0
  OBVIOUS
<1>3. \A i \in 0 .. Cap - 1 :
        slots[i].stamp.index = i /\ slots[i].stamp.lap = 0 /\ WriteLap(i) = 0 /\ ReadLap(i) = 1
  BY <1>2 DEF WriteLap, ReadLap
<1>4. OrderOK /\ SlotsOK /\ ContentOK
  BY <1>2, <1>3 DEF OrderOK, SlotsOK, ContentOK, Held, Free
<1> QED
  BY <1>1, <1>4 DEF IInv, WritersOK, ReadersOK, SeenOK, Writing, Reading, Threads

\* A step that moves no shared word and that no thread between its
\* compare-exchange and its store takes, but for reading the message.
LEMMA QuietStep ==
  ASSUME IInv, UNCHANGED queueVars,
         \A s \in Senders :
           /\ Writing(s)' <=> Writing(s)
           /\ Writing(s) => pc'[s] = pc[s] /\ seen'[s] = seen[s] /\ msg'[s] = msg[s],
         \A r \in Receivers :
           /\ Reading(r)' <=> Reading(r)
           /\ Reading(r) => seen'[r] = seen[r]
  PROVE  OrderOK' /\ SlotsOK' /\ WritersOK' /\ ReadersOK' /\ ContentOK'
<1> USE DEF queueVars, IInv
<1>1. \A i : WriteLap(i)' = WriteLap(i) /\ ReadLap(i)' = ReadLap(i)
  BY DEF WriteLap, ReadLap
<1>2. \A i : (Held(i)' <=> Held(i)) /\ (Free(i)' <=> Free(i))
  BY <1>1 DEF Held, Free
<1>3. OrderOK' /\ SlotsOK'
  BY <1>1, <1>2 DEF OrderOK, SlotsOK
<1>4. WritersOK'
  BY <1>1 DEF WritersOK, SlotOf
<1>5. ReadersOK'
  BY <1>1 DEF ReadersOK, SlotOf
<1>6. ContentOK'
  BY <1>1, <1>2 DEF ContentOK
<1> QED
  BY <1>3, <1>4, <1>5, <1>6

\* SeenOK also depends on the stamps, but only on their laps not going back.
LEMMA SeenStays ==
  ASSUME TypeOK, TypeOK', SeenOK,
         AtOrBefore(tail, tail'), AtOrBefore(head, head'),
         \A i \in 0 .. Cap - 1 : slots[i].stamp.lap <= slots'[i].stamp.lap,
         NEW t \in Threads, \A z \in Threads \ {t} : pc'[z] = pc[z] /\ seen'[z] = seen[z],
         pc'[t] \notin {"send_load_stamp", "send_cas", "send_load_head", "recv_load_stamp",
                       "recv_cas", "recv_load_tail", "recv_check_disc", "recv_reload_tail"}
  PROVE  SeenOK'
<1> USE DEF Threads
<1>1. /\ tail \in Stamps /\ tail' \in Stamps /\ head \in Stamps /\ head' \in Stamps
      /\ \A z \in Threads : seen[z] \in Stamps /\ seen[z].index \in 0 .. Cap - 1 /\ seen[z].lap \in Nat
      /\ \A i \in 0 .. Cap - 1 : slots[i].stamp.lap \in Nat /\ slots'[i].stamp.lap \in Nat
  <2>1. tail' \in Stamps /\ head' \in Stamps /\ \A i \in 0 .. Cap - 1 : slots'[i].stamp.lap \in Nat
    BY DEF TypeOK, Stamps
  <2> QED
    BY <2>1, TypedParts
<1>2. \A z \in Threads : AtOrBefore(seen[z], tail) => AtOrBefore(seen[z], tail')
  BY <1>1, AtOrBeforeTransitive
<1>3. \A z \in Threads : AtOrBefore(seen[z], head) => AtOrBefore(seen[z], head')
  BY <1>1, AtOrBeforeTransitive
<1>4. \A z \in Threads \ {t} :
        SlotOf(z).stamp.lap >= seen[z].lap => SlotOf(z)'.stamp.lap >= seen'[z].lap
  BY <1>1 DEF SlotOf
<1>5. \A s \in Senders : pc'[s] \in {"send_load_stamp", "send_cas", "send_load_head"} =>
        s # t /\ pc[s] = pc'[s] /\ seen'[s] = seen[s]
  OBVIOUS
<1>6. \A r \in Receivers : pc'[r] \in {"recv_load_stamp", "recv_cas", "recv_load_tail",
                                       "recv_check_disc", "recv_reload_tail"} =>
        r # t /\ pc[r] = pc'[r] /\ seen'[r] = seen[r]
  OBVIOUS
<1> QED
  BY <1>2, <1>3, <1>4, <1>5, <1>6 DEF SeenOK

\* A quiet step of one thread.
LEMMA QuietCall ==
  ASSUME TypeOK, TypeOK', IInv, UNCHANGED queueVars, NEW t \in Threads,
         ~Writing(t), ~Writing(t)', Reading(t)' <=> Reading(t), Reading(t) => seen'[t] = seen[t],
         \A z \in Threads \ {t} : pc'[z] = pc[z] /\ seen'[z] = seen[z] /\ msg'[z] = msg[z]
  PROVE  /\ OrderOK' /\ SlotsOK' /\ WritersOK' /\ ReadersOK' /\ ContentOK'
         /\ pc'[t] \notin {"send_load_stamp", "send_cas", "send_load_head", "recv_load_stamp",
                          "recv_cas", "recv_load_tail", "recv_check_disc", "recv_reload_tail"}
            => SeenOK'
<1>1. /\ \A s \in Senders :
           /\ Writing(s)' <=> Writing(s)
           /\ Writing(s) => pc'[s] = pc[s] /\ seen'[s] = seen[s] /\ msg'[s] = msg[s]
      /\ \A r \in Receivers :
           /\ Reading(r)' <=> Reading(r)
           /\ Reading(r) => seen'[r] = seen[r]
  BY DEF Writing, Reading, Threads
<1>2. OrderOK' /\ SlotsOK' /\ WritersOK' /\ ReadersOK' /\ ContentOK'
  BY <1>1, QuietStep
<1>3. AtOrBefore(tail, tail') /\ AtOrBefore(head, head')
  BY TypedParts DEF queueVars, AtOrBefore
<1>4. \A i \in 0 .. Cap - 1 : slots[i].stamp.lap <= slots'[i].stamp.lap
  BY TypedParts DEF queueVars
<1> QED
  BY <1>2, <1>3, <1>4, SeenStays DEF IInv

LEMMA QuietActions ==
  ASSUME TypeOK, TypeOK', IInv
  PROVE  /\ \A s \in Senders : BeginSend(s) \/ CasTailFails(s) \/ LoadHeadWhenFull(s) => IInv'
         /\ \A r \in Receivers : BeginRecv(r) \/ CasHeadFails(r) \/ ReloadTail(r) \/ ReadMsg(r) => IInv'
         /\ \A t \in Threads : Return(t) => IInv'
<1> USE QuietCall, ThreadAssumption DEF IInv, Threads, Writing, Reading, Goto
<1> USE DEF TypeOK
<1>1. ASSUME NEW s \in Senders, BeginSend(s) PROVE IInv'
  BY <1>1 DEF BeginSend, Answered, queueVars, SendLabels, RecvLabels
<1>2. ASSUME NEW s \in Senders, CasTailFails(s) PROVE IInv'
  BY <1>2 DEF CasTailFails, Answered, queueVars, SendLabels, RecvLabels
<1>3. ASSUME NEW s \in Senders, LoadHeadWhenFull(s) PROVE IInv'
  BY <1>3 DEF LoadHeadWhenFull, Answered, queueVars, SendLabels, RecvLabels
<1>4. ASSUME NEW r \in Receivers, BeginRecv(r) PROVE IInv'
  BY <1>4 DEF BeginRecv, Answered, queueVars, SendLabels, RecvLabels
<1>5. ASSUME NEW r \in Receivers, CasHeadFails(r) PROVE IInv'
  BY <1>5 DEF CasHeadFails, Answered, queueVars, SendLabels, RecvLabels
<1>6. ASSUME NEW r \in Receivers, ReadMsg(r) PROVE IInv'
  BY <1>6 DEF ReadMsg, Answered, queueVars, SendLabels, RecvLabels
<1>7. ASSUME NEW t \in Threads, Return(t) PROVE IInv'
  BY <1>7 DEF Return, Answered, queueVars, SendLabels, RecvLabels
<1>8. ASSUME NEW r \in Receivers, ReloadTail(r) PROVE IInv'
  BY <1>8 DEF ReloadTail, Answered, queueVars, SendLabels, RecvLabels
<1> QED
  BY <1>1, <1>2, <1>3, <1>4, <1>5, <1>6, <1>7, <1>8

\* A load leaves the invariant alone but for what it says of the loaded value.
LEMMA LoadActions ==
  ASSUME TypeOK, TypeOK', IInv
  PROVE  /\ \A s \in Senders : LoadTail(s) \/ LoadSendStamp(s) => IInv'
         /\ \A r \in Receivers :
              LoadHead(r) \/ LoadRecvStamp(r) \/ LoadTailWhenEmpty(r) \/ CheckDisconnected(r) => IInv'
<1> USE ThreadAssumption DEF Threads, Goto
<1>0. \A st \in Stamps : AtOrBefore(st, st) /\ st.lap >= st.lap
  BY DEF AtOrBefore, Stamps
<1>1. ASSUME NEW s \in Senders, LoadTail(s) PROVE IInv'
  <2>1. OrderOK' /\ SlotsOK' /\ WritersOK' /\ ReadersOK' /\ ContentOK'
    BY <1>1, QuietCall DEF LoadTail, Writing, Reading, TypeOK
  <2>2. SeenOK'
    BY <1>0, <1>1, TypedParts DEF LoadTail, SeenOK, IInv, SlotOf, queueVars, TypeOK
  <2> QED
    BY <2>1, <2>2 DEF IInv
<1>2. ASSUME NEW s \in Senders, LoadSendStamp(s) PROVE IInv'
  <2>1. OrderOK' /\ SlotsOK' /\ WritersOK' /\ ReadersOK' /\ ContentOK'
    BY <1>2, QuietCall DEF LoadSendStamp, Writing, Reading, TypeOK
  <2>2. SeenOK'
    BY <1>0, <1>2, TypedParts DEF LoadSendStamp, SeenOK, IInv, SlotOf, queueVars, TypeOK
  <2> QED
    BY <2>1, <2>2 DEF IInv
<1>3. ASSUME NEW r \in Receivers, LoadHead(r) PROVE IInv'
  <2>1. OrderOK' /\ SlotsOK' /\ WritersOK' /\ ReadersOK' /\ ContentOK'
    BY <1>3, QuietCall DEF LoadHead, Writing, Reading, TypeOK
  <2>2. SeenOK'
    BY <1>0, <1>3, TypedParts DEF LoadHead, SeenOK, IInv, SlotOf, queueVars, TypeOK
  <2> QED
    BY <2>1, <2>2 DEF IInv
<1>4. ASSUME NEW r \in Receivers, LoadRecvStamp(r) PROVE IInv'
  <2>1. OrderOK' /\ SlotsOK' /\ WritersOK' /\ ReadersOK' /\ ContentOK'
    BY <1>4, QuietCall DEF LoadRecvStamp, Writing, Reading, TypeOK
  <2>2. SeenOK'
    BY <1>0, <1>4, TypedParts DEF LoadRecvStamp, SeenOK, IInv, SlotOf, queueVars, TypeOK
  <2> QED
    BY <2>1, <2>2 DEF IInv
<1>5. ASSUME NEW r \in Receivers, LoadTailWhenEmpty(r) PROVE IInv'
  <2>1. OrderOK' /\ SlotsOK' /\ WritersOK' /\ ReadersOK' /\ ContentOK'
    BY <1>5, QuietCall DEF LoadTailWhenEmpty, Writing, Reading, TypeOK
  <2>2. SeenOK'
    BY <1>0, <1>5, TypedParts DEF LoadTailWhenEmpty, SeenOK, IInv, SlotOf, queueVars, TypeOK
  <2> QED
    BY <2>1, <2>2 DEF IInv
<1>6. ASSUME NEW r \in Receivers, CheckDisconnected(r) PROVE IInv'
  <2>1. OrderOK' /\ SlotsOK' /\ WritersOK' /\ ReadersOK' /\ ContentOK'
    BY <1>6, QuietCall DEF CheckDisconnected, Writing, Reading, TypeOK
  <2>2. SeenOK'
    BY <1>0, <1>6, TypedParts DEF CheckDisconnected, SeenOK, IInv, SlotOf, queueVars, TypeOK
  <2> QED
    BY <2>1, <2>2 DEF IInv
<1> QED
  BY <1>1, <1>2, <1>3, <1>4, <1>5, <1>6

LEMMA OtherActions ==
  ASSUME TypeOK, TypeOK', IInv
  PROVE  (\E t \in Threads : DropHandle(t)) \/ UNCHANGED vars => IInv'
<1> SUFFICES ASSUME UNCHANGED <<queueVars, pc, seen, msg>> PROVE IInv'
  BY DEF DropHandle, vars, queueVars
<1>1. OrderOK' /\ SlotsOK' /\ WritersOK' /\ ReadersOK' /\ ContentOK'
  BY QuietStep DEF Writing, Reading
<1>2. SeenOK'
  BY DEF IInv, SeenOK, SlotOf, queueVars
<1> QED
  BY <1>1, <1>2 DEF IInv

\* A compare-exchange of the tail that succeeds finds the slot free and ready,
\* although the stamp it relies on was loaded after the tail and before now.
LEMMA CasTailFindsFree ==
  ASSUME TypeOK, IInv, NEW s \in Senders, pc[s] = "send_cas", tail = seen[s]
  PROVE  /\ Free(tail.index) /\ slots[tail.index].stamp = tail
         /\ WriteLap(tail.index) = tail.lap /\ ReadLap(tail.index) = tail.lap + 1
<1> DEFINE i == tail.index
<1>1. /\ tail.lap \in Nat /\ head.lap \in Nat /\ i \in 0 .. Cap - 1 /\ head.index \in 0 .. Cap - 1
      /\ slots[i].stamp \in Stamps /\ slots[i].stamp.lap \in Nat /\ tail \in Stamps
  BY TypedParts
<1>2. WriteLap(i) = tail.lap
  BY <1>1 DEF WriteLap
<1>3. slots[i].stamp.lap >= tail.lap
  BY DEF IInv, SeenOK, SlotOf
<1>4. /\ slots[i].stamp.index = i
      /\ \/ Held(i) /\ slots[i].stamp.lap \in {ReadLap(i), ReadLap(i) - 1}
         \/ Free(i) /\ slots[i].stamp.lap \in {WriteLap(i), WriteLap(i) - 1}
  BY <1>1 DEF IInv, SlotsOK
<1>5. ReadLap(i) \in Nat
  BY <1>1 DEF ReadLap
<1>6. Free(i) /\ slots[i].stamp.lap = tail.lap
  BY <1>1, <1>2, <1>3, <1>4, <1>5 DEF Held
<1>7. slots[i].stamp = tail
  BY <1>1, <1>4, <1>6 DEF Stamps
<1> QED
  BY <1>2, <1>6, <1>7 DEF Free

LEMMA CasTailStep ==
  ASSUME TypeOK, TypeOK', IInv, NEW s \in Senders, CasTail(s)
  PROVE  IInv'
<1> PICK i \in 0 .. Cap - 1 : i = tail.index
  BY TypedParts
<1>1. /\ tail = seen[s] /\ pc[s] = "send_cas" /\ tail' = Advance(tail)
      /\ UNCHANGED <<head, slots, seen, msg>> /\ pc'[s] = "send_write"
      /\ \A z \in Threads \ {s} : pc'[z] = pc[z]
  BY DEF CasTail, Goto, TypeOK, Threads
<1>2. /\ Free(i) /\ slots[i].stamp = tail
      /\ WriteLap(i) = tail.lap /\ ReadLap(i) = tail.lap + 1
  BY <1>1, CasTailFindsFree
<1>3. /\ tail.lap \in Nat /\ head.lap \in Nat /\ i \in 0 .. Cap - 1 /\ head.index \in 0 .. Cap - 1
  BY TypedParts
<1>4. \/ i + 1 < Cap /\ tail'.lap = tail.lap /\ tail'.index = i + 1
      \/ i = Cap - 1 /\ tail'.lap = tail.lap + 2 /\ tail'.index = 0
  BY <1>1, <1>3, CapAssumption DEF Advance, Stamp
<1>5. \A j \in 0 .. Cap - 1 :
        /\ ReadLap(j)' = ReadLap(j)
        /\ WriteLap(j)' = IF j = i THEN WriteLap(j) + 2 ELSE WriteLap(j)
  BY <1>1, <1>3, <1>4 DEF ReadLap, WriteLap
<1>6. \A j \in 0 .. Cap - 1 : ReadLap(j) \in Nat /\ WriteLap(j) \in Nat
  BY <1>3 DEF ReadLap, WriteLap
<1>7. /\ Held(i)'
      /\ \A j \in (0 .. Cap - 1) \ {i} : (Held(j)' <=> Held(j)) /\ (Free(j)' <=> Free(j))
  BY <1>2, <1>3, <1>5, <1>6 DEF Held, Free
<1>8. OrderOK'
  <2>1. OrderOK /\ tail.index <= Cap - 1 /\ head.index <= Cap - 1
    BY <1>3 DEF IInv
  <2>2. CASE tail.lap + 1 = head.lap /\ head.index <= tail.index
    BY <1>1, <1>3, <1>4, <2>2 DEF OrderOK
  <2>3. CASE tail.lap = head.lap + 1 /\ tail.index <= head.index
    <3>1. i < head.index
      BY <1>2, <1>3, <2>3 DEF ReadLap
    <3> QED
      BY <1>1, <1>3, <1>4, <2>3, <3>1 DEF OrderOK
  <2> QED
    BY <2>1, <2>2, <2>3 DEF OrderOK
<1>9. SlotsOK'
  BY <1>1, <1>2, <1>3, <1>5, <1>7 DEF IInv, SlotsOK
<1>10. \A z \in Senders \ {s} : Writing(z) => seen[z].index # i
  BY <1>2, <1>3, TypedParts DEF IInv, WritersOK, Threads
<1>11. \A r \in Receivers : Reading(r) => seen[r].index # i
  BY <1>2, <1>3, TypedParts DEF IInv, ReadersOK, SlotOf, Threads
<1>12. \A z \in Senders \ {s} : Writing(z)' <=> Writing(z)
  BY <1>1 DEF Writing, Threads
<1>13. WritersOK'
  BY <1>1, <1>2, <1>3, <1>5, <1>10, <1>12, TypedParts DEF IInv, WritersOK, SlotOf, Threads
<1>14. ReadersOK'
  BY <1>1, <1>5, <1>11, TypedParts, ThreadAssumption DEF IInv, ReadersOK, SlotOf, Threads, Reading
<1>15. SeenOK'
  <2>1. AtOrBefore(tail, tail') /\ AtOrBefore(head, head')
    BY <1>1, <1>3, <1>4 DEF AtOrBefore
  <2>2. \A j \in 0 .. Cap - 1 : slots[j].stamp.lap <= slots'[j].stamp.lap
    BY <1>1, TypedParts
  <2> QED
    BY <1>1, <2>1, <2>2, SeenStays DEF IInv, Threads
<1>16. ContentOK'
  BY <1>1, <1>2, <1>3, <1>5, <1>7, <1>12 DEF IInv, ContentOK, Writing
<1> QED
  BY <1>8, <1>9, <1>13, <1>14, <1>15, <1>16 DEF IInv

\* Likewise for the head: the slot is held and its message is there.
LEMMA CasHeadFindsMessage ==
  ASSUME TypeOK, IInv, NEW r \in Receivers, pc[r] = "recv_cas", head = seen[r]
  PROVE  /\ Held(head.index) /\ slots[head.index].stamp = head
         /\ ReadLap(head.index) = head.lap /\ WriteLap(head.index) = head.lap + 1
         /\ slots[head.index].msg \in Messages
<1> DEFINE i == head.index
<1>1. /\ tail.lap \in Nat /\ head.lap \in Nat /\ i \in 0 .. Cap - 1 /\ tail.index \in 0 .. Cap - 1
      /\ slots[i].stamp \in Stamps /\ slots[i].stamp.lap \in Nat /\ head \in Stamps
  BY TypedParts
<1>2. ReadLap(i) = head.lap
  BY <1>1 DEF ReadLap
<1>3. slots[i].stamp.lap >= head.lap
  BY DEF IInv, SeenOK, SlotOf
<1>4. /\ slots[i].stamp.index = i
      /\ \/ Held(i) /\ slots[i].stamp.lap \in {ReadLap(i), ReadLap(i) - 1}
         \/ Free(i) /\ slots[i].stamp.lap \in {WriteLap(i), WriteLap(i) - 1}
  BY <1>1 DEF IInv, SlotsOK
<1>5. WriteLap(i) \in Nat
  BY <1>1 DEF WriteLap
<1>6. Held(i) /\ slots[i].stamp.lap = head.lap
  BY <1>1, <1>2, <1>3, <1>4, <1>5 DEF Free
<1>7. slots[i].stamp = head
  BY <1>1, <1>4, <1>6 DEF Stamps
<1>8. slots[i].msg \in Messages
  BY <1>1, <1>2, <1>6 DEF IInv, ContentOK
<1> QED
  BY <1>2, <1>6, <1>7, <1>8 DEF Held

LEMMA CasHeadStep ==
  ASSUME TypeOK, TypeOK', IInv, NEW r \in Receivers, CasHead(r)
  PROVE  IInv'
<1> PICK i \in 0 .. Cap - 1 : i = head.index
  BY TypedParts
<1>1. /\ head = seen[r] /\ pc[r] = "recv_cas" /\ head' = Advance(head)
      /\ UNCHANGED <<tail, slots, seen, msg>> /\ pc'[r] = "recv_read"
      /\ \A z \in Threads \ {r} : pc'[z] = pc[z]
  BY DEF CasHead, Goto, TypeOK, Threads
<1>2. /\ Held(i) /\ slots[i].stamp = head
      /\ ReadLap(i) = head.lap /\ WriteLap(i) = head.lap + 1
  BY <1>1, CasHeadFindsMessage
<1>3. /\ tail.lap \in Nat /\ head.lap \in Nat /\ i \in 0 .. Cap - 1 /\ tail.index \in 0 .. Cap - 1
  BY TypedParts
<1>4. \/ i + 1 < Cap /\ head'.lap = head.lap /\ head'.index = i + 1
      \/ i = Cap - 1 /\ head'.lap = head.lap + 2 /\ head'.index = 0
  BY <1>1, <1>3, CapAssumption DEF Advance, Stamp
<1>5. \A j \in 0 .. Cap - 1 :
        /\ WriteLap(j)' = WriteLap(j)
        /\ ReadLap(j)' = IF j = i THEN ReadLap(j) + 2 ELSE ReadLap(j)
  BY <1>1, <1>3, <1>4 DEF ReadLap, WriteLap
<1>6. \A j \in 0 .. Cap - 1 : ReadLap(j) \in Nat /\ WriteLap(j) \in Nat
  BY <1>3, TypedParts DEF ReadLap, WriteLap
<1>7. /\ Free(i)' /\ ~Held(i)'
      /\ \A j \in (0 .. Cap - 1) \ {i} : (Held(j)' <=> Held(j)) /\ (Free(j)' <=> Free(j))
  BY <1>2, <1>3, <1>5, <1>6 DEF Held, Free
<1>8. OrderOK'
  <2>1. OrderOK /\ tail.index <= Cap - 1 /\ head.index <= Cap - 1
    BY <1>3 DEF IInv
  <2>2. CASE tail.lap = head.lap + 1 /\ tail.index <= head.index
    BY <1>1, <1>3, <1>4, <2>2 DEF OrderOK
  <2>3. CASE tail.lap + 1 = head.lap /\ head.index <= tail.index
    <3>1. i < tail.index
      BY <1>2, <1>3, <2>3 DEF WriteLap
    <3> QED
      BY <1>1, <1>3, <1>4, <2>3, <3>1 DEF OrderOK
  <2> QED
    BY <2>1, <2>2, <2>3 DEF OrderOK
<1>9. SlotsOK'
  BY <1>1, <1>2, <1>3, <1>5, <1>7 DEF IInv, SlotsOK
<1>10. \A z \in Receivers \ {r} : Reading(z) => seen[z].index # i
  BY <1>2, <1>3, TypedParts DEF IInv, ReadersOK, Threads
<1>11. \A s \in Senders : Writing(s) => seen[s].index # i
  BY <1>2, <1>3, TypedParts DEF IInv, WritersOK, SlotOf, Threads
<1>12. \A z \in Receivers \ {r} : Reading(z)' <=> Reading(z)
  BY <1>1 DEF Reading, Threads
<1>13. \A s \in Senders : s # r /\ (Writing(s)' <=> Writing(s)) /\ pc'[s] = pc[s]
  BY <1>1, ThreadAssumption DEF Writing, Threads
<1>14. WritersOK'
  BY <1>1, <1>5, <1>11, <1>13, TypedParts DEF IInv, WritersOK, SlotOf, Threads
<1>15. ReadersOK'
  BY <1>1, <1>2, <1>5, <1>10, <1>12, TypedParts DEF IInv, ReadersOK, SlotOf, Threads
<1>16. SeenOK'
  <2>1. AtOrBefore(tail, tail') /\ AtOrBefore(head, head')
    BY <1>1, <1>3, <1>4 DEF AtOrBefore
  <2>2. \A j \in 0 .. Cap - 1 : slots[j].stamp.lap <= slots'[j].stamp.lap
    BY <1>1, TypedParts
  <2> QED
    BY <1>1, <2>1, <2>2, SeenStays DEF IInv, Threads
<1>17. ContentOK'
  BY <1>1, <1>5, <1>7, <1>13 DEF IInv, ContentOK
<1> QED
  BY <1>8, <1>9, <1>14, <1>15, <1>16, <1>17 DEF IInv

\* Threads that use slots use different ones, writers and readers alike.
LEMMA Exclusion ==
  ASSUME TypeOK, IInv
  PROVE  /\ \A s \in Senders, r \in Receivers :
              Writing(s) /\ Reading(r) => seen[s].index # seen[r].index
         /\ \A s, z \in Senders :
              Writing(s) /\ Writing(z) /\ seen[s].index = seen[z].index => s = z
         /\ \A r, z \in Receivers :
              Reading(r) /\ Reading(z) /\ seen[r].index = seen[z].index => r = z
<1>1. ASSUME NEW s \in Senders, NEW r \in Receivers, Writing(s), Reading(r),
             seen[s].index = seen[r].index
      PROVE FALSE
  BY <1>1, TypedParts DEF IInv, WritersOK, ReadersOK, SlotOf, Threads
<1> QED
  BY <1>1 DEF IInv, WritersOK, ReadersOK

\* The facts that any change of slots alone leaves as they are.
LEMMA LapsStay ==
  ASSUME UNCHANGED <<head, tail>>
  PROVE  \A i : /\ WriteLap(i)' = WriteLap(i) /\ ReadLap(i)' = ReadLap(i)
                /\ (Held(i)' <=> Held(i)) /\ (Free(i)' <=> Free(i))
BY DEF WriteLap, ReadLap, Held, Free

LEMMA WriteMsgStep ==
  ASSUME TypeOK, TypeOK', IInv, NEW s \in Senders, WriteMsg(s)
  PROVE  IInv'
<1> PICK i \in 0 .. Cap - 1 : i = seen[s].index
  BY TypedParts DEF Threads
<1>1. /\ UNCHANGED <<head, tail, seen, msg>> /\ Writing(s) /\ pc'[s] = "send_publish"
      /\ \A z \in Threads \ {s} : pc'[z] = pc[z]
      /\ \A j \in 0 .. Cap - 1 : slots'[j].stamp = slots[j].stamp
      /\ slots'[i].msg = msg[s] /\ \A j \in (0 .. Cap - 1) \ {i} : slots'[j] = slots[j]
  BY DEF WriteMsg, Goto, TypeOK, Threads, Writing
<1>2. /\ \A z \in Threads : (Writing(z)' <=> Writing(z)) /\ (Reading(z)' <=> Reading(z))
      /\ \A z \in Threads : seen[z].index \in 0 .. Cap - 1
  BY <1>1, TypedParts DEF Writing, Reading
<1>3. OrderOK' /\ SlotsOK'
  BY <1>1, LapsStay DEF IInv, OrderOK, SlotsOK
<1>4. WritersOK'
  BY <1>1, <1>2, LapsStay, Exclusion DEF IInv, WritersOK, SlotOf, Threads
<1>5. ReadersOK'
  BY <1>1, <1>2, LapsStay DEF IInv, ReadersOK, SlotOf, Threads
<1>6. SeenOK'
  <2>1. AtOrBefore(tail, tail') /\ AtOrBefore(head, head')
    BY <1>1, TypedParts DEF AtOrBefore
  <2> QED
    BY <1>1, <2>1, SeenStays, TypedParts DEF IInv, Threads
<1>7. ContentOK'
  <2>1. slots[i].stamp.lap # ReadLap(i)
    BY <1>1, TypedParts DEF IInv, WritersOK, SlotOf, Threads
  <2> QED
    BY <1>1, <1>2, <2>1, LapsStay DEF IInv, ContentOK, Threads
<1> QED
  BY <1>3, <1>4, <1>5, <1>6, <1>7 DEF IInv

LEMMA PublishStep ==
  ASSUME TypeOK, TypeOK', IInv, NEW s \in Senders, Publish(s)
  PROVE  IInv'
<1> PICK i \in 0 .. Cap - 1 : i = seen[s].index
  BY TypedParts DEF Threads
<1>1. /\ UNCHANGED <<head, tail, seen, msg>> /\ pc[s] = "send_publish" /\ pc'[s] = "ok"
      /\ \A z \in Threads \ {s} : pc'[z] = pc[z]
      /\ slots'[i].stamp = LapLater(seen[s]) /\ slots'[i].msg = slots[i].msg
      /\ \A j \in (0 .. Cap - 1) \ {i} : slots'[j] = slots[j]
  BY DEF Publish, Goto, TypeOK, Threads
<1>2. /\ slots[i].stamp = seen[s] /\ slots[i].msg = msg[s] /\ msg[s] \in Messages
      /\ WriteLap(i) = seen[s].lap + 2 /\ ReadLap(i) = seen[s].lap + 1
      /\ Writing(s) /\ seen[s].lap \in Nat
  BY <1>1, TypedParts DEF IInv, WritersOK, SlotOf, Writing, TypeOK, SendLabels, Threads
<1>3. slots'[i].stamp.index = i /\ slots'[i].stamp.lap = seen[s].lap + 1
  BY <1>1 DEF LapLater, Stamp
<1>4. /\ \A z \in Threads \ {s} : (Writing(z)' <=> Writing(z)) /\ (Reading(z)' <=> Reading(z))
      /\ ~Writing(s)' /\ ~Reading(s)'
      /\ \A z \in Threads : seen[z].index \in 0 .. Cap - 1
  BY <1>1, TypedParts DEF Writing, Reading
<1>5. OrderOK' /\ SlotsOK'
  BY <1>1, <1>2, <1>3, LapsStay DEF IInv, OrderOK, SlotsOK, Held
<1>6. WritersOK'
  BY <1>1, <1>2, <1>4, LapsStay, Exclusion DEF IInv, WritersOK, SlotOf, Threads
<1>7. ReadersOK'
  BY <1>1, <1>2, <1>4, LapsStay, Exclusion, ThreadAssumption DEF IInv, ReadersOK, SlotOf, Threads
<1>8. SeenOK'
  <2>1. AtOrBefore(tail, tail') /\ AtOrBefore(head, head')
    BY <1>1, TypedParts DEF AtOrBefore
  <2>2. \A j \in 0 .. Cap - 1 : slots[j].stamp.lap <= slots'[j].stamp.lap
    BY <1>1, <1>2, <1>3, TypedParts
  <2> QED
    BY <1>1, <2>1, <2>2, SeenStays DEF IInv, Threads
<1>9. ContentOK'
  <2>1. ASSUME NEW j \in (0 .. Cap - 1) \ {i}, NEW z \in Senders, Writing(z), seen[z].index = j
        PROVE  Writing(z)' /\ seen'[z].index = j
    BY <1>1, <1>4, <2>1 DEF Threads
  <2> QED
    BY <1>1, <1>2, <1>3, <2>1, LapsStay DEF IInv, ContentOK
<1> QED
  BY <1>5, <1>6, <1>7, <1>8, <1>9 DEF IInv

LEMMA ReleaseStep ==
  ASSUME TypeOK, TypeOK', IInv, NEW r \in Receivers, Release(r)
  PROVE  IInv'
<1> PICK i \in 0 .. Cap - 1 : i = seen[r].index
  BY TypedParts DEF Threads
<1>1. /\ UNCHANGED <<head, tail, seen, msg>> /\ pc[r] = "recv_release" /\ pc'[r] = "ok"
      /\ \A z \in Threads \ {r} : pc'[z] = pc[z]
      /\ slots'[i].stamp = LapLater(seen[r]) /\ slots'[i].msg = slots[i].msg
      /\ \A j \in (0 .. Cap - 1) \ {i} : slots'[j] = slots[j]
  BY DEF Release, Goto, TypeOK, Threads
<1>2. /\ slots[i].stamp = seen[r]
      /\ ReadLap(i) = seen[r].lap + 2 /\ WriteLap(i) = seen[r].lap + 1
      /\ Reading(r) /\ seen[r].lap \in Nat
  BY <1>1, TypedParts DEF IInv, ReadersOK, SlotOf, Reading, Threads
<1>3. slots'[i].stamp.index = i /\ slots'[i].stamp.lap = seen[r].lap + 1
  BY <1>1 DEF LapLater, Stamp
<1>4. /\ \A z \in Threads \ {r} : (Writing(z)' <=> Writing(z)) /\ (Reading(z)' <=> Reading(z))
      /\ ~Writing(r)' /\ ~Reading(r)' /\ r \notin Senders
      /\ \A z \in Threads : seen[z].index \in 0 .. Cap - 1
  BY <1>1, TypedParts, ThreadAssumption DEF Writing, Reading
<1>5. OrderOK' /\ SlotsOK'
  BY <1>1, <1>2, <1>3, LapsStay DEF IInv, OrderOK, SlotsOK, Free
<1>6. WritersOK'
  BY <1>1, <1>2, <1>4, LapsStay, Exclusion DEF IInv, WritersOK, SlotOf, Threads
<1>7. ReadersOK'
  BY <1>1, <1>2, <1>4, LapsStay, Exclusion DEF IInv, ReadersOK, SlotOf, Threads
<1>8. SeenOK'
  <2>1. AtOrBefore(tail, tail') /\ AtOrBefore(head, head')
    BY <1>1, TypedParts DEF AtOrBefore
  <2>2. \A j \in 0 .. Cap - 1 : slots[j].stamp.lap <= slots'[j].stamp.lap
    BY <1>1, <1>2, <1>3, TypedParts
  <2> QED
    BY <1>1, <2>1, <2>2, SeenStays DEF IInv, Threads
<1>9. ContentOK'
  <2>1. \A z \in Senders : (Writing(z)' <=> Writing(z))
    BY <1>4 DEF Threads
  <2>2. ~Held(i)
    BY <1>2 DEF Held
  <2> QED
    BY <1>1, <2>1, <2>2, LapsStay DEF IInv, ContentOK
<1> QED
  BY <1>5, <1>6, <1>7, <1>8, <1>9 DEF IInv

LEMMA NextIInv == TypeOK /\ TypeOK' /\ IInv /\ [Next]_vars => IInv'
BY QuietActions, LoadActions, OtherActions, CasTailStep, CasHeadStep, WriteMsgStep,
   PublishStep, ReleaseStep
DEF Next, SendStep, RecvStep, Terminated

\* The stamps always tell the truth about who may use each slot.
THEOREM StampsCorrect == Spec => []IInv
<1>1. TypeOK /\ IInv /\ [Next]_vars => TypeOK' /\ IInv'
  BY NextTypeOK, NextIInv
<1> QED
  BY <1>1, InitTypeOK, InitIInv, PTL DEF Spec

\* No two threads ever use the message of one slot at the same time.
THEOREM NoDataRace == Spec => []SlotExclusive
<1>1. TypeOK /\ IInv => SlotExclusive
  <2> SUFFICES ASSUME TypeOK, IInv, NEW t \in Threads, NEW u \in Threads,
                      Writing(t) \/ Reading(t), Writing(u) \/ Reading(u),
                      seen[t].index = seen[u].index
               PROVE  t = u
    BY DEF SlotExclusive
  <2>1. \A z \in Threads : (Writing(z) => z \in Senders) /\ (Reading(z) => z \in Receivers)
    BY DEF TypeOK, Threads, Writing, Reading, SendLabels, RecvLabels
  <2> QED
    BY <2>1, Exclusion
<1> QED
  BY <1>1, TypeCorrect, StampsCorrect, PTL
===============================================================================

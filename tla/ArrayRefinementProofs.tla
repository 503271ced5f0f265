------------------------ MODULE ArrayRefinementProofs -------------------------
(***************************************************************************)
(* The ring buffer implements the abstract queue, for every set of threads *)
(* and every capacity: each atomic access is a step of BoundedQueue or     *)
(* leaves its variables as they are. And what len, is_empty and is_full    *)
(* answer was true, the drop of the channel drops what is left, and words  *)
(* with two bits of lap say what the pairs of lap and index say.           *)
(***************************************************************************)
EXTENDS ArrayQueueProofs, ArrayObservers, SequenceTheorems, WellFoundedInduction

\* What the refinement mapping gives for the variables of BoundedQueue.
Status == [t \in Threads |-> AbsStatus(t)]
Val == [t \in Threads |-> AbsVal(t)]

\* A receiver that looks at the tail again has seen the channel disconnected.
SawDisconnected == \A r \in Receivers : pc[r] = "recv_reload_tail" => disconnected
-------------------------------------------------------------------------------
(* Sequences given as functions. *)

LEMMA FunctionIsSeq ==
  ASSUME NEW S, NEW n \in Nat, NEW f \in [1 .. n -> S]
  PROVE  f \in Seq(S) /\ Len(f) = n
<1>1. f \in Seq(S)
  BY SeqDef
<1>2. Len(f) \in Nat /\ 1 .. Len(f) = 1 .. n
  BY <1>1, LenProperties
<1> QED
  BY <1>1, <1>2

LEMMA AppendIs ==
  ASSUME NEW S, NEW q \in Seq(S), NEW p \in Seq(S), NEW e \in S,
         Len(p) = Len(q) + 1, p[Len(q) + 1] = e, \A i \in 1 .. Len(q) : p[i] = q[i]
  PROVE  p = Append(q, e)
<1>1. /\ Append(q, e) \in Seq(S) /\ Len(Append(q, e)) = Len(q) + 1
      /\ \A i \in 1 .. Len(q) : Append(q, e)[i] = q[i]
      /\ Append(q, e)[Len(q) + 1] = e
  BY AppendProperties
<1>2. Len(q) \in Nat
  BY LenProperties
<1>3. \A i \in 1 .. Len(p) : p[i] = Append(q, e)[i]
  BY <1>1, <1>2
<1> QED
  BY <1>1, <1>3, SeqEqual

LEMMA TailIs ==
  ASSUME NEW S, NEW q \in Seq(S), NEW p \in Seq(S),
         Len(q) = Len(p) + 1, \A i \in 1 .. Len(p) : p[i] = q[i + 1]
  PROVE  q # <<>> /\ p = Tail(q) /\ Head(q) = q[1]
<1>1. Len(p) \in Nat
  BY LenProperties
<1>2. q # <<>>
  BY <1>1, EmptySeq
<1>3. /\ Tail(q) \in Seq(S) /\ Len(Tail(q)) = Len(p)
      /\ \A i \in 1 .. Len(p) : p[i] = Tail(q)[i]
  BY <1>1, <1>2, HeadTailProperties
<1>4. p = Tail(q)
  BY <1>3, SeqEqual
<1> QED
  BY <1>2, <1>4
-------------------------------------------------------------------------------
(* The queue in the buffer. *)

\* Its length, and where its messages are.
LEMMA Positions ==
  TypeOK /\ IInv =>
    /\ Distance \in 0 .. Cap
    /\ \A n \in 1 .. Distance : SlotAt(n) \in 0 .. Cap - 1 /\ Held(SlotAt(n))
<1> SUFFICES ASSUME TypeOK, IInv
             PROVE  /\ Distance \in 0 .. Cap
                    /\ \A n \in 1 .. Distance : SlotAt(n) \in 0 .. Cap - 1 /\ Held(SlotAt(n))
  OBVIOUS
<1>1. /\ tail.lap \in Nat /\ head.lap \in Nat
      /\ tail.index \in 0 .. Cap - 1 /\ head.index \in 0 .. Cap - 1
  BY TypedParts
<1>2. OrderOK
  BY DEF IInv
<1> USE <1>1, <1>2, CapAssumption DEF OrderOK
<1>3. Distance \in 0 .. Cap
  BY DEF Distance
<1>4. ASSUME NEW n \in 1 .. Distance PROVE SlotAt(n) \in 0 .. Cap - 1 /\ Held(SlotAt(n))
  BY <1>3 DEF Distance, SlotAt, Held, WriteLap, ReadLap
<1> QED
  BY <1>3, <1>4

\* The message of a slot that is held: written, or with its only sender.
LEMMA Contents ==
  TypeOK /\ IInv =>
    \A i \in 0 .. Cap - 1 : Held(i) =>
      /\ Content(i) \in Messages
      /\ slots[i].stamp.lap = ReadLap(i) => Content(i) = slots[i].msg
      /\ \A s \in Senders : Writing(s) /\ seen[s].index = i
           => slots[i].stamp.lap # ReadLap(i) /\ Content(i) = msg[s]
<1> SUFFICES ASSUME TypeOK, IInv, NEW i \in 0 .. Cap - 1, Held(i)
             PROVE  /\ Content(i) \in Messages
                    /\ slots[i].stamp.lap = ReadLap(i) => Content(i) = slots[i].msg
                    /\ \A s \in Senders : Writing(s) /\ seen[s].index = i
                         => slots[i].stamp.lap # ReadLap(i) /\ Content(i) = msg[s]
  OBVIOUS
<1>1. CASE slots[i].stamp.lap = ReadLap(i)
  <2>1. slots[i].msg \in Messages
    BY <1>1 DEF IInv, ContentOK
  <2>2. ASSUME NEW s \in Senders, Writing(s), seen[s].index = i PROVE FALSE
    <3>1. slots[i].stamp = seen[s] /\ ReadLap(i) = seen[s].lap + 1
      BY <2>2 DEF IInv, WritersOK, SlotOf
    <3>2. seen[s].lap \in Nat
      BY TypedParts DEF Threads
    <3> QED
      BY <1>1, <3>1, <3>2
  <2> QED
    BY <1>1, <2>1, <2>2 DEF Content
<1>2. CASE slots[i].stamp.lap # ReadLap(i)
  <2> DEFINE z == CHOOSE s \in Senders : Writing(s) /\ seen[s].index = i
  <2>1. z \in Senders /\ Writing(z) /\ seen[z].index = i
    BY <1>2 DEF IInv, ContentOK
  <2>2. \A s \in Senders : Writing(s) /\ seen[s].index = i => s = z
    BY <2>1, Exclusion
  <2>3. msg[z] \in Messages
    BY <2>1 DEF TypeOK, Writing, SendLabels
  <2>4. Content(i) = msg[z]
    BY <1>2 DEF Content
  <2> HIDE DEF z
  <2> QED
    BY <1>2, <2>2, <2>3, <2>4
<1> QED
  BY <1>1, <1>2

LEMMA QueueIsSeq ==
  TypeOK /\ IInv =>
    /\ AbsQueue \in Seq(Messages) /\ Len(AbsQueue) = Distance
    /\ \A n \in 1 .. Distance : AbsQueue[n] = Content(SlotAt(n))
<1> SUFFICES ASSUME TypeOK, IInv
             PROVE  /\ AbsQueue \in Seq(Messages) /\ Len(AbsQueue) = Distance
                    /\ \A n \in 1 .. Distance : AbsQueue[n] = Content(SlotAt(n))
  OBVIOUS
<1>1. Distance \in Nat /\ \A n \in 1 .. Distance : Content(SlotAt(n)) \in Messages
  BY Positions, Contents
<1>2. AbsQueue \in [1 .. Distance -> Messages]
  BY <1>1 DEF AbsQueue
<1>3. \A n \in 1 .. Distance : AbsQueue[n] = Content(SlotAt(n))
  BY DEF AbsQueue
<1> QED
  BY <1>1, <1>2, <1>3, FunctionIsSeq

\* All of this in one formula, which holds before and after a step.
QueueFacts ==
  /\ Distance \in 0 .. Cap
  /\ \A n \in 1 .. Distance : SlotAt(n) \in 0 .. Cap - 1 /\ Held(SlotAt(n))
  /\ \A i \in 0 .. Cap - 1 : Held(i) =>
       /\ Content(i) \in Messages
       /\ slots[i].stamp.lap = ReadLap(i) => Content(i) = slots[i].msg
       /\ \A s \in Senders : Writing(s) /\ seen[s].index = i
            => slots[i].stamp.lap # ReadLap(i) /\ Content(i) = msg[s]
  /\ AbsQueue \in Seq(Messages) /\ Len(AbsQueue) = Distance
  /\ \A n \in 1 .. Distance : AbsQueue[n] = Content(SlotAt(n))

LEMMA QueueFactsHold == TypeOK /\ IInv => QueueFacts
BY Positions, Contents, QueueIsSeq DEF QueueFacts

LEMMA QueueFactsStay ==
  ASSUME TypeOK, IInv, TypeOK', IInv'
  PROVE  QueueFacts /\ QueueFacts'
<1>1. TypeOK' /\ IInv' => QueueFacts'
  BY QueueFactsHold, PTL
<1> QED
  BY <1>1, QueueFactsHold

\* The content of a slot that has been published is the message in it.
LEMMA ReadContents ==
  ASSUME TypeOK, IInv, TypeOK', IInv', NEW i \in 0 .. Cap - 1
  PROVE  /\ Held(i) /\ slots[i].stamp.lap = ReadLap(i) => Content(i) = slots[i].msg
         /\ Held(i)' /\ slots'[i].stamp.lap = ReadLap(i)' => Content(i)' = slots'[i].msg
BY QueueFactsStay DEF QueueFacts
-------------------------------------------------------------------------------
(* What each label stands for, and what a step leaves alone. *)

StatusTable ==
  \A t \in Threads :
    /\ pc[t] \in {"send_load_tail", "send_load_stamp", "send_cas", "send_load_head",
                  "recv_load_head", "recv_load_stamp", "recv_cas", "recv_load_tail"}
         => AbsStatus(t) = "pending"
    /\ pc[t] \in {"recv_check_disc", "recv_reload_tail"} => AbsStatus(t) = "glanced"
    /\ pc[t] \in {"send_write", "send_publish", "recv_read", "recv_release", "ok"}
         => AbsStatus(t) = "ok"
    /\ pc[t] \in {"idle", "full", "empty", "disconnected"} => AbsStatus(t) = pc[t]

LEMMA StatusTableHolds == StatusTable
BY DEF StatusTable, AbsStatus, Writing, Reading

LEMMA StatusTableStays == StatusTable'
BY StatusTableHolds, PTL

LEMMA StatusFrame ==
  ASSUME NEW t \in Threads, \A z \in Threads \ {t} : pc'[z] = pc[z]
  PROVE  /\ Status' = [Status EXCEPT ![t] = AbsStatus(t)']
         /\ AbsStatus(t)' = AbsStatus(t) => Status' = Status
<1>1. \A z \in Threads \ {t} : AbsStatus(z)' = AbsStatus(z)
  BY DEF AbsStatus, Writing, Reading
<1> QED
  BY <1>1 DEF Status

LEMMA ValFrame ==
  ASSUME NEW t \in Threads,
         \A z \in Threads \ {t} :
           /\ pc'[z] = pc[z] /\ msg'[z] = msg[z]
           /\ pc[z] = "recv_read" => SlotOf(z)'.msg = SlotOf(z).msg
  PROVE  /\ Val' = [Val EXCEPT ![t] = AbsVal(t)']
         /\ AbsVal(t)' = AbsVal(t) => Val' = Val
<1>1. \A z \in Threads \ {t} : AbsVal(z)' = AbsVal(z)
  BY DEF AbsVal
<1> QED
  BY <1>1 DEF Val

\* The queue stays as it is if the positions do, and the contents of held slots.
LEMMA QueueFrame ==
  ASSUME TypeOK, IInv, TypeOK', IInv', UNCHANGED <<head, tail>>,
         \A i \in 0 .. Cap - 1 : Held(i) => Content(i)' = Content(i)
  PROVE  AbsQueue' = AbsQueue
<1>1. Distance' = Distance /\ \A n : SlotAt(n)' = SlotAt(n)
  BY DEF Distance, SlotAt
<1>2. \A n \in 1 .. Distance : SlotAt(n) \in 0 .. Cap - 1 /\ Held(SlotAt(n))
  BY QueueFactsStay DEF QueueFacts
<1>3. \A n \in 1 .. Distance : Content(SlotAt(n))' = Content(SlotAt(n))
  BY <1>1, <1>2
<1> QED
  BY <1>1, <1>3 DEF AbsQueue

\* Held slots keep their contents if nobody writes them or takes part in it.
LEMMA QuietContents ==
  ASSUME TypeOK, IInv, TypeOK', IInv', UNCHANGED queueVars,
         \A s \in Senders : Writing(s) => Writing(s)' /\ seen'[s] = seen[s] /\ msg'[s] = msg[s]
  PROVE  AbsQueue' = AbsQueue
<1>1. ASSUME NEW i \in 0 .. Cap - 1, Held(i) PROVE Content(i)' = Content(i)
  <2>1. Held(i)' /\ ReadLap(i)' = ReadLap(i) /\ slots' = slots
    BY <1>1, LapsStay DEF queueVars
  <2>2. CASE slots[i].stamp.lap = ReadLap(i)
    BY <1>1, <2>1, <2>2, QueueFactsStay DEF QueueFacts
  <2>3. CASE slots[i].stamp.lap # ReadLap(i)
    <3>1. PICK s \in Senders : Writing(s) /\ seen[s].index = i
      BY <1>1, <2>3 DEF IInv, ContentOK
    <3>2. Writing(s)' /\ seen'[s].index = i /\ msg'[s] = msg[s]
      BY <3>1
    <3> QED
      BY <1>1, <2>1, <3>1, <3>2, QueueFactsStay DEF QueueFacts
  <2> QED
    BY <2>2, <2>3
<1> QED
  BY <1>1, QueueFrame DEF queueVars

\* A step of one thread that touches no shared word of the queue and writes
\* nothing in a slot.
LEMMA QuietThread ==
  ASSUME TypeOK, IInv, TypeOK', IInv', UNCHANGED queueVars, NEW t \in Threads,
         ~Writing(t), \A z \in Threads \ {t} : pc'[z] = pc[z] /\ seen'[z] = seen[z] /\ msg'[z] = msg[z]
  PROVE  /\ AbsQueue' = AbsQueue
         /\ Status' = [Status EXCEPT ![t] = AbsStatus(t)']
         /\ AbsStatus(t)' = AbsStatus(t) => Status' = Status
         /\ Val' = [Val EXCEPT ![t] = AbsVal(t)']
         /\ AbsVal(t)' = AbsVal(t) => Val' = Val
<1>1. \A s \in Senders : Writing(s) => Writing(s)' /\ seen'[s] = seen[s] /\ msg'[s] = msg[s]
  BY DEF Writing, Threads
<1>2. \A z \in Threads \ {t} : pc[z] = "recv_read" => SlotOf(z)'.msg = SlotOf(z).msg
  BY DEF SlotOf, queueVars
<1> QED
  BY <1>1, <1>2, QuietContents, StatusFrame, ValFrame
-------------------------------------------------------------------------------
(* Steps that leave the abstract queue as it is. *)

LEMMA AbsStutter ==
  ASSUME AbsQueue' = AbsQueue, Status' = Status, Val' = Val, UNCHANGED <<disconnected, alive>>
  PROVE  UNCHANGED Abs!vars
BY DEF Abs!vars, Status, Val

\* Loads, and attempts that come to nothing.
LEMMA SilentStep ==
  ASSUME TypeOK, IInv, TypeOK', IInv', UNCHANGED <<queueVars, disconnected, alive>>,
         NEW t \in Threads, ~Writing(t), UNCHANGED msg,
         \A z \in Threads \ {t} : pc'[z] = pc[z] /\ seen'[z] = seen[z],
         AbsStatus(t)' = AbsStatus(t), pc[t] # "recv_read", pc'[t] # "recv_read"
  PROVE  UNCHANGED Abs!vars
<1>1. AbsVal(t)' = AbsVal(t)
  BY DEF AbsVal
<1> QED
  BY <1>1, QuietThread, AbsStutter

LEMMA SilentSends ==
  ASSUME TypeOK, IInv, TypeOK', IInv', NEW s \in Senders,
         \/ LoadTail(s) \/ LoadSendStamp(s) \/ CasTailFails(s)
         \/ LoadHeadWhenFull(s) /\ pc'[s] = "send_load_tail"
  PROVE  UNCHANGED Abs!vars
<1>1. /\ UNCHANGED <<queueVars, disconnected, alive, msg>> /\ ~Writing(s)
      /\ \A z \in Threads \ {s} : pc'[z] = pc[z] /\ seen'[z] = seen[z]
      /\ pc[s] # "recv_read" /\ pc'[s] # "recv_read"
      /\ pc[s] \in {"send_load_tail", "send_load_stamp", "send_cas", "send_load_head"}
      /\ pc'[s] \in {"send_load_tail", "send_load_stamp", "send_cas", "send_load_head"}
  BY DEF LoadTail, LoadSendStamp, CasTailFails, LoadHeadWhenFull, Goto, TypeOK, Threads, Writing
<1>2. AbsStatus(s)' = AbsStatus(s)
  BY <1>1, StatusTableHolds, StatusTableStays DEF StatusTable, Threads
<1> QED
  BY <1>1, <1>2, SilentStep DEF Threads

LEMMA SilentRecvs ==
  ASSUME TypeOK, IInv, TypeOK', IInv', NEW r \in Receivers,
         \/ LoadHead(r) \/ LoadRecvStamp(r) \/ CasHeadFails(r)
         \/ LoadTailWhenEmpty(r) /\ pc'[r] = "recv_load_head"
         \/ CheckDisconnected(r) /\ pc'[r] = "recv_reload_tail"
  PROVE  UNCHANGED Abs!vars
<1>1. /\ UNCHANGED <<queueVars, disconnected, alive, msg>> /\ ~Writing(r)
      /\ \A z \in Threads \ {r} : pc'[z] = pc[z] /\ seen'[z] = seen[z]
      /\ pc[r] # "recv_read" /\ pc'[r] # "recv_read"
      /\ \/ /\ pc[r] \in {"recv_load_head", "recv_load_stamp", "recv_cas", "recv_load_tail"}
            /\ pc'[r] \in {"recv_load_head", "recv_load_stamp", "recv_cas", "recv_load_tail"}
         \/ pc[r] = "recv_check_disc" /\ pc'[r] = "recv_reload_tail"
  BY DEF LoadHead, LoadRecvStamp, CasHeadFails, LoadTailWhenEmpty, CheckDisconnected, Goto,
         TypeOK, Threads, Writing
<1>2. AbsStatus(r)' = AbsStatus(r)
  BY <1>1, StatusTableHolds, StatusTableStays DEF StatusTable, Threads
<1> QED
  BY <1>1, <1>2, SilentStep DEF Threads

\* A message that is written, or read, was in its place for the abstract queue
\* since the compare-exchange.
LEMMA WriteMsgSilent ==
  ASSUME TypeOK, IInv, TypeOK', IInv', NEW s \in Senders, WriteMsg(s)
  PROVE  UNCHANGED Abs!vars
<1> PICK i \in 0 .. Cap - 1 : i = seen[s].index
  BY TypedParts DEF Threads
<1>1. /\ UNCHANGED <<head, tail, seen, msg, disconnected, alive>>
      /\ pc[s] = "send_write" /\ pc'[s] = "send_publish"
      /\ \A z \in Threads \ {s} : pc'[z] = pc[z]
      /\ \A j \in 0 .. Cap - 1 : slots'[j].stamp = slots[j].stamp
      /\ \A j \in (0 .. Cap - 1) \ {i} : slots'[j] = slots[j]
  BY DEF WriteMsg, Goto, TypeOK, Threads
<1>2. ASSUME NEW j \in 0 .. Cap - 1, Held(j) PROVE Content(j)' = Content(j)
  <2>1. Held(j)' /\ ReadLap(j)' = ReadLap(j)
    BY <1>1, <1>2, LapsStay
  <2>2. CASE slots[j].stamp.lap = ReadLap(j)
    <3>1. j # i
      BY <1>1, <1>2, <2>2, QueueFactsStay DEF QueueFacts, Writing
    <3>2. Content(j) = slots[j].msg
      BY <1>2, <2>2, ReadContents
    <3>3. Content(j)' = slots'[j].msg
      BY <1>1, <2>1, <2>2, ReadContents
    <3> QED
      BY <1>1, <3>1, <3>2, <3>3
  <2>3. CASE slots[j].stamp.lap # ReadLap(j)
    <3>1. PICK z \in Senders : Writing(z) /\ seen[z].index = j
      BY <1>2, <2>3 DEF IInv, ContentOK
    <3>2. Writing(z)' /\ seen'[z].index = j /\ msg'[z] = msg[z]
      BY <1>1, <3>1 DEF Writing, Threads
    <3> QED
      BY <1>2, <2>1, <3>1, <3>2, QueueFactsStay DEF QueueFacts
  <2> QED
    BY <2>2, <2>3
<1>3. AbsQueue' = AbsQueue
  BY <1>1, <1>2, QueueFrame
<1>4. Status' = Status
  BY <1>1, StatusFrame, StatusTableHolds, StatusTableStays DEF StatusTable, Threads
<1>5. \A z \in Threads \ {s} : pc[z] = "recv_read" => SlotOf(z)'.msg = SlotOf(z).msg
  <2>1. ASSUME NEW z \in Threads, pc[z] = "recv_read" PROVE z \in Receivers /\ Reading(z)
    BY <2>1 DEF TypeOK, Threads, RecvLabels, Reading
  <2> QED
    BY <1>1, <2>1, Exclusion, TypedParts DEF SlotOf, Writing
<1>6. AbsVal(s)' = AbsVal(s)
  BY <1>1 DEF AbsVal
<1>7. Val' = Val
  BY <1>1, <1>5, <1>6, ValFrame DEF Threads
<1> QED
  BY <1>1, <1>3, <1>4, <1>7, AbsStutter

LEMMA PublishSilent ==
  ASSUME TypeOK, IInv, TypeOK', IInv', NEW s \in Senders, Publish(s)
  PROVE  UNCHANGED Abs!vars
<1> PICK i \in 0 .. Cap - 1 : i = seen[s].index
  BY TypedParts DEF Threads
<1>1. /\ UNCHANGED <<head, tail, seen, msg, disconnected, alive>>
      /\ pc[s] = "send_publish" /\ pc'[s] = "ok"
      /\ \A z \in Threads \ {s} : pc'[z] = pc[z]
      /\ \A j \in 0 .. Cap - 1 : slots'[j].msg = slots[j].msg
      /\ \A j \in (0 .. Cap - 1) \ {i} : slots'[j] = slots[j]
      /\ slots'[i].stamp = LapLater(seen[s])
  BY DEF Publish, Goto, TypeOK, Threads
<1>2. /\ slots[i].msg = msg[s] /\ ReadLap(i) = seen[s].lap + 1 /\ Writing(s)
      /\ slots'[i].stamp.lap = seen[s].lap + 1
  BY <1>1 DEF IInv, WritersOK, SlotOf, Writing, LapLater, Stamp
<1>3. ASSUME NEW j \in 0 .. Cap - 1, Held(j) PROVE Content(j)' = Content(j)
  <2>1. Held(j)' /\ ReadLap(j)' = ReadLap(j)
    BY <1>1, <1>3, LapsStay
  <2>2. CASE j = i
    <3>1. Content(j) = slots[j].msg
      BY <1>2, <1>3, <2>2, QueueFactsStay DEF QueueFacts
    <3>2. Content(j)' = slots'[j].msg
      BY <1>2, <2>1, <2>2, QueueFactsStay DEF QueueFacts
    <3> QED
      BY <1>1, <3>1, <3>2
  <2>3. CASE j # i /\ slots[j].stamp.lap = ReadLap(j)
    BY <1>1, <1>3, <2>1, <2>3, QueueFactsStay DEF QueueFacts
  <2>4. CASE j # i /\ slots[j].stamp.lap # ReadLap(j)
    <3>1. PICK z \in Senders : Writing(z) /\ seen[z].index = j
      BY <1>3, <2>4 DEF IInv, ContentOK
    <3>2. Writing(z)' /\ seen'[z].index = j /\ msg'[z] = msg[z]
      BY <1>1, <2>4, <3>1 DEF Writing, Threads
    <3> QED
      BY <1>3, <2>1, <3>1, <3>2, QueueFactsStay DEF QueueFacts
  <2> QED
    BY <2>2, <2>3, <2>4
<1>4. AbsQueue' = AbsQueue
  BY <1>1, <1>3, QueueFrame
<1>5. Status' = Status
  BY <1>1, StatusFrame, StatusTableHolds, StatusTableStays DEF StatusTable, Threads
<1>6. Val' = Val
  <2>1. \A z \in Threads : SlotOf(z)'.msg = SlotOf(z).msg
    BY <1>1, TypedParts DEF SlotOf
  <2>2. AbsVal(s)' = AbsVal(s)
    BY <1>1 DEF AbsVal
  <2> QED
    BY <1>1, <2>1, <2>2, ValFrame DEF Threads
<1> QED
  BY <1>1, <1>4, <1>5, <1>6, AbsStutter

LEMMA ReadMsgSilent ==
  ASSUME TypeOK, IInv, TypeOK', IInv', NEW r \in Receivers, ReadMsg(r)
  PROVE  UNCHANGED Abs!vars
<1>1. /\ UNCHANGED <<queueVars, disconnected, alive>> /\ ~Writing(r)
      /\ pc[r] = "recv_read" /\ pc'[r] = "recv_release" /\ msg'[r] = SlotOf(r).msg
      /\ \A z \in Threads \ {r} : pc'[z] = pc[z] /\ seen'[z] = seen[z] /\ msg'[z] = msg[z]
  BY DEF ReadMsg, Goto, TypeOK, Threads, Writing
<1>2. AbsStatus(r)' = AbsStatus(r)
  BY <1>1, StatusTableHolds, StatusTableStays DEF StatusTable, Threads
<1>3. AbsVal(r)' = AbsVal(r)
  BY <1>1 DEF AbsVal
<1> QED
  BY <1>1, <1>2, <1>3, QuietThread, AbsStutter DEF Threads

\* A slot that is released is not held: its content was nobody's any more.
LEMMA ReleaseSilent ==
  ASSUME TypeOK, IInv, TypeOK', IInv', NEW r \in Receivers, Release(r)
  PROVE  UNCHANGED Abs!vars
<1> PICK i \in 0 .. Cap - 1 : i = seen[r].index
  BY TypedParts DEF Threads
<1>1. /\ UNCHANGED <<head, tail, seen, msg, disconnected, alive>>
      /\ pc[r] = "recv_release" /\ pc'[r] = "ok"
      /\ \A z \in Threads \ {r} : pc'[z] = pc[z]
      /\ \A j \in 0 .. Cap - 1 : slots'[j].msg = slots[j].msg
      /\ \A j \in (0 .. Cap - 1) \ {i} : slots'[j] = slots[j]
  BY DEF Release, Goto, TypeOK, Threads
<1>2. ~Held(i)
  BY <1>1, TypedParts DEF IInv, ReadersOK, Reading, Held, Threads
<1>3. ASSUME NEW j \in 0 .. Cap - 1, Held(j) PROVE Content(j)' = Content(j)
  <2>1. Held(j)' /\ ReadLap(j)' = ReadLap(j) /\ slots'[j] = slots[j]
    BY <1>1, <1>2, <1>3, LapsStay
  <2>2. CASE slots[j].stamp.lap = ReadLap(j)
    BY <1>3, <2>1, <2>2, QueueFactsStay DEF QueueFacts
  <2>3. CASE slots[j].stamp.lap # ReadLap(j)
    <3>1. PICK z \in Senders : Writing(z) /\ seen[z].index = j
      BY <1>3, <2>3 DEF IInv, ContentOK
    <3>2. Writing(z)' /\ seen'[z].index = j /\ msg'[z] = msg[z]
      BY <1>1, <3>1, ThreadAssumption DEF Writing, Threads
    <3> QED
      BY <1>3, <2>1, <3>1, <3>2, QueueFactsStay DEF QueueFacts
  <2> QED
    BY <2>2, <2>3
<1>4. AbsQueue' = AbsQueue
  BY <1>1, <1>3, QueueFrame
<1>5. Status' = Status
  BY <1>1, StatusFrame, StatusTableHolds, StatusTableStays DEF StatusTable, Threads
<1>6. Val' = Val
  <2>1. \A z \in Threads : SlotOf(z)'.msg = SlotOf(z).msg
    BY <1>1, TypedParts DEF SlotOf
  <2>2. AbsVal(r)' = AbsVal(r)
    BY <1>1 DEF AbsVal
  <2> QED
    BY <1>1, <2>1, <2>2, ValFrame DEF Threads
<1> QED
  BY <1>1, <1>4, <1>5, <1>6, AbsStutter
-------------------------------------------------------------------------------
(* Steps that take effect. *)

LEMMA BeginSendImplements ==
  ASSUME TypeOK, IInv, TypeOK', IInv', NEW s \in Senders, BeginSend(s)
  PROVE  Abs!BeginSend(s)
<1>1. /\ UNCHANGED <<queueVars, disconnected, alive, seen>> /\ ~Writing(s) /\ s \in alive
      /\ pc[s] = "idle" /\ pc'[s] = (IF disconnected THEN "disconnected" ELSE "send_load_tail")
      /\ msg'[s] = <<s, count[s] + 1>> /\ count[s] < MaxSends
      /\ \A z \in Threads \ {s} : pc'[z] = pc[z] /\ msg'[z] = msg[z]
  BY DEF BeginSend, Goto, TypeOK, Threads, Writing
<1>2. msg'[s] \in Messages
  BY <1>1, BoundAssumption DEF TypeOK, Messages
<1>3. /\ AbsStatus(s) = "idle"
      /\ AbsStatus(s)' = (IF disconnected THEN "disconnected" ELSE "pending")
  BY <1>1, StatusTableHolds, StatusTableStays DEF StatusTable, Threads
<1>4. AbsVal(s)' = msg'[s]
  BY <1>1 DEF AbsVal
<1>5. /\ AbsQueue' = AbsQueue
      /\ Status' = [Status EXCEPT ![s] = IF disconnected THEN "disconnected" ELSE "pending"]
      /\ Val' = [Val EXCEPT ![s] = msg'[s]]
  BY <1>1, <1>3, <1>4, QuietThread DEF Threads
<1>6. Status[s] = "idle"
  BY <1>3 DEF Status, Threads
<1> QED
  BY <1>1, <1>2, <1>5, <1>6 DEF Abs!BeginSend, Abs!Answer, Status, Val

LEMMA EnqueueImplements ==
  ASSUME TypeOK, IInv, TypeOK', IInv', NEW s \in Senders, CasTail(s)
  PROVE  Abs!Enqueue(s)
<1> PICK i \in 0 .. Cap - 1 : i = tail.index
  BY TypedParts
<1>1. /\ tail = seen[s] /\ pc[s] = "send_cas" /\ tail' = Advance(tail)
      /\ UNCHANGED <<head, slots, seen, msg, disconnected, alive>> /\ pc'[s] = "send_write"
      /\ \A z \in Threads \ {s} : pc'[z] = pc[z]
  BY DEF CasTail, Goto, TypeOK, Threads
<1>2. Free(i) /\ slots[i].stamp = tail /\ ReadLap(i) = tail.lap + 1
  BY <1>1, CasTailFindsFree
<1>3. /\ tail.lap \in Nat /\ head.lap \in Nat /\ head.index \in 0 .. Cap - 1
      /\ \A z \in Threads : seen[z].index \in 0 .. Cap - 1
  BY TypedParts
<1>4. \/ i + 1 < Cap /\ tail'.lap = tail.lap /\ tail'.index = i + 1
      \/ i = Cap - 1 /\ tail'.lap = tail.lap + 2 /\ tail'.index = 0
  BY <1>1, <1>3, CapAssumption DEF Advance, Stamp
<1> PICK d \in Nat : d = Distance
  BY QueueFactsStay DEF QueueFacts
<1>5. Distance' = d + 1 /\ SlotAt(d + 1)' = i
  <2>1. OrderOK
    BY DEF IInv
  <2>2. CASE tail.lap + 1 = head.lap /\ head.index <= tail.index
    BY <1>1, <1>3, <1>4, <2>2, CapAssumption DEF Distance, SlotAt
  <2>3. CASE tail.lap = head.lap + 1 /\ tail.index <= head.index
    <3>1. i < head.index
      BY <1>2, <1>3, <2>3 DEF ReadLap
    <3> QED
      BY <1>1, <1>3, <1>4, <2>3, <3>1, CapAssumption DEF Distance, SlotAt
  <2> QED
    BY <2>1, <2>2, <2>3 DEF OrderOK
<1>6. \A j \in 0 .. Cap - 1 : ReadLap(j)' = ReadLap(j) /\ \A n : SlotAt(n)' = SlotAt(n)
  BY <1>1 DEF ReadLap, SlotAt
<1>7. ~Held(i)
  BY <1>2, <1>3 DEF Free, Held
<1>8. ASSUME NEW n \in 1 .. d PROVE AbsQueue'[n] = AbsQueue[n]
  <2> PICK j \in 0 .. Cap - 1 : j = SlotAt(n)
    BY QueueFactsStay DEF QueueFacts
  <2>1. n \in 1 .. Distance' /\ SlotAt(n)' = j
    BY <1>5, <1>6
  <2>2. Held(j) /\ Held(j)' /\ AbsQueue[n] = Content(j) /\ AbsQueue'[n] = Content(j)'
    BY <2>1, QueueFactsStay DEF QueueFacts
  <2>3. CASE slots[j].stamp.lap = ReadLap(j)
    BY <1>1, <1>6, <2>2, <2>3, QueueFactsStay DEF QueueFacts
  <2>4. CASE slots[j].stamp.lap # ReadLap(j)
    <3>1. PICK z \in Senders : Writing(z) /\ seen[z].index = j
      BY <2>2, <2>4 DEF IInv, ContentOK
    <3>2. Writing(z)' /\ seen'[z].index = j /\ msg'[z] = msg[z]
      BY <1>1, <1>7, <2>2, <3>1 DEF Writing, Threads
    <3> QED
      BY <2>2, <3>1, <3>2, QueueFactsStay DEF QueueFacts
  <2> QED
    BY <2>3, <2>4
<1>9. AbsQueue'[d + 1] = msg[s]
  <2>1. d + 1 \in 1 .. Distance'
    BY <1>5
  <2>2. Held(i)' /\ AbsQueue'[d + 1] = Content(i)'
    BY <1>5, <2>1, QueueFactsStay DEF QueueFacts
  <2>3. Writing(s)' /\ seen'[s].index = i
    BY <1>1 DEF Writing
  <2>4. Content(i)' = msg'[s]
    BY <2>2, <2>3, QueueFactsStay DEF QueueFacts
  <2> QED
    BY <1>1, <2>2, <2>4
<1>10. Len(AbsQueue) < Cap /\ AbsQueue' = Append(AbsQueue, msg[s])
  <2>1. /\ AbsQueue \in Seq(Messages) /\ AbsQueue' \in Seq(Messages)
        /\ Len(AbsQueue) = d /\ Len(AbsQueue') = d + 1 /\ d + 1 \in 0 .. Cap
    BY <1>5, QueueFactsStay DEF QueueFacts
  <2>2. msg[s] \in Messages
    BY <1>1 DEF TypeOK, SendLabels
  <2> QED
    BY <1>8, <1>9, <2>1, <2>2, AppendIs, CapAssumption
<1>11. Status[s] = "pending" /\ Status' = [Status EXCEPT ![s] = "ok"]
  BY <1>1, StatusFrame, StatusTableHolds, StatusTableStays DEF StatusTable, Threads, Status
<1>12. Val[s] = msg[s] /\ Val' = Val
  <2>1. \A z \in Threads : SlotOf(z)' = SlotOf(z)
    BY <1>1 DEF SlotOf
  <2>2. AbsVal(s) = msg[s] /\ AbsVal(s)' = msg[s]
    BY <1>1 DEF AbsVal
  <2> QED
    BY <1>1, <2>1, <2>2, ValFrame DEF Threads, Val
<1> QED
  BY <1>1, <1>10, <1>11, <1>12 DEF Abs!Enqueue, Abs!Answer, Status, Val

\* The tail cannot have moved since it was a lap ahead of the head.
LEMMA FullImplements ==
  ASSUME TypeOK, IInv, TypeOK', IInv', NEW s \in Senders, LoadHeadWhenFull(s), pc'[s] # "send_load_tail"
  PROVE  Abs!Full(s)
<1>1. /\ UNCHANGED <<queueVars, disconnected, alive, seen, msg>> /\ ~Writing(s)
      /\ pc[s] = "send_load_head" /\ pc'[s] = "full" /\ LapLater(head) = seen[s]
      /\ \A z \in Threads \ {s} : pc'[z] = pc[z]
  BY DEF LoadHeadWhenFull, Goto, TypeOK, Threads, Writing
<1>2. /\ tail.lap \in Nat /\ head.lap \in Nat
      /\ tail.index \in 0 .. Cap - 1 /\ head.index \in 0 .. Cap - 1
      /\ seen[s].lap = head.lap + 1 /\ seen[s].index = head.index
  BY <1>1, TypedParts DEF LapLater, Stamp
<1>3. AtOrBefore(seen[s], tail) /\ OrderOK
  BY <1>1 DEF IInv, SeenOK
<1>4. Distance = Cap
  BY <1>2, <1>3, CapAssumption DEF OrderOK, AtOrBefore, Distance
<1>5. Len(AbsQueue) = Cap
  BY <1>4, QueueFactsStay DEF QueueFacts
<1>6. AbsStatus(s) = "pending" /\ AbsStatus(s)' = "full"
  BY <1>1, StatusTableHolds, StatusTableStays DEF StatusTable, Threads
<1>7. AbsVal(s)' = AbsVal(s)
  BY <1>1 DEF AbsVal
<1>8. AbsQueue' = AbsQueue /\ Status' = [Status EXCEPT ![s] = "full"] /\ Val' = Val
  BY <1>1, <1>6, <1>7, QuietThread DEF Threads
<1>9. Status[s] = "pending"
  BY <1>6 DEF Status, Threads
<1> QED
  BY <1>1, <1>5, <1>8, <1>9 DEF Abs!Full, Abs!Answer, Status, Val

LEMMA BeginRecvImplements ==
  ASSUME TypeOK, IInv, TypeOK', IInv', NEW r \in Receivers, BeginRecv(r)
  PROVE  Abs!BeginRecv(r)
<1>1. /\ UNCHANGED <<queueVars, disconnected, alive, seen, msg>> /\ ~Writing(r) /\ r \in alive
      /\ pc[r] = "idle" /\ pc'[r] = "recv_load_head"
      /\ \A z \in Threads \ {r} : pc'[z] = pc[z]
  BY DEF BeginRecv, Goto, TypeOK, Threads, Writing
<1>2. AbsStatus(r) = "idle" /\ AbsStatus(r)' = "pending"
  BY <1>1, StatusTableHolds, StatusTableStays DEF StatusTable, Threads
<1>3. AbsVal(r)' = AbsVal(r)
  BY <1>1 DEF AbsVal
<1>4. AbsQueue' = AbsQueue /\ Status' = [Status EXCEPT ![r] = "pending"] /\ Val' = Val
  BY <1>1, <1>2, <1>3, QuietThread DEF Threads
<1>5. Status[r] = "idle"
  BY <1>2 DEF Status, Threads
<1> QED
  BY <1>1, <1>4, <1>5 DEF Abs!BeginRecv, Abs!Answer, Status, Val

LEMMA DequeueImplements ==
  ASSUME TypeOK, IInv, TypeOK', IInv', NEW r \in Receivers, CasHead(r)
  PROVE  Abs!Dequeue(r)
<1> PICK i \in 0 .. Cap - 1 : i = head.index
  BY TypedParts
<1>1. /\ head = seen[r] /\ pc[r] = "recv_cas" /\ head' = Advance(head)
      /\ UNCHANGED <<tail, slots, seen, msg, disconnected, alive>> /\ pc'[r] = "recv_read"
      /\ \A z \in Threads \ {r} : pc'[z] = pc[z]
  BY DEF CasHead, Goto, TypeOK, Threads
<1>2. Held(i) /\ slots[i].stamp.lap = ReadLap(i) /\ ReadLap(i) = head.lap /\ WriteLap(i) = head.lap + 1
  BY <1>1, CasHeadFindsMessage
<1>3. /\ tail.lap \in Nat /\ head.lap \in Nat /\ tail.index \in 0 .. Cap - 1
  BY TypedParts
<1>4. \/ i + 1 < Cap /\ head'.lap = head.lap /\ head'.index = i + 1
      \/ i = Cap - 1 /\ head'.lap = head.lap + 2 /\ head'.index = 0
  BY <1>1, <1>3, CapAssumption DEF Advance, Stamp
<1> PICK d \in Nat : d = Distance
  BY QueueFactsStay DEF QueueFacts
<1>5. Distance' = d - 1 /\ 1 <= d
  <2>1. OrderOK
    BY DEF IInv
  <2>2. CASE tail.lap = head.lap + 1 /\ tail.index <= head.index
    BY <1>1, <1>3, <1>4, <2>2, CapAssumption DEF Distance
  <2>3. CASE tail.lap + 1 = head.lap /\ head.index <= tail.index
    <3>1. i < tail.index
      BY <1>2, <1>3, <2>3 DEF WriteLap
    <3> QED
      BY <1>1, <1>3, <1>4, <2>3, <3>1, CapAssumption DEF Distance, SlotAt
  <2> QED
    BY <2>1, <2>2, <2>3 DEF OrderOK
<1>6. \A j \in (0 .. Cap - 1) \ {i} : ReadLap(j)' = ReadLap(j)
  BY <1>1, <1>3, <1>4 DEF ReadLap
<1>7. ~Held(i)'
  BY <1>1, <1>2, <1>3, <1>4 DEF Held, WriteLap, ReadLap
<1>8. ASSUME NEW n \in 1 .. d - 1 PROVE AbsQueue'[n] = AbsQueue[n + 1]
  <2>1. n + 1 \in 1 .. d /\ SlotAt(n)' = SlotAt(n + 1)
    <3>1. n + 1 \in 1 .. d
      BY <1>5
    <3>2. n + 1 \in 1 .. Cap
      BY <3>1, CapAssumption, QueueFactsStay DEF QueueFacts
    <3> QED
      BY <1>4, <3>1, <3>2, CapAssumption DEF SlotAt
  <2> PICK j \in 0 .. Cap - 1 : j = SlotAt(n + 1)
    BY <2>1, QueueFactsStay DEF QueueFacts
  <2>2. Held(j) /\ Held(j)' /\ AbsQueue[n + 1] = Content(j) /\ AbsQueue'[n] = Content(j)'
    BY <1>5, <2>1, QueueFactsStay DEF QueueFacts
  <2>3. ReadLap(j)' = ReadLap(j)
    BY <1>6, <1>7, <2>2
  <2>4. CASE slots[j].stamp.lap = ReadLap(j)
    <3>1. Content(j) = slots[j].msg
      BY <2>2, <2>4, ReadContents
    <3>2. Content(j)' = slots'[j].msg
      BY <1>1, <2>2, <2>3, <2>4, ReadContents
    <3> QED
      BY <1>1, <2>2, <3>1, <3>2
  <2>5. CASE slots[j].stamp.lap # ReadLap(j)
    <3>1. PICK z \in Senders : Writing(z) /\ seen[z].index = j
      BY <2>2, <2>5 DEF IInv, ContentOK
    <3>2. Writing(z)' /\ seen'[z].index = j /\ msg'[z] = msg[z]
      BY <1>1, <3>1, ThreadAssumption DEF Writing, Threads
    <3> QED
      BY <2>2, <3>1, <3>2, QueueFactsStay DEF QueueFacts
  <2> QED
    BY <2>4, <2>5
<1>9. AbsQueue[1] = slots[i].msg
  <2>1. 1 \in 1 .. d
    BY <1>5
  <2>2. SlotAt(1) = i
    BY CapAssumption DEF SlotAt
  <2> QED
    BY <1>2, <2>1, <2>2, QueueFactsStay DEF QueueFacts
<1>10. AbsQueue # <<>> /\ AbsQueue' = Tail(AbsQueue) /\ Head(AbsQueue) = slots[i].msg
  <2>1. /\ AbsQueue \in Seq(Messages) /\ AbsQueue' \in Seq(Messages)
        /\ Len(AbsQueue') = d - 1 /\ Len(AbsQueue) = d
    BY <1>5, QueueFactsStay DEF QueueFacts
  <2> QED
    BY <1>8, <1>9, <2>1, TailIs
<1>11. Status[r] = "pending" /\ Status' = [Status EXCEPT ![r] = "ok"]
  BY <1>1, StatusFrame, StatusTableHolds, StatusTableStays DEF StatusTable, Threads, Status
<1>12. Val' = [Val EXCEPT ![r] = slots[i].msg]
  <2>1. \A z \in Threads : SlotOf(z)' = SlotOf(z)
    BY <1>1 DEF SlotOf
  <2>2. AbsVal(r)' = slots[i].msg
    BY <1>1 DEF AbsVal, SlotOf
  <2> QED
    BY <1>1, <2>1, <2>2, ValFrame DEF Threads
<1> QED
  BY <1>1, <1>10, <1>11, <1>12 DEF Abs!Dequeue, Abs!Answer, Status, Val

\* The head cannot have moved since the tail was a lap behind it.
LEMMA EmptyQueue ==
  ASSUME TypeOK, IInv, NEW r \in Receivers, LapLater(tail) = seen[r],
         pc[r] \in {"recv_load_tail", "recv_reload_tail"}
  PROVE  AbsQueue = <<>>
<1>1. /\ tail.lap \in Nat /\ head.lap \in Nat
      /\ tail.index \in 0 .. Cap - 1 /\ head.index \in 0 .. Cap - 1
      /\ seen[r].lap = tail.lap + 1 /\ seen[r].index = tail.index
  BY TypedParts DEF LapLater, Stamp
<1>2. AtOrBefore(seen[r], head) /\ OrderOK
  BY DEF IInv, SeenOK
<1>3. Distance = 0
  BY <1>1, <1>2, CapAssumption DEF OrderOK, AtOrBefore, Distance
<1>4. AbsQueue \in Seq(Messages) /\ Len(AbsQueue) = 0
  BY <1>3, QueueFactsHold DEF QueueFacts
<1> QED
  BY <1>4, EmptySeq

\* The steps of a receiver that looks at the tail and at the disconnection.
LEMMA LookImplements ==
  ASSUME TypeOK, IInv, TypeOK', IInv', SawDisconnected, NEW r \in Receivers
  PROVE  /\ LoadTailWhenEmpty(r) /\ pc'[r] # "recv_load_head" => Abs!Glance(r)
         /\ CheckDisconnected(r) /\ pc'[r] # "recv_reload_tail" => Abs!Empty(r)
         /\ ReloadTail(r) => Abs!Disconnected(r) \/ Abs!Glance(r)
<1> SUFFICES ASSUME \/ LoadTailWhenEmpty(r) /\ pc'[r] # "recv_load_head"
                    \/ CheckDisconnected(r) /\ pc'[r] # "recv_reload_tail"
                    \/ ReloadTail(r)
             PROVE  /\ LoadTailWhenEmpty(r) => Abs!Glance(r)
                    /\ CheckDisconnected(r) => Abs!Empty(r)
                    /\ ReloadTail(r) => Abs!Disconnected(r) \/ Abs!Glance(r)
  OBVIOUS
<1>1. /\ UNCHANGED <<queueVars, disconnected, alive, seen, msg>> /\ ~Writing(r)
      /\ pc[r] # "recv_read" /\ pc'[r] # "recv_read"
      /\ \A z \in Threads \ {r} : pc'[z] = pc[z]
  BY DEF LoadTailWhenEmpty, CheckDisconnected, ReloadTail, Goto, TypeOK, Threads, Writing
<1>2. AbsVal(r)' = AbsVal(r)
  BY <1>1 DEF AbsVal
<1>3. AbsQueue' = AbsQueue /\ Status' = [Status EXCEPT ![r] = AbsStatus(r)'] /\ Val' = Val
  BY <1>1, <1>2, QuietThread DEF Threads
<1>4. Status[r] = AbsStatus(r)
  BY DEF Status, Threads
<1>5. CASE LoadTailWhenEmpty(r)
  <2>1. pc[r] = "recv_load_tail" /\ pc'[r] = "recv_check_disc" /\ LapLater(tail) = seen[r]
    BY <1>5 DEF LoadTailWhenEmpty, CheckDisconnected, ReloadTail, Goto, TypeOK, Threads
  <2>2. AbsStatus(r) = "pending" /\ AbsStatus(r)' = "glanced" /\ AbsQueue = <<>>
    BY <2>1, EmptyQueue, StatusTableHolds, StatusTableStays DEF StatusTable, Threads
  <2>3. Abs!Glance(r)
    BY <1>1, <1>3, <1>4, <2>2 DEF Abs!Glance, Abs!Answer, Status, Val
  <2> QED
    BY <2>1, <2>3 DEF CheckDisconnected, ReloadTail
<1>6. CASE CheckDisconnected(r)
  <2>1. pc[r] = "recv_check_disc" /\ pc'[r] = "empty"
    BY <1>6 DEF LoadTailWhenEmpty, CheckDisconnected, ReloadTail, Goto, TypeOK, Threads
  <2>2. AbsStatus(r) = "glanced" /\ AbsStatus(r)' = "empty"
    BY <2>1, StatusTableHolds, StatusTableStays DEF StatusTable, Threads
  <2>3. Abs!Empty(r)
    BY <1>1, <1>3, <1>4, <2>2 DEF Abs!Empty, Abs!Answer, Status, Val
  <2> QED
    BY <2>1, <2>3 DEF LoadTailWhenEmpty, ReloadTail
<1>7. CASE ReloadTail(r)
  <2>1. /\ pc[r] = "recv_reload_tail" /\ disconnected
        /\ \/ pc'[r] = "disconnected" /\ LapLater(tail) = seen[r]
           \/ pc'[r] = "recv_load_head"
    BY <1>7 DEF ReloadTail, Goto, TypeOK, Threads, SawDisconnected
  <2>2. /\ AbsStatus(r) = "glanced"
        /\ \/ AbsStatus(r)' = "disconnected" /\ AbsQueue = <<>>
           \/ AbsStatus(r)' = "pending"
    BY <2>1, EmptyQueue, StatusTableHolds, StatusTableStays DEF StatusTable, Threads
  <2>3. Abs!Disconnected(r) \/ Abs!Glance(r)
    BY <1>1, <1>3, <1>4, <2>1, <2>2 DEF Abs!Disconnected, Abs!Glance, Abs!Answer, Status, Val
  <2> QED
    BY <2>1, <2>3 DEF LoadTailWhenEmpty, CheckDisconnected
<1> QED
  BY <1>5, <1>6, <1>7

LEMMA ReturnImplements ==
  ASSUME TypeOK, IInv, TypeOK', IInv', NEW t \in Threads, Return(t)
  PROVE  Abs!Return(t)
<1>1. /\ UNCHANGED <<queueVars, disconnected, alive>> /\ ~Writing(t)
      /\ pc[t] \in Answered /\ pc'[t] = "idle" /\ msg'[t] = NoMsg
      /\ \A z \in Threads \ {t} : pc'[z] = pc[z] /\ seen'[z] = seen[z] /\ msg'[z] = msg[z]
  BY DEF Return, Goto, TypeOK, Writing, Answered
<1>2. AbsStatus(t) \in Answered /\ AbsStatus(t)' = "idle"
  BY <1>1, StatusTableHolds, StatusTableStays DEF StatusTable, Answered
<1>3. AbsVal(t)' = NoMsg
  BY <1>1 DEF AbsVal
<1>4. /\ AbsQueue' = AbsQueue /\ Status' = [Status EXCEPT ![t] = "idle"]
      /\ Val' = [Val EXCEPT ![t] = NoMsg]
  BY <1>1, <1>2, <1>3, QuietThread
<1>5. Status[t] \in Abs!Answered
  BY <1>2 DEF Status, Answered, Abs!Answered
<1> QED
  BY <1>1, <1>4, <1>5 DEF Abs!Return, Abs!Answer, Status, Val

LEMMA DropHandleImplements ==
  ASSUME TypeOK, IInv, TypeOK', IInv', NEW t \in Threads, DropHandle(t)
  PROVE  Abs!DropHandle(t)
<1>1. /\ UNCHANGED <<queueVars, pc, seen, msg>> /\ ~Writing(t)
      /\ pc[t] = "idle" /\ t \in alive /\ alive' = alive \ {t}
      /\ disconnected' = (disconnected \/ alive' \cap Senders = {} \/ alive' \cap Receivers = {})
  BY DEF DropHandle, Writing
<1>2. AbsStatus(t) = "idle" /\ AbsStatus(t)' = "idle"
  BY <1>1, StatusTableHolds, StatusTableStays DEF StatusTable
<1>3. AbsVal(t)' = AbsVal(t)
  BY <1>1 DEF AbsVal
<1>4. AbsQueue' = AbsQueue /\ Status' = Status /\ Val' = Val
  BY <1>1, <1>2, <1>3, QuietThread
<1>5. Status[t] = "idle"
  BY <1>2 DEF Status
<1> QED
  BY <1>1, <1>4, <1>5 DEF Abs!DropHandle, Status, Val
-------------------------------------------------------------------------------
LEMMA InitImplements == Init => Abs!Init
<1> SUFFICES ASSUME Init PROVE Abs!Init
  OBVIOUS
<1>1. Distance = 0
  BY CapAssumption DEF Init, Distance, Stamp
<1>2. AbsQueue = <<>>
  BY <1>1, InitTypeOK, InitIInv, QueueFactsHold, EmptySeq DEF QueueFacts
<1>3. \A t \in Threads : AbsStatus(t) = "idle" /\ AbsVal(t) = NoMsg
  BY StatusTableHolds DEF Init, StatusTable, AbsVal
<1> QED
  BY <1>2, <1>3 DEF Init, Abs!Init, Threads, Abs!Threads

LEMMA InitSaw == Init => SawDisconnected
BY DEF Init, SawDisconnected, Threads

LEMMA NextSaw == TypeOK /\ SawDisconnected /\ [Next]_vars => SawDisconnected'
<1> SUFFICES ASSUME TypeOK, SawDisconnected, [Next]_vars, NEW r \in Receivers,
                    pc'[r] = "recv_reload_tail"
             PROVE  disconnected'
  BY DEF SawDisconnected
<1>1. disconnected => disconnected'
  BY DEF Next, SendStep, RecvStep, Terminated, vars, BeginSend, LoadTail, LoadSendStamp, CasTail,
         CasTailFails, LoadHeadWhenFull, WriteMsg, Publish, BeginRecv, LoadHead, LoadRecvStamp,
         CasHead, CasHeadFails, LoadTailWhenEmpty, CheckDisconnected, ReloadTail, ReadMsg,
         Release, Return, DropHandle
<1>2. r \in Threads /\ DOMAIN pc = Threads
  BY DEF TypeOK, Threads
<1>3. ASSUME NEW z \in Threads, NEW l, l # "recv_reload_tail", Goto(z, l)
      PROVE  pc[r] = "recv_reload_tail"
  BY <1>2, <1>3 DEF Goto
<1>4. pc[r] = "recv_reload_tail" \/ CheckDisconnected(r)
  <2>1. ASSUME NEW z \in Threads, BeginSend(z) \/ SendStep(z) \/ BeginRecv(z) \/ Return(z)
        PROVE  pc[r] = "recv_reload_tail"
    <3>1. \E l : l # "recv_reload_tail" /\ Goto(z, l)
      BY <2>1 DEF BeginSend, SendStep, LoadTail, LoadSendStamp, CasTail, CasTailFails,
                  LoadHeadWhenFull, WriteMsg, Publish, BeginRecv, Return
    <3> QED
      BY <1>3, <3>1
  <2>2. ASSUME NEW z \in Receivers, RecvStep(z), ~CheckDisconnected(z)
        PROVE  pc[r] = "recv_reload_tail"
    <3>1. \E l : l # "recv_reload_tail" /\ Goto(z, l)
      BY <2>2 DEF RecvStep, LoadHead, LoadRecvStamp, CasHead, CasHeadFails, LoadTailWhenEmpty,
                  ReloadTail, ReadMsg, Release
    <3> QED
      BY <1>3, <3>1 DEF Threads
  <2>3. ASSUME NEW z \in Receivers, CheckDisconnected(z), z # r
        PROVE  pc[r] = "recv_reload_tail"
    BY <1>2, <2>3 DEF CheckDisconnected, Goto
  <2>4. CASE UNCHANGED pc
    BY <2>4
  <2>5. Senders \subseteq Threads /\ Receivers \subseteq Threads
    BY DEF Threads
  <2>6. \/ \E z \in Threads : BeginSend(z) \/ SendStep(z) \/ BeginRecv(z) \/ Return(z)
        \/ \E z \in Receivers : RecvStep(z)
        \/ UNCHANGED pc
    BY <2>5 DEF Next, Terminated, DropHandle, vars
  <2> QED
    BY <2>1, <2>2, <2>3, <2>4, <2>6
<1>5. CheckDisconnected(r) => disconnected
  BY <1>2 DEF CheckDisconnected, Goto
<1> QED
  BY <1>1, <1>4, <1>5 DEF SawDisconnected

\* Every step of the ring buffer is a step of the abstract queue, or none.
LEMMA NextImplements ==
  TypeOK /\ IInv /\ SawDisconnected /\ TypeOK' /\ IInv' /\ [Next]_vars => [Abs!Next]_(Abs!vars)
<1> SUFFICES ASSUME TypeOK, IInv, SawDisconnected, TypeOK', IInv', [Next]_vars
             PROVE  Abs!Next \/ UNCHANGED Abs!vars
  OBVIOUS
<1> USE DEF Abs!Next
<1>1. ASSUME NEW s \in Senders, BeginSend(s) \/ SendStep(s) PROVE Abs!Next \/ UNCHANGED Abs!vars
  <2>1. CASE BeginSend(s)
    BY <2>1, BeginSendImplements
  <2>2. CASE LoadTail(s) \/ LoadSendStamp(s) \/ CasTailFails(s)
    BY <2>2, SilentSends
  <2>3. CASE CasTail(s)
    BY <2>3, EnqueueImplements
  <2>4. CASE LoadHeadWhenFull(s)
    BY <2>4, SilentSends, FullImplements
  <2>5. CASE WriteMsg(s) \/ Publish(s)
    BY <2>5, WriteMsgSilent, PublishSilent
  <2> QED
    BY <1>1, <2>1, <2>2, <2>3, <2>4, <2>5 DEF SendStep
<1>2. ASSUME NEW r \in Receivers, BeginRecv(r) \/ RecvStep(r) PROVE Abs!Next \/ UNCHANGED Abs!vars
  <2>1. CASE BeginRecv(r)
    BY <2>1, BeginRecvImplements
  <2>2. CASE LoadHead(r) \/ LoadRecvStamp(r) \/ CasHeadFails(r)
    BY <2>2, SilentRecvs
  <2>3. CASE CasHead(r)
    BY <2>3, DequeueImplements
  <2>4. CASE LoadTailWhenEmpty(r) \/ CheckDisconnected(r) \/ ReloadTail(r)
    BY <2>4, SilentRecvs, LookImplements
  <2>5. CASE ReadMsg(r) \/ Release(r)
    BY <2>5, ReadMsgSilent, ReleaseSilent
  <2> QED
    BY <1>2, <2>1, <2>2, <2>3, <2>4, <2>5 DEF RecvStep
<1>3. ASSUME NEW t \in Threads, Return(t) \/ DropHandle(t) PROVE Abs!Next \/ UNCHANGED Abs!vars
  BY <1>3, ReturnImplements, DropHandleImplements DEF Threads, Abs!Threads
<1>4. ASSUME UNCHANGED vars PROVE UNCHANGED Abs!vars
  <2>1. AbsQueue' = AbsQueue
    BY <1>4, QuietContents DEF vars, queueVars, Writing
  <2>2. \A t \in Threads : AbsStatus(t)' = AbsStatus(t) /\ AbsVal(t)' = AbsVal(t)
    BY <1>4 DEF vars, queueVars, AbsStatus, AbsVal, Writing, Reading, SlotOf
  <2> QED
    BY <1>4, <2>1, <2>2, AbsStutter DEF vars, Status, Val
<1> QED
  BY <1>1, <1>2, <1>3, <1>4 DEF Next, Terminated

\* try_send and try_recv are linearizable: with any number of threads and any
\* capacity, every behaviour of the atomic accesses is one of a FIFO queue.
THEOREM Linearizable == Spec => Implements
<1>1. TypeOK /\ IInv /\ SawDisconnected /\ [Next]_vars => TypeOK' /\ IInv' /\ SawDisconnected'
  BY NextTypeOK, NextIInv, NextSaw
<1> QED
  BY <1>1, InitTypeOK, InitIInv, InitSaw, InitImplements, NextImplements, PTL
  DEF Spec, Implements, Abs!Spec
-------------------------------------------------------------------------------
(* len, is_empty and is_full, and the drop of the channel. *)

\* The queue grows by one message as the tail moves, and shrinks by one as the
\* head does.
LEMMA EndsMove ==
  ASSUME TypeOK, TypeOK', IInv, IInv', [Next]_vars
  PROVE  \/ UNCHANGED <<head, tail>> /\ Distance' = Distance
         \/ /\ head' = head /\ tail' = Advance(tail) /\ Distance' = Distance + 1
            /\ AtOrBefore(tail, tail') /\ ~AtOrBefore(tail', tail)
         \/ /\ tail' = tail /\ head' = Advance(head) /\ Distance' = Distance - 1
            /\ AtOrBefore(head, head') /\ ~AtOrBefore(head', head)
<1> PICK i, j, k, l : i = head.index /\ j = tail.index /\ k = head.lap /\ l = tail.lap
  OBVIOUS
<1>1. k \in Nat /\ l \in Nat /\ i \in 0 .. Cap - 1 /\ j \in 0 .. Cap - 1
  BY TypedParts
<1>2. (l + 1 = k /\ i <= j) \/ (l = k + 1 /\ j <= i)
  BY DEF IInv, OrderOK
<1>3. OrderOK'
  BY DEF IInv
<1>4. UNCHANGED <<head, tail>> \/ (head' = head /\ tail' = Advance(tail))
                             \/ (tail' = tail /\ head' = Advance(head))
  BY DEF Next, SendStep, RecvStep, Terminated, vars, queueVars, BeginSend, LoadTail, LoadSendStamp,
         CasTail, CasTailFails, LoadHeadWhenFull, WriteMsg, Publish, BeginRecv, LoadHead,
         LoadRecvStamp, CasHead, CasHeadFails, LoadTailWhenEmpty, CheckDisconnected, ReloadTail,
         ReadMsg, Release, Return, DropHandle
<1>5. ASSUME head' = head, tail' = Advance(tail)
      PROVE  /\ Distance' = Distance + 1
             /\ AtOrBefore(tail, tail') /\ ~AtOrBefore(tail', tail)
  <2>1. \/ j + 1 < Cap /\ tail'.lap = l /\ tail'.index = j + 1
        \/ j = Cap - 1 /\ tail'.lap = l + 2 /\ tail'.index = 0
    BY <1>1, <1>5, CapAssumption DEF Advance, Stamp
  <2>2. head'.lap = k /\ head'.index = i
    BY <1>5
  <2>3. AtOrBefore(tail, tail') /\ ~AtOrBefore(tail', tail)
    BY <1>1, <2>1, CapAssumption DEF AtOrBefore
  <2>4. /\ Distance = IF l < k THEN j - i ELSE Cap - i + j
        /\ Distance' = IF tail'.lap < head'.lap THEN tail'.index - head'.index
                                               ELSE Cap - head'.index + tail'.index
        /\ \/ tail'.lap + 1 = head'.lap /\ head'.index <= tail'.index
           \/ tail'.lap = head'.lap + 1 /\ tail'.index <= head'.index
    BY <1>3 DEF OrderOK, Distance
  <2>5. Distance' = Distance + 1
    <3>1. CASE l + 1 = k /\ i <= j
      BY <1>1, <2>1, <2>2, <2>4, <3>1, CapAssumption
    <3>2. CASE l = k + 1 /\ j <= i
      BY <1>1, <2>1, <2>2, <2>4, <3>2, CapAssumption
    <3> QED
      BY <1>2, <3>1, <3>2
  <2> QED
    BY <2>3, <2>5
<1>6. ASSUME tail' = tail, head' = Advance(head)
      PROVE  /\ Distance' = Distance - 1
             /\ AtOrBefore(head, head') /\ ~AtOrBefore(head', head)
  <2>1. \/ i + 1 < Cap /\ head'.lap = k /\ head'.index = i + 1
        \/ i = Cap - 1 /\ head'.lap = k + 2 /\ head'.index = 0
    BY <1>1, <1>6, CapAssumption DEF Advance, Stamp
  <2>2. tail'.lap = l /\ tail'.index = j
    BY <1>6
  <2>3. AtOrBefore(head, head') /\ ~AtOrBefore(head', head)
    BY <1>1, <2>1, CapAssumption DEF AtOrBefore
  <2>4. /\ Distance = IF l < k THEN j - i ELSE Cap - i + j
        /\ Distance' = IF tail'.lap < head'.lap THEN tail'.index - head'.index
                                               ELSE Cap - head'.index + tail'.index
        /\ \/ tail'.lap + 1 = head'.lap /\ head'.index <= tail'.index
           \/ tail'.lap = head'.lap + 1 /\ tail'.index <= head'.index
    BY <1>3 DEF OrderOK, Distance
  <2>5. Distance' = Distance - 1
    <3>1. CASE l + 1 = k /\ i <= j
      <4>1. k # l + 3 /\ ~(l > k) /\ l < k
        BY <1>1, <3>1
      <4>2. CASE i + 1 < Cap /\ head'.lap = k /\ head'.index = i + 1
        BY <1>1, <2>2, <2>4, <3>1, <4>1, <4>2
      <4>3. CASE i = Cap - 1 /\ head'.lap = k + 2 /\ head'.index = 0
        BY <1>1, <2>2, <2>4, <3>1, <4>1, <4>3
      <4> QED
        BY <2>1, <4>2, <4>3
    <3>2. CASE l = k + 1 /\ j <= i
      BY <1>1, <2>1, <2>2, <2>4, <3>2, CapAssumption
    <3> QED
      BY <1>2, <3>1, <3>2
  <2> QED
    BY <2>3, <2>5
<1>7. UNCHANGED <<head, tail>> => Distance' = Distance
  BY DEF Distance
<1> QED
  BY <1>4, <1>5, <1>6, <1>7

\* What two words of one moment say, and what one of them says of an older one.
LEMMA WordsTell ==
  ASSUME TypeOK, IInv
  PROVE  /\ LenOf(head, tail) = Distance
         /\ LapLater(tail) = head <=> Distance = 0
         /\ LapLater(head) = tail <=> Distance = Cap
         /\ \A st \in Stamps : AtOrBefore(st, head) /\ LapLater(tail) = st => Distance = 0
         /\ \A st \in Stamps : AtOrBefore(st, tail) /\ LapLater(head) = st => Distance = Cap
<1> PICK i, j, k, l : i = head.index /\ j = tail.index /\ k = head.lap /\ l = tail.lap
  OBVIOUS
<1>1. /\ k \in Nat /\ l \in Nat /\ i \in 0 .. Cap - 1 /\ j \in 0 .. Cap - 1
      /\ head \in Stamps /\ tail \in Stamps
  BY TypedParts
<1>2. (l + 1 = k /\ i <= j) \/ (l = k + 1 /\ j <= i)
  BY DEF IInv, OrderOK
<1>3. /\ LapLater(tail).lap = l + 1 /\ LapLater(tail).index = j
      /\ LapLater(head).lap = k + 1 /\ LapLater(head).index = i
      /\ LapLater(tail) = head <=> k = l + 1 /\ i = j
      /\ LapLater(head) = tail <=> l = k + 1 /\ i = j
  BY <1>1 DEF LapLater, Stamp, Stamps
<1>4. /\ LapLater(tail) = head <=> Distance = 0
      /\ LapLater(head) = tail <=> Distance = Cap
  BY <1>1, <1>2, <1>3, CapAssumption DEF Distance
<1>5. LenOf(head, tail) = Distance
  <2>1. LenOf(head, tail) = CASE i < j -> j - i [] i > j -> Cap - i + j
                              [] i = j -> IF LapLater(tail) = head THEN 0 ELSE Cap
    BY DEF LenOf
  <2> QED
    BY <1>1, <1>2, <1>3, <2>1, CapAssumption DEF Distance
<1>6. ASSUME NEW st \in Stamps, AtOrBefore(st, head), LapLater(tail) = st PROVE Distance = 0
  <2>1. st.lap = l + 1 /\ st.index = j
    BY <1>3, <1>6
  <2> QED
    BY <1>1, <1>2, <1>6, <2>1, CapAssumption DEF AtOrBefore, Distance
<1>7. ASSUME NEW st \in Stamps, AtOrBefore(st, tail), LapLater(head) = st PROVE Distance = Cap
  <2>1. st.lap = k + 1 /\ st.index = i
    BY <1>3, <1>7
  <2> QED
    BY <1>1, <1>2, <1>7, <2>1, CapAssumption DEF AtOrBefore, Distance
<1> QED
  BY <1>4, <1>5, <1>6, <1>7

\* Nobody is inside a call without a handle.
AliveInside == \A t \in Threads : t \notin alive => pc[t] = "idle"

LEMMA NextAliveInside ==
  ASSUME TypeOK, AliveInside, [Next]_vars
  PROVE  AliveInside'
<1> USE ThreadAssumption DEF Goto, Threads
<1>0. pc \in [Threads -> SendLabels \cup RecvLabels \cup Answered \cup {"idle"}]
  BY DEF TypeOK
<1>1. ASSUME NEW s \in Senders, BeginSend(s) \/ SendStep(s) PROVE AliveInside'
  <2>1. alive' = alive /\ s \in alive /\ \A z \in Threads \ {s} : pc'[z] = pc[z]
    BY <1>0, <1>1 DEF AliveInside, BeginSend, SendStep, LoadTail, LoadSendStamp, CasTail, CasTailFails,
                      LoadHeadWhenFull, WriteMsg, Publish
  <2> QED
    BY <2>1 DEF AliveInside
<1>2. ASSUME NEW r \in Receivers, BeginRecv(r) \/ RecvStep(r) PROVE AliveInside'
  <2>1. alive' = alive /\ r \in alive /\ \A z \in Threads \ {r} : pc'[z] = pc[z]
    BY <1>0, <1>2 DEF AliveInside, BeginRecv, RecvStep, LoadHead, LoadRecvStamp, CasHead, CasHeadFails,
                      LoadTailWhenEmpty, CheckDisconnected, ReloadTail, ReadMsg, Release
  <2> QED
    BY <2>1 DEF AliveInside
<1>3. ASSUME NEW t \in Threads, Return(t) PROVE AliveInside'
  BY <1>0, <1>3 DEF Return, AliveInside
<1>4. ASSUME NEW t \in Threads, DropHandle(t) PROVE AliveInside'
  BY <1>0, <1>4 DEF DropHandle, AliveInside
<1>5. ASSUME UNCHANGED vars PROVE AliveInside'
  BY <1>5 DEF vars, AliveInside
<1> QED
  BY <1>1, <1>2, <1>3, <1>4, <1>5 DEF Next, Terminated

\* Once all handles are gone, every message left is in its slot, and nothing
\* happens any more.
LEMMA AllGone ==
  ASSUME TypeOK, IInv, AliveInside, alive = {}
  PROVE  /\ \A n \in 1 .. Distance : AbsQueue[n] = slots[SlotAt(n)].msg
         /\ [Next]_vars => UNCHANGED vars
<1>1. \A t \in Threads : pc[t] = "idle"
  BY DEF AliveInside
<1>2. ASSUME NEW n \in 1 .. Distance PROVE AbsQueue[n] = slots[SlotAt(n)].msg
  <2> PICK i \in 0 .. Cap - 1 : i = SlotAt(n) /\ Held(i)
    BY Positions
  <2>1. ~ \E s \in Senders : Writing(s)
    BY <1>1 DEF Writing, Threads
  <2>2. slots[i].stamp.lap = ReadLap(i)
    BY <2>1 DEF IInv, ContentOK
  <2> QED
    BY <2>2, QueueFactsHold DEF QueueFacts
<1>3. Next => UNCHANGED vars
  BY <1>1 DEF Next, SendStep, RecvStep, Terminated, BeginSend, LoadTail, LoadSendStamp,
         CasTail, CasTailFails, LoadHeadWhenFull, WriteMsg, Publish, BeginRecv, LoadHead,
         LoadRecvStamp, CasHead, CasHeadFails, LoadTailWhenEmpty, CheckDisconnected, ReloadTail,
         ReadMsg, Release, Return, DropHandle, Threads, Answered
<1> QED
  BY <1>2, <1>3

\* The drop of the channel reads the slots of the queue, oldest first.
LEMMA DropReads ==
  ASSUME TypeOK, IInv, AliveInside, alive = {}
  PROVE  /\ [n \in 1 .. LenOf(head, tail) |->
               slots[IF head.index + n - 1 < Cap THEN head.index + n - 1
                                                 ELSE head.index + n - 1 - Cap].msg] = AbsQueue
         /\ NoMsg \notin ToSet(AbsQueue)
<1>1. AbsQueue = [n \in 1 .. Distance |-> Content(SlotAt(n))]
  BY DEF AbsQueue
<1>2. \A n \in 1 .. Distance : Content(SlotAt(n)) = slots[SlotAt(n)].msg
  BY <1>1, AllGone
<1>3. LenOf(head, tail) = Distance
  BY WordsTell
<1>4. \A n \in 1 .. Distance : AbsQueue[n] \in Messages
  BY <1>1, QueueFactsHold, Positions DEF QueueFacts
<1>5. NoMsg \notin Messages
  BY NoMsgAssumption DEF Messages
<1>6. NoMsg \notin ToSet(AbsQueue)
  BY <1>1, <1>4, <1>5 DEF ToSet
<1> QED
  BY <1>1, <1>2, <1>3, <1>6 DEF SlotAt

\* The words the observer has loaded are old in one direction only, and unless
\* the first of the two has changed since, they tell a length of that moment.
ObsInv ==
  /\ loaded \in [tail : Stamps, head : Stamps]
  /\ obs \notin {"idle", "dropped"} => Distance \in lengths
  /\ obs \in {"len_head", "len_reload", "full_head"} => AtOrBefore(loaded.tail, tail)
  /\ obs = "empty_tail" => AtOrBefore(loaded.head, head)
  /\ obs = "len_reload" /\ tail = loaded.tail => LenOf(loaded.head, loaded.tail) \in lengths
  /\ obs = "empty_tail" => LapLater(tail) = loaded.head \/ lengths \ {0} # {}
  /\ obs = "full_head" => LapLater(head) = loaded.tail \/ lengths \ {Cap} # {}
  /\ obs = "dropped" => alive = {}
  /\ ObservationsTrue /\ DropsRest

LEMMA InitObsInv == ObsInit => ObsInv
<1> SUFFICES ASSUME ObsInit PROVE ObsInv
  OBVIOUS
<1>1. head \in Stamps /\ tail \in Stamps
  BY InitTypeOK DEF ObsInit, TypeOK
<1> QED
  BY <1>1 DEF ObsInit, ObsInv, ObservationsTrue, DropsRest

\* The observer's own steps.
LEMMA ObsStepInv ==
  ASSUME TypeOK, IInv, AliveInside, ObsInv, ObsStep, UNCHANGED vars, Watch
  PROVE  ObsInv'
<1> PICK d : d = Distance
  OBVIOUS
<1>1. /\ UNCHANGED <<head, tail, slots, alive>> /\ Distance' = d
      /\ head \in Stamps /\ tail \in Stamps
      /\ \A a, b : LenOf(a, b)' = LenOf(a, b)
  BY TypedParts DEF vars, Distance, LenOf
<1>2. AtOrBefore(tail, tail) /\ AtOrBefore(head, head)
  BY TypedParts DEF AtOrBefore
<1> USE DEF ObsInv, ObservationsTrue, DropsRest
<1>3. CASE Begin \/ Finish
  <2>1. \/ obs' \in Calls /\ UNCHANGED loaded
        \/ obs' = "idle" /\ loaded' = [tail |-> Stamp(0, 0), head |-> Stamp(1, 0)]
    BY <1>3 DEF Begin, Finish
  <2>2. obs' # "idle" => obs' # "dropped" /\ lengths' = lengths \cup {d}
    BY <1>1, <2>1 DEF Watch, Calls
  <2>3. Stamp(0, 0) \in Stamps /\ Stamp(1, 0) \in Stamps
    BY StampFacts, CapAssumption
  <2> QED
    BY <1>1, <2>1, <2>2, <2>3 DEF Calls
<1>4. CASE DropChannel
  <2>1. /\ obs' = "dropped" /\ UNCHANGED loaded /\ alive = {} /\ dropped' = AbsQueue
        /\ NoMsg \notin ToSet(AbsQueue)
    BY <1>4, DropReads DEF DropChannel
  <2>2. AbsQueue' = AbsQueue
    <3>1. \A n \in 1 .. Distance : Content(SlotAt(n))' = Content(SlotAt(n))
      BY DEF Content, ReadLap, Writing, SlotAt, vars
    <3> QED
      BY <1>1, <3>1 DEF AbsQueue
  <2> QED
    BY <1>1, <2>1, <2>2
<1>5. CASE Load("len_tail", "tail", "len_head") \/ Load("full_tail", "tail", "full_head")
  <2>1. /\ obs' \in {"len_head", "full_head"} /\ loaded' = [loaded EXCEPT !.tail = tail]
        /\ lengths' = lengths \cup {d}
    BY <1>1, <1>5 DEF Load, Watch
  <2>2. loaded'.tail = tail /\ loaded' \in [tail : Stamps, head : Stamps]
    BY <1>1, <2>1
  <2>3. LapLater(head) = tail \/ lengths' \ {Cap} # {}
    BY <2>1, WordsTell
  <2> QED
    BY <1>1, <1>2, <2>1, <2>2, <2>3 DEF AtOrBefore, LapLater
<1>6. CASE Load("len_head", "head", "len_reload")
  <2>1. /\ obs = "len_head" /\ obs' = "len_reload" /\ loaded' = [loaded EXCEPT !.head = head]
        /\ lengths' = lengths \cup {d}
    BY <1>1, <1>6 DEF Load, Watch
  <2>2. loaded'.head = head /\ loaded'.tail = loaded.tail /\ loaded' \in [tail : Stamps, head : Stamps]
    BY <1>1, <2>1
  <2>3. tail = loaded'.tail => LenOf(loaded'.head, loaded'.tail) = d
    BY <2>2, WordsTell
  <2>4. LenOf(loaded.head, loaded.tail)' = LenOf(loaded'.head, loaded'.tail)
    BY DEF LenOf, LapLater
  <2>5. AtOrBefore(loaded.tail, tail)'
    BY <1>1, <2>1, <2>2 DEF AtOrBefore
  <2> QED
    BY <1>1, <2>1, <2>2, <2>3, <2>4, <2>5
<1>7. CASE LenReloadTail
  <2>1. /\ obs = "len_reload" /\ UNCHANGED loaded
        /\ \/ tail = loaded.tail /\ obs' = "len_done" /\ answer' = LenOf(loaded.head, loaded.tail)
           \/ obs' = "len_tail"
        /\ lengths' = lengths \cup {d}
    BY <1>1, <1>7 DEF LenReloadTail, Watch
  <2> QED
    BY <1>1, <2>1
<1>8. CASE Load("empty_head", "head", "empty_tail")
  <2>1. /\ obs' = "empty_tail" /\ loaded' = [loaded EXCEPT !.head = head]
        /\ lengths' = lengths \cup {d}
    BY <1>1, <1>8 DEF Load, Watch
  <2>2. loaded'.head = head /\ loaded' \in [tail : Stamps, head : Stamps]
    BY <1>1, <2>1
  <2>3. LapLater(tail) = head \/ lengths' \ {0} # {}
    BY <2>1, WordsTell
  <2> QED
    BY <1>1, <1>2, <2>1, <2>2, <2>3 DEF AtOrBefore, LapLater
<1>9. CASE EmptyLoadTail
  <2>1. /\ obs = "empty_tail" /\ UNCHANGED loaded
        /\ \/ LapLater(tail) = loaded.head /\ obs' = "empty"
           \/ LapLater(tail) # loaded.head /\ obs' = "not_empty"
        /\ lengths' = lengths \cup {d}
    BY <1>1, <1>9 DEF EmptyLoadTail, Watch
  <2>2. obs' = "empty" => d = 0
    BY <2>1, WordsTell
  <2> QED
    BY <1>1, <2>1, <2>2
<1>10. CASE FullLoadHead
  <2>1. /\ obs = "full_head" /\ UNCHANGED loaded
        /\ \/ LapLater(head) = loaded.tail /\ obs' = "full"
           \/ LapLater(head) # loaded.tail /\ obs' = "not_full"
        /\ lengths' = lengths \cup {d}
    BY <1>1, <1>10 DEF FullLoadHead, Watch
  <2>2. obs' = "full" => d = Cap
    BY <2>1, WordsTell
  <2> QED
    BY <1>1, <2>1, <2>2
<1> QED
  BY <1>3, <1>4, <1>5, <1>6, <1>7, <1>8, <1>9, <1>10 DEF ObsStep

\* The steps of the others.
LEMMA OthersInv ==
  ASSUME TypeOK, TypeOK', IInv, IInv', AliveInside, ObsInv, [Next]_vars,
         UNCHANGED <<obs, loaded, answer, dropped>>,
         Watch \/ UNCHANGED <<vars, obsVars>>
  PROVE  ObsInv'
<1> PICK d, e : d = Distance /\ e = Distance'
  OBVIOUS
<1> PICK h, t, a, b : h = head /\ t = tail /\ a = head' /\ b = tail'
  OBVIOUS
<1>1. CASE obs \in {"idle", "dropped"}
  <2>1. obs = "dropped" => UNCHANGED vars
    BY AllGone DEF ObsInv
  <2>2. obs = "dropped" => alive' = alive /\ AbsQueue' = AbsQueue
    <3>1. ASSUME UNCHANGED vars PROVE AbsQueue' = AbsQueue
      BY <3>1 DEF AbsQueue, Distance, Content, ReadLap, Writing, SlotAt, vars
    <3> QED
      BY <2>1, <3>1 DEF vars
  <2> QED
    BY <1>1, <2>2 DEF ObsInv, ObservationsTrue, DropsRest
<1>2. CASE obs \notin {"idle", "dropped"}
  <2>1. lengths \subseteq lengths' /\ e \in lengths'
    <3>1. CASE Watch
      BY <1>2, <3>1 DEF Watch
    <3>2. CASE UNCHANGED <<vars, obsVars>>
      BY <1>2, <3>2 DEF ObsInv, vars, obsVars, Distance
    <3> QED
      BY <3>1, <3>2
  <2>2. \/ a = h /\ b = t /\ e = d
        \/ a = h /\ b = Advance(t) /\ e = d + 1 /\ AtOrBefore(t, b) /\ ~AtOrBefore(b, t)
        \/ b = t /\ a = Advance(h) /\ e = d - 1 /\ AtOrBefore(h, a) /\ ~AtOrBefore(a, h)
    BY EndsMove
  <2>3. d \in 0 .. Cap /\ e \in 0 .. Cap
    BY QueueFactsStay DEF QueueFacts
  <2>4. h \in Stamps /\ t \in Stamps /\ a \in Stamps /\ b \in Stamps
    BY DEF TypeOK
  <2>5. obs' = obs /\ loaded' = loaded /\ answer' = answer /\ loaded \in [tail : Stamps, head : Stamps]
    BY DEF ObsInv
  <2>6. obs \in {"len_head", "len_reload", "full_head"} => AtOrBefore(loaded.tail, b)
    BY <2>2, <2>4, <2>5, AtOrBeforeTransitive DEF ObsInv
  <2>7. obs = "empty_tail" => AtOrBefore(loaded.head, a)
    BY <2>2, <2>4, <2>5, AtOrBeforeTransitive DEF ObsInv
  <2>8. obs = "len_reload" /\ b = loaded.tail => LenOf(loaded.head, loaded.tail) \in lengths'
    <3>1. obs = "len_reload" => AtOrBefore(loaded.tail, t)
      BY DEF ObsInv
    <3>2. obs = "len_reload" /\ b = loaded.tail => t = loaded.tail
      BY <2>2, <3>1
    <3> QED
      BY <2>1, <3>2 DEF ObsInv
  <2>9. obs = "empty_tail" => LapLater(b) = loaded.head \/ lengths' \ {0} # {}
    <3>1. b # t => e # 0
      BY <2>2, <2>3
    <3>2. b # t => lengths' \ {0} # {}
      BY <2>1, <3>1
    <3>3. obs = "empty_tail" => LapLater(t) = loaded.head \/ lengths \ {0} # {}
      BY DEF ObsInv
    <3> QED
      BY <2>1, <3>2, <3>3
  <2>10. obs = "full_head" => LapLater(a) = loaded.tail \/ lengths' \ {Cap} # {}
    <3>1. a # h => e # Cap
      BY <2>2, <2>3
    <3>2. a # h => lengths' \ {Cap} # {}
      BY <2>1, <3>1
    <3>3. obs = "full_head" => LapLater(h) = loaded.tail \/ lengths \ {Cap} # {}
      BY DEF ObsInv
    <3> QED
      BY <2>1, <3>2, <3>3
  <2>11. ObservationsTrue'
    BY <2>1, <2>5 DEF ObsInv, ObservationsTrue
  <2>12. LenOf(loaded.head, loaded.tail)' = LenOf(loaded.head, loaded.tail)
    BY <2>5 DEF LenOf
  <2>13. /\ AtOrBefore(loaded.tail, tail)' = AtOrBefore(loaded.tail, b)
         /\ AtOrBefore(loaded.head, head)' = AtOrBefore(loaded.head, a)
         /\ LapLater(tail)' = LapLater(b) /\ LapLater(head)' = LapLater(a)
    BY <2>5 DEF AtOrBefore, LapLater
  <2> QED
    BY <1>2, <2>1, <2>5, <2>6, <2>7, <2>8, <2>9, <2>10, <2>11, <2>12, <2>13 DEF ObsInv, DropsRest
<1> QED
  BY <1>1, <1>2

LEMMA NextObsInv ==
  ASSUME TypeOK, TypeOK', IInv, IInv', AliveInside, ObsInv, [ObsNext]_<<vars, obsVars>>
  PROVE  ObsInv'
<1>1. CASE ObsStep /\ UNCHANGED vars /\ Watch
  BY <1>1, ObsStepInv
<1>2. CASE Next /\ UNCHANGED <<obs, loaded, answer, dropped>> /\ Watch
  BY <1>2, OthersInv
<1>3. CASE UNCHANGED <<vars, obsVars>>
  <2>1. UNCHANGED <<obs, loaded, answer, dropped>> /\ [Next]_vars
    BY <1>3 DEF obsVars
  <2> QED
    BY <1>3, <2>1, OthersInv
<1> QED
  BY <1>1, <1>2, <1>3 DEF ObsNext

LEMMA ObserversInv == ObsSpec => []ObsInv
<1>1. ObsInit => TypeOK /\ IInv /\ AliveInside /\ ObsInv
  BY InitTypeOK, InitIInv, InitObsInv DEF ObsInit, Init, AliveInside
<1>2. [ObsNext]_<<vars, obsVars>> => [Next]_vars
  BY DEF ObsNext
<1>3. /\ TypeOK /\ IInv /\ AliveInside /\ ObsInv /\ [ObsNext]_<<vars, obsVars>>
      => TypeOK' /\ IInv' /\ AliveInside' /\ ObsInv'
  BY <1>2, NextTypeOK, NextIInv, NextAliveInside, NextObsInv
<1> QED
  BY <1>1, <1>3, PTL DEF ObsSpec

\* What len, is_empty and is_full answer was true at some moment of their call,
\* however the two words move between their loads.
THEOREM ObserversCorrect == ObsSpec => []ObservationsTrue
<1>1. ObsInv => ObservationsTrue
  BY DEF ObsInv
<1> QED
  BY <1>1, ObserversInv, PTL

\* The drop of the channel drops exactly what was sent and not received.
THEOREM DropCorrect == ObsSpec => []DropsRest
<1>1. ObsInv => DropsRest
  BY DEF ObsInv
<1> QED
  BY <1>1, ObserversInv, PTL
-------------------------------------------------------------------------------
(* The words. *)

\* Division with remainder.
LEMMA Division ==
  ASSUME NEW a \in Int, NEW m \in Nat \ {0}
  PROVE  a \div m \in Int /\ a % m \in 0 .. m - 1 /\ a = m * (a \div m) + (a % m)
OBVIOUS

\* The remainder is what is left of a multiple.
LEMMA RemainderIs ==
  ASSUME NEW q \in Int, NEW m \in Nat \ {0}, NEW x \in 0 .. m - 1
  PROVE  (m * q + x) % m = x
<1> DEFINE a == m * q + x
           d == a \div m
           r == a % m
<1>1. a \in Int /\ d \in Int /\ r \in 0 .. m - 1 /\ a = m * d + r
  BY Division
<1> HIDE DEF d, r
<1>2. m * (q - d) = r - x
  BY <1>1
<1>3. CASE q - d >= 1
  <2>1. m * (q - d) = m * (q - d - 1) + m /\ m * (q - d - 1) >= 0
    BY <1>1, <1>3
  <2> QED
    BY <1>1, <1>2, <2>1
<1>4. CASE q - d <= -1
  <2>1. m * (q - d) = m * (q - d + 1) - m /\ m * (q - d + 1) <= 0
    BY <1>1, <1>4
  <2> QED
    BY <1>1, <1>2, <2>1
<1>5. CASE q = d
  BY <1>1, <1>5 DEF r
<1> QED
  BY <1>1, <1>3, <1>4, <1>5

\* A number and its double have the same odd divisors.
LEMMA PowerDoubles ==
  ASSUME NEW n \in Nat \ {0}, PowerOfTwo(n)
  PROVE  PowerOfTwo(2 * n)
<1> SUFFICES ASSUME NEW d \in 1 .. 2 * n, (2 * n) % d = 0, d % 2 = 1
             PROVE  d = 1
  BY DEF PowerOfTwo
<1>1. PICK e \in Int : 2 * n = d * e
  <2>1. PICK a \in Int : a = 2 * n
    OBVIOUS
  <2>2. PICK c \in Nat \ {0} : c = d
    OBVIOUS
  <2>3. a \div c \in Int /\ a = c * (a \div c) + (a % c)
    BY Division
  <2>4. a % c = 0
    BY <2>1, <2>2
  <2>5. a = c * (a \div c)
    BY <2>3, <2>4
  <2> QED
    BY <2>1, <2>2, <2>3, <2>5
<1>2. PICK a \in Int : d = 2 * a + 1
  OBVIOUS
<1>3. PICK b \in Int : e = 2 * b \/ e = 2 * b + 1
  <2>1. e = 2 * (e \div 2) \/ e = 2 * (e \div 2) + 1
    OBVIOUS
  <2> QED
    BY <2>1
<1>4. e # 2 * b + 1
  <2>1. (2 * a + 1) * (2 * b + 1) = 2 * (2 * (a * b) + a + b) + 1
    OBVIOUS
  <2> QED
    BY <1>1, <1>2, <2>1
<1>5. n = d * b
  <2>1. d * (2 * b) = 2 * (d * b)
    OBVIOUS
  <2> QED
    BY <1>1, <1>3, <1>4, <2>1
<1>6. n % d = 0
  <2>1. d \in Nat \ {0} /\ 0 \in 0 .. d - 1
    OBVIOUS
  <2>2. (d * b + 0) % d = 0
    BY <2>1, RemainderIs
  <2>3. n = d * b + 0
    BY <1>5
  <2> QED
    BY <2>2, <2>3
<1>7. d <= n
  <2>1. b >= 1
    BY <1>5
  <2>2. d * b = d * (b - 1) + d /\ d * (b - 1) >= 0
    BY <2>1
  <2> QED
    BY <1>5, <2>2
<1> QED
  BY <1>6, <1>7 DEF PowerOfTwo

\* There is a power of two between a capacity and its double: the least capacity
\* without one would be one more than a capacity whose power of two it doubles.
LEMMA PowerBetween ==
  ASSUME NEW c \in Nat \ {0}
  PROVE  \E n \in c .. 2 * c - 1 : PowerOfTwo(n)
<1> DEFINE Without == {x \in Nat \ {0} : \A n \in x .. 2 * x - 1 : ~PowerOfTwo(n)}
<1>1. SUFFICES ASSUME c \in Without PROVE FALSE
  OBVIOUS
<1>2. PICK x \in Without : \A y \in Without : ~(<<y, x>> \in OpToRel(<, Nat))
  <2>1. IsWellFoundedOn(OpToRel(<, Nat), Nat)
    BY NatLessThanWellFounded
  <2>2. Without \subseteq Nat /\ Without # {}
    BY <1>1
  <2> HIDE DEF Without
  <2> QED
    BY <2>1, <2>2, WFMin
<1>3. x # 1
  <2>1. PowerOfTwo(1)
    BY DEF PowerOfTwo
  <2> QED
    BY <2>1
<1>4. x - 1 \notin Without
  <2>1. x - 1 \in Without => <<x - 1, x>> \in OpToRel(<, Nat)
    BY DEF OpToRel
  <2> QED
    BY <1>2, <2>1
<1>5. PICK n \in x - 1 .. 2 * (x - 1) - 1 : PowerOfTwo(n)
  BY <1>3, <1>4
<1>6. CASE n >= x
  BY <1>5, <1>6
<1>7. CASE n = x - 1
  BY <1>3, <1>5, <1>7, PowerDoubles
<1> QED
  BY <1>5, <1>6, <1>7

\* One lap exists, and has room for every index.
LEMMA OneLapIs == OneLap \in Nat /\ Cap <= OneLap /\ 0 < OneLap
<1>1. OneLap \in Cap .. 2 * Cap - 1
  BY PowerBetween, CapAssumption DEF OneLap
<1> QED
  BY <1>1, CapAssumption

\* The two bits of a lap, and of those that follow.
LEMMA LapBits ==
  ASSUME NEW l \in Nat
  PROVE  /\ \E q \in Int, r \in 0 .. 3 : l = 4 * q + r /\ r = l % 4
         /\ (l + 1) % 4 = IF l % 4 = 3 THEN 0 ELSE (l % 4) + 1
         /\ (l + 2) % 4 = IF l % 4 >= 2 THEN (l % 4) - 2 ELSE (l % 4) + 2
<1>1. l = 4 * (l \div 4) + (l % 4) /\ l \div 4 \in Int /\ l % 4 \in 0 .. 3
  OBVIOUS
<1>2. /\ (l + 1) % 4 = IF l % 4 = 3 THEN 0 ELSE (l % 4) + 1
      /\ (l + 2) % 4 = IF l % 4 >= 2 THEN (l % 4) - 2 ELSE (l % 4) + 2
  OBVIOUS
<1> QED
  BY <1>1, <1>2

\* What a word holds: the lap modulo four, and the index.
LEMMA PackedIs ==
  ASSUME NEW st \in Stamps
  PROVE  /\ st.lap % 4 \in 0 .. 3 /\ st.index \in 0 .. Cap - 1
         /\ Packed(st) = OneLap * (st.lap % 4) + st.index
         /\ Packed(st) \in 0 .. Usize - 1
         /\ IndexOf(Packed(st)) = st.index
<1> PICK l \in Nat, i \in 0 .. Cap - 1 : l = st.lap /\ i = st.index
  BY DEF Stamps
<1> PICK q \in Int, r \in 0 .. 3 : l = 4 * q + r /\ r = l % 4
  BY LapBits
<1> PICK m \in Nat \ {0} : m = OneLap /\ i \in 0 .. m - 1
  BY OneLapIs, CapAssumption
<1>1. m * r + i \in 0 .. 4 * m - 1
  <2>1. r = 0 \/ r = 1 \/ r = 2 \/ r = 3
    OBVIOUS
  <2> QED
    BY <2>1
<1>2. l * m + i = (4 * m) * q + (m * r + i)
  <2>1. (4 * q + r) * m = (4 * m) * q + m * r
    OBVIOUS
  <2> QED
    BY <2>1
<1>3. 4 * m \in Nat \ {0}
  OBVIOUS
<1>4. (l * m + i) % (4 * m) = m * r + i
  BY <1>1, <1>2, <1>3, RemainderIs
<1>5. Packed(st) = m * r + i
  BY <1>4 DEF Packed, Usize
<1>6. IndexOf(Packed(st)) = i
  BY <1>5, RemainderIs DEF IndexOf
<1> QED
  BY <1>1, <1>5, <1>6 DEF Usize

\* Two words are equal if their pairs are, up to four laps.
LEMMA PackedSame ==
  ASSUME NEW a \in Stamps, NEW b \in Stamps
  PROVE  Packed(a) = Packed(b) <=> a.lap % 4 = b.lap % 4 /\ a.index = b.index
<1> PICK m \in Nat \ {0} : m = OneLap
  BY OneLapIs
<1> PICK r \in 0 .. 3, z \in 0 .. 3 : r = a.lap % 4 /\ z = b.lap % 4
  BY PackedIs
<1>1. Packed(a) = m * r + a.index /\ Packed(b) = m * z + b.index
  BY PackedIs
<1>2. Packed(a) = Packed(b) => a.index = b.index
  BY PackedIs
<1>3. a.index \in Int
  BY PackedIs
<1>4. m * r = m * z => r = z
  <2>1. r \in {0, 1, 2, 3} /\ z \in {0, 1, 2, 3}
    OBVIOUS
  <2> QED
    BY <2>1
<1>5. m * r \in Int /\ m * z \in Int
  OBVIOUS
<1>6. Packed(a) = Packed(b) => m * r = m * z
  <2>1. ASSUME NEW x \in Int, NEW y \in Int, NEW v \in Int, x + v = y + v
        PROVE  x = y
    BY <2>1
  <2>2. Packed(a) = Packed(b) => m * r + a.index = m * z + a.index
    BY <1>1, <1>2
  <2> QED
    BY <1>3, <1>5, <2>1, <2>2
<1> QED
  BY <1>1, <1>2, <1>4, <1>6

\* One lap more, and two, to a word whose two bits of lap are r.
LEMMA LapMultiples ==
  ASSUME NEW m \in Nat \ {0}, NEW r \in 0 .. 3, NEW i \in 0 .. m - 1
  PROVE  /\ r = 3 => m * r + i + m = 4 * m + i
         /\ r < 3 => m * r + i + m = m * (r + 1) + i /\ m * (r + 1) + i \in 0 .. 4 * m - 1
         /\ r < 2 => m * r + 2 * m = m * (r + 2) /\ m * (r + 2) \in 0 .. 4 * m - 1
         /\ r >= 2 => m * r + 2 * m = 4 * m + m * (r - 2) /\ m * (r - 2) \in 0 .. 4 * m - 1
<1>1. r = 0 \/ r = 1 \/ r = 2 \/ r = 3
  OBVIOUS
<1>2. m * 0 = 0 /\ m * 1 = m /\ m * 2 = 2 * m /\ m * 3 = 3 * m
  OBVIOUS
<1>3. m * (r + 1) = m * r + m /\ m * (r + 2) = m * r + 2 * m /\ m * (r - 2) = m * r - 2 * m
  OBVIOUS
<1>4. PICK w \in Int : w = m * r
  OBVIOUS
<1>5. \/ r = 3 /\ w = 3 * m
      \/ r < 3 /\ r >= 2 /\ w = 2 * m
      \/ r < 2 /\ w <= m /\ w >= 0
  BY <1>1, <1>2, <1>4
<1>6. CASE r = 3 /\ w = 3 * m
  BY <1>3, <1>4, <1>6
<1>7. CASE r < 3 /\ r >= 2 /\ w = 2 * m
  BY <1>3, <1>4, <1>7
<1>8. CASE r < 2 /\ w <= m /\ w >= 0
  BY <1>3, <1>4, <1>8
<1> QED
  BY <1>5, <1>6, <1>7, <1>8

\* Adding laps to a word adds them to the pair.
LEMMA PackedAdds ==
  ASSUME NEW st \in Stamps
  PROVE  /\ WrappingAdd(Packed(st), OneLap) = Packed(LapLater(st))
         /\ NextWord(Packed(st)) = Packed(Advance(st))
<1> PICK l \in Nat, i \in 0 .. Cap - 1 : l = st.lap /\ i = st.index /\ st = Stamp(l, i)
  BY DEF Stamps, Stamp
<1> PICK r \in 0 .. 3 : r = l % 4
  BY PackedIs
<1> PICK m \in Nat \ {0} : m = OneLap /\ Cap <= m
  BY OneLapIs
<1>1. Packed(st) = m * r + i /\ IndexOf(Packed(st)) = i
  BY PackedIs
<1>2. ASSUME NEW k \in Nat, NEW j \in 0 .. Cap - 1
      PROVE  Stamp(k, j) \in Stamps /\ Packed(Stamp(k, j)) = m * (k % 4) + j
  <2>1. Stamp(k, j) \in Stamps /\ Stamp(k, j).lap = k /\ Stamp(k, j).index = j
    BY DEF Stamp, Stamps
  <2> QED
    BY <2>1, PackedIs
<1>3. ASSUME NEW x \in 0 .. 4 * m - 1
      PROVE  x % (4 * m) = x /\ (4 * m + x) % (4 * m) = x
  <2>1. PICK u \in Nat \ {0} : u = 4 * m
    OBVIOUS
  <2>2. x = u * 0 + x /\ u + x = u * 1 + x /\ x \in 0 .. u - 1
    BY <2>1
  <2>3. (u * 0 + x) % u = x /\ (u * 1 + x) % u = x
    BY <2>2, RemainderIs
  <2> QED
    BY <2>1, <2>2, <2>3
<1>4. (l + 1) % 4 = (IF r = 3 THEN 0 ELSE r + 1) /\ (l + 2) % 4 = (IF r >= 2 THEN r - 2 ELSE r + 2)
  BY LapBits
<1>5. /\ r = 3 => m * r + i + m = 4 * m + i
      /\ r < 3 => m * r + i + m = m * (r + 1) + i /\ m * (r + 1) + i \in 0 .. 4 * m - 1
      /\ r < 2 => m * r + 2 * m = m * (r + 2) /\ m * (r + 2) \in 0 .. 4 * m - 1
      /\ r >= 2 => m * r + 2 * m = 4 * m + m * (r - 2) /\ m * (r - 2) \in 0 .. 4 * m - 1
  <2>1. i \in 0 .. m - 1
    BY CapAssumption
  <2> QED
    BY <2>1, LapMultiples
<1>6. WrappingAdd(Packed(st), OneLap) = Packed(LapLater(st))
  <2>1. Packed(LapLater(st)) = m * ((l + 1) % 4) + i
    BY <1>2 DEF LapLater
  <2>2. WrappingAdd(Packed(st), OneLap) = (m * r + i + m) % (4 * m)
    BY <1>1 DEF WrappingAdd, Usize
  <2>3. CASE r = 3
    <3>1. (l + 1) % 4 = 0 /\ m * 0 + i = i
      BY <1>4, <2>3
    <3>2. Packed(LapLater(st)) = i
      BY <2>1, <3>1
    <3>3. i \in 0 .. 4 * m - 1
      BY CapAssumption
    <3>4. (m * r + i + m) % (4 * m) = i
      BY <1>3, <1>5, <2>3, <3>3
    <3> QED
      BY <2>2, <3>2, <3>4
  <2>4. CASE r < 3
    <3>1. (l + 1) % 4 = r + 1
      BY <1>4, <2>4
    <3>2. Packed(LapLater(st)) = m * (r + 1) + i
      BY <2>1, <3>1
    <3>3. (m * r + i + m) % (4 * m) = m * (r + 1) + i
      BY <1>3, <1>5, <2>4
    <3> QED
      BY <2>2, <3>2, <3>3
  <2> QED
    BY <2>3, <2>4
<1>7. NextWord(Packed(st)) = Packed(Advance(st))
  <2>1. CASE i + 1 < Cap
    <3>1. Advance(st) = Stamp(l, i + 1) /\ i + 1 \in 0 .. Cap - 1
      BY <2>1, CapAssumption DEF Advance
    <3>2. Packed(Advance(st)) = m * (l % 4) + (i + 1)
      BY <1>2, <3>1
    <3>3. NextWord(Packed(st)) = Packed(st) + 1
      BY <1>1, <2>1 DEF NextWord
    <3>4. m * r + i + 1 = m * r + (i + 1)
      OBVIOUS
    <3> QED
      BY <1>1, <3>2, <3>3, <3>4
  <2>2. CASE ~(i + 1 < Cap)
    <3>1. 0 \in 0 .. Cap - 1 /\ l + 2 \in Nat
      BY CapAssumption
    <3>2. Advance(st) = Stamp(l + 2, 0)
      BY <2>2 DEF Advance
    <3>3. Packed(Advance(st)) = m * ((l + 2) % 4) + 0
      BY <1>2, <3>1, <3>2
    <3>4. NextWord(Packed(st)) = WrappingAdd(Packed(st) - i, WrappingAdd(m, m))
      BY <1>1, <2>2 DEF NextWord
    <3>5. WrappingAdd(m, m) = (m + m) % (4 * m)
      BY DEF WrappingAdd, Usize
    <3>6. m + m = 2 * m
      OBVIOUS
    <3>7. (2 * m) % (4 * m) = 2 * m
      <4>1. 2 * m \in 0 .. 4 * m - 1
        OBVIOUS
      <4> QED
        BY <1>3, <4>1
    <3>8. NextWord(Packed(st)) = (m * r + 2 * m) % (4 * m)
      <4>1. WrappingAdd(m, m) = 2 * m
        BY <3>5, <3>6, <3>7
      <4>2. Packed(st) - i = m * r
        <5>1. (m * r + i) - i = m * r
          <6>1. i \in Int /\ m * r \in Int
            BY CapAssumption
          <6> QED
            BY <6>1
        <5> QED
          BY <1>1, <5>1
      <4>3. WrappingAdd(m * r, 2 * m) = (m * r + 2 * m) % (4 * m)
        BY DEF WrappingAdd, Usize
      <4> QED
        BY <3>4, <4>1, <4>2, <4>3
    <3>10. CASE r >= 2
      <4>1. (l + 2) % 4 = r - 2 /\ m * (r - 2) + 0 = m * (r - 2)
        BY <1>4, <3>10
      <4>2. (m * r + 2 * m) % (4 * m) = m * (r - 2)
        BY <1>3, <1>5, <3>10
      <4> QED
        BY <3>3, <3>8, <4>1, <4>2
    <3>11. CASE r < 2
      <4>1. (l + 2) % 4 = r + 2 /\ m * (r + 2) + 0 = m * (r + 2)
        BY <1>4, <3>11
      <4>2. (m * r + 2 * m) % (4 * m) = m * (r + 2)
        BY <1>3, <1>5, <3>11
      <4> QED
        BY <3>3, <3>8, <4>1, <4>2
    <3> QED
      BY <3>10, <3>11
  <2> QED
    BY <2>1, <2>2
<1> QED
  BY <1>6, <1>7

\* A slot's stamp is at most two laps behind either end that points to it, and
\* the words of the two ends are at most one lap apart.
LEMMA LapsNear ==
  ASSUME TypeOK, IInv
  PROVE  /\ \A end \in {head, tail} :
              /\ end \in Stamps /\ slots[end.index].stamp \in Stamps
              /\ slots[end.index].stamp.index = end.index
              /\ slots[end.index].stamp.lap - end.lap \in -2 .. 0
         /\ head.lap - tail.lap \in -1 .. 1
<1>1. /\ head \in Stamps /\ head.lap \in Nat /\ head.index \in 0 .. Cap - 1
      /\ tail \in Stamps /\ tail.lap \in Nat /\ tail.index \in 0 .. Cap - 1
      /\ \A i \in 0 .. Cap - 1 : slots[i].stamp \in Stamps /\ slots[i].stamp.lap \in Nat
  BY TypedParts
<1>2. /\ \A i \in 0 .. Cap - 1 :
           /\ slots[i].stamp.index = i
           /\ \/ Held(i) /\ slots[i].stamp.lap \in {ReadLap(i), ReadLap(i) - 1}
              \/ Free(i) /\ slots[i].stamp.lap \in {WriteLap(i), WriteLap(i) - 1}
      /\ head.lap - tail.lap \in -1 .. 1
  BY <1>1 DEF IInv, SlotsOK, OrderOK
<1>3. WriteLap(tail.index) = tail.lap /\ ReadLap(head.index) = head.lap
  BY <1>1 DEF WriteLap, ReadLap
<1>4. slots[tail.index].stamp.lap - tail.lap \in -2 .. 0
  <2>1. Held(tail.index) => ReadLap(tail.index) = tail.lap - 1
    BY <1>1, <1>3 DEF Held, ReadLap
  <2> QED
    BY <1>1, <1>2, <1>3, <2>1
<1>5. slots[head.index].stamp.lap - head.lap \in -2 .. 0
  <2>1. Free(head.index) => WriteLap(head.index) = head.lap - 1
    BY <1>1, <1>3 DEF Free, WriteLap
  <2> QED
    BY <1>1, <1>2, <1>3, <2>1
<1> QED
  BY <1>1, <1>2, <1>4, <1>5

\* The words of stamps less than four laps apart are as equal as the stamps.
LEMMA PackedNear ==
  ASSUME NEW a \in Stamps, NEW b \in Stamps, a.lap - b.lap \in -3 .. 3
  PROVE  Packed(a) = Packed(b) <=> a = b
<1>1. a.lap \in Nat /\ b.lap \in Nat /\ (a = b <=> a.lap = b.lap /\ a.index = b.index)
  BY DEF Stamps
<1>2. a.lap % 4 = b.lap % 4 => a.lap = b.lap
  BY <1>1
<1> QED
  BY <1>1, <1>2, PackedSame

\* So is lagging a lap behind.
LEMMA LagsNear ==
  ASSUME NEW a \in Stamps, NEW b \in Stamps, a.lap - b.lap \in -2 .. 2
  PROVE  Lags(Packed(a), Packed(b)) <=> LapLater(a) = b
<1>1. LapLater(a) \in Stamps /\ LapLater(a).lap = a.lap + 1 /\ a.lap \in Nat /\ b.lap \in Nat
  BY DEF LapLater, Stamp, Stamps
<1>2. Lags(Packed(a), Packed(b)) <=> Packed(LapLater(a)) = Packed(b)
  BY PackedAdds DEF Lags
<1>3. LapLater(a).lap - b.lap \in -3 .. 3
  BY <1>1
<1> QED
  BY <1>1, <1>2, <1>3, PackedNear

\* With two bits of lap the words tell what the pairs tell.
LEMMA WordsAgreeHolds ==
  TypeOK /\ IInv => WordsAgree
<1> SUFFICES ASSUME TypeOK, IInv
             PROVE  WordsAgree
  OBVIOUS
<1>1. head \in Stamps /\ tail \in Stamps /\ head.lap \in Nat /\ tail.lap \in Nat
      /\ head.index \in 0 .. Cap - 1 /\ tail.index \in 0 .. Cap - 1
  BY TypedParts
<1>2. /\ NextWord(Packed(head)) = Packed(Advance(head))
      /\ NextWord(Packed(tail)) = Packed(Advance(tail))
  BY <1>1, PackedAdds
<1>3. ASSUME NEW end \in {head, tail}
      PROVE  LET st == slots[end.index].stamp IN
             /\ Packed(st) = Packed(end) <=> st = end
             /\ Lags(Packed(st), Packed(end)) <=> LapLater(st) = end
  <2>1. PICK st \in Stamps : st = slots[end.index].stamp
    BY LapsNear
  <2>2. end \in Stamps /\ st.lap - end.lap \in -2 .. 0
    BY <2>1, LapsNear
  <2>3. st.lap - end.lap \in -3 .. 3 /\ st.lap - end.lap \in -2 .. 2
    BY <2>2
  <2> QED
    BY <2>1, <2>2, <2>3, PackedNear, LagsNear
<1>4. head.lap - tail.lap \in -2 .. 2 /\ tail.lap - head.lap \in -2 .. 2
  BY <1>1, LapsNear
<1>5. /\ Lags(Packed(tail), Packed(head)) <=> Distance = 0
      /\ Lags(Packed(head), Packed(tail)) <=> Distance = Cap
  BY <1>1, <1>4, LagsNear, WordsTell
<1>6. LenWord(Packed(head), Packed(tail)) = Distance
  <2>1. IndexOf(Packed(head)) = head.index /\ IndexOf(Packed(tail)) = tail.index
    BY <1>1, PackedIs
  <2>2. Lags(Packed(tail), Packed(head)) <=> LapLater(tail) = head
    BY <1>1, <1>4, LagsNear
  <2>3. LenOf(head, tail) = Distance
    BY WordsTell
  <2>4. head.index < tail.index \/ head.index > tail.index \/ head.index = tail.index
    BY <1>1
  <2> QED
    BY <1>1, <2>1, <2>2, <2>3, <2>4 DEF LenWord, LenOf
<1> QED
  BY <1>2, <1>3, <1>5, <1>6 DEF WordsAgree

\* For every capacity, and whatever the power of two that one lap is, two bits
\* of lap are enough: what the words of head, tail and the slots they point to
\* say of each other is what the pairs of lap and index say.
THEOREM WordsCorrect == ObsSpec => []WordsAgree
<1>1. ObsInit => TypeOK /\ IInv
  BY InitTypeOK, InitIInv DEF ObsInit
<1>2. [ObsNext]_<<vars, obsVars>> => [Next]_vars
  BY DEF ObsNext
<1>3. TypeOK /\ IInv /\ [ObsNext]_<<vars, obsVars>> => TypeOK' /\ IInv'
  BY <1>2, NextTypeOK, NextIInv
<1> QED
  BY <1>1, <1>3, WordsAgreeHolds, PTL DEF ObsSpec
===============================================================================

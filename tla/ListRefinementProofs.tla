------------------------- MODULE ListRefinementProofs -------------------------
(***************************************************************************)
(* The list of blocks implements the abstract queue, for any number of     *)
(* threads, any block size and any number of messages: each atomic access  *)
(* is a step of BoundedQueue or leaves its variables as they are. And what *)
(* len and is_empty answer was true at a moment of their call.             *)
(***************************************************************************)
EXTENDS ListQueueProofs, ListObservers, SequenceTheorems

\* What the refinement mapping gives for the variables of BoundedQueue.
Status == [t \in Threads |-> AbsStatus(t)]
Val == [t \in Threads |-> AbsVal(t)]
QueueLen == index["tail"] - index["head"]

\* What a receiver has found out before it goes on: the channel is
\* disconnected, the message is written.
FoundOut ==
  \A r \in Receivers :
    /\ pc[r] = "reload_tail" => disconnected
    /\ pc[r] = "read" => slots[idx[r]].ready
-------------------------------------------------------------------------------
(* Sequences given as functions. *)

LEMMA FunctionIsSeq ==
  ASSUME NEW S, NEW n \in Nat, NEW f \in [1 .. n -> S]
  PROVE  f \in Seq(S) /\ Len(f) = n
<1>1. f \in Seq(S)
  BY SeqDef
<1>2. Len(f) \in Nat /\ 1 .. Len(f) = 1 .. n
  BY <1>1, LenProperties
<1> QED
  BY <1>1, <1>2

LEMMA AppendIs ==
  ASSUME NEW S, NEW q \in Seq(S), NEW p \in Seq(S), NEW e \in S,
         Len(p) = Len(q) + 1, p[Len(q) + 1] = e, \A i \in 1 .. Len(q) : p[i] = q[i]
  PROVE  p = Append(q, e)
<1>1. /\ Append(q, e) \in Seq(S) /\ Len(Append(q, e)) = Len(q) + 1
      /\ \A i \in 1 .. Len(q) : Append(q, e)[i] = q[i]
      /\ Append(q, e)[Len(q) + 1] = e
  BY AppendProperties
<1>2. Len(q) \in Nat
  BY LenProperties
<1>3. \A i \in 1 .. Len(p) : p[i] = Append(q, e)[i]
  BY <1>1, <1>2
<1> QED
  BY <1>1, <1>3, SeqEqual

LEMMA TailIs ==
  ASSUME NEW S, NEW q \in Seq(S), NEW p \in Seq(S),
         Len(q) = Len(p) + 1, \A i \in 1 .. Len(p) : p[i] = q[i + 1]
  PROVE  q # <<>> /\ p = Tail(q) /\ Head(q) = q[1]
<1>1. Len(p) \in Nat
  BY LenProperties
<1>2. q # <<>>
  BY <1>1, EmptySeq
<1>3. /\ Tail(q) \in Seq(S) /\ Len(Tail(q)) = Len(p)
      /\ \A i \in 1 .. Len(p) : p[i] = Tail(q)[i]
  BY <1>1, <1>2, HeadTailProperties
<1>4. p = Tail(q)
  BY <1>3, SeqEqual
<1> QED
  BY <1>2, <1>4
-------------------------------------------------------------------------------
(* The queue in the list. *)

\* The message of a slot behind the tail: written, or with its only sender.
LEMMA Contents ==
  TypeOK /\ IInv =>
    \A i \in 0 .. MaxIndex : i < index["tail"] =>
      /\ Content(i) \in Messages
      /\ slots[i].msg # NoMsg => Content(i) = slots[i].msg
      /\ \A s \in Senders : Writing(s) /\ idx[s] = i
           => slots[i].msg = NoMsg /\ Content(i) = msg[s]
<1> SUFFICES ASSUME TypeOK, IInv, NEW i \in 0 .. MaxIndex, i < index["tail"]
             PROVE  /\ Content(i) \in Messages
                    /\ slots[i].msg # NoMsg => Content(i) = slots[i].msg
                    /\ \A s \in Senders : Writing(s) /\ idx[s] = i
                         => slots[i].msg = NoMsg /\ Content(i) = msg[s]
  OBVIOUS
<1>1. ASSUME NEW s \in Senders, Writing(s), idx[s] = i
      PROVE  slots[i].msg = NoMsg /\ msg[s] \in Messages
  <2>1. /\ slots[idx[s]].msg = NoMsg /\ count[s] > 0 /\ msg[s] = <<s, count[s]>>
    BY <1>1 DEF IInv, ContentsOK, SenderOK, Writing
  <2>2. count[s] \in 1 .. MaxSends
    BY <2>1, BoundAssumption DEF TypeOK
  <2> QED
    BY <1>1, <2>1, <2>2 DEF Messages
<1>2. CASE slots[i].msg # NoMsg
  <2>1. slots[i].msg \in Messages
    BY <1>2 DEF TypeOK
  <2> QED
    BY <1>1, <1>2, <2>1 DEF Content
<1>3. CASE slots[i].msg = NoMsg
  <2> DEFINE z == CHOOSE s \in Senders : Holds(s) /\ idx[s] = i
  <2>1. PICK y \in Senders : Writing(y) /\ idx[y] = i
    BY <1>3 DEF IInv, ContentsOK, SlotOK
  <2>2. z \in Senders /\ Holds(z) /\ idx[z] = i
    BY <2>1 DEF Writing
  <2>3. \A s \in Senders : Holds(s) /\ idx[s] = i => s = z
    BY <2>2 DEF IInv, OwnersOK, EndOf, Threads
  <2>4. Content(i) = msg[z]
    BY <1>3 DEF Content
  <2> HIDE DEF z
  <2> QED
    BY <1>1, <1>3, <2>1, <2>3, <2>4 DEF Writing
<1> QED
  BY <1>2, <1>3

\* Its length, and where its messages are; this holds before and after a step.
QueueFacts ==
  /\ index["head"] \in Nat /\ index["tail"] \in Nat /\ index["tail"] <= MaxIndex
  /\ QueueLen \in 0 .. MaxIndex /\ MaxIndex \in Nat
  /\ \A i \in 0 .. MaxIndex : i < index["tail"] =>
       /\ Content(i) \in Messages
       /\ slots[i].msg # NoMsg => Content(i) = slots[i].msg
       /\ \A s \in Senders : Writing(s) /\ idx[s] = i
            => slots[i].msg = NoMsg /\ Content(i) = msg[s]
  /\ \A n \in 1 .. QueueLen : /\ index["head"] + n - 1 \in 0 .. MaxIndex
                              /\ index["head"] + n - 1 < index["tail"]
  /\ AbsQueue \in Seq(Messages) /\ Len(AbsQueue) = QueueLen
  /\ \A n \in 1 .. QueueLen : AbsQueue[n] = Content(index["head"] + n - 1)

LEMMA QueueFactsHold == TypeOK /\ IInv => QueueFacts
<1> SUFFICES ASSUME TypeOK, IInv PROVE QueueFacts
  OBVIOUS
<1>1. /\ index["head"] \in Nat /\ index["tail"] \in Nat /\ index["tail"] <= MaxIndex
      /\ MaxIndex \in Nat /\ index["head"] <= index["tail"]
  <2>1. index["head"] \in 0 .. MaxIndex /\ index["tail"] \in 0 .. MaxIndex
    BY DEF TypeOK
  <2> QED
    BY <2>1, MaxIndexNat DEF IInv, EndsOK
<1>2. /\ QueueLen \in 0 .. MaxIndex
      /\ \A n \in 1 .. QueueLen : /\ index["head"] + n - 1 \in 0 .. MaxIndex
                                  /\ index["head"] + n - 1 < index["tail"]
  BY <1>1 DEF QueueLen
<1>3. \A n \in 1 .. QueueLen : Content(index["head"] + n - 1) \in Messages
  BY <1>2, Contents
<1>4. AbsQueue = [n \in 1 .. QueueLen |-> Content(index["head"] + n - 1)]
  BY DEF AbsQueue, QueueLen
<1>5. AbsQueue \in [1 .. QueueLen -> Messages]
  BY <1>3, <1>4
<1>6. AbsQueue \in Seq(Messages) /\ Len(AbsQueue) = QueueLen
  BY <1>2, <1>5, FunctionIsSeq
<1>7. \A n \in 1 .. QueueLen : AbsQueue[n] = Content(index["head"] + n - 1)
  BY <1>4
<1> QED
  BY <1>1, <1>2, <1>6, <1>7, Contents DEF QueueFacts

LEMMA QueueFactsStay ==
  ASSUME TypeOK, IInv, TypeOK', IInv'
  PROVE  QueueFacts /\ QueueFacts'
<1>1. TypeOK' /\ IInv' => QueueFacts'
  BY QueueFactsHold, PTL
<1> QED
  BY <1>1, QueueFactsHold
-------------------------------------------------------------------------------
(* What each label stands for, and what a step leaves alone. *)

StatusTable ==
  \A t \in Threads :
    /\ Holds(t) => AbsStatus(t) = "ok"
    /\ pc[t] \in {"load_block", "load_index", "cas", "load_ready", "load_tail"}
         => ~Holds(t) /\ AbsStatus(t) = "pending"
    /\ ~Holds(t) /\ pc[t] \in {"install", "advance"} => AbsStatus(t) = "pending"
    /\ pc[t] \in {"check_disc", "reload_tail"} => ~Holds(t) /\ AbsStatus(t) = "glanced"
    /\ pc[t] \in Answered \cup {"idle"} => ~Holds(t) /\ AbsStatus(t) = pc[t]

LEMMA StatusTableHolds == StatusTable
<1> SUFFICES ASSUME NEW t \in Threads
             PROVE  /\ Holds(t) => AbsStatus(t) = "ok"
                    /\ pc[t] \in {"load_block", "load_index", "cas", "load_ready", "load_tail"}
                         => ~Holds(t) /\ AbsStatus(t) = "pending"
                    /\ ~Holds(t) /\ pc[t] \in {"install", "advance"} => AbsStatus(t) = "pending"
                    /\ pc[t] \in {"check_disc", "reload_tail"}
                         => ~Holds(t) /\ AbsStatus(t) = "glanced"
                    /\ pc[t] \in Answered \cup {"idle"} => ~Holds(t) /\ AbsStatus(t) = pc[t]
  BY DEF StatusTable
<1>1. /\ pc[t] \in {"load_block", "load_index", "cas", "load_ready", "load_tail", "check_disc",
                    "reload_tail"} => ~Holds(t)
      /\ pc[t] \in Answered \cup {"idle"} => ~Holds(t)
  BY DEF Holds, Answered
<1> QED
  BY <1>1 DEF AbsStatus, Answered

LEMMA StatusTableStays == StatusTable'
BY StatusTableHolds, PTL

\* The messages in the slots stay, and a sender that was writing one still is,
\* or has written it.
ContentsKept ==
  /\ index["tail"] <= index'["tail"]
  /\ \A i \in 0 .. MaxIndex : slots[i].msg # NoMsg => slots'[i].msg = slots[i].msg
  /\ \A s \in Senders : Writing(s) =>
       /\ idx'[s] = idx[s] /\ msg'[s] = msg[s]
       /\ Writing(s)' \/ slots'[idx[s]].msg = msg[s]

LEMMA ContentStays ==
  ASSUME TypeOK, IInv, TypeOK', IInv', ContentsKept, NEW i \in 0 .. MaxIndex, i < index["tail"]
  PROVE  Content(i)' = Content(i)
<1>1. i < index'["tail"]
  <2>1. index["tail"] \in Nat /\ index'["tail"] \in Nat /\ i \in Nat
    BY QueueFactsStay DEF QueueFacts
  <2> QED
    BY <2>1 DEF ContentsKept
<1>2. CASE slots[i].msg # NoMsg
  BY <1>1, <1>2, QueueFactsStay DEF QueueFacts, ContentsKept
<1>3. CASE slots[i].msg = NoMsg
  <2>1. PICK s \in Senders : Writing(s) /\ idx[s] = i
    BY <1>3 DEF IInv, ContentsOK, SlotOK
  <2>2. Content(i) = msg[s] /\ msg[s] \in Messages
    BY <2>1, QueueFactsStay DEF QueueFacts
  <2>3. NoMsg \notin Messages
    BY BoundAssumption DEF Messages
  <2>4. CASE Writing(s)'
    BY <1>1, <2>1, <2>2, <2>4, QueueFactsStay DEF QueueFacts, ContentsKept
  <2>5. CASE slots'[i].msg = msg[s]
    <3>1. slots'[i].msg # NoMsg
      BY <2>2, <2>3, <2>5
    <3> QED
      BY <1>1, <2>2, <2>5, <3>1, QueueFactsStay DEF QueueFacts
  <2> QED
    BY <2>1, <2>4, <2>5 DEF ContentsKept
<1> QED
  BY <1>2, <1>3

\* The slot of a receiver is behind the head, and so behind the tail.
LEMMA OwnSlot ==
  ASSUME TypeOK, IInv, NEW r \in Receivers, Holds(r)
  PROVE  idx[r] \in 0 .. MaxIndex /\ idx[r] < index["tail"]
<1>1. idx[r] < index["head"] /\ index["head"] <= index["tail"] /\ idx[r] \in 0 .. MaxIndex
  BY ThreadAssumption DEF IInv, CallsOK, CallOK, EndsOK, EndOf, Threads, TypeOK
<1>2. index["head"] \in Nat /\ index["tail"] \in Nat
  BY QueueFactsHold DEF QueueFacts
<1> QED
  BY <1>1, <1>2, MaxIndexNat

LEMMA OtherStays ==
  ASSUME TypeOK, IInv, TypeOK', IInv', ContentsKept, NEW z \in Threads, Same(z)
  PROVE  AbsStatus(z)' = AbsStatus(z) /\ AbsVal(z)' = AbsVal(z)
<1>1. (Holds(z)' <=> Holds(z)) /\ pc'[z] = pc[z] /\ idx'[z] = idx[z] /\ msg'[z] = msg[z]
  BY SameFacts DEF Same
<1>2. AbsStatus(z)' = AbsStatus(z)
  <2>1. CASE Holds(z)
    BY <1>1, <2>1, StatusTableHolds, StatusTableStays DEF StatusTable
  <2>2. CASE ~Holds(z)
    BY <1>1, <2>2 DEF AbsStatus
  <2> QED
    BY <2>1, <2>2
<1>3. CASE z \in Receivers /\ Holds(z)
  <2>1. Content(idx[z])' = Content(idx[z])
    <3> PICK i \in 0 .. MaxIndex : i = idx[z] /\ i < index["tail"]
      BY <1>3, OwnSlot
    <3>1. Content(i)' = Content(i)
      BY ContentStays
    <3>2. idx'[z] = i
      BY <1>1
    <3>3. Content(idx[z])' = Content(i)'
      BY <3>2 DEF Content
    <3> QED
      BY <3>1, <3>3
  <2> QED
    BY <1>1, <1>2, <1>3, <2>1 DEF AbsVal
<1>4. CASE ~(z \in Receivers /\ Holds(z))
  BY <1>1, <1>2, <1>4 DEF AbsVal
<1> QED
  BY <1>3, <1>4

LEMMA QueueStays ==
  ASSUME TypeOK, IInv, TypeOK', IInv', ContentsKept, UNCHANGED index
  PROVE  AbsQueue' = AbsQueue
<1> PICK h, t : h = index["head"] /\ t = index["tail"]
  OBVIOUS
<1>1. index'["head"] = h /\ index'["tail"] = t
  OBVIOUS
<1>2. ASSUME NEW n \in 1 .. t - h PROVE Content(h + n - 1)' = Content(h + n - 1)
  <2>1. h + n - 1 \in 0 .. MaxIndex /\ h + n - 1 < index["tail"]
    BY QueueFactsHold DEF QueueFacts, QueueLen
  <2>2. PICK i \in 0 .. MaxIndex : i = h + n - 1 /\ i < index["tail"]
    BY <2>1
  <2>3. Content(i)' = Content(i)
    BY <2>2, ContentStays
  <2> QED
    BY <2>2, <2>3
<1>3. AbsQueue = [n \in 1 .. t - h |-> Content(h + n - 1)]
  BY DEF AbsQueue
<1>4. AbsQueue' = [n \in 1 .. t - h |-> Content(h + n - 1)']
  <2>1. AbsQueue' = [n \in 1 .. index'["tail"] - index'["head"] |-> Content(index["head"] + n - 1)']
    BY DEF AbsQueue
  <2>2. \A n : Content(index["head"] + n - 1)' = Content(h + n - 1)'
    BY <1>1 DEF Content
  <2> QED
    BY <1>1, <2>1, <2>2
<1> QED
  BY <1>2, <1>3, <1>4

\* A step of one thread that leaves the contents alone.
LEMMA ThreadFrame ==
  ASSUME TypeOK, IInv, TypeOK', IInv', ContentsKept, NEW t \in Threads,
         \A z \in Threads \ {t} : Same(z)
  PROVE  /\ UNCHANGED index => AbsQueue' = AbsQueue
         /\ Status' = [Status EXCEPT ![t] = AbsStatus(t)']
         /\ AbsStatus(t)' = AbsStatus(t) => Status' = Status
         /\ Val' = [Val EXCEPT ![t] = AbsVal(t)']
         /\ AbsVal(t)' = AbsVal(t) => Val' = Val
<1>1. \A z \in Threads \ {t} : AbsStatus(z)' = AbsStatus(z) /\ AbsVal(z)' = AbsVal(z)
  BY OtherStays
<1> QED
  BY <1>1, QueueStays DEF Status, Val

LEMMA AbsStutter ==
  ASSUME AbsQueue' = AbsQueue, Status' = Status, Val' = Val, UNCHANGED <<disconnected, alive>>
  PROVE  UNCHANGED Abs!vars
BY DEF Abs!vars, Status, Val
-------------------------------------------------------------------------------
(* Steps that leave the abstract queue as it is. *)

\* A step that writes no message and moves no index keeps the contents.
LEMMA Untouched ==
  ASSUME TypeOK, IInv, UNCHANGED <<index, slots>>,
         \A s \in Senders : Writing(s) => Writing(s)' /\ idx'[s] = idx[s] /\ msg'[s] = msg[s]
  PROVE  ContentsKept
<1>1. index["tail"] \in Nat
  BY QueueFactsHold DEF QueueFacts
<1> QED
  BY <1>1 DEF ContentsKept

LEMMA SilentStep ==
  ASSUME TypeOK, IInv, TypeOK', IInv', ContentsKept, UNCHANGED <<index, disconnected, alive>>,
         NEW t \in Threads, \A z \in Threads \ {t} : Same(z),
         AbsStatus(t)' = AbsStatus(t), AbsVal(t)' = AbsVal(t)
  PROVE  UNCHANGED Abs!vars
BY ThreadFrame, AbsStutter

\* Loads, and attempts that come to nothing: without a slot before and after.
LEMMA SilentLoads ==
  ASSUME TypeOK, IInv, TypeOK', IInv', NEW t \in Threads,
         \/ LoadBlock(t) \/ LoadIndex(t) \/ CasIndexFails(t) \/ LoadReady(t)
         \/ LoadTail(t) /\ pc'[t] = "cas"
         \/ CheckDisconnected(t) /\ pc'[t] = "reload_tail"
  PROVE  UNCHANGED Abs!vars
<1>1. /\ UNCHANGED <<index, slots, disconnected, alive, msg>>
      /\ \A z \in Threads \ {t} : Same(z)
  BY DEF LoadBlock, LoadIndex, CasIndexFails, LoadReady, LoadTail, CheckDisconnected, listVars,
         Goto, TypeOK, Same
<1>2. \/ /\ pc[t] \in {"load_block", "load_index", "cas", "load_ready", "load_tail"}
         /\ pc'[t] \in {"load_block", "load_index", "cas", "load_ready", "load_tail"}
      \/ pc[t] = "load_index" /\ pc'[t] = "install" /\ Offset(t)' = BlockCap
      \/ pc[t] = "check_disc" /\ pc'[t] = "reload_tail"
  BY DEF LoadBlock, LoadIndex, CasIndexFails, LoadReady, LoadTail, CheckDisconnected, Goto, TypeOK,
         Offset, Start
<1>3. ~Holds(t) /\ ~Holds(t)' /\ AbsStatus(t)' = AbsStatus(t)
  <2>1. Offset(t)' = BlockCap /\ pc'[t] = "install" => ~Holds(t)'
    <3>1. ~(BlockCap < BlockCap)
      BY CapAssumption
    <3> QED
      BY <3>1 DEF Holds
  <2> QED
    BY <1>2, <2>1, StatusTableHolds, StatusTableStays DEF StatusTable
<1>4. AbsVal(t)' = AbsVal(t)
  BY <1>1, <1>3 DEF AbsVal
<1>5. \A s \in Senders : Writing(s) => Writing(s)' /\ idx'[s] = idx[s] /\ msg'[s] = msg[s]
  <2>1. \A s \in Senders : Writing(s) => s # t
    BY <1>3 DEF Writing
  <2> QED
    BY <1>1, <2>1, SameFacts DEF Threads, Same
<1> QED
  BY <1>1, <1>3, <1>4, <1>5, Untouched, SilentStep

\* Passing a block.
LEMMA SilentPasses ==
  ASSUME TypeOK, IInv, TypeOK', IInv', NEW t \in Threads, InstallNext(t) \/ AdvanceBlock(t)
  PROVE  UNCHANGED Abs!vars
<1>1. /\ UNCHANGED <<index, slots, disconnected, alive, msg, idx>>
      /\ \A z \in Threads \ {t} : Same(z)
      /\ \A z \in Threads : (Holds(z)' <=> Holds(z)) /\ (Writing(z)' <=> Writing(z))
      /\ pc[t] \in {"install", "advance"} /\ Offset(t)' = Offset(t)
      /\ Passing(t) <=> Offset(t) < BlockCap
  BY PassFacts DEF InstallNext, AdvanceBlock
<1>2. ~Holds(t) => pc'[t] \in {"advance", "load_block"}
  <2>1. pc'[t] \in {"advance", "load_block", "write", "retire"}
    BY DEF InstallNext, AdvanceBlock, Goto, TypeOK
  <2> QED
    BY <1>1, <2>1 DEF Holds
<1>3. AbsStatus(t)' = AbsStatus(t)
  <2>1. CASE Holds(t)
    BY <1>1, <2>1, StatusTableHolds, StatusTableStays DEF StatusTable
  <2>2. CASE ~Holds(t)
    BY <1>1, <1>2, <2>2, StatusTableHolds, StatusTableStays DEF StatusTable
  <2> QED
    BY <2>1, <2>2
<1>4. ContentsKept
  BY <1>1, Untouched DEF Threads
<1>5. AbsVal(t)' = AbsVal(t)
  <2>1. CASE t \in Receivers /\ Holds(t)
    <3>1. PICK i \in 0 .. MaxIndex : i = idx[t] /\ i < index["tail"]
      BY <2>1, OwnSlot
    <3>2. Content(i)' = Content(i)
      BY <1>4, <3>1, ContentStays
    <3>3. Content(idx[t])' = Content(i)'
      BY <1>1, <3>1 DEF Content
    <3> QED
      BY <1>1, <2>1, <3>1, <3>2, <3>3 DEF AbsVal
  <2>2. CASE ~(t \in Receivers /\ Holds(t))
    BY <1>1, <2>2 DEF AbsVal
  <2> QED
    BY <2>1, <2>2
<1> QED
  BY <1>1, <1>3, <1>4, <1>5, SilentStep

\* A message that is written was in its place for the abstract queue since the
\* compare-exchange.
LEMMA SilentWrites ==
  ASSUME TypeOK, IInv, TypeOK', IInv', NEW s \in Senders, WriteMsg(s) \/ Publish(s)
  PROVE  UNCHANGED Abs!vars
<1> USE ThreadAssumption DEF Threads
<1>1. /\ UNCHANGED <<index, disconnected, alive, msg, idx>>
      /\ \A z \in Threads \ {s} : Same(z)
      /\ pc[s] \in {"write", "publish"} /\ Holds(s) /\ s \notin Receivers
      /\ Holds(s)' \/ pc'[s] = "ok"
      /\ pc'[s] \in {"publish", "ok"}
  BY DEF WriteMsg, Publish, Goto, TypeOK, Same, Holds
<1>2. AbsStatus(s)' = AbsStatus(s)
  BY <1>1, StatusTableHolds, StatusTableStays DEF StatusTable, Answered
<1>3. AbsVal(s)' = AbsVal(s)
  BY <1>1 DEF AbsVal
<1>4. idx[s] \in 0 .. MaxIndex
  BY DEF TypeOK
<1>5. \A z \in Senders \ {s} : Writing(z) => Writing(z)' /\ idx'[z] = idx[z] /\ msg'[z] = msg[z]
  BY <1>1, SameFacts DEF Same
<1>6. index["tail"] \in Nat
  BY QueueFactsHold DEF QueueFacts
<1>7. ContentsKept
  <2>1. CASE WriteMsg(s)
    <3>1. /\ slots' = [slots EXCEPT ![idx[s]].msg = msg[s]] /\ Writing(s)
      BY <1>1, <2>1 DEF WriteMsg, Writing
    <3>2. slots[idx[s]].msg = NoMsg
      BY <3>1 DEF IInv, ContentsOK, SenderOK
    <3>3. \A i \in 0 .. MaxIndex : slots[i].msg # NoMsg => slots'[i].msg = slots[i].msg
      BY <3>1, <3>2 DEF TypeOK
    <3>4. slots'[idx[s]].msg = msg[s]
      BY <1>4, <3>1 DEF TypeOK
    <3> QED
      BY <1>1, <1>5, <1>6, <3>3, <3>4 DEF ContentsKept
  <2>2. CASE Publish(s)
    <3>1. /\ slots' = [slots EXCEPT ![idx[s]].ready = TRUE] /\ ~Writing(s)
      BY <1>1, <2>2 DEF Publish, Writing
    <3>2. \A i \in 0 .. MaxIndex : slots'[i].msg = slots[i].msg
      BY <3>1 DEF TypeOK
    <3> QED
      BY <1>1, <1>5, <1>6, <3>1, <3>2 DEF ContentsKept
  <2> QED
    BY <2>1, <2>2
<1> QED
  BY <1>1, <1>2, <1>3, <1>7, SilentStep

\* So was a message that is read, for the receiver.
LEMMA SilentReads ==
  ASSUME TypeOK, IInv, TypeOK', IInv', FoundOut, NEW r \in Receivers,
         Retire(r) \/ WaitReady(r) \/ ReadMsg(r)
  PROVE  UNCHANGED Abs!vars
<1> USE ThreadAssumption DEF Threads
<1>1. /\ UNCHANGED <<index, slots, disconnected, alive, idx>>
      /\ \A z \in Threads \ {r} : Same(z)
      /\ r \notin Senders /\ Holds(r)
  BY DEF Retire, WaitReady, ReadMsg, Goto, TypeOK, Same, Holds, listVars
<1>2. ContentsKept
  BY <1>1, SameFacts, Untouched DEF Same
<1>3. PICK i \in 0 .. MaxIndex : i = idx[r] /\ i < index["tail"]
  BY <1>1, OwnSlot
<1>4. AbsVal(r) = Content(i)
  BY <1>1, <1>3 DEF AbsVal
<1>5. CASE Retire(r) \/ WaitReady(r)
  <2>1. Holds(r)' /\ UNCHANGED msg
    BY <1>5 DEF Retire, WaitReady, Goto, TypeOK, Holds
  <2>2. AbsStatus(r)' = AbsStatus(r)
    BY <1>1, <2>1, StatusTableHolds, StatusTableStays DEF StatusTable
  <2>3. Content(i)' = Content(i)
    BY <1>2, <1>3, ContentStays
  <2>4. AbsVal(r)' = Content(i)'
    BY <1>1, <1>3, <2>1 DEF AbsVal, Content
  <2> QED
    BY <1>1, <1>2, <1>4, <2>2, <2>3, <2>4, SilentStep
<1>6. CASE ReadMsg(r)
  <2>1. pc[r] = "read" /\ pc'[r] = "ok" /\ msg'[r] = slots[i].msg
    BY <1>3, <1>6 DEF ReadMsg, Goto, TypeOK
  <2>2. slots[i].msg # NoMsg
    BY <1>3, <2>1 DEF FoundOut, IInv, ContentsOK, SlotOK
  <2>3. AbsStatus(r)' = AbsStatus(r) /\ ~Holds(r)'
    BY <1>1, <2>1, StatusTableHolds, StatusTableStays DEF StatusTable, Answered
  <2>4. AbsVal(r)' = AbsVal(r)
    <3>1. AbsVal(r)' = slots[i].msg
      BY <2>1, <2>3 DEF AbsVal
    <3> QED
      BY <1>3, <1>4, <2>2, <3>1, QueueFactsHold DEF QueueFacts
  <2> QED
    BY <1>1, <1>2, <2>3, <2>4, SilentStep
<1> QED
  BY <1>5, <1>6
-------------------------------------------------------------------------------
(* Steps that take effect. *)

LEMMA BeginSendImplements ==
  ASSUME TypeOK, IInv, TypeOK', IInv', NEW s \in Senders, BeginSend(s)
  PROVE  Abs!BeginSend(s)
<1> USE ThreadAssumption DEF Threads
<1>1. /\ UNCHANGED <<index, slots, disconnected, alive>> /\ s \in alive /\ s \notin Receivers
      /\ pc[s] = "idle" /\ pc'[s] = (IF disconnected THEN "disconnected" ELSE "load_block")
      /\ msg'[s] = <<s, count[s] + 1>> /\ count[s] < MaxSends
      /\ \A z \in Threads \ {s} : Same(z)
  BY DEF BeginSend, Goto, TypeOK, Same, listVars
<1>2. msg'[s] \in Messages
  <2>1. count[s] \in 0 .. MaxSends
    BY DEF TypeOK
  <2>2. count[s] + 1 \in 1 .. MaxSends
    BY <1>1, <2>1, BoundAssumption
  <2> QED
    BY <1>1, <2>2 DEF Messages
<1>3. /\ AbsStatus(s) = "idle" /\ ~Holds(s)
      /\ AbsStatus(s)' = (IF disconnected THEN "disconnected" ELSE "pending")
  BY <1>1, StatusTableHolds, StatusTableStays DEF StatusTable, Answered
<1>4. AbsVal(s)' = msg'[s]
  BY <1>1 DEF AbsVal
<1>5. ContentsKept
  <2>1. \A z \in Senders : Writing(z) => z # s
    BY <1>3 DEF Writing
  <2> QED
    BY <1>1, <2>1, SameFacts, Untouched DEF Same
<1>6. /\ AbsQueue' = AbsQueue
      /\ Status' = [Status EXCEPT ![s] = IF disconnected THEN "disconnected" ELSE "pending"]
      /\ Val' = [Val EXCEPT ![s] = msg'[s]]
  BY <1>1, <1>3, <1>4, <1>5, ThreadFrame
<1>7. Status[s] = "idle"
  BY <1>3 DEF Status
<1> QED
  BY <1>1, <1>2, <1>6, <1>7 DEF Abs!BeginSend, Abs!Answer, Status, Val

\* The steps of a thread without a slot that only change its status.
LEMMA StatusStep ==
  ASSUME TypeOK, IInv, TypeOK', IInv', UNCHANGED <<index, slots, disconnected, msg>>,
         NEW t \in Threads, \A z \in Threads \ {t} : Same(z), ~Holds(t), ~Holds(t)'
  PROVE  AbsQueue' = AbsQueue /\ Status' = [Status EXCEPT ![t] = AbsStatus(t)'] /\ Val' = Val
<1>1. AbsVal(t)' = AbsVal(t)
  BY DEF AbsVal
<1>2. \A z \in Senders : Writing(z) => z # t
  BY DEF Writing
<1>3. ContentsKept
  BY <1>2, SameFacts, Untouched DEF Same, Threads
<1> QED
  BY <1>1, <1>3, ThreadFrame

LEMMA BeginRecvImplements ==
  ASSUME TypeOK, IInv, TypeOK', IInv', NEW r \in Receivers, BeginRecv(r)
  PROVE  Abs!BeginRecv(r)
<1>1. /\ UNCHANGED <<index, slots, disconnected, alive, msg>> /\ r \in alive
      /\ pc[r] = "idle" /\ pc'[r] = "load_block"
      /\ \A z \in Threads \ {r} : Same(z)
  BY DEF BeginRecv, Goto, TypeOK, Threads, Same, listVars
<1>2. AbsStatus(r) = "idle" /\ AbsStatus(r)' = "pending" /\ ~Holds(r) /\ ~Holds(r)'
  BY <1>1, StatusTableHolds, StatusTableStays DEF StatusTable, Threads
<1>3. AbsQueue' = AbsQueue /\ Status' = [Status EXCEPT ![r] = "pending"] /\ Val' = Val
  BY <1>1, <1>2, StatusStep DEF Threads
<1>4. Status[r] = "idle"
  BY <1>2 DEF Status, Threads
<1> QED
  BY <1>1, <1>3, <1>4 DEF Abs!BeginRecv, Abs!Answer, Status, Val

\* An index that a receiver has compared with the tail was the head's at that
\* moment or earlier: the tail has not passed the head.
LEMMA EmptyQueue ==
  ASSUME TypeOK, IInv, NEW r \in Receivers, index["tail"] = idx[r],
         pc[r] \in {"load_tail", "reload_tail"}
  PROVE  AbsQueue = <<>>
<1>1. index["head"] <= index["tail"] /\ idx[r] <= index["head"]
  BY ThreadAssumption DEF IInv, EndsOK, CallsOK, CallOK, Looking, Answered, EndOf, Threads
<1>2. index["tail"] - index["head"] = 0
  BY <1>1, QueueFactsHold DEF QueueFacts
<1>3. AbsQueue \in Seq(Messages) /\ Len(AbsQueue) = 0
  BY <1>2, QueueFactsHold DEF QueueFacts, QueueLen
<1> QED
  BY <1>3, EmptySeq

\* The steps of a receiver that looks at the tail and at the disconnection.
LEMMA LookImplements ==
  ASSUME TypeOK, IInv, TypeOK', IInv', FoundOut, NEW r \in Receivers
  PROVE  /\ LoadTail(r) /\ pc'[r] # "cas" => Abs!Glance(r)
         /\ CheckDisconnected(r) /\ pc'[r] # "reload_tail" => Abs!Empty(r)
         /\ ReloadTail(r) => Abs!Disconnected(r) \/ Abs!Glance(r)
<1> SUFFICES ASSUME \/ LoadTail(r) /\ pc'[r] # "cas"
                    \/ CheckDisconnected(r) /\ pc'[r] # "reload_tail"
                    \/ ReloadTail(r)
             PROVE  /\ LoadTail(r) => Abs!Glance(r)
                    /\ CheckDisconnected(r) => Abs!Empty(r)
                    /\ ReloadTail(r) => Abs!Disconnected(r) \/ Abs!Glance(r)
  OBVIOUS
<1>1. /\ UNCHANGED <<index, slots, disconnected, alive, msg>>
      /\ pc[r] \in {"load_tail", "check_disc", "reload_tail"}
      /\ pc'[r] \in {"check_disc", "empty", "disconnected", "cas"}
      /\ \A z \in Threads \ {r} : Same(z)
  BY DEF LoadTail, CheckDisconnected, ReloadTail, Goto, TypeOK, Threads, Same, listVars
<1>2. ~Holds(r) /\ ~Holds(r)'
  BY <1>1, StatusTableHolds, StatusTableStays DEF StatusTable, Threads, Answered
<1>3. AbsQueue' = AbsQueue /\ Status' = [Status EXCEPT ![r] = AbsStatus(r)'] /\ Val' = Val
  BY <1>1, <1>2, StatusStep DEF Threads
<1>4. Status[r] = AbsStatus(r)
  BY DEF Status, Threads
<1>5. CASE LoadTail(r)
  <2>1. pc[r] = "load_tail" /\ pc'[r] = "check_disc" /\ index["tail"] = idx[r]
    BY <1>5 DEF LoadTail, CheckDisconnected, ReloadTail, Goto, TypeOK, Threads
  <2>2. AbsStatus(r) = "pending" /\ AbsStatus(r)' = "glanced" /\ AbsQueue = <<>>
    BY <2>1, EmptyQueue, StatusTableHolds, StatusTableStays DEF StatusTable, Threads
  <2>3. Abs!Glance(r)
    BY <1>1, <1>3, <1>4, <2>2 DEF Abs!Glance, Abs!Answer, Status, Val
  <2> QED
    BY <2>1, <2>3 DEF CheckDisconnected, ReloadTail
<1>6. CASE CheckDisconnected(r)
  <2>1. pc[r] = "check_disc" /\ pc'[r] = "empty"
    BY <1>6 DEF LoadTail, CheckDisconnected, ReloadTail, Goto, TypeOK, Threads
  <2>2. AbsStatus(r) = "glanced" /\ AbsStatus(r)' = "empty"
    BY <2>1, StatusTableHolds, StatusTableStays DEF StatusTable, Threads, Answered
  <2>3. Abs!Empty(r)
    BY <1>1, <1>3, <1>4, <2>2 DEF Abs!Empty, Abs!Answer, Status, Val
  <2> QED
    BY <2>1, <2>3 DEF LoadTail, ReloadTail
<1>7. CASE ReloadTail(r)
  <2>1. /\ pc[r] = "reload_tail" /\ disconnected
        /\ \/ pc'[r] = "disconnected" /\ index["tail"] = idx[r]
           \/ pc'[r] = "cas"
    BY <1>7 DEF ReloadTail, Goto, TypeOK, Threads, FoundOut
  <2>2. /\ AbsStatus(r) = "glanced"
        /\ \/ AbsStatus(r)' = "disconnected" /\ AbsQueue = <<>>
           \/ AbsStatus(r)' = "pending"
    BY <2>1, EmptyQueue, StatusTableHolds, StatusTableStays DEF StatusTable, Threads, Answered
  <2>3. Abs!Disconnected(r) \/ Abs!Glance(r)
    BY <1>1, <1>3, <1>4, <2>1, <2>2 DEF Abs!Disconnected, Abs!Glance, Abs!Answer, Status, Val
  <2> QED
    BY <2>1, <2>3 DEF LoadTail, CheckDisconnected
<1> QED
  BY <1>5, <1>6, <1>7

LEMMA ReturnImplements ==
  ASSUME TypeOK, IInv, TypeOK', IInv', NEW t \in Threads, Return(t)
  PROVE  Abs!Return(t)
<1>1. /\ UNCHANGED <<index, slots, disconnected, alive>>
      /\ pc[t] \in Answered /\ pc'[t] = "idle" /\ msg'[t] = NoMsg
      /\ \A z \in Threads \ {t} : Same(z)
  BY DEF Return, Goto, TypeOK, Same, listVars
<1>2. AbsStatus(t) \in Answered /\ AbsStatus(t)' = "idle" /\ ~Holds(t) /\ ~Holds(t)'
  BY <1>1, StatusTableHolds, StatusTableStays DEF StatusTable
<1>3. AbsVal(t)' = NoMsg
  BY <1>1, <1>2 DEF AbsVal
<1>4. ContentsKept
  <2>1. \A z \in Senders : Writing(z) => z # t
    BY <1>2 DEF Writing
  <2> QED
    BY <1>1, <2>1, SameFacts, Untouched DEF Same, Threads
<1>5. /\ AbsQueue' = AbsQueue /\ Status' = [Status EXCEPT ![t] = "idle"]
      /\ Val' = [Val EXCEPT ![t] = NoMsg]
  BY <1>1, <1>2, <1>3, <1>4, ThreadFrame
<1>6. Status[t] \in Abs!Answered
  BY <1>2 DEF Status, Answered, Abs!Answered
<1> QED
  BY <1>1, <1>5, <1>6 DEF Abs!Return, Abs!Answer, Status, Val

LEMMA DropHandleImplements ==
  ASSUME TypeOK, IInv, TypeOK', IInv', NEW t \in Threads, DropHandle(t)
  PROVE  Abs!DropHandle(t)
<1>1. /\ UNCHANGED <<index, slots, msg>> /\ \A z \in Threads : Same(z)
      /\ pc[t] = "idle" /\ pc'[t] = "idle" /\ t \in alive /\ alive' = alive \ {t}
      /\ disconnected' = (disconnected \/ alive' \cap Senders = {} \/ alive' \cap Receivers = {})
  BY DEF DropHandle, Same, listVars
<1>2. AbsStatus(t) = "idle" /\ AbsStatus(t)' = AbsStatus(t)
  BY <1>1, StatusTableHolds, StatusTableStays DEF StatusTable
<1>3. ContentsKept
  BY <1>1, SameFacts, Untouched DEF Same, Threads
<1>4. AbsVal(t)' = AbsVal(t)
  BY <1>1, <1>3, OtherStays
<1>5. AbsQueue' = AbsQueue /\ Status' = Status /\ Val' = Val
  BY <1>1, <1>2, <1>3, <1>4, ThreadFrame
<1>6. Status[t] = "idle"
  BY <1>2 DEF Status
<1> QED
  BY <1>1, <1>5, <1>6 DEF Abs!DropHandle, Status, Val

\* The queue after a step, when the head and the tail are known.
LEMMA QueueAfter ==
  ASSUME TypeOK, IInv, TypeOK', IInv', NEW CONSTANT h, NEW CONSTANT d,
         index'["head"] = h, index'["tail"] = h + d, h \in Nat, d \in Nat
  PROVE  /\ AbsQueue' \in Seq(Messages) /\ Len(AbsQueue') = d
         /\ \A n \in 1 .. d : AbsQueue'[n] = Content(h + n - 1)'
<1>1. QueueLen' = d
  BY DEF QueueLen
<1>2. AbsQueue' \in Seq(Messages) /\ Len(AbsQueue') = d
  BY <1>1, QueueFactsStay DEF QueueFacts
<1>3. AbsQueue' = [n \in 1 .. index'["tail"] - index'["head"] |-> Content(index["head"] + n - 1)']
  BY DEF AbsQueue
<1>4. \A n : Content(index["head"] + n - 1)' = Content(h + n - 1)'
  BY DEF Content
<1>5. index'["tail"] - index'["head"] = d
  OBVIOUS
<1> QED
  BY <1>2, <1>3, <1>4, <1>5

LEMMA QueueBefore ==
  ASSUME TypeOK, IInv, NEW CONSTANT h, NEW CONSTANT d,
         index["head"] = h, d = index["tail"] - index["head"]
  PROVE  /\ h \in Nat /\ d \in 0 .. MaxIndex /\ MaxIndex \in Nat /\ index["tail"] = h + d
         /\ AbsQueue \in Seq(Messages) /\ Len(AbsQueue) = d
         /\ \A n \in 1 .. d : /\ AbsQueue[n] = Content(h + n - 1)
                              /\ h + n - 1 \in 0 .. MaxIndex /\ h + n - 1 < index["tail"]
<1>1. QueueLen = d /\ QueueFacts
  BY QueueFactsHold DEF QueueLen
<1>2. h \in Nat /\ d \in 0 .. MaxIndex /\ MaxIndex \in Nat /\ index["tail"] = h + d
  BY <1>1 DEF QueueFacts
<1> QED
  BY <1>1, <1>2 DEF QueueFacts

\* The sender that moves the tail puts its message behind the others.
LEMMA EnqueueImplements ==
  ASSUME TypeOK, IInv, TypeOK', IInv', NEW s \in Senders, CasIndex(s)
  PROVE  Abs!Enqueue(s)
<1> USE ThreadAssumption DEF Threads
<1> PICK h, d : h = index["head"] /\ d = index["tail"] - index["head"]
  OBVIOUS
<1>1. /\ idx[s] = index["tail"] /\ idx'[s] = idx[s] /\ ~Holds(s) /\ Holds(s)' /\ Writing(s)'
      /\ index' = [index EXCEPT !["tail"] = idx[s] + 1]
      /\ UNCHANGED <<slots, msg, disconnected, alive>> /\ s \notin Receivers
      /\ \A z \in Threads \ {s} : Same(z)
      /\ pc[s] = "cas"
  BY CasFacts DEF CasIndex, EndOf, Writing
<1>2. index'["head"] = h /\ index'["tail"] = h + d + 1
  BY <1>1, QueueBefore DEF TypeOK
<1>3. ContentsKept
  <2>1. \A z \in Senders : Writing(z) => z # s
    BY <1>1 DEF Writing
  <2>2. index["tail"] <= index'["tail"]
    BY <1>2, QueueBefore
  <2> QED
    BY <1>1, <2>1, <2>2, SameFacts DEF Same, ContentsKept
<1>4. /\ AbsQueue' \in Seq(Messages) /\ Len(AbsQueue') = d + 1
      /\ \A n \in 1 .. d + 1 : AbsQueue'[n] = Content(h + n - 1)'
  <2>1. h \in Nat /\ d + 1 \in Nat /\ index'["tail"] = h + (d + 1)
    BY <1>2, QueueBefore
  <2> QED
    BY <1>2, <2>1, QueueAfter
<1>5. ASSUME NEW n \in 1 .. d PROVE AbsQueue'[n] = AbsQueue[n]
  <2> PICK i \in 0 .. MaxIndex : i = h + n - 1 /\ i < index["tail"]
    BY QueueBefore
  <2>1. Content(i)' = Content(i)
    BY <1>3, ContentStays
  <2>2. n \in 1 .. d + 1
    BY QueueBefore
  <2> QED
    BY <1>4, <2>1, <2>2, QueueBefore
<1>6. AbsQueue'[d + 1] = msg[s] /\ msg[s] \in Messages
  <2>1. d + 1 \in 1 .. d + 1 /\ h + (d + 1) - 1 = index["tail"]
    BY QueueBefore
  <2> PICK i \in 0 .. MaxIndex : i = index["tail"]
    BY DEF TypeOK
  <2>2. AbsQueue'[d + 1] = Content(i)'
    BY <1>4, <2>1
  <2>3. i < index'["tail"]
    BY <1>2, QueueBefore
  <2>4. Content(i)' = msg'[s] /\ Content(i)' \in Messages
    BY <1>1, <2>3, QueueFactsStay DEF QueueFacts
  <2> QED
    BY <1>1, <2>2, <2>4
<1>7. Len(AbsQueue) < MaxIndex + 1 /\ AbsQueue' = Append(AbsQueue, msg[s])
  <2>1. Len(AbsQueue) = d /\ AbsQueue \in Seq(Messages) /\ d < MaxIndex + 1
    BY QueueBefore
  <2> QED
    BY <1>4, <1>5, <1>6, <2>1, AppendIs
<1>8. AbsStatus(s) = "pending" /\ AbsStatus(s)' = "ok" /\ AbsVal(s) = msg[s] /\ AbsVal(s)' = msg[s]
  BY <1>1, StatusTableHolds, StatusTableStays DEF StatusTable, AbsVal
<1>9. /\ Status[s] = "pending" /\ Status' = [Status EXCEPT ![s] = "ok"]
      /\ Val[s] = msg[s] /\ Val' = Val
  BY <1>1, <1>3, <1>8, ThreadFrame DEF Status, Val
<1> QED
  BY <1>1, <1>7, <1>9 DEF Abs!Enqueue, Abs!Answer, Status, Val

\* What is left of the queue when the head moves on.
LEMMA HeadMoves ==
  ASSUME TypeOK, IInv, TypeOK', IInv', ContentsKept, index["head"] # index["tail"],
         index' = [index EXCEPT !["head"] = @ + 1]
  PROVE  /\ AbsQueue # <<>> /\ AbsQueue' = Tail(AbsQueue)
         /\ Head(AbsQueue) = Content(index["head"])
<1> PICK h, d : h = index["head"] /\ d = index["tail"] - index["head"]
  OBVIOUS
<1>1. /\ index'["head"] = h + 1 /\ index'["tail"] = index["tail"]
      /\ h \in Nat /\ d \in Nat /\ d > 0 /\ index["tail"] = h + d
  <2>1. index'["head"] = h + 1 /\ index'["tail"] = index["tail"]
    BY DEF TypeOK
  <2>2. h \in Nat /\ d \in 0 .. MaxIndex /\ MaxIndex \in Nat /\ index["tail"] = h + d
    BY QueueBefore
  <2>3. d # 0
    BY <2>2
  <2> QED
    BY <2>1, <2>2, <2>3
<1>2. /\ AbsQueue' \in Seq(Messages) /\ Len(AbsQueue') = d - 1
      /\ \A n \in 1 .. d - 1 : AbsQueue'[n] = Content(h + 1 + n - 1)'
  <2>1. h + 1 \in Nat /\ d - 1 \in Nat /\ index'["tail"] = (h + 1) + (d - 1)
    BY <1>1
  <2> QED
    BY <1>1, <2>1, QueueAfter
<1>3. ASSUME NEW n \in 1 .. d - 1 PROVE AbsQueue'[n] = AbsQueue[n + 1]
  <2>1. n + 1 \in 1 .. d /\ h + 1 + n - 1 = h + (n + 1) - 1
    BY <1>1
  <2> PICK i \in 0 .. MaxIndex : i = h + (n + 1) - 1 /\ i < index["tail"]
    BY <2>1, QueueBefore
  <2>2. Content(i)' = Content(i)
    BY ContentStays
  <2>3. AbsQueue'[n] = Content(i)'
    BY <1>2, <2>1
  <2>4. AbsQueue[n + 1] = Content(i)
    BY <2>1, QueueBefore
  <2> QED
    BY <2>2, <2>3, <2>4
<1>4. AbsQueue[1] = Content(h)
  <2>1. 1 \in 1 .. d /\ h + 1 - 1 = h
    BY <1>1
  <2> QED
    BY <2>1, QueueBefore
<1>5. AbsQueue \in Seq(Messages) /\ Len(AbsQueue) = d /\ d = (d - 1) + 1
  BY <1>1, QueueBefore
<1> QED
  BY <1>2, <1>3, <1>4, <1>5, TailIs

LEMMA DequeueImplements ==
  ASSUME TypeOK, IInv, TypeOK', IInv', NEW r \in Receivers, CasIndex(r)
  PROVE  Abs!Dequeue(r)
<1> USE ThreadAssumption DEF Threads
<1> PICK i \in 0 .. MaxIndex : i = idx[r]
  BY DEF TypeOK
<1>1. /\ i = index["head"] /\ idx'[r] = i /\ ~Holds(r) /\ Holds(r)' /\ i < index["tail"]
      /\ index' = [index EXCEPT !["head"] = @ + 1]
      /\ UNCHANGED <<slots, msg, disconnected, alive>> /\ r \notin Senders
      /\ \A z \in Threads \ {r} : Same(z)
      /\ pc[r] = "cas"
  BY CasFacts DEF CasIndex, EndOf
<1>2. ContentsKept
  <2>1. index["tail"] \in Nat /\ index'["tail"] = index["tail"]
    BY <1>1, QueueFactsHold DEF QueueFacts, TypeOK
  <2> QED
    BY <1>1, <2>1, SameFacts DEF Same, ContentsKept
<1>3. index["head"] # index["tail"]
  BY <1>1, QueueFactsHold DEF QueueFacts
<1>4. AbsQueue # <<>> /\ AbsQueue' = Tail(AbsQueue) /\ Head(AbsQueue) = Content(i)
  BY <1>1, <1>2, <1>3, HeadMoves
<1>5. AbsVal(r)' = Content(i)
  <2>1. Content(i)' = Content(i)
    BY <1>1, <1>2, ContentStays
  <2> QED
    BY <1>1, <2>1 DEF AbsVal, Content
<1>6. AbsStatus(r) = "pending" /\ AbsStatus(r)' = "ok"
  BY <1>1, StatusTableHolds, StatusTableStays DEF StatusTable
<1>7. /\ Status[r] = "pending" /\ Status' = [Status EXCEPT ![r] = "ok"]
      /\ Val' = [Val EXCEPT ![r] = Head(AbsQueue)]
  BY <1>1, <1>2, <1>4, <1>5, <1>6, ThreadFrame DEF Status
<1> QED
  BY <1>1, <1>4, <1>7 DEF Abs!Dequeue, Abs!Answer, Status, Val

\* Freeing memory is invisible; the drop of the channel discards what is left.
LEMMA NobodyFrame ==
  ASSUME TypeOK, IInv, TypeOK', IInv', UNCHANGED slots, index'["tail"] = index["tail"],
         \A z \in Threads : Same(z)
  PROVE  ContentsKept /\ Status' = Status /\ Val' = Val
<1>1. ContentsKept
  <2>1. index["tail"] \in Nat
    BY QueueFactsHold DEF QueueFacts
  <2> QED
    BY <2>1, SameFacts DEF Same, Threads, ContentsKept
<1>2. \A z \in Threads : AbsStatus(z)' = AbsStatus(z) /\ AbsVal(z)' = AbsVal(z)
  BY <1>1, OtherStays
<1> QED
  BY <1>1, <1>2 DEF Status, Val

LEMMA MemoryStepSilent ==
  ASSUME TypeOK, IInv, TypeOK', IInv', UNCHANGED <<index, slots, pc, idx, blk, msg, disconnected, alive>>
  PROVE  UNCHANGED Abs!vars
BY NobodyFrame, QueueStays, AbsStutter DEF Same

LEMMA DiscardImplements ==
  ASSUME TypeOK, IInv, TypeOK', IInv', DropMessage
  PROVE  Abs!Discard
<1>1. /\ alive = {} /\ index["head"] # index["tail"]
      /\ index' = [index EXCEPT !["head"] = @ + 1] /\ index'["tail"] = index["tail"]
      /\ UNCHANGED <<slots, disconnected, alive>> /\ \A z \in Threads : Same(z)
  BY DEF DropMessage, Same, TypeOK
<1>2. ContentsKept /\ Status' = Status /\ Val' = Val
  BY <1>1, NobodyFrame
<1>3. AbsQueue # <<>> /\ AbsQueue' = Tail(AbsQueue)
  BY <1>1, <1>2, HeadMoves
<1> QED
  BY <1>1, <1>2, <1>3 DEF Abs!Discard, Status, Val
-------------------------------------------------------------------------------
LEMMA InitImplements == Init => Abs!Init
<1> SUFFICES ASSUME Init PROVE Abs!Init
  OBVIOUS
<1>1. QueueLen = 0
  BY DEF Init, QueueLen
<1>2. AbsQueue = <<>>
  BY <1>1, InitTypeOK, InitIInv, QueueFactsHold, EmptySeq DEF QueueFacts
<1>3. \A t \in Threads : ~Holds(t) /\ AbsStatus(t) = "idle"
  BY StatusTableHolds DEF Init, StatusTable
<1>4. \A t \in Threads : AbsVal(t) = NoMsg
  BY <1>3 DEF Init, AbsVal
<1> QED
  BY <1>2, <1>3, <1>4 DEF Init, Abs!Init, Threads, Abs!Threads

LEMMA InitFoundOut == Init => FoundOut
BY DEF Init, FoundOut, Threads

LEMMA NextFoundOut ==
  ASSUME TypeOK, FoundOut, [Next]_vars
  PROVE  FoundOut'
<1> USE DEF listVars, memVars
<1>1. disconnected => disconnected'
  BY DEF Next, Step, Terminated, vars, BeginSend, BeginRecv, LoadBlock, LoadIndex, CasIndex,
         CasIndexFails, InstallNext, AdvanceBlock, WriteMsg, Publish, LoadReady, LoadTail,
         CheckDisconnected, ReloadTail, Retire, WaitReady, ReadMsg, Return, DropHandle, Collect,
         DropMessage, DropLastBlock
<1>2. \A i \in 0 .. MaxIndex : slots[i].ready => slots'[i].ready
  <2>1. ASSUME NEW t \in Threads, WriteMsg(t) \/ Publish(t)
        PROVE  \A i \in 0 .. MaxIndex : slots[i].ready => slots'[i].ready
    <3>1. CASE WriteMsg(t)
      <4>1. \A i \in 0 .. MaxIndex : slots'[i].ready = slots[i].ready
        BY <3>1 DEF WriteMsg, TypeOK
      <4> QED
        BY <4>1
    <3>2. CASE Publish(t)
      BY <3>2 DEF Publish, TypeOK
    <3> QED
      BY <2>1, <3>1, <3>2
  <2>2. UNCHANGED slots \/ \E t \in Threads : WriteMsg(t) \/ Publish(t)
    BY DEF Next, Step, Terminated, vars, BeginSend, BeginRecv, LoadBlock, LoadIndex, CasIndex,
           CasIndexFails, InstallNext, AdvanceBlock, LoadReady, LoadTail,
           CheckDisconnected, ReloadTail, Retire, WaitReady, ReadMsg, Return, DropHandle, Collect,
           DropMessage, DropLastBlock
  <2> QED
    BY <2>1, <2>2
<1>3. ASSUME NEW r \in Receivers
      PROVE  /\ pc'[r] = "reload_tail" => pc[r] = "reload_tail" \/ CheckDisconnected(r)
             /\ pc'[r] = "read" => (pc[r] = "read" /\ idx'[r] = idx[r]) \/ WaitReady(r)
  <2> DEFINE Found == /\ pc'[r] = "reload_tail" => pc[r] = "reload_tail" \/ CheckDisconnected(r)
                      /\ pc'[r] = "read" => (pc[r] = "read" /\ idx'[r] = idx[r]) \/ WaitReady(r)
  <2> USE ThreadAssumption DEF Goto, Threads
  <2>0. pc \in [Threads -> Labels] /\ idx \in [Threads -> 0 .. MaxIndex]
    BY DEF TypeOK
  <2>1. CASE (\E s \in Senders : BeginSend(s)) \/ (\E q \in Receivers : BeginRecv(q))
    BY <2>0, <2>1 DEF BeginSend, BeginRecv
  <2>2. ASSUME NEW t \in Threads,
               \/ LoadBlock(t) \/ LoadIndex(t) \/ CasIndex(t) \/ CasIndexFails(t) \/ InstallNext(t)
               \/ AdvanceBlock(t) \/ WriteMsg(t) \/ Publish(t)
        PROVE  Found
    BY <2>0, <2>2 DEF LoadBlock, LoadIndex, CasIndex, CasIndexFails, InstallNext, AdvanceBlock,
                      WriteMsg, Publish
  <2>3. ASSUME NEW t \in Threads,
               \/ LoadReady(t) \/ LoadTail(t) \/ CheckDisconnected(t) \/ ReloadTail(t)
               \/ Retire(t) \/ WaitReady(t) \/ ReadMsg(t)
        PROVE  Found
    <3>1. CASE t = r
      BY <2>0, <2>3, <3>1 DEF LoadReady, LoadTail, ReloadTail, Retire, ReadMsg, CheckDisconnected,
                              WaitReady
    <3>2. CASE t # r
      BY <2>0, <2>3, <3>2 DEF LoadReady, LoadTail, ReloadTail, Retire, ReadMsg, CheckDisconnected,
                              WaitReady
    <3> QED
      BY <3>1, <3>2
  <2>4. ASSUME NEW t \in Threads, Return(t) \/ DropHandle(t) PROVE Found
    BY <2>0, <2>4 DEF Return, DropHandle
  <2>5. CASE \/ \E b \in DOMAIN retired : Collect(b)
             \/ DropMessage \/ DropLastBlock \/ UNCHANGED vars
    BY <2>5 DEF Collect, DropMessage, DropLastBlock, vars
  <2> QED
    BY <2>1, <2>2, <2>3, <2>4, <2>5 DEF Next, Step, Terminated
<1>4. ASSUME NEW r \in Receivers
      PROVE  /\ CheckDisconnected(r) /\ pc'[r] = "reload_tail" => disconnected
             /\ WaitReady(r) => slots[idx[r]].ready /\ idx'[r] = idx[r]
  BY <1>3 DEF CheckDisconnected, WaitReady, Goto, TypeOK, Threads
<1>5. \A r \in Receivers : idx[r] \in 0 .. MaxIndex
  BY DEF TypeOK, Threads
<1> QED
  BY <1>1, <1>2, <1>3, <1>4, <1>5 DEF FoundOut

\* Every step of the list is a step of the abstract queue, or none.
LEMMA NextImplements ==
  TypeOK /\ IInv /\ FoundOut /\ TypeOK' /\ IInv' /\ [Next]_vars => [Abs!Next]_(Abs!vars)
<1> SUFFICES ASSUME TypeOK, IInv, FoundOut, TypeOK', IInv', [Next]_vars
             PROVE  Abs!Next \/ UNCHANGED Abs!vars
  OBVIOUS
<1> USE DEF Abs!Next
<1>1. ASSUME NEW s \in Senders, BeginSend(s) PROVE Abs!Next
  BY <1>1, BeginSendImplements
<1>2. ASSUME NEW r \in Receivers, BeginRecv(r) PROVE Abs!Next
  BY <1>2, BeginRecvImplements
<1>3. ASSUME NEW t \in Threads, Step(t) PROVE Abs!Next \/ UNCHANGED Abs!vars
  <2>0. /\ t \in Senders => pc[t] \notin {"load_ready", "load_tail", "check_disc", "reload_tail",
                                         "retire", "wait_ready", "read"}
        /\ t \in Receivers => pc[t] \notin {"write", "publish"}
        /\ t \in Senders \/ t \in Receivers
    BY DEF IInv, CallsOK, CallOK, Threads
  <2>1. CASE LoadBlock(t) \/ LoadIndex(t) \/ CasIndexFails(t) \/ LoadReady(t)
    BY <2>1, SilentLoads
  <2>2. CASE InstallNext(t) \/ AdvanceBlock(t)
    BY <2>2, SilentPasses
  <2>3. CASE CasIndex(t)
    BY <2>0, <2>3, EnqueueImplements, DequeueImplements
  <2>4. CASE WriteMsg(t) \/ Publish(t)
    <3>1. t \in Senders
      BY <2>0, <2>4 DEF WriteMsg, Publish
    <3> QED
      BY <2>4, <3>1, SilentWrites
  <2>5. CASE LoadTail(t) \/ CheckDisconnected(t) \/ ReloadTail(t)
    <3>1. t \in Receivers
      BY <2>0, <2>5 DEF LoadTail, CheckDisconnected, ReloadTail
    <3> QED
      BY <2>5, <3>1, SilentLoads, LookImplements
  <2>6. CASE Retire(t) \/ WaitReady(t) \/ ReadMsg(t)
    <3>1. t \in Receivers
      BY <2>0, <2>6 DEF Retire, WaitReady, ReadMsg
    <3> QED
      BY <2>6, <3>1, SilentReads
  <2> QED
    BY <1>3, <2>1, <2>2, <2>3, <2>4, <2>5, <2>6 DEF Step
<1>4. ASSUME NEW t \in Threads, Return(t) \/ DropHandle(t) PROVE Abs!Next
  BY <1>4, ReturnImplements, DropHandleImplements DEF Threads, Abs!Threads
<1>5. CASE \E b \in DOMAIN retired : Collect(b)
  BY <1>5, MemoryStepSilent DEF Collect, listVars
<1>6. CASE DropMessage
  BY <1>6, DiscardImplements
<1>7. CASE DropLastBlock
  BY <1>7, MemoryStepSilent DEF DropLastBlock, listVars
<1>8. CASE UNCHANGED vars
  BY <1>8, MemoryStepSilent DEF vars, listVars
<1> QED
  BY <1>1, <1>2, <1>3, <1>4, <1>5, <1>6, <1>7, <1>8 DEF Next, Terminated

\* try_send and try_recv on an unbounded channel are linearizable: with any
\* number of threads, any block size and any number of messages, and with the
\* collector running or not, every behaviour of the atomic accesses is one of
\* a FIFO queue that is never full.
THEOREM Linearizable == Spec => Implements
<1>1. TypeOK /\ IInv /\ FoundOut /\ [Next]_vars => TypeOK' /\ IInv' /\ FoundOut'
  BY NextTypeOK, NextIInv, NextFoundOut
<1> QED
  BY <1>1, InitTypeOK, InitIInv, InitFoundOut, InitImplements, NextImplements, PTL
  DEF Spec, Implements, Abs!Spec
-------------------------------------------------------------------------------
(* len and is_empty. *)

\* What the observer has loaded is old in one direction only, and unless the
\* tail has moved since, it is a length the queue has had.
ObsInv ==
  /\ loaded \in [{"head", "tail"} -> Nat]
  /\ obs # "idle" => Length \in lengths
  /\ obs \in {"len_head", "len_reload"} => loaded["tail"] <= index["tail"]
  /\ obs = "len_reload" /\ index["tail"] = loaded["tail"] => loaded["tail"] - loaded["head"] \in lengths
  /\ obs = "empty_tail" =>
       loaded["head"] <= index["head"] /\ (index["tail"] = loaded["head"] \/ lengths \ {0} # {})
  /\ ObservationsTrue

\* An index moves by one at a time, and only forwards.
LEMMA IndexSteps ==
  ASSUME TypeOK, [Next]_vars
  PROVE  UNCHANGED index \/ \E e \in Ends : index' = [index EXCEPT ![e] = @ + 1]
<1> USE DEF listVars
<1>1. CASE \E t \in Threads : CasIndex(t)
  BY <1>1, EndOfIs DEF CasIndex
<1>2. CASE DropMessage
  BY <1>2 DEF DropMessage, Ends
<1>3. CASE ~DropMessage /\ ~ \E t \in Threads : CasIndex(t)
  BY <1>3 DEF Next, Step, Terminated, vars, BeginSend, BeginRecv, LoadBlock, LoadIndex,
              CasIndexFails, InstallNext, AdvanceBlock, WriteMsg, Publish, LoadReady, LoadTail,
              CheckDisconnected, ReloadTail, Retire, WaitReady, ReadMsg, Return, DropHandle, Collect,
              DropLastBlock
<1> QED
  BY <1>1, <1>2, <1>3

LEMMA InitObsInv == ObsInit => ObsInv
BY DEF ObsInit, ObsInv, ObservationsTrue

LEMMA NextObsInv ==
  ASSUME TypeOK, IInv, TypeOK', IInv', ObsInv, [ObsNext]_<<vars, obsVars>>
  PROVE  ObsInv'
<1> PICK h, t : h = index["head"] /\ t = index["tail"]
  OBVIOUS
<1> PICK a, b : a = index'["head"] /\ b = index'["tail"]
  OBVIOUS
<1>1. h \in Nat /\ t \in Nat /\ h <= t /\ a \in Nat /\ b \in Nat /\ a <= b
  <2>1. index["head"] \in Nat /\ index["tail"] \in Nat /\ index["head"] <= index["tail"]
    BY QueueFactsStay DEF QueueFacts, IInv, EndsOK
  <2>2. index'["head"] \in Nat /\ index'["tail"] \in Nat /\ index'["head"] <= index'["tail"]
    BY QueueFactsStay DEF QueueFacts, IInv, EndsOK
  <2> QED
    BY <2>1, <2>2
<1>2. Length = t - h /\ Length' = b - a
  BY DEF Length
<1>3. CASE ObsStep /\ UNCHANGED vars /\ Watch
  <2>1. index' = index /\ a = h /\ b = t
    BY <1>3 DEF vars, listVars
  <2>2. CASE BeginObs
    <3>1. obs' \in {"len_tail", "empty_head"} /\ UNCHANGED loaded /\ lengths' = lengths \cup {b - a}
      BY <1>2, <1>3, <2>2 DEF BeginObs, Watch
    <3> QED
      BY <1>2, <3>1 DEF ObsInv, ObservationsTrue
  <2>3. CASE FinishObs
    <3>1. obs' = "idle" /\ loaded' = [e \in {"head", "tail"} |-> 0]
      BY <2>3 DEF FinishObs
    <3> QED
      BY <3>1 DEF ObsInv, ObservationsTrue
  <2>4. CASE Load("len_tail", "tail", "len_head")
    <3>1. /\ obs' = "len_head" /\ loaded' = [loaded EXCEPT !["tail"] = t]
          /\ lengths' = lengths \cup {b - a}
      BY <1>2, <1>3, <2>4 DEF Load, Watch
    <3> QED
      BY <1>1, <1>2, <2>1, <3>1 DEF ObsInv, ObservationsTrue
  <2>5. CASE Load("len_head", "head", "len_reload")
    <3>1. /\ obs = "len_head" /\ obs' = "len_reload" /\ loaded' = [loaded EXCEPT !["head"] = h]
          /\ lengths' = lengths \cup {b - a}
      BY <1>2, <1>3, <2>5 DEF Load, Watch
    <3>2. loaded' \in [{"head", "tail"} -> Nat] /\ loaded'["head"] = h /\ loaded'["tail"] = loaded["tail"]
      BY <1>1, <3>1 DEF ObsInv
    <3> QED
      BY <1>1, <1>2, <2>1, <3>1, <3>2 DEF ObsInv, ObservationsTrue
  <2>6. CASE LenReloadTail
    <3>1. /\ obs = "len_reload" /\ UNCHANGED loaded
          /\ \/ t = loaded["tail"] /\ obs' = "len_done" /\ answer' = loaded["tail"] - loaded["head"]
             \/ obs' = "len_tail"
          /\ lengths' = lengths \cup {b - a}
      BY <1>2, <1>3, <2>6 DEF LenReloadTail, Watch
    <3> QED
      BY <1>1, <1>2, <2>1, <3>1 DEF ObsInv, ObservationsTrue
  <2>7. CASE Load("empty_head", "head", "empty_tail")
    <3>1. /\ obs' = "empty_tail" /\ loaded' = [loaded EXCEPT !["head"] = h]
          /\ lengths' = lengths \cup {b - a}
      BY <1>2, <1>3, <2>7 DEF Load, Watch
    <3>2. loaded' \in [{"head", "tail"} -> Nat] /\ loaded'["head"] = h
      BY <1>1, <3>1 DEF ObsInv
    <3>3. t = h \/ lengths' \ {0} # {}
      <4>1. t # h => b - a # 0
        BY <1>1, <2>1
      <4> QED
        BY <3>1, <4>1
    <3> QED
      BY <1>1, <1>2, <2>1, <3>1, <3>2, <3>3 DEF ObsInv, ObservationsTrue
  <2>8. CASE EmptyLoadTail
    <3>1. /\ obs = "empty_tail" /\ UNCHANGED loaded
          /\ \/ t = loaded["head"] /\ obs' = "empty"
             \/ t # loaded["head"] /\ obs' = "not_empty"
          /\ lengths' = lengths \cup {b - a}
      BY <1>2, <1>3, <2>8 DEF EmptyLoadTail, Watch
    <3>2. loaded["head"] <= h /\ loaded["head"] \in Nat
      BY <3>1 DEF ObsInv
    <3>3. t = loaded["head"] => b - a = 0
      BY <1>1, <2>1, <3>2
    <3> QED
      BY <1>2, <2>1, <3>1, <3>3 DEF ObsInv, ObservationsTrue
  <2> QED
    BY <1>3, <2>2, <2>3, <2>4, <2>5, <2>6, <2>7, <2>8 DEF ObsStep
<1>4. CASE Next /\ UNCHANGED <<obs, loaded, answer>> /\ Watch
  <2>1. /\ h <= a /\ t <= b
        /\ b = t \/ b # a
    <3>1. CASE UNCHANGED index
      BY <1>1, <3>1
    <3>2. CASE index' = [index EXCEPT !["head"] = @ + 1]
      <4>1. a = h + 1 /\ b = t
        BY <3>2 DEF TypeOK
      <4> QED
        BY <1>1, <4>1
    <3>3. CASE index' = [index EXCEPT !["tail"] = @ + 1]
      <4>1. a = h /\ b = t + 1
        BY <3>3 DEF TypeOK
      <4> QED
        BY <1>1, <4>1
    <3> QED
      BY <1>4, <3>1, <3>2, <3>3, IndexSteps DEF Ends
  <2>2. obs' = obs /\ loaded' = loaded /\ answer' = answer
    BY <1>4
  <2>3. CASE obs = "idle"
    BY <2>2, <2>3 DEF ObsInv, ObservationsTrue
  <2>4. CASE obs # "idle"
    <3>1. lengths' = lengths \cup {b - a}
      BY <1>2, <1>4, <2>4 DEF Watch
    <3>2. b # t /\ obs = "empty_tail" => lengths' \ {0} # {}
      <4>1. b # t => b - a # 0
        BY <1>1, <2>1
      <4> QED
        BY <3>1, <4>1
    <3>3. ObservationsTrue'
      BY <2>2, <3>1 DEF ObsInv, ObservationsTrue
    <3>4. obs = "len_reload" /\ b = loaded["tail"] => t = loaded["tail"]
      BY <1>1, <2>1 DEF ObsInv
    <3>5. obs = "empty_tail" => loaded["head"] <= a /\ (b = loaded["head"] \/ lengths' \ {0} # {})
      <4>1. obs = "empty_tail" => loaded["head"] <= h /\ loaded["head"] \in Nat
        BY DEF ObsInv
      <4>2. obs = "empty_tail" => loaded["head"] <= a
        BY <1>1, <2>1, <4>1
      <4>3. obs = "empty_tail" => t = loaded["head"] \/ lengths \ {0} # {}
        BY DEF ObsInv
      <4> QED
        BY <3>1, <3>2, <4>2, <4>3
    <3>6. obs \in {"len_head", "len_reload"} => loaded["tail"] <= b
      BY <1>1, <2>1 DEF ObsInv
    <3>7. /\ Length' \in lengths'
          /\ obs = "len_reload" /\ b = loaded["tail"] => loaded["tail"] - loaded["head"] \in lengths'
      BY <1>2, <3>1, <3>4 DEF ObsInv
    <3> QED
      BY <2>2, <3>3, <3>5, <3>6, <3>7 DEF ObsInv
  <2> QED
    BY <2>3, <2>4
<1>5. CASE UNCHANGED <<vars, obsVars>>
  BY <1>5 DEF vars, listVars, obsVars, ObsInv, ObservationsTrue, Length
<1> QED
  BY <1>3, <1>4, <1>5 DEF ObsNext

\* What len and is_empty answer was true at some moment of their call, however
\* the indices move between their loads.
THEOREM ObserversCorrect == FairObsSpec => []ObservationsTrue
<1>1. ObsInit => TypeOK /\ IInv /\ ObsInv
  BY InitTypeOK, InitIInv, InitObsInv DEF ObsInit
<1>2. [ObsNext]_<<vars, obsVars>> => [Next]_vars
  BY DEF ObsNext
<1>3. TypeOK /\ IInv /\ ObsInv /\ [ObsNext]_<<vars, obsVars>> => TypeOK' /\ IInv' /\ ObsInv'
  BY <1>2, NextTypeOK, NextIInv, NextObsInv
<1>4. ObsInv => ObservationsTrue
  BY DEF ObsInv
<1> QED
  BY <1>1, <1>3, <1>4, PTL DEF FairObsSpec
===============================================================================

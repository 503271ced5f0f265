------------------------------ MODULE ArrayQueue ------------------------------
(***************************************************************************)
(* The lock-free ring buffer behind a bounded channel                      *)
(* (src/flavors/array.rs), used through try_send and try_recv by any       *)
(* number of threads. Every load, store and compare-exchange of a shared   *)
(* word is a step of its own; what a thread computes between two of them   *)
(* belongs to the earlier step.                                            *)
(*                                                                         *)
(* A stamp packs a lap and an index into one usize; here it is the pair,   *)
(* and laps are unbounded: a lap counter has at least two bits and usually *)
(* over fifty, and no thread sleeps through a whole cycle of them. No      *)
(* thread ever blocks in these calls, so both wakers stay empty and        *)
(* wake_one, the last call of write and of read, returns at its first      *)
(* load. Memory is sequentially consistent.                                *)
(***************************************************************************)
EXTENDS Integers, Sequences

CONSTANTS Senders,    \* threads that hold a Sender
          Receivers,  \* threads that hold a Receiver
          Cap,        \* Channel::cap
          MaxSends,   \* bound: messages each sender may put in the channel
          NoMsg       \* no message

ASSUME CapAssumption == Cap \in Nat \ {0}
ASSUME BoundAssumption == MaxSends \in Nat
ASSUME ThreadAssumption == Senders \cap Receivers = {}
ASSUME NoMsgAssumption == NoMsg \notin Senders \X (1 .. MaxSends)

VARIABLES head,          \* Channel::head, a stamp of odd lap
          tail,          \* Channel::tail, a stamp of even lap
          slots,         \* Channel::buffer: a stamp and a message per slot
          disconnected,  \* Channel::is_disconnected
          alive,         \* threads whose Sender or Receiver is not dropped
          pc,            \* the next step of each thread's call
          seen,          \* the tail (sender) or head (receiver) it loaded
          msg,           \* the message it carries in or brings back
          count          \* history: messages each sender has put in

queueVars == <<head, tail, slots>>
vars == <<head, tail, slots, disconnected, alive, pc, seen, msg, count>>

Threads == Senders \cup Receivers
Messages == Senders \X (1 .. MaxSends)
Stamps == [lap : Nat, index : 0 .. Cap - 1]
Stamp(l, i) == [lap |-> l, index |-> i]

\* One lap later, same index: adding one_lap to the word.
LapLater(st) == Stamp(st.lap + 1, st.index)

\* Mutants of Advance: the buffer has one slot too many; the lap grows by one.
AdvanceTooFar(st) == IF st.index < Cap THEN Stamp(st.lap, st.index + 1)
                                       ELSE Stamp(st.lap + 2, 0)
AdvanceOneLap(st) == IF st.index + 1 < Cap THEN Stamp(st.lap, st.index + 1)
                                           ELSE Stamp(st.lap + 1, 0)

\* The position after this one: the next index, or two laps on at index 0.
Advance(st) == IF st.index + 1 < Cap THEN Stamp(st.lap, st.index + 1)
                                     ELSE Stamp(st.lap + 2, 0)

SendLabels == {"send_load_tail", "send_load_stamp", "send_cas", "send_load_head",
               "send_write", "send_publish"}
RecvLabels == {"recv_load_head", "recv_load_stamp", "recv_cas", "recv_load_tail",
               "recv_check_disc", "recv_reload_tail", "recv_read", "recv_release"}
Answered == {"ok", "full", "empty", "disconnected"}

Goto(t, label) == pc' = [pc EXCEPT ![t] = label]
SlotOf(t) == slots[seen[t].index]

Init ==
  /\ head = Stamp(1, 0)
  /\ tail = Stamp(0, 0)
  /\ slots = [i \in 0 .. Cap - 1 |-> [stamp |-> Stamp(0, i), msg |-> NoMsg]]
  /\ disconnected = FALSE
  /\ alive = Threads
  /\ pc = [t \in Threads |-> "idle"]
  /\ seen = [t \in Threads |-> Stamp(0, 0)]
  /\ msg = [t \in Threads |-> NoMsg]
  /\ count = [s \in Senders |-> 0]
-------------------------------------------------------------------------------
(* try_send: start_send, then write. *)

\* The call begins; start_send gives up at once on a disconnected channel.
BeginSend(s) ==
  /\ pc[s] = "idle" /\ s \in alive /\ count[s] < MaxSends
  /\ msg' = [msg EXCEPT ![s] = <<s, count[s] + 1>>]
  /\ Goto(s, IF disconnected THEN "disconnected" ELSE "send_load_tail")
  /\ UNCHANGED <<queueVars, disconnected, alive, seen, count>>

LoadTail(s) ==
  /\ pc[s] = "send_load_tail"
  /\ seen' = [seen EXCEPT ![s] = tail]
  /\ Goto(s, "send_load_stamp")
  /\ UNCHANGED <<queueVars, disconnected, alive, msg, count>>

\* Mutant: a stamp that is neither free nor a lap behind is taken for a free one.
LoadSendStampCareless(s) ==
  /\ pc[s] = "send_load_stamp"
  /\ Goto(s, IF LapLater(SlotOf(s).stamp) = seen[s] /\ LapLater(head) = seen[s]
             THEN "send_load_head" ELSE "send_cas")
  /\ UNCHANGED <<queueVars, disconnected, alive, seen, msg, count>>

\* Compare the slot's stamp with the tail: free, a lap behind, or changing.
LoadSendStamp(s) ==
  /\ pc[s] = "send_load_stamp"
  /\ \/ SlotOf(s).stamp = seen[s] /\ Goto(s, "send_cas")
     \/ LapLater(SlotOf(s).stamp) = seen[s] /\ Goto(s, "send_load_head")
     \/ /\ SlotOf(s).stamp # seen[s] /\ LapLater(SlotOf(s).stamp) # seen[s]
        /\ Goto(s, "send_load_tail")
  /\ UNCHANGED <<queueVars, disconnected, alive, seen, msg, count>>

\* The tail moves: the slot is this sender's.
CasTail(s) ==
  /\ pc[s] = "send_cas" /\ tail = seen[s]
  /\ tail' = Advance(seen[s])
  /\ count' = [count EXCEPT ![s] = @ + 1]
  /\ Goto(s, "send_write")
  /\ UNCHANGED <<head, slots, disconnected, alive, seen, msg>>

\* compare_exchange_weak fails: the tail has changed, or spuriously.
CasTailFails(s) ==
  /\ pc[s] = "send_cas"
  /\ Goto(s, "send_load_tail")
  /\ UNCHANGED <<queueVars, disconnected, alive, seen, msg, count>>

\* Mutant: a slot that lags a lap behind is taken to mean that the channel is full.
LoadHeadWhenFullSkipped(s) ==
  /\ pc[s] = "send_load_head"
  /\ Goto(s, "full")
  /\ UNCHANGED <<queueVars, disconnected, alive, seen, msg, count>>

LoadHeadWhenFull(s) ==
  /\ pc[s] = "send_load_head"
  /\ Goto(s, IF LapLater(head) = seen[s] THEN "full" ELSE "send_load_tail")
  /\ UNCHANGED <<queueVars, disconnected, alive, seen, msg, count>>

WriteMsg(s) ==
  /\ pc[s] = "send_write"
  /\ slots' = [slots EXCEPT ![seen[s].index].msg = msg[s]]
  /\ Goto(s, "send_publish")
  /\ UNCHANGED <<head, tail, disconnected, alive, seen, msg, count>>

\* The stamp token.array.stamp makes the slot readable.
Publish(s) ==
  /\ pc[s] = "send_publish"
  /\ slots' = [slots EXCEPT ![seen[s].index].stamp = LapLater(seen[s])]
  /\ Goto(s, "ok")
  /\ UNCHANGED <<head, tail, disconnected, alive, seen, msg, count>>
-------------------------------------------------------------------------------
(* try_recv: start_recv, then read. *)

BeginRecv(r) ==
  /\ pc[r] = "idle" /\ r \in alive
  /\ Goto(r, "recv_load_head")
  /\ UNCHANGED <<queueVars, disconnected, alive, seen, msg, count>>

LoadHead(r) ==
  /\ pc[r] = "recv_load_head"
  /\ seen' = [seen EXCEPT ![r] = head]
  /\ Goto(r, "recv_load_stamp")
  /\ UNCHANGED <<queueVars, disconnected, alive, msg, count>>

LoadRecvStamp(r) ==
  /\ pc[r] = "recv_load_stamp"
  /\ \/ SlotOf(r).stamp = seen[r] /\ Goto(r, "recv_cas")
     \/ LapLater(SlotOf(r).stamp) = seen[r] /\ Goto(r, "recv_load_tail")
     \/ /\ SlotOf(r).stamp # seen[r] /\ LapLater(SlotOf(r).stamp) # seen[r]
        /\ Goto(r, "recv_load_head")
  /\ UNCHANGED <<queueVars, disconnected, alive, seen, msg, count>>

CasHead(r) ==
  /\ pc[r] = "recv_cas" /\ head = seen[r]
  /\ head' = Advance(seen[r])
  /\ Goto(r, "recv_read")
  /\ UNCHANGED <<tail, slots, disconnected, alive, seen, msg, count>>

CasHeadFails(r) ==
  /\ pc[r] = "recv_cas"
  /\ Goto(r, "recv_load_head")
  /\ UNCHANGED <<queueVars, disconnected, alive, seen, msg, count>>

LoadTailWhenEmpty(r) ==
  /\ pc[r] = "recv_load_tail"
  /\ Goto(r, IF LapLater(tail) = seen[r] THEN "recv_check_disc" ELSE "recv_load_head")
  /\ UNCHANGED <<queueVars, disconnected, alive, seen, msg, count>>

CheckDisconnected(r) ==
  /\ pc[r] = "recv_check_disc"
  /\ Goto(r, IF disconnected THEN "recv_reload_tail" ELSE "empty")
  /\ UNCHANGED <<queueVars, disconnected, alive, seen, msg, count>>

\* The tail seen by LoadTailWhenEmpty was a lap before seen[r]: is it still?
ReloadTail(r) ==
  /\ pc[r] = "recv_reload_tail"
  /\ Goto(r, IF LapLater(tail) = seen[r] THEN "disconnected" ELSE "recv_load_head")
  /\ UNCHANGED <<queueVars, disconnected, alive, seen, msg, count>>

ReadMsg(r) ==
  /\ pc[r] = "recv_read"
  /\ msg' = [msg EXCEPT ![r] = SlotOf(r).msg]
  /\ Goto(r, "recv_release")
  /\ UNCHANGED <<queueVars, disconnected, alive, seen, count>>

\* Mutant: start_recv saves the stamp it read, not the one a lap later.
ReleaseSameLap(r) ==
  /\ pc[r] = "recv_release"
  /\ slots' = [slots EXCEPT ![seen[r].index].stamp = seen[r]]
  /\ Goto(r, "ok")
  /\ UNCHANGED <<head, tail, disconnected, alive, seen, msg, count>>

\* The stamp token.array.stamp makes the slot writable in the next lap.
Release(r) ==
  /\ pc[r] = "recv_release"
  /\ slots' = [slots EXCEPT ![seen[r].index].stamp = LapLater(seen[r])]
  /\ Goto(r, "ok")
  /\ UNCHANGED <<head, tail, disconnected, alive, seen, msg, count>>
-------------------------------------------------------------------------------
Return(t) ==
  /\ pc[t] \in Answered
  /\ Goto(t, "idle")
  /\ seen' = [seen EXCEPT ![t] = Stamp(0, 0)]
  /\ msg' = [msg EXCEPT ![t] = NoMsg]
  /\ UNCHANGED <<queueVars, disconnected, alive, count>>

\* Drop of a Sender or Receiver; the last of a side calls disconnect.
DropHandle(t) ==
  /\ pc[t] = "idle" /\ t \in alive
  /\ alive' = alive \ {t}
  /\ disconnected' = (disconnected \/ alive' \cap Senders = {} \/ alive' \cap Receivers = {})
  /\ UNCHANGED <<queueVars, pc, seen, msg, count>>

SendStep(s) ==
  \/ LoadTail(s) \/ LoadSendStamp(s) \/ CasTail(s) \/ CasTailFails(s)
  \/ LoadHeadWhenFull(s) \/ WriteMsg(s) \/ Publish(s)

RecvStep(r) ==
  \/ LoadHead(r) \/ LoadRecvStamp(r) \/ CasHead(r) \/ CasHeadFails(r)
  \/ LoadTailWhenEmpty(r) \/ CheckDisconnected(r) \/ ReloadTail(r)
  \/ ReadMsg(r) \/ Release(r)

\* Every handle is dropped: nothing more can happen.
Terminated == alive = {} /\ UNCHANGED vars

Next ==
  \/ \E s \in Senders : BeginSend(s) \/ SendStep(s)
  \/ \E r \in Receivers : BeginRecv(r) \/ RecvStep(r)
  \/ \E t \in Threads : Return(t) \/ DropHandle(t)
  \/ Terminated

Spec == Init /\ [][Next]_vars

(***************************************************************************)
(* The scheduler runs every thread that is inside a call, and a weak       *)
(* compare-exchange that could succeed infinitely often eventually does.   *)
(* Nobody is obliged to begin a call or to drop a handle.                  *)
(***************************************************************************)
Fairness ==
  /\ \A s \in Senders : WF_vars(SendStep(s)) /\ SF_vars(CasTail(s))
  /\ \A r \in Receivers : WF_vars(RecvStep(r)) /\ SF_vars(CasHead(r))
  /\ \A t \in Threads : WF_vars(Return(t))

FairSpec == Spec /\ Fairness
-------------------------------------------------------------------------------
(* What the stamps mean. *)

\* The lap at which slot i is next written, and the one at which it is next read.
WriteLap(i) == IF i < tail.index THEN tail.lap + 2 ELSE tail.lap
ReadLap(i) == IF i < head.index THEN head.lap + 2 ELSE head.lap

Held(i) == WriteLap(i) = ReadLap(i) + 1  \* sent to and not received from
Free(i) == WriteLap(i) + 1 = ReadLap(i)  \* received from and not sent to

Writing(s) == pc[s] \in {"send_write", "send_publish"}
Reading(r) == pc[r] \in {"recv_read", "recv_release"}

AtOrBefore(a, b) == a.lap < b.lap \/ (a.lap = b.lap /\ a.index <= b.index)

\* The types of the variables; a call's labels are its side's, and a sender
\* inside a call carries a message.
TypeOK ==
  /\ head \in Stamps /\ tail \in Stamps
  /\ slots \in [0 .. Cap - 1 -> [stamp : Stamps, msg : Messages \cup {NoMsg}]]
  /\ disconnected \in BOOLEAN
  /\ alive \subseteq Threads
  /\ pc \in [Threads -> SendLabels \cup RecvLabels \cup Answered \cup {"idle"}]
  /\ seen \in [Threads -> Stamps]
  /\ msg \in [Threads -> Messages \cup {NoMsg}]
  /\ count \in [Senders -> 0 .. MaxSends]
  /\ \A s \in Senders :
       /\ pc[s] \notin RecvLabels
       /\ pc[s] \in SendLabels => msg[s] \in Messages
       /\ pc[s] \in SendLabels /\ ~Writing(s) => count[s] < MaxSends
  /\ \A r \in Receivers : pc[r] \notin SendLabels

\* The tail is less than a lap ahead of the head, or exactly one: full.
OrderOK ==
  \/ tail.lap + 1 = head.lap /\ head.index <= tail.index
  \/ tail.lap = head.lap + 1 /\ tail.index <= head.index

\* A slot's stamp is that of its next use, or a lap behind while it is in use.
SlotsOK ==
  \A i \in 0 .. Cap - 1 :
    /\ slots[i].stamp.index = i
    /\ \/ Held(i) /\ slots[i].stamp.lap \in {ReadLap(i), ReadLap(i) - 1}
       \/ Free(i) /\ slots[i].stamp.lap \in {WriteLap(i), WriteLap(i) - 1}

\* A thread that moved the tail or the head has the slot to itself.
WritersOK ==
  \A s \in Senders : Writing(s) =>
    /\ SlotOf(s).stamp = seen[s]
    /\ WriteLap(seen[s].index) = seen[s].lap + 2
    /\ ReadLap(seen[s].index) = seen[s].lap + 1
    /\ \A z \in Senders : Writing(z) /\ seen[z].index = seen[s].index => z = s
    /\ pc[s] = "send_publish" => SlotOf(s).msg = msg[s]

ReadersOK ==
  \A r \in Receivers : Reading(r) =>
    /\ SlotOf(r).stamp = seen[r]
    /\ ReadLap(seen[r].index) = seen[r].lap + 2
    /\ WriteLap(seen[r].index) = seen[r].lap + 1
    /\ \A z \in Receivers : Reading(z) /\ seen[z].index = seen[r].index => z = r

\* A stale tail, head or stamp is stale in one direction only.
SeenOK ==
  /\ \A s \in Senders :
       /\ pc[s] \in {"send_load_stamp", "send_cas", "send_load_head"} => AtOrBefore(seen[s], tail)
       /\ pc[s] = "send_cas" => SlotOf(s).stamp.lap >= seen[s].lap
  /\ \A r \in Receivers :
       /\ pc[r] \in {"recv_load_stamp", "recv_cas", "recv_load_tail", "recv_check_disc",
                     "recv_reload_tail"} => AtOrBefore(seen[r], head)
       /\ pc[r] = "recv_cas" => SlotOf(r).stamp.lap >= seen[r].lap

\* A held slot whose stamp lags is being written; one whose stamp does not has a message.
ContentOK ==
  \A i \in 0 .. Cap - 1 : Held(i) =>
    IF slots[i].stamp.lap = ReadLap(i)
    THEN slots[i].msg \in Messages
    ELSE \E s \in Senders : Writing(s) /\ seen[s].index = i

(***************************************************************************)
(* The inductive invariant: the code never checks it, yet every answer it  *)
(* gives rests on it (start_send and start_recv act on a tail, a stamp and *)
(* a head that were loaded at three different moments).                    *)
(***************************************************************************)
IInv == OrderOK /\ SlotsOK /\ WritersOK /\ ReadersOK /\ SeenOK /\ ContentOK

\* No data race on a slot's message: of the threads between their
\* compare-exchange and their store of the stamp, no two use the same slot.
SlotExclusive ==
  \A t, u \in Threads :
    /\ Writing(t) \/ Reading(t)
    /\ Writing(u) \/ Reading(u)
    /\ seen[t].index = seen[u].index
    => t = u
-------------------------------------------------------------------------------
(***************************************************************************)
(* The refinement: the calls of try_send and try_recv are linearizable.    *)
(* A message is in the queue from the moment the tail moves past its slot, *)
(* even while its sender has not written it, to the moment the head does.  *)
(***************************************************************************)
Distance == IF tail.lap < head.lap THEN tail.index - head.index
                                   ELSE Cap - head.index + tail.index

\* The slot of the n-th oldest message.
SlotAt(n) == IF head.index + n - 1 < Cap THEN head.index + n - 1 ELSE head.index + n - 1 - Cap

Content(i) ==
  IF slots[i].stamp.lap = ReadLap(i)
  THEN slots[i].msg
  ELSE msg[CHOOSE s \in Senders : Writing(s) /\ seen[s].index = i]

AbsQueue == [n \in 1 .. Distance |-> Content(SlotAt(n))]

AbsStatus(t) ==
  CASE pc[t] \in {"send_load_tail", "send_load_stamp", "send_cas", "send_load_head",
                  "recv_load_head", "recv_load_stamp", "recv_cas", "recv_load_tail"} -> "pending"
    [] pc[t] \in {"recv_check_disc", "recv_reload_tail"} -> "glanced"
    [] Writing(t) \/ Reading(t) -> "ok"
    [] OTHER -> pc[t]

AbsVal(t) == IF pc[t] = "recv_read" THEN SlotOf(t).msg ELSE msg[t]

Abs == INSTANCE BoundedQueue WITH
  queue <- AbsQueue,
  status <- [t \in Threads |-> AbsStatus(t)],
  val <- [t \in Threads |-> AbsVal(t)]

\* try_send and try_recv behave as atomic operations on a FIFO queue of
\* capacity Cap: nothing is lost, duplicated or reordered, Full, Empty and
\* Disconnected are never false, and a message sent before the channel was
\* disconnected is still received.
Implements == Abs!Spec

\* Nobody spins for ever: whatever the others do with the finitely many
\* messages they have, a call that has begun returns.
EveryCallReturns ==
  \A t \in Threads : pc[t] \in SendLabels \cup RecvLabels ~> pc[t] \in Answered
===============================================================================

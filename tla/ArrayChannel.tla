----------------------------- MODULE ArrayChannel -----------------------------
(***************************************************************************)
(* Blocking operations on a bounded channel: send and recv, with or        *)
(* without a deadline, and the disconnection of the channel by the last    *)
(* handle of a side (src/flavors/array.rs, src/channel.rs).                *)
(*                                                                         *)
(* send and recv are the same program with the sides exchanged, and so are *)
(* their actions here: a thread of one side waits in its own waker and     *)
(* wakes the other. start_send and start_recv take effect in one step      *)
(* (ArrayQueue shows that they may be thought of so), but a slot still     *)
(* passes from reserved to written and from claimed to released: until     *)
(* then the other side spins. Positions are not wrapped; slot p % Cap      *)
(* holds message p. A retry of start_send or start_recv in the backoff     *)
(* loop is the same as taking that step later, and is left out.            *)
(***************************************************************************)
EXTENDS Naturals, Sequences, FiniteSets

CONSTANTS Senders, Receivers,  \* the threads with a Sender, with a Receiver
          Timed,               \* those that call send_timeout or recv_timeout
          Cap,                 \* Channel::cap
          MaxSends,            \* bound: messages each sender may put in the channel
          NoThread

ASSUME CapAssumption == Cap \in Nat \ {0}
ASSUME ThreadAssumption ==
  /\ IsFiniteSet(Senders) /\ IsFiniteSet(Receivers)
  /\ Senders \cap Receivers = {} /\ NoThread \notin Senders \cup Receivers
  /\ Timed \subseteq Senders \cup Receivers
  /\ {"waiting", "aborted", "disconnected"} \cap (Senders \cup Receivers) = {}

ASSUME BoundAssumption == MaxSends \in Nat

VARIABLES head, tail,    \* positions of the next message to receive and to send
          slots,         \* what each slot of the buffer is being used for
          disconnected,  \* Channel::is_disconnected
          alive,         \* threads whose Sender or Receiver is not dropped
          sent,          \* history: messages each sender has put in
          pc,            \* the next step of each thread
          pos,           \* a position loaded or obtained in this call
          expired,       \* has the deadline of the thread's call passed?
          entries, locked, cursor, select, token  \* of the wakers, see Waker

queueVars == <<head, tail, slots, sent>>
callVars == <<disconnected, alive, pos, expired>>
waiting == <<entries, locked, cursor, select, token>>
vars == <<queueVars, callVars, pc, waiting>>

Threads == Senders \cup Receivers
Wakers == {"senders", "receivers"}

INSTANCE Waker

Own(t) == IF t \in Senders THEN "senders" ELSE "receivers"
Other(t) == IF t \in Senders THEN "receivers" ELSE "senders"
Answered == {"ok", "disconnected", "timeout"}

Goto(t, label) == pc' = [pc EXCEPT ![t] = label]

Init ==
  /\ head = 0 /\ tail = 0
  /\ slots = [i \in 0 .. Cap - 1 |-> "free"]
  /\ disconnected = FALSE
  /\ alive = Threads
  /\ sent = [s \in Senders |-> 0]
  /\ pc = [t \in Threads |-> "idle"]
  /\ pos = [t \in Threads |-> 0]
  /\ expired = [t \in Threads |-> FALSE]
  /\ WakerInit
-------------------------------------------------------------------------------
(* start_send and write, start_recv and read. *)

\* start_send looks at is_disconnected before the queue, start_recv after it.
FirstStep(t) == IF t \in Senders THEN "check_disc" ELSE "claim"

BeginCall(t) ==
  /\ pc[t] = "idle" /\ t \in alive
  /\ t \in Senders => sent[t] < MaxSends
  /\ Goto(t, FirstStep(t))
  /\ UNCHANGED <<queueVars, callVars, waiting>>

CheckDisconnected(s) ==
  /\ pc[s] = "check_disc"
  /\ Goto(s, IF disconnected THEN "disconnected" ELSE "claim")
  /\ UNCHANGED <<queueVars, callVars, waiting>>

\* Mutant: the slot that is one message too many is taken for a free one.
ReserveOneMore(s) ==
  /\ pc[s] = "claim" /\ s \in Senders
  /\ tail - head <= Cap /\ slots[tail % Cap] \in {"free", "full"}
  /\ slots' = [slots EXCEPT ![tail % Cap] = "writing"]
  /\ tail' = tail + 1
  /\ pos' = [pos EXCEPT ![s] = tail]
  /\ sent' = [sent EXCEPT ![s] = @ + 1]
  /\ Goto(s, "use")
  /\ UNCHANGED <<head, disconnected, alive, expired, waiting>>

Reserve(s) ==
  /\ pc[s] = "claim" /\ s \in Senders
  /\ tail - head < Cap /\ slots[tail % Cap] = "free"
  /\ slots' = [slots EXCEPT ![tail % Cap] = "writing"]
  /\ tail' = tail + 1
  /\ pos' = [pos EXCEPT ![s] = tail]
  /\ sent' = [sent EXCEPT ![s] = @ + 1]
  /\ Goto(s, "use")
  /\ UNCHANGED <<head, disconnected, alive, expired, waiting>>

FindFull(s) ==
  /\ pc[s] = "claim" /\ s \in Senders
  /\ tail - head = Cap
  /\ Goto(s, "context")
  /\ UNCHANGED <<queueVars, callVars, waiting>>

Claim(r) ==
  /\ pc[r] = "claim" /\ r \in Receivers
  /\ head < tail /\ slots[head % Cap] = "full"
  /\ slots' = [slots EXCEPT ![head % Cap] = "reading"]
  /\ head' = head + 1
  /\ pos' = [pos EXCEPT ![r] = head]
  /\ Goto(r, "use")
  /\ UNCHANGED <<tail, sent, disconnected, alive, expired, waiting>>

FindEmpty(r) ==
  /\ pc[r] = "claim" /\ r \in Receivers
  /\ head = tail
  /\ Goto(r, IF disconnected THEN "disconnected" ELSE "context")
  /\ UNCHANGED <<queueVars, callVars, waiting>>

\* The message is written or read and the slot's stamp stored.
Use(t) ==
  /\ pc[t] = "use"
  /\ slots' = [slots EXCEPT ![pos[t] % Cap] = IF t \in Senders THEN "full" ELSE "free"]
  /\ pos' = [pos EXCEPT ![t] = 0]
  /\ Goto(t, "wake_len")
  /\ UNCHANGED <<head, tail, sent, disconnected, alive, expired, waiting>>

\* wake_one: nobody is registered on the other side, or try to wake one.
WakeLen(t) ==
  /\ pc[t] = "wake_len"
  /\ Goto(t, IF entries[Other(t)] = <<>> THEN "ok" ELSE "wake_select")
  /\ UNCHANGED <<queueVars, callVars, waiting>>

\* Mutant: write wakes a sender and read a receiver.
WakeOwn(t) ==
  /\ pc[t] = "wake_select"
  /\ WakeSelect(Own(t), t)
  /\ Goto(t, IF locked'[Own(t)] = t THEN "wake_unpark" ELSE "ok")
  /\ UNCHANGED <<queueVars, callVars>>

WakeOther(t) ==
  /\ pc[t] = "wake_select"
  /\ WakeSelect(Other(t), t)
  /\ Goto(t, IF locked'[Other(t)] = t THEN "wake_unpark" ELSE "ok")
  /\ UNCHANGED <<queueVars, callVars>>

UnparkOther(t) ==
  /\ pc[t] = "wake_unpark"
  /\ WakeUnpark(Other(t), t)
  /\ Goto(t, "ok")
  /\ UNCHANGED <<queueVars, callVars>>
-------------------------------------------------------------------------------
(* Blocking: the closure given to Context::with. *)

EnterContext(t) ==
  /\ pc[t] = "context"
  /\ Reset(t)
  /\ Goto(t, "register")
  /\ UNCHANGED <<queueVars, callVars>>

RegisterOper(t) ==
  /\ pc[t] = "register"
  /\ Register(Own(t), t, t)
  /\ Goto(t, "load_first")
  /\ UNCHANGED <<queueVars, callVars>>

\* is_full loads the tail before the head, is_empty the head before the tail.
LoadFirst(t) ==
  /\ pc[t] = "load_first"
  /\ pos' = [pos EXCEPT ![t] = IF t \in Senders THEN tail ELSE head]
  /\ Goto(t, "load_second")
  /\ UNCHANGED <<queueVars, disconnected, alive, expired, waiting>>

\* Mutant: no second look at the queue once the operation is registered.
LoadSecondIgnored(t) ==
  /\ pc[t] = "load_second"
  /\ Goto(t, "load_disc")
  /\ UNCHANGED <<queueVars, callVars, waiting>>

LoadSecond(t) ==
  /\ pc[t] = "load_second"
  /\ LET unready == IF t \in Senders THEN head + Cap = pos[t] ELSE tail = pos[t] IN
       Goto(t, IF unready THEN "load_disc" ELSE "abort")
  /\ pos' = [pos EXCEPT ![t] = 0]
  /\ UNCHANGED <<queueVars, disconnected, alive, expired, waiting>>

LoadDisconnected(t) ==
  /\ pc[t] = "load_disc"
  /\ Goto(t, IF disconnected THEN "abort" ELSE "wait")
  /\ UNCHANGED <<queueVars, callVars, waiting>>

Abort(t) ==
  /\ pc[t] = "abort"
  /\ TrySelect(t, "aborted")
  /\ Goto(t, "wait")
  /\ UNCHANGED <<queueVars, callVars>>

\* What follows once an operation is selected: an operation selected by
\* wake_one has left the waker already.
AfterSelect(sel) == IF sel \in {"aborted", "disconnected"} THEN "unregister" ELSE "check_deadline"

\* A round of wait_until: selected, too late, or to sleep.
Wait(t) ==
  /\ pc[t] = "wait"
  /\ \/ select[t] # "waiting" /\ Goto(t, AfterSelect(select[t]))
     \/ select[t] = "waiting" /\ Goto(t, IF expired[t] THEN "give_up" ELSE "parked")
  /\ UNCHANGED <<queueVars, callVars, waiting>>

GiveUp(t) ==
  /\ pc[t] = "give_up"
  /\ TrySelect(t, "aborted")
  /\ Goto(t, AfterSelect(select'[t]))
  /\ UNCHANGED <<queueVars, callVars>>

Unparked(t) ==
  /\ pc[t] = "parked"
  /\ TakeToken(t)
  /\ Goto(t, "wait")
  /\ UNCHANGED <<queueVars, callVars>>

ParkTimesOut(t) ==
  /\ pc[t] = "parked" /\ expired[t]
  /\ Goto(t, "wait")
  /\ UNCHANGED <<queueVars, callVars, waiting>>

\* park may return for no reason.
SpuriousWakeup(t) ==
  /\ pc[t] = "parked"
  /\ Goto(t, "wait")
  /\ UNCHANGED <<queueVars, callVars, waiting>>

UnregisterOper(t) ==
  /\ pc[t] = "unregister"
  /\ Unregister(Own(t), t)
  /\ Goto(t, "check_deadline")
  /\ UNCHANGED <<queueVars, callVars>>

CheckDeadline(t) ==
  /\ pc[t] = "check_deadline"
  /\ Goto(t, IF expired[t] THEN "timeout" ELSE FirstStep(t))
  /\ UNCHANGED <<queueVars, callVars, waiting>>

Return(t) ==
  /\ pc[t] \in Answered
  /\ Goto(t, "idle")
  /\ UNCHANGED pos
  /\ expired' = [expired EXCEPT ![t] = FALSE]
  /\ Reset(t)  \* what was selected is never read again
  /\ UNCHANGED <<queueVars, disconnected, alive>>

\* The deadline of a call is reached: at the latest when the clock is read next.
Expire(t) ==
  /\ t \in Timed /\ pc[t] \in {"wait", "parked", "check_deadline"} /\ ~expired[t]
  /\ expired' = [expired EXCEPT ![t] = TRUE]
  /\ UNCHANGED <<queueVars, disconnected, alive, pos, pc, waiting>>
-------------------------------------------------------------------------------
(* Dropping a handle. *)

SideOf(t) == IF t \in Senders THEN Senders ELSE Receivers

DropHandle(t) ==
  /\ pc[t] = "idle" /\ t \in alive
  /\ alive' = alive \ {t}
  /\ IF alive' \cap SideOf(t) = {} THEN Goto(t, "disc_swap") ELSE UNCHANGED pc
  /\ UNCHANGED <<queueVars, disconnected, pos, expired, waiting>>

SwapDisconnected(t) ==
  /\ pc[t] = "disc_swap"
  /\ disconnected' = TRUE
  /\ Goto(t, IF disconnected THEN "idle" ELSE "disc_lock_senders")
  /\ UNCHANGED <<queueVars, alive, pos, expired, waiting>>

LockWaker(t) ==
  /\ \/ pc[t] = "disc_lock_senders" /\ DisconnectLock("senders", t) /\ Goto(t, "disc_senders")
     \/ pc[t] = "disc_lock_receivers" /\ DisconnectLock("receivers", t) /\ Goto(t, "disc_receivers")
  /\ UNCHANGED <<queueVars, callVars>>

DisconnectWaker(t) ==
  /\ \/ pc[t] = "disc_senders" /\ DisconnectEntry("senders", t) /\ UNCHANGED pc
     \/ pc[t] = "disc_senders" /\ DisconnectUnlock("senders", t) /\ Goto(t, "disc_lock_receivers")
     \/ pc[t] = "disc_receivers" /\ DisconnectEntry("receivers", t) /\ UNCHANGED pc
     \/ pc[t] = "disc_receivers" /\ DisconnectUnlock("receivers", t) /\ Goto(t, "idle")
  /\ UNCHANGED <<queueVars, callVars>>
-------------------------------------------------------------------------------
Queue(t) ==
  \/ CheckDisconnected(t) \/ Reserve(t) \/ FindFull(t) \/ Claim(t) \/ FindEmpty(t)
  \/ Use(t) \/ WakeLen(t) \/ WakeOther(t) \/ UnparkOther(t)

Blocking(t) ==
  \/ EnterContext(t) \/ RegisterOper(t) \/ LoadFirst(t) \/ LoadSecond(t)
  \/ LoadDisconnected(t) \/ Abort(t) \/ Wait(t) \/ GiveUp(t) \/ Unparked(t)
  \/ ParkTimesOut(t) \/ UnregisterOper(t) \/ CheckDeadline(t)

Dropping(t) == SwapDisconnected(t) \/ LockWaker(t) \/ DisconnectWaker(t)

Step(t) == Queue(t) \/ Blocking(t) \/ Dropping(t) \/ Return(t)

\* Every handle is dropped: nothing more can happen.
Terminated == alive = {} /\ (\A t \in Threads : pc[t] = "idle") /\ UNCHANGED vars

Next ==
  \/ \E t \in Threads :
       BeginCall(t) \/ Step(t) \/ SpuriousWakeup(t) \/ Expire(t) \/ DropHandle(t)
  \/ Terminated

Spec == Init /\ [][Next]_vars

(***************************************************************************)
(* The scheduler runs every thread that is not parked, and time passes.    *)
(* Nobody has to begin a call or drop a handle, and park need not return   *)
(* without a reason.                                                       *)
(***************************************************************************)
Fairness == \A t \in Threads : WF_vars(Step(t)) /\ WF_vars(Expire(t))

FairSpec == Spec /\ Fairness
-------------------------------------------------------------------------------
(* Properties. *)

Labels ==
  {"idle", "check_disc", "claim", "use", "wake_len", "wake_select", "wake_unpark", "context",
   "register", "load_first", "load_second", "load_disc", "abort", "wait", "give_up", "parked",
   "unregister", "check_deadline", "disc_swap", "disc_lock_senders", "disc_senders",
   "disc_lock_receivers", "disc_receivers"} \cup Answered

\* The types of the variables, and the number of slots in use.
TypeOK ==
  /\ head \in 0 .. tail /\ tail - head <= Cap /\ tail \in Nat
  /\ slots \in [0 .. Cap - 1 -> {"free", "writing", "full", "reading"}]
  /\ disconnected \in BOOLEAN
  /\ alive \subseteq Threads
  /\ sent \in [Senders -> 0 .. MaxSends]
  /\ pc \in [Threads -> Labels]
  /\ pos \in [Threads -> 0 .. tail]
  /\ expired \in [Threads -> BOOLEAN]
  /\ \A w \in Wakers : entries[w] \in Seq([thread : Threads, oper : Threads])
  /\ locked \in [Wakers -> Threads \cup {NoThread}]
  /\ cursor \in [Threads -> 0 .. Cardinality(Threads) + 1]
  /\ select \in [Threads -> {"waiting", "aborted", "disconnected"} \cup Threads]
  /\ token \in [Threads -> BOOLEAN]

InCall(t) == pc[t] \notin Answered \cup {"idle"} /\ t \in alive

\* What t waits for is there: room for a sender, a message for a receiver.
Available(t) == IF t \in Senders THEN Cap - (tail - head) ELSE tail - head

\* t has registered, seen that it cannot proceed, and been selected by nobody.
Asleep(t) == pc[t] \in {"wait", "parked"} /\ select[t] = "waiting"

\* The threads whose next steps owe t's side a wakeup, or are the answer to one:
\* those of the other side that have not yet called wake_one to the end, and
\* those of its own side that wake_one selected and that have not yet retried.
Owing(t) ==
  {z \in Threads \ SideOf(t) : pc[z] \in {"use", "wake_len", "wake_select"}}
    \cup {z \in SideOf(t) : select[z] = z /\ pc[z] \in {"load_first", "load_second", "load_disc",
            "abort", "wait", "give_up", "parked", "check_deadline", "check_disc", "claim"}}

\* No wakeup is lost between the check of the queue and the registration, in
\* the waker's mutex or on the way to a woken thread: while a thread sleeps,
\* at least as many wakeups are on their way to its side as it has messages
\* (or room) to take. This is what makes one wake_one per message enough.
NoLostWakeup ==
  ~disconnected => \A t \in Threads :
    Asleep(t) => Available(t) <= Cardinality(Owing(t))

Registered(t) == \E i \in 1 .. Len(entries[Own(t)]) : entries[Own(t)][i].thread = t
BeingWoken(t) ==
  \E z \in Threads \ SideOf(t) : locked[Own(t)] = z /\ pc[z] = "wake_unpark"
                              /\ entries[Own(t)][cursor[z]].thread = t
MayBeRegistered == {"load_first", "load_second", "load_disc", "abort", "wait", "give_up", "parked",
                    "unregister"}

\* An operation is in its waker exactly while its thread waits and wake_one
\* has not selected it: so unregister finds it (the callers unwrap what it
\* returns), and the wakers are empty when they are dropped (Waker::drop and
\* SyncWaker::drop assert it).
EntriesMatch ==
  /\ \A t \in Threads :
       /\ pc[t] \in MayBeRegistered /\ select[t] # t => Registered(t)
       /\ Registered(t) => (pc[t] \in MayBeRegistered /\ select[t] # t) \/ BeingWoken(t)
  /\ \A w \in Wakers : \A i, j \in 1 .. Len(entries[w]) :
       entries[w][i].thread = entries[w][j].thread => i = j

\* What ends a call: what it waits for is there, the channel is disconnected, or
\* its deadline has passed.
CanReturn(t) == Available(t) > 0 \/ disconnected \/ expired[t]

\* A thread in a call cannot miss what it waits for, however it came about: it
\* returns, or the others have taken it all.
NotStuck ==
  \A t \in Threads : InCall(t) /\ CanReturn(t) ~> ~InCall(t) \/ ~CanReturn(t)
===============================================================================

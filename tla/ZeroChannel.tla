----------------------------- MODULE ZeroChannel ------------------------------
(***************************************************************************)
(* The zero-capacity channel (src/flavors/zero.rs): a send and a receive   *)
(* pair up under one mutex and pass the message through a packet, which    *)
(* lies on the stack of a blocked call or on the heap. The calls are       *)
(*   "try"    try_send, try_recv                                           *)
(*   "block"  send, recv, with or without a deadline                       *)
(*   "select" run_select (src/select.rs) on this one operation: the try,   *)
(*            the retry with its short pause, then register and wait       *)
(* send and recv are the same program with the sides exchanged, but for    *)
(* the use of the packet.                                                  *)
(*                                                                         *)
(* What a thread does to its own context under the mutex belongs to the    *)
(* step that takes the mutex. wake_one is three steps, for the woken       *)
(* thread looks at its context without the mutex.                          *)
(***************************************************************************)
EXTENDS Naturals, Sequences, FiniteSets, SequencesExt

CONSTANTS Senders, Receivers,    \* the threads with a Sender, with a Receiver
          SendKinds, RecvKinds,  \* the kinds of calls each side makes
          Timed,                 \* threads whose blocking calls have a deadline
          MaxCalls,              \* bound: calls of each thread
          NoThread, NoMsg, NoPacket

ASSUME ThreadAssumption ==
  /\ IsFiniteSet(Senders) /\ IsFiniteSet(Receivers)
  /\ Senders \cap Receivers = {} /\ NoThread \notin Senders \cup Receivers
  /\ Timed \subseteq Senders \cup Receivers
  /\ SendKinds \cup RecvKinds \subseteq {"try", "block", "select"}

ASSUME BoundAssumption == MaxCalls \in Nat

VARIABLES entries,       \* Inner::senders and Inner::receivers: the registered operations
          mutex,         \* the thread that holds Channel::inner, or NoThread
          cursor,        \* the entry the holder of the mutex has selected
          disconnected,  \* Inner::is_disconnected
          alive,         \* threads whose Sender or Receiver is not dropped
          select,        \* Context::select: "waiting" or what was selected
          word,          \* Context::packet
          token,         \* the park token
          packets,       \* the packets that exist
          mine,          \* the packet a thread registered last
          pk,            \* ZeroToken: the packet a matched thread uses
          pc, kind,      \* the next step and the kind of each thread's call
          msg,           \* the message it carries in or brings back
          expired,       \* threads whose call's deadline has passed
          calls,         \* calls each thread has begun
          promised       \* history: the message a receiver was paired with

wakerVars == <<entries, mutex, cursor>>
contextVars == <<select, word, token>>
packetVars == <<packets, mine, pk>>
callVars == <<kind, msg, expired, calls, promised>>
handleVars == <<disconnected, alive>>
vars == <<wakerVars, contextVars, packetVars, callVars, handleVars, pc>>

Threads == Senders \cup Receivers
Messages == Senders \X (1 .. MaxCalls)
\* Names for packets: one of a thread may outlive its call for each other thread.
PacketIds == Threads \X (1 .. Cardinality(Threads))
Absent == [place |-> "none", msg |-> NoMsg, ready |-> FALSE]

Own(t) == IF t \in Senders THEN "senders" ELSE "receivers"
Other(t) == IF t \in Senders THEN "receivers" ELSE "senders"
Kinds(t) == IF t \in Senders THEN SendKinds ELSE RecvKinds
Answered == {"ok", "unmet", "disconnected"}
Goto(t, label) == pc' = [pc EXCEPT ![t] = label]

Init ==
  /\ entries = [w \in {"senders", "receivers"} |-> <<>>]
  /\ mutex = NoThread /\ cursor = 0
  /\ disconnected = FALSE /\ alive = Threads
  /\ select = [t \in Threads |-> "waiting"]
  /\ word = [t \in Threads |-> NoPacket]
  /\ token = [t \in Threads |-> FALSE]
  /\ packets = [p \in PacketIds |-> Absent]
  /\ mine = [t \in Threads |-> NoPacket]
  /\ pk = [t \in Threads |-> NoPacket]
  /\ pc = [t \in Threads |-> "idle"]
  /\ kind = [t \in Threads |-> "try"]
  /\ msg = [t \in Threads |-> NoMsg]
  /\ expired = {}
  /\ calls = [t \in Threads |-> 0]
  /\ promised = [t \in Threads |-> NoMsg]
-------------------------------------------------------------------------------
(* Packets and contexts. *)

\* A packet id of t that names no packet at present.
FreshId(t) == CHOOSE p \in PacketIds : p[1] = t /\ packets[p].place = "none"

\* Context::with resets the context, and a packet is registered with it.
RegisterPacket(t, place, m) ==
  /\ select' = [select EXCEPT ![t] = "waiting"]
  /\ word' = [word EXCEPT ![t] = NoPacket]
  /\ packets' = [packets EXCEPT ![FreshId(t)] = [place |-> place, msg |-> m, ready |-> FALSE]]
  /\ mine' = [mine EXCEPT ![t] = FreshId(t)]
  /\ entries' = [entries EXCEPT ![Own(t)] = Append(@, [thread |-> t, packet |-> FreshId(t)])]
  /\ UNCHANGED <<mutex, cursor, token, pk>>

Destroy(p) == packets' = [packets EXCEPT ![p] = Absent]

TrySelect(t, sel) == select' = [select EXCEPT ![t] = IF @ = "waiting" THEN sel ELSE @]

\* The operations of the other side that can be selected.
Selectable(t) ==
  {i \in 1 .. Len(entries[Other(t)]) :
     entries[Other(t)][i].thread # t /\ select[entries[Other(t)][i].thread] = "waiting"}

Partner(t) == entries[Other(t)][cursor].thread
-------------------------------------------------------------------------------
(* The first attempt of every call, under the mutex. *)

BeginCall(t) ==
  /\ pc[t] = "idle" /\ t \in alive /\ calls[t] < MaxCalls
  /\ calls' = [calls EXCEPT ![t] = @ + 1]
  /\ \E k \in Kinds(t) :
       /\ kind' = [kind EXCEPT ![t] = k]
       /\ Goto(t, k)
  /\ msg' = IF t \in Senders THEN [msg EXCEPT ![t] = <<t, calls'[t]>>] ELSE msg
  /\ UNCHANGED <<wakerVars, contextVars, packetVars, expired, promised, handleVars>>

Attempting(t) == pc[t] \in {"try", "block", "select", "retry"} /\ mutex = NoThread

\* A partner waits: wake_one selects its operation.
Pair(t) ==
  /\ Attempting(t) /\ Selectable(t) # {}
  /\ mutex' = t
  /\ cursor' = Min(Selectable(t))
  /\ LET z == entries[Other(t)][cursor'].thread IN
       /\ select' = [select EXCEPT ![z] = "operation"]
       /\ promised' = IF t \in Senders THEN [promised EXCEPT ![z] = msg[t]]
                                       ELSE [promised EXCEPT ![t] = msg[z]]
  /\ Goto(t, "store_packet")
  /\ UNCHANGED <<entries, word, token, packetVars, kind, msg, expired, calls, handleVars>>

StorePacket(t) ==
  /\ pc[t] = "store_packet"
  /\ word' = [word EXCEPT ![Partner(t)] = entries[Other(t)][cursor].packet]
  /\ Goto(t, "unpark")
  /\ UNCHANGED <<wakerVars, select, token, packetVars, callVars, handleVars>>

\* Mutant: the selected operation stays in the waker.
UnparkKeepsEntry(t) ==
  /\ pc[t] = "unpark"
  /\ token' = [token EXCEPT ![Partner(t)] = TRUE]
  /\ pk' = [pk EXCEPT ![t] = entries[Other(t)][cursor].packet]
  /\ mutex' = NoThread /\ cursor' = 0
  /\ Goto(t, IF t \in Senders THEN "write" ELSE "read")
  /\ UNCHANGED <<entries, select, word, packets, mine, callVars, handleVars>>

\* The end of wake_one: the packet of the removed entry is the one to use.
Unpark(t) ==
  /\ pc[t] = "unpark"
  /\ token' = [token EXCEPT ![Partner(t)] = TRUE]
  /\ pk' = [pk EXCEPT ![t] = entries[Other(t)][cursor].packet]
  /\ entries' = [entries EXCEPT ![Other(t)] = RemoveAt(@, cursor)]
  /\ mutex' = NoThread /\ cursor' = 0
  /\ Goto(t, IF t \in Senders THEN "write" ELSE "read")
  /\ UNCHANGED <<select, word, packets, mine, callVars, handleVars>>

\* Nobody waits, and nobody can come any more.
FindDisconnected(t) ==
  /\ Attempting(t) /\ Selectable(t) = {} /\ disconnected
  /\ Goto(t, "disconnected")
  /\ UNCHANGED <<wakerVars, contextVars, packetVars, callVars, handleVars>>

Alone(t, label) ==
  pc[t] = label /\ Attempting(t) /\ Selectable(t) = {} /\ ~disconnected

GiveUpTry(t) ==
  /\ Alone(t, "try")
  /\ Goto(t, "unmet")
  /\ UNCHANGED <<wakerVars, contextVars, packetVars, callVars, handleVars>>

RetrySelect(t) ==
  /\ Alone(t, "select")
  /\ Goto(t, "retry")
  /\ UNCHANGED <<wakerVars, contextVars, packetVars, callVars, handleVars>>

\* send offers its message in the packet, recv an empty one.
Block(t) ==
  /\ Alone(t, "block")
  /\ RegisterPacket(t, "stack", msg[t])
  /\ Goto(t, "wait")
  /\ UNCHANGED <<callVars, handleVars>>

\* start_send and start_recv with short_pause: registered for the time of a yield.
Pause(t) ==
  /\ Alone(t, "retry")
  /\ RegisterPacket(t, "heap", NoMsg)
  /\ Goto(t, "pause")
  /\ UNCHANGED <<callVars, handleVars>>
-------------------------------------------------------------------------------
(* Waiting. *)

EndPause(t) ==
  /\ pc[t] = "pause"
  /\ TrySelect(t, "aborted")
  /\ Goto(t, IF select'[t] = "operation" THEN "wait_packet" ELSE "unregister")
  /\ UNCHANGED <<wakerVars, word, token, packetVars, callVars, handleVars>>

\* Mutant: register does not look for a partner.
RegisterSelectBlindly(t) ==
  /\ pc[t] = "register" /\ mutex = NoThread
  /\ RegisterPacket(t, "heap", NoMsg)
  /\ Goto(t, "wait")
  /\ UNCHANGED <<callVars, handleVars>>

\* SelectHandle::register: true unless a partner or the disconnection is there.
RegisterSelect(t) ==
  /\ pc[t] = "register" /\ mutex = NoThread
  /\ RegisterPacket(t, "heap", NoMsg)
  /\ Goto(t, IF Selectable(t) = {} /\ ~disconnected THEN "wait" ELSE "abort")
  /\ UNCHANGED <<callVars, handleVars>>

AbortSelect(t) ==
  /\ pc[t] = "abort"
  /\ TrySelect(t, "aborted")
  /\ Goto(t, "unregister_select")
  /\ UNCHANGED <<wakerVars, word, token, packetVars, callVars, handleVars>>

\* run_select unregisters in any case, send and recv if no one selected them.
AfterWait(t, sel) ==
  IF kind[t] = "select" THEN "unregister_select"
  ELSE IF sel = "operation" THEN "wait_ready" ELSE "unregister"

\* A round of wait_until.
Wait(t) ==
  /\ pc[t] = "wait"
  /\ \/ select[t] # "waiting" /\ Goto(t, AfterWait(t, select[t]))
     \/ select[t] = "waiting" /\ Goto(t, IF t \in expired THEN "give_up" ELSE "parked")
  /\ UNCHANGED <<wakerVars, contextVars, packetVars, callVars, handleVars>>

\* Mutant: the deadline overrules what was selected meanwhile.
GiveUpBlindly(t) ==
  /\ pc[t] = "give_up"
  /\ select' = [select EXCEPT ![t] = "aborted"]
  /\ Goto(t, AfterWait(t, select'[t]))
  /\ UNCHANGED <<wakerVars, word, token, packetVars, callVars, handleVars>>

GiveUp(t) ==
  /\ pc[t] = "give_up"
  /\ TrySelect(t, "aborted")
  /\ Goto(t, AfterWait(t, select'[t]))
  /\ UNCHANGED <<wakerVars, word, token, packetVars, callVars, handleVars>>

Unparked(t) ==
  /\ pc[t] = "parked" /\ (token[t] \/ t \in expired)  \* park_timeout returns, too
  /\ token' = [token EXCEPT ![t] = FALSE]
  /\ Goto(t, "wait")
  /\ UNCHANGED <<wakerVars, select, word, packetVars, callVars, handleVars>>

Registered(t) == {i \in 1 .. Len(entries[Own(t)]) : entries[Own(t)][i].thread = t}

Forget(t) ==
  /\ entries' = [entries EXCEPT ![Own(t)] = RemoveAt(@, Min(Registered(t)))]
  /\ Destroy(mine[t])

\* send, recv and the short pause: the entry is there, no one has selected it.
UnregisterOper(t) ==
  /\ pc[t] = "unregister" /\ mutex = NoThread
  /\ Forget(t)
  /\ Goto(t, IF select[t] = "disconnected" THEN "disconnected"
             ELSE IF kind[t] = "block" THEN "unmet" ELSE "register")
  /\ UNCHANGED <<mutex, cursor, contextVars, mine, pk, callVars, handleVars>>

\* Mutant: run_select registers again without another attempt.
UnregisterSelectRegister(t) ==
  /\ pc[t] = "unregister_select" /\ mutex = NoThread
  /\ IF Registered(t) = {} THEN UNCHANGED <<entries, packets>> ELSE Forget(t)
  /\ Goto(t, IF select[t] = "operation" THEN "wait_packet"
             ELSE IF t \in expired THEN "try" ELSE "register")
  /\ UNCHANGED <<mutex, cursor, contextVars, mine, pk, callVars, handleVars>>

\* Mutant: run_select starts again although its deadline has passed.
UnregisterSelectTireless(t) ==
  /\ pc[t] = "unregister_select" /\ mutex = NoThread
  /\ IF Registered(t) = {} THEN UNCHANGED <<entries, packets>> ELSE Forget(t)
  /\ Goto(t, IF select[t] = "operation" THEN "wait_packet" ELSE "select")
  /\ UNCHANGED <<mutex, cursor, contextVars, mine, pk, callVars, handleVars>>

\* run_select: accept if selected; else once more without blocking if it is
\* too late, or from the start.
UnregisterSelect(t) ==
  /\ pc[t] = "unregister_select" /\ mutex = NoThread
  /\ IF Registered(t) = {} THEN UNCHANGED <<entries, packets>> ELSE Forget(t)
  /\ Goto(t, IF select[t] = "operation" THEN "wait_packet"
             ELSE IF t \in expired THEN "try" ELSE "select")
  /\ UNCHANGED <<mutex, cursor, contextVars, mine, pk, callVars, handleVars>>

\* accept, and the end of a successful pause: spin until the packet is stored.
WaitPacket(t) ==
  /\ pc[t] = "wait_packet" /\ word[t] # NoPacket
  /\ pk' = [pk EXCEPT ![t] = word[t]]
  /\ Goto(t, IF t \in Senders THEN "write" ELSE "read")
  /\ UNCHANGED <<wakerVars, contextVars, packets, mine, callVars, handleVars>>
-------------------------------------------------------------------------------
(* The message changes hands. *)

Write(s) ==
  /\ pc[s] = "write"
  /\ packets' = [packets EXCEPT ![pk[s]].msg = msg[s]]
  /\ Goto(s, "set_ready")
  /\ UNCHANGED <<wakerVars, contextVars, mine, pk, callVars, handleVars>>

\* Mutant: a packet on the heap is read without waiting for the sender.
ReadTooSoon(r) ==
  /\ pc[r] = "read"
  /\ msg' = [msg EXCEPT ![r] = packets[pk[r]].msg]
  /\ IF packets[pk[r]].place = "stack"
     THEN Goto(r, "set_ready") /\ UNCHANGED packets
     ELSE Goto(r, "ok") /\ Destroy(pk[r])
  /\ UNCHANGED <<wakerVars, contextVars, mine, pk, kind, expired, calls, promised, handleVars>>

\* A packet on a sender's stack had its message from the beginning; one on the
\* heap is read when it is ready, and destroyed.
Read(r) ==
  /\ pc[r] = "read"
  /\ msg' = [msg EXCEPT ![r] = packets[pk[r]].msg]
  /\ IF packets[pk[r]].place = "stack"
     THEN Goto(r, "set_ready") /\ UNCHANGED packets
     ELSE packets[pk[r]].ready /\ Goto(r, "ok") /\ Destroy(pk[r])
  /\ UNCHANGED <<wakerVars, contextVars, mine, pk, kind, expired, calls, promised, handleVars>>

SetReady(t) ==
  /\ pc[t] = "set_ready"
  /\ packets' = [packets EXCEPT ![pk[t]].ready = TRUE]
  /\ Goto(t, "ok")
  /\ UNCHANGED <<wakerVars, contextVars, mine, pk, callVars, handleVars>>

\* Mutant: send returns, and its packet is gone, as soon as it is selected.
WaitReadyNever(t) ==
  /\ pc[t] = "wait_ready"
  /\ msg' = IF t \in Receivers THEN [msg EXCEPT ![t] = packets[mine[t]].msg] ELSE msg
  /\ Destroy(mine[t])
  /\ Goto(t, "ok")
  /\ UNCHANGED <<wakerVars, contextVars, mine, pk, kind, expired, calls, promised, handleVars>>

\* A blocked call stays until its partner is done with the packet on its stack.
WaitReady(t) ==
  /\ pc[t] = "wait_ready" /\ packets[mine[t]].ready
  /\ msg' = IF t \in Receivers THEN [msg EXCEPT ![t] = packets[mine[t]].msg] ELSE msg
  /\ Destroy(mine[t])
  /\ Goto(t, "ok")
  /\ UNCHANGED <<wakerVars, contextVars, mine, pk, kind, expired, calls, promised, handleVars>>

Return(t) ==
  /\ pc[t] \in Answered
  /\ Goto(t, "idle")
  /\ msg' = [msg EXCEPT ![t] = NoMsg]
  /\ promised' = [promised EXCEPT ![t] = NoMsg]
  /\ kind' = [kind EXCEPT ![t] = "try"]
  /\ expired' = expired \ {t}
  /\ mine' = [mine EXCEPT ![t] = NoPacket]
  /\ pk' = [pk EXCEPT ![t] = NoPacket]
  /\ UNCHANGED <<wakerVars, contextVars, packets, calls, handleVars>>

\* Time passes.
Expire(t) ==
  /\ t \in Timed /\ pc[t] \notin Answered \cup {"idle", "disconnect"} /\ kind[t] # "try"
  /\ t \notin expired /\ expired' = expired \cup {t}
  /\ UNCHANGED <<wakerVars, contextVars, packetVars, kind, msg, calls, promised, handleVars, pc>>
-------------------------------------------------------------------------------
(* Dropping a handle. *)

SideOf(t) == IF t \in Senders THEN Senders ELSE Receivers

DropHandle(t) ==
  /\ pc[t] = "idle" /\ t \in alive
  /\ alive' = alive \ {t}
  /\ IF alive' \cap SideOf(t) = {} THEN Goto(t, "disconnect") ELSE UNCHANGED pc
  /\ UNCHANGED <<wakerVars, contextVars, packetVars, callVars, disconnected>>

Waiters == {e.thread : e \in ToSet(entries["senders"]) \cup ToSet(entries["receivers"])}

\* A woken thread needs the mutex to go on, so both wakers are told in one step.
Disconnect(t) ==
  /\ pc[t] = "disconnect" /\ mutex = NoThread
  /\ disconnected' = TRUE
  /\ LET told == {z \in Waiters : ~disconnected /\ select[z] = "waiting"} IN
       /\ select' = [z \in Threads |-> IF z \in told THEN "disconnected" ELSE select[z]]
       /\ token' = [z \in Threads |-> token[z] \/ z \in told]
  /\ Goto(t, "idle")
  /\ UNCHANGED <<wakerVars, word, packetVars, callVars, alive>>
-------------------------------------------------------------------------------
Step(t) ==
  \/ Pair(t) \/ StorePacket(t) \/ Unpark(t) \/ FindDisconnected(t) \/ GiveUpTry(t)
  \/ RetrySelect(t) \/ Block(t) \/ Pause(t) \/ EndPause(t) \/ RegisterSelect(t)
  \/ AbortSelect(t) \/ Wait(t) \/ GiveUp(t) \/ Unparked(t) \/ UnregisterOper(t)
  \/ UnregisterSelect(t) \/ WaitPacket(t) \/ WaitReady(t) \/ SetReady(t) \/ Return(t)
  \/ Disconnect(t)
  \/ t \in Senders /\ Write(t)
  \/ t \in Receivers /\ Read(t)

Quiet == alive = {} /\ \A t \in Threads : pc[t] = "idle"
Terminated == Quiet /\ UNCHANGED vars

Next ==
  \/ \E t \in Threads : BeginCall(t) \/ Step(t) \/ Expire(t) \/ DropHandle(t)
  \/ Terminated

Spec == Init /\ [][Next]_vars

\* Threads that can run do, time passes, and park does not return by itself.
FairSpec == Spec /\ \A t \in Threads : WF_vars(Step(t)) /\ WF_vars(Expire(t))
-------------------------------------------------------------------------------
(* Properties. *)

Labels == {"idle", "try", "block", "select", "retry", "store_packet", "unpark", "pause",
           "register", "abort", "wait", "give_up", "parked", "unregister", "unregister_select",
           "wait_packet", "write", "read", "set_ready", "wait_ready", "disconnect"} \cup Answered

\* The types of the variables.
Typed ==
  /\ entries \in [{"senders", "receivers"} -> Seq([thread : Threads, packet : PacketIds])]
  /\ mutex \in Threads \cup {NoThread} /\ cursor \in Nat
  /\ disconnected \in BOOLEAN /\ alive \subseteq Threads /\ expired \subseteq Timed
  /\ select \in [Threads -> {"waiting", "aborted", "disconnected", "operation"}]
  /\ word \in [Threads -> PacketIds \cup {NoPacket}] /\ token \in [Threads -> BOOLEAN]
  /\ packets \in [PacketIds -> [place : {"none", "stack", "heap"}, msg : Messages \cup {NoMsg},
                               ready : BOOLEAN]]
  /\ mine \in [Threads -> PacketIds \cup {NoPacket}] /\ pk \in [Threads -> PacketIds \cup {NoPacket}]
  /\ pc \in [Threads -> Labels] /\ calls \in [Threads -> 0 .. MaxCalls]
  /\ kind \in [Threads -> {"try", "block", "select"}]
  /\ msg \in [Threads -> Messages \cup {NoMsg}] /\ promised \in [Threads -> Messages \cup {NoMsg}]

\* Well typed, and no waker holds more operations than there are threads on its side.
TypeOK ==
  /\ Typed
  /\ Len(entries["senders"]) <= Cardinality(Senders)
  /\ Len(entries["receivers"]) <= Cardinality(Receivers)
  /\ cursor <= Cardinality(Threads)

\* A registered operation has its thread waiting for it, and one entry; a
\* thread that will unwrap what unregister returns has an entry (zero.rs:153,
\* 164, 230, 238, 336, 341, 406, 410); no entry is left when nobody is in a call, as Waker::drop
\* asserts (waker.rs:167).
Waiting(t) == pc[t] \in {"pause", "wait", "parked", "give_up", "abort", "unregister",
                         "unregister_select"}

EntriesMatch ==
  \A t \in Threads :
    /\ Cardinality(Registered(t)) <= 1
    /\ Waiting(t) /\ select[t] # "operation" => Registered(t) # {}
    /\ Registered(t) # {} =>
         \/ Waiting(t) /\ select[t] # "operation"
         \/ mutex \in Threads /\ mutex \notin SideOf(t) /\ entries[Own(t)][cursor].thread = t

\* A packet that an entry or a matched thread points to exists: it is neither
\* on a stack that has been left nor on the heap and destroyed; and when
\* nobody is in a call, none is left on the heap.
PacketsAlive ==
  /\ \A w \in {"senders", "receivers"} : \A i \in 1 .. Len(entries[w]) :
       packets[entries[w][i].packet].place # "none"
  /\ \A t \in Threads :
       pc[t] \in {"write", "read", "set_ready"} => packets[pk[t]].place # "none"
  /\ (\A t \in Threads : pc[t] = "idle") => \A p \in PacketIds : packets[p] = Absent

Asleep(t) == pc[t] \in {"wait", "parked"} /\ select[t] = "waiting"

\* A sender and a receiver never sleep side by side.
NeverBothAsleep == ~\E s \in Senders, r \in Receivers : Asleep(s) /\ Asleep(r)

InCall(t) == pc[t] \notin Answered \cup {"idle", "disconnect"}

\* A send and a receive in progress at the same time do not stay so, if at
\* least one is not a select: two selects may find each other registered, abort
\* and try again for as long as the scheduler keeps them in step.
Meets ==
  \A s \in Senders, r \in Receivers :
    InCall(s) /\ InCall(r) /\ "block" \in {kind[s], kind[r]} ~> ~InCall(s) \/ ~InCall(r)

\* Disconnection ends every call, and so does its deadline.
Releases ==
  \A t \in Threads : InCall(t) /\ (disconnected \/ t \in expired) ~> ~InCall(t)
-------------------------------------------------------------------------------
(* The inductive invariant. *)

\* wake_one has selected the operation of t.
Matched(t) ==
  \/ pc[t] \in {"store_packet", "unpark", "write", "read", "set_ready", "wait_packet",
                "wait_ready"}
  \/ Waiting(t) /\ select[t] = "operation"

\* t has registered a packet and not let go of it.
Owning(t) == Waiting(t) \/ pc[t] \in {"wait_packet", "wait_ready"}

\* Entry i of waker w is the one that the holder of the mutex is about to remove.
Claimed(w, i) == mutex \in Threads /\ w = Other(mutex) /\ i = cursor

\* An entry belongs to a thread of its side, which has no other, waits and
\* still has the packet; and who waits has an entry.
EntriesOK ==
  /\ \A w \in {"senders", "receivers"} : \A i \in 1 .. Len(entries[w]) :
       LET e == entries[w][i] IN
       /\ Own(e.thread) = w
       /\ \A j \in 1 .. Len(entries[w]) : entries[w][j].thread = e.thread => j = i
       /\ \/ Claimed(w, i)
          \/ Waiting(e.thread) /\ select[e.thread] # "operation" /\ e.packet = mine[e.thread]
  /\ \A t \in Threads :
       Waiting(t) /\ select[t] # "operation" =>
         \E i \in 1 .. Len(entries[Own(t)]) : entries[Own(t)][i].thread = t

\* The mutex is held across steps by wake_one only, which has selected an
\* operation; its thread cannot get far before it is told the packet.
HolderOK ==
  /\ mutex = NoThread => cursor = 0
  /\ \A t \in Threads : pc[t] \in {"store_packet", "unpark"} <=> mutex = t
  /\ \A t \in Threads : mutex = t =>
       /\ cursor \in 1 .. Len(entries[Other(t)])
       /\ select[Partner(t)] = "operation"
       /\ pc[t] = "store_packet" =>
            /\ Owning(Partner(t))
            /\ mine[Partner(t)] = entries[Other(t)][cursor].packet
            /\ word[Partner(t)] = NoPacket

\* What each label says of the call, of the context and of the channel.
LabelOK(t) ==
  /\ pc[t] \in {"block", "wait_ready"} => kind[t] = "block"
  /\ pc[t] \in {"select", "retry", "register", "abort", "pause", "unregister_select",
                "wait_packet"} => kind[t] = "select"
  /\ pc[t] \in {"wait", "parked", "give_up", "unregister"} => kind[t] \in {"block", "select"}
  /\ pc[t] = "unregister" => select[t] \in {"aborted", "disconnected"}
  /\ pc[t] = "unregister_select" => select[t] # "waiting"
  /\ Waiting(t) \/ pc[t] = "wait_packet" => word[t] \in {NoPacket, mine[t]}
  /\ Waiting(t) /\ select[t] # "operation" => word[t] = NoPacket
  /\ select[t] = "disconnected" => disconnected
  /\ pc[t] = "disconnect" => alive \cap SideOf(t) = {}
  /\ pc[t] = "write" => t \in Senders
  /\ pc[t] = "read" => t \in Receivers

LabelsOK == \A t \in Threads : LabelOK(t)

\* Packet p is the one of t; t uses p, its own or its partner's.
Owns(t, p) == Owning(t) /\ mine[t] = p

Uses(t, p) ==
  \/ Owns(t, p)
  \/ pc[t] \in {"store_packet", "unpark"} /\ p = entries[Other(t)][cursor].packet
  \/ pc[t] \in {"write", "read", "set_ready"} /\ p = pk[t]

\* A packet exists as long as somebody uses it; no more than a sender and a
\* receiver do, which have been matched; a partner whose packet is not ready
\* yet is not alone with it; a stack is left last, the heap is freed by the receiver.
UsersOK ==
  /\ \A p \in PacketIds :
       /\ packets[p].place = "none" => packets[p] = Absent
       /\ packets[p].place # "none" => \E t \in Threads : Uses(t, p)
  /\ \A t \in Threads : \A p \in PacketIds \cup {NoPacket} : Uses(t, p) =>
       /\ p \in PacketIds /\ packets[p].place # "none"
       /\ Owns(t, p) => p[1] = t /\ (packets[p].place = "stack" <=> kind[t] = "block")
       /\ ~Matched(t) => ~packets[p].ready
       /\ packets[p].ready =>
            IF packets[p].place = "stack" THEN Owns(t, p) ELSE t \in Receivers
       /\ pc[t] = "set_ready" /\ t \in Receivers => packets[p].place = "stack"
       /\ Matched(t) /\ ~packets[p].ready => \E u \in Threads \ {t} : Uses(u, p)
       /\ \A u \in Threads \ {t} : Uses(u, p) =>
            /\ Own(t) # Own(u) /\ Matched(t)
            /\ packets[p].place = "stack" => Owns(t, p) \/ Owns(u, p)

\* The message is where it has to be: with the sender, then in the packet,
\* then with the receiver.
MessagesOK ==
  /\ \A s \in Senders : \A p \in PacketIds : Uses(s, p) =>
       /\ pc[s] = "set_ready" \/ (packets[p].place = "stack" /\ Owns(s, p)) =>
            packets[p].msg = msg[s]
       /\ \A r \in Receivers : Uses(r, p) => promised[r] = msg[s]
  /\ \A r \in Receivers :
       /\ \A p \in PacketIds : Uses(r, p) /\ packets[p].ready => packets[p].msg = promised[r]
       /\ pc[r] = "set_ready" => msg[r] = promised[r]

IInv == EntriesOK /\ HolderOK /\ LabelsOK /\ UsersOK /\ MessagesOK
-------------------------------------------------------------------------------
(* The refinement: sender and receiver meet when wake_one selects. *)

AbsStatus(t) ==
  CASE pc[t] = "disconnect" -> "idle"
    [] Matched(t) -> "ok"
    [] InCall(t) /\ ~Matched(t) -> "pending"
    [] pc[t] \in Answered \cup {"idle"} -> pc[t]

AbsVal(t) == IF t \in Receivers /\ Matched(t) THEN promised[t] ELSE msg[t]

Abs == INSTANCE Rendezvous WITH
  status <- [t \in Threads |-> AbsStatus(t)],
  val <- [t \in Threads |-> AbsVal(t)]

\* send, recv, try_send, try_recv and select on a zero-capacity channel: a
\* send succeeds exactly when one receive does, with its message; a call that
\* fails has handed nothing over, however late it was selected.
Implements == Abs!Spec
===============================================================================

-------------------------------- MODULE Select --------------------------------
(***************************************************************************)
(* Selection over several channels (src/select.rs) and the handles it      *)
(* works on (src/channel.rs): a thread tries, registers and waits for one  *)
(* of a list of operations, while other threads operate on the same        *)
(* channels and drop the last handles of their sides.                      *)
(*                                                                         *)
(* A step is one call of a SelectHandle method, or one of the loads and    *)
(* stores between them. A channel is what those calls need of it: start_   *)
(* send and start_recv take effect in one step (ArrayQueue, ListQueue and  *)
(* ZeroChannel take them apart), but a slot is reserved by one step and    *)
(* written or read by a later one, and waking the other side is a third.   *)
(* try_send and try_recv are selects of one operation. The blocking recv   *)
(* of an unbounded and of a never channel, which keeps its own loop, is    *)
(* here too; those of the other channels are in ArrayChannel, ZeroChannel  *)
(* and Timers.                                                             *)
(***************************************************************************)
EXTENDS Naturals, Sequences, FiniteSets, SequencesExt, Functions

CONSTANTS Threads, Channels, NoThread,
          Flavor,      \* ChannelFlavor or ReceiverFlavor of each channel
          Cap,         \* its capacity, when it is an array
          Starts,      \* the sets of handles <<thread, channel, side>> there may be at first
          Stock,       \* the channels that hold a message at first
          Drops,       \* bound: the handles that may be dropped
          Clones,      \* bound: the handles a thread may get by cloning another's
          Calls,       \* the calls a thread may make: a set of records for each
          MaxCalls,    \* bound: calls made by each thread
          MaxTicks     \* bound: messages of a tick channel

Sides == {"send", "recv"}
Timers == {c \in Channels : Flavor[c] \in {"after", "tick"}}
Counted == {c \in Channels : Flavor[c] \in {"array", "list", "zero"}}

ASSUME SelectAssumption ==
  /\ NoThread \notin Threads
  /\ \A c \in Channels : Flavor[c] \in {"array", "list", "zero", "after", "tick", "never"}
  /\ \A c \in Channels : Flavor[c] = "array" => Cap[c] \in Nat \ {0}
  /\ \A c \in Stock : Flavor[c] \in {"array", "list"}
  /\ \A set \in Starts \cup {Drops, Clones} : set \subseteq Threads \X Channels \X Sides
  /\ \A set \in Starts : IsFiniteSet(set)
  /\ IsFiniteSet(Threads)

\* after, tick and never return a Receiver only.
ASSUME ReceiversAssumption ==
  \A set \in Starts \cup {Clones} : \A h \in set : h[3] = "send" => h[2] \in Counted

\* The loops that run without run_select are those of one receiver of a list or of never.
ASSUME CallsAssumption ==
  \A t \in Threads : \A call \in Calls[t] :
    /\ call.ops \in Seq([chan : Channels, side : Sides])
    /\ call.mode \in {"now", "never", "at", "recv", "recvAt", "iter"}
    /\ call.mode \in {"recv", "recvAt", "iter"} =>
         Len(call.ops) = 1 /\ Flavor[call.ops[1].chan] \in {"list", "never"}

\* A channel is created with a handle of each side.
ASSUME PairsAssumption == \A set \in Starts, c \in Counted :
  (\E h \in set : h[2] = c /\ h[3] = "send") <=> (\E h \in set : h[2] = c /\ h[3] = "recv")

VARIABLES head, tail,     \* positions of each channel; of a timer, head is the messages taken
          due,            \* has the delivery time of the timer's next message come?
          disconnected,   \* is_disconnected
          handles,        \* Channel::senders and Channel::receivers
          entries,        \* Waker::entries of both wakers
          held,           \* the handles each thread has
          select,         \* Context::select of each thread
          peer,           \* the thread a zero-capacity operation is paired with
          pc, i,          \* the next step of each thread, and the operation it has got to
          ops, mode,      \* run_select's handles and timeout
          states, changed,\* its snapshot of the states
          registered,     \* registered_count
          token,          \* Token: what the operation that fired left for read or write
          expired,        \* has the call's own deadline passed?
          alarm,          \* has a timer that the blocked thread counts on fired?
          left,           \* calls the thread may still make
          unready         \* history: was there a moment of this call with no operation ready?

channelVars == <<head, tail, due>>
handleVars == <<disconnected, handles, held>>
waitVars == <<entries, select, peer>>
callVars == <<ops, mode, left>>
scanVars == <<states, changed, registered>>
timeVars == <<expired, alarm>>
vars == <<channelVars, handleVars, waitVars, pc, i, callVars, scanVars, token, timeVars,
          unready>>

\* Selected as a word: one of three small numbers, or the address of an operation.
Waiting == 0
Aborted == 1
Disconnected == 2
Operation(oper) == 3 + oper
Selection(t) == select[t] - Operation(0)

NoOp == [chan |-> "none", side |-> "none"]
Op(c, s) == [chan |-> c, side |-> s]
Opposite(s) == IF s = "send" THEN "recv" ELSE "send"
NoToken == [kind |-> "none", op |-> NoOp, pos |-> 0]
Mine(t) == ops[t][i[t]]
Goto(t, label) == pc' = [pc EXCEPT ![t] = label]

Init ==
  /\ head = [c \in Channels |-> 0] /\ tail = [c \in Channels |-> IF c \in Stock THEN 1 ELSE 0]
  /\ due = [c \in Channels |-> FALSE]
  /\ held \in Starts
  /\ handles = [c \in Channels |-> [s \in Sides |-> 
                   Cardinality({h \in held : c \in Counted /\ h[2] = c /\ h[3] = s})]]
  /\ disconnected = [c \in Channels |-> c \in Counted /\ handles[c] = [s \in Sides |-> 0]]
  /\ entries = [c \in Channels |-> [s \in Sides |-> <<>>]]
  /\ select = [t \in Threads |-> Waiting]
  /\ peer = [t \in Threads |-> NoThread]
  /\ pc = [t \in Threads |-> "idle"]
  /\ i = [t \in Threads |-> 0]
  /\ ops = [t \in Threads |-> <<>>]
  /\ mode = [t \in Threads |-> "now"]
  /\ states = [t \in Threads |-> <<>>]
  /\ changed = [t \in Threads |-> FALSE]
  /\ registered = [t \in Threads |-> 0]
  /\ token = [t \in Threads |-> NoToken]
  /\ expired = [t \in Threads |-> FALSE]
  /\ alarm = [t \in Threads |-> FALSE]
  /\ left = [t \in Threads |-> MaxCalls]
  /\ unready = [t \in Threads |-> FALSE]
-------------------------------------------------------------------------------
(* The channels as a select sees them: one record per SelectHandle.         *)
(*   ready     try would return true                                        *)
(*   spins     but try waits for another thread to finish with the slot     *)
(*   closed    and finds nothing but the disconnection                      *)
(*   state     what state() returns                                         *)
(*   waits     register leaves an entry in the waker of the side            *)
(*   blocks    register returns true                                        *)
(*   alarm     deadline() is in the past                                    *)

\* Slots reserved by a send and not yet written, claimed by a receive and not yet released.
InHand(c, s) == {token[t].pos : t \in {u \in Threads : token[u].kind = "slot" /\ token[u].op = Op(c, s)}}

IsEmpty(c) == head[c] = tail[c]
IsFull(c) == tail[c] = head[c] + Cap[c]

\* Mutant: is_disconnected is looked at before the queue.
ArrayReceiverHasty(c) ==
  [ready |-> ~IsEmpty(c) \/ disconnected[c], spins |-> head[c] \in InHand(c, "send"),
   closed |-> disconnected[c], state |-> tail[c], waits |-> TRUE,
   blocks |-> IsEmpty(c) /\ ~disconnected[c], alarm |-> FALSE]

ArrayReceiver(c) ==
  [ready |-> ~IsEmpty(c) \/ disconnected[c], spins |-> head[c] \in InHand(c, "send"),
   closed |-> IsEmpty(c) /\ disconnected[c], state |-> tail[c], waits |-> TRUE,
   blocks |-> IsEmpty(c) /\ ~disconnected[c], alarm |-> FALSE]

ArraySender(c) ==
  [ready |-> ~IsFull(c) \/ disconnected[c],
   spins |-> ~disconnected[c] /\ \E p \in InHand(c, "recv") : p + Cap[c] = tail[c],
   closed |-> disconnected[c], state |-> head[c], waits |-> TRUE,
   blocks |-> IsFull(c) /\ ~disconnected[c], alarm |-> FALSE]

ListReceiver(c) ==
  [ready |-> ~IsEmpty(c) \/ disconnected[c], spins |-> FALSE,
   closed |-> IsEmpty(c) /\ disconnected[c], state |-> tail[c], waits |-> TRUE,
   blocks |-> IsEmpty(c) /\ ~disconnected[c], alarm |-> FALSE]

\* A send never waits for room: it leaves no entry.
ListSender(c) ==
  [ready |-> TRUE, spins |-> FALSE, closed |-> disconnected[c], state |-> head[c],
   waits |-> FALSE, blocks |-> ~disconnected[c], alarm |-> FALSE]

\* The entries of other threads that wake_one could still select.
Wakeable(t, c, s) == {k \in DOMAIN entries[c][s] :
  entries[c][s][k].thread # t /\ select[entries[c][s][k].thread] = Waiting}

\* Waker::register_count only grows, and is only compared with an earlier load of it.
Current == 1
Outdated == 0

ZeroReceiver(t, c) ==
  LET partners == Wakeable(t, c, "send") IN
  [ready |-> partners # {} \/ disconnected[c], spins |-> FALSE,
   closed |-> partners = {} /\ disconnected[c], state |-> Current,
   waits |-> TRUE, blocks |-> partners = {} /\ ~disconnected[c], alarm |-> FALSE]

ZeroSender(t, c) ==
  LET partners == Wakeable(t, c, "recv") IN
  [ready |-> partners # {} \/ disconnected[c], spins |-> FALSE,
   closed |-> partners = {} /\ disconnected[c], state |-> Current,
   waits |-> TRUE, blocks |-> partners = {} /\ ~disconnected[c], alarm |-> FALSE]

\* Its deadline is the delivery time, also when the message is long gone.
AfterReceiver(c) ==
  [ready |-> due[c] /\ head[c] = 0, spins |-> FALSE, closed |-> FALSE,
   state |-> IF due[c] THEN 1 ELSE 0, waits |-> FALSE, blocks |-> TRUE, alarm |-> due[c]]

\* Its deadline is the next tick.
TickReceiver(c) ==
  [ready |-> due[c], spins |-> FALSE, closed |-> FALSE,
   state |-> IF due[c] THEN head[c] + 1 ELSE head[c], waits |-> FALSE, blocks |-> TRUE,
   alarm |-> due[c]]

NeverReceiver ==
  [ready |-> FALSE, spins |-> FALSE, closed |-> FALSE, state |-> 0, waits |-> FALSE,
   blocks |-> TRUE, alarm |-> FALSE]

\* SelectHandle for Sender and for Receiver: what the flavor says.
SenderHandle(t, c) ==
  CASE Flavor[c] = "array" -> ArraySender(c)
    [] Flavor[c] = "list" -> ListSender(c)
    [] Flavor[c] = "zero" -> ZeroSender(t, c)

ReceiverHandle(t, c) ==
  CASE Flavor[c] = "array" -> ArrayReceiver(c)
    [] Flavor[c] = "list" -> ListReceiver(c)
    [] Flavor[c] = "zero" -> ZeroReceiver(t, c)
    [] Flavor[c] = "after" -> AfterReceiver(c)
    [] Flavor[c] = "tick" -> TickReceiver(c)
    [] Flavor[c] = "never" -> NeverReceiver

Handle(t, o) == IF o.side = "send" THEN SenderHandle(t, o.chan) ELSE ReceiverHandle(t, o.chan)
-------------------------------------------------------------------------------
(* The parts of the methods that several steps share. *)

\* Waker::wake_one by t: the first entry of another thread that can still be selected. What
\* else that thread's step changes is up to the caller.
WakeOne(t, c, s) ==
  LET able == Wakeable(t, c, s)
      k == CHOOSE k \in able : \A j \in able : k <= j
  IN IF able = {}
     THEN UNCHANGED <<entries, select>>
     ELSE /\ select' = [select EXCEPT ![entries[c][s][k].thread] = Operation(entries[c][s][k].oper)]
          /\ entries' = [entries EXCEPT ![c][s] = RemoveAt(@, k)]

\* Waker::disconnect: every waiting thread is woken; the entries stay.
WakeAll(c, sides) ==
  [t \in Threads |->
     IF select[t] = Waiting /\ \E s \in sides : \E k \in DOMAIN entries[c][s] : entries[c][s][k].thread = t
     THEN Disconnected ELSE select[t]]

\* It also counts the registration: whoever loaded the count before finds it changed.
Register(t, o, oper) ==
  /\ entries' = [entries EXCEPT ![o.chan][o.side] = Append(@, [thread |-> t, oper |-> oper])]
  /\ states' = [u \in Threads |-> [k \in DOMAIN states[u] |->
                  IF Flavor[o.chan] = "zero" /\ ops[u][k] = Op(o.chan, Opposite(o.side))
                  THEN Outdated ELSE states[u][k]]]

Unregister(t, o, oper) ==
  entries' = [entries EXCEPT ![o.chan][o.side] = RemoveFirst(@, [thread |-> t, oper |-> oper])]

Token(t, kind, o, pos) == token' = [token EXCEPT ![t] = [kind |-> kind, op |-> o, pos |-> pos]]

\* try, and accept where it is the same: the effect of a start_send or start_recv that succeeds.
Fire(t, o) ==
  LET c == o.chan IN
  /\ ~Handle(t, o).spins
  /\ Goto(t, "complete")
  /\ UNCHANGED <<callVars, scanVars, handleVars, timeVars, i>>
  /\ \/ /\ Handle(t, o).closed
        /\ Token(t, "closed", o, 0)
        /\ UNCHANGED <<channelVars, entries, select, peer>>
     \/ /\ ~Handle(t, o).closed /\ Flavor[c] \in {"array", "list"} /\ o.side = "send"
        /\ tail' = [tail EXCEPT ![c] = @ + 1]
        /\ Token(t, "slot", o, tail[c])
        /\ UNCHANGED <<head, due, entries, select, peer>>
     \/ /\ ~Handle(t, o).closed /\ Flavor[c] \in {"array", "list"} /\ o.side = "recv"
        /\ head' = [head EXCEPT ![c] = @ + 1]
        /\ Token(t, "slot", o, head[c])
        /\ UNCHANGED <<tail, due, entries, select, peer>>
     \/ /\ ~Handle(t, o).closed /\ Flavor[c] = "zero"
        /\ WakeOne(t, c, Opposite(o.side))
        /\ LET u == CHOOSE u \in Threads : select'[u] # select[u]
           IN peer' = [peer EXCEPT ![t] = u, ![u] = t]
        /\ Token(t, "packet", o, 0)
        /\ UNCHANGED channelVars
     \/ /\ c \in Timers
        /\ head' = [head EXCEPT ![c] = @ + 1]
        /\ due' = [due EXCEPT ![c] = Flavor[c] = "after"]
        /\ Token(t, "time", o, 0)
        /\ UNCHANGED <<tail, entries, select, peer>>

\* Mutant: one operation too many.
NextOpPast(t, here, there) ==
  IF i[t] <= Len(ops[t])
  THEN /\ i' = [i EXCEPT ![t] = @ + 1]
       /\ Goto(t, here)
  ELSE /\ i' = [i EXCEPT ![t] = 1]
       /\ Goto(t, there)

\* The call goes on with the next operation of the list, or after the last one with something else.
NextOp(t, here, there) ==
  IF i[t] < Len(ops[t])
  THEN /\ i' = [i EXCEPT ![t] = @ + 1]
       /\ Goto(t, here)
  ELSE /\ i' = [i EXCEPT ![t] = 1]
       /\ Goto(t, there)

\* utils::shuffle: any order of the operations.
Shuffled(list) == {[k \in DOMAIN list |-> list[p[k]]] : p \in Bijection(DOMAIN list, DOMAIN list)}

\* The list's own blocking recv, and never's: no retry, no accept, no last look after the deadline.
Plain(m) == m \in {"recv", "recvAt", "iter"}
Timed(m) == m \in {"at", "recvAt"}

\* From the beginning of run_select, or of one round of its loop, to the first handle.
RunSelect(t, list, m) ==
  /\ \E order \in Shuffled(list) : ops' = [ops EXCEPT ![t] = order]
  /\ mode' = [mode EXCEPT ![t] = m]
  /\ i' = [i EXCEPT ![t] = 1]
  /\ states' = [states EXCEPT ![t] = <<>>]
  /\ Goto(t, IF m = "now" /\ Len(list) = 0 THEN "nothing"
             ELSE IF Len(list) = 0 \/ (Plain(m) /\ Flavor[list[1].chan] = "never") THEN "sleep"
             ELSE IF m = "now" /\ Len(list) > 1 THEN "snapshot"
             ELSE "try")
  /\ registered' = [registered EXCEPT ![t] = 0]
  /\ UNCHANGED changed

\* The call answers; an iterator asks for its next message.
Return(t, iterates) ==
  /\ token' = [token EXCEPT ![t] = NoToken]
  /\ IF iterates /\ mode[t] = "iter"
     THEN RunSelect(t, ops[t], mode[t])
     ELSE /\ Goto(t, "idle")
          /\ ops' = [ops EXCEPT ![t] = <<>>]
          /\ mode' = [mode EXCEPT ![t] = "now"]
          /\ i' = [i EXCEPT ![t] = 0]
          /\ states' = [states EXCEPT ![t] = <<>>]
          /\ registered' = [registered EXCEPT ![t] = 0]
          /\ UNCHANGED changed
  /\ expired' = [expired EXCEPT ![t] = FALSE]
  /\ alarm' = [alarm EXCEPT ![t] = FALSE]
  /\ UNCHANGED left
-------------------------------------------------------------------------------
(* The calls: those of Select, and those of a single handle. *)

TrySelect(list) == [mode |-> "now", ops |-> list]
BlockingSelect(list) == [mode |-> "never", ops |-> list]
SelectTimeout(list) == [mode |-> "at", ops |-> list]
TrySend(c) == TrySelect(<<Op(c, "send")>>)
TryRecv(c) == TrySelect(<<Op(c, "recv")>>)
Recv(c) == [mode |-> "recv", ops |-> <<Op(c, "recv")>>]
RecvTimeout(c) == [mode |-> "recvAt", ops |-> <<Op(c, "recv")>>]
Iter(c) == [mode |-> "iter", ops |-> <<Op(c, "recv")>>]
-------------------------------------------------------------------------------
(* run_select, and the loops that do without it *)

StartCall(t) ==
  /\ pc[t] = "idle" /\ left[t] > 0
  /\ \E call \in Calls[t] :
       /\ \A k \in DOMAIN call.ops : <<t, call.ops[k].chan, call.ops[k].side>> \in held
       /\ RunSelect(t, call.ops, call.mode)
  /\ left' = [left EXCEPT ![t] = @ - 1]
  /\ UNCHANGED <<channelVars, handleVars, waitVars, timeVars, token>>

\* An empty list, and recv on a never channel, only sleep.
Sleep(t) ==
  /\ pc[t] = "sleep" /\ Timed(mode[t]) /\ expired[t]
  /\ Goto(t, "nothing")
  /\ UNCHANGED <<channelVars, handleVars, waitVars, timeVars, callVars, scanVars, i, token>>

Snapshot(t) ==
  /\ pc[t] = "snapshot"
  /\ states' = [states EXCEPT ![t] = Append(@, Handle(t, Mine(t)).state)]
  /\ NextOp(t, "snapshot", "try")
  /\ UNCHANGED <<channelVars, handleVars, waitVars, timeVars, callVars, changed, registered, token>>

Try(t) ==
  /\ pc[t] = "try"
  /\ \/ Handle(t, Mine(t)).ready /\ Fire(t, Mine(t))
     \/ /\ ~Handle(t, Mine(t)).ready
        /\ NextOp(t, "try", CASE mode[t] = "now" /\ Len(ops[t]) = 1 -> "nothing"
                       [] mode[t] = "now" /\ Len(ops[t]) > 1 -> "compare"
                       [] Plain(mode[t]) -> "register"
                       [] OTHER -> "retry")
        /\ UNCHANGED <<channelVars, handleVars, waitVars, timeVars, callVars, scanVars, token>>

\* Mutant: only the last state counts.
CompareLast(t) ==
  LET current == Handle(t, Mine(t)).state IN
  /\ pc[t] = "compare"
  /\ states' = [states EXCEPT ![t][i[t]] = current]
  /\ NextOp(t, "compare", IF states[t][i[t]] # current THEN "try" ELSE "nothing")
  /\ UNCHANGED <<channelVars, handleVars, waitVars, timeVars, callVars, changed, registered, token>>

\* Selection has failed when no state has changed since it was last loaded.
Compare(t) ==
  LET current == Handle(t, Mine(t)).state
      differs == changed[t] \/ states[t][i[t]] # current
      last == i[t] = Len(ops[t])
  IN /\ pc[t] = "compare"
     /\ states' = [states EXCEPT ![t][i[t]] = current]
     /\ changed' = [changed EXCEPT ![t] = differs /\ ~last]
     /\ NextOp(t, "compare", IF differs THEN "try" ELSE "nothing")
     /\ UNCHANGED <<channelVars, handleVars, waitVars, timeVars, callVars, registered, token>>

\* A zero-capacity channel retries with a short pause, in which it can be selected.
Retry(t) ==
  /\ pc[t] = "retry"
  /\ \/ Handle(t, Mine(t)).ready /\ Fire(t, Mine(t))
     \/ /\ ~Handle(t, Mine(t)).ready /\ Flavor[Mine(t).chan] # "zero"
        /\ NextOp(t, "retry", "register")
        /\ UNCHANGED <<channelVars, handleVars, waitVars, timeVars, callVars, scanVars, token>>
     \/ /\ ~Handle(t, Mine(t)).ready /\ Flavor[Mine(t).chan] = "zero"
        /\ Register(t, Mine(t), 0)
        /\ select' = [select EXCEPT ![t] = Waiting]
        /\ Goto(t, "pause")
        /\ UNCHANGED <<channelVars, handleVars, timeVars, callVars, changed, registered, peer, i, token>>

\* Mutant: an operation that somebody has selected is given up.
PauseAborts(t) ==
  /\ pc[t] = "pause"
  /\ select' = [select EXCEPT ![t] = IF @ = Disconnected THEN @ ELSE Aborted]
  /\ Goto(t, "unpause")
  /\ UNCHANGED <<channelVars, handleVars, entries, peer, timeVars, callVars, scanVars, i, token>>

\* The pause is over: abort, unless somebody has selected the operation.
Pause(t) ==
  /\ pc[t] = "pause"
  /\ \/ /\ select[t] = Waiting
        /\ select' = [select EXCEPT ![t] = Aborted]
        /\ Goto(t, "unpause") /\ UNCHANGED token
     \/ /\ select[t] = Disconnected
        /\ Goto(t, "unpause") /\ UNCHANGED <<select, token>>
     \/ /\ select[t] = Operation(0)
        /\ Token(t, "packet", Mine(t), 0)
        /\ Goto(t, "complete") /\ UNCHANGED select
  /\ UNCHANGED <<channelVars, handleVars, entries, peer, timeVars, callVars, scanVars, i>>

Unpause(t) ==
  /\ pc[t] = "unpause"
  /\ Unregister(t, Mine(t), 0)
  /\ IF select[t] = Aborted
     THEN NextOp(t, "retry", "register") /\ UNCHANGED token
     ELSE Token(t, "closed", Mine(t), 0) /\ Goto(t, "complete") /\ UNCHANGED i
  /\ UNCHANGED <<channelVars, handleVars, select, peer, timeVars, callVars, scanVars>>

\* Context::with resets the context before the first of them.
RegisterOp(t) ==
  LET h == Handle(t, Mine(t)) IN
  /\ pc[t] = "register"
  /\ registered' = [registered EXCEPT ![t] = i[t]]
  /\ select' = IF i[t] = 1 THEN [select EXCEPT ![t] = Waiting] ELSE select
  /\ IF h.waits THEN Register(t, Mine(t), i[t]) ELSE UNCHANGED <<entries, states>>
  /\ Goto(t, IF h.waits /\ Flavor[Mine(t).chan] # "zero" THEN "check"
             ELSE IF h.blocks THEN "selected" ELSE "abort")
  /\ UNCHANGED <<channelVars, handleVars, peer, timeVars, callVars, changed, i, token>>

\* Mutant: it does not look.
CheckSkipped(t) ==
  /\ pc[t] = "check"
  /\ Goto(t, "selected")
  /\ UNCHANGED <<channelVars, handleVars, waitVars, timeVars, callVars, scanVars, i, token>>

\* The rest of register: has the operation become ready just now?
Check(t) ==
  /\ pc[t] = "check"
  /\ Goto(t, IF Handle(t, Mine(t)).blocks THEN "selected" ELSE "abort")
  /\ UNCHANGED <<channelVars, handleVars, waitVars, timeVars, callVars, scanVars, i, token>>

Abort(t) ==
  /\ pc[t] = "abort"
  /\ select' = [select EXCEPT ![t] = IF @ = Waiting THEN Aborted ELSE @]
  /\ i' = [i EXCEPT ![t] = 1]
  /\ Goto(t, "unregister")
  /\ UNCHANGED <<channelVars, handleVars, entries, peer, timeVars, callVars, scanVars, token>>

\* cx.selected() after a registration; after the last one the deadlines are collected.
Selected(t) ==
  /\ pc[t] = "selected"
  /\ IF select[t] = Waiting
     THEN /\ i' = [i EXCEPT ![t] = IF i[t] < Len(ops[t]) THEN @ + 1 ELSE 1]
          /\ Goto(t, IF i[t] < Len(ops[t]) THEN "register" ELSE "wait")
     ELSE i' = [i EXCEPT ![t] = 1] /\ Goto(t, "unregister")
  /\ alarm' = [alarm EXCEPT ![t] = \E k \in DOMAIN ops[t] : Handle(t, ops[t][k]).alarm]
  /\ UNCHANGED <<channelVars, handleVars, waitVars, expired, callVars, scanVars, token>>

\* Context::wait_until
Wait(t) ==
  /\ pc[t] = "wait"
  /\ \/ select[t] # Waiting /\ UNCHANGED select
     \/ /\ select[t] = Waiting
        /\ alarm[t] \/ (expired[t] /\ Timed(mode[t]))
        /\ select' = [select EXCEPT ![t] = Aborted]
  /\ Goto(t, "unregister")
  /\ UNCHANGED <<channelVars, handleVars, entries, peer, timeVars, callVars, scanVars, i, token>>

\* Mutant: the last one is left out.
UnregisterOpShort(t) ==
  /\ pc[t] = "unregister"
  /\ Unregister(t, Mine(t), i[t])
  /\ i' = [i EXCEPT ![t] = IF i[t] + 1 < registered[t] THEN @ + 1 ELSE 1]
  /\ IF i[t] + 1 < registered[t] THEN UNCHANGED pc ELSE Goto(t, "accept")
  /\ UNCHANGED <<channelVars, handleVars, select, peer, timeVars, callVars, scanVars, token>>

\* The first registered_count operations; the one that was selected has no entry any more.
UnregisterOp(t) ==
  /\ pc[t] = "unregister"
  /\ Unregister(t, Mine(t), i[t])
  /\ i' = [i EXCEPT ![t] = IF i[t] < registered[t] THEN @ + 1 ELSE 1]
  /\ IF i[t] < registered[t] THEN UNCHANGED pc ELSE Goto(t, "accept")
  /\ UNCHANGED <<channelVars, handleVars, select, peer, timeVars, callVars, scanVars, token>>

Accept(t) ==
  /\ pc[t] = "accept"
  /\ \/ /\ select[t] >= Operation(1) /\ ~Plain(mode[t])
        /\ LET o == ops[t][Selection(t)] IN
           \/ /\ Flavor[o.chan] = "zero"
              /\ Token(t, "packet", o, 0)
              /\ Goto(t, "complete")
              /\ UNCHANGED <<channelVars, handleVars, waitVars, timeVars, callVars, scanVars, i>>
           \/ Flavor[o.chan] # "zero" /\ Handle(t, o).ready /\ Fire(t, o)
           \/ /\ Flavor[o.chan] # "zero" /\ ~Handle(t, o).ready
              /\ Goto(t, "late")
              /\ UNCHANGED <<channelVars, handleVars, waitVars, timeVars, callVars, scanVars, i, token>>
     \/ /\ select[t] < Operation(1) \/ Plain(mode[t])
        /\ Goto(t, "late")
        /\ UNCHANGED <<channelVars, handleVars, waitVars, timeVars, callVars, scanVars, i, token>>

\* Mutant: it goes on as before.
LateNever(t) ==
  /\ pc[t] = "late"
  /\ RunSelect(t, ops[t], mode[t])
  /\ alarm' = [alarm EXCEPT ![t] = FALSE]
  /\ UNCHANGED <<channelVars, handleVars, waitVars, expired, left, token>>

\* After the deadline select_timeout is one last try_select, and recv_timeout gives up.
Late(t) ==
  /\ pc[t] = "late"
  /\ IF mode[t] = "recvAt" /\ expired[t]
     THEN Goto(t, "nothing") /\ UNCHANGED <<ops, mode, i, scanVars>>
     ELSE RunSelect(t, ops[t], IF mode[t] = "at" /\ expired[t] THEN "now" ELSE mode[t])
  /\ alarm' = [alarm EXCEPT ![t] = FALSE]
  /\ UNCHANGED <<channelVars, handleVars, waitVars, expired, left, token>>

\* The call answers that nothing was ready.
Nothing(t) ==
  /\ pc[t] = "nothing"
  /\ Return(t, FALSE)
  /\ UNCHANGED <<channelVars, handleVars, waitVars>>
-------------------------------------------------------------------------------
(* SelectedOperation::send and recv, by channel::write and channel::read *)

\* Without a slot or packet the channel is disconnected.
CompleteClosed(t) ==
  /\ pc[t] = "complete" /\ token[t].kind = "closed"
  /\ Return(t, FALSE)
  /\ UNCHANGED <<channelVars, handleVars, waitVars>>

\* The slot is written or released, the other side is still to be woken. A receiver of a list
\* waits for the slot to be written, and nobody waits for it to be released.
CompleteSlot(t) ==
  LET o == token[t].op IN
  /\ pc[t] = "complete" /\ token[t].kind = "slot"
  /\ IF o.side = "recv" /\ Flavor[o.chan] = "list"
     THEN token[t].pos \notin InHand(o.chan, "send") /\ Return(t, TRUE)
     ELSE /\ Token(t, "wake", o, 0)
          /\ Goto(t, "wake")
          /\ UNCHANGED <<timeVars, callVars, scanVars, i>>
  /\ UNCHANGED <<channelVars, handleVars, waitVars>>

Wake(t) ==
  /\ pc[t] = "wake"
  /\ WakeOne(t, token[t].op.chan, Opposite(token[t].op.side))
  /\ Return(t, TRUE)
  /\ UNCHANGED <<channelVars, handleVars, peer>>

\* The sender of a pair fills the packet, the receiver waits for that.
CompletePacket(t) ==
  LET o == token[t].op IN
  /\ pc[t] = "complete" /\ token[t].kind = "packet"
  /\ \/ o.side = "send" /\ peer' = [peer EXCEPT ![t] = NoThread, ![peer[t]] = NoThread]
     \/ o.side = "recv" /\ peer[t] = NoThread /\ UNCHANGED peer
  /\ Return(t, TRUE)
  /\ UNCHANGED <<channelVars, handleVars, entries, select>>

\* The instant is in the token already.
CompleteTime(t) ==
  /\ pc[t] = "complete" /\ token[t].kind = "time"
  /\ Return(t, TRUE)
  /\ UNCHANGED <<channelVars, handleVars, waitVars>>
-------------------------------------------------------------------------------
(* Sender and Receiver handles; time *)

\* Drop: the last handle of a side disconnects the channel. Timers do not count theirs.
DropHandle(t) ==
  \E h \in held :
    LET c == h[2] s == h[3] IN
    /\ h[1] = t /\ h \in Drops /\ pc[t] = "idle"
    /\ held' = held \ {h}
    /\ IF c \in Counted
       THEN /\ handles' = [handles EXCEPT ![c][s] = @ - 1]
            /\ IF handles[c][s] = 1
               THEN Token(t, "drop", Op(c, s), 0) /\ Goto(t, "disconnect")
               ELSE UNCHANGED <<token, pc>>
       ELSE UNCHANGED <<handles, token, pc>>
    /\ UNCHANGED <<channelVars, disconnected, waitVars, i, callVars, scanVars, timeVars>>

\* The channel's disconnect. Only the first one wakes, and a zero-capacity channel does it
\* all under its mutex.
Disconnect(t) ==
  LET c == token[t].op.chan IN
  /\ pc[t] = "disconnect"
  /\ disconnected' = [disconnected EXCEPT ![c] = TRUE]
  /\ select' = IF Flavor[c] = "zero" /\ ~disconnected[c] THEN WakeAll(c, Sides) ELSE select
  /\ IF Flavor[c] = "zero" \/ disconnected[c]
     THEN Goto(t, "idle") /\ token' = [token EXCEPT ![t] = NoToken]
     ELSE Goto(t, IF Flavor[c] = "array" THEN "wakeSenders" ELSE "wakeReceivers") /\ UNCHANGED token
  /\ UNCHANGED <<channelVars, handles, held, entries, peer, i, callVars,
                 scanVars, timeVars>>

DisconnectSenders(t) ==
  /\ pc[t] = "wakeSenders"
  /\ select' = WakeAll(token[t].op.chan, {"send"})
  /\ Goto(t, "wakeReceivers")
  /\ UNCHANGED <<channelVars, handleVars, entries, peer, i, callVars, scanVars,
                 timeVars, token>>

DisconnectReceivers(t) ==
  /\ pc[t] = "wakeReceivers"
  /\ select' = WakeAll(token[t].op.chan, {"recv"})
  /\ Goto(t, "idle")
  /\ token' = [token EXCEPT ![t] = NoToken]
  /\ UNCHANGED <<channelVars, handleVars, entries, peer, i, callVars, scanVars,
                 timeVars>>

\* Mutant: the clone is not counted.
CloneHandleUncounted(t) ==
  \E h \in held, u \in Threads :
    LET mine == <<u, h[2], h[3]>> IN
    /\ h[1] = t /\ pc[t] = "idle" /\ pc[u] = "idle"
    /\ mine \in Clones \ held
    /\ held' = held \cup {mine}
    /\ UNCHANGED <<channelVars, disconnected, handles, waitVars, pc, i, callVars, scanVars, token, timeVars>>

\* A thread clones a handle for another that has none.
CloneHandle(t) ==
  \E h \in held, u \in Threads :
    LET mine == <<u, h[2], h[3]>> IN
    /\ h[1] = t /\ pc[t] = "idle" /\ pc[u] = "idle"
    /\ mine \in Clones \ held
    /\ held' = held \cup {mine}
    /\ handles' = IF h[2] \in Counted THEN [handles EXCEPT ![h[2]][h[3]] = @ + 1] ELSE handles
    /\ UNCHANGED <<channelVars, disconnected, waitVars, pc, i, callVars, scanVars, token, timeVars>>

\* The deadline of a call passes.
Expire(t) ==
  /\ pc[t] \in {"wait", "sleep", "late"} /\ Timed(mode[t]) /\ ~expired[t]
  /\ expired' = [expired EXCEPT ![t] = TRUE]
  /\ UNCHANGED <<channelVars, handleVars, waitVars, pc, i, callVars, scanVars, token, alarm>>

\* The delivery time of a timer comes, and with it the deadline of those who wait for it.
TimerFires(c) ==
  /\ c \in Timers /\ ~due[c] /\ \E h \in held : h[2] = c
  /\ Flavor[c] = "tick" => head[c] < MaxTicks
  /\ due' = [due EXCEPT ![c] = TRUE]
  /\ alarm' = [t \in Threads |-> alarm[t] \/ (pc[t] = "wait" /\ \E k \in DOMAIN ops[t] : ops[t][k].chan = c)]
  /\ UNCHANGED <<head, tail, handleVars, waitVars, pc, i, callVars, scanVars, token, expired>>
-------------------------------------------------------------------------------
NothingReady(t) == \A k \in DOMAIN ops[t] : ~Handle(t, ops[t][k]).ready

\* The history variable of the calls that may answer that nothing was ready.
Watch ==
  unready' = [t \in Threads |->
                /\ pc'[t] # "idle" /\ (mode'[t] = "now" \/ Timed(mode'[t]))
                /\ unready[t] \/ NothingReady(t)']

Step(t) ==
  \/ StartCall(t) \/ Sleep(t) \/ Snapshot(t) \/ Try(t) \/ Compare(t) \/ Retry(t) \/ Pause(t)
  \/ Unpause(t) \/ RegisterOp(t) \/ Check(t) \/ Abort(t) \/ Selected(t) \/ Wait(t)
  \/ UnregisterOp(t) \/ Accept(t) \/ Late(t) \/ Nothing(t)
  \/ CompleteClosed(t) \/ CompleteSlot(t) \/ Wake(t) \/ CompletePacket(t) \/ CompleteTime(t)
  \/ Disconnect(t) \/ DisconnectSenders(t) \/ DisconnectReceivers(t)

Next ==
  /\ \/ \E t \in Threads : Step(t) \/ DropHandle(t) \/ CloneHandle(t) \/ Expire(t)
     \/ \E c \in Channels : TimerFires(c)
  /\ Watch

Spec == Init /\ [][Next]_vars

Fairness ==
  /\ \A t \in Threads : WF_vars(Step(t) /\ pc[t] # "idle" /\ Watch) /\ SF_vars(Expire(t) /\ Watch)
  /\ \A c \in Channels : WF_vars(TimerFires(c) /\ Watch)

FairSpec == Spec /\ Fairness
-------------------------------------------------------------------------------
Labels == {"idle", "sleep", "snapshot", "try", "compare", "retry", "pause", "unpause", "register",
           "check", "abort", "selected", "wait", "unregister", "accept", "late", "nothing",
           "complete", "wake", "disconnect", "wakeSenders", "wakeReceivers"}
Listless == {"idle", "disconnect", "wakeSenders", "wakeReceivers", "sleep", "nothing"}

\* The types of the variables; a call that is at an operation is at one of its list, and a
\* channel holds no more than it can.
TypeOK ==
  /\ \A t \in Threads : pc[t] \in Labels \ Listless => i[t] \in DOMAIN ops[t]
  /\ pc \in [Threads -> Labels]
  /\ \A c \in Channels : {head[c], tail[c]} \subseteq Nat
  /\ \A c \in Counted : head[c] <= tail[c] /\ (Flavor[c] = "array" => tail[c] <= head[c] + Cap[c])
  /\ due \in [Channels -> BOOLEAN] /\ disconnected \in [Channels -> BOOLEAN]
  /\ handles \in [Channels -> [Sides -> 0 .. Cardinality(Threads)]]
  /\ held \subseteq Threads \X Channels \X Sides
  /\ peer \in [Threads -> Threads \cup {NoThread}]

Registering == {"register", "check", "abort", "selected", "wait", "unregister"}

\* However a registration ends (select.rs:276), by an operation that is ready, by another thread
\* or by the clock, its entries go with it: an entry is in a waker only while its thread is
\* registered there, under the operation it stands for; a thread that sleeps has one for each of
\* its operations that can wake it, and the unregister of a zero-capacity channel finds the
\* entry it unwraps.
EntriesMatch ==
  /\ \A c \in Channels, s \in Sides : \A e \in Range(entries[c][s]) :
       \/ e.oper = 0 /\ pc[e.thread] \in {"pause", "unpause"} /\ Mine(e.thread) = Op(c, s)
       \/ /\ pc[e.thread] \in Registering /\ e.oper \in 1 .. registered[e.thread]
          /\ ops[e.thread][e.oper] = Op(c, s)
          /\ pc[e.thread] = "unregister" => e.oper >= i[e.thread]
  /\ \A t \in Threads : pc[t] = "wait" /\ select[t] = Waiting =>
       \A k \in DOMAIN ops[t] : Handle(t, ops[t][k]).waits =>
          [thread |-> t, oper |-> k] \in Range(entries[ops[t][k].chan][ops[t][k].side])
  /\ \A t \in Threads : pc[t] = "unpause" =>
       [thread |-> t, oper |-> 0] \in Range(entries[Mine(t).chan][Mine(t).side])

\* The operation a thread is bound to by a pairing.
Bound(t) == IF token[t].kind = "packet" THEN token[t].op
            ELSE IF select[t] = Operation(0) THEN Mine(t)
            ELSE IF select[t] >= Operation(1) THEN ops[t][Selection(t)] ELSE NoOp

\* Two threads that are paired by a zero-capacity channel are at the two ends of one channel, and
\* neither has gone on to anything else before the message has changed hands: not because its
\* deadline or its pause has passed, nor because another of its operations became ready.
PairsMatch ==
  \A t \in Threads : peer[t] # NoThread =>
    /\ peer[peer[t]] = t
    /\ pc[t] \notin {"idle", "nothing", "late", "try", "retry"}
    /\ Bound(t).chan = Bound(peer[t]).chan
    /\ Bound(t).side = Opposite(Bound(peer[t]).side)

\* An operation answers that the channel is disconnected only when all handles of the other side
\* are gone, and a receive only when every message has been taken (channel.rs:622, list.rs:299).
ClosedMeansDrained ==
  \A t \in Threads : token[t].kind = "closed" =>
    LET o == token[t].op IN
    /\ disconnected[o.chan] /\ handles[o.chan][Opposite(o.side)] = 0
    /\ o.side = "recv" => head[o.chan] = tail[o.chan]

\* However handles are cloned and dropped, the counts are the handles there are, and a channel
\* is disconnected, or is about to be, exactly when a side has none (channel.rs:566).
HandlesCounted ==
  \A c \in Counted :
    /\ \A s \in Sides : handles[c][s] = Cardinality({h \in held : h[2] = c /\ h[3] = s})
    /\ (\E s \in Sides : handles[c][s] = 0)
         <=> disconnected[c] \/ \E t \in Threads : pc[t] = "disconnect" /\ token[t].op.chan = c

\* A call answers that nothing was ready only if there was a moment of the call when no
\* operation was (select.rs:484).
NoneWasReady == \A t \in Threads : pc[t] = "nothing" => unready[t]

\* The same of calls none of whose channels is disconnected: the states the code compares
\* (select.rs:222) tell all that happens to them, but not a disconnection.
NoneExcused ==
  \A t \in Threads : pc[t] = "nothing" =>
    unready[t] \/ \E k \in DOMAIN ops[t] : disconnected[ops[t][k].chan]

\* A call returns unless, again and again, none of its operations is ready: no wakeup, tick or
\* disconnection is lost to a thread that waits for several.
SelectReturns == \A t \in Threads : []<>(pc[t] = "idle" \/ NothingReady(t))

\* A call with a deadline returns whatever the others do, and so does one that does not block.
TimedReturns == \A t \in Threads : []<>(pc[t] = "idle" \/ mode[t] \in {"never", "recv", "iter"})
===============================================================================

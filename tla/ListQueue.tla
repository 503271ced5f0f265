------------------------------ MODULE ListQueue -------------------------------
(***************************************************************************)
(* The linked list of blocks behind an unbounded channel                   *)
(* (src/flavors/list.rs), used through try_send and try_recv, and the      *)
(* drop of the channel when its last handle is gone. Every atomic access   *)
(* is a step.                                                              *)
(*                                                                         *)
(* Message i lies in block i \div BlockCap. The successor of a block is    *)
(* set once, by a compare-exchange from null, and its start index is       *)
(* determined: so the list is the blocks 0 .. linked - 1, in order, and a  *)
(* slot needs no address but its index. Indices do not wrap around. The    *)
(* waker of these calls stays empty.                                       *)
(*                                                                         *)
(* Reclamation is that of crossbeam-epoch, external: what a thread retires *)
(* is freed at some time after every thread that was pinned at that moment *)
(* has dropped its guard. With Reclaim = FALSE that time never comes. A    *)
(* freed block keeps its contents here, which is one of the outcomes a     *)
(* build can produce; BlockAlive says when nobody depends on that.         *)
(***************************************************************************)
EXTENDS Integers, Sequences, FiniteSets

CONSTANTS Senders, Receivers,  \* the threads with a Sender, with a Receiver
          BlockCap,            \* BLOCK_CAP
          MaxSends,            \* bound: messages each sender may put in the channel
          Reclaim,             \* does the collector run?
          NoMsg

ASSUME CapAssumption == BlockCap \in Nat \ {0}
ASSUME ThreadAssumption == Senders \cap Receivers = {} /\ IsFiniteSet(Senders)
ASSUME BoundAssumption == MaxSends \in Nat /\ NoMsg \notin Senders \X (1 .. MaxSends)

VARIABLES index,         \* Position::index of "head" and "tail"
          block,         \* Position::block of "head" and "tail"
          linked,        \* how many blocks have been linked into the list
          slots,         \* the message and the ready flag of every slot
          disconnected,  \* Channel::is_disconnected
          alive,         \* threads whose Sender or Receiver is not dropped
          pc, idx, blk,  \* the next step of a call, the index and the block it loaded
          msg,           \* the message it carries in or brings back
          count,         \* history: messages each sender has put in
          pinned,        \* threads that hold a guard
          retired,       \* blocks given to defer_destroy, with the guards they wait for
          disposed,      \* history: how often each block was retired or destroyed
          freed,         \* blocks whose memory is released
          moved          \* history: how often the message of each slot was moved out

listVars == <<index, block, linked, slots>>
memVars == <<pinned, retired, disposed, freed>>
vars == <<listVars, disconnected, alive, pc, idx, blk, msg, count, memVars, moved>>

Threads == Senders \cup Receivers
Messages == Senders \X (1 .. MaxSends)
MaxIndex == Cardinality(Senders) * MaxSends
Blocks == 0 .. MaxIndex
Answered == {"ok", "full", "empty", "disconnected"}

Start(b) == b * BlockCap
EndOf(t) == IF t \in Senders THEN "tail" ELSE "head"
Offset(t) == idx[t] - Start(blk[t])
Goto(t, label) == pc' = [pc EXCEPT ![t] = label]

Pin(t) ==
  /\ pinned' = pinned \cup {t}
  /\ UNCHANGED <<retired, disposed, freed>>

Unpin(t) ==
  /\ pinned' = pinned \ {t}
  /\ retired' = [b \in DOMAIN retired |-> retired[b] \ {t}]
  /\ UNCHANGED <<disposed, freed>>

Init ==
  /\ index = [e \in {"head", "tail"} |-> 0]
  /\ block = [e \in {"head", "tail"} |-> 0]
  /\ linked = 1
  /\ slots = [i \in 0 .. MaxIndex |-> [msg |-> NoMsg, ready |-> FALSE]]
  /\ disconnected = FALSE
  /\ alive = Threads
  /\ pc = [t \in Threads |-> "idle"]
  /\ idx = [t \in Threads |-> 0]
  /\ blk = [t \in Threads |-> 0]
  /\ msg = [t \in Threads |-> NoMsg]
  /\ count = [s \in Senders |-> 0]
  /\ pinned = {}
  /\ retired = [b \in {} |-> {}]
  /\ disposed = [b \in Blocks |-> 0]
  /\ freed = {}
  /\ moved = [i \in 0 .. MaxIndex |-> 0]
-------------------------------------------------------------------------------
(* The loop of start_send and start_recv: both ends work alike. *)

\* start_send gives up at once on a disconnected channel.
BeginSend(s) ==
  /\ pc[s] = "idle" /\ s \in alive /\ count[s] < MaxSends
  /\ msg' = [msg EXCEPT ![s] = <<s, count[s] + 1>>]
  /\ Goto(s, IF disconnected THEN "disconnected" ELSE "load_block")
  /\ UNCHANGED <<listVars, disconnected, alive, idx, blk, count, memVars, moved>>

BeginRecv(r) ==
  /\ pc[r] = "idle" /\ r \in alive
  /\ Goto(r, "load_block")
  /\ UNCHANGED <<listVars, disconnected, alive, idx, blk, msg, count, memVars, moved>>

\* The guard is taken before the first of these loads and held to the end of
\* the operation.
LoadBlock(t) ==
  /\ pc[t] = "load_block"
  /\ Pin(t)
  /\ blk' = [blk EXCEPT ![t] = block[EndOf(t)]]
  /\ Goto(t, "load_index")
  /\ UNCHANGED <<listVars, disconnected, alive, idx, msg, count, moved>>

\* The index is compared with the start index of the block: inside it, just
\* behind it (the next block is missing), or further (the block is stale).
LoadIndex(t) ==
  /\ pc[t] = "load_index"
  /\ idx' = [idx EXCEPT ![t] = index[EndOf(t)]]
  /\ LET offset == idx'[t] - Start(blk[t]) IN
       \/ 0 <= offset /\ offset < BlockCap /\ Goto(t, IF t \in Senders THEN "cas" ELSE "load_ready")
       \/ offset = BlockCap /\ Goto(t, "install")
       \/ offset \notin 0 .. BlockCap /\ Goto(t, "load_block")
  /\ UNCHANGED <<listVars, disconnected, alive, blk, msg, count, memVars, moved>>

\* Mutant: the guard is not kept in the token.
CasIndexUnguarded(t) ==
  /\ pc[t] = "cas" /\ index[EndOf(t)] = idx[t]
  /\ index' = [index EXCEPT ![EndOf(t)] = @ + 1]
  /\ count' = IF t \in Senders THEN [count EXCEPT ![t] = @ + 1] ELSE count
  /\ Goto(t, IF Offset(t) + 1 = BlockCap THEN "install"
             ELSE IF t \in Senders THEN "write" ELSE "wait_ready")
  /\ Unpin(t)
  /\ UNCHANGED <<block, linked, slots, disconnected, alive, idx, blk, msg, moved>>

\* The slot is this thread's; whoever takes the last of a block goes on to the next.
CasIndex(t) ==
  /\ pc[t] = "cas" /\ index[EndOf(t)] = idx[t]
  /\ index' = [index EXCEPT ![EndOf(t)] = @ + 1]
  /\ count' = IF t \in Senders THEN [count EXCEPT ![t] = @ + 1] ELSE count
  /\ Goto(t, IF Offset(t) + 1 = BlockCap THEN "install"
             ELSE IF t \in Senders THEN "write" ELSE "wait_ready")
  /\ UNCHANGED <<block, linked, slots, disconnected, alive, idx, blk, msg, memVars, moved>>

\* compare_exchange_weak fails: the index has changed, or spuriously.
CasIndexFails(t) ==
  /\ pc[t] = "cas"
  /\ Goto(t, "load_block")
  /\ UNCHANGED <<listVars, disconnected, alive, idx, blk, msg, count, memVars, moved>>

\* Mutant: a successor that is set is replaced.
InstallNextAgain(t) ==
  /\ pc[t] = "install"
  /\ linked' = linked + 1
  /\ Goto(t, "advance")
  /\ UNCHANGED <<index, block, slots, disconnected, alive, idx, blk, msg, count, memVars, moved>>

\* install_next_block, first half: set the successor unless it is set.
InstallNext(t) ==
  /\ pc[t] = "install"
  /\ linked' = IF linked = blk[t] + 1 THEN linked + 1 ELSE linked
  /\ Goto(t, "advance")
  /\ UNCHANGED <<index, block, slots, disconnected, alive, idx, blk, msg, count, memVars, moved>>

\* Mutant: the successor is linked but the block pointer is not moved.
AdvanceBlockNever(t) ==
  /\ pc[t] = "advance"
  /\ Goto(t, IF Offset(t) = BlockCap THEN "load_block"
             ELSE IF t \in Senders THEN "write" ELSE "retire")
  /\ UNCHANGED <<listVars, disconnected, alive, idx, blk, msg, count, memVars, moved>>

\* Second half: move the block pointer unless it has moved. A helper (it saw
\* the index just behind the block) then starts again.
AdvanceBlock(t) ==
  /\ pc[t] = "advance"
  /\ block' = [block EXCEPT ![EndOf(t)] = IF @ = blk[t] THEN blk[t] + 1 ELSE @]
  /\ Goto(t, IF Offset(t) = BlockCap THEN "load_block"
             ELSE IF t \in Senders THEN "write" ELSE "retire")
  /\ UNCHANGED <<index, linked, slots, disconnected, alive, idx, blk, msg, count, memVars, moved>>
-------------------------------------------------------------------------------
(* write *)

WriteMsg(s) ==
  /\ pc[s] = "write"
  /\ slots' = [slots EXCEPT ![idx[s]].msg = msg[s]]
  /\ Goto(s, "publish")
  /\ UNCHANGED <<index, block, linked, disconnected, alive, idx, blk, msg, count, memVars, moved>>

Publish(s) ==
  /\ pc[s] = "publish"
  /\ slots' = [slots EXCEPT ![idx[s]].ready = TRUE]
  /\ Unpin(s)
  /\ Goto(s, "ok")
  /\ UNCHANGED <<index, block, linked, disconnected, alive, idx, blk, msg, count, moved>>
-------------------------------------------------------------------------------
(* start_recv's tests for an empty channel, and read *)

LoadReady(r) ==
  /\ pc[r] = "load_ready"
  /\ Goto(r, IF slots[idx[r]].ready THEN "cas" ELSE "load_tail")
  /\ UNCHANGED <<listVars, disconnected, alive, idx, blk, msg, count, memVars, moved>>

\* Mutant: a slot that is not ready is taken to mean that the channel is empty.
LoadTailSkipped(r) ==
  /\ pc[r] = "load_tail"
  /\ Goto(r, "check_disc")
  /\ UNCHANGED <<listVars, disconnected, alive, idx, blk, msg, count, memVars, moved>>

LoadTail(r) ==
  /\ pc[r] = "load_tail"
  /\ Goto(r, IF index["tail"] = idx[r] THEN "check_disc" ELSE "cas")
  /\ UNCHANGED <<listVars, disconnected, alive, idx, blk, msg, count, memVars, moved>>

CheckDisconnected(r) ==
  /\ pc[r] = "check_disc"
  /\ IF disconnected THEN Goto(r, "reload_tail") /\ UNCHANGED memVars
                     ELSE Goto(r, "empty") /\ Unpin(r)
  /\ UNCHANGED <<listVars, disconnected, alive, idx, blk, msg, count, moved>>

\* If a message has arrived meanwhile, go straight on to the compare-exchange.
ReloadTail(r) ==
  /\ pc[r] = "reload_tail"
  /\ IF index["tail"] = idx[r] THEN Goto(r, "disconnected") /\ Unpin(r)
                               ELSE Goto(r, "cas") /\ UNCHANGED memVars
  /\ UNCHANGED <<listVars, disconnected, alive, idx, blk, msg, count, moved>>

RetireBlock(b) ==
  /\ disposed' = [disposed EXCEPT ![b] = @ + 1]
  /\ retired' = [x \in DOMAIN retired \cup {b} |-> IF x = b THEN pinned ELSE retired[x]]
  /\ UNCHANGED <<pinned, freed>>

\* guard.defer_destroy(head_ptr), by the receiver of the block's last message.
Retire(r) ==
  /\ pc[r] = "retire"
  /\ RetireBlock(blk[r])
  /\ Goto(r, "wait_ready")
  /\ UNCHANGED <<listVars, disconnected, alive, idx, blk, msg, count, moved>>

WaitReady(r) ==
  /\ pc[r] = "wait_ready" /\ slots[idx[r]].ready
  /\ Goto(r, "read")
  /\ UNCHANGED <<listVars, disconnected, alive, idx, blk, msg, count, memVars, moved>>

ReadMsg(r) ==
  /\ pc[r] = "read"
  /\ msg' = [msg EXCEPT ![r] = slots[idx[r]].msg]
  /\ moved' = [moved EXCEPT ![idx[r]] = @ + 1]
  /\ Unpin(r)
  /\ Goto(r, "ok")
  /\ UNCHANGED <<listVars, disconnected, alive, idx, blk, count>>
-------------------------------------------------------------------------------
Return(t) ==
  /\ pc[t] \in Answered
  /\ Goto(t, "idle")
  /\ idx' = [idx EXCEPT ![t] = 0]
  /\ blk' = [blk EXCEPT ![t] = 0]
  /\ msg' = [msg EXCEPT ![t] = NoMsg]
  /\ UNCHANGED <<listVars, disconnected, alive, count, memVars, moved>>

\* Drop of a Sender or Receiver; the last of a side calls disconnect.
DropHandle(t) ==
  /\ pc[t] = "idle" /\ t \in alive
  /\ alive' = alive \ {t}
  /\ disconnected' = (disconnected \/ alive' \cap Senders = {} \/ alive' \cap Receivers = {})
  /\ UNCHANGED <<listVars, pc, idx, blk, msg, count, memVars, moved>>

\* The collector frees a block that no guard protects any more.
Collect(b) ==
  /\ Reclaim /\ b \in DOMAIN retired /\ retired[b] = {}
  /\ retired' = [x \in DOMAIN retired \ {b} |-> retired[x]]
  /\ freed' = freed \cup {b}
  /\ UNCHANGED <<listVars, disconnected, alive, pc, idx, blk, msg, count, pinned, disposed, moved>>
-------------------------------------------------------------------------------
(* Channel::drop, once both sides are gone: a round of its loop, and its end. *)

Destroy(b) ==
  /\ disposed' = [disposed EXCEPT ![b] = @ + 1]
  /\ freed' = freed \cup {b}
  /\ UNCHANGED <<pinned, retired>>

\* Mutant: the block is left behind when its last message is dropped.
DropMessageLeaky ==
  /\ alive = {} /\ index["head"] # index["tail"]
  /\ moved' = [moved EXCEPT ![index["head"]] = @ + 1]
  /\ block' = [block EXCEPT !["head"] = (index["head"] + 1) \div BlockCap]
  /\ index' = [index EXCEPT !["head"] = @ + 1]
  /\ UNCHANGED <<linked, slots, disconnected, alive, pc, idx, blk, msg, count, memVars>>

DropMessage ==
  /\ alive = {} /\ index["head"] # index["tail"]
  /\ moved' = [moved EXCEPT ![index["head"]] = @ + 1]
  /\ IF index["head"] - Start(block["head"]) + 1 = BlockCap
     THEN /\ Destroy(block["head"])
          /\ block' = [block EXCEPT !["head"] = @ + 1]
     ELSE UNCHANGED <<block, memVars>>
  /\ index' = [index EXCEPT !["head"] = @ + 1]
  /\ UNCHANGED <<linked, slots, disconnected, alive, pc, idx, blk, msg, count>>

DropLastBlock ==
  /\ alive = {} /\ index["head"] = index["tail"] /\ block["head"] \notin freed
  /\ Destroy(block["head"])
  /\ UNCHANGED <<listVars, disconnected, alive, pc, idx, blk, msg, count, moved>>

Terminated == alive = {} /\ block["head"] \in freed /\ UNCHANGED vars
-------------------------------------------------------------------------------
Step(t) ==
  \/ LoadBlock(t) \/ LoadIndex(t) \/ CasIndex(t) \/ CasIndexFails(t) \/ InstallNext(t)
  \/ AdvanceBlock(t) \/ WriteMsg(t) \/ Publish(t) \/ LoadReady(t) \/ LoadTail(t)
  \/ CheckDisconnected(t) \/ ReloadTail(t) \/ Retire(t) \/ WaitReady(t) \/ ReadMsg(t)

Next ==
  \/ \E s \in Senders : BeginSend(s)
  \/ \E r \in Receivers : BeginRecv(r)
  \/ \E t \in Threads : Step(t) \/ Return(t) \/ DropHandle(t)
  \/ \E b \in DOMAIN retired : Collect(b)
  \/ DropMessage \/ DropLastBlock \/ Terminated

Spec == Init /\ [][Next]_vars

(***************************************************************************)
(* The scheduler runs every thread that is inside a call, and a weak       *)
(* compare-exchange that could succeed infinitely often eventually does.   *)
(***************************************************************************)
Fairness == \A t \in Threads : WF_vars(Step(t)) /\ SF_vars(CasIndex(t)) /\ WF_vars(Return(t))

FairSpec == Spec /\ Fairness
-------------------------------------------------------------------------------
(* Properties. *)

Labels == {"idle", "load_block", "load_index", "cas", "install", "advance", "write", "publish",
           "load_ready", "load_tail", "check_disc", "reload_tail", "retire", "wait_ready",
           "read"} \cup Answered

\* A thread that moved an index has the slot to itself until it returns.
Holds(t) ==
  \/ pc[t] \in {"write", "publish", "retire", "wait_ready", "read"}
  \/ pc[t] \in {"install", "advance"} /\ Offset(t) < BlockCap

\* The types of the variables; a message in a slot is ready or being published.
TypeOK ==
  /\ index \in [{"head", "tail"} -> 0 .. MaxIndex]
  /\ block \in [{"head", "tail"} -> Blocks]
  /\ linked \in 1 .. MaxIndex + 1
  /\ slots \in [0 .. MaxIndex -> [msg : Messages \cup {NoMsg}, ready : BOOLEAN]]
  /\ disconnected \in BOOLEAN /\ alive \subseteq Threads
  /\ pc \in [Threads -> Labels]
  /\ idx \in [Threads -> 0 .. MaxIndex] /\ blk \in [Threads -> Blocks]
  /\ msg \in [Threads -> Messages \cup {NoMsg}]
  /\ count \in [Senders -> 0 .. MaxSends] /\ moved \in [0 .. MaxIndex -> Nat]
  /\ disposed \in [Blocks -> Nat]
  /\ pinned \subseteq Threads /\ freed \subseteq Blocks
  /\ DOMAIN retired \subseteq Blocks /\ \A b \in DOMAIN retired : retired[b] \subseteq pinned

\* Each end's block is the one its index points into or just behind, it is in
\* the list, and the list ends with the tail's block or the one after it. A
\* thread that finds its block pointer lagging further would retry for ever.
PositionsOK ==
  /\ index["head"] <= index["tail"]
  /\ \A e \in {"head", "tail"} :
       alive # {} => index[e] - Start(block[e]) \in 0 .. BlockCap
  /\ block["head"] < linked /\ block["tail"] < linked
  /\ linked \in {block["tail"] + 1, block["tail"] + 2}

\* The guard in a token keeps the block of its slot alive (list.rs:41), and a
\* receiver's guard keeps every block it looks at: head.block has left a block
\* before it is retired.
SlotAlive ==
  \A t \in Threads :
    Holds(t) \/ (t \in Receivers /\ pc[t] \in Labels \ (Answered \cup {"idle", "load_block"}))
      => blk[t] \notin freed

\* The same of every block a thread has loaded and will still look at.
BlockAlive ==
  \A t \in Threads : pc[t] \notin Answered \cup {"idle", "load_block"} => blk[t] \notin freed

\* No message is moved out of its slot twice, and no block retired or destroyed
\* twice; when the channel has been dropped, every message that was sent was
\* received or dropped, and every block of the list retired or destroyed.
ReleasedOnce ==
  /\ \A i \in DOMAIN moved : moved[i] <= 1
  /\ \A b \in Blocks : disposed[b] <= 1
  /\ alive = {} /\ block["head"] \in freed =>
       /\ \A i \in DOMAIN moved : i < index["tail"] => moved[i] = 1
       /\ \A b \in 0 .. linked - 1 : disposed[b] = 1
-------------------------------------------------------------------------------
(* The inductive invariant. *)

\* Inside an operation, with a block in hand.
Looking(t) == pc[t] \notin Answered \cup {"idle", "load_block"}

\* On the way past the end of a block, as the owner of its last slot.
Passing(t) == pc[t] \in {"install", "advance"} /\ Offset(t) < BlockCap

\* A receiver that has to retire the block of its slot.
Retiring(r) == Passing(r) \/ pc[r] = "retire"

Writing(s) == Holds(s) /\ pc[s] # "publish"

\* An index stands just behind its block only while the owner of the block's
\* last slot is there to move the block pointer.
EndsOK ==
  /\ index["head"] <= index["tail"]
  /\ \A e \in {"head", "tail"} :
       /\ Start(block[e]) <= index[e] /\ index[e] <= Start(block[e]) + BlockCap
       /\ index[e] = Start(block[e]) + BlockCap =>
            \E t \in Threads : EndOf(t) = e /\ Passing(t) /\ blk[t] = block[e]
  /\ block["head"] < linked /\ block["tail"] < linked /\ linked <= block["tail"] + 2
  /\ linked = block["tail"] + 2 => index["tail"] = Start(block["tail"]) + BlockCap

\* What a thread has loaded is old in one direction only, and a receiver that
\* tries to take a slot has seen the tail behind it.
CallOK(t) ==
  /\ t \notin alive => pc[t] = "idle"
  /\ t \in Senders => pc[t] \notin {"load_ready", "load_tail", "check_disc", "reload_tail",
                                   "retire", "wait_ready", "read"}
  /\ t \in Receivers => pc[t] \notin {"write", "publish"}
  /\ Looking(t) => t \in pinned /\ blk[t] <= block[EndOf(t)]
  /\ Looking(t) /\ pc[t] # "load_index" =>
       idx[t] <= index[EndOf(t)] /\ Start(blk[t]) <= idx[t] /\ Offset(t) <= BlockCap
  /\ Looking(t) /\ pc[t] \notin {"load_index", "install", "advance"} => Offset(t) < BlockCap
  /\ pc[t] \in {"install", "advance", "retire"} => Offset(t) >= BlockCap - 1
  /\ pc[t] = "advance" => blk[t] + 2 <= linked
  /\ pc[t] = "retire" => blk[t] < block["head"]
  /\ t \in Receivers /\ pc[t] = "cas" => idx[t] < index["tail"]
  /\ Holds(t) => idx[t] < index[EndOf(t)]

CallsOK == \A t \in Threads : CallOK(t)

\* A slot has one owner at each end.
OwnersOK ==
  \A t, u \in Threads :
    EndOf(t) = EndOf(u) /\ Holds(t) /\ Holds(u) /\ idx[t] = idx[u] => t = u

SenderOK(s) ==
  /\ pc[s] = "load_block" \/ (Looking(s) /\ ~Holds(s)) =>
       count[s] < MaxSends /\ msg[s] = <<s, count[s] + 1>>
  /\ Holds(s) => count[s] > 0 /\ msg[s] = <<s, count[s]>> /\ ~slots[idx[s]].ready
  /\ Writing(s) => slots[idx[s]].msg = NoMsg
                   /\ \A i \in 0 .. MaxIndex : slots[i].msg # msg[s]
  /\ pc[s] = "publish" => slots[idx[s]].msg = msg[s]

SlotOK(i) ==
  /\ slots[i].ready => slots[i].msg # NoMsg
  /\ slots[i].msg # NoMsg => i < index["tail"] /\ slots[i].msg[2] <= count[slots[i].msg[1]]
  /\ slots[i].msg = NoMsg /\ i < index["tail"] => \E s \in Senders : Writing(s) /\ idx[s] = i

\* Every slot behind the tail has its own message, written or in the hands of
\* the slot's owner, and no message is in two places.
ContentsOK ==
  /\ \A s \in Senders : SenderOK(s)
  /\ \A i \in 0 .. MaxIndex : SlotOK(i)
  /\ \A i, j \in 0 .. MaxIndex : slots[i].msg # NoMsg /\ slots[i].msg = slots[j].msg => i = j

\* A block is given up once the head has left it, and everybody who may still
\* look into it is one of those it waits for.
GuardsOK ==
  /\ \A b \in DOMAIN retired : b < block["head"]
  /\ \A b \in freed : b < block["head"] \/ (alive = {} /\ b = block["head"] /\ index["head"] = index["tail"])
  /\ \A t \in Threads : Holds(t) \/ (t \in Receivers /\ Looking(t)) =>
       blk[t] \notin freed /\ (blk[t] \in DOMAIN retired => t \in retired[blk[t]])

\* What is behind the head is moved out, or disposed of, exactly once, but for
\* what a receiver still has to do.
MovedOut(i) == i < index["head"] /\ ~ \E r \in Receivers : Holds(r) /\ idx[r] = i

Disposed(b) ==
  \/ b < block["head"] /\ ~ \E r \in Receivers : Retiring(r) /\ blk[r] = b
  \/ b = block["head"] /\ b \in freed

BooksOK ==
  /\ \A i \in 0 .. MaxIndex : moved[i] = IF MovedOut(i) THEN 1 ELSE 0
  /\ \A b \in Blocks : disposed[b] = IF Disposed(b) THEN 1 ELSE 0

IInv == EndsOK /\ CallsOK /\ OwnersOK /\ ContentsOK /\ GuardsOK /\ BooksOK
-------------------------------------------------------------------------------
(* The refinement: an unbounded channel is a queue that is never full. *)

\* A message is in the queue from the moment the tail moves past its slot.
Content(i) ==
  IF slots[i].msg # NoMsg
  THEN slots[i].msg
  ELSE msg[CHOOSE s \in Senders : Holds(s) /\ idx[s] = i]

AbsStatus(t) ==
  CASE Holds(t) -> "ok"
    [] pc[t] \in {"load_block", "load_index", "cas", "install", "advance", "load_ready",
                  "load_tail"} /\ ~Holds(t) -> "pending"
    [] pc[t] \in {"check_disc", "reload_tail"} -> "glanced"
    [] OTHER -> pc[t]

AbsQueue == [n \in 1 .. index["tail"] - index["head"] |-> Content(index["head"] + n - 1)]

AbsVal(t) == IF t \in Receivers /\ Holds(t) THEN Content(idx[t]) ELSE msg[t]

Abs == INSTANCE BoundedQueue WITH
  Cap <- MaxIndex + 1,
  queue <- AbsQueue,
  status <- [t \in Threads |-> AbsStatus(t)],
  val <- [t \in Threads |-> AbsVal(t)]

\* try_send and try_recv on an unbounded channel behave as atomic operations
\* on a FIFO queue: nothing is lost, duplicated or reordered, and Empty and
\* Disconnected are never false, whatever the state of the block list.
Implements == Abs!Spec

\* Nobody spins for ever: not on a missing or stale block, not on a slot that
\* is being written, not in the compare-exchange.
EveryCallReturns ==
  \A t \in Threads : pc[t] \notin Answered \cup {"idle"} ~> pc[t] \in Answered
===============================================================================

-------------------------- MODULE ArrayChannelProofs ---------------------------
(***************************************************************************)
(* Proofs about ArrayChannel, for any number of threads, any capacity and  *)
(* any number of messages: the wakers hold exactly the operations that     *)
(* wait, and no wakeup is lost.                                            *)
(***************************************************************************)
EXTENDS ArrayChannel, FiniteSetTheorems, SequenceTheorems, WellFoundedInduction, TLAPS

\* The types, without the bound of cursor.
Typed ==
  /\ head \in 0 .. tail /\ tail - head <= Cap /\ tail \in Nat
  /\ slots \in [0 .. Cap - 1 -> {"free", "writing", "full", "reading"}]
  /\ disconnected \in BOOLEAN
  /\ alive \subseteq Threads
  /\ sent \in [Senders -> 0 .. MaxSends]
  /\ pc \in [Threads -> Labels]
  /\ pos \in [Threads -> 0 .. tail]
  /\ expired \in [Threads -> BOOLEAN]
  /\ entries \in [Wakers -> Seq([thread : Threads, oper : Threads])]
  /\ locked \in [Wakers -> Threads \cup {NoThread}]
  /\ cursor \in [Threads -> Nat]
  /\ select \in [Threads -> {"waiting", "aborted", "disconnected"} \cup Threads]
  /\ token \in [Threads -> BOOLEAN]

\* t is in the closure given to Context::with, and wake_one has not selected it.
Waits(t) == pc[t] \in MayBeRegistered /\ select[t] # t

\* t holds the mutex of waker w.
Holds(t, w) ==
  \/ pc[t] = "wake_unpark" /\ w = Other(t)
  \/ pc[t] = "disc_senders" /\ w = "senders"
  \/ pc[t] = "disc_receivers" /\ w = "receivers"

\* Entry k of waker w is the one that wake_one is about to remove.
Claimed(w, k) == locked[w] \in Threads /\ pc[locked[w]] = "wake_unpark" /\ cursor[locked[w]] = k

\* An entry belongs to a thread of its side, which has no other; that thread
\* waits, unless wake_one has selected it.
EntryOK(w, k) ==
  /\ entries[w][k].oper = entries[w][k].thread
  /\ Own(entries[w][k].thread) = w
  /\ \A j \in 1 .. Len(entries[w]) : entries[w][j].thread = entries[w][k].thread => j = k
  /\ Claimed(w, k) <=> ~Waits(entries[w][k].thread)

EntriesOK ==
  /\ \A w \in Wakers : \A k \in 1 .. Len(entries[w]) : EntryOK(w, k)
  /\ \A t \in Threads : Waits(t) => Registered(t)

\* The mutexes are held across steps by wake_one and disconnect only; where
\* the holder has got to is an entry, or in disconnect the end.
HoldersOK ==
  /\ \A w \in Wakers, t \in Threads : locked[w] = t <=> Holds(t, w)
  /\ \A t \in Threads : pc[t] \notin {"wake_unpark", "disc_senders", "disc_receivers"} => cursor[t] = 0
  /\ \A w \in Wakers, t \in Threads : Holds(t, w) =>
       cursor[t] \in 1 .. Len(entries[w]) + (IF pc[t] = "wake_unpark" THEN 0 ELSE 1)

\* What each label says of the call and of the context.
LabelOK(t) ==
  /\ select[t] \in {"waiting", "aborted", "disconnected", t}
  /\ pc[t] = "register" => select[t] = "waiting"
  /\ pc[t] = "unregister" => select[t] \in {"aborted", "disconnected"}
  /\ pc[t] = "load_second" /\ t \in Receivers => pos[t] <= head
  /\ t \in Senders /\ pc[t] \in MayBeRegistered \cup {"check_disc", "claim", "context", "register",
                                                     "check_deadline"} => sent[t] < MaxSends

LabelsOK == \A t \in Threads : LabelOK(t)

IInv == EntriesOK /\ HoldersOK /\ LabelsOK

\* t will go to sleep if nobody selects it.
Committed(t) == pc[t] \in {"load_disc", "wait", "parked"} /\ select[t] = "waiting"

WakeupsOK ==
  ~disconnected => \A t \in Threads : Committed(t) => Available(t) <= Cardinality(Owing(t))
-------------------------------------------------------------------------------
(* Operators of the model. *)

\* Min of a set of natural numbers is its least element.
LEMMA MinIsLeast ==
  ASSUME NEW S \in SUBSET Nat, S # {}
  PROVE  Min(S) \in S /\ \A y \in S : Min(S) <= y
<1>1. PICK x \in S : \A y \in S : ~(<<y, x>> \in OpToRel(<, Nat))
  <2>1. PICK z \in S : TRUE
    OBVIOUS
  <2>2. IsWellFoundedOn(OpToRel(<, Nat), Nat)
    BY NatLessThanWellFounded
  <2> QED
    BY <2>1, <2>2, WFMin
<1>2. ASSUME NEW y \in S PROVE x <= y
  <2>1. \A a, b \in Nat : a < b => <<a, b>> \in OpToRel(<, Nat)
    BY DEF OpToRel
  <2>2. ~(y < x)
    BY <1>1, <2>1
  <2> QED
    BY <2>2
<1> QED
  BY <1>2 DEF Min

\* RemoveAt moves what follows one place down.
LEMMA RemoveAtShifts ==
  ASSUME NEW S, NEW q \in Seq(S), NEW i \in 1 .. Len(q)
  PROVE  /\ RemoveAt(q, i) \in Seq(S)
         /\ Len(RemoveAt(q, i)) = Len(q) - 1
         /\ \A j \in 1 .. Len(q) - 1 : RemoveAt(q, i)[j] = q[IF j < i THEN j ELSE j + 1]
<1> DEFINE before == SubSeq(q, 1, i - 1)
           after == SubSeq(q, i + 1, Len(q))
<1>1. before \in Seq(S) /\ Len(before) = i - 1 /\ \A j \in 1 .. i - 1 : before[j] = q[j]
  BY SubSeqProperties, i - 1 \in Int, LenProperties
<1>2. /\ after \in Seq(S) /\ Len(after) = Len(q) - i
      /\ \A j \in 1 .. Len(q) - i : after[j] = q[i + j]
  BY SubSeqProperties, LenProperties
<1>3. RemoveAt(q, i) = before \o after
  BY DEF RemoveAt
<1> HIDE DEF before, after
<1>4. RemoveAt(q, i) \in Seq(S) /\ Len(RemoveAt(q, i)) = Len(q) - 1
  BY <1>1, <1>2, <1>3, ConcatProperties, LenProperties
<1>5. ASSUME NEW j \in 1 .. Len(q) - 1
      PROVE  RemoveAt(q, i)[j] = q[IF j < i THEN j ELSE j + 1]
  <2>1. RemoveAt(q, i)[j] = IF j <= Len(before) THEN before[j] ELSE after[j - Len(before)]
    BY <1>1, <1>2, <1>3, ConcatProperties, LenProperties
  <2>2. CASE j < i
    BY <2>1, <2>2, <1>1
  <2>3. CASE ~(j < i)
    BY <2>1, <2>3, <1>1, <1>2
  <2> QED
    BY <2>2, <2>3
<1> QED
  BY <1>4, <1>5

\* The operations that unregister finds; it removes the first of them.
Asking(w, oper) == {k \in 1 .. Len(entries[w]) : entries[w][k].oper = oper}

LEMMA UnregisterIs ==
  ASSUME NEW w, NEW oper, Unregister(w, oper), Asking(w, oper) # {}
  PROVE  entries' = [entries EXCEPT ![w] = RemoveAt(@, Min(Asking(w, oper)))]
BY DEF Unregister, SelectInSeq, Asking
-------------------------------------------------------------------------------
(* Threads and entries. *)

\* Where the maps are defined.
LEMMA Domains ==
  Typed => /\ DOMAIN pc = Threads /\ DOMAIN pos = Threads /\ DOMAIN cursor = Threads
           /\ DOMAIN select = Threads /\ DOMAIN locked = Wakers /\ DOMAIN entries = Wakers
BY DEF Typed

\* What the invariant says of the holders of the mutexes.
LEMMA Holding ==
  IInv => /\ \A w \in Wakers, t \in Threads : locked[w] = t <=> Holds(t, w)
          /\ \A t \in Threads :
               pc[t] \notin {"wake_unpark", "disc_senders", "disc_receivers"} => cursor[t] = 0
BY DEF IInv, HoldersOK

\* A thread is on one side, and the two sides have different wakers.
LEMMA Sides ==
  /\ NoThread \notin Threads
  /\ \A t \in Threads : t \notin {"waiting", "aborted", "disconnected"}
  /\ \A t \in Threads : t \in Senders <=> t \notin Receivers
  /\ \A t : Own(t) \in Wakers /\ Other(t) \in Wakers /\ Own(t) # Other(t)
  /\ \A t, u : Own(t) # Own(u) <=> Own(u) = Other(t)
  /\ \A t, u \in Threads : Own(t) = Own(u) <=> u \in SideOf(t)
BY ThreadAssumption DEF Threads, Own, Other, Wakers, SideOf

\* An entry is a thread and its operation.
LEMMA EntryType ==
  ASSUME Typed, NEW w \in Wakers
  PROVE  /\ entries[w] \in Seq([thread : Threads, oper : Threads])
         /\ Len(entries[w]) \in Nat
         /\ \A k \in 1 .. Len(entries[w]) :
              /\ entries[w][k] \in [thread : Threads, oper : Threads]
              /\ entries[w][k].thread \in Threads
              /\ entries[w][k].oper \in Threads
<1>1. entries[w] \in Seq([thread : Threads, oper : Threads])
  BY DEF Typed
<1>2. \A k \in 1 .. Len(entries[w]) : entries[w][k] \in [thread : Threads, oper : Threads]
  BY <1>1, LenProperties
<1> QED
  BY <1>1, <1>2, LenProperties

\* Nobody is between the two halves of a wake_one on a waker that is not
\* locked, or that is locked by disconnect: all of its entries wait.
LEMMA EntriesWait ==
  ASSUME Typed, EntriesOK, HoldersOK, NEW w \in Wakers, NEW k \in 1 .. Len(entries[w]),
         locked[w] = NoThread \/ pc[locked[w]] # "wake_unpark"
  PROVE  /\ entries[w][k].thread \in Threads /\ Own(entries[w][k].thread) = w
         /\ entries[w][k].oper = entries[w][k].thread
         /\ Waits(entries[w][k].thread)
<1>1. ~Claimed(w, k)
  BY Sides DEF Claimed
<1>2. EntryOK(w, k)
  BY DEF EntriesOK
<1> QED
  BY <1>1, <1>2, EntryType DEF EntryOK

\* What wake_one selects.
LEMMA SelectableIs ==
  ASSUME Typed, NEW w \in Wakers, NEW t \in Threads, Selectable(w, t) # {}
  PROVE  /\ Min(Selectable(w, t)) \in 1 .. Len(entries[w])
         /\ entries[w][Min(Selectable(w, t))].thread # t
         /\ select[entries[w][Min(Selectable(w, t))].thread] = "waiting"
<1>1. Selectable(w, t) \subseteq 1 .. Len(entries[w]) /\ Selectable(w, t) \in SUBSET Nat
  BY EntryType DEF Selectable
<1>2. Min(Selectable(w, t)) \in Selectable(w, t)
  BY <1>1, MinIsLeast
<1> QED
  BY <1>2 DEF Selectable

\* A thread that waits has one entry, and unregister finds it.
LEMMA AskingIs ==
  ASSUME Typed, EntriesOK, HoldersOK, NEW t \in Threads, Waits(t), locked[Own(t)] = NoThread
  PROVE  /\ Asking(Own(t), t) # {}
         /\ Min(Asking(Own(t), t)) \in 1 .. Len(entries[Own(t)])
         /\ entries[Own(t)][Min(Asking(Own(t), t))].thread = t
<1>1. PICK k \in 1 .. Len(entries[Own(t)]) : entries[Own(t)][k].thread = t
  BY DEF EntriesOK, Registered
<1>2. \A j \in 1 .. Len(entries[Own(t)]) : entries[Own(t)][j].oper = entries[Own(t)][j].thread
  BY Sides, EntriesWait
<1>3. Asking(Own(t), t) # {} /\ Asking(Own(t), t) \in SUBSET Nat
  BY <1>1, <1>2, Sides, EntryType DEF Asking
<1>4. Min(Asking(Own(t), t)) \in Asking(Own(t), t)
  BY <1>3, MinIsLeast
<1> QED
  BY <1>2, <1>3, <1>4 DEF Asking
-------------------------------------------------------------------------------
(* Every step keeps the types. *)

\* The wakers and the contexts.
WaitingTyped ==
  /\ entries \in [Wakers -> Seq([thread : Threads, oper : Threads])]
  /\ locked \in [Wakers -> Threads \cup {NoThread}]
  /\ cursor \in [Threads -> Nat]
  /\ select \in [Threads -> {"waiting", "aborted", "disconnected"} \cup Threads]
  /\ token \in [Threads -> BOOLEAN]

\* A step of wake_one, register, unregister or disconnect.
WakerStep(t) ==
  \/ WakeOther(t) \/ UnparkOther(t) \/ RegisterOper(t) \/ UnregisterOper(t)
  \/ LockWaker(t) \/ DisconnectWaker(t)

\* A step that touches nobody's context but that of its thread, and no waker.
OwnStep(t) ==
  \/ BeginCall(t) \/ CheckDisconnected(t) \/ Reserve(t) \/ FindFull(t) \/ Claim(t) \/ FindEmpty(t)
  \/ Use(t) \/ WakeLen(t) \/ EnterContext(t) \/ LoadFirst(t) \/ LoadSecond(t)
  \/ LoadDisconnected(t) \/ Abort(t) \/ Wait(t) \/ GiveUp(t) \/ Unparked(t) \/ ParkTimesOut(t)
  \/ SpuriousWakeup(t) \/ CheckDeadline(t) \/ Return(t) \/ Expire(t) \/ DropHandle(t)
  \/ SwapDisconnected(t)

LEMMA OwnStepFrame ==
  ASSUME Typed, NEW t \in Threads, OwnStep(t)
  PROVE  /\ UNCHANGED <<entries, locked, cursor>>
         /\ \/ UNCHANGED select
            \/ select' = [select EXCEPT ![t] = "waiting"]
            \/ select' = [select EXCEPT ![t] = IF @ = "waiting" THEN "aborted" ELSE @]
         /\ UNCHANGED token \/ token' = [token EXCEPT ![t] = FALSE]
         /\ pc' = pc \/ \E label \in Labels : pc' = [pc EXCEPT ![t] = label]
<1>1. CASE \/ BeginCall(t) \/ CheckDisconnected(t) \/ Reserve(t) \/ FindFull(t) \/ Claim(t)
           \/ FindEmpty(t) \/ Use(t) \/ WakeLen(t) \/ LoadFirst(t) \/ LoadSecond(t)
           \/ LoadDisconnected(t) \/ Wait(t) \/ ParkTimesOut(t) \/ SpuriousWakeup(t)
           \/ CheckDeadline(t) \/ Expire(t) \/ DropHandle(t) \/ SwapDisconnected(t)
  <2>1. UNCHANGED waiting
    BY <1>1 DEF BeginCall, CheckDisconnected, Reserve, FindFull, Claim, FindEmpty, Use, WakeLen,
                LoadFirst, LoadSecond, LoadDisconnected, Wait, ParkTimesOut, SpuriousWakeup,
                CheckDeadline, Expire, DropHandle, SwapDisconnected
  <2>2. pc' = pc \/ \E label \in Labels : pc' = [pc EXCEPT ![t] = label]
    BY <1>1 DEF BeginCall, CheckDisconnected, Reserve, FindFull, Claim, FindEmpty, Use, WakeLen,
                LoadFirst, LoadSecond, LoadDisconnected, Wait, ParkTimesOut, SpuriousWakeup,
                CheckDeadline, Expire, DropHandle, SwapDisconnected, Goto, FirstStep, AfterSelect,
                Labels, Answered
  <2> QED
    BY <2>1, <2>2 DEF waiting
<1>2. CASE EnterContext(t) \/ Return(t)
  BY <1>2 DEF EnterContext, Return, Reset, Goto, Labels
<1>3. CASE Abort(t) \/ GiveUp(t)
  BY <1>3 DEF Abort, GiveUp, TrySelect, Goto, AfterSelect, Labels
<1>4. CASE Unparked(t)
  BY <1>4 DEF Unparked, TakeToken, Goto, Labels
<1> QED
  BY <1>1, <1>2, <1>3, <1>4 DEF OwnStep

LEMMA WakerStepFrame ==
  ASSUME Typed, NEW t \in Threads, WakerStep(t)
  PROVE  /\ UNCHANGED <<queueVars, callVars>>
         /\ pc' = pc \/ \E label \in Labels : pc' = [pc EXCEPT ![t] = label]
BY DEF WakerStep, WakeOther, UnparkOther, RegisterOper, UnregisterOper, LockWaker, DisconnectWaker,
       Goto, Labels, Answered

\* Every step is of one kind or the other.
LEMMA StepKinds ==
  ASSUME NEW t \in Threads
  PROVE  BeginCall(t) \/ Step(t) \/ SpuriousWakeup(t) \/ Expire(t) \/ DropHandle(t)
           <=> OwnStep(t) \/ WakerStep(t)
BY DEF Step, Queue, Blocking, Dropping, OwnStep, WakerStep

LEMMA OwnStepTyped ==
  ASSUME Typed, IInv, NEW t \in Threads, OwnStep(t)
  PROVE  Typed'
<1>1. WaitingTyped' /\ pc' \in [Threads -> Labels]
  <2>1. UNCHANGED <<entries, locked, cursor>>
    BY OwnStepFrame
  <2>2. select' \in [Threads -> {"waiting", "aborted", "disconnected"} \cup Threads]
    <3>1. \/ UNCHANGED select
          \/ \E sel \in {"waiting", "aborted", select[t]} : select' = [select EXCEPT ![t] = sel]
      BY OwnStepFrame
    <3> QED
      BY <3>1 DEF Typed
  <2>3. token' \in [Threads -> BOOLEAN]
    <3>1. UNCHANGED token \/ token' = [token EXCEPT ![t] = FALSE]
      BY OwnStepFrame
    <3> QED
      BY <3>1 DEF Typed
  <2>4. pc' \in [Threads -> Labels]
    <3>1. pc' = pc \/ \E label \in Labels : pc' = [pc EXCEPT ![t] = label]
      BY OwnStepFrame
    <3> QED
      BY <3>1 DEF Typed
  <2> QED
    BY <2>1, <2>2, <2>3, <2>4 DEF Typed, WaitingTyped
<1>2. LabelOK(t)
  BY DEF IInv, LabelsOK
<1>3. CASE Reserve(t)
  <2>1. sent[t] < MaxSends /\ sent[t] \in Nat
    BY <1>2, <1>3, BoundAssumption DEF LabelOK, Reserve, Typed
  <2>2. sent' \in [Senders -> 0 .. MaxSends]
    BY <1>3, <2>1, BoundAssumption DEF Reserve, Typed
  <2>3. /\ tail' = tail + 1 /\ head' = head /\ tail - head < Cap
        /\ head \in Nat /\ tail \in Nat /\ Cap \in Nat
        /\ head <= tail
    BY <1>3, CapAssumption DEF Reserve, Typed
  <2>4. head' \in 0 .. tail' /\ tail' - head' <= Cap /\ tail' \in Nat
    BY <2>3
  <2>5. pos' \in [Threads -> 0 .. tail']
    BY <1>3, <2>3 DEF Reserve, Typed
  <2>6. slots' \in [0 .. Cap - 1 -> {"free", "writing", "full", "reading"}]
    BY <1>3 DEF Reserve, Typed
  <2> QED
    BY <1>1, <1>3, <2>2, <2>4, <2>5, <2>6 DEF Reserve, Typed, WaitingTyped
<1>4. CASE Claim(t)
  <2>1. head' \in 0 .. tail' /\ tail' - head' <= Cap /\ tail' \in Nat
    BY <1>4, CapAssumption DEF Claim, Typed
  <2>2. pos' \in [Threads -> 0 .. tail']
    BY <1>4, CapAssumption DEF Claim, Typed
  <2>3. slots' \in [0 .. Cap - 1 -> {"free", "writing", "full", "reading"}]
    BY <1>4 DEF Claim, Typed
  <2> QED
    BY <1>1, <1>4, <2>1, <2>2, <2>3 DEF Claim, Typed, WaitingTyped
<1>5. CASE Use(t)
  <2>1. slots' \in [0 .. Cap - 1 -> {"free", "writing", "full", "reading"}]
    BY <1>5 DEF Use, Typed
  <2>2. pos' \in [Threads -> 0 .. tail]
    BY <1>5 DEF Use, Typed
  <2> QED
    BY <1>1, <1>5, <2>1, <2>2 DEF Use, Typed, WaitingTyped
<1>6. CASE LoadFirst(t) \/ LoadSecond(t)
  <2>1. pos' \in [Threads -> 0 .. tail]
    BY <1>6 DEF LoadFirst, LoadSecond, Typed
  <2> QED
    BY <1>1, <1>6, <2>1 DEF LoadFirst, LoadSecond, queueVars, Typed, WaitingTyped
<1>7. CASE \/ BeginCall(t) \/ CheckDisconnected(t) \/ FindFull(t) \/ FindEmpty(t) \/ WakeLen(t)
           \/ EnterContext(t) \/ LoadDisconnected(t) \/ Abort(t) \/ Wait(t) \/ GiveUp(t)
           \/ Unparked(t) \/ ParkTimesOut(t) \/ SpuriousWakeup(t) \/ CheckDeadline(t)
  <2>1. UNCHANGED <<queueVars, callVars>>
    BY <1>7 DEF BeginCall, CheckDisconnected, FindFull, FindEmpty, WakeLen, EnterContext,
                LoadDisconnected, Abort, Wait, GiveUp, Unparked, ParkTimesOut, SpuriousWakeup,
                CheckDeadline
  <2> QED
    BY <1>1, <2>1 DEF queueVars, callVars, Typed, WaitingTyped
<1>8. CASE Return(t) \/ Expire(t) \/ DropHandle(t) \/ SwapDisconnected(t)
  BY <1>1, <1>8 DEF Return, Expire, DropHandle, SwapDisconnected, queueVars, Typed, WaitingTyped
<1> QED
  BY <1>3, <1>4, <1>5, <1>6, <1>7, <1>8 DEF OwnStep

\* What unregister does.
LEMMA UnregisterRemoves ==
  ASSUME Typed, IInv, NEW t \in Threads, UnregisterOper(t)
  PROVE  \E k \in 1 .. Len(entries[Own(t)]) :
           /\ entries[Own(t)][k].thread = t
           /\ entries' = [entries EXCEPT ![Own(t)] = RemoveAt(@, k)]
<1>1. Waits(t) /\ locked[Own(t)] = NoThread
  BY Sides DEF UnregisterOper, Unregister, IInv, LabelsOK, LabelOK, Waits, MayBeRegistered
<1>2. /\ Asking(Own(t), t) # {}
      /\ Min(Asking(Own(t), t)) \in 1 .. Len(entries[Own(t)])
      /\ entries[Own(t)][Min(Asking(Own(t), t))].thread = t
  BY <1>1, AskingIs DEF IInv
<1>3. entries' = [entries EXCEPT ![Own(t)] = RemoveAt(@, Min(Asking(Own(t), t)))]
  BY <1>2, UnregisterIs DEF UnregisterOper
<1> QED
  BY <1>2, <1>3

\* What wake_one finds.
LEMMA WakeFinds ==
  ASSUME Typed, IInv, NEW t \in Threads, WakeOther(t)
  PROVE  \/ Selectable(Other(t), t) = {} /\ UNCHANGED waiting /\ pc' = [pc EXCEPT ![t] = "ok"]
         \/ \E k \in 1 .. Len(entries[Other(t)]), u \in Threads :
              /\ entries[Other(t)][k].thread = u /\ u # t /\ Own(u) = Other(t)
              /\ Waits(u) /\ select[u] = "waiting"
              /\ locked' = [locked EXCEPT ![Other(t)] = t]
              /\ cursor' = [cursor EXCEPT ![t] = k]
              /\ select' = [select EXCEPT ![u] = u]
              /\ pc' = [pc EXCEPT ![t] = "wake_unpark"]
              /\ UNCHANGED <<entries, token>>
<1> DEFINE w == Other(t)
<1>1. w \in Wakers /\ locked[w] = NoThread /\ t # NoThread
  BY Sides DEF WakeOther, WakeSelect
<1>2. CASE Selectable(w, t) = {}
  BY <1>1, <1>2 DEF WakeOther, WakeSelect, wakerVars, waiting, Goto
<1>3. CASE Selectable(w, t) # {}
  <2> DEFINE k == Min(Selectable(w, t))
             u == entries[w][k].thread
  <2>1. k \in 1 .. Len(entries[w]) /\ u # t /\ select[u] = "waiting"
    BY <1>1, <1>3, SelectableIs
  <2>2. u \in Threads /\ Own(u) = w /\ entries[w][k].oper = u /\ Waits(u)
    BY <1>1, <2>1, EntriesWait DEF IInv
  <2>3. /\ locked' = [locked EXCEPT ![w] = t]
        /\ cursor' = [cursor EXCEPT ![t] = k]
        /\ select' = [select EXCEPT ![u] = entries[w][k].oper]
        /\ UNCHANGED <<entries, token>>
        /\ pc' = [pc EXCEPT ![t] = IF locked'[w] = t THEN "wake_unpark" ELSE "ok"]
    BY <1>3 DEF WakeOther, WakeSelect, Goto
  <2>4. locked'[w] = t
    BY <1>1, <2>3 DEF Typed
  <2> HIDE DEF k, u, w
  <2>5. w = Other(t)
    BY DEF w
  <2>6. u = entries[w][k].thread
    BY DEF u
  <2> QED
    BY <2>1, <2>2, <2>3, <2>4, <2>5, <2>6
<1> QED
  BY <1>2, <1>3

LEMMA WakerStepTyped ==
  ASSUME Typed, IInv, NEW t \in Threads, WakerStep(t)
  PROVE  Typed'
<1>1. UNCHANGED <<queueVars, callVars>> /\ pc' \in [Threads -> Labels]
  BY WakerStepFrame DEF Typed
<1> SUFFICES WaitingTyped'
  BY <1>1 DEF queueVars, callVars, Typed, WaitingTyped
<1>2. WaitingTyped
  BY DEF Typed, WaitingTyped
<1>3. Own(t) \in Wakers /\ Other(t) \in Wakers
  BY Sides
<1>4. CASE WakeOther(t)
  <2>1. CASE UNCHANGED waiting
    BY <1>2, <2>1 DEF waiting, WaitingTyped
  <2>2. CASE ~UNCHANGED waiting
    <3>1. PICK k \in 1 .. Len(entries[Other(t)]), u \in Threads :
            /\ locked' = [locked EXCEPT ![Other(t)] = t]
            /\ cursor' = [cursor EXCEPT ![t] = k]
            /\ select' = [select EXCEPT ![u] = u]
            /\ UNCHANGED <<entries, token>>
      BY <1>4, <2>2, WakeFinds
    <3>2. k \in Nat
      BY <1>3, EntryType
    <3> QED
      BY <1>2, <3>1, <3>2 DEF WaitingTyped
  <2> QED
    BY <2>1, <2>2
<1>5. CASE UnparkOther(t)
  <2>1. locked[Other(t)] = t /\ cursor[t] \in 1 .. Len(entries[Other(t)])
    <3>1. pc[t] = "wake_unpark" /\ locked[Other(t)] = t
      BY <1>5 DEF UnparkOther, WakeUnpark
    <3>2. cursor[t] \in 1 .. Len(entries[Other(t)]) + (IF pc[t] = "wake_unpark" THEN 0 ELSE 1)
      BY <1>3, <3>1 DEF IInv, HoldersOK
    <3> QED
      BY <1>3, <3>1, <3>2, EntryType
  <2>2. RemoveAt(entries[Other(t)], cursor[t]) \in Seq([thread : Threads, oper : Threads])
    BY <1>3, <2>1, EntryType, RemoveAtShifts
  <2>3. entries' \in [Wakers -> Seq([thread : Threads, oper : Threads])]
    BY <1>2, <1>5, <2>2 DEF UnparkOther, WakeUnpark, WaitingTyped
  <2> QED
    BY <1>2, <1>5, <2>3 DEF UnparkOther, WakeUnpark, WaitingTyped
<1>6. CASE RegisterOper(t)
  <2>1. Append(entries[Own(t)], Entry(t, t)) \in Seq([thread : Threads, oper : Threads])
    BY <1>3, EntryType, AppendProperties DEF Entry
  <2> QED
    BY <1>2, <1>6, <2>1 DEF RegisterOper, Register, WaitingTyped
<1>7. CASE UnregisterOper(t)
  <2>1. PICK k \in 1 .. Len(entries[Own(t)]) :
          entries' = [entries EXCEPT ![Own(t)] = RemoveAt(@, k)]
    BY <1>7, UnregisterRemoves
  <2>2. RemoveAt(entries[Own(t)], k) \in Seq([thread : Threads, oper : Threads])
    BY <1>3, EntryType, RemoveAtShifts
  <2> QED
    BY <1>2, <1>7, <2>1, <2>2 DEF UnregisterOper, Unregister, WaitingTyped
<1>8. CASE LockWaker(t)
  <2>1. PICK w \in Wakers : DisconnectLock(w, t)
    BY <1>8 DEF LockWaker, Wakers
  <2> QED
    BY <1>2, <2>1 DEF DisconnectLock, WaitingTyped
<1>9. CASE DisconnectWaker(t)
  <2>1. PICK w \in Wakers : DisconnectEntry(w, t) \/ DisconnectUnlock(w, t)
    BY <1>9 DEF DisconnectWaker, Wakers
  <2>2. CASE DisconnectEntry(w, t)
    <3>1. cursor' = [cursor EXCEPT ![t] = cursor[t] + 1] /\ UNCHANGED <<entries, locked>>
      BY <2>2 DEF DisconnectEntry
    <3>2. \/ UNCHANGED <<select, token>>
          \/ \E z : /\ select' = [select EXCEPT ![z] = "disconnected"]
                    /\ token' = [token EXCEPT ![z] = TRUE]
      BY <2>2, Zenon DEF DisconnectEntry
    <3>3. cursor' \in [Threads -> Nat]
      BY <1>2, <3>1 DEF WaitingTyped
    <3>4. select' \in [Threads -> {"waiting", "aborted", "disconnected"} \cup Threads]
      BY <1>2, <3>2 DEF WaitingTyped
    <3>5. token' \in [Threads -> BOOLEAN]
      BY <1>2, <3>2 DEF WaitingTyped
    <3> QED
      BY <1>2, <3>1, <3>3, <3>4, <3>5 DEF WaitingTyped
  <2>3. CASE DisconnectUnlock(w, t)
    BY <1>2, <2>3 DEF DisconnectUnlock, WaitingTyped
  <2> QED
    BY <2>1, <2>2, <2>3
<1> QED
  BY <1>4, <1>5, <1>6, <1>7, <1>8, <1>9 DEF WakerStep
-------------------------------------------------------------------------------
(* Every step keeps the wakers in order. *)

Waiters == {t \in Threads : Waits(t)}
Claims == {p \in Wakers \X Nat : Claimed(p[1], p[2])}

\* What EntriesOK says, in terms of these sets.
EntrySets ==
  /\ \A w \in Wakers : \A k \in 1 .. Len(entries[w]) :
       /\ entries[w][k].oper = entries[w][k].thread
       /\ Own(entries[w][k].thread) = w
       /\ \A j \in 1 .. Len(entries[w]) : entries[w][j].thread = entries[w][k].thread => j = k
       /\ <<w, k>> \in Claims <=> entries[w][k].thread \notin Waiters
  /\ \A t \in Waiters : \E k \in 1 .. Len(entries[Own(t)]) : entries[Own(t)][k].thread = t

LEMMA EntrySetsAre ==
  Typed => (EntriesOK <=> EntrySets)
<1> SUFFICES ASSUME Typed
             PROVE  EntriesOK <=> EntrySets
  OBVIOUS
<1>1. \A w \in Wakers : \A k \in 1 .. Len(entries[w]) :
        /\ <<w, k>> \in Claims <=> Claimed(w, k)
        /\ entries[w][k].thread \notin Waiters <=> ~Waits(entries[w][k].thread)
  BY EntryType DEF Claims, Waiters
<1>2. \A t : t \in Waiters <=> t \in Threads /\ Waits(t)
  BY DEF Waiters
<1> QED
  BY <1>1, <1>2 DEF EntrySets, EntriesOK, EntryOK, Registered

\* The entries stay as they are, and are claimed as their threads stop waiting.
LEMMA EntriesKept ==
  ASSUME EntrySets, UNCHANGED entries, Waiters' \subseteq Waiters,
         \A w \in Wakers : \A k \in 1 .. Len(entries[w]) :
           <<w, k>> \in Claims' <=> entries[w][k].thread \notin Waiters'
  PROVE  EntrySets'
<1>1. \A t \in Waiters' : \E k \in 1 .. Len(entries[Own(t)]) : entries[Own(t)][k].thread = t
  BY DEF EntrySets
<1>2. \A w \in Wakers : \A k \in 1 .. Len(entries[w]) :
        /\ entries[w][k].oper = entries[w][k].thread
        /\ Own(entries[w][k].thread) = w
        /\ \A j \in 1 .. Len(entries[w]) : entries[w][j].thread = entries[w][k].thread => j = k
  BY DEF EntrySets
<1> QED
  BY <1>1, <1>2 DEF EntrySets

\* An entry leaves a waker with its thread, which waits no longer.
LEMMA EntriesRemove ==
  ASSUME Typed, Typed', EntriesOK, NEW w \in Wakers, NEW k \in 1 .. Len(entries[w]),
         entries' = [entries EXCEPT ![w] = RemoveAt(@, k)],
         Waiters' = Waiters \ {entries[w][k].thread},
         Claims \subseteq Claims' \cup {<<w, k>>}, Claims' \subseteq Claims,
         \A j \in Nat : <<w, j>> \notin Claims', \A j \in Nat \ {k} : <<w, j>> \notin Claims
  PROVE  EntriesOK'
<1> DEFINE r == entries[w][k].thread
           q == entries[w]
           Old(j) == IF j < k THEN j ELSE j + 1
<1>1. EntrySets
  BY EntrySetsAre
<1>2. \A v \in Wakers : \A j \in 1 .. Len(entries[v]) :
        entries[v][j].oper = entries[v][j].thread /\ Own(entries[v][j].thread) = v
  BY <1>1 DEF EntrySets
<1>3. \A v \in Wakers : \A i, j \in 1 .. Len(entries[v]) :
        entries[v][i].thread = entries[v][j].thread => i = j
  BY <1>1 DEF EntrySets
<1>4. \A v \in Wakers : \A j \in 1 .. Len(entries[v]) :
        <<v, j>> \in Claims <=> entries[v][j].thread \notin Waiters
  BY <1>1 DEF EntrySets
<1>5. q \in Seq([thread : Threads, oper : Threads]) /\ Len(q) \in Nat /\ k \in 1 .. Len(q)
  BY EntryType
<1>6. entries'[w] = RemoveAt(q, k)
  BY DEF Typed
<1>7. /\ Len(RemoveAt(q, k)) = Len(q) - 1
      /\ \A j \in 1 .. Len(q) - 1 : RemoveAt(q, k)[j] = q[Old(j)]
  BY <1>5, RemoveAtShifts
<1>8. /\ Len(q) \in Nat
      /\ Len(entries'[w]) = Len(q) - 1
      /\ \A j \in 1 .. Len(q) - 1 : entries'[w][j] = q[Old(j)]
  BY <1>5, <1>6, <1>7
<1>9. \A j \in 1 .. Len(q) - 1 : Old(j) \in 1 .. Len(q) /\ Old(j) # k /\ Old(j) \in Nat
  BY <1>8
<1>10. \A j, l \in 1 .. Len(q) - 1 : Old(j) = Old(l) => j = l
  BY <1>8
<1>11. \A l \in 1 .. Len(q) : l # k => \E j \in 1 .. Len(q) - 1 : Old(j) = l
  <2> SUFFICES ASSUME NEW l \in 1 .. Len(q), l # k
               PROVE  \E j \in 1 .. Len(q) - 1 : Old(j) = l
    OBVIOUS
  <2>1. CASE l < k
    <3>1. l \in 1 .. Len(q) - 1 /\ Old(l) = l
      BY <1>8, <2>1
    <3> QED
      BY <3>1
  <2>2. CASE l > k
    <3>1. l - 1 \in 1 .. Len(q) - 1 /\ Old(l - 1) = l
      BY <1>8, <2>2
    <3> QED
      BY <3>1
  <2> QED
    BY <1>8, <2>1, <2>2
<1>12. \A v \in Wakers \ {w} : entries'[v] = entries[v]
  BY DEF Typed
<1> HIDE DEF Old, q
<1>13. ASSUME NEW v \in Wakers, NEW j \in 1 .. Len(entries'[v])
      PROVE  /\ entries'[v][j].oper = entries'[v][j].thread
             /\ Own(entries'[v][j].thread) = v
             /\ \A l \in 1 .. Len(entries'[v]) : entries'[v][l].thread = entries'[v][j].thread => l = j
             /\ <<v, j>> \in Claims' <=> entries'[v][j].thread \notin Waiters'
  <2>1. CASE v = w
    <3>1. /\ entries'[v][j] = q[Old(j)] /\ Old(j) \in 1 .. Len(q) /\ Old(j) # k /\ Old(j) \in Nat
          /\ j \in Nat
      BY <1>8, <1>9, <2>1
    <3>2. q[Old(j)].thread # r /\ q[Old(j)].thread \in Waiters
      BY <1>3, <1>4, <3>1 DEF q
    <3>3. ASSUME NEW l \in 1 .. Len(entries'[v]), entries'[v][l].thread = entries'[v][j].thread
          PROVE  l = j
      <4>1. entries'[v][l] = q[Old(l)] /\ Old(l) \in 1 .. Len(q)
        BY <1>8, <1>9, <2>1
      <4>2. Old(l) = Old(j)
        BY <1>3, <3>1, <3>3, <4>1 DEF q
      <4> QED
        BY <1>8, <1>10, <2>1, <4>2
    <3>4. <<v, j>> \notin Claims' /\ entries'[v][j].thread \in Waiters'
      BY <2>1, <3>1, <3>2
    <3> QED
      BY <1>2, <2>1, <3>1, <3>3, <3>4 DEF q
  <2>2. CASE v # w
    <3>1. entries'[v] = entries[v] /\ <<v, j>> # <<w, k>>
      BY <1>12, <2>2
    <3>2. entries[v][j].thread # r
      BY <1>2, <2>2, <3>1
    <3>3. <<v, j>> \in Claims' <=> <<v, j>> \in Claims
      BY <3>1
    <3> QED
      BY <1>2, <1>3, <1>4, <3>1, <3>2, <3>3
  <2> QED
    BY <2>1, <2>2
<1>14. ASSUME NEW t \in Waiters'
      PROVE  \E j \in 1 .. Len(entries'[Own(t)]) : entries'[Own(t)][j].thread = t
  <2>1. t # r /\ t \in Waiters
    OBVIOUS
  <2>2. PICK l \in 1 .. Len(entries[Own(t)]) : entries[Own(t)][l].thread = t
    BY <1>1, <2>1 DEF EntrySets
  <2>3. CASE Own(t) = w
    <3>1. l \in 1 .. Len(q) /\ l # k /\ q[l].thread = t
      BY <2>1, <2>2, <2>3 DEF q
    <3>2. PICK j \in 1 .. Len(q) - 1 : Old(j) = l
      BY <1>11, <3>1
    <3>3. j \in 1 .. Len(entries'[Own(t)]) /\ entries'[Own(t)][j].thread = t
      BY <1>8, <2>3, <3>1, <3>2
    <3> QED
      BY <3>3
  <2>4. CASE Own(t) # w
    <3>1. entries'[Own(t)] = entries[Own(t)]
      BY <1>12, <2>4, Sides
    <3> QED
      BY <2>2, <3>1
  <2> QED
    BY <2>3, <2>4
<1>15. EntrySets'
  BY <1>13, <1>14 DEF EntrySets
<1>16. (EntriesOK <=> EntrySets)'
  BY EntrySetsAre, PTL
<1> QED
  BY <1>15, <1>16

\* The labels of a thread that holds a mutex across steps.
HolderLabels == {"wake_unpark", "disc_senders", "disc_receivers"}

LEMMA OwnStepWaits ==
  ASSUME Typed, IInv, NEW t \in Threads, OwnStep(t)
  PROVE  /\ pc[t] \notin HolderLabels /\ pc'[t] \notin HolderLabels
         /\ Waits(t)' <=> Waits(t)
<1>1. LabelOK(t) /\ t \notin {"waiting", "aborted", "disconnected"}
  BY Sides DEF IInv, LabelsOK
<1>2. CASE \/ BeginCall(t) \/ CheckDisconnected(t) \/ Reserve(t) \/ FindFull(t) \/ Claim(t)
           \/ FindEmpty(t) \/ Use(t) \/ WakeLen(t) \/ EnterContext(t) \/ CheckDeadline(t)
           \/ Return(t) \/ DropHandle(t) \/ SwapDisconnected(t)
  <2>1. /\ pc[t] \notin HolderLabels \cup MayBeRegistered
        /\ pc'[t] \notin HolderLabels \cup MayBeRegistered
    BY <1>2 DEF BeginCall, CheckDisconnected, Reserve, FindFull, Claim, FindEmpty, Use, WakeLen,
                EnterContext, CheckDeadline, Return, DropHandle, SwapDisconnected, Goto, FirstStep,
                Answered, HolderLabels, MayBeRegistered, Typed
  <2> QED
    BY <2>1 DEF Waits
<1>3. CASE LoadFirst(t) \/ LoadSecond(t) \/ LoadDisconnected(t) \/ ParkTimesOut(t)
           \/ SpuriousWakeup(t)
  <2>1. /\ pc[t] \in MayBeRegistered /\ pc'[t] \in MayBeRegistered
        /\ UNCHANGED select
    BY <1>3 DEF LoadFirst, LoadSecond, LoadDisconnected, ParkTimesOut, SpuriousWakeup, Goto,
                waiting, MayBeRegistered, Typed
  <2> QED
    BY <2>1 DEF Waits, HolderLabels, MayBeRegistered
<1>4. CASE Unparked(t)
  BY <1>4 DEF Unparked, TakeToken, Goto, Waits, HolderLabels, MayBeRegistered, Typed
<1>5. CASE Abort(t)
  BY <1>1, <1>5 DEF Abort, TrySelect, Goto, Waits, HolderLabels, MayBeRegistered, Typed
<1>6. CASE Wait(t)
  BY <1>1, <1>6 DEF Wait, AfterSelect, LabelOK, Goto, waiting, Waits, HolderLabels,
                    MayBeRegistered, Typed
<1>7. CASE GiveUp(t)
  <2>1. pc'[t] = AfterSelect(select'[t]) /\ pc[t] = "give_up"
    BY <1>7 DEF GiveUp, Goto, Typed
  <2>2. select'[t] = IF select[t] = "waiting" THEN "aborted" ELSE select[t]
    BY <1>7 DEF GiveUp, TrySelect, Typed
  <2> QED
    BY <1>1, <2>1, <2>2 DEF AfterSelect, LabelOK, Waits, HolderLabels, MayBeRegistered
<1>8. CASE Expire(t)
  BY <1>8 DEF Expire, waiting, Waits, HolderLabels, MayBeRegistered
<1> QED
  BY <1>2, <1>3, <1>4, <1>5, <1>6, <1>7, <1>8 DEF OwnStep

LEMMA OwnStepWakers ==
  ASSUME Typed, Typed', IInv, NEW t \in Threads, OwnStep(t)
  PROVE  EntriesOK' /\ HoldersOK'
<1>1. /\ pc[t] \notin HolderLabels /\ pc'[t] \notin HolderLabels
      /\ Waits(t)' <=> Waits(t)
  BY OwnStepWaits
<1>2. /\ UNCHANGED <<entries, locked, cursor>>
      /\ \A u \in Threads \ {t} : pc'[u] = pc[u] /\ select'[u] = select[u]
  <2>1. UNCHANGED <<entries, locked, cursor>>
    BY OwnStepFrame
  <2>2. \A u \in Threads \ {t} : pc'[u] = pc[u]
    <3>1. pc' = pc \/ \E label \in Labels : pc' = [pc EXCEPT ![t] = label]
      BY OwnStepFrame
    <3> QED
      BY <3>1 DEF Typed
  <2>3. \A u \in Threads \ {t} : select'[u] = select[u]
    <3>1. UNCHANGED select \/ \E sel : select' = [select EXCEPT ![t] = sel]
      BY OwnStepFrame
    <3> QED
      BY <3>1 DEF Typed
  <2> QED
    BY <2>1, <2>2, <2>3
<1>3. \A w \in Wakers : locked[w] # t
  BY <1>1 DEF IInv, HoldersOK, Holds, HolderLabels
<1>4. Waiters' = Waiters
  BY <1>1, <1>2 DEF Waiters, Waits
<1>5. Claims' = Claims
  BY <1>2, <1>3 DEF Claims, Claimed
<1>6. EntriesOK'
  <2>1. EntrySets
    BY EntrySetsAre DEF IInv
  <2>2. EntrySets'
    BY <1>2, <1>4, <1>5, <2>1 DEF EntrySets
  <2>3. (EntriesOK <=> EntrySets)'
    BY EntrySetsAre, PTL
  <2> QED
    BY <2>2, <2>3
<1>7. HoldersOK'
  <2>1. \A w, u : u \in Threads => (Holds(u, w)' <=> Holds(u, w))
    BY <1>1, <1>2 DEF Holds, HolderLabels
  <2>2. \A w \in Wakers, u \in Threads : (locked[w] = u <=> Holds(u, w))'
    BY <1>2, <2>1 DEF IInv, HoldersOK
  <2>3. ASSUME NEW u \in Threads, pc'[u] \notin {"wake_unpark", "disc_senders", "disc_receivers"}
        PROVE  cursor'[u] = 0
    BY <1>1, <1>2, <2>3 DEF IInv, HoldersOK, HolderLabels
  <2>4. ASSUME NEW w \in Wakers, NEW u \in Threads, Holds(u, w)'
        PROVE  cursor'[u] \in 1 .. Len(entries'[w]) + (IF pc'[u] = "wake_unpark" THEN 0 ELSE 1)
    <3>1. Holds(u, w) /\ u # t
      BY <1>1, <2>1, <2>4 DEF Holds, HolderLabels
    <3> QED
      BY <1>2, <3>1 DEF IInv, HoldersOK
  <2> QED
    BY <2>2, <2>3, <2>4 DEF HoldersOK
<1> QED
  BY <1>6, <1>7

\* The mutexes after a step in which t takes or releases that of w, or in
\* which it holds on to it.
LEMMA HoldersNext ==
  ASSUME Typed, HoldersOK, NEW t \in Threads, NEW w \in Wakers,
         locked[w] \in {t, NoThread}, \A v \in Wakers \ {w} : locked[v] # t,
         \E z \in {t, NoThread} : locked' = [locked EXCEPT ![w] = z],
         \A u \in Threads \ {t} : pc'[u] = pc[u] /\ cursor'[u] = cursor[u],
         \A v \in Wakers \ {w} : entries'[v] = entries[v],
         \A v \in Wakers : Holds(t, v)' <=> v = w /\ locked'[w] = t,
         locked'[w] # t => cursor'[t] = 0,
         locked'[w] = t =>
           cursor'[t] \in 1 .. Len(entries'[w]) + (IF pc'[t] = "wake_unpark" THEN 0 ELSE 1)
  PROVE  HoldersOK'
<1>1. \A u \in Threads \ {t} : \A v : Holds(u, v)' <=> Holds(u, v)
  BY DEF Holds
<1>2. /\ \A v \in Wakers \ {w} : locked'[v] = locked[v]
      /\ locked'[w] \in {t, NoThread}
  BY Domains
<1>3. \A u \in Threads \ {t} : ~Holds(u, w)
  BY Sides DEF HoldersOK
<1>4. ASSUME NEW v \in Wakers, NEW u \in Threads
      PROVE  locked'[v] = u <=> Holds(u, v)'
  <2>1. CASE u = t
    BY <1>2, <2>1
  <2>2. CASE u # t /\ v = w
    BY <1>1, <1>2, <1>3, <2>2, Sides
  <2>3. CASE u # t /\ v # w
    BY <1>1, <1>2, <2>3 DEF HoldersOK
  <2> QED
    BY <2>1, <2>2, <2>3
<1>5. ASSUME NEW u \in Threads, pc'[u] \notin {"wake_unpark", "disc_senders", "disc_receivers"}
      PROVE  cursor'[u] = 0
  <2>1. CASE u = t
    <3>1. ~Holds(t, w)'
      BY <1>5, <2>1 DEF Holds
    <3> QED
      BY <2>1, <3>1
  <2>2. CASE u # t
    BY <1>5, <2>2 DEF HoldersOK
  <2> QED
    BY <2>1, <2>2
<1>6. ASSUME NEW v \in Wakers, NEW u \in Threads, Holds(u, v)'
      PROVE  cursor'[u] \in 1 .. Len(entries'[v]) + (IF pc'[u] = "wake_unpark" THEN 0 ELSE 1)
  <2>1. CASE u = t
    BY <1>6, <2>1
  <2>2. CASE u # t
    <3>1. Holds(u, v) /\ v # w
      BY <1>1, <1>3, <1>6, <2>2
    <3> QED
      BY <2>2, <3>1 DEF HoldersOK
  <2> QED
    BY <2>1, <2>2
<1> QED
  BY <1>4, <1>5, <1>6 DEF HoldersOK

\* wake_one selects an operation: its thread waits no longer, its entry is claimed.
LEMMA WakeWakers ==
  ASSUME Typed, Typed', IInv, NEW t \in Threads, WakeOther(t)
  PROVE  EntriesOK' /\ HoldersOK'
<1>1. pc[t] = "wake_select" /\ locked[Other(t)] = NoThread /\ Other(t) \in Wakers
  BY Sides DEF WakeOther, WakeSelect
<1>2. \A v \in Wakers : locked[v] # t
  BY <1>1, Holding DEF Holds
<1>3. EntrySets
  BY EntrySetsAre DEF IInv
<1>4. (EntriesOK <=> EntrySets)'
  BY EntrySetsAre, PTL
<1>5. CASE UNCHANGED waiting /\ pc' = [pc EXCEPT ![t] = "ok"]
  <2>1. UNCHANGED <<entries, locked, cursor, select>>
    BY <1>5 DEF waiting
  <2>2. Waiters' = Waiters
    BY <1>1, <1>5, <2>1, Domains DEF Waiters, Waits, MayBeRegistered
  <2>3. Claims' = Claims
    <3>1. \A v \in Wakers : \A j : Claimed(v, j)' <=> Claimed(v, j)
      BY <1>2, <1>5, <2>1, Domains DEF Claimed
    <3> QED
      BY <2>1, <3>1 DEF Claims
  <2>4. EntrySets'
    BY <1>3, <2>1, <2>2, <2>3 DEF EntrySets
  <2>5. HoldersOK'
    <3>1. \A v, u : u \in Threads => (Holds(u, v)' <=> Holds(u, v))
      BY <1>1, <1>5, Domains DEF Holds
    <3>2. cursor[t] = 0 /\ \A u \in Threads \ {t} : pc'[u] = pc[u]
      BY <1>1, <1>5, Domains, Holding
    <3>3. \A v : ~Holds(t, v)
      BY <1>1 DEF Holds
    <3> QED
      BY <2>1, <3>1, <3>2, <3>3 DEF IInv, HoldersOK
  <2> QED
    BY <1>4, <2>4, <2>5
<1>6. CASE ~(UNCHANGED waiting /\ pc' = [pc EXCEPT ![t] = "ok"])
  <2> DEFINE w == Other(t)
  <2>1. PICK k \in 1 .. Len(entries[w]), u \in Threads :
          /\ entries[w][k].thread = u /\ u # t /\ Own(u) = w
          /\ Waits(u) /\ select[u] = "waiting"
          /\ locked' = [locked EXCEPT ![w] = t]
          /\ cursor' = [cursor EXCEPT ![t] = k]
          /\ select' = [select EXCEPT ![u] = u]
          /\ pc' = [pc EXCEPT ![t] = "wake_unpark"]
          /\ UNCHANGED <<entries, token>>
    BY <1>6, WakeFinds
  <2>2. w \in Wakers /\ w = Other(t) /\ locked[w] = NoThread /\ k \in Nat
    BY <1>1, EntryType
  <2> HIDE DEF w
  <2>3. Waiters' = Waiters \ {u}
    BY <1>1, <2>1, Domains DEF Waiters, Waits, MayBeRegistered
  <2>4. \A j \in Nat : <<w, j>> \notin Claims
    BY <2>2, Sides DEF Claims, Claimed
  <2>5. Claims' = Claims \cup {<<w, k>>}
    <3>1. \A j \in Nat : Claimed(w, j)' <=> j = k
      <4>1. locked'[w] = t /\ cursor'[t] = k /\ pc'[t] = "wake_unpark"
        BY <2>1, <2>2, Domains
      <4> QED
        BY <4>1 DEF Claimed
    <3>2. \A v \in Wakers \ {w} : \A j \in Nat : Claimed(v, j)' <=> Claimed(v, j)
      BY <1>2, <2>1, <2>2, Domains DEF Claimed
    <3> QED
      BY <2>2, <2>4, <3>1, <3>2 DEF Claims
  <2>6. EntrySets'
    <3>1. ASSUME NEW v \in Wakers, NEW j \in 1 .. Len(entries[v])
          PROVE  <<v, j>> \in Claims' <=> entries[v][j].thread \notin Waiters'
      <4>1. entries[v][j].thread = u <=> v = w /\ j = k
        <5>1. Own(entries[v][j].thread) = v /\ Own(u) = w
          BY <1>3, <2>1 DEF EntrySets
        <5>2. \A l \in 1 .. Len(entries[w]) : entries[w][l].thread = entries[w][k].thread => l = k
          BY <1>3, <2>1, <2>2 DEF EntrySets
        <5> QED
          BY <2>1, <5>1, <5>2
      <4>2. <<v, j>> \in Claims <=> entries[v][j].thread \notin Waiters
        BY <1>3 DEF EntrySets
      <4> QED
        BY <2>3, <2>5, <4>1, <4>2
    <3>2. entries' = entries /\ Waiters' \subseteq Waiters
      BY <2>1, <2>3
    <3> QED
      BY <1>3, <3>1, <3>2, EntriesKept
  <2>7. HoldersOK'
    <3>1. \A v : Holds(t, v)' <=> v = w
      BY <2>1, <2>2, Domains DEF Holds
    <3>2. locked'[w] = t /\ cursor'[t] = k /\ pc'[t] = "wake_unpark"
      BY <2>1, <2>2, Domains
    <3>3. \A z \in Threads \ {t} : pc'[z] = pc[z] /\ cursor'[z] = cursor[z]
      BY <2>1, Domains
    <3>4. k \in 1 .. Len(entries'[w]) + (IF pc'[t] = "wake_unpark" THEN 0 ELSE 1)
      BY <2>1, <2>2, <3>2, EntryType
    <3>5. \E z \in {t, NoThread} : locked' = [locked EXCEPT ![w] = z]
      BY <2>1
    <3>6. \A v \in Wakers \ {w} : entries'[v] = entries[v] /\ locked[v] # t
      BY <1>2, <2>1
    <3>7. HoldersOK
      BY DEF IInv
    <3>8. /\ locked[w] \in {t, NoThread} /\ \A v \in Wakers \ {w} : locked[v] # t
          /\ \A v \in Wakers \ {w} : entries'[v] = entries[v]
      BY <2>2, <3>6
    <3>9. \A v \in Wakers : Holds(t, v)' <=> v = w /\ locked'[w] = t
      BY <3>1, <3>2
    <3>10. /\ locked'[w] # t => cursor'[t] = 0
           /\ locked'[w] = t =>
                cursor'[t] \in 1 .. Len(entries'[w]) + (IF pc'[t] = "wake_unpark" THEN 0 ELSE 1)
      BY <3>2, <3>4
    <3> QED
      BY <2>2, <3>3, <3>5, <3>7, <3>8, <3>9, <3>10, HoldersNext
  <2> QED
    BY <1>4, <2>6, <2>7
<1> QED
  BY <1>5, <1>6

LEMMA UnparkWakers ==
  ASSUME Typed, Typed', IInv, NEW t \in Threads, UnparkOther(t)
  PROVE  EntriesOK' /\ HoldersOK'
<1> DEFINE w == Other(t)
           k == cursor[t]
           r == entries[w][k].thread
<1>1. w \in Wakers /\ w = Other(t) /\ pc[t] = "wake_unpark" /\ locked[w] = t /\ t # NoThread
  BY Sides DEF UnparkOther, WakeUnpark
<1>2. Holds(t, w) /\ \A v \in Wakers \ {w} : ~Holds(t, v)
  BY <1>1 DEF Holds
<1>3. k \in 1 .. Len(entries[w]) /\ k \in Nat
  <2>1. cursor[t] \in 1 .. Len(entries[w]) + (IF pc[t] = "wake_unpark" THEN 0 ELSE 1)
    BY <1>1, <1>2 DEF IInv, HoldersOK
  <2> QED
    BY <1>1, <2>1, EntryType
<1>4. /\ entries' = [entries EXCEPT ![w] = RemoveAt(@, k)]
      /\ locked' = [locked EXCEPT ![w] = NoThread]
      /\ cursor' = [cursor EXCEPT ![t] = 0]
      /\ pc' = [pc EXCEPT ![t] = "ok"]
      /\ UNCHANGED select
  BY DEF UnparkOther, WakeUnpark, Goto
<1> HIDE DEF w, k
<1>5. Claimed(w, k) /\ \A j \in Nat \ {k} : ~Claimed(w, j)
  BY <1>1 DEF Claimed, k
<1>6. r \in Threads /\ ~Waits(r)
  BY <1>1, <1>3, <1>5, EntryType DEF IInv, EntriesOK, EntryOK
<1>7. Waiters' = Waiters \ {r}
  BY <1>1, <1>4, <1>6 DEF Waiters, Waits, MayBeRegistered, Typed
<1>8. \A v \in Wakers \ {w} : locked[v] # t
  BY <1>2 DEF IInv, HoldersOK
<1>9. \A j \in Nat : ~Claimed(w, j)'
  BY <1>1, <1>4, Sides DEF Claimed, Typed
<1>10. \A v \in Wakers \ {w} : \A j : Claimed(v, j)' <=> Claimed(v, j)
  BY <1>4, <1>8 DEF Claimed, Typed
<1>11. /\ Claims \subseteq Claims' \cup {<<w, k>>} /\ Claims' \subseteq Claims
       /\ \A j \in Nat : <<w, j>> \notin Claims'
       /\ \A j \in Nat \ {k} : <<w, j>> \notin Claims
  BY <1>1, <1>3, <1>5, <1>9, <1>10 DEF Claims
<1>12. EntriesOK'
  BY <1>1, <1>3, <1>4, <1>7, <1>11, EntriesRemove DEF IInv
<1>13. HoldersOK'
  <2>1. /\ locked'[w] = NoThread /\ cursor'[t] = 0 /\ pc'[t] = "ok"
        /\ \A u \in Threads \ {t} : pc'[u] = pc[u] /\ cursor'[u] = cursor[u]
        /\ \A v \in Wakers \ {w} : entries'[v] = entries[v]
    BY <1>1, <1>4 DEF Typed
  <2>2. \A v : ~Holds(t, v)'
    BY <2>1 DEF Holds
  <2> QED
    BY <1>1, <1>4, <1>8, <2>1, <2>2, HoldersNext DEF IInv
<1> QED
  BY <1>12, <1>13

\* An operation is registered at the end of its waker.
LEMMA RegisterWakers ==
  ASSUME Typed, Typed', IInv, NEW t \in Threads, RegisterOper(t)
  PROVE  EntriesOK' /\ HoldersOK'
<1> DEFINE w == Own(t)
           n == Len(entries[w])
<1>1. w \in Wakers /\ w = Own(t) /\ pc[t] = "register" /\ locked[w] = NoThread
  BY Sides DEF RegisterOper, Register
<1>2. /\ entries' = [entries EXCEPT ![w] = Append(@, Entry(t, t))]
      /\ UNCHANGED <<locked, cursor, select>>
      /\ pc' = [pc EXCEPT ![t] = "load_first"]
  BY DEF RegisterOper, Register, Goto
<1>3. select[t] = "waiting" /\ t # "waiting"
  BY <1>1, Sides DEF IInv, LabelsOK, LabelOK
<1>4. ~Waits(t) /\ Waiters' = Waiters \cup {t}
  BY <1>1, <1>2, <1>3, Domains DEF Waiters, Waits, MayBeRegistered
<1> HIDE DEF w
<1>5. \A v \in Wakers : locked[v] # t
  BY <1>1, Holding DEF Holds
<1>6. Claims' = Claims /\ \A j : <<w, j>> \notin Claims
  <2>1. \A v \in Wakers : \A j : Claimed(v, j)' <=> Claimed(v, j)
    BY <1>1, <1>2, <1>5, Domains DEF Claimed
  <2>2. \A j : ~Claimed(w, j)
    BY <1>1, Sides DEF Claimed
  <2> QED
    BY <2>1, <2>2 DEF Claims
<1>7. /\ n \in Nat /\ entries[w] \in Seq([thread : Threads, oper : Threads])
      /\ Entry(t, t) \in [thread : Threads, oper : Threads]
  BY <1>1, EntryType DEF Entry
<1>8. /\ entries'[w] = Append(entries[w], Entry(t, t))
      /\ \A v \in Wakers \ {w} : entries'[v] = entries[v]
  BY <1>1, <1>2 DEF Typed
<1>9. /\ Len(entries'[w]) = n + 1
      /\ \A j \in 1 .. n : entries'[w][j] = entries[w][j]
      /\ entries'[w][n + 1] = Entry(t, t)
  BY <1>7, <1>8, AppendProperties
<1>10. EntrySets
  BY EntrySetsAre DEF IInv
<1> HIDE DEF n
<1>11. \A k \in 1 .. n :
         /\ entries[w][k].oper = entries[w][k].thread
         /\ Own(entries[w][k].thread) = w
         /\ \A j \in 1 .. n : entries[w][j].thread = entries[w][k].thread => j = k
         /\ <<w, k>> \in Claims <=> entries[w][k].thread \notin Waiters
  BY <1>1, <1>10 DEF EntrySets, n
<1>12. \A j \in 1 .. n : entries[w][j].thread # t /\ entries[w][j].thread \in Waiters
  <2>1. \A j \in 1 .. n : <<w, j>> \in Claims <=> entries[w][j].thread \notin Waiters
    BY <1>11
  <2>2. t \notin Waiters
    BY <1>4 DEF Waiters
  <2> QED
    BY <1>6, <2>1, <2>2
<1>13. ASSUME NEW v \in Wakers, NEW k \in 1 .. Len(entries'[v])
       PROVE  /\ entries'[v][k].oper = entries'[v][k].thread
              /\ Own(entries'[v][k].thread) = v
              /\ \A j \in 1 .. Len(entries'[v]) : entries'[v][j].thread = entries'[v][k].thread => j = k
              /\ <<v, k>> \in Claims' <=> entries'[v][k].thread \notin Waiters'
  <2>1. CASE v # w
    <3>1. entries'[v] = entries[v]
      BY <1>8, <2>1
    <3>2. /\ entries[v][k].oper = entries[v][k].thread
          /\ Own(entries[v][k].thread) = v
          /\ \A j \in 1 .. Len(entries[v]) : entries[v][j].thread = entries[v][k].thread => j = k
          /\ <<v, k>> \in Claims <=> entries[v][k].thread \notin Waiters
      BY <1>10, <3>1 DEF EntrySets
    <3>3. entries[v][k].thread # t
      BY <1>1, <2>1, <3>2
    <3> QED
      BY <1>4, <1>6, <3>1, <3>2, <3>3
  <2>2. CASE v = w /\ k = n + 1
    <3>1. entries'[v][k].thread = t /\ entries'[v][k].oper = t
      BY <1>9, <2>2 DEF Entry
    <3>2. ASSUME NEW j \in 1 .. Len(entries'[v]), entries'[v][j].thread = t
          PROVE  j = k
      BY <1>7, <1>9, <1>12, <2>2, <3>2
    <3>3. Own(entries'[v][k].thread) = v /\ entries'[v][k].oper = entries'[v][k].thread
      BY <1>1, <2>2, <3>1
    <3>4. \A j \in 1 .. Len(entries'[v]) : entries'[v][j].thread = entries'[v][k].thread => j = k
      BY <3>1, <3>2
    <3>5. <<v, k>> \in Claims' <=> entries'[v][k].thread \notin Waiters'
      BY <1>4, <1>6, <2>2, <3>1
    <3> QED
      BY <3>3, <3>4, <3>5
  <2>3. CASE v = w /\ k # n + 1
    <3>1. k \in 1 .. n /\ entries'[v][k] = entries[w][k]
      BY <1>7, <1>9, <2>3
    <3>2. /\ entries[w][k].oper = entries[w][k].thread
          /\ Own(entries[w][k].thread) = w
          /\ \A j \in 1 .. n : entries[w][j].thread = entries[w][k].thread => j = k
      BY <3>1, <1>11
    <3>3. ASSUME NEW j \in 1 .. Len(entries'[v]), entries'[v][j].thread = entries'[v][k].thread
          PROVE  j = k
      <4>1. CASE j \in 1 .. n
        BY <1>9, <2>3, <3>1, <3>2, <3>3, <4>1
      <4>2. CASE j = n + 1
        BY <1>9, <1>12, <2>3, <3>1, <3>3, <4>2 DEF Entry
      <4> QED
        BY <1>7, <1>9, <2>3, <4>1, <4>2
    <3> QED
      BY <1>4, <1>6, <1>12, <2>3, <3>1, <3>2, <3>3
  <2> QED
    BY <2>1, <2>2, <2>3
<1>14. ASSUME NEW u \in Waiters'
       PROVE  \E k \in 1 .. Len(entries'[Own(u)]) : entries'[Own(u)][k].thread = u
  <2>1. CASE u = t
    <3>1. n + 1 \in 1 .. Len(entries'[w]) /\ entries'[w][n + 1].thread = t
      BY <1>7, <1>9 DEF Entry
    <3> QED
      BY <1>1, <2>1, <3>1
  <2>2. CASE u # t
    <3>1. PICK k \in 1 .. Len(entries[Own(u)]) : entries[Own(u)][k].thread = u
      BY <1>4, <1>10, <2>2 DEF EntrySets
    <3>2. CASE Own(u) = w
      <4>1. k \in 1 .. Len(entries'[w]) /\ entries'[w][k].thread = u
        BY <1>7, <1>9, <3>1, <3>2 DEF n
      <4> QED
        BY <3>2, <4>1
    <3>3. CASE Own(u) # w
      BY <1>8, <3>1, <3>3, Sides
    <3> QED
      BY <3>2, <3>3
  <2> QED
    BY <2>1, <2>2
<1>15. EntrySets'
  BY <1>13, <1>14 DEF EntrySets
<1>16. (EntriesOK <=> EntrySets)'
  BY EntrySetsAre, PTL
<1>17. HoldersOK'
  <2>1. /\ pc'[t] = "load_first" /\ \A u \in Threads \ {t} : pc'[u] = pc[u]
        /\ cursor' = cursor /\ cursor[t] = 0
    BY <1>1, <1>2, Domains, Holding
  <2>2. \A v : ~Holds(t, v)'
    BY <2>1 DEF Holds
  <2>3. locked[w] = NoThread /\ locked' = [locked EXCEPT ![w] = NoThread] /\ locked'[w] # t
    BY <1>1, <1>2, Sides DEF Typed
  <2>4. HoldersOK
    BY DEF IInv
  <2> QED
    BY <1>1, <1>5, <1>8, <2>1, <2>2, <2>3, <2>4, HoldersNext
<1> QED
  BY <1>15, <1>16, <1>17

LEMMA UnregisterWakers ==
  ASSUME Typed, Typed', IInv, NEW t \in Threads, UnregisterOper(t)
  PROVE  EntriesOK' /\ HoldersOK'
<1> DEFINE w == Own(t)
<1>1. w \in Wakers /\ w = Own(t) /\ pc[t] = "unregister" /\ locked[w] = NoThread
  BY Sides DEF UnregisterOper, Unregister
<1>2. UNCHANGED <<locked, cursor, select>> /\ pc' = [pc EXCEPT ![t] = "check_deadline"]
  BY DEF UnregisterOper, Unregister, Goto
<1>3. PICK k \in 1 .. Len(entries[w]) :
        /\ entries[w][k].thread = t
        /\ entries' = [entries EXCEPT ![w] = RemoveAt(@, k)]
  BY UnregisterRemoves
<1> HIDE DEF w
<1>4. Waiters' = Waiters \ {entries[w][k].thread}
  BY <1>1, <1>2, <1>3, Domains DEF Waiters, Waits, MayBeRegistered
<1>5. \A v \in Wakers : locked[v] # t
  BY <1>1, Holding DEF Holds
<1>6. Claims' = Claims /\ \A j : <<w, j>> \notin Claims
  <2>1. \A v \in Wakers : \A j : Claimed(v, j)' <=> Claimed(v, j)
    BY <1>1, <1>2, <1>5, Domains DEF Claimed
  <2>2. \A j : ~Claimed(w, j)
    BY <1>1, Sides DEF Claimed
  <2> QED
    BY <2>1, <2>2 DEF Claims
<1>7. EntriesOK'
  BY <1>1, <1>3, <1>4, <1>6, EntriesRemove DEF IInv
<1>8. HoldersOK'
  <2>1. /\ pc'[t] = "check_deadline" /\ \A u \in Threads \ {t} : pc'[u] = pc[u]
        /\ cursor' = cursor /\ cursor[t] = 0
    BY <1>1, <1>2, Domains, Holding
  <2>2. \A v : ~Holds(t, v)'
    BY <2>1 DEF Holds
  <2>3. locked[w] = NoThread /\ locked' = [locked EXCEPT ![w] = NoThread] /\ locked'[w] # t
    BY <1>1, <1>2, Sides DEF Typed
  <2>4. HoldersOK /\ \A v \in Wakers \ {w} : entries'[v] = entries[v]
    BY <1>1, <1>3 DEF IInv, Typed
  <2>5. \E z \in {t, NoThread} : locked' = [locked EXCEPT ![w] = z]
    BY <2>3
  <2>6. /\ locked[w] \in {t, NoThread} /\ \A v \in Wakers \ {w} : locked[v] # t
        /\ \A u \in Threads \ {t} : pc'[u] = pc[u] /\ cursor'[u] = cursor[u]
        /\ \A v \in Wakers : Holds(t, v)' <=> v = w /\ locked'[w] = t
        /\ cursor'[t] = 0
    BY <1>5, <2>1, <2>2, <2>3
  <2> QED
    <3>1. w \in Wakers /\ locked'[w] # t
      BY <1>1, <2>3
    <3>2. HoldersOK /\ \A v \in Wakers \ {w} : entries'[v] = entries[v]
      BY <2>4
    <3> QED
      BY <2>5, <2>6, <3>1, <3>2, HoldersNext, Zenon
<1> QED
  BY <1>7, <1>8

\* What the steps of disconnect have in common.
LEMMA DisconnectFrame ==
  ASSUME Typed, IInv, NEW t \in Threads, LockWaker(t) \/ DisconnectWaker(t)
  PROVE  \E w \in Wakers :
           /\ UNCHANGED entries /\ \A u \in Threads \ {t} : pc'[u] = pc[u] /\ cursor'[u] = cursor[u]
           /\ \A v \in Wakers \ {w} : locked[v] # t
           /\ pc[t] \notin MayBeRegistered \cup {"wake_unpark"}
           /\ pc'[t] \notin MayBeRegistered \cup {"wake_unpark"}
           /\ \/ /\ locked[w] = NoThread /\ locked' = [locked EXCEPT ![w] = t]
                 /\ cursor'[t] = 1 /\ UNCHANGED select /\ \A v : Holds(t, v)' <=> v = w
              \/ /\ locked[w] = t /\ UNCHANGED locked
                 /\ cursor[t] \in 1 .. Len(entries[w]) /\ cursor'[t] = cursor[t] + 1
                 /\ \/ UNCHANGED select
                    \/ /\ select[entries[w][cursor[t]].thread] = "waiting"
                       /\ select' = [select EXCEPT ![entries[w][cursor[t]].thread] = "disconnected"]
                 /\ \A v : Holds(t, v)' <=> v = w
              \/ /\ locked[w] = t /\ locked' = [locked EXCEPT ![w] = NoThread]
                 /\ cursor'[t] = 0 /\ UNCHANGED select /\ \A v : ~Holds(t, v)'
<1>1. ASSUME NEW w \in Wakers, DisconnectLock(w, t),
             pc[t] \in {"disc_lock_senders", "disc_lock_receivers"},
             pc' = [pc EXCEPT ![t] = IF w = "senders" THEN "disc_senders" ELSE "disc_receivers"]
      PROVE  /\ UNCHANGED entries /\ \A u \in Threads \ {t} : pc'[u] = pc[u] /\ cursor'[u] = cursor[u]
             /\ \A v \in Wakers \ {w} : locked[v] # t
             /\ pc[t] \notin MayBeRegistered \cup {"wake_unpark"}
             /\ pc'[t] \notin MayBeRegistered \cup {"wake_unpark"}
             /\ locked[w] = NoThread /\ locked' = [locked EXCEPT ![w] = t]
             /\ cursor'[t] = 1 /\ UNCHANGED select /\ \A v : Holds(t, v)' <=> v = w
  <2>1. pc'[t] = IF w = "senders" THEN "disc_senders" ELSE "disc_receivers"
    BY <1>1 DEF Typed
  <2>2. \A v : Holds(t, v)' <=> v = w
    BY <2>1 DEF Holds, Wakers
  <2>3. \A u \in Threads \ {t} : pc'[u] = pc[u] /\ cursor'[u] = cursor[u]
    BY <1>1 DEF DisconnectLock, Typed
  <2>4. \A v \in Wakers : locked[v] # t
    BY <1>1, Holding DEF Holds
  <2> QED
    BY <1>1, <2>1, <2>2, <2>3, <2>4 DEF DisconnectLock, MayBeRegistered, Typed
<1>2. ASSUME NEW w \in Wakers, DisconnectEntry(w, t), UNCHANGED pc,
             pc[t] = IF w = "senders" THEN "disc_senders" ELSE "disc_receivers"
      PROVE  /\ UNCHANGED entries /\ \A u \in Threads \ {t} : pc'[u] = pc[u] /\ cursor'[u] = cursor[u]
             /\ \A v \in Wakers \ {w} : locked[v] # t
             /\ pc[t] \notin MayBeRegistered \cup {"wake_unpark"}
             /\ pc'[t] \notin MayBeRegistered \cup {"wake_unpark"}
             /\ locked[w] = t /\ UNCHANGED locked
             /\ cursor[t] \in 1 .. Len(entries[w]) /\ cursor'[t] = cursor[t] + 1
             /\ \/ UNCHANGED select
                \/ /\ select[entries[w][cursor[t]].thread] = "waiting"
                   /\ select' = [select EXCEPT ![entries[w][cursor[t]].thread] = "disconnected"]
             /\ \A v : Holds(t, v)' <=> v = w
  <2>1. \A v : Holds(t, v)' <=> v = w
    BY <1>2 DEF Holds, Wakers
  <2>2. \A u \in Threads \ {t} : pc'[u] = pc[u] /\ cursor'[u] = cursor[u]
    BY <1>2 DEF DisconnectEntry, Typed
  <2>3. /\ locked[w] = t /\ UNCHANGED <<locked, entries>> /\ cursor[t] <= Len(entries[w])
        /\ cursor' = [cursor EXCEPT ![t] = @ + 1]
    BY <1>2 DEF DisconnectEntry
  <2>4. cursor[t] \in 1 .. Len(entries[w])
    <3>1. Holds(t, w)
      BY <2>3 DEF IInv, HoldersOK
    <3>2. cursor[t] \in 1 .. Len(entries[w]) + (IF pc[t] = "wake_unpark" THEN 0 ELSE 1)
      BY <3>1 DEF IInv, HoldersOK
    <3> QED
      BY <2>3, <3>2, EntryType DEF Typed
  <2>5. \/ UNCHANGED select
        \/ /\ select[entries[w][cursor[t]].thread] = "waiting"
           /\ select' = [select EXCEPT ![entries[w][cursor[t]].thread] = "disconnected"]
    BY <1>2, Zenon DEF DisconnectEntry
  <2>6. cursor'[t] = cursor[t] + 1
    BY <2>3 DEF Typed
  <2>7. pc[t] \notin MayBeRegistered \cup {"wake_unpark"} /\ pc' = pc
    BY <1>2 DEF MayBeRegistered
  <2>8. \A v \in Wakers \ {w} : locked[v] # t
    BY <1>2 DEF IInv, HoldersOK, Holds, Wakers
  <2> QED
    BY <2>1, <2>2, <2>3, <2>4, <2>5, <2>6, <2>7, <2>8
<1>3. ASSUME NEW w \in Wakers, DisconnectUnlock(w, t), pc[t] \in {"disc_senders", "disc_receivers"},
             pc' = [pc EXCEPT ![t] = IF w = "senders" THEN "disc_lock_receivers" ELSE "idle"]
      PROVE  /\ UNCHANGED entries /\ \A u \in Threads \ {t} : pc'[u] = pc[u] /\ cursor'[u] = cursor[u]
             /\ \A v \in Wakers \ {w} : locked[v] # t
             /\ pc[t] \notin MayBeRegistered \cup {"wake_unpark"}
             /\ pc'[t] \notin MayBeRegistered \cup {"wake_unpark"}
             /\ locked[w] = t /\ locked' = [locked EXCEPT ![w] = NoThread]
             /\ cursor'[t] = 0 /\ UNCHANGED select /\ \A v : ~Holds(t, v)'
  <2>1. pc'[t] = IF w = "senders" THEN "disc_lock_receivers" ELSE "idle"
    BY <1>3 DEF Typed
  <2>2. \A v : ~Holds(t, v)'
    BY <2>1 DEF Holds
  <2>3. \A u \in Threads \ {t} : pc'[u] = pc[u] /\ cursor'[u] = cursor[u]
    BY <1>3 DEF DisconnectUnlock, Typed
  <2>4. \A v \in Wakers \ {w} : locked[v] # t
    <3>1. Holds(t, w) /\ pc[t] # "wake_unpark"
      BY <1>3 DEF DisconnectUnlock, IInv, HoldersOK
    <3>2. \A v : Holds(t, v) => v = w
      BY <1>3, <3>1 DEF Holds
    <3> QED
      BY <3>2 DEF IInv, HoldersOK
  <2> QED
    BY <1>3, <2>1, <2>2, <2>3, <2>4 DEF DisconnectUnlock, MayBeRegistered, Typed
<1>4. \/ \E w \in Wakers : /\ DisconnectLock(w, t)
                           /\ pc[t] \in {"disc_lock_senders", "disc_lock_receivers"}
                           /\ pc' = [pc EXCEPT ![t] = IF w = "senders" THEN "disc_senders" ELSE "disc_receivers"]
      \/ \E w \in Wakers : /\ DisconnectEntry(w, t) /\ UNCHANGED pc
                           /\ pc[t] = IF w = "senders" THEN "disc_senders" ELSE "disc_receivers"
      \/ \E w \in Wakers : /\ DisconnectUnlock(w, t) /\ pc[t] \in {"disc_senders", "disc_receivers"}
                           /\ pc' = [pc EXCEPT ![t] = IF w = "senders" THEN "disc_lock_receivers" ELSE "idle"]
  BY DEF LockWaker, DisconnectWaker, Goto, Wakers
<1> QED
  BY <1>1, <1>2, <1>3, <1>4

LEMMA DisconnectWakers ==
  ASSUME Typed, Typed', IInv, NEW t \in Threads, LockWaker(t) \/ DisconnectWaker(t)
  PROVE  EntriesOK' /\ HoldersOK'
<1>1. PICK w \in Wakers :
        /\ UNCHANGED entries /\ \A u \in Threads \ {t} : pc'[u] = pc[u] /\ cursor'[u] = cursor[u]
        /\ \A v \in Wakers \ {w} : locked[v] # t
        /\ pc[t] \notin MayBeRegistered \cup {"wake_unpark"}
        /\ pc'[t] \notin MayBeRegistered \cup {"wake_unpark"}
        /\ \/ /\ locked[w] = NoThread /\ locked' = [locked EXCEPT ![w] = t]
              /\ cursor'[t] = 1 /\ UNCHANGED select /\ \A v : Holds(t, v)' <=> v = w
           \/ /\ locked[w] = t /\ UNCHANGED locked
              /\ cursor[t] \in 1 .. Len(entries[w]) /\ cursor'[t] = cursor[t] + 1
              /\ \/ UNCHANGED select
                 \/ /\ select[entries[w][cursor[t]].thread] = "waiting"
                    /\ select' = [select EXCEPT ![entries[w][cursor[t]].thread] = "disconnected"]
              /\ \A v : Holds(t, v)' <=> v = w
           \/ /\ locked[w] = t /\ locked' = [locked EXCEPT ![w] = NoThread]
              /\ cursor'[t] = 0 /\ UNCHANGED select /\ \A v : ~Holds(t, v)'
  BY DisconnectFrame
<1>2. \A u \in Threads : select'[u] = select[u] \/ (select[u] = "waiting" /\ select'[u] = "disconnected")
  BY <1>1 DEF Typed
<1>3. \A u \in Threads : Waits(u)' <=> Waits(u)
  <2> SUFFICES ASSUME NEW u \in Threads
               PROVE  Waits(u)' <=> Waits(u)
    OBVIOUS
  <2>1. select'[u] # u <=> select[u] # u
    BY <1>2, Sides
  <2>2. pc'[u] \in MayBeRegistered <=> pc[u] \in MayBeRegistered
    BY <1>1
  <2> QED
    BY <2>1, <2>2 DEF Waits
<1>4. Waiters' = Waiters
  BY <1>3 DEF Waiters
<1>5. /\ locked[w] \in {t, NoThread}
      /\ \E z \in {t, NoThread} : locked' = [locked EXCEPT ![w] = z]
  <2>1. UNCHANGED locked => locked' = [locked EXCEPT ![w] = locked[w]]
    BY DEF Typed
  <2> QED
    BY <1>1, <2>1
<1>6. locked'[w] \in {t, NoThread} /\ \A v \in Wakers \ {w} : locked'[v] = locked[v]
  BY <1>5 DEF Typed
<1>7. ASSUME NEW v \in Wakers, NEW j \in Nat
      PROVE  Claimed(v, j)' <=> Claimed(v, j)
  <2>1. CASE v = w
    BY <1>1, <1>5, <1>6, <2>1, Sides DEF Claimed
  <2>2. CASE v # w
    BY <1>1, <1>6, <2>2 DEF Claimed
  <2> QED
    BY <2>1, <2>2
<1>8. Claims' = Claims
  BY <1>7 DEF Claims
<1>9. EntriesOK'
  <2>1. EntrySets
    BY EntrySetsAre DEF IInv
  <2>2. EntrySets'
    BY <1>1, <1>4, <1>8, <2>1 DEF EntrySets
  <2>3. (EntriesOK <=> EntrySets)'
    BY EntrySetsAre, PTL
  <2> QED
    BY <2>2, <2>3
<1>10. HoldersOK'
  <2>1. Len(entries[w]) \in Nat /\ entries' = entries
    BY <1>1, EntryType
  <2>2. CASE \A v : ~Holds(t, v)'
    <3>1. cursor'[t] = 0 /\ locked'[w] = NoThread
      BY <1>1, <2>2 DEF Typed
    <3>2. locked'[w] # t /\ HoldersOK
      BY <3>1, Sides DEF IInv
    <3>3. \A v \in Wakers : Holds(t, v)' <=> v = w /\ locked'[w] = t
      BY <2>2, <3>2
    <3> QED
      BY <1>1, <1>5, <2>1, <3>1, <3>2, <3>3, HoldersNext, Zenon
  <2>3. CASE ~\A v : ~Holds(t, v)'
    <3>0. /\ \A v : Holds(t, v)' <=> v = w
          /\ \/ locked[w] = NoThread /\ locked' = [locked EXCEPT ![w] = t] /\ cursor'[t] = 1
             \/ /\ locked[w] = t /\ UNCHANGED locked
                /\ cursor[t] \in 1 .. Len(entries[w]) /\ cursor'[t] = cursor[t] + 1
      BY <1>1, <2>3
    <3>1. /\ locked'[w] = t /\ \A v : Holds(t, v)' <=> v = w
          /\ cursor'[t] \in 1 .. Len(entries'[w]) + 1
      <4>1. locked'[w] = t
        BY <3>0 DEF Typed
      <4>2. cursor'[t] \in 1 .. Len(entries'[w]) + 1
        BY <2>1, <3>0
      <4> QED
        BY <3>0, <4>1, <4>2
    <3>2. cursor'[t] \in 1 .. Len(entries'[w]) + (IF pc'[t] = "wake_unpark" THEN 0 ELSE 1)
      BY <1>1, <3>1
    <3>3. HoldersOK /\ \A v \in Wakers : Holds(t, v)' <=> v = w /\ locked'[w] = t
      BY <3>1 DEF IInv
    <3> QED
      BY <1>1, <1>5, <2>1, <3>1, <3>2, <3>3, HoldersNext, Zenon
  <2> QED
    BY <2>2, <2>3
<1> QED
  BY <1>9, <1>10
-------------------------------------------------------------------------------
(* Every step keeps what the labels say. *)

\* The last two parts of LabelOK speak of the thread and the queue only.
LEMMA LabelsElse ==
  ASSUME Typed, Typed', IInv, NEW t \in Threads, OwnStep(t) \/ WakerStep(t),
         NEW u \in Threads, u # t
  PROVE  /\ pc'[u] = pc[u] /\ pos'[u] = pos[u] /\ head <= head'
         /\ u \in Senders => sent'[u] = sent[u]
<1>1. CASE OwnStep(t)
  <2>1. pc'[u] = pc[u]
    <3>1. pc' = pc \/ \E label \in Labels : pc' = [pc EXCEPT ![t] = label]
      BY <1>1, OwnStepFrame
    <3> QED
      BY <3>1, Domains
  <2>2. /\ UNCHANGED pos \/ \E p : pos' = [pos EXCEPT ![t] = p]
        /\ UNCHANGED sent \/ \E n : sent' = [sent EXCEPT ![t] = n]
        /\ head' = head \/ head' = head + 1
    BY <1>1 DEF OwnStep, BeginCall, CheckDisconnected, Reserve, FindFull, Claim, FindEmpty, Use,
                WakeLen, EnterContext, LoadFirst, LoadSecond, LoadDisconnected, Abort, Wait, GiveUp,
                Unparked, ParkTimesOut, SpuriousWakeup, CheckDeadline, Return, Expire, DropHandle,
                SwapDisconnected, queueVars, callVars
  <2>3. pos'[u] = pos[u]
    BY <2>2, Domains
  <2>4. u \in Senders => sent'[u] = sent[u]
    <3>1. DOMAIN sent = Senders
      BY DEF Typed
    <3> QED
      BY <2>2, <3>1
  <2>5. head \in Nat
    BY DEF Typed
  <2>6. head <= head'
    BY <2>2, <2>5
  <2> QED
    BY <2>1, <2>3, <2>4, <2>6
<1>2. CASE WakerStep(t)
  <2>1. UNCHANGED <<queueVars, callVars>>
    BY <1>2, WakerStepFrame
  <2>2. pc' = pc \/ \E label \in Labels : pc' = [pc EXCEPT ![t] = label]
    BY <1>2, WakerStepFrame
  <2>3. pc'[u] = pc[u]
    BY <2>2, Domains
  <2>4. head \in Nat
    BY DEF Typed
  <2> QED
    BY <2>1, <2>3, <2>4 DEF queueVars, callVars
<1> QED
  BY <1>1, <1>2

\* What the labels say of t after a step of its own.
LEMMA OwnLabel ==
  ASSUME Typed, Typed', IInv, NEW t \in Threads, OwnStep(t)
  PROVE  LabelOK(t)'
<1> DEFINE Unsent == MayBeRegistered \cup {"check_disc", "claim", "context", "register",
                                           "check_deadline"}
<1>1. LabelOK(t) /\ t \notin {"waiting", "aborted", "disconnected"}
  BY Sides DEF IInv, LabelsOK
<1>2. select'[t] \in {select[t], "waiting", IF select[t] = "waiting" THEN "aborted" ELSE select[t]}
  <2>1. \/ UNCHANGED select
        \/ select' = [select EXCEPT ![t] = "waiting"]
        \/ select' = [select EXCEPT ![t] = IF @ = "waiting" THEN "aborted" ELSE @]
    BY OwnStepFrame
  <2> QED
    BY <2>1, Domains
<1>3. select'[t] \in {"waiting", "aborted", "disconnected", t}
  BY <1>1, <1>2 DEF LabelOK
<1>4. pc'[t] = "register" => select'[t] = "waiting"
  <2>1. CASE EnterContext(t)
    BY <2>1 DEF EnterContext, Reset, Typed
  <2>2. CASE ~EnterContext(t)
    <3>1. CASE \E label \in Labels \ {"register"} : Goto(t, label)
      BY <3>1, Domains DEF Goto
    <3>2. CASE pc[t] # "register" /\ UNCHANGED pc
      BY <3>2
    <3>3. CASE BeginCall(t) \/ CheckDisconnected(t) \/ CheckDeadline(t)
      BY <3>1, <3>3 DEF BeginCall, CheckDisconnected, CheckDeadline, FirstStep, Labels, Answered
    <3>4. CASE Reserve(t) \/ FindFull(t) \/ Claim(t) \/ FindEmpty(t) \/ Use(t) \/ WakeLen(t)
      BY <3>1, <3>4 DEF Reserve, FindFull, Claim, FindEmpty, Use, WakeLen, Labels, Answered
    <3>5. CASE LoadFirst(t) \/ LoadSecond(t) \/ LoadDisconnected(t) \/ Abort(t) \/ Wait(t)
               \/ GiveUp(t)
      BY <3>1, <3>5 DEF LoadFirst, LoadSecond, LoadDisconnected, Abort, Wait, GiveUp, AfterSelect,
                        Labels
    <3>6. CASE Unparked(t) \/ ParkTimesOut(t) \/ SpuriousWakeup(t) \/ Return(t) \/ SwapDisconnected(t)
      BY <3>1, <3>6 DEF Unparked, ParkTimesOut, SpuriousWakeup, Return, SwapDisconnected, Labels
    <3>7. CASE DropHandle(t) \/ Expire(t)
      BY <3>1, <3>2, <3>7 DEF DropHandle, Expire, Labels
    <3> QED
      BY <2>2, <3>3, <3>4, <3>5, <3>6, <3>7 DEF OwnStep
  <2> QED
    BY <2>1, <2>2
<1>5. pc'[t] = "unregister" => select'[t] \in {"aborted", "disconnected"}
  <2>1. CASE Wait(t)
    <3>1. UNCHANGED select
      BY <2>1 DEF Wait, waiting
    <3> QED
      BY <2>1, <3>1 DEF Wait, Goto, AfterSelect, Typed
  <2>2. CASE GiveUp(t)
    <3>1. pc'[t] = AfterSelect(select'[t])
      BY <2>2 DEF GiveUp, Goto, Typed
    <3> QED
      BY <3>1 DEF AfterSelect
  <2>3. CASE ~Wait(t) /\ ~GiveUp(t)
    <3>1. pc'[t] # "unregister"
      BY <2>3 DEF OwnStep, BeginCall, CheckDisconnected, Reserve, FindFull, Claim, FindEmpty, Use,
                  WakeLen, EnterContext, LoadFirst, LoadSecond, LoadDisconnected, Abort, Unparked,
                  ParkTimesOut, SpuriousWakeup, CheckDeadline, Return, Expire, DropHandle,
                  SwapDisconnected, Goto, FirstStep, Typed
    <3> QED
      BY <3>1
  <2> QED
    BY <2>1, <2>2, <2>3
<1>6. pc'[t] = "load_second" /\ t \in Receivers => pos'[t] <= head'
  <2>1. CASE LoadFirst(t)
    <3>1. t \in Receivers => pos'[t] = head
      BY <2>1, Sides DEF LoadFirst, Typed
    <3>2. head' = head /\ head \in Nat
      BY <2>1 DEF LoadFirst, queueVars, Typed
    <3> QED
      BY <3>1, <3>2
  <2>2. CASE ~LoadFirst(t)
    <3>1. pc'[t] # "load_second"
      BY <2>2 DEF OwnStep, BeginCall, CheckDisconnected, Reserve, FindFull, Claim, FindEmpty, Use,
                  WakeLen, EnterContext, LoadSecond, LoadDisconnected, Abort, Wait, GiveUp, Unparked,
                  ParkTimesOut, SpuriousWakeup, CheckDeadline, Return, Expire, DropHandle,
                  SwapDisconnected, Goto, FirstStep, AfterSelect, Typed
    <3> QED
      BY <3>1
  <2> QED
    BY <2>1, <2>2
<1>7. t \in Senders /\ pc'[t] \in Unsent => sent'[t] < MaxSends
  <2> SUFFICES ASSUME t \in Senders, pc'[t] \in Unsent
               PROVE  sent'[t] < MaxSends
    OBVIOUS
  <2>1. CASE BeginCall(t)
    BY <2>1 DEF BeginCall, queueVars
  <2>2. CASE ~BeginCall(t)
    <3>1. pc[t] \in Unsent /\ ~Reserve(t)
      <4>1. pc \in [Threads -> Labels] /\ pc'[t] \in Unsent
        BY DEF Typed
      <4>2. ~Reserve(t) /\ ~Use(t) /\ ~WakeLen(t) /\ ~Return(t) /\ ~DropHandle(t)
              /\ ~SwapDisconnected(t)
        BY <4>1 DEF Reserve, Use, WakeLen, Return, DropHandle, SwapDisconnected, Goto,
                    MayBeRegistered
      <4>3. CASE CheckDisconnected(t) \/ FindFull(t) \/ Claim(t) \/ FindEmpty(t)
        BY <4>2, <4>3 DEF CheckDisconnected, FindFull, Claim, FindEmpty
      <4>4. CASE EnterContext(t) \/ LoadFirst(t) \/ LoadSecond(t) \/ LoadDisconnected(t) \/ Abort(t)
                   \/ Wait(t) \/ GiveUp(t)
        BY <4>2, <4>4 DEF EnterContext, LoadFirst, LoadSecond, LoadDisconnected, Abort, Wait, GiveUp,
                    MayBeRegistered
      <4>5. CASE Unparked(t) \/ ParkTimesOut(t) \/ SpuriousWakeup(t) \/ CheckDeadline(t) \/ Expire(t)
        BY <4>2, <4>5 DEF Unparked, ParkTimesOut, SpuriousWakeup, CheckDeadline, Expire, MayBeRegistered
      <4> QED
        BY <2>2, <4>2, <4>3, <4>4, <4>5 DEF OwnStep
    <3>2. sent' = sent
      BY <3>1 DEF OwnStep, BeginCall, CheckDisconnected, FindFull, Claim, FindEmpty, Use, WakeLen,
                  EnterContext, LoadFirst, LoadSecond, LoadDisconnected, Abort, Wait, GiveUp,
                  Unparked, ParkTimesOut, SpuriousWakeup, CheckDeadline, Return, Expire, DropHandle,
                  SwapDisconnected, queueVars
    <3> QED
      BY <1>1, <3>1, <3>2 DEF LabelOK
  <2> QED
    BY <2>1, <2>2
<1> QED
  BY <1>3, <1>4, <1>5, <1>6, <1>7 DEF LabelOK

\* What the labels say of t after a step on a waker.
LEMMA WakerLabel ==
  ASSUME Typed, Typed', IInv, NEW t \in Threads, WakerStep(t)
  PROVE  LabelOK(t)'
<1>1. LabelOK(t) /\ t \notin {"waiting", "aborted", "disconnected"}
  BY Sides DEF IInv, LabelsOK
<1>2. /\ pc'[t] \in {pc[t], "ok", "wake_unpark", "load_first", "check_deadline", "disc_senders",
                     "disc_receivers", "disc_lock_receivers", "idle"}
      /\ pc[t] \in {"wake_select", "wake_unpark", "register", "unregister", "disc_lock_senders",
                    "disc_lock_receivers", "disc_senders", "disc_receivers"}
      /\ pc'[t] = "load_first" => RegisterOper(t)
      /\ pc'[t] = "check_deadline" => UnregisterOper(t)
      /\ pc'[t] = pc[t] => DisconnectWaker(t)
  BY DEF WakerStep, WakeOther, UnparkOther, RegisterOper, UnregisterOper, LockWaker,
         DisconnectWaker, Goto, Typed
<1>3. sent' = sent
  BY WakerStepFrame DEF queueVars
<1>4. select'[t] = select[t] \/ (DisconnectWaker(t) /\ select'[t] = "disconnected")
  <2>1. CASE WakeOther(t)
    <3>1. UNCHANGED select \/ \E u \in Threads \ {t} : select' = [select EXCEPT ![u] = u]
      BY <2>1, WakeFinds DEF waiting
    <3> QED
      BY <3>1 DEF Typed
  <2>2. CASE UnparkOther(t) \/ RegisterOper(t) \/ UnregisterOper(t)
    BY <2>2 DEF UnparkOther, RegisterOper, UnregisterOper, WakeUnpark, Register, Unregister
  <2>3. CASE LockWaker(t)
    BY <2>3 DEF LockWaker, DisconnectLock
  <2>4. CASE DisconnectWaker(t)
    <3>1. UNCHANGED select \/ \E u : select' = [select EXCEPT ![u] = "disconnected"]
      BY <2>4, DisconnectFrame
    <3> QED
      BY <2>4, <3>1 DEF Typed
  <2> QED
    BY <2>1, <2>2, <2>3, <2>4 DEF WakerStep
<1>5. DisconnectWaker(t) => pc[t] \in {"disc_senders", "disc_receivers"}
  BY DEF DisconnectWaker
<1>6. RegisterOper(t) => pc[t] = "register"
  BY DEF RegisterOper
<1>7. UnregisterOper(t) => pc[t] = "unregister"
  BY DEF UnregisterOper
<1> QED
  BY <1>1, <1>2, <1>3, <1>4, <1>5, <1>6, <1>7 DEF LabelOK, MayBeRegistered

LEMMA LabelsNext ==
  ASSUME Typed, Typed', IInv, NEW t \in Threads, OwnStep(t) \/ WakerStep(t)
  PROVE  LabelsOK'
<1>1. LabelOK(t)'
  BY OwnLabel, WakerLabel
<1>2. ASSUME NEW u \in Threads, u # t
      PROVE  LabelOK(u)'
  <2>1. LabelOK(u) /\ u \notin {"waiting", "aborted", "disconnected"}
    BY Sides DEF IInv, LabelsOK
  <2>2. /\ pc'[u] = pc[u] /\ pos'[u] = pos[u] /\ head <= head' /\ pos[u] \in Nat
        /\ head \in Nat /\ head' \in Nat
        /\ u \in Senders => sent'[u] = sent[u]
    <3>1. /\ pc'[u] = pc[u] /\ pos'[u] = pos[u] /\ head <= head'
          /\ u \in Senders => sent'[u] = sent[u]
      BY <1>2, LabelsElse
    <3>2. pos[u] \in Nat /\ head \in Nat
      BY DEF Typed
    <3>3. head' \in Nat
      BY DEF Typed
    <3> QED
      BY <3>1, <3>2, <3>3
  <2>3. \/ select'[u] = select[u]
        \/ Waits(u) /\ select[u] = "waiting" /\ select'[u] \in {u, "disconnected"}
    <3>1. CASE OwnStep(t)
      <4>1. UNCHANGED select \/ \E sel : select' = [select EXCEPT ![t] = sel]
        BY <3>1, OwnStepFrame
      <4> QED
        BY <1>2, <4>1, Domains
    <3>2. CASE WakeOther(t)
      <4>1. \/ UNCHANGED select
            \/ \E z \in Threads : Waits(z) /\ select[z] = "waiting" /\ select' = [select EXCEPT ![z] = z]
        BY <3>2, WakeFinds DEF waiting
      <4> QED
        BY <4>1, Domains
    <3>3. CASE UnparkOther(t) \/ RegisterOper(t) \/ UnregisterOper(t)
      BY <3>3 DEF UnparkOther, RegisterOper, UnregisterOper, WakeUnpark, Register, Unregister
    <3>4. CASE LockWaker(t) \/ DisconnectWaker(t)
      <4>1. PICK w \in Wakers :
              \/ UNCHANGED select
              \/ /\ locked[w] = t /\ cursor[t] \in 1 .. Len(entries[w])
                 /\ select[entries[w][cursor[t]].thread] = "waiting"
                 /\ select' = [select EXCEPT ![entries[w][cursor[t]].thread] = "disconnected"]
                 /\ pc[t] # "wake_unpark"
        BY <3>4, DisconnectFrame
      <4>2. CASE UNCHANGED select
        BY <4>2
      <4>3. CASE ~UNCHANGED select
        <5>1. Waits(entries[w][cursor[t]].thread)
          BY <4>1, <4>3, EntriesWait DEF IInv
        <5> QED
          BY <4>1, <4>3, <5>1 DEF Typed
      <4> QED
        BY <4>2, <4>3
    <3> QED
      BY <3>1, <3>2, <3>3, <3>4 DEF WakerStep
  <2>4. Waits(u) /\ select[u] = "waiting" => pc[u] \notin {"register", "unregister"}
    BY <2>1 DEF Waits, MayBeRegistered, LabelOK
  <2> QED
    BY <2>1, <2>2, <2>3, <2>4 DEF LabelOK
<1> QED
  BY <1>1, <1>2 DEF LabelsOK

\* The inductive invariant.
LEMMA InvNext ==
  Typed /\ IInv /\ [Next]_vars => Typed' /\ IInv'
<1> SUFFICES ASSUME Typed, IInv, [Next]_vars
             PROVE  Typed' /\ IInv'
  OBVIOUS
<1>1. ASSUME NEW t \in Threads, OwnStep(t)
      PROVE  Typed' /\ IInv'
  <2>1. Typed'
    BY <1>1, OwnStepTyped
  <2> QED
    BY <1>1, <2>1, OwnStepWakers, LabelsNext DEF IInv
<1>2. ASSUME NEW t \in Threads, WakerStep(t)
      PROVE  Typed' /\ IInv'
  <2>1. Typed'
    BY <1>2, WakerStepTyped
  <2>2. EntriesOK' /\ HoldersOK'
    BY <1>2, <2>1, WakeWakers, UnparkWakers, RegisterWakers, UnregisterWakers, DisconnectWakers
       DEF WakerStep
  <2> QED
    BY <1>2, <2>1, <2>2, LabelsNext DEF IInv
<1>3. CASE UNCHANGED vars
  <2>1. Typed'
    BY <1>3 DEF vars, queueVars, callVars, waiting, Typed
  <2>2. EntriesOK'
    <3>1. UNCHANGED <<entries, locked, cursor, pc, select>>
      BY <1>3 DEF vars, waiting
    <3>2. \A w, k : EntryOK(w, k)' <=> EntryOK(w, k)
      BY <3>1 DEF EntryOK, Claimed, Waits
    <3>3. \A t : (Waits(t)' <=> Waits(t)) /\ (Registered(t)' <=> Registered(t))
      BY <3>1 DEF Waits, Registered
    <3> QED
      BY <3>1, <3>2, <3>3 DEF IInv, EntriesOK
  <2>3. HoldersOK'
    <3>1. UNCHANGED <<entries, locked, cursor, pc>>
      BY <1>3 DEF vars, waiting
    <3>2. \A t, w : Holds(t, w)' <=> Holds(t, w)
      BY <3>1 DEF Holds
    <3> QED
      BY <3>1, <3>2 DEF IInv, HoldersOK
  <2>4. LabelsOK'
    BY <1>3 DEF vars, queueVars, callVars, waiting, IInv, LabelsOK, LabelOK
  <2> QED
    BY <2>1, <2>2, <2>3, <2>4 DEF IInv
<1> QED
  BY <1>1, <1>2, <1>3, StepKinds DEF Next, Terminated

LEMMA InitInv ==
  Init => Typed /\ IInv
<1> SUFFICES ASSUME Init
             PROVE  Typed /\ IInv
  OBVIOUS
<1>1. entries = [w \in Wakers |-> <<>>] /\ \A w \in Wakers : Len(entries[w]) = 0
  BY DEF Init, WakerInit
<1>2. entries \in [Wakers -> Seq([thread : Threads, oper : Threads])]
  BY <1>1, EmptySeq
<1>3. /\ pc = [t \in Threads |-> "idle"] /\ select = [t \in Threads |-> "waiting"]
      /\ locked = [w \in Wakers |-> NoThread] /\ cursor = [t \in Threads |-> 0]
      /\ token = [t \in Threads |-> FALSE]
  BY DEF Init, WakerInit
<1>4. Typed
  <2>1. head \in 0 .. tail /\ tail - head <= Cap /\ tail \in Nat /\ pos \in [Threads -> 0 .. tail]
    BY CapAssumption DEF Init
  <2>2. sent \in [Senders -> 0 .. MaxSends]
    BY BoundAssumption DEF Init
  <2>3. /\ slots \in [0 .. Cap - 1 -> {"free", "writing", "full", "reading"}]
        /\ disconnected \in BOOLEAN /\ alive \subseteq Threads /\ expired \in [Threads -> BOOLEAN]
    BY DEF Init
  <2>4. /\ locked \in [Wakers -> Threads \cup {NoThread}] /\ cursor \in [Threads -> Nat]
        /\ select \in [Threads -> {"waiting", "aborted", "disconnected"} \cup Threads]
        /\ token \in [Threads -> BOOLEAN] /\ pc \in [Threads -> Labels]
    BY <1>3 DEF Labels
  <2> QED
    BY <1>2, <2>1, <2>2, <2>3, <2>4 DEF Typed
<1>5. \A t \in Threads : ~Waits(t)
  BY <1>3 DEF Waits, MayBeRegistered
<1>6. EntriesOK
  BY <1>1, <1>5 DEF EntriesOK
<1>7. HoldersOK
  BY <1>3, Sides DEF HoldersOK, Holds
<1>8. LabelsOK
  BY <1>3 DEF LabelsOK, LabelOK, MayBeRegistered
<1> QED
  BY <1>4, <1>6, <1>7, <1>8 DEF IInv

LEMMA Invariant ==
  Spec => [](Typed /\ IInv)
<1>1. Init => Typed /\ IInv
  BY InitInv
<1>2. Typed /\ IInv /\ [Next]_vars => Typed' /\ IInv'
  BY InvNext
<1> QED
  BY <1>1, <1>2, PTL DEF Spec
-------------------------------------------------------------------------------
(* The properties. *)

\* A waker holds each thread once.
LEMMA EntriesBounded ==
  ASSUME Typed, EntriesOK, NEW w \in Wakers
  PROVE  Len(entries[w]) <= Cardinality(Threads)
<1> DEFINE n == Len(entries[w])
           f == [i \in 1 .. n |-> entries[w][i].thread]
<1>1. n \in Nat /\ \A i \in 1 .. n : entries[w][i].thread \in Threads
  BY EntryType
<1>2. \A i, j \in 1 .. n : entries[w][i].thread = entries[w][j].thread => i = j
  BY DEF EntriesOK, EntryOK
<1>3. f \in Injection(1 .. n, Threads)
  <2>1. f \in [1 .. n -> Threads]
    BY <1>1
  <2>2. \A i, j \in 1 .. n : f[i] = f[j] => i = j
    BY <1>2
  <2> QED
    BY <2>1, <2>2 DEF Injection, IsInjective
<1>4. IsFiniteSet(Threads)
  BY ThreadAssumption, FS_Union DEF Threads
<1> HIDE DEF f, n
<1>5. Cardinality(1 .. n) <= Cardinality(Threads)
  BY <1>3, <1>4, FS_Injection
<1>6. Cardinality(1 .. n) = n
  BY <1>1, FS_Interval
<1> QED
  BY <1>5, <1>6 DEF n

LEMMA BoundsHold ==
  Typed /\ IInv => TypeOK
<1> SUFFICES ASSUME Typed, IInv
             PROVE  TypeOK
  OBVIOUS
<1>1. Cardinality(Threads) \in Nat
  BY ThreadAssumption, FS_Union, FS_CardinalityType DEF Threads
<1>2. ASSUME NEW t \in Threads
      PROVE  cursor[t] \in 0 .. Cardinality(Threads) + 1
  <2>1. CASE pc[t] \notin {"wake_unpark", "disc_senders", "disc_receivers"}
    BY <1>1, <2>1 DEF IInv, HoldersOK
  <2>2. CASE pc[t] \in {"wake_unpark", "disc_senders", "disc_receivers"}
    <3>1. PICK w \in Wakers : Holds(t, w)
      BY <2>2, Sides DEF Holds, Wakers
    <3>2. cursor[t] \in 1 .. Len(entries[w]) + (IF pc[t] = "wake_unpark" THEN 0 ELSE 1)
      BY <3>1 DEF IInv, HoldersOK
    <3>3. Len(entries[w]) <= Cardinality(Threads) /\ Len(entries[w]) \in Nat
      BY EntriesBounded, EntryType DEF IInv
    <3>4. cursor[t] \in Nat /\ cursor[t] <= Len(entries[w]) + 1
      <4>1. CASE pc[t] = "wake_unpark"
        BY <3>2, <3>3, <4>1
      <4>2. CASE pc[t] # "wake_unpark"
        BY <3>2, <3>3, <4>2
      <4> QED
        BY <4>1, <4>2
    <3> QED
      BY <1>1, <3>3, <3>4
  <2> QED
    BY <2>1, <2>2
<1>3. cursor \in [Threads -> 0 .. Cardinality(Threads) + 1]
  BY <1>2 DEF Typed
<1>4. \A w \in Wakers : entries[w] \in Seq([thread : Threads, oper : Threads])
  BY EntryType
<1> QED
  BY <1>3, <1>4 DEF Typed, TypeOK

\* Every variable keeps its type, no more slots are in use than there are, and
\* a waker never has more entries than there are threads.
THEOREM TypeCorrect == Spec => []TypeOK
BY Invariant, BoundsHold, PTL

LEMMA MatchHolds ==
  Typed /\ IInv => EntriesMatch
<1> SUFFICES ASSUME Typed, IInv
             PROVE  EntriesMatch
  OBVIOUS
<1>1. ASSUME NEW t \in Threads, Waits(t)
      PROVE  Registered(t)
  BY <1>1 DEF IInv, EntriesOK
<1>2. ASSUME NEW t \in Threads, Registered(t), ~Waits(t)
      PROVE  BeingWoken(t)
  <2> DEFINE w == Own(t)
  <2>1. PICK i \in 1 .. Len(entries[w]) : entries[w][i].thread = t
    BY <1>2 DEF Registered
  <2>2. Claimed(w, i)
    BY <1>2, <2>1, Sides DEF IInv, EntriesOK, EntryOK
  <2>3. PICK z \in Threads : z = locked[w] /\ pc[z] = "wake_unpark" /\ cursor[z] = i
    BY <2>2 DEF Claimed
  <2>4. Holds(z, w)
    BY <2>3, Sides DEF IInv, HoldersOK
  <2>5. z \notin SideOf(t)
    BY <2>3, <2>4, Sides DEF Holds
  <2> QED
    BY <2>1, <2>3, <2>5 DEF BeingWoken
<1>3. \A w \in Wakers : \A i, j \in 1 .. Len(entries[w]) :
        entries[w][i].thread = entries[w][j].thread => i = j
  BY DEF IInv, EntriesOK, EntryOK
<1> QED
  BY <1>1, <1>2, <1>3 DEF EntriesMatch, Waits

\* An operation is in its waker, once, exactly while its thread waits and
\* wake_one has not selected it: the unwrap of unregister and the assertions of
\* the two Drop implementations do not fail, whatever the number of threads and
\* whoever disconnects the channel meanwhile.
THEOREM EntriesCorrect == Spec => []EntriesMatch
BY Invariant, MatchHolds, PTL
-------------------------------------------------------------------------------
(* No wakeup is lost. *)

LEMMA FewerOwe ==
  ASSUME NEW A, NEW B, IsFiniteSet(B), A \subseteq B
  PROVE  Cardinality(A) <= Cardinality(B) /\ Cardinality(A) \in Nat /\ Cardinality(B) \in Nat
BY FS_Subset, FS_CardinalityType

\* x stops owing a wakeup.
LEMMA OneLess ==
  ASSUME NEW A, NEW B, NEW x, IsFiniteSet(A), IsFiniteSet(B), A \ {x} \subseteq B
  PROVE  Cardinality(A) <= Cardinality(B) + 1
<1>1. Cardinality(A \ {x}) = IF x \in A THEN Cardinality(A) - 1 ELSE Cardinality(A)
  BY FS_RemoveElement
<1>2. Cardinality(A \ {x}) <= Cardinality(B)
  BY FewerOwe
<1>3. Cardinality(A) \in Nat /\ Cardinality(B) \in Nat
  BY FS_CardinalityType
<1> QED
  BY <1>1, <1>2, <1>3

\* y begins to owe a wakeup.
LEMMA OneMore ==
  ASSUME NEW A, NEW B, NEW y, IsFiniteSet(A), IsFiniteSet(B), A \subseteq B, y \in B, y \notin A
  PROVE  Cardinality(A) + 1 <= Cardinality(B)
<1>1. Cardinality(A \cup {y}) = Cardinality(A) + 1 /\ IsFiniteSet(A \cup {y})
  BY FS_AddElement
<1>2. Cardinality(A \cup {y}) <= Cardinality(B)
  BY FewerOwe
<1> QED
  BY <1>1, <1>2

\* y begins to owe a wakeup in the place of x.
LEMMA OneForOne ==
  ASSUME NEW A, NEW B, NEW x, NEW y, IsFiniteSet(A), IsFiniteSet(B), A \ {x} \subseteq B, y \in B,
         y \notin A
  PROVE  Cardinality(A) <= Cardinality(B)
<1>1. Cardinality(A \ {x}) + 1 <= Cardinality(B)
  <2>1. IsFiniteSet(A \ {x})
    BY FS_RemoveElement
  <2> QED
    BY <2>1, OneMore
<1>2. Cardinality(A \ {x}) = IF x \in A THEN Cardinality(A) - 1 ELSE Cardinality(A)
  BY FS_RemoveElement
<1>3. Cardinality(A) \in Nat /\ Cardinality(B) \in Nat
  BY FS_CardinalityType
<1> QED
  BY <1>1, <1>2, <1>3

\* Only calls with a deadline time out.
ExpiredOK == \A t \in Threads : expired[t] => t \in Timed

LEMMA OwingFinite ==
  ASSUME NEW u \in Threads
  PROVE  /\ IsFiniteSet(Owing(u)) /\ Cardinality(Owing(u)) \in Nat
         /\ IsFiniteSet(Owing(u)') /\ Cardinality(Owing(u)') \in Nat
<1>1. IsFiniteSet(Threads)
  BY ThreadAssumption, FS_Union DEF Threads
<1>2. Owing(u) \subseteq Threads /\ Owing(u)' \subseteq Threads
  BY DEF Owing, SideOf, Threads
<1> QED
  BY <1>1, <1>2, FS_Subset, FS_CardinalityType

\* What a step does to the context and the label of everyone else: it may
\* select an operation that waits, with itself or as disconnected.
LEMMA OthersStay ==
  ASSUME Typed, Typed', IInv, NEW t \in Threads, OwnStep(t) \/ WakerStep(t),
         NEW z \in Threads, z # t
  PROVE  /\ pc'[z] = pc[z]
         /\ select'[z] = select[z] \/ (select[z] = "waiting" /\ select'[z] \in {z, "disconnected"})
<1>1. pc'[z] = pc[z]
  BY LabelsElse
<1>2. CASE OwnStep(t)
  <2>1. UNCHANGED select \/ \E sel : select' = [select EXCEPT ![t] = sel]
    BY <1>2, OwnStepFrame
  <2> QED
    BY <1>1, <2>1, Domains
<1>3. CASE WakeOther(t)
  <2>1. \/ UNCHANGED select
        \/ \E u \in Threads : select[u] = "waiting" /\ select' = [select EXCEPT ![u] = u]
    BY <1>3, WakeFinds DEF waiting
  <2> QED
    BY <1>1, <2>1, Domains
<1>4. CASE UnparkOther(t) \/ RegisterOper(t) \/ UnregisterOper(t) \/ LockWaker(t)
  BY <1>1, <1>4 DEF UnparkOther, RegisterOper, UnregisterOper, LockWaker, WakeUnpark, Register,
                    Unregister, DisconnectLock
<1>5. CASE DisconnectWaker(t)
  <2>1. \/ UNCHANGED select
        \/ \E u : select[u] = "waiting" /\ select' = [select EXCEPT ![u] = "disconnected"]
    BY <1>5, DisconnectFrame
  <2> QED
    BY <1>1, <2>1, Domains
<1> QED
  BY <1>2, <1>3, <1>4, <1>5 DEF WakerStep

\* Whoever owes u's side a wakeup still does after a step of another thread.
LEMMA OthersOwe ==
  ASSUME Typed, Typed', IInv, NEW t \in Threads, OwnStep(t) \/ WakerStep(t), NEW u \in Threads
  PROVE  Owing(u) \ {t} \subseteq Owing(u)'
<1> SUFFICES ASSUME NEW z \in Owing(u), z # t
             PROVE  z \in Owing(u)'
  OBVIOUS
<1>1. z \in Threads
  BY DEF Owing, SideOf, Threads
<1>2. /\ pc'[z] = pc[z]
      /\ select'[z] = select[z] \/ (select[z] = "waiting" /\ select'[z] \in {z, "disconnected"})
  BY <1>1, OthersStay
<1>3. z # "waiting"
  BY <1>1, Sides
<1> QED
  BY <1>2, <1>3 DEF Owing

\* A thread becomes committed by its second look at the queue only.
LEMMA CommittedBefore ==
  ASSUME Typed, Typed', IInv, NEW t \in Threads, OwnStep(t) \/ WakerStep(t),
         NEW u \in Threads, Committed(u)', ~(u = t /\ LoadSecond(t))
  PROVE  Committed(u)
<1>1. CASE u # t
  <2>1. /\ pc'[u] = pc[u]
        /\ select'[u] = select[u] \/ (select[u] = "waiting" /\ select'[u] \in {u, "disconnected"})
    BY <1>1, OthersStay
  <2> QED
    BY <2>1, Sides DEF Committed
<1>2. CASE u = t /\ WakerStep(t)
  <2>1. pc'[t] \notin {"load_disc", "wait", "parked"}
    BY <1>2 DEF WakerStep, WakeOther, UnparkOther, RegisterOper, UnregisterOper, LockWaker,
                DisconnectWaker, Goto, Typed
  <2> QED
    BY <1>2, <2>1 DEF Committed
<1>3. CASE u = t /\ OwnStep(t)
  <2>1. pc'[t] \in {"load_disc", "wait", "parked"} /\ select'[t] = "waiting"
    BY <1>3 DEF Committed
  <2>2. ~LoadSecond(t)
    BY <1>3
  <2>3. /\ pc \in [Threads -> Labels]
        /\ select \in [Threads -> {"waiting", "aborted", "disconnected"} \cup Threads]
    BY DEF Typed
  <2>4. LoadDisconnected(t) \/ Abort(t) \/ Wait(t) \/ Unparked(t) \/ ParkTimesOut(t)
          \/ SpuriousWakeup(t) \/ Expire(t)
    BY <1>3, <2>1, <2>2, <2>3
       DEF OwnStep, BeginCall, CheckDisconnected, Reserve, FindFull, Claim, FindEmpty, Use, WakeLen,
           EnterContext, LoadFirst, GiveUp, CheckDeadline, Return, DropHandle, SwapDisconnected,
           Goto, FirstStep, AfterSelect
  <2>5. ~Abort(t)
    BY <2>1, <2>3 DEF Abort, TrySelect
  <2>6. pc[t] \in {"load_disc", "wait", "parked"}
    BY <2>4, <2>5, <2>1 DEF LoadDisconnected, Wait, Unparked, ParkTimesOut, SpuriousWakeup, Expire
  <2>7. select' = select
    BY <2>4, <2>5 DEF LoadDisconnected, Wait, Unparked, ParkTimesOut, SpuriousWakeup, Expire,
                      TakeToken, waiting
  <2> QED
    BY <1>3, <2>1, <2>6, <2>7 DEF Committed
<1> QED
  BY <1>1, <1>2, <1>3

\* The thread that takes a step goes on owing a wakeup, unless the step takes
\* or finds nothing to take, ends its wake_one, or times out.
LEMMA MoverOwes ==
  ASSUME Typed, Typed', IInv, NEW t \in Threads, OwnStep(t), NEW u \in Threads, t \in Owing(u),
         ~disconnected, ~Reserve(t), ~Claim(t), ~FindFull(t), ~FindEmpty(t),
         ~(WakeLen(t) /\ entries[Other(t)] = <<>>), ~(CheckDeadline(t) /\ expired[t])
  PROVE  t \in Owing(u)'
<1>1. /\ pc \in [Threads -> Labels]
      /\ select \in [Threads -> {"waiting", "aborted", "disconnected"} \cup Threads]
  BY DEF Typed
<1>2. CASE t \notin SideOf(u)
  <2>1. pc[t] \in {"use", "wake_len", "wake_select"}
    BY <1>2 DEF Owing
  <2>2. Use(t) \/ WakeLen(t)
    BY <2>1 DEF OwnStep, BeginCall, CheckDisconnected, Reserve, FindFull, Claim, FindEmpty, EnterContext,
                LoadFirst, LoadSecond, LoadDisconnected, Abort, Wait, GiveUp, Unparked, ParkTimesOut,
                SpuriousWakeup, CheckDeadline, Return, Expire, DropHandle, SwapDisconnected, Answered
  <2>3. pc'[t] \in {"wake_len", "wake_select"}
    BY <1>1, <2>2 DEF Use, WakeLen, Goto
  <2> QED
    BY <1>2, <2>3 DEF Owing, SideOf
<1>3. CASE t \in SideOf(u)
  <2> DEFINE Retrying == {"load_first", "load_second", "load_disc", "abort", "wait", "give_up", "parked",
                          "check_deadline", "check_disc", "claim"}
  <2>1. select[t] = t /\ pc[t] \in Retrying
    BY <1>3 DEF Owing
  <2>2. t \notin {"waiting", "aborted", "disconnected"}
    BY Sides
  <2>3. CheckDisconnected(t) \/ LoadFirst(t) \/ LoadSecond(t) \/ LoadDisconnected(t) \/ Abort(t)
          \/ Wait(t) \/ GiveUp(t) \/ Unparked(t) \/ ParkTimesOut(t) \/ SpuriousWakeup(t)
          \/ CheckDeadline(t) \/ Expire(t)
    BY <2>1 DEF OwnStep, BeginCall, Use, WakeLen, EnterContext, Return, DropHandle, SwapDisconnected,
                Answered
  <2>4. select'[t] = t
    <3>1. CASE Abort(t) \/ GiveUp(t)
      BY <1>1, <2>1, <2>2, <3>1 DEF Abort, GiveUp, TrySelect
    <3>2. CASE ~Abort(t) /\ ~GiveUp(t)
      <4>1. select' = select
        BY <2>3, <3>2 DEF CheckDisconnected, LoadFirst, LoadSecond, LoadDisconnected, Wait, Unparked,
                          ParkTimesOut, SpuriousWakeup, CheckDeadline, Expire, TakeToken, waiting
      <4> QED
        BY <2>1, <4>1
    <3> QED
      BY <3>1, <3>2
  <2>5. pc'[t] \in Retrying
    <3>1. CASE CheckDisconnected(t)
      BY <1>1, <3>1 DEF CheckDisconnected, Goto
    <3>2. CASE LoadFirst(t) \/ LoadSecond(t) \/ LoadDisconnected(t) \/ Abort(t)
      BY <1>1, <3>2 DEF LoadFirst, LoadSecond, LoadDisconnected, Abort, Goto
    <3>3. CASE Wait(t)
      BY <1>1, <2>1, <2>2, <3>3 DEF Wait, Goto, AfterSelect
    <3>4. CASE GiveUp(t)
      BY <1>1, <2>2, <2>4, <3>4 DEF GiveUp, Goto, AfterSelect
    <3>5. CASE Unparked(t) \/ ParkTimesOut(t) \/ SpuriousWakeup(t)
      BY <1>1, <3>5 DEF Unparked, ParkTimesOut, SpuriousWakeup, Goto
    <3>6. CASE CheckDeadline(t)
      BY <1>1, <3>6 DEF CheckDeadline, Goto, FirstStep
    <3>7. CASE Expire(t)
      BY <2>1, <3>7 DEF Expire
    <3> QED
      BY <2>3, <3>1, <3>2, <3>3, <3>4, <3>5, <3>6, <3>7
  <2> QED
    BY <1>3, <2>4, <2>5 DEF Owing, SideOf
<1> QED
  BY <1>2, <1>3

\* Neither head nor tail changes but when a slot is reserved or claimed.
LEMMA AvailableStays ==
  ASSUME NEW t \in Threads, OwnStep(t) \/ WakerStep(t), ~Reserve(t), ~Claim(t), NEW u \in Threads, Typed
  PROVE  Available(u)' = Available(u)
<1>1. head' = head /\ tail' = tail
  <2>1. CASE OwnStep(t)
    BY <2>1 DEF OwnStep, BeginCall, CheckDisconnected, FindFull, FindEmpty, Use, WakeLen, EnterContext,
                LoadFirst, LoadSecond, LoadDisconnected, Abort, Wait, GiveUp, Unparked, ParkTimesOut,
                SpuriousWakeup, CheckDeadline, Return, Expire, DropHandle, SwapDisconnected, queueVars
  <2>2. CASE WakerStep(t)
    BY <2>2, WakerStepFrame DEF queueVars
  <2> QED
    BY <2>1, <2>2
<1> QED
  BY <1>1 DEF Available

\* A committed thread is in its waker, where wake_one may select it.
LEMMA CommittedListed ==
  ASSUME Typed, IInv, NEW t \in Threads, NEW u \in Threads, Committed(u), Own(u) = Other(t)
  PROVE  entries[Other(t)] # <<>> /\ Selectable(Other(t), t) # {}
<1>1. Waits(u) /\ select[u] = "waiting" /\ u # t
  BY Sides DEF Committed, Waits, MayBeRegistered
<1>2. PICK i \in 1 .. Len(entries[Other(t)]) : entries[Other(t)][i].thread = u
  BY <1>1 DEF IInv, EntriesOK, Registered
<1>3. i \in Selectable(Other(t), t)
  BY <1>1, <1>2 DEF Selectable
<1>4. Len(<<>>) = 0
  OBVIOUS
<1> QED
  BY <1>2, <1>3, <1>4

\* The second look at the queue commits a thread only if it finds nothing.
LEMMA CommitsEmpty ==
  ASSUME Typed, IInv, NEW t \in Threads, LoadSecond(t), Committed(t)'
  PROVE  Available(t)' = 0
<1>1. head' = head /\ tail' = tail
  BY DEF LoadSecond, queueVars
<1>2. head \in Nat /\ tail \in Nat /\ head <= tail /\ tail - head <= Cap /\ Cap \in Nat
  BY CapAssumption DEF Typed
<1>3. pos[t] \in Nat /\ pos[t] <= tail
  BY <1>2 DEF Typed
<1>4. IF t \in Senders THEN head + Cap = pos[t] ELSE tail = pos[t]
  BY DEF LoadSecond, Goto, Committed, Typed
<1>5. t \in Receivers => pos[t] <= head
  BY DEF IInv, LabelsOK, LabelOK, LoadSecond
<1>6. CASE t \in Senders
  BY <1>1, <1>2, <1>3, <1>4, <1>6 DEF Available
<1>7. CASE t \notin Senders
  <2>1. tail = head
    BY <1>2, <1>3, <1>4, <1>5, <1>7, Sides
  <2> QED
    BY <1>1, <1>2, <1>7, <2>1 DEF Available
<1> QED
  BY <1>6, <1>7

\* A thread that reserves a slot or claims a message takes one from its own
\* side, and owes the other one a wakeup.
LEMMA TakesOne ==
  ASSUME Typed, Typed', IInv, NEW t \in Threads, Reserve(t) \/ Claim(t), NEW u \in Threads,
         Available(u) <= Cardinality(Owing(u))
  PROVE  Available(u)' <= Cardinality(Owing(u)')
<1>1. Owing(u) \ {t} \subseteq Owing(u)'
  BY OthersOwe DEF OwnStep
<1>2. /\ IsFiniteSet(Owing(u)) /\ Cardinality(Owing(u)) \in Nat
      /\ IsFiniteSet(Owing(u)') /\ Cardinality(Owing(u)') \in Nat
  BY OwingFinite
<1>3. head \in Nat /\ tail \in Nat /\ Cap \in Nat
  BY CapAssumption DEF Typed
<1>4. Available(u) \in Int
  BY <1>3 DEF Available
<1>5. IF t \in Senders THEN tail' = tail + 1 /\ head' = head ELSE head' = head + 1 /\ tail' = tail
  BY Sides DEF Reserve, Claim
<1>6. CASE t \in SideOf(u)
  <2>1. t \in Senders <=> u \in Senders
    BY <1>6, Sides DEF SideOf
  <2>2. Available(u)' = Available(u) - 1
    <3>1. CASE u \in Senders
      BY <1>3, <1>5, <2>1, <3>1 DEF Available
    <3>2. CASE u \notin Senders
      BY <1>3, <1>5, <2>1, <3>2 DEF Available
    <3> QED
      BY <3>1, <3>2
  <2>3. Cardinality(Owing(u)) <= Cardinality(Owing(u)') + 1
    BY <1>1, <1>2, OneLess
  <2> QED
    BY <1>2, <1>4, <2>2, <2>3
<1>7. CASE t \notin SideOf(u)
  <2>1. t \in Senders <=> u \notin Senders
    BY <1>7, Sides DEF SideOf, Threads
  <2>2. Available(u)' = Available(u) + 1
    <3>1. CASE u \in Senders
      BY <1>3, <1>5, <2>1, <3>1 DEF Available
    <3>2. CASE u \notin Senders
      BY <1>3, <1>5, <2>1, <3>2 DEF Available
    <3> QED
      BY <3>1, <3>2
  <2>3. pc[t] = "claim" /\ pc'[t] = "use"
    BY DEF Reserve, Claim, Goto, Typed
  <2>4. t \notin Owing(u) /\ t \in Owing(u)'
    BY <1>7, <2>3 DEF Owing, SideOf
  <2>5. Owing(u) \subseteq Owing(u)'
    BY <1>1, <2>4
  <2>6. Cardinality(Owing(u)) + 1 <= Cardinality(Owing(u)')
    BY <1>2, <2>4, <2>5, OneMore
  <2> QED
    BY <1>2, <1>4, <2>2, <2>6
<1> QED
  BY <1>6, <1>7

\* wake_one passes the wakeup it owes on to the thread that it selects.
LEMMA PassesOn ==
  ASSUME Typed, Typed', IInv, NEW t \in Threads, WakeOther(t), NEW u \in Threads, Committed(u)
  PROVE  Cardinality(Owing(u)) <= Cardinality(Owing(u)')
<1>1. Owing(u) \ {t} \subseteq Owing(u)'
  BY OthersOwe DEF WakerStep
<1>2. IsFiniteSet(Owing(u)) /\ IsFiniteSet(Owing(u)')
  BY OwingFinite
<1>3. pc[t] = "wake_select"
  BY DEF WakeOther
<1>4. CASE Own(u) # Other(t)
  <2>1. t \in SideOf(u)
    BY <1>4, Sides
  <2>2. t \notin Owing(u)
    BY <1>3, <2>1 DEF Owing
  <2>3. Owing(u) \subseteq Owing(u)'
    BY <1>1, <2>2
  <2> QED
    BY <1>2, <2>3, FewerOwe
<1>5. CASE Own(u) = Other(t)
  <2>1. Selectable(Other(t), t) # {}
    BY <1>5, CommittedListed
  <2>2. PICK z \in Threads :
          /\ z # t /\ Own(z) = Other(t) /\ Waits(z) /\ select[z] = "waiting"
          /\ select' = [select EXCEPT ![z] = z]
    BY <2>1, WakeFinds
  <2>3. pc'[z] = pc[z] /\ pc[z] \in MayBeRegistered /\ pc[z] # "unregister"
    <3>1. pc'[z] = pc[z]
      BY <2>2, LabelsElse DEF WakerStep
    <3>2. LabelOK(z)
      BY DEF IInv, LabelsOK
    <3> QED
      BY <2>2, <3>1, <3>2 DEF Waits, LabelOK
  <2>4. z \in SideOf(u)
    BY <1>5, <2>2, Sides
  <2>5. select[z] # z /\ select'[z] = z
    BY <2>2, Sides DEF Typed
  <2>6. z \notin Owing(u)
    BY <2>4, <2>5 DEF Owing
  <2>7. z \in Owing(u)'
    BY <2>3, <2>4, <2>5 DEF Owing, SideOf, MayBeRegistered
  <2> QED
    BY <1>1, <1>2, <2>6, <2>7, OneForOne
<1> QED
  BY <1>4, <1>5

\* The other steps leave the wakeups owed to u's side as they are, unless
\* there is nothing to take, or t times out.
LEMMA KeepsOwing ==
  ASSUME Typed, Typed', IInv, NEW t \in Threads, OwnStep(t) \/ (WakerStep(t) /\ ~WakeOther(t)),
         ~disconnected, NEW u \in Threads, Committed(u), ~Reserve(t), ~Claim(t),
         t \in SideOf(u) => ~FindFull(t) /\ ~FindEmpty(t) /\ ~(CheckDeadline(t) /\ expired[t])
  PROVE  Owing(u) \subseteq Owing(u)'
<1>1. Owing(u) \ {t} \subseteq Owing(u)'
  BY OthersOwe
<1>2. ASSUME t \in Owing(u), WakerStep(t), ~WakeOther(t)
      PROVE  FALSE
  <2>1. pc[t] \in {"wake_unpark", "register", "unregister", "disc_lock_senders", "disc_lock_receivers",
                   "disc_senders", "disc_receivers"}
    BY <1>2 DEF WakerStep, UnparkOther, RegisterOper, UnregisterOper, LockWaker, DisconnectWaker
  <2> QED
    BY <1>2, <2>1 DEF Owing
<1>3. ASSUME t \in Owing(u), OwnStep(t)
      PROVE  t \in Owing(u)'
  <2>1. CASE t \in SideOf(u)
    <3>1. pc[t] # "wake_len"
      BY <1>3, <2>1 DEF Owing
    <3>2. ~WakeLen(t)
      BY <3>1 DEF WakeLen
    <3> QED
      BY <1>3, <2>1, <3>2, MoverOwes
  <2>2. CASE t \notin SideOf(u)
    <3>1. pc[t] \in {"use", "wake_len", "wake_select"}
      BY <1>3, <2>2 DEF Owing
    <3>2. ~FindFull(t) /\ ~FindEmpty(t) /\ ~CheckDeadline(t)
      BY <3>1 DEF FindFull, FindEmpty, CheckDeadline
    <3>3. Own(u) = Other(t)
      BY <2>2, Sides
    <3>4. entries[Other(t)] # <<>>
      BY <3>3, CommittedListed
    <3> QED
      BY <1>3, <3>2, <3>4, MoverOwes
  <2> QED
    BY <2>1, <2>2
<1> QED
  BY <1>1, <1>2, <1>3

\* A thread whose call has a deadline is the only one on its side.
TimedAlone == \A t \in Timed : SideOf(t) = {t}

LEMMA WakeupsStep ==
  ASSUME TimedAlone, Typed, Typed', IInv, ExpiredOK, WakeupsOK, NEW t \in Threads,
         OwnStep(t) \/ WakerStep(t)
  PROVE  WakeupsOK'
<1> SUFFICES ASSUME ~disconnected', NEW u \in Threads, Committed(u)'
             PROVE  Available(u)' <= Cardinality(Owing(u)')
  BY DEF WakeupsOK
<1>1. ~disconnected
  <2>1. CASE OwnStep(t)
    BY <2>1 DEF OwnStep, BeginCall, CheckDisconnected, Reserve, FindFull, Claim, FindEmpty, Use, WakeLen,
                EnterContext, LoadFirst, LoadSecond, LoadDisconnected, Abort, Wait, GiveUp, Unparked,
                ParkTimesOut, SpuriousWakeup, CheckDeadline, Return, Expire, DropHandle,
                SwapDisconnected, callVars
  <2>2. CASE WakerStep(t)
    BY <2>2, WakerStepFrame DEF callVars
  <2> QED
    BY <2>1, <2>2
<1>2. /\ IsFiniteSet(Owing(u)) /\ Cardinality(Owing(u)) \in Nat
      /\ IsFiniteSet(Owing(u)') /\ Cardinality(Owing(u)') \in Nat
  BY OwingFinite
<1>3. CASE u = t /\ LoadSecond(t)
  <2>1. Available(u)' = 0
    BY <1>3, CommitsEmpty
  <2> QED
    BY <1>2, <2>1
<1>4. CASE ~(u = t /\ LoadSecond(t))
  <2>1. Committed(u)
    BY <1>4, CommittedBefore
  <2>2. Available(u) <= Cardinality(Owing(u))
    BY <1>1, <2>1 DEF WakeupsOK
  <2>3. CASE Reserve(t) \/ Claim(t)
    BY <2>2, <2>3, TakesOne
  <2>4. CASE ~Reserve(t) /\ ~Claim(t)
    <3>1. Available(u)' = Available(u)
      BY <2>4, AvailableStays
    <3>2. Available(u) \in Int
      BY CapAssumption DEF Available, Typed
    <3>3. CASE WakeOther(t)
      <4>1. Cardinality(Owing(u)) <= Cardinality(Owing(u)')
        BY <2>1, <3>3, PassesOn
      <4> QED
        BY <1>2, <2>2, <3>1, <3>2, <4>1
    <3>4. CASE ~WakeOther(t) /\ t \in SideOf(u) /\ (FindFull(t) \/ FindEmpty(t))
      <4>1. t \in Senders <=> u \in Senders
        BY <3>4, Sides DEF SideOf
      <4>2. Available(u) = 0
        <5>1. IF t \in Senders THEN tail - head = Cap ELSE head = tail
          BY <3>4, Sides DEF FindFull, FindEmpty
        <5>2. tail \in Nat /\ head \in Nat
          BY DEF Typed
        <5> QED
          BY <4>1, <5>1, <5>2, CapAssumption DEF Available
      <4> QED
        BY <1>2, <3>1, <4>2
    <3>5. CASE ~WakeOther(t) /\ t \in SideOf(u) /\ CheckDeadline(t) /\ expired[t]
      <4>1. SideOf(t) = {t} /\ u \in SideOf(t)
        BY <3>5, Sides DEF TimedAlone, ExpiredOK
      <4>2. pc[u] = "check_deadline"
        BY <3>5, <4>1 DEF CheckDeadline
      <4> QED
        BY <2>1, <4>2 DEF Committed
    <3>6. CASE /\ ~WakeOther(t)
               /\ t \in SideOf(u) => ~FindFull(t) /\ ~FindEmpty(t) /\ ~(CheckDeadline(t) /\ expired[t])
      <4>1. Owing(u) \subseteq Owing(u)'
        BY <1>1, <2>1, <2>4, <3>6, KeepsOwing
      <4>2. Cardinality(Owing(u)) <= Cardinality(Owing(u)')
        BY <1>2, <4>1, FewerOwe
      <4> QED
        BY <1>2, <2>2, <3>1, <3>2, <4>2
    <3> QED
      BY <3>3, <3>4, <3>5, <3>6
  <2> QED
    BY <2>3, <2>4
<1> QED
  BY <1>3, <1>4

LEMMA ExpiredStep ==
  ASSUME Typed, ExpiredOK, NEW t \in Threads, OwnStep(t) \/ WakerStep(t)
  PROVE  ExpiredOK'
<1>1. \/ expired' = expired
      \/ expired' = [expired EXCEPT ![t] = FALSE]
      \/ t \in Timed /\ expired' = [expired EXCEPT ![t] = TRUE]
  <2>1. CASE OwnStep(t)
    BY <2>1 DEF OwnStep, BeginCall, CheckDisconnected, Reserve, FindFull, Claim, FindEmpty, Use, WakeLen,
                EnterContext, LoadFirst, LoadSecond, LoadDisconnected, Abort, Wait, GiveUp, Unparked,
                ParkTimesOut, SpuriousWakeup, CheckDeadline, Return, Expire, DropHandle,
                SwapDisconnected, callVars
  <2>2. CASE WakerStep(t)
    BY <2>2, WakerStepFrame DEF callVars
  <2> QED
    BY <2>1, <2>2
<1> QED
  BY <1>1 DEF ExpiredOK, Typed

LEMMA WakeupsNext ==
  ASSUME TimedAlone, Typed, Typed', IInv, ExpiredOK, WakeupsOK, [Next]_vars
  PROVE  ExpiredOK' /\ WakeupsOK'
<1>1. ASSUME NEW t \in Threads, OwnStep(t) \/ WakerStep(t)
      PROVE  ExpiredOK' /\ WakeupsOK'
  BY <1>1, WakeupsStep, ExpiredStep
<1>2. CASE UNCHANGED vars
  <2>1. \A u \in Threads : /\ Available(u)' = Available(u) /\ Owing(u)' = Owing(u)
                           /\ Committed(u)' <=> Committed(u)
    BY <1>2 DEF vars, queueVars, waiting, Available, Owing, SideOf, Committed
  <2>2. WakeupsOK'
    BY <1>2, <2>1 DEF WakeupsOK, vars, callVars
  <2>3. ExpiredOK'
    BY <1>2 DEF ExpiredOK, vars, callVars
  <2> QED
    BY <2>2, <2>3
<1> QED
  BY <1>1, <1>2, StepKinds DEF Next, Terminated

\* While a thread of the channel sleeps, at least as many wakeups are on their
\* way to its side as there are messages (or slots) to take: one wake_one for
\* each write and each read is enough, for any number of threads and any
\* capacity. That a call with a deadline is alone on its side cannot be left
\* out: one that is woken and finds its deadline passed takes the wakeup
\* with it.
THEOREM WakeupsSuffice ==
  ASSUME TimedAlone
  PROVE  Spec => []NoLostWakeup
<1>1. Init => ExpiredOK /\ WakeupsOK
  BY DEF Init, ExpiredOK, WakeupsOK, Committed
<1>2. Typed /\ IInv /\ Typed' /\ ExpiredOK /\ WakeupsOK /\ [Next]_vars => ExpiredOK' /\ WakeupsOK'
  BY WakeupsNext
<1>3. WakeupsOK => NoLostWakeup
  BY DEF WakeupsOK, NoLostWakeup, Committed, Asleep
<1> QED
  BY <1>1, <1>2, <1>3, Invariant, PTL DEF Spec
===============================================================================

-------------------------------- MODULE Waker ---------------------------------
(***************************************************************************)
(* How a thread waits for a channel operation and is woken up: SyncWaker   *)
(* (src/waker.rs), a mutex around a queue of registered operations, and    *)
(* Context (src/context.rs), the word in which the first of several        *)
(* parties to select an operation wins. The steps below are the parts of   *)
(* their methods that other threads can tell apart; a channel's module     *)
(* puts them in order with its own program counters.                       *)
(*                                                                         *)
(* SyncWaker::len is stored as the last thing under the mutex, so a load   *)
(* of it without the mutex reads the length entries has here.              *)
(***************************************************************************)
EXTENDS Naturals, Sequences, SequencesExt

CONSTANTS Threads,   \* the threads that use the wakers
          Wakers,    \* the names of the wakers
          NoThread   \* the owner of a free mutex

VARIABLES entries,   \* Waker::entries of each waker: operations in order of registration
          locked,    \* SyncWaker::inner: the thread that holds the mutex of each waker
          cursor,    \* the entry a thread that holds a mutex has got to
          select,    \* Context::select of each thread: "waiting" or what was selected
          token      \* the park token of each thread

wakerVars == <<entries, locked, cursor, select, token>>

WakerInit ==
  /\ entries = [w \in Wakers |-> <<>>]
  /\ locked = [w \in Wakers |-> NoThread]
  /\ cursor = [t \in Threads |-> 0]
  /\ select = [t \in Threads |-> "waiting"]
  /\ token = [t \in Threads |-> FALSE]

Entry(t, oper) == [thread |-> t, oper |-> oper]
-------------------------------------------------------------------------------
(* Context *)

\* Context::with starts from a clean context.
Reset(t) ==
  /\ select' = [select EXCEPT ![t] = "waiting"]
  /\ UNCHANGED <<entries, locked, cursor, token>>

\* Mutant: the last to select wins, not the first.
TrySelectBlindly(t, sel) ==
  /\ select' = [select EXCEPT ![t] = sel]
  /\ UNCHANGED <<entries, locked, cursor, token>>

TrySelect(t, sel) ==
  /\ select' = [select EXCEPT ![t] = IF @ = "waiting" THEN sel ELSE @]
  /\ UNCHANGED <<entries, locked, cursor, token>>

\* thread::park returns and consumes the token.
TakeToken(t) ==
  /\ token[t]
  /\ token' = [token EXCEPT ![t] = FALSE]
  /\ UNCHANGED <<entries, locked, cursor, select>>
-------------------------------------------------------------------------------
(* SyncWaker *)

Register(w, t, oper) ==
  /\ locked[w] = NoThread
  /\ entries' = [entries EXCEPT ![w] = Append(@, Entry(t, oper))]
  /\ UNCHANGED <<locked, cursor, select, token>>

\* Removes the first entry of that operation; the callers unwrap it.
Unregister(w, oper) ==
  /\ locked[w] = NoThread
  /\ entries' = [entries EXCEPT ![w] = RemoveAt(@, SelectInSeq(@, LAMBDA e : e.oper = oper))]
  /\ UNCHANGED <<locked, cursor, select, token>>

Selectable(w, t) ==
  {i \in 1 .. Len(entries[w]) :
     entries[w][i].thread # t /\ select[entries[w][i].thread] = "waiting"}

(***************************************************************************)
(* The first half of wake_one: lock, and select the first operation of     *)
(* another thread that can be. A selected word stays selected while the    *)
(* mutex is held, so the loop over the entries is one step, taken when it  *)
(* succeeds or reaches the end.                                            *)
(***************************************************************************)
WakeSelect(w, t) ==
  /\ locked[w] = NoThread
  /\ IF Selectable(w, t) = {}
     THEN UNCHANGED wakerVars
     ELSE LET i == Min(Selectable(w, t)) IN
          /\ locked' = [locked EXCEPT ![w] = t]
          /\ cursor' = [cursor EXCEPT ![t] = i]
          /\ select' = [select EXCEPT ![entries[w][i].thread] = entries[w][i].oper]
          /\ UNCHANGED <<entries, token>>

\* Mutant: the entry is removed and its thread left asleep.
WakeUnparkNobody(w, t) ==
  /\ locked[w] = t
  /\ entries' = [entries EXCEPT ![w] = RemoveAt(@, cursor[t])]
  /\ locked' = [locked EXCEPT ![w] = NoThread]
  /\ cursor' = [cursor EXCEPT ![t] = 0]
  /\ UNCHANGED <<select, token>>

\* The second half: unpark the thread, remove its entry and unlock. The
\* thread may have seen its selection and gone on in between.
WakeUnpark(w, t) ==
  /\ locked[w] = t
  /\ token' = [token EXCEPT ![entries[w][cursor[t]].thread] = TRUE]
  /\ entries' = [entries EXCEPT ![w] = RemoveAt(@, cursor[t])]
  /\ locked' = [locked EXCEPT ![w] = NoThread]
  /\ cursor' = [cursor EXCEPT ![t] = 0]
  /\ UNCHANGED select

DisconnectLock(w, t) ==
  /\ locked[w] = NoThread
  /\ locked' = [locked EXCEPT ![w] = t]
  /\ cursor' = [cursor EXCEPT ![t] = 1]
  /\ UNCHANGED <<entries, select, token>>

\* One round of disconnect's loop. The thread cannot leave its entry before
\* the mutex is free, so selecting and unparking it are one step.
DisconnectEntry(w, t) ==
  /\ locked[w] = t
  /\ cursor[t] <= Len(entries[w])
  /\ LET z == entries[w][cursor[t]].thread IN
       IF select[z] = "waiting"
       THEN /\ select' = [select EXCEPT ![z] = "disconnected"]
            /\ token' = [token EXCEPT ![z] = TRUE]
       ELSE UNCHANGED <<select, token>>
  /\ cursor' = [cursor EXCEPT ![t] = @ + 1]
  /\ UNCHANGED <<entries, locked>>

DisconnectUnlock(w, t) ==
  /\ locked[w] = t
  /\ cursor[t] > Len(entries[w])
  /\ locked' = [locked EXCEPT ![w] = NoThread]
  /\ cursor' = [cursor EXCEPT ![t] = 0]
  /\ UNCHANGED <<entries, select, token>>
===============================================================================

----------------------------- MODULE BoundedQueue -----------------------------
(***************************************************************************)
(* What a bounded channel promises to callers of try_send and try_recv: a  *)
(* FIFO queue of capacity Cap on which every call takes effect in one      *)
(* atomic step between its invocation and its return.                      *)
(*                                                                         *)
(* A call that answers Empty only promises that the queue was empty at     *)
(* some moment while the call ran (a receiver that Glances at an empty     *)
(* queue remembers it); every other answer is true at the step that gives  *)
(* it. A call that begins after the channel was disconnected never sends.  *)
(***************************************************************************)
EXTENDS Naturals, Sequences

CONSTANTS Senders, Receivers,  \* the threads on each side
          Cap,                 \* how many messages the queue holds
          Messages, NoMsg      \* what is sent, and no message

VARIABLES queue,         \* the messages in the channel, oldest first
          disconnected,  \* has one side of the channel been dropped?
          alive,         \* the threads that still hold a handle
          status,        \* how far each thread's current call has got
          val            \* the message a call carries in or brings back

vars == <<queue, disconnected, alive, status, val>>

Threads == Senders \cup Receivers

Answered == {"ok", "full", "empty", "disconnected"}

Init ==
  /\ queue = <<>>
  /\ disconnected = FALSE
  /\ alive = Threads
  /\ status = [t \in Threads |-> "idle"]
  /\ val = [t \in Threads |-> NoMsg]

Answer(t, a) == status' = [status EXCEPT ![t] = a]

BeginSend(s) ==
  /\ status[s] = "idle" /\ s \in alive
  /\ Answer(s, IF disconnected THEN "disconnected" ELSE "pending")
  /\ \E m \in Messages : val' = [val EXCEPT ![s] = m]
  /\ UNCHANGED <<queue, disconnected, alive>>

Enqueue(s) ==
  /\ status[s] = "pending" /\ Len(queue) < Cap
  /\ queue' = Append(queue, val[s])
  /\ Answer(s, "ok")
  /\ UNCHANGED <<disconnected, alive, val>>

Full(s) ==
  /\ status[s] = "pending" /\ Len(queue) = Cap
  /\ Answer(s, "full")
  /\ UNCHANGED <<queue, disconnected, alive, val>>

BeginRecv(r) ==
  /\ status[r] = "idle" /\ r \in alive
  /\ Answer(r, "pending")
  /\ UNCHANGED <<queue, disconnected, alive, val>>

Dequeue(r) ==
  /\ status[r] \in {"pending", "glanced"} /\ queue # <<>>
  /\ val' = [val EXCEPT ![r] = Head(queue)]
  /\ queue' = Tail(queue)
  /\ Answer(r, "ok")
  /\ UNCHANGED <<disconnected, alive>>

\* Looking at the queue: the receiver has seen it empty, or starts afresh.
Glance(r) ==
  /\ status[r] \in {"pending", "glanced"}
  /\ \/ queue = <<>> /\ Answer(r, "glanced")
     \/ Answer(r, "pending")
  /\ UNCHANGED <<queue, disconnected, alive, val>>

Empty(r) ==
  /\ status[r] = "glanced"
  /\ Answer(r, "empty")
  /\ UNCHANGED <<queue, disconnected, alive, val>>

Disconnected(r) ==
  /\ status[r] \in {"pending", "glanced"}
  /\ disconnected /\ queue = <<>>
  /\ Answer(r, "disconnected")
  /\ UNCHANGED <<queue, disconnected, alive, val>>

Return(t) ==
  /\ status[t] \in Answered
  /\ Answer(t, "idle")
  /\ val' = [val EXCEPT ![t] = NoMsg]
  /\ UNCHANGED <<queue, disconnected, alive>>

\* Dropping the last handle of either side disconnects the channel.
DropHandle(t) ==
  /\ status[t] = "idle" /\ t \in alive
  /\ alive' = alive \ {t}
  /\ disconnected' = (disconnected \/ alive' \cap Senders = {} \/ alive' \cap Receivers = {})
  /\ UNCHANGED <<queue, status, val>>

\* When nobody holds a handle any more the channel drops what is left in it.
Discard ==
  /\ alive = {} /\ queue # <<>>
  /\ queue' = Tail(queue)
  /\ UNCHANGED <<disconnected, alive, status, val>>

Next ==
  \/ \E s \in Senders : BeginSend(s) \/ Enqueue(s) \/ Full(s)
  \/ \E r \in Receivers :
       BeginRecv(r) \/ Dequeue(r) \/ Glance(r) \/ Empty(r) \/ Disconnected(r)
  \/ \E t \in Threads : Return(t) \/ DropHandle(t)
  \/ Discard

Spec == Init /\ [][Next]_vars
===============================================================================

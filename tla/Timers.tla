-------------------------------- MODULE Timers --------------------------------
(***************************************************************************)
(* The channels that make their messages themselves, on one clock:         *)
(*   after  one message at an instant (src/flavors/after.rs): a flag says  *)
(*          whether it has been received; one step per access of the flag  *)
(*          or of the clock                                                *)
(*   tick   messages at intervals (src/flavors/tick.rs): a mutex around    *)
(*          the instant of the next one; what a call does under the mutex, *)
(*          the reading of the clock included, is one step                 *)
(* Every thread has a clone of both receivers and may use either. A thread *)
(* that finds nothing in try_recv of tick has done nothing.                *)
(***************************************************************************)
EXTENDS Naturals, FiniteSets

CONSTANTS Receivers,  \* the threads
          Delay,      \* after: delivery_time, counted from the channel's creation
          Duration,   \* tick: Channel::duration
          MaxClock    \* bound: the last instant

ASSUME TimeAssumption == Delay \in Nat /\ Duration \in Nat \ {0} /\ MaxClock \in Nat

VARIABLES clock,      \* the present instant
          received,   \* after: Channel::received
          next_tick,  \* tick: Inner::next_tick
          index,      \* tick: Inner::index
          pc,         \* the next step of each thread
          deadline,   \* the deadline of its call
          wake,       \* the instant at which it stops sleeping
          got,        \* history: how often the message of after was returned
          missed,     \* history: threads in a call during which after was empty
          last        \* history: the last tick, its instant and that of its reception

afterVars == <<received, got>>
tickVars == <<next_tick, index, last>>
vars == <<clock, afterVars, tickVars, pc, deadline, wake, missed>>

Instants == 0 .. MaxClock
NoDeadline == MaxClock + 1
Answered == {"ok", "empty", "nonempty", "timeout"}

Goto(t, label) == pc' = [pc EXCEPT ![t] = label]
Late(t) == clock >= deadline[t]

Init ==
  /\ clock = 0
  /\ received = FALSE
  /\ next_tick = Duration /\ index = 0
  /\ pc = [t \in Receivers |-> "idle"]
  /\ deadline = [t \in Receivers |-> NoDeadline]
  /\ wake = [t \in Receivers |-> 0]
  /\ got = 0 /\ missed = {} /\ last = [sent |-> 0, received |-> 0]
-------------------------------------------------------------------------------
Begin(t) ==
  /\ pc[t] = "idle"
  /\ \E label \in {"try_load", "recv_load", "empty_load", "tick_recv"} : Goto(t, label)
  /\ UNCHANGED <<clock, afterVars, tickVars, deadline, wake>>

\* recv_timeout
BeginTimed(t) ==
  /\ pc[t] = "idle"
  /\ \E label \in {"recv_load", "tick_recv"} : Goto(t, label)
  /\ \E d \in Instants : d >= clock /\ deadline' = [deadline EXCEPT ![t] = d]
  /\ UNCHANGED <<clock, afterVars, tickVars, wake>>

Return(t) ==
  /\ pc[t] \in Answered
  /\ Goto(t, "idle")
  /\ deadline' = [deadline EXCEPT ![t] = NoDeadline]
  /\ wake' = [wake EXCEPT ![t] = 0]
  /\ UNCHANGED <<clock, afterVars, tickVars>>

TimePasses ==
  /\ clock < MaxClock
  /\ clock' = clock + 1
  /\ UNCHANGED <<afterVars, tickVars, pc, deadline, wake>>

\* thread::sleep lasts at least until then.
Sleep(t, label, until) ==
  /\ Goto(t, label)
  /\ wake' = [wake EXCEPT ![t] = until]

Earlier(a, b) == IF a <= b THEN a ELSE b
-------------------------------------------------------------------------------
(* after: try_recv *)

TryLoad(t) ==
  /\ pc[t] = "try_load"
  /\ Goto(t, IF received THEN "empty" ELSE "try_now")
  /\ UNCHANGED <<clock, afterVars, tickVars, deadline, wake>>

TryNow(t) ==
  /\ pc[t] = "try_now"
  /\ Goto(t, IF clock < Delay THEN "empty" ELSE "try_swap")
  /\ UNCHANGED <<clock, afterVars, tickVars, deadline, wake>>

\* Mutant: the message is taken without looking whether it was still there.
TrySwapStore(t) ==
  /\ pc[t] = "try_swap"
  /\ received' = TRUE
  /\ got' = got + 1 /\ Goto(t, "ok")
  /\ UNCHANGED <<clock, tickVars, deadline, wake>>

TrySwap(t) ==
  /\ pc[t] = "try_swap"
  /\ received' = TRUE
  /\ IF received THEN Goto(t, "empty") /\ UNCHANGED got
                 ELSE Goto(t, "ok") /\ got' = got + 1
  /\ UNCHANGED <<clock, tickVars, deadline, wake>>

(* after: recv *)

RecvLoad(t) ==
  /\ pc[t] = "recv_load"
  /\ Goto(t, IF received THEN "sleep_deadline" ELSE "recv_now")
  /\ UNCHANGED <<clock, afterVars, tickVars, deadline, wake>>

\* sleep_until(deadline), for ever without one.
SleepDeadline(t) ==
  /\ pc[t] = "sleep_deadline" /\ Late(t)
  /\ Goto(t, "timeout")
  /\ UNCHANGED <<clock, afterVars, tickVars, deadline, wake>>

\* Mutant: sleep to the deadline, past the delivery time.
RecvNowOversleeps(t) ==
  /\ pc[t] = "recv_now"
  /\ \/ clock >= Delay /\ Goto(t, "recv_swap") /\ UNCHANGED wake
     \/ clock < Delay /\ Late(t) /\ Goto(t, "timeout") /\ UNCHANGED wake
     \/ clock < Delay /\ ~Late(t) /\ Sleep(t, "sleep", deadline[t])
  /\ UNCHANGED <<clock, afterVars, tickVars, deadline>>

\* A round of the loop: the message is due, the deadline has passed, or sleep
\* to the first of the two.
RecvNow(t) ==
  /\ pc[t] = "recv_now"
  /\ \/ clock >= Delay /\ Goto(t, "recv_swap") /\ UNCHANGED wake
     \/ clock < Delay /\ Late(t) /\ Goto(t, "timeout") /\ UNCHANGED wake
     \/ clock < Delay /\ ~Late(t) /\ Sleep(t, "sleep", Earlier(Delay, deadline[t]))
  /\ UNCHANGED <<clock, afterVars, tickVars, deadline>>

Wake(t) ==
  /\ pc[t] = "sleep" /\ clock >= wake[t]
  /\ Goto(t, "recv_now")
  /\ UNCHANGED <<clock, afterVars, tickVars, deadline, wake>>

\* Whoever comes second sleeps for ever, deadline or not: sleep_until(None).
RecvSwap(t) ==
  /\ pc[t] = "recv_swap"
  /\ received' = TRUE
  /\ IF received THEN Goto(t, "sleep_forever") /\ UNCHANGED got
                 ELSE Goto(t, "ok") /\ got' = got + 1
  /\ UNCHANGED <<clock, tickVars, deadline, wake>>

(* after: is_empty; is_full and len only wrap it *)

EmptyLoad(t) ==
  /\ pc[t] = "empty_load"
  /\ Goto(t, IF received THEN "empty" ELSE "empty_now")
  /\ UNCHANGED <<clock, afterVars, tickVars, deadline, wake>>

EmptyNow(t) ==
  /\ pc[t] = "empty_now"
  /\ Goto(t, IF clock < Delay THEN "empty" ELSE "empty_reload")
  /\ UNCHANGED <<clock, afterVars, tickVars, deadline, wake>>

\* Mutant: the second look at the flag is read the wrong way round.
EmptyReloadInverted(t) ==
  /\ pc[t] = "empty_reload"
  /\ Goto(t, IF received THEN "nonempty" ELSE "empty")
  /\ UNCHANGED <<clock, afterVars, tickVars, deadline, wake>>

EmptyReload(t) ==
  /\ pc[t] = "empty_reload"
  /\ Goto(t, IF received THEN "empty" ELSE "nonempty")
  /\ UNCHANGED <<clock, afterVars, tickVars, deadline, wake>>
-------------------------------------------------------------------------------
(* tick *)

TickReady == clock >= next_tick

\* Mutant: the next message is due a duration after this one was, not after now.
TakeOnSchedule ==
  /\ TickReady
  /\ next_tick' = next_tick + Duration
  /\ index' = index + 1
  /\ last' = [sent |-> next_tick, received |-> clock]

\* The message is the instant at which it was due.
Take ==
  /\ TickReady
  /\ next_tick' = clock + Duration
  /\ index' = index + 1
  /\ last' = [sent |-> next_tick, received |-> clock]

TickTryRecv(t) ==
  /\ pc[t] = "idle" /\ Take
  /\ Goto(t, "ok")
  /\ UNCHANGED <<clock, afterVars, deadline, wake>>

\* Mutant: recv sleeps to the next message although its deadline is earlier.
TickRoundOversleeps(t) ==
  /\ pc[t] = "tick_recv"
  /\ \/ Take /\ Goto(t, "ok") /\ UNCHANGED wake
     \/ ~TickReady /\ Late(t) /\ Goto(t, "timeout") /\ UNCHANGED <<tickVars, wake>>
     \/ ~TickReady /\ ~Late(t) /\ Sleep(t, "tick_sleep", next_tick) /\ UNCHANGED tickVars
  /\ UNCHANGED <<clock, afterVars, deadline>>

\* One round of recv's loop: a message, too late, or how long to sleep.
TickRound(t) ==
  /\ pc[t] = "tick_recv"
  /\ \/ Take /\ Goto(t, "ok") /\ UNCHANGED wake
     \/ ~TickReady /\ Late(t) /\ Goto(t, "timeout") /\ UNCHANGED <<tickVars, wake>>
     \/ /\ ~TickReady /\ ~Late(t)
        /\ Sleep(t, "tick_sleep", Earlier(next_tick, deadline[t]))
        /\ UNCHANGED tickVars
  /\ UNCHANGED <<clock, afterVars, deadline>>

TickWake(t) ==
  /\ pc[t] = "tick_sleep" /\ clock >= wake[t]
  /\ Goto(t, "tick_recv")
  /\ UNCHANGED <<clock, afterVars, tickVars, deadline, wake>>
-------------------------------------------------------------------------------
AfterStep(t) ==
  \/ TryLoad(t) \/ TryNow(t) \/ TrySwap(t) \/ RecvLoad(t) \/ SleepDeadline(t) \/ RecvNow(t)
  \/ Wake(t) \/ RecvSwap(t) \/ EmptyLoad(t) \/ EmptyNow(t) \/ EmptyReload(t)

TickStep(t) == TickRound(t) \/ TickWake(t)

\* The message of after is there to be received.
Available == clock >= Delay /\ ~received

\* Part of every step: a call remembers that after was empty while it ran.
Witness == missed' = {t \in Receivers : pc'[t] # "idle" /\ (t \in missed \/ ~Available')}

Step(t) == (AfterStep(t) \/ TickStep(t) \/ Return(t)) /\ Witness

Next ==
  \/ \E t \in Receivers :
       Step(t) \/ ((Begin(t) \/ BeginTimed(t) \/ TickTryRecv(t)) /\ Witness)
  \/ TimePasses /\ Witness

Spec == Init /\ [][Next]_vars

\* Time passes, and threads that are not asleep run.
FairSpec == Spec /\ WF_vars(TimePasses /\ Witness) /\ \A t \in Receivers : WF_vars(Step(t))
-------------------------------------------------------------------------------
Labels ==
  {"idle", "try_load", "try_now", "try_swap", "recv_load", "sleep_deadline", "recv_now", "sleep",
   "recv_swap", "sleep_forever", "empty_load", "empty_now", "empty_reload", "tick_recv",
   "tick_sleep"} \cup Answered

\* The types of the variables; the next tick is due a duration after the last
\* one was received, the first a duration after the start.
TypeOK ==
  /\ clock \in Instants
  /\ received \in BOOLEAN /\ got \in Nat
  /\ next_tick \in Nat /\ index \in Nat
  /\ last \in [sent : Nat, received : Nat] /\ next_tick = last.received + Duration
  /\ pc \in [Receivers -> Labels]
  /\ deadline \in [Receivers -> Instants \cup {NoDeadline}]
  /\ wake \in [Receivers -> Nat]
  /\ missed \subseteq Receivers

\* "Exactly one message" (channel.rs:155), whatever the number of clones of
\* the receiver that race for it, and not before its time.
OneMessage == got <= 1 /\ (got = 1 <=> received) /\ (received => clock >= Delay)

\* Empty is answered (by try_recv and is_empty of after, although the flag, the
\* clock and the flag again are read at different moments) only if the channel
\* was empty at some moment of the call.
EmptyIsTrue == \A t \in Receivers : pc[t] = "empty" => t \in missed

InAfterRecv(t) == pc[t] \in {"recv_load", "sleep_deadline", "recv_now", "sleep", "recv_swap",
                             "sleep_forever"}
InTickRecv(t) == pc[t] \in {"tick_recv", "tick_sleep"}

\* A thread that waits in recv of after does not sleep through the message:
\* somebody gets it, or its own deadline is before.
Delivered ==
  \A t \in Receivers : InAfterRecv(t) /\ deadline[t] > Delay ~> got = 1

\* A recv of after with a deadline returns once it has passed (recv_timeout
\* waits "only for a limited time", channel.rs:760).
DeadlineReturns ==
  \A t \in Receivers : InAfterRecv(t) /\ deadline[t] # NoDeadline ~> ~InAfterRecv(t)

\* So does one of tick, although the message it sleeps for may be taken by
\* another receiver every time.
TickDeadlineReturns ==
  \A t \in Receivers : InTickRecv(t) /\ deadline[t] # NoDeadline ~> ~InTickRecv(t)

\* Messages of tick are at least a duration apart, as they are stamped and as
\* they are received, whoever receives them: a receiver that comes late gets
\* one message, not all those it has slept through (the capacity is 1), and no
\* two receivers get the same one.
TicksApart ==
  [][index' # index => /\ last'.sent >= last.received + Duration
                       /\ last'.received >= last'.sent]_vars
===============================================================================

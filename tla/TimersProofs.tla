----------------------------- MODULE TimersProofs -----------------------------
(***************************************************************************)
(* Safety of the timer channels for any set of receivers, any delay and    *)
(* any period: the message of after is received at most once and not       *)
(* early, Empty is answered truthfully, and ticks are a period apart.      *)
(***************************************************************************)
EXTENDS Timers, TLAPS

\* What a call does next once the message of after was due stays right:
\* delivery times do not move and the clock does not go back.
SwapDue == \A t \in Receivers : pc[t] \in {"try_swap", "recv_swap"} => clock >= Delay

IInv == TypeOK /\ SwapDue /\ OneMessage /\ EmptyIsTrue

LEMMA InitIInv == Init => IInv
<1> SUFFICES ASSUME Init PROVE IInv
  OBVIOUS
<1>1. TypeOK
  <2>1. last = [sent |-> 0, received |-> 0] /\ next_tick = 0 + Duration
    BY TimeAssumption DEF Init
  <2>2. last \in [sent : Nat, received : Nat] /\ next_tick = last.received + Duration
    BY <2>1
  <2>3. pc \in [Receivers -> Labels]
    BY DEF Init, Labels
  <2>4. deadline \in [Receivers -> Instants \cup {NoDeadline}] /\ wake \in [Receivers -> Nat]
    BY DEF Init
  <2>5. clock \in Instants /\ got \in Nat /\ next_tick \in Nat /\ index \in Nat
    BY TimeAssumption DEF Init, Instants
  <2>6. received \in BOOLEAN /\ missed \subseteq Receivers
    BY DEF Init
  <2>7. QED
    BY <2>2, <2>3, <2>4, <2>5, <2>6 DEF TypeOK
<1>2. SwapDue /\ EmptyIsTrue
  BY DEF Init, SwapDue, EmptyIsTrue
<1>3. OneMessage
  BY DEF Init, OneMessage
<1>4. QED
  BY <1>1, <1>2, <1>3 DEF IInv

\* The shorter of two sleeps is one of the two.
LEMMA EarlierIsOne == ASSUME NEW a, NEW b PROVE Earlier(a, b) \in {a, b}
  BY DEF Earlier

\* What every action of a thread leaves alone or sets to a legal value.
LEMMA TypeStep == TypeOK /\ [Next]_vars => TypeOK'
<1> SUFFICES ASSUME TypeOK, [Next]_vars PROVE TypeOK'
  OBVIOUS
<1> USE TimeAssumption DEF TypeOK, Instants, NoDeadline
<1> USE DEF Labels, Answered, Goto, tickVars, afterVars
<1>1. ASSUME NEW t \in Receivers, TryLoad(t), Witness PROVE TypeOK'
  BY <1>1 DEF TryLoad, Witness
<1>2. ASSUME NEW t \in Receivers, TryNow(t), Witness PROVE TypeOK'
  BY <1>2 DEF TryNow, Witness
<1>3. ASSUME NEW t \in Receivers, TrySwap(t), Witness PROVE TypeOK'
  BY <1>3 DEF TrySwap, Witness
<1>4. ASSUME NEW t \in Receivers, RecvLoad(t), Witness PROVE TypeOK'
  BY <1>4 DEF RecvLoad, Witness
<1>5. ASSUME NEW t \in Receivers, SleepDeadline(t), Witness PROVE TypeOK'
  BY <1>5 DEF SleepDeadline, Witness
<1>6. ASSUME NEW t \in Receivers, RecvNow(t), Witness PROVE TypeOK'
  <2>1. Earlier(Delay, deadline[t]) \in Nat
    BY EarlierIsOne
  <2>2. QED
    BY <1>6, <2>1 DEF RecvNow, Witness, Sleep
<1>7. ASSUME NEW t \in Receivers, Wake(t), Witness PROVE TypeOK'
  BY <1>7 DEF Wake, Witness
<1>8. ASSUME NEW t \in Receivers, RecvSwap(t), Witness PROVE TypeOK'
  BY <1>8 DEF RecvSwap, Witness
<1>9. ASSUME NEW t \in Receivers, EmptyLoad(t), Witness PROVE TypeOK'
  BY <1>9 DEF EmptyLoad, Witness
<1>10. ASSUME NEW t \in Receivers, EmptyNow(t), Witness PROVE TypeOK'
  BY <1>10 DEF EmptyNow, Witness
<1>11. ASSUME NEW t \in Receivers, EmptyReload(t), Witness PROVE TypeOK'
  BY <1>11 DEF EmptyReload, Witness
<1>12. ASSUME Take PROVE next_tick' \in Nat /\ index' \in Nat /\ last' \in [sent : Nat, received : Nat]
                         /\ next_tick' = last'.received + Duration
  BY <1>12 DEF Take, TickReady
<1>13. ASSUME NEW t \in Receivers, TickRound(t), Witness PROVE TypeOK'
  <2>1. Earlier(next_tick, deadline[t]) \in Nat
    BY EarlierIsOne
  <2>2. CASE Take /\ Goto(t, "ok") /\ UNCHANGED wake
    BY <1>13, <2>2, <1>12 DEF TickRound, Witness
  <2>3. CASE ~Take
    BY <1>13, <2>1, <2>3 DEF TickRound, Witness, Sleep
  <2>4. CASE ~TickReady
    BY <1>13, <2>1, <2>4 DEF TickRound, Witness, Sleep, Take
  <2>5. QED
    BY <1>13, <2>2, <2>3, <2>4 DEF TickRound
<1>14. ASSUME NEW t \in Receivers, TickWake(t), Witness PROVE TypeOK'
  BY <1>14 DEF TickWake, Witness
<1>15. ASSUME NEW t \in Receivers, Return(t), Witness PROVE TypeOK'
  BY <1>15 DEF Return, Witness
<1>16. ASSUME NEW t \in Receivers, Begin(t), Witness PROVE TypeOK'
  BY <1>16 DEF Begin, Witness
<1>17. ASSUME NEW t \in Receivers, BeginTimed(t), Witness PROVE TypeOK'
  BY <1>17 DEF BeginTimed, Witness
<1>18. ASSUME NEW t \in Receivers, TickTryRecv(t), Witness PROVE TypeOK'
  BY <1>18, <1>12 DEF TickTryRecv, Witness
<1>19. CASE TimePasses /\ Witness
  BY <1>19 DEF TimePasses, Witness
<1>20. CASE UNCHANGED vars
  BY <1>20 DEF vars
<1>21. QED
  BY <1>1, <1>2, <1>3, <1>4, <1>5, <1>6, <1>7, <1>8, <1>9, <1>10, <1>11, <1>13, <1>14, <1>15,
     <1>16, <1>17, <1>18, <1>19, <1>20 DEF Next, Step, AfterStep, TickStep

\* TypeOK holds in every reachable state, whatever the delay and the period.
THEOREM TypeCorrect == Spec => []TypeOK
<1>1. Init => TypeOK
  BY InitIInv DEF IInv
<1>2. QED
  BY <1>1, TypeStep, PTL DEF Spec

\* Time only goes forward, and only TimePasses moves it.
LEMMA ClockForward == TypeOK /\ [Next]_vars => clock' \in Nat /\ clock' >= clock
<1> SUFFICES ASSUME TypeOK, [Next]_vars PROVE clock' \in Nat /\ clock' >= clock
  OBVIOUS
<1>1. clock \in Nat
  BY DEF TypeOK, Instants
<1>2. clock' = clock \/ clock' = clock + 1
  BY DEF Next, Step, AfterStep, TickStep, TryLoad, TryNow, TrySwap, RecvLoad, SleepDeadline, RecvNow,
         Wake, RecvSwap, EmptyLoad, EmptyNow, EmptyReload, TickRound, TickWake, Return, Begin,
         BeginTimed, TickTryRecv, TimePasses, vars
<1>3. QED
  BY <1>1, <1>2

\* A thread gets to the swap only past the delivery time.
LEMMA SwapDueStep == TypeOK /\ SwapDue /\ [Next]_vars => SwapDue'
<1> SUFFICES ASSUME TypeOK, SwapDue, [Next]_vars,
                    NEW u \in Receivers, pc'[u] \in {"try_swap", "recv_swap"}
             PROVE  clock' >= Delay
  BY DEF SwapDue
<1>1. clock \in Nat /\ clock' \in Nat /\ clock' >= clock /\ Delay \in Nat
  BY ClockForward, TimeAssumption DEF TypeOK, Instants
<1>2. CASE pc[u] \in {"try_swap", "recv_swap"}
  BY <1>1, <1>2 DEF SwapDue
<1>3. CASE pc[u] \notin {"try_swap", "recv_swap"}
  <2>1. pc \in [Receivers -> Labels]
    BY DEF TypeOK
  <2>2. TryNow(u) \/ RecvNow(u)
    BY <1>3, <2>1 DEF Next, Step, AfterStep, TickStep, TryLoad, TryNow, TrySwap, RecvLoad, SleepDeadline,
           RecvNow, Wake, RecvSwap, EmptyLoad, EmptyNow, EmptyReload, TickRound, TickWake, Return,
           Begin, BeginTimed, TickTryRecv, TimePasses, Sleep, Goto, vars
  <2>3. clock >= Delay
    BY <2>1, <2>2, <1>1 DEF TryNow, RecvNow, Goto, Sleep
  <2>4. QED
    BY <1>1, <2>3
<1>4. QED
  BY <1>2, <1>3

\* Only the swaps touch the flag, and they count the message iff they found it.
LEMMA OneMessageStep == TypeOK /\ SwapDue /\ OneMessage /\ [Next]_vars => OneMessage'
<1> SUFFICES ASSUME TypeOK, SwapDue, OneMessage, [Next]_vars PROVE OneMessage'
  OBVIOUS
<1>1. clock \in Nat /\ clock' \in Nat /\ clock' >= clock /\ Delay \in Nat
  BY ClockForward, TimeAssumption DEF TypeOK, Instants
<1>2. ASSUME NEW t \in Receivers, TrySwap(t) \/ RecvSwap(t) PROVE OneMessage'
  <2>1. clock >= Delay
    BY <1>2 DEF TrySwap, RecvSwap, SwapDue
  <2>2. received'
    BY <1>2 DEF TrySwap, RecvSwap
  <2>3. got' = 1
    BY <1>2 DEF TrySwap, RecvSwap, OneMessage, TypeOK
  <2>4. QED
    BY <1>1, <2>1, <2>2, <2>3 DEF OneMessage
<1>3. CASE UNCHANGED <<received, got>>
  BY <1>1, <1>3 DEF OneMessage
<1>4. QED
  BY <1>2, <1>3
  DEF Next, Step, AfterStep, TickStep, TryLoad, TryNow, RecvLoad, SleepDeadline, RecvNow, Wake,
      EmptyLoad, EmptyNow, EmptyReload, TickRound, TickWake, Return, Begin, BeginTimed, TickTryRecv,
      TimePasses, afterVars, vars

\* A step that answers Empty leaves the channel of after empty behind it, so
\* the call has seen it empty.
LEMMA EmptyIsTrueStep == TypeOK /\ EmptyIsTrue /\ [Next]_vars => EmptyIsTrue'
<1> SUFFICES ASSUME TypeOK, EmptyIsTrue, [Next]_vars, NEW u \in Receivers, pc'[u] = "empty"
             PROVE  u \in missed'
  BY DEF EmptyIsTrue
<1>1. CASE UNCHANGED vars
  BY <1>1 DEF vars, EmptyIsTrue
<1>2. CASE ~UNCHANGED vars
  <2>1. Witness
    BY <1>2 DEF Next, Step
  <2>2. CASE pc[u] = "empty"
    BY <2>1, <2>2 DEF Witness, EmptyIsTrue
  <2>3. CASE pc[u] # "empty"
    <3>1. pc \in [Receivers -> Labels] /\ clock \in Nat /\ Delay \in Nat
      BY TimeAssumption DEF TypeOK, Instants
    <3>2. TryLoad(u) \/ TryNow(u) \/ TrySwap(u) \/ EmptyLoad(u) \/ EmptyNow(u) \/ EmptyReload(u)
      BY <1>2, <2>3, <3>1
      DEF Next, Step, AfterStep, TickStep, TryLoad, TryNow, TrySwap, RecvLoad, SleepDeadline, RecvNow,
          Wake, RecvSwap, EmptyLoad, EmptyNow, EmptyReload, TickRound, TickWake, Return, Begin,
          BeginTimed, TickTryRecv, TimePasses, Sleep, Goto, Labels
    <3>3. received' \/ clock' < Delay
      BY <3>1, <3>2 DEF TryLoad, TryNow, TrySwap, EmptyLoad, EmptyNow, EmptyReload, Goto, afterVars
    <3>4. ~Available'
      BY <3>1, <3>2, <3>3
      DEF Available, TryLoad, TryNow, TrySwap, EmptyLoad, EmptyNow, EmptyReload
    <3>5. QED
      BY <2>1, <3>4 DEF Witness
  <2>4. QED
    BY <2>2, <2>3
<1>3. QED
  BY <1>1, <1>2

LEMMA InductiveStep == IInv /\ [Next]_vars => IInv'
  BY TypeStep, SwapDueStep, OneMessageStep, EmptyIsTrueStep DEF IInv

LEMMA Invariance == Spec => []IInv
  BY InitIInv, InductiveStep, PTL DEF Spec

\* The message of after is received at most once and not before its time,
\* however many receivers race for it.
THEOREM OneMessageOnly == Spec => []OneMessage
<1>1. IInv => OneMessage
  BY DEF IInv
<1>2. QED
  BY <1>1, Invariance, PTL

\* Empty is answered by after only if it was empty at a moment of the call.
THEOREM EmptyNotFalse == Spec => []EmptyIsTrue
<1>1. IInv => EmptyIsTrue
  BY DEF IInv
<1>2. QED
  BY <1>1, Invariance, PTL

\* Messages of tick are a duration apart, whoever receives them and however
\* late.
THEOREM TicksCorrect == Spec => TicksApart
<1> DEFINE Apart == index' # index => /\ last'.sent >= last.received + Duration
                                      /\ last'.received >= last'.sent
<1>1. TypeOK /\ [Next]_vars => [Apart]_vars
  <2> SUFFICES ASSUME TypeOK, [Next]_vars, index' # index PROVE Apart
    OBVIOUS
  <2>1. Take
    BY DEF Next, Step, AfterStep, TickStep, TryLoad, TryNow, TrySwap, RecvLoad, SleepDeadline, RecvNow,
           Wake, RecvSwap, EmptyLoad, EmptyNow, EmptyReload, TickRound, TickWake, Return, Begin,
           BeginTimed, TickTryRecv, TimePasses, tickVars, vars
  <2>2. clock \in Nat /\ next_tick \in Nat /\ next_tick = last.received + Duration
    BY DEF TypeOK, Instants
  <2>3. QED
    BY <2>1, <2>2 DEF Take, TickReady
<1>2. QED
  BY <1>1, TypeCorrect, PTL DEF Spec, TicksApart
===============================================================================

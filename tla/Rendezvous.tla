------------------------------ MODULE Rendezvous ------------------------------
(***************************************************************************)
(* What a zero-capacity channel promises: a send and a receive happen      *)
(* together, in one atomic step that hands the message over, while both    *)
(* calls are pending; a call that gives up or finds the channel            *)
(* disconnected has taken part in no such step.                            *)
(***************************************************************************)
CONSTANTS Senders, Receivers, Messages, NoMsg

VARIABLES disconnected, alive,
          status,  \* how far each thread's current call has got
          val      \* the message a call carries in or brings back

vars == <<disconnected, alive, status, val>>

Threads == Senders \cup Receivers

Init ==
  /\ disconnected = FALSE
  /\ alive = Threads
  /\ status = [t \in Threads |-> "idle"]
  /\ val = [t \in Threads |-> NoMsg]

Begin(t) ==
  /\ status[t] = "idle" /\ t \in alive
  /\ status' = [status EXCEPT ![t] = "pending"]
  /\ IF t \in Senders THEN \E m \in Messages : val' = [val EXCEPT ![t] = m]
                      ELSE UNCHANGED val
  /\ UNCHANGED <<disconnected, alive>>

Meet(s, r) ==
  /\ status[s] = "pending" /\ status[r] = "pending"
  /\ status' = [status EXCEPT ![s] = "ok", ![r] = "ok"]
  /\ val' = [val EXCEPT ![r] = val[s]]
  /\ UNCHANGED <<disconnected, alive>>

\* Full, empty or timeout.
GiveUp(t) ==
  /\ status[t] = "pending"
  /\ status' = [status EXCEPT ![t] = "unmet"]
  /\ UNCHANGED <<disconnected, alive, val>>

FindDisconnected(t) ==
  /\ status[t] = "pending" /\ disconnected
  /\ status' = [status EXCEPT ![t] = "disconnected"]
  /\ UNCHANGED <<disconnected, alive, val>>

Return(t) ==
  /\ status[t] \in {"ok", "unmet", "disconnected"}
  /\ status' = [status EXCEPT ![t] = "idle"]
  /\ val' = [val EXCEPT ![t] = NoMsg]
  /\ UNCHANGED <<disconnected, alive>>

DropHandle(t) ==
  /\ status[t] = "idle" /\ t \in alive
  /\ alive' = alive \ {t}
  /\ UNCHANGED <<disconnected, status, val>>

Disconnect ==
  /\ alive \cap Senders = {} \/ alive \cap Receivers = {}
  /\ disconnected' = TRUE
  /\ UNCHANGED <<alive, status, val>>

Next ==
  \/ \E s \in Senders, r \in Receivers : Meet(s, r)
  \/ \E t \in Threads :
       Begin(t) \/ GiveUp(t) \/ FindDisconnected(t) \/ Return(t) \/ DropHandle(t)
  \/ Disconnect

Spec == Init /\ [][Next]_vars
===============================================================================

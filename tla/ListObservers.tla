---------------------------- MODULE ListObservers -----------------------------
(***************************************************************************)
(* len and is_empty of an unbounded channel (src/flavors/list.rs), called  *)
(* by one more thread while others send and receive. Both only load the    *)
(* two indices, at different moments, and touch no block; is_full is       *)
(* always false. The observer borrows a handle: the last one is not        *)
(* dropped during its call.                                                *)
(***************************************************************************)
EXTENDS ListQueue

VARIABLES obs,       \* the next step of the observer's call
          loaded,    \* the index of the tail or of the head it has loaded
          answer,    \* what its call returns
          lengths    \* history: every length the queue has had during the call

obsVars == <<obs, loaded, answer, lengths>>

Length == index["tail"] - index["head"]

ObsInit ==
  /\ Init
  /\ obs = "idle"
  /\ loaded = [e \in {"head", "tail"} |-> 0]
  /\ answer = 0
  /\ lengths = {}

BeginObs ==
  /\ obs = "idle" /\ alive # {}
  /\ obs' \in {"len_tail", "empty_head"}
  /\ UNCHANGED <<loaded, answer>>

Load(label, end, next) ==
  /\ obs = label
  /\ loaded' = [loaded EXCEPT ![end] = index[end]]
  /\ obs' = next
  /\ UNCHANGED answer

\* Mutant: the tail is not looked at again.
LenReloadTailSkipped ==
  /\ obs = "len_reload"
  /\ obs' = "len_done" /\ answer' = loaded["tail"] - loaded["head"]
  /\ UNCHANGED loaded

\* If the tail has not changed meanwhile, the head belongs to it.
LenReloadTail ==
  /\ obs = "len_reload"
  /\ IF index["tail"] = loaded["tail"]
     THEN obs' = "len_done" /\ answer' = loaded["tail"] - loaded["head"]
     ELSE obs' = "len_tail" /\ UNCHANGED answer
  /\ UNCHANGED loaded

EmptyLoadTail ==
  /\ obs = "empty_tail"
  /\ obs' = IF index["tail"] = loaded["head"] THEN "empty" ELSE "not_empty"
  /\ UNCHANGED <<loaded, answer>>

FinishObs ==
  /\ obs \in {"len_done", "empty", "not_empty"}
  /\ obs' = "idle"
  /\ loaded' = [e \in {"head", "tail"} |-> 0]
  /\ answer' = 0

ObsStep ==
  \/ BeginObs \/ FinishObs
  \/ Load("len_tail", "tail", "len_head") \/ Load("len_head", "head", "len_reload")
  \/ LenReloadTail
  \/ Load("empty_head", "head", "empty_tail") \/ EmptyLoadTail

\* A call remembers the lengths it has lived through.
Watch == lengths' = IF obs' = "idle" THEN {} ELSE lengths \cup {Length'}

ObsNext ==
  \/ ObsStep /\ UNCHANGED vars /\ Watch
  \/ Next /\ (alive' # {} \/ obs = "idle") /\ UNCHANGED <<obs, loaded, answer>> /\ Watch

FairObsSpec == ObsInit /\ [][ObsNext]_<<vars, obsVars>> /\ Fairness
-------------------------------------------------------------------------------
\* What len and is_empty answer was true at some moment of the call, although they load two
\* indices one after the other while both move (list.rs:456, list.rs:482).
ObservationsTrue ==
  /\ obs = "len_done" => answer \in lengths
  /\ obs = "empty" => 0 \in lengths
  /\ obs = "not_empty" => lengths \ {0} # {}
===============================================================================

---------------------------- MODULE ArrayObservers ----------------------------
(***************************************************************************)
(* len, is_empty and is_full of a bounded channel, called by one more      *)
(* thread while others send and receive, and the drop of the channel with  *)
(* the messages that are left in it (src/flavors/array.rs). The three      *)
(* calls only load the head and the tail, at different moments, and never  *)
(* write: one observer stands for any number. The last part goes back from *)
(* the pairs of lap and index to the words they are packed in.             *)
(***************************************************************************)
EXTENDS ArrayQueue, SequencesExt

VARIABLES obs,       \* the next step of the observer's call
          loaded,    \* the tail and the head it has loaded
          answer,    \* what its call returns
          lengths,   \* history: every length the queue has had during the call
          dropped    \* the messages dropped with the channel

obsVars == <<obs, loaded, answer, lengths, dropped>>

ObsInit ==
  /\ Init
  /\ obs = "idle"
  /\ loaded = [tail |-> tail, head |-> head]
  /\ answer = 0
  /\ lengths = {}
  /\ dropped = <<>>

Calls == {"len_tail", "empty_head", "full_tail"}

Begin ==
  /\ obs = "idle"
  /\ obs' \in Calls
  /\ UNCHANGED <<loaded, answer, dropped>>

\* A load of the tail or of the head.
Load(label, word, next) ==
  /\ obs = label
  /\ loaded' = IF word = "tail" THEN [loaded EXCEPT !.tail = tail]
                                ELSE [loaded EXCEPT !.head = head]
  /\ obs' = next
  /\ UNCHANGED <<answer, dropped>>

\* The number of messages between a head and a tail that were there together.
LenOf(h, t) ==
  CASE h.index < t.index -> t.index - h.index
    [] h.index > t.index -> Cap - h.index + t.index
    [] h.index = t.index -> IF LapLater(t) = h THEN 0 ELSE Cap

\* Mutant: the tail is not looked at again.
LenReloadTailSkipped ==
  /\ obs = "len_reload"
  /\ obs' = "len_done" /\ answer' = LenOf(loaded.head, loaded.tail)
  /\ UNCHANGED <<loaded, dropped>>

\* If the tail has not changed meanwhile, the head belongs to it.
LenReloadTail ==
  /\ obs = "len_reload"
  /\ IF tail = loaded.tail
     THEN obs' = "len_done" /\ answer' = LenOf(loaded.head, loaded.tail)
     ELSE obs' = "len_tail" /\ UNCHANGED answer
  /\ UNCHANGED <<loaded, dropped>>

EmptyLoadTail ==
  /\ obs = "empty_tail"
  /\ obs' = IF LapLater(tail) = loaded.head THEN "empty" ELSE "not_empty"
  /\ UNCHANGED <<loaded, answer, dropped>>

FullLoadHead ==
  /\ obs = "full_head"
  /\ obs' = IF LapLater(head) = loaded.tail THEN "full" ELSE "not_full"
  /\ UNCHANGED <<loaded, answer, dropped>>

Finish ==
  /\ obs \in {"len_done", "empty", "not_empty", "full", "not_full"}
  /\ obs' = "idle"
  /\ loaded' = [tail |-> Stamp(0, 0), head |-> Stamp(1, 0)]
  /\ answer' = 0
  /\ UNCHANGED dropped

\* Mutant: the slots are dropped from the first of the buffer on.
DropChannelFromZero ==
  /\ alive = {} /\ obs = "idle"
  /\ obs' = "dropped"
  /\ dropped' = [i \in 1 .. LenOf(head, tail) |-> slots[i - 1].msg]
  /\ UNCHANGED <<loaded, answer>>

\* Channel::drop: the length, then every slot from the head on, around the end.
DropChannel ==
  /\ alive = {} /\ obs = "idle"
  /\ obs' = "dropped"
  /\ dropped' = [i \in 1 .. LenOf(head, tail) |->
                   slots[IF head.index + i - 1 < Cap THEN head.index + i - 1
                                                     ELSE head.index + i - 1 - Cap].msg]
  /\ UNCHANGED <<loaded, answer>>

ObsStep ==
  \/ Begin \/ Finish \/ DropChannel
  \/ Load("len_tail", "tail", "len_head") \/ Load("len_head", "head", "len_reload")
  \/ LenReloadTail
  \/ Load("empty_head", "head", "empty_tail") \/ EmptyLoadTail
  \/ Load("full_tail", "tail", "full_head") \/ FullLoadHead

\* A call remembers the lengths it has lived through.
Watch == lengths' = IF obs' \in {"idle", "dropped"} THEN {} ELSE lengths \cup {Distance'}

ObsNext ==
  \/ ObsStep /\ UNCHANGED vars /\ Watch
  \/ Next /\ UNCHANGED <<obs, loaded, answer, dropped>> /\ Watch

ObsSpec == ObsInit /\ [][ObsNext]_<<vars, obsVars>>
FairObsSpec == ObsSpec /\ Fairness
-------------------------------------------------------------------------------
(* The words. The check of with_capacity leaves at least two bits for laps;  *)
(* here there are exactly two, and laps are counted modulo four.             *)

\* A power of two has no odd divisor but one.
PowerOfTwo(n) == \A d \in 1 .. n : n % d = 0 /\ d % 2 = 1 => d = 1

\* One lap is the smallest power of two that is not below the capacity.
OneLap == CHOOSE n \in Cap .. 2 * Cap - 1 : PowerOfTwo(n)

\* Mutant: one bit for laps.
UsizeNarrow == 2 * OneLap

Usize == 4 * OneLap
Packed(st) == (st.lap * OneLap + st.index) % Usize
WrappingAdd(a, b) == (a + b) % Usize
IndexOf(w) == w % OneLap
Lags(w, v) == WrappingAdd(w, OneLap) = v

\* new_tail and new: the same lap, or two laps on.
NextWord(w) == IF IndexOf(w) + 1 < Cap THEN w + 1
               ELSE WrappingAdd(w - IndexOf(w), WrappingAdd(OneLap, OneLap))

LenWord(h, t) ==
  CASE IndexOf(h) < IndexOf(t) -> IndexOf(t) - IndexOf(h)
    [] IndexOf(h) > IndexOf(t) -> Cap - IndexOf(h) + IndexOf(t)
    [] OTHER -> IF Lags(t, h) THEN 0 ELSE Cap

-------------------------------------------------------------------------------
\* What len, is_empty and is_full answer was true at some moment of the call,
\* although they load two words one after the other while both move (the notes
\* in is_empty and is_full, array.rs:528 and array.rs:540, claim it).
ObservationsTrue ==
  /\ obs = "len_done" => answer \in lengths
  /\ obs = "empty" => 0 \in lengths
  /\ obs = "not_empty" => lengths \ {0} # {}
  /\ obs = "full" => Cap \in lengths
  /\ obs = "not_full" => lengths \ {Cap} # {}

\* The drop of the channel drops exactly the messages that were sent and not
\* received, each once, and touches no slot that holds none: NoMsg is in none
\* of the slots it reads.
DropsRest == obs = "dropped" => dropped = AbsQueue /\ NoMsg \notin ToSet(dropped)

\* What the words of one moment say is what the pairs say, also after the laps
\* have wrapped around: the next position, whether a slot is free, lags behind
\* or holds a message, and how many messages there are. Laps are compared only
\* with laps at most two away (array.rs:219 and array.rs:239), so two bits are
\* enough (array.rs:142).
WordsAgree ==
  LET h == Packed(head)
      t == Packed(tail)
  IN /\ NextWord(h) = Packed(Advance(head)) /\ NextWord(t) = Packed(Advance(tail))
     /\ \A end \in {head, tail} : LET st == slots[end.index].stamp IN
          /\ Packed(st) = Packed(end) <=> st = end
          /\ Lags(Packed(st), Packed(end)) <=> LapLater(st) = end
     /\ Lags(t, h) <=> Distance = 0
     /\ Lags(h, t) <=> Distance = Cap
     /\ LenWord(h, t) = Distance
===============================================================================

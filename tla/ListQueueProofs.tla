---------------------------- MODULE ListQueueProofs ----------------------------
(***************************************************************************)
(* Proofs about ListQueue: the list of blocks keeps its shape, blocks live *)
(* as long as somebody looks into a slot of theirs, and every message and  *)
(* every block is given up exactly once, for any number of threads, any    *)
(* block size and any number of messages.                                  *)
(***************************************************************************)
EXTENDS ListQueue, FiniteSetTheorems, TLAPS

Ends == {"head", "tail"}

\* A thread uses the tail or the head.
LEMMA EndOfIs == \A t : EndOf(t) \in Ends
BY DEF EndOf, Ends

\* The index bound is a natural number.
LEMMA MaxIndexNat == MaxIndex \in Nat /\ IsFiniteSet(Messages) /\ Cardinality(Messages) = MaxIndex
<1>1. IsFiniteSet(1 .. MaxSends) /\ Cardinality(1 .. MaxSends) = MaxSends
  BY BoundAssumption, FS_Interval
<1>2. IsFiniteSet(Senders)
  BY ThreadAssumption
<1>3. /\ IsFiniteSet(Senders \X (1 .. MaxSends))
      /\ Cardinality(Senders \X (1 .. MaxSends)) = Cardinality(Senders) * Cardinality(1 .. MaxSends)
  BY <1>1, <1>2, FS_Product
<1>4. IsFiniteSet(Messages) /\ Cardinality(Messages) = MaxIndex
  BY <1>1, <1>3 DEF Messages, MaxIndex
<1> QED
  BY <1>4, FS_CardinalityType

\* Blocks lie one behind the other.
LEMMA StartFacts ==
  /\ \A b \in Nat : Start(b) \in Nat /\ b <= Start(b) /\ Start(b + 1) = Start(b) + BlockCap
  /\ \A a, b \in Nat : a < b => Start(a) + BlockCap <= Start(b)
  /\ \A a, b \in Nat : a <= b => Start(a) <= Start(b)
<1> USE CapAssumption DEF Start
<1>1. \A a, b \in Nat : b > 0 => a <= a * b
  OBVIOUS
<1>2. \A b \in Nat : Start(b) \in Nat /\ b <= Start(b) /\ Start(b + 1) = Start(b) + BlockCap
  BY <1>1
<1>3. \A a, d \in Nat : (a + d) * BlockCap = a * BlockCap + d * BlockCap /\ d * BlockCap \in Nat
  OBVIOUS
<1>4. \A a, b \in Nat : a <= b => Start(a) <= Start(b)
  <2> SUFFICES ASSUME NEW a \in Nat, NEW b \in Nat, a <= b PROVE a * BlockCap <= b * BlockCap
    OBVIOUS
  <2>1. PICK d \in Nat : b = a + d
    <3>1. b - a \in Nat /\ b = a + (b - a)
      OBVIOUS
    <3> QED
      BY <3>1
  <2> QED
    BY <1>3, <2>1
<1>5. \A a, b \in Nat : a < b => Start(a) + BlockCap <= Start(b)
  <2> SUFFICES ASSUME NEW a \in Nat, NEW b \in Nat, a < b PROVE Start(a) + BlockCap <= Start(b)
    OBVIOUS
  <2>1. a + 1 \in Nat /\ a + 1 <= b
    OBVIOUS
  <2>2. Start(a + 1) <= Start(b)
    BY ONLY <1>4, <2>1
  <2> QED
    BY <1>2, <2>2
<1> QED
  BY <1>2, <1>4, <1>5

\* The parts of TypeOK that arithmetic needs.
LEMMA Numbers ==
  ASSUME TypeOK
  PROVE  /\ \A e \in Ends : index[e] \in Nat /\ block[e] \in Nat /\ Start(block[e]) \in Nat
         /\ \A t \in Threads : /\ idx[t] \in Nat /\ blk[t] \in Nat /\ Start(blk[t]) \in Nat
                               /\ Offset(t) = idx[t] - Start(blk[t])
         /\ \A t \in Threads : index[EndOf(t)] \in Nat /\ block[EndOf(t)] \in Nat
         /\ linked \in Nat /\ BlockCap \in Nat /\ BlockCap > 0 /\ MaxIndex \in Nat
<1> USE CapAssumption, MaxIndexNat
<1>1. /\ \A e \in Ends : index[e] \in 0 .. MaxIndex /\ block[e] \in 0 .. MaxIndex
      /\ \A t \in Threads : idx[t] \in 0 .. MaxIndex /\ blk[t] \in 0 .. MaxIndex
      /\ linked \in 1 .. MaxIndex + 1
  BY DEF TypeOK, Ends, Blocks
<1>2. /\ \A e \in Ends : index[e] \in Nat /\ block[e] \in Nat
      /\ \A t \in Threads : idx[t] \in Nat /\ blk[t] \in Nat
      /\ linked \in Nat /\ BlockCap \in Nat /\ BlockCap > 0
  BY <1>1
<1>3. /\ \A e \in Ends : Start(block[e]) \in Nat
      /\ \A t \in Threads : Start(blk[t]) \in Nat
  BY ONLY <1>2, StartFacts
<1>4. \A t \in Threads : index[EndOf(t)] \in Nat /\ block[EndOf(t)] \in Nat
  BY ONLY <1>2, EndOfIs
<1>5. \A t \in Threads : Offset(t) = idx[t] - Start(blk[t])
  BY DEF Offset
<1> QED
  BY <1>2, <1>3, <1>4, <1>5

\* Who installs or advances past a block knows that the index has left it.
LEMMA PastBlock ==
  ASSUME TypeOK, CallsOK, NEW t \in Threads, pc[t] \in {"install", "advance"}
  PROVE  /\ Start(blk[t]) + BlockCap <= index[EndOf(t)]
         /\ blk[t] + 1 <= MaxIndex
         /\ blk[t] <= block[EndOf(t)]
         /\ Passing(t) <=> Holds(t)
<1>1. CallOK(t) /\ Looking(t) /\ (Holds(t) <=> Passing(t))
  <2>1. Looking(t) /\ pc[t] \notin {"write", "publish", "retire", "wait_ready", "read"}
    BY DEF Looking, Answered
  <2> QED
    BY <2>1 DEF CallsOK, Holds, Passing
<1>2. /\ idx[t] <= index[EndOf(t)] /\ Offset(t) >= BlockCap - 1 /\ Offset(t) <= BlockCap
      /\ blk[t] <= block[EndOf(t)]
      /\ Passing(t) => idx[t] < index[EndOf(t)]
  BY <1>1 DEF CallOK
<1>3. Passing(t) <=> Offset(t) < BlockCap
  BY DEF Passing
<1>4. Start(blk[t]) + BlockCap <= index[EndOf(t)]
  BY <1>2, <1>3, Numbers
<1>5. Start(blk[t] + 1) = Start(blk[t]) + BlockCap /\ blk[t] + 1 <= Start(blk[t] + 1)
  <2>1. blk[t] \in Nat /\ blk[t] + 1 \in Nat
    BY Numbers
  <2> QED
    BY <2>1, StartFacts
<1>6. index[EndOf(t)] <= MaxIndex
  BY EndOfIs, MaxIndexNat DEF TypeOK, Ends
<1> QED
  BY <1>1, <1>2, <1>4, <1>5, <1>6, Numbers
-------------------------------------------------------------------------------
(* There is a slot for every message: the messages behind the tail are     *)
(* distinct, so they are at most as many as there are messages at all.     *)

\* Message m is the one of slot i.
Carries(i, m) ==
  \/ slots[i].msg = m /\ m # NoMsg
  \/ slots[i].msg = NoMsg /\ \E s \in Senders : Writing(s) /\ idx[s] = i /\ msg[s] = m

LEMMA Room ==
  ASSUME TypeOK, IInv, NEW s \in Senders, pc[s] = "cas"
  PROVE  index["tail"] + 1 <= MaxIndex
<1> DEFINE new == <<s, count[s] + 1>>
           T == index["tail"]
           F == [i \in 0 .. T - 1 |-> CHOOSE m \in Messages \ {new} : Carries(i, m)]
<1> USE DEF Threads
<1>0. T \in Nat /\ T <= MaxIndex /\ MaxIndex \in Nat
  BY MaxIndexNat DEF TypeOK
<1>1. new \in Messages
  <2>1. count[s] \in 0 .. MaxSends /\ count[s] < MaxSends
    BY DEF IInv, ContentsOK, SenderOK, Looking, Answered, Holds, TypeOK
  <2> QED
    BY <2>1, BoundAssumption DEF Messages
<1>2. \A z \in Senders : Writing(z) =>
        /\ msg[z] = <<z, count[z]>> /\ msg[z] \in Messages /\ count[z] \in Nat
        /\ \A i \in 0 .. MaxIndex : slots[i].msg # msg[z]
  <2> SUFFICES ASSUME NEW z \in Senders, Writing(z)
               PROVE  /\ msg[z] = <<z, count[z]>> /\ msg[z] \in Messages /\ count[z] \in Nat
                      /\ \A i \in 0 .. MaxIndex : slots[i].msg # msg[z]
    OBVIOUS
  <2>1. SenderOK(z) /\ Holds(z)
    BY DEF IInv, ContentsOK, Writing
  <2>2. count[z] \in 0 .. MaxSends /\ count[z] > 0
    BY <2>1 DEF SenderOK, TypeOK
  <2>3. count[z] \in Nat /\ count[z] \in 1 .. MaxSends
    BY <2>2, BoundAssumption
  <2> QED
    BY <2>1, <2>3 DEF SenderOK, Messages
<1>3. \A i \in 0 .. T - 1 : \E m \in Messages \ {new} : Carries(i, m)
  <2> SUFFICES ASSUME NEW i \in 0 .. T - 1 PROVE \E m \in Messages \ {new} : Carries(i, m)
    OBVIOUS
  <2>1. i \in 0 .. MaxIndex /\ i < T
    BY <1>0
  <2>2. CASE slots[i].msg # NoMsg
    <3>1. slots[i].msg \in Messages
      BY <2>1, <2>2 DEF TypeOK
    <3>2. slots[i].msg[2] <= count[slots[i].msg[1]]
      BY <2>1, <2>2 DEF IInv, ContentsOK, SlotOK
    <3>3. slots[i].msg # new
      <4>1. SUFFICES ASSUME slots[i].msg = new PROVE FALSE
        OBVIOUS
      <4>2. count[s] + 1 <= count[s]
        BY <4>1, <3>2
      <4>3. count[s] \in Nat
        BY BoundAssumption DEF TypeOK
      <4> QED
        BY <4>2, <4>3
    <3> QED
      BY <3>1, <3>3, <2>2 DEF Carries
  <2>3. CASE slots[i].msg = NoMsg
    <3>1. PICK z \in Senders : Writing(z) /\ idx[z] = i
      BY <2>1, <2>3 DEF IInv, ContentsOK, SlotOK
    <3>2. msg[z] # new
      <4>1. SUFFICES ASSUME msg[z] = new PROVE FALSE
        OBVIOUS
      <4>2. z = s /\ count[z] = count[s] + 1
        BY <4>1, <3>1, <1>2
      <4> QED
        BY <4>2, <3>1, <1>2
    <3> QED
      BY <3>1, <3>2, <1>2, <2>3 DEF Carries
  <2> QED
    BY <2>2, <2>3
<1>4. \A i, j \in 0 .. T - 1 : \A m \in Messages : Carries(i, m) /\ Carries(j, m) => i = j
  <2> SUFFICES ASSUME NEW i \in 0 .. T - 1, NEW j \in 0 .. T - 1, NEW m \in Messages,
                      Carries(i, m), Carries(j, m)
               PROVE  i = j
    OBVIOUS
  <2>1. i \in 0 .. MaxIndex /\ j \in 0 .. MaxIndex
    BY <1>0
  <2>2. CASE slots[i].msg = m /\ slots[j].msg = m /\ m # NoMsg
    BY <2>1, <2>2 DEF IInv, ContentsOK
  <2>3. CASE \E y, z \in Senders : /\ Writing(y) /\ idx[y] = i /\ msg[y] = m
                                   /\ Writing(z) /\ idx[z] = j /\ msg[z] = m
    BY <2>3, <1>2
  <2>4. CASE slots[i].msg = m /\ \E z \in Senders : Writing(z) /\ msg[z] = m
    BY <2>1, <2>4, <1>2
  <2>5. CASE slots[j].msg = m /\ \E z \in Senders : Writing(z) /\ msg[z] = m
    BY <2>1, <2>5, <1>2
  <2> QED
    BY <2>2, <2>3, <2>4, <2>5 DEF Carries
<1>5. \A i \in 0 .. T - 1 : F[i] \in Messages \ {new} /\ Carries(i, F[i])
  BY <1>3
<1>6. F \in Injection(0 .. T - 1, Messages \ {new})
  <2>1. F \in [0 .. T - 1 -> Messages \ {new}]
    BY <1>5
  <2>2. \A i, j \in 0 .. T - 1 : F[i] = F[j] => i = j
    BY <1>4, <1>5
  <2> QED
    BY <2>1, <2>2 DEF Injection, IsInjective
<1>7. IsFiniteSet(Messages \ {new}) /\ Cardinality(Messages \ {new}) = MaxIndex - 1
  BY <1>1, MaxIndexNat, FS_RemoveElement
<1>8. Cardinality(0 .. T - 1) <= MaxIndex - 1
  <2> HIDE DEF F, T, new
  <2> QED
    BY <1>6, <1>7, FS_Injection
<1>9. Cardinality(0 .. T - 1) = T
  <2>1. \A n \in Nat : Cardinality(0 .. n - 1) = n
    <3> SUFFICES ASSUME NEW n \in Nat PROVE Cardinality(0 .. n - 1) = n
      OBVIOUS
    <3>1. n - 1 \in Int /\ 0 \in Int
      OBVIOUS
    <3>2. Cardinality(0 .. n - 1) = IF 0 > n - 1 THEN 0 ELSE (n - 1) - 0 + 1
      BY ONLY <3>1, FS_Interval
    <3>3. (IF 0 > n - 1 THEN 0 ELSE (n - 1) - 0 + 1) = n
      OBVIOUS
    <3> QED
      BY <3>2, <3>3
  <2> QED
    BY <2>1, <1>0
<1>10. T <= MaxIndex - 1
  BY ONLY <1>8, <1>9
<1> QED
  BY ONLY <1>0, <1>10
-------------------------------------------------------------------------------
(* What keeps each part of the invariant. *)

\* A thread that takes no part in a step.
Same(z) == pc'[z] = pc[z] /\ idx'[z] = idx[z] /\ blk'[z] = blk[z] /\ msg'[z] = msg[z]

\* Who may still look into the block it has loaded.
Guarded(t) == Holds(t) \/ (t \in Receivers /\ Looking(t))

LEMMA SameFacts ==
  ASSUME NEW z, Same(z)
  PROVE  /\ Looking(z)' <=> Looking(z)
         /\ Passing(z)' <=> Passing(z)
         /\ Holds(z)' <=> Holds(z)
         /\ Retiring(z)' <=> Retiring(z)
         /\ Writing(z)' <=> Writing(z)
         /\ Guarded(z)' <=> Guarded(z)
<1> USE DEF Same
<1>1. Offset(z)' = Offset(z) /\ pc'[z] = pc[z]
  BY DEF Offset, Start
<1>2. (Looking(z)' <=> Looking(z)) /\ (Passing(z)' <=> Passing(z)) /\ (Holds(z)' <=> Holds(z))
  BY <1>1 DEF Looking, Passing, Holds
<1> QED
  BY <1>1, <1>2 DEF Retiring, Writing, Guarded

LEMMA EndsStay ==
  ASSUME EndsOK, UNCHANGED <<index, block, linked>>,
         \A z \in Threads : Passing(z) => Passing(z)' /\ blk'[z] = blk[z]
  PROVE  EndsOK'
BY DEF EndsOK, Start, EndOf

LEMMA CallStays ==
  ASSUME TypeOK, TypeOK', NEW z \in Threads, CallOK(z), Same(z),
         z \in pinned => z \in pinned', z \in alive => z \in alive' \/ pc'[z] = "idle",
         \A e \in Ends : index[e] <= index'[e] /\ block[e] <= block'[e],
         linked <= linked'
  PROVE  CallOK(z)'
<1>1. /\ pc'[z] = pc[z] /\ idx'[z] = idx[z] /\ blk'[z] = blk[z]
      /\ Offset(z)' = Offset(z) /\ Start(blk[z])' = Start(blk[z])
      /\ (Looking(z)' <=> Looking(z)) /\ (Holds(z)' <=> Holds(z))
  BY SameFacts DEF Same, Offset, Start
<1>2. /\ \A e \in Ends : index[e] \in Nat /\ block[e] \in Nat
      /\ idx[z] \in Nat /\ blk[z] \in Nat /\ linked \in Nat
  BY Numbers
<1>3. (\A e \in Ends : index[e] \in Nat /\ block[e] \in Nat)' /\ linked' \in Nat
  <2>1. TypeOK' => (\A e \in Ends : index[e] \in Nat /\ block[e] \in Nat)' /\ linked' \in Nat
    BY MaxIndexNat DEF TypeOK, Ends, Blocks
  <2> QED
    BY <2>1
<1>4. EndOf(z) \in Ends /\ "head" \in Ends /\ "tail" \in Ends /\ EndOf(z)' = EndOf(z)
  BY DEF EndOf, Ends
<1>5. /\ blk[z] <= block[EndOf(z)] => blk[z] <= block'[EndOf(z)]
      /\ idx[z] <= index[EndOf(z)] => idx[z] <= index'[EndOf(z)]
      /\ idx[z] < index[EndOf(z)] => idx[z] < index'[EndOf(z)]
      /\ idx[z] < index["tail"] => idx[z] < index'["tail"]
      /\ blk[z] < block["head"] => blk[z] < block'["head"]
      /\ blk[z] + 2 <= linked => blk[z] + 2 <= linked'
  BY <1>2, <1>3, <1>4
<1> QED
  BY <1>1, <1>4, <1>5 DEF CallOK

LEMMA CallsStay ==
  ASSUME TypeOK, TypeOK', CallsOK, NEW t \in Threads, CallOK(t)',
         \A z \in Threads \ {t} : Same(z),
         \A z \in pinned : z = t \/ z \in pinned', UNCHANGED alive,
         \A e \in Ends : index[e] <= index'[e] /\ block[e] <= block'[e],
         linked <= linked'
  PROVE  CallsOK'
<1>1. \A z \in Threads \ {t} : CallOK(z)'
  BY CallStays DEF CallsOK
<1> QED
  BY <1>1 DEF CallsOK, Threads

LEMMA OwnersStay ==
  ASSUME OwnersOK, \A z \in Threads : Holds(z)' => Holds(z) /\ idx'[z] = idx[z]
  PROVE  OwnersOK'
BY DEF OwnersOK, EndOf

LEMMA SenderStays ==
  ASSUME NEW s \in Senders, SenderOK(s), Same(s), UNCHANGED slots, count'[s] = count[s]
  PROVE  SenderOK(s)'
BY SameFacts DEF SenderOK, Same

LEMMA ContentsStay ==
  ASSUME ContentsOK, UNCHANGED <<slots, count>>, index'["tail"] = index["tail"],
         \A s \in Senders : SenderOK(s)' /\ (Writing(s) => Writing(s)' /\ idx'[s] = idx[s])
  PROVE  ContentsOK'
<1>1. \A i \in 0 .. MaxIndex : SlotOK(i)'
  BY DEF ContentsOK, SlotOK
<1> QED
  BY <1>1 DEF ContentsOK

LEMMA GuardsStay ==
  ASSUME GuardsOK, TypeOK, TypeOK', UNCHANGED <<alive, freed>>, NEW t \in Threads,
         UNCHANGED <<index, block>> \/ (alive # {} /\ block["head"] <= block'["head"]),
         DOMAIN retired' = DOMAIN retired,
         \A z \in Threads \ {t} : Same(z),
         \A b \in DOMAIN retired : \A z \in retired[b] : z = t \/ z \in retired'[b],
         Guarded(t)' => blk'[t] \notin freed /\ (blk'[t] \in DOMAIN retired => t \in retired'[blk'[t]])
  PROVE  GuardsOK'
<1>1. \A z \in Threads : Guarded(z) =>
        blk[z] \notin freed /\ (blk[z] \in DOMAIN retired => z \in retired[blk[z]])
  BY DEF GuardsOK, Guarded
<1>2. \A z \in Threads \ {t} : (Guarded(z)' <=> Guarded(z)) /\ blk'[z] = blk[z]
  BY SameFacts DEF Same
<1>3. \A z \in Threads : Guarded(z)' =>
        blk'[z] \notin freed' /\ (blk'[z] \in DOMAIN retired' => z \in retired'[blk'[z]])
  <2> SUFFICES ASSUME NEW z \in Threads, Guarded(z)'
               PROVE  blk'[z] \notin freed' /\ (blk'[z] \in DOMAIN retired' => z \in retired'[blk'[z]])
    OBVIOUS
  <2>1. CASE z = t
    BY <2>1
  <2>2. CASE z # t
    BY <2>2, <1>1, <1>2
  <2> QED
    BY <2>1, <2>2
<1>4. CASE UNCHANGED <<index, block>>
  <2>1. (\A b \in DOMAIN retired : b < block["head"])'
    BY <1>4 DEF GuardsOK
  <2>2. (\A b \in freed : b < block["head"] \/ (alive = {} /\ b = block["head"] /\ index["head"] = index["tail"]))'
    BY <1>4 DEF GuardsOK
  <2> QED
    BY <1>3, <2>1, <2>2 DEF GuardsOK, Guarded
<1>5. CASE alive # {} /\ block["head"] <= block'["head"]
  <2>1. block["head"] \in Nat /\ block'["head"] \in Nat /\ freed \subseteq Nat /\ DOMAIN retired \subseteq Nat
    <3>1. TypeOK' => block'["head"] \in Nat
      BY MaxIndexNat DEF TypeOK, Blocks
    <3>2. freed \subseteq Nat /\ DOMAIN retired \subseteq Nat
      <4>1. Blocks \subseteq Nat
        BY MaxIndexNat DEF Blocks
      <4>2. freed \subseteq Blocks /\ DOMAIN retired \subseteq Blocks
        BY DEF TypeOK
      <4> QED
        BY <4>1, <4>2
    <3> QED
      BY <3>1, <3>2, Numbers DEF Ends
  <2>2. \A b \in Nat : b < block["head"] => b < block'["head"]
    BY <1>5, <2>1
  <2>3. (\A b \in DOMAIN retired : b < block["head"]) /\ (\A b \in freed : b < block["head"])
    BY <1>5 DEF GuardsOK
  <2>4. (\A b \in DOMAIN retired : b < block["head"])' /\ (\A b \in freed : b < block["head"])'
    BY <2>1, <2>2, <2>3
  <2> QED
    BY <1>3, <2>4 DEF GuardsOK, Guarded
<1> QED
  BY <1>4, <1>5

LEMMA BooksStay ==
  ASSUME BooksOK, UNCHANGED <<moved, disposed, freed>>,
         index'["head"] = index["head"], block'["head"] = block["head"],
         \A r \in Receivers :
           /\ (Holds(r)' <=> Holds(r)) /\ (Holds(r) => idx'[r] = idx[r])
           /\ (Retiring(r)' <=> Retiring(r)) /\ (Retiring(r) => blk'[r] = blk[r])
  PROVE  BooksOK'
<1>1. \A i : MovedOut(i)' <=> MovedOut(i)
  BY DEF MovedOut
<1>2. \A b : Disposed(b)' <=> Disposed(b)
  BY DEF Disposed
<1> QED
  BY <1>1, <1>2 DEF BooksOK

\* A step of one thread that touches nothing of the channel: it may take or drop
\* its guard, but it keeps the slot it has.
LEMMA LocalStep ==
  ASSUME TypeOK, TypeOK', IInv, NEW t \in Threads,
         \A z \in Threads \ {t} : Same(z),
         UNCHANGED <<listVars, alive, count, moved, disposed, freed>>,
         UNCHANGED <<pinned, retired>> \/ Pin(t) \/ Unpin(t),
         Holds(t)' <=> Holds(t), Holds(t) => idx'[t] = idx[t] /\ blk'[t] = blk[t],
         Passing(t)' <=> Passing(t), Retiring(t)' <=> Retiring(t), Writing(t)' <=> Writing(t),
         CallOK(t)', t \in Senders => SenderOK(t)',
         Guarded(t)' => blk'[t] \notin freed /\ (blk'[t] \in DOMAIN retired => t \in retired'[blk'[t]])
  PROVE  IInv'
<1> USE DEF IInv, listVars
<1>1. \A z \in Threads : /\ (Holds(z)' <=> Holds(z)) /\ (Passing(z)' <=> Passing(z))
                         /\ (Retiring(z)' <=> Retiring(z)) /\ (Writing(z)' <=> Writing(z))
                         /\ Holds(z) => idx'[z] = idx[z] /\ blk'[z] = blk[z]
  BY SameFacts DEF Same
<1>2. \A z : (Passing(z) => Holds(z)) /\ (Writing(z) => Holds(z))
  BY DEF Passing, Holds, Writing
<1>3. \A r \in Receivers : Retiring(r) => Holds(r)
  BY DEF Passing, Holds, Retiring
<1>4. EndsOK'
  BY <1>1, <1>2, EndsStay
<1>5. CallsOK'
  <2>1. \A e \in Ends : index[e] <= index'[e] /\ block[e] <= block'[e]
    BY Numbers
  <2>2. linked <= linked'
    BY Numbers
  <2>3. \A z \in pinned : z = t \/ z \in pinned'
    BY DEF Pin, Unpin
  <2> QED
    BY <2>1, <2>2, <2>3, CallsStay
<1>6. OwnersOK'
  BY <1>1, OwnersStay
<1>7. ContentsOK'
  <2>1. \A s \in Senders : SenderOK(s)'
    BY SenderStays DEF ContentsOK, Threads
  <2> QED
    BY <2>1, <1>1, <1>2, ContentsStay DEF Threads
<1>8. GuardsOK'
  <2>1. /\ DOMAIN retired' = DOMAIN retired
        /\ \A b \in DOMAIN retired : \A z \in retired[b] : z = t \/ z \in retired'[b]
    BY DEF Pin, Unpin
  <2> QED
    BY <2>1, GuardsStay
<1>9. BooksOK'
  BY <1>1, <1>3, BooksStay DEF Threads
<1> QED
  BY <1>4, <1>5, <1>6, <1>7, <1>8, <1>9
-------------------------------------------------------------------------------
(* Type correctness. *)

LEMMA InitTypeOK == Init => TypeOK
<1> SUFFICES ASSUME Init PROVE TypeOK
  OBVIOUS
<1>1. MaxIndex \in Nat /\ 0 \in 0 .. MaxIndex /\ 1 \in 1 .. MaxIndex + 1 /\ 0 \in 0 .. MaxSends
  BY MaxIndexNat, BoundAssumption
<1> QED
  BY <1>1 DEF Init, TypeOK, Blocks, Labels, Threads, Answered

\* Taking and dropping a guard.
LEMMA PinType ==
  ASSUME TypeOK, NEW t \in Threads, Pin(t) \/ Unpin(t) \/ UNCHANGED memVars
  PROVE  /\ pinned' \subseteq Threads /\ freed' \subseteq Blocks /\ disposed' \in [Blocks -> Nat]
         /\ DOMAIN retired' \subseteq Blocks /\ \A b \in DOMAIN retired' : retired'[b] \subseteq pinned'
<1>1. CASE Pin(t)
  BY <1>1 DEF Pin, TypeOK
<1>2. CASE Unpin(t)
  <2>1. \A b \in DOMAIN retired' : retired'[b] = retired[b] \ {t} /\ b \in DOMAIN retired
    BY <1>2 DEF Unpin
  <2> QED
    BY <1>2, <2>1 DEF Unpin, TypeOK
<1>3. CASE UNCHANGED memVars
  BY <1>3 DEF memVars, TypeOK
<1> QED
  BY <1>1, <1>2, <1>3

\* A block that is given up.
LEMMA DisposeType ==
  ASSUME TypeOK, NEW b \in Blocks, RetireBlock(b) \/ Destroy(b)
  PROVE  /\ pinned' \subseteq Threads /\ freed' \subseteq Blocks /\ disposed' \in [Blocks -> Nat]
         /\ DOMAIN retired' \subseteq Blocks /\ \A x \in DOMAIN retired' : retired'[x] \subseteq pinned'
<1>1. disposed[b] + 1 \in Nat
  BY DEF TypeOK
<1>2. CASE RetireBlock(b)
  <2>1. disposed' \in [Blocks -> Nat]
    BY <1>1, <1>2 DEF RetireBlock, TypeOK
  <2> QED
    BY <1>2, <2>1 DEF RetireBlock, TypeOK
<1>3. CASE Destroy(b)
  <2>1. disposed' \in [Blocks -> Nat]
    BY <1>1, <1>3 DEF Destroy, TypeOK
  <2> QED
    BY <1>3, <2>1 DEF Destroy, TypeOK
<1> QED
  BY <1>2, <1>3

\* What DropMessage relies on: the head stands inside its block.
LEMMA Quiescent ==
  ASSUME TypeOK, IInv, alive = {}
  PROVE  /\ \A t \in Threads : pc[t] = "idle" /\ ~Holds(t) /\ ~Passing(t) /\ ~Looking(t)
                               /\ ~Retiring(t) /\ ~Writing(t)
         /\ \A e \in Ends : index[e] < Start(block[e]) + BlockCap
         /\ linked = block["tail"] + 1
<1>1. \A t \in Threads : pc[t] = "idle"
  BY DEF IInv, CallsOK, CallOK
<1>2. \A t \in Threads : ~Holds(t) /\ ~Passing(t) /\ ~Looking(t) /\ ~Retiring(t) /\ ~Writing(t)
  BY <1>1 DEF Holds, Passing, Looking, Retiring, Writing
<1>3. \A e \in Ends : index[e] # Start(block[e]) + BlockCap /\ index[e] <= Start(block[e]) + BlockCap
  BY <1>2 DEF IInv, EndsOK, Ends
<1>4. \A e \in Ends : index[e] < Start(block[e]) + BlockCap
  BY <1>3, Numbers
<1>5. linked # block["tail"] + 2 /\ linked <= block["tail"] + 2 /\ block["tail"] < linked
  BY <1>3 DEF IInv, EndsOK, Ends
<1>6. block["tail"] \in Nat /\ linked \in Nat
  BY Numbers DEF Ends
<1> QED
  BY <1>1, <1>2, <1>4, <1>5, <1>6

\* A slot is written and published.
LEMMA SlotUpdates ==
  ASSUME TypeOK, NEW t \in Threads
  PROVE  /\ [slots EXCEPT ![idx[t]].msg = msg[t]]
              \in [0 .. MaxIndex -> [msg : Messages \cup {NoMsg}, ready : BOOLEAN]]
         /\ [slots EXCEPT ![idx[t]].ready = TRUE]
              \in [0 .. MaxIndex -> [msg : Messages \cup {NoMsg}, ready : BOOLEAN]]
<1> DEFINE Slot == [msg : Messages \cup {NoMsg}, ready : BOOLEAN]
<1>1. slots \in [0 .. MaxIndex -> Slot] /\ slots[idx[t]] \in Slot /\ msg[t] \in Messages \cup {NoMsg}
  BY DEF TypeOK
<1>2. [slots[idx[t]] EXCEPT !.msg = msg[t]] \in Slot /\ [slots[idx[t]] EXCEPT !.ready = TRUE] \in Slot
  BY <1>1
<1> HIDE DEF Slot
<1>3. /\ [slots EXCEPT ![idx[t]] = [slots[idx[t]] EXCEPT !.msg = msg[t]]] \in [0 .. MaxIndex -> Slot]
      /\ [slots EXCEPT ![idx[t]] = [slots[idx[t]] EXCEPT !.ready = TRUE]] \in [0 .. MaxIndex -> Slot]
  BY <1>1, <1>2
<1> QED
  BY <1>3 DEF Slot

LEMMA NextTypeOK ==
  ASSUME TypeOK, IInv, [Next]_vars
  PROVE  TypeOK'
<1> USE DEF Threads, Goto, Labels, Answered, listVars
<1>0. /\ MaxIndex \in Nat /\ MaxSends \in Nat
      /\ index["tail"] \in 0 .. MaxIndex /\ index["head"] \in 0 .. MaxIndex
      /\ index["head"] <= index["tail"]
      /\ \A e \in Ends : index[e] \in 0 .. MaxIndex /\ block[e] \in 0 .. MaxIndex
      /\ \A t \in Threads : idx[t] \in 0 .. MaxIndex /\ blk[t] \in 0 .. MaxIndex
      /\ linked \in 1 .. MaxIndex + 1
  BY MaxIndexNat, BoundAssumption DEF TypeOK, IInv, EndsOK, Ends, Blocks
<1>1. ASSUME NEW s \in Senders, BeginSend(s) PROVE TypeOK'
  <2>1. count[s] + 1 \in 1 .. MaxSends
    <3>1. count[s] \in 0 .. MaxSends
      BY DEF TypeOK
    <3>2. count[s] < MaxSends
      BY <1>1 DEF BeginSend
    <3> QED
      BY <1>0, <3>1, <3>2
  <2>2. msg' \in [Threads -> Messages \cup {NoMsg}]
    BY <1>1, <2>1 DEF BeginSend, TypeOK, Messages
  <2> QED
    BY <1>1, <2>2 DEF BeginSend, TypeOK, memVars
<1>2. ASSUME NEW r \in Receivers, BeginRecv(r) PROVE TypeOK'
  BY <1>2 DEF BeginRecv, TypeOK, memVars
<1>3. ASSUME NEW t \in Threads, LoadBlock(t) PROVE TypeOK'
  BY <1>3, PinType, EndOfIs DEF LoadBlock, TypeOK, Ends
<1>4. ASSUME NEW t \in Threads, LoadIndex(t) PROVE TypeOK'
  <2>1. idx' \in [Threads -> 0 .. MaxIndex]
    BY <1>4, EndOfIs DEF LoadIndex, TypeOK, Ends
  <2>2. pc' \in [Threads -> Labels]
    BY <1>4 DEF LoadIndex, TypeOK
  <2> QED
    BY <1>4, <2>1, <2>2 DEF LoadIndex, TypeOK, memVars
<1>5. ASSUME NEW t \in Threads, CasIndex(t) PROVE TypeOK'
  <2>1. index[EndOf(t)] + 1 \in 0 .. MaxIndex
    <3>1. CASE t \in Senders
      <4>1. EndOf(t) = "tail" /\ index["tail"] + 1 <= MaxIndex
        BY <1>5, <3>1, Room DEF CasIndex, EndOf
      <4> QED
        BY <4>1, <1>0
    <3>2. CASE t \notin Senders
      <4>1. EndOf(t) = "head" /\ index["head"] < index["tail"]
        BY <1>5, <3>2 DEF CasIndex, EndOf, IInv, CallsOK, CallOK
      <4> QED
        BY <4>1, <1>0
    <3> QED
      BY <3>1, <3>2
  <2>2. index' \in [{"head", "tail"} -> 0 .. MaxIndex]
    BY <1>5, <2>1 DEF CasIndex, TypeOK
  <2>3. count' \in [Senders -> 0 .. MaxSends]
    <3>1. t \in Senders => count[t] + 1 \in 0 .. MaxSends
      <4>1. t \in Senders => count[t] < MaxSends
        BY <1>5 DEF CasIndex, IInv, ContentsOK, SenderOK, Looking, Holds
      <4>2. t \in Senders => count[t] \in 0 .. MaxSends
        BY DEF TypeOK
      <4> QED
        BY <4>1, <4>2, <1>0
    <3>2. count' = IF t \in Senders THEN [count EXCEPT ![t] = count[t] + 1] ELSE count
      BY <1>5 DEF CasIndex
    <3>3. count \in [Senders -> 0 .. MaxSends]
      BY DEF TypeOK
    <3> QED
      BY <3>1, <3>2, <3>3
  <2>4. pc' \in [Threads -> Labels]
    BY <1>5 DEF CasIndex, TypeOK
  <2> QED
    BY <1>5, <2>2, <2>3, <2>4 DEF CasIndex, TypeOK, memVars
<1>6. ASSUME NEW t \in Threads, CasIndexFails(t) PROVE TypeOK'
  BY <1>6 DEF CasIndexFails, TypeOK, memVars
<1>7. ASSUME NEW t \in Threads, InstallNext(t) PROVE TypeOK'
  <2>1. blk[t] + 1 <= MaxIndex
    BY <1>7, PastBlock DEF InstallNext, IInv
  <2>2. linked' \in 1 .. MaxIndex + 1
    BY <1>7, <2>1, <1>0 DEF InstallNext
  <2> QED
    BY <1>7, <2>2 DEF InstallNext, TypeOK, memVars
<1>8. ASSUME NEW t \in Threads, AdvanceBlock(t) PROVE TypeOK'
  <2>1. blk[t] + 1 \in Blocks
    BY <1>8, PastBlock, <1>0 DEF AdvanceBlock, IInv, Blocks
  <2>2. block' \in [{"head", "tail"} -> Blocks]
    BY <1>8, <2>1 DEF AdvanceBlock, TypeOK
  <2>3. pc' \in [Threads -> Labels]
    BY <1>8 DEF AdvanceBlock, TypeOK
  <2> QED
    BY <1>8, <2>2, <2>3 DEF AdvanceBlock, TypeOK, memVars
<1>9. ASSUME NEW t \in Threads, WriteMsg(t) PROVE TypeOK'
  <2>1. slots' \in [0 .. MaxIndex -> [msg : Messages \cup {NoMsg}, ready : BOOLEAN]]
    <3>1. slots' = [slots EXCEPT ![idx[t]].msg = msg[t]]
      BY <1>9 DEF WriteMsg
    <3> QED
      BY <3>1, SlotUpdates
  <2> QED
    BY <1>9, <2>1 DEF WriteMsg, TypeOK, memVars
<1>10. ASSUME NEW t \in Threads, Publish(t) PROVE TypeOK'
  <2>1. slots' \in [0 .. MaxIndex -> [msg : Messages \cup {NoMsg}, ready : BOOLEAN]]
    <3>1. slots' = [slots EXCEPT ![idx[t]].ready = TRUE]
      BY <1>10 DEF Publish
    <3> QED
      BY <3>1, SlotUpdates
  <2> QED
    BY <1>10, <2>1, PinType DEF Publish, TypeOK
<1>11. ASSUME NEW t \in Threads, LoadReady(t) PROVE TypeOK'
  BY <1>11 DEF LoadReady, TypeOK, memVars
<1>12. ASSUME NEW t \in Threads, LoadTail(t) PROVE TypeOK'
  BY <1>12 DEF LoadTail, TypeOK, memVars
<1>13. ASSUME NEW t \in Threads, CheckDisconnected(t) PROVE TypeOK'
  BY <1>13, PinType DEF CheckDisconnected, TypeOK
<1>14. ASSUME NEW t \in Threads, ReloadTail(t) PROVE TypeOK'
  BY <1>14, PinType DEF ReloadTail, TypeOK
<1>15. ASSUME NEW t \in Threads, Retire(t) PROVE TypeOK'
  <2>1. blk[t] \in Blocks
    BY DEF TypeOK
  <2> QED
    BY <1>15, <2>1, DisposeType DEF Retire, TypeOK
<1>16. ASSUME NEW t \in Threads, WaitReady(t) PROVE TypeOK'
  BY <1>16 DEF WaitReady, TypeOK, memVars
<1>17. ASSUME NEW t \in Threads, ReadMsg(t) PROVE TypeOK'
  <2>1. moved' \in [0 .. MaxIndex -> Nat]
    BY <1>17 DEF ReadMsg, TypeOK
  <2>2. msg' \in [Threads -> Messages \cup {NoMsg}]
    BY <1>17 DEF ReadMsg, TypeOK
  <2> QED
    BY <1>17, <2>1, <2>2, PinType DEF ReadMsg, TypeOK
<1>18. ASSUME NEW t \in Threads, Return(t) PROVE TypeOK'
  <2>1. 0 \in 0 .. MaxIndex
    BY <1>0
  <2> QED
    BY <1>18, <2>1 DEF Return, TypeOK, memVars, Blocks
<1>19. ASSUME NEW t \in Threads, DropHandle(t) PROVE TypeOK'
  BY <1>19 DEF DropHandle, TypeOK, memVars
<1>20. ASSUME NEW b \in DOMAIN retired, Collect(b) PROVE TypeOK'
  <2>1. b \in Blocks
    BY DEF TypeOK
  <2> QED
    BY <1>20, <2>1 DEF Collect, TypeOK
<1>21. ASSUME DropMessage PROVE TypeOK'
  <2>1. index["head"] + 1 \in 0 .. MaxIndex
    BY <1>0, <1>21 DEF DropMessage
  <2>2. index' \in [{"head", "tail"} -> 0 .. MaxIndex] /\ moved' \in [0 .. MaxIndex -> Nat]
    BY <1>21, <2>1 DEF DropMessage, TypeOK
  <2>3. index["head"] - Start(block["head"]) + 1 = BlockCap => block["head"] + 1 \in Blocks
    <3>1. block["head"] \in Nat /\ index["head"] \in Nat
      BY Numbers DEF Ends
    <3>2. block["head"] + 1 <= Start(block["head"]) + BlockCap /\ Start(block["head"]) \in Nat
      <4>1. block["head"] + 1 \in Nat
        BY <3>1
      <4> QED
        BY <3>1, <4>1, StartFacts
    <3> QED
      BY <3>1, <3>2, <2>1, CapAssumption, MaxIndexNat DEF Blocks
  <2>4. block' \in [{"head", "tail"} -> Blocks]
    BY <1>21, <2>3 DEF DropMessage, TypeOK, memVars
  <2>5. block["head"] \in Blocks
    BY DEF TypeOK
  <2>6. Destroy(block["head"]) \/ UNCHANGED memVars
    BY <1>21 DEF DropMessage
  <2>7. /\ pinned' \subseteq Threads /\ freed' \subseteq Blocks /\ disposed' \in [Blocks -> Nat]
        /\ DOMAIN retired' \subseteq Blocks /\ \A x \in DOMAIN retired' : retired'[x] \subseteq pinned'
    BY <2>5, <2>6, DisposeType DEF memVars, TypeOK
  <2> QED
    BY <1>21, <2>2, <2>4, <2>7 DEF DropMessage, TypeOK
<1>22. ASSUME DropLastBlock PROVE TypeOK'
  <2>1. block["head"] \in Blocks
    BY DEF TypeOK
  <2> QED
    BY <1>22, <2>1, DisposeType DEF DropLastBlock, TypeOK
<1>23. ASSUME UNCHANGED vars PROVE TypeOK'
  BY <1>23 DEF vars, memVars, TypeOK
<1> QED
  BY <1>1, <1>2, <1>3, <1>4, <1>5, <1>6, <1>7, <1>8, <1>9, <1>10, <1>11, <1>12, <1>13, <1>14,
     <1>15, <1>16, <1>17, <1>18, <1>19, <1>20, <1>21, <1>22, <1>23
  DEF Next, Step, Terminated
-------------------------------------------------------------------------------
(* The invariant is inductive: first the steps that stay inside a call. *)

LEMMA InitIInv == Init => IInv
<1> SUFFICES ASSUME Init PROVE IInv
  OBVIOUS
<1>0. MaxIndex \in Nat /\ BlockCap \in Nat /\ BlockCap > 0 /\ Start(0) = 0
  BY MaxIndexNat, CapAssumption DEF Start
<1>1. \A t \in Threads : pc[t] = "idle"
  BY DEF Init
<1>2. \A t \in Threads : ~Holds(t) /\ ~Passing(t) /\ ~Looking(t) /\ ~Retiring(t) /\ ~Writing(t)
  BY <1>1 DEF Holds, Passing, Looking, Retiring, Writing
<1>3. EndsOK
  BY <1>0 DEF Init, EndsOK
<1>4. CallsOK
  BY <1>1, <1>2 DEF CallsOK, CallOK
<1>5. OwnersOK
  BY <1>2 DEF OwnersOK
<1>6. ContentsOK
  <2>1. \A s \in Senders : SenderOK(s)
    BY <1>1, <1>2 DEF SenderOK, Threads
  <2>2. \A i \in 0 .. MaxIndex : SlotOK(i) /\ slots[i].msg = NoMsg
    BY <1>0 DEF SlotOK, Init
  <2> QED
    BY <2>1, <2>2 DEF ContentsOK
<1>7. GuardsOK
  BY <1>2 DEF Init, GuardsOK
<1>8. BooksOK
  <2>1. \A i \in 0 .. MaxIndex : ~MovedOut(i) /\ moved[i] = 0
    BY <1>0 DEF MovedOut, Init
  <2>2. \A b \in Blocks : ~Disposed(b) /\ disposed[b] = 0
    BY <1>0 DEF Disposed, Init, Blocks
  <2> QED
    BY <2>1, <2>2 DEF BooksOK
<1> QED
  BY <1>3, <1>4, <1>5, <1>6, <1>7, <1>8 DEF IInv

\* What the invariant says of a thread between its loads and its exchange.
LEMMA InsideBlock ==
  ASSUME TypeOK, IInv, NEW t \in Threads
  PROVE  /\ Looking(t) => t \in pinned /\ blk[t] <= block[EndOf(t)] /\ t \in alive
         /\ Looking(t) /\ pc[t] # "load_index" =>
              /\ idx[t] <= index[EndOf(t)] /\ Start(blk[t]) <= idx[t]
              /\ idx[t] <= Start(blk[t]) + BlockCap
         /\ Looking(t) /\ pc[t] \notin {"load_index", "install", "advance"} =>
              idx[t] < Start(blk[t]) + BlockCap
         /\ Guarded(t) => blk[t] \notin freed /\ (blk[t] \in DOMAIN retired => t \in retired[blk[t]])
<1>1. CallOK(t)
  BY DEF IInv, CallsOK
<1>2. Guarded(t) => blk[t] \notin freed /\ (blk[t] \in DOMAIN retired => t \in retired[blk[t]])
  BY DEF IInv, GuardsOK, Guarded
<1>3. idx[t] \in Nat /\ Start(blk[t]) \in Nat /\ Offset(t) = idx[t] - Start(blk[t]) /\ BlockCap \in Nat
  BY Numbers
<1>4. (Offset(t) <= BlockCap <=> idx[t] <= Start(blk[t]) + BlockCap)
      /\ (Offset(t) < BlockCap <=> idx[t] < Start(blk[t]) + BlockCap)
  BY <1>3
<1> QED
  BY <1>1, <1>2, <1>4 DEF CallOK, Looking

\* The state of the channel after a step that touches nothing of it.
LEMMA BeginSteps ==
  ASSUME TypeOK, TypeOK', IInv
  PROVE  /\ \A s \in Senders : BeginSend(s) => IInv'
         /\ \A r \in Receivers : BeginRecv(r) => IInv'
         /\ \A t \in Threads : Return(t) => IInv'
<1> USE ThreadAssumption DEF Threads, Goto, Answered, Same, memVars
<1>1. ASSUME NEW s \in Senders, BeginSend(s) PROVE IInv'
  <2>1. pc[s] = "idle" /\ pc'[s] \in {"disconnected", "load_block"} /\ s \in alive
    BY <1>1 DEF BeginSend, TypeOK
  <2>2. /\ ~Holds(s) /\ ~Passing(s) /\ ~Retiring(s) /\ ~Writing(s)
        /\ ~Holds(s)' /\ ~Passing(s)' /\ ~Retiring(s)' /\ ~Writing(s)' /\ ~Looking(s)'
    BY <2>1 DEF Holds, Passing, Retiring, Writing, Looking
  <2>3. CallOK(s)'
    BY <2>1, <2>2, <1>1 DEF CallOK, BeginSend
  <2>4. SenderOK(s)'
    <3>1. count'[s] = count[s] /\ count[s] < MaxSends /\ msg'[s] = <<s, count[s] + 1>>
      BY <1>1 DEF BeginSend, TypeOK
    <3> QED
      BY <2>1, <2>2, <3>1 DEF SenderOK
  <2>5. \A z \in Threads \ {s} : Same(z)
    BY <1>1 DEF BeginSend, TypeOK
  <2>6. ~Guarded(s)'
    BY <2>2 DEF Guarded
  <2> QED
    BY <1>1, <2>2, <2>3, <2>4, <2>5, <2>6, LocalStep DEF BeginSend
<1>2. ASSUME NEW r \in Receivers, BeginRecv(r) PROVE IInv'
  <2>1. pc[r] = "idle" /\ pc'[r] = "load_block" /\ r \in alive
    BY <1>2 DEF BeginRecv, TypeOK
  <2>2. /\ ~Holds(r) /\ ~Passing(r) /\ ~Retiring(r) /\ ~Writing(r)
        /\ ~Holds(r)' /\ ~Passing(r)' /\ ~Retiring(r)' /\ ~Writing(r)' /\ ~Looking(r)'
    BY <2>1 DEF Holds, Passing, Retiring, Writing, Looking
  <2>3. CallOK(r)'
    BY <2>1, <2>2, <1>2 DEF CallOK, BeginRecv
  <2>5. \A z \in Threads \ {r} : Same(z)
    BY <1>2 DEF BeginRecv, TypeOK
  <2>6. ~Guarded(r)' /\ r \notin Senders
    BY <2>2 DEF Guarded
  <2> QED
    BY <1>2, <2>2, <2>3, <2>5, <2>6, LocalStep DEF BeginRecv
<1>3. ASSUME NEW t \in Threads, Return(t) PROVE IInv'
  <2>1. pc[t] \in Answered /\ pc'[t] = "idle"
    BY <1>3 DEF Return, TypeOK
  <2>2. /\ ~Holds(t) /\ ~Passing(t) /\ ~Retiring(t) /\ ~Writing(t)
        /\ ~Holds(t)' /\ ~Passing(t)' /\ ~Retiring(t)' /\ ~Writing(t)' /\ ~Looking(t)'
    BY <2>1 DEF Holds, Passing, Retiring, Writing, Looking
  <2>3. CallOK(t)'
    BY <2>1, <2>2 DEF CallOK
  <2>4. SenderOK(t)'
    BY <2>1, <2>2 DEF SenderOK
  <2>5. \A z \in Threads \ {t} : Same(z)
    BY <1>3 DEF Return, TypeOK
  <2>6. ~Guarded(t)'
    BY <2>2 DEF Guarded
  <2> QED
    BY <1>3, <2>2, <2>3, <2>4, <2>5, <2>6, LocalStep DEF Return
<1> QED
  BY <1>1, <1>2, <1>3

\* A thread that does not hold a slot before or after.
LEMMA NoSlot ==
  ASSUME NEW t, ~Holds(t)
  PROVE  ~Passing(t) /\ ~Writing(t) /\ (pc[t] # "retire" => ~Retiring(t))
BY DEF Holds, Passing, Retiring, Writing

LEMMA LoadSteps ==
  ASSUME TypeOK, TypeOK', IInv, NEW t \in Threads
  PROVE  /\ LoadBlock(t) => IInv'
         /\ LoadIndex(t) => IInv'
         /\ CasIndexFails(t) => IInv'
<1> USE DEF Threads, Goto, Same, memVars
<1>0. /\ EndOf(t)' = EndOf(t) /\ EndOf(t) \in Ends
      /\ t \in Receivers => EndOf(t) = "head"
      /\ CallOK(t) /\ (t \in Senders => SenderOK(t))
  BY ThreadAssumption DEF EndOf, Ends, IInv, CallsOK, ContentsOK
<1>1. ASSUME LoadBlock(t) PROVE IInv'
  <2>1. /\ pc[t] = "load_block" /\ pc'[t] = "load_index" /\ blk'[t] = block[EndOf(t)]
        /\ t \in alive /\ t \in pinned' /\ UNCHANGED <<index, block, alive>>
    BY <1>1, <1>0 DEF LoadBlock, Pin, TypeOK, CallOK, listVars
  <2>2. /\ ~Holds(t) /\ ~Retiring(t) /\ ~Writing(t) /\ ~Passing(t) /\ ~Looking(t)
        /\ ~Holds(t)' /\ ~Retiring(t)' /\ ~Writing(t)' /\ ~Passing(t)'
    BY <2>1 DEF Holds, Passing, Retiring, Writing, Looking, Answered
  <2>3. CallOK(t)'
    <3>1. block[EndOf(t)] <= block[EndOf(t)]
      BY Numbers
    <3> QED
      BY <2>1, <2>2, <3>1, <1>0 DEF CallOK
  <2>4. t \in Senders => SenderOK(t)'
    BY <1>1, <1>0, <2>1, <2>2 DEF SenderOK, LoadBlock
  <2>5. \A z \in Threads \ {t} : Same(z)
    BY <1>1 DEF LoadBlock, TypeOK
  <2>6. Guarded(t)' => blk'[t] \notin freed /\ blk'[t] \notin DOMAIN retired
    <3>1. SUFFICES ASSUME Guarded(t)' PROVE blk'[t] \notin freed /\ blk'[t] \notin DOMAIN retired
      OBVIOUS
    <3>2. blk'[t] = block["head"]
      BY <3>1, <2>1, <2>2, <1>0 DEF Guarded
    <3>3. ~(block["head"] < block["head"])
      BY Numbers DEF Ends
    <3> QED
      BY <3>2, <3>3, <2>1 DEF IInv, GuardsOK
  <2> QED
    BY <1>1, <2>2, <2>3, <2>4, <2>5, <2>6, LocalStep DEF LoadBlock, Pin
<1>2. ASSUME LoadIndex(t) PROVE IInv'
  <2>1. /\ pc[t] = "load_index" /\ idx'[t] = index[EndOf(t)] /\ blk'[t] = blk[t]
        /\ Offset(t)' = index[EndOf(t)] - Start(blk[t])
        /\ UNCHANGED <<index, block, alive, pinned>>
    BY <1>2 DEF LoadIndex, TypeOK, Offset, Start, listVars
  <2>2. \/ /\ Offset(t)' < BlockCap
           /\ pc'[t] = IF t \in Senders THEN "cas" ELSE "load_ready"
        \/ Offset(t)' = BlockCap /\ pc'[t] = "install"
        \/ pc'[t] = "load_block"
    <3>1. Offset(t)' = idx'[t] - Start(blk[t])
      BY <2>1
    <3> QED
      BY <1>2, <3>1 DEF LoadIndex, TypeOK
  <2>3. /\ ~Holds(t) /\ ~Retiring(t) /\ ~Writing(t) /\ ~Passing(t) /\ Looking(t)
    BY <2>1 DEF Holds, Passing, Retiring, Writing, Looking, Answered
  <2>4. ~(BlockCap < BlockCap) /\ BlockCap <= BlockCap /\ BlockCap >= BlockCap - 1
    BY CapAssumption
  <2>5. ~Holds(t)' /\ ~Retiring(t)' /\ ~Writing(t)' /\ ~Passing(t)'
    BY <2>2, <2>4 DEF Holds, Passing, Retiring, Writing
  <2>6. /\ index[EndOf(t)] <= index[EndOf(t)] /\ Start(blk[t]) <= index[EndOf(t)]
        /\ Offset(t)' < BlockCap => Offset(t)' <= BlockCap
    <3>1. blk[t] <= block[EndOf(t)]
      BY <2>3, <1>0 DEF CallOK
    <3>2. Start(blk[t]) <= Start(block[EndOf(t)])
      BY <3>1, Numbers, StartFacts
    <3>3. Start(block[EndOf(t)]) <= index[EndOf(t)]
      BY <1>0 DEF IInv, EndsOK, Ends
    <3>4. /\ index[EndOf(t)] \in Nat /\ Start(blk[t]) \in Nat
          /\ Start(block[EndOf(t)]) \in Nat /\ BlockCap \in Nat
      BY <1>0, Numbers
    <3>5. \A n \in Int : n < BlockCap => n <= BlockCap
      BY <3>4
    <3>6. index[EndOf(t)] - Start(blk[t]) \in Int
      BY <3>4
    <3>7. Offset(t)' < BlockCap => Offset(t)' <= BlockCap
      BY <3>5, <3>6, <2>1
    <3> QED
      BY ONLY <3>2, <3>3, <3>4, <3>7
  <2>7. CallOK(t)'
    <3>1. blk[t] <= block[EndOf(t)] /\ t \in pinned /\ t \in alive
      BY <2>1, <2>3, <1>0 DEF CallOK
    <3>2. Start(blk[t])' = Start(blk[t])
      BY <2>1 DEF Start
    <3>3. CASE pc'[t] = "load_block"
      BY <3>1, <3>3, <2>1, <2>5 DEF CallOK, Looking
    <3>4. CASE Offset(t)' = BlockCap /\ pc'[t] = "install"
      BY <3>1, <3>2, <3>4, <2>1, <2>4, <2>5, <2>6, <1>0 DEF CallOK
    <3>5. CASE Offset(t)' < BlockCap /\ pc'[t] = IF t \in Senders THEN "cas" ELSE "load_ready"
      BY <3>1, <3>2, <3>5, <2>1, <2>5, <2>6, <1>0, ThreadAssumption DEF CallOK
    <3> QED
      BY <3>3, <3>4, <3>5, <2>2
  <2>8. t \in Senders => SenderOK(t)'
    <3>1. count' = count /\ msg' = msg /\ pc'[t] # "publish"
      BY <1>2, <2>2 DEF LoadIndex
    <3> QED
      BY <3>1, <1>0, <2>3, <2>5 DEF SenderOK
  <2>9. \A z \in Threads \ {t} : Same(z)
    BY <1>2 DEF LoadIndex, TypeOK
  <2>10. Guarded(t)' => Guarded(t)
    BY <2>3, <2>5 DEF Guarded
  <2> QED
    BY <1>2, <2>1, <2>3, <2>5, <2>7, <2>8, <2>9, <2>10, LocalStep, InsideBlock DEF LoadIndex
<1>3. ASSUME CasIndexFails(t) PROVE IInv'
  <2>1. pc[t] = "cas" /\ pc'[t] = "load_block" /\ UNCHANGED <<alive, idx, blk>>
    BY <1>3 DEF CasIndexFails, TypeOK
  <2>2. /\ ~Holds(t) /\ ~Retiring(t) /\ ~Writing(t) /\ ~Passing(t) /\ Looking(t)
        /\ ~Holds(t)' /\ ~Retiring(t)' /\ ~Writing(t)' /\ ~Passing(t)' /\ ~Looking(t)'
    BY <2>1 DEF Holds, Passing, Retiring, Writing, Looking, Answered
  <2>3. CallOK(t)'
    BY <2>1, <2>2, <1>0 DEF CallOK
  <2>4. t \in Senders => SenderOK(t)'
    BY <1>3, <1>0, <2>1, <2>2 DEF SenderOK, CasIndexFails
  <2>5. \A z \in Threads \ {t} : Same(z)
    BY <1>3 DEF CasIndexFails, TypeOK
  <2>6. ~Guarded(t)'
    BY <2>2 DEF Guarded
  <2> QED
    BY <1>3, <2>2, <2>3, <2>4, <2>5, <2>6, LocalStep DEF CasIndexFails
<1> QED
  BY <1>1, <1>2, <1>3

\* A receiver looks whether the channel is empty, or waits for its message.
LEMMA LookSteps ==
  ASSUME TypeOK, TypeOK', IInv, NEW t \in Threads,
         LoadReady(t) \/ LoadTail(t) \/ CheckDisconnected(t) \/ ReloadTail(t) \/ WaitReady(t)
  PROVE  IInv'
<1> USE DEF Threads, Goto, Same, memVars
<1>0. CallOK(t) /\ UNCHANGED <<index, block, linked, slots, alive, idx, blk, count>>
  BY DEF IInv, CallsOK, LoadReady, LoadTail, CheckDisconnected, ReloadTail, WaitReady, listVars
<1>1. \/ /\ pc[t] \in {"load_ready", "load_tail", "check_disc", "reload_tail"}
         /\ pc'[t] \in {"cas", "load_tail", "check_disc", "reload_tail", "empty", "disconnected"}
      \/ pc[t] = "wait_ready" /\ pc'[t] = "read"
  BY DEF LoadReady, LoadTail, CheckDisconnected, ReloadTail, WaitReady, TypeOK
<1>2. t \in Receivers /\ t \notin Senders /\ t \in alive /\ Looking(t)
  BY <1>0, <1>1, ThreadAssumption DEF CallOK, Looking, Answered
<1>3. /\ pinned' = pinned \/ pc'[t] \in {"empty", "disconnected"}
      /\ UNCHANGED <<pinned, retired>> \/ (Unpin(t) /\ pc'[t] \in {"empty", "disconnected"})
      /\ UNCHANGED <<moved, disposed, freed>>
  BY DEF LoadReady, LoadTail, CheckDisconnected, ReloadTail, WaitReady, TypeOK, Unpin
<1>4. /\ (Holds(t)' <=> Holds(t)) /\ ~Passing(t) /\ ~Passing(t)' /\ ~Retiring(t) /\ ~Retiring(t)'
      /\ Writing(t)' <=> Writing(t)
      /\ Looking(t)' => pc'[t] \notin {"empty", "disconnected"}
  BY <1>1, <1>2, ThreadAssumption DEF Holds, Passing, Retiring, Writing, Looking, Answered
<1>5. \A z \in Threads \ {t} : Same(z)
  BY DEF LoadReady, LoadTail, CheckDisconnected, ReloadTail, WaitReady, TypeOK
<1>6. pc'[t] = "cas" => idx[t] < index["tail"]
  <2> SUFFICES ASSUME pc'[t] = "cas" PROVE idx[t] < index["tail"]
    OBVIOUS
  <2>1. /\ idx[t] \in 0 .. MaxIndex /\ index["tail"] \in Nat /\ index["head"] \in Nat
        /\ idx[t] \in Nat /\ idx[t] <= index["head"] /\ index["head"] <= index["tail"]
    <3>1. idx[t] <= index["head"] /\ index["head"] <= index["tail"]
      BY <1>0, <1>1, <1>2, ThreadAssumption DEF CallOK, EndOf, IInv, EndsOK
    <3> QED
      BY <3>1, Numbers DEF Ends, TypeOK
  <2>2. CASE index["tail"] # idx[t]
    BY <2>1, <2>2
  <2>3. CASE slots[idx[t]].ready
    <3>1. slots[idx[t]].msg # NoMsg /\ SlotOK(idx[t])
      BY <2>1, <2>3 DEF IInv, ContentsOK, SlotOK
    <3> QED
      BY <3>1 DEF SlotOK
  <2> QED
    BY <2>2, <2>3 DEF LoadReady, LoadTail, CheckDisconnected, ReloadTail, WaitReady, TypeOK
<1>7. CallOK(t)'
  <2>1. Offset(t)' = Offset(t) /\ Start(blk[t])' = Start(blk[t]) /\ EndOf(t)' = EndOf(t)
    BY <1>0 DEF Offset, Start, EndOf
  <2>2. Looking(t)' => t \in pinned'
    BY <1>0, <1>2, <1>3, <1>4 DEF CallOK
  <2> QED
    BY <1>0, <1>1, <1>2, <1>4, <1>6, <2>1, <2>2 DEF CallOK
<1>8. Guarded(t)' => /\ blk'[t] \notin freed
                     /\ blk'[t] \in DOMAIN retired => t \in retired'[blk'[t]]
  <2> SUFFICES ASSUME Guarded(t)'
               PROVE  blk'[t] \notin freed /\ (blk'[t] \in DOMAIN retired => t \in retired'[blk'[t]])
    OBVIOUS
  <2>1. Looking(t)' /\ Guarded(t)
    BY <1>1, <1>2 DEF Guarded, Holds, Looking, Answered
  <2> QED
    BY <2>1, <1>0, <1>3, <1>4, InsideBlock
<1> QED
  BY <1>0, <1>2, <1>3, <1>4, <1>5, <1>7, <1>8, LocalStep DEF listVars
-------------------------------------------------------------------------------
(* The compare-exchange of an index. *)

\* Who exchanges an index has the current block, and room in it.
LEMMA CasFacts ==
  ASSUME TypeOK, TypeOK', IInv, NEW t \in Threads, CasIndex(t)
  PROVE  /\ idx[t] = index[EndOf(t)] /\ blk[t] = block[EndOf(t)] /\ Looking(t) /\ ~Holds(t) /\ t \in alive
         /\ idx[t] < Start(blk[t]) + BlockCap
         /\ t \in Receivers => idx[t] < index["tail"]
         /\ index' = [index EXCEPT ![EndOf(t)] = idx[t] + 1]
         /\ Holds(t)' /\ pc'[t] \in {"install", "write", "wait_ready"}
         /\ pc'[t] = "install" <=> Offset(t) + 1 = BlockCap
         /\ \A z \in Threads \ {t} : Same(z)
         /\ UNCHANGED <<idx, blk, msg>>
<1> USE DEF Threads, Goto
<1>1. /\ pc[t] = "cas" /\ idx[t] = index[EndOf(t)] /\ Looking(t) /\ ~Holds(t) /\ CallOK(t)
      /\ index' = [index EXCEPT ![EndOf(t)] = idx[t] + 1]
  BY DEF CasIndex, Looking, Holds, Answered, IInv, CallsOK
<1>2. /\ idx[t] \in Nat /\ blk[t] \in Nat /\ Start(blk[t]) \in Nat /\ block[EndOf(t)] \in Nat
      /\ Start(block[EndOf(t)]) \in Nat /\ BlockCap \in Nat /\ BlockCap > 0
      /\ Offset(t) = idx[t] - Start(blk[t]) /\ EndOf(t) \in Ends
  BY Numbers, EndOfIs
<1>3. blk[t] <= block[EndOf(t)] /\ idx[t] < Start(blk[t]) + BlockCap /\ Start(block[EndOf(t)]) <= idx[t]
      /\ t \in alive
  BY <1>1, <1>2, InsideBlock DEF IInv, EndsOK, Ends
<1>4. blk[t] = block[EndOf(t)]
  <2> SUFFICES ASSUME blk[t] < block[EndOf(t)] PROVE FALSE
    BY <1>2, <1>3
  <2>1. Start(blk[t]) + BlockCap <= Start(block[EndOf(t)])
    BY <1>2, StartFacts
  <2> QED
    BY <2>1, <1>2, <1>3
<1>5. /\ pc'[t] = IF Offset(t) + 1 = BlockCap THEN "install"
                  ELSE IF t \in Senders THEN "write" ELSE "wait_ready"
      /\ \A z \in Threads \ {t} : pc'[z] = pc[z]
      /\ UNCHANGED <<idx, blk, msg>>
  BY DEF CasIndex, TypeOK
<1>6. Holds(t)'
  <2>1. Offset(t)' < BlockCap
    BY <1>2, <1>3, <1>5 DEF Offset, Start
  <2> QED
    BY <1>5, <2>1 DEF Holds
<1> QED
  BY <1>1, <1>3, <1>4, <1>5, <1>6 DEF CallOK, Same

LEMMA CasEnds ==
  ASSUME TypeOK, TypeOK', IInv, NEW t \in Threads, CasIndex(t)
  PROVE  EndsOK' /\ CallsOK' /\ OwnersOK'
<1> USE CasFacts, ThreadAssumption DEF Threads
<1> DEFINE e == EndOf(t)
           i == idx[t]
<1>1. /\ i \in Nat /\ blk[t] \in Nat /\ Start(blk[t]) \in Nat /\ BlockCap \in Nat /\ BlockCap > 0
      /\ \A x \in Ends : index[x] \in Nat /\ block[x] \in Nat /\ Start(block[x]) \in Nat
      /\ e \in Ends /\ Offset(t) = i - Start(blk[t]) /\ linked \in Nat
  BY Numbers, EndOfIs
<1>2. /\ index' = [index EXCEPT ![e] = i + 1] /\ index[e] = i /\ index'[e] = i + 1
      /\ \A x \in Ends \ {e} : index'[x] = index[x]
      /\ UNCHANGED <<block, linked, idx, blk, alive, pinned>>
      /\ i < Start(blk[t]) + BlockCap /\ block[e] = blk[t]
  BY <1>1 DEF CasIndex, TypeOK, Ends, memVars
<1>3. \A b : Start(b)' = Start(b)
  BY DEF Start
<1>4. \A z \in Threads \ {t} : Passing(z)' <=> Passing(z)
  BY SameFacts
<1>5. ~Passing(t)
  BY DEF Passing, Holds
<1>6. EndsOK'
  <2>1. index'["head"] <= index'["tail"]
    <3>1. index["head"] <= index["tail"] /\ (e = "head" => i < index["tail"])
      BY DEF IInv, EndsOK, EndOf
    <3> QED
      BY <3>1, <1>1, <1>2 DEF Ends
  <2>2. ASSUME NEW x \in Ends
        PROVE  /\ Start(block[x]) <= index'[x] /\ index'[x] <= Start(block[x]) + BlockCap
               /\ index'[x] = Start(block[x]) + BlockCap =>
                    \E z \in Threads : EndOf(z) = x /\ Passing(z)' /\ blk[z] = block[x]
    <3>1. /\ Start(block[x]) <= index[x] /\ index[x] <= Start(block[x]) + BlockCap
          /\ index[x] = Start(block[x]) + BlockCap =>
               \E z \in Threads : EndOf(z) = x /\ Passing(z) /\ blk[z] = block[x]
      BY DEF IInv, EndsOK, Ends
    <3>2. CASE x # e
      BY <3>1, <3>2, <1>2, <1>4, <1>5
    <3>3. CASE x = e
      <4>1. Start(block[x]) <= i + 1 /\ i + 1 <= Start(block[x]) + BlockCap
        BY <3>1, <3>3, <1>1, <1>2
      <4>2. ASSUME i + 1 = Start(block[x]) + BlockCap PROVE Passing(t)'
        <5>1. Offset(t) + 1 = BlockCap /\ Offset(t) < BlockCap
          BY <4>2, <3>3, <1>1, <1>2
        <5>2. Offset(t)' = Offset(t)
          BY <1>2, <1>3 DEF Offset
        <5> QED
          BY <5>1, <5>2 DEF Passing
      <4> QED
        BY <4>1, <4>2, <3>3, <1>2
    <3> QED
      BY <3>2, <3>3
  <2>3. block["head"] < linked /\ block["tail"] < linked /\ linked <= block["tail"] + 2
    BY DEF IInv, EndsOK
  <2>4. linked = block["tail"] + 2 => index'["tail"] = Start(block["tail"]) + BlockCap
    <3>1. linked = block["tail"] + 2 => index["tail"] = Start(block["tail"]) + BlockCap
      BY DEF IInv, EndsOK
    <3>2. CASE e = "tail"
      BY <3>1, <3>2, <1>1, <1>2
    <3>3. CASE e = "head"
      BY <3>1, <3>3, <1>2 DEF Ends
    <3> QED
      BY <3>2, <3>3, <1>1 DEF Ends
  <2>5. \A z : EndOf(z)' = EndOf(z)
    BY DEF EndOf
  <2> QED
    BY <2>1, <2>2, <2>3, <2>4, <2>5, <1>2, <1>3 DEF EndsOK, Ends
<1>7. CallOK(t)'
  <2>1. CallOK(t)
    BY DEF IInv, CallsOK
  <2>2. Offset(t)' = Offset(t) /\ EndOf(t)' = e /\ Looking(t)' /\ pc'[t] \in {"install", "write", "wait_ready"}
    BY <1>2, <1>3 DEF Offset, EndOf, Looking, Answered
  <2>3. /\ Start(blk[t]) <= i /\ i <= i + 1 /\ i < i + 1 /\ Offset(t) < BlockCap /\ Offset(t) <= BlockCap
        /\ Offset(t) + 1 = BlockCap => Offset(t) >= BlockCap - 1
    <3>1. Start(blk[t]) <= i
      BY <2>1 DEF CallOK, CasIndex
    <3> QED
      BY <3>1, <1>1, <1>2
  <2>4. t \in Senders => pc'[t] # "wait_ready"
    BY DEF CasIndex, Goto, TypeOK
  <2>5. t \in Receivers => pc'[t] # "write"
    BY DEF CasIndex, Goto, TypeOK
  <2> QED
    BY <2>1, <2>2, <2>3, <2>4, <2>5, <1>2, <1>3 DEF CallOK
<1>8. CallsOK'
  <2>1. \A x \in Ends : index[x] <= index'[x] /\ block[x] <= block'[x]
    BY <1>1, <1>2
  <2>2. linked <= linked'
    BY <1>1, <1>2
  <2> QED
    BY <2>1, <2>2, <1>2, <1>7, CallsStay DEF IInv
<1>9. OwnersOK'
  <2>1. \A z \in Threads \ {t} : (Holds(z)' <=> Holds(z)) /\ EndOf(z)' = EndOf(z)
    BY SameFacts DEF EndOf
  <2>2. \A z \in Threads : Holds(z) => idx[z] < index[EndOf(z)]
    BY DEF IInv, CallsOK, CallOK
  <2>3. \A z \in Threads \ {t} : Holds(z) /\ EndOf(z) = e => idx[z] # i
    <3>1. ~(i < i)
      BY <1>1
    <3> QED
      BY <3>1, <2>2, <1>2
  <2>4. EndOf(t)' = e
    BY DEF EndOf
  <2>5. \A z, u \in Threads : EndOf(z) = EndOf(u) /\ Holds(z) /\ Holds(u) /\ idx[z] = idx[u] => z = u
    BY DEF IInv, OwnersOK
  <2> SUFFICES ASSUME NEW z \in Threads, NEW u \in Threads,
                      EndOf(z)' = EndOf(u)', Holds(z)', Holds(u)', idx'[z] = idx'[u]
               PROVE  z = u
    BY DEF OwnersOK
  <2>6. CASE z # t /\ u # t
    BY <2>1, <2>5, <2>6, <1>2
  <2>7. CASE z = t /\ u # t
    BY <2>1, <2>3, <2>4, <2>7, <1>2
  <2>8. CASE u = t /\ z # t
    BY <2>1, <2>3, <2>4, <2>8, <1>2
  <2> QED
    BY <2>6, <2>7, <2>8
<1> QED
  BY <1>6, <1>8, <1>9

LEMMA CasContents ==
  ASSUME TypeOK, TypeOK', IInv, NEW t \in Threads, CasIndex(t)
  PROVE  ContentsOK'
<1> USE CasFacts, ThreadAssumption DEF Threads
<1>0. UNCHANGED <<slots, idx, blk, msg>> /\ \A z \in Threads \ {t} : (Writing(z)' <=> Writing(z))
  BY SameFacts DEF CasIndex
<1>1. CASE t \notin Senders
  <2>1. index'["tail"] = index["tail"] /\ UNCHANGED count
    BY <1>1 DEF CasIndex, EndOf, TypeOK
  <2>2. \A s \in Senders : SenderOK(s)'
    BY <1>1, <1>0, <2>1, SenderStays DEF IInv, ContentsOK
  <2> QED
    BY <1>0, <1>1, <2>1, <2>2, ContentsStay DEF IInv
<1>2. CASE t \in Senders
  <2> USE <1>2
  <2>1. /\ index["tail"] = idx[t] /\ index'["tail"] = idx[t] + 1
        /\ idx[t] \in Nat /\ idx[t] \in 0 .. MaxIndex /\ EndOf(t) = "tail"
    BY Numbers DEF EndOf, TypeOK
  <2>2. /\ count'[t] = count[t] + 1 /\ count[t] \in Nat
        /\ \A s \in Senders : count[s] \in Nat /\ (s # t => count'[s] = count[s])
    BY BoundAssumption DEF CasIndex, TypeOK
  <2>3. SenderOK(t) /\ count[t] < MaxSends /\ msg[t] = <<t, count[t] + 1>>
    BY DEF IInv, ContentsOK, SenderOK
  <2>4. slots[idx[t]].msg = NoMsg /\ ~slots[idx[t]].ready
    <3>1. SlotOK(idx[t])
      BY <2>1 DEF IInv, ContentsOK
    <3>2. ~(idx[t] < idx[t])
      BY <2>1
    <3> QED
      BY <3>1, <3>2, <2>1 DEF SlotOK
  <2>5. \A i \in 0 .. MaxIndex : slots[i].msg # msg[t]
    <3> SUFFICES ASSUME NEW i \in 0 .. MaxIndex, slots[i].msg = msg[t] PROVE FALSE
      OBVIOUS
    <3>1. msg[t] # NoMsg
      <4>1. count[t] + 1 \in 1 .. MaxSends
        BY <2>2, <2>3, BoundAssumption
      <4> QED
        BY <4>1, <2>3, BoundAssumption
    <3>2. SlotOK(i)
      BY DEF IInv, ContentsOK
    <3>3. count[t] + 1 <= count[t]
      BY <3>1, <3>2, <2>3 DEF SlotOK
    <3> QED
      BY <3>3, <2>2
  <2>6. Writing(t)' /\ pc'[t] # "publish"
    BY DEF Writing
  <2>7. SenderOK(t)'
    BY <1>0, <2>2, <2>3, <2>4, <2>5, <2>6 DEF SenderOK, Looking, Answered
  <2>8. \A s \in Senders : SenderOK(s)'
    BY <1>0, <2>2, <2>7, SenderStays DEF IInv, ContentsOK
  <2>9. ASSUME NEW i \in 0 .. MaxIndex PROVE SlotOK(i)'
    <3>1. SlotOK(i) /\ i \in Nat
      BY DEF IInv, ContentsOK
    <3>2. slots[i].msg # NoMsg => i < idx[t] + 1 /\ slots[i].msg[2] <= count'[slots[i].msg[1]]
      <4> SUFFICES ASSUME slots[i].msg # NoMsg
                   PROVE  i < idx[t] + 1 /\ slots[i].msg[2] <= count'[slots[i].msg[1]]
        OBVIOUS
      <4>1. i < idx[t] /\ slots[i].msg[2] <= count[slots[i].msg[1]]
        BY <3>1, <2>1 DEF SlotOK
      <4>2. slots[i].msg[1] \in Senders /\ slots[i].msg[2] \in Nat
        <5>1. slots[i].msg \in Senders \X (1 .. MaxSends)
          BY DEF TypeOK, Messages
        <5> QED
          BY ONLY <5>1, BoundAssumption
      <4>3. i < idx[t] + 1
        BY <4>1, <2>1, <3>1
      <4>4. slots[i].msg[2] <= count'[slots[i].msg[1]]
        <5>1. CASE slots[i].msg[1] = t
          BY <5>1, <4>1, <4>2, <2>2
        <5>2. CASE slots[i].msg[1] # t
          BY <5>2, <4>1, <4>2, <2>2
        <5> QED
          BY <5>1, <5>2
      <4> QED
        BY <4>3, <4>4
    <3>3. ASSUME slots[i].msg = NoMsg, i < idx[t] + 1
          PROVE  \E s \in Senders : Writing(s)' /\ idx[s] = i
      <4>1. CASE i = idx[t]
        BY <4>1, <2>6
      <4>2. CASE i # idx[t]
        <5>1. i < idx[t]
          BY <4>2, <3>3, <3>1, <2>1
        <5>2. PICK s \in Senders : Writing(s) /\ idx[s] = i
          BY <5>1, <3>1, <3>3, <2>1 DEF SlotOK
        <5>3. s # t
          BY <5>2, NoSlot
        <5> QED
          BY <5>2, <5>3, <1>0
      <4> QED
        BY <4>1, <4>2
    <3>4. slots[i].ready => slots[i].msg # NoMsg
      BY <3>1 DEF SlotOK
    <3> QED
      BY <3>2, <3>3, <3>4, <1>0, <2>1 DEF SlotOK
  <2> QED
    BY <1>0, <2>8, <2>9 DEF IInv, ContentsOK
<1> QED
  BY <1>1, <1>2

\* Nobody gives up a block whose slots are not all taken.
LEMMA TailGuarded ==
  ASSUME TypeOK, IInv, NEW b \in Nat, index["tail"] < Start(b) + BlockCap, alive # {}
  PROVE  b \notin freed /\ b \notin DOMAIN retired
<1> SUFFICES ASSUME b < block["head"] PROVE FALSE
  BY DEF IInv, GuardsOK
<1>1. /\ block["head"] \in Nat /\ index["head"] \in Nat /\ index["tail"] \in Nat
      /\ Start(block["head"]) \in Nat /\ Start(b) \in Nat /\ BlockCap \in Nat
  BY Numbers, StartFacts DEF Ends
<1>2. Start(b) + BlockCap <= Start(block["head"])
  BY <1>1, StartFacts
<1>3. Start(block["head"]) <= index["head"] /\ index["head"] <= index["tail"]
  BY DEF IInv, EndsOK
<1> QED
  BY <1>1, <1>2, <1>3

LEMMA CasGuards ==
  ASSUME TypeOK, TypeOK', IInv, NEW t \in Threads, CasIndex(t)
  PROVE  GuardsOK' /\ BooksOK'
<1> USE CasFacts, ThreadAssumption DEF Threads
<1>0. UNCHANGED <<block, alive, pinned, retired, freed, disposed, moved, idx, blk>>
  BY DEF CasIndex, memVars
<1>1. blk[t] \notin freed /\ (blk[t] \in DOMAIN retired => t \in retired[blk[t]])
  <2>1. CASE t \in Receivers
    BY <2>1, InsideBlock DEF Guarded
  <2>2. CASE t \notin Receivers
    BY <2>2, TailGuarded, Numbers DEF EndOf
  <2> QED
    BY <2>1, <2>2
<1>2. block["head"] <= block["head"]
  BY Numbers DEF Ends
<1>3. GuardsOK'
  BY <1>0, <1>1, <1>2, GuardsStay DEF IInv
<1>4. CASE t \notin Receivers
  <2>1. index'["head"] = index["head"]
    <3>1. EndOf(t) = "tail" /\ DOMAIN index = {"head", "tail"}
      BY <1>4 DEF EndOf, TypeOK
    <3>2. index' = [index EXCEPT ![EndOf(t)] = @ + 1]
      BY DEF CasIndex
    <3> QED
      BY <3>1, <3>2
  <2>2. \A r \in Receivers : (Holds(r)' <=> Holds(r)) /\ (Retiring(r)' <=> Retiring(r))
    BY <1>4, SameFacts
  <2> QED
    BY <1>0, <1>3, <2>1, <2>2, BooksStay DEF IInv
<1>5. CASE t \in Receivers
  <2>1. index["head"] = idx[t] /\ index'["head"] = idx[t] + 1 /\ blk[t] = block["head"] /\ idx[t] \in Nat
    <3>1. EndOf(t) = "head" /\ idx[t] \in Nat
      BY <1>5, Numbers DEF EndOf
    <3>2. index' = [index EXCEPT !["head"] = idx[t] + 1] /\ index["head"] = idx[t] /\ blk[t] = block["head"]
      BY <3>1
    <3> QED
      BY <3>1, <3>2 DEF TypeOK
  <2>2. \A r \in Receivers \ {t} : (Holds(r)' <=> Holds(r)) /\ (Retiring(r)' <=> Retiring(r))
    BY SameFacts
  <2>3. ~Retiring(t)
    BY DEF Retiring, Passing, Holds
  <2>4. ASSUME NEW i \in 0 .. MaxIndex PROVE MovedOut(i)' <=> MovedOut(i)
    <3>1. CASE i = idx[t]
      <4>1. ~(i < idx[t])
        BY <3>1
      <4> QED
        BY <3>1, <4>1, <1>0, <1>5, <2>1 DEF MovedOut
    <3>2. CASE i # idx[t]
      <4>1. i < idx[t] + 1 <=> i < idx[t]
        BY <3>2, <2>1
      <4>2. \A r \in Receivers : (Holds(r)' /\ idx[r] = i) <=> (Holds(r) /\ idx[r] = i)
        BY <3>2, <2>2
      <4> QED
        BY <4>1, <4>2, <1>0, <2>1 DEF MovedOut
    <3> QED
      BY <3>1, <3>2
  <2>5. ASSUME NEW b \in Blocks PROVE Disposed(b)' <=> Disposed(b)
    <3>1. ~(block["head"] < block["head"])
      BY Numbers DEF Ends
    <3>2. b < block["head"] => b # blk[t]
      BY <3>1, <2>1
    <3>3. b < block["head"] => \A r \in Receivers : (Retiring(r)' /\ blk[r] = b) <=> (Retiring(r) /\ blk[r] = b)
      BY <3>2, <2>2
    <3> QED
      BY <3>3, <1>0 DEF Disposed
  <2>6. BooksOK'
    BY <1>0, <2>4, <2>5 DEF IInv, BooksOK
  <2> QED
    BY <1>3, <2>6
<1> QED
  BY <1>4, <1>5

LEMMA CasSteps ==
  ASSUME TypeOK, TypeOK', IInv, NEW t \in Threads, CasIndex(t)
  PROVE  IInv'
BY CasEnds, CasContents, CasGuards DEF IInv
-------------------------------------------------------------------------------
(* install_next_block. *)

\* A step of a thread that passes a block changes neither its slot nor others.
LEMMA PassFacts ==
  ASSUME TypeOK, TypeOK', IInv, NEW t \in Threads, InstallNext(t) \/ AdvanceBlock(t)
  PROVE  /\ pc[t] \in {"install", "advance"} /\ Looking(t) /\ CallOK(t) /\ t \in alive
         /\ \A z \in Threads \ {t} : Same(z)
         /\ UNCHANGED <<index, slots, idx, blk, msg, count, alive, memVars, moved>>
         /\ \A z \in Threads : (Holds(z)' <=> Holds(z)) /\ (Writing(z)' <=> Writing(z))
         /\ \A r \in Receivers : Retiring(r)' <=> Retiring(r)
         /\ \A s \in Senders : SenderOK(s)'
         /\ Guarded(t)' => Guarded(t)
         /\ Offset(t)' = Offset(t) /\ (Passing(t) => Holds(t)) /\ (Passing(t) <=> Offset(t) < BlockCap)
         /\ Passing(t) <=> Offset(t) # BlockCap
         /\ pc'[t] = "advance" => InstallNext(t)
<1> USE ThreadAssumption DEF Threads, Goto
<1>1. /\ pc[t] \in {"install", "advance"} /\ Looking(t) /\ CallOK(t) /\ t \in alive
      /\ UNCHANGED <<index, slots, idx, blk, msg, count, alive, memVars, moved>>
      /\ \A z \in Threads \ {t} : Same(z)
  BY DEF InstallNext, AdvanceBlock, Looking, Answered, IInv, CallsOK, CallOK, TypeOK, Same
<1>2. Offset(t)' = Offset(t) /\ Offset(t) <= BlockCap /\ Offset(t) \in Int /\ BlockCap \in Nat
  BY <1>1, Numbers DEF Offset, Start, CallOK
<1>3. Offset(t) < BlockCap <=> Offset(t) # BlockCap
  BY <1>2
<1>4. \/ pc'[t] = "advance" /\ InstallNext(t)
      \/ AdvanceBlock(t) /\ pc'[t] = IF Offset(t) = BlockCap THEN "load_block"
                                    ELSE IF t \in Senders THEN "write" ELSE "retire"
  BY DEF InstallNext, AdvanceBlock, TypeOK
<1>5. /\ (Holds(t)' <=> Holds(t)) /\ (Writing(t)' <=> Writing(t)) /\ (Passing(t) <=> Offset(t) < BlockCap)
      /\ Holds(t) <=> Passing(t)
  BY <1>1, <1>2, <1>3, <1>4 DEF Holds, Writing, Passing
<1>6. t \in Receivers => (Retiring(t)' <=> Retiring(t))
  BY <1>1, <1>2, <1>3, <1>4, <1>5 DEF Retiring, Passing
<1>7. t \in Senders => SenderOK(t)'
  <2>1. t \in Senders => SenderOK(t)
    BY DEF IInv, ContentsOK
  <2>2. t \in Senders => (pc'[t] = "load_block" \/ (Looking(t)' /\ ~Holds(t)') => ~Holds(t))
    BY <1>1, <1>4, <1>5 DEF Holds, Looking
  <2>3. pc'[t] # "publish"
    BY <1>4
  <2> QED
    BY <2>1, <2>2, <2>3, <1>1, <1>5 DEF SenderOK
<1>8. \A s \in Senders : SenderOK(s)'
  BY <1>1, <1>7, SenderStays DEF IInv, ContentsOK
<1> QED
  BY <1>1, <1>2, <1>3, <1>4, <1>5, <1>6, <1>8, SameFacts DEF Guarded

LEMMA InstallSteps ==
  ASSUME TypeOK, TypeOK', IInv, NEW t \in Threads, InstallNext(t)
  PROVE  IInv'
<1> USE PassFacts, ThreadAssumption DEF Threads
<1> DEFINE bt == block["tail"]
<1>1. /\ UNCHANGED block /\ linked' = IF linked = blk[t] + 1 THEN linked + 1 ELSE linked
      /\ pc[t] = "install" /\ pc'[t] = "advance"
  BY DEF InstallNext, Goto, TypeOK
<1>2. /\ \A x \in Ends : index[x] \in Nat /\ block[x] \in Nat /\ Start(block[x]) \in Nat
      /\ EndOf(t) \in Ends /\ linked \in Nat /\ blk[t] \in Nat /\ Start(blk[t]) \in Nat
      /\ BlockCap \in Nat /\ BlockCap > 0
  BY Numbers, EndOfIs
<1>3. /\ Start(blk[t]) + BlockCap <= index[EndOf(t)] /\ blk[t] <= block[EndOf(t)]
      /\ index[EndOf(t)] <= index["tail"] /\ block[EndOf(t)] < linked
  <2>1. index["head"] <= index["tail"] /\ \A x \in Ends : block[x] < linked
    BY DEF IInv, EndsOK, Ends
  <2> QED
    BY <1>1, <1>2, <2>1, PastBlock DEF IInv, Ends
<1>4. /\ index["tail"] <= Start(bt) + BlockCap /\ bt < linked /\ linked <= bt + 2
      /\ linked = bt + 2 => index["tail"] = Start(bt) + BlockCap
  BY DEF IInv, EndsOK
<1>5. bt \in Nat /\ index["tail"] \in Nat /\ index[EndOf(t)] \in Nat /\ block[EndOf(t)] \in Nat /\ Start(bt) \in Nat
  BY <1>2 DEF Ends
<1>6. blk[t] + 2 <= linked' /\ linked <= linked'
  <2> HIDE DEF bt
  <2>1. CASE linked = blk[t] + 1
    BY <2>1, <1>1, <1>2
  <2>2. CASE linked # blk[t] + 1
    BY <2>2, <1>1, <1>2, <1>3, <1>5
  <2> QED
    BY <2>1, <2>2
<1>7. linked' <= bt + 2 /\ (linked' = bt + 2 => index["tail"] = Start(bt) + BlockCap)
  <2>1. CASE linked # blk[t] + 1
    BY <2>1, <1>1, <1>4
  <2>2. CASE linked = blk[t] + 1
    <3>1. bt <= blk[t] /\ blk[t] <= bt + 1
      BY <2>2, <1>2, <1>4, <1>5
    <3>2. blk[t] = bt
      <4> SUFFICES ASSUME bt < blk[t] PROVE FALSE
        BY <3>1, <1>2, <1>5
      <4>1. Start(bt) + BlockCap <= Start(blk[t])
        BY <1>2, <1>5, StartFacts
      <4> QED
        BY <4>1, <1>2, <1>3, <1>4, <1>5
    <3>3. index["tail"] = Start(bt) + BlockCap
      BY <3>2, <1>2, <1>3, <1>4, <1>5
    <3> QED
      BY <3>2, <3>3, <2>2, <1>1, <1>5
  <2> QED
    BY <2>1, <2>2
<1>8. /\ \A b : Start(b)' = Start(b)
      /\ \A z \in Threads : EndOf(z)' = EndOf(z) /\ (Passing(z) => Passing(z)')
  <2>1. Passing(t) => Passing(t)'
    BY <1>1 DEF Passing
  <2> QED
    BY <2>1, SameFacts DEF Start, EndOf
<1>9. EndsOK'
  <2>1. \A x \in Ends : /\ Start(block[x]) <= index[x] /\ index[x] <= Start(block[x]) + BlockCap
                        /\ block[x] < linked'
                        /\ index[x] = Start(block[x]) + BlockCap =>
                             \E z \in Threads : EndOf(z) = x /\ Passing(z) /\ blk[z] = block[x]
    <3>1. \A x \in Ends : block[x] < linked
      BY DEF IInv, EndsOK, Ends
    <3>2. linked' \in Nat
      BY <1>1, <1>2
    <3>3. \A x \in Ends : block[x] < linked'
      BY <3>1, <3>2, <1>2, <1>6
    <3> QED
      BY <3>3 DEF IInv, EndsOK, Ends
  <2>2. index["head"] <= index["tail"]
    BY DEF IInv, EndsOK
  <2> QED
    BY <2>1, <2>2, <1>1, <1>7, <1>8 DEF EndsOK, Ends
<1>10. CallsOK'
  <2>1. CallOK(t)'
    <3>1. Looking(t)' /\ Start(blk[t])' = Start(blk[t]) /\ EndOf(t)' = EndOf(t)
      BY <1>1, <1>8 DEF Looking, Answered
    <3> QED
      BY <3>1, <1>1, <1>6 DEF CallOK, memVars
  <2>2. \A x \in Ends : index[x] <= index'[x] /\ block[x] <= block'[x]
    BY <1>1, <1>2
  <2> QED
    BY <2>1, <2>2, <1>6, CallsStay DEF IInv, memVars
<1>11. OwnersOK'
  BY OwnersStay DEF IInv
<1>12. ContentsOK'
  BY ContentsStay DEF IInv
<1>13. GuardsOK'
  BY <1>1, GuardsStay, InsideBlock DEF IInv, memVars
<1>14. BooksOK'
  BY <1>1, BooksStay DEF IInv, memVars
<1> QED
  BY <1>9, <1>10, <1>11, <1>12, <1>13, <1>14 DEF IInv

LEMMA AdvanceSteps ==
  ASSUME TypeOK, TypeOK', IInv, NEW t \in Threads, AdvanceBlock(t)
  PROVE  IInv'
<1> USE PassFacts, ThreadAssumption DEF Threads
<1> DEFINE e == EndOf(t)
           b == blk[t]
<1>1. /\ linked' = linked /\ pc[t] = "advance" /\ e \in Ends
      /\ block' = [block EXCEPT ![e] = IF @ = b THEN b + 1 ELSE @]
      /\ pc'[t] = IF Offset(t) = BlockCap THEN "load_block" ELSE IF t \in Senders THEN "write" ELSE "retire"
  BY EndOfIs DEF AdvanceBlock, Goto, TypeOK
<1>2. /\ \A x \in Ends : index[x] \in Nat /\ block[x] \in Nat /\ Start(block[x]) \in Nat
      /\ linked \in Nat /\ b \in Nat /\ Start(b) \in Nat /\ BlockCap \in Nat /\ BlockCap > 0
      /\ index[e] \in Nat /\ block[e] \in Nat /\ Start(block[e]) \in Nat
  BY Numbers, EndOfIs
<1>3. /\ block'[e] = IF block[e] = b THEN b + 1 ELSE block[e]
      /\ \A x \in Ends \ {e} : block'[x] = block[x]
  BY <1>1 DEF TypeOK, Ends
<1>4. Start(b) + BlockCap <= index[e] /\ b <= block[e] /\ b + 2 <= linked
  BY <1>1, PastBlock DEF IInv, CallOK
<1>5. b < block'[e] /\ \A x \in Ends : block[x] <= block'[x] /\ block'[x] \in Nat
  BY <1>2, <1>3, <1>4
<1>6. /\ \A x : Start(x)' = Start(x)
      /\ \A z \in Threads : EndOf(z)' = EndOf(z)
      /\ \A z \in Threads \ {t} : (Passing(z)' <=> Passing(z))
  BY SameFacts DEF Start, EndOf
<1>7. EndsOK'
  <2>1. ASSUME NEW x \in Ends
        PROVE  /\ Start(block'[x]) <= index[x] /\ index[x] <= Start(block'[x]) + BlockCap
               /\ block'[x] < linked
               /\ index[x] = Start(block'[x]) + BlockCap =>
                    \E z \in Threads : EndOf(z) = x /\ Passing(z)' /\ blk[z] = block'[x]
    <3>1. /\ Start(block[x]) <= index[x] /\ index[x] <= Start(block[x]) + BlockCap /\ block[x] < linked
          /\ index[x] = Start(block[x]) + BlockCap =>
               \E z \in Threads : EndOf(z) = x /\ Passing(z) /\ blk[z] = block[x]
      BY DEF IInv, EndsOK, Ends
    <3>2. CASE x # e
      BY <3>1, <3>2, <1>3, <1>6
    <3>3. CASE x = e /\ block[e] # b
      BY <3>1, <3>3, <1>3, <1>6
    <3>4. CASE x = e /\ block[e] = b
      <4>1. Start(b + 1) = Start(b) + BlockCap /\ block'[x] = b + 1
        BY <1>2, <1>3, <3>4, StartFacts
      <4>2. index[e] = Start(b) + BlockCap
        BY <3>1, <3>4, <1>2, <1>4
      <4>3. Start(b + 1) <= index[e] /\ index[e] < Start(b + 1) + BlockCap /\ b + 1 < linked
        BY <4>1, <4>2, <1>2, <1>4
      <4> QED
        BY <4>1, <4>2, <4>3, <3>4, <1>2
    <3> QED
      BY <3>2, <3>3, <3>4
  <2>2. index["head"] <= index["tail"]
    BY DEF IInv, EndsOK
  <2>3. linked <= block'["tail"] + 2 /\ (linked = block'["tail"] + 2 => index["tail"] = Start(block'["tail"]) + BlockCap)
    <3>1. linked <= block["tail"] + 2 /\ (linked = block["tail"] + 2 => index["tail"] = Start(block["tail"]) + BlockCap)
      BY DEF IInv, EndsOK
    <3>2. CASE block'["tail"] = block["tail"]
      BY <3>1, <3>2
    <3>3. CASE block'["tail"] # block["tail"]
      <4>1. block["tail"] = b /\ block'["tail"] = b + 1
        BY <3>3, <1>3 DEF Ends
      <4> QED
        BY <4>1, <3>1, <1>2
    <3> QED
      BY <3>2, <3>3
  <2> QED
    BY <2>1, <2>2, <2>3, <1>1, <1>6 DEF EndsOK, Ends
<1>8. CallsOK'
  <2>1. CallOK(t)'
    <3>1. /\ Start(b)' = Start(b) /\ EndOf(t)' = e /\ b <= block'[e]
          /\ t \in Receivers => e = "head"
      <4>1. b <= block'[e]
        BY <1>1, <1>2, <1>5
      <4>2. t \in Receivers => e = "head"
        BY DEF EndOf
      <4> QED
        BY <4>1, <4>2, <1>6
    <3>2. CASE Offset(t) = BlockCap
      BY <3>2, <1>1 DEF CallOK, Looking, Answered, Holds
    <3>3. CASE Offset(t) # BlockCap
      <4>1. pc'[t] = IF t \in Senders THEN "write" ELSE "retire"
        BY <3>3, <1>1
      <4>2. Holds(t) /\ Offset(t) < BlockCap /\ Looking(t)'
        BY <3>3, <4>1 DEF Looking, Answered
      <4> QED
        BY <3>1, <4>1, <4>2, <1>5 DEF CallOK, memVars
    <3> QED
      BY <3>2, <3>3
  <2>2. \A x \in Ends : index[x] <= index'[x] /\ block[x] <= block'[x]
    BY <1>2, <1>5
  <2>3. linked <= linked'
    BY <1>1, <1>2
  <2> QED
    BY <2>1, <2>2, <2>3, CallsStay DEF IInv, memVars
<1>9. OwnersOK'
  BY OwnersStay DEF IInv
<1>10. ContentsOK'
  BY ContentsStay DEF IInv
<1>11. GuardsOK'
  <2>1. block["head"] <= block'["head"]
    BY <1>5 DEF Ends
  <2> QED
    BY <2>1, GuardsStay, InsideBlock DEF IInv, memVars
<1>12. BooksOK'
  <2>1. CASE block'["head"] = block["head"]
    BY <2>1, BooksStay DEF IInv, memVars
  <2>2. CASE block'["head"] # block["head"]
    <3>1. e = "head" /\ block["head"] = b /\ block'["head"] = b + 1
      BY <2>2, <1>1, <1>3 DEF Ends
    <3>2. index["head"] = Start(b) + BlockCap
      <4>1. index["head"] <= Start(block["head"]) + BlockCap
        BY DEF IInv, EndsOK
      <4> QED
        BY <4>1, <3>1, <1>2, <1>4
    <3>3. PICK z \in Threads : EndOf(z) = "head" /\ Passing(z) /\ blk[z] = b
      BY <3>1, <3>2 DEF IInv, EndsOK
    <3>4. z \in Receivers /\ Retiring(z)
      BY <3>3 DEF EndOf, Retiring
    <3>5. \A x \in freed : x < b
      BY <3>1 DEF IInv, GuardsOK
    <3>6. ASSUME NEW x \in Blocks PROVE Disposed(x)' <=> Disposed(x)
      <4>0. x \in Nat /\ (x \in freed => x < b) /\ freed' = freed
        BY <3>5, MaxIndexNat DEF Blocks, memVars
      <4>1. CASE x = b
        BY <4>0, <4>1, <3>1, <3>3, <3>4, <1>2 DEF Disposed
      <4>2. CASE x # b
        <5>1. (x < b + 1 <=> x < b) /\ ~(x = b + 1 /\ x \in freed)
          BY <4>0, <4>2, <1>2
        <5> QED
          BY <5>1, <4>0, <4>2, <3>1 DEF Disposed
      <4> QED
        BY <4>1, <4>2
    <3>7. \A i : MovedOut(i)' <=> MovedOut(i)
      BY DEF MovedOut
    <3> QED
      BY <3>6, <3>7 DEF IInv, BooksOK, memVars
  <2> QED
    BY <2>1, <2>2
<1> QED
  BY <1>7, <1>8, <1>9, <1>10, <1>11, <1>12 DEF IInv
-------------------------------------------------------------------------------
(* Writing, reading and giving up. *)

LEMMA WriteSteps ==
  ASSUME TypeOK, TypeOK', IInv, NEW t \in Threads
  PROVE  /\ WriteMsg(t) => IInv'
         /\ Publish(t) => IInv'
<1> USE ThreadAssumption DEF Threads, Goto
<1> SUFFICES ASSUME WriteMsg(t) \/ Publish(t) PROVE IInv'
  OBVIOUS
<1>1. /\ pc[t] \in {"write", "publish"} /\ Looking(t) /\ Holds(t) /\ CallOK(t) /\ t \in alive
      /\ UNCHANGED <<index, block, linked, idx, blk, msg, count, alive, moved, disposed, freed>>
      /\ \A z \in Threads \ {t} : Same(z)
      /\ pinned' = pinned \/ pc'[t] = "ok"
      /\ \/ WriteMsg(t) /\ pc[t] = "write" /\ pc'[t] = "publish"
         \/ Publish(t) /\ pc[t] = "publish" /\ pc'[t] = "ok"
  <2>1. CallOK(t)
    BY DEF IInv, CallsOK
  <2>2. \/ WriteMsg(t) /\ pc[t] = "write" /\ pc'[t] = "publish"
        \/ Publish(t) /\ pc[t] = "publish" /\ pc'[t] = "ok"
    BY DEF WriteMsg, Publish, TypeOK
  <2>3. Looking(t) /\ Holds(t) /\ t \in alive
    BY <2>1, <2>2 DEF Looking, Answered, Holds, CallOK
  <2>4. \A z \in Threads \ {t} : Same(z)
    BY DEF WriteMsg, Publish, TypeOK, Same
  <2> QED
    BY <2>1, <2>2, <2>3, <2>4 DEF WriteMsg, Publish, Unpin, memVars
<1>2. t \in Senders /\ t \notin Receivers
  BY <1>1 DEF CallOK
<1>3. /\ ~Passing(t) /\ ~Passing(t)' /\ ~Retiring(t) /\ ~Retiring(t)' /\ ~Writing(t)'
      /\ Holds(t)' => pc'[t] = "publish"
      /\ Looking(t)' => pc'[t] = "publish"
      /\ Writing(t) <=> pc[t] = "write"
  BY <1>1 DEF Passing, Retiring, Writing, Holds, Looking, Answered
<1>4. \A z \in Threads \ {t} : /\ (Holds(z)' <=> Holds(z)) /\ (Passing(z)' <=> Passing(z))
                              /\ (Retiring(z)' <=> Retiring(z)) /\ (Writing(z)' <=> Writing(z))
  BY <1>1, SameFacts
<1>5. EndsOK'
  BY <1>1, <1>3, <1>4, EndsStay DEF IInv
<1>6. CallsOK'
  <2>1. CallOK(t)'
    <3>1. Offset(t)' = Offset(t) /\ Start(blk[t])' = Start(blk[t]) /\ EndOf(t)' = EndOf(t)
      BY <1>1 DEF Offset, Start, EndOf
    <3> QED
      BY <3>1, <1>1, <1>2, <1>3 DEF CallOK
  <2>2. \A x \in Ends : index[x] <= index'[x] /\ block[x] <= block'[x]
    BY <1>1, Numbers
  <2>3. linked <= linked'
    BY <1>1, Numbers
  <2>4. \A z \in pinned : z = t \/ z \in pinned'
    BY DEF WriteMsg, Publish, Unpin, memVars
  <2> QED
    BY <2>1, <2>2, <2>3, <2>4, <1>1, CallsStay DEF IInv
<1>7. OwnersOK'
  BY <1>1, <1>4, OwnersStay DEF IInv
<1>8. GuardsOK'
  <2>1. /\ DOMAIN retired' = DOMAIN retired
        /\ \A b \in DOMAIN retired : \A z \in retired[b] : z = t \/ z \in retired'[b]
        /\ pc'[t] = "publish" => retired' = retired
    BY <1>1 DEF WriteMsg, Publish, Unpin, memVars
  <2>2. Guarded(t)' => pc'[t] = "publish" /\ Guarded(t)
    BY <1>1, <1>3 DEF Guarded
  <2> QED
    BY <2>1, <2>2, <1>1, GuardsStay, InsideBlock DEF IInv
<1>9. BooksOK'
  BY <1>1, <1>2, <1>4, BooksStay DEF IInv
<1>10. ContentsOK'
  <2> DEFINE i == idx[t]
  <2>1. /\ i \in 0 .. MaxIndex /\ SlotOK(i) /\ SenderOK(t) /\ i < index["tail"]
        /\ count[t] \in Nat /\ count[t] > 0 /\ msg[t] = <<t, count[t]>> /\ msg[t] # NoMsg
    <3>1. i \in 0 .. MaxIndex /\ count[t] \in 0 .. MaxSends
      BY <1>2 DEF TypeOK
    <3>2. SlotOK(i) /\ SenderOK(t)
      BY <1>2, <3>1 DEF IInv, ContentsOK
    <3>3. i < index["tail"]
      BY <1>1, <1>2 DEF CallOK, EndOf
    <3>4. count[t] > 0 /\ msg[t] = <<t, count[t]>>
      BY <3>2, <1>1 DEF SenderOK
    <3>5. count[t] \in 1 .. MaxSends /\ count[t] \in Nat
      BY <3>1, <3>4, BoundAssumption
    <3>6. msg[t] # NoMsg
      BY <3>4, <3>5, <1>2, BoundAssumption
    <3> QED
      BY <3>1, <3>2, <3>3, <3>4, <3>5, <3>6
  <2>2. \A s \in Senders \ {t} : Holds(s) => idx[s] # i
    BY <1>1, <1>2 DEF IInv, OwnersOK, EndOf
  <2>3. \A j \in 0 .. MaxIndex : j # i => slots'[j] = slots[j]
    BY DEF WriteMsg, Publish, TypeOK
  <2>4. slots'[i].msg = msg[t] /\ (slots'[i].ready <=> pc'[t] = "ok")
    <3>1. CASE WriteMsg(t) /\ pc[t] = "write" /\ pc'[t] = "publish"
      <4>1. slots'[i].msg = msg[t] /\ slots'[i].ready = slots[i].ready
        BY <3>1, <2>1 DEF WriteMsg, TypeOK
      <4> QED
        BY <4>1, <3>1, <2>1, <1>1 DEF SenderOK
    <3>2. CASE Publish(t) /\ pc[t] = "publish" /\ pc'[t] = "ok"
      <4>1. slots'[i].msg = slots[i].msg /\ slots'[i].ready = TRUE
        BY <3>2, <2>1 DEF Publish, TypeOK
      <4> QED
        BY <4>1, <3>2, <2>1 DEF SenderOK
    <3> QED
      BY <1>1, <3>1, <3>2
  <2>5. \A j \in 0 .. MaxIndex : j # i => slots[j].msg # msg[t]
    <3>1. CASE pc[t] = "write"
      BY <3>1, <2>1, <1>3 DEF SenderOK
    <3>2. CASE pc[t] = "publish"
      BY <3>2, <2>1 DEF SenderOK, IInv, ContentsOK
    <3> QED
      BY <1>1, <3>1, <3>2
  <2>6. SenderOK(t)'
    <3>1. /\ ~(pc'[t] = "load_block" \/ (Looking(t)' /\ ~Holds(t)'))
          /\ Holds(t)' => pc'[t] = "publish" /\ pc'[t] # "ok"
      BY <1>1, <1>3 DEF Holds
    <3> QED
      BY <3>1, <2>1, <2>4, <1>1, <1>3 DEF SenderOK
  <2>7. ASSUME NEW s \in Senders \ {t} PROVE SenderOK(s)'
    <3>1. SenderOK(s) /\ idx[s] \in 0 .. MaxIndex /\ Same(s) /\ count' = count
      BY <1>1 DEF IInv, ContentsOK, TypeOK
    <3>2. (Holds(s)' <=> Holds(s)) /\ (Looking(s)' <=> Looking(s)) /\ (Writing(s)' <=> Writing(s))
      BY <3>1, SameFacts
    <3>3. Holds(s) => slots'[idx[s]] = slots[idx[s]]
      BY <2>2, <2>3, <3>1
    <3>4. Writing(s) => \A j \in 0 .. MaxIndex : slots'[j].msg # msg[s]
      <4> SUFFICES ASSUME Writing(s), NEW j \in 0 .. MaxIndex PROVE slots'[j].msg # msg[s]
        OBVIOUS
      <4>1. CASE j # i
        BY <4>1, <3>1, <2>3 DEF SenderOK
      <4>2. CASE j = i
        BY <4>2, <3>1, <2>1, <2>4 DEF SenderOK, Writing
      <4> QED
        BY <4>1, <4>2
    <3>5. (Writing(s) => Holds(s)) /\ (pc[s] = "publish" => Holds(s))
      BY DEF Writing, Holds
    <3> QED
      BY <3>1, <3>2, <3>3, <3>4, <3>5 DEF SenderOK, Same
  <2>8. ASSUME NEW j \in 0 .. MaxIndex PROVE SlotOK(j)'
    <3>1. SlotOK(j)
      BY DEF IInv, ContentsOK
    <3>2. CASE j = i
      <4>1. msg[t][1] = t /\ msg[t][2] = count[t] /\ count[t] <= count[t]
        BY <2>1
      <4> QED
        BY <4>1, <3>2, <2>1, <2>4, <1>1 DEF SlotOK
    <3>3. CASE j # i
      BY <3>1, <3>3, <2>3, <1>1, <1>4 DEF SlotOK
    <3> QED
      BY <3>2, <3>3
  <2>9. ASSUME NEW j \in 0 .. MaxIndex, NEW k \in 0 .. MaxIndex,
               slots'[j].msg # NoMsg, slots'[j].msg = slots'[k].msg
        PROVE  j = k
    <3>1. CASE j # i /\ k # i
      BY <3>1, <2>3, <2>9 DEF IInv, ContentsOK
    <3>2. CASE j = i /\ k # i
      BY <3>2, <2>3, <2>4, <2>5, <2>9
    <3>3. CASE j # i /\ k = i
      BY <3>3, <2>3, <2>4, <2>5, <2>9
    <3> QED
      BY <3>1, <3>2, <3>3
  <2> QED
    BY <2>6, <2>7, <2>8, <2>9 DEF ContentsOK
<1> QED
  BY <1>5, <1>6, <1>7, <1>8, <1>9, <1>10 DEF IInv

\* Two receivers never have the same block to retire: its last slot is one's.
LEMMA RetiringOne ==
  ASSUME TypeOK, IInv, NEW r \in Receivers, NEW q \in Receivers,
         Retiring(r), Retiring(q), blk[r] = blk[q]
  PROVE  r = q
<1> USE ThreadAssumption DEF Threads
<1>1. ASSUME NEW z \in Receivers, Retiring(z)
      PROVE  Holds(z) /\ idx[z] = Start(blk[z]) + BlockCap - 1 /\ EndOf(z) = "head"
  <2>1. CallOK(z) /\ pc[z] \in {"install", "advance", "retire"} /\ Holds(z)
    BY <1>1 DEF IInv, CallsOK, Retiring, Passing, Holds
  <2>2. Offset(z) >= BlockCap - 1 /\ Offset(z) < BlockCap
    BY <2>1, <1>1 DEF CallOK, Retiring, Passing, Looking, Answered
  <2>3. idx[z] \in Nat /\ Start(blk[z]) \in Nat /\ Offset(z) = idx[z] - Start(blk[z]) /\ BlockCap \in Nat
    BY Numbers
  <2>4. idx[z] = Start(blk[z]) + BlockCap - 1
    BY <2>2, <2>3
  <2> QED
    BY <2>1, <2>4 DEF EndOf
<1>2. /\ Holds(r) /\ Holds(q) /\ EndOf(r) = EndOf(q)
      /\ idx[r] = Start(blk[r]) + BlockCap - 1 /\ idx[q] = Start(blk[q]) + BlockCap - 1
  BY <1>1
<1> QED
  BY <1>2 DEF IInv, OwnersOK

LEMMA RetireSteps ==
  ASSUME TypeOK, TypeOK', IInv, NEW t \in Threads, Retire(t)
  PROVE  IInv'
<1> USE ThreadAssumption DEF Threads, Goto
<1>1. /\ pc[t] = "retire" /\ pc'[t] = "wait_ready" /\ Looking(t) /\ Looking(t)' /\ Holds(t) /\ Holds(t)'
      /\ CallOK(t) /\ t \in Receivers /\ t \notin Senders /\ Retiring(t) /\ ~Retiring(t)'
      /\ ~Passing(t) /\ Offset(t)' = Offset(t)
      /\ \A z \in Threads \ {t} : Same(z)
  <2>1. pc[t] = "retire" /\ pc'[t] = "wait_ready" /\ CallOK(t)
    BY DEF Retire, TypeOK, IInv, CallsOK
  <2>2. \A z \in Threads \ {t} : Same(z)
    BY DEF Retire, TypeOK, Same
  <2>3. Offset(t)' = Offset(t)
    BY DEF Retire, Offset, Start
  <2> QED
    BY <2>1, <2>2, <2>3 DEF Looking, Holds, CallOK, Retiring, Passing, Answered
<1>2. UNCHANGED <<index, block, linked, slots, alive, idx, blk, msg, count, moved, pinned, freed>>
  BY DEF Retire, RetireBlock, listVars
<1>3. \A z \in Threads \ {t} : /\ (Holds(z)' <=> Holds(z)) /\ (Passing(z)' <=> Passing(z))
                              /\ (Retiring(z)' <=> Retiring(z)) /\ (Writing(z)' <=> Writing(z))
                              /\ (Looking(z)' <=> Looking(z))
  BY <1>1, SameFacts
<1>4. EndsOK'
  BY <1>1, <1>2, <1>3, EndsStay DEF IInv
<1>5. CallsOK'
  <2>1. CallOK(t)'
    <3>1. Start(blk[t])' = Start(blk[t]) /\ EndOf(t)' = EndOf(t)
      BY <1>2 DEF Start, EndOf
    <3> QED
      BY <3>1, <1>1, <1>2 DEF CallOK
  <2>2. \A x \in Ends : index[x] <= index'[x] /\ block[x] <= block'[x]
    BY <1>2, Numbers
  <2>3. linked <= linked'
    BY <1>2, Numbers
  <2> QED
    BY <2>1, <2>2, <2>3, <1>1, <1>2, CallsStay DEF IInv
<1>6. OwnersOK'
  BY <1>1, <1>2, <1>3, OwnersStay DEF IInv
<1>7. ContentsOK'
  <2>1. \A s \in Senders : SenderOK(s)'
    BY <1>1, <1>2, SenderStays DEF IInv, ContentsOK
  <2> QED
    BY <2>1, <1>1, <1>2, <1>3, ContentsStay DEF IInv
<1>8. GuardsOK'
  <2>1. /\ DOMAIN retired' = DOMAIN retired \cup {blk[t]}
        /\ \A b \in DOMAIN retired' : retired'[b] = IF b = blk[t] THEN pinned ELSE retired[b]
    BY DEF Retire, RetireBlock
  <2>2. \A b \in DOMAIN retired' : b < block["head"]
    BY <2>1, <1>1 DEF CallOK, IInv, GuardsOK
  <2>3. \A z \in Threads : (Guarded(z)' <=> Guarded(z)) /\ (Guarded(z) => Looking(z))
    BY <1>1, <1>3 DEF Guarded, Holds, Looking, Answered
  <2>4. ASSUME NEW z \in Threads, Guarded(z)'
        PROVE  blk[z] \notin freed /\ (blk[z] \in DOMAIN retired' => z \in retired'[blk[z]])
    <3>1. /\ blk[z] \notin freed /\ (blk[z] \in DOMAIN retired => z \in retired[blk[z]])
          /\ z \in pinned
      BY <2>3, <2>4, InsideBlock
    <3> QED
      BY <3>1, <2>1
  <2>5. (\A b \in freed : b < block["head"] \/ (alive = {} /\ b = block["head"] /\ index["head"] = index["tail"]))'
    BY <1>2 DEF IInv, GuardsOK
  <2> QED
    BY <2>2, <2>4, <2>5, <1>2 DEF GuardsOK, Guarded
<1>9. BooksOK'
  <2>1. \A i : MovedOut(i)' <=> MovedOut(i)
    BY <1>1, <1>2, <1>3 DEF MovedOut
  <2>2. disposed' = [disposed EXCEPT ![blk[t]] = @ + 1] /\ blk[t] \in Blocks /\ blk[t] < block["head"]
    BY <1>1 DEF Retire, RetireBlock, TypeOK, CallOK
  <2>3. ASSUME NEW b \in Blocks, b # blk[t] PROVE Disposed(b)' <=> Disposed(b)
    BY <2>3, <1>1, <1>2, <1>3 DEF Disposed
  <2>4. ~Disposed(blk[t]) /\ Disposed(blk[t])'
    <3>1. blk[t] # block["head"]
      BY <2>2, Numbers DEF Ends
    <3>2. \A q \in Receivers : Retiring(q) /\ blk[q] = blk[t] => q = t
      BY <1>1, RetiringOne
    <3> QED
      BY <3>1, <3>2, <2>2, <1>1, <1>2, <1>3 DEF Disposed
  <2>5. \A b \in Blocks : disposed'[b] = IF Disposed(b)' THEN 1 ELSE 0
    <3>1. /\ \A b \in Blocks : disposed[b] = IF Disposed(b) THEN 1 ELSE 0
          /\ DOMAIN disposed = Blocks
      BY DEF IInv, BooksOK, TypeOK
    <3>2. disposed[blk[t]] = 0 /\ disposed'[blk[t]] = 1
      BY <3>1, <2>2, <2>4
    <3>3. \A b \in Blocks : b # blk[t] => disposed'[b] = disposed[b]
      BY <3>1, <2>2
    <3> QED
      BY <3>1, <3>2, <3>3, <2>3, <2>4, <1>2
  <2>6. \A i \in 0 .. MaxIndex : moved'[i] = IF MovedOut(i)' THEN 1 ELSE 0
    BY <2>1, <1>2 DEF IInv, BooksOK
  <2> QED
    BY <2>5, <2>6 DEF BooksOK
<1> QED
  BY <1>4, <1>5, <1>6, <1>7, <1>8, <1>9 DEF IInv

LEMMA ReadSteps ==
  ASSUME TypeOK, TypeOK', IInv, NEW t \in Threads, ReadMsg(t)
  PROVE  IInv'
<1> USE ThreadAssumption DEF Threads, Goto
<1>1. /\ pc[t] = "read" /\ pc'[t] = "ok" /\ ~Looking(t)' /\ Holds(t) /\ ~Holds(t)' /\ t \in alive
      /\ CallOK(t) /\ t \in Receivers /\ t \notin Senders /\ ~Retiring(t) /\ ~Retiring(t)'
      /\ ~Passing(t) /\ \A z \in Threads \ {t} : Same(z)
  <2>1. pc[t] = "read" /\ pc'[t] = "ok" /\ CallOK(t)
    BY DEF ReadMsg, TypeOK, IInv, CallsOK
  <2>2. \A z \in Threads \ {t} : Same(z)
    BY DEF ReadMsg, TypeOK, Same
  <2> QED
    BY <2>1, <2>2 DEF Looking, Holds, CallOK, Retiring, Passing, Answered
<1>2. UNCHANGED <<index, block, linked, slots, alive, idx, blk, count, disposed, freed>>
  BY DEF ReadMsg, Unpin, listVars
<1>3. \A z \in Threads \ {t} : /\ (Holds(z)' <=> Holds(z)) /\ (Passing(z)' <=> Passing(z))
                              /\ (Retiring(z)' <=> Retiring(z)) /\ (Writing(z)' <=> Writing(z))
  BY <1>1, SameFacts
<1>4. EndsOK'
  BY <1>1, <1>2, <1>3, EndsStay DEF IInv
<1>5. CallsOK'
  <2>1. CallOK(t)'
    BY <1>1, <1>2 DEF CallOK
  <2>2. \A x \in Ends : index[x] <= index'[x] /\ block[x] <= block'[x]
    BY <1>2, Numbers
  <2>3. linked <= linked'
    BY <1>2, Numbers
  <2>4. \A z \in pinned : z = t \/ z \in pinned'
    BY DEF ReadMsg, Unpin
  <2> QED
    BY <2>1, <2>2, <2>3, <2>4, <1>1, <1>2, CallsStay DEF IInv
<1>6. OwnersOK'
  BY <1>1, <1>2, <1>3, OwnersStay DEF IInv
<1>7. ContentsOK'
  <2>1. \A s \in Senders : SenderOK(s)'
    BY <1>1, <1>2, SenderStays DEF IInv, ContentsOK
  <2> QED
    BY <2>1, <1>1, <1>2, <1>3, ContentsStay DEF IInv
<1>8. GuardsOK'
  <2>1. /\ DOMAIN retired' = DOMAIN retired
        /\ \A b \in DOMAIN retired : \A z \in retired[b] : z = t \/ z \in retired'[b]
    BY DEF ReadMsg, Unpin
  <2>2. ~Guarded(t)'
    BY <1>1 DEF Guarded
  <2> QED
    BY <2>1, <2>2, <1>1, <1>2, GuardsStay DEF IInv
<1>9. BooksOK'
  <2>1. \A b : Disposed(b)' <=> Disposed(b)
    BY <1>1, <1>2, <1>3 DEF Disposed
  <2>2. moved' = [moved EXCEPT ![idx[t]] = @ + 1] /\ idx[t] \in 0 .. MaxIndex /\ idx[t] < index["head"]
    BY <1>1 DEF ReadMsg, TypeOK, CallOK, EndOf
  <2>3. ASSUME NEW i \in 0 .. MaxIndex, i # idx[t] PROVE MovedOut(i)' <=> MovedOut(i)
    BY <2>3, <1>1, <1>2, <1>3 DEF MovedOut
  <2>4. ~MovedOut(idx[t]) /\ MovedOut(idx[t])'
    <3>1. \A q \in Receivers : Holds(q) /\ idx[q] = idx[t] => q = t
      BY <1>1 DEF IInv, OwnersOK, EndOf
    <3> QED
      BY <3>1, <2>2, <1>1, <1>2, <1>3 DEF MovedOut
  <2>5. \A i \in 0 .. MaxIndex : moved'[i] = IF MovedOut(i)' THEN 1 ELSE 0
    <3>1. /\ \A i \in 0 .. MaxIndex : moved[i] = IF MovedOut(i) THEN 1 ELSE 0
          /\ DOMAIN moved = 0 .. MaxIndex
      BY DEF IInv, BooksOK, TypeOK
    <3>2. moved[idx[t]] = 0 /\ moved'[idx[t]] = 1
      BY <3>1, <2>2, <2>4
    <3>3. \A i \in 0 .. MaxIndex : i # idx[t] => moved'[i] = moved[i]
      BY <3>1, <2>2
    <3> QED
      BY <3>1, <3>2, <3>3, <2>3, <2>4, <1>2
  <2>6. \A b \in Blocks : disposed'[b] = IF Disposed(b)' THEN 1 ELSE 0
    BY <2>1, <1>2 DEF IInv, BooksOK
  <2> QED
    BY <2>5, <2>6 DEF BooksOK
<1> QED
  BY <1>4, <1>5, <1>6, <1>7, <1>8, <1>9 DEF IInv
-------------------------------------------------------------------------------
(* Dropping handles, collecting blocks, dropping the channel. *)

LEMMA HandleSteps ==
  ASSUME TypeOK, TypeOK', IInv
  PROVE  /\ \A t \in Threads : DropHandle(t) => IInv'
         /\ \A b \in DOMAIN retired : Collect(b) => IInv'
<1> USE ThreadAssumption DEF Threads
<1> SUFFICES ASSUME NEW b, (\E t \in Threads : DropHandle(t)) \/ (b \in DOMAIN retired /\ Collect(b))
             PROVE  IInv'
  OBVIOUS
<1>1. /\ UNCHANGED <<index, block, linked, slots, pc, idx, blk, msg, count, moved, pinned, disposed>>
      /\ \A z \in Threads : Same(z)
      /\ \A z \in alive : z \in alive' \/ pc[z] = "idle"
  BY DEF DropHandle, Collect, listVars, memVars, Same
<1>2. \A z \in Threads : /\ (Holds(z)' <=> Holds(z)) /\ (Passing(z)' <=> Passing(z))
                         /\ (Retiring(z)' <=> Retiring(z)) /\ (Writing(z)' <=> Writing(z))
                         /\ (Guarded(z)' <=> Guarded(z))
  BY <1>1, SameFacts
<1>3. EndsOK'
  BY <1>1, <1>2, EndsStay DEF IInv
<1>4. CallsOK'
  <2>1. \A x \in Ends : index[x] <= index'[x] /\ block[x] <= block'[x]
    BY <1>1, Numbers
  <2>2. linked <= linked'
    BY <1>1, Numbers
  <2>3. \A z \in Threads : CallOK(z)'
    BY <2>1, <2>2, <1>1, CallStays DEF IInv, CallsOK
  <2> QED
    BY <2>3 DEF CallsOK
<1>5. OwnersOK'
  BY <1>1, <1>2, OwnersStay DEF IInv
<1>6. ContentsOK'
  <2>1. \A s \in Senders : SenderOK(s)'
    BY <1>1, SenderStays DEF IInv, ContentsOK
  <2> QED
    BY <2>1, <1>1, <1>2, ContentsStay DEF IInv
<1>7. GuardsOK' /\ (block["head"] \in freed' <=> block["head"] \in freed)
  <2>1. CASE \E t \in Threads : DropHandle(t)
    <3>1. freed' = freed /\ retired' = retired /\ alive # {} /\ UNCHANGED <<block, blk>>
      BY <2>1, <1>1 DEF DropHandle, memVars
    <3>2. (\A x \in DOMAIN retired : x < block["head"]) /\ (\A x \in freed : x < block["head"])
      BY <3>1 DEF IInv, GuardsOK
    <3>3. \A z \in Threads : Guarded(z) =>
            blk[z] \notin freed /\ (blk[z] \in DOMAIN retired => z \in retired[blk[z]])
      BY InsideBlock
    <3>4. \A z \in Threads : Guarded(z)' =>
            (blk[z] \notin freed /\ (blk[z] \in DOMAIN retired => z \in retired[blk[z]]))'
      BY <3>1, <3>3, <1>2
    <3>5. (\A x \in DOMAIN retired : x < block["head"])' /\ (\A x \in freed : x < block["head"])'
      BY <3>1, <3>2
    <3> QED
      BY <3>1, <3>4, <3>5 DEF GuardsOK, Guarded
  <2>2. CASE b \in DOMAIN retired /\ Collect(b)
    <3>1. /\ freed' = freed \cup {b} /\ alive' = alive /\ retired[b] = {} /\ UNCHANGED <<index, block, blk>>
          /\ DOMAIN retired' = DOMAIN retired \ {b}
          /\ \A x \in DOMAIN retired' : retired'[x] = retired[x]
      BY <2>2, <1>1 DEF Collect
    <3>2. /\ \A x \in DOMAIN retired : x < block["head"]
          /\ \A x \in freed : x < block["head"] \/ (alive = {} /\ x = block["head"] /\ index["head"] = index["tail"])
      BY DEF IInv, GuardsOK
    <3>3. \A z \in Threads : Guarded(z) =>
            blk[z] \notin freed /\ (blk[z] \in DOMAIN retired => z \in retired[blk[z]])
      BY InsideBlock
    <3>4. \A z \in Threads : Guarded(z) => blk[z] # b
      BY <3>1, <3>3, <2>2
    <3>5. \A z \in Threads : Guarded(z)' =>
            (blk[z] \notin freed /\ (blk[z] \in DOMAIN retired => z \in retired[blk[z]]))'
      BY <3>1, <3>3, <3>4, <1>2
    <3>6. (\A x \in DOMAIN retired : x < block["head"])'
      BY <3>1, <3>2
    <3>7. (\A x \in freed : x < block["head"] \/ (alive = {} /\ x = block["head"] /\ index["head"] = index["tail"]))'
      BY <3>1, <3>2, <2>2
    <3>8. b # block["head"]
      BY <3>2, <2>2, Numbers DEF Ends
    <3> QED
      BY <3>1, <3>5, <3>6, <3>7, <3>8 DEF GuardsOK, Guarded
  <2> QED
    BY <2>1, <2>2
<1>8. BooksOK'
  <2>1. \A i : MovedOut(i)' <=> MovedOut(i)
    BY <1>1, <1>2 DEF MovedOut
  <2>2. \A x : Disposed(x)' <=> Disposed(x)
    BY <1>1, <1>2, <1>7 DEF Disposed
  <2> QED
    BY <2>1, <2>2, <1>1 DEF IInv, BooksOK
<1> QED
  BY <1>3, <1>4, <1>5, <1>6, <1>7, <1>8 DEF IInv

\* Nobody is in a call when the channel is dropped, so all there is to say is
\* where the head stands and what has been given up.
LEMMA DropSteps ==
  ASSUME TypeOK, TypeOK', IInv, DropMessage \/ DropLastBlock
  PROVE  IInv'
<1> USE ThreadAssumption DEF Threads
<1>h. PICK h : h = index["head"]
  OBVIOUS
<1>b. PICK b : b = block["head"]
  OBVIOUS
<1> USE <1>h, <1>b
<1> DEFINE moves == h - Start(b) + 1 = BlockCap
<1>1. /\ alive = {} /\ UNCHANGED <<alive, linked, slots, pc, idx, blk, msg, count, pinned, retired>>
      /\ index'["tail"] = index["tail"] /\ block'["tail"] = block["tail"]
  BY DEF DropMessage, DropLastBlock, listVars, memVars, Destroy, TypeOK
<1>2. \A z \in Threads : Same(z)
  BY <1>1 DEF Same
<1>3. /\ \A z \in Threads : /\ ~Holds(z) /\ ~Passing(z) /\ ~Looking(z) /\ ~Retiring(z) /\ ~Writing(z)
                            /\ ~Guarded(z) /\ pc[z] = "idle"
      /\ \A e \in Ends : index[e] < Start(block[e]) + BlockCap
      /\ linked = block["tail"] + 1
  BY <1>1, Quiescent DEF Guarded
<1>4. \A z \in Threads : /\ ~Holds(z)' /\ ~Passing(z)' /\ ~Looking(z)' /\ ~Retiring(z)' /\ ~Writing(z)'
                         /\ ~Guarded(z)'
  BY <1>2, <1>3, SameFacts
<1>5. CallsOK'
  <2>1. \A z \in Threads : CallOK(z)'
    BY <1>1, <1>3, <1>4 DEF CallOK
  <2> QED
    BY <2>1 DEF CallsOK
<1>6. OwnersOK'
  BY <1>4 DEF OwnersOK
<1>7. ContentsOK'
  <2>1. \A s \in Senders : SenderOK(s)'
    BY <1>1, <1>2, SenderStays DEF IInv, ContentsOK
  <2> QED
    BY <2>1, <1>1, <1>3, ContentsStay DEF IInv
<1>8. /\ h \in Nat /\ b \in Nat /\ Start(b) \in Nat /\ BlockCap \in Nat /\ BlockCap > 0
      /\ block["tail"] \in Nat /\ index["tail"] \in Nat /\ Start(block["tail"]) \in Nat
      /\ Start(b + 1) = Start(b) + BlockCap /\ Start(b) <= h /\ h < Start(b) + BlockCap /\ h <= index["tail"]
      /\ index["tail"] < Start(block["tail"]) + BlockCap /\ linked \in Nat /\ h \in 0 .. MaxIndex /\ b \in Blocks
  <2>1. Start(b) <= h /\ h <= index["tail"]
    BY DEF IInv, EndsOK
  <2>2. h \in Nat /\ b \in Nat /\ Start(b) \in Nat
    BY Numbers DEF Ends
  <2>3. Start(b + 1) = Start(b) + BlockCap
    BY <2>2, StartFacts
  <2>4. h \in 0 .. MaxIndex /\ b \in Blocks
    BY DEF TypeOK
  <2> QED
    BY <2>1, <2>2, <2>3, <2>4, <1>3, Numbers DEF Ends
<1>9. /\ \A x \in DOMAIN retired : x < b
      /\ \A x \in freed : x < b \/ (x = b /\ h = index["tail"])
      /\ DOMAIN retired \subseteq Nat /\ freed \subseteq Nat
  <2>1. Blocks \subseteq Nat
    BY MaxIndexNat DEF Blocks
  <2>2. DOMAIN retired \subseteq Blocks /\ freed \subseteq Blocks
    BY DEF TypeOK
  <2> QED
    BY <2>1, <2>2 DEF IInv, GuardsOK
<1>10. \A i \in 0 .. MaxIndex : MovedOut(i) <=> i < h
  BY <1>3 DEF MovedOut
<1>11. \A x \in Blocks : Disposed(x) <=> x < b \/ (x = b /\ x \in freed)
  BY <1>3 DEF Disposed
<1>12. \A i \in 0 .. MaxIndex : MovedOut(i)' <=> i < index'["head"]
  BY <1>4 DEF MovedOut
<1>13. \A x \in Blocks : Disposed(x)' <=> x < block'["head"] \/ (x = block'["head"] /\ x \in freed')
  BY <1>4 DEF Disposed
<1>14. \A x : Start(x)' = Start(x)
  BY DEF Start
<1>15. Blocks \subseteq Nat /\ 0 .. MaxIndex \subseteq Nat
  BY MaxIndexNat DEF Blocks
<1>16. CASE DropLastBlock
  <2>1. /\ UNCHANGED <<index, block, moved>> /\ b \notin freed /\ freed' = freed \cup {b}
        /\ disposed' = [disposed EXCEPT ![b] = @ + 1] /\ h = index["tail"]
    BY <1>16 DEF DropLastBlock, Destroy, listVars
  <2>2. EndsOK'
    BY <2>1, <1>1, <1>3, EndsStay DEF IInv
  <2>3. GuardsOK'
    BY <2>1, <1>1, <1>4, <1>9 DEF GuardsOK, Guarded
  <2>4. \A x \in Blocks : disposed'[x] = IF Disposed(x)' THEN 1 ELSE 0
    <3>1. /\ \A x \in Blocks : disposed[x] = IF Disposed(x) THEN 1 ELSE 0
          /\ DOMAIN disposed = Blocks
      BY DEF IInv, BooksOK, TypeOK
    <3>2. ~Disposed(b) /\ Disposed(b)'
      BY <2>1, <1>8, <1>11, <1>13
    <3>3. \A x \in Blocks : x # b => (Disposed(x)' <=> Disposed(x)) /\ disposed'[x] = disposed[x]
      BY <3>1, <2>1, <1>11, <1>13
    <3>4. disposed[b] = 0 /\ disposed'[b] = 1
      BY <3>1, <3>2, <2>1, <1>8
    <3> QED
      BY <3>1, <3>2, <3>3, <3>4
  <2>5. \A i \in 0 .. MaxIndex : moved'[i] = IF MovedOut(i)' THEN 1 ELSE 0
    BY <2>1, <1>10, <1>12 DEF IInv, BooksOK
  <2> QED
    BY <2>2, <2>3, <2>4, <2>5, <1>5, <1>6, <1>7 DEF IInv, BooksOK
<1>17. CASE DropMessage
  <2>1. /\ h < index["tail"] /\ index'["head"] = h + 1
        /\ moved' = [moved EXCEPT ![h] = @ + 1]
        /\ IF moves
           THEN /\ disposed' = [disposed EXCEPT ![b] = @ + 1] /\ freed' = freed \cup {b}
                /\ block'["head"] = b + 1
           ELSE UNCHANGED <<disposed, freed>> /\ block'["head"] = b
    <3>1. h # index["tail"]
      BY <1>17 DEF DropMessage
    <3>2. h < index["tail"]
      BY <3>1, <1>8
    <3> QED
      BY <3>2, <1>17 DEF DropMessage, Destroy, memVars, TypeOK
  <2>2. b \notin freed /\ (\A x \in freed : x < b) /\ freed' \subseteq Nat
    <3>1. \A x \in freed : x < b
      BY <2>1, <1>8, <1>9
    <3>2. b \notin freed
      BY <3>1, <1>8
    <3>3. freed' \subseteq Nat
      BY <2>1, <1>8, <1>9
    <3> QED
      BY <3>1, <3>2, <3>3
  <2>3. moves => b + 1 <= block["tail"]
    <3>1. SUFFICES ASSUME moves, block["tail"] < b + 1 PROVE FALSE
      BY <1>8
    <3>2. Start(block["tail"]) + BlockCap <= Start(b + 1)
      <4>1. b + 1 \in Nat
        BY <1>8
      <4> QED
        BY <3>1, <4>1, <1>8, StartFacts
    <3> QED
      BY <3>1, <3>2, <2>1, <1>8
  <2>4. EndsOK'
    <3>1. h + 1 <= index["tail"] /\ b < linked
      BY <2>1, <1>8 DEF IInv, EndsOK
    <3>2. /\ Start(block'["head"]) <= h + 1 /\ h + 1 < Start(block'["head"]) + BlockCap
          /\ block'["head"] < linked
      <4>1. CASE moves
        BY <4>1, <3>1, <2>1, <2>3, <1>3, <1>8
      <4>2. CASE ~moves
        BY <4>2, <3>1, <2>1, <1>8
      <4> QED
        BY <4>1, <4>2
    <3>3. Start(block'["head"]) \in Nat
      BY <2>1, <1>8
    <3>4. h + 1 <= Start(block'["head"]) + BlockCap /\ h + 1 # Start(block'["head"]) + BlockCap
      BY <3>2, <3>3, <1>8
    <3>5. /\ Start(block["tail"]) <= index["tail"] /\ index["tail"] <= Start(block["tail"]) + BlockCap
          /\ index["tail"] # Start(block["tail"]) + BlockCap
          /\ block["tail"] < linked /\ linked <= block["tail"] + 2 /\ linked # block["tail"] + 2
      BY <1>3, <1>8 DEF IInv, EndsOK
    <3> QED
      BY <3>1, <3>2, <3>4, <3>5, <2>1, <1>1, <1>14 DEF EndsOK
  <2>5. GuardsOK'
    <3>1. \A x \in DOMAIN retired : x < block'["head"]
      BY <2>1, <1>8, <1>9
    <3>2. \A x \in freed' : x < block'["head"]
      BY <2>1, <2>2, <1>8, <1>9
    <3> QED
      BY <3>1, <3>2, <1>1, <1>4 DEF GuardsOK, Guarded
  <2>6. \A i \in 0 .. MaxIndex : moved'[i] = IF MovedOut(i)' THEN 1 ELSE 0
    <3>1. /\ \A i \in 0 .. MaxIndex : moved[i] = IF MovedOut(i) THEN 1 ELSE 0
          /\ DOMAIN moved = 0 .. MaxIndex
      BY DEF IInv, BooksOK, TypeOK
    <3>2. ~MovedOut(h) /\ MovedOut(h)'
      BY <2>1, <1>8, <1>10, <1>12
    <3>3. \A i \in 0 .. MaxIndex : i # h => (MovedOut(i)' <=> MovedOut(i)) /\ moved'[i] = moved[i]
      BY <3>1, <2>1, <1>8, <1>10, <1>12, <1>15
    <3>4. moved[h] = 0 /\ moved'[h] = 1
      BY <3>1, <3>2, <2>1, <1>8
    <3> QED
      BY <3>1, <3>2, <3>3, <3>4
  <2>7. \A x \in Blocks : disposed'[x] = IF Disposed(x)' THEN 1 ELSE 0
    <3>1. /\ \A x \in Blocks : disposed[x] = IF Disposed(x) THEN 1 ELSE 0
          /\ DOMAIN disposed = Blocks
      BY DEF IInv, BooksOK, TypeOK
    <3>2. CASE moves
      <4>1. ~Disposed(b) /\ Disposed(b)'
        BY <3>2, <2>1, <2>2, <1>8, <1>11, <1>13
      <4>2. \A x \in Blocks : x # b => (Disposed(x)' <=> Disposed(x)) /\ disposed'[x] = disposed[x]
        <5>1. \A x \in Nat : x # b => (x < b + 1 <=> x < b) /\ (x \in freed' <=> x \in freed)
          BY <3>2, <2>1, <1>8
        <5>2. \A x \in Nat : x \in freed => x # b + 1
          BY <2>2, <1>8
        <5> QED
          BY <5>1, <5>2, <3>1, <3>2, <2>1, <1>11, <1>13, <1>15
      <4>3. disposed[b] = 0 /\ disposed'[b] = 1
        BY <3>1, <3>2, <4>1, <2>1, <1>8
      <4> QED
        BY <3>1, <4>1, <4>2, <4>3
    <3>3. CASE ~moves
      BY <3>1, <3>3, <2>1, <1>11, <1>13
    <3> QED
      BY <3>2, <3>3
  <2> QED
    BY <2>4, <2>5, <2>6, <2>7, <1>5, <1>6, <1>7 DEF IInv, BooksOK
<1> QED
  BY <1>16, <1>17
LEMMA UnchangedStep ==
  ASSUME IInv, UNCHANGED vars
  PROVE  IInv'
<1> USE DEF vars, listVars, memVars, IInv
<1>1. /\ \A z \in Threads : Same(z)
      /\ UNCHANGED <<index, block, linked, slots, alive, pinned, retired, freed, disposed, moved, count>>
  BY DEF Same
<1>2. \A z \in Threads : /\ (Holds(z)' <=> Holds(z)) /\ (Passing(z)' <=> Passing(z))
                         /\ (Retiring(z)' <=> Retiring(z)) /\ (Writing(z)' <=> Writing(z))
                         /\ (Looking(z)' <=> Looking(z)) /\ Offset(z)' = Offset(z)
                         /\ Start(blk[z])' = Start(blk[z]) /\ EndOf(z)' = EndOf(z)
  BY <1>1, SameFacts DEF Same, Offset, Start, EndOf
<1>3. EndsOK' /\ OwnersOK' /\ BooksOK'
  BY <1>1, <1>2, EndsStay, OwnersStay, BooksStay DEF Same, Threads
<1>4. CallsOK'
  BY <1>1, <1>2 DEF CallsOK, CallOK, Same
<1>5. ContentsOK'
  BY <1>1, <1>2, SenderStays, ContentsStay DEF ContentsOK, Same, Threads
<1>6. GuardsOK'
  BY <1>1, <1>2 DEF GuardsOK, Same
<1> QED
  BY <1>3, <1>4, <1>5, <1>6
-------------------------------------------------------------------------------
(* The theorems. *)

LEMMA NextIInv ==
  ASSUME TypeOK, TypeOK', IInv, [Next]_vars
  PROVE  IInv'
<1>1. CASE Next
  BY <1>1, BeginSteps, LoadSteps, LookSteps, CasSteps, InstallSteps, AdvanceSteps, WriteSteps,
     RetireSteps, ReadSteps, HandleSteps, DropSteps, UnchangedStep
  DEF Next, Step, Terminated
<1>2. CASE UNCHANGED vars
  BY <1>2, UnchangedStep
<1> QED
  BY <1>1, <1>2

\* Every reachable state is well typed, whatever the number of threads: in
\* particular no index runs past the slots, for the slots behind the tail hold
\* different messages.
THEOREM TypeCorrect == Spec => []TypeOK
<1>1. Init => TypeOK /\ IInv
  BY InitTypeOK, InitIInv
<1>2. TypeOK /\ IInv /\ [Next]_vars => TypeOK' /\ IInv'
  BY NextTypeOK, NextIInv
<1> QED
  BY <1>1, <1>2, PTL DEF Spec

\* The inductive invariant holds.
THEOREM BlocksCorrect == Spec => []IInv
<1>1. Init => TypeOK /\ IInv
  BY InitTypeOK, InitIInv
<1>2. TypeOK /\ IInv /\ [Next]_vars => TypeOK' /\ IInv'
  BY NextTypeOK, NextIInv
<1> QED
  BY <1>1, <1>2, PTL DEF Spec

\* The block pointers never lag more than a block behind the indices, and the
\* list is never longer than the block behind the tail's.
THEOREM PositionsCorrect == Spec => []PositionsOK
<1>1. TypeOK /\ IInv => PositionsOK
  <2> SUFFICES ASSUME TypeOK, IInv PROVE PositionsOK
    OBVIOUS
  <2>1. ASSUME NEW e \in Ends PROVE index[e] - Start(block[e]) \in 0 .. BlockCap
    <3>1. index[e] \in Nat /\ Start(block[e]) \in Nat /\ BlockCap \in Nat
      BY Numbers
    <3>2. Start(block[e]) <= index[e] /\ index[e] <= Start(block[e]) + BlockCap
      BY DEF IInv, EndsOK, Ends
    <3> QED
      BY <3>1, <3>2
  <2>2. linked \in {block["tail"] + 1, block["tail"] + 2}
    <3>1. linked \in Nat /\ block["tail"] \in Nat
      BY Numbers DEF Ends
    <3>2. block["tail"] < linked /\ linked <= block["tail"] + 2
      BY DEF IInv, EndsOK
    <3> QED
      BY <3>1, <3>2
  <2> QED
    BY <2>1, <2>2 DEF PositionsOK, IInv, EndsOK, Ends
<1> QED
  BY <1>1, TypeCorrect, BlocksCorrect, PTL

\* No block is freed that the owner of one of its slots, or a receiver in the
\* middle of a call, may still look into.
THEOREM NoUseAfterFree == Spec => []SlotAlive
<1>1. IInv => SlotAlive
  BY DEF IInv, GuardsOK, SlotAlive, Looking
<1> QED
  BY <1>1, BlocksCorrect, PTL

\* Every message and every block is given up at most once, and exactly once
\* when the channel is gone.
THEOREM NothingLeaks == Spec => []ReleasedOnce
<1>1. TypeOK /\ IInv => ReleasedOnce
  <2> SUFFICES ASSUME TypeOK, IInv PROVE ReleasedOnce
    OBVIOUS
  <2>1. /\ DOMAIN moved = 0 .. MaxIndex
        /\ \A i \in 0 .. MaxIndex : moved[i] = IF MovedOut(i) THEN 1 ELSE 0
        /\ \A b \in Blocks : disposed[b] = IF Disposed(b) THEN 1 ELSE 0
    BY DEF IInv, BooksOK, TypeOK
  <2>2. /\ \A i \in DOMAIN moved : moved[i] <= 1
        /\ \A b \in Blocks : disposed[b] <= 1
    BY <2>1
  <2>3. ASSUME alive = {}, block["head"] \in freed
        PROVE  /\ \A i \in DOMAIN moved : i < index["tail"] => moved[i] = 1
               /\ \A b \in 0 .. linked - 1 : disposed[b] = 1
    <3>1. /\ \A t \in Threads : ~Holds(t) /\ ~Retiring(t)
          /\ \A e \in Ends : index[e] < Start(block[e]) + BlockCap
          /\ linked = block["tail"] + 1
      BY <2>3, Quiescent
    <3>2. /\ index["head"] \in Nat /\ block["head"] \in Nat /\ block["tail"] \in Nat /\ linked \in Nat
          /\ Start(block["head"]) \in Nat /\ Start(block["tail"]) \in Nat /\ BlockCap \in Nat
      BY Numbers DEF Ends
    <3>3. index["head"] = index["tail"]
      BY <2>3, <3>2 DEF IInv, GuardsOK
    <3>4. block["tail"] <= block["head"]
      <4> SUFFICES ASSUME block["head"] < block["tail"] PROVE FALSE
        BY <3>2
      <4>1. Start(block["head"]) + BlockCap <= Start(block["tail"])
        BY <3>2, StartFacts
      <4>2. Start(block["tail"]) <= index["tail"] /\ index["head"] < Start(block["head"]) + BlockCap
        BY <3>1 DEF IInv, EndsOK, Ends
      <4> QED
        BY <4>1, <4>2, <3>2, <3>3
    <3>5. \A i \in 0 .. MaxIndex : i < index["tail"] => MovedOut(i)
      BY <3>1, <3>3 DEF MovedOut, Threads
    <3>6. ASSUME NEW b \in 0 .. linked - 1 PROVE b \in Blocks /\ Disposed(b)
      <4>1. b \in Nat /\ b <= block["tail"]
        BY <3>1, <3>2
      <4>2. b <= block["head"] /\ (b < block["head"] \/ b = block["head"])
        BY <4>1, <3>2, <3>4
      <4>3. block["head"] \in 0 .. MaxIndex
        BY DEF TypeOK, Blocks
      <4>4. b \in Blocks
        BY <4>1, <4>2, <4>3, <3>2, MaxIndexNat DEF Blocks
      <4>5. \A r \in Receivers : ~Retiring(r)
        BY <3>1 DEF Threads
      <4> QED
        BY <4>2, <4>4, <4>5, <2>3 DEF Disposed
    <3>7. \A b \in 0 .. linked - 1 : disposed[b] = 1
      BY <2>1, <3>6
    <3> QED
      BY <2>1, <3>5, <3>7
  <2> QED
    BY <2>2, <2>3 DEF ReleasedOnce
<1> QED
  BY <1>1, TypeCorrect, BlocksCorrect, PTL
===============================================================================

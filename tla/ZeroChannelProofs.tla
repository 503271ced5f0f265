--------------------------- MODULE ZeroChannelProofs ---------------------------
(***************************************************************************)
(* Proofs about ZeroChannel, for any number of threads and calls: the      *)
(* wakers hold exactly the operations that wait, a packet lives as long as *)
(* somebody uses it, a sender and a receiver never sleep side by side, and *)
(* every step is a step of Rendezvous or leaves its variables as they are. *)
(***************************************************************************)
EXTENDS ZeroChannel, FiniteSetTheorems, SequenceTheorems, WellFoundedInduction, TLAPS

Wakers == {"senders", "receivers"}
-------------------------------------------------------------------------------
(* Operators of the model. *)

\* Min of a set of natural numbers is its least element.
LEMMA MinIsLeast ==
  ASSUME NEW S \in SUBSET Nat, S # {}
  PROVE  Min(S) \in S /\ \A y \in S : Min(S) <= y
<1>1. PICK x \in S : \A y \in S : ~(<<y, x>> \in OpToRel(<, Nat))
  <2>1. PICK z \in S : TRUE
    OBVIOUS
  <2>2. IsWellFoundedOn(OpToRel(<, Nat), Nat)
    BY NatLessThanWellFounded
  <2> QED
    BY <2>1, <2>2, WFMin
<1>2. ASSUME NEW y \in S PROVE x <= y
  <2>1. \A a, b \in Nat : a < b => <<a, b>> \in OpToRel(<, Nat)
    BY DEF OpToRel
  <2>2. ~(y < x)
    BY <1>1, <2>1
  <2> QED
    BY <2>2
<1> QED
  BY <1>2 DEF Min

\* RemoveAt moves what follows one place down.
LEMMA RemoveAtShifts ==
  ASSUME NEW S, NEW q \in Seq(S), NEW i \in 1 .. Len(q)
  PROVE  /\ RemoveAt(q, i) \in Seq(S)
         /\ Len(RemoveAt(q, i)) = Len(q) - 1
         /\ \A j \in 1 .. Len(q) - 1 : RemoveAt(q, i)[j] = q[IF j < i THEN j ELSE j + 1]
<1> DEFINE before == SubSeq(q, 1, i - 1)
           after == SubSeq(q, i + 1, Len(q))
<1>1. before \in Seq(S) /\ Len(before) = i - 1 /\ \A j \in 1 .. i - 1 : before[j] = q[j]
  BY SubSeqProperties, i - 1 \in Int, LenProperties
<1>2. /\ after \in Seq(S) /\ Len(after) = Len(q) - i
      /\ \A j \in 1 .. Len(q) - i : after[j] = q[i + j]
  BY SubSeqProperties, LenProperties
<1>3. RemoveAt(q, i) = before \o after
  BY DEF RemoveAt
<1> HIDE DEF before, after
<1>4. RemoveAt(q, i) \in Seq(S) /\ Len(RemoveAt(q, i)) = Len(q) - 1
  BY <1>1, <1>2, <1>3, ConcatProperties, LenProperties
<1>5. ASSUME NEW j \in 1 .. Len(q) - 1
      PROVE  RemoveAt(q, i)[j] = q[IF j < i THEN j ELSE j + 1]
  <2>1. RemoveAt(q, i)[j] = IF j <= Len(before) THEN before[j] ELSE after[j - Len(before)]
    BY <1>1, <1>2, <1>3, ConcatProperties, LenProperties
  <2>2. CASE j < i
    BY <2>1, <2>2, <1>1
  <2>3. CASE ~(j < i)
    BY <2>1, <2>3, <1>1, <1>2
  <2> QED
    BY <2>2, <2>3
<1> QED
  BY <1>4, <1>5
-------------------------------------------------------------------------------
(* Threads, entries and packets. *)

\* A thread is on one side, and the two sides have different wakers.
LEMMA Sides ==
  /\ NoThread \notin Threads
  /\ \A t \in Threads : t \in Senders <=> t \notin Receivers
  /\ \A t : Own(t) \in Wakers /\ Other(t) \in Wakers /\ Own(t) # Other(t)
  /\ \A t, u : Own(t) # Own(u) <=> Own(u) = Other(t)
  /\ \A t, u : Own(t) # Own(u) <=> Own(t) = Other(u)
  /\ \A t, u \in Threads : Own(t) # Own(u) <=> (t \in Senders <=> u \in Receivers)
BY ThreadAssumption DEF Threads, Own, Other, Wakers

\* An entry is a thread and its packet.
LEMMA EntryType ==
  ASSUME Typed, NEW w \in Wakers
  PROVE  /\ entries[w] \in Seq([thread : Threads, packet : PacketIds])
         /\ Len(entries[w]) \in Nat
         /\ \A i \in 1 .. Len(entries[w]) :
              /\ entries[w][i] \in [thread : Threads, packet : PacketIds]
              /\ entries[w][i].thread \in Threads
              /\ entries[w][i].packet \in PacketIds
<1>1. entries[w] \in Seq([thread : Threads, packet : PacketIds])
  BY DEF Typed, Wakers
<1>2. \A i \in 1 .. Len(entries[w]) : entries[w][i] \in [thread : Threads, packet : PacketIds]
  BY <1>1, LenProperties
<1> QED
  BY <1>1, <1>2, LenProperties

\* A thread uses one packet at a time.
LEMMA UsesOne ==
  ASSUME NEW t, NEW p, NEW q, Uses(t, p), Uses(t, q)
  PROVE  p = q
BY DEF Uses, Owns, Owning, Waiting

\* While nobody holds the mutex, what a thread uses is its own packet or that of its token.
LEMMA UsesFree ==
  ASSUME HolderOK, mutex = NoThread
  PROVE  /\ \A t \in Threads : pc[t] \notin {"store_packet", "unpark"}
         /\ \A t \in Threads : \A p : Uses(t, p) <=>
              \/ Owns(t, p)
              \/ pc[t] \in {"write", "read", "set_ready"} /\ p = pk[t]
BY Sides DEF HolderOK, Uses

\* The holder of the mutex has a partner on the other side.
LEMMA PartnerIs ==
  ASSUME Typed, EntriesOK, HolderOK, NEW t \in Threads, mutex = t
  PROVE  /\ cursor \in 1 .. Len(entries[Other(t)])
         /\ entries[Other(t)][cursor] \in [thread : Threads, packet : PacketIds]
         /\ Partner(t) \in Threads /\ entries[Other(t)][cursor].packet \in PacketIds
         /\ Own(Partner(t)) = Other(t) /\ Partner(t) # t
         /\ select[Partner(t)] = "operation"
<1>1. cursor \in 1 .. Len(entries[Other(t)]) /\ select[Partner(t)] = "operation"
  BY DEF HolderOK
<1>2. Other(t) \in Wakers
  BY Sides
<1>3. Own(Partner(t)) = Other(t)
  BY <1>1, <1>2 DEF EntriesOK, Partner, Wakers
<1> QED
  BY <1>1, <1>2, <1>3, EntryType, Sides DEF Partner

\* While nobody holds the mutex, a registered thread waits and is not selected.
LEMMA RegisteredWaits ==
  ASSUME Typed, EntriesOK, mutex = NoThread, NEW w \in Wakers, NEW i \in 1 .. Len(entries[w])
  PROVE  /\ entries[w][i].thread \in Threads
         /\ Waiting(entries[w][i].thread) /\ select[entries[w][i].thread] # "operation"
         /\ entries[w][i].packet = mine[entries[w][i].thread]
         /\ Own(entries[w][i].thread) = w
BY Sides, EntryType DEF EntriesOK, Claimed, Wakers

\* There is always a name for a new packet: an old one is used by another
\* thread, and a thread uses one packet at a time.
LEMMA FreshIdFree ==
  ASSUME Typed, HolderOK, UsersOK, NEW t \in Threads, mutex = NoThread, \A p : ~Uses(t, p)
  PROVE  /\ FreshId(t) \in PacketIds /\ FreshId(t)[1] = t
         /\ packets[FreshId(t)].place = "none"
<1> DEFINE n == Cardinality(Threads)
           User(k) == CHOOSE u \in Threads \ {t} : Uses(u, <<t, k>>)
           f == [k \in 1 .. n |-> User(k)]
<1>1. IsFiniteSet(Threads) /\ n \in Nat
  BY ThreadAssumption, FS_Union, FS_CardinalityType DEF Threads
<1>2. SUFFICES ASSUME \A p \in PacketIds : p[1] = t => packets[p].place # "none"
               PROVE  FALSE
  BY <1>2 DEF FreshId
<1>3. ASSUME NEW k \in 1 .. n PROVE User(k) \in Threads \ {t} /\ Uses(User(k), <<t, k>>)
  <2>1. <<t, k>> \in PacketIds /\ <<t, k>>[1] = t
    BY DEF PacketIds
  <2>2. PICK u \in Threads : Uses(u, <<t, k>>)
    BY <2>1, <1>2 DEF UsersOK
  <2> QED
    BY <2>2
<1>4. IsFiniteSet(1 .. n) /\ Cardinality(1 .. n) = n
  BY <1>1, FS_Interval
<1>5. n # 0
  BY <1>1, FS_EmptySet
<1>6. IsFiniteSet(Threads \ {t}) /\ Cardinality(Threads \ {t}) = n - 1
  BY <1>1, FS_RemoveElement
<1>7. f \in [1 .. n -> Threads \ {t}]
  BY <1>3
<1>8. Cardinality(Threads \ {t}) < Cardinality(1 .. n)
  BY <1>1, <1>4, <1>5, <1>6
<1> HIDE DEF f, User, n
<1>9. PICK j, k \in 1 .. n : j # k /\ f[j] = f[k]
  BY <1>4, <1>6, <1>7, <1>8, FS_PigeonHole
<1>10. User(j) = User(k)
  BY <1>9 DEF f
<1>11. <<t, j>> = <<t, k>>
  BY <1>3, <1>10, UsesOne
<1> QED
  BY <1>9, <1>11

\* Whoever uses a packet has a packet that exists.
LEMMA UsesType ==
  ASSUME Typed, EntriesOK, HolderOK, UsersOK, NEW t \in Threads, NEW p, Uses(t, p)
  PROVE  p \in PacketIds /\ packets[p].place # "none"
<1>1. CASE pc[t] \in {"store_packet", "unpark"}
  <2>1. mutex = t
    BY <1>1 DEF HolderOK
  <2>2. p = entries[Other(t)][cursor].packet
    BY <1>1 DEF Uses, Owns, Owning, Waiting
  <2> QED
    BY <2>1, <2>2, PartnerIs DEF UsersOK
<1>2. CASE pc[t] \notin {"store_packet", "unpark"}
  <2>1. p \in PacketIds \cup {NoPacket}
    BY <1>2 DEF Uses, Owns, Typed
  <2> QED
    BY <2>1 DEF UsersOK
<1> QED
  BY <1>1, <1>2
-------------------------------------------------------------------------------
(* Every step keeps the types. *)

\* No packet is a packet record, too.
LEMMA AbsentType ==
  Absent \in [place : {"none", "stack", "heap"}, msg : Messages \cup {NoMsg}, ready : BOOLEAN]
BY DEF Absent

LEMMA TypedInit ==
  ASSUME Init
  PROVE  Typed
<1>1. entries \in [{"senders", "receivers"} -> Seq([thread : Threads, packet : PacketIds])]
  BY DEF Init
<1>2. /\ calls \in [Threads -> 0 .. MaxCalls] /\ pc \in [Threads -> Labels]
      /\ packets \in [PacketIds -> [place : {"none", "stack", "heap"}, msg : Messages \cup {NoMsg},
                                    ready : BOOLEAN]]
  BY AbsentType, BoundAssumption DEF Init, Labels
<1>3. /\ mutex \in Threads \cup {NoThread} /\ cursor \in Nat
      /\ disconnected \in BOOLEAN /\ alive \subseteq Threads /\ expired \subseteq Timed
      /\ select \in [Threads -> {"waiting", "aborted", "disconnected", "operation"}]
      /\ word \in [Threads -> PacketIds \cup {NoPacket}] /\ token \in [Threads -> BOOLEAN]
  BY DEF Init
<1>4. /\ mine \in [Threads -> PacketIds \cup {NoPacket}] /\ pk \in [Threads -> PacketIds \cup {NoPacket}]
      /\ kind \in [Threads -> {"try", "block", "select"}]
      /\ msg \in [Threads -> Messages \cup {NoMsg}]
      /\ promised \in [Threads -> Messages \cup {NoMsg}]
  BY DEF Init
<1> QED
  BY <1>1, <1>2, <1>3, <1>4 DEF Typed

\* A packet that is registered.
LEMMA RegisterTyped ==
  ASSUME Typed, HolderOK, UsersOK, NEW t \in Threads, mutex = NoThread, \A p : ~Uses(t, p),
         NEW place \in {"stack", "heap"}, NEW m \in Messages \cup {NoMsg},
         RegisterPacket(t, place, m)
  PROVE  /\ entries' \in [Wakers -> Seq([thread : Threads, packet : PacketIds])]
         /\ select' \in [Threads -> {"waiting", "aborted", "disconnected", "operation"}]
         /\ word' \in [Threads -> PacketIds \cup {NoPacket}]
         /\ mine' \in [Threads -> PacketIds \cup {NoPacket}]
         /\ packets' \in [PacketIds -> [place : {"none", "stack", "heap"},
                                        msg : Messages \cup {NoMsg}, ready : BOOLEAN]]
<1> DEFINE e == [thread |-> t, packet |-> FreshId(t)]
<1>1. FreshId(t) \in PacketIds
  BY FreshIdFree
<1>2. Own(t) \in Wakers
  BY Sides
<1>3. Append(entries[Own(t)], e) \in Seq([thread : Threads, packet : PacketIds])
  BY <1>1, <1>2, EntryType, AppendProperties
<1> HIDE DEF e
<1>4. entries' = [entries EXCEPT ![Own(t)] = Append(entries[Own(t)], e)]
  BY DEF RegisterPacket, e
<1>5. entries' \in [Wakers -> Seq([thread : Threads, packet : PacketIds])]
  BY <1>3, <1>4 DEF Typed, Wakers
<1> QED
  BY <1>1, <1>5 DEF Typed, RegisterPacket

\* A registered thread that withdraws: its place in the waker.
LEMMA RegisteredAt ==
  ASSUME Typed, EntriesOK, NEW t \in Threads, Registered(t) # {}
  PROVE  /\ Min(Registered(t)) \in 1 .. Len(entries[Own(t)])
         /\ entries[Own(t)][Min(Registered(t))].thread = t
<1>1. Len(entries[Own(t)]) \in Nat
  BY Sides, EntryType
<1>2. Registered(t) \in SUBSET Nat
  BY <1>1 DEF Registered
<1>3. Min(Registered(t)) \in Registered(t)
  BY <1>2, MinIsLeast
<1> QED
  BY <1>3 DEF Registered

LEMMA ForgetTyped ==
  ASSUME Typed, EntriesOK, NEW t \in Threads, Registered(t) # {}, Forget(t)
  PROVE  /\ entries' \in [Wakers -> Seq([thread : Threads, packet : PacketIds])]
         /\ packets' \in [PacketIds -> [place : {"none", "stack", "heap"},
                                        msg : Messages \cup {NoMsg}, ready : BOOLEAN]]
<1> DEFINE i == Min(Registered(t))
<1>1. i \in 1 .. Len(entries[Own(t)])
  BY RegisteredAt
<1> HIDE DEF i
<1>2. RemoveAt(entries[Own(t)], i) \in Seq([thread : Threads, packet : PacketIds])
  BY <1>1, Sides, EntryType, RemoveAtShifts
<1>3. entries' = [entries EXCEPT ![Own(t)] = RemoveAt(entries[Own(t)], i)]
  BY DEF Forget, i
<1>4. entries' \in [Wakers -> Seq([thread : Threads, packet : PacketIds])]
  BY <1>2, <1>3 DEF Typed, Wakers
<1> QED
  BY <1>4, AbsentType DEF Forget, Destroy, Typed

\* A wait that is over without a partner has an entry.
LEMMA WithdrawsRegistered ==
  ASSUME Typed, EntriesOK, NEW t \in Threads, Waiting(t), select[t] # "operation"
  PROVE  Registered(t) # {}
BY DEF EntriesOK, Registered

\* The operations of the other side that can be selected, and the first of them.
LEMMA SelectableIs ==
  ASSUME Typed, EntriesOK, NEW t \in Threads, Selectable(t) # {}
  PROVE  LET i == Min(Selectable(t)) IN
         /\ i \in 1 .. Len(entries[Other(t)])
         /\ entries[Other(t)][i].thread \in Threads
         /\ entries[Other(t)][i].thread # t
         /\ select[entries[Other(t)][i].thread] = "waiting"
         /\ Own(entries[Other(t)][i].thread) = Other(t)
<1> DEFINE i == Min(Selectable(t))
<1>1. Len(entries[Other(t)]) \in Nat
  BY Sides, EntryType
<1>2. Selectable(t) \in SUBSET Nat
  BY <1>1 DEF Selectable
<1>3. i \in Selectable(t)
  BY <1>2, MinIsLeast
<1> HIDE DEF i
<1>4. /\ i \in 1 .. Len(entries[Other(t)]) /\ entries[Other(t)][i].thread # t
      /\ select[entries[Other(t)][i].thread] = "waiting"
  BY <1>3 DEF Selectable
<1>5. entries[Other(t)][i].thread \in Threads /\ Own(entries[Other(t)][i].thread) = Other(t)
  BY <1>4, Sides, EntryType DEF EntriesOK, Wakers
<1> QED
  BY <1>4, <1>5 DEF i

\* Nobody uses a packet who is on his way to register one.
LEMMA UsesNone ==
  ASSUME NEW t, pc[t] \notin {"store_packet", "unpark", "write", "read", "set_ready", "wait_packet",
                              "wait_ready"}, ~Waiting(t)
  PROVE  \A p : ~Uses(t, p)
BY DEF Uses, Owns, Owning

\* Where the maps are defined.
LEMMA Domains ==
  Typed => /\ DOMAIN pc = Threads /\ DOMAIN select = Threads /\ DOMAIN promised = Threads
           /\ DOMAIN entries = {"senders", "receivers"} /\ DOMAIN packets = PacketIds
           /\ DOMAIN mine = Threads /\ DOMAIN pk = Threads /\ DOMAIN msg = Threads
BY DEF Typed

\* Two fields of a packet are stored to.
LEMMA PacketUpdates ==
  ASSUME Typed, NEW t \in Threads
  PROVE  /\ [packets EXCEPT ![pk[t]].msg = msg[t]]
              \in [PacketIds -> [place : {"none", "stack", "heap"}, msg : Messages \cup {NoMsg},
                                ready : BOOLEAN]]
         /\ [packets EXCEPT ![pk[t]].ready = TRUE]
              \in [PacketIds -> [place : {"none", "stack", "heap"}, msg : Messages \cup {NoMsg},
                                ready : BOOLEAN]]
<1> DEFINE Packet == [place : {"none", "stack", "heap"}, msg : Messages \cup {NoMsg}, ready : BOOLEAN]
           One(x) == [packets[pk[t]] EXCEPT !.msg = x]
           Two(x) == [packets[pk[t]] EXCEPT !.ready = x]
<1>1. packets \in [PacketIds -> Packet] /\ msg[t] \in Messages \cup {NoMsg}
  BY DEF Typed
<1>2. pk[t] \in PacketIds => packets[pk[t]] \in Packet
  BY <1>1
<1>3. pk[t] \in PacketIds => One(msg[t]) \in Packet /\ Two(TRUE) \in Packet
  BY <1>1, <1>2
<1>4. /\ [packets EXCEPT ![pk[t]].msg = msg[t]] = [packets EXCEPT ![pk[t]] = One(msg[t])]
      /\ [packets EXCEPT ![pk[t]].ready = TRUE] = [packets EXCEPT ![pk[t]] = Two(TRUE)]
  OBVIOUS
<1> HIDE DEF Packet, One, Two
<1>5. /\ [packets EXCEPT ![pk[t]] = One(msg[t])] \in [PacketIds -> Packet]
      /\ [packets EXCEPT ![pk[t]] = Two(TRUE)] \in [PacketIds -> Packet]
  BY <1>1, <1>3
<1> QED
  BY <1>4, <1>5 DEF Packet

\* A step leads from one label to another.
LEMMA GotoTyped ==
  ASSUME Typed, NEW t \in Threads, NEW l \in Labels, Goto(t, l)
  PROVE  pc' \in [Threads -> Labels]
<1>1. pc \in [Threads -> Labels]
  BY DEF Typed
<1> QED
  BY <1>1 DEF Goto

\* The actions that register, unregister and wake keep the types.
LEMMA RegisterActionsTyped ==
  ASSUME Typed, IInv, NEW t \in Threads, Block(t) \/ Pause(t) \/ RegisterSelect(t)
  PROVE  Typed'
<1>1. mutex = NoThread /\ pc[t] \in {"block", "retry", "register"}
  BY DEF Block, Pause, RegisterSelect, Alone, Attempting
<1>2. \A p : ~Uses(t, p)
  BY <1>1, UsesNone DEF Waiting
<1>3. msg[t] \in Messages \cup {NoMsg} /\ NoMsg \in Messages \cup {NoMsg}
  BY DEF Typed
<1>4. PICK place \in {"stack", "heap"}, m \in Messages \cup {NoMsg} : RegisterPacket(t, place, m)
  BY <1>3 DEF Block, Pause, RegisterSelect
<1>5. /\ entries' \in [Wakers -> Seq([thread : Threads, packet : PacketIds])]
      /\ select' \in [Threads -> {"waiting", "aborted", "disconnected", "operation"}]
      /\ word' \in [Threads -> PacketIds \cup {NoPacket}]
      /\ mine' \in [Threads -> PacketIds \cup {NoPacket}]
      /\ packets' \in [PacketIds -> [place : {"none", "stack", "heap"},
                                     msg : Messages \cup {NoMsg}, ready : BOOLEAN]]
  BY <1>1, <1>2, <1>4, RegisterTyped DEF IInv
<1>6. pc' \in [Threads -> Labels]
  <2>1. \E l \in {"wait", "pause", "abort"} : Goto(t, l)
    BY DEF Block, Pause, RegisterSelect
  <2> QED
    BY <2>1, GotoTyped DEF Labels
<1>7. UNCHANGED <<mutex, cursor, token, pk, callVars, handleVars>>
  BY <1>4 DEF RegisterPacket, Block, Pause, RegisterSelect
<1> QED
  BY <1>5, <1>6, <1>7 DEF Typed, Wakers, callVars, handleVars

LEMMA UnregisterActionsTyped ==
  ASSUME Typed, IInv, NEW t \in Threads, UnregisterOper(t) \/ UnregisterSelect(t)
  PROVE  Typed'
<1>1. /\ entries' \in [Wakers -> Seq([thread : Threads, packet : PacketIds])]
      /\ packets' \in [PacketIds -> [place : {"none", "stack", "heap"},
                                     msg : Messages \cup {NoMsg}, ready : BOOLEAN]]
  <2>1. CASE UnregisterOper(t)
    <3>1. Waiting(t) /\ select[t] # "operation"
      BY <2>1 DEF UnregisterOper, Waiting, IInv, LabelsOK, LabelOK
    <3> QED
      BY <2>1, <3>1, WithdrawsRegistered, ForgetTyped DEF UnregisterOper, IInv
  <2>2. CASE UnregisterSelect(t)
    <3>1. CASE Registered(t) = {}
      BY <2>2, <3>1 DEF UnregisterSelect, Typed, Wakers
    <3>2. CASE Registered(t) # {}
      BY <2>2, <3>2, ForgetTyped DEF UnregisterSelect, IInv
    <3> QED
      BY <3>1, <3>2
  <2> QED
    BY <2>1, <2>2
<1>2. pc' \in [Threads -> Labels]
  <2>1. CASE UnregisterOper(t)
    <3>1. \E l \in {"disconnected", "unmet", "register"} : Goto(t, l)
      BY <2>1 DEF UnregisterOper
    <3> QED
      BY <3>1, GotoTyped DEF Labels, Answered
  <2>2. CASE UnregisterSelect(t)
    <3>1. \E l \in {"wait_packet", "try", "select"} : Goto(t, l)
      BY <2>2 DEF UnregisterSelect
    <3> QED
      BY <3>1, GotoTyped DEF Labels
  <2> QED
    BY <2>1, <2>2
<1>3. UNCHANGED <<mutex, cursor, contextVars, mine, pk, callVars, handleVars>>
  BY DEF UnregisterOper, UnregisterSelect
<1> QED
  BY <1>1, <1>2, <1>3 DEF Typed, Wakers, contextVars, callVars, handleVars

LEMMA WakeOneTyped ==
  ASSUME Typed, IInv, NEW t \in Threads, Pair(t) \/ StorePacket(t) \/ Unpark(t)
  PROVE  Typed'
<1>1. CASE Pair(t)
  <2> DEFINE z == entries[Other(t)][cursor'].thread
  <2>1. cursor' = Min(Selectable(t)) /\ Selectable(t) # {}
    BY <1>1 DEF Pair
  <2>2. cursor' \in 1 .. Len(entries[Other(t)]) /\ z \in Threads
    BY <2>1, SelectableIs DEF IInv
  <2>3. Len(entries[Other(t)]) \in Nat
    BY Sides, EntryType
  <2>4. cursor' \in Nat
    BY <2>2, <2>3
  <2>5. promised' \in [Threads -> Messages \cup {NoMsg}]
    BY <1>1, <2>2 DEF Pair, Typed
  <2>6. select' \in [Threads -> {"waiting", "aborted", "disconnected", "operation"}]
    BY <1>1, <2>2 DEF Pair, Typed
  <2>7. pc' \in [Threads -> Labels]
    BY <1>1 DEF Pair, Typed, Goto, Labels
  <2>8. /\ mutex' = t
        /\ UNCHANGED <<entries, word, token, packetVars, kind, msg, expired, calls, handleVars>>
    BY <1>1 DEF Pair
  <2> QED
    BY <2>4, <2>5, <2>6, <2>7, <2>8 DEF Typed, packetVars, handleVars
<1>2. CASE StorePacket(t)
  <2>1. mutex = t
    BY <1>2 DEF StorePacket, IInv, HolderOK
  <2>2. entries[Other(t)][cursor].packet \in PacketIds
    BY <2>1, PartnerIs DEF IInv
  <2>3. word' \in [Threads -> PacketIds \cup {NoPacket}]
    BY <1>2, <2>2 DEF StorePacket, Typed
  <2>4. pc' \in [Threads -> Labels]
    BY <1>2 DEF StorePacket, Typed, Goto, Labels
  <2> QED
    BY <1>2, <2>3, <2>4 DEF StorePacket, Typed, wakerVars, packetVars, callVars, handleVars
<1>3. CASE Unpark(t)
  <2>1. mutex = t
    BY <1>3 DEF Unpark, IInv, HolderOK
  <2>2. entries[Other(t)][cursor].packet \in PacketIds /\ cursor \in 1 .. Len(entries[Other(t)])
    BY <2>1, PartnerIs DEF IInv
  <2>3. RemoveAt(entries[Other(t)], cursor) \in Seq([thread : Threads, packet : PacketIds])
    BY <2>2, Sides, EntryType, RemoveAtShifts
  <2>4. entries' = [entries EXCEPT ![Other(t)] = RemoveAt(entries[Other(t)], cursor)]
    BY <1>3 DEF Unpark
  <2>5. entries' \in [Wakers -> Seq([thread : Threads, packet : PacketIds])]
    BY <2>3, <2>4 DEF Typed, Wakers
  <2>6. pk' \in [Threads -> PacketIds \cup {NoPacket}] /\ token' \in [Threads -> BOOLEAN]
    BY <1>3, <2>2 DEF Unpark, Typed
  <2>7. pc' \in [Threads -> Labels]
    BY <1>3 DEF Unpark, Typed, Goto, Labels
  <2>8. /\ mutex' = NoThread /\ cursor' = 0
        /\ UNCHANGED <<select, word, packets, mine, callVars, handleVars>>
    BY <1>3 DEF Unpark
  <2> QED
    BY <2>5, <2>6, <2>7, <2>8 DEF Typed, Wakers, callVars, handleVars
<1> QED
  BY <1>1, <1>2, <1>3

\* Steps that take the mutex without registering, or do without it.
LEMMA OtherActionsTyped ==
  ASSUME Typed, IInv, NEW t \in Threads,
         \/ BeginCall(t) \/ Expire(t) \/ DropHandle(t) \/ FindDisconnected(t) \/ GiveUpTry(t)
         \/ RetrySelect(t) \/ EndPause(t) \/ AbortSelect(t) \/ Wait(t) \/ GiveUp(t) \/ Unparked(t)
         \/ WaitPacket(t) \/ WaitReady(t) \/ SetReady(t) \/ Return(t) \/ Disconnect(t)
         \/ t \in Senders /\ Write(t)
         \/ t \in Receivers /\ Read(t)
  PROVE  Typed'
<1>1. CASE BeginCall(t)
  <2>1. calls'[t] \in 1 .. MaxCalls
    BY <1>1, BoundAssumption DEF BeginCall, Typed
  <2>2. calls' \in [Threads -> 0 .. MaxCalls]
    BY <1>1, <2>1 DEF BeginCall, Typed
  <2>3. msg' \in [Threads -> Messages \cup {NoMsg}]
    BY <1>1, <2>1 DEF BeginCall, Typed, Messages
  <2>4. PICK k \in Kinds(t) : kind' = [kind EXCEPT ![t] = k] /\ pc' = [pc EXCEPT ![t] = k]
    BY <1>1 DEF BeginCall, Goto
  <2>5. k \in {"try", "block", "select"}
    BY ThreadAssumption DEF Kinds
  <2>6. kind' \in [Threads -> {"try", "block", "select"}] /\ pc' \in [Threads -> Labels]
    BY <2>4, <2>5 DEF Typed, Labels
  <2> QED
    BY <1>1, <2>2, <2>3, <2>6 DEF BeginCall, Typed, wakerVars, contextVars, packetVars, handleVars
<1>2. CASE Expire(t)
  BY <1>2 DEF Expire, Typed, wakerVars, contextVars, packetVars, handleVars
<1>3. CASE DropHandle(t)
  <2>1. pc' = pc \/ Goto(t, "disconnect")
    BY <1>3 DEF DropHandle
  <2>2. pc' \in [Threads -> Labels]
    <3>1. CASE pc' = pc
      BY <3>1 DEF Typed
    <3>2. CASE Goto(t, "disconnect")
      BY <3>2, GotoTyped DEF Labels
    <3> QED
      BY <2>1, <3>1, <3>2
  <2>3. /\ UNCHANGED <<wakerVars, contextVars, packetVars, callVars, disconnected>>
        /\ alive' \subseteq alive
    BY <1>3 DEF DropHandle
  <2> QED
    BY <2>2, <2>3 DEF Typed, wakerVars, contextVars, packetVars, callVars
<1>4. CASE FindDisconnected(t) \/ GiveUpTry(t) \/ RetrySelect(t)
  <2>1. \E l \in {"disconnected", "unmet", "retry"} : Goto(t, l)
    BY <1>4 DEF FindDisconnected, GiveUpTry, RetrySelect
  <2>2. pc' \in [Threads -> Labels]
    BY <2>1, GotoTyped DEF Labels, Answered
  <2>3. UNCHANGED <<wakerVars, contextVars, packetVars, callVars, handleVars>>
    BY <1>4 DEF FindDisconnected, GiveUpTry, RetrySelect
  <2> QED
    BY <2>2, <2>3 DEF Typed, wakerVars, contextVars, packetVars, callVars, handleVars
<1>5. CASE EndPause(t) \/ AbortSelect(t) \/ GiveUp(t)
  <2>1. \E l \in {"wait_packet", "unregister", "unregister_select", "wait_ready"} : Goto(t, l)
    BY <1>5 DEF EndPause, AbortSelect, GiveUp, AfterWait
  <2>2. pc' \in [Threads -> Labels]
    BY <2>1, GotoTyped DEF Labels
  <2>3. select' \in [Threads -> {"waiting", "aborted", "disconnected", "operation"}]
    BY <1>5 DEF EndPause, AbortSelect, GiveUp, TrySelect, Typed
  <2>4. UNCHANGED <<wakerVars, word, token, packetVars, callVars, handleVars>>
    BY <1>5 DEF EndPause, AbortSelect, GiveUp
  <2> QED
    BY <2>2, <2>3, <2>4 DEF Typed, wakerVars, packetVars, callVars, handleVars
<1>6. CASE Wait(t)
  <2>0. \E l \in {"unregister_select", "wait_ready", "unregister", "give_up", "parked"} : Goto(t, l)
    BY <1>6 DEF Wait, AfterWait
  <2>1. pc' \in [Threads -> Labels]
    BY <2>0, GotoTyped DEF Labels
  <2> QED
    BY <1>6, <2>1 DEF Wait, Typed, wakerVars, contextVars, packetVars, callVars, handleVars
<1>7. CASE Unparked(t)
  BY <1>7 DEF Unparked, Typed, Goto, Labels, wakerVars, packetVars, callVars, handleVars
<1>8. CASE WaitPacket(t)
  <2>1. pk' \in [Threads -> PacketIds \cup {NoPacket}]
    BY <1>8 DEF WaitPacket, Typed
  <2>2. pc' \in [Threads -> Labels]
    <3>1. \E l \in {"write", "read"} : Goto(t, l)
      BY <1>8 DEF WaitPacket
    <3> QED
      BY <3>1, GotoTyped DEF Labels
  <2> QED
    BY <1>8, <2>1, <2>2 DEF WaitPacket, Typed, wakerVars, contextVars, callVars, handleVars
<1>9. CASE WaitReady(t)
  <2>1. Owns(t, mine[t])
    BY <1>9 DEF WaitReady, Owns, Owning
  <2>2. mine[t] \in PacketIds
    BY <2>1, UsesType DEF Uses, IInv
  <2>3. packets[mine[t]].msg \in Messages \cup {NoMsg}
    BY <2>2 DEF Typed
  <2>4. msg' \in [Threads -> Messages \cup {NoMsg}]
    BY <1>9, <2>3 DEF WaitReady, Typed
  <2>5. pc' \in [Threads -> Labels]
    <3>1. Goto(t, "ok")
      BY <1>9 DEF WaitReady
    <3> QED
      BY <3>1, GotoTyped DEF Labels, Answered
  <2>6. packets' \in [PacketIds -> [place : {"none", "stack", "heap"},
                                    msg : Messages \cup {NoMsg}, ready : BOOLEAN]]
    BY <1>9, AbsentType DEF WaitReady, Destroy, Typed
  <2>7. UNCHANGED <<wakerVars, contextVars, mine, pk, kind, expired, calls, promised, handleVars>>
    BY <1>9 DEF WaitReady
  <2> QED
    BY <2>4, <2>5, <2>6, <2>7 DEF Typed, wakerVars, contextVars, handleVars
<1>10. CASE SetReady(t)
  <2>1. packets' \in [PacketIds -> [place : {"none", "stack", "heap"},
                                    msg : Messages \cup {NoMsg}, ready : BOOLEAN]]
    BY <1>10, PacketUpdates DEF SetReady
  <2>2. Goto(t, "ok") /\ UNCHANGED <<wakerVars, contextVars, mine, pk, callVars, handleVars>>
    BY <1>10 DEF SetReady
  <2>3. pc' \in [Threads -> Labels]
    BY <2>2, GotoTyped DEF Labels, Answered
  <2> QED
    BY <2>1, <2>2, <2>3 DEF Typed, wakerVars, contextVars, callVars, handleVars
<1>11. CASE Return(t)
  <2>1. Goto(t, "idle")
    BY <1>11 DEF Return
  <2>2. pc' \in [Threads -> Labels]
    BY <2>1, GotoTyped DEF Labels
  <2>3. /\ msg' \in [Threads -> Messages \cup {NoMsg}]
        /\ promised' \in [Threads -> Messages \cup {NoMsg}]
        /\ kind' \in [Threads -> {"try", "block", "select"}]
    BY <1>11 DEF Return, Typed
  <2>4. /\ mine' \in [Threads -> PacketIds \cup {NoPacket}]
        /\ pk' \in [Threads -> PacketIds \cup {NoPacket}]
    BY <1>11 DEF Return, Typed
  <2>5. UNCHANGED <<wakerVars, contextVars, packets, calls, handleVars>> /\ expired' \subseteq expired
    BY <1>11 DEF Return
  <2> QED
    BY <2>2, <2>3, <2>4, <2>5 DEF Typed, wakerVars, contextVars, handleVars
<1>12. CASE Disconnect(t)
  <2>1. /\ select' \in [Threads -> {"waiting", "aborted", "disconnected", "operation"}]
        /\ token' \in [Threads -> BOOLEAN]
    BY <1>12 DEF Disconnect, Typed
  <2>2. pc' \in [Threads -> Labels] /\ disconnected' \in BOOLEAN
    <3>1. Goto(t, "idle") /\ disconnected' = TRUE
      BY <1>12 DEF Disconnect
    <3> QED
      BY <3>1, GotoTyped DEF Labels
  <2>3. UNCHANGED <<wakerVars, word, packetVars, callVars, alive>>
    BY <1>12 DEF Disconnect
  <2> QED
    BY <2>1, <2>2, <2>3 DEF Typed, wakerVars, packetVars, callVars
<1>13. CASE t \in Senders /\ Write(t)
  <2>1. packets' \in [PacketIds -> [place : {"none", "stack", "heap"},
                                    msg : Messages \cup {NoMsg}, ready : BOOLEAN]]
    BY <1>13, PacketUpdates DEF Write
  <2>2. Goto(t, "set_ready") /\ UNCHANGED <<wakerVars, contextVars, mine, pk, callVars, handleVars>>
    BY <1>13 DEF Write
  <2>3. pc' \in [Threads -> Labels]
    BY <2>2, GotoTyped DEF Labels
  <2> QED
    BY <2>1, <2>2, <2>3 DEF Typed, wakerVars, contextVars, callVars, handleVars
<1>14. CASE t \in Receivers /\ Read(t)
  <2>1. pk[t] \in PacketIds
    BY <1>14, UsesType DEF Read, Uses, IInv
  <2>2. packets[pk[t]].msg \in Messages \cup {NoMsg}
    BY <2>1 DEF Typed
  <2>3. msg' \in [Threads -> Messages \cup {NoMsg}]
    BY <1>14, <2>2 DEF Read, Typed
  <2>4. /\ pc' \in [Threads -> Labels]
        /\ packets' \in [PacketIds -> [place : {"none", "stack", "heap"},
                                       msg : Messages \cup {NoMsg}, ready : BOOLEAN]]
    <3>1. CASE packets[pk[t]].place = "stack"
      BY <1>14, <3>1 DEF Read, Goto, Typed, Labels
    <3>2. CASE packets[pk[t]].place # "stack"
      <4>1. pc' = [pc EXCEPT ![t] = "ok"] /\ packets' = [packets EXCEPT ![pk[t]] = Absent]
        BY <1>14, <3>2 DEF Read, Destroy, Goto
      <4>2. pc' \in [Threads -> Labels]
        BY <4>1 DEF Typed, Labels, Answered
      <4> QED
        BY <4>1, <4>2, AbsentType DEF Typed
    <3> QED
      BY <3>1, <3>2
  <2>5. UNCHANGED <<wakerVars, contextVars, mine, pk, kind, expired, calls, promised, handleVars>>
    BY <1>14 DEF Read
  <2> QED
    BY <2>3, <2>4, <2>5 DEF Typed, wakerVars, contextVars, handleVars
<1> QED
  BY <1>1, <1>2, <1>3, <1>4, <1>5, <1>6, <1>7, <1>8, <1>9, <1>10, <1>11, <1>12, <1>13, <1>14

LEMMA TypedNext ==
  ASSUME Typed, IInv, [Next]_vars
  PROVE  Typed'
<1>1. ASSUME NEW t \in Threads, BeginCall(t) \/ Step(t) \/ Expire(t) \/ DropHandle(t)
      PROVE  Typed'
  BY <1>1, OtherActionsTyped, WakeOneTyped, RegisterActionsTyped, UnregisterActionsTyped DEF Step
<1>2. CASE UNCHANGED vars
  BY <1>2 DEF vars, wakerVars, contextVars, packetVars, callVars, handleVars, Typed
<1> QED
  BY <1>1, <1>2 DEF Next, Terminated
-------------------------------------------------------------------------------
(* What the labels say. *)

\* A step of t at a place where it looks at nobody else's state: the others
\* keep what their labels say.
LEMMA LabelsOfOthers ==
  ASSUME LabelsOK, NEW t \in Threads, NEW l, Goto(t, l), disconnected => disconnected',
         alive' \subseteq alive,
         \A u \in Threads \ {t} : /\ kind'[u] = kind[u] /\ mine'[u] = mine[u]
                                  /\ \/ word'[u] = word[u]
                                     \/ word'[u] = mine[u] /\ select'[u] = "operation"
                                  /\ \/ select'[u] = select[u]
                                     \/ select'[u] = "operation" /\ pc[u] # "unregister"
                                     \/ /\ select[u] = "waiting" /\ select'[u] = "disconnected"
                                        /\ disconnected'
  PROVE  \A u \in Threads \ {t} : LabelOK(u)'
<1> SUFFICES ASSUME NEW u \in Threads \ {t} PROVE LabelOK(u)'
  OBVIOUS
<1>1. LabelOK(u) /\ u # t
  BY DEF LabelsOK
<1>2. pc' = [pc EXCEPT ![t] = l]
  BY DEF Goto
<1>3. pc'[u] = pc[u]
  BY <1>1, <1>2
<1> QED
  BY <1>1, <1>3 DEF LabelOK, Waiting, SideOf

\* Every step keeps what the labels say: waiting, ...
LEMMA LabelsWait ==
  ASSUME Typed, IInv, NEW t \in Threads,
         EndPause(t) \/ AbortSelect(t) \/ GiveUp(t) \/ Wait(t) \/ Unparked(t)
  PROVE  LabelsOK'
<1>1. LabelsOK /\ LabelOK(t)
  BY DEF IInv, LabelsOK
<1>2. UNCHANGED <<wakerVars, word, packetVars, callVars, handleVars>>
  BY DEF EndPause, AbortSelect, GiveUp, Wait, Unparked, contextVars
<1>3. PICK l : Goto(t, l)
  BY DEF EndPause, AbortSelect, GiveUp, Wait, Unparked
<1>4. \A u \in Threads \ {t} : select'[u] = select[u]
  BY DEF EndPause, AbortSelect, GiveUp, Wait, Unparked, TrySelect, contextVars, Typed
<1>5. \A u \in Threads \ {t} : LabelOK(u)'
  BY <1>1, <1>2, <1>3, <1>4, LabelsOfOthers DEF packetVars, callVars, handleVars
<1>6. LabelOK(t)'
  <2>1. select[t] \in {"waiting", "aborted", "disconnected", "operation"} /\ pc'[t] = l
    BY <1>3 DEF Goto, Typed
  <2>2. select'[t] = select[t] \/ (select[t] = "waiting" /\ select'[t] = "aborted")
    BY DEF EndPause, AbortSelect, GiveUp, Wait, Unparked, TrySelect, contextVars, Typed
  <2>3. CASE EndPause(t)
    <3>1. select'[t] # "waiting" /\ pc'[t] = IF select'[t] = "operation" THEN "wait_packet" ELSE "unregister"
      BY <2>1, <2>3 DEF EndPause, TrySelect, Goto, Typed
    <3> QED
      BY <1>1, <1>2, <2>1, <2>2, <2>3, <3>1
      DEF LabelOK, EndPause, Waiting, packetVars, callVars, handleVars
  <2>4. CASE AbortSelect(t)
    <3>1. select'[t] # "waiting" /\ pc'[t] = "unregister_select"
      BY <2>1, <2>4 DEF AbortSelect, TrySelect, Goto, Typed
    <3> QED
      BY <1>1, <1>2, <2>1, <2>2, <2>4, <3>1
      DEF LabelOK, AbortSelect, Waiting, packetVars, callVars, handleVars
  <2>5. CASE GiveUp(t)
    <3>1. select'[t] # "waiting" /\ pc'[t] = AfterWait(t, select'[t])
      BY <2>1, <2>5 DEF GiveUp, TrySelect, Goto, Typed
    <3> QED
      BY <1>1, <1>2, <2>1, <2>2, <2>5, <3>1
      DEF LabelOK, GiveUp, AfterWait, Waiting, packetVars, callVars, handleVars
  <2>6. CASE Wait(t)
    <3>1. select' = select
      BY <2>6 DEF Wait, contextVars
    <3>2. \/ select[t] # "waiting" /\ pc'[t] = AfterWait(t, select[t])
          \/ select[t] = "waiting" /\ pc'[t] \in {"give_up", "parked"}
      BY <2>6 DEF Wait, Goto, Typed
    <3> QED
      BY <1>1, <1>2, <2>1, <2>6, <3>1, <3>2
      DEF LabelOK, Wait, AfterWait, Waiting, packetVars, callVars, handleVars
  <2>7. CASE Unparked(t)
    <3>1. select' = select /\ pc'[t] = "wait"
      BY <2>7 DEF Unparked, Goto, Typed
    <3> QED
      BY <1>1, <1>2, <2>1, <2>7, <3>1
      DEF LabelOK, Unparked, Waiting, packetVars, callVars, handleVars
  <2> QED
    BY <2>3, <2>4, <2>5, <2>6, <2>7
<1> QED
  BY <1>5, <1>6 DEF LabelsOK

\* ... registering and unregistering, ...
LEMMA LabelsRegister ==
  ASSUME Typed, IInv, NEW t \in Threads,
         Block(t) \/ Pause(t) \/ RegisterSelect(t) \/ UnregisterOper(t) \/ UnregisterSelect(t)
  PROVE  LabelsOK'
<1>1. LabelsOK /\ LabelOK(t)
  BY DEF IInv, LabelsOK
<1>2. UNCHANGED <<callVars, handleVars>>
  BY DEF Block, Pause, RegisterSelect, UnregisterOper, UnregisterSelect
<1>3. PICK l : Goto(t, l)
  BY DEF Block, Pause, RegisterSelect, UnregisterOper, UnregisterSelect
<1>4. \A u \in Threads \ {t} : select'[u] = select[u] /\ word'[u] = word[u] /\ mine'[u] = mine[u]
  BY DEF Block, Pause, RegisterSelect, UnregisterOper, UnregisterSelect, RegisterPacket, contextVars, Typed
<1>5. \A u \in Threads \ {t} : LabelOK(u)'
  BY <1>1, <1>2, <1>3, <1>4, LabelsOfOthers DEF callVars, handleVars
<1>6. LabelOK(t)'
  <2>1. pc'[t] = l
    BY <1>3 DEF Goto, Typed
  <2>2. CASE Block(t) \/ Pause(t) \/ RegisterSelect(t)
    <3>1. select'[t] = "waiting" /\ word'[t] = NoPacket
      BY <2>2 DEF Block, Pause, RegisterSelect, RegisterPacket, Typed
    <3>2. \/ pc[t] = "block" /\ pc'[t] = "wait"
          \/ pc[t] = "retry" /\ pc'[t] = "pause"
          \/ pc[t] = "register" /\ pc'[t] \in {"wait", "abort"}
      BY <2>2 DEF Block, Pause, RegisterSelect, Alone, Goto, Typed
    <3> QED
      BY <1>1, <1>2, <3>1, <3>2 DEF LabelOK, callVars, handleVars
  <2>3. CASE UnregisterOper(t)
    <3>1. /\ pc[t] = "unregister"
          /\ pc'[t] = IF select[t] = "disconnected" THEN "disconnected"
                      ELSE IF kind[t] = "block" THEN "unmet" ELSE "register"
      BY <2>3 DEF UnregisterOper, Goto, Typed
    <3>2. select' = select
      BY <2>3 DEF UnregisterOper, contextVars
    <3> QED
      BY <1>1, <1>2, <3>1, <3>2 DEF LabelOK, Waiting, callVars, handleVars
  <2>4. CASE UnregisterSelect(t)
    <3>1. /\ pc[t] = "unregister_select"
          /\ pc'[t] = IF select[t] = "operation" THEN "wait_packet"
                      ELSE IF t \in expired THEN "try" ELSE "select"
      BY <2>4 DEF UnregisterSelect, Goto, Typed
    <3>2. select' = select /\ word' = word /\ mine' = mine
      BY <2>4 DEF UnregisterSelect, contextVars
    <3> QED
      BY <1>1, <1>2, <3>1, <3>2 DEF LabelOK, Waiting, callVars, handleVars
  <2> QED
    BY <2>2, <2>3, <2>4
<1> QED
  BY <1>5, <1>6 DEF LabelsOK

\* ... waking and disconnecting, ...
LEMMA LabelsWake ==
  ASSUME Typed, IInv, NEW t \in Threads,
         Pair(t) \/ StorePacket(t) \/ Unpark(t) \/ Disconnect(t)
  PROVE  LabelsOK'
<1>1. LabelsOK /\ LabelOK(t)
  BY DEF IInv, LabelsOK
<1>2. CASE Pair(t)
  <2> DEFINE z == entries[Other(t)][cursor'].thread
  <2>1. z \in Threads /\ z # t /\ select[z] = "waiting"
    BY <1>2, SelectableIs DEF Pair, IInv
  <2>2. pc[z] # "unregister"
    BY <2>1, <1>1 DEF LabelsOK, LabelOK
  <2>3. /\ select' = [select EXCEPT ![z] = "operation"] /\ Goto(t, "store_packet")
        /\ UNCHANGED <<entries, word, token, packetVars, kind, msg, expired, calls, handleVars>>
    BY <1>2 DEF Pair
  <2> HIDE DEF z
  <2>4. \A u \in Threads : select'[u] = select[u] \/ (select'[u] = "operation" /\ pc[u] # "unregister")
    BY <2>1, <2>2, <2>3 DEF Typed
  <2>5. \A u \in Threads \ {t} : LabelOK(u)'
    BY <1>1, <2>3, <2>4, LabelsOfOthers DEF packetVars, handleVars
  <2>6. pc'[t] = "store_packet" /\ select'[t] = select[t]
    BY <2>1, <2>3 DEF Goto, Typed
  <2>7. LabelOK(t)'
    BY <1>1, <2>3, <2>6 DEF LabelOK, Waiting, handleVars
  <2> QED
    BY <2>5, <2>7 DEF LabelsOK
<1>3. CASE StorePacket(t)
  <2> DEFINE z == Partner(t)
  <2>1. mutex = t
    BY <1>3 DEF StorePacket, IInv, HolderOK
  <2>2. z \in Threads /\ z # t /\ mine[z] = entries[Other(t)][cursor].packet
    BY <1>3, <2>1, PartnerIs DEF IInv, HolderOK, StorePacket
  <2>3. /\ word' = [word EXCEPT ![z] = mine[z]] /\ Goto(t, "unpark")
        /\ UNCHANGED <<wakerVars, select, token, packetVars, callVars, handleVars>>
    BY <1>3, <2>2 DEF StorePacket
  <2> HIDE DEF z
  <2>4. \A u \in Threads : \/ word'[u] = word[u]
                           \/ word'[u] = mine[u] /\ select'[u] = "operation"
    BY <2>1, <2>2, <2>3, PartnerIs DEF Typed, IInv, z
  <2>5. \A u \in Threads \ {t} : LabelOK(u)'
    BY <1>1, <2>3, <2>4, LabelsOfOthers DEF packetVars, callVars, handleVars
  <2>6. pc'[t] = "unpark"
    BY <2>3 DEF Goto, Typed
  <2>7. LabelOK(t)'
    BY <1>1, <2>3, <2>6 DEF LabelOK, Waiting, handleVars, callVars
  <2> QED
    BY <2>5, <2>7 DEF LabelsOK
<1>4. CASE Unpark(t)
  <2>1. UNCHANGED <<select, word, packets, mine, callVars, handleVars>>
    BY <1>4 DEF Unpark
  <2>2. PICK l \in {"write", "read"} : Goto(t, l) /\ l = IF t \in Senders THEN "write" ELSE "read"
    BY <1>4 DEF Unpark
  <2>3. \A u \in Threads \ {t} : LabelOK(u)'
    BY <1>1, <2>1, <2>2, LabelsOfOthers DEF callVars, handleVars
  <2>4. pc'[t] = l
    BY <2>2 DEF Goto, Typed
  <2>5. LabelOK(t)'
    BY <1>1, <2>1, <2>2, <2>4, Sides DEF LabelOK, Waiting, handleVars, callVars
  <2> QED
    BY <2>3, <2>5 DEF LabelsOK
<1>5. CASE Disconnect(t)
  <2>1. /\ disconnected' = TRUE /\ Goto(t, "idle")
        /\ UNCHANGED <<wakerVars, word, packetVars, callVars, alive>>
    BY <1>5 DEF Disconnect
  <2>2. \A u \in Threads : \/ select'[u] = select[u]
                           \/ /\ select[u] = "waiting" /\ select'[u] = "disconnected"
                              /\ disconnected'
    BY <1>5, <2>1 DEF Disconnect
  <2>3. \A u \in Threads \ {t} : LabelOK(u)'
    BY <1>1, <2>1, <2>2, LabelsOfOthers DEF packetVars, callVars
  <2>4. pc'[t] = "idle"
    BY <2>1 DEF Goto, Typed
  <2>5. LabelOK(t)'
    BY <1>1, <2>1, <2>2, <2>4 DEF LabelOK, Waiting
  <2> QED
    BY <2>3, <2>5 DEF LabelsOK
<1> QED
  BY <1>2, <1>3, <1>4, <1>5

\* ... and everything else.
LEMMA LabelsElse ==
  ASSUME Typed, IInv, NEW t \in Threads,
         \/ BeginCall(t) \/ Expire(t) \/ DropHandle(t) \/ FindDisconnected(t) \/ GiveUpTry(t)
         \/ RetrySelect(t) \/ WaitPacket(t) \/ WaitReady(t) \/ SetReady(t) \/ Return(t)
         \/ t \in Senders /\ Write(t)
         \/ t \in Receivers /\ Read(t)
  PROVE  LabelsOK'
<1>1. LabelsOK /\ LabelOK(t)
  BY DEF IInv, LabelsOK
<1>2. UNCHANGED <<select, word, disconnected>> /\ alive' \subseteq alive
  BY DEF BeginCall, Expire, DropHandle, FindDisconnected, GiveUpTry, RetrySelect, WaitPacket,
         WaitReady, SetReady, Return, Write, Read, contextVars, handleVars
<1>3. \A u \in Threads \ {t} : kind'[u] = kind[u] /\ mine'[u] = mine[u]
  BY DEF BeginCall, Expire, DropHandle, FindDisconnected, GiveUpTry, RetrySelect, WaitPacket,
         WaitReady, SetReady, Return, Write, Read, packetVars, callVars, Typed
<1>4. CASE Expire(t) \/ (DropHandle(t) /\ UNCHANGED pc)
  <2>1. UNCHANGED <<select, word, disconnected, pc, kind, mine>>
    BY <1>2, <1>4 DEF Expire, DropHandle, packetVars, callVars
  <2>2. pc[t] = "disconnect" => alive' = alive
    BY <1>4 DEF Expire, DropHandle, handleVars
  <2>3. \A u \in Threads : LabelOK(u) => LabelOK(u)'
    BY <1>2, <2>1 DEF LabelOK, Waiting, SideOf
  <2> QED
    BY <1>1, <2>3 DEF LabelsOK
<1>5. CASE ~(Expire(t) \/ (DropHandle(t) /\ UNCHANGED pc))
  <2>1. PICK l : Goto(t, l)
    BY <1>5 DEF BeginCall, DropHandle, FindDisconnected, GiveUpTry, RetrySelect, WaitPacket,
                WaitReady, SetReady, Return, Write, Read
  <2>2. pc'[t] = l
    BY <2>1 DEF Goto, Typed
  <2>3. \A u \in Threads \ {t} : LabelOK(u)'
    BY <1>1, <1>2, <1>3, <2>1, LabelsOfOthers
  <2>4. LabelOK(t)'
    <3>1. CASE BeginCall(t)
      <4>1. pc'[t] = kind'[t] /\ kind'[t] \in {"try", "block", "select"}
        BY <3>1, ThreadAssumption DEF BeginCall, Goto, Kinds, Typed
      <4> QED
        BY <1>1, <1>2, <4>1 DEF LabelOK, Waiting
    <3>2. CASE DropHandle(t)
      <4>1. pc'[t] = "disconnect" /\ alive' \cap SideOf(t) = {}
        BY <1>5, <3>2 DEF DropHandle, Goto, Typed
      <4> QED
        BY <1>1, <1>2, <4>1 DEF LabelOK, Waiting, SideOf
    <3>3. CASE FindDisconnected(t) \/ GiveUpTry(t) \/ WaitReady(t) \/ SetReady(t) \/ Return(t)
      <4>1. pc'[t] \in {"disconnected", "unmet", "ok", "idle"}
        BY <3>3 DEF FindDisconnected, GiveUpTry, WaitReady, SetReady, Return, Goto, Typed
      <4> QED
        BY <1>1, <1>2, <4>1 DEF LabelOK, Waiting
    <3>4. CASE RetrySelect(t)
      <4>1. pc[t] = "select" /\ pc'[t] = "retry" /\ kind' = kind
        BY <3>4 DEF RetrySelect, Alone, Goto, Typed, callVars
      <4> QED
        BY <1>1, <1>2, <4>1 DEF LabelOK, Waiting
    <3>5. CASE WaitPacket(t)
      <4>1. pc'[t] = IF t \in Senders THEN "write" ELSE "read"
        BY <3>5 DEF WaitPacket, Goto, Typed
      <4> QED
        BY <1>1, <1>2, <4>1, Sides DEF LabelOK, Waiting
    <3>6. CASE (t \in Senders /\ Write(t)) \/ (t \in Receivers /\ Read(t))
      <4>1. pc'[t] \in {"set_ready", "ok"}
        BY <3>6 DEF Write, Read, Goto, Typed
      <4> QED
        BY <1>1, <1>2, <4>1 DEF LabelOK, Waiting
    <3> QED
      BY <1>5, <3>1, <3>2, <3>3, <3>4, <3>5, <3>6
  <2> QED
    BY <2>3, <2>4 DEF LabelsOK
<1> QED
  BY <1>4, <1>5
-------------------------------------------------------------------------------
(* The wakers. *)

\* A step of t leaves what is local to the other threads.
LEMMA OthersKeep ==
  ASSUME Typed, NEW t \in Threads, BeginCall(t) \/ Step(t) \/ Expire(t) \/ DropHandle(t)
  PROVE  \A u \in Threads \ {t} :
           /\ pc'[u] = pc[u] /\ kind'[u] = kind[u] /\ msg'[u] = msg[u]
           /\ mine'[u] = mine[u] /\ pk'[u] = pk[u]
<1>1. CASE BeginCall(t) \/ Expire(t) \/ DropHandle(t) \/ Return(t) \/ Disconnect(t)
  BY <1>1 DEF BeginCall, Expire, DropHandle, Return, Disconnect, Goto, packetVars, callVars, Typed
<1>2. CASE Pair(t) \/ StorePacket(t) \/ Unpark(t)
  BY <1>2 DEF Pair, StorePacket, Unpark, Goto, packetVars, callVars, Typed
<1>3. CASE Block(t) \/ Pause(t) \/ RegisterSelect(t)
  BY <1>3 DEF Block, Pause, RegisterSelect, RegisterPacket, Goto, callVars, Typed
<1>4. CASE UnregisterOper(t) \/ UnregisterSelect(t)
  BY <1>4 DEF UnregisterOper, UnregisterSelect, Goto, callVars, Typed
<1>5. CASE FindDisconnected(t) \/ GiveUpTry(t) \/ RetrySelect(t) \/ EndPause(t) \/ AbortSelect(t)
  BY <1>5 DEF FindDisconnected, GiveUpTry, RetrySelect, EndPause, AbortSelect, Goto,
              packetVars, callVars, Typed
<1>6. CASE Wait(t) \/ GiveUp(t) \/ Unparked(t)
  BY <1>6 DEF Wait, GiveUp, Unparked, Goto, packetVars, callVars, Typed
<1>7. CASE WaitPacket(t) \/ WaitReady(t) \/ SetReady(t) \/ Write(t) \/ Read(t)
  BY <1>7 DEF WaitPacket, WaitReady, SetReady, Write, Read, Goto, packetVars, callVars, Typed
<1> QED
  BY <1>1, <1>2, <1>3, <1>4, <1>5, <1>6, <1>7 DEF Step

\* t waits and nobody has selected it: it has an entry.
InWaker(t) == Waiting(t) /\ select[t] # "operation"
InWakers == {t \in Threads : InWaker(t)}

\* A step that leaves the entries, the mutex and who is in a waker.
LEMMA WakersKept ==
  ASSUME Typed, EntriesOK, HolderOK, UNCHANGED <<entries, mutex, cursor>>,
         \A u \in Threads :
           /\ InWaker(u)' <=> InWaker(u)
           /\ InWaker(u) => mine'[u] = mine[u]
           /\ select[u] = "operation" => select'[u] = "operation"
           /\ pc'[u] \in {"store_packet", "unpark"} <=> pc[u] \in {"store_packet", "unpark"}
           /\ pc'[u] = "store_packet" => pc[u] = "store_packet",
         \A h, z \in Threads : mutex = h /\ pc'[h] = "store_packet" /\ z = Partner(h) =>
           Owning(z)' /\ mine'[z] = mine[z] /\ word'[z] = word[z]
  PROVE  EntriesOK' /\ HolderOK'
<1>1. EntriesOK'
  <2>1. ASSUME NEW w \in Wakers, NEW i \in 1 .. Len(entries[w])
        PROVE  \E z \in Threads :
                 /\ z = entries[w][i].thread /\ Own(z) = w
                 /\ \A j \in 1 .. Len(entries[w]) : entries[w][j].thread = z => j = i
                 /\ \/ Claimed(w, i)'
                    \/ InWaker(z)' /\ entries[w][i].packet = mine'[z]
    <3>1. PICK z \in Threads : z = entries[w][i].thread
      BY EntryType
    <3>2. /\ Own(z) = w
          /\ \A j \in 1 .. Len(entries[w]) : entries[w][j].thread = z => j = i
          /\ Claimed(w, i) \/ (InWaker(z) /\ entries[w][i].packet = mine[z])
      BY <3>1 DEF EntriesOK, Wakers, InWaker
    <3>3. Claimed(w, i) => Claimed(w, i)'
      BY DEF Claimed, Other
    <3>4. InWaker(z) => InWaker(z)' /\ mine'[z] = mine[z]
      OBVIOUS
    <3> QED
      BY <3>1, <3>2, <3>3, <3>4
  <2>2. ASSUME NEW t \in Threads, Waiting(t)', select'[t] # "operation"
        PROVE  \E i \in 1 .. Len(entries[Own(t)]) : entries[Own(t)][i].thread = t
    <3>1. InWaker(t)
      BY <2>2 DEF InWaker
    <3> QED
      BY <3>1 DEF EntriesOK, InWaker
  <2> QED
    BY <2>1, <2>2 DEF EntriesOK, InWaker, Waiting, Claimed, Other, Wakers, Own
<1>2. HolderOK'
  <2>1. ASSUME NEW t \in Threads, mutex = t
        PROVE  /\ cursor \in 1 .. Len(entries[Other(t)])
               /\ \E z \in Threads :
                    /\ z = Partner(t) /\ select'[z] = "operation"
                    /\ pc'[t] = "store_packet" =>
                         /\ Owning(z)'
                         /\ mine'[z] = entries[Other(t)][cursor].packet
                         /\ word'[z] = NoPacket
    <3>1. Partner(t) \in Threads /\ select[Partner(t)] = "operation"
      BY <2>1, PartnerIs
    <3>2. PICK z \in Threads : z = Partner(t)
      BY <3>1
    <3>3. select'[z] = "operation"
      BY <3>1, <3>2
    <3>4. pc'[t] = "store_packet" => /\ mine[z] = entries[Other(t)][cursor].packet
                                    /\ word[z] = NoPacket
      BY <2>1, <3>2 DEF HolderOK
    <3>5. pc'[t] = "store_packet" => Owning(z)' /\ mine'[z] = mine[z] /\ word'[z] = word[z]
      BY <2>1, <3>2
    <3>6. cursor \in 1 .. Len(entries[Other(t)])
      BY <2>1 DEF HolderOK
    <3> QED
      BY <3>2, <3>3, <3>4, <3>5, <3>6
  <2>2. /\ \A t \in Threads : pc'[t] \in {"store_packet", "unpark"} <=> mutex = t
        /\ mutex = NoThread => cursor = 0
    BY DEF HolderOK
  <2>3. ASSUME NEW t \in Threads, mutex' = t
        PROVE  /\ cursor' \in 1 .. Len(entries'[Other(t)])
               /\ \E z \in Threads :
                    /\ z = entries'[Other(t)][cursor'].thread /\ select'[z] = "operation"
                    /\ pc'[t] = "store_packet" =>
                         /\ Owning(z)'
                         /\ mine'[z] = entries'[Other(t)][cursor'].packet
                         /\ word'[z] = NoPacket
    BY <2>1, <2>3 DEF Partner
  <2> QED
    BY <2>2, <2>3 DEF HolderOK, Other, Partner, Owning, Waiting
<1> QED
  BY <1>1, <1>2

\* A thread that has selected an operation uses the packet of its partner.
LEMMA HolderUses ==
  ASSUME NEW h, NEW p, pc[h] \in {"store_packet", "unpark"}, p = entries[Other(h)][cursor].packet
  PROVE  Uses(h, p) /\ ~Owning(h)
BY DEF Uses, Owning, Waiting

\* Steps outside the waits.
LEMMA WakersIdle ==
  ASSUME Typed, IInv, NEW t \in Threads,
         \/ BeginCall(t) \/ Expire(t) \/ DropHandle(t) \/ FindDisconnected(t) \/ GiveUpTry(t)
         \/ RetrySelect(t) \/ SetReady(t) \/ Return(t) \/ Write(t) \/ Read(t)
  PROVE  EntriesOK' /\ HolderOK'
<1>1. /\ \A u \in Threads \ {t} : pc'[u] = pc[u] /\ mine'[u] = mine[u]
      /\ UNCHANGED <<entries, mutex, cursor, select, word>>
  BY DEF BeginCall, Expire, DropHandle, FindDisconnected, GiveUpTry, RetrySelect, SetReady, Return,
         Write, Read, Goto, wakerVars, contextVars, packetVars, Typed
<1>2. \/ pc'[t] = pc[t] /\ mine'[t] = mine[t]
      \/ /\ pc[t] \in {"idle", "try", "block", "select", "retry", "set_ready", "write", "read"} \cup Answered
         /\ pc'[t] \in {"idle", "try", "block", "select", "retry", "disconnect", "set_ready"} \cup Answered
  BY ThreadAssumption
  DEF BeginCall, Expire, DropHandle, FindDisconnected, GiveUpTry, RetrySelect, SetReady, Return,
      Write, Read, Goto, Kinds, Attempting, Alone, packetVars, Typed, Answered
<1>3. \A u \in Threads :
        /\ InWaker(u)' <=> InWaker(u)
        /\ Owning(u)' <=> Owning(u)
        /\ Owning(u) => mine'[u] = mine[u]
        /\ pc'[u] \in {"store_packet", "unpark"} <=> pc[u] \in {"store_packet", "unpark"}
        /\ pc'[u] = "store_packet" => pc[u] = "store_packet"
  BY <1>1, <1>2 DEF InWaker, Owning, Waiting, Answered
<1>4. \A h, z \in Threads : mutex = h /\ pc[h] = "store_packet" /\ z = Partner(h) => Owning(z)
  BY DEF IInv, HolderOK
<1>5. \A u \in Threads : InWaker(u) => Owning(u)
  BY DEF InWaker, Owning
<1> QED
  BY <1>1, <1>3, <1>4, <1>5, WakersKept DEF IInv

\* Steps within a wait.
LEMMA WakersWait ==
  ASSUME Typed, IInv, NEW t \in Threads,
         EndPause(t) \/ AbortSelect(t) \/ Wait(t) \/ GiveUp(t) \/ Unparked(t)
  PROVE  EntriesOK' /\ HolderOK'
<1>1. /\ \A u \in Threads \ {t} : pc'[u] = pc[u] /\ select'[u] = select[u]
      /\ UNCHANGED <<entries, mutex, cursor, mine, word>>
  BY DEF EndPause, AbortSelect, Wait, GiveUp, Unparked, TrySelect, Goto, wakerVars, contextVars,
         packetVars, Typed
<1>2. /\ select'[t] = "operation" <=> select[t] = "operation"
      /\ Waiting(t)
      /\ IF select[t] = "operation" THEN Owning(t)' ELSE Waiting(t)'
      /\ pc'[t] \notin {"store_packet", "unpark"}
  <2>1. CASE EndPause(t)
    BY <2>1 DEF EndPause, TrySelect, Goto, Typed, Waiting, Owning
  <2>2. CASE AbortSelect(t)
    BY <2>2 DEF AbortSelect, TrySelect, Goto, Typed, Waiting, Owning
  <2>3. CASE Wait(t)
    BY <2>3 DEF Wait, AfterWait, Goto, Typed, Waiting, Owning, contextVars
  <2>4. CASE GiveUp(t)
    BY <2>4 DEF GiveUp, AfterWait, TrySelect, Goto, Typed, Waiting, Owning
  <2>5. CASE Unparked(t)
    BY <2>5 DEF Unparked, Goto, Typed, Waiting, Owning
  <2> QED
    BY <2>1, <2>2, <2>3, <2>4, <2>5
<1>3. pc[t] \notin {"store_packet", "unpark"}
  BY <1>2 DEF Waiting
<1>4. \A u \in Threads :
        /\ InWaker(u)' <=> InWaker(u)
        /\ Owning(u)' <=> Owning(u)
        /\ select[u] = "operation" => select'[u] = "operation"
        /\ pc'[u] \in {"store_packet", "unpark"} <=> pc[u] \in {"store_packet", "unpark"}
        /\ pc'[u] = "store_packet" => pc[u] = "store_packet"
  <2>1. ASSUME NEW u \in Threads \ {t}
        PROVE  /\ InWaker(u)' <=> InWaker(u)
               /\ Owning(u)' <=> Owning(u)
    BY <1>1 DEF InWaker, Owning, Waiting
  <2>2. /\ InWaker(t)' <=> InWaker(t)
        /\ Owning(t)' <=> Owning(t)
    BY <1>2 DEF InWaker, Owning
  <2> QED
    BY <1>1, <1>2, <1>3, <2>1, <2>2
<1>5. \A h, z \in Threads : mutex = h /\ pc[h] = "store_packet" /\ z = Partner(h) => Owning(z)
  BY DEF IInv, HolderOK
<1> QED
  BY <1>1, <1>4, <1>5, WakersKept DEF IInv

\* Steps of threads that have been matched, and of the last of a side.
LEMMA WakersMatched ==
  ASSUME Typed, IInv, NEW t \in Threads,
         StorePacket(t) \/ WaitPacket(t) \/ WaitReady(t) \/ Disconnect(t)
  PROVE  EntriesOK' /\ HolderOK'
<1>1. /\ \A u \in Threads \ {t} : pc'[u] = pc[u]
      /\ UNCHANGED <<entries, mutex, cursor, mine>>
  BY DEF StorePacket, WaitPacket, WaitReady, Disconnect, Goto, wakerVars, packetVars, Typed
<1>2. \A u \in Threads : /\ select[u] = "operation" <=> select'[u] = "operation"
                         /\ Waiting(u)' <=> Waiting(u)
  <2>1. ~Waiting(t) /\ pc'[t] \in {"unpark", "write", "read", "ok", "idle"}
    BY DEF StorePacket, WaitPacket, WaitReady, Disconnect, Goto, Typed, Waiting
  <2>2. \A u \in Threads : select[u] = "operation" <=> select'[u] = "operation"
    BY DEF StorePacket, WaitPacket, WaitReady, Disconnect, contextVars
  <2> QED
    BY <1>1, <2>1, <2>2 DEF Waiting
<1>3. \A u \in Threads : InWaker(u)' <=> InWaker(u)
  BY <1>2 DEF InWaker
<1>4. \A u \in Threads :
        /\ pc'[u] \in {"store_packet", "unpark"} <=> pc[u] \in {"store_packet", "unpark"}
        /\ pc'[u] = "store_packet" => pc[u] = "store_packet" /\ u # t
  <2>1. \/ pc[t] = "store_packet" /\ pc'[t] = "unpark"
        \/ /\ pc[t] \in {"wait_packet", "wait_ready", "disconnect"}
           /\ pc'[t] \in {"write", "read", "ok", "idle"}
    BY DEF StorePacket, WaitPacket, WaitReady, Disconnect, Goto, Typed
  <2> QED
    BY <1>1, <2>1
<1>5. ASSUME NEW h \in Threads, NEW z \in Threads, mutex = h, pc'[h] = "store_packet", z = Partner(h)
      PROVE  Owning(z)' /\ mine'[z] = mine[z] /\ word'[z] = word[z]
  <2>1. h # t /\ pc[h] = "store_packet"
    BY <1>4, <1>5
  <2>2. /\ Owning(z) /\ word[z] = NoPacket
        /\ mine[z] = entries[Other(h)][cursor].packet
    BY <1>5, <2>1 DEF IInv, HolderOK
  <2>3. ~Disconnect(t) /\ ~StorePacket(t)
    BY <1>5, <2>1, Sides DEF Disconnect, StorePacket, IInv, HolderOK
  <2>4. UNCHANGED <<word, mine>>
    BY <2>3 DEF WaitPacket, WaitReady, contextVars
  <2>5. CASE z = t
    <3>1. WaitReady(t)
      BY <2>2, <2>3, <2>5 DEF WaitPacket
    <3>2. Owns(z, mine[z]) /\ Uses(z, mine[z]) /\ Uses(h, mine[z]) /\ ~Owns(h, mine[z])
      BY <2>1, <2>2, HolderUses DEF Owns, Uses
    <3>3. mine[z] \in PacketIds
      BY <3>2, UsesType DEF IInv
    <3>4. packets[mine[z]].place = "stack"
      BY <2>5, <3>1, <3>2, <3>3 DEF IInv, UsersOK, LabelsOK, LabelOK, WaitReady
    <3>5. packets[mine[z]].ready
      BY <2>5, <3>1 DEF WaitReady
    <3> QED
      BY <3>2, <3>3, <3>4, <3>5 DEF IInv, UsersOK
  <2>6. CASE z # t
    BY <1>1, <2>2, <2>4, <2>6 DEF Owning, Waiting
  <2> QED
    BY <2>5, <2>6
<1> QED
  BY <1>1, <1>2, <1>3, <1>4, <1>5, WakersKept DEF IInv

\* wake_one selects the first operation that it can.
LEMMA WakersPair ==
  ASSUME Typed, IInv, NEW t \in Threads, Pair(t)
  PROVE  EntriesOK' /\ HolderOK'
<1>1. mutex = NoThread /\ Selectable(t) # {} /\ mutex' = t
  BY DEF Pair, Attempting
<1>2. PICK i \in 1 .. Len(entries[Other(t)]) : i = cursor'
  BY <1>1, SelectableIs DEF Pair, IInv
<1>3. PICK z \in Threads : z = entries[Other(t)][i].thread
  BY <1>2, Sides, EntryType
<1>4. z # t /\ select[z] = "waiting" /\ Own(z) = Other(t)
  BY <1>1, <1>2, <1>3, SelectableIs DEF Pair, IInv
<1>5. Waiting(z) /\ entries[Other(t)][i].packet = mine[z] /\ word[z] = NoPacket
  <2>1. Waiting(z) /\ entries[Other(t)][i].packet = mine[z]
    BY <1>1, <1>3, Sides, RegisteredWaits DEF IInv
  <2> QED
    BY <2>1, <1>4 DEF IInv, LabelsOK, LabelOK
<1>6. /\ select' = [select EXCEPT ![z] = "operation"]
      /\ pc' = [pc EXCEPT ![t] = "store_packet"]
      /\ UNCHANGED <<entries, mine, word>>
  BY <1>2, <1>3 DEF Pair, Goto, packetVars
<1>7. select'[z] = "operation" /\ \A u \in Threads \ {z} : select'[u] = select[u]
  BY <1>6 DEF Typed
<1>8. pc'[t] = "store_packet" /\ \A u \in Threads \ {t} : pc'[u] = pc[u]
  BY <1>6 DEF Typed
<1>9. ~Waiting(t) /\ pc[t] \notin {"store_packet", "unpark"}
  BY DEF Pair, Attempting, Waiting
<1>10. EntriesOK'
  <2>1. ASSUME NEW w \in Wakers, NEW j \in 1 .. Len(entries[w])
        PROVE  \E y \in Threads :
                 /\ y = entries[w][j].thread /\ Own(y) = w
                 /\ \A k \in 1 .. Len(entries[w]) : entries[w][k].thread = y => k = j
                 /\ \/ Claimed(w, j)'
                    \/ InWaker(y)' /\ entries[w][j].packet = mine'[y]
    <3>1. PICK y \in Threads : y = entries[w][j].thread
      BY EntryType
    <3>2. Own(y) = w /\ \A k \in 1 .. Len(entries[w]) : entries[w][k].thread = y => k = j
      BY <3>1 DEF IInv, EntriesOK, Wakers
    <3>3. InWaker(y) /\ entries[w][j].packet = mine[y]
      BY <1>1, <3>1, RegisteredWaits DEF IInv, InWaker
    <3>4. CASE y = z
      <4>1. w = Other(t) /\ j = i
        BY <3>1, <3>2, <3>4, <1>3, <1>4
      <4> QED
        BY <4>1, <3>1, <3>2, <1>1, <1>2 DEF Claimed, Other
    <3>5. CASE y # z
      <4>1. y # t
        BY <3>3, <1>9 DEF InWaker
      <4>2. InWaker(y)' /\ mine'[y] = mine[y]
        BY <3>3, <3>5, <4>1, <1>6, <1>7, <1>8 DEF InWaker, Waiting
      <4> QED
        BY <3>1, <3>2, <3>3, <4>2
    <3> QED
      BY <3>4, <3>5
  <2>2. ASSUME NEW u \in Threads, InWaker(u)'
        PROVE  \E k \in 1 .. Len(entries[Own(u)]) : entries[Own(u)][k].thread = u
    <3>1. u # t /\ u # z
      BY <2>2, <1>7, <1>8 DEF InWaker, Waiting
    <3>2. InWaker(u)
      BY <2>2, <3>1, <1>7, <1>8 DEF InWaker, Waiting
    <3> QED
      BY <3>2 DEF IInv, EntriesOK, InWaker
  <2> QED
    BY <2>1, <2>2, <1>6 DEF EntriesOK, InWaker, Waiting, Claimed, Other, Wakers, Own
<1>11. HolderOK'
  <2>1. \A u \in Threads : pc'[u] \in {"store_packet", "unpark"} <=> u = t
    BY <1>1, <1>8, UsesFree DEF IInv
  <2>2. mutex' # NoThread
    BY <1>1, Sides
  <2>3. Owning(z)' /\ mine'[z] = entries[Other(t)][i].packet /\ word'[z] = NoPacket
    BY <1>4, <1>5, <1>6, <1>8 DEF Owning, Waiting
  <2>4. entries' = entries /\ cursor' = i
    BY <1>2, <1>6
  <2>5. ASSUME NEW u \in Threads, mutex' = u
        PROVE  /\ cursor' \in 1 .. Len(entries'[Other(u)])
               /\ \E y \in Threads :
                    /\ y = entries'[Other(u)][cursor'].thread /\ select'[y] = "operation"
                    /\ Owning(y)'
                    /\ mine'[y] = entries'[Other(u)][cursor'].packet
                    /\ word'[y] = NoPacket
    BY <2>3, <2>4, <2>5, <1>1, <1>2, <1>3, <1>7
  <2> QED
    BY <1>1, <2>1, <2>2, <2>5 DEF HolderOK, Other, Partner, Owning, Waiting
<1> QED
  BY <1>10, <1>11

\* The waker with one operation removed.
LEMMA EntriesWithout ==
  ASSUME Typed, EntriesOK, NEW w \in Wakers, NEW i \in 1 .. Len(entries[w]),
         entries'[w] = RemoveAt(entries[w], i), \A v \in Wakers \ {w} : entries'[v] = entries[v]
  PROVE  /\ \A v \in Wakers \ {w} : entries'[v] = entries[v]
         /\ Len(entries'[w]) = Len(entries[w]) - 1
         /\ \A j \in 1 .. Len(entries'[w]) : \E k \in 1 .. Len(entries[w]) \ {i} :
              /\ entries'[w][j] = entries[w][k]
              /\ k = IF j < i THEN j ELSE j + 1
         /\ \A k \in 1 .. Len(entries[w]) \ {i} : \E j \in 1 .. Len(entries'[w]) :
              entries'[w][j] = entries[w][k]
<1> DEFINE q == entries[w]
           n == Len(q)
           r == RemoveAt(q, i)
<1>1. q \in Seq([thread : Threads, packet : PacketIds]) /\ n \in Nat
  BY EntryType
<1> HIDE DEF q
<1>2. /\ Len(r) = n - 1
      /\ \A j \in 1 .. n - 1 : r[j] = q[IF j < i THEN j ELSE j + 1]
  BY <1>1, RemoveAtShifts DEF q
<1>3. entries'[w] = r /\ \A v \in Wakers \ {w} : entries'[v] = entries[v]
  BY DEF q
<1>4. i \in 1 .. n
  BY DEF q
<1> HIDE DEF r, n
<1>5. ASSUME NEW j \in 1 .. n - 1
      PROVE  \E k \in 1 .. n \ {i} : r[j] = q[k] /\ k = IF j < i THEN j ELSE j + 1
  <2>1. CASE j < i
    BY <2>1, <1>1, <1>2, <1>4
  <2>2. CASE ~(j < i)
    <3>1. j + 1 \in 1 .. n \ {i}
      BY <2>2, <1>1, <1>4
    <3> QED
      BY <2>2, <3>1, <1>2
  <2> QED
    BY <2>1, <2>2
<1>6. ASSUME NEW k \in 1 .. n \ {i}
      PROVE  \E j \in 1 .. n - 1 : r[j] = q[k]
  <2>1. CASE k < i
    <3>1. k \in 1 .. n - 1
      BY <2>1, <1>1, <1>4
    <3> QED
      BY <2>1, <3>1, <1>2
  <2>2. CASE k > i
    <3>1. k - 1 \in 1 .. n - 1 /\ ~(k - 1 < i) /\ k - 1 + 1 = k
      BY <2>2, <1>1, <1>4
    <3> QED
      BY <3>1, <1>2
  <2> QED
    BY <2>1, <2>2, <1>1, <1>4
<1> QED
  BY <1>1, <1>2, <1>3, <1>5, <1>6 DEF q, n

\* An operation is removed whose thread is no longer in the waker.
LEMMA WakersRemove ==
  ASSUME Typed, EntriesOK, NEW w \in Wakers, NEW i \in 1 .. Len(entries[w]),
         entries'[w] = RemoveAt(entries[w], i), \A v \in Wakers \ {w} : entries'[v] = entries[v],
         mutex' = NoThread, \A v \in Wakers, j \in Nat : Claimed(v, j) => v = w /\ j = i,
         InWakers' = InWakers \ {entries[w][i].thread}, \A u \in InWakers' : mine'[u] = mine[u]
  PROVE  EntriesOK'
<1> DEFINE x == entries[w][i].thread
<1>0. \A u \in Threads : /\ InWaker(u)' <=> InWaker(u) /\ u # x
                         /\ InWaker(u)' => mine'[u] = mine[u]
  BY DEF InWakers
<1>1. /\ \A v \in Wakers \ {w} : entries'[v] = entries[v]
      /\ \A j \in 1 .. Len(entries'[w]) : \E k \in 1 .. Len(entries[w]) \ {i} :
           entries'[w][j] = entries[w][k] /\ k = IF j < i THEN j ELSE j + 1
      /\ \A k \in 1 .. Len(entries[w]) \ {i} : \E j \in 1 .. Len(entries'[w]) :
           entries'[w][j] = entries[w][k]
  BY EntriesWithout
<1>2. Len(entries[w]) \in Nat
  BY EntryType
<1>3. \A v \in Wakers : \A j \in 1 .. Len(entries'[v]) : \E k \in 1 .. Len(entries[v]) :
        /\ entries'[v][j] = entries[v][k]
        /\ v = w => k # i /\ k = IF j < i THEN j ELSE j + 1
        /\ v # w => k = j
  <2>1. ASSUME NEW v \in Wakers \ {w}, NEW j \in 1 .. Len(entries'[v])
        PROVE  j \in 1 .. Len(entries[v]) /\ entries'[v][j] = entries[v][j]
    BY <1>1
  <2>2. ASSUME NEW j \in 1 .. Len(entries'[w])
        PROVE  \E k \in 1 .. Len(entries[w]) :
                 entries'[w][j] = entries[w][k] /\ k # i /\ k = IF j < i THEN j ELSE j + 1
    BY <1>1
  <2>3. ASSUME NEW v \in Wakers, NEW j \in 1 .. Len(entries'[v])
        PROVE  \E k \in 1 .. Len(entries[v]) :
                 /\ entries'[v][j] = entries[v][k]
                 /\ v = w => k # i /\ k = IF j < i THEN j ELSE j + 1
                 /\ v # w => k = j
    <3>1. CASE v = w
      BY <2>2, <3>1
    <3>2. CASE v # w
      BY <2>1, <3>2
    <3> QED
      BY <3>1, <3>2
  <2> QED
    BY <2>3
<1>4. ASSUME NEW v \in Wakers, NEW j \in 1 .. Len(entries'[v])
      PROVE  \E y \in Threads :
               /\ y = entries'[v][j].thread /\ Own(y) = v
               /\ \A k \in 1 .. Len(entries'[v]) : entries'[v][k].thread = y => k = j
               /\ InWaker(y)' /\ entries'[v][j].packet = mine'[y]
  <2>1. PICK a \in 1 .. Len(entries[v]) :
          /\ entries'[v][j] = entries[v][a]
          /\ v = w => a # i /\ a = IF j < i THEN j ELSE j + 1
          /\ v # w => a = j
    BY <1>3
  <2>2. PICK y \in Threads : y = entries[v][a].thread
    BY EntryType
  <2>3. Own(y) = v /\ \A b \in 1 .. Len(entries[v]) : entries[v][b].thread = y => b = a
    BY <2>2 DEF EntriesOK, Wakers
  <2>4. a \in Nat
    BY EntryType
  <2>5. ~Claimed(v, a)
    BY <2>1, <2>4
  <2>6. InWaker(y) /\ entries[v][a].packet = mine[y]
    BY <2>2, <2>5 DEF EntriesOK, Wakers, InWaker
  <2>7. y # x
    <3>1. CASE v = w
      BY <3>1, <2>1, <2>3
    <3>2. CASE v # w
      <4>1. Own(x) = w
        BY DEF EntriesOK, Wakers
      <4> QED
        BY <4>1, <3>2, <2>3
    <3> QED
      BY <3>1, <3>2
  <2>8. InWaker(y)' /\ mine'[y] = mine[y]
    BY <2>6, <2>7, <1>0
  <2>9. ASSUME NEW k \in 1 .. Len(entries'[v]), entries'[v][k].thread = y
        PROVE  k = j
    <3>1. PICK b \in 1 .. Len(entries[v]) :
            /\ entries'[v][k] = entries[v][b]
            /\ v = w => b # i /\ b = IF k < i THEN k ELSE k + 1
            /\ v # w => b = k
      BY <1>3
    <3>2. b = a
      BY <2>3, <2>9, <3>1
    <3>3. j \in Int /\ k \in Int /\ i \in Int
      OBVIOUS
    <3>4. CASE v = w
      BY <3>1, <3>2, <3>3, <3>4, <2>1
    <3>5. CASE v # w
      BY <3>1, <3>2, <3>5, <2>1
    <3> QED
      BY <3>4, <3>5
  <2> QED
    BY <2>1, <2>2, <2>3, <2>6, <2>8, <2>9
<1>5. ASSUME NEW u \in Threads, InWaker(u)'
      PROVE  \E k \in 1 .. Len(entries'[Own(u)]) : entries'[Own(u)][k].thread = u
  <2>1. InWaker(u) /\ u # x
    BY <1>5, <1>0
  <2>2. PICK k \in 1 .. Len(entries[Own(u)]) : entries[Own(u)][k].thread = u
    BY <2>1 DEF EntriesOK, InWaker
  <2>3. Own(u) \in Wakers
    BY Sides
  <2>4. CASE Own(u) = w
    <3>1. k # i /\ k \in 1 .. Len(entries[w]) /\ entries[w][k].thread = u
      BY <2>1, <2>2, <2>4
    <3>2. PICK j \in 1 .. Len(entries'[w]) : entries'[w][j] = entries[w][k]
      BY <3>1, <1>1
    <3> QED
      BY <2>4, <3>1, <3>2
  <2>5. CASE Own(u) # w
    BY <2>2, <2>3, <2>5, <1>1
  <2> QED
    BY <2>4, <2>5
<1>6. \A v \in {"senders", "receivers"} : \A j \in 1 .. Len(entries'[v]) :
        /\ Own(entries'[v][j].thread) = v
        /\ \A k \in 1 .. Len(entries'[v]) : entries'[v][k].thread = entries'[v][j].thread => k = j
        /\ \E y \in Threads : /\ y = entries'[v][j].thread /\ InWaker(y)'
                             /\ entries'[v][j].packet = mine'[y]
  BY <1>4 DEF Wakers
<1> QED
  BY <1>5, <1>6 DEF EntriesOK, InWaker, Waiting, Own

\* wake_one removes the operation it has selected.
LEMMA WakersUnpark ==
  ASSUME Typed, IInv, NEW t \in Threads, Unpark(t)
  PROVE  EntriesOK' /\ HolderOK'
<1>1. mutex = t /\ pc[t] = "unpark"
  BY DEF Unpark, IInv, HolderOK
<1>2. /\ cursor \in 1 .. Len(entries[Other(t)]) /\ Partner(t) \in Threads
      /\ select[Partner(t)] = "operation" /\ Other(t) \in Wakers
  BY <1>1, PartnerIs, Sides DEF IInv
<1>3. /\ entries'[Other(t)] = RemoveAt(entries[Other(t)], cursor)
      /\ \A v \in Wakers \ {Other(t)} : entries'[v] = entries[v]
      /\ mutex' = NoThread /\ cursor' = 0 /\ UNCHANGED <<select, mine>>
  BY <1>2 DEF Unpark, Typed, Wakers
<1>4. /\ pc'[t] \in {"write", "read"}
      /\ \A u \in Threads \ {t} : pc'[u] = pc[u]
  BY DEF Unpark, Goto, Typed
<1>5. \A u \in Threads : InWaker(u)' <=> InWaker(u)
  BY <1>1, <1>3, <1>4 DEF InWaker, Waiting
<1>6. \A u \in Threads : InWaker(u) => u # Partner(t)
  BY <1>2 DEF InWaker
<1>7. \A v, j : Claimed(v, j) => v = Other(t) /\ j = cursor
  BY <1>1 DEF Claimed
<1>8. EntriesOK'
  <2>1. /\ InWakers' = InWakers \ {entries[Other(t)][cursor].thread}
        /\ \A u \in InWakers' : mine'[u] = mine[u]
    BY <1>3, <1>5, <1>6 DEF InWakers, Partner
  <2> QED
    BY <1>2, <1>3, <1>7, <2>1, WakersRemove DEF IInv
<1>9. HolderOK'
  <2>1. \A u \in Threads : pc'[u] \notin {"store_packet", "unpark"}
    BY <1>1, <1>4 DEF IInv, HolderOK
  <2>2. \A u \in Threads : mutex' # u
    BY <1>3, Sides
  <2> QED
    BY <1>3, <2>1, <2>2 DEF HolderOK
<1> QED
  BY <1>8, <1>9

\* A step that does not take the mutex for long.
LEMMA HolderNone ==
  ASSUME HolderOK, NEW t \in Threads, UNCHANGED <<mutex, cursor>>, mutex = NoThread,
         pc'[t] \notin {"store_packet", "unpark"}, \A u \in Threads \ {t} : pc'[u] = pc[u]
  PROVE  HolderOK'
<1>1. \A u \in Threads : pc'[u] \notin {"store_packet", "unpark"} /\ mutex' # u
  BY UsesFree, Sides
<1> QED
  BY <1>1 DEF HolderOK

\* A thread removes its own operation.
LEMMA WakersUnregister ==
  ASSUME Typed, IInv, NEW t \in Threads, UnregisterOper(t) \/ UnregisterSelect(t)
  PROVE  EntriesOK' /\ HolderOK'
<1>1. mutex = NoThread /\ UNCHANGED <<mutex, cursor, select, word, mine>>
  BY DEF UnregisterOper, UnregisterSelect, contextVars
<1>2. /\ pc[t] \in {"unregister", "unregister_select"}
      /\ pc'[t] \in {"disconnected", "unmet", "register", "wait_packet", "try", "select"}
      /\ \A u \in Threads \ {t} : pc'[u] = pc[u]
  BY DEF UnregisterOper, UnregisterSelect, Goto, Typed
<1>3. HolderOK'
  BY <1>1, <1>2, HolderNone DEF IInv
<1>4. \A u \in Threads : InWaker(u)' <=> InWaker(u) /\ u # t
  BY <1>1, <1>2 DEF InWaker, Waiting
<1>5. EntriesOK'
  <2>1. CASE Registered(t) = {}
    <3>1. ~InWaker(t)
      BY <2>1, WithdrawsRegistered DEF InWaker, IInv
    <3>2. UnregisterSelect(t)
      BY <3>1 DEF UnregisterOper, InWaker, Waiting, IInv, LabelsOK, LabelOK
    <3>3. entries' = entries
      BY <2>1, <3>2 DEF UnregisterSelect
    <3>4. \A u \in Threads : InWaker(u)' <=> InWaker(u)
      BY <1>4, <3>1
    <3>5. \A u \in Threads : pc'[u] \in {"store_packet", "unpark"} <=> pc[u] \in {"store_packet", "unpark"}
      BY <1>2
    <3>6. \A h \in Threads : mutex # h
      BY <1>1, Sides
    <3>7. \A u \in Threads : pc'[u] = "store_packet" => pc[u] = "store_packet"
      BY <1>2
    <3> QED
      BY <1>1, <3>3, <3>4, <3>5, <3>6, <3>7, WakersKept DEF IInv
  <2>2. CASE Registered(t) # {}
    <3>8. PICK w \in Wakers : w = Own(t)
      BY Sides
    <3>0. PICK i \in 1 .. Len(entries[w]) :
            i = Min(Registered(t)) /\ entries[w][i].thread = t
      BY <2>2, <3>8, RegisteredAt DEF IInv
    <3>1. entries[w][i].thread = t
      BY <3>0
    <3>2. entries' = [entries EXCEPT ![w] = RemoveAt(@, i)]
      BY <2>2, <3>8, <3>0 DEF UnregisterOper, UnregisterSelect, Forget
    <3>9. entries'[w] = RemoveAt(entries[w], i) /\ \A v \in Wakers \ {w} : entries'[v] = entries[v]
      BY <3>2 DEF Typed, Wakers
    <3>3. \A v, j : ~Claimed(v, j)
      BY <1>1, Sides DEF Claimed
    <3>4. mutex' = NoThread
      BY <1>1
    <3>5. /\ InWakers' = InWakers \ {entries[w][i].thread}
          /\ \A u \in InWakers' : mine'[u] = mine[u]
      BY <1>1, <1>4, <3>1 DEF InWakers
    <3>6. \A v \in Wakers, j \in Nat : Claimed(v, j) => v = w /\ j = i
      BY <3>3
    <3>7. EntriesOK
      BY DEF IInv
    <3> QED
      BY <3>4, <3>5, <3>6, <3>7, <3>9, WakersRemove
  <2> QED
    BY <2>1, <2>2
<1> QED
  BY <1>3, <1>5

\* A thread registers its operation.
LEMMA WakersRegister ==
  ASSUME Typed, IInv, NEW t \in Threads, Block(t) \/ Pause(t) \/ RegisterSelect(t)
  PROVE  EntriesOK' /\ HolderOK'
<1>1. mutex = NoThread /\ pc[t] \in {"block", "retry", "register"}
  BY DEF Block, Pause, RegisterSelect, Alone, Attempting
<1>2. PICK place, m : RegisterPacket(t, place, m)
  BY DEF Block, Pause, RegisterSelect
<1>3. UNCHANGED <<mutex, cursor>>
  BY <1>2 DEF RegisterPacket
<1>4. /\ pc'[t] \in {"wait", "pause", "abort"}
      /\ \A u \in Threads \ {t} : pc'[u] = pc[u]
  BY DEF Block, Pause, RegisterSelect, Goto, Typed
<1>5. HolderOK'
  BY <1>1, <1>3, <1>4, HolderNone DEF IInv
<1>6. ~InWaker(t) /\ InWaker(t)'
  BY <1>1, <1>2, <1>4 DEF InWaker, Waiting, RegisterPacket, Typed
<1>7. \A u \in Threads \ {t} : (InWaker(u)' <=> InWaker(u)) /\ mine'[u] = mine[u]
  BY <1>2, <1>4 DEF InWaker, Waiting, RegisterPacket, Typed
<1> DEFINE w == Own(t)
           n == Len(entries[w])
           e == [thread |-> t, packet |-> mine'[t]]
<1>8. w \in Wakers /\ n \in Nat /\ entries[w] \in Seq([thread : Threads, packet : PacketIds])
  BY Sides, EntryType
<1>9. mine'[t] \in PacketIds
  <2>1. \A p : ~Uses(t, p)
    BY <1>1, UsesNone DEF Waiting
  <2> QED
    BY <2>1, <1>1, <1>2, FreshIdFree DEF RegisterPacket, Typed, IInv
<1>10. entries' = [entries EXCEPT ![w] = Append(@, e)]
  BY <1>2 DEF RegisterPacket, Typed
<1>11. e \in [thread : Threads, packet : PacketIds] /\ e.thread = t /\ e.packet = mine'[t]
  BY <1>9
<1>12. w = Own(t)
  OBVIOUS
<1> HIDE DEF w, e
<1>13. /\ \A v \in Wakers \ {w} : entries'[v] = entries[v]
       /\ entries'[w] = Append(entries[w], e)
  BY <1>8, <1>10 DEF Typed, Wakers
<1>14. /\ Len(entries'[w]) = n + 1 /\ entries'[w][n + 1] = e
       /\ \A i \in 1 .. n : entries'[w][i] = entries[w][i]
  BY <1>8, <1>11, <1>13, AppendProperties
<1>15. \A v \in Wakers : \A j \in 1 .. Len(entries[v]) :
         LET y == entries[v][j].thread IN
         y \in Threads /\ y # t /\ Own(y) = v /\ InWaker(y) /\ entries[v][j].packet = mine[y]
  BY <1>1, <1>6, RegisteredWaits DEF InWaker, IInv
<1>16. ASSUME NEW v \in Wakers, NEW j \in 1 .. Len(entries'[v])
       PROVE  \/ v = w /\ j = n + 1 /\ entries'[v][j] = e
              \/ j \in 1 .. Len(entries[v]) /\ entries'[v][j] = entries[v][j]
  <2>1. CASE v = w
    <3>1. j = n + 1 \/ j \in 1 .. n
      BY <2>1, <1>8, <1>14
    <3> QED
      BY <2>1, <3>1, <1>14
  <2>2. CASE v # w
    BY <2>2, <1>13
  <2> QED
    BY <2>1, <2>2
<1>17. ASSUME NEW v \in Wakers, NEW j \in 1 .. Len(entries'[v])
       PROVE  /\ Own(entries'[v][j].thread) = v
              /\ \A k \in 1 .. Len(entries'[v]) : entries'[v][k].thread = entries'[v][j].thread => k = j
              /\ \E y \in Threads : /\ y = entries'[v][j].thread /\ InWaker(y)'
                                    /\ entries'[v][j].packet = mine'[y]
  <2>1. CASE v = w /\ j = n + 1 /\ entries'[v][j] = e
    <3>1. Own(entries'[v][j].thread) = v
      BY <2>1, <1>11, <1>12
    <3>2. ASSUME NEW k \in 1 .. Len(entries'[v]), entries'[v][k].thread = entries'[v][j].thread
          PROVE  k = j
      <4>1. entries'[v][k].thread = t
        BY <2>1, <3>2, <1>11
      <4>2. \A i \in 1 .. Len(entries[v]) : entries[v][i].thread # t
        BY <1>15
      <4> QED
        BY <2>1, <4>1, <4>2, <1>16
    <3> QED
      BY <3>1, <3>2, <2>1, <1>6, <1>11
  <2>2. CASE j \in 1 .. Len(entries[v]) /\ entries'[v][j] = entries[v][j]
    <3>1. PICK y \in Threads : y = entries[v][j].thread
      BY <2>2, EntryType
    <3>2. y # t /\ Own(y) = v /\ InWaker(y) /\ entries[v][j].packet = mine[y]
      BY <2>2, <3>1, <1>15
    <3>3. InWaker(y)' /\ mine'[y] = mine[y]
      BY <3>2, <1>7
    <3>4. ASSUME NEW k \in 1 .. Len(entries'[v]), entries'[v][k].thread = y
          PROVE  k = j
      <4>1. k \in 1 .. Len(entries[v]) /\ entries[v][k].thread = y
        BY <3>2, <3>4, <1>11, <1>16
      <4> QED
        BY <4>1, <2>2, <3>1 DEF IInv, EntriesOK, Wakers
    <3> QED
      BY <2>2, <3>1, <3>2, <3>3, <3>4
  <2> QED
    BY <2>1, <2>2, <1>16
<1>18. ASSUME NEW u \in Threads, InWaker(u)'
       PROVE  \E k \in 1 .. Len(entries'[Own(u)]) : entries'[Own(u)][k].thread = u
  <2>1. CASE u = t
    <3>1. n + 1 \in 1 .. Len(entries'[w])
      BY <1>8, <1>14
    <3> QED
      BY <2>1, <3>1, <1>11, <1>12, <1>14
  <2>2. CASE u # t
    <3>1. InWaker(u)
      BY <1>7, <1>18, <2>2
    <3>2. PICK k \in 1 .. Len(entries[Own(u)]) : entries[Own(u)][k].thread = u
      BY <3>1 DEF IInv, EntriesOK, InWaker
    <3>3. k \in 1 .. Len(entries'[Own(u)]) /\ entries'[Own(u)][k] = entries[Own(u)][k]
      BY <3>2, <1>8, <1>13, <1>14, Sides
    <3> QED
      BY <3>2, <3>3
  <2> QED
    BY <2>1, <2>2
<1>19. EntriesOK'
  BY <1>17, <1>18 DEF EntriesOK, InWaker, Waiting, Own, Wakers
<1> QED
  BY <1>5, <1>19
-------------------------------------------------------------------------------
(* The packets. *)

Ids == PacketIds \cup {NoPacket}

\* A step that leaves the packets, who uses them and what its users are about.
SameUsers ==
  /\ packets' = packets
  /\ \A u \in Threads : \A p \in Ids :
       /\ Uses(u, p)' <=> Uses(u, p)
       /\ Uses(u, p) =>
            /\ Owns(u, p)' => Owns(u, p)
            /\ packets[p].place = "stack" /\ Owns(u, p) => Owns(u, p)'
            /\ Matched(u)' <=> Matched(u)
            /\ pc'[u] = "set_ready" <=> pc[u] = "set_ready"
            /\ kind'[u] = kind[u] /\ msg'[u] = msg[u] /\ promised'[u] = promised[u]

LEMMA PacketsKept ==
  ASSUME Typed, Typed', UsersOK, MessagesOK, SameUsers
  PROVE  UsersOK' /\ MessagesOK'
<1>1. ASSUME NEW p \in PacketIds
      PROVE  /\ packets'[p].place = "none" => packets'[p] = Absent
             /\ packets'[p].place # "none" => \E u \in Threads : Uses(u, p)'
  BY DEF UsersOK, SameUsers, Ids
<1>2. ASSUME NEW u \in Threads, NEW p \in Ids, Uses(u, p)'
      PROVE  /\ p \in PacketIds /\ packets'[p].place # "none"
             /\ Owns(u, p)' => p[1] = u /\ (packets'[p].place = "stack" <=> kind'[u] = "block")
             /\ ~Matched(u)' => ~packets'[p].ready
             /\ packets'[p].ready =>
                  IF packets'[p].place = "stack" THEN Owns(u, p)' ELSE u \in Receivers
             /\ pc'[u] = "set_ready" /\ u \in Receivers => packets'[p].place = "stack"
             /\ Matched(u)' /\ ~packets'[p].ready => \E v \in Threads \ {u} : Uses(v, p)'
  <2>1. Uses(u, p)
    BY <1>2 DEF SameUsers
  <2> QED
    BY <2>1 DEF UsersOK, SameUsers, Ids
<1>3. ASSUME NEW u \in Threads, NEW v \in Threads \ {u}, NEW p \in Ids, Uses(u, p)', Uses(v, p)'
      PROVE  /\ Own(u) # Own(v) /\ Matched(u)'
             /\ packets'[p].place = "stack" => Owns(u, p)' \/ Owns(v, p)'
  <2>1. Uses(u, p) /\ Uses(v, p)
    BY <1>3 DEF SameUsers
  <2> QED
    BY <2>1 DEF UsersOK, SameUsers, Ids
<1>4. ASSUME NEW s \in Senders, NEW p \in PacketIds, Uses(s, p)'
      PROVE  /\ pc'[s] = "set_ready" \/ (packets'[p].place = "stack" /\ Owns(s, p)') =>
                  packets'[p].msg = msg'[s]
             /\ \A r \in Receivers : Uses(r, p)' => promised'[r] = msg'[s]
  BY <1>4 DEF MessagesOK, SameUsers, Ids, Threads
<1>5. ASSUME NEW r \in Receivers
      PROVE  /\ \A p \in PacketIds : Uses(r, p)' /\ packets'[p].ready => packets'[p].msg = promised'[r]
             /\ pc'[r] = "set_ready" => msg'[r] = promised'[r]
  <2>1. ASSUME pc'[r] = "set_ready"
        PROVE  msg'[r] = promised'[r]
    <3>1. PICK p \in Ids : p = pk'[r]
      BY DEF Typed, Threads, Ids
    <3>2. Uses(r, p)'
      BY <2>1, <3>1 DEF Uses
    <3> QED
      BY <2>1, <3>2 DEF MessagesOK, SameUsers, Threads
  <2> QED
    BY <2>1 DEF MessagesOK, SameUsers, Ids, Threads
<1>6. UsersOK'
  BY <1>1, <1>2, <1>3 DEF UsersOK, Ids, Own
<1> QED
  BY <1>4, <1>5, <1>6 DEF MessagesOK

\* What thread u is to the packets after a step, if it goes on with the one it uses.
SameUser(u) ==
  \A p \in Ids :
    /\ Uses(u, p)' <=> Uses(u, p)
    /\ Uses(u, p) =>
         /\ Owns(u, p)' => Owns(u, p)
         /\ packets[p].place = "stack" /\ Owns(u, p) => Owns(u, p)'
         /\ Matched(u)' <=> Matched(u)
         /\ pc'[u] = "set_ready" <=> pc[u] = "set_ready"
         /\ kind'[u] = kind[u] /\ msg'[u] = msg[u] /\ promised'[u] = promised[u]

\* What is local to u is left by the step, and so is the entry that the mutex is held for.
LEMMA OtherUser ==
  ASSUME NEW u \in Threads, UNCHANGED <<entries, cursor>>,
         pc'[u] = pc[u], kind'[u] = kind[u], msg'[u] = msg[u], promised'[u] = promised[u],
         mine'[u] = mine[u], pk'[u] = pk[u],
         select'[u] = "operation" <=> select[u] = "operation"
  PROVE  SameUser(u)
<1>1. \A p \in Ids : (Uses(u, p)' <=> Uses(u, p)) /\ (Owns(u, p)' <=> Owns(u, p))
  BY DEF Uses, Owns, Owning, Waiting, Other
<1>2. Matched(u)' <=> Matched(u)
  BY DEF Matched, Waiting
<1> QED
  BY <1>1, <1>2 DEF SameUser

\* The steps of threads that use no packet, and the passing of time.
LEMMA PacketsIdle ==
  ASSUME Typed, Typed', IInv, NEW t \in Threads,
         \/ BeginCall(t) \/ Expire(t) \/ DropHandle(t) \/ FindDisconnected(t) \/ GiveUpTry(t)
         \/ RetrySelect(t) \/ Return(t) \/ Disconnect(t)
  PROVE  UsersOK' /\ MessagesOK'
<1>1. /\ UNCHANGED <<packets, entries, cursor>>
      /\ \A u \in Threads \ {t} : promised'[u] = promised[u]
      /\ \A u \in Threads : select'[u] = "operation" <=> select[u] = "operation"
  BY DEF BeginCall, Expire, DropHandle, FindDisconnected, GiveUpTry, RetrySelect, Return, Disconnect,
         wakerVars, packetVars, contextVars, callVars, Typed
<1>2. \A u \in Threads \ {t} : SameUser(u)
  BY <1>1, OthersKeep, OtherUser DEF Step
<1>3. SameUser(t)
  <2>1. CASE UNCHANGED <<pc, kind, msg, promised, mine, pk>>
    BY <2>1, <1>1, OtherUser
  <2>2. CASE /\ pc[t] \in {"idle", "try", "block", "select", "retry", "disconnect"} \cup Answered
             /\ pc'[t] \in {"idle", "try", "block", "select", "retry", "disconnect"} \cup Answered
    BY <2>2 DEF Uses, Owns, Owning, Waiting, Answered, SameUser
  <2> QED
    BY <2>1, <2>2, ThreadAssumption
    DEF BeginCall, Expire, DropHandle, FindDisconnected, GiveUpTry, RetrySelect, Return, Disconnect,
        Goto, Kinds, Attempting, Alone, packetVars, callVars, Typed, Answered
<1>4. SameUsers
  BY <1>1, <1>2, <1>3 DEF SameUsers, SameUser
<1> QED
  BY <1>4, PacketsKept DEF IInv

\* Steps within a wait and after a match, which leave the packets.
LEMMA PacketsWait ==
  ASSUME Typed, Typed', IInv, NEW t \in Threads,
         \/ EndPause(t) \/ AbortSelect(t) \/ Wait(t) \/ GiveUp(t) \/ Unparked(t)
         \/ StorePacket(t) \/ WaitPacket(t)
  PROVE  UsersOK' /\ MessagesOK'
<1>1. /\ UNCHANGED <<packets, entries, cursor, kind, msg, promised, mine>>
      /\ \A u \in Threads : select'[u] = "operation" <=> select[u] = "operation"
  BY DEF EndPause, AbortSelect, Wait, GiveUp, Unparked, StorePacket, WaitPacket, TrySelect,
         wakerVars, packetVars, contextVars, callVars, Typed
<1>2. \A u \in Threads \ {t} : SameUser(u)
  BY <1>1, OthersKeep, OtherUser DEF Step
<1>3. SameUser(t)
  <2>1. CASE EndPause(t) \/ AbortSelect(t) \/ Wait(t) \/ GiveUp(t) \/ Unparked(t)
    <3>1. Waiting(t) /\ pk'[t] = pk[t]
      BY <2>1 DEF EndPause, AbortSelect, Wait, GiveUp, Unparked, Waiting, packetVars
    <3>2. IF select[t] = "operation" THEN Waiting(t)' \/ pc'[t] \in {"wait_packet", "wait_ready"}
                                     ELSE Waiting(t)'
      BY <2>1, <1>1 DEF EndPause, AbortSelect, Wait, GiveUp, Unparked, AfterWait, TrySelect, Goto, Typed,
                   Waiting, contextVars
    <3>3. \A p \in Ids : (Uses(t, p)' <=> Uses(t, p)) /\ (Owns(t, p)' <=> Owns(t, p))
      BY <1>1, <3>1, <3>2 DEF Uses, Owns, Owning, Waiting
    <3>4. Matched(t)' <=> Matched(t)
      BY <1>1, <3>1, <3>2 DEF Matched, Waiting
    <3>5. pc'[t] # "set_ready" /\ pc[t] # "set_ready"
      BY <3>1, <3>2 DEF Waiting
    <3> QED
      BY <1>1, <3>3, <3>4, <3>5 DEF SameUser
  <2>2. CASE StorePacket(t)
    <3>1. pc[t] = "store_packet" /\ pc'[t] = "unpark"
      BY <2>2 DEF StorePacket, Goto, Typed
    <3> QED
      BY <1>1, <3>1 DEF SameUser, Uses, Owns, Owning, Waiting, Matched, Other
  <2>3. CASE WaitPacket(t)
    <3>1. pc[t] = "wait_packet" /\ pc'[t] \in {"write", "read"} /\ pk'[t] = mine[t]
      BY <2>3 DEF WaitPacket, Goto, Typed, IInv, LabelsOK, LabelOK
    <3>2. kind[t] = "select"
      BY <3>1 DEF IInv, LabelsOK, LabelOK
    <3>3. \A p \in Ids : Uses(t, p) => packets[p].place # "stack"
      BY <3>1, <3>2 DEF IInv, UsersOK, Uses, Owns, Owning, Waiting, Ids
    <3> QED
      BY <1>1, <3>1, <3>3 DEF SameUser, Uses, Owns, Owning, Waiting, Matched
  <2> QED
    BY <2>1, <2>2, <2>3
<1>4. SameUsers
  BY <1>1, <1>2, <1>3 DEF SameUsers, SameUser
<1> QED
  BY <1>4, PacketsKept DEF IInv

\* wake_one ends: the packet of the removed entry goes into the token.
LEMMA PacketsUnpark ==
  ASSUME Typed, Typed', IInv, NEW t \in Threads, Unpark(t)
  PROVE  UsersOK' /\ MessagesOK'
<1>1. /\ UNCHANGED <<packets, select, kind, msg, promised, mine>>
      /\ pc[t] = "unpark" /\ mutex = t
  BY DEF Unpark, callVars, IInv, HolderOK
<1>2. /\ pc'[t] \in {"write", "read"} /\ pk'[t] = entries[Other(t)][cursor].packet
      /\ \A u \in Threads \ {t} : pc'[u] = pc[u] /\ pk'[u] = pk[u]
  BY DEF Unpark, Goto, Typed
<1>3. \A u \in Threads \ {t} : pc[u] \notin {"store_packet", "unpark"}
  BY <1>1 DEF IInv, HolderOK
<1>4. ASSUME NEW u \in Threads \ {t}
      PROVE  SameUser(u)
  BY <1>1, <1>2, <1>3 DEF SameUser, Uses, Owns, Owning, Waiting, Matched
<1>5. SameUser(t)
  BY <1>1, <1>2 DEF SameUser, Uses, Owns, Owning, Waiting, Matched
<1>6. SameUsers
  BY <1>1, <1>4, <1>5 DEF SameUsers, SameUser
<1> QED
  BY <1>6, PacketsKept DEF IInv

\* Nothing has to be unregistered: t has been selected.
LEMMA PacketsUnregistered ==
  ASSUME Typed, Typed', IInv, NEW t \in Threads, UnregisterSelect(t), Registered(t) = {}
  PROVE  UsersOK' /\ MessagesOK'
<1>1. UNCHANGED <<packets, entries, cursor, select, kind, msg, promised, mine, pk>>
  BY DEF UnregisterSelect, contextVars, callVars
<1>2. pc[t] = "unregister_select" /\ select[t] = "operation"
  BY WithdrawsRegistered DEF IInv, UnregisterSelect, Waiting
<1>3. pc'[t] = "wait_packet"
  BY <1>2 DEF UnregisterSelect, Goto, Typed
<1>4. \A u \in Threads \ {t} : SameUser(u)
  BY <1>1, OthersKeep, OtherUser DEF Step
<1>5. SameUser(t)
  BY <1>1, <1>2, <1>3 DEF SameUser, Uses, Owns, Owning, Waiting, Matched
<1>6. SameUsers
  BY <1>1, <1>4, <1>5 DEF SameUsers, SameUser
<1> QED
  BY <1>6, PacketsKept DEF IInv

\* What UsersOK and MessagesOK say of one packet.
PacketOK(p) ==
  /\ packets[p].place = "none" => packets[p] = Absent
  /\ packets[p].place # "none" => \E t \in Threads : Uses(t, p)
  /\ \A t \in Threads : Uses(t, p) =>
       /\ packets[p].place # "none"
       /\ Owns(t, p) => p[1] = t /\ (packets[p].place = "stack" <=> kind[t] = "block")
       /\ ~Matched(t) => ~packets[p].ready
       /\ packets[p].ready =>
            IF packets[p].place = "stack" THEN Owns(t, p) ELSE t \in Receivers
       /\ pc[t] = "set_ready" /\ t \in Receivers => packets[p].place = "stack"
       /\ Matched(t) /\ ~packets[p].ready => \E u \in Threads \ {t} : Uses(u, p)
       /\ \A u \in Threads \ {t} : Uses(u, p) =>
            /\ Own(t) # Own(u) /\ Matched(t)
            /\ packets[p].place = "stack" => Owns(t, p) \/ Owns(u, p)
  /\ \A s \in Senders : Uses(s, p) =>
       /\ pc[s] = "set_ready" \/ (packets[p].place = "stack" /\ Owns(s, p)) =>
            packets[p].msg = msg[s]
       /\ \A r \in Receivers : Uses(r, p) => promised[r] = msg[s]
  /\ \A r \in Receivers : Uses(r, p) =>
       /\ packets[p].ready => packets[p].msg = promised[r]
       /\ pc[r] = "set_ready" => msg[r] = promised[r]

PacketsOK == \A p \in Ids : IF p \in PacketIds THEN PacketOK(p) ELSE \A t \in Threads : ~Uses(t, p)

LEMMA PacketsSplit ==
  Typed => (UsersOK /\ MessagesOK <=> PacketsOK)
<1> SUFFICES ASSUME Typed
             PROVE  UsersOK /\ MessagesOK <=> PacketsOK
  OBVIOUS
<1>1. ASSUME UsersOK, MessagesOK, NEW p \in Ids
      PROVE  IF p \in PacketIds THEN PacketOK(p) ELSE \A t \in Threads : ~Uses(t, p)
  <2>1. CASE p \notin PacketIds
    BY <1>1, <2>1 DEF UsersOK, Ids
  <2>2. CASE p \in PacketIds
    <3>1. ASSUME NEW r \in Receivers, Uses(r, p), pc[r] = "set_ready"
          PROVE  msg[r] = promised[r]
      BY <1>1, <3>1 DEF MessagesOK
    <3> QED
      BY <1>1, <2>2, <3>1 DEF PacketOK, UsersOK, MessagesOK, Ids
  <2> QED
    BY <2>1, <2>2
<1>2. ASSUME PacketsOK
      PROVE  UsersOK
  BY <1>2 DEF UsersOK, PacketsOK, PacketOK, Ids
<1>3. ASSUME PacketsOK
      PROVE  MessagesOK
  <2>1. ASSUME NEW r \in Receivers, pc[r] = "set_ready"
        PROVE  msg[r] = promised[r]
    <3>1. pk[r] \in Ids /\ Uses(r, pk[r]) /\ r \in Threads
      BY <2>1 DEF Uses, Typed, Threads, Ids
    <3> QED
      BY <1>3, <2>1, <3>1 DEF PacketsOK, PacketOK
  <2> QED
    BY <1>3, <2>1 DEF MessagesOK, PacketsOK, PacketOK, Ids
<1> QED
  BY <1>1, <1>2, <1>3 DEF PacketsOK

\* A step that is about packet q only.
AboutOnly(q) ==
  \A p \in Ids \ {q} :
    /\ p \in PacketIds => packets'[p] = packets[p]
    /\ \A u \in Threads :
         /\ Uses(u, p)' <=> Uses(u, p)
         /\ Uses(u, p) =>
              /\ Owns(u, p)' <=> Owns(u, p)
              /\ Matched(u)' <=> Matched(u)
              /\ pc'[u] = "set_ready" <=> pc[u] = "set_ready"
              /\ kind'[u] = kind[u] /\ msg'[u] = msg[u] /\ promised'[u] = promised[u]

LEMMA PacketsElse ==
  ASSUME Typed, Typed', UsersOK, MessagesOK, NEW q \in PacketIds, AboutOnly(q),
         PacketOK(q)'
  PROVE  UsersOK' /\ MessagesOK'
<1>1. PacketsOK
  BY PacketsSplit
<1>2. ASSUME NEW p \in PacketIds \ {q}
      PROVE  PacketOK(p)'
  <2>1. packets'[p] = packets[p] /\ PacketOK(p)
    BY <1>1 DEF AboutOnly, PacketsOK, Ids
  <2>2. \A u \in Threads :
          /\ Uses(u, p)' <=> Uses(u, p)
          /\ Uses(u, p) =>
               /\ Owns(u, p)' <=> Owns(u, p)
               /\ Matched(u)' <=> Matched(u)
               /\ pc'[u] = "set_ready" <=> pc[u] = "set_ready"
               /\ kind'[u] = kind[u] /\ msg'[u] = msg[u] /\ promised'[u] = promised[u]
    BY DEF AboutOnly, Ids
  <2> QED
    BY <2>1, <2>2 DEF PacketOK, Own, Threads
<1>3. ASSUME NEW p \in Ids, p \notin PacketIds, NEW u \in Threads
      PROVE  ~Uses(u, p)'
  BY <1>1, <1>3 DEF PacketsOK, AboutOnly
<1>4. PacketsOK'
  BY <1>2, <1>3 DEF PacketsOK, Ids
<1> QED
  BY <1>4, PacketsSplit, PTL

\* An operation that nobody has selected is withdrawn with its packet, which
\* nobody else uses.
LEMMA PacketsForget ==
  ASSUME Typed, Typed', IInv, NEW t \in Threads, UnregisterOper(t) \/ UnregisterSelect(t),
         Registered(t) # {}
  PROVE  UsersOK' /\ MessagesOK'
<1>1. /\ mutex = NoThread /\ pc[t] \in {"unregister", "unregister_select"}
      /\ UNCHANGED <<select, kind, msg, promised, mine, pk>>
      /\ \A u \in Threads \ {t} : pc'[u] = pc[u]
  BY DEF UnregisterOper, UnregisterSelect, Goto, Typed, contextVars, callVars
<1>2. select[t] # "operation" /\ Waiting(t)
  <2>1. PICK i \in 1 .. Len(entries[Own(t)]) : entries[Own(t)][i].thread = t
    BY DEF Registered
  <2> QED
    BY <1>1, <2>1, RegisteredWaits, Sides DEF IInv
<1>3. pc'[t] \in {"disconnected", "unmet", "register", "try", "select"}
  BY <1>2 DEF UnregisterOper, UnregisterSelect, Goto, Typed
<1>4. PICK q \in Ids : q = mine[t]
  BY DEF Typed, Ids
<1>5. Owns(t, q) /\ Uses(t, q)
  BY <1>2, <1>4 DEF Owns, Owning, Uses
<1>6. q \in PacketIds
  BY <1>5, UsesType DEF IInv
<1>7. packets' = [packets EXCEPT ![q] = Absent]
  BY <1>4, <1>5 DEF UnregisterOper, UnregisterSelect, Forget, Destroy
<1>8. \A u \in Threads \ {t} : ~Uses(u, q)
  BY <1>2, <1>5, <1>1, <1>6 DEF IInv, UsersOK, Matched, Waiting
<1>9. \A p \in PacketIds \ {q} : packets'[p] = packets[p]
  BY <1>7 DEF Typed
<1>10. packets'[q] = Absent
  BY <1>6, <1>7 DEF Typed
<1>11. /\ \A u \in Threads : pc[u] \notin {"store_packet", "unpark"}
       /\ \A u \in Threads : pc'[u] \notin {"store_packet", "unpark"}
  BY <1>1, <1>3, UsesFree DEF IInv
<1>12. ASSUME NEW u \in Threads, NEW p \in Ids
       PROVE  Uses(u, p)' <=> Uses(u, p) /\ u # t
  BY <1>1, <1>3, <1>11 DEF Uses, Owns, Owning, Waiting
<1>13. \A p \in Ids : Uses(t, p) => p = q
  BY <1>5, UsesOne
<1>14. AboutOnly(q)
  <2>1. \A p \in Ids \ {q} : ~Uses(t, p)
    BY <1>13
  <2>2. ASSUME NEW u \in Threads \ {t}, NEW p \in Ids
        PROVE  (Owns(u, p)' <=> Owns(u, p)) /\ (Matched(u)' <=> Matched(u))
    BY <1>1 DEF Owns, Owning, Waiting, Matched
  <2>3. \A u \in Threads \ {t} : pc'[u] = pc[u] /\ kind'[u] = kind[u] /\ msg'[u] = msg[u]
    BY <1>1
  <2> QED
    BY <1>1, <1>9, <1>12, <2>1, <2>2, <2>3 DEF AboutOnly
<1>15. \A u \in Threads : ~Uses(u, q)'
  BY <1>8, <1>12
<1>16. PacketOK(q)'
  BY <1>10, <1>15, Sides DEF PacketOK, Absent, Threads
<1> QED
  BY <1>6, <1>14, <1>16, PacketsElse DEF IInv

\* An operation is registered with a new packet, which nobody else uses.
LEMMA PacketsRegister ==
  ASSUME Typed, Typed', IInv, NEW t \in Threads, Block(t) \/ Pause(t) \/ RegisterSelect(t)
  PROVE  UsersOK' /\ MessagesOK'
<1>1. /\ mutex = NoThread /\ pc[t] \in {"block", "retry", "register"}
      /\ pc'[t] \in {"wait", "pause", "abort"}
      /\ UNCHANGED <<kind, msg, promised>>
      /\ \A u \in Threads \ {t} : pc'[u] = pc[u]
  BY DEF Block, Pause, RegisterSelect, Alone, Attempting, Goto, Typed, callVars
<1>2. PICK place \in {"stack", "heap"}, m \in Messages \cup {NoMsg} :
        /\ RegisterPacket(t, place, m)
        /\ place = "stack" <=> kind[t] = "block"
        /\ place = "stack" => m = msg[t]
  <2>1. CASE Block(t)
    <3>1. kind[t] = "block" /\ RegisterPacket(t, "stack", msg[t])
      BY <2>1 DEF Block, Alone, IInv, LabelsOK, LabelOK
    <3>2. msg[t] \in Messages \cup {NoMsg}
      BY DEF Typed
    <3> QED
      BY <3>1, <3>2
  <2>2. CASE Pause(t) \/ RegisterSelect(t)
    <3>1. kind[t] = "select" /\ RegisterPacket(t, "heap", NoMsg)
      BY <2>2 DEF Pause, RegisterSelect, Alone, IInv, LabelsOK, LabelOK
    <3> QED
      BY <3>1
  <2> QED
    BY <2>1, <2>2
<1>3. \A p : ~Uses(t, p)
  BY <1>1, UsesNone DEF Waiting
<1>4. PICK q \in PacketIds : q = FreshId(t) /\ q[1] = t /\ packets[q].place = "none"
  BY <1>1, <1>3, FreshIdFree DEF IInv
<1>5. /\ packets' = [packets EXCEPT ![q] = [place |-> place, msg |-> m, ready |-> FALSE]]
      /\ mine' = [mine EXCEPT ![t] = q]
      /\ select' = [select EXCEPT ![t] = "waiting"]
      /\ UNCHANGED pk
  BY <1>2, <1>4 DEF RegisterPacket
<1>6. /\ \A p \in PacketIds \ {q} : packets'[p] = packets[p]
      /\ packets'[q] = [place |-> place, msg |-> m, ready |-> FALSE]
      /\ mine'[t] = q /\ select'[t] = "waiting"
      /\ \A u \in Threads \ {t} : mine'[u] = mine[u] /\ select'[u] = select[u]
  BY <1>5 DEF Typed
<1>7. \A u \in Threads : ~Uses(u, q)
  BY <1>4, UsesType DEF IInv
<1>8. /\ \A u \in Threads : pc[u] \notin {"store_packet", "unpark"}
      /\ \A u \in Threads : pc'[u] \notin {"store_packet", "unpark"}
  BY <1>1, UsesFree DEF IInv
<1>9. ASSUME NEW u \in Threads \ {t}, NEW p \in Ids
      PROVE  /\ Uses(u, p)' <=> Uses(u, p)
             /\ Owns(u, p)' <=> Owns(u, p)
             /\ Matched(u)' <=> Matched(u)
  BY <1>1, <1>5, <1>6, <1>8 DEF Uses, Owns, Owning, Waiting, Matched
<1>10. /\ \A p \in Ids : Uses(t, p)' <=> p = q
       /\ Owns(t, q)' /\ ~Matched(t)'
  BY <1>1, <1>6 DEF Uses, Owns, Owning, Waiting, Matched
<1>11. AboutOnly(q)
  BY <1>1, <1>3, <1>6, <1>9, <1>10 DEF AboutOnly
<1>12. \A u \in Threads : Uses(u, q)' <=> u = t
  BY <1>7, <1>9, <1>10 DEF Ids
<1>13. PacketOK(q)'
  BY <1>1, <1>2, <1>4, <1>6, <1>10, <1>12, Sides DEF PacketOK, Threads
<1> QED
  BY <1>11, <1>13, PacketsElse DEF IInv

\* A blocked call returns when its partner is done with the packet on its stack.
LEMMA PacketsReturn ==
  ASSUME Typed, Typed', IInv, NEW t \in Threads, WaitReady(t)
  PROVE  UsersOK' /\ MessagesOK'
<1>1. /\ pc[t] = "wait_ready" /\ pc'[t] = "ok"
      /\ UNCHANGED <<entries, mutex, cursor, select, kind, promised, mine, pk>>
      /\ \A u \in Threads \ {t} : pc'[u] = pc[u] /\ msg'[u] = msg[u]
  BY DEF WaitReady, Goto, Typed, wakerVars, contextVars
<1>2. PICK q \in Ids : q = mine[t]
  BY DEF Typed, Ids
<1>3. Owns(t, q) /\ Uses(t, q)
  BY <1>1, <1>2 DEF Owns, Owning, Uses
<1>4. q \in PacketIds /\ packets[q].place # "none"
  BY <1>3, UsesType DEF IInv
<1>5. packets' = [packets EXCEPT ![q] = Absent] /\ packets[q].ready
  BY <1>2 DEF WaitReady, Destroy
<1>6. /\ \A p \in PacketIds \ {q} : packets'[p] = packets[p]
      /\ packets'[q] = Absent
  BY <1>4, <1>5 DEF Typed
<1>7. packets[q].place = "stack"
  BY <1>1, <1>3, <1>4 DEF IInv, UsersOK, LabelsOK, LabelOK
<1>8. \A u \in Threads \ {t} : ~Uses(u, q)
  <2>1. ASSUME NEW u \in Threads \ {t}, Uses(u, q)
        PROVE  FALSE
    <3>1. Owns(u, q)
      BY <2>1, <1>4, <1>5, <1>7 DEF IInv, UsersOK
    <3> QED
      BY <3>1, <2>1, <1>3, <1>4 DEF IInv, UsersOK
  <2> QED
    BY <2>1
<1>9. ASSUME NEW u \in Threads \ {t}, NEW p \in Ids
      PROVE  /\ Uses(u, p)' <=> Uses(u, p)
             /\ Owns(u, p)' <=> Owns(u, p)
             /\ Matched(u)' <=> Matched(u)
  BY <1>1 DEF Uses, Owns, Owning, Waiting, Matched, Other
<1>10. \A p \in Ids : ~Uses(t, p)' /\ (Uses(t, p) => p = q)
  <2>1. \A p \in Ids : ~Uses(t, p)'
    BY <1>1 DEF Uses, Owns, Owning, Waiting
  <2> QED
    BY <2>1, <1>3, UsesOne
<1>11. AboutOnly(q)
  BY <1>1, <1>6, <1>9, <1>10 DEF AboutOnly
<1>12. \A u \in Threads : ~Uses(u, q)'
  BY <1>8, <1>9, <1>10 DEF Ids
<1>13. PacketOK(q)'
  BY <1>6, <1>12, Sides DEF PacketOK, Absent, Threads
<1> QED
  BY <1>4, <1>11, <1>13, PacketsElse DEF IInv

\* A thread that writes, reads or reports uses the packet of its token.
LEMMA TokenUser ==
  ASSUME Typed, IInv, NEW t \in Threads, pc[t] \in {"write", "read", "set_ready"}
  PROVE  \E q \in PacketIds : /\ q = pk[t] /\ Uses(t, q) /\ ~Owning(t) /\ Matched(t)
                              /\ packets[q].place # "none"
                              /\ \A p : Uses(t, p) => p = q
<1>1. PICK q \in Ids : q = pk[t]
  BY DEF Typed, Ids
<1>2. Uses(t, q) /\ ~Owning(t) /\ Matched(t)
  BY <1>1 DEF Uses, Owning, Waiting, Matched
<1>3. q \in PacketIds /\ packets[q].place # "none"
  BY <1>2, UsesType DEF IInv
<1> QED
  BY <1>1, <1>2, <1>3, UsesOne

\* A step of t with the packet of its token, q.
LEMMA TokenStep ==
  ASSUME Typed, IInv, NEW t \in Threads, Write(t) \/ Read(t) \/ SetReady(t),
         NEW q \in PacketIds, q = pk[t]
  PROVE  /\ pc[t] \in {"write", "read", "set_ready"} /\ pc'[t] \in {"set_ready", "ok"}
         /\ UNCHANGED <<kind, promised, pk, mine>>
         /\ \A u \in Threads \ {t} : pc'[u] = pc[u] /\ msg'[u] = msg[u]
         /\ \A p \in PacketIds \ {q} : packets'[p] = packets[p]
         /\ \A u \in Threads \ {t} : \A p \in Ids :
              /\ Uses(u, p)' <=> Uses(u, p)
              /\ Owns(u, p)' <=> Owns(u, p)
              /\ Matched(u)' <=> Matched(u)
         /\ \A p \in Ids : Uses(t, p)' <=> p = q /\ pc'[t] = "set_ready"
         /\ AboutOnly(q)
<1>1. /\ pc[t] \in {"write", "read", "set_ready"} /\ pc'[t] \in {"set_ready", "ok"}
      /\ UNCHANGED <<entries, cursor, select, kind, promised, pk, mine>>
      /\ \A u \in Threads \ {t} : pc'[u] = pc[u] /\ msg'[u] = msg[u]
      /\ \A p \in PacketIds \ {q} : packets'[p] = packets[p]
  BY DEF Write, Read, SetReady, Destroy, Goto, wakerVars, contextVars, callVars, Typed
<1>2. ASSUME NEW u \in Threads \ {t}, NEW p \in Ids
      PROVE  /\ Uses(u, p)' <=> Uses(u, p)
             /\ Owns(u, p)' <=> Owns(u, p)
             /\ Matched(u)' <=> Matched(u)
  BY <1>1 DEF Uses, Owns, Owning, Waiting, Matched, Other
<1>3. \A p \in Ids : Uses(t, p)' <=> p = q /\ pc'[t] = "set_ready"
  BY <1>1 DEF Uses, Owns, Owning, Waiting
<1>4. \A p \in Ids : Uses(t, p) => p = q
  BY <1>1, TokenUser
<1>5. AboutOnly(q)
  BY <1>1, <1>2, <1>3, <1>4 DEF AboutOnly
<1> QED
  BY <1>1, <1>2, <1>3, <1>5

\* A sender writes its message.
LEMMA PacketsWrite ==
  ASSUME Typed, Typed', IInv, NEW t \in Senders, Write(t)
  PROVE  UsersOK' /\ MessagesOK'
<1>1. t \in Threads /\ pc[t] = "write" /\ pc'[t] = "set_ready"
  BY DEF Write, Goto, Typed, Threads
<1>2. PICK q \in PacketIds : /\ q = pk[t] /\ Uses(t, q) /\ ~Owning(t) /\ Matched(t)
                             /\ packets[q].place # "none"
  BY <1>1, TokenUser
<1>3. /\ packets[q] \in [place : {"none", "stack", "heap"}, msg : Messages \cup {NoMsg}, ready : BOOLEAN]
      /\ packets'[q] = [packets[q] EXCEPT !.msg = msg[t]]
      /\ UNCHANGED <<kind, promised, msg>>
  BY <1>2 DEF Write, Typed, callVars
<1>4. packets'[q].place = packets[q].place /\ packets'[q].ready = packets[q].ready
      /\ packets'[q].msg = msg[t]
  BY <1>3
<1>5. /\ AboutOnly(q)
      /\ \A u \in Threads \ {t} : pc'[u] = pc[u]
      /\ \A u \in Threads \ {t} : /\ Uses(u, q)' <=> Uses(u, q)
                                  /\ Owns(u, q)' <=> Owns(u, q)
                                  /\ Matched(u)' <=> Matched(u)
      /\ Uses(t, q)'
  BY <1>1, <1>2, TokenStep DEF Ids
<1>6. ~Owns(t, q) /\ ~Owns(t, q)' /\ Matched(t)'
  BY <1>1, <1>2 DEF Owns, Owning, Waiting, Matched
<1>7. PacketOK(q)
  BY PacketsSplit DEF IInv, PacketsOK, Ids
<1>8. ~packets[q].ready
  BY <1>1, <1>2, <1>6, <1>7, Sides DEF PacketOK
<1>9. \A s \in Senders : Uses(s, q) => s = t
  BY <1>1, <1>2, <1>7, Sides DEF PacketOK, Threads, Own
<1>10. PacketOK(q)'
  BY <1>1, <1>2, <1>3, <1>4, <1>5, <1>6, <1>7, <1>8, <1>9, Sides DEF PacketOK, Threads, Own
<1> QED
  BY <1>5, <1>10, PacketsElse DEF IInv

\* A receiver copies the message from a sender's stack.
LEMMA PacketsReadStack ==
  ASSUME Typed, Typed', IInv, NEW t \in Receivers, Read(t), packets[pk[t]].place = "stack"
  PROVE  UsersOK' /\ MessagesOK'
<1>1. t \in Threads /\ pc[t] = "read" /\ pc'[t] = "set_ready"
  BY DEF Read, Goto, Typed, Threads
<1>2. PICK q \in PacketIds : /\ q = pk[t] /\ Uses(t, q) /\ ~Owning(t) /\ Matched(t)
                             /\ packets[q].place # "none"
  BY <1>1, TokenUser
<1>3. /\ packets' = packets /\ msg'[t] = packets[q].msg
      /\ UNCHANGED <<kind, promised>> /\ packets[q].place = "stack"
  BY <1>1, <1>2 DEF Read, Typed
<1>5. /\ AboutOnly(q)
      /\ \A u \in Threads \ {t} : pc'[u] = pc[u] /\ msg'[u] = msg[u]
      /\ \A u \in Threads \ {t} : /\ Uses(u, q)' <=> Uses(u, q)
                                  /\ Owns(u, q)' <=> Owns(u, q)
                                  /\ Matched(u)' <=> Matched(u)
      /\ Uses(t, q)'
  BY <1>1, <1>2, TokenStep DEF Ids
<1>6. ~Owns(t, q) /\ ~Owns(t, q)' /\ Matched(t)'
  BY <1>1, <1>2 DEF Owns, Owning, Waiting, Matched
<1>7. PacketOK(q)
  BY PacketsSplit DEF IInv, PacketsOK, Ids
<1>8. ~packets[q].ready
  BY <1>1, <1>2, <1>3, <1>6, <1>7 DEF PacketOK
<1>9. PICK s \in Threads \ {t} : Uses(s, q)
  BY <1>1, <1>2, <1>7, <1>8 DEF PacketOK
<1>10. s \in Senders /\ Owns(s, q)
  BY <1>1, <1>2, <1>3, <1>6, <1>7, <1>9, Sides DEF PacketOK
<1>11. msg'[t] = promised'[t]
  BY <1>2, <1>3, <1>7, <1>9, <1>10 DEF PacketOK
<1>12. PacketOK(q)'
  BY <1>1, <1>2, <1>3, <1>5, <1>6, <1>7, <1>8, <1>11, Sides DEF PacketOK, Threads, Own
<1> QED
  BY <1>5, <1>12, PacketsElse DEF IInv

\* A receiver takes the message of a packet on the heap, and frees it.
LEMMA PacketsReadHeap ==
  ASSUME Typed, Typed', IInv, NEW t \in Receivers, Read(t), packets[pk[t]].place # "stack"
  PROVE  UsersOK' /\ MessagesOK'
<1>1. t \in Threads /\ pc[t] = "read" /\ pc'[t] = "ok"
  BY DEF Read, Goto, Typed, Threads
<1>2. PICK q \in PacketIds : /\ q = pk[t] /\ Uses(t, q) /\ ~Owning(t) /\ Matched(t)
                             /\ packets[q].place # "none"
  BY <1>1, TokenUser
<1>3. /\ packets' = [packets EXCEPT ![q] = Absent] /\ packets[q].ready
      /\ packets[q].place # "stack"
  BY <1>1, <1>2 DEF Read, Destroy
<1>4. packets'[q] = Absent
  BY <1>3 DEF Typed
<1>5. /\ AboutOnly(q)
      /\ \A u \in Threads \ {t} : Uses(u, q)' <=> Uses(u, q)
      /\ ~Uses(t, q)'
  BY <1>1, <1>2, TokenStep DEF Ids
<1>6. PacketOK(q)
  BY PacketsSplit DEF IInv, PacketsOK, Ids
<1>7. \A u \in Threads \ {t} : ~Uses(u, q)
  BY <1>1, <1>2, <1>3, <1>6, Sides DEF PacketOK
<1>8. \A u \in Threads : ~Uses(u, q)'
  BY <1>5, <1>7
<1>9. PacketOK(q)'
  BY <1>4, <1>8, Sides DEF PacketOK, Absent, Threads
<1> QED
  BY <1>5, <1>9, PacketsElse DEF IInv

\* The partner is told that the packet is ready: it has the packet to itself.
LEMMA PacketsReady ==
  ASSUME Typed, Typed', IInv, NEW t \in Threads, SetReady(t)
  PROVE  UsersOK' /\ MessagesOK'
<1>1. pc[t] = "set_ready" /\ pc'[t] = "ok"
  BY DEF SetReady, Goto, Typed
<1>2. PICK q \in PacketIds : /\ q = pk[t] /\ Uses(t, q) /\ ~Owning(t) /\ Matched(t)
                             /\ packets[q].place # "none"
  BY <1>1, TokenUser
<1>3. /\ packets[q] \in [place : {"none", "stack", "heap"}, msg : Messages \cup {NoMsg}, ready : BOOLEAN]
      /\ packets'[q] = [packets[q] EXCEPT !.ready = TRUE]
      /\ UNCHANGED <<kind, promised, msg>>
  BY <1>2 DEF SetReady, Typed, callVars
<1>4. packets'[q].place = packets[q].place /\ packets'[q].msg = packets[q].msg /\ packets'[q].ready
  BY <1>3
<1>5. /\ AboutOnly(q)
      /\ \A u \in Threads \ {t} : pc'[u] = pc[u]
      /\ \A u \in Threads \ {t} : /\ Uses(u, q)' <=> Uses(u, q)
                                  /\ Owns(u, q)' <=> Owns(u, q)
                                  /\ Matched(u)' <=> Matched(u)
      /\ ~Uses(t, q)'
  BY <1>1, <1>2, TokenStep DEF Ids
<1>6. ~Owns(t, q)
  BY <1>2 DEF Owns
<1>7. PacketOK(q)
  BY PacketsSplit DEF IInv, PacketsOK, Ids
<1>8. t \in Receivers => packets[q].place = "stack"
  BY <1>1, <1>2, <1>7 DEF PacketOK
<1>9. ~packets[q].ready
  BY <1>2, <1>6, <1>7, <1>8 DEF PacketOK
<1>10. PICK z \in Threads \ {t} : Uses(z, q)
  BY <1>2, <1>7, <1>9 DEF PacketOK
<1>11. Own(z) # Own(t) /\ Matched(z) /\ (packets[q].place = "stack" => Owns(z, q))
  BY <1>2, <1>6, <1>7, <1>10 DEF PacketOK
<1>12. \A u \in Threads : Uses(u, q)' <=> u = z
  <2>1. ASSUME NEW u \in Threads \ {t}, Uses(u, q), u # z
        PROVE  FALSE
    BY <2>1, <1>2, <1>7, <1>10, <1>11, Sides DEF PacketOK
  <2> QED
    BY <2>1, <1>5, <1>10
<1>13. z \in Receivers => packets[q].msg = promised[z]
  BY <1>1, <1>2, <1>7, <1>10, <1>11, Sides DEF PacketOK
<1>14. packets[q].place # "stack" => z \in Receivers
  BY <1>8, <1>11, Sides
<1>15. PacketOK(q)'
  BY <1>2, <1>3, <1>4, <1>5, <1>7, <1>10, <1>11, <1>12, <1>13, <1>14, Sides DEF PacketOK, Threads, Own
<1> QED
  BY <1>5, <1>15, PacketsElse DEF IInv

\* wake_one selects an operation, whose packet the two use from now on.
LEMMA PacketsPair ==
  ASSUME Typed, Typed', IInv, NEW t \in Threads, Pair(t)
  PROVE  UsersOK' /\ MessagesOK'
<1>1. /\ mutex = NoThread /\ pc[t] \in {"try", "block", "select", "retry"}
      /\ pc'[t] = "store_packet" /\ \A u \in Threads \ {t} : pc'[u] = pc[u]
      /\ UNCHANGED <<entries, packets, mine, pk, kind, msg>>
      /\ Selectable(t) # {} /\ cursor' = Min(Selectable(t))
  BY DEF Pair, Attempting, Goto, Typed, packetVars
<1>2. PICK i \in 1 .. Len(entries[Other(t)]) : i = cursor'
  BY <1>1, SelectableIs DEF IInv
<1>3. PICK z \in Threads : z = entries[Other(t)][i].thread
  BY <1>2, Sides, EntryType
<1>4. z # t /\ Own(z) = Other(t) /\ select[z] = "waiting"
  BY <1>1, <1>2, <1>3, SelectableIs DEF IInv
<1>5. Waiting(z) /\ select[z] # "operation" /\ entries[Other(t)][i].packet = mine[z]
  BY <1>1, <1>3, RegisteredWaits, Sides DEF IInv
<1>6. PICK q \in PacketIds : q = entries[Other(t)][i].packet
  BY Sides, EntryType
<1>7. Owns(z, q) /\ Uses(z, q) /\ ~Matched(z)
  BY <1>5, <1>6 DEF Owns, Owning, Uses, Matched, Waiting
<1>8. /\ select'[z] = "operation"
      /\ \A u \in Threads \ {z} : select'[u] = select[u]
      /\ IF t \in Senders THEN promised'[z] = msg[t] ELSE promised'[t] = msg[z]
      /\ \A u \in Threads \ {z, t} : promised'[u] = promised[u]
      /\ t \in Receivers => promised'[z] = promised[z]
      /\ t \in Senders => promised'[t] = promised[t]
  <2>1. select' = [select EXCEPT ![z] = "operation"]
    BY <1>2, <1>3 DEF Pair
  <2>2. promised' = IF t \in Senders THEN [promised EXCEPT ![z] = msg[t]]
                                     ELSE [promised EXCEPT ![t] = msg[z]]
    BY <1>2, <1>3 DEF Pair
  <2>3. t \in Receivers => t \notin Senders
    BY ThreadAssumption
  <2> QED
    BY <1>4, <2>1, <2>2, <2>3, Domains
<1>9. PacketOK(q)
  BY PacketsSplit DEF IInv, PacketsOK, Ids
<1>10. ~packets[q].ready /\ packets[q].place # "none" /\ \A u \in Threads \ {z} : ~Uses(u, q)
  BY <1>7, <1>9 DEF PacketOK
<1>11. \A u \in Threads : pc[u] \notin {"store_packet", "unpark"}
  BY <1>1, UsesFree DEF IInv
<1>12. ASSUME NEW u \in Threads \ {t}, NEW p \in Ids
       PROVE  (Uses(u, p)' <=> Uses(u, p)) /\ (Owns(u, p)' <=> Owns(u, p))
  BY <1>1, <1>11 DEF Uses, Owns, Owning, Waiting
<1>13. \A u \in Threads \ {t, z} : Matched(u)' <=> Matched(u)
  BY <1>1, <1>8 DEF Matched, Waiting
<1>14. Matched(z)' /\ Matched(t)'
  BY <1>1, <1>4, <1>5, <1>8 DEF Matched, Waiting
<1>15. \A p \in Ids : ~Uses(t, p) /\ (Uses(t, p)' <=> p = q) /\ ~Owns(t, p)'
  BY <1>1, <1>2, <1>6 DEF Uses, Owns, Owning, Waiting, Other
<1>16. \A p \in Ids : Uses(z, p) => p = q
  BY <1>7, UsesOne
<1>17. AboutOnly(q)
  <2>1. ASSUME NEW u \in Threads \ {t, z}, NEW p \in Ids
        PROVE  /\ Uses(u, p)' <=> Uses(u, p)
               /\ Owns(u, p)' <=> Owns(u, p)
               /\ Matched(u)' <=> Matched(u)
               /\ pc'[u] = pc[u] /\ promised'[u] = promised[u]
    BY <1>1, <1>8, <1>12, <1>13
  <2>2. \A p \in Ids \ {q} : ~Uses(t, p) /\ ~Uses(t, p)' /\ ~Uses(z, p) /\ ~Uses(z, p)'
    BY <1>4, <1>12, <1>15, <1>16
  <2> QED
    BY <1>1, <2>1, <2>2 DEF AboutOnly
<1>18. /\ \A u \in Threads : Uses(u, q)' <=> u \in {t, z}
       /\ Owns(z, q)' /\ ~Owns(t, q)'
  BY <1>4, <1>7, <1>10, <1>12, <1>15 DEF Ids
<1>19. Own(t) # Own(z)
  BY <1>4, Sides
<1>20. pc'[t] # "set_ready" /\ pc'[z] # "set_ready"
  BY <1>1, <1>4, <1>5 DEF Waiting
<1>21. \A s \in Senders, r \in Receivers : Uses(s, q)' /\ Uses(r, q)' => promised'[r] = msg'[s]
  BY <1>1, <1>4, <1>8, <1>18, <1>19, Sides DEF Threads
<1>22. PacketOK(q)'
  BY <1>1, <1>4, <1>7, <1>9, <1>10, <1>14, <1>18, <1>19, <1>20, <1>21, Sides DEF PacketOK, Threads, Own
<1> QED
  BY <1>17, <1>22, PacketsElse DEF IInv
-------------------------------------------------------------------------------
(* The invariant. *)

LEMMA InitInv ==
  Init => Typed /\ IInv
<1> SUFFICES ASSUME Init
             PROVE  IInv
  BY TypedInit
<1>1. \A w \in {"senders", "receivers"} : Len(entries[w]) = 0
  BY DEF Init
<1>2. \A t \in Threads : ~Waiting(t) /\ pc[t] = "idle" /\ select[t] = "waiting"
  BY DEF Init, Waiting
<1>3. \A t \in Threads : \A p : ~Uses(t, p)
  BY <1>2, UsesNone
<1>4. EntriesOK
  BY <1>1, <1>2 DEF EntriesOK
<1>5. HolderOK
  BY <1>2, Sides DEF HolderOK, Init
<1>6. LabelsOK
  BY <1>2 DEF LabelsOK, LabelOK, Init
<1>7. UsersOK
  BY <1>3 DEF UsersOK, Init, Absent
<1>8. MessagesOK
  BY <1>2, <1>3 DEF MessagesOK, Threads
<1> QED
  BY <1>4, <1>5, <1>6, <1>7, <1>8 DEF IInv

LEMMA InvStep ==
  ASSUME Typed, Typed', IInv, NEW t \in Threads, BeginCall(t) \/ Step(t) \/ Expire(t) \/ DropHandle(t)
  PROVE  IInv'
<1>1. CASE \/ BeginCall(t) \/ Expire(t) \/ DropHandle(t) \/ FindDisconnected(t) \/ GiveUpTry(t)
           \/ RetrySelect(t) \/ Return(t)
  BY <1>1, WakersIdle, LabelsElse, PacketsIdle DEF IInv
<1>2. CASE Disconnect(t)
  BY <1>2, WakersMatched, LabelsWake, PacketsIdle DEF IInv
<1>3. CASE EndPause(t) \/ AbortSelect(t) \/ Wait(t) \/ GiveUp(t) \/ Unparked(t)
  BY <1>3, WakersWait, LabelsWait, PacketsWait DEF IInv
<1>4. CASE StorePacket(t)
  BY <1>4, WakersMatched, LabelsWake, PacketsWait DEF IInv
<1>5. CASE WaitPacket(t)
  BY <1>5, WakersMatched, LabelsElse, PacketsWait DEF IInv
<1>6. CASE WaitReady(t)
  BY <1>6, WakersMatched, LabelsElse, PacketsReturn DEF IInv
<1>7. CASE Pair(t)
  BY <1>7, WakersPair, LabelsWake, PacketsPair DEF IInv
<1>8. CASE Unpark(t)
  BY <1>8, WakersUnpark, LabelsWake, PacketsUnpark DEF IInv
<1>9. CASE Block(t) \/ Pause(t) \/ RegisterSelect(t)
  BY <1>9, WakersRegister, LabelsRegister, PacketsRegister DEF IInv
<1>10. CASE UnregisterOper(t) \/ UnregisterSelect(t)
  <2>1. EntriesOK' /\ HolderOK' /\ LabelsOK'
    BY <1>10, WakersUnregister, LabelsRegister
  <2>2. UsersOK' /\ MessagesOK'
    <3>1. CASE Registered(t) # {}
      BY <1>10, <3>1, PacketsForget
    <3>2. CASE Registered(t) = {}
      <4>1. UnregisterSelect(t)
        BY <1>10, <3>2, WithdrawsRegistered DEF UnregisterOper, IInv, LabelsOK, LabelOK, Waiting
      <4> QED
        BY <3>2, <4>1, PacketsUnregistered
    <3> QED
      BY <3>1, <3>2
  <2> QED
    BY <2>1, <2>2 DEF IInv
<1>11. CASE SetReady(t)
  BY <1>11, WakersIdle, LabelsElse, PacketsReady DEF IInv
<1>12. CASE t \in Senders /\ Write(t)
  BY <1>12, WakersIdle, LabelsElse, PacketsWrite DEF IInv
<1>13. CASE t \in Receivers /\ Read(t)
  BY <1>13, WakersIdle, LabelsElse, PacketsReadStack, PacketsReadHeap DEF IInv
<1> QED
  BY <1>1, <1>2, <1>3, <1>4, <1>5, <1>6, <1>7, <1>8, <1>9, <1>10, <1>11, <1>12, <1>13 DEF Step

LEMMA InvNext ==
  Typed /\ IInv /\ [Next]_vars => Typed' /\ IInv'
<1> SUFFICES ASSUME Typed, IInv, [Next]_vars
             PROVE  Typed' /\ IInv'
  OBVIOUS
<1>1. Typed'
  BY TypedNext
<1>2. CASE UNCHANGED vars
  <2>1. /\ UNCHANGED <<entries, mutex, cursor, disconnected, alive, select, word, packets>>
        /\ UNCHANGED <<mine, pk, pc, kind, msg, promised>>
    BY <1>2 DEF vars, wakerVars, contextVars, packetVars, callVars, handleVars
  <2>2. EntriesOK' /\ HolderOK'
    <3>1. EntriesOK'
      BY <2>1 DEF IInv, EntriesOK, Claimed, Waiting
    <3>2. \A t : (Owning(t)' <=> Owning(t)) /\ Partner(t)' = Partner(t)
      BY <2>1 DEF Owning, Waiting, Partner
    <3>3. HolderOK'
      BY <2>1, <3>2 DEF IInv, HolderOK
    <3> QED
      BY <3>1, <3>3
  <2>3. LabelsOK'
    BY <2>1 DEF IInv, LabelsOK, LabelOK, Waiting, SideOf
  <2>4. UsersOK'
    BY <2>1 DEF IInv, UsersOK, Uses, Owns, Owning, Waiting, Matched, Other, Own
  <2>5. MessagesOK'
    BY <2>1 DEF IInv, MessagesOK, Uses, Owns, Owning, Waiting, Other
  <2> QED
    BY <1>1, <2>2, <2>3, <2>4, <2>5 DEF IInv
<1>3. ASSUME NEW t \in Threads, BeginCall(t) \/ Step(t) \/ Expire(t) \/ DropHandle(t)
      PROVE  IInv'
  BY <1>1, <1>3, InvStep
<1> QED
  BY <1>1, <1>2, <1>3 DEF Next, Terminated

LEMMA Inductive ==
  Spec => [](Typed /\ IInv)
BY InitInv, InvNext, PTL DEF Spec

\* The wakers hold who waits, the mutex is held for one selected operation, a
\* packet exists as long as somebody uses it, by no more than a sender and a
\* receiver that are matched, and it has the sender's message when it is read.
THEOREM InvariantCorrect == Spec => []IInv
BY Inductive, PTL
-------------------------------------------------------------------------------
(* What the invariant says. *)

\* Two entries of a waker belong to two threads of its side, so there are no
\* more entries than threads.
LEMMA EntriesBounded ==
  ASSUME Typed, EntriesOK, NEW w \in Wakers,
         NEW side, side = IF w = "senders" THEN Senders ELSE Receivers
  PROVE  Len(entries[w]) <= Cardinality(side)
<1> DEFINE n == Len(entries[w])
           f == [i \in 1 .. n |-> entries[w][i].thread]
<1>1. n \in Nat /\ \A i \in 1 .. n : entries[w][i].thread \in Threads
  BY EntryType
<1>2. \A i \in 1 .. n : entries[w][i].thread \in side
  <2>1. ASSUME NEW i \in 1 .. n
        PROVE  entries[w][i].thread \in side
    <3>1. Own(entries[w][i].thread) = w
      BY DEF EntriesOK, Wakers
    <3> QED
      BY <1>1, <3>1 DEF Own, Threads
  <2> QED
    BY <2>1
<1>3. \A i, j \in 1 .. n : entries[w][i].thread = entries[w][j].thread => i = j
  BY DEF EntriesOK, Wakers
<1>4. f \in Injection(1 .. n, side)
  <2>1. f \in [1 .. n -> side]
    BY <1>2
  <2>2. \A i, j \in 1 .. n : f[i] = f[j] => i = j
    BY <1>3
  <2> QED
    BY <2>1, <2>2 DEF Injection, IsInjective
<1>5. IsFiniteSet(side)
  BY ThreadAssumption
<1> HIDE DEF f, n
<1>6. Cardinality(1 .. n) <= Cardinality(side)
  BY <1>4, <1>5, FS_Injection
<1>7. Cardinality(1 .. n) = n
  BY <1>1, FS_Interval
<1> QED
  BY <1>6, <1>7 DEF n

LEMMA BoundsHold ==
  Typed /\ IInv => TypeOK
<1> SUFFICES ASSUME Typed, IInv
             PROVE  TypeOK
  OBVIOUS
<1>1. /\ Len(entries["senders"]) <= Cardinality(Senders)
      /\ Len(entries["receivers"]) <= Cardinality(Receivers)
  BY EntriesBounded DEF IInv, Wakers
<1>2. Cardinality(Senders) <= Cardinality(Threads) /\ Cardinality(Receivers) <= Cardinality(Threads)
  BY ThreadAssumption, FS_Union, FS_Subset DEF Threads
<1>3. /\ Cardinality(Senders) \in Nat /\ Cardinality(Receivers) \in Nat /\ Cardinality(Threads) \in Nat
      /\ Len(entries["senders"]) \in Nat /\ Len(entries["receivers"]) \in Nat
  BY ThreadAssumption, FS_Union, FS_CardinalityType, EntryType DEF Threads, Wakers
<1>4. cursor <= Cardinality(Threads)
  <2>1. CASE mutex = NoThread
    BY <2>1, <1>3 DEF IInv, HolderOK
  <2>2. CASE mutex \in Threads
    <3>1. cursor \in 1 .. Len(entries[Other(mutex)])
      BY <2>2 DEF IInv, HolderOK
    <3>2. Other(mutex) = "senders" \/ Other(mutex) = "receivers"
      BY DEF Other
    <3> QED
      BY <3>1, <3>2, <1>1, <1>2, <1>3
  <2> QED
    BY <2>1, <2>2 DEF Typed
<1> QED
  BY <1>1, <1>4 DEF TypeOK

\* Every variable keeps its type, and no waker ever holds more operations than
\* there are threads on its side: whoever registers has no entry left.
THEOREM TypeCorrect == Spec => []TypeOK
BY Inductive, BoundsHold, PTL

LEMMA MatchHolds ==
  Typed /\ IInv => EntriesMatch
<1> SUFFICES ASSUME Typed, IInv, NEW t \in Threads
             PROVE  /\ Cardinality(Registered(t)) <= 1
                    /\ Waiting(t) /\ select[t] # "operation" => Registered(t) # {}
                    /\ Registered(t) # {} =>
                         \/ Waiting(t) /\ select[t] # "operation"
                         \/ /\ mutex \in Threads /\ mutex \notin SideOf(t)
                            /\ entries[Own(t)][cursor].thread = t
  BY DEF EntriesMatch
<1>1. \A i, j \in Registered(t) : i = j
  BY Sides DEF Registered, IInv, EntriesOK, Wakers
<1>2. Cardinality(Registered(t)) <= 1
  <2>1. CASE Registered(t) = {}
    BY <2>1, FS_EmptySet
  <2>2. CASE Registered(t) # {}
    <3>1. PICK i : Registered(t) = {i}
      BY <1>1, <2>2
    <3> QED
      BY <3>1, FS_Singleton
  <2> QED
    BY <2>1, <2>2
<1>3. Waiting(t) /\ select[t] # "operation" => Registered(t) # {}
  BY WithdrawsRegistered DEF IInv
<1>4. ASSUME NEW i \in Registered(t)
      PROVE  \/ Waiting(t) /\ select[t] # "operation"
             \/ /\ mutex \in Threads /\ mutex \notin SideOf(t)
                /\ entries[Own(t)][cursor].thread = t
  <2>1. i \in 1 .. Len(entries[Own(t)]) /\ entries[Own(t)][i].thread = t
    BY DEF Registered
  <2>2. Claimed(Own(t), i) \/ (Waiting(t) /\ select[t] # "operation")
    BY <2>1, Sides DEF IInv, EntriesOK, Wakers
  <2>3. ASSUME Claimed(Own(t), i)
        PROVE  /\ mutex \in Threads /\ mutex \notin SideOf(t)
               /\ entries[Own(t)][cursor].thread = t
    BY <2>1, <2>3, Sides DEF Claimed, SideOf, Own, Other, Threads
  <2> QED
    BY <2>2, <2>3
<1> QED
  BY <1>2, <1>3, <1>4

\* The entries of the wakers are the operations that wait and nobody has
\* selected, one for a thread, so that what unregister returns is there to be
\* unwrapped, but for the one that wake_one is about to remove.
THEOREM EntriesCorrect == Spec => []EntriesMatch
BY Inductive, MatchHolds, PTL

LEMMA AliveHolds ==
  Typed /\ IInv => PacketsAlive
<1> SUFFICES ASSUME Typed, IInv
             PROVE  PacketsAlive
  OBVIOUS
<1>1. ASSUME NEW w \in Wakers, NEW i \in 1 .. Len(entries[w])
      PROVE  packets[entries[w][i].packet].place # "none"
  <2>1. PICK p \in PacketIds : p = entries[w][i].packet
    BY EntryType
  <2>2. PICK z \in Threads : z = entries[w][i].thread
    BY EntryType
  <2>3. Claimed(w, i) \/ (Waiting(z) /\ p = mine[z])
    BY <2>1, <2>2 DEF IInv, EntriesOK, Wakers
  <2>4. CASE Claimed(w, i)
    <3>1. pc[mutex] \in {"store_packet", "unpark"} /\ mutex \in Threads
      BY <2>4 DEF Claimed, IInv, HolderOK
    <3>2. Uses(mutex, p)
      BY <2>1, <2>4, <3>1 DEF Uses, Claimed
    <3> QED
      BY <2>1, <3>1, <3>2 DEF IInv, UsersOK
  <2>5. CASE Waiting(z) /\ p = mine[z]
    <3>1. Uses(z, p)
      BY <2>5 DEF Uses, Owns, Owning
    <3> QED
      BY <2>1, <3>1 DEF IInv, UsersOK
  <2> QED
    BY <2>3, <2>4, <2>5
<1>2. ASSUME NEW t \in Threads, pc[t] \in {"write", "read", "set_ready"}
      PROVE  packets[pk[t]].place # "none"
  BY <1>2, TokenUser
<1>3. ASSUME \A t \in Threads : pc[t] = "idle", NEW p \in PacketIds
      PROVE  packets[p] = Absent
  <2>1. \A t \in Threads : ~Uses(t, p)
    BY <1>3, UsesNone DEF Waiting
  <2> QED
    BY <2>1 DEF IInv, UsersOK
<1> QED
  BY <1>1, <1>2, <1>3 DEF PacketsAlive, Wakers

\* No entry and no matched thread points to a packet that is gone, on a stack
\* that its call has left or on the heap, and no packet stays on the heap.
THEOREM PacketsCorrect == Spec => []PacketsAlive
BY Inductive, AliveHolds, PTL
-------------------------------------------------------------------------------
(* Sleeping. *)

\* Whoever sleeps can be selected by the other side, unless the mutex is held.
LEMMA AsleepSelectable ==
  ASSUME Typed, IInv, mutex = NoThread, NEW t \in Threads, NEW u \in Threads, Own(u) # Own(t), Asleep(u)
  PROVE  Selectable(t) # {}
<1>1. Waiting(u) /\ select[u] = "waiting"
  BY DEF Asleep, Waiting
<1>2. PICK i \in 1 .. Len(entries[Own(u)]) : entries[Own(u)][i].thread = u
  BY <1>1 DEF IInv, EntriesOK
<1>3. Own(u) = Other(t) /\ u # t
  BY Sides
<1> QED
  BY <1>1, <1>2, <1>3 DEF Selectable

\* Of the steps of t, only those that register put t to sleep, which looks for
\* a partner under the mutex; nothing puts another thread to sleep.
LEMMA FallsAsleep ==
  ASSUME Typed, NEW t \in Threads, BeginCall(t) \/ Step(t) \/ Expire(t) \/ DropHandle(t)
  PROVE  /\ \A u \in Threads \ {t} : pc'[u] = pc[u] /\ (select'[u] = "waiting" => select[u] = "waiting")
         /\ \/ pc'[t] \notin {"wait", "parked"} \/ select'[t] # "waiting"
            \/ Asleep(t)
            \/ mutex = NoThread /\ Selectable(t) = {}
<1>1. CASE BeginCall(t)
  <2>1. UNCHANGED select /\ \E k \in {"try", "block", "select"} : Goto(t, k)
    BY <1>1, ThreadAssumption DEF BeginCall, Kinds, contextVars
  <2> QED
    BY <2>1, Domains DEF Goto
<1>2. CASE Expire(t)
  BY <1>2 DEF Expire, contextVars, Asleep
<1>3. CASE DropHandle(t) \/ Return(t) \/ FindDisconnected(t) \/ GiveUpTry(t) \/ RetrySelect(t)
  BY <1>3, Domains DEF DropHandle, Return, FindDisconnected, GiveUpTry, RetrySelect, Goto, contextVars, Asleep
<1>4. CASE Disconnect(t)
  BY <1>4, Domains DEF Disconnect, Goto
<1>5. CASE Block(t) \/ RegisterSelect(t) \/ Pause(t)
  <2>1. /\ \A u \in Threads \ {t} : pc'[u] = pc[u] /\ select'[u] = select[u]
        /\ pc'[t] \in {"wait", "parked"} => mutex = NoThread /\ Selectable(t) = {}
    BY <1>5, Domains DEF Block, RegisterSelect, Pause, RegisterPacket, Alone, Attempting, Goto
  <2> QED
    BY <2>1
<1>6. CASE EndPause(t) \/ AbortSelect(t) \/ GiveUp(t)
  BY <1>6, Domains DEF EndPause, AbortSelect, GiveUp, AfterWait, TrySelect, Goto
<1>7. CASE Wait(t) \/ Unparked(t)
  BY <1>7, Domains DEF Wait, Unparked, Asleep, AfterWait, Goto, contextVars
<1>8. CASE UnregisterOper(t) \/ UnregisterSelect(t) \/ StorePacket(t) \/ Unpark(t)
  BY <1>8, Domains DEF UnregisterOper, UnregisterSelect, StorePacket, Unpark, Goto, contextVars
<1>9. CASE Pair(t)
  <2>1. /\ \A u \in Threads \ {t} : pc'[u] = pc[u]
        /\ pc'[t] = "store_packet"
        /\ \A u \in Threads : select'[u] = "waiting" => select[u] = "waiting"
    BY <1>9, Domains DEF Pair, Goto
  <2> QED
    BY <2>1
<1>10. CASE WaitPacket(t) \/ WaitReady(t) \/ SetReady(t) \/ Write(t) \/ Read(t)
  BY <1>10, Domains DEF WaitPacket, WaitReady, SetReady, Write, Read, Goto, contextVars
<1> QED
  BY <1>1, <1>2, <1>3, <1>4, <1>5, <1>6, <1>7, <1>8, <1>9, <1>10 DEF Step

LEMMA AsleepNext ==
  Typed /\ IInv /\ NeverBothAsleep /\ [Next]_vars => NeverBothAsleep'
<1> SUFFICES ASSUME Typed, IInv, NeverBothAsleep, [Next]_vars
             PROVE  NeverBothAsleep'
  OBVIOUS
<1>1. CASE UNCHANGED vars
  BY <1>1 DEF NeverBothAsleep, Asleep, vars, contextVars
<1>2. ASSUME NEW t \in Threads, BeginCall(t) \/ Step(t) \/ Expire(t) \/ DropHandle(t),
             NEW s \in Senders, NEW r \in Receivers, Asleep(s)', Asleep(r)'
      PROVE  FALSE
  <2>1. s \in Threads /\ r \in Threads /\ Own(s) # Own(r)
    BY Sides DEF Threads
  <2>2. \A u \in {s, r} : u # t => Asleep(u)
    BY <1>2, <2>1, FallsAsleep DEF Asleep
  <2>3. t \in {s, r} => Asleep(t) \/ (mutex = NoThread /\ Selectable(t) = {})
    BY <1>2, FallsAsleep DEF Asleep
  <2>4. CASE Asleep(s) /\ Asleep(r)
    BY <2>4 DEF NeverBothAsleep
  <2>5. CASE t = s /\ Asleep(r) /\ mutex = NoThread /\ Selectable(t) = {}
    BY <2>1, <2>5, AsleepSelectable
  <2>6. CASE t = r /\ Asleep(s) /\ mutex = NoThread /\ Selectable(t) = {}
    BY <2>1, <2>6, AsleepSelectable
  <2> QED
    BY <2>1, <2>2, <2>3, <2>4, <2>5, <2>6
<1> QED
  BY <1>1, <1>2 DEF Next, Terminated, NeverBothAsleep

\* A sender and a receiver never sleep side by side: whoever goes to sleep has
\* looked, under the mutex, at an operation registered by everyone who sleeps
\* on the other side.
THEOREM NobodyOverlooked == Spec => []NeverBothAsleep
<1>1. Init => NeverBothAsleep
  BY DEF Init, NeverBothAsleep, Asleep, Threads
<1> QED
  BY <1>1, Inductive, AsleepNext, PTL DEF Spec
-------------------------------------------------------------------------------
(* The refinement. *)

AbsStatuses == [t \in Threads |-> AbsStatus(t)]
AbsVals == [t \in Threads |-> AbsVal(t)]

\* The same, without the choice among overlapping cases.
AbsShape ==
  /\ AbsStatuses = [t \in Threads |-> IF pc[t] = "disconnect" THEN "idle"
                                      ELSE IF Matched(t) THEN "ok"
                                      ELSE IF InCall(t) THEN "pending" ELSE pc[t]]
  /\ AbsVals = [t \in Threads |-> IF t \in Receivers /\ Matched(t) THEN promised[t] ELSE msg[t]]

LEMMA StatusIs ==
  Typed => AbsShape
<1> SUFFICES ASSUME Typed
             PROVE  \A t \in Threads :
                      /\ AbsStatus(t) = IF pc[t] = "disconnect" THEN "idle"
                                        ELSE IF Matched(t) THEN "ok"
                                        ELSE IF InCall(t) THEN "pending" ELSE pc[t]
                      /\ AbsVal(t) = IF t \in Receivers /\ Matched(t) THEN promised[t] ELSE msg[t]
  BY DEF AbsShape, AbsStatuses, AbsVals
<1>1. ASSUME NEW t \in Threads
      PROVE  AbsStatus(t) = IF pc[t] = "disconnect" THEN "idle"
                            ELSE IF Matched(t) THEN "ok"
                            ELSE IF InCall(t) THEN "pending" ELSE pc[t]
  <2>1. CASE pc[t] = "disconnect"
    BY <2>1 DEF AbsStatus, Matched, Waiting, InCall, Answered
  <2>2. CASE Matched(t)
    BY <2>2 DEF AbsStatus, Matched, Waiting, InCall, Answered
  <2>3. CASE InCall(t) /\ ~Matched(t)
    BY <2>3 DEF AbsStatus, InCall, Answered
  <2>4. CASE pc[t] \in Answered \cup {"idle"}
    BY <2>4 DEF AbsStatus, Matched, Waiting, InCall, Answered
  <2>5. pc[t] = "disconnect" \/ InCall(t) \/ pc[t] \in Answered \cup {"idle"}
    BY DEF InCall
  <2> QED
    BY <2>1, <2>2, <2>3, <2>4, <2>5
<1> QED
  BY <1>1 DEF AbsVal

\* A thread of which a step leaves the place, the match and the messages.
LEMMA AbsElsewhere ==
  ASSUME Typed, Typed', NEW u \in Threads, pc'[u] = pc[u], msg'[u] = msg[u], promised'[u] = promised[u],
         select'[u] = "operation" <=> select[u] = "operation"
  PROVE  AbsStatuses'[u] = AbsStatuses[u] /\ AbsVals'[u] = AbsVals[u]
<1>1. AbsShape /\ AbsShape'
  BY StatusIs, PTL
<1>2. (Matched(u)' <=> Matched(u)) /\ (InCall(u)' <=> InCall(u))
  BY DEF Matched, InCall, Waiting
<1> QED
  BY <1>1, <1>2 DEF AbsShape

\* A step of t that selects nobody's operation changes what is seen of t only.
LEMMA AbsOthers ==
  ASSUME Typed, Typed', NEW t \in Threads, BeginCall(t) \/ Step(t) \/ Expire(t) \/ DropHandle(t),
         \A u \in Threads \ {t} : select'[u] = "operation" <=> select[u] = "operation",
         \A u \in Threads \ {t} : promised'[u] = promised[u]
  PROVE  /\ AbsStatuses' = [AbsStatuses EXCEPT ![t] = AbsStatuses'[t]]
         /\ AbsVals' = [AbsVals EXCEPT ![t] = AbsVals'[t]]
<1>1. \A u \in Threads \ {t} : AbsStatuses'[u] = AbsStatuses[u] /\ AbsVals'[u] = AbsVals[u]
  BY OthersKeep, AbsElsewhere
<1> QED
  BY <1>1 DEF AbsStatuses, AbsVals

\* If nothing is seen of t either, the step is none of Rendezvous.
LEMMA AbsStutter ==
  ASSUME Typed, Typed', NEW t \in Threads, BeginCall(t) \/ Step(t) \/ Expire(t) \/ DropHandle(t),
         \A u \in Threads \ {t} : select'[u] = "operation" <=> select[u] = "operation",
         \A u \in Threads \ {t} : promised'[u] = promised[u],
         UNCHANGED handleVars, AbsStatuses'[t] = AbsStatuses[t], AbsVals'[t] = AbsVals[t]
  PROVE  UNCHANGED Abs!vars
<1>1. AbsStatuses' = AbsStatuses /\ AbsVals' = AbsVals
  BY AbsOthers DEF AbsStatuses, AbsVals
<1> QED
  BY <1>1 DEF Abs!vars, AbsStatuses, AbsVals, handleVars

\* Steps of a call that is and stays pending, and the passing of time.
LEMMA PendingStutters ==
  ASSUME Typed, Typed', IInv, NEW t \in Threads,
         \/ RetrySelect(t) \/ Block(t) \/ Pause(t) \/ RegisterSelect(t) \/ Expire(t)
         \/ UnregisterOper(t) /\ pc'[t] = "register"
         \/ UnregisterSelect(t) /\ select[t] # "operation"
  PROVE  UNCHANGED Abs!vars
<1>1. /\ UNCHANGED <<kind, msg, promised, handleVars>>
      /\ \A u \in Threads \ {t} : select'[u] = select[u]
  BY DEF RetrySelect, Block, Pause, RegisterSelect, Expire, UnregisterOper, UnregisterSelect,
         RegisterPacket, contextVars, callVars, Typed
<1>2. AbsShape /\ AbsShape'
  BY StatusIs, PTL
<1>3. AbsStatuses'[t] = AbsStatuses[t] /\ AbsVals'[t] = AbsVals[t]
  <2>1. CASE Expire(t)
    <3>1. UNCHANGED <<pc, select>>
      BY <2>1 DEF Expire, contextVars
    <3> QED
      BY <1>1, <3>1, AbsElsewhere
  <2>2. CASE ~Expire(t)
    <3>1. ~Matched(t) /\ InCall(t)
      BY <2>2 DEF RetrySelect, Block, Pause, RegisterSelect, UnregisterOper, UnregisterSelect, Alone,
                  Matched, InCall, Waiting, Answered, IInv, LabelsOK, LabelOK
    <3>2. /\ pc'[t] \in {"retry", "wait", "pause", "abort", "register", "try", "select"}
          /\ pc'[t] \in {"wait", "pause", "abort"} => select'[t] = "waiting"
      BY <2>2 DEF RetrySelect, Block, Pause, RegisterSelect, UnregisterOper, UnregisterSelect,
                  RegisterPacket, Goto, Typed
    <3>3. ~Matched(t)' /\ InCall(t)' /\ pc'[t] # "disconnect" /\ pc[t] # "disconnect"
      BY <3>1, <3>2 DEF Matched, InCall, Waiting, Answered
    <3> QED
      BY <1>1, <1>2, <3>1, <3>3 DEF AbsShape
  <2> QED
    BY <2>1, <2>2
<1> QED
  BY <1>1, <1>3, AbsStutter DEF Step

\* Steps within a wait, whether or not the operation has been selected.
LEMMA WaitStutters ==
  ASSUME Typed, Typed', IInv, NEW t \in Threads,
         EndPause(t) \/ AbortSelect(t) \/ Wait(t) \/ GiveUp(t) \/ Unparked(t)
  PROVE  UNCHANGED Abs!vars
<1>1. /\ UNCHANGED <<kind, msg, promised, handleVars>>
      /\ \A u \in Threads : select'[u] = "operation" <=> select[u] = "operation"
  BY DEF EndPause, AbortSelect, Wait, GiveUp, Unparked, TrySelect, contextVars, callVars, Typed
<1>2. AbsShape /\ AbsShape'
  BY StatusIs, PTL
<1>3. Waiting(t)
  BY DEF EndPause, AbortSelect, Wait, GiveUp, Unparked, Waiting
<1>4. IF select[t] = "operation" THEN Waiting(t)' \/ pc'[t] \in {"wait_packet", "wait_ready"}
                                 ELSE Waiting(t)'
  <2>1. \E l \in IF select[t] = "operation"
                THEN {"pause", "wait", "parked", "give_up", "abort", "unregister_select",
                      "wait_packet", "wait_ready"}
                ELSE {"wait", "parked", "give_up", "abort", "unregister", "unregister_select"} :
           Goto(t, l)
    <3>1. CASE EndPause(t) \/ AbortSelect(t) \/ GiveUp(t)
      BY <1>1, <3>1 DEF EndPause, AbortSelect, GiveUp, AfterWait
    <3>2. CASE Wait(t) \/ Unparked(t)
      BY <3>2 DEF Wait, Unparked, AfterWait
    <3> QED
      BY <3>1, <3>2
  <2> QED
    BY <2>1, Domains DEF Goto, Waiting
<1>5. /\ Matched(t)' <=> Matched(t)
      /\ InCall(t) /\ InCall(t)' /\ pc[t] # "disconnect" /\ pc'[t] # "disconnect"
  BY <1>1, <1>3, <1>4 DEF Matched, Waiting, InCall, Answered
<1>6. AbsStatuses'[t] = AbsStatuses[t] /\ AbsVals'[t] = AbsVals[t]
  BY <1>1, <1>2, <1>5 DEF AbsShape
<1> QED
  BY <1>1, <1>6, AbsStutter DEF Step

\* Steps of a thread whose partner has been found: a receiver has been
\* promised the message that it gets from the packet.
LEMMA MatchedStutters ==
  ASSUME Typed, Typed', IInv, NEW t \in Threads,
         \/ StorePacket(t) \/ Unpark(t) \/ WaitPacket(t) \/ WaitReady(t) \/ SetReady(t)
         \/ UnregisterSelect(t) /\ select[t] = "operation"
         \/ t \in Senders /\ Write(t)
         \/ t \in Receivers /\ Read(t)
  PROVE  UNCHANGED Abs!vars
<1>1. UNCHANGED <<select, kind, promised, handleVars>>
  BY DEF StorePacket, Unpark, WaitPacket, WaitReady, SetReady, UnregisterSelect, Write, Read,
         contextVars, callVars, handleVars
<1>2. AbsShape /\ AbsShape'
  BY StatusIs, PTL
<1>3. Matched(t)
  BY DEF StorePacket, Unpark, WaitPacket, WaitReady, SetReady, UnregisterSelect, Write, Read,
         Matched, Waiting
<1>4. pc'[t] = "ok" \/ Matched(t)'
  BY <1>1 DEF StorePacket, Unpark, WaitPacket, WaitReady, SetReady, UnregisterSelect, Write, Read,
         Goto, Typed, Matched, Waiting
<1>5. AbsStatuses'[t] = AbsStatuses[t]
  <2>1. pc[t] # "disconnect" /\ (Matched(t)' => pc'[t] # "disconnect")
    BY <1>3 DEF Matched, Waiting
  <2>2. pc'[t] = "ok" => ~Matched(t)' /\ ~InCall(t)'
    BY DEF Matched, Waiting, InCall, Answered
  <2> QED
    BY <1>2, <1>3, <1>4, <2>1, <2>2 DEF AbsShape
<1>6. t \in Senders => msg'[t] = msg[t]
  BY Sides DEF StorePacket, Unpark, WaitPacket, WaitReady, SetReady, UnregisterSelect, Write, Read,
         callVars, Threads, Typed
<1>7. ASSUME t \in Receivers, ~Matched(t)'
      PROVE  msg'[t] = promised[t]
  <2>1. pc'[t] = "ok"
    BY <1>4, <1>7
  <2>2. CASE WaitReady(t)
    <3>1. PICK q \in Ids : q = mine[t]
      BY DEF Typed, Ids
    <3>2. Uses(t, q)
      BY <2>2, <3>1 DEF WaitReady, Uses, Owns, Owning
    <3>3. q \in PacketIds
      BY <3>2, UsesType DEF IInv
    <3> QED
      BY <1>7, <2>2, <3>1, <3>2, <3>3 DEF WaitReady, IInv, MessagesOK, Typed
  <2>3. CASE SetReady(t)
    BY <1>7, <2>3 DEF SetReady, callVars, IInv, MessagesOK
  <2>4. CASE Read(t)
    <3>1. PICK q \in PacketIds : q = pk[t] /\ Uses(t, q)
      BY <2>4, TokenUser DEF Read
    <3>2. packets[q].ready /\ msg'[t] = packets[q].msg
      BY <2>1, <2>4, <3>1 DEF Read, Goto, Typed
    <3> QED
      BY <1>7, <3>1, <3>2 DEF IInv, MessagesOK
  <2>5. WaitReady(t) \/ SetReady(t) \/ Read(t)
    BY <2>1, <1>7, Sides DEF StorePacket, Unpark, WaitPacket, UnregisterSelect, Write, Goto, Typed
  <2> QED
    BY <2>2, <2>3, <2>4, <2>5
<1>8. AbsVals'[t] = AbsVals[t]
  BY <1>1, <1>2, <1>3, <1>6, <1>7, Sides DEF AbsShape, Threads
<1> QED
  BY <1>1, <1>5, <1>8, AbsStutter DEF Step

\* A call begins.
LEMMA BeginImplements ==
  ASSUME Typed, Typed', IInv, NEW t \in Threads, BeginCall(t)
  PROVE  Abs!Begin(t)
<1>1. /\ pc[t] = "idle" /\ t \in alive /\ pc'[t] \in {"try", "block", "select"}
      /\ UNCHANGED <<select, promised, handleVars>>
  BY ThreadAssumption DEF BeginCall, Kinds, Goto, Typed, contextVars
<1>2. AbsShape /\ AbsShape'
  BY StatusIs, PTL
<1>3. AbsStatuses[t] = "idle" /\ AbsStatuses'[t] = "pending"
  BY <1>1, <1>2 DEF AbsShape, Matched, InCall, Waiting, Answered
<1>4. AbsVals[t] = msg[t] /\ AbsVals'[t] = msg'[t]
  BY <1>1, <1>2 DEF AbsShape, Matched, Waiting
<1>5. IF t \in Senders THEN \E m \in Messages : msg'[t] = m ELSE msg'[t] = msg[t]
  <2>1. CASE t \in Senders
    <3>1. calls[t] \in 0 .. MaxCalls /\ calls[t] < MaxCalls /\ calls'[t] = calls[t] + 1
      BY DEF BeginCall, Typed
    <3>2. calls'[t] \in 1 .. MaxCalls
      BY <3>1, BoundAssumption
    <3>3. msg'[t] = <<t, calls'[t]>>
      BY <2>1 DEF BeginCall, Typed
    <3> QED
      BY <2>1, <3>2, <3>3 DEF Messages
  <2>2. CASE t \notin Senders
    BY <2>2 DEF BeginCall
  <2> QED
    BY <2>1, <2>2
<1>6. /\ AbsStatuses' = [AbsStatuses EXCEPT ![t] = "pending"]
      /\ AbsVals' = [AbsVals EXCEPT ![t] = msg'[t]]
  BY <1>1, <1>3, <1>4, AbsOthers
<1>7. IF t \in Senders THEN \E m \in Messages : AbsVals' = [AbsVals EXCEPT ![t] = m]
                       ELSE AbsVals' = AbsVals
  <2>1. CASE t \in Senders
    BY <1>5, <1>6, <2>1
  <2>2. CASE t \notin Senders
    BY <1>4, <1>5, <1>6, <2>2 DEF AbsVals
  <2> QED
    BY <2>1, <2>2
<1> QED
  BY <1>1, <1>3, <1>6, <1>7 DEF Abs!Begin, AbsStatuses, AbsVals, handleVars

\* wake_one selects an operation: the two calls succeed together.
LEMMA PairImplements ==
  ASSUME Typed, Typed', IInv, NEW t \in Threads, Pair(t)
  PROVE  \E s \in Senders, r \in Receivers : Abs!Meet(s, r)
<1>1. /\ mutex = NoThread /\ pc[t] \in {"try", "block", "select", "retry"}
      /\ pc'[t] = "store_packet" /\ \A u \in Threads \ {t} : pc'[u] = pc[u]
      /\ UNCHANGED <<msg, handleVars>> /\ Selectable(t) # {} /\ cursor' = Min(Selectable(t))
  BY DEF Pair, Attempting, Goto, Typed
<1>2. PICK i \in 1 .. Len(entries[Other(t)]) : i = cursor'
  BY <1>1, SelectableIs DEF IInv
<1>3. PICK z \in Threads : z = entries[Other(t)][i].thread
  BY <1>2, Sides, EntryType
<1>4. z # t /\ Own(z) = Other(t)
  BY <1>1, <1>2, <1>3, SelectableIs DEF IInv
<1>5. Waiting(z) /\ select[z] # "operation"
  BY <1>1, <1>3, RegisteredWaits, Sides DEF IInv
<1>6. /\ select'[z] = "operation"
      /\ \A u \in Threads \ {z} : select'[u] = select[u]
      /\ IF t \in Senders THEN promised'[z] = msg[t] ELSE promised'[t] = msg[z]
      /\ \A u \in Threads \ {z, t} : promised'[u] = promised[u]
  <2>1. select' = [select EXCEPT ![z] = "operation"]
    BY <1>2, <1>3 DEF Pair
  <2>2. promised' = IF t \in Senders THEN [promised EXCEPT ![z] = msg[t]]
                                     ELSE [promised EXCEPT ![t] = msg[z]]
    BY <1>2, <1>3 DEF Pair
  <2> QED
    BY <1>4, <2>1, <2>2, Domains
<1>7. AbsShape /\ AbsShape'
  BY StatusIs, PTL
<1>8. ~Matched(t) /\ ~Matched(z) /\ InCall(t) /\ InCall(z)
  BY <1>1, <1>5 DEF Matched, Waiting, InCall, Answered
<1>9. Matched(t)' /\ Matched(z)'
  BY <1>1, <1>4, <1>5, <1>6 DEF Matched, Waiting
<1>10. /\ AbsStatuses[t] = "pending" /\ AbsStatuses[z] = "pending"
       /\ AbsStatuses'[t] = "ok" /\ AbsStatuses'[z] = "ok"
  BY <1>1, <1>4, <1>5, <1>7, <1>8, <1>9 DEF AbsShape, Waiting
<1>11. \A u \in Threads \ {t, z} : AbsStatuses'[u] = AbsStatuses[u] /\ AbsVals'[u] = AbsVals[u]
  BY <1>1, <1>6, AbsElsewhere
<1>12. PICK s \in Senders, r \in Receivers : {s, r} = {t, z} /\ promised'[r] = msg[s] /\ s # r
  <2>1. CASE t \in Senders
    BY <2>1, <1>4, <1>6, Sides
  <2>2. CASE t \in Receivers
    BY <2>2, <1>4, <1>6, Sides
  <2> QED
    BY <2>1, <2>2 DEF Threads
<1>13. s \in Threads /\ r \in Threads /\ s \notin Receivers
  BY Sides DEF Threads
<1>14. AbsStatuses[s] = "pending" /\ AbsStatuses[r] = "pending"
  BY <1>10, <1>12
<1>15. AbsStatuses' = [AbsStatuses EXCEPT ![s] = "ok", ![r] = "ok"]
  BY <1>10, <1>11, <1>12, <1>13 DEF AbsStatuses
<1>16. AbsVals[s] = msg[s] /\ AbsVals'[s] = msg[s] /\ AbsVals'[r] = msg[s]
  BY <1>1, <1>7, <1>9, <1>12, <1>13 DEF AbsShape
<1>17. AbsVals' = [AbsVals EXCEPT ![r] = AbsVals[s]]
  BY <1>11, <1>12, <1>13, <1>16 DEF AbsVals
<1>18. Abs!Meet(s, r)
  BY <1>1, <1>14, <1>15, <1>17 DEF Abs!Meet, AbsStatuses, AbsVals, handleVars
<1> QED
  BY <1>18

\* A call ends without a partner.
LEMMA UnmetImplements ==
  ASSUME Typed, Typed', IInv, NEW t \in Threads,
         FindDisconnected(t) \/ GiveUpTry(t) \/ (UnregisterOper(t) /\ pc'[t] # "register")
  PROVE  Abs!FindDisconnected(t) \/ Abs!GiveUp(t)
<1>1. /\ UNCHANGED <<select, msg, promised, handleVars>>
      /\ ~Matched(t) /\ InCall(t)
      /\ pc'[t] = "unmet" \/ (pc'[t] = "disconnected" /\ disconnected)
  BY DEF FindDisconnected, GiveUpTry, UnregisterOper, Alone, Attempting, Goto, Typed, contextVars,
         callVars, Matched, InCall, Waiting, Answered, IInv, LabelsOK, LabelOK
<1>2. AbsShape /\ AbsShape'
  BY StatusIs, PTL
<1>3. AbsStatuses[t] = "pending" /\ AbsStatuses'[t] = pc'[t]
  BY <1>1, <1>2 DEF AbsShape, Matched, InCall, Waiting, Answered
<1>4. AbsVals'[t] = AbsVals[t]
  BY <1>1, <1>2 DEF AbsShape, Matched, Waiting
<1>5. AbsStatuses' = [AbsStatuses EXCEPT ![t] = pc'[t]] /\ AbsVals' = AbsVals
  BY <1>1, <1>3, <1>4, AbsOthers DEF Step, AbsVals
<1> QED
  BY <1>1, <1>3, <1>5 DEF Abs!FindDisconnected, Abs!GiveUp, AbsStatuses, AbsVals, handleVars

LEMMA ReturnImplements ==
  ASSUME Typed, Typed', IInv, NEW t \in Threads, Return(t)
  PROVE  Abs!Return(t)
<1>1. /\ pc[t] \in Answered /\ pc'[t] = "idle" /\ msg'[t] = NoMsg
      /\ UNCHANGED <<select, handleVars>>
      /\ \A u \in Threads \ {t} : promised'[u] = promised[u]
  BY DEF Return, Goto, Typed, contextVars
<1>2. AbsShape /\ AbsShape'
  BY StatusIs, PTL
<1>3. AbsStatuses[t] = pc[t] /\ AbsStatuses'[t] = "idle" /\ AbsVals'[t] = NoMsg
  BY <1>1, <1>2 DEF AbsShape, Matched, InCall, Waiting, Answered
<1>4. AbsStatuses' = [AbsStatuses EXCEPT ![t] = "idle"] /\ AbsVals' = [AbsVals EXCEPT ![t] = NoMsg]
  BY <1>1, <1>3, AbsOthers DEF Step
<1> QED
  BY <1>1, <1>3, <1>4 DEF Abs!Return, AbsStatuses, AbsVals, handleVars, Answered

LEMMA HandlesImplement ==
  ASSUME Typed, Typed', IInv, NEW t \in Threads, DropHandle(t) \/ Disconnect(t)
  PROVE  Abs!DropHandle(t) \/ Abs!Disconnect
<1>1. /\ UNCHANGED <<msg, promised>>
      /\ \A u \in Threads : select'[u] = "operation" <=> select[u] = "operation"
  BY DEF DropHandle, Disconnect, callVars, contextVars, Typed
<1>2. AbsShape /\ AbsShape'
  BY StatusIs, PTL
<1>3. pc[t] \in {"idle", "disconnect"} /\ pc'[t] \in {"idle", "disconnect"}
  BY DEF DropHandle, Disconnect, Goto, Typed
<1>4. /\ AbsStatuses[t] = "idle" /\ AbsStatuses'[t] = AbsStatuses[t]
      /\ AbsVals'[t] = AbsVals[t]
  BY <1>1, <1>2, <1>3 DEF AbsShape, Matched, InCall, Waiting, Answered
<1>5. AbsStatuses' = AbsStatuses /\ AbsVals' = AbsVals
  BY <1>1, <1>4, AbsOthers DEF Step, AbsStatuses, AbsVals
<1>6. CASE DropHandle(t)
  BY <1>4, <1>5, <1>6 DEF DropHandle, Abs!DropHandle, AbsStatuses, AbsVals
<1>7. CASE Disconnect(t)
  <2>1. alive \cap Senders = {} \/ alive \cap Receivers = {}
    BY <1>7 DEF Disconnect, IInv, LabelsOK, LabelOK, SideOf
  <2> QED
    BY <1>5, <1>7, <2>1 DEF Disconnect, Abs!Disconnect, AbsStatuses, AbsVals
<1> QED
  BY <1>6, <1>7

LEMMA InitImplements ==
  Init => Abs!Init
<1> SUFFICES ASSUME Init
             PROVE  Abs!Init
  OBVIOUS
<1>1. Typed
  BY InitInv
<1>2. AbsShape
  BY <1>1, StatusIs
<1>3. /\ AbsStatuses = [t \in Threads |-> "idle"]
      /\ AbsVals = [t \in Threads |-> NoMsg]
  BY <1>2 DEF AbsShape, Init, Matched, InCall, Waiting, Answered
<1> QED
  BY <1>3 DEF Init, Abs!Init, AbsStatuses, AbsVals, Threads, Abs!Threads

LEMMA NextImplements ==
  Typed /\ IInv /\ Typed' /\ [Next]_vars => [Abs!Next]_(Abs!vars)
<1> SUFFICES ASSUME Typed, IInv, Typed', [Next]_vars
             PROVE  Abs!Next \/ UNCHANGED Abs!vars
  OBVIOUS
<1> USE DEF Abs!Next
<1>1. ASSUME NEW t \in Threads, BeginCall(t)
      PROVE  Abs!Next
  BY <1>1, BeginImplements DEF Threads, Abs!Threads
<1>2. ASSUME NEW t \in Threads, Step(t)
      PROVE  Abs!Next \/ UNCHANGED Abs!vars
  <2>1. CASE Pair(t)
    BY <2>1, PairImplements
  <2>2. CASE FindDisconnected(t) \/ GiveUpTry(t) \/ (UnregisterOper(t) /\ pc'[t] # "register")
    BY <2>2, UnmetImplements DEF Threads, Abs!Threads
  <2>3. CASE Return(t)
    BY <2>3, ReturnImplements DEF Threads, Abs!Threads
  <2>4. CASE Disconnect(t)
    BY <2>4, HandlesImplement DEF Threads, Abs!Threads
  <2>5. CASE EndPause(t) \/ AbortSelect(t) \/ Wait(t) \/ GiveUp(t) \/ Unparked(t)
    BY <2>5, WaitStutters
  <2>6. CASE \/ RetrySelect(t) \/ Block(t) \/ Pause(t) \/ RegisterSelect(t)
             \/ UnregisterOper(t) /\ pc'[t] = "register"
             \/ UnregisterSelect(t) /\ select[t] # "operation"
    BY <2>6, PendingStutters
  <2>7. CASE \/ StorePacket(t) \/ Unpark(t) \/ WaitPacket(t) \/ WaitReady(t) \/ SetReady(t)
             \/ UnregisterSelect(t) /\ select[t] = "operation"
             \/ t \in Senders /\ Write(t)
             \/ t \in Receivers /\ Read(t)
    BY <2>7, MatchedStutters
  <2> QED
    BY <1>2, <2>1, <2>2, <2>3, <2>4, <2>5, <2>6, <2>7 DEF Step
<1>3. ASSUME NEW t \in Threads, Expire(t)
      PROVE  UNCHANGED Abs!vars
  BY <1>3, PendingStutters
<1>4. ASSUME NEW t \in Threads, DropHandle(t)
      PROVE  Abs!Next
  BY <1>4, HandlesImplement DEF Threads, Abs!Threads
<1>5. CASE UNCHANGED vars
  <2>1. UNCHANGED <<pc, kind, msg, promised, select, handleVars>>
    BY <1>5 DEF vars, callVars, contextVars, handleVars
  <2>2. AbsStatuses' = AbsStatuses /\ AbsVals' = AbsVals
    BY <2>1, AbsElsewhere DEF AbsStatuses, AbsVals
  <2> QED
    BY <2>1, <2>2 DEF Abs!vars, AbsStatuses, AbsVals, handleVars
<1> QED
  BY <1>1, <1>2, <1>3, <1>4, <1>5 DEF Next, Terminated

\* Sends and receives on a zero-capacity channel meet: with any number of
\* threads, each of them trying, blocking, selecting or giving up at its
\* deadline, a send succeeds in the same step as one receive, which gets its
\* message, and a call that fails has handed nothing over.
THEOREM CallsMeet == Spec => Implements
<1>1. Init => Typed /\ IInv /\ Abs!Init
  BY InitInv, InitImplements
<1>2. Typed /\ IInv /\ [Next]_vars => Typed' /\ IInv' /\ [Abs!Next]_(Abs!vars)
  BY InvNext, NextImplements
<1> QED
  BY <1>1, <1>2, PTL DEF Spec, Implements, Abs!Spec
===============================================================================

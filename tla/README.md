# A verification development for crossbeam-channel

This directory holds TLA+ models of the channels in `src/`, TLC configurations
that check them on small instances, and proofs that TLAPS checks for every
value of the constants. Paths below are relative to the repository root
(`src/flavors/array.rs` is the bounded channel).

## The system and its parts

| part | state | operations | what makes it hard |
|---|---|---|---|
| ring buffer, `src/flavors/array.rs` | `head`, `tail` and one stamp per slot, each a word that packs a lap and an index; the messages; `is_disconnected` | `start_send`/`write`, `start_recv`/`read` (together `try_send`, `try_recv`), `len`, `is_empty`, `is_full`, `Drop` | lock-free: answers are computed from words loaded at different moments, slots are reused lap after lap |
| blocking calls, `src/flavors/array.rs` | two `SyncWaker`s | `send`, `recv` with or without a deadline, `disconnect` | a wakeup may be lost between a failed attempt and the registration, or be spent on a thread that gives up |
| waker, `src/waker.rs` | a queue of registered operations under a mutex, its length in an atomic | `register`, `unregister`, `wake_one`, `disconnect`, `can_wake_one` | entries are removed by the waker or by their owner, according to who selected |
| context, `src/context.rs` | one select word and one packet word per thread, the park token | `with`, `try_select`, `wait_until`, `store_packet`, `wait_packet`, `unpark` | four parties race to select; an unpark may be early or stale |
| handles, `src/channel.rs` | counts of senders and receivers | `clone`, `drop` | the last drop of a side disconnects, at the same time as everything else |
| unbounded channel, `src/flavors/list.rs` | linked blocks of slots, epoch-based reclamation | the same as the ring buffer, never full | installing the next block, retiring a block others may still read |
| rendezvous channel, `src/flavors/zero.rs` | two plain wakers in one mutex, packets on a stack or on the heap | the same, without a buffer | a packet's lifetime spans two threads |
| select, `src/select.rs` | a list of operations, a snapshot of channel states | `select`, `try_select`, `select_timeout` | registers many operations, aborts and unregisters exactly those; decides that nothing is ready from attempts at different moments |
| timers, `src/flavors/{after,tick,never}.rs` | one flag or one instant | `recv` only | several receivers race for one tick |
| `src/utils.rs`, `src/err.rs`, `src/select_macro.rs`, `src/lib.rs` | none that matters | backoff, shuffling, errors, macro | no protocol of their own |

A channel's queue, its two wakers and the contexts of the blocked threads
interact through shared words only; the handles call `disconnect`, which sets a
flag the queue reads and goes through both wakers.

## What correct means, part by part

* Ring buffer: `try_send` and `try_recv` are linearizable operations of a FIFO
  queue of capacity `cap`; nobody touches a slot's message while another thread
  does; nobody spins for ever.
* Blocking calls: a thread sleeps only while its operation cannot proceed, or
  while a wakeup is on its way; disconnection and deadlines release it.
* Waker and context: an entry is in the waker exactly while its operation may
  still be selected or its owner will remove it; the first to select wins.
* Unbounded channel: the same queue without a bound, and no block is freed
  while a thread can still follow a pointer to it.
* Rendezvous: a send succeeds exactly when one receive does, with its message.
* Select: one operation completes, the others leave no trace; a call waits only
  while none of its operations is ready, and answers that none is only if that
  was so.
* Handles: the counts are the handles there are, and a channel is disconnected
  when a side has none left; a receiver gets every message first.
* Timers: one message of `after`, one per period of `tick`, never two receivers
  with the same one.

## The modules

### `BoundedQueue`: what a bounded channel promises

The abstract specification. A call is a begin step, one atomic step that gives
the answer, and a return. `Empty` is the only answer that may be out of date
when it is given: start_recv tests `is_disconnected` after it has seen the
queue empty, so a receiver is first `glanced` (it has seen the queue empty in
this call) and then answers. `Disconnected` needs an empty queue at the very
step. It has no source of its own: it is the specification the next module is
held to.

### `ArrayQueue`: the ring buffer, one step per atomic access

| state | code |
|---|---|
| `head`, `tail`, `slots[i].stamp` | the stamps, as pairs of a lap and an index |
| `slots[i].msg` | the `UnsafeCell` of the slot |
| `disconnected`, `alive` | `is_disconnected`, and the threads whose handle is not dropped (the two counts of `channel.rs`) |
| `pc`, `seen`, `msg` | where a thread is, the tail or head it loaded (`token.array.stamp` is a lap later), the message it carries |
| `count` | history only: bounds the number of messages |

`BeginSend`, `LoadTail`, `LoadSendStamp`, `CasTail`/`CasTailFails`,
`LoadHeadWhenFull`, `WriteMsg`, `Publish` are `start_send` and `write`;
`BeginRecv` to `Release` are `start_recv` and `read`. A failed
`compare_exchange_weak` is possible at any time, as the weak form allows.
`DropHandle` drops a handle; the last one of a side sets `disconnected`. In these
non-blocking calls the wakers are empty.

Three abstractions: laps do not wrap around (`ArrayObservers` compares them with
words in which they do), memory is sequentially consistent (the accesses are
SeqCst or release/acquire pairs on the same stamp), and a thread has one call
at a time.

### `Waker`: waiting and waking

The steps of `SyncWaker` and `Context`, without program counters: channel
modules put them in order. `WakeSelect` and `WakeUnpark` are the two halves of
`wake_one`: between them the woken thread may already run, return and start
another call with the same cached context. `disconnect` visits one entry at a
time while it holds the mutex.

### `ArrayChannel`: blocking `send` and `recv`

`INSTANCE`s `Waker`. The two sides run the same program with the wakers
exchanged, so each action serves both: an attempt (`CheckDisconnected`,
`Reserve`, `FindFull`, `Claim`, `FindEmpty`, `Use`), the wakeup of the other
side (`WakeLen`, `WakeOther`, `UnparkOther`), and blocking
(`EnterContext`, `RegisterOper`, the second look in `LoadFirst`,
`LoadSecond`, `LoadDisconnected`, `Abort`, then `Wait`, `Unparked`,
`ParkTimesOut`, `GiveUp`, `UnregisterOper`, `CheckDeadline`). The attempt is
atomic, which the refinement of `ArrayQueue` justifies, but a reserved slot is
not readable before `Use`, nor a claimed one writable. A deadline is a flag
that time sets (`Expire`) where the thread next reads the clock: while it waits
or is parked, and before it gives up.

### `ArrayObservers`: `len`, `is_empty`, `is_full`, the drop, and the words

EXTENDS `ArrayQueue` and adds one observer that loads the two words one after
the other (`Load`, `LenReloadTail`, `EmptyLoadTail`, `FullLoadHead`) and remembers which lengths the
queue had meanwhile, and `DropChannel`, the loop of `Drop` from head to tail.

Its last part packs the pairs of lap and index into words as the code does
(`Packed`, with `OneLap` the power of two of `with_capacity` and only the two
bits of lap that its check leaves), computes the next position, the comparison
with a stamp and the length on words (`NextWord`, `Lags`, `LenWord`), and
`WordsAgree` compares them with the pairs in every reachable state. That a
thread may sleep through four laps between a load and a compare-exchange is
left out: with 64 bits that is out of practical reach, and the code does not
defend against it.

### `ListQueue`: the unbounded channel, one step per atomic access

| state | code |
|---|---|
| `index`, `block` | the two fields of the `Position`s `head` and `tail`, which are read and moved separately |
| `linked` | the `next` pointers: the list is the blocks `0 .. linked - 1` |
| `slots` | the message and the `ready` flag of every slot |
| `pinned`, `retired`, `freed` | the guards, `defer_destroy` and the collector of crossbeam-epoch (external) |
| `disposed`, `moved` | history: how often a block or a message was released |

`LoadBlock` to `Publish` are `start_send` and `write`, `LoadReady` to `ReadMsg`
the parts of `start_recv` and `read` that differ; `LoadBlock`, `LoadIndex`,
`CasIndex` and `AdvanceBlock` serve both ends, which run the same code on
`head` and `tail`. `DropMessage` and `DropLastBlock` are `Drop`. It refines
`BoundedQueue` with a capacity that is never reached.

### `ListObservers`: `len` and `is_empty` of the unbounded channel

EXTENDS `ListQueue` with an observer of the two indices, as `ArrayObservers`
does. It borrows a handle, so the channel outlives its call. `is_full` and
`capacity` are constants.

### `Rendezvous` and `ZeroChannel`: the zero-capacity channel

`Rendezvous` is the abstract specification: a send and a receive complete in one
step, and a call that gives up has had no part in one. In `ZeroChannel` a
thread is in a `try_` call, a blocking call or `run_select` on this one operation
(`kind`), and takes one step per lock of `Channel::inner`, per access of a
context and per access of a packet. `Pair`, `StorePacket` and `Unpark` are
`wake_one`, which holds the mutex but not the context of the thread it
wakes. Packets have a place (`stack`, `heap`, or `none` when gone), so that using one after
its owner has left is visible (`PacketsAlive`). The two
wakers are told of a disconnection in one step: whoever is woken needs the
mutex that `disconnect` holds.

### `Timers`: `after` and `tick`

Both timers on one clock, which every thread reads at its own moments. For
`after` each access of the flag and each reading of the clock is a step; `tick`
does everything under a mutex, so a round of its loop is one step. A
sleep lasts at least until its instant (`wake`); how much longer is up to the
scheduler.

### `Select`: several operations on all flavors, and the handles

| state | code |
|---|---|
| `head`, `tail`, `due` | a channel as its operations see it: the positions, and for a timer whether its time has come |
| `disconnected`, `handles`, `held` | `is_disconnected`, the two counts of `Channel`, and who has which `Sender` or `Receiver` |
| `entries`, `select` | the wakers of both sides, and each thread's select word |
| `peer` | the packet of a zero-capacity pairing: who is bound to whom |
| `ops`, `mode`, `i`, `states`, `registered` | the arguments and locals of `run_select` |
| `token` | what the operation that fired left for `write` or `read` |
| `expired`, `alarm` | has the call's deadline passed, has that of a timer it waits for? |
| `unready` | history: was there a moment of this call with no operation ready? |

It composes the flavors: `ArrayReceiver`, `ArraySender`, `ListReceiver`, ...,
`NeverReceiver` give each flavor's `SelectHandle` as a record of what its methods
answer, and `Handle` dispatches as `channel.rs` does. `Snapshot`, `Try`,
`Compare` are the non-blocking select; `Try`, `Retry` (with `Pause` and
`Unpause`, the short pause of a zero-capacity channel), `RegisterOp`, `Check`,
`Abort`, `Selected`, `Wait`, `UnregisterOp`, `Accept`, `Late` the blocking one, in
the order of the code; the `Complete...` actions and `Wake` are
`SelectedOperation::send` and `recv`. `Sleep` is what an empty list and `never` do.
`DropHandle`, `Disconnect...` and `CloneHandle` are the handles. The list flavor's
own `recv` loop, which leaves out `retry` and `accept` and gives up without a
last look, is the same actions in the modes `recv`, `recvAt` and `iter`.

Starting an operation is one step here: that `start_send` and `start_recv`
take effect at one moment is what `Implements` of the detailed modules shows. A
slot is still reserved in one step and written in another, so a receiver can find a
slot that it has to wait for (`spins`). The park token is left to
`ArrayChannel`, and `register_count` is reduced to whether it has grown
since it was read.

### `MC...` modules

They only name small sets of threads and the symmetry between them.
`...Proofs` modules hold the theorems.

### Mutants

An operator whose comment starts with "Mutant" is a variant of the definition
after it with a plausible mistake in it. It is used by no specification: it
shows that the property named beside it in `PROJECT.json` would catch it.

## Runs

| run | instance | checks | shows |
|---|---|---|---|
| `ArrayQueueCap2` | 2 senders, 2 receivers, 2 slots, 3 messages each | `TypeOK`, `IInv`, `SlotExclusive`, `Implements` | the atomic steps of the ring buffer implement the abstract queue; head and tail in different laps, neighbours in use, threads a lap behind |
| `ArrayObserversCap2` | 1 sender, 1 receiver, 2 slots, 4 messages, an observer | `ObservationsTrue`, `DropsRest`, `WordsAgree`, `EveryCallReturns` | `len`, `is_empty` and `is_full` are true of a moment of their call; the drop of the channel drops the rest once; two bits of lap are enough; nobody spins for ever |
| `ArrayChannelLive` | 1 sender with deadlines, 2 receivers without, 1 slot, 2 messages | `TypeOK`, `NoLostWakeup`, `EntriesMatch`, `NotStuck` | two receivers asleep, messages one at a time, a sender that gives up: no call waits for what is there, and deadline, abort, wakeup and disconnection race for one context |
| `ListQueueBlocks` | 2 senders, 2 receivers, blocks of 2 slots, 2 messages each, collector running | `IInv`, `SlotAlive`, `ReleasedOnce`, `Implements` | the block list implements the abstract queue and releases everything once |
| `ListObserversLive` | 2 senders, 1 receiver, blocks of 1 slot, 1 message each, an observer | `TypeOK`, `ObservationsTrue`, `EveryCallReturns` | every operation installs or leaves a block, nobody spins for ever, and `len` and `is_empty` are true of a moment of their call |
| `ZeroTrio` | 1 sender, 2 receivers (one with a deadline), one call each of any kind | `IInv`, `EntriesMatch`, `PacketsAlive`, `NeverBothAsleep`, `Implements`, `Meets`, `Releases` | the rendezvous, whatever races with it |
| `TimersTwo` | 2 threads, delay 2, period 2, the instants 0 to 5 | `TypeOK`, `OneMessage`, `EmptyIsTrue`, `Delivered`, `TickDeadlineReturns`, `TicksApart` | both timers with several receivers |
| `SelectChannels` | 3 threads, one call each out of 17, on array (1 slot), list, zero, after, tick and never channels, in three settings | `TypeOK`, `EntriesMatch`, `PairsMatch`, `ClosedMeansDrained`, `HandlesCounted`, `NoneExcused`, `SelectReturns`, `TimedReturns` | selects against selects and single calls, with handles cloned and dropped |
| `ArrayChannelSwallowed` | 1 sender, 2 receivers, one with a deadline | `NotStuck`, violated | a finding below |
| `ListQueueRetired` | 2 senders, 1 receiver, blocks of 2 slots, collector running | `BlockAlive`, violated | a finding below |
| `TimersLost` | 2 threads on one `after` channel | `DeadlineReturns`, violated | a finding below |
| `SelectTry` | 2 list channels, 3 threads | `NoneWasReady`, violated | a finding below |

Why the bounds are enough: every interaction in this code is between the thread
that is late and those that overtook it, on one slot, one block, one waker or
one flag. Two threads of a side and one or two of the other give every pair of
roles a third thread that interferes; one slot makes every operation meet every
other, two slots separate the index from the lap, blocks of one slot install a
block per message and blocks of two separate the block from the slot. Two or
three messages per sender let the buffer wrap around, or the list grow and
shrink, while a thread is late. In `ZeroTrio` one call per thread suffices for
the pairing, since nothing of a call but the context is left to the next one,
and `with` resets the context; the park token, which is left, is in the model
of the array flavor, where threads make several calls. In `TimersTwo` six
instants give a delivery, two ticks and a deadline before, at and after each.
The settings of `SelectChannels` (`Mixed`, `TimedHandles`, `Asking` in `MCSelect`)
put together the flavors whose registrations differ: array with zero, list with
the timers and with its own sender, two lists; a select with one competitor on
each of its channels and a third thread that interferes meets every way in which
an attempt, a registration or a wait can end. One call per thread suffices since
`Context::with` resets the context and entries go with their call
(`EntriesMatch`). A `recv_timeout` on a list runs there with one receiver only:
with two it spends the wakeup of the other, as `ArrayChannelSwallowed` shows for
the array flavor. `ArrayObserversCap2` has one thread of a side, for the words and
for liveness; contention of two is in `ArrayQueueCap2`.
The bounds are `MaxSends`, `MaxCalls`, `MaxTicks`, `MaxClock`, and the sets
`Starts`, `Stock`, `Drops`, `Clones`, `Calls` of `Select`; guards stop a sender, a
caller or the clock there and nothing else.

Every thread may drop its handle whenever it is idle, so every run includes
disconnection (in `Select` those of `Drops`). Deadlock is checked in every run but
those of the timers and of `Select`: a
channel only stops when every handle is dropped (`Terminated`). A
thread that waits for ever in `recv` of `after` is what the code asks for,
and the clock ends at `MaxClock`, so the timers may stop; a select may wait for ever
for a message that nobody sends, and `SelectReturns` says that it waits for nothing else.

## Fairness

A scheduler eventually runs a thread that can run: weak fairness on the
disjunction of each thread's steps inside a call. `ArrayQueue` also assumes that a
weak compare-exchange that could succeed again and again eventually does
(strong fairness of `CasTail` and `CasHead`): the architecture's spurious
failures are not permanent. In `ArrayChannel` time passes (weak
fairness of `Expire`). In `Select` the threads run, timers fire (weak fairness),
and a deadline that a thread reads the clock for again and again passes (strong
fairness of `Expire`, which is only enabled where the clock is read). `ListQueue` asks the same of its compare-exchange as
`ArrayQueue`. In `ZeroChannel` the threads run and time passes; the runs
need no strong fairness for the mutex. In `Timers` the clock goes on to its bound and
threads that are not asleep run. `Meets` leaves out two selects that meet each
other: both may register, see the other, abort and start again, in step, for as
long as the scheduler keeps them so; weak fairness does not end that, only
the timing of real threads does. For the same reason the calls of
`SelectChannels` never put two selects without a deadline on opposite sides of a
zero-capacity channel against each other with nothing else to end them. Nothing obliges a user to begin a call or to drop a
handle, and park is not assumed to return without a reason.

## Proofs

`ArrayQueueProofs` proves, for every finite or infinite set of threads, every
positive capacity and every bound on the messages:

* `TypeCorrect`: `Spec => []TypeOK`. The type invariant is inductive.
* `StampsCorrect`: `Spec => []IInv`.
* `NoDataRace`: `Spec => []SlotExclusive`.

The argument: `WriteLap(i)` and `ReadLap(i)` are the laps at which slot `i` is next
written and next read according to `tail` and `head`. They differ by exactly
one, in the direction that tells whether the slot is held or free (`SlotsOK`),
and the stamp of a slot is the lap of its next use, or one less while a thread
is using it (`WritersOK`, `ReadersOK`). That alone is not inductive: a sender that
is about to exchange the tail relies on a stamp that may be old. `SeenOK` adds
that what a thread has loaded can only be old in one direction: the tail it saw
is at or before the tail, and the slot's lap is at least that of the stamp. With the order of head
and tail (`OrderOK`) it follows that a compare-exchange that succeeds finds a
free slot (`CasTailFindsFree`), or a written message (`CasHeadFindsMessage`).
The assumptions are the named `ASSUME`s of `ArrayQueue`: a positive capacity, a
bound that is a natural number, and senders that are not receivers.

`ArrayRefinementProofs` proves, under the same assumptions:

* `Linearizable`: `Spec => Implements`. The queue of `BoundedQueue` is the sequence
  of the contents of the slots from `head` to `tail`, where the content of a slot
  that is being written is the message of its writer; `QueueFacts` says that this
  is a sequence of messages as long as the distance of the two positions, and each step of
  the code is then one abstract action (`CasTail` is `Enqueue`, `CasHead` is
  `Dequeue`) or changes none of its variables. `SawDisconnected` carries what a
  receiver has read of `is_disconnected` to the reload that decides its answer.
* `ObserversCorrect`: `ObsSpec => []ObservationsTrue`, from an invariant that
  bounds how far the positions can have moved since the observer loaded the first one.
* `DropCorrect`: `ObsSpec => []DropsRest`.
* `WordsCorrect`: `ObsSpec => []WordsAgree`, for every capacity, with `OneLap` the
  power of two that belongs to it. That there is one below twice the capacity is
  shown by a least counterexample (`PowerBetween`), since the double of a number
  without an odd divisor has none either (`PowerDoubles`). A word
  is `OneLap` times the lap modulo four, plus the index (`PackedIs`), the next
  position and lagging a lap behind are computed accordingly (`PackedAdds`), and two words with laps less
  than four apart are equal only if the pairs are (`PackedNear`). That the stamps
  the code compares are never more than two laps apart is a consequence of `IInv`
  (`LapsNear`).

`ArrayChannelProofs` proves, for finitely many threads, any capacity and any number
of messages:

* `TypeCorrect` (`Spec => []TypeOK`) and `EntriesCorrect` (`Spec => []EntriesMatch`).
* `WakeupsSuffice`: `Spec => []NoLostWakeup`, if `TimedAlone`: a thread whose call has
  a deadline has no other on its side. This is needed: `ArrayChannelSwallowed` shows
  that a call that is woken and finds its deadline passed takes the
  wakeup of another with it. It holds where no call has a deadline, and in the instance of `ArrayChannelLive`.

The argument: between the two halves of `wake_one` a waker holds one operation that
is already selected, the one at the cursor of the thread that has the mutex; all
others wait (`EntriesOK`, `HoldersOK`). That the owner does not remove the same entry
too follows from `LabelsOK`: who goes to unregister was aborted or disconnected.
`LabelsOK` also says that a receiver's first load is at or behind `head`,
so that the second look at the queue finds it truly empty. `NoLostWakeup` is not
inductive, since a thread that has not gone to sleep yet may already be past
that look: `WakeupsOK` says it of every `Committed` thread. Each message (or slot) that
appears then comes with a thread that owes `wake_one`, that debt passes to the thread
`wake_one` selects, and is paid when that one reserves or claims; `wake_one` selects nobody
only if nobody is committed, since all of those are in the waker.

The assumptions are those of `ArrayChannel`: a positive capacity, finitely many threads,
senders that are not receivers, a bound that is a natural number, and `NoThread` and the three small
values of the select word being none of the threads (an operation's word is an address).

`ListQueueProofs` proves, for any number of threads, any size of a block and any
number of messages:

* `TypeCorrect`, `BlocksCorrect` (`IInv`), `PositionsCorrect` (`PositionsOK`),
  `NoUseAfterFree` (`SlotAlive`) and `NothingLeaks` (`ReleasedOnce`).

The argument: index and block of an end are moved apart, so `EndsOK` says that
they disagree only while the owner of the block's last slot is on its way to
move the pointer, and that the next block is linked by then. `CallsOK` says
what a thread has loaded: its index and block are at or behind those of the end,
which suffices because the compare-exchange compares the index and an index never comes
back. `OwnersOK` gives a slot one owner at each end, `ContentsOK` a message one place,
and from it follows that the indices stay within the bound on messages: the slots
behind the tail hold as many different messages (an injection). `GuardsOK` says that a retired block is one that the
head has left, and that it waits for everybody who can still look into it;
`BooksOK` counts what has been released.

`ListRefinementProofs` proves `Linearizable` (`Spec => Implements`) and
`ObserversCorrect` (`FairObsSpec => []ObservationsTrue`) for it. `FoundOut` is
what a receiver knows when it goes on: that the message is written, or that the
channel is disconnected.

The assumptions of `ListQueue` are a positive block size, finitely many senders, a bound
that is a natural number, and senders that are not receivers.

`ZeroChannelProofs` proves, for finitely many threads, any kinds of calls and any
bound on them:

* `InvariantCorrect`: `Spec => []IInv`, and from it `TypeCorrect` (`TypeOK`: the
  entries of a waker belong to different threads, so there are no more of them),
  `EntriesCorrect` (`EntriesMatch`) and `PacketsCorrect` (`PacketsAlive`).
* `NobodyOverlooked`: `Spec => []NeverBothAsleep`: whoever goes to sleep has
  found nobody to select under the mutex, and everyone asleep on the other side could have been
  selected.
* `CallsMeet`: `Spec => Implements`. `Pair` is `Meet`, and nothing else of a
  rendezvous is a step of the specification.

The argument: the wakers hold the operations that wait unselected, and in the midst of a
`wake_one` one more, which the holder of the mutex is about to remove (`EntriesOK`, `HolderOK`).
A packet is used by the thread that registered it, by whoever has
selected the entry, and by whoever has got it in the token; `UsersOK` says that these
are one thread or a matched sender and receiver, that the packet exists exactly as long
as there are any, and that whoever finds it not ready is not alone with it: so
`set_ready` always finds the packet, the last one to use it destroys it, and
a thread that returns leaves nobody behind on its stack. `MessagesOK`
follows the message from the sender into the packet and from there to the receiver,
which was promised it when the two were paired. No part is inductive without the
others: that a withdrawn packet has no other user follows from the entry, and that
a selected thread waits long enough to be told its packet from the mutex and the packet. A new packet finds a name
since a thread uses one at a time (`FreshIdFree`, by the pigeonhole principle).

`TimersProofs` proves, for every set of receivers, every delay, every period
and every last instant:

* `TypeCorrect`: `Spec => []TypeOK`.
* `OneMessageOnly`: `Spec => []OneMessage`. Not inductive alone: that the
  message is not received early needs `SwapDue`, that a thread on its way to
  the swap has read the clock past the delivery time (`ClockForward`: it stays so).
* `EmptyNotFalse`: `Spec => []EmptyIsTrue`. Each step that answers `Empty`
  leaves the channel empty behind it (the flag is set or the time has not come).
* `TicksCorrect`: `Spec => TicksApart`, from the link that `TypeOK` states
  between the next tick and the reception of the last.

The assumption is `TimeAssumption`: delay and bound are natural numbers, the
period is a positive one.

`SelectProofs` proves, for any finite set of threads, all channels, calls and handles:

* `CountsCorrect`: `Spec => []HandlesCounted`. The inductive invariant `HInv` has
  three parts: the types of the counts and of the set of handles, `CountsOK`
  (each count is the number of handles of its side) and `ClosedOK` (a side is empty
  exactly if the channel is disconnected or a thread stands between its
  `fetch_sub` and its `disconnect`). `CountsOK` is needed for the other: that a clone
  does not revive a side follows from the handle it is made of. All steps
  of selection are `Quiet`: they touch no handle and never stand there.
* `EntriesCorrect`: `Spec => []EntriesMatch`. The inductive invariant `Base` says where
  a call is (`PlaceOK`: how far it has registered; `HeldOK`: the handles it works on stay with
  its thread; `TokenOK`: a token belongs to the end of a call) and what it waits for
  (`ItemOK`: every entry belongs to a registered operation; `SelectedOK`: a selection is of one
  of them; `PresentOK`: what is unselected has all of its entries). What a step
  does to the wakers is split in two: to the other threads it is `Mild`, which leaves
  them, selects one and takes that entry alone, or tells them of the
  disconnection; its own entries change as `Outcome` says.
* `TypeCorrect`: `Spec => []TypeOK`, from `Base`, `HInv`, the order of the positions
  (`QueuesOK`) and the timers, whose handles are not counted (`Uncounted`).
* `DrainedCorrect`: `Spec => []ClosedMeansDrained`. A channel without handles on a
  side (`Gone`) stays without them, whatever is cloned, and an empty one
  that nobody can send to stays empty: a thread with a send under way still has its handle.
* `PairsCorrect`: `Spec => []PairsMatch`. `PeersOK` adds to `Base` that a paired
  thread has been selected, or holds the packet, and that its operation is one of a
  zero-capacity channel; only its own steps lead on, and each but the last keeps it paired.
* `NothingCorrect`: `Spec => []NoneExcused`. `Scan` adds to `Base` and `QueuesOK` what a
  `try_select` knows while it goes through its operations: the states of its snapshot are states
  that were (`Seen`), and what `state()` answers only goes up (`Forward`), so a state that
  has moved stays moved (`Moved`); an operation that was tried in vain is `Settled`: it is
  not ready, or its state has moved since, or its channel is disconnected. That nothing
  becomes ready behind an unchanged state is `NotReadyStays` for queues and timers, by the
  order of their positions, and `WakersStay` for a zero-capacity channel: a partner appears
  only by a registration, which outdates the snapshot (`Outdate`). When the tries are
  over, either no operation is ready at that moment, or one has moved and the comparison
  finds it, or one is disconnected, which is the excuse. That excuse cannot be dropped: the run
  `SelectTry` shows a call that answers wrongly because of it.

The assumptions are `SelectAssumption` (finitely many threads, and handles at first);
`PairsAssumption`: a channel starts with handles of both sides or of none,
as `bounded` and `unbounded` return a pair; `ReceiversAssumption`: `after`, `tick` and
`never` return a receiver only; and `CallsAssumption`: a call is one of the kinds the
model knows, and those that do not go through `run_select` receive from one list or `never`
channel, as `recv` of `src/flavors/list.rs` and of `src/flavors/never.rs` do.

Every safety invariant and every action property of a passing run is stated by one of these theorems.
Only model-checked: liveness (`EveryCallReturns`, `NotStuck`, `Meets`, `Releases`, `Delivered`,
`TickDeadlineReturns`, `SelectReturns`, `TimedReturns`), since liveness under fairness
is out of the prover's reach.

## Findings

* `ArrayChannelSwallowed`. `wake_one` gives the wakeup of a message to a
  blocked `recv_timeout` and removes it from the waker. If the deadline passes
  before that thread runs, `recv` returns `Timeout` (`src/flavors/array.rs:470-474`)
  without trying again, and the wakeup is spent. A second, untimed `recv` then
  sleeps beside a message in a connected channel, against `src/channel.rs:706`.
  The sender may in turn block on the full channel, so that both sides sleep.
* `ListQueueRetired`. The receiver of a block's last message retires the block
  (`src/flavors/list.rs:327`) without looking at `tail.block`, which still points
  to it until the sender of that message has moved it (`list.rs:191`). A sender
  that pins after the retirement, loads `tail.block` and dereferences it
  (`list.rs:168`) is not protected by its guard, so the block may be freed in
  between. The comment at `list.rs:165` only counts on stale values. The model lets
  a freed block keep its contents, so that the other properties go on to mean
  something; `SlotAlive` says that a slot that was really acquired stays alive.
* `TimersLost`. A `recv_timeout` on `after` that wakes at the delivery time and
  finds the message taken by another receiver calls `sleep_until(None)`
  (`src/flavors/after.rs:98`) and never returns, against `src/channel.rs:760`.
* `SelectTry`. `try_select` returns an error when no attempt succeeded and no
  `state` has changed meanwhile (`src/select.rs:243`). The state of a receive is the
  tail of its channel, which a disconnection does not move, nor a receive by
  somebody else. So: p tries an empty channel, its last sender is dropped, another
  receiver takes the message of p's second channel, p tries that one and gives
  up, although one of its two operations was ready at every moment, against
  `src/select.rs:484-489` and `CHANGELOG.md:38`. `NoneExcused` shows that
  without a disconnection the answer is justified.

## Not modelled, and the plan

Every component with state of its own is modelled. What is left:

1. An abstract specification of a set of channels with select as one atomic
   step, refined by `Select` for calls that `NoneExcused` covers.

Not modelled: `Backoff` (paces loops: when a blocking call stops
trying and registers is left open, except that it tries at least once), `src/err.rs` (data types), `src/select_macro.rs`
(expands to calls of `Select` at compile time), `src/lib.rs` and
`src/flavors/mod.rs` (declarations). The allocation of blocks, packets and buffers is
assumed to succeed, a count of handles to stay below the limit at which
`Sender::new` aborts, and the panics of a `SelectedOperation` that is dropped or
completed with the wrong handle are misuse of the interface.

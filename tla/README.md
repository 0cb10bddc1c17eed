# Formal models of GaspiCxx

TLA+ models of the part of GaspiCxx (`src/`) that communicates and synchronizes:
single-sided buffers, the collectives built from them, the progress engine, passive
communication, the runtime that owns them, serialization, and the memory, notifications
and queues underneath. TLC checks the
models on small instances. For the barrier, the five collectives, the threads of a
collective, the hand-over of passive messages to a user, the queues, the segments and the
runtime with its engine, TLAPS proves the safety results for every value of the constants.

Contents: [1 Inventory](#1-inventory), [2 Modules and code](#2-modules-and-code),
[3 Runs](#3-runs), [4 Fairness](#4-fairness), [5 Proofs](#5-proofs),
[6 Findings](#6-findings), [7 Not modelled](#7-not-modelled), [8 Plan](#8-plan).

## 1 Inventory

GaspiCxx wraps GASPI/GPI-2, a library for remote direct memory access: a process writes
into a segment of another process and sets a notification there, without the other
process taking part. Everything above is built from one pattern: `initTransfer` writes the
data and sets the notification of a target buffer, `ackTransfer` sets that of the source
buffer. All notifications carry the value 1, so that one that lands on top of another
leaves no trace.

| Component | State | Operations | What is hard | Right if |
|---|---|---|---|---|
| Source and target buffers (`singlesided/write`) | data, one notification per buffer | initTransfer, ackTransfer, check/wait for completion and for the ack | requests land in any order; slots are used again | no notification is posted on top of another |
| Endpoint connection (`singlesided/Endpoint.cpp`) | descriptions of partners, temporary buffers of the ConnectHandle | connectToRemotePartner, waitForCompletion | both sides come in any order, tags are used again, buffers are released | everybody gets the description of its partner, nothing arrives in released memory |
| Contexts and queues (`SingleQueueContext`, `RoundRobinQueuesContext`, `Queue`) | queues, current queue index | writePart, notify, flush, destruction | threads find the same queue full; an index may be a whole turn old | calls return, flush covers all posted requests |
| Blocking barrier (`collectives/Barrier.cpp`) | one pair of buffers per step | execute | fast ranks are one call ahead and use the same slots; 16-bit rank arithmetic | nobody returns before everybody has called; all return |
| CollectiveLowLevel | state machine, mutex | waitForSetup, copyIn, start, triggerProgress, waitForCompletion, copyOut | user threads and engine drive it together; the state is tested without the mutex | one thread at a time progresses, one reports completion, waiters return |
| Allgatherv ring, Allreduce ring, Allreduce recursive doubling, Broadcast linear, Broadcast to all | buffers that share memory, step counters | copyInImpl, startImpl, triggerProgressImpl, copyOutImpl | neighbours in different executions; memory is received into and sent from; groups that are no power of two | results, for consecutive executions too; termination; nothing left over |
| Progress engine (`progress_engine`) | map of operators, flag, snapshot, condition variable | register, deregister, polling thread, destructor | sleeping against registering, stale snapshots, handles | every registered collective is polled, the destructor returns |
| Passive communication (`passive/Passive.cpp`) | thread per rank, two maps of announced buffers, the message handed over | iSendTagMessg, iRecvTagMessg, sendMessg, recvMessg, finish | announcements cross; a flag and a condition variable are used as barrier | each send meets its receive once; nobody waits for ever |
| Blocking Allgather(v), Alltoall(v) | temporary buffers | the four calls | consecutive calls use the same tags | right partners, buffers outlive transfers |
| Memory and notification managers (`segment`) | lists of blocks | allocate, deallocate, canAllocate | long sequences of splits and merges | no overlap, no gap, no loss |
| Segments and pools (`segment`) | list of segments, size of new ones | getSegment, construction of segments | looking and taking are two steps; a size is written without the lock | the segment has what was asked for |
| Runtime (`Runtime.cpp`, `RuntimeConfiguration.cpp`) | the parts it owns, some created on first use | getters, barrier, synchCurrentWorkingDirectory, destructor | creation on first use without lock; destruction order against what the engine thread still holds; a last barrier in a destructor | nothing outlives what it uses, the destructor returns |
| Serialization (`utility/serialization`, `BufferDescription`) | none; memory or stream of the caller | size, serialize, deserialize for memory and streams | nested types, sizes computed apart from the writing, targets that hold something, streams that fail half-way | size is exact, objects come back, failures are reported |
| Groups and ranks | membership (fixed), rank arithmetic | translation, ring arithmetic | wrap-around | used inside the models |
| File system helpers, Python bindings, Environment | none | | | not modelled |

How they interact: a collective owns source and target buffers, which are constructed from
a segment of the pool (memory manager, notification manager) and connected over Passive. A
user thread calls the collective; the progress engine calls `triggerProgress`; transfers go
through the communication context to a queue. The runtime owns one of each.

The hazards, each with its line and the properties that would catch it, are in
`PROJECT.json`.

## 2 Modules and code

- **Endpoint** (no constants): a connected pair of buffers, called a channel. Counters
  of posted requests (`writing`, `acking`) and notification slots (`arrived`, `acked`) per
  channel; `initTransfer`, `ackTransfer`, the two tests with their reset, and the landing
  of a request, at any time and in any order.
- **Barrier** extends Endpoint: `execute()` call by call (`InitTransfer`,
  `WaitForCompletion`, `AckTransfer`, `WaitForTransferAck`), the constructor's choice of
  partners with arithmetic modulo `RankModulus`. **SyncBarrier** is the promise of a barrier
  (enter; leave when everybody has entered).
- **Collective** extends Endpoint: the state machine of CollectiveLowLevel on every
  rank, the memory that buffers share, and the application: it starts execution
  after execution, with a barrier in between (`separated`) or without. **AllgathervRing**,
  **AllreduceRing**, **AllreduceRecursiveDoubling**, **BroadcastBasicLinear** and
  **BroadcastSendToAll** extend it with the four `...Impl` operations of each algorithm. A
  call of `triggerProgress` is a step; one that finds nothing to do changes nothing and is
  left out. Data is who contributed: a block is `<<rank, execution>>`, a reduced chunk
  the bag of its contributions, so that a contribution that is missing, counted twice or of
  another execution shows. **MCCollectives** instantiates all five over the same variables
  and lets the application choose one.
- **CollectiveThreads**: CollectiveLowLevel again, now one rank and several threads:
  `try_lock`, the unlocked test in waitForCompletion, what `triggerProgress` returns. The
  algorithm is a number of calls that progress.
- **ProgressEngine**: the polling thread step by step (lock, test, wait, copy, poll) and
  user threads that register, deregister and destroy. Notification and return are steps
  of their own, since they come after the unlock.
- **Passive**: a user thread and a passive thread on every rank, each with the code it
  has still to run as a sequence of operations (`cont`); an action runs the one at the head.
  The handlers of the passive thread, the two maps, writes and notifications under way,
  the flag and the condition variable. `eager` covers both behaviours of
  `gaspi_passive_send`, which may return before or after its message is received.
  **PassiveUsers** has the callers: Endpoint, the blocking collectives,
  synchCurrentWorkingDirectory, messages of a test; a scenario is chosen initially.
- **Segments**: block lists of managers (first fit, split, merge), both pools, and
  constructor and destructor of Buffer with one step per call that takes a lock. `serial`
  says whether the application constructs one buffer at a time. log, ceil and pow are
  computed in floating point; for a power of two the result may be the next one, which is
  a choice in the model.
- **Queues**: posting to, rotating, flushing and deleting the queues of both contexts.
- **Runtime** extends ProgressEngine by the life of the singleton around it. `alive` is the set of
  its parts that exist; `Parts` is the order of bases and members in the header, in
  which the constructor creates those that are not `Lazy` (`Construct`) and against which the
  destructor goes (`DestroyPart`, and three steps of ProgressEngine for the engine). The getters
  are two steps: the test of the pointer (`FindMissing`) and the assignment (`Create`: what the
  configuration gives, or a new barrier), which destroys an object another thread has assigned in between (`lost`; what happens after that is undefined
  and the behaviour ends). The barrier takes its buffers from the pool, so that `creating`
  is a stack of calls. `configured` leaves out the pool or the engine as a configuration may;
  the exception leaves all calls (`Throw`), and ends the program in ~Runtime.
- **Serialization** has an operator for each overload: `size_<kind>`, `serialize_<kind>` and
  `deserialize_<kind>` for memory, `serializeTo_<kind>` and `deserializeFrom_<kind>` for streams. An object is its
  type with its value, so that recursion follows the type as overload resolution does. Numbers
  become bytes, pairs have padding, and each version returns what its code returns: some compute
  the size again, some say how far the pointer has moved. **MCSerialization** calls them as
  Alltoall and Passive do: sum of the sizes, one object behind the other, unpacking into objects
  that are in use.

The theorems are in modules of their own: **BarrierProofs**, **AllreduceRingProofs**,
**DoublingProofs**, **CollectivesProofs** (which carries the previous two over to
MCCollectives and has the broadcasts and the allgather), **ThreadsProofs** (CollectiveThreads and the
barrier of Passive), **QueuesProofs**,
**SegmentsProofs** and **RuntimeProofs** (ProgressEngine and Runtime).

Definitions whose name has the form `X_Y` after a comment "Faulty variant" are
variants of `X` with a plausible slip. They are not used by any specification; each
property fails when the variant named in `PROJECT.json` takes the place of `X`, which shows
that the property depends on that code.

## 3 Runs

`tlc -config <run>.cfg <module>`. `CHECK_DEADLOCK FALSE` is set where the program stops after its
last call. Numbers are distinct states.

| Run | Module | Instance | Checked |
|---|---|---|---|
| barrier | Barrier | 4 ranks, 2 calls; 16,735 | NoNotificationLost, Synchronized, SafeToTearDown, IInv, refinement of SyncBarrier, CallsReturn |
| collectives | MCCollectives | groups of 3, 4 or 5 by algorithm, 2 executions, root 1; 152,938 | results, no lost notification, sources released, nothing left over, exact count of acks, Termination |
| allgatherv_reuse | AllgathervRing | 3 ranks, 2 executions | violation, see 6 |
| broadcast_reuse | BroadcastBasicLinear | 3 ranks, 2 executions | violation, see 6 |
| engine | Runtime | 2 threads, 2 collectives, 4 registrations, 4 configurations; 154,725 | NoLostWakeup, SnapshotCurrent, OutlivesUsers, FirstUseSafe, RegisteredPolled, DestructorReturns |
| engine_handles | ProgressEngine | 2 threads, 2 collectives, 4 registrations | violation, see 6 |
| threads | CollectiveThreads | 2 user threads, 1 engine, 2 executions; 2,029 | OneTrigger, OneCompleter, WaitsForCompletion, ExecutionCompletes, WaiterReturns; no deadlock |
| passive | PassiveUsers | up to 3 ranks, 8 scenarios; 429,824 | RightPartner, NeverThrows, NoStraySignal, BarrierHolds, NoMessageLost, NobodyStuck |
| passive_spurious | PassiveUsers | with spurious wake-ups | violation, see 6 |
| segments | Segments | 2 threads, 3 buffers, 2 segments of up to 4 units, 2 notifications; 2,539,969 | Tiling, OwnedOnce, SegmentSuffices; no deadlock |
| queues | Queues | 2 threads, 2 queues of 2 requests, 4 requests per thread | FlushComplete, CallsReturn |
| serialization | MCSerialization | 44 types, up to 2 elements per container, nested once; 115,232 | SizeExact, RoundTrip, StreamsReport |

The runs barrier (as a part of IInv) and engine check a type invariant too. Those of Queues,
CollectiveThreads and the collectives are proved (section 5) with the invariants.

*What the bounds are for.* Two executions or calls are the least in which a fast rank meets
a slow one of the previous execution with the same slots; in the barrier no rank can be two
calls ahead (`Lockstep`, proved). Four ranks give the barrier two steps and a wrap-around,
and a power of two is the size that needs every step: because each signal is acknowledged, k steps tell
a rank of 2^(k+1) - 1 ranks, on both sides, and with the last step left out (`number_steps_Short`) TLC
finds nothing wrong with 5 ranks and two calls, or 3, 6 or 7 ranks and one. With all steps the properties hold for 5 ranks too (171,821
states, three steps), and are proved for every size. `RankModulus` 16 keeps the relation
`2 * N <= RankModulus` that is assumed. Five ranks give
recursive doubling a power of two and a remainder; three are the least ring with a rank that
both receives and forwards; a root other than 0 makes the linear broadcast wrap around. Two
threads are the least for every race named below; `MaxHandles` lets collectives be registered
again after they were removed. In Segments there are fewer notifications and segments than
buffers, one size is above the maximum, one is 0, and a block can be released between two
free ones. In Queues the requests fill both queues more than once, so that an index can be a
whole turn old. In serialization the types are those for which the templates can be instantiated (a template
sees only the overloads that are declared before it); a byte has two values and a long four bytes, which keeps
the order of the widths and the padding; streams are cut at every byte.

*What the runs show.* The barrier, and the collectives with a barrier between executions,
do what they promise in all interleavings. Without a barrier only the ring allreduce can be
executed again at once. `SourcesReleased` (no write reads a source buffer any more when the
rank has finished) holds for four of the five; the linear broadcast is left out of it because
its ranks do not wait for their writes. The engine loses no wake-up, although it clears its
flag and sleeps under the mutex only and is notified without it. The runtime can be torn down
whatever the engine thread has kept, because the engine is declared behind the pool and the
context, and after the last barrier nothing is under way to a rank any more; a part is
created twice only if two threads make the first call at the same time. A runtime without segment
pool does not survive its destructor. Tagged messages find
their partner in the scenarios, also when calls follow each other without a
barrier. The block lists stay whole and nothing is lost by a constructor that throws. A
segment of a pool has the memory it was asked for if constructors do not overlap; they
may overlap in the application, and then `bad_alloc` is a possible outcome. Serialization is
exact for all types except those with a pair whose `sizeof` is not what it occupies (a member that is a string, a
BufferDescription or a pair with padding); for these `size` is wrong, and behind a container of them the
next object is misplaced. `StreamsReport` holds for all types.

## 4 Fairness

- Barrier and the collective algorithms (MCCollectives): weak fairness of the next-state
  relation. Every step is progress (a test that finds nothing is not a step) and none is
  repeated, so it is enough that something happens as long as something can. Ranks that run on
  processors of their own and GASPI, which delivers what is posted, give more.
- CollectiveThreads: weak fairness for each thread, strong fairness for `Trigger`: a thread that
  tries the mutex again and again gets it at some time. The threads poll without
  end, so a thread that is scheduled tries infinitely often.
- Runtime: weak fairness for the engine thread and for a user thread inside a call. No thread
  has to call anything. Strong fairness for the destructor of the engine, which waits for the
  mutex while spurious wake-ups may let the engine thread take it again and again.
- Queues: weak fairness for a thread inside a call and for the landing of each request.
- Passive and Segments check safety only. `NobodyStuck` says that some thread can go on unless
  all have finished; every operation shortens what is left of the code, so that this
  excludes waiting for ever.

## 5 Proofs

`tlapm <module>` checks the proofs of a module. Everything below is safety and holds for every
value of the constants within the named assumptions. Each proof has an inductive
invariant, a lemma for each action, and a theorem for each property that follows from it. TLC
has checked every inductive invariant too, on the instances of section 3 or, for single collectives, on groups of 2 to 5
ranks with one to three executions.

| Module | Theorem | For every | States |
|---|---|---|---|
| BarrierProofs | NotificationSafety, Synchronization, TearDown, Refinement | group size, number of calls | NoNotificationLost, Synchronized, SafeToTearDown, ImplementsBarrier |
| AllreduceRingProofs | Correctness | group of two or more, executions, with or without a barrier between them | results, no lost notification, sources released, nothing left over |
| DoublingProofs | Correctness | group of two or more, executions | the same; the results if a barrier separates executions |
| CollectivesProofs | AllreduceIsCorrect, AllgathervIsCorrect, BroadcastIsCorrect, CountIsExact, NotificationsAreSafe, SourcesAreReleased, NothingIsLeftOver | sizes of the groups, root, executions, choice of the algorithm | AllreduceCorrect, AllgathervCorrect, BroadcastCorrect, CountExact, NoNotificationLost, SourcesReleased, NothingLeftOver of MCCollectives |
| ThreadsProofs | MutualExclusion, SingleCompletion, WaitersWait | users, engine threads, executions | OneTrigger, OneCompleter, WaitsForCompletion |
| ThreadsProofs | BarrierIsSafe, CodeOfUsers | ranks, code of the users | BarrierHolds of Passive |
| QueuesProofs | TypeCorrect, FlushIsComplete | threads, queues, capacity, requests | TypeOK, FlushComplete |
| SegmentsProofs | NeverFragmented, EachHasOneOwner, PoolKeepsItsPromise | threads, sizes, segments, notifications | Tiling, OwnedOnce, SegmentSuffices |
| RuntimeProofs | TypeCorrect, WakeupNeverLost, SnapshotIsCurrent, NothingOutlivesItsParts, FirstUsesOnly | threads, collectives, registrations | TypeOK, NoLostWakeup, SnapshotCurrent, OutlivesUsers, FirstUseSafe |

### Assumptions

- Barrier, `SizeAssumption`: at least one rank, and `2 * N <= RankModulus`: the constructor adds
  `rank + number_ranks - 2^i` in a 16-bit type, and with more than 32768 ranks the sum wraps
  before the modulus is taken. `PowerAssumption`: facts of arithmetic about 2^i and about the
  existence of `ceil(log2 N)`, which need an induction that the provers do not do.
- Collectives, `Parameters`: the root is a rank, and a group has two ranks at least (a single rank
  only copies). `GroupAssumption` of MCCollectives says the same of its groups. The
  `PowerAssumption` of MCCollectives and the `Parameters` of DoublingProofs have facts about 2^i and `floor(log2 N)`
  besides, as for the barrier; quotients and remainders of these powers are lemmas.
- `ThreadsAssumption`, `QueuesAssumption`, `EngineAssumption`: sizes are natural numbers, a queue
  exists and takes a request, users are not engine threads, and the constants that stand for "none" are not
  threads or collectives.
- `SizesAssumption`: a segment has memory and notifications, the initial size is not above the
  maximum, and GPI provides a segment. Nothing is assumed of the sizes of buffers.

TLC evaluates them for the instances of the runs.

- `BarrierIsSafe` assumes that the condition variable has no spurious wake-ups. With them the property fails
  (section 6), so the assumption cannot be dropped while the code waits once only.

### Arguments

**Barrier.** `Synchronized` is not inductive, for two reasons. What a rank knows comes from
signals, so the invariant has to say what is in the channels: `ChannelCounts` equates the
requests and notifications of a channel with the difference between what its source has sent
(in all calls) and its target has received, and likewise for acknowledgements. Since a rank
waits for the acknowledgement before it goes on, the difference is 0 or 1, which is
`NoNotificationLost`. And a rank knows of the others only step by step: `Coverage` says that
after i steps the 2^i ranks behind it have made the same call. Receiving the signal of the
rank 2^i behind doubles the range, because that rank has done i steps of the same call
and not of an earlier one (`ChannelCounts`), and cannot have lost what it knew. After
`number_steps` steps the range covers the ring. `Lockstep` follows, and it makes
"the same call" well defined. `TearDown` needs the bound on the calls
besides: the sender of a signal cannot have sent more than the receiver has received. `Refinement` maps
`inside` to "not outside of execute()"; leaving needs `Coverage` at the last step.

**Broadcast to all.** An execution is one token on every channel: `ToAllChannelInv` says that what is written
and not consumed is the number of executions the root has sent less those the rank has received, that at
most one token is on a channel, none unless the root is running, and which
execution's data is in the memory of a rank. `CountExact` (the root counts the channels
whose acknowledgement it has not seen) is part of the invariant: a root that has counted to zero is the one
whose channels are empty. `ToAllInStep` is what a barrier between executions gives; only the results
need it.

**Allgather ring.** `AllgathervChannelInv` equates the contents of the channel of step i with the
difference of the executions in which its two ends have passed that step; only the channel of the
last step has acknowledgements. They speak for the other channels because a rank receives the steps in
their order: `Confirmed(r) <= Gets(right, N - 2) <= Gets(right, i) <= Sends(r, i)`, and the two ends of
this chain differ by one at most (`AllgathervCounts`, `AllgathervBounded`). `AllgathervMemoryInv` then says, for separated executions, whose block of which execution is
in every location: the one the left neighbour had when its transfer landed.

**Linear broadcast.** `Passed(r)` counts the executions in which r has had the data and sent it on, which is
one step. `LinearChannelInv` bounds what is on a channel by the difference of `Passed` at its ends. It is an inequality:
without a barrier the root may post a notification on top of another (section 6), and then fewer arrive than were sent; that
nothing is left over holds nevertheless. With a barrier a rank is ahead of any other by its present execution only
(`LinearAhead`), so that the difference is at most one, and the memory from which a write is still to be sent
has the data of that execution (`LinearForward`), although the rank neither waits for the write nor for an acknowledgement.

**Allreduce ring.** A chunk goes around the ring twice, once to collect contributions and once to spread the
result. `Turn(c)` numbers the step in which a channel is used, and `Accounted` is for each channel what
`AllgathervChannelInv` is for the allgather. Results do not need a barrier because nobody can run away: a rank
sends step u only after the rank d places before it has sent step u - d (`WaveInv`), and the last of the 2N - 2
steps has been around the ring, so that a rank that finishes knows that all others have begun. `MemoryInv`
says what is in every chunk: its owner's contribution, then those of an arc of the ranks behind
(`Arc`, which grows by one rank each time it is received and so counts nobody twice), then all. A write that lands into
a chunk still in use by the previous execution is excluded by `WaveInv`; this is where the allgather, which is a
single turn, differs.

**Recursive doubling.** A group that is no power of two folds its first ranks in pairs; the active ranks get
labels without gaps (`Label`), and partners of iteration k differ in bit k of it (`Flip`). `Position` numbers what a rank
does in an execution (it sends, takes and is acknowledged), and `ChannelInv` equates the contents of a channel with the
difference of the executions in which its ends have passed these positions. The chain of the three positions of
a channel keeps the difference at most one, with or without a barrier. For results `Group(r, k)` is the set of ranks whose
labels agree with that of r above bit k. The groups of two partners are disjoint and their union is the group of
k + 1 (`Groups`, `GroupStep`), therefore each contribution is counted once, and after the last iteration the
group is everybody. `LockStep`, which a barrier gives, excludes that a partner writes the next execution's data over what
has not been read.

**Collectives.** MCCollectives has its own instances of the algorithms. The broadcasts and the allgather are proved for
these; for the allreduces the lemmas `SameRing`, `SameDoubling` and `SameLargeDoubling` show definition by definition that the
instance is the one the theorems are about. `IInv` is the invariant of the algorithm that was chosen.

**Threads of a collective.** `ThreadInv` relates what each thread remembers to the number of the current
execution: it has completed only executions that are over, and it waits in one that has begun. With this a
waiter that reads the state without the mutex can tell a later execution from its own, and
`OneCompleter` is inductive.

**Barrier of Passive.** The specification of the theorem is `PassiveSpec`: PassiveNext, with users whose code is any
`Program`. `CodeOfUsers` says what these are: sequences of operations without the barrier, whole calls of recvMessg, and
such codes one after the other; every scenario of PassiveUsers is put together like that. `Meeting` lists where the
two threads of a rank can be, together with `bool`, who waits and whether there is a message: a thread that has
been signalled and has not returned yet can be overtaken by the other at the next barrier, where the
second finds `bool` as it has to be because the first has not come there a second time. The code that is left is
part of the invariant (`Pending`: a copy is followed by a barrier, a barrier by a copy unless it is the second one), and
so is that only the three known tags are sent (`MessagesInv`), since they decide what the passive thread does next.

**Queues.** `Counted`: each request that has not landed is counted by a queue. `FlushCovers`: what
was posted before a flush and has not landed is in a queue the flush has still to visit. Other threads
post while it goes from queue to queue and rotate the current queue; neither moves a request to a
queue already visited, since requests posted later are not `before`.

**Segments.** `Tiling` names only neighbours. The invariant needs any two blocks of a list
ordered (`Listed`); then a start names a block, which is what `deallocate` relies on
when it looks a block up. `Splice` and `FreeBlocks` have the lemmas: what first fit with split and release with
merge return is again a list as above, has the used blocks it should and no others. `OwnersInv` is a
correspondence: each buffer, and each constructor between the two locks or on its way out by an exception,
refers to a used block of its size in a segment that exists, no two to the same one, and each used
block has its owner. From this `OwnedOnce` counts the two sets by an injection. `SizeInv`
is for buffers that are constructed one at a time: the segment the pool has chosen has a free block for the
request, which the releases of other threads can only enlarge. Of the size of
new segments, which is computed in floating point, nothing is used but that it is not below the request.

**Runtime.** `EngineInv`: the engine thread has the mutex exactly between taking it and the wait or
the copy, and before it sleeps it has seen no operators and no termination while it held the mutex. A registration
that comes later has still to notify. The rest relates the parts: nothing is alive without what
it uses (`Closed`), calls to the engine and handles exist only while pool, context and engine do, and what
the engine may still poll needs pool and context until the engine is gone (`CollectiveInv`). That the order of declaration
respects the uses is a lemma about `Parts`. `Overlaps` says that two threads that create the same part have overlapped,
from which `FirstUseSafe` follows.

### Only model-checked

- Liveness of all modules (CallsReturn, Termination, ExecutionCompletes, WaiterReturns,
  RegisteredPolled, DestructorReturns): the prover does not do fairness or ENABLED.
- RightPartner, NeverThrows, NoStraySignal, NoMessageLost and NobodyStuck of Passive and PassiveUsers: they depend on
  what the users call, and the invariant has to relate the code of all ranks with two maps and the
  messages under way.
- Serialization: recursive operators over nested types, and an induction over the data, which are beyond
  the prover.

## 6 Findings

- **allgatherv_reuse** (`AllgathervRing.hpp:163`): an Allgatherv that is executed again without a
  barrier may mix the results of two executions. A rank finishes when its last block is
  acknowledged; its right neighbour may not have copied its blocks out. The
  headers say that a collective can be executed many times. Recursive doubling and broadcast
  to all have the same gap.
- **broadcast_reuse** (`BroadcastBasicLinear.hpp:168`): the root of a linear broadcast does not wait for
  its transfer; executed again at once it posts a notification on top of another, and ranks
  wait for ever.
- **engine_handles** (`RoundRobinDedicatedThread.cpp:99`): two threads that register at the same time may both
  be given the later handle; the second deregistration throws, from a destructor.
- **passive_spurious** (`Passive.cpp:203`): `pthread_cond_wait` is called once, without testing the
  condition again; a spurious wake-up breaks the two thread barrier.

## 7 Not modelled

- Errors of GPI other than a full queue and resources that run out; GaspiCxx turns them
  into exceptions and has no recovery.
- `sendError` and the limit on the length of passive messages; tests of arguments that throw
  and change no state.
- Remote registration of segments. A runtime configured without a communication context, whose getter
  dereferences a null pointer. Static objects of the application that own collectives and are
  destroyed after the runtime (the comment in `Runtime::getRuntime` names them).
- What an object holds after `deserialize` has thrown.
- Groups of one rank, for which the collectives only copy.
- `initTransferPart` with an offset, which no collective uses.
- File system helpers, Python bindings: no state of their own.
  `Environment.cpp` is not part of the build.
- Two user threads of one rank in `recvMessg`, or a program that waits for a connection before it
  calls `recvMessg`; see the hazards.

## 8 Plan

Done, in this order: Endpoint, Barrier and SyncBarrier with proofs; Collective and the five
algorithms; ProgressEngine; CollectiveThreads; Passive and PassiveUsers; Segments; Queues;
Serialization; Runtime.

Next:

1. A composition of Collective and ProgressEngine: a collective that is destroyed while
   the engine's snapshot still has it.
2. An abstract specification of a non-blocking collective (every rank contributes once,
   results after the last contribution) that the five algorithms implement when executions
   are separated.
3. An abstract specification of tagged messages (one send meets one receive) for Passive.
4. An inductive invariant for the announcements of Passive (the two thread barrier has one).

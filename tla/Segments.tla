------------------------------ MODULE Segments ------------------------------
(***************************************************************************)
(* The memory and the notifications behind the buffers of one process:     *)
(* MemoryManager and NotificationManager of every segment, the segment     *)
(* pools, and the constructor and destructor of Buffer, which several      *)
(* threads may call.                                                       *)
(*                                                                         *)
(* A manager is a list of blocks [start, size, free], searched from the    *)
(* front.  It works under its own mutex, the dynamic pool under another    *)
(* one, so that each of their calls is a step; a constructor makes several *)
(* calls.  Addresses are offsets in the segment.                           *)
(***************************************************************************)
EXTENDS Integers, Sequences, FiniteSets, FiniteSetsExt, TLC

CONSTANTS
  Threads,
  Sizes,            \* sizes of buffers that are asked for
  InitialSize,      \* size per segment the dynamic pool is created with
  MaxSegmentSize,   \* _maxSegmentSize, and the size of the single segment
  MaxSegments,      \* segments that GPI provides to the pool
  NumNotifications, \* notifications of a segment
  MaxBuffers        \* bound on the buffers that exist or are constructed

(* The sizes are positive except that a buffer may be empty. *)
ASSUME SizesAssumption ==
  /\ Sizes \subseteq Nat
  /\ InitialSize \in 1 .. MaxSegmentSize
  /\ {MaxSegmentSize, NumNotifications, MaxSegments} \subseteq Nat \ {0}

NULL == -1

VARIABLES
  pool,            \* "dynamic" or "single"
  serial,          \* whether the application constructs one buffer at a time
  sizePerSegment,  \* _sizePerSegment
  segments,        \* _segments: records of size, memory and notifications
  pc, request,     \* per thread: where it is and the size it asks for
  chosen, pointer, \* per thread: segment it was given, memory it has got
  held             \* per thread: its buffers

vars == <<pool, serial, sizePerSegment, segments, pc, request, chosen, pointer, held>>

Block(start, size, free) == [start |-> start, size |-> size, free |-> free]
-----------------------------------------------------------------------------
(* MemoryManager and NotificationManager. *)
Fits(blocks, size) == {i \in DOMAIN blocks : blocks[i].free /\ blocks[i].size >= size}

canAllocate(blocks, size) == size = 0 \/ Fits(blocks, size) # {}

FirstFit(blocks, size) == Min(Fits(blocks, size))

(* Blocks first to last are replaced by the new ones. *)
Splice(blocks, first, last, new) ==
  SubSeq(blocks, 1, first - 1) \o new \o SubSeq(blocks, last + 1, Len(blocks))

(* allocate: the first block that fits, split if it is larger. *)
allocate(blocks, size) ==
  LET i == FirstFit(blocks, size)
      b == blocks[i]
      used == Block(b.start, size, FALSE)
      rest == Block(b.start + size, b.size - size, TRUE)
  IN Splice(blocks, i, i, IF b.size = size THEN <<used>> ELSE <<used, rest>>)

(* Blocks first to last become one free block. *)
FreeBlocks(blocks, first, last) ==
  LET start == blocks[first].start
      end == blocks[last].start + blocks[last].size
  IN Splice(blocks, first, last, <<Block(start, end - start, TRUE)>>)

(* Faulty variant: does not look at the block before. *)
deallocate_NoMergePrevious(blocks, start) ==
  LET i == CHOOSE j \in DOMAIN blocks : blocks[j].start = start
      last == IF i < Len(blocks) /\ blocks[i + 1].free THEN i + 1 ELSE i
  IN FreeBlocks(blocks, i, last)

(* deallocate: merged with the next and the previous block if free. *)
deallocate(blocks, start) ==
  LET i == CHOOSE j \in DOMAIN blocks : blocks[j].start = start
      first == IF i > 1 /\ blocks[i - 1].free THEN i - 1 ELSE i
      last == IF i < Len(blocks) /\ blocks[i + 1].free THEN i + 1 ELSE i
  IN FreeBlocks(blocks, first, last)

acquire_notification(blocks) == allocate(blocks, 1)

release_notification(blocks, id) == deallocate(blocks, id)

(* Segment: memory and notifications are free; segments are known by id,   *)
(* new ones are put at the front of the list.                              *)
Segment(id, size) ==
  [id |-> id, size |-> size, memory |-> <<Block(0, size, TRUE)>>,
   notifications |-> <<Block(0, NumNotifications, TRUE)>>]

Position(id) == CHOOSE i \in DOMAIN segments : segments[i].id = id
SegmentOf(t) == segments[Position(chosen[t])]

(* pow(2, ceil(log(size) / log(2))): for a power of two the quotient may   *)
(* come out a little too large (2^29 does), and the result is the next one.*)
PowersOfTwo == {2 ^ k : k \in 0 .. MaxSegmentSize}

ToPowerOfTwo(size) == {p \in size .. 2 * size : p \in PowersOfTwo}

Init ==
  /\ pool \in {"dynamic", "single"}
  /\ serial \in BOOLEAN
  /\ sizePerSegment = InitialSize
  /\ segments = IF pool = "single" THEN <<Segment(1, MaxSegmentSize)>> ELSE <<>>
  /\ pc = [t \in Threads |-> "idle"]
  /\ request = [t \in Threads |-> 0]
  /\ chosen = [t \in Threads |-> 0]
  /\ pointer = [t \in Threads |-> NULL]
  /\ held = [t \in Threads |-> {}]
-----------------------------------------------------------------------------
(* Buffer::Buffer(size): getFreeSegment, then memory, then a notification. *)
Constructing(t) == pc[t] \in {"adjust", "find", "memory", "notification"}

NumBuffers ==
  Cardinality({t \in Threads : Constructing(t)}) + Cardinality(UNION {held[t] : t \in Threads})

Go(t, where) == pc' = [pc EXCEPT ![t] = where]

(* Constructor or destructor are left: nothing of them is remembered. *)
Leave(t) ==
  /\ Go(t, "idle")
  /\ request' = [request EXCEPT ![t] = 0]
  /\ chosen' = [chosen EXCEPT ![t] = 0]
  /\ pointer' = [pointer EXCEPT ![t] = NULL]

(* DynamicSegmentPool::getSegment before its lock: the size is tested, and *)
(* set in a step of its own.  A size above the maximum throws.             *)
Construct(t, size) ==
  /\ pc[t] = "idle" /\ NumBuffers < MaxBuffers
  /\ serial => \A u \in Threads : ~Constructing(u)
  /\ \/ /\ pool = "dynamic" /\ size > MaxSegmentSize
        /\ Leave(t)
     \/ /\ pool = "dynamic" /\ size \in sizePerSegment + 1 .. MaxSegmentSize
        /\ request' = [request EXCEPT ![t] = size]
        /\ Go(t, "adjust") /\ UNCHANGED <<chosen, pointer>>
     \/ /\ pool = "single" \/ size <= sizePerSegment
        /\ request' = [request EXCEPT ![t] = size]
        /\ Go(t, "find") /\ UNCHANGED <<chosen, pointer>>
  /\ UNCHANGED <<pool, serial, sizePerSegment, segments, held>>

(* Faulty variant: the size per segment stays what it was. *)
Adjust_Forgotten(t) ==
  /\ pc[t] = "adjust"
  /\ Go(t, "find")
  /\ UNCHANGED <<pool, serial, sizePerSegment, segments, request, chosen, pointer, held>>

Adjust(t) ==
  /\ pc[t] = "adjust"
  /\ sizePerSegment' \in {Min({p, MaxSegmentSize}) : p \in ToPowerOfTwo(request[t])}
  /\ Go(t, "find")
  /\ UNCHANGED <<pool, serial, segments, request, chosen, pointer, held>>

Enough(size) == {i \in DOMAIN segments : canAllocate(segments[i].memory, size)}

Found(t, id) ==
  /\ chosen' = [chosen EXCEPT ![t] = id]
  /\ Go(t, "memory") /\ UNCHANGED <<request, pointer>>

(* The rest of getSegment: the first segment with enough memory, or a new  *)
(* one, which throws if GPI has no segment left.                           *)
Find(t) ==
  LET enough == Enough(request[t])
      new == Len(segments) + 1
  IN /\ pc[t] = "find" /\ pool = "dynamic"
     /\ \/ /\ enough # {}
           /\ Found(t, segments[Min(enough)].id) /\ UNCHANGED segments
        \/ /\ enough = {} /\ new <= MaxSegments
           /\ segments' = <<Segment(new, sizePerSegment)>> \o segments
           /\ Found(t, new)
        \/ /\ enough = {} /\ new > MaxSegments
           /\ Leave(t) /\ UNCHANGED segments
     /\ UNCHANGED <<pool, serial, sizePerSegment, held>>

(* SingleSegmentPool::getSegment: the segment, or it throws. *)
FindSingle(t) ==
  /\ pc[t] = "find" /\ pool = "single"
  /\ \/ Enough(request[t]) # {} /\ Found(t, 1)
     \/ Enough(request[t]) = {} /\ Leave(t)
  /\ UNCHANGED <<pool, serial, sizePerSegment, segments, held>>

SetMemory(t, blocks) == segments' = [segments EXCEPT ![Position(chosen[t])].memory = blocks]

(* The allocator of the segment; bad_alloc if the memory is gone. *)
AllocateMemory(t) ==
  LET memory == SegmentOf(t).memory
      Got(start) == /\ pointer' = [pointer EXCEPT ![t] = start]
                    /\ Go(t, "notification") /\ UNCHANGED <<request, chosen>>
  IN /\ pc[t] = "memory"
     /\ \/ request[t] = 0 /\ Got(NULL) /\ UNCHANGED segments
        \/ /\ request[t] > 0 /\ canAllocate(memory, request[t])
           /\ SetMemory(t, allocate(memory, request[t]))
           /\ Got(memory[FirstFit(memory, request[t])].start)
        \/ /\ ~canAllocate(memory, request[t])
           /\ Leave(t) /\ UNCHANGED segments
     /\ UNCHANGED <<pool, serial, sizePerSegment, held>>

(* The buffer is complete.  If no notification is left the constructor     *)
(* throws, and the destructor of _allocMemory gives the memory back.       *)
Complete(t) ==
  LET s == SegmentOf(t)
      id == s.notifications[FirstFit(s.notifications, 1)].start
  IN /\ canAllocate(s.notifications, 1)
     /\ segments' = [segments EXCEPT ![Position(s.id)].notifications = acquire_notification(@)]
     /\ held' = [held EXCEPT ![t] = @ \cup
                   {[segment |-> s.id, start |-> pointer[t], size |-> request[t],
                     notification |-> id]}]

ReturnMemory(t) ==
  IF pointer[t] = NULL THEN UNCHANGED segments
  ELSE SetMemory(t, deallocate(SegmentOf(t).memory, pointer[t]))

(* Faulty variant: the memory is not given back. *)
AcquireNotification_Leaks(t) ==
  /\ pc[t] = "notification"
  /\ \/ Complete(t)
     \/ /\ ~canAllocate(SegmentOf(t).notifications, 1)
        /\ UNCHANGED <<segments, held>>
  /\ Leave(t)
  /\ UNCHANGED <<pool, serial, sizePerSegment>>

AcquireNotification(t) ==
  /\ pc[t] = "notification"
  /\ \/ Complete(t)
     \/ /\ ~canAllocate(SegmentOf(t).notifications, 1)
        /\ ReturnMemory(t) /\ UNCHANGED held
  /\ Leave(t)
  /\ UNCHANGED <<pool, serial, sizePerSegment>>

(* Buffer::~Buffer: the notification, then the memory. *)
ReleaseNotification(t, b) ==
  /\ pc[t] = "idle" /\ b \in held[t]
  /\ held' = [held EXCEPT ![t] = @ \ {b}]
  /\ chosen' = [chosen EXCEPT ![t] = b.segment]
  /\ pointer' = [pointer EXCEPT ![t] = b.start]
  /\ request' = [request EXCEPT ![t] = b.size]
  /\ segments' = [segments EXCEPT ![Position(b.segment)].notifications =
                    release_notification(@, b.notification)]
  /\ Go(t, "release")
  /\ UNCHANGED <<pool, serial, sizePerSegment>>

ReleaseMemory(t) ==
  /\ pc[t] = "release"
  /\ ReturnMemory(t)
  /\ Leave(t)
  /\ UNCHANGED <<pool, serial, sizePerSegment, held>>

Next ==
  \E t \in Threads :
    \/ \E size \in Sizes : Construct(t, size)
    \/ Adjust(t) \/ Find(t) \/ FindSingle(t)
    \/ AllocateMemory(t) \/ AcquireNotification(t)
    \/ \E b \in held[t] : ReleaseNotification(t, b)
    \/ ReleaseMemory(t)

Spec == Init /\ [][Next]_vars

(* The threads are alike. *)
Symmetry == Permutations(Threads)
-----------------------------------------------------------------------------
TypeOK ==
  /\ pool \in {"dynamic", "single"} /\ serial \in BOOLEAN
  /\ sizePerSegment \in 1 .. MaxSegmentSize
  /\ \A i \in DOMAIN segments : segments[i].size \in 1 .. MaxSegmentSize
  /\ pc \in [Threads -> {"idle", "adjust", "find", "memory", "notification", "release"}]
  /\ request \in [Threads -> Sizes \cup {0}]
  /\ chosen \in [Threads -> 0 .. Len(segments)]
  /\ pointer \in [Threads -> {NULL} \cup 0 .. MaxSegmentSize]

(* The blocks of a manager cover its range one after the other, and no two *)
(* free ones are neighbours.                                               *)
Tile(blocks, size) ==
  /\ blocks[1].start = 0
  /\ blocks[Len(blocks)].start + blocks[Len(blocks)].size = size
  /\ \A i \in DOMAIN blocks : blocks[i].size > 0
  /\ \A i \in 1 .. Len(blocks) - 1 :
       /\ blocks[i].start + blocks[i].size = blocks[i + 1].start
       /\ ~(blocks[i].free /\ blocks[i + 1].free)

(* Whatever sequence of allocations and releases: memory and notifications *)
(* of every segment are split and merged without gap or overlap, and when  *)
(* all is released one block is left, large enough for any request.        *)
Tiling ==
  \A i \in DOMAIN segments :
    Tile(segments[i].memory, segments[i].size) /\ Tile(segments[i].notifications, NumNotifications)

(* What the threads own in a segment: the parts of their buffers, and      *)
(* memory on its way to or from a buffer.                                  *)
Buffers(id) == UNION {{<<t, b>> : b \in {c \in held[t] : c.segment = id}} : t \in Threads}
OnTheWay(id) == {t \in Threads : pc[t] \in {"notification", "release"} /\ chosen[t] = id}
MemoryOwners(id) ==
  {o \in {<<x, x[2].start, x[2].size>> : x \in Buffers(id)}
          \cup {<<<<t>>, pointer[t], request[t]>> : t \in OnTheWay(id)} : o[2] # NULL}

Used(blocks) == {b \in {blocks[i] : i \in DOMAIN blocks} : ~b.free}

(* Each used block belongs to exactly one buffer, also after constructors  *)
(* that threw: nothing is given out twice, nothing is lost.                *)
OwnedOnce ==
  \A i \in DOMAIN segments :
    LET s == segments[i]
        notes == {x[2].notification : x \in Buffers(s.id)}
    IN /\ {<<o[2], o[3]>> : o \in MemoryOwners(s.id)}
            = {<<b.start, b.size>> : b \in Used(s.memory)}
       /\ Cardinality(MemoryOwners(s.id)) = Cardinality(Used(s.memory))
       /\ notes = {b.start : b \in Used(s.notifications)}
       /\ Cardinality(notes) = Cardinality(Buffers(s.id))

(* The segment that a pool returns has the memory it was asked for when    *)
(* the buffer gets to allocate it, as long as buffers are constructed one  *)
(* at a time: the pool looks and the buffer takes in separate steps, and   *)
(* the size of new segments is set without the lock.                       *)
SegmentSuffices ==
  serial => \A t \in Threads :
    pc[t] = "memory" => canAllocate(SegmentOf(t).memory, request[t])
=============================================================================

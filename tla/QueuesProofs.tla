---------------------------- MODULE QueuesProofs ----------------------------
(***************************************************************************)
(* The theorems about Queues, for every number of threads, queues and      *)
(* requests and every capacity.                                            *)
(***************************************************************************)
EXTENDS Queues, FiniteSetTheorems, SequenceTheorems, TLAPS

(* The queues are finite sets of requests; who is in a call may post one   *)
(* more request, and nobody is in a call once the destructor runs.         *)
Shape ==
  /\ queues \in Seq(SUBSET Requests)
  /\ \A q \in DOMAIN queues : IsFiniteSet(queues[q])
  /\ alive => queues # <<>>
  /\ \A t \in Threads :
       /\ ~alive => pc[t] = "idle"
       /\ pc[t] \notin {"idle", "flush"} => posted[t] < MaxRequests

(* A request that has not landed is counted by a queue. *)
Counted == \A r \in pending : \E q \in DOMAIN queues : r \in queues[q]

(* What a flush waits for is in a queue that it has still to visit. *)
FlushCovers ==
  \A t \in Threads :
    /\ before[t] \subseteq Posted
    /\ pc[t] = "flush" =>
         \A r \in before[t] \cap pending :
           \E q \in DOMAIN queues : q >= index[t] /\ r \in queues[q]

IInv == TypeOK /\ Shape /\ Counted /\ FlushCovers

(* A sequence is a function on 1 .. Len. *)
LEMMA QueuesDomain ==
  ASSUME Shape
  PROVE  /\ Len(queues) \in Nat
         /\ DOMAIN queues = 1 .. Len(queues)
         /\ \A q \in DOMAIN queues : queues[q] \in SUBSET Requests
         /\ alive => Len(queues) >= 1
BY LenProperties, ElementOfSeq, EmptySeq DEF Shape

(* The successor of a queue on the ring is a queue. *)
LEMMA NextQueueType ==
  ASSUME Shape, alive, NEW q \in DOMAIN queues
  PROVE  NextQueue(q) \in DOMAIN queues
<1>1. \A n \in Nat \ {0}, k \in Nat : k % n \in 0 .. n - 1
  OBVIOUS
<1>2. q \in Nat /\ Len(queues) \in Nat \ {0} /\ DOMAIN queues = 1 .. Len(queues)
  BY QueuesDomain
<1> HIDE DEF Shape
<1>3. q % Len(queues) \in 0 .. Len(queues) - 1
  BY <1>1, <1>2
<1> QED
  BY <1>2, <1>3 DEF NextQueue

(* Changing a queue keeps the others and their number. *)
LEMMA QueueChanged ==
  ASSUME Shape, NEW q \in DOMAIN queues, NEW S \in SUBSET Requests,
         queues' = [queues EXCEPT ![q] = S]
  PROVE  /\ queues' \in Seq(SUBSET Requests)
         /\ queues' # <<>>
         /\ DOMAIN queues' = DOMAIN queues
         /\ \A p \in DOMAIN queues : queues'[p] = IF p = q THEN S ELSE queues[p]
<1>1. queues \in Seq(SUBSET Requests) /\ q \in 1 .. Len(queues)
  BY QueuesDomain DEF Shape
<1>2. queues' \in Seq(SUBSET Requests) /\ Len(queues') = Len(queues)
  BY <1>1, ExceptSeq
<1>3. DOMAIN queues' = DOMAIN queues
  OBVIOUS
<1>4. queues' # <<>>
  BY <1>1, <1>2, EmptySeq
<1> QED
  BY <1>2, <1>3, <1>4

(* The posted requests are those with a number that has been used. *)
LEMMA PostedPair ==
  ASSUME TypeOK, NEW t \in Threads, posted[t] < MaxRequests
  PROVE  /\ <<t, posted[t] + 1>> \in Requests
         /\ <<t, posted[t] + 1>> \notin Posted
<1>1. posted[t] \in 0 .. MaxRequests
  BY DEF TypeOK
<1> DEFINE n == posted[t] + 1
<1>2. n \in 1 .. MaxRequests /\ ~(n <= posted[t])
  BY <1>1, QueuesAssumption
<1>3. <<t, n>> \in Requests
  BY <1>2 DEF Requests
<1>4. <<t, n>> \notin Posted
  BY <1>2 DEF Posted
<1> QED
  BY <1>3, <1>4
-----------------------------------------------------------------------------
(* The invariant holds for a new context. *)
LEMMA InvInit == Init => IInv
<1> SUFFICES ASSUME Init PROVE IInv
  OBVIOUS
<1>1. /\ queues \in Seq(SUBSET Requests) /\ DOMAIN queues = 1 .. Len(queues)
      /\ Len(queues) >= 1 /\ \A q \in DOMAIN queues : queues[q] = {}
  <2>1. CASE queues = <<{}>>
    BY <2>1
  <2>2. CASE queues = [q \in 1 .. NumQueues |-> {}]
    BY <2>2, QueuesAssumption
  <2> QED
    BY <2>1, <2>2 DEF Init
<1>2. /\ queue_index = 1 /\ mutex = NoThread
      /\ pc = [t \in Threads |-> "idle"] /\ index = [t \in Threads |-> 1]
      /\ posted = [t \in Threads |-> 0] /\ before = [t \in Threads |-> {}]
      /\ pending = {} /\ alive = TRUE /\ kind \in {"single", "round robin"}
  BY DEF Init
<1>3. IsFiniteSet({}) /\ Cardinality({}) = 0
  BY FS_EmptySet
<1> HIDE DEF Init
<1>4. Shape
  <2>1. \A q \in DOMAIN queues : IsFiniteSet(queues[q])
    BY <1>1, <1>3
  <2>2. queues # <<>>
    BY <1>1
  <2>3. \A t \in Threads : pc[t] = "idle"
    BY <1>2
  <2> QED
    BY <1>1, <1>2, <2>1, <2>2, <2>3 DEF Shape
<1>5. TypeOK
  <2>1. \A q \in DOMAIN queues : Cardinality(queues[q]) <= Capacity
    <3>1. \A q \in DOMAIN queues : Cardinality(queues[q]) = 0
      BY <1>1, <1>3
    <3> QED
      BY <3>1, QueuesAssumption
  <2>2. \A q \in DOMAIN queues : queues[q] \subseteq Requests
    BY <1>1
  <2>3. 1 \in DOMAIN queues
    BY <1>1
  <2>4. index \in [Threads -> DOMAIN queues]
    BY <1>2, <2>3
  <2>5. pc \in [Threads -> {"idle", "post", "flush and retry", "select",
                             "flush next", "flush"}]
    BY <1>2
  <2>6. posted \in [Threads -> 0 .. MaxRequests]
    <3>1. 0 \in 0 .. MaxRequests
      BY QueuesAssumption
    <3> QED
      BY <1>2, <3>1
  <2>7. before \in [Threads -> SUBSET Requests] /\ pending \subseteq Posted
    BY <1>2
  <2> QED
    BY <1>2, <2>1, <2>2, <2>3, <2>4, <2>5, <2>6, <2>7 DEF TypeOK
<1> QED
  BY <1>2, <1>4, <1>5 DEF IInv, Counted, FlushCovers

(* Emptying a queue all of whose requests have landed changes nothing for  *)
(* the requests that have not.                                             *)
LEMMA QueueEmptied ==
  ASSUME IInv, NEW q \in DOMAIN queues, Drained(q), EmptyQueue(q), pending' = pending
  PROVE  /\ queues' \in Seq(SUBSET Requests) /\ queues' # <<>>
         /\ DOMAIN queues' = DOMAIN queues /\ Len(queues') = Len(queues)
         /\ \A p \in DOMAIN queues' :
              /\ queues'[p] \subseteq Requests /\ IsFiniteSet(queues'[p])
              /\ Cardinality(queues'[p]) <= Capacity
         /\ \A r \in pending, p \in DOMAIN queues : r \in queues[p] => p # q /\ r \in queues'[p]
<1> USE DEF IInv
<1>1. /\ queues' \in Seq(SUBSET Requests)
      /\ queues' # <<>>
      /\ DOMAIN queues' = DOMAIN queues
      /\ \A p \in DOMAIN queues : queues'[p] = IF p = q THEN {} ELSE queues[p]
  BY QueueChanged DEF EmptyQueue
<1>2. Len(queues') = Len(queues)
  BY <1>1, QueuesDomain, LenProperties
<1>3. IsFiniteSet({}) /\ Cardinality({}) = 0 /\ 0 <= Capacity
  BY FS_EmptySet, QueuesAssumption
<1>4. ASSUME NEW p \in DOMAIN queues
      PROVE  /\ queues'[p] \subseteq Requests /\ IsFiniteSet(queues'[p])
             /\ Cardinality(queues'[p]) <= Capacity
  <2>1. CASE p = q
    <3>1. queues'[p] = {}
      BY <1>1, <2>1
    <3> QED
      BY <1>3, <3>1
  <2>2. CASE p # q
    <3>1. queues'[p] = queues[p]
      BY <1>1, <2>2
    <3> QED
      BY <3>1 DEF TypeOK, Shape
  <2> QED
    BY <2>1, <2>2
<1>5. \A r \in pending, p \in DOMAIN queues : r \in queues[p] => p # q /\ r \in queues'[p]
  BY <1>1 DEF Drained
<1> QED
  BY <1>1, <1>2, <1>4, <1>5

(* The calls that neither post nor empty a queue. *)
LEMMA CallStep ==
  ASSUME IInv, NEW t \in Threads, Call(t) \/ select_available_queue(t)
  PROVE  IInv'
<1> USE DEF IInv
<1>1. /\ alive => queue_index \in DOMAIN queues /\ NextQueue(index[t]) \in DOMAIN queues
      /\ alive
  BY NextQueueType DEF TypeOK, Call, select_available_queue, Shape
<1>2. TypeOK'
  BY <1>1 DEF TypeOK, Call, select_available_queue, Go, Use, Posted
<1>3. Shape'
  BY DEF TypeOK, Shape, Call, select_available_queue, Go
<1>4. Counted'
  BY DEF Counted, Call, select_available_queue
<1>5. FlushCovers'
  <2>1. UNCHANGED <<before, posted, pending, queues>> /\ Posted' = Posted
    BY DEF Call, select_available_queue, Posted
  <2>2. \A u \in Threads : pc'[u] = "flush" => pc[u] = "flush" /\ index'[u] = index[u]
    BY <1>1 DEF TypeOK, Call, select_available_queue, Go, Use
  <2> QED
    BY <2>1, <2>2 DEF FlushCovers
<1> QED
  BY <1>2, <1>3, <1>4, <1>5

(* A flush begins with the first queue, and all that is pending counts. *)
LEMMA flushStep ==
  ASSUME IInv, NEW t \in Threads, flush(t)
  PROVE  IInv'
<1> USE DEF IInv
<1>1. Posted \subseteq Requests /\ 1 \in DOMAIN queues /\ \A q \in DOMAIN queues : q >= 1
  BY QueuesDomain DEF Posted, flush
<1>2. TypeOK'
  BY <1>1 DEF TypeOK, flush, Go, Use, Posted
<1>3. Shape'
  BY DEF TypeOK, Shape, flush, Go
<1>4. Counted'
  BY DEF Counted, flush
<1>5. FlushCovers'
  BY <1>1 DEF Counted, FlushCovers, TypeOK, Posted, flush, Go, Use
<1> QED
  BY <1>2, <1>3, <1>4, <1>5

(* A request lands. *)
LEMMA LandStep ==
  ASSUME IInv, NEW r \in pending, Land(r)
  PROVE  IInv'
<1> USE DEF IInv, Land
<1>1. TypeOK'
  BY DEF TypeOK, Posted
<1>2. Shape'
  BY DEF Shape
<1>3. Counted' /\ FlushCovers'
  BY DEF Counted, FlushCovers, Posted
<1> QED
  BY <1>1, <1>2, <1>3

(* A request is posted, or the queue is found full. *)
LEMMA PostStep ==
  ASSUME IInv, NEW t \in Threads, Post(t)
  PROVE  IInv'
<1> USE DEF IInv
<1> DEFINE q == index[t]
           r == <<t, posted[t] + 1>>
<1>1. /\ alive /\ q \in DOMAIN queues /\ posted[t] < MaxRequests
      /\ posted[t] \in Nat /\ pc[t] = "post"
  <2>1. pc[t] = "post"
    BY DEF Post
  <2>2. alive /\ posted[t] < MaxRequests
    BY <2>1 DEF Shape
  <2>3. posted[t] \in 0 .. MaxRequests
    BY DEF TypeOK
  <2>4. index[t] \in DOMAIN queues
    BY <2>2 DEF TypeOK
  <2> QED
    BY <2>1, <2>2, <2>3, <2>4, QueuesAssumption
<1>2. r \in Requests /\ r \notin Posted
  BY <1>1, PostedPair
<1>3. CASE Cardinality(queues[q]) < Capacity
  <2>1. /\ queues' = [queues EXCEPT ![q] = queues[q] \cup {r}]
        /\ pending' = pending \cup {r}
        /\ posted' = [posted EXCEPT ![t] = @ + 1]
        /\ pc' = [pc EXCEPT ![t] = "idle"] /\ index' = [index EXCEPT ![t] = 1]
        /\ UNCHANGED <<kind, queue_index, mutex, before, alive>>
    <3>1. ~(Cardinality(queues[q]) >= Capacity)
      <4>1. Cardinality(queues[q]) \in Nat
        BY <1>1, FS_CardinalityType DEF Shape
      <4> QED
        BY <1>3, <4>1, QueuesAssumption
    <3> QED
      BY <3>1 DEF Post, Go, Use
  <2> HIDE DEF q, r
  <2>2. queues[q] \cup {r} \in SUBSET Requests
    BY <1>1, <1>2, QueuesDomain
  <2>3. /\ queues' \in Seq(SUBSET Requests) /\ queues' # <<>>
        /\ DOMAIN queues' = DOMAIN queues
        /\ \A p \in DOMAIN queues :
             queues'[p] = IF p = q THEN queues[q] \cup {r} ELSE queues[p]
    BY <1>1, <2>1, <2>2, QueueChanged
  <2>4. ASSUME NEW p \in DOMAIN queues
        PROVE  /\ queues'[p] \subseteq Requests /\ IsFiniteSet(queues'[p])
               /\ Cardinality(queues'[p]) <= Capacity
    <3>1. CASE p = q
      <4>1. queues'[p] = queues[q] \cup {r} /\ IsFiniteSet(queues[q])
        BY <1>1, <2>3, <3>1 DEF Shape
      <4>2. /\ IsFiniteSet(queues[q] \cup {r})
            /\ \/ Cardinality(queues[q] \cup {r}) = Cardinality(queues[q])
               \/ Cardinality(queues[q] \cup {r}) = Cardinality(queues[q]) + 1
        BY <4>1, FS_AddElement
      <4>3. Cardinality(queues[q]) \in Nat
        BY <4>1, FS_CardinalityType
      <4> QED
        BY <1>3, <2>2, <4>1, <4>2, <4>3, QueuesAssumption DEF q
    <3>2. CASE p # q
      <4>1. queues'[p] = queues[p]
        BY <2>3, <3>2
      <4> QED
        BY <4>1 DEF TypeOK, Shape
    <3> QED
      BY <3>1, <3>2
  <2>5. posted' \in [Threads -> 0 .. MaxRequests] /\ Posted \subseteq Posted' /\ r \in Posted'
    <3>1. posted \in [Threads -> 0 .. MaxRequests] /\ posted[t] + 1 \in 0 .. MaxRequests
      <4>1. posted \in [Threads -> 0 .. MaxRequests]
        BY DEF TypeOK
      <4> QED
        BY <1>1, <4>1, QueuesAssumption
    <3>2. posted' \in [Threads -> 0 .. MaxRequests]
      BY <2>1, <3>1
    <3>3. \A u \in Threads : posted'[u] >= posted[u]
      BY <1>1, <2>1, <3>1
    <3>4. Posted \subseteq Posted'
      BY <3>1, <3>2, <3>3 DEF Posted, Requests
    <3>5. r \in Posted'
      BY <1>2, <2>1, <3>1 DEF Posted, r
    <3> QED
      BY <3>2, <3>4, <3>5
  <2>6. 1 \in DOMAIN queues
    BY <1>1, QueuesDomain
  <2>7. TypeOK'
    BY <2>1, <2>3, <2>4, <2>5, <2>6 DEF TypeOK
  <2>8. Shape'
    <3>1. \A u \in Threads : ~alive => pc'[u] = "idle"
      BY <1>1
    <3>2. \A u \in Threads : pc'[u] \notin {"idle", "flush"} => posted'[u] < MaxRequests
      BY <2>1 DEF TypeOK, Shape
    <3> QED
      BY <2>1, <2>3, <2>4, <3>1, <3>2 DEF Shape
  <2>9. \A s, p : p \in DOMAIN queues /\ s \in queues[p] => s \in queues'[p]
    BY <2>3
  <2>10. Counted'
    BY <1>1, <2>1, <2>3, <2>9 DEF Counted
  <2>11. FlushCovers'
    <3>1. \A u \in Threads : before'[u] = before[u] /\ before[u] \subseteq Posted
      BY <2>1 DEF FlushCovers
    <3>2. \A u \in Threads : before'[u] \cap pending' \subseteq before[u] \cap pending
      BY <1>2, <2>1, <3>1
    <3>3. \A u \in Threads : pc'[u] = "flush" => pc[u] = "flush" /\ index'[u] = index[u]
      BY <1>1, <2>1 DEF TypeOK
    <3> QED
      BY <2>3, <2>5, <2>9, <3>1, <3>2, <3>3 DEF FlushCovers
  <2> QED
    BY <2>7, <2>8, <2>10, <2>11
<1>4. CASE ~(Cardinality(queues[q]) < Capacity)
  <2>1. /\ UNCHANGED <<queues, pending, posted, index, kind, queue_index, mutex, before, alive>>
        /\ \E to \in {"flush and retry", "select"} : pc' = [pc EXCEPT ![t] = to]
    BY <1>4 DEF Post, Go
  <2>2. Posted' = Posted
    BY <2>1 DEF Posted
  <2>3. TypeOK'
    BY <2>1, <2>2 DEF TypeOK
  <2>4. Shape'
    BY <1>1, <2>1 DEF TypeOK, Shape
  <2>5. Counted'
    BY <2>1 DEF Counted
  <2>6. FlushCovers'
    <3>1. \A u \in Threads : pc'[u] = "flush" => pc[u] = "flush"
      BY <2>1 DEF TypeOK
    <3> QED
      BY <2>1, <2>2, <3>1 DEF FlushCovers
  <2> QED
    BY <2>3, <2>4, <2>5, <2>6
<1> QED
  BY <1>3, <1>4

(* A thread has flushed a full queue, or the next one, and posts. *)
LEMMA FlushedStep ==
  ASSUME IInv, NEW t \in Threads, FlushAndRetry(t) \/ FlushNext(t)
  PROVE  IInv'
<1> USE DEF IInv
<1>1. /\ pc[t] \in {"flush and retry", "flush next"} /\ pc' = [pc EXCEPT ![t] = "post"]
      /\ UNCHANGED <<kind, index, posted, before, pending, alive>>
      /\ mutex' \in {mutex, NoThread} /\ queue_index' \in {queue_index, index[t]}
  BY DEF FlushAndRetry, FlushNext, Go
<1>2. alive /\ index[t] \in DOMAIN queues /\ posted[t] < MaxRequests
  <2>1. alive /\ posted[t] < MaxRequests
    BY <1>1 DEF Shape
  <2> QED
    BY <2>1 DEF TypeOK
<1>3. 1 \in DOMAIN queues
  BY <1>2, QueuesDomain
<1>4. PICK q \in DOMAIN queues : Drained(q) /\ EmptyQueue(q)
  BY <1>2, <1>3 DEF FlushAndRetry, FlushNext
<1>5. /\ queues' \in Seq(SUBSET Requests) /\ queues' # <<>>
      /\ DOMAIN queues' = DOMAIN queues
      /\ \A p \in DOMAIN queues' :
           /\ queues'[p] \subseteq Requests /\ IsFiniteSet(queues'[p])
           /\ Cardinality(queues'[p]) <= Capacity
      /\ \A r \in pending, p \in DOMAIN queues : r \in queues[p] => r \in queues'[p]
  BY <1>1, <1>4, QueueEmptied
<1>6. Posted' = Posted
  BY <1>1 DEF Posted
<1>7. TypeOK'
  BY <1>1, <1>2, <1>5, <1>6 DEF TypeOK
<1>8. Shape'
  <2>1. \A u \in Threads : pc'[u] \notin {"idle", "flush"} => posted'[u] < MaxRequests
    BY <1>1, <1>2 DEF TypeOK, Shape
  <2> QED
    BY <1>1, <1>2, <1>5, <2>1 DEF Shape
<1>9. Counted'
  BY <1>1, <1>5 DEF Counted
<1>10. FlushCovers'
  <2>1. \A u \in Threads : pc'[u] = "flush" => pc[u] = "flush"
    BY <1>1 DEF TypeOK
  <2> QED
    BY <1>1, <1>5, <1>6, <2>1 DEF FlushCovers
<1> QED
  BY <1>7, <1>8, <1>9, <1>10

(* flush goes on to the next queue or returns. *)
LEMMA FlushQueueStep ==
  ASSUME IInv, NEW t \in Threads, FlushQueue(t)
  PROVE  IInv'
<1> USE DEF IInv
<1> DEFINE q == index[t]
<1>1. /\ pc[t] = "flush" /\ Drained(q) /\ EmptyQueue(q)
      /\ UNCHANGED <<kind, queue_index, mutex, posted, pending, alive>>
      /\ \/ /\ q < Len(queues)
            /\ index' = [index EXCEPT ![t] = q + 1] /\ UNCHANGED <<pc, before>>
         \/ /\ pc' = [pc EXCEPT ![t] = "idle"] /\ index' = [index EXCEPT ![t] = 1]
            /\ before' = [before EXCEPT ![t] = {}]
  BY DEF FlushQueue, Go, Use
<1>2. alive /\ q \in DOMAIN queues
  <2>1. alive
    BY <1>1 DEF Shape
  <2> QED
    BY <2>1 DEF TypeOK
<1>3. 1 \in DOMAIN queues /\ (q < Len(queues) => q + 1 \in DOMAIN queues) /\ q \in Nat
  BY <1>2, QueuesDomain
<1>4. /\ queues' \in Seq(SUBSET Requests) /\ queues' # <<>>
      /\ DOMAIN queues' = DOMAIN queues
      /\ \A p \in DOMAIN queues' :
           /\ queues'[p] \subseteq Requests /\ IsFiniteSet(queues'[p])
           /\ Cardinality(queues'[p]) <= Capacity
      /\ \A r \in pending, p \in DOMAIN queues :
           r \in queues[p] => p # q /\ r \in queues'[p]
  BY <1>1, <1>2, QueueEmptied
<1>5. Posted' = Posted
  BY <1>1 DEF Posted
<1> HIDE DEF q
<1>6. /\ index' \in [Threads -> DOMAIN queues] /\ before' \in [Threads -> SUBSET Requests]
      /\ pc' \in [Threads -> {"idle", "post", "flush and retry", "select",
                             "flush next", "flush"}]
      /\ \A u \in Threads : pc'[u] \in {pc[u], "idle"} /\ before'[u] \subseteq before[u]
  BY <1>1, <1>2, <1>3 DEF TypeOK
<1>7. TypeOK'
  BY <1>1, <1>4, <1>5, <1>6 DEF TypeOK
<1>8. Shape'
  <2>1. \A u \in Threads : ~alive => pc'[u] = "idle"
    BY <1>2
  <2>2. \A u \in Threads : pc'[u] \notin {"idle", "flush"} => posted'[u] < MaxRequests
    BY <1>1, <1>6 DEF Shape
  <2> QED
    BY <1>1, <1>4, <2>1, <2>2 DEF Shape
<1>9. Counted'
  BY <1>1, <1>4 DEF Counted
<1>10. ASSUME NEW u \in Threads, pc'[u] = "flush", NEW r \in before'[u] \cap pending'
       PROVE  \E p \in DOMAIN queues' : p >= index'[u] /\ r \in queues'[p]
  <2>1. pc[u] = "flush" /\ r \in before[u] \cap pending
    BY <1>1, <1>6, <1>10
  <2>2. PICK p \in DOMAIN queues : p >= index[u] /\ r \in queues[p]
    BY <2>1 DEF FlushCovers
  <2>3. p # q /\ r \in queues'[p] /\ p \in DOMAIN queues' /\ p \in Nat
    BY <1>4, <2>1, <2>2, QueuesDomain
  <2>4. index'[u] = IF u = t THEN q + 1 ELSE index[u]
    BY <1>1, <1>2, <1>10 DEF TypeOK
  <2> QED
    BY <1>3, <2>2, <2>3, <2>4 DEF q
<1>11. FlushCovers'
  BY <1>5, <1>6, <1>10 DEF FlushCovers
<1> QED
  BY <1>7, <1>8, <1>9, <1>11

(* The destructor begins, and deletes the queues from the last on. *)
LEMMA DestroyStep ==
  ASSUME IInv, Destroy \/ DeleteQueue
  PROVE  IInv'
<1> USE DEF IInv
<1>1. CASE Destroy
  <2> USE <1>1 DEF Destroy
  <2>1. TypeOK'
    BY DEF TypeOK, Posted
  <2>2. Shape'
    BY DEF Shape
  <2> QED
    BY <2>1, <2>2 DEF Counted, FlushCovers, Posted
<1>2. CASE DeleteQueue
  <2>1. /\ ~alive /\ queues # <<>> /\ Drained(Len(queues))
        /\ queues' = SubSeq(queues, 1, Len(queues) - 1)
        /\ UNCHANGED <<kind, queue_index, mutex, pc, index, posted, before, pending, alive>>
    BY <1>2 DEF DeleteQueue, Front
  <2>2. Len(queues) \in Nat \ {0} /\ DOMAIN queues = 1 .. Len(queues)
        /\ \A q \in DOMAIN queues : queues[q] \in SUBSET Requests
    BY <2>1, QueuesDomain, EmptySeq DEF Shape
  <2>3. /\ queues' \in Seq(SUBSET Requests) /\ Len(queues') = Len(queues) - 1
        /\ \A q \in 1 .. Len(queues) - 1 : queues'[q] = queues[q]
    <3>1. \A q \in 1 .. Len(queues) - 1 : queues[q] \in SUBSET Requests
      BY <2>2
    <3> DEFINE n == Len(queues) - 1
    <3>2. n \in Nat
      BY <2>2
    <3> HIDE DEF n
    <3>3. /\ SubSeq(queues, 1, n) \in Seq(SUBSET Requests)
          /\ Len(SubSeq(queues, 1, n)) = IF 1 <= n THEN n - 1 + 1 ELSE 0
          /\ \A i \in 1 .. n - 1 + 1 : SubSeq(queues, 1, n)[i] = queues[1 + i - 1]
      BY <3>1, <3>2, SubSeqProperties DEF n
    <3>4. Len(SubSeq(queues, 1, n)) = n
      BY <3>2, <3>3
    <3>5. ASSUME NEW i \in 1 .. n PROVE SubSeq(queues, 1, n)[i] = queues[i]
      <4>1. i \in 1 .. n - 1 + 1 /\ 1 + i - 1 = i
        BY <3>2
      <4> QED
        BY <3>3, <4>1
    <3> QED
      BY <2>1, <3>3, <3>4, <3>5 DEF n
  <2>4. DOMAIN queues' = 1 .. Len(queues) - 1
    BY <2>3, LenProperties
  <2>5. Posted' = Posted
    BY <2>1 DEF Posted
  <2>6. TypeOK'
    <3>1. \A q \in DOMAIN queues' :
            queues'[q] \subseteq Requests /\ Cardinality(queues'[q]) <= Capacity
      <4>1. \A q \in DOMAIN queues' : q \in DOMAIN queues /\ queues'[q] = queues[q]
        BY <2>2, <2>3, <2>4
      <4> QED
        BY <4>1 DEF TypeOK
    <3> QED
      BY <2>1, <2>5, <3>1 DEF TypeOK
  <2>7. Shape'
    BY <2>1, <2>2, <2>3, <2>4 DEF Shape
  <2>8. \A r \in pending, q \in DOMAIN queues :
          r \in queues[q] => q \in DOMAIN queues' /\ r \in queues'[q]
    BY <2>1, <2>2, <2>3, <2>4 DEF Drained
  <2>9. Counted' /\ FlushCovers'
    BY <2>1, <2>5, <2>8 DEF Counted, FlushCovers, Shape
  <2> QED
    BY <2>6, <2>7, <2>9
<1> QED
  BY <1>1, <1>2

(* Every step preserves the invariant. *)
LEMMA InvStep == IInv /\ [Next]_vars => IInv'
<1> SUFFICES ASSUME IInv, [Next]_vars PROVE IInv'
  OBVIOUS
<1>1. CASE UNCHANGED vars
  BY <1>1 DEF vars, IInv, TypeOK, Shape, Counted, FlushCovers, Posted
<1> QED
  BY <1>1, CallStep, flushStep, PostStep, FlushedStep, FlushQueueStep, LandStep, DestroyStep
     DEF Next, Step
-----------------------------------------------------------------------------
(* The inductive invariant holds in every reachable state. *)
THEOREM Invariance == Spec => []IInv
BY InvInit, InvStep, PTL DEF Spec

(* Queue indices stay in range while threads rotate the queues, and no     *)
(* queue is given more requests than it takes.                             *)
THEOREM TypeCorrect == Spec => []TypeOK
<1>1. IInv => TypeOK
  BY DEF IInv
<1> QED
  BY <1>1, Invariance, PTL

(* flush covers all that was posted before it, by any thread to any queue, *)
(* and the destructor deletes the last queue after all have landed.        *)
THEOREM FlushIsComplete == Spec => FlushComplete
<1> DEFINE Returns == \A t \in Threads :
                        pc[t] = "flush" /\ pc'[t] = "idle" => before[t] \cap pending = {}
           Deleted == queues' = <<>> => pending = {}
<1>1. ASSUME IInv, [Next]_vars, ~UNCHANGED vars, NEW t \in Threads,
             pc[t] = "flush", pc'[t] = "idle"
      PROVE  before[t] \cap pending = {}
  <2> USE <1>1 DEF IInv
  <2>1. FlushQueue(t)
    <3>1. alive
      BY DEF Shape
    <3>2. ASSUME NEW u \in Threads, Call(u) \/ flush(u) \/ Post(u) \/ FlushAndRetry(u)
                                    \/ select_available_queue(u) \/ FlushNext(u)
          PROVE  pc'[t] = "flush"
      BY <3>2 DEF TypeOK, Call, flush, Post, FlushAndRetry, select_available_queue,
                  FlushNext, Go
    <3>3. ASSUME NEW r \in pending, Land(r) PROVE pc'[t] = "flush"
      BY <3>3 DEF Land
    <3>4. ASSUME Destroy \/ DeleteQueue PROVE pc'[t] = "flush"
      BY <3>4 DEF Destroy, DeleteQueue
    <3>5. PICK u \in Threads : FlushQueue(u)
      BY <3>2, <3>3, <3>4 DEF Next, Step
    <3> QED
      BY <3>5 DEF FlushQueue, Go, TypeOK
  <2>2. alive
    BY DEF Shape
  <2>3. index[t] = Len(queues) /\ Drained(index[t])
    BY <2>1 DEF FlushQueue
  <2>4. \A r \in before[t] \cap pending :
          \E q \in DOMAIN queues : q >= index[t] /\ r \in queues[q]
    BY DEF FlushCovers
  <2>5. \A q \in DOMAIN queues : q >= index[t] => q = index[t]
    BY <2>3, QueuesDomain
  <2> QED
    BY <2>3, <2>4, <2>5 DEF Drained
<1>2. ASSUME IInv, [Next]_vars, queues' = <<>> PROVE pending = {}
  <2>1. IInv' /\ Counted'
    BY <1>2, InvStep DEF IInv
  <2>2. pending' = {}
    BY <1>2, <2>1 DEF Counted
  <2>3. CASE queues = <<>>
    BY <1>2, <2>3 DEF IInv, Counted
  <2>4. CASE queues # <<>>
    <3>1. ~alive' /\ queues' # queues
      BY <1>2, <2>1, <2>4 DEF IInv, Shape
    <3>2. ASSUME NEW t \in Threads, Call(t) \/ flush(t) \/ Step(t) PROVE alive'
      <4>1. alive' = alive /\ (alive \/ pc[t] # "idle")
        BY <3>2 DEF Call, flush, Step, Post, FlushAndRetry, select_available_queue,
                    FlushNext, FlushQueue
      <4> QED
        BY <1>2, <4>1 DEF IInv, Shape
    <3>3. ASSUME NEW r \in pending, Land(r) PROVE queues' = queues
      BY <3>3 DEF Land
    <3>4. DeleteQueue
      BY <1>2, <3>1, <3>2, <3>3 DEF Next, Destroy, vars
    <3> QED
      BY <2>2, <3>4 DEF DeleteQueue
  <2> QED
    BY <2>3, <2>4
<1>3. IInv /\ [Next]_vars => [Returns /\ Deleted]_vars
  BY <1>1, <1>2
<1> QED
  BY <1>3, Invariance, PTL DEF Spec, FlushComplete
=============================================================================

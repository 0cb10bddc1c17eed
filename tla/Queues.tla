------------------------------ MODULE Queues ------------------------------
(***************************************************************************)
(* The queues behind a communication context.  SingleQueueContext has one  *)
(* and flushes it when it is full; RoundRobinQueuesContext goes on to the  *)
(* next one, under a mutex, after it has flushed that one.                 *)
(*                                                                         *)
(* A request is counted by its queue from the post to the gaspi_wait that  *)
(* follows, also if it has landed before; Capacity of them fill the queue. *)
(* Writes and notifications go the same way and are not told apart.        *)
(***************************************************************************)
EXTENDS Integers, Sequences, SequencesExt, FiniteSets

CONSTANTS
  Threads,
  NumQueues,    \* num_queues
  Capacity,     \* requests that a queue takes between two waits
  MaxRequests,  \* bound on the requests of a thread
  NoThread      \* the mutex is free

(* There is a queue, and it takes a request. *)
ASSUME QueuesAssumption ==
  /\ NumQueues \in Nat \ {0} /\ Capacity \in Nat \ {0}
  /\ MaxRequests \in Nat
  /\ NoThread \notin Threads

VARIABLES
  kind,        \* "single" or "round robin"
  queues,      \* gaspi_queues: requests that each one counts
  queue_index, \* queue_index, an atomic
  mutex,       \* queue_index_mutex: its holder
  pc, index,   \* per thread: where it is and its current_queue_index
  posted,      \* per thread: requests that it has posted
  before,      \* per thread: requests posted when it called flush
  pending,     \* requests that have not landed
  alive        \* whether the context exists

vars == <<kind, queues, queue_index, mutex, pc, index, posted, before, pending, alive>>

Init ==
  /\ \/ kind = "single" /\ queues = <<{}>>
     \/ kind = "round robin" /\ queues = [q \in 1 .. NumQueues |-> {}]
  /\ queue_index = 1 /\ mutex = NoThread
  /\ pc = [t \in Threads |-> "idle"] /\ index = [t \in Threads |-> 1]
  /\ posted = [t \in Threads |-> 0] /\ before = [t \in Threads |-> {}]
  /\ pending = {} /\ alive = TRUE

Requests == {<<t, n>> : t \in Threads, n \in 1 .. MaxRequests}
Posted == {r \in Requests : r[2] <= posted[r[1]]}

Go(t, where) == pc' = [pc EXCEPT ![t] = where]
Use(t, q) == index' = [index EXCEPT ![t] = q]

(* gaspi_write_notify or gaspi_notify has its effect, in any order. *)
Land(r) ==
  /\ r \in pending
  /\ pending' = pending \ {r}
  /\ UNCHANGED <<kind, queues, queue_index, mutex, pc, index, posted, before, alive>>

(* Queue::flush returns: gaspi_wait has seen all requests of the queue.    *)
Drained(q) == queues[q] \cap pending = {}
EmptyQueue(q) == queues' = [queues EXCEPT ![q] = {}]
-----------------------------------------------------------------------------
(* writePart and notify. *)
Call(t) ==
  /\ alive /\ pc[t] = "idle" /\ posted[t] < MaxRequests
  /\ Use(t, queue_index) /\ Go(t, "post")
  /\ UNCHANGED <<kind, queues, queue_index, mutex, posted, before, pending, alive>>

Post(t) ==
  LET q == index[t]
      r == <<t, posted[t] + 1>>
  IN /\ pc[t] = "post"
     /\ \/ /\ Cardinality(queues[q]) < Capacity
           /\ queues' = [queues EXCEPT ![q] = @ \cup {r}]
           /\ pending' = pending \cup {r}
           /\ posted' = [posted EXCEPT ![t] = @ + 1]
           /\ Go(t, "idle") /\ Use(t, 1)
        \/ /\ Cardinality(queues[q]) >= Capacity
           /\ Go(t, IF kind = "single" THEN "flush and retry" ELSE "select")
           /\ UNCHANGED <<queues, pending, posted, index>>
     /\ UNCHANGED <<kind, queue_index, mutex, before, alive>>

(* SingleQueueContext: the queue is full. *)
FlushAndRetry(t) ==
  /\ pc[t] = "flush and retry" /\ Drained(1)
  /\ EmptyQueue(1)
  /\ Go(t, "post")
  /\ UNCHANGED <<kind, queue_index, mutex, index, posted, before, pending, alive>>

NextQueue(q) == (q % Len(queues)) + 1

(* Faulty variant: a thread that comes second keeps the queue it has. *)
select_available_queue_Own(t) ==
  /\ pc[t] = "select" /\ mutex = NoThread
  /\ \/ /\ queue_index = index[t]
        /\ mutex' = t
        /\ Use(t, NextQueue(index[t])) /\ Go(t, "flush next")
     \/ /\ queue_index # index[t]
        /\ Go(t, "post") /\ UNCHANGED <<index, mutex>>
  /\ UNCHANGED <<kind, queues, queue_index, posted, before, pending, alive>>

(* RoundRobinQueuesContext: the queue is full.  If it is still the current *)
(* one the thread flushes the next, with the mutex; else it takes the one  *)
(* that another thread has flushed.                                        *)
select_available_queue(t) ==
  /\ pc[t] = "select" /\ mutex = NoThread
  /\ \/ /\ queue_index = index[t]
        /\ mutex' = t
        /\ Use(t, NextQueue(index[t])) /\ Go(t, "flush next")
     \/ /\ queue_index # index[t]
        /\ Use(t, queue_index) /\ Go(t, "post")
        /\ UNCHANGED mutex
  /\ UNCHANGED <<kind, queues, queue_index, posted, before, pending, alive>>

FlushNext(t) ==
  /\ pc[t] = "flush next" /\ Drained(index[t])
  /\ EmptyQueue(index[t])
  /\ queue_index' = index[t]
  /\ mutex' = NoThread
  /\ Go(t, "post")
  /\ UNCHANGED <<kind, index, posted, before, pending, alive>>
-----------------------------------------------------------------------------
(* flush: all queues one after the other. *)
flush(t) ==
  /\ alive /\ pc[t] = "idle"
  /\ before' = [before EXCEPT ![t] = Posted]
  /\ Use(t, 1) /\ Go(t, "flush")
  /\ UNCHANGED <<kind, queues, queue_index, mutex, posted, pending, alive>>

(* Faulty variant: only the current queue. *)
FlushQueue_Current(t) ==
  /\ pc[t] = "flush" /\ Drained(queue_index)
  /\ EmptyQueue(queue_index)
  /\ Go(t, "idle") /\ Use(t, 1)
  /\ before' = [before EXCEPT ![t] = {}]
  /\ UNCHANGED <<kind, queue_index, mutex, posted, pending, alive>>

FlushQueue(t) ==
  /\ pc[t] = "flush" /\ Drained(index[t])
  /\ EmptyQueue(index[t])
  /\ \/ /\ index[t] < Len(queues)
        /\ Use(t, index[t] + 1) /\ UNCHANGED <<pc, before>>
     \/ /\ index[t] = Len(queues)
        /\ Go(t, "idle") /\ Use(t, 1)
        /\ before' = [before EXCEPT ![t] = {}]
  /\ UNCHANGED <<kind, queue_index, mutex, posted, pending, alive>>

(* The destructor, once no thread uses the context: the queues are flushed *)
(* and deleted, the last one first.                                        *)
Destroy ==
  /\ alive /\ \A t \in Threads : pc[t] = "idle"
  /\ alive' = FALSE
  /\ UNCHANGED <<kind, queues, queue_index, mutex, pc, index, posted, before, pending>>

DeleteQueue ==
  /\ ~alive /\ queues # <<>> /\ Drained(Len(queues))
  /\ queues' = Front(queues)
  /\ UNCHANGED <<kind, queue_index, mutex, pc, index, posted, before, pending, alive>>

Step(t) ==
  \/ Post(t) \/ FlushAndRetry(t) \/ select_available_queue(t) \/ FlushNext(t)
  \/ FlushQueue(t)

Next ==
  \/ \E t \in Threads : Call(t) \/ flush(t) \/ Step(t)
  \/ \E r \in pending : Land(r)
  \/ Destroy \/ DeleteQueue

(* A thread that is in a call is scheduled, and every request lands.  No   *)
(* thread has to call anything.                                            *)
Fairness ==
  /\ \A t \in Threads : WF_vars(Step(t))
  /\ \A r \in Requests : WF_vars(Land(r))

Spec == Init /\ [][Next]_vars /\ Fairness
-----------------------------------------------------------------------------
(* queue_index and the local indices stay in range, a queue never counts   *)
(* more requests than it takes.                                            *)
TypeOK ==
  /\ kind \in {"single", "round robin"} /\ alive \in BOOLEAN
  /\ alive => /\ queue_index \in DOMAIN queues
              /\ index \in [Threads -> DOMAIN queues]
  /\ \A q \in DOMAIN queues : queues[q] \subseteq Requests /\ Cardinality(queues[q]) <= Capacity
  /\ mutex \in Threads \cup {NoThread}
  /\ pc \in [Threads -> {"idle", "post", "flush and retry", "select", "flush next", "flush"}]
  /\ posted \in [Threads -> 0 .. MaxRequests]
  /\ before \in [Threads -> SUBSET Requests]
  /\ pending \subseteq Posted

(* When flush returns, all requests have landed that any thread had posted *)
(* before the call, into whichever queue, even if others rotate the queues *)
(* and post meanwhile.  Likewise once the last queue is deleted.           *)
FlushComplete ==
  [][/\ \A t \in Threads : pc[t] = "flush" /\ pc'[t] = "idle" => before[t] \cap pending = {}
     /\ queues' = <<>> => pending = {}]_vars

(* writePart, notify and flush return: threads that find the same queue    *)
(* full do not wait for each other, and do not miss a queue with room.     *)
CallsReturn == \A t \in Threads : pc[t] # "idle" ~> pc[t] = "idle"
=============================================================================

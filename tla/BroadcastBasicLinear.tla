------------------------ MODULE BroadcastBasicLinear ------------------------
(***************************************************************************)
(* BroadcastLowLevel<T, BASIC_LINEAR>.  The data travels from the root     *)
(* along the ring to the rank before the root.  A rank in between receives *)
(* into and forwards from the same memory.  Only the last transfer is      *)
(* acknowledged; the other ranks finish after N iterations.                *)
(***************************************************************************)
EXTENDS Collective

CONSTANT root   \* a rank of the group

VARIABLES number_elements, iteration

broadcastVars == <<number_elements, iteration>>
vars == <<broadcastVars, collectiveVars, endpointVars>>

first == root
rank_after_first(r) == (N + r - first) % N
second_last == (N + first - 2) % N
last == (N + first - 1) % N
right_neighbour(r) == (N + r + 1) % N
last_iteration == N

(* Channel r: source_buffer of r to target_buffer of its right neighbour.  *)
(* A rank has one memory, which both its buffers use.                      *)
Channels == Ranks \ {last}
Into(r) == (N + r - 1) % N

NoData == 0

Init ==
  /\ Setup(Channels, Ranks, NoData)
  /\ number_elements \in {0, 1}
  /\ iteration = [r \in Ranks |-> 0]

(* The root's data is the number of the execution. *)
CopyIn(r) ==
  /\ copyIn(r)
  /\ IF number_elements > 0 /\ r = first
       THEN mem' = [mem EXCEPT ![r] = round'[r]] ELSE UNCHANGED mem
  /\ UNCHANGED <<broadcastVars, endpointVars>>

Start(r) ==
  /\ start(r)
  /\ IF number_elements = 0 THEN UNCHANGED iteration
                            ELSE iteration' = [iteration EXCEPT ![r] = 1]
  /\ IF number_elements > 0 /\ r = first THEN initTransfer(r) ELSE UNCHANGED writing
  /\ UNCHANGED <<number_elements, mem, arrived, acking, acked>>

(* It is the turn of r: receive, then forward or, at the end, acknowledge. *)
Receive(r) ==
  /\ progress(r)
  /\ number_elements > 0 /\ iteration[r] # last_iteration
  /\ rank_after_first(r) = iteration[r]
  /\ targetCompletes(Into(r))
  /\ IF r # last THEN initTransfer(r) /\ UNCHANGED acking
                 ELSE ackTransfer(Into(r)) /\ UNCHANGED writing
  /\ iteration' = [iteration EXCEPT ![r] = @ + 1]
  /\ UNCHANGED <<number_elements, mem, acked>>

(* Faulty variant: a rank goes on in its own turn without the data. *)
SkipIteration_OwnTurn(r) ==
  /\ progress(r)
  /\ number_elements > 0 /\ iteration[r] # last_iteration
  /\ iteration' = [iteration EXCEPT ![r] = @ + 1]
  /\ UNCHANGED <<number_elements, mem, endpointVars>>

(* It is the turn of another rank. *)
SkipIteration(r) ==
  /\ progress(r)
  /\ number_elements > 0 /\ iteration[r] # last_iteration
  /\ rank_after_first(r) # iteration[r]
  /\ iteration' = [iteration EXCEPT ![r] = @ + 1]
  /\ UNCHANGED <<number_elements, mem, endpointVars>>

Complete(r) ==
  /\ complete(r)
  /\ \/ number_elements = 0 /\ UNCHANGED acked
     \/ /\ number_elements > 0 /\ iteration[r] = last_iteration
        /\ IF r = second_last THEN sourceAcked(r) ELSE UNCHANGED acked
  /\ UNCHANGED <<broadcastVars, mem, writing, arrived, acking>>

CopyOut(r) == copyOut(r, mem[r]) /\ UNCHANGED <<broadcastVars, endpointVars>>

User(r) == CopyIn(r) \/ Start(r) \/ CopyOut(r)
TriggerProgress(r) == Receive(r) \/ SkipIteration(r) \/ Complete(r)

WriteArrives(c) ==
  Transfer(c, c, right_neighbour(c)) /\ UNCHANGED broadcastVars
AckArrives(c) == Acknowledge(c) /\ UNCHANGED broadcastVars

Next ==
  \/ \E r \in Ranks : User(r) \/ TriggerProgress(r)
  \/ \E c \in Channels : WriteArrives(c) \/ AckArrives(c)

Spec == Init /\ [][Next]_vars /\ WF_vars(Next)
-----------------------------------------------------------------------------
TypeOK ==
  /\ EndpointTypeOK(Channels)
  /\ state \in [Ranks -> States]
  /\ round \in [Ranks -> 0..Rounds]
  /\ mem \in [Ranks -> 0..Rounds]
  /\ output \in [Ranks -> 0..Rounds]
  /\ number_elements \in {0, 1}
  /\ iteration \in [Ranks -> 0..last_iteration]

(* Every rank's copyOut writes the root's data of the same execution. *)
ResultsCorrect ==
  separated /\ number_elements > 0 =>
    \A r \in Ranks : HasResult(r) => output[r] = round[r]

(* No notification is posted before its predecessor has been consumed. *)
NoNotificationLost == separated => OneOutstanding(Channels)

(* An execution that all ranks have completed leaves no notification       *)
(* behind that the next one could take for its own.                        *)
NothingLeftOver == AllHaveResults => Quiet(Channels)

(* Every rank completes all its executions, even when nothing but the      *)
(* broadcast itself separates them.                                        *)
Termination == <>AllDone
=============================================================================

--------------------------- MODULE AllgathervRing ---------------------------
(***************************************************************************)
(* AllgathervLowLevel<T, RING>.  The block of every rank travels once      *)
(* around the ring.  In step i a rank receives into target_buffers[i] and  *)
(* forwards from source_buffers[i + 1], which is the same memory.          *)
(***************************************************************************)
EXTENDS Collective

VARIABLE current_step

vars == <<current_step, collectiveVars, endpointVars>>

Right(r) == (r + 1) % N

(* Channel <<r, i>>: source_buffers[i] of r to target_buffers[i] of its    *)
(* right neighbour.                                                        *)
Channels == Ranks \X (0 .. N - 2)

(* Location <<r, 0>> is the memory of source_buffers[0] of r, <<r, i + 1>> *)
(* that of target_buffers[i] and of source_buffers[i + 1].                 *)
Locations == Ranks \X (0 .. N - 1)
SourceMemory(c) == c
TargetMemory(c) == <<Right(c[1]), c[2] + 1>>
Into(r, i) == <<(r + N - 1) % N, i>>

NoData == <<>>

Init == Setup(Channels, Locations, NoData) /\ current_step = [r \in Ranks |-> 0]

CopyIn(r) ==
  /\ copyIn(r)
  /\ mem' = [mem EXCEPT ![<<r, 0>>] = <<r, round'[r]>>]
  /\ UNCHANGED <<current_step, endpointVars>>

Start(r) ==
  /\ start(r)
  /\ current_step' = [current_step EXCEPT ![r] = 0]
  /\ initTransfer(<<r, 0>>)
  /\ UNCHANGED <<mem, arrived, acking, acked>>

is_last_step(r) == current_step[r] = N - 1

(* A block arrives and is forwarded; the last one is acknowledged instead. *)
Receive(r) ==
  /\ progress(r)
  /\ ~is_last_step(r)
  /\ targetCompletes(Into(r, current_step[r]))
  /\ current_step' = [current_step EXCEPT ![r] = @ + 1]
  /\ IF current_step[r] + 1 = N - 1
       THEN ackTransfer(Into(r, current_step[r])) /\ UNCHANGED writing
       ELSE initTransfer(<<r, current_step[r] + 1>>) /\ UNCHANGED acking
  /\ UNCHANGED <<mem, acked>>

(* Faulty variant: the last transfer is not awaited. *)
Complete_NoAck(r) ==
  /\ complete(r)
  /\ is_last_step(r)
  /\ UNCHANGED <<mem, current_step, endpointVars>>

Complete(r) ==
  /\ complete(r)
  /\ is_last_step(r)
  /\ sourceAcked(<<r, current_step[r] - 1>>)
  /\ UNCHANGED <<mem, current_step, writing, arrived, acking>>

(* Faulty variant: the blocks are taken to come from the right. *)
CopyOut_Reversed(r) ==
  /\ copyOut(r, [q \in Ranks |-> mem[<<r, (q + N - r) % N>>]])
  /\ UNCHANGED <<current_step, endpointVars>>

(* The own block, then target_buffers[i] for the rank i + 1 to the left. *)
CopyOut(r) ==
  /\ copyOut(r, [q \in Ranks |-> mem[<<r, (r + N - q) % N>>]])
  /\ UNCHANGED <<current_step, endpointVars>>

User(r) == CopyIn(r) \/ Start(r) \/ CopyOut(r)
TriggerProgress(r) == Receive(r) \/ Complete(r)

WriteArrives(c) ==
  Transfer(c, SourceMemory(c), TargetMemory(c)) /\ UNCHANGED current_step
AckArrives(c) == Acknowledge(c) /\ UNCHANGED current_step

Next ==
  \/ \E r \in Ranks : User(r) \/ TriggerProgress(r)
  \/ \E c \in Channels : WriteArrives(c) \/ AckArrives(c)

Spec == Init /\ [][Next]_vars /\ WF_vars(Next)
-----------------------------------------------------------------------------
TypeOK ==
  /\ EndpointTypeOK(Channels)
  /\ state \in [Ranks -> States]
  /\ round \in [Ranks -> 0..Rounds]
  /\ mem \in [Locations -> {NoData} \cup (Ranks \X (1..Rounds))]
  /\ output \in [Ranks -> {NoData} \cup
                          [Ranks -> {NoData} \cup (Ranks \X (1..Rounds))]]
  /\ current_step \in [Ranks -> 0 .. N - 1]

(* copyOut writes, in the order of the ranks, the blocks that the ranks    *)
(* gave to this execution.  The ring does not ensure it by itself when one *)
(* execution follows another (ReuseCorrect).                               *)
ReuseCorrect ==
  \A r \in Ranks : HasResult(r) => output[r] = [q \in Ranks |-> <<q, round[r]>>]

ResultsCorrect == separated => ReuseCorrect

(* No notification is posted before its predecessor has been consumed,     *)
(* although only the last step of an execution is acknowledged.            *)
NoNotificationLost == OneOutstanding(Channels)

(* When a rank is FINISHED, all its transfers have landed: copyIn may      *)
(* overwrite its source buffers and the destructor may release them.       *)
SourcesReleased ==
  \A r \in Ranks : state[r] = "FINISHED" => Released({c \in Channels : c[1] = r})

(* An execution that all ranks have completed leaves no notification       *)
(* behind that the next one could take for its own.                        *)
NothingLeftOver == AllHaveResults => Quiet(Channels)
=============================================================================

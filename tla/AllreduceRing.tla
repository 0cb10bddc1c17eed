---------------------------- MODULE AllreduceRing ----------------------------
(***************************************************************************)
(* AllreduceLowLevel<T, RING>.  The vector is cut into N chunks.  In the   *)
(* first N - 1 steps (stage REDUCE) each chunk travels once around the     *)
(* ring and collects the contributions of the ranks; in the next N - 1     *)
(* (stage GATHER) the results travel around.  The gather stage reads from  *)
(* and writes into the memory of source_buffers_reduce.                    *)
(*                                                                         *)
(* A chunk is the bag of the contributions <<rank, execution>> that have   *)
(* been reduced into it: the operations (sum and product) are              *)
(* commutative and associative, and a contribution that is missing or      *)
(* counted twice shows.                                                    *)
(***************************************************************************)
EXTENDS Collective, Bags

VARIABLES
  number_elements, \* 0 or 1: whether the vector is empty
  current_step,
  current_index

allreduceVars == <<number_elements, current_step, current_index>>
vars == <<allreduceVars, collectiveVars, endpointVars>>

Right(r) == (r + 1) % N
Left(r) == (r + N - 1) % N
Down(i) == (i + N - 1) % N       \* RingIndex::operator--

steps_per_stage == N - 1

(* Channel <<s, r, i>>: source_buffers_<s>[i] of r to target_buffers_<s>[i] *)
(* of the right neighbour.                                                  *)
Channels == {"reduce", "gather"} \X Ranks \X Ranks
Into(s, r, i) == <<s, Left(r), i>>

(* <<"source", r, i>> is the memory of source_buffers_reduce[i], shared by  *)
(* both gather buffers; <<"target", r, i>> that of target_buffers_reduce.   *)
Locations == {"source", "target"} \X Ranks \X Ranks
SourceMemory(c) == <<"source", c[2], c[3]>>
TargetMemory(c) ==
  <<IF c[1] = "reduce" THEN "target" ELSE "source", Right(c[2]), c[3]>>

Init ==
  /\ Setup(Channels, Locations, EmptyBag)
  /\ number_elements \in {0, 1}
  /\ current_step = [r \in Ranks |-> 0]
  /\ current_index = [r \in Ranks |-> r]

CopyIn(r) ==
  /\ copyIn(r)
  /\ mem' = [l \in Locations |->
               IF l[1] = "source" /\ l[2] = r /\ number_elements > 0
                 THEN SetToBag({<<r, round'[r]>>}) ELSE mem[l]]
  /\ UNCHANGED <<allreduceVars, endpointVars>>

Start(r) ==
  /\ start(r)
  /\ IF number_elements = 0
       THEN UNCHANGED <<current_step, current_index, writing>>
       ELSE /\ current_step' = [current_step EXCEPT ![r] = 0]
            /\ initTransfer(<<"reduce", r, r>>)
            /\ current_index' = [current_index EXCEPT ![r] = Down(r)]
  /\ UNCHANGED <<number_elements, mem, arrived, acking, acked>>

InReduceStage(r)   == current_step[r] < steps_per_stage
is_last_step_reduce(r) == current_step[r] = steps_per_stage - 1
is_last_step_gather(r) == current_step[r] = 2 * steps_per_stage - 1
is_last_step(r)    == current_step[r] = 2 * steps_per_stage

Advance(r) ==
  /\ current_step' = [current_step EXCEPT ![r] = @ + 1]
  /\ current_index' = [current_index EXCEPT ![r] = Down(@)]
  /\ UNCHANGED number_elements

(* A partial result arrives, is reduced and sent on. *)
Reduce(r) ==
  LET i == current_index[r] IN
    /\ progress(r)
    /\ number_elements > 0 /\ InReduceStage(r)
    /\ targetCompletes(Into("reduce", r, i))
    /\ mem' = [mem EXCEPT ![<<"source", r, i>>] = @ (+) mem[<<"target", r, i>>]]
    /\ initTransfer(<<IF is_last_step_reduce(r) THEN "gather" ELSE "reduce", r, i>>)
    /\ Advance(r)
    /\ UNCHANGED <<acking, acked>>

(* Faulty variant: all results are acknowledged, not just the last. *)
Gather_AckAll(r) ==
  LET i == current_index[r] IN
    /\ progress(r)
    /\ number_elements > 0 /\ ~InReduceStage(r) /\ ~is_last_step(r)
    /\ targetCompletes(Into("gather", r, i))
    /\ ackTransfer(Into("gather", r, i))
    /\ IF is_last_step_gather(r) THEN UNCHANGED writing
                                 ELSE initTransfer(<<"gather", r, i>>)
    /\ Advance(r)
    /\ UNCHANGED <<mem, acked>>

(* A result arrives and is sent on; the last one is acknowledged instead. *)
Gather(r) ==
  LET i == current_index[r] IN
    /\ progress(r)
    /\ number_elements > 0 /\ ~InReduceStage(r) /\ ~is_last_step(r)
    /\ targetCompletes(Into("gather", r, i))
    /\ IF is_last_step_gather(r)
         THEN ackTransfer(Into("gather", r, i)) /\ UNCHANGED writing
         ELSE initTransfer(<<"gather", r, i>>) /\ UNCHANGED acking
    /\ Advance(r)
    /\ UNCHANGED <<mem, acked>>

(* Faulty variant: the awaited buffer is not the one of the last transfer. *)
Complete_WrongBuffer(r) ==
  /\ complete(r)
  /\ \/ number_elements = 0 /\ UNCHANGED acked
     \/ /\ number_elements > 0 /\ is_last_step(r)
        /\ sourceAcked(<<"gather", r, (current_index[r] + 1) % N>>)
  /\ UNCHANGED <<allreduceVars, mem, writing, arrived, acking>>

Complete(r) ==
  /\ complete(r)
  /\ \/ number_elements = 0 /\ UNCHANGED acked
     \/ /\ number_elements > 0 /\ is_last_step(r)
        /\ sourceAcked(<<"gather", r, (current_index[r] + 2) % N>>)
  /\ UNCHANGED <<allreduceVars, mem, writing, arrived, acking>>

CopyOut(r) ==
  /\ copyOut(r, [i \in Ranks |-> mem[<<"source", r, i>>]])
  /\ UNCHANGED <<allreduceVars, endpointVars>>

User(r) == CopyIn(r) \/ Start(r) \/ CopyOut(r)
TriggerProgress(r) == Reduce(r) \/ Gather(r) \/ Complete(r)

WriteArrives(c) ==
  Transfer(c, SourceMemory(c), TargetMemory(c)) /\ UNCHANGED allreduceVars
AckArrives(c) == Acknowledge(c) /\ UNCHANGED allreduceVars

Next ==
  \/ \E r \in Ranks : User(r) \/ TriggerProgress(r)
  \/ \E c \in Channels : WriteArrives(c) \/ AckArrives(c)

Spec == Init /\ [][Next]_vars /\ WF_vars(Next)
-----------------------------------------------------------------------------
TypeOK ==
  /\ EndpointTypeOK(Channels)
  /\ state \in [Ranks -> States]
  /\ round \in [Ranks -> 0..Rounds]
  /\ DOMAIN mem = Locations
  /\ number_elements \in {0, 1}
  /\ current_step \in [Ranks -> 0 .. 2 * steps_per_stage]
  /\ current_index \in [Ranks -> Ranks]

(* copyOut writes in every chunk the reduction of exactly one contribution *)
(* of each rank, all of this execution, even when the ranks run through    *)
(* consecutive executions without any other synchronization.               *)
ResultsCorrect ==
  number_elements > 0 =>
    \A r \in Ranks : HasResult(r) =>
      output[r] = [i \in Ranks |-> SetToBag({<<q, round[r]>> : q \in Ranks})]

(* No notification is posted before its predecessor has been consumed. *)
NoNotificationLost == OneOutstanding(Channels)

(* When a rank is FINISHED, all its transfers have landed: copyIn may      *)
(* overwrite its source buffers and the destructor may release them.       *)
SourcesReleased ==
  \A r \in Ranks : state[r] = "FINISHED" => Released({c \in Channels : c[2] = r})

(* An execution that all ranks have completed leaves no notification       *)
(* behind that the next one could take for its own.                        *)
NothingLeftOver == AllHaveResults => Quiet(Channels)
=============================================================================

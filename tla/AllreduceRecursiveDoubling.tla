--------------------- MODULE AllreduceRecursiveDoubling ---------------------
(***************************************************************************)
(* AllreduceLowLevel<T, RECURSIVE_DOUBLING>.  The largest power of two of  *)
(* ranks, the active ones, exchange and reduce their vectors with a        *)
(* partner at distance 1, 2, 4, ...  When N is no power of two, each odd   *)
(* rank of the first 2 * number_ranks_rest first hands its vector to its   *)
(* even neighbour and receives the result at the end.                      *)
(* A vector is the bag of contributions reduced into it (AllreduceRing).   *)
(***************************************************************************)
EXTENDS Collective, Bags

VARIABLES number_elements, iteration, alg_stage

allreduceVars == <<number_elements, iteration, alg_stage>>
vars == <<allreduceVars, collectiveVars, endpointVars>>

number_iterations == CHOOSE k \in 0..N : 2^k <= N /\ N < 2^(k + 1)
number_ranks_used == 2^number_iterations
number_ranks_rest == N - number_ranks_used

is_extra_rank(r)         == r >= 2 * number_ranks_rest
is_even_non_extra_rank(r) == r % 2 = 0 /\ ~is_extra_rank(r)
is_odd_non_extra_rank(r) == r % 2 = 1 /\ ~is_extra_rank(r)
is_active_rank(r)        == is_even_non_extra_rank(r) \/ is_extra_rank(r)
is_last_iteration(r)     == iteration[r] = number_iterations - 1

(* a ^ d for a power of two d *)
FlipBit(a, d) == IF (a \div d) % 2 = 0 THEN a + d ELSE a - d

(* The partner of an active rank in iteration k. *)
Neighbor(r, k) ==
  LET relabeled == IF r < 2 * number_ranks_rest THEN r \div 2
                                                ELSE r - number_ranks_rest
      partner   == FlipBit(relabeled, 2^k)
  IN  IF partner < number_ranks_rest THEN partner * 2
                                     ELSE partner + number_ranks_rest

(* Channel <<r, k>>: source_buffers[k] of r to target_buffers[k] of its    *)
(* partner; the pair for the case of no power of two has the next number.  *)
NonPowerTwo == number_iterations
Partner(r, k) == IF k = NonPowerTwo THEN FlipBit(r, 1) ELSE Neighbor(r, k)
Channels ==
  {c \in Ranks \X (0..NonPowerTwo) :
     IF c[2] = NonPowerTwo THEN ~is_extra_rank(c[1]) ELSE is_active_rank(c[1])}
Into(r, k) == <<Partner(r, k), k>>

(* All source buffers of a rank are one memory; a target buffer has its    *)
(* own.                                                                    *)
Vector(r) == <<r, -1>>
Locations == {Vector(r) : r \in Ranks} \cup Channels
SourceMemory(c) == Vector(c[1])
TargetMemory(c) == <<Partner(c[1], c[2]), c[2]>>

Init ==
  /\ Setup(Channels, Locations, EmptyBag)
  /\ number_elements \in {0, 1}
  /\ iteration = [r \in Ranks |-> 0]
  /\ alg_stage = [r \in Ranks |-> "NOT_STARTED"]

CopyIn(r) ==
  /\ copyIn(r)
  /\ IF number_elements = 0 THEN UNCHANGED mem
     ELSE mem' = [mem EXCEPT ![Vector(r)] = SetToBag({<<r, round'[r]>>})]
  /\ UNCHANGED <<allreduceVars, endpointVars>>

Start(r) ==
  /\ start(r)
  /\ IF number_elements = 0 THEN UNCHANGED <<iteration, alg_stage, writing>>
     ELSE /\ iteration' = [iteration EXCEPT ![r] = 0]
          /\ alg_stage' = [alg_stage EXCEPT ![r] =
                             IF is_extra_rank(r) THEN "WAIT_FOR_DATA"
                                                 ELSE "INITIAL_STEP"]
          /\ CASE is_extra_rank(r)         -> initTransfer(<<r, 0>>)
               [] is_odd_non_extra_rank(r) -> initTransfer(<<r, NonPowerTwo>>)
               [] OTHER                    -> UNCHANGED writing
  /\ UNCHANGED <<number_elements, mem, arrived, acking, acked>>

ApplyReduce(r, k) ==
  mem' = [mem EXCEPT ![Vector(r)] = @ (+) mem[<<r, k>>]]

(* The even rank takes in the vector of its odd neighbour.  The code goes  *)
(* on to AwaitData in the same call; that is a step of its own here, since *)
(* the transfer it posts may land in between.                              *)
InitialStep(r) ==
  /\ progress(r)
  /\ is_even_non_extra_rank(r) /\ alg_stage[r] = "INITIAL_STEP"
  /\ targetCompletes(Into(r, NonPowerTwo))
  /\ ApplyReduce(r, NonPowerTwo)
  /\ initTransfer(<<r, iteration[r]>>)
  /\ alg_stage' = [alg_stage EXCEPT ![r] = "WAIT_FOR_DATA"]
  /\ UNCHANGED <<number_elements, iteration, acking, acked>>

AwaitData(r) ==
  /\ progress(r)
  /\ is_active_rank(r) /\ alg_stage[r] = "WAIT_FOR_DATA"
  /\ targetCompletes(Into(r, iteration[r]))
  /\ ackTransfer(Into(r, iteration[r]))
  /\ alg_stage' = [alg_stage EXCEPT ![r] = "WAIT_FOR_ACK"]
  /\ UNCHANGED <<number_elements, iteration, mem, writing, acked>>

(* Faulty variant: reduces while the partner may still be reading. *)
AwaitAck_NotAwaited(r) ==
  /\ progress(r)
  /\ is_active_rank(r) /\ alg_stage[r] = "WAIT_FOR_ACK"
  /\ ApplyReduce(r, iteration[r])
  /\ alg_stage' = [alg_stage EXCEPT ![r] =
                     IF is_last_iteration(r) THEN "FINAL_STEP" ELSE "WAIT_FOR_DATA"]
  /\ IF is_last_iteration(r) /\ ~is_even_non_extra_rank(r) THEN UNCHANGED writing
       ELSE initTransfer(<<r, iteration[r] + 1>>)
  /\ iteration' = [iteration EXCEPT ![r] = @ + 1]
  /\ UNCHANGED <<number_elements, arrived, acking, acked>>

(* The vector has left the source buffers: reduce into it, and send it to  *)
(* the next partner or back to the odd neighbour.                          *)
AwaitAck(r) ==
  /\ progress(r)
  /\ is_active_rank(r) /\ alg_stage[r] = "WAIT_FOR_ACK"
  /\ sourceAcked(<<r, iteration[r]>>)
  /\ ApplyReduce(r, iteration[r])
  /\ alg_stage' = [alg_stage EXCEPT ![r] =
                     IF is_last_iteration(r) THEN "FINAL_STEP" ELSE "WAIT_FOR_DATA"]
  /\ IF is_last_iteration(r) /\ ~is_even_non_extra_rank(r) THEN UNCHANGED writing
       ELSE initTransfer(<<r, iteration[r] + 1>>)
  /\ iteration' = [iteration EXCEPT ![r] = @ + 1]
  /\ UNCHANGED <<number_elements, arrived, acking>>

(* An odd rank only counts the iterations. *)
SkipIteration(r) ==
  /\ progress(r)
  /\ is_odd_non_extra_rank(r) /\ alg_stage[r] = "INITIAL_STEP"
  /\ alg_stage' = [alg_stage EXCEPT ![r] =
                     IF is_last_iteration(r) THEN "FINAL_STEP" ELSE @]
  /\ iteration' = [iteration EXCEPT ![r] = @ + 1]
  /\ UNCHANGED <<number_elements, mem, endpointVars>>

Complete(r) ==
  /\ complete(r)
  /\ \/ /\ number_elements = 0 \/ (alg_stage[r] = "FINAL_STEP" /\ is_extra_rank(r))
        /\ UNCHANGED <<arrived, acking, acked>>
     \/ /\ alg_stage[r] = "FINAL_STEP" /\ is_even_non_extra_rank(r)
        /\ sourceAcked(<<r, NonPowerTwo>>)
        /\ UNCHANGED <<arrived, acking>>
     \/ /\ alg_stage[r] = "FINAL_STEP" /\ is_odd_non_extra_rank(r)
        /\ targetCompletes(Into(r, NonPowerTwo))
        /\ ackTransfer(Into(r, NonPowerTwo))
        /\ UNCHANGED acked
  /\ UNCHANGED <<allreduceVars, mem, writing>>

CopyOut(r) ==
  /\ copyOut(r, mem[IF is_active_rank(r) THEN Vector(r) ELSE <<r, NonPowerTwo>>])
  /\ UNCHANGED <<allreduceVars, endpointVars>>

User(r) == CopyIn(r) \/ Start(r) \/ CopyOut(r)
TriggerProgress(r) ==
  \/ InitialStep(r) \/ AwaitData(r) \/ AwaitAck(r)
  \/ SkipIteration(r) \/ Complete(r)

WriteArrives(c) ==
  Transfer(c, SourceMemory(c), TargetMemory(c)) /\ UNCHANGED allreduceVars
AckArrives(c) == Acknowledge(c) /\ UNCHANGED allreduceVars

Next ==
  \/ \E r \in Ranks : User(r) \/ TriggerProgress(r)
  \/ \E c \in Channels : WriteArrives(c) \/ AckArrives(c)

Spec == Init /\ [][Next]_vars /\ WF_vars(Next)
-----------------------------------------------------------------------------
TypeOK ==
  /\ EndpointTypeOK(Channels)
  /\ state \in [Ranks -> States]
  /\ round \in [Ranks -> 0..Rounds]
  /\ DOMAIN mem = Locations
  /\ number_elements \in {0, 1}
  /\ iteration \in [Ranks -> 0..number_iterations]
  /\ alg_stage \in [Ranks -> {"NOT_STARTED", "INITIAL_STEP", "WAIT_FOR_DATA",
                              "WAIT_FOR_ACK", "FINAL_STEP"}]

(* copyOut writes the reduction of exactly one contribution of each rank,  *)
(* all of this execution, although the vector is sent from the memory that *)
(* the partner's vector is reduced into.                                   *)
ResultsCorrect ==
  separated /\ number_elements > 0 =>
    \A r \in Ranks : HasResult(r) =>
      output[r] = SetToBag({<<q, round[r]>> : q \in Ranks})

(* No notification is posted before its predecessor has been consumed. *)
NoNotificationLost == OneOutstanding(Channels)

(* When a rank is FINISHED, all its transfers have landed: copyIn may      *)
(* overwrite its source buffers and the destructor may release them.       *)
SourcesReleased ==
  \A r \in Ranks : state[r] = "FINISHED" => Released({c \in Channels : c[1] = r})

(* An execution that all ranks have completed leaves no notification       *)
(* behind that the next one could take for its own.                        *)
NothingLeftOver == AllHaveResults => Quiet(Channels)
=============================================================================

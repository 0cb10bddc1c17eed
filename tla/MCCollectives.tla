---------------------------- MODULE MCCollectives ----------------------------
(***************************************************************************)
(* The five non-blocking collectives for model checking.  The application  *)
(* chooses one of them, whether it calls a barrier between the executions  *)
(* of the collective object, and whether the data is empty.                *)
(***************************************************************************)
EXTENDS Naturals

CONSTANTS
  Small, Medium, Large, \* group sizes
  Rounds,               \* executions of the collective object
  root                  \* root of the broadcasts

(* A single rank only copies its data. *)
ASSUME GroupAssumption ==
  /\ {Small, Medium, Large} \subseteq Nat \ {0, 1}
  /\ Rounds \in Nat /\ root \in 0 .. Medium - 1

(* Facts of arithmetic about 2^i that no installed prover derives. *)
ASSUME PowerAssumption ==
  \A n \in {Small, Large} :
    /\ \E k \in 0 .. n : 2^k <= n /\ n < 2^(k + 1)
    /\ 2^0 = 1
    /\ \A i \in 0 .. n : 2^i \in Nat \ {0} /\ 2^(i + 1) = 2 * 2^i
    /\ \A i, j \in 0 .. n : i <= j => 2^j = 2^i * 2^(j - i)

VARIABLES
  algorithm,
  writing, arrived, acking, acked,         \* Endpoint
  separated, state, round, mem, output,    \* Collective
  number_elements,
  current_step, current_index,             \* the rings
  iteration, alg_stage,                    \* recursive doubling, linear
  transfers_in_progress                    \* send to all

common == <<writing, arrived, acking, acked, separated, state, round, mem, output>>
vars == <<algorithm, common, number_elements, current_step, current_index,
          iteration, alg_stage, transfers_in_progress>>

Allgatherv == INSTANCE AllgathervRing WITH N <- Small
Ring == INSTANCE AllreduceRing WITH N <- Small
Doubling == INSTANCE AllreduceRecursiveDoubling WITH N <- Small
(* Two iterations, and ranks that are even, odd and extra. *)
LargeDoubling == INSTANCE AllreduceRecursiveDoubling WITH N <- Large
Linear == INSTANCE BroadcastBasicLinear WITH N <- Medium
ToAll == INSTANCE BroadcastSendToAll WITH N <- Medium

Init ==
  \/ /\ algorithm = "Allgatherv" /\ Allgatherv!Init
     /\ number_elements = 0 /\ current_index = 0 /\ iteration = 0
     /\ alg_stage = 0 /\ transfers_in_progress = 0
  \/ /\ algorithm = "Ring" /\ Ring!Init
     /\ iteration = 0 /\ alg_stage = 0 /\ transfers_in_progress = 0
  \/ /\ algorithm = "Doubling" /\ Doubling!Init
     /\ current_step = 0 /\ current_index = 0 /\ transfers_in_progress = 0
  \/ /\ algorithm = "LargeDoubling" /\ LargeDoubling!Init /\ separated
     /\ current_step = 0 /\ current_index = 0 /\ transfers_in_progress = 0
  \/ /\ algorithm = "Linear" /\ Linear!Init
     /\ current_step = 0 /\ current_index = 0 /\ alg_stage = 0
     /\ transfers_in_progress = 0
  \/ /\ algorithm = "ToAll" /\ ToAll!Init
     /\ number_elements = 0 /\ current_step = 0 /\ current_index = 0
     /\ iteration = 0 /\ alg_stage = 0

Next ==
  /\ UNCHANGED algorithm
  /\ \/ /\ algorithm = "Allgatherv" /\ Allgatherv!Next
        /\ UNCHANGED <<number_elements, current_index, iteration, alg_stage, transfers_in_progress>>
     \/ /\ algorithm = "Ring" /\ Ring!Next
        /\ UNCHANGED <<iteration, alg_stage, transfers_in_progress>>
     \/ /\ algorithm = "Doubling" /\ Doubling!Next
        /\ UNCHANGED <<current_step, current_index, transfers_in_progress>>
     \/ /\ algorithm = "LargeDoubling" /\ LargeDoubling!Next
        /\ UNCHANGED <<current_step, current_index, transfers_in_progress>>
     \/ /\ algorithm = "Linear" /\ Linear!Next
        /\ UNCHANGED <<current_step, current_index, alg_stage, transfers_in_progress>>
     \/ /\ algorithm = "ToAll" /\ ToAll!Next
        /\ UNCHANGED <<number_elements, current_step, current_index, iteration, alg_stage>>

(* All ranks and GASPI go on while they can.  No step of an execution is   *)
(* ever repeated, so that fairness for all of them is fairness for each.   *)
Spec == Init /\ [][Next]_vars /\ WF_vars(Next)
-----------------------------------------------------------------------------
TypeOK ==
  /\ algorithm = "Allgatherv" => Allgatherv!TypeOK
  /\ algorithm = "Ring" => Ring!TypeOK
  /\ algorithm = "Doubling" => Doubling!TypeOK
  /\ algorithm = "LargeDoubling" => LargeDoubling!TypeOK
  /\ algorithm = "Linear" => Linear!TypeOK
  /\ algorithm = "ToAll" => ToAll!TypeOK

(* copyOut of Allgatherv writes the blocks that the ranks gave to this     *)
(* execution, in the order of the ranks, if a barrier separates executions. *)
AllgathervCorrect == algorithm = "Allgatherv" => Allgatherv!ResultsCorrect

(* copyOut of Allreduce writes the reduction of exactly one contribution   *)
(* of every rank, all of this execution: for the ring always, for the      *)
(* recursive doubling if a barrier separates executions.                   *)
AllreduceCorrect ==
  /\ algorithm = "Ring" => Ring!ResultsCorrect
  /\ algorithm = "Doubling" => Doubling!ResultsCorrect
  /\ algorithm = "LargeDoubling" => LargeDoubling!ResultsCorrect

(* copyOut of Broadcast writes the root's data of this execution, if a     *)
(* barrier separates executions.                                           *)
BroadcastCorrect ==
  /\ algorithm = "Linear" => Linear!ResultsCorrect
  /\ algorithm = "ToAll" => ToAll!ResultsCorrect

(* No buffer is signalled before the previous signal has been consumed,    *)
(* with or without a barrier between executions; the linear broadcast      *)
(* needs the barrier.  A lost notification would leave its receiver        *)
(* polling for ever.                                                       *)
NoNotificationLost ==
  /\ algorithm = "Allgatherv" => Allgatherv!NoNotificationLost
  /\ algorithm = "Ring" => Ring!NoNotificationLost
  /\ algorithm = "Doubling" => Doubling!NoNotificationLost
  /\ algorithm = "LargeDoubling" => LargeDoubling!NoNotificationLost
  /\ algorithm = "Linear" => Linear!NoNotificationLost
  /\ algorithm = "ToAll" => ToAll!NoNotificationLost

(* An execution that all ranks have completed leaves no notification       *)
(* behind that the next one could take for its own.                        *)
NothingLeftOver ==
  /\ algorithm = "Allgatherv" => Allgatherv!NothingLeftOver
  /\ algorithm = "Ring" => Ring!NothingLeftOver
  /\ algorithm = "Doubling" => Doubling!NothingLeftOver
  /\ algorithm = "LargeDoubling" => LargeDoubling!NothingLeftOver
  /\ algorithm = "Linear" => Linear!NothingLeftOver
  /\ algorithm = "ToAll" => ToAll!NothingLeftOver

(* When a rank is FINISHED, all its transfers have landed: copyIn may      *)
(* overwrite its source buffers and the destructor may release them.  The  *)
(* linear broadcast, which acknowledges only the last transfer, does not   *)
(* promise this.                                                           *)
SourcesReleased ==
  /\ algorithm = "Allgatherv" => Allgatherv!SourcesReleased
  /\ algorithm = "Ring" => Ring!SourcesReleased
  /\ algorithm = "Doubling" => Doubling!SourcesReleased
  /\ algorithm = "LargeDoubling" => LargeDoubling!SourcesReleased
  /\ algorithm = "ToAll" => ToAll!SourcesReleased

(* The root's transfers_in_progress is exact, in whatever order and        *)
(* grouping the acknowledgements come in, over all executions.             *)
CountExact == algorithm = "ToAll" => ToAll!CountExact

(* Every rank completes all its executions (the linear broadcast: if a     *)
(* barrier separates them).                                                *)
Done ==
  /\ algorithm = "Allgatherv" => Allgatherv!AllDone
  /\ algorithm = "Ring" => Ring!AllDone
  /\ algorithm = "Doubling" => Doubling!AllDone
  /\ algorithm = "LargeDoubling" => LargeDoubling!AllDone
  /\ algorithm = "Linear" => Linear!AllDone
  /\ algorithm = "ToAll" => ToAll!AllDone

Termination == <>(Done \/ (algorithm = "Linear" /\ ~separated))
=============================================================================

----------------------------- MODULE Collective -----------------------------
(***************************************************************************)
(* What all non-blocking collectives share: the state machine of           *)
(* CollectiveLowLevel on every rank of the group and the memory that the   *)
(* source and target buffers give to GASPI.                                *)
(*                                                                         *)
(* A user thread calls start (copyIn, then start), and waitForCompletion   *)
(* (triggerProgress until FINISHED, then copyOut); the progress engine     *)
(* calls triggerProgress as well.  _state_mutex makes each of these calls  *)
(* one step.  A call of triggerProgress that finds nothing to do leaves    *)
(* the state as it is and is not an action.  The threads of one rank are   *)
(* the subject of CollectiveThreads.                                       *)
(***************************************************************************)
EXTENDS Endpoint, Integers

CONSTANTS
  N,         \* group.size(), at least 2: a single rank only copies its input
  Rounds     \* bound on the executions of the collective object

Ranks == 0 .. N - 1

VARIABLES
  separated, \* whether the application calls a barrier between executions
  state,   \* state[r]: CollectiveLowLevel::_state
  round,   \* round[r]: number of executions begun with copyIn
  mem,     \* mem[l]: content of the buffer memory at location l
  output   \* output[r]: what the last copyOut wrote

collectiveVars == <<separated, state, round, mem, output>>

States == {"INITIALIZED", "READY", "RUNNING", "FINISHED"}

(* Every rank after waitForSetup; the memory holds no input yet. *)
Setup(C, Locations, empty) ==
  /\ Connected(C)
  /\ separated \in BOOLEAN
  /\ state = [r \in Ranks |-> "INITIALIZED"]
  /\ round = [r \in Ranks |-> 0]
  /\ mem = [l \in Locations |-> empty]
  /\ output = [r \in Ranks |-> empty]

(* The application's barrier: all have copied out what r has. *)
PassedBarrier(r) ==
  \A q \in Ranks : \/ round[q] > round[r]
                   \/ round[q] = round[r] /\ state[q] = "INITIALIZED"

copyIn(r) ==
  /\ state[r] = "INITIALIZED"
  /\ round[r] < Rounds
  /\ separated => PassedBarrier(r)
  /\ state' = [state EXCEPT ![r] = "READY"]
  /\ round' = [round EXCEPT ![r] = @ + 1]
  /\ UNCHANGED <<separated, output>>

start(r) ==
  /\ state[r] = "READY"
  /\ state' = [state EXCEPT ![r] = "RUNNING"]
  /\ UNCHANGED <<separated, round, output>>

(* triggerProgress when triggerProgressImpl returns false and true. *)
progress(r) == state[r] = "RUNNING" /\ UNCHANGED <<separated, state, round, output>>

complete(r) ==
  /\ state[r] = "RUNNING"
  /\ state' = [state EXCEPT ![r] = "FINISHED"]
  /\ UNCHANGED <<separated, round, output>>

copyOut(r, result) ==
  /\ state[r] = "FINISHED"
  /\ state' = [state EXCEPT ![r] = "INITIALIZED"]
  /\ output' = [output EXCEPT ![r] = result]
  /\ UNCHANGED <<separated, round, mem>>

(* A write lands: what the memory at src holds now is copied to dst. *)
Transfer(c, src, dst) ==
  /\ WriteLands(c)
  /\ mem' = [mem EXCEPT ![dst] = mem[src]]
  /\ UNCHANGED <<separated, state, round, output>>

Acknowledge(c) == AckLands(c) /\ UNCHANGED collectiveVars
-----------------------------------------------------------------------------
HasResult(r) == state[r] = "INITIALIZED" /\ round[r] > 0

AllHaveResults == \A r \in Ranks : HasResult(r) /\ round[r] = round[0]

(* The transfers from the channels C have left, and the acknowledgements   *)
(* that they ask for have come.                                            *)
Released(C) == \A c \in C : writing[c] = 0 /\ acking[c] = 0

(* Every rank has completed all its executions. *)
AllDone == \A r \in Ranks : state[r] = "INITIALIZED" /\ round[r] = Rounds

(* Nothing under way and nothing left to be consumed on the channels C. *)
Quiet(C) ==
  \A c \in C : writing[c] + arrived[c] = 0 /\ acking[c] + acked[c] = 0
=============================================================================

-------------------------- MODULE CollectiveThreads --------------------------
(***************************************************************************)
(* CollectiveLowLevel and the threads of one rank: user threads that call  *)
(* copyIn, start, waitForCompletion, copyOut and one or more pollers (the  *)
(* progress engine) that call triggerProgress.  waitForCompletion tests    *)
(* _state without the mutex and triggerProgress gives up when it does not  *)
(* get it (try_lock).                                                      *)
(*                                                                         *)
(* triggerProgressImpl is an algorithm that completes after `work' calls   *)
(* that find something to do.                                              *)
(***************************************************************************)
EXTENDS Naturals, FiniteSets

CONSTANTS
  Users,      \* user threads that call waitForCompletion
  Pollers,    \* threads of progress engines
  Work,       \* calls of triggerProgressImpl per execution that progress
  Executions, \* bound on the number of executions
  Free        \* no thread has _state_mutex

Callers == Users \cup Pollers

ASSUME ThreadsAssumption ==
  /\ Users \cap Pollers = {} /\ Free \notin Callers
  /\ Work \in Nat \ {0} /\ Executions \in Nat

VARIABLES
  _state,     \* CollectiveLowLevel::_state
  mutex,      \* holder of _state_mutex, or Free
  pc,         \* pc[t]: where thread t is
  work,       \* progress left to be made in this execution
  execution,  \* executions begun so far
  since,      \* since[t]: execution in which t called waitForCompletion
  completes   \* completes[t]: the execution that t's last call completed, or
              \* 0: thisThreadCompletes is completes[t] # 0

vars == <<_state, mutex, pc, work, execution, since, completes>>

Init ==
  /\ _state = "UNINITIALIZED"
  /\ mutex = Free
  /\ pc = [t \in Callers |-> IF t \in Users THEN "idle" ELSE "poll"]
  /\ work = 0 /\ execution = 0
  /\ since = [t \in Callers |-> 0]
  /\ completes = [t \in Callers |-> 0]

Goto(t, p) == pc' = [pc EXCEPT ![t] = p]

(* A whole call under std::lock_guard by a thread that is not in another   *)
(* call.  Calls in the wrong state throw and change nothing.               *)
Call(t, from, to) ==
  /\ pc[t] = "idle" /\ mutex = Free
  /\ _state = from /\ _state' = to
  /\ UNCHANGED <<mutex, pc, since, completes>>

WaitForSetup(t) == Call(t, "UNINITIALIZED", "INITIALIZED") /\ UNCHANGED <<work, execution>>

CopyIn(t) ==
  /\ execution < Executions
  /\ Call(t, "INITIALIZED", "READY") /\ UNCHANGED <<work, execution>>

Start(t) ==
  /\ Call(t, "READY", "RUNNING")
  /\ work' = Work
  /\ execution' = execution + 1

CopyOut(t) == Call(t, "FINISHED", "INITIALIZED") /\ UNCHANGED <<work, execution>>
-----------------------------------------------------------------------------
(* waitForCompletion: the first test of the loop. *)
WaitForCompletion(t) ==
  /\ t \in Users /\ pc[t] = "idle" /\ _state = "RUNNING"
  /\ Goto(t, "try")
  /\ since' = [since EXCEPT ![t] = execution]
  /\ completes' = [completes EXCEPT ![t] = 0]
  /\ UNCHANGED <<_state, mutex, work, execution>>

(* Faulty variant: if instead of while. *)
Test_Once(t) ==
  /\ t \in Users /\ pc[t] = "test"
  /\ Goto(t, "idle")
  /\ UNCHANGED <<_state, mutex, work, execution, since, completes>>

(* The later tests of the loop: go on or return. *)
Test(t) ==
  /\ t \in Users /\ pc[t] = "test"
  /\ Goto(t, IF completes[t] = 0 /\ _state = "RUNNING" THEN "try" ELSE "idle")
  /\ UNCHANGED <<_state, mutex, work, execution, since, completes>>

(* The engine begins a call of triggerProgress. *)
Poll(t) ==
  /\ t \in Pollers /\ pc[t] = "poll"
  /\ Goto(t, "try")
  /\ completes' = [completes EXCEPT ![t] = 0]
  /\ UNCHANGED <<_state, mutex, work, execution, since>>

After(t) == IF t \in Users THEN "test" ELSE "poll"

(* Faulty variant: the result of try_lock is not looked at. *)
TryLock_Ignored(t) ==
  /\ pc[t] = "try"
  /\ mutex' = t /\ Goto(t, "trigger")
  /\ UNCHANGED <<_state, work, execution, since, completes>>

(* triggerProgress: try_lock succeeds or fails. *)
TryLock(t) ==
  /\ pc[t] = "try"
  /\ \/ /\ mutex = Free
        /\ mutex' = t /\ Goto(t, "trigger")
     \/ /\ mutex # Free
        /\ UNCHANGED mutex /\ Goto(t, After(t))
  /\ UNCHANGED <<_state, work, execution, since, completes>>

(* Faulty variants: FINISHED is reported again; the final result is        *)
(* dropped.                                                                *)
Trigger_ReportsAgain(t) ==
  /\ pc[t] = "trigger"
  /\ work' = IF _state = "RUNNING" THEN work - 1 ELSE work
  /\ _state' = IF work = 1 THEN "FINISHED" ELSE _state
  /\ completes' = [completes EXCEPT ![t] = IF _state' = "FINISHED" THEN execution ELSE 0]
  /\ mutex' = Free
  /\ Goto(t, After(t))
  /\ UNCHANGED <<execution, since>>

Trigger_DropsResult(t) ==
  /\ pc[t] = "trigger"
  /\ work' = IF work > 1 THEN work - 1 ELSE work
  /\ mutex' = Free
  /\ Goto(t, After(t))
  /\ UNCHANGED <<_state, execution, since, completes>>

(* The body under the mutex: if RUNNING, triggerProgressImpl finds nothing *)
(* to do, or makes progress, and with the last progress completes.         *)
Trigger(t) ==
  /\ pc[t] = "trigger"
  /\ \/ _state # "RUNNING" /\ UNCHANGED <<_state, work, completes>>
     \/ /\ _state = "RUNNING"
        /\ work' = work - 1
        /\ _state' = IF work = 1 THEN "FINISHED" ELSE _state
        /\ completes' = [completes EXCEPT ![t] = IF work = 1 THEN execution ELSE 0]
  /\ mutex' = Free
  /\ Goto(t, After(t))
  /\ UNCHANGED <<execution, since>>

TriggerInVain(t) ==
  /\ pc[t] = "trigger" /\ _state = "RUNNING"
  /\ mutex' = Free
  /\ Goto(t, After(t))
  /\ UNCHANGED <<_state, work, execution, since, completes>>

User(t) == WaitForSetup(t) \/ CopyIn(t) \/ Start(t) \/ CopyOut(t) \/ WaitForCompletion(t)

triggerProgress(t) == TryLock(t) \/ Trigger(t) \/ TriggerInVain(t)

Next ==
  \E t \in Callers :
    \/ t \in Users /\ User(t)
    \/ Test(t) \/ Poll(t) \/ triggerProgress(t)

(* Callers that can run do run.  A thread that polls again and again finds *)
(* something to do again and again, since the other ranks take part.       *)
Fairness ==
  \A t \in Callers :
    /\ WF_vars(Test(t) \/ Poll(t) \/ triggerProgress(t))
    /\ SF_vars(Trigger(t))

Spec == Init /\ [][Next]_vars /\ Fairness
-----------------------------------------------------------------------------
TypeOK ==
  /\ _state \in {"UNINITIALIZED", "INITIALIZED", "READY", "RUNNING", "FINISHED"}
  /\ mutex \in Callers \cup {Free}
  /\ pc \in [Callers -> {"idle", "test", "poll", "try", "trigger"}]
  /\ work \in 0..Work
  /\ execution \in 0..Executions
  /\ since \in [Callers -> 0..Executions]
  /\ completes \in [Callers -> 0..Executions]

(* Only one thread at a time is inside of triggerProgressImpl, and no call *)
(* that changes the data of the algorithm runs at the same time.           *)
OneTrigger ==
  \A t \in Callers : pc[t] = "trigger" <=> mutex = t

(* Of all the threads that poll in an execution at most one is told that   *)
(* it has taken the final step.                                            *)
OneCompleter ==
  \A t, u \in Callers : completes[t] # 0 /\ completes[t] = completes[u] => t = u

(* A thread does not return from waitForCompletion before the execution    *)
(* that was running when it called has completed.                          *)
WaitsForCompletion ==
  [][\A t \in Users :
       pc[t] = "test" /\ pc'[t] = "idle" =>
         execution > since[t] \/ _state # "RUNNING"]_vars

(* A running execution completes, whoever polls, although try_lock may     *)
(* fail for any one thread again and again.                                *)
ExecutionCompletes == _state = "RUNNING" ~> _state = "FINISHED"

(* A thread that waits for completion returns. *)
WaiterReturns == \A t \in Users : pc[t] = "test" ~> pc[t] = "idle"
=============================================================================

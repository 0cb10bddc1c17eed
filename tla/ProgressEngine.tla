--------------------------- MODULE ProgressEngine ---------------------------
(***************************************************************************)
(* progress_engine::RoundRobinDedicatedThread: a thread that polls all     *)
(* registered collectives, and the user threads that construct and destroy *)
(* collectives (register_collective, deregister_collective) and finally    *)
(* the engine.                                                             *)
(*                                                                         *)
(* A critical section of a user thread is one step, taken while            *)
(* operators_mutex is free.  That of the engine thread is several, since   *)
(* it may wait on the condition variable in the middle of it.              *)
(***************************************************************************)
EXTENDS Naturals

CONSTANTS
  Threads,      \* the user threads
  Collectives,  \* the collectives of the application
  MaxHandles,   \* bound on the number of registrations
  None

ASSUME EngineAssumption ==
  MaxHandles \in Nat /\ None \notin Collectives /\ None \notin Threads

VARIABLES
  mutex,             \* TRUE while the engine thread holds operators_mutex
  operators,         \* set of pairs <<handle, collective>>
  updated_operators,
  current_handle,
  terminate,         \* terminate_man_thread
  engine,            \* program counter of generate_progress
  current_operators, \* the engine thread's copy of the collectives
  untriggered,       \* those it has still to trigger in this pass
  thread,            \* thread[t]: where user thread t is
  busy,              \* busy[t]: the collective it is registering, or None
  handle             \* handle[c]: Allreduce::handle etc., 0 if not registered

shared == <<operators, updated_operators, current_handle, terminate>>
local == <<engine, current_operators, untriggered>>
vars == <<mutex, shared, local, thread, busy, handle>>

Handles == 0..MaxHandles
Registered == {o[2] : o \in operators}

Init ==
  /\ mutex = FALSE
  /\ operators = {} /\ updated_operators = FALSE
  /\ current_handle = 0 /\ terminate = FALSE
  /\ engine = "loop" /\ current_operators = {} /\ untriggered = {}
  /\ thread = [t \in Threads |-> "run"]
  /\ busy = [t \in Threads |-> None]
  /\ handle = [c \in Collectives |-> 0]
-----------------------------------------------------------------------------
(* generate_progress *)

At(p, q) == engine = p /\ engine' = q

(* while (!terminate_man_thread): no lock is held here. *)
EngineLoop ==
  /\ engine = "loop"
  /\ engine' = IF terminate THEN "exit" ELSE "lock"
  /\ UNCHANGED <<mutex, shared, current_operators, untriggered, thread, busy, handle>>

EngineLock ==
  /\ At("lock", "test") /\ ~mutex
  /\ mutex' = TRUE
  /\ UNCHANGED <<shared, current_operators, untriggered, thread, busy, handle>>

(* Faulty variant: the mutex is not held from the test to the wait. *)
EngineTest_Unlocks ==
  /\ engine = "test"
  /\ engine' = IF operators # {} \/ terminate THEN "copy" ELSE "block"
  /\ mutex' = (operators # {} \/ terminate)
  /\ UNCHANGED <<shared, current_operators, untriggered, thread, busy, handle>>

(* The predicate of condition.wait, at first and after every wake-up. *)
EngineTest ==
  /\ engine = "test"
  /\ engine' = IF operators # {} \/ terminate THEN "copy" ELSE "block"
  /\ UNCHANGED <<mutex, shared, current_operators, untriggered, thread, busy, handle>>

(* The wait releases the mutex and blocks in one step. *)
EngineBlock ==
  /\ At("block", "asleep")
  /\ mutex' = FALSE
  /\ UNCHANGED <<shared, current_operators, untriggered, thread, busy, handle>>

SpuriousWakeup ==
  /\ At("asleep", "lock")
  /\ UNCHANGED <<mutex, shared, current_operators, untriggered, thread, busy, handle>>

(* Copy the operators if they have changed, then unlock. *)
EngineCopy ==
  /\ At("copy", "pass")
  /\ current_operators' = IF updated_operators THEN Registered ELSE current_operators
  /\ updated_operators' = FALSE
  /\ mutex' = FALSE
  /\ UNCHANGED <<operators, current_handle, terminate, untriggered, thread, busy, handle>>

EngineStartPass ==
  /\ engine = "pass"
  /\ IF terminate THEN engine' = "loop" /\ UNCHANGED untriggered
                  ELSE engine' = "trigger" /\ untriggered' = current_operators
  /\ UNCHANGED <<mutex, shared, current_operators, thread, busy, handle>>

(* op->triggerProgress() *)
EngineTrigger(c) ==
  /\ engine = "trigger" /\ c \in untriggered
  /\ untriggered' = untriggered \ {c}
  /\ UNCHANGED <<mutex, shared, engine, current_operators, thread, busy, handle>>

EngineEndPass ==
  /\ At("trigger", "loop") /\ untriggered = {}
  /\ UNCHANGED <<mutex, shared, current_operators, untriggered, thread, busy, handle>>

Engine ==
  \/ EngineLoop \/ EngineLock \/ EngineTest \/ EngineBlock \/ EngineCopy
  \/ EngineStartPass \/ (\E c \in Collectives : EngineTrigger(c)) \/ EngineEndPass
-----------------------------------------------------------------------------
(* The user threads *)

(* condition.notify_one(): only the engine thread ever waits. *)
notify_one == engine' = IF engine = "asleep" THEN "lock" ELSE engine

(* The critical section of register_collective.  ++current_handle makes    *)
(* the handle new, so the insertion never throws.                          *)
Register(t, c) ==
  /\ thread[t] = "run" /\ ~mutex /\ ~terminate
  /\ handle[c] = 0 /\ (\A u \in Threads : busy[u] # c)
  /\ current_handle < MaxHandles
  /\ updated_operators' = TRUE
  /\ current_handle' = current_handle + 1
  /\ operators' = operators \cup {<<current_handle', c>>}
  /\ thread' = [thread EXCEPT ![t] = "notify"]
  /\ busy' = [busy EXCEPT ![t] = c]
  /\ UNCHANGED <<mutex, terminate, local, handle>>

(* Faulty variant: the engine is not notified. *)
RegisterNotify_Forgotten(t) ==
  /\ thread[t] = "notify"
  /\ thread' = [thread EXCEPT ![t] = "return"]
  /\ UNCHANGED <<mutex, shared, local, busy, handle>>

RegisterNotify(t) ==
  /\ thread[t] = "notify"
  /\ notify_one
  /\ thread' = [thread EXCEPT ![t] = "return"]
  /\ UNCHANGED <<mutex, shared, current_operators, untriggered, busy, handle>>

(* Faulty variant: the handle of the next registration is returned. *)
RegisterReturn_Next(t) ==
  /\ thread[t] = "return"
  /\ handle' = [handle EXCEPT ![busy[t]] = current_handle + 1]
  /\ thread' = [thread EXCEPT ![t] = "run"]
  /\ busy' = [busy EXCEPT ![t] = None]
  /\ UNCHANGED <<mutex, shared, local>>

(* return (current_handle), read after the mutex has been released. *)
RegisterReturn(t) ==
  /\ thread[t] = "return"
  /\ handle' = [handle EXCEPT ![busy[t]] = current_handle]
  /\ thread' = [thread EXCEPT ![t] = "run"]
  /\ busy' = [busy EXCEPT ![t] = None]
  /\ UNCHANGED <<mutex, shared, local>>

(* Faulty variant: the engine is not told about the change. *)
Deregister_NotFlagged(t, c) ==
  /\ thread[t] = "run" /\ ~mutex /\ ~terminate
  /\ handle[c] # 0
  /\ operators' = {o \in operators : o[1] # handle[c]}
  /\ thread' = [thread EXCEPT ![t] = IF operators' = operators THEN "threw" ELSE "run"]
  /\ handle' = [handle EXCEPT ![c] = 0]
  /\ UNCHANGED <<mutex, updated_operators, current_handle, terminate, local, busy>>

(* deregister_collective throws if it has not erased exactly one. *)
Deregister(t, c) ==
  /\ thread[t] = "run" /\ ~mutex /\ ~terminate
  /\ handle[c] # 0
  /\ updated_operators' = TRUE
  /\ operators' = {o \in operators : o[1] # handle[c]}
  /\ thread' = [thread EXCEPT ![t] = IF operators' = operators THEN "threw" ELSE "run"]
  /\ handle' = [handle EXCEPT ![c] = 0]
  /\ UNCHANGED <<mutex, current_handle, terminate, local, busy>>

(* ~RoundRobinDedicatedThread, when no other thread uses the engine. *)
Destroy(t) ==
  /\ ~mutex /\ ~terminate
  /\ \A u \in Threads : thread[u] = "run"
  /\ terminate' = TRUE
  /\ thread' = [thread EXCEPT ![t] = "notify_exit"]
  /\ UNCHANGED <<mutex, operators, updated_operators, current_handle, local, busy, handle>>

(* Faulty variant: the engine is not notified. *)
DestroyNotify_Forgotten(t) ==
  /\ thread[t] = "notify_exit"
  /\ thread' = [thread EXCEPT ![t] = "join"]
  /\ UNCHANGED <<mutex, shared, local, busy, handle>>

DestroyNotify(t) ==
  /\ thread[t] = "notify_exit"
  /\ notify_one
  /\ thread' = [thread EXCEPT ![t] = "join"]
  /\ UNCHANGED <<mutex, shared, current_operators, untriggered, busy, handle>>

DestroyJoin(t) ==
  /\ thread[t] = "join" /\ engine = "exit"
  /\ thread' = [thread EXCEPT ![t] = "joined"]
  /\ UNCHANGED <<mutex, shared, local, busy, handle>>

(* What a thread does on its own once it has begun a call. *)
Continue(t) ==
  RegisterNotify(t) \/ RegisterReturn(t) \/ DestroyNotify(t) \/ DestroyJoin(t)

User(t) ==
  \/ \E c \in Collectives : Register(t, c) \/ Deregister(t, c)
  \/ Destroy(t) \/ Continue(t)

Next == Engine \/ SpuriousWakeup \/ (\E t \in Threads : User(t))

(* Threads that can run do run; nobody has to register or destroy anything. *)
Fairness ==
  /\ WF_vars(Engine)
  /\ \A t \in Threads : WF_vars(Continue(t))

Spec == Init /\ [][Next]_vars /\ Fairness
-----------------------------------------------------------------------------
TypeOK ==
  /\ mutex \in BOOLEAN /\ updated_operators \in BOOLEAN /\ terminate \in BOOLEAN
  /\ operators \subseteq (Handles \X Collectives)
  /\ current_handle \in Handles
  /\ engine \in {"loop", "lock", "test", "block", "asleep", "copy", "pass",
                 "trigger", "exit"}
  /\ current_operators \subseteq Collectives /\ untriggered \subseteq Collectives
  /\ thread \in [Threads -> {"run", "notify", "return", "notify_exit", "join",
                             "joined", "threw"}]
  /\ busy \in [Threads -> Collectives \cup {None}]
  /\ handle \in [Collectives -> Handles]

(* The engine thread never sleeps while there is something to poll or the  *)
(* engine is to be destroyed, unless a notification is about to come.      *)
NoLostWakeup ==
  engine \in {"block", "asleep"} =>
    \/ operators = {} /\ ~terminate
    \/ \E t \in Threads : thread[t] \in {"notify", "notify_exit"}

(* The flag updated_operators tells the truth: as long as it is down, the  *)
(* engine thread polls exactly the registered collectives.                 *)
SnapshotCurrent == ~updated_operators => current_operators = Registered

(* deregister_collective never throws `Could not remove operator'. *)
NeverThrows == \A t \in Threads : thread[t] # "threw"
=============================================================================

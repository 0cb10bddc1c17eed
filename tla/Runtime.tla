------------------------------ MODULE Runtime ------------------------------
(***************************************************************************)
(* The life of the singleton gaspi::Runtime on one rank, around the        *)
(* progress engine that it owns: construction of its parts, the creation   *)
(* on first use of the segment pool, the engine and the global barrier,    *)
(* the collectives that user threads register meanwhile, and ~Runtime,     *)
(* with a last barrier and the destruction of the members.                 *)
(*                                                                         *)
(* ~Runtime runs at the end of main, when the threads have finished and    *)
(* have destroyed their collectives.  The context is always configured.    *)
(***************************************************************************)
EXTENDS ProgressEngine, Sequences, SequencesExt

VARIABLES
  configured,  \* which of "pool" and "engine" have a type other than None
  stage,       \* "construction", "up", "barrier", "members" or "terminated"
  main,        \* the thread that executes ~Runtime, or None
  alive,       \* the parts that exist
  creating,    \* creating[t]: the parts t has found missing, the innermost last
  overlapped,  \* parts that two threads have found missing before one created them
  lost         \* parts destroyed because a second one was assigned

life == <<stage, main, alive, creating, overlapped, lost>>
rvars == <<vars, configured, life>>

(* Faulty variant: the engine is declared before the pool. *)
Parts_EngineFirst ==
  <<"proc", "queue", "group", "segment", "passive", "engine", "pool", "context", "barrier">>

(* The bases and members, in the order of their declaration; the ones that *)
(* are created on first use.                                               *)
Parts ==
  <<"proc", "queue", "group", "segment", "passive", "pool", "context", "engine", "barrier">>

Lazy == {"pool", "engine", "barrier"}

(* Part number i is the first, or the last, of those in S. *)
IsFirst(i, S) == Parts[i] \in S /\ \A j \in DOMAIN Parts : Parts[j] \in S => i <= j
IsLast(i, S) == Parts[i] \in S /\ \A j \in DOMAIN Parts : Parts[j] \in S => j <= i

(* What a part uses from its construction to its destruction.  The barrier *)
(* holds buffers of the pool, a reference to the context, and its buffers  *)
(* are connected through passive, whose own buffers ask for global_rank(). *)
Uses(p) ==
  CASE p = "proc" -> {}
    [] p \in {"queue", "group", "segment", "pool", "context", "engine"} -> {"proc"}
    [] p = "passive" -> {"proc", "segment", "queue", "group"}
    [] p = "barrier" -> {"proc", "group", "passive", "pool", "context"}

RInit ==
  /\ Init
  /\ configured \in SUBSET {"pool", "engine"}
  /\ stage = "construction" /\ main = None
  /\ alive = {}
  /\ creating = [t \in Threads |-> <<>>]
  /\ overlapped = {} /\ lost = {}

Defined == lost = {}  \* no thread holds a reference to a part that is gone
-----------------------------------------------------------------------------
(* getRuntime: the threads wait until the static object is constructed. *)
Construct ==
  /\ stage = "construction"
  /\ LET missing == Range(Parts) \ (Lazy \cup alive)
     IN \E i \in DOMAIN Parts :
          /\ IsFirst(i, missing)
          /\ alive' = alive \cup {Parts[i]}
          /\ stage' = IF missing = {Parts[i]} THEN "up" ELSE stage
  /\ UNCHANGED <<vars, configured, main, creating, overlapped, lost>>

(* Who may use the runtime: all threads, and in the end main. *)
Running(t) ==
  /\ Defined
  /\ thread[t] = "run"
  /\ stage = "up" \/ (stage = "barrier" /\ main = t)

(* A thread in no call may begin any, ~Runtime begins barrier; while the   *)
(* barrier is constructed its buffers are taken from the pool.             *)
MayNeed(t, p) ==
  \/ creating[t] = <<>> /\ (stage = "barrier" => p = "barrier")
  \/ creating[t] = <<"barrier">> /\ p = "pool"

(* Faulty variant: the part is created whether there is one or not. *)
FindMissing_Always(t, p) ==
  /\ Running(t)
  /\ p \in Lazy
  /\ MayNeed(t, p)
  /\ creating' = [creating EXCEPT ![t] = Append(@, p)]
  /\ overlapped' = IF \E u \in Threads \ {t} : Contains(creating[u], p)
                   THEN overlapped \cup {p} ELSE overlapped
  /\ UNCHANGED <<vars, configured, stage, main, alive, lost>>

(* if (!_psegment_pool) in getFreeSegment, if (!_pengine) in               *)
(* getDefaultProgressEngine, if (!_pglobal_barrier) in barrier.  Once      *)
(* there is a part the calls return it.                                    *)
FindMissing(t, p) ==
  /\ Running(t)
  /\ p \in Lazy \ alive
  /\ MayNeed(t, p)
  /\ creating' = [creating EXCEPT ![t] = Append(@, p)]
  /\ overlapped' = IF \E u \in Threads \ {t} : Contains(creating[u], p)
                   THEN overlapped \cup {p} ELSE overlapped
  /\ UNCHANGED <<vars, configured, stage, main, alive, lost>>

(* The new part is assigned to the unique_ptr, which destroys one that is  *)
(* there: the thread that created it may be using it.                      *)
Assign(t, p) ==
  /\ Running(t) /\ creating[t] # <<>> /\ Last(creating[t]) = p
  /\ alive' = alive \cup {p}
  /\ lost' = IF p \in alive THEN {p} ELSE {}
  /\ creating' = [creating EXCEPT ![t] = Front(@)]
  /\ UNCHANGED <<vars, configured, stage, main, overlapped>>

(* get_segment_pool and get_progress_engine return a part of their type.   *)
CreateConfigured(t) == \E p \in configured : Assign(t, p)

(* make_unique<Barrier>, which takes buffers from the pool. *)
CreateBarrier(t) == "pool" \in alive /\ Assign(t, "barrier")

Create(t) == CreateConfigured(t) \/ CreateBarrier(t)

(* The exception of a part that is not configured leaves all the calls. *)
Throw(t) ==
  /\ Running(t) /\ creating[t] # <<>>
  /\ Last(creating[t]) \in {"pool", "engine"} \ configured
  /\ creating' = [creating EXCEPT ![t] = <<>>]
  /\ stage' = IF main = t THEN "terminated" ELSE stage
  /\ UNCHANGED <<vars, configured, main, alive, overlapped, lost>>
-----------------------------------------------------------------------------
(* Collectives: their constructors get the engine and the buffers from the *)
(* runtime and register them, their destructors deregister.                *)
ConstructCollective(t, c) ==
  /\ Running(t) /\ stage = "up" /\ creating[t] = <<>>
  /\ {"pool", "engine"} \subseteq alive
  /\ Register(t, c)
  /\ UNCHANGED <<configured, life>>

DestroyCollective(t, c) ==
  /\ Running(t) /\ stage = "up" /\ creating[t] = <<>>
  /\ Deregister(t, c)
  /\ UNCHANGED <<configured, life>>

FinishRegistration(t) ==
  /\ Defined
  /\ RegisterNotify(t) \/ RegisterReturn(t)
  /\ UNCHANGED <<configured, life>>

(* The engine thread exists as long as the engine. *)
EngineThread ==
  /\ Defined /\ "engine" \in alive
  /\ Engine
  /\ UNCHANGED <<configured, life>>

EngineSpuriousWakeup ==
  /\ Defined /\ "engine" \in alive
  /\ SpuriousWakeup
  /\ UNCHANGED <<configured, life>>
-----------------------------------------------------------------------------
(* ~Runtime *)

Exit(t) ==
  /\ Running(t) /\ stage = "up"
  /\ \A u \in Threads : thread[u] = "run" /\ creating[u] = <<>>
  /\ \A c \in Collectives : handle[c] = 0
  /\ stage' = "barrier" /\ main' = t
  /\ UNCHANGED <<vars, configured, alive, creating, overlapped, lost>>

(* barrier(), which may have to create the barrier, and even the pool. *)
ExitBarrier(t) ==
  /\ Running(t) /\ stage = "barrier" /\ creating[t] = <<>>
  /\ "barrier" \in alive
  /\ stage' = "members"
  /\ UNCHANGED <<vars, configured, main, alive, creating, overlapped, lost>>

(* The members and bases are destroyed in the opposite order.  That of the *)
(* engine takes several steps.                                             *)
Next_ToDestroy(p) ==
  stage = "members" /\ \E i \in DOMAIN Parts : IsLast(i, alive) /\ p = Parts[i]

DestroyPart(t) ==
  /\ main = t
  /\ \E p \in alive \ {"engine"} : Next_ToDestroy(p) /\ alive' = alive \ {p}
  /\ UNCHANGED <<vars, configured, stage, main, creating, overlapped, lost>>

DestroyEngine(t) ==
  /\ main = t /\ Next_ToDestroy("engine")
  /\ Destroy(t) \/ DestroyNotify(t)
  /\ UNCHANGED <<configured, life>>

EngineDestroyed(t) ==
  /\ main = t /\ Next_ToDestroy("engine")
  /\ DestroyJoin(t)
  /\ alive' = alive \ {"engine"}
  /\ UNCHANGED <<configured, stage, main, creating, overlapped, lost>>

ExitStep(t) ==
  \/ main = t /\ (\E p \in Lazy : FindMissing(t, p))
  \/ ExitBarrier(t) \/ DestroyPart(t) \/ DestroyEngine(t) \/ EngineDestroyed(t)

Proceed(t) == Create(t) \/ Throw(t) \/ FinishRegistration(t) \/ ExitStep(t)

RNext ==
  \/ Construct \/ EngineThread \/ EngineSpuriousWakeup
  \/ \E t \in Threads :
       \/ \E p \in Lazy : FindMissing(t, p)
       \/ \E c \in Collectives : ConstructCollective(t, c) \/ DestroyCollective(t, c)
       \/ Exit(t) \/ Proceed(t)

(* Threads that can run do run, and one that waits for operators_mutex in  *)
(* the destructor gets it if it is free again and again.                   *)
RFairness ==
  /\ WF_rvars(EngineThread)
  /\ \A t \in Threads : WF_rvars(Proceed(t)) /\ SF_rvars(DestroyEngine(t))

RSpec == RInit /\ [][RNext]_rvars /\ RFairness
-----------------------------------------------------------------------------
(* The collectives that the engine can reach: the registered ones, and     *)
(* those in the copy of its thread, which a collective may have left long  *)
(* ago if the engine has been asleep since.                                *)
Reachable ==
  IF "engine" \in alive
  THEN Registered \cup (IF engine = "exit" THEN {} ELSE current_operators)
  ELSE {}

(* Construction, creation on first use and destruction come in an order in *)
(* which no part outlives what it uses; and as long as the engine, or the  *)
(* application, has a collective, its buffers and queues exist.            *)
OutlivesUsers ==
  Defined =>
    /\ \A p \in alive : Uses(p) \subseteq alive
    /\ Reachable # {} => {"pool", "context"} \subseteq alive
    /\ (\E c \in Collectives : handle[c] # 0) => {"pool", "context", "engine"} \subseteq alive

(* A pool, engine or barrier is replaced, with whatever uses it, only if   *)
(* two threads have found it missing at the same time; it takes nothing    *)
(* more than making the first calls one after the other to prevent that.   *)
FirstUseSafe == lost \subseteq overlapped

(* A collective that stays registered is polled again and again, until the *)
(* engine is destroyed.                                                    *)
RegisteredPolled ==
  \A c \in Collectives :
    <>[](c \in Registered /\ ~terminate /\ Defined) => []<><<EngineTrigger(c)>>_vars

(* ~Runtime returns: the engine thread sees terminate_man_thread and can   *)
(* be joined.  If there is no segment pool its barrier cannot be built,    *)
(* and the exception in a destructor ends the program.                     *)
DestructorReturns ==
  stage = "barrier" ~>
    IF "pool" \in configured THEN alive = {} ELSE stage = "terminated"
=============================================================================

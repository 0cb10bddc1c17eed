---------------------------- MODULE RuntimeProofs ----------------------------
(***************************************************************************)
(* The theorems about ProgressEngine and Runtime, for every number of user *)
(* threads, collectives and registrations, and for every configuration.    *)
(***************************************************************************)
EXTENDS Runtime, SequenceTheorems, TLAPS

(* The engine thread has operators_mutex in its critical section; it goes  *)
(* to sleep on what it has tested under the mutex.                         *)
EngineInv ==
  /\ TypeOK
  /\ mutex <=> engine \in {"test", "block", "copy"}
  /\ engine = "block" => operators = {} /\ ~terminate
  /\ NoLostWakeup
  /\ SnapshotCurrent

(* The invariant holds for a new engine. *)
LEMMA EngineInit == Init => EngineInv
<1> SUFFICES ASSUME Init PROVE EngineInv
  OBVIOUS
<1>1. 0 \in Handles
  BY EngineAssumption DEF Handles
<1>2. handle \in [Collectives -> Handles] /\ busy \in [Threads -> Collectives \cup {None}]
  BY <1>1 DEF Init
<1>3. thread \in [Threads -> {"run", "notify", "return", "notify_exit", "join",
                             "joined", "threw"}]
  BY DEF Init
<1>4. TypeOK
  BY <1>1, <1>2, <1>3 DEF Init, TypeOK
<1> QED
  BY <1>4 DEF Init, EngineInv, NoLostWakeup, SnapshotCurrent, Registered

(* Every step of the engine thread and of the users preserves it. *)
LEMMA EngineStep == EngineInv /\ [Next]_vars => EngineInv'
<1> SUFFICES ASSUME EngineInv, [Next]_vars PROVE EngineInv'
  OBVIOUS
<1> USE EngineAssumption
    DEF EngineInv, TypeOK, NoLostWakeup, SnapshotCurrent, Registered, shared, local, Handles
<1>1. CASE EngineLoop
  BY <1>1 DEF EngineLoop
<1>2. CASE EngineLock
  BY <1>2 DEF EngineLock, At
<1>3. CASE EngineTest
  BY <1>3 DEF EngineTest
<1>4. CASE EngineBlock
  BY <1>4 DEF EngineBlock, At
<1>5. CASE EngineCopy
  <2>1. Registered \subseteq Collectives
    OBVIOUS
  <2>2. TypeOK'
    BY <1>5, <2>1 DEF EngineCopy, At
  <2>3. SnapshotCurrent'
    BY <1>5 DEF EngineCopy
  <2> QED
    BY <1>5, <2>2, <2>3 DEF EngineCopy, At
<1>6. CASE EngineStartPass
  BY <1>6 DEF EngineStartPass
<1>7. ASSUME NEW c \in Collectives, EngineTrigger(c) PROVE EngineInv'
  BY <1>7 DEF EngineTrigger
<1>8. CASE EngineEndPass
  BY <1>8 DEF EngineEndPass, At
<1>9. CASE SpuriousWakeup
  BY <1>9 DEF SpuriousWakeup, At
<1>10. ASSUME NEW t \in Threads, NEW c \in Collectives, Register(t, c) PROVE EngineInv'
  BY <1>10 DEF Register
<1>11. ASSUME NEW t \in Threads, NEW c \in Collectives, Deregister(t, c) PROVE EngineInv'
  BY <1>11 DEF Deregister
<1>12. ASSUME NEW t \in Threads, RegisterNotify(t) PROVE EngineInv'
  BY <1>12 DEF RegisterNotify, notify_one
<1>13. ASSUME NEW t \in Threads, RegisterReturn(t) PROVE EngineInv'
  BY <1>13 DEF RegisterReturn
<1>14. ASSUME NEW t \in Threads, Destroy(t) PROVE EngineInv'
  BY <1>14 DEF Destroy
<1>15. ASSUME NEW t \in Threads, DestroyNotify(t) PROVE EngineInv'
  BY <1>15 DEF DestroyNotify, notify_one
<1>16. ASSUME NEW t \in Threads, DestroyJoin(t) PROVE EngineInv'
  BY <1>16 DEF DestroyJoin
<1>17. CASE UNCHANGED vars
  BY <1>17 DEF vars
<1> QED
  BY <1>1, <1>2, <1>3, <1>4, <1>5, <1>6, <1>7, <1>8, <1>9, <1>10, <1>11, <1>12,
     <1>13, <1>14, <1>15, <1>16, <1>17
     DEF Next, Engine, User, Continue
-----------------------------------------------------------------------------
(* The parts that the constructor creates, and the calls that a thread can *)
(* be in: only the construction of the barrier has one inside.             *)
Eager == {"proc", "queue", "group", "segment", "passive", "context"}
Chains == {<<>>, <<"pool">>, <<"engine">>, <<"barrier">>, <<"barrier", "pool">>}

LifeTypeOK ==
  /\ configured \subseteq {"pool", "engine"}
  /\ stage \in {"construction", "up", "barrier", "members", "terminated"}
  /\ main \in Threads \cup {None}
  /\ alive \subseteq Eager \cup Lazy
  /\ creating \in [Threads -> Chains]

(* What the stage says about the parts and about main. *)
StageInv ==
  /\ stage \in {"construction", "up"} => main = None
  /\ stage \in {"up", "barrier"} => Eager \subseteq alive

(* Nothing is alive without what it uses. *)
Closed == \A p \in alive : Uses(p) \subseteq alive

(* Collectives are registered by threads that run, with all they need; the *)
(* engine keeps references to them until it is destroyed.                  *)
CollectiveInv ==
  /\ (\E t \in Threads : thread[t] \in {"notify", "return"}) =>
       stage = "up" /\ {"pool", "context", "engine"} \subseteq alive
  /\ (\E c \in Collectives : handle[c] # 0) =>
       stage = "up" /\ {"pool", "context", "engine"} \subseteq alive
  /\ operators # {} \/ current_operators # {} =>
       \/ {"pool", "context"} \subseteq alive
       \/ stage = "members" /\ "engine" \notin alive

(* Two threads that create the same part, or one that creates a part that  *)
(* has come into being meanwhile, have overlapped.                         *)
Overlaps ==
  /\ \A t, u \in Threads : \A p \in Lazy :
       t # u /\ Contains(creating[t], p) /\ Contains(creating[u], p) => p \in overlapped
  /\ \A t \in Threads : \A p \in Lazy :
       Contains(creating[t], p) /\ p \in alive => p \in overlapped
  /\ FirstUseSafe

RInv ==
  EngineInv /\ LifeTypeOK /\ StageInv /\ Closed /\ CollectiveInv /\ Overlaps

(* The parts by their number. *)
LEMMA PartsInOrder ==
  /\ DOMAIN Parts = 1 .. 9
  /\ Range(Parts) = Eager \cup Lazy
  /\ \A i, j \in DOMAIN Parts : Parts[j] \in Uses(Parts[i]) => j < i
  /\ \A i \in DOMAIN Parts : Parts[i] \in Eager => Uses(Parts[i]) \subseteq Eager
  /\ \A i \in DOMAIN Parts : Parts[i] \in {"pool", "context"} => i < 8
  /\ Parts[8] = "engine"
<1>1. /\ DOMAIN Parts = 1 .. 9
      /\ Parts[1] = "proc" /\ Parts[2] = "queue" /\ Parts[3] = "group"
      /\ Parts[4] = "segment" /\ Parts[5] = "passive" /\ Parts[6] = "pool"
      /\ Parts[7] = "context" /\ Parts[8] = "engine" /\ Parts[9] = "barrier"
  BY DEF Parts
<1>2. \A i \in 1 .. 9 : i \in {1, 2, 3, 4, 5, 6, 7, 8, 9}
  OBVIOUS
<1>3. Range(Parts) = Eager \cup Lazy
  BY <1>1, <1>2 DEF Range, Eager, Lazy
<1>4. \A i, j \in DOMAIN Parts : Parts[j] \in Uses(Parts[i]) => j < i
  BY <1>1, <1>2 DEF Uses
<1>5. \A i \in DOMAIN Parts : Parts[i] \in Eager => Uses(Parts[i]) \subseteq Eager
  BY <1>1, <1>2 DEF Uses, Eager
<1>6. \A i \in DOMAIN Parts : Parts[i] \in {"pool", "context"} => i < 8
  BY <1>1, <1>2
<1> QED
  BY <1>1, <1>3, <1>4, <1>5, <1>6

(* What is appended to and taken from the calls of a thread. *)
LEMMA ChainFacts ==
  /\ \A p : ~Contains(<<>>, p)
  /\ \A p \in Lazy : Append(<<>>, p) \in Chains /\ \A q : Contains(Append(<<>>, p), q) <=> q = p
  /\ Append(<<"barrier">>, "pool") \in Chains
  /\ \A q : Contains(Append(<<"barrier">>, "pool"), q) <=>
              Contains(<<"barrier">>, q) \/ q = "pool"
  /\ \A s \in Chains \ {<<>>} :
       /\ Front(s) \in Chains /\ Last(s) \in Lazy
       /\ Contains(s, Last(s)) /\ ~Contains(Front(s), Last(s))
       /\ \A p : Contains(Front(s), p) => Contains(s, p)
<1>1. \A p : ~Contains(<<>>, p)
  BY DEF Contains
<1>2. \A p, q : Contains(<<p>>, q) <=> q = p
  BY DEF Contains
<1>3. \A p, q, x : Contains(<<p, q>>, x) <=> x = p \/ x = q
  BY DEF Contains
<1>4. \A p : Append(<<>>, p) = <<p>>
  OBVIOUS
<1>5. ASSUME NEW p, NEW q PROVE Append(<<p>>, q) = <<p, q>>
  <2> DEFINE S == {p, q}
             s == <<p>>
             u == <<p, q>>
  <2>1. s \in Seq(S) /\ Len(s) = 1 /\ s[1] = p /\ q \in S
    OBVIOUS
  <2>2. u \in Seq(S) /\ Len(u) = 2 /\ u[1] = p /\ u[2] = q
    OBVIOUS
  <2> HIDE DEF s, u, S
  <2>3. /\ Append(s, q) \in Seq(S) /\ Len(Append(s, q)) = Len(s) + 1
        /\ \A i \in 1 .. Len(s) : Append(s, q)[i] = s[i]
        /\ Append(s, q)[Len(s) + 1] = q
    <3>1. ASSUME NEW T, NEW x \in Seq(T), NEW y \in T
          PROVE  /\ Append(x, y) \in Seq(T) /\ Len(Append(x, y)) = Len(x) + 1
                 /\ \A i \in 1 .. Len(x) : Append(x, y)[i] = x[i]
                 /\ Append(x, y)[Len(x) + 1] = y
      OBVIOUS
    <3> QED
      BY <2>1, <3>1
  <2>4. Len(Append(s, q)) = 2 /\ \A i \in 1 .. 2 : Append(s, q)[i] = u[i]
    BY <2>1, <2>2, <2>3
  <2>5. Append(s, q) = u
    BY <2>2, <2>3, <2>4, SeqEqual
  <2> QED
    BY <2>5 DEF s, u
<1>6. \A p : Front(<<p>>) = <<>> /\ Last(<<p>>) = p
  BY DEF Front, Last
<1>7. ASSUME NEW p, NEW q PROVE Front(<<p, q>>) = <<p>> /\ Last(<<p, q>>) = q
  <2> DEFINE S == {p, q}
             s == <<p, q>>
             u == <<p>>
  <2>1. Len(s) = 2 /\ (\A i \in 1 .. 1 : s[i] \in S) /\ s[1] = p /\ s[2] = q
    OBVIOUS
  <2>2. u \in Seq(S) /\ Len(u) = 1 /\ u[1] = p
    OBVIOUS
  <2> HIDE DEF s, u, S
  <2>3. /\ SubSeq(s, 1, 1) \in Seq(S) /\ Len(SubSeq(s, 1, 1)) = 1
        /\ \A i \in 1 .. 1 : SubSeq(s, 1, 1)[i] = s[1 + i - 1]
    BY <2>1, SubSeqProperties
  <2>4. \A i \in 1 .. 1 : SubSeq(s, 1, 1)[i] = u[i]
    BY <2>1, <2>2, <2>3
  <2>5. SubSeq(s, 1, 1) = u
    BY <2>2, <2>3, <2>4, SeqEqual
  <2>6. Front(s) = u /\ Last(s) = q
    BY <2>1, <2>5 DEF Front, Last
  <2> QED
    BY <2>6 DEF s, u
<1>8. ASSUME NEW s \in Chains \ {<<>>}
      PROVE  /\ Front(s) \in Chains /\ Last(s) \in Lazy
             /\ Contains(s, Last(s)) /\ ~Contains(Front(s), Last(s))
             /\ \A p : Contains(Front(s), p) => Contains(s, p)
  <2>1. CASE s = <<"barrier", "pool">>
    BY <1>1, <1>2, <1>3, <1>7, <2>1 DEF Chains, Lazy
  <2>2. ASSUME NEW p \in Lazy, s = <<p>>
        PROVE  /\ Front(s) \in Chains /\ Last(s) \in Lazy
               /\ Contains(s, Last(s)) /\ ~Contains(Front(s), Last(s))
               /\ \A q : Contains(Front(s), q) => Contains(s, q)
    BY <1>1, <1>2, <1>6, <2>2 DEF Chains
  <2> QED
    BY <2>1, <2>2 DEF Chains, Lazy
<1>9. \A p \in Lazy : <<p>> \in Chains
  BY DEF Chains, Lazy
<1>10. <<"barrier", "pool">> \in Chains
  BY DEF Chains
<1>11. Append(<<"barrier">>, "pool") = <<"barrier", "pool">>
  BY <1>5
<1>12. \A q : Contains(Append(<<"barrier">>, "pool"), q) <=>
              Contains(<<"barrier">>, q) \/ q = "pool"
  <2>1. \A q : Contains(<<"barrier", "pool">>, q) <=> q = "barrier" \/ q = "pool"
    BY <1>3
  <2>2. \A q : Contains(<<"barrier">>, q) <=> q = "barrier"
    BY <1>2
  <2> QED
    BY <1>11, <2>1, <2>2
<1>13. \A p \in Lazy : Append(<<>>, p) \in Chains
  BY <1>4, <1>9
<1>14. ASSUME NEW p, NEW q PROVE Contains(Append(<<>>, p), q) <=> q = p
  <2>1. Append(<<>>, p) = <<p>>
    BY <1>4
  <2> QED
    BY <1>2, <2>1
<1> QED
  BY <1>1, <1>8, <1>10, <1>11, <1>12, <1>13, <1>14
-----------------------------------------------------------------------------
(* The runtime uses the engine only as ProgressEngine allows. *)
LEMMA RuntimeUsesEngine == [RNext]_rvars => [Next]_vars
<1> SUFFICES ASSUME [RNext]_rvars PROVE [Next]_vars
  OBVIOUS
<1>1. CASE Construct
  BY <1>1 DEF Construct
<1>2. CASE EngineThread \/ EngineSpuriousWakeup
  BY <1>2 DEF EngineThread, EngineSpuriousWakeup, Next
<1>3. ASSUME NEW t \in Threads, NEW p \in Lazy, FindMissing(t, p) PROVE [Next]_vars
  BY <1>3 DEF FindMissing
<1>4. ASSUME NEW t \in Threads, NEW c \in Collectives,
             ConstructCollective(t, c) \/ DestroyCollective(t, c)
      PROVE  [Next]_vars
  BY <1>4 DEF ConstructCollective, DestroyCollective, Next, User
<1>5. ASSUME NEW t \in Threads, Exit(t) \/ Create(t) \/ Throw(t) PROVE [Next]_vars
  BY <1>5 DEF Exit, Create, CreateConfigured, CreateBarrier, Assign, Throw
<1>6. ASSUME NEW t \in Threads, FinishRegistration(t) PROVE [Next]_vars
  BY <1>6 DEF FinishRegistration, Next, User, Continue
<1>7. ASSUME NEW t \in Threads, ExitStep(t) PROVE [Next]_vars
  BY <1>7 DEF ExitStep, FindMissing, ExitBarrier, DestroyPart, DestroyEngine,
              EngineDestroyed, Next, User, Continue
<1>8. CASE UNCHANGED rvars
  BY <1>8 DEF rvars
<1> QED
  BY <1>1, <1>2, <1>3, <1>4, <1>5, <1>6, <1>7, <1>8 DEF RNext, Proceed

(* The invariant holds before the runtime is constructed. *)
LEMMA RuntimeInit == RInit => RInv
<1> SUFFICES ASSUME RInit PROVE RInv
  OBVIOUS
<1>1. EngineInv
  BY EngineInit DEF RInit
<1>2. creating \in [Threads -> Chains] /\ \A t \in Threads : creating[t] = <<>>
  BY DEF RInit, Chains
<1>3. Overlaps
  BY <1>2, ChainFacts DEF RInit, Overlaps, FirstUseSafe
<1>4. CollectiveInv
  BY DEF RInit, Init, CollectiveInv
<1> QED
  BY <1>1, <1>2, <1>3, <1>4 DEF RInit, RInv, LifeTypeOK, StageInv, Closed

(* A step that leaves the life of the runtime alone keeps what is said of  *)
(* it.                                                                     *)
LEMMA LifeKept ==
  ASSUME RInv, UNCHANGED <<configured, life>>
  PROVE  LifeTypeOK' /\ StageInv' /\ Closed' /\ Overlaps'
BY DEF RInv, life, LifeTypeOK, StageInv, Closed, Overlaps, FirstUseSafe

(* Construction creates the parts in their order. *)
LEMMA ConstructStep ==
  ASSUME RInv, Construct
  PROVE  LifeTypeOK' /\ StageInv' /\ Closed' /\ CollectiveInv' /\ Overlaps'
<1> USE DEF RInv
<1> DEFINE missing == Range(Parts) \ (Lazy \cup alive)
<1>1. PICK i \in DOMAIN Parts :
        /\ IsFirst(i, missing)
        /\ alive' = alive \cup {Parts[i]}
        /\ stage' = IF missing = {Parts[i]} THEN "up" ELSE stage
  BY DEF Construct
<1>2. /\ stage = "construction"
      /\ UNCHANGED <<vars, configured, main, creating, overlapped, lost>>
  BY DEF Construct
<1>3. missing = Eager \ alive /\ Parts[i] \in Eager /\ Parts[i] \notin alive
  BY <1>1, PartsInOrder DEF IsFirst, Eager, Lazy
<1>4. Uses(Parts[i]) \subseteq alive
  <2> SUFFICES ASSUME NEW p \in Uses(Parts[i]), p \notin alive PROVE FALSE
    OBVIOUS
  <2>1. p \in missing
    BY <1>1, <1>3, PartsInOrder
  <2>2. PICK j \in DOMAIN Parts : Parts[j] = p
    BY <2>1 DEF Range
  <2>3. j < i /\ i <= j
    BY <1>1, <2>1, <2>2, PartsInOrder DEF IsFirst
  <2> QED
    BY <2>3, PartsInOrder
<1> HIDE DEF missing
<1>5. LifeTypeOK'
  BY <1>1, <1>2, <1>3 DEF LifeTypeOK
<1>6. StageInv'
  BY <1>1, <1>2, <1>3 DEF StageInv
<1>7. Closed'
  BY <1>1, <1>4 DEF Closed
<1>8. CollectiveInv'
  BY <1>1, <1>2 DEF CollectiveInv, vars, shared, local
<1>9. Overlaps'
  <2>1. Parts[i] \notin Lazy
    BY <1>3 DEF Eager, Lazy
  <2> QED
    BY <1>1, <1>2, <2>1 DEF Overlaps, FirstUseSafe
<1> QED
  BY <1>5, <1>6, <1>7, <1>8, <1>9

(* A thread finds a part missing. *)
LEMMA FindMissingStep ==
  ASSUME RInv, NEW t \in Threads, NEW p \in Lazy, FindMissing(t, p)
  PROVE  LifeTypeOK' /\ StageInv' /\ Closed' /\ CollectiveInv' /\ Overlaps'
<1> USE DEF RInv
<1>1. /\ p \notin alive /\ MayNeed(t, p)
      /\ creating' = [creating EXCEPT ![t] = Append(creating[t], p)]
      /\ overlapped' = IF \E u \in Threads \ {t} : Contains(creating[u], p)
                       THEN overlapped \cup {p} ELSE overlapped
      /\ UNCHANGED <<vars, configured, stage, main, alive, lost>>
  BY DEF FindMissing
<1>2. /\ Append(creating[t], p) \in Chains
      /\ \A q : Contains(Append(creating[t], p), q) <=> Contains(creating[t], q) \/ q = p
  <2>1. CASE creating[t] = <<>>
    BY <2>1, ChainFacts
  <2>2. CASE creating[t] = <<"barrier">> /\ p = "pool"
    BY <2>2, ChainFacts
  <2> QED
    BY <1>1, <2>1, <2>2 DEF MayNeed
<1>3. /\ creating' \in [Threads -> Chains]
      /\ \A u \in Threads, q \in Lazy :
           Contains(creating'[u], q) <=> Contains(creating[u], q) \/ (u = t /\ q = p)
  BY <1>1, <1>2 DEF LifeTypeOK
<1>4. LifeTypeOK' /\ StageInv' /\ Closed' /\ CollectiveInv'
  BY <1>1, <1>3 DEF LifeTypeOK, StageInv, Closed, CollectiveInv, vars, shared, local
<1>5. Overlaps'
  BY <1>1, <1>3 DEF Overlaps, FirstUseSafe
<1> QED
  BY <1>4, <1>5

(* The part is created, in place of another that is destroyed if there is  *)
(* one already.                                                            *)
LEMMA CreateStep ==
  ASSUME RInv, NEW t \in Threads, Create(t)
  PROVE  LifeTypeOK' /\ StageInv' /\ Closed' /\ CollectiveInv' /\ Overlaps'
<1> USE DEF RInv
<1> DEFINE p == Last(creating[t])
<1>1. /\ creating[t] # <<>> /\ stage \in {"up", "barrier"}
      /\ p = "barrier" => "pool" \in alive
      /\ alive' = alive \cup {p}
      /\ lost' = IF p \in alive THEN {p} ELSE {}
      /\ creating' = [creating EXCEPT ![t] = Front(creating[t])]
      /\ UNCHANGED <<vars, configured, stage, main, overlapped>>
  <2>1. CASE CreateConfigured(t)
    <3>1. configured \subseteq {"pool", "engine"}
      BY DEF LifeTypeOK
    <3> QED
      BY <2>1, <3>1 DEF CreateConfigured, Assign, Running
  <2>2. CASE CreateBarrier(t)
    BY <2>2 DEF CreateBarrier, Assign, Running
  <2> QED
    BY <2>1, <2>2 DEF Create
<1>2. /\ p \in Lazy /\ Front(creating[t]) \in Chains
      /\ Contains(creating[t], p) /\ ~Contains(Front(creating[t]), p)
      /\ \A q : Contains(Front(creating[t]), q) => Contains(creating[t], q)
  BY <1>1, ChainFacts DEF LifeTypeOK
<1> HIDE DEF p
<1>3. /\ creating' \in [Threads -> Chains] /\ ~Contains(creating'[t], p)
      /\ \A u \in Threads, q \in Lazy : Contains(creating'[u], q) => Contains(creating[u], q)
  BY <1>1, <1>2 DEF LifeTypeOK
<1>4. Uses(p) \subseteq alive
  BY <1>1, <1>2 DEF StageInv, Uses, Lazy, Eager
<1>5. LifeTypeOK' /\ StageInv' /\ Closed'
  BY <1>1, <1>2, <1>3, <1>4 DEF LifeTypeOK, StageInv, Closed
<1>6. CollectiveInv'
  BY <1>1 DEF CollectiveInv, vars, shared, local
<1>7. Overlaps'
  BY <1>1, <1>2, <1>3 DEF Overlaps, FirstUseSafe
<1> QED
  BY <1>5, <1>6, <1>7

(* An exception leaves all calls, and ends the program in ~Runtime. *)
LEMMA ThrowStep ==
  ASSUME RInv, NEW t \in Threads, Throw(t)
  PROVE  LifeTypeOK' /\ StageInv' /\ Closed' /\ CollectiveInv' /\ Overlaps'
<1> USE DEF RInv
<1>1. /\ creating' = [creating EXCEPT ![t] = <<>>]
      /\ stage' = IF main = t THEN "terminated" ELSE stage
      /\ UNCHANGED <<vars, configured, main, alive, overlapped, lost>>
      /\ main = t => stage = "barrier"
  BY EngineAssumption DEF Throw, Running, StageInv
<1>2. /\ creating' \in [Threads -> Chains]
      /\ \A u \in Threads, q \in Lazy : Contains(creating'[u], q) => Contains(creating[u], q)
  BY <1>1, ChainFacts DEF LifeTypeOK, Chains
<1>3. LifeTypeOK' /\ StageInv' /\ Closed'
  BY <1>1, <1>2 DEF LifeTypeOK, StageInv, Closed
<1>4. CollectiveInv'
  BY <1>1 DEF CollectiveInv, vars, shared, local
<1>5. Overlaps'
  BY <1>1, <1>2 DEF Overlaps, FirstUseSafe
<1> QED
  BY <1>3, <1>4, <1>5

(* ~Runtime begins, and passes its barrier. *)
LEMMA ExitStageStep ==
  ASSUME RInv, NEW t \in Threads, Exit(t) \/ ExitBarrier(t)
  PROVE  LifeTypeOK' /\ StageInv' /\ Closed' /\ CollectiveInv' /\ Overlaps'
<1> USE DEF RInv
<1>1. UNCHANGED <<vars, configured, alive, creating, overlapped, lost>>
  BY DEF Exit, ExitBarrier
<1>2. Closed' /\ Overlaps'
  BY <1>1 DEF Closed, Overlaps, FirstUseSafe
<1>3. CASE Exit(t)
  BY <1>1, <1>2, <1>3
     DEF Exit, Running, LifeTypeOK, StageInv, CollectiveInv, vars, shared, local
<1>4. CASE ExitBarrier(t)
  BY <1>1, <1>2, <1>4
     DEF ExitBarrier, LifeTypeOK, StageInv, CollectiveInv, vars, shared, local
<1> QED
  BY <1>3, <1>4

(* The part that is destroyed is used by none that is left. *)
LEMMA LastIsUnused ==
  ASSUME RInv, NEW p \in alive, Next_ToDestroy(p)
  PROVE  /\ \A q \in alive : p \notin Uses(q)
         /\ "engine" \in alive => p \notin {"pool", "context"}
<1>1. PICK i \in DOMAIN Parts : IsLast(i, alive) /\ p = Parts[i]
  BY DEF Next_ToDestroy
<1>2. ASSUME NEW q \in alive PROVE p \notin Uses(q)
  <2>1. PICK j \in DOMAIN Parts : q = Parts[j]
    BY PartsInOrder DEF RInv, LifeTypeOK, Range
  <2>2. j <= i
    BY <1>1, <2>1 DEF IsLast
  <2> QED
    BY <1>1, <2>1, <2>2, PartsInOrder
<1>3. "engine" \in alive => 8 <= i
  <2>1. 8 \in DOMAIN Parts
    BY PartsInOrder
  <2> QED
    BY <1>1, <2>1, PartsInOrder DEF IsLast
<1>4. "engine" \in alive => p \notin {"pool", "context"}
  BY <1>1, <1>3, PartsInOrder
<1> QED
  BY <1>2, <1>4

(* The members are destroyed, the engine before all that the collectives   *)
(* it may still poll are made of.                                          *)
LEMMA DestroyStep ==
  ASSUME RInv, NEW t \in Threads, DestroyPart(t) \/ EngineDestroyed(t)
  PROVE  LifeTypeOK' /\ StageInv' /\ Closed' /\ CollectiveInv' /\ Overlaps'
<1> USE DEF RInv
<1>1. PICK p \in alive : Next_ToDestroy(p) /\ alive' = alive \ {p}
  BY DEF DestroyPart, EngineDestroyed, Next_ToDestroy, IsLast
<1>2. /\ stage = "members"
      /\ UNCHANGED <<configured, stage, main, creating, overlapped, lost>>
      /\ UNCHANGED <<operators, current_operators, handle>>
  BY <1>1 DEF DestroyPart, EngineDestroyed, DestroyJoin, Next_ToDestroy, vars, shared, local
<1>3. \A u \in Threads : thread'[u] \in {"notify", "return"} => thread[u] \in {"notify", "return"}
  BY DEF DestroyPart, EngineDestroyed, DestroyJoin, vars, EngineInv, TypeOK
<1>4. LifeTypeOK' /\ StageInv' /\ Overlaps'
  BY <1>1, <1>2 DEF LifeTypeOK, StageInv, Overlaps, FirstUseSafe
<1>5. Closed'
  BY <1>1, LastIsUnused DEF Closed
<1>6. CollectiveInv'
  BY <1>1, <1>2, <1>3, LastIsUnused DEF CollectiveInv
<1> QED
  BY <1>4, <1>5, <1>6

(* The steps of the engine and of the users of collectives. *)
LEMMA CollectiveStep ==
  ASSUME RInv, UNCHANGED <<configured, life>>,
         \/ EngineThread \/ EngineSpuriousWakeup
         \/ \E t \in Threads :
              \/ \E c \in Collectives : ConstructCollective(t, c) \/ DestroyCollective(t, c)
              \/ FinishRegistration(t) \/ DestroyEngine(t)
  PROVE  CollectiveInv'
<1> USE DEF RInv, shared, local
<1>1. UNCHANGED <<stage, alive>>
  BY DEF life
<1>2. CASE EngineSpuriousWakeup
  BY <1>1, <1>2 DEF EngineSpuriousWakeup, SpuriousWakeup, CollectiveInv
<1>3. CASE EngineThread
  <2>1. UNCHANGED <<operators, thread, handle>>
    BY <1>3 DEF EngineThread, Engine, EngineLoop, EngineLock, EngineTest, EngineBlock,
                EngineCopy, EngineStartPass, EngineTrigger, EngineEndPass
  <2>2. current_operators' = current_operators \/ current_operators' = Registered
    BY <1>3 DEF EngineThread, Engine, EngineLoop, EngineLock, EngineTest, EngineBlock,
                EngineCopy, EngineStartPass, EngineTrigger, EngineEndPass
  <2>3. operators = {} => Registered = {}
    BY DEF Registered
  <2> QED
    BY <1>1, <2>1, <2>2, <2>3 DEF CollectiveInv
<1>4. ASSUME NEW t \in Threads, NEW c \in Collectives, ConstructCollective(t, c)
      PROVE  CollectiveInv'
  <2>1. stage = "up" /\ {"pool", "context", "engine"} \subseteq alive
    BY <1>4 DEF ConstructCollective, StageInv, Eager
  <2> QED
    BY <1>1, <2>1 DEF CollectiveInv
<1>5. ASSUME NEW t \in Threads, NEW c \in Collectives, DestroyCollective(t, c)
      PROVE  CollectiveInv'
  <2>1. stage = "up" /\ handle[c] # 0
    BY <1>5 DEF DestroyCollective, Deregister
  <2>2. {"pool", "context", "engine"} \subseteq alive
    BY <2>1 DEF CollectiveInv
  <2> QED
    BY <1>1, <2>1, <2>2 DEF CollectiveInv
<1>6. ASSUME NEW t \in Threads, FinishRegistration(t) PROVE CollectiveInv'
  <2>1. thread[t] \in {"notify", "return"}
    BY <1>6 DEF FinishRegistration, RegisterNotify, RegisterReturn
  <2>2. stage = "up" /\ {"pool", "context", "engine"} \subseteq alive
    BY <2>1 DEF CollectiveInv
  <2> QED
    BY <1>1, <2>2 DEF CollectiveInv
<1>7. ASSUME NEW t \in Threads, DestroyEngine(t) PROVE CollectiveInv'
  <2>1. UNCHANGED <<operators, current_operators, handle>>
    BY <1>7 DEF DestroyEngine, Destroy, DestroyNotify
  <2>2. \A u \in Threads : thread'[u] \in {"notify", "return"} => thread[u] \in {"notify", "return"}
    BY <1>7 DEF DestroyEngine, Destroy, DestroyNotify, EngineInv, TypeOK
  <2> QED
    BY <1>1, <2>1, <2>2 DEF CollectiveInv
<1> QED
  BY <1>2, <1>3, <1>4, <1>5, <1>6, <1>7

(* Every step of the runtime preserves the invariant. *)
LEMMA RuntimeStep == RInv /\ [RNext]_rvars => RInv'
<1> SUFFICES ASSUME RInv, [RNext]_rvars PROVE RInv'
  OBVIOUS
<1>1. EngineInv'
  BY RuntimeUsesEngine, EngineStep DEF RInv
<1> SUFFICES LifeTypeOK' /\ StageInv' /\ Closed' /\ CollectiveInv' /\ Overlaps'
  BY <1>1 DEF RInv
<1>2. CASE Construct
  BY <1>2, ConstructStep
<1>3. ASSUME NEW t \in Threads, NEW p \in Lazy, FindMissing(t, p)
      PROVE  LifeTypeOK' /\ StageInv' /\ Closed' /\ CollectiveInv' /\ Overlaps'
  BY <1>3, FindMissingStep
<1>4. ASSUME NEW t \in Threads, Create(t) \/ Throw(t) \/ Exit(t) \/ ExitBarrier(t)
      PROVE  LifeTypeOK' /\ StageInv' /\ Closed' /\ CollectiveInv' /\ Overlaps'
  BY <1>4, CreateStep, ThrowStep, ExitStageStep
<1>5. ASSUME NEW t \in Threads, DestroyPart(t) \/ EngineDestroyed(t)
      PROVE  LifeTypeOK' /\ StageInv' /\ Closed' /\ CollectiveInv' /\ Overlaps'
  BY <1>5, DestroyStep
<1>6. CASE EngineThread \/ EngineSpuriousWakeup
  <2>1. UNCHANGED <<configured, life>>
    BY <1>6 DEF EngineThread, EngineSpuriousWakeup
  <2> QED
    BY <1>6, <2>1, CollectiveStep, LifeKept
<1>7. ASSUME NEW t \in Threads,
             \/ \E c \in Collectives : ConstructCollective(t, c) \/ DestroyCollective(t, c)
             \/ FinishRegistration(t) \/ DestroyEngine(t)
      PROVE  LifeTypeOK' /\ StageInv' /\ Closed' /\ CollectiveInv' /\ Overlaps'
  <2>1. UNCHANGED <<configured, life>>
    BY <1>7 DEF ConstructCollective, DestroyCollective, FinishRegistration, DestroyEngine
  <2> QED
    BY <1>7, <2>1, CollectiveStep, LifeKept
<1>8. CASE UNCHANGED rvars
  <2>1. UNCHANGED <<vars, configured, life>>
    BY <1>8 DEF rvars
  <2>2. CollectiveInv'
    BY <2>1 DEF RInv, CollectiveInv, vars, shared, local, life
  <2> QED
    BY <2>1, <2>2, LifeKept
<1> QED
  BY <1>2, <1>3, <1>4, <1>5, <1>6, <1>7, <1>8 DEF RNext, Proceed, ExitStep

(* The invariant holds in every reachable state of the runtime. *)
THEOREM Invariance == RSpec => []RInv
<1> QED
  BY RuntimeInit, RuntimeStep, PTL DEF RSpec

(* And that of the engine for whatever uses it as ProgressEngine allows. *)
THEOREM EngineInvariance == Spec => []EngineInv
<1> QED
  BY EngineInit, EngineStep, PTL DEF Spec

(* No value of the wrong type is ever stored by the engine thread, by      *)
(* register_collective, deregister_collective or the destructor.           *)
THEOREM TypeCorrect == RSpec => []TypeOK
<1>1. RInv => TypeOK
  BY DEF RInv, EngineInv
<1> QED
  BY <1>1, Invariance, PTL

(* generate_progress never waits on the condition variable past a          *)
(* registration or past the destructor, unless the notification is still   *)
(* to come: the test, the wait and the changes are under operators_mutex.  *)
THEOREM WakeupNeverLost == RSpec => []NoLostWakeup
<1>1. RInv => NoLostWakeup
  BY DEF RInv, EngineInv
<1> QED
  BY <1>1, Invariance, PTL

(* While updated_operators is false the engine's copy is the map of the    *)
(* registered collectives.                                                 *)
THEOREM SnapshotIsCurrent == RSpec => []SnapshotCurrent
<1>1. RInv => SnapshotCurrent
  BY DEF RInv, EngineInv
<1> QED
  BY <1>1, Invariance, PTL

(* The members of Runtime are declared, created on first use and destroyed *)
(* in an order in which nothing outlives what it uses, the collectives     *)
(* that the engine thread may still poll included.                         *)
THEOREM NothingOutlivesItsParts == RSpec => []OutlivesUsers
<1>1. RInv => OutlivesUsers
  <2> SUFFICES ASSUME RInv PROVE OutlivesUsers
    OBVIOUS
  <2>1. Reachable # {} => {"pool", "context"} \subseteq alive
    <3>1. operators = {} => Registered = {}
      BY DEF Registered
    <3> QED
      BY <3>1 DEF RInv, CollectiveInv, Reachable
  <2> QED
    BY <2>1 DEF RInv, OutlivesUsers, Closed, CollectiveInv
<1> QED
  BY <1>1, Invariance, PTL

(* The unprotected tests for a missing pool, engine or barrier lose one    *)
(* only if two first uses overlap.                                         *)
THEOREM FirstUsesOnly == RSpec => []FirstUseSafe
<1>1. RInv => FirstUseSafe
  BY DEF RInv, Overlaps
<1> QED
  BY <1>1, Invariance, PTL
=============================================================================

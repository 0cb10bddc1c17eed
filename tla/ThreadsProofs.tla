---------------------------- MODULE ThreadsProofs ----------------------------
(***************************************************************************)
(* The theorems about the threads of a rank: those that call and poll a    *)
(* collective (CollectiveThreads), for every number of user threads,       *)
(* pollers and executions; and the user and the passive thread that meet   *)
(* to hand over a message (Passive), for every number of ranks and every   *)
(* code of the users in which only recvMessg meets the passive thread.     *)
(***************************************************************************)
EXTENDS CollectiveThreads, Passive, SequenceTheorems, TLAPS

(* What a thread knows of the executions: it can only have completed one   *)
(* that is over, and waits in one that has begun.                          *)
ThreadInv(t) ==
  /\ completes[t] <= execution
  /\ _state = "RUNNING" => completes[t] # execution
  /\ since[t] <= execution
  /\ completes[t] # 0 => since[t] <= completes[t]
  /\ pc[t] \in {"idle", "test"} => t \in Users
  /\ pc[t] = "poll" => t \in Pollers

CallersInv ==
  /\ TypeOK
  /\ OneTrigger
  /\ _state = "READY" => execution < Executions
  /\ _state = "RUNNING" => work >= 1 /\ execution >= 1
  /\ \A t \in Callers : ThreadInv(t)
  /\ OneCompleter

(* The invariant holds after construction. *)
LEMMA CallersInvInit == Init => CallersInv
BY ThreadsAssumption
   DEF Init, CallersInv, TypeOK, OneTrigger, ThreadInv, OneCompleter, Callers

(* Every step preserves the invariant. *)
LEMMA CallersInvStep == CallersInv /\ [Next]_vars => CallersInv'
<1> SUFFICES ASSUME CallersInv, [Next]_vars PROVE CallersInv'
  OBVIOUS
<1> USE ThreadsAssumption DEF CallersInv, TypeOK, OneTrigger, ThreadInv, OneCompleter
<1>1. ASSUME NEW t \in Users, WaitForSetup(t) \/ CopyIn(t) \/ CopyOut(t) PROVE CallersInv'
  BY <1>1 DEF WaitForSetup, CopyIn, CopyOut, Call
<1>2. ASSUME NEW t \in Users, Start(t) PROVE CallersInv'
  BY <1>2 DEF Start, Call
<1>3. ASSUME NEW t \in Users, WaitForCompletion(t) PROVE CallersInv'
  BY <1>3 DEF WaitForCompletion, Goto, Callers
<1>4. ASSUME NEW t \in Callers, Test(t) PROVE CallersInv'
  BY <1>4 DEF Test, Goto
<1>5. ASSUME NEW t \in Callers, Poll(t) PROVE CallersInv'
  BY <1>5 DEF Poll, Goto
<1>6. ASSUME NEW t \in Callers, TryLock(t) PROVE CallersInv'
  BY <1>6 DEF TryLock, Goto, After, Callers
<1>7. ASSUME NEW t \in Callers, Trigger(t) PROVE CallersInv'
  BY <1>7 DEF Trigger, Goto, After, Callers
<1>8. ASSUME NEW t \in Callers, TriggerInVain(t) PROVE CallersInv'
  BY <1>8 DEF TriggerInVain, Goto, After, Callers
<1>9. CASE UNCHANGED vars
  BY <1>9 DEF vars
<1> QED
  BY <1>1, <1>2, <1>3, <1>4, <1>5, <1>6, <1>7, <1>8, <1>9
     DEF Next, User, triggerProgress

(* The inductive invariant holds in every reachable state. *)
THEOREM CallersInvariance == Spec => []CallersInv
BY CallersInvInit, CallersInvStep, PTL DEF Spec

(* triggerProgress: whatever threads of users and engines poll a           *)
(* collective, at most one is inside of triggerProgressImpl, and it holds  *)
(* _state_mutex.                                                           *)
THEOREM MutualExclusion == Spec => []OneTrigger
<1>1. CallersInv => OneTrigger
  BY DEF CallersInv
<1> QED
  BY <1>1, CallersInvariance, PTL

(* triggerProgress returns true to at most one thread per execution. *)
THEOREM SingleCompletion == Spec => []OneCompleter
<1>1. CallersInv => OneCompleter
  BY DEF CallersInv
<1> QED
  BY <1>1, CallersInvariance, PTL

(* waitForCompletion, which tests _state without the mutex, does not       *)
(* return while the execution runs in which it was called.                 *)
THEOREM WaitersWait == Spec => WaitsForCompletion
<1> DEFINE Waits(t) == pc[t] = "test" /\ pc'[t] = "idle" =>
                         execution > since[t] \/ _state # "RUNNING"
<1>1. ASSUME CallersInv, [Next]_vars, NEW t \in Users PROVE Waits(t)
  <2> USE <1>1, ThreadsAssumption DEF CallersInv, TypeOK, Callers
  <2> SUFFICES ASSUME pc[t] = "test", pc'[t] = "idle"
               PROVE  execution > since[t] \/ _state # "RUNNING"
    OBVIOUS
  <2>1. ASSUME NEW u \in Callers, User(u) PROVE pc'[t] = "test"
    BY <2>1 DEF User, WaitForSetup, CopyIn, Start, CopyOut, Call, WaitForCompletion, Goto
  <2>2. ASSUME NEW u \in Callers, Poll(u) \/ triggerProgress(u) PROVE pc'[t] = "test"
    BY <2>2 DEF Poll, triggerProgress, TryLock, Trigger, TriggerInVain, Goto, After
  <2>3. ASSUME NEW u \in Callers, Test(u) PROVE completes[t] # 0 \/ _state # "RUNNING"
    BY <2>3 DEF Test, Goto
  <2>4. completes[t] # 0 \/ _state # "RUNNING"
    BY <2>1, <2>2, <2>3 DEF Next, vars
  <2> QED
    BY <2>4 DEF ThreadInv
<1>2. CallersInv /\ [Next]_vars => [\A t \in Users : Waits(t)]_vars
  BY <1>1
<1> QED
  BY <1>2, CallersInvariance, PTL DEF Spec, WaitsForCompletion
-----------------------------------------------------------------------------
(* recvMessg is the only code of a user with the barrier and the copy:     *)
(* what follows each operation, and for a barrier also what it follows.    *)
(* second says that c begins with the second barrier of recvMessg.         *)
Follows(c, i, op) == i < Len(c) /\ c[i + 1].op = op
IsSecond(c, i, second) ==
  (i = 1 /\ second) \/ (i # 1 /\ c[i - 1].op = "copy")

Pending(c, second) ==
  /\ \E S : c \in Seq(S)
  /\ \A i \in 1 .. Len(c) :
       /\ c[i].op \notin {"publish", "woken"}
       /\ c[i].op = "copy" => Follows(c, i, "meet")
       /\ c[i].op = "meet" => (Follows(c, i, "copy") <=> ~IsSecond(c, i, second))
       /\ c[i].op \notin {"copy", "meet"} => ~Follows(c, i, "copy")
       /\ c[i].op = "send" => c[i].message.tag \in {"FNSH", "RTBD", "DATE"}

(* Where a user is: outside of recvMessg or before its first barrier, at   *)
(* the copy, at the second barrier, or about to return from the wait for   *)
(* the passive thread at one of the barriers.                              *)
Outside(c) == Pending(c, FALSE) /\ (c # <<>> => c[1].op # "copy")
AtCopy(c) == Pending(c, FALSE) /\ c # <<>> /\ c[1].op = "copy"
AtSecond(c) == Pending(c, TRUE) /\ c # <<>> /\ c[1].op = "meet"
InFirst(c) == \E d : AtCopy(d) /\ c = <<Woken>> \o d
InSecond(c) == \E d : Outside(d) /\ c = <<Woken>> \o d

(* What the code of a user is before it runs. *)
Program(c) == Outside(c)

(* The passive thread before the first barrier of a message. *)
IsWrite(c) == c.op = "write"
Other(c) == c.op \in {"exit", "rcvdesc", "write"}
Unpublished(p) ==
  \/ p = <<>>
  \/ \E c : Other(c) /\ p = <<c>>
  \/ \E c, d : IsWrite(c) /\ IsWrite(d) /\ p = <<c, d>>
  \/ \E c, s : IsWrite(c) /\ p = <<c, Publish(s), Meet, Meet>>
  \/ \E s : p = <<Publish(s), Meet, Meet>>

(* The threads of rank r, bool, who waits, and the message between them.   *)
Meeting(r, c, p, b, w, m) ==
  LET has == m # NoMessage
      nobody == ~b /\ w = {}
      userWaits == b /\ w = {user(r)}
      passiveWaits == b /\ w = {passive(r)}
  IN \/ /\ (Unpublished(p) /\ ~has) \/ (p = <<Meet, Meet>> /\ has)
        /\ \/ (Outside(c) \/ InSecond(c)) /\ nobody
           \/ InFirst(c) /\ userWaits
     \/ /\ p = <<Woken, Meet>> /\ has /\ passiveWaits
        /\ Outside(c) \/ InSecond(c)
     \/ p = <<Meet>> /\ has /\ nobody /\ InFirst(c)
     \/ /\ p \in {<<Woken, Meet>>, <<Meet>>} /\ nobody
        /\ (AtCopy(c) /\ has) \/ (AtSecond(c) /\ ~has)
     \/ p \in {<<Woken, Meet>>, <<Meet>>} /\ ~has /\ userWaits /\ InSecond(c)
     \/ /\ p = <<Woken>> /\ passiveWaits
        /\ ((InFirst(c) \/ AtCopy(c)) /\ has) \/ (AtSecond(c) /\ ~has)
     \/ /\ p = <<Woken>> /\ ~has
        /\ (Outside(c) /\ nobody) \/ (InFirst(c) /\ userWaits)

BarrierInv(r) ==
  Meeting(r, cont[user(r)], cont[passive(r)], bool[r], waiting[r], msg[r])

(* Only the messages that the passive thread knows are sent. *)
MessagesInv ==
  \A r, s \in Ranks :
    \E S : inbox[r][s] \in Seq(S) /\ \A m \in S : m.tag \in {"FNSH", "RTBD", "DATE"}

TypeInv ==
  /\ DOMAIN cont = Threads /\ bool \in [Ranks -> BOOLEAN]
  /\ DOMAIN waiting = Ranks /\ DOMAIN msg = Ranks
  /\ DOMAIN inbox = Ranks /\ \A r \in Ranks : DOMAIN inbox[r] = Ranks

PassiveInv == TypeInv /\ MessagesInv /\ \A r \in Ranks : BarrierInv(r)

(* Passive with such users. *)
PassiveSpec ==
  /\ PassiveInit /\ DOMAIN cont = Threads
  /\ \A r \in Ranks : Program(cont[user(r)]) /\ cont[passive(r)] = <<>>
  /\ [][PassiveNext]_passiveVars
-----------------------------------------------------------------------------
(* The first operation of a sequence and the rest. *)
LEMMA FirstAndRest ==
  ASSUME NEW S, NEW c \in Seq(S), c # <<>>
  PROVE  /\ Head(c) = c[1] /\ Tail(c) \in Seq(S)
         /\ Len(c) \in Nat \ {0} /\ Len(Tail(c)) = Len(c) - 1
         /\ \A i \in 1 .. Len(Tail(c)) : Tail(c)[i] = c[i + 1]
         /\ <<>> \o Tail(c) = Tail(c)
<1>1. Tail(c) \in Seq(S) /\ Len(Tail(c)) = Len(c) - 1
  BY HeadTailProperties
<1>2. \A i \in 1 .. Len(Tail(c)) : Tail(c)[i] = c[i + 1]
  BY HeadTailProperties
<1>3. Len(c) \in Nat \ {0}
  BY EmptySeq
<1>4. <<>> \o Tail(c) = Tail(c)
  BY <1>1, ConcatEmptySeq
<1> QED
  BY <1>1, <1>2, <1>3, <1>4

(* What comes before a sequence is its beginning. *)
LEMMA Joined ==
  ASSUME NEW S, NEW ops \in Seq(S), NEW T, NEW d \in Seq(T)
  PROVE  /\ ops \o d \in Seq(S \cup T)
         /\ Len(ops) \in Nat /\ Len(d) \in Nat
         /\ Len(ops \o d) = Len(ops) + Len(d)
         /\ \A i \in 1 .. Len(ops) + Len(d) :
              (ops \o d)[i] = IF i <= Len(ops) THEN ops[i] ELSE d[i - Len(ops)]
<1>1. ops \in Seq(S \cup T) /\ d \in Seq(S \cup T)
  BY SeqMonotonic
<1> QED
  BY <1>1, ConcatProperties, LenProperties

(* Returning from the wait leaves the code behind it. *)
LEMMA Awake ==
  ASSUME NEW T, NEW d \in Seq(T)
  PROVE  /\ <<Woken>> \o d # <<>> /\ Head(<<Woken>> \o d) = Woken
         /\ (<<Woken>> \o d)[1] = Woken
         /\ <<>> \o Tail(<<Woken>> \o d) = d
<1>1. <<Woken>> \in Seq({Woken})
  OBVIOUS
<1> DEFINE c == <<Woken>> \o d
           S == {Woken} \cup T
<1>2. /\ c \in Seq(S) /\ Len(c) = 1 + Len(d) /\ Len(d) \in Nat
      /\ \A i \in 1 .. 1 + Len(d) : c[i] = IF i <= 1 THEN Woken ELSE d[i - 1]
  BY <1>1, Joined
<1> HIDE DEF c
<1>3. c # <<>>
  BY <1>2
<1>4. /\ Head(c) = c[1] /\ Tail(c) \in Seq(S)
      /\ Len(Tail(c)) = Len(c) - 1
      /\ \A i \in 1 .. Len(Tail(c)) : Tail(c)[i] = c[i + 1]
      /\ <<>> \o Tail(c) = Tail(c)
  BY <1>2, <1>3, FirstAndRest
<1>5. c[1] = Woken
  BY <1>2
<1>6. Tail(c) = d
  <2>1. d \in Seq(S)
    BY SeqMonotonic
  <2>2. ASSUME NEW i \in 1 .. Len(d) PROVE Tail(c)[i] = d[i]
    BY <1>2, <1>4
  <2> QED
    BY <1>2, <1>4, <2>1, <2>2, SeqEqual
<1> QED
  BY <1>3, <1>4, <1>5, <1>6 DEF c

(* What follows the first operation of a user's code. *)
LEMMA PendingTail ==
  ASSUME NEW c, NEW second, Pending(c, second), c # <<>>
  PROVE  /\ Pending(Tail(c), c[1].op = "copy")
         /\ Head(c) = c[1] /\ <<>> \o Tail(c) = Tail(c)
         /\ \A op : Follows(c, 1, op) <=> Tail(c) # <<>> /\ Tail(c)[1].op = op
         /\ 1 \in 1 .. Len(c)
<1> PICK S : c \in Seq(S)
  BY DEF Pending
<1> DEFINE d == Tail(c)
<1>1. /\ Head(c) = c[1] /\ d \in Seq(S)
      /\ Len(c) \in Nat \ {0} /\ Len(d) = Len(c) - 1
      /\ \A i \in 1 .. Len(d) : d[i] = c[i + 1]
      /\ <<>> \o d = d
  BY FirstAndRest
<1> HIDE DEF d
<1>2. ASSUME NEW i \in 1 .. Len(d)
      PROVE  /\ i + 1 \in 1 .. Len(c) /\ d[i] = c[i + 1]
             /\ \A op : Follows(d, i, op) <=> Follows(c, i + 1, op)
             /\ IsSecond(d, i, c[1].op = "copy") <=> IsSecond(c, i + 1, second)
  <2>1. i + 1 \in 1 .. Len(c) /\ d[i] = c[i + 1] /\ i \in Nat
    BY <1>1
  <2>2. ASSUME NEW op PROVE Follows(d, i, op) <=> Follows(c, i + 1, op)
    <3>1. i < Len(d) <=> i + 1 < Len(c)
      BY <1>1
    <3>2. i < Len(d) => d[i + 1] = c[(i + 1) + 1]
      BY <1>1
    <3> QED
      BY <3>1, <3>2 DEF Follows
  <2>3. CASE i = 1
    BY <2>1, <2>2, <2>3 DEF IsSecond
  <2>4. CASE i # 1
    <3>1. i - 1 \in 1 .. Len(d) /\ (i - 1) + 1 = i /\ (i + 1) - 1 = i /\ i + 1 # 1
      BY <1>1, <2>4
    <3>2. d[i - 1] = c[i]
      BY <1>1, <3>1
    <3> QED
      BY <2>1, <2>2, <2>4, <3>1, <3>2 DEF IsSecond
  <2> QED
    BY <2>1, <2>2, <2>3, <2>4 DEF IsSecond
<1>3. Pending(d, c[1].op = "copy")
  <2>1. ASSUME NEW i \in 1 .. Len(d)
        PROVE  /\ d[i].op \notin {"publish", "woken"}
               /\ d[i].op = "copy" => Follows(d, i, "meet")
               /\ d[i].op = "meet" => (Follows(d, i, "copy") <=> ~IsSecond(d, i, c[1].op = "copy"))
               /\ d[i].op \notin {"copy", "meet"} => ~Follows(d, i, "copy")
               /\ d[i].op = "send" => d[i].message.tag \in {"FNSH", "RTBD", "DATE"}
    BY <1>2 DEF Pending
  <2> QED
    BY <1>1, <2>1 DEF Pending
<1>4. ASSUME NEW op PROVE Follows(c, 1, op) <=> d # <<>> /\ d[1].op = op
  <2>1. d # <<>> <=> Len(d) # 0
    BY <1>1, EmptySeq
  <2>2. 1 < Len(c) <=> Len(d) # 0
    BY <1>1
  <2>3. Len(d) # 0 => d[1] = c[1 + 1]
    BY <1>1
  <2> QED
    BY <2>1, <2>2, <2>3 DEF Follows
<1> QED
  BY <1>1, <1>3, <1>4 DEF d

(* How a user's code goes through recvMessg. *)
LEMMA Outside1 ==
  ASSUME NEW c, Outside(c), c # <<>>
  PROVE  /\ Head(c) = c[1] /\ c[1].op \notin {"publish", "woken", "copy"}
         /\ c[1].op = "send" => c[1].message.tag \in {"FNSH", "RTBD", "DATE"}
         /\ c[1].op = "meet" => AtCopy(Tail(c))
         /\ c[1].op # "meet" => Outside(Tail(c))
<1>1. Pending(c, FALSE)
  BY DEF Outside
<1>2. /\ Pending(Tail(c), c[1].op = "copy")
      /\ Head(c) = c[1]
      /\ \A op : Follows(c, 1, op) <=> Tail(c) # <<>> /\ Tail(c)[1].op = op
      /\ 1 \in 1 .. Len(c)
  BY <1>1, PendingTail
<1>3. c[1].op # "copy"
  BY DEF Outside
<1>4. Pending(Tail(c), FALSE)
  BY <1>2, <1>3
<1>5. /\ c[1].op \notin {"publish", "woken"}
      /\ c[1].op = "meet" => Follows(c, 1, "copy")
      /\ c[1].op # "meet" => ~Follows(c, 1, "copy")
      /\ c[1].op = "send" => c[1].message.tag \in {"FNSH", "RTBD", "DATE"}
  BY <1>1, <1>2, <1>3 DEF Pending, IsSecond
<1> QED
  BY <1>2, <1>3, <1>4, <1>5 DEF Outside, AtCopy

LEMMA AtCopy1 ==
  ASSUME NEW c, AtCopy(c)
  PROVE  /\ c # <<>> /\ Head(c) = c[1] /\ c[1].op = "copy"
         /\ AtSecond(Tail(c)) /\ <<>> \o Tail(c) = Tail(c)
<1>1. Pending(c, FALSE) /\ c # <<>> /\ c[1].op = "copy"
  BY DEF AtCopy
<1>2. /\ Pending(Tail(c), c[1].op = "copy")
      /\ Head(c) = c[1] /\ <<>> \o Tail(c) = Tail(c)
      /\ \A op : Follows(c, 1, op) <=> Tail(c) # <<>> /\ Tail(c)[1].op = op
      /\ 1 \in 1 .. Len(c)
  BY <1>1, PendingTail
<1>3. Pending(Tail(c), TRUE)
  BY <1>1, <1>2
<1>4. Follows(c, 1, "meet")
  BY <1>1, <1>2 DEF Pending
<1> QED
  BY <1>1, <1>2, <1>3, <1>4 DEF AtSecond

LEMMA AtSecond1 ==
  ASSUME NEW c, AtSecond(c)
  PROVE  /\ c # <<>> /\ Head(c) = c[1] /\ c[1].op = "meet"
         /\ Outside(Tail(c))
<1>1. Pending(c, TRUE) /\ c # <<>> /\ c[1].op = "meet"
  BY DEF AtSecond
<1>2. /\ Pending(Tail(c), c[1].op = "copy")
      /\ Head(c) = c[1]
      /\ \A op : Follows(c, 1, op) <=> Tail(c) # <<>> /\ Tail(c)[1].op = op
      /\ 1 \in 1 .. Len(c)
  BY <1>1, PendingTail
<1>3. Pending(Tail(c), FALSE)
  BY <1>1, <1>2
<1>4. ~Follows(c, 1, "copy")
  BY <1>1, <1>2 DEF Pending, IsSecond
<1> QED
  BY <1>1, <1>2, <1>3, <1>4 DEF Outside

(* One such code after the other. *)
LEMMA Compose ==
  ASSUME NEW e, Outside(e), NEW d, Outside(d)
  PROVE  Outside(e \o d)
<1> PICK S : e \in Seq(S)
  BY DEF Outside, Pending
<1> PICK T : d \in Seq(T)
  BY DEF Outside, Pending
<1> DEFINE c == e \o d
           n == Len(e)
<1>1. /\ c \in Seq(S \cup T) /\ n \in Nat /\ Len(d) \in Nat
      /\ Len(c) = n + Len(d)
      /\ \A i \in 1 .. n + Len(d) : c[i] = IF i <= n THEN e[i] ELSE d[i - n]
  BY Joined
<1> HIDE DEF c
<1>2. ASSUME Len(d) # 0 PROVE 1 \in 1 .. Len(d) /\ d[1].op # "copy"
  BY <1>1, <1>2 DEF Outside
<1>3. ASSUME n # 0 PROVE n \in 1 .. n /\ e[n].op # "copy"
  <2>1. n \in 1 .. n
    BY <1>1, <1>3
  <2>2. ~Follows(e, n, "meet")
    BY <1>1 DEF Follows
  <2> QED
    BY <2>1, <2>2 DEF Outside, Pending
<1>4. ASSUME NEW i \in 1 .. Len(c), i <= n
      PROVE  /\ i \in 1 .. n /\ c[i] = e[i]
             /\ IsSecond(c, i, FALSE) <=> IsSecond(e, i, FALSE)
             /\ Follows(c, i, "copy") <=> Follows(e, i, "copy")
             /\ Follows(e, i, "meet") => Follows(c, i, "meet")
  <2>1. i \in 1 .. n /\ c[i] = e[i]
    BY <1>1, <1>4
  <2>2. IsSecond(c, i, FALSE) <=> IsSecond(e, i, FALSE)
    <3>1. i # 1 => i - 1 \in 1 .. n + Len(d) /\ i - 1 <= n
      BY <1>1, <2>1
    <3>2. i # 1 => c[i - 1] = e[i - 1]
      BY <1>1, <3>1
    <3> QED
      BY <3>2 DEF IsSecond
  <2>3. CASE i < n
    <3>1. i < Len(c) /\ i + 1 \in 1 .. n + Len(d) /\ i + 1 <= n
      BY <1>1, <2>1, <2>3
    <3>2. c[i + 1] = e[i + 1]
      BY <1>1, <3>1
    <3> QED
      BY <2>1, <2>2, <2>3, <3>1, <3>2 DEF Follows
  <2>4. CASE i = n
    <3>1. ~Follows(e, i, "copy") /\ ~Follows(e, i, "meet")
      BY <1>1, <2>4 DEF Follows
    <3>2. SUFFICES ASSUME i < Len(c) PROVE c[i + 1].op # "copy"
      BY <2>1, <2>2, <3>1 DEF Follows
    <3>3. Len(d) # 0 /\ i + 1 \in 1 .. n + Len(d) /\ ~(i + 1 <= n) /\ (i + 1) - n = 1
      BY <1>1, <2>1, <2>4, <3>2
    <3>4. c[i + 1] = d[1]
      BY <1>1, <3>3
    <3> QED
      BY <1>2, <3>3, <3>4
  <2>5. i < n \/ i = n
    BY <1>1, <1>4
  <2> QED
    BY <2>3, <2>4, <2>5
<1>5. ASSUME NEW i \in 1 .. Len(c), ~(i <= n)
      PROVE  /\ i - n \in 1 .. Len(d) /\ c[i] = d[i - n]
             /\ \A op : Follows(c, i, op) <=> Follows(d, i - n, op)
             /\ IsSecond(c, i, FALSE) <=> IsSecond(d, i - n, FALSE)
  <2>1. i - n \in 1 .. Len(d) /\ c[i] = d[i - n]
    BY <1>1, <1>5
  <2>2. ASSUME NEW op PROVE Follows(c, i, op) <=> Follows(d, i - n, op)
    <3>1. i < Len(c) <=> i - n < Len(d)
      BY <1>1
    <3>2. i < Len(c) => c[i + 1] = d[(i - n) + 1]
      <4>1. (i + 1) - n = (i - n) + 1 /\ ~(i + 1 <= n)
        BY <1>1, <1>5
      <4>2. i < Len(c) => i + 1 \in 1 .. n + Len(d)
        BY <1>1
      <4> QED
        BY <1>1, <4>1, <4>2
    <3> QED
      BY <3>1, <3>2 DEF Follows
  <2>3. CASE i = 1
    <3>1. n = 0 /\ i - n = 1
      BY <1>1, <1>5, <2>3
    <3> QED
      BY <2>1, <2>2, <2>3, <3>1 DEF IsSecond
  <2>4. CASE i # 1 /\ i - n = 1
    <3>1. n # 0 /\ i - 1 = n /\ n \in 1 .. n + Len(d)
      BY <1>1, <1>5, <2>4
    <3>2. c[i - 1] = e[n]
      BY <1>1, <3>1
    <3> QED
      BY <1>3, <2>1, <2>2, <2>4, <3>1, <3>2 DEF IsSecond
  <2>5. CASE i # 1 /\ i - n # 1
    <3>1. i - 1 \in 1 .. n + Len(d) /\ ~(i - 1 <= n) /\ (i - 1) - n = (i - n) - 1
      BY <1>1, <1>5, <2>5
    <3>2. c[i - 1] = d[(i - n) - 1]
      BY <1>1, <3>1
    <3> QED
      BY <2>1, <2>2, <2>5, <3>2 DEF IsSecond
  <2> QED
    BY <2>1, <2>2, <2>3, <2>4, <2>5
<1>6. ASSUME NEW i \in 1 .. Len(c)
      PROVE  /\ c[i].op \notin {"publish", "woken"}
             /\ c[i].op = "copy" => Follows(c, i, "meet")
             /\ c[i].op = "meet" => (Follows(c, i, "copy") <=> ~IsSecond(c, i, FALSE))
             /\ c[i].op \notin {"copy", "meet"} => ~Follows(c, i, "copy")
             /\ c[i].op = "send" => c[i].message.tag \in {"FNSH", "RTBD", "DATE"}
  <2>1. CASE i <= n
    BY <1>4, <2>1 DEF Outside, Pending
  <2>2. CASE ~(i <= n)
    BY <1>5, <2>2 DEF Outside, Pending
  <2> QED
    BY <2>1, <2>2
<1>7. Pending(c, FALSE)
  BY <1>1, <1>6 DEF Pending
<1>8. ASSUME c # <<>> PROVE c[1].op # "copy"
  <2>1. 1 \in 1 .. Len(c)
    BY <1>1, <1>8, EmptySeq
  <2>2. CASE 1 <= n
    <3>1. c[1] = e[1] /\ e # <<>>
      BY <1>1, <2>1, <2>2, EmptySeq
    <3> QED
      BY <3>1 DEF Outside
  <2>3. CASE ~(1 <= n)
    <3>1. n = 0 /\ Len(d) # 0
      BY <1>1, <2>1, <2>3
    <3>2. c[1] = d[1]
      BY <1>1, <2>1, <3>1
    <3> QED
      BY <1>2, <3>1, <3>2
  <2> QED
    BY <2>2, <2>3
<1> QED
  BY <1>7, <1>8 DEF Outside, c

(* Operations that are not of a barrier. *)
Plain(c) ==
  /\ c.op \notin {"publish", "woken", "copy", "meet"}
  /\ c.op = "send" => c.message.tag \in {"FNSH", "RTBD", "DATE"}

LEMMA PlainOutside ==
  ASSUME NEW S, NEW ops \in Seq(S), \A i \in 1 .. Len(ops) : Plain(ops[i])
  PROVE  Outside(ops)
<1>1. Len(ops) \in Nat
  OBVIOUS
<1>2. ASSUME NEW i \in 1 .. Len(ops) PROVE ~Follows(ops, i, "copy")
  <2>1. i < Len(ops) => i + 1 \in 1 .. Len(ops)
    BY <1>1
  <2> QED
    BY <2>1 DEF Follows, Plain
<1>3. Pending(ops, FALSE)
  BY <1>2 DEF Pending, Plain
<1>4. ops # <<>> => 1 \in 1 .. Len(ops)
  BY <1>1, EmptySeq
<1> QED
  BY <1>3, <1>4 DEF Outside, Plain

(* The passive thread's code. *)
LEMMA Pair ==
  ASSUME NEW b, NEW d
  PROVE  <<d>> \o <<b>> = <<d, b>>
<1> DEFINE t == <<d>> \o <<b>>
<1>1. <<b>> \in Seq({b, d}) /\ <<d>> \in Seq({b, d})
  OBVIOUS
<1>2. /\ t \in Seq({b, d}) /\ Len(t) = 2
      /\ \A i \in 1 .. 2 : t[i] = IF i <= 1 THEN <<d>>[i] ELSE <<b>>[i - 1]
  BY <1>1, ConcatProperties
<1> HIDE DEF t
<1>3. t[1] = d /\ t[2] = b
  BY <1>2
<1>4. t = <<d, b>>
  BY <1>2, <1>3
<1> QED
  BY <1>4 DEF t

LEMMA Short ==
  ASSUME NEW a, NEW b, NEW c, NEW d
  PROVE  /\ Head(<<a>>) = a /\ Head(<<a, b>>) = a
         /\ Head(<<a, b, c>>) = a /\ Head(<<a, b, c, d>>) = a
         /\ <<>> \o Tail(<<a>>) = <<>> /\ <<>> \o Tail(<<a, b>>) = <<b>>
         /\ <<>> \o Tail(<<a, b, c>>) = <<b, c>>
         /\ <<>> \o Tail(<<a, b, c, d>>) = <<b, c, d>>
         /\ <<d>> \o Tail(<<a>>) = <<d>> /\ <<d>> \o Tail(<<a, b>>) = <<d, b>>
         /\ <<c, d>> \o Tail(<<a>>) = <<c, d>>
<1>1. /\ Tail(<<a>>) = <<>> /\ Tail(<<a, b>>) = <<b>>
      /\ Tail(<<a, b, c>>) = <<b, c>>
      /\ Tail(<<a, b, c, d>>) = <<b, c, d>>
  OBVIOUS
<1>2. /\ <<>> \in Seq({b, c, d}) /\ <<b>> \in Seq({b, c, d}) /\ <<b, c>> \in Seq({b, c, d})
      /\ <<b, c, d>> \in Seq({b, c, d}) /\ <<d>> \in Seq({b, c, d})
      /\ <<c, d>> \in Seq({b, c, d})
  OBVIOUS
<1>3. /\ <<>> \o <<>> = <<>> /\ <<>> \o <<b>> = <<b>> /\ <<>> \o <<b, c>> = <<b, c>>
      /\ <<>> \o <<b, c, d>> = <<b, c, d>>
      /\ <<d>> \o <<>> = <<d>> /\ <<c, d>> \o <<>> = <<c, d>>
  BY <1>2, ConcatEmptySeq
<1>4. <<d>> \o <<b>> = <<d, b>>
  BY Pair
<1>5. /\ Head(<<a>>) = a /\ Head(<<a, b>>) = a
      /\ Head(<<a, b, c>>) = a /\ Head(<<a, b, c, d>>) = a
  OBVIOUS
<1> QED
  BY <1>1, <1>3, <1>4, <1>5
LEMMA TwoLeft ==
  ASSUME NEW a, NEW b, NEW d
  PROVE  <<d>> \o Tail(<<a, b>>) = <<d, b>> /\ <<>> \o Tail(<<a, b>>) = <<b>>
<1>1. Tail(<<a, b>>) = <<b>>
  OBVIOUS
<1>2. <<d>> \o <<b>> = <<d, b>>
  BY Pair
<1>3. <<>> \o <<b>> = <<b>>
  OBVIOUS
<1> QED
  BY <1>1, <1>2, <1>3, Zenon
-----------------------------------------------------------------------------
(* The code of a user tells where it is. *)
LEMMA Places ==
  ASSUME NEW c, Outside(c) \/ AtCopy(c) \/ AtSecond(c) \/ InFirst(c) \/ InSecond(c), c # <<>>
  PROVE  /\ Head(c) = c[1]
         /\ Outside(c) => c[1].op \notin {"publish", "woken", "copy"}
         /\ AtCopy(c) => c[1].op = "copy"
         /\ AtSecond(c) => c[1].op = "meet"
         /\ InFirst(c) => c[1].op = "woken" /\ AtCopy(<<>> \o Tail(c))
         /\ InSecond(c) => c[1].op = "woken" /\ Outside(<<>> \o Tail(c))
<1>1. ASSUME Outside(c) PROVE Head(c) = c[1] /\ c[1].op \notin {"publish", "woken", "copy"}
  BY <1>1, Outside1
<1>2. ASSUME AtCopy(c) PROVE Head(c) = c[1] /\ c[1].op = "copy"
  BY <1>2, AtCopy1
<1>3. ASSUME AtSecond(c) PROVE Head(c) = c[1] /\ c[1].op = "meet"
  BY <1>3, AtSecond1
<1>4. ASSUME NEW d, AtCopy(d) \/ Outside(d), c = <<Woken>> \o d
      PROVE  Head(c) = c[1] /\ c[1].op = "woken" /\ <<>> \o Tail(c) = d
  <2>1. PICK T : d \in Seq(T)
    BY <1>4 DEF AtCopy, Outside, Pending
  <2> QED
    BY <1>4, <2>1, Awake DEF Woken
<1>5. ASSUME InFirst(c)
      PROVE  Head(c) = c[1] /\ c[1].op = "woken" /\ AtCopy(<<>> \o Tail(c))
  <2>1. PICK d : AtCopy(d) /\ c = <<Woken>> \o d
    BY <1>5 DEF InFirst
  <2>2. Head(c) = c[1] /\ c[1].op = "woken" /\ <<>> \o Tail(c) = d
    BY <1>4, <2>1
  <2> QED
    BY <2>1, <2>2
<1>6. ASSUME InSecond(c)
      PROVE  Head(c) = c[1] /\ c[1].op = "woken" /\ Outside(<<>> \o Tail(c))
  <2>1. PICK d : Outside(d) /\ c = <<Woken>> \o d
    BY <1>6 DEF InSecond
  <2>2. Head(c) = c[1] /\ c[1].op = "woken" /\ <<>> \o Tail(c) = d
    BY <1>4, <2>1
  <2> QED
    BY <2>1, <2>2
<1> QED
  BY <1>1, <1>2, <1>3, <1>5, <1>6

(* A user is always at one of these places, *)
LEMMA Somewhere ==
  ASSUME NEW r, NEW c, NEW p, NEW b, NEW w, NEW m, Meeting(r, c, p, b, w, m)
  PROVE  Outside(c) \/ AtCopy(c) \/ AtSecond(c) \/ InFirst(c) \/ InSecond(c)
BY DEF Meeting

(* and the passive thread at one of these. *)
LEMMA PassivePlaces ==
  ASSUME NEW r, NEW c, NEW p, NEW b, NEW w, NEW m, Meeting(r, c, p, b, w, m), p # <<>>
  PROVE  /\ Unpublished(p) \/ p \in {<<Meet, Meet>>, <<Woken, Meet>>, <<Meet>>, <<Woken>>}
         /\ Unpublished(p) => Head(p).op \in {"exit", "rcvdesc", "write", "publish"}
         /\ p \in {<<Meet, Meet>>, <<Meet>>} => Head(p).op = "meet"
         /\ p \in {<<Woken, Meet>>, <<Woken>>} => Head(p).op = "woken"
<1>1. Unpublished(p) \/ p \in {<<Meet, Meet>>, <<Woken, Meet>>, <<Meet>>, <<Woken>>}
  BY DEF Meeting
<1>2. Unpublished(p) => Head(p).op \in {"exit", "rcvdesc", "write", "publish"}
  BY DEF Unpublished, Other, IsWrite, Publish
<1> QED
  BY <1>1, <1>2 DEF Meet, Woken

(* A user's operation outside of recvMessg. *)
LEMMA UserGoesOn ==
  ASSUME NEW r, NEW c, NEW p, NEW b, NEW w, NEW m, Meeting(r, c, p, b, w, m),
         c # <<>>, Head(c).op \notin {"publish", "woken", "copy", "meet"},
         NEW S, NEW ops \in Seq(S), \A i \in 1 .. Len(ops) : Plain(ops[i])
  PROVE  Meeting(r, ops \o Tail(c), p, b, w, m)
<1>1. Outside(c) /\ ~InFirst(c) /\ ~InSecond(c) /\ ~AtCopy(c) /\ ~AtSecond(c)
  BY Somewhere, Places
<1>2. Outside(Tail(c))
  BY <1>1, Outside1
<1>3. Outside(ops \o Tail(c))
  BY <1>2, Compose, PlainOutside
<1> QED
  BY <1>1, <1>3 DEF Meeting

(* A user at a barrier: it waits, or wakes the passive thread. *)
LEMMA UserArrives ==
  ASSUME NEW r, NEW c, NEW p, NEW b, NEW w, NEW m, Meeting(r, c, p, b, w, m),
         c # <<>>, Head(c).op = "meet"
  PROVE  /\ ~b => Meeting(r, <<Woken>> \o Tail(c), p, TRUE, w \cup {user(r)}, m)
         /\ b => /\ w = {passive(r)}
                 /\ Meeting(r, <<>> \o Tail(c), p, FALSE, {}, m)
<1>1. /\ Outside(c) \/ AtSecond(c)
      /\ ~InFirst(c) /\ ~InSecond(c) /\ ~AtCopy(c)
  BY Somewhere, Places
<1>2. ASSUME Outside(c)
      PROVE  AtCopy(Tail(c)) /\ AtCopy(<<>> \o Tail(c)) /\ InFirst(<<Woken>> \o Tail(c))
  <2>1. AtCopy(Tail(c))
    BY <1>2, Outside1
  <2>2. <<>> \o Tail(c) = Tail(c)
    BY <1>2, PendingTail DEF Outside
  <2> QED
    BY <2>1, <2>2 DEF InFirst
<1>3. ASSUME AtSecond(c)
      PROVE  Outside(<<>> \o Tail(c)) /\ InSecond(<<Woken>> \o Tail(c))
  <2>1. Outside(Tail(c))
    BY <1>3, AtSecond1
  <2>2. <<>> \o Tail(c) = Tail(c)
    BY <1>3, PendingTail DEF AtSecond
  <2> QED
    BY <2>1, <2>2 DEF InSecond
<1> QED
  BY <1>1, <1>2, <1>3 DEF Meeting

(* A user that has been woken, *)
LEMMA UserWakes ==
  ASSUME NEW r, NEW c, NEW p, NEW b, NEW w, NEW m, Meeting(r, c, p, b, w, m),
         c # <<>>, Head(c).op = "woken", user(r) \notin w
  PROVE  Meeting(r, <<>> \o Tail(c), p, b, w \ {user(r)}, m)
<1>1. /\ InFirst(c) \/ InSecond(c)
      /\ ~Outside(c) /\ ~AtCopy(c) /\ ~AtSecond(c)
  BY Somewhere, Places
<1>2. /\ InFirst(c) => AtCopy(<<>> \o Tail(c))
      /\ InSecond(c) => Outside(<<>> \o Tail(c))
  BY <1>1, Places
<1>3. w \ {user(r)} = w
  OBVIOUS
<1>4. Meeting(r, <<>> \o Tail(c), p, b, w, m)
  BY <1>1, <1>2 DEF Meeting
<1> QED
  BY <1>3, <1>4

(* and one that has copied the message. *)
LEMMA UserCopies ==
  ASSUME NEW r, NEW c, NEW p, NEW b, NEW w, NEW m, Meeting(r, c, p, b, w, m),
         c # <<>>, Head(c).op = "copy"
  PROVE  Meeting(r, <<>> \o Tail(c), p, b, w, NoMessage)
<1>1. /\ AtCopy(c)
      /\ ~Outside(c) /\ ~InFirst(c) /\ ~InSecond(c) /\ ~AtSecond(c)
  BY Somewhere, Places
<1>2. AtSecond(<<>> \o Tail(c))
  BY <1>1, AtCopy1
<1> QED
  BY <1>1, <1>2 DEF Meeting

(* The passive thread takes its next message, *)
LEMMA PassiveReceives ==
  ASSUME NEW r, NEW c, NEW b, NEW w, NEW m, Meeting(r, c, <<>>, b, w, m),
         NEW s, NEW x, x.tag \in {"FNSH", "RTBD", "DATE"}
  PROVE  Meeting(r, c, Handler(r, s, x), b, w, m)
<1>1. <<>> # <<Meet, Meet>> /\ <<>> # <<Woken, Meet>> /\ <<>> # <<Meet>> /\ <<>> # <<Woken>>
  OBVIOUS
<1>2. Unpublished(Handler(r, s, x))
  <2>1. CASE x.tag = "FNSH"
    <3>1. Handler(r, s, x) = <<Exit>> /\ Other(Exit)
      BY <2>1 DEF Handler, Other, Exit
    <3> QED
      BY <3>1 DEF Unpublished
  <2>2. CASE x.tag = "RTBD"
    <3>1. /\ Handler(r, s, x) = <<RcvDesc(s, x.key, x.buffer)>>
          /\ Other(RcvDesc(s, x.key, x.buffer))
      BY <2>2 DEF Handler, Other, RcvDesc
    <3> QED
      BY <3>1 DEF Unpublished
  <2>3. CASE x.tag = "DATE"
    <3> DEFINE e == Write(Request(r), x.buffer, {Request(r)})
    <3>1. Handler(r, s, x) = <<e, Publish(s), Meet, Meet>>
      BY <2>3 DEF Handler
    <3>2. IsWrite(e)
      BY DEF IsWrite, Write
    <3> HIDE DEF e
    <3> QED
      BY <3>1, <3>2 DEF Unpublished
  <2> QED
    BY <2>1, <2>2, <2>3
<1> HIDE DEF Handler
<1> QED
  BY <1>1, <1>2 DEF Meeting

(* handles it, *)
LEMMA PassiveGoesOn ==
  ASSUME NEW r, NEW c, NEW p, NEW b, NEW w, NEW m, Meeting(r, c, p, b, w, m), p # <<>>,
         NEW ops,
         \/ Head(p).op = "write" /\ ops = <<>>
         \/ Head(p).op = "rcvdesc" /\ ops = <<>>
         \/ /\ Head(p).op = "rcvdesc"
            /\ \E d, e : IsWrite(d) /\ IsWrite(e) /\ ops = <<d, e>>
  PROVE  Meeting(r, c, ops \o Tail(p), b, w, m)
<1>1. Unpublished(p) /\ p \notin {<<Meet, Meet>>, <<Woken, Meet>>, <<Meet>>, <<Woken>>}
  BY PassivePlaces
<1>2. CASE \E d : Other(d) /\ p = <<d>>
  <2>1. PICK x : Other(x) /\ p = <<x>>
    BY <1>2
  <2>2. CASE ops = <<>>
    <3>1. ops \o Tail(p) = <<>>
      BY <2>1, <2>2, Short
    <3> QED
      BY <1>1, <3>1 DEF Unpublished, Meeting
  <2>3. CASE \E d, e : IsWrite(d) /\ IsWrite(e) /\ ops = <<d, e>>
    <3>1. PICK d, e : IsWrite(d) /\ IsWrite(e) /\ ops = <<d, e>>
      BY <2>3
    <3>2. ops \o Tail(p) = <<d, e>>
      BY <2>1, <3>1, Short
    <3>3. Unpublished(ops \o Tail(p))
      BY <3>1, <3>2 DEF Unpublished
    <3> QED
      BY <1>1, <3>3 DEF Meeting
  <2> QED
    BY <2>2, <2>3
<1>3. CASE \E d, e : IsWrite(d) /\ IsWrite(e) /\ p = <<d, e>>
  <2>1. PICK d, e : IsWrite(d) /\ IsWrite(e) /\ p = <<d, e>>
    BY <1>3
  <2>2. ops = <<>>
    BY <2>1, Short DEF IsWrite
  <2>3. ops \o Tail(p) = <<e>>
    BY <2>1, <2>2, Short
  <2>4. Unpublished(ops \o Tail(p))
    BY <2>1, <2>3 DEF Unpublished, Other, IsWrite
  <2> QED
    BY <1>1, <2>4 DEF Meeting
<1>4. CASE \E d, s : IsWrite(d) /\ p = <<d, Publish(s), Meet, Meet>>
  <2>1. PICK d, s : IsWrite(d) /\ p = <<d, Publish(s), Meet, Meet>>
    BY <1>4
  <2>2. ops = <<>>
    BY <2>1, Short DEF IsWrite
  <2>3. ops \o Tail(p) = <<Publish(s), Meet, Meet>>
    BY <2>1, <2>2, Short
  <2>4. Unpublished(ops \o Tail(p))
    BY <2>3 DEF Unpublished
  <2> QED
    BY <1>1, <2>4 DEF Meeting
<1>5. CASE \E s : p = <<Publish(s), Meet, Meet>>
  <2>1. PICK s : p = <<Publish(s), Meet, Meet>>
    BY <1>5
  <2>2. Head(p).op = "publish"
    BY <2>1, Short DEF Publish
  <2> QED
    BY <2>2
<1> QED
  BY <1>1, <1>2, <1>3, <1>4, <1>5 DEF Unpublished

(* publishes it, *)
LEMMA PassivePublishes ==
  ASSUME NEW r, NEW c, NEW p, NEW b, NEW w, NEW m, Meeting(r, c, p, b, w, m), p # <<>>,
         Head(p).op = "publish", NEW x, x # NoMessage
  PROVE  Meeting(r, c, <<>> \o Tail(p), b, w, x)
<1>1. Unpublished(p) /\ p \notin {<<Meet, Meet>>, <<Woken, Meet>>, <<Meet>>, <<Woken>>}
  BY PassivePlaces
<1>2. PICK s : p = <<Publish(s), Meet, Meet>>
  BY <1>1, Short DEF Unpublished, Other, IsWrite
<1>3. <<>> \o Tail(p) = <<Meet, Meet>>
  BY <1>2, Short
<1> QED
  BY <1>1, <1>3 DEF Meeting

(* comes to the barriers, *)
LEMMA PassiveArrives ==
  ASSUME NEW r, NEW c, NEW p, NEW b, NEW w, NEW m, Meeting(r, c, p, b, w, m), p # <<>>,
         Head(p).op = "meet"
  PROVE  /\ ~b => Meeting(r, c, <<Woken>> \o Tail(p), TRUE, w \cup {passive(r)}, m)
         /\ b => /\ w = {user(r)}
                 /\ Meeting(r, c, <<>> \o Tail(p), FALSE, {}, m)
<1>1. ~Unpublished(p) /\ p \in {<<Meet, Meet>>, <<Meet>>}
  BY PassivePlaces DEF Meet, Woken
<1>2. CASE p = <<Meet, Meet>>
  <2>1. p # <<Woken, Meet>> /\ p # <<Meet>> /\ p # <<Woken>>
    BY <1>2 DEF Meet, Woken
  <2>2. <<Woken>> \o Tail(p) = <<Woken, Meet>> /\ <<>> \o Tail(p) = <<Meet>>
    BY <1>2, TwoLeft
  <2>3. /\ m # NoMessage
        /\ \/ (Outside(c) \/ InSecond(c)) /\ ~b /\ w = {}
           \/ InFirst(c) /\ b /\ w = {user(r)}
    BY <1>1, <1>2, <2>1 DEF Meeting
  <2>4. ~b => Meeting(r, c, <<Woken, Meet>>, TRUE, w \cup {passive(r)}, m)
    BY <2>3 DEF Meeting
  <2>5. b => w = {user(r)} /\ Meeting(r, c, <<Meet>>, FALSE, {}, m)
    BY <2>3 DEF Meeting
  <2> QED
    BY <2>2, <2>4, <2>5
<1>3. CASE p = <<Meet>>
  <2>1. p # <<Woken, Meet>> /\ p # <<Meet, Meet>> /\ p # <<Woken>>
    BY <1>3 DEF Meet, Woken
  <2>2. <<Woken>> \o Tail(p) = <<Woken>> /\ <<>> \o Tail(p) = <<>>
    BY <1>3, Short
  <2>3. Unpublished(<<>>)
    BY DEF Unpublished
  <2> QED
    BY <1>1, <2>1, <2>2, <2>3 DEF Meeting
<1> QED
  BY <1>1, <1>2, <1>3

(* and is woken there. *)
LEMMA PassiveWakes ==
  ASSUME NEW r, NEW c, NEW p, NEW b, NEW w, NEW m, Meeting(r, c, p, b, w, m), p # <<>>,
         Head(p).op = "woken", passive(r) \notin w
  PROVE  Meeting(r, c, <<>> \o Tail(p), b, w \ {passive(r)}, m)
<1>1. ~Unpublished(p) /\ p \in {<<Woken, Meet>>, <<Woken>>}
  BY PassivePlaces DEF Meet, Woken
<1>2. w \ {passive(r)} = w
  OBVIOUS
<1>3. CASE p = <<Woken, Meet>>
  <2>1. p # <<Meet, Meet>> /\ p # <<Meet>> /\ p # <<Woken>>
    BY <1>3 DEF Meet, Woken
  <2>2. <<>> \o Tail(p) = <<Meet>>
    BY <1>3, Short
  <2> QED
    BY <1>1, <1>2, <2>1, <2>2 DEF Meeting
<1>4. CASE p = <<Woken>>
  <2>1. p # <<Meet, Meet>> /\ p # <<Meet>> /\ p # <<Woken, Meet>>
    BY <1>4 DEF Meet, Woken
  <2>2. <<>> \o Tail(p) = <<>> /\ Unpublished(<<>>)
    BY <1>4, Short DEF Unpublished
  <2> QED
    BY <1>1, <1>2, <2>1, <2>2 DEF Meeting
<1> QED
  BY <1>1, <1>3, <1>4
-----------------------------------------------------------------------------
LEMMA Naming ==
  /\ \A t \in Threads : t[2] \in Ranks /\ (t = user(t[2]) \/ t = passive(t[2]))
  /\ \A r \in Ranks : /\ user(r) \in Threads /\ passive(r) \in Threads
                      /\ user(r)[2] = r /\ passive(r)[2] = r
  /\ \A q, r : user(q) # passive(r)
BY DEF Threads, user, passive

(* A step of thread t concerns the threads of its rank. *)
LEMMA OtherRanks ==
  ASSUME PassiveInv, NEW t \in Threads, NEW x, cont' = [cont EXCEPT ![t] = x],
         \A q \in Ranks \ {t[2]} :
           bool'[q] = bool[q] /\ waiting'[q] = waiting[q] /\ msg'[q] = msg[q],
         t = user(t[2]) =>
           Meeting(t[2], x, cont[passive(t[2])], bool'[t[2]], waiting'[t[2]], msg'[t[2]]),
         t = passive(t[2]) =>
           Meeting(t[2], cont[user(t[2])], x, bool'[t[2]], waiting'[t[2]], msg'[t[2]])
  PROVE  \A q \in Ranks : BarrierInv(q)'
<1> SUFFICES ASSUME NEW q \in Ranks PROVE BarrierInv(q)'
  OBVIOUS
<1>1. /\ user(q) \in Threads /\ passive(q) \in Threads /\ user(q) # passive(q)
      /\ user(q)[2] = q /\ passive(q)[2] = q
      /\ t = user(t[2]) \/ t = passive(t[2])
  BY Naming
<1>2. \A u \in Threads : cont'[u] = IF u = t THEN x ELSE cont[u]
  BY DEF PassiveInv, TypeInv
<1>3. CASE q # t[2]
  <2>1. cont'[user(q)] = cont[user(q)] /\ cont'[passive(q)] = cont[passive(q)]
    BY <1>1, <1>2, <1>3
  <2>2. bool'[q] = bool[q] /\ waiting'[q] = waiting[q] /\ msg'[q] = msg[q]
    BY <1>3
  <2>3. Meeting(q, cont[user(q)], cont[passive(q)], bool[q], waiting[q], msg[q])
    BY DEF PassiveInv, BarrierInv
  <2> QED
    BY <2>1, <2>2, <2>3, Zenon DEF BarrierInv
<1>4. CASE q = t[2] /\ t = user(q)
  <2>1. cont'[user(q)] = x /\ cont'[passive(q)] = cont[passive(q)]
    BY <1>1, <1>2, <1>4
  <2>2. Meeting(q, x, cont[passive(q)], bool'[q], waiting'[q], msg'[q])
    BY <1>4
  <2> QED
    BY <2>1, <2>2, Zenon DEF BarrierInv
<1>5. CASE q = t[2] /\ t = passive(q)
  <2>1. cont'[passive(q)] = x /\ cont'[user(q)] = cont[user(q)]
    BY <1>1, <1>2, <1>5
  <2>2. Meeting(q, cont[user(q)], x, bool'[q], waiting'[q], msg'[q])
    BY <1>5
  <2> QED
    BY <2>1, <2>2, Zenon DEF BarrierInv
<1> QED
  BY <1>1, <1>3, <1>4, <1>5

(* The threads of the rank of t before the step. *)
LEMMA Mine ==
  ASSUME PassiveInv, NEW t \in Threads
  PROVE  /\ t[2] \in Ranks /\ bool[t[2]] \in BOOLEAN
         /\ t = user(t[2]) =>
              Meeting(t[2], cont[t], cont[passive(t[2])], bool[t[2]], waiting[t[2]], msg[t[2]])
         /\ t = passive(t[2]) =>
              Meeting(t[2], cont[user(t[2])], cont[t], bool[t[2]], waiting[t[2]], msg[t[2]])
<1>1. t[2] \in Ranks
  BY Naming
<1>2. BarrierInv(t[2]) /\ bool[t[2]] \in BOOLEAN
  BY <1>1 DEF PassiveInv, TypeInv
<1> QED
  BY <1>1, <1>2, Zenon DEF BarrierInv

(* Which thread runs an operation. *)
LEMMA WhoRuns ==
  ASSUME PassiveInv, NEW t \in Threads, cont[t] # <<>>
  PROVE  /\ t = user(t[2]) \/ t = passive(t[2])
         /\ Head(cont[t]).op \notin {"exit", "rcvdesc", "write", "publish", "meet", "woken"}
              => t = user(t[2])
         /\ Head(cont[t]).op = "publish" => t = passive(t[2])
         /\ Head(cont[t]).op = "send" /\ t = user(t[2])
              => Head(cont[t]).message.tag \in {"FNSH", "RTBD", "DATE"}
<1>1. t = user(t[2]) \/ t = passive(t[2])
  BY Naming
<1>2. ASSUME t = user(t[2])
      PROVE  /\ Head(cont[t]).op # "publish"
             /\ Head(cont[t]).op = "send"
                  => Head(cont[t]).message.tag \in {"FNSH", "RTBD", "DATE"}
  <2>1. \/ Outside(cont[t]) \/ AtCopy(cont[t]) \/ AtSecond(cont[t])
        \/ InFirst(cont[t]) \/ InSecond(cont[t])
    BY <1>2, Mine, Somewhere
  <2>2. CASE Outside(cont[t])
    BY <2>2, Outside1
  <2>3. CASE ~Outside(cont[t])
    BY <2>1, <2>3, Places
  <2> QED
    BY <2>2, <2>3
<1>3. ASSUME t = passive(t[2])
      PROVE  Head(cont[t]).op \in {"exit", "rcvdesc", "write", "publish", "meet", "woken"}
  BY <1>3, Mine, PassivePlaces
<1> QED
  BY <1>1, <1>2, <1>3

(* What an operation outside of the barriers leaves to be done. *)
TwoWrites(ops) == \E d, e : IsWrite(d) /\ IsWrite(e) /\ ops = <<d, e>>

LEMMA PlainOps ==
  ASSUME NEW ops, ops = <<>> \/ TwoWrites(ops) \/ \E to : ops = <<Sent(to)>>
  PROVE  \E S : ops \in Seq(S) /\ \A i \in 1 .. Len(ops) : Plain(ops[i])
<1>1. CASE ops = <<>>
  <2>1. ops \in Seq({}) /\ Len(ops) = 0
    BY <1>1
  <2> QED
    BY <2>1
<1>2. CASE TwoWrites(ops)
  <2>1. PICK d, e : IsWrite(d) /\ IsWrite(e) /\ ops = <<d, e>>
    BY <1>2 DEF TwoWrites
  <2>2. ops \in Seq({d, e}) /\ Len(ops) = 2 /\ ops[1] = d /\ ops[2] = e
    BY <2>1
  <2>3. Plain(d) /\ Plain(e)
    BY <2>1 DEF Plain, IsWrite
  <2> QED
    BY <2>2, <2>3
<1>3. CASE \E to : ops = <<Sent(to)>>
  <2>1. PICK to : ops = <<Sent(to)>>
    BY <1>3
  <2>2. Plain(Sent(to))
    BY DEF Plain, Sent
  <2> DEFINE x == Sent(to)
  <2>3. ops \in Seq({x}) /\ Len(ops) = 1 /\ ops[1] = x
    BY <2>1
  <2> QED
    BY <2>2, <2>3
<1> QED
  BY <1>1, <1>2, <1>3

LEMMA GoesOn ==
  ASSUME PassiveInv, NEW t \in Threads, cont[t] # <<>>, UNCHANGED forward,
         Head(cont[t]).op \notin {"publish", "woken", "copy", "meet"},
         NEW ops, Continue(t, ops),
         \/ ops = <<>> /\ Head(cont[t]).op # "exit"
         \/ TwoWrites(ops) /\ Head(cont[t]).op \notin {"exit", "write"}
         \/ /\ \E to : ops = <<Sent(to)>>
            /\ Head(cont[t]).op \notin {"exit", "write", "rcvdesc"}
  PROVE  \A q \in Ranks : BarrierInv(q)'
<1> DEFINE r == t[2]
<1>1. /\ bool' = bool /\ waiting' = waiting /\ msg' = msg
      /\ cont' = [cont EXCEPT ![t] = ops \o Tail(cont[t])]
  BY DEF forward, Continue
<1>2. ASSUME t = user(r)
      PROVE  Meeting(r, ops \o Tail(cont[t]), cont[passive(r)], bool[r], waiting[r], msg[r])
  <2>1. Meeting(r, cont[t], cont[passive(r)], bool[r], waiting[r], msg[r])
    BY <1>2, Mine
  <2>2. PICK S : ops \in Seq(S) /\ \A i \in 1 .. Len(ops) : Plain(ops[i])
    BY PlainOps
  <2> QED
    BY <2>1, <2>2, UserGoesOn
<1>3. ASSUME t = passive(r)
      PROVE  Meeting(r, cont[user(r)], ops \o Tail(cont[t]), bool[r], waiting[r], msg[r])
  <2>1. Meeting(r, cont[user(r)], cont[t], bool[r], waiting[r], msg[r])
    BY <1>3, Mine
  <2>2. t # user(r)
    BY <1>3, Naming
  <2>3. Head(cont[t]).op \in {"exit", "rcvdesc", "write"}
    BY <2>2, WhoRuns
  <2>4. \/ Head(cont[t]).op = "write" /\ ops = <<>>
        \/ Head(cont[t]).op = "rcvdesc" /\ ops = <<>>
        \/ /\ Head(cont[t]).op = "rcvdesc"
           /\ \E d, e : IsWrite(d) /\ IsWrite(e) /\ ops = <<d, e>>
    BY <2>3 DEF TwoWrites
  <2> QED
    BY <2>1, <2>4, PassiveGoesOn
<1> QED
  BY <1>1, <1>2, <1>3, OtherRanks

(* A step that changes neither code nor what the barrier uses. *)
LEMMA StaysPut ==
  ASSUME PassiveInv, UNCHANGED cont, UNCHANGED forward
  PROVE  \A q \in Ranks : BarrierInv(q)'
BY DEF PassiveInv, BarrierInv, forward

(* The user's and the passive thread's part of the matching of tags. *)
LEMMA Matches ==
  ASSUME PassiveInv, NEW t \in Threads, NEW c,
         handleTaggedSrcBufferDesc(t, c) \/ handleTaggedRcvBufferDesc(t, c)
  PROVE  \/ UNCHANGED cont
         \/ \E ops : Continue(t, ops) /\ (ops = <<>> \/ TwoWrites(ops))
<1>1. \A src, data, rcv : TwoWrites(iSendRecvComm(src, data, rcv))
  BY DEF TwoWrites, iSendRecvComm, IsWrite, Write
<1>2. CASE handleTaggedSrcBufferDesc(t, c)
  BY <1>1, <1>2 DEF handleTaggedSrcBufferDesc, Return, Throw
<1>3. CASE handleTaggedRcvBufferDesc(t, c)
  BY <1>1, <1>3 DEF handleTaggedRcvBufferDesc, Return, Throw
<1> QED
  BY <1>2, <1>3

LEMMA MatchStep ==
  ASSUME PassiveInv, NEW t \in Threads, NEW c, cont[t] # <<>>,
         handleTaggedSrcBufferDesc(t, c) \/ handleTaggedRcvBufferDesc(t, c),
         Head(cont[t]).op \in {"isend", "irecv", "rcvdesc"},
         UNCHANGED forward, UNCHANGED inbox
  PROVE  PassiveInv'
<1>1. CASE UNCHANGED cont
  <2>1. TypeInv'
    BY <1>1 DEF PassiveInv, TypeInv, forward
  <2> QED
    BY <1>1, <2>1, StaysPut DEF PassiveInv, MessagesInv
<1>2. CASE \E ops : Continue(t, ops) /\ (ops = <<>> \/ TwoWrites(ops))
  <2>1. PICK ops : Continue(t, ops) /\ (ops = <<>> \/ TwoWrites(ops))
    BY <1>2
  <2>2. \A q \in Ranks : BarrierInv(q)'
    BY <2>1, GoesOn
  <2>3. TypeInv'
    BY <2>1 DEF PassiveInv, TypeInv, Continue, forward
  <2> QED
    BY <2>2, <2>3 DEF PassiveInv, MessagesInv
<1> QED
  BY <1>1, <1>2, Matches

(* A message with a tag that the passive thread knows is sent. *)
LEMMA SendStep ==
  ASSUME PassiveInv, NEW t \in Threads, NEW to, NEW m, cont[t] # <<>>,
         sendPassive(t, to, m), m.tag \in {"FNSH", "RTBD", "DATE"},
         Head(cont[t]).op \in {"irecv", "send"}, UNCHANGED forward
  PROVE  PassiveInv'
<1> DEFINE ops == IF eager THEN <<>> ELSE <<Sent(to)>>
<1>1. Continue(t, ops) /\ inbox' = [inbox EXCEPT ![to][t[2]] = Append(@, m)]
  BY DEF sendPassive
<1>2. ops = <<>> \/ \E x : ops = <<Sent(x)>>
  OBVIOUS
<1>3. \A q \in Ranks : BarrierInv(q)'
  BY <1>1, <1>2, GoesOn
<1>4. TypeInv'
  BY <1>1 DEF PassiveInv, TypeInv, Continue, forward
<1>5. ASSUME NEW r \in Ranks, NEW s \in Ranks
      PROVE  \E S : inbox'[r][s] \in Seq(S) /\ \A x \in S : x.tag \in {"FNSH", "RTBD", "DATE"}
  <2>1. PICK S : inbox[r][s] \in Seq(S) /\ \A x \in S : x.tag \in {"FNSH", "RTBD", "DATE"}
    BY DEF PassiveInv, MessagesInv
  <2>2. inbox'[r][s] = inbox[r][s] \/ inbox'[r][s] = Append(inbox[r][s], m)
    BY <1>1 DEF PassiveInv, TypeInv
  <2>3. inbox[r][s] \in Seq(S \cup {m})
    BY <2>1, SeqMonotonic
  <2>4. Append(inbox[r][s], m) \in Seq(S \cup {m})
    <3> DEFINE T == S \cup {m}
    <3>1. m \in T /\ inbox[r][s] \in Seq(T)
      BY <2>3
    <3> HIDE DEF T
    <3>2. Append(inbox[r][s], m) \in Seq(T)
      BY <3>1, AppendProperties
    <3> QED
      BY <3>2 DEF T
  <2>5. inbox'[r][s] \in Seq(S \cup {m})
    BY <2>2, <2>3, <2>4
  <2> QED
    BY <2>1, <2>5
<1> QED
  BY <1>3, <1>4, <1>5 DEF PassiveInv, MessagesInv

(* The actions, one by one. *)
LEMMA StepMatch ==
  ASSUME PassiveInv, NEW t \in Threads,
         iSendTagMessg(t) \/ iRecvTagMessg(t) \/ HandleRcvBufferDesc(t) \/ SendMessage(t)
  PROVE  PassiveInv'
<1> DEFINE c == Head(cont[t])
<1>1. CASE iSendTagMessg(t)
  <2>1. cont[t] # <<>> /\ c.op = "isend" /\ handleTaggedSrcBufferDesc(t, c)
    BY <1>1 DEF iSendTagMessg, Runs
  <2>2. UNCHANGED forward /\ UNCHANGED inbox
    BY <1>1 DEF iSendTagMessg
  <2> QED
    BY <2>1, <2>2, MatchStep
<1>2. CASE HandleRcvBufferDesc(t)
  <2>1. cont[t] # <<>> /\ c.op = "rcvdesc" /\ handleTaggedRcvBufferDesc(t, c)
    BY <1>2 DEF HandleRcvBufferDesc, Runs
  <2>2. UNCHANGED forward /\ UNCHANGED inbox
    BY <1>2 DEF HandleRcvBufferDesc, network
  <2> QED
    BY <2>1, <2>2, MatchStep
<1>3. CASE iRecvTagMessg(t)
  <2>1. cont[t] # <<>> /\ c.op = "irecv" /\ UNCHANGED forward
    BY <1>3 DEF iRecvTagMessg, Runs
  <2> DEFINE m == [tag |-> "RTBD", key |-> c.tag, buffer |-> c.buffer]
  <2>2. \/ sendPassive(t, c.rank, m)
        \/ handleTaggedRcvBufferDesc(t, c) /\ UNCHANGED inbox
    BY <1>3 DEF iRecvTagMessg
  <2>3. m.tag = "RTBD"
    OBVIOUS
  <2> HIDE DEF m
  <2>4. CASE sendPassive(t, c.rank, m)
    BY <2>1, <2>3, <2>4, SendStep
  <2>5. CASE handleTaggedRcvBufferDesc(t, c) /\ UNCHANGED inbox
    BY <2>1, <2>5, MatchStep
  <2> QED
    BY <2>2, <2>4, <2>5
<1>4. CASE SendMessage(t)
  <2>1. cont[t] # <<>> /\ c.op = "send" /\ UNCHANGED forward
    BY <1>4 DEF SendMessage, Runs
  <2>2. sendPassive(t, c.rank, c.message)
    BY <1>4 DEF SendMessage
  <2>3. c.message.tag \in {"FNSH", "RTBD", "DATE"}
    BY <2>1, WhoRuns
  <2> QED
    BY <2>1, <2>2, <2>3, SendStep
<1> QED
  BY <1>1, <1>2, <1>3, <1>4

LEMMA StepPlain ==
  ASSUME PassiveInv, NEW t \in Threads,
         \/ SendReturns(t) \/ WriteNotify(t) \/ WaitForNotification(t)
         \/ Look(t) \/ JoinPassiveThread(t)
  PROVE  PassiveInv'
<1>1. /\ cont[t] # <<>>
      /\ Head(cont[t]).op \in {"sent", "write", "writeto", "wait", "read", "join"}
      /\ Continue(t, <<>>) /\ UNCHANGED forward /\ UNCHANGED inbox
  BY DEF SendReturns, WriteNotify, WaitForNotification, Look, JoinPassiveThread,
         Runs, Return, network, forward
<1>2. \A q \in Ranks : BarrierInv(q)'
  BY <1>1, GoesOn
<1>3. TypeInv'
  BY <1>1 DEF PassiveInv, TypeInv, Continue, forward
<1> QED
  BY <1>1, <1>2, <1>3 DEF PassiveInv, MessagesInv

LEMMA StepPublish ==
  ASSUME PassiveInv, NEW t \in Threads, PublishMessage(t)
  PROVE  PassiveInv'
<1> DEFINE r == t[2]
           x == [rank |-> Head(cont[t]).rank, buffer |-> Request(r)]
<1>1. /\ cont[t] # <<>> /\ Head(cont[t]).op = "publish"
      /\ cont' = [cont EXCEPT ![t] = <<>> \o Tail(cont[t])]
      /\ msg' = [msg EXCEPT ![r] = x] /\ bool' = bool /\ waiting' = waiting /\ inbox' = inbox
  BY DEF PublishMessage, Runs, Return, Continue, network
<1>2. t = passive(r) /\ t # user(r) /\ r \in Ranks
  BY <1>1, WhoRuns, Naming
<1>3. x # NoMessage
  <2>1. x.buffer.name = <<"request", 0>> /\ NoMessage.buffer.name = <<"none", 0>>
    BY DEF Request, Buffer, NoMessage, NoData
  <2> QED
    BY <2>1
<1>4. /\ \A q \in Ranks \ {r} : msg'[q] = msg[q]
      /\ msg'[r] = x
  BY <1>1, <1>2 DEF PassiveInv, TypeInv
<1>5. Meeting(r, cont[user(r)], <<>> \o Tail(cont[t]), bool[r], waiting[r], x)
  BY <1>1, <1>2, <1>3, Mine, PassivePublishes
<1>6. \A q \in Ranks : BarrierInv(q)'
  BY <1>1, <1>2, <1>4, <1>5, OtherRanks
<1>7. TypeInv'
  BY <1>1 DEF PassiveInv, TypeInv
<1> QED
  BY <1>1, <1>6, <1>7 DEF PassiveInv, MessagesInv

LEMMA StepArrive ==
  ASSUME PassiveInv, NEW t \in Threads, Arrive(t)
  PROVE  PassiveInv'
<1> DEFINE r == t[2]
<1>1. /\ cont[t] # <<>> /\ Head(cont[t]).op = "meet"
      /\ bool' = [bool EXCEPT ![r] = ~bool[r]] /\ msg' = msg /\ inbox' = inbox
  BY DEF Arrive, Runs, network
<1>2. r \in Ranks /\ bool[r] \in BOOLEAN /\ (t = user(r) \/ t = passive(r)) /\ user(r) # passive(r)
  BY Mine, Naming
<1>3. /\ bool'[r] = ~bool[r]
      /\ \A q \in Ranks \ {r} : bool'[q] = bool[q]
  BY <1>1, <1>2 DEF PassiveInv, TypeInv
<1>4. CASE ~bool[r] /\ waiting' = [waiting EXCEPT ![r] = @ \cup {t}] /\ Continue(t, <<Woken>>)
  <2>1. /\ waiting'[r] = waiting[r] \cup {t} /\ bool'[r] = TRUE
        /\ \A q \in Ranks \ {r} : waiting'[q] = waiting[q]
        /\ cont' = [cont EXCEPT ![t] = <<Woken>> \o Tail(cont[t])]
    BY <1>2, <1>3, <1>4 DEF PassiveInv, TypeInv, Continue
  <2>2. ASSUME t = user(r)
        PROVE  Meeting(r, <<Woken>> \o Tail(cont[t]), cont[passive(r)], bool'[r], waiting'[r], msg'[r])
    <3>1. Meeting(r, <<Woken>> \o Tail(cont[t]), cont[passive(r)], TRUE,
                  waiting[r] \cup {user(r)}, msg[r])
      <4>1. Meeting(r, cont[t], cont[passive(r)], bool[r], waiting[r], msg[r])
        BY <2>2, Mine
      <4>2. cont[t] # <<>> /\ Head(cont[t]).op = "meet" /\ ~bool[r]
        BY <1>1, <1>4
      <4> HIDE DEF r
      <4> QED
        BY <4>1, <4>2, UserArrives
    <3>2. waiting'[r] = waiting[r] \cup {user(r)} /\ bool'[r] = TRUE /\ msg'[r] = msg[r]
      BY <1>1, <2>1, <2>2
    <3> QED
      BY <3>1, <3>2
  <2>3. ASSUME t = passive(r)
        PROVE  Meeting(r, cont[user(r)], <<Woken>> \o Tail(cont[t]), bool'[r], waiting'[r], msg'[r])
    <3>1. Meeting(r, cont[user(r)], <<Woken>> \o Tail(cont[t]), TRUE,
                  waiting[r] \cup {passive(r)}, msg[r])
      <4>1. Meeting(r, cont[user(r)], cont[t], bool[r], waiting[r], msg[r])
        BY <2>3, Mine
      <4>2. cont[t] # <<>> /\ Head(cont[t]).op = "meet" /\ ~bool[r]
        BY <1>1, <1>4
      <4> HIDE DEF r
      <4> QED
        BY <4>1, <4>2, PassiveArrives
    <3>2. waiting'[r] = waiting[r] \cup {passive(r)} /\ bool'[r] = TRUE /\ msg'[r] = msg[r]
      BY <1>1, <2>1, <2>3
    <3> QED
      BY <3>1, <3>2
  <2>4. \A q \in Ranks : BarrierInv(q)'
    BY <1>1, <1>3, <2>1, <2>2, <2>3, OtherRanks
  <2>5. TypeInv'
    BY <1>1, <1>2, <1>4, <2>1 DEF PassiveInv, TypeInv
  <2> QED
    BY <1>1, <2>4, <2>5 DEF PassiveInv, MessagesInv
<1>5. CASE /\ bool[r] /\ Return(t)
           /\ \E woken \in Signalled(r) : waiting' = [waiting EXCEPT ![r] = @ \ woken]
  <2>1. PICK woken \in Signalled(r) : waiting' = [waiting EXCEPT ![r] = @ \ woken]
    BY <1>5
  <2>2. /\ waiting'[r] = waiting[r] \ woken /\ bool'[r] = FALSE
        /\ \A q \in Ranks \ {r} : waiting'[q] = waiting[q]
        /\ cont' = [cont EXCEPT ![t] = <<>> \o Tail(cont[t])]
    BY <1>2, <1>3, <1>5, <2>1 DEF PassiveInv, TypeInv, Return, Continue
  <2>3. ASSUME NEW u, waiting[r] = {u} PROVE waiting'[r] = {}
    BY <2>1, <2>2, <2>3 DEF Signalled
  <2>4. ASSUME t = user(r)
        PROVE  Meeting(r, <<>> \o Tail(cont[t]), cont[passive(r)], bool'[r], waiting'[r], msg'[r])
    <3>1. /\ waiting[r] = {passive(r)}
          /\ Meeting(r, <<>> \o Tail(cont[t]), cont[passive(r)], FALSE, {}, msg[r])
      BY <1>1, <1>5, <2>4, Mine, UserArrives
    <3>2. waiting'[r] = {} /\ bool'[r] = FALSE /\ msg'[r] = msg[r]
      BY <1>1, <2>2, <2>3, <3>1
    <3> QED
      BY <3>1, <3>2
  <2>5. ASSUME t = passive(r)
        PROVE  Meeting(r, cont[user(r)], <<>> \o Tail(cont[t]), bool'[r], waiting'[r], msg'[r])
    <3>1. /\ waiting[r] = {user(r)}
          /\ Meeting(r, cont[user(r)], <<>> \o Tail(cont[t]), FALSE, {}, msg[r])
      BY <1>1, <1>5, <2>5, Mine, PassiveArrives
    <3>2. waiting'[r] = {} /\ bool'[r] = FALSE /\ msg'[r] = msg[r]
      BY <1>1, <2>2, <2>3, <3>1
    <3> QED
      BY <3>1, <3>2
  <2>6. \A q \in Ranks : BarrierInv(q)'
    BY <1>1, <1>3, <2>2, <2>4, <2>5, OtherRanks
  <2>7. TypeInv'
    BY <1>1, <1>2, <2>1, <2>2 DEF PassiveInv, TypeInv
  <2> QED
    BY <1>1, <2>6, <2>7 DEF PassiveInv, MessagesInv
<1> QED
  BY <1>4, <1>5 DEF Arrive

LEMMA StepWake ==
  ASSUME PassiveInv, NEW t \in Threads, Wake(t), ~SpuriousWakeups
  PROVE  PassiveInv'
<1> DEFINE r == t[2]
<1>1. /\ cont[t] # <<>> /\ Head(cont[t]).op = "woken" /\ t \notin waiting[r]
      /\ cont' = [cont EXCEPT ![t] = <<>> \o Tail(cont[t])]
      /\ waiting' = [waiting EXCEPT ![r] = @ \ {t}]
      /\ bool' = bool /\ msg' = msg /\ inbox' = inbox
  BY DEF Wake, Runs, Return, Continue, network
<1>2. r \in Ranks
  BY Mine
<1>3. /\ waiting'[r] = waiting[r] \ {t}
      /\ \A q \in Ranks \ {r} : waiting'[q] = waiting[q]
  BY <1>1, <1>2 DEF PassiveInv, TypeInv
<1>4. ASSUME t = user(r)
      PROVE  Meeting(r, <<>> \o Tail(cont[t]), cont[passive(r)], bool'[r], waiting'[r], msg'[r])
  <2>1. Meeting(r, <<>> \o Tail(cont[t]), cont[passive(r)], bool[r], waiting[r] \ {user(r)}, msg[r])
    BY <1>1, <1>4, Mine, UserWakes
  <2> QED
    BY <1>1, <1>3, <1>4, <2>1
<1>5. ASSUME t = passive(r)
      PROVE  Meeting(r, cont[user(r)], <<>> \o Tail(cont[t]), bool'[r], waiting'[r], msg'[r])
  <2>1. Meeting(r, cont[user(r)], <<>> \o Tail(cont[t]), bool[r], waiting[r] \ {passive(r)}, msg[r])
    BY <1>1, <1>5, Mine, PassiveWakes
  <2> QED
    BY <1>1, <1>3, <1>5, <2>1
<1>6. \A q \in Ranks : BarrierInv(q)'
  BY <1>1, <1>3, <1>4, <1>5, OtherRanks
<1>7. TypeInv'
  BY <1>1 DEF PassiveInv, TypeInv
<1> QED
  BY <1>1, <1>6, <1>7 DEF PassiveInv, MessagesInv

LEMMA StepCopy ==
  ASSUME PassiveInv, NEW t \in Threads, CopyMessage(t)
  PROVE  PassiveInv'
<1> DEFINE r == t[2]
<1>1. /\ cont[t] # <<>> /\ Head(cont[t]).op = "copy"
      /\ cont' = [cont EXCEPT ![t] = <<>> \o Tail(cont[t])]
      /\ msg' = [msg EXCEPT ![r] = NoMessage]
      /\ bool' = bool /\ waiting' = waiting /\ inbox' = inbox
  BY DEF CopyMessage, Runs, Return, Continue
<1>2. t = user(r) /\ t # passive(r) /\ r \in Ranks
  BY <1>1, WhoRuns, Naming
<1>3. /\ msg'[r] = NoMessage
      /\ \A q \in Ranks \ {r} : msg'[q] = msg[q]
  BY <1>1, <1>2 DEF PassiveInv, TypeInv
<1>4. Meeting(r, <<>> \o Tail(cont[t]), cont[passive(r)], bool[r], waiting[r], NoMessage)
  BY <1>1, <1>2, Mine, UserCopies
<1>5. \A q \in Ranks : BarrierInv(q)'
  BY <1>1, <1>2, <1>3, <1>4, OtherRanks
<1>6. TypeInv'
  BY <1>1 DEF PassiveInv, TypeInv
<1> QED
  BY <1>1, <1>5, <1>6 DEF PassiveInv, MessagesInv

LEMMA StepReceive ==
  ASSUME PassiveInv, NEW r \in Ranks, recvPassive(r)
  PROVE  PassiveInv'
<1>1. PICK s \in Ranks :
        /\ inbox[r][s] # <<>>
        /\ inbox' = [inbox EXCEPT ![r][s] = Tail(@)]
        /\ cont' = [cont EXCEPT ![passive(r)] = Handler(r, s, Head(inbox[r][s]))]
  BY DEF recvPassive
<1>2. cont[passive(r)] = <<>> /\ bool' = bool /\ waiting' = waiting /\ msg' = msg
  BY DEF recvPassive, forward
<1> DEFINE t == passive(r)
           m == Head(inbox[r][s])
<1>3. t \in Threads /\ t[2] = r /\ t # user(r)
  BY Naming
<1>4. m.tag \in {"FNSH", "RTBD", "DATE"}
  <2>1. PICK S : inbox[r][s] \in Seq(S) /\ \A x \in S : x.tag \in {"FNSH", "RTBD", "DATE"}
    BY DEF PassiveInv, MessagesInv
  <2>2. m \in S
    BY <1>1, <2>1, HeadTailProperties
  <2> QED
    BY <2>1, <2>2
<1>5. Meeting(r, cont[user(r)], cont[t], bool[r], waiting[r], msg[r])
  BY <1>3, Mine
<1>6. Meeting(r, cont[user(r)], Handler(r, s, m), bool[r], waiting[r], msg[r])
  BY <1>2, <1>4, <1>5, PassiveReceives
<1> HIDE DEF m
<1>7. \A q \in Ranks : BarrierInv(q)'
  BY <1>1, <1>2, <1>3, <1>6, OtherRanks DEF m
<1>8. TypeInv'
  BY <1>1, <1>2 DEF PassiveInv, TypeInv
<1>9. ASSUME NEW q \in Ranks, NEW u \in Ranks
      PROVE  \E S : inbox'[q][u] \in Seq(S) /\ \A x \in S : x.tag \in {"FNSH", "RTBD", "DATE"}
  <2>1. PICK S : inbox[q][u] \in Seq(S) /\ \A x \in S : x.tag \in {"FNSH", "RTBD", "DATE"}
    BY DEF PassiveInv, MessagesInv
  <2>2. \/ inbox'[q][u] = inbox[q][u]
        \/ inbox[q][u] # <<>> /\ inbox'[q][u] = Tail(inbox[q][u])
    BY <1>1 DEF PassiveInv, TypeInv
  <2>3. inbox'[q][u] \in Seq(S)
    BY <2>1, <2>2, HeadTailProperties
  <2> QED
    BY <2>1, <2>3
<1> QED
  BY <1>7, <1>8, <1>9 DEF PassiveInv, MessagesInv
-----------------------------------------------------------------------------
(* The invariant holds when the users begin with code like that, *)
LEMMA PassiveInvInit ==
  ASSUME PassiveInit, DOMAIN cont = Threads,
         \A r \in Ranks : Program(cont[user(r)]) /\ cont[passive(r)] = <<>>
  PROVE  PassiveInv
<1>1. TypeInv
  BY DEF PassiveInit, TypeInv
<1>2. MessagesInv
  <2> SUFFICES ASSUME NEW r \in Ranks, NEW s \in Ranks
               PROVE  \E S : inbox[r][s] \in Seq(S)
                        /\ \A m \in S : m.tag \in {"FNSH", "RTBD", "DATE"}
    BY DEF MessagesInv
  <2>1. inbox[r][s] \in Seq({})
    BY DEF PassiveInit
  <2> QED
    BY <2>1
<1>3. ASSUME NEW r \in Ranks PROVE BarrierInv(r)
  <2>1. /\ Outside(cont[user(r)]) /\ cont[passive(r)] = <<>>
        /\ bool[r] = FALSE /\ waiting[r] = {} /\ msg[r] = NoMessage
    BY DEF PassiveInit, Program
  <2> QED
    BY <2>1 DEF BarrierInv, Meeting, Unpublished
<1> QED
  BY <1>1, <1>2, <1>3 DEF PassiveInv

(* and every step keeps it. *)
LEMMA PassiveInvStep ==
  ASSUME PassiveInv, [PassiveNext]_passiveVars, ~SpuriousWakeups
  PROVE  PassiveInv'
<1>1. ASSUME NEW t \in Threads, Step(t) PROVE PassiveInv'
  BY <1>1, StepMatch, StepPlain, StepPublish, StepArrive, StepWake, StepCopy DEF Step
<1>2. ASSUME NEW r \in Ranks, recvPassive(r) PROVE PassiveInv'
  BY <1>2, StepReceive
<1>3. ASSUME NEW w, Land(w) PROVE PassiveInv'
  <2>1. UNCHANGED cont /\ UNCHANGED forward /\ UNCHANGED inbox
    BY <1>3 DEF Land
  <2>2. TypeInv'
    BY <2>1 DEF PassiveInv, TypeInv, forward
  <2> QED
    BY <2>1, <2>2, StaysPut DEF PassiveInv, MessagesInv
<1>4. CASE UNCHANGED passiveVars
  <2>1. UNCHANGED cont /\ UNCHANGED forward /\ UNCHANGED inbox
    BY <1>4 DEF passiveVars, network
  <2>2. TypeInv'
    BY <2>1 DEF PassiveInv, TypeInv, forward
  <2> QED
    BY <2>1, <2>2, StaysPut DEF PassiveInv, MessagesInv
<1> QED
  BY <1>1, <1>2, <1>3, <1>4 DEF PassiveNext

(* The code of users that the theorem is about: any sequence of calls,     *)
(* receiving included, of which only recvMessg, as a whole, contains the   *)
(* barrier; sent messages have one of the three tags.                      *)
THEOREM CodeOfUsers ==
  /\ \A S : \A c \in Seq(S) : (\A i \in 1 .. Len(c) : Plain(c[i])) => Program(c)
  /\ \A c, d : Program(c) /\ Program(d) => Program(c \o d)
  /\ Program(recvMessg)
  /\ \A r, to, data : Program(sendMessg(r, to, data)) /\ Program(finish(r))
<1>1. \A S : \A c \in Seq(S) : (\A i \in 1 .. Len(c) : Plain(c[i])) => Program(c)
  BY PlainOutside DEF Program
<1>2. \A c, d : Program(c) /\ Program(d) => Program(c \o d)
  BY Compose DEF Program
<1>3. Program(recvMessg)
  <2> DEFINE c == recvMessg
  <2>1. /\ c \in Seq({Meet, Copy}) /\ Len(c) = 3 /\ c # <<>>
        /\ c[1] = Meet /\ c[2] = Copy /\ c[3] = Meet
    BY DEF recvMessg
  <2>2. Meet.op = "meet" /\ Copy.op = "copy"
    BY DEF Meet, Copy
  <2> HIDE DEF c
  <2>3. ASSUME NEW i \in 1 .. Len(c)
        PROVE  /\ c[i].op \in {"copy", "meet"}
               /\ c[i].op = "copy" => Follows(c, i, "meet")
               /\ c[i].op = "meet" => (Follows(c, i, "copy") <=> ~IsSecond(c, i, FALSE))
    <3>1. i = 1 \/ i = 2 \/ i = 3
      BY <2>1
    <3>2. CASE i = 1
      <4>1. Follows(c, i, "copy") /\ ~IsSecond(c, i, FALSE)
        BY <2>1, <2>2, <3>2 DEF Follows, IsSecond
      <4> QED
        BY <2>1, <2>2, <3>2, <4>1
    <3>3. CASE i = 2
      <4>1. Follows(c, i, "meet")
        BY <2>1, <2>2, <3>3 DEF Follows
      <4> QED
        BY <2>1, <2>2, <3>3, <4>1
    <3>4. CASE i = 3
      <4>1. i - 1 = 2
        BY <3>4
      <4>2. IsSecond(c, i, FALSE)
        BY <2>1, <2>2, <3>4, <4>1 DEF IsSecond
      <4>3. ~Follows(c, i, "copy")
        BY <2>1, <3>4 DEF Follows
      <4> QED
        BY <2>1, <2>2, <3>4, <4>2, <4>3
    <3> QED
      BY <3>1, <3>2, <3>3, <3>4
  <2>4. Pending(c, FALSE)
    BY <2>1, <2>3 DEF Pending
  <2> QED
    BY <2>1, <2>2, <2>4 DEF Program, Outside, c
<1>4. ASSUME NEW r, NEW to, NEW data PROVE Program(sendMessg(r, to, data))
  <2> DEFINE temp == Buffer(r, "temp", 0)
             x == Send(to, [tag |-> "DATE", buffer |-> temp], {temp})
             y == Wait(temp, FALSE, {temp})
             z == WriteTo(data, temp, "request")
             c == <<x, y, z>>
  <2>1. Plain(x) /\ Plain(y) /\ Plain(z)
    BY DEF Plain, Send, Wait, WriteTo
  <2>2. sendMessg(r, to, data) = c
    BY DEF sendMessg
  <2> HIDE DEF x, y, z
  <2>3. c \in Seq({x, y, z}) /\ \A i \in 1 .. Len(c) : Plain(c[i])
    BY <2>1
  <2> QED
    BY <1>1, <2>2, <2>3
<1>5. ASSUME NEW r PROVE Program(finish(r))
  <2> DEFINE x == Send(r, [tag |-> "FNSH", buffer |-> NoData], {})
             c == <<x, Join>>
  <2>1. Plain(x) /\ Plain(Join)
    BY DEF Plain, Send, Join
  <2>2. finish(r) = c
    BY DEF finish
  <2> HIDE DEF x
  <2>3. c \in Seq({x, Join}) /\ \A i \in 1 .. Len(c) : Plain(c[i])
    BY <2>1
  <2> QED
    BY <1>1, <2>2, <2>3
<1> QED
  BY <1>1, <1>2, <1>3, <1>4, <1>5

(* The two thread barrier of recvMessg and passive_thread_func_: for every *)
(* number of ranks and whatever the users call, a user copies a message    *)
(* only between the two barriers of the passive thread, so that there is   *)
(* one and the passive thread does not replace it.  It needs that          *)
(* pthread_cond_wait does not return without a signal.                     *)
THEOREM BarrierIsSafe ==
  ASSUME ~SpuriousWakeups
  PROVE  PassiveSpec => []BarrierHolds
<1>1. PassiveInv => BarrierHolds
  <2> SUFFICES ASSUME PassiveInv, NEW r \in Ranks, Runs(user(r), "copy")
               PROVE  /\ msg[r] # NoMessage
                      /\ cont[passive(r)] \in {<<Woken, Meet>>, <<Meet>>, <<Woken>>}
    BY DEF BarrierHolds
  <2>1. cont[user(r)] # <<>> /\ Head(cont[user(r)]).op = "copy"
    BY DEF Runs
  <2>2. Meeting(r, cont[user(r)], cont[passive(r)], bool[r], waiting[r], msg[r])
    BY DEF PassiveInv, BarrierInv
  <2>3. /\ AtCopy(cont[user(r)]) /\ ~Outside(cont[user(r)]) /\ ~InFirst(cont[user(r)])
        /\ ~InSecond(cont[user(r)]) /\ ~AtSecond(cont[user(r)])
    BY <2>1, <2>2, Somewhere, Places
  <2> QED
    BY <2>2, <2>3 DEF Meeting
<1>2. PassiveSpec => []PassiveInv
  <2>1. /\ PassiveInit /\ DOMAIN cont = Threads
        /\ \A r \in Ranks : Program(cont[user(r)]) /\ cont[passive(r)] = <<>>
        => PassiveInv
    BY PassiveInvInit
  <2>2. PassiveInv /\ [PassiveNext]_passiveVars => PassiveInv'
    BY PassiveInvStep
  <2> QED
    BY <2>1, <2>2, PTL DEF PassiveSpec
<1> QED
  BY <1>1, <1>2, PTL
=============================================================================

------------------------------- MODULE Barrier -------------------------------
(***************************************************************************)
(* collectives::blocking::Barrier, the dissemination barrier of Hensgen,   *)
(* Finkel and Manber.  Rank r signals rank r + 2^i in step i and waits for *)
(* the signal of rank r - 2^i; each signal is acknowledged before the step *)
(* ends, so that the notification can be used again.                       *)
(***************************************************************************)
EXTENDS Endpoint, Integers

CONSTANTS
  N,           \* group.size()
  RankModulus, \* number of values of Rank::Type (2^16 in the code)
  MaxRounds    \* bound on the calls of execute() per rank

Ranks == 0 .. N - 1

(* number_steps = ceil(log2(N)): the least k with N <= 2^k. *)
IsNumberSteps(k) == N <= 2^k /\ (k = 0 \/ 2^(k - 1) < N)

(* Faulty variant: the last step is left out. *)
number_steps_Short == CHOOSE k \in 0..N : 2^k < N /\ N <= 2^(k + 1)

number_steps == CHOOSE k \in 0..N : IsNumberSteps(k)
Steps == 0 .. number_steps - 1

(* Rank arithmetic of the sums in the constructor wraps at RankModulus, so *)
(* the group may not be larger than half of it.                            *)
ASSUME SizeAssumption ==
  /\ N \in Nat \ {0}
  /\ RankModulus \in Nat
  /\ 2 * N <= RankModulus
  /\ MaxRounds \in Nat

(* Facts of arithmetic about 2^i that no installed prover derives. *)
ASSUME PowerAssumption ==
  /\ \E k \in 0..N : IsNumberSteps(k)
  /\ 2^0 = 1
  /\ \A i \in 0..N : 2^i \in Nat \ {0} /\ 2^(i + 1) = 2 * 2^i
  /\ \A i \in Steps : 2^i < N
-----------------------------------------------------------------------------
(* Partners of a rank in step i; the sums are of type Rank. *)
Target(r, i) == ((r + 2^i) % RankModulus) % N
Source(r, i) == ((r + N - 2^i) % RankModulus) % N

(* Channel <<r, i>>: source_buffers[i] of r to target_buffers[i] of its    *)
(* target.  Both sides use the target's rank as connection tag.            *)
Channels == Ranks \X Steps

VARIABLES
  pc,     \* pc[r]: next call of execute(), "out" outside of it
  step,   \* step[r]: loop index i
  round   \* round[r]: number of calls of execute() so far

vars == <<pc, step, round, writing, arrived, acking, acked>>

Init ==
  /\ Connected(Channels)
  /\ pc = [r \in Ranks |-> "out"]
  /\ step = [r \in Ranks |-> 0]
  /\ round = [r \in Ranks |-> 0]

Enter(r) ==
  /\ pc[r] = "out" /\ round[r] < MaxRounds
  /\ pc' = [pc EXCEPT ![r] = "initTransfer"]
  /\ step' = [step EXCEPT ![r] = 0]
  /\ round' = [round EXCEPT ![r] = @ + 1]
  /\ UNCHANGED endpointVars

InitTransfer(r) ==
  /\ pc[r] = "initTransfer" /\ step[r] < number_steps
  /\ initTransfer(<<r, step[r]>>)
  /\ pc' = [pc EXCEPT ![r] = "waitForCompletion"]
  /\ UNCHANGED <<step, round, arrived, acking, acked>>

WaitForCompletion(r) ==
  /\ pc[r] = "waitForCompletion"
  /\ targetCompletes(<<Source(r, step[r]), step[r]>>)
  /\ pc' = [pc EXCEPT ![r] = "ackTransfer"]
  /\ UNCHANGED <<step, round, writing, acking, acked>>

AckTransfer(r) ==
  /\ pc[r] = "ackTransfer"
  /\ ackTransfer(<<Source(r, step[r]), step[r]>>)
  /\ pc' = [pc EXCEPT ![r] = "waitForTransferAck"]
  /\ UNCHANGED <<step, round, writing, arrived, acked>>

(* Faulty variants: the acknowledgement is not awaited; it is not awaited  *)
(* in the last step; the loop index is not incremented.                    *)
WaitForTransferAck_Skipped(r) ==
  /\ pc[r] = "waitForTransferAck"
  /\ pc' = [pc EXCEPT ![r] = "initTransfer"]
  /\ step' = [step EXCEPT ![r] = @ + 1]
  /\ UNCHANGED <<round, endpointVars>>

WaitForTransferAck_LastSkipped(r) ==
  /\ pc[r] = "waitForTransferAck"
  /\ \/ step[r] = number_steps - 1 /\ UNCHANGED acked
     \/ step[r] < number_steps - 1 /\ sourceAcked(<<r, step[r]>>)
  /\ pc' = [pc EXCEPT ![r] = "initTransfer"]
  /\ step' = [step EXCEPT ![r] = @ + 1]
  /\ UNCHANGED <<round, writing, arrived, acking>>

WaitForTransferAck_NoIncrement(r) ==
  /\ pc[r] = "waitForTransferAck"
  /\ sourceAcked(<<r, step[r]>>)
  /\ pc' = [pc EXCEPT ![r] = "initTransfer"]
  /\ UNCHANGED <<step, round, writing, arrived, acking>>

WaitForTransferAck(r) ==
  /\ pc[r] = "waitForTransferAck"
  /\ sourceAcked(<<r, step[r]>>)
  /\ pc' = [pc EXCEPT ![r] = "initTransfer"]
  /\ step' = [step EXCEPT ![r] = @ + 1]
  /\ UNCHANGED <<round, writing, arrived, acking>>

Leave(r) ==
  /\ pc[r] = "initTransfer" /\ step[r] = number_steps
  /\ pc' = [pc EXCEPT ![r] = "out"]
  /\ UNCHANGED <<step, round, writing, arrived, acking, acked>>

Land(c) ==
  /\ WriteLands(c) \/ AckLands(c)
  /\ UNCHANGED <<pc, step, round>>

Execute(r) ==
  \/ InitTransfer(r) \/ WaitForCompletion(r)
  \/ AckTransfer(r) \/ WaitForTransferAck(r) \/ Leave(r)

Next ==
  \/ \E r \in Ranks : Enter(r) \/ Execute(r)
  \/ \E c \in Channels : Land(c)

Spec == Init /\ [][Next]_vars

(* Ranks run the calls they have begun and make all their calls of         *)
(* execute(), and GASPI lets posted operations land.  No step is ever      *)
(* repeated, so it is enough that something happens while something can.   *)
Fairness == WF_vars(Next)

FairSpec == Spec /\ Fairness
-----------------------------------------------------------------------------
TypeOK ==
  /\ EndpointTypeOK(Channels)
  /\ pc \in [Ranks -> {"out", "initTransfer", "waitForCompletion",
                       "ackTransfer", "waitForTransferAck"}]
  /\ step \in [Ranks -> 0..number_steps]
  /\ round \in [Ranks -> Nat]
  /\ \A r \in Ranks : pc[r] \notin {"out", "initTransfer"} => step[r] \in Steps

(* execute() never posts a notification on top of one that its partner has *)
(* not consumed, in any step of any number of consecutive calls: a lost    *)
(* one would leave the partner in waitForNotification for ever.            *)
NoNotificationLost == OneOutstanding(Channels)

(* A rank that has returned from its k-th call of execute() knows that     *)
(* every rank has made its k-th call.                                      *)
Synchronized ==
  \A r, q \in Ranks : pc[r] = "out" => round[q] >= round[r]

(* A rank that has returned from the last call, the one in ~Runtime, may   *)
(* delete its segments: of the transfers and acknowledgements to and from  *)
(* its buffers only its own acknowledgements can still be under way, and   *)
(* they read nothing of it.                                                *)
SafeToTearDown ==
  \A r \in Ranks : pc[r] = "out" /\ round[r] = MaxRounds =>
    \A i \in Steps :
      LET in == <<Source(r, i), i>>  out == <<r, i>> IN
        /\ writing[in] = 0 /\ arrived[in] = 0
        /\ writing[out] = 0 /\ acking[out] = 0 /\ acked[out] = 0

(* execute() implements the promise of a barrier. *)
Abstract == INSTANCE SyncBarrier WITH
  inside <- [r \in Ranks |-> pc[r] # "out"]

ImplementsBarrier == Abstract!Spec

(* Every call of execute() returns when all ranks call it. *)
CallsReturn == \A r \in Ranks : pc[r] # "out" ~> pc[r] = "out"
-----------------------------------------------------------------------------
(* The inductive invariant.  A rank outside of execute() counts as having  *)
(* done all the steps of the calls it has made.                            *)

Done(r, i, here) == pc[r] = "out" \/ step[r] > i \/ (step[r] = i /\ pc[r] \in here)

Count(r, i, here) == IF Done(r, i, here) THEN round[r] ELSE round[r] - 1

Sent(r, i) ==
  Count(r, i, {"waitForCompletion", "ackTransfer", "waitForTransferAck"})
Received(r, i)    == Count(r, i, {"ackTransfer", "waitForTransferAck"})
Acknowledged(r, i) == Count(r, i, {"waitForTransferAck"})
Confirmed(r, i)   == Count(r, i, {})

(* The notifications on a channel account for what the two ranks have done. *)
ChannelCounts ==
  \A r \in Ranks, i \in Steps :
    LET c == <<r, i>>  t == Target(r, i) IN
      /\ writing[c] + arrived[c] = Sent(r, i) - Received(t, i)
      /\ acking[c] + acked[c] = Acknowledged(t, i) - Confirmed(r, i)

(* The rank d places behind r on the ring of ranks. *)
Behind(r, d) == IF d <= r THEN r - d ELSE r - d + N

(* Steps of the current call in which r has received the signal. *)
Progress(r) ==
  CASE pc[r] = "out" -> number_steps
    [] pc[r] \in {"initTransfer", "waitForCompletion"} -> step[r]
    [] OTHER -> step[r] + 1

(* After i steps the 2^i ranks behind r are known to have called. *)
Coverage ==
  \A r \in Ranks, d \in Ranks : \A i \in 0..Progress(r) :
    d < 2^i => round[Behind(r, d)] >= round[r]

(* No rank is more than one call ahead of another. *)
Lockstep == \A p, q \in Ranks : round[p] >= round[q] - 1

IInv ==
  /\ TypeOK
  /\ \A r \in Ranks : pc[r] # "out" => round[r] >= 1
  /\ ChannelCounts
  /\ Coverage
  /\ Lockstep
=============================================================================

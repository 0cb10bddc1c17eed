---------------------------- MODULE BarrierProofs ----------------------------
(***************************************************************************)
(* The theorems about Barrier, for every group size and number of calls.   *)
(***************************************************************************)
EXTENDS Barrier, TLAPS

(* number_steps steps are enough to cover the group. *)
LEMMA NumberSteps ==
  /\ number_steps \in 0..N
  /\ N <= 2^number_steps
BY SizeAssumption, PowerAssumption DEF number_steps, IsNumberSteps

(* The remainder of what is less than twice the modulus. *)
LEMMA Remainder ==
  ASSUME NEW m \in Nat \ {0}, NEW a \in 0 .. 2*m - 1
  PROVE a % m = IF a < m THEN a ELSE a - m
<1>1. CASE a < m
  BY <1>1
<1>2. CASE a >= m
  BY <1>2
<1> QED BY <1>1, <1>2

(* The distance 2^i of a step is less than the group size. *)
LEMMA StepPower ==
  ASSUME NEW i \in Steps
  PROVE  i \in Nat /\ i <= N /\ 2^i \in 1 .. N - 1 /\ 2^(i + 1) = 2 * 2^i
<1>1. i \in 0..N
  BY SizeAssumption, NumberSteps DEF Steps
<1>2. 2^i \in Nat \ {0} /\ 2^(i + 1) = 2 * 2^i
  BY <1>1, PowerAssumption
<1>3. 2^i < N
  BY PowerAssumption
<1> QED
  BY <1>1, <1>2, <1>3, SizeAssumption

(* The sums of ranks in the constructor do not wrap around. *)
LEMMA RankSum ==
  ASSUME NEW a \in 0 .. 2 * N - 1
  PROVE  (a % RankModulus) % N = IF a < N THEN a ELSE a - N
<1>1. a % RankModulus = a
  BY SizeAssumption
<1>2. a % N = IF a < N THEN a ELSE a - N
  BY SizeAssumption, Remainder
<1> QED
  BY <1>1, <1>2

(* Target and Source are inverse to each other: a rank waits for the rank  *)
(* that signals it.                                                        *)
LEMMA Partners ==
  ASSUME NEW r \in Ranks, NEW i \in Steps
  PROVE  /\ Target(r, i) \in Ranks
         /\ Source(r, i) \in Ranks
         /\ Source(Target(r, i), i) = r
         /\ Target(Source(r, i), i) = r
         /\ Source(r, i) = Behind(r, 2^i)
<1> DEFINE p == 2^i
<1>1. p \in 1 .. N - 1
  BY StepPower
<1>2. \A q \in Ranks : Target(q, i) = IF q + p < N THEN q + p ELSE q + p - N
  BY <1>1, RankSum, SizeAssumption DEF Target, Ranks
<1>3. \A q \in Ranks : Source(q, i) = IF q + N - p < N THEN q + N - p ELSE q - p
  BY <1>1, RankSum, SizeAssumption DEF Source, Ranks
<1> HIDE DEF p
<1>4. Target(r, i) \in Ranks /\ Source(r, i) \in Ranks
  BY <1>1, <1>2, <1>3, SizeAssumption DEF Ranks
<1>5. Source(Target(r, i), i) = r /\ Target(Source(r, i), i) = r
  BY <1>1, <1>2, <1>3, <1>4, SizeAssumption DEF Ranks
<1>6. Source(r, i) = Behind(r, p)
  BY <1>1, <1>3, SizeAssumption DEF Behind, Ranks
<1> QED
  BY <1>4, <1>5, <1>6 DEF p
-----------------------------------------------------------------------------
(* The types hold after construction. *)
LEMMA TypeInit == Init => TypeOK
BY SizeAssumption, NumberSteps
   DEF Init, TypeOK, Connected, EndpointTypeOK, Steps

(* Every step preserves the types. *)
LEMMA TypeStep == TypeOK /\ [Next]_vars => TypeOK'
<1> SUFFICES ASSUME TypeOK, [Next]_vars PROVE TypeOK'
  OBVIOUS
<1> USE DEF TypeOK, EndpointTypeOK
<1>1. ASSUME NEW r \in Ranks, Enter(r) PROVE TypeOK'
  BY <1>1, NumberSteps DEF Enter, endpointVars
<1>2. ASSUME NEW r \in Ranks, InitTransfer(r) PROVE TypeOK'
  BY <1>2, NumberSteps DEF InitTransfer, initTransfer, Steps, Channels
<1>3. ASSUME NEW r \in Ranks, WaitForCompletion(r) PROVE TypeOK'
  <2>1. step[r] \in Steps /\ <<Source(r, step[r]), step[r]>> \in Channels
    BY <1>3, Partners DEF WaitForCompletion, Channels
  <2> QED
    BY <1>3, <2>1 DEF WaitForCompletion, targetCompletes
<1>4. ASSUME NEW r \in Ranks, AckTransfer(r) PROVE TypeOK'
  <2>1. step[r] \in Steps /\ <<Source(r, step[r]), step[r]>> \in Channels
    BY <1>4, Partners DEF AckTransfer, Channels
  <2> QED
    BY <1>4, <2>1 DEF AckTransfer, ackTransfer
<1>5. ASSUME NEW r \in Ranks, WaitForTransferAck(r) PROVE TypeOK'
  <2>1. step[r] + 1 \in 0..number_steps /\ <<r, step[r]>> \in Channels
    BY <1>5, NumberSteps, SizeAssumption DEF WaitForTransferAck, Steps, Channels
  <2> QED
    BY <1>5, <2>1 DEF WaitForTransferAck, sourceAcked
<1>6. ASSUME NEW r \in Ranks, Leave(r) PROVE TypeOK'
  BY <1>6 DEF Leave
<1>7. ASSUME NEW c \in Channels, Land(c) PROVE TypeOK'
  BY <1>7 DEF Land, WriteLands, AckLands
<1>8. CASE UNCHANGED vars
  BY <1>8 DEF vars
<1> QED
  BY <1>1, <1>2, <1>3, <1>4, <1>5, <1>6, <1>7, <1>8
     DEF Next, Execute

(* The types of Barrier's variables hold in every reachable state. *)
THEOREM TypeCorrect == Spec => []TypeOK
BY TypeInit, TypeStep, PTL DEF Spec
-----------------------------------------------------------------------------
(* How each step of execute() changes the four counters of a rank. *)

(* The counters are integers. *)
LEMMA CountTypes ==
  ASSUME TypeOK, NEW q \in Ranks, NEW j \in Steps
  PROVE  /\ Sent(q, j) \in Int /\ Received(q, j) \in Int
         /\ Acknowledged(q, j) \in Int /\ Confirmed(q, j) \in Int
BY DEF TypeOK, Sent, Received, Acknowledged, Confirmed, Count

(* Entering and leaving change no counter. *)
LEMMA CountsKept ==
  ASSUME TypeOK, NEW r \in Ranks, Enter(r) \/ Leave(r),
         NEW q \in Ranks, NEW j \in Steps
  PROVE  /\ Sent(q, j)' = Sent(q, j) /\ Received(q, j)' = Received(q, j)
         /\ Acknowledged(q, j)' = Acknowledged(q, j)
         /\ Confirmed(q, j)' = Confirmed(q, j)
BY NumberSteps DEF TypeOK, Enter, Leave, Sent, Received, Acknowledged,
   Confirmed, Count, Done, Steps

(* initTransfer counts as sent. *)
LEMMA CountsInitTransfer ==
  ASSUME TypeOK, NEW r \in Ranks, InitTransfer(r),
         NEW q \in Ranks, NEW j \in Steps
  PROVE  /\ Sent(q, j)' = IF q = r /\ j = step[r] THEN Sent(q, j) + 1
                                                 ELSE Sent(q, j)
         /\ Received(q, j)' = Received(q, j)
         /\ Acknowledged(q, j)' = Acknowledged(q, j)
         /\ Confirmed(q, j)' = Confirmed(q, j)
BY NumberSteps DEF TypeOK, InitTransfer, Sent, Received, Acknowledged,
   Confirmed, Count, Done, Steps

(* waitForCompletion counts as received. *)
LEMMA CountsWaitForCompletion ==
  ASSUME TypeOK, NEW r \in Ranks, WaitForCompletion(r),
         NEW q \in Ranks, NEW j \in Steps
  PROVE  /\ Sent(q, j)' = Sent(q, j)
         /\ Received(q, j)' = IF q = r /\ j = step[r] THEN Received(q, j) + 1
                                                     ELSE Received(q, j)
         /\ Acknowledged(q, j)' = Acknowledged(q, j)
         /\ Confirmed(q, j)' = Confirmed(q, j)
BY NumberSteps DEF TypeOK, WaitForCompletion, Sent, Received, Acknowledged,
   Confirmed, Count, Done, Steps

(* ackTransfer counts as acknowledged. *)
LEMMA CountsAckTransfer ==
  ASSUME TypeOK, NEW r \in Ranks, AckTransfer(r),
         NEW q \in Ranks, NEW j \in Steps
  PROVE  /\ Sent(q, j)' = Sent(q, j)
         /\ Received(q, j)' = Received(q, j)
         /\ Acknowledged(q, j)' =
              IF q = r /\ j = step[r] THEN Acknowledged(q, j) + 1
                                     ELSE Acknowledged(q, j)
         /\ Confirmed(q, j)' = Confirmed(q, j)
BY NumberSteps DEF TypeOK, AckTransfer, Sent, Received, Acknowledged,
   Confirmed, Count, Done, Steps

(* waitForTransferAck counts as confirmed. *)
LEMMA CountsWaitForTransferAck ==
  ASSUME TypeOK, NEW r \in Ranks, WaitForTransferAck(r),
         NEW q \in Ranks, NEW j \in Steps
  PROVE  /\ Sent(q, j)' = Sent(q, j)
         /\ Received(q, j)' = Received(q, j)
         /\ Acknowledged(q, j)' = Acknowledged(q, j)
         /\ Confirmed(q, j)' = IF q = r /\ j = step[r] THEN Confirmed(q, j) + 1
                                                      ELSE Confirmed(q, j)
BY NumberSteps DEF TypeOK, WaitForTransferAck, Sent, Received, Acknowledged,
   Confirmed, Count, Done, Steps
-----------------------------------------------------------------------------
(* What a rank has confirmed it has sent, and what it has acknowledged it  *)
(* has received; it is never more than one signal ahead of its partner.    *)
LEMMA CountOrder ==
  ASSUME TypeOK, NEW q \in Ranks, NEW j \in Steps
  PROVE  /\ Sent(q, j) <= Confirmed(q, j) + 1
         /\ Acknowledged(q, j) <= Received(q, j)
BY DEF TypeOK, Sent, Received, Acknowledged, Confirmed, Count, Done

(* A channel that is accounted for has at most one signal under way. *)
LEMMA AtMostOne == TypeOK /\ ChannelCounts => NoNotificationLost
<1> SUFFICES ASSUME TypeOK, ChannelCounts, NEW q \in Ranks, NEW j \in Steps
             PROVE  /\ writing[<<q, j>>] + arrived[<<q, j>>] <= 1
                    /\ acking[<<q, j>>] + acked[<<q, j>>] <= 1
  BY DEF NoNotificationLost, OneOutstanding, Channels
<1> DEFINE c == <<q, j>>
           t == Target(q, j)
<1>1. t \in Ranks /\ c \in Channels
  BY Partners DEF Channels
<1>2. /\ writing[c] + arrived[c] = Sent(q, j) - Received(t, j)
      /\ acking[c] + acked[c] = Acknowledged(t, j) - Confirmed(q, j)
  BY DEF ChannelCounts
<1>3. /\ writing[c] \in Nat /\ arrived[c] \in 0..1
      /\ acking[c] \in Nat /\ acked[c] \in 0..1
  BY <1>1 DEF TypeOK, EndpointTypeOK
<1>4. /\ Sent(q, j) \in Int /\ Confirmed(q, j) \in Int
      /\ Received(t, j) \in Int /\ Acknowledged(t, j) \in Int
  BY <1>1, CountTypes
<1>5. Sent(q, j) <= Confirmed(q, j) + 1 /\ Acknowledged(t, j) <= Received(t, j)
  BY <1>1, CountOrder
<1> HIDE DEF c, t
<1>6. writing[c] + arrived[c] <= 1 /\ acking[c] + acked[c] <= 1
  BY <1>2, <1>3, <1>4, <1>5
<1> QED
  BY <1>6 DEF c

(* The notifications of a channel keep accounting for the counters.  A     *)
(* channel into r in step i is the one that starts at Source(r, i).        *)
LEMMA ChannelCountsStep ==
  TypeOK /\ ChannelCounts /\ [Next]_vars => ChannelCounts'
<1> SUFFICES ASSUME TypeOK, ChannelCounts, [Next]_vars,
                    NEW q \in Ranks, NEW j \in Steps
             PROVE
    LET c == <<q, j>>  t == Target(q, j) IN
      /\ writing'[c] + arrived'[c] = Sent(q, j)' - Received(t, j)'
      /\ acking'[c] + acked'[c] = Acknowledged(t, j)' - Confirmed(q, j)'
  BY DEF ChannelCounts, Target
<1> DEFINE c == <<q, j>>
           t == Target(q, j)
<1>t. t \in Ranks /\ Source(t, j) = q
  BY Partners
<1>c. c \in Channels
  BY DEF Channels
<1>0. /\ writing[c] + arrived[c] = Sent(q, j) - Received(t, j)
      /\ acking[c] + acked[c] = Acknowledged(t, j) - Confirmed(q, j)
  BY DEF ChannelCounts
<1>n. /\ writing \in [Channels -> Nat] /\ arrived \in [Channels -> 0..1]
      /\ acking \in [Channels -> Nat] /\ acked \in [Channels -> 0..1]
      /\ writing[c] \in Nat /\ arrived[c] \in 0..1
      /\ acking[c] \in Nat /\ acked[c] \in 0..1
      /\ Sent(q, j) \in Int /\ Confirmed(q, j) \in Int
      /\ Received(t, j) \in Int /\ Acknowledged(t, j) \in Int
  BY <1>t, <1>c, CountTypes DEF TypeOK, EndpointTypeOK
<1> DEFINE Goal == /\ writing'[c] + arrived'[c] = Sent(q, j)' - Received(t, j)'
                   /\ acking'[c] + acked'[c] = Acknowledged(t, j)' - Confirmed(q, j)'
<1> HIDE DEF c, t
<1>1. ASSUME NEW r \in Ranks, Enter(r) \/ Leave(r) PROVE Goal
  <2>1. UNCHANGED endpointVars
    BY <1>1 DEF Enter, Leave, endpointVars
  <2> QED
    BY <1>1, <2>1, <1>0, <1>t, CountsKept DEF endpointVars
<1>2. ASSUME NEW r \in Ranks, InitTransfer(r) PROVE Goal
  <2>1. writing' = [writing EXCEPT ![<<r, step[r]>>] = @ + 1]
        /\ UNCHANGED <<arrived, acking, acked>>
    BY <1>2 DEF InitTransfer, initTransfer
  <2>2. Received(t, j)' = Received(t, j) /\ Acknowledged(t, j)' = Acknowledged(t, j)
        /\ Confirmed(q, j)' = Confirmed(q, j)
    BY <1>2, <1>t, CountsInitTransfer
  <2>3. CASE q = r /\ j = step[r]
    BY <2>1, <2>2, <2>3, <1>2, <1>0, <1>n, <1>c, CountsInitTransfer DEF c
  <2>4. CASE ~(q = r /\ j = step[r])
    <3>1. c # <<r, step[r]>>
      BY <2>4 DEF c
    <3> QED
      BY <2>1, <2>2, <2>4, <3>1, <1>2, <1>0, <1>n, <1>c, CountsInitTransfer
  <2> QED BY <2>3, <2>4
<1>3. ASSUME NEW r \in Ranks, WaitForCompletion(r) PROVE Goal
  <2> DEFINE i == step[r]
             s == Source(r, i)
  <2>0. i \in Steps /\ s \in Ranks /\ Target(s, i) = r
    BY <1>3, Partners DEF WaitForCompletion, TypeOK
  <2>1. arrived[<<s, i>>] # 0 /\ arrived' = [arrived EXCEPT ![<<s, i>>] = 0]
        /\ UNCHANGED <<writing, acking, acked>>
    BY <1>3 DEF WaitForCompletion, targetCompletes
  <2>2. Sent(q, j)' = Sent(q, j) /\ Acknowledged(t, j)' = Acknowledged(t, j)
        /\ Confirmed(q, j)' = Confirmed(q, j)
        /\ Received(t, j)' = IF t = r /\ j = i THEN Received(t, j) + 1
                                              ELSE Received(t, j)
    BY <1>3, <1>t, CountsWaitForCompletion
  <2>3. (t = r /\ j = i) <=> (c = <<s, i>>)
    BY <1>t, <2>0 DEF c, t
  <2> HIDE DEF i, s
  <2>4. CASE c = <<s, i>>
    BY <2>1, <2>2, <2>3, <2>4, <1>0, <1>n, <1>c
  <2>5. CASE c # <<s, i>>
    BY <2>1, <2>2, <2>3, <2>5, <1>0, <1>n, <1>c
  <2> QED BY <2>4, <2>5
<1>4. ASSUME NEW r \in Ranks, AckTransfer(r) PROVE Goal
  <2> DEFINE i == step[r]
             s == Source(r, i)
  <2>0. i \in Steps /\ s \in Ranks /\ Target(s, i) = r
    BY <1>4, Partners DEF AckTransfer, TypeOK
  <2>1. acking' = [acking EXCEPT ![<<s, i>>] = @ + 1]
        /\ UNCHANGED <<writing, arrived, acked>>
    BY <1>4 DEF AckTransfer, ackTransfer
  <2>2. Sent(q, j)' = Sent(q, j) /\ Received(t, j)' = Received(t, j)
        /\ Confirmed(q, j)' = Confirmed(q, j)
        /\ Acknowledged(t, j)' = IF t = r /\ j = i THEN Acknowledged(t, j) + 1
                                                  ELSE Acknowledged(t, j)
    BY <1>4, <1>t, CountsAckTransfer
  <2>3. (t = r /\ j = i) <=> (c = <<s, i>>)
    BY <1>t, <2>0 DEF c, t
  <2> HIDE DEF i, s
  <2>4. CASE c = <<s, i>>
    BY <2>1, <2>2, <2>3, <2>4, <1>0, <1>n, <1>c
  <2>5. CASE c # <<s, i>>
    BY <2>1, <2>2, <2>3, <2>5, <1>0, <1>n, <1>c
  <2> QED BY <2>4, <2>5
<1>5. ASSUME NEW r \in Ranks, WaitForTransferAck(r) PROVE Goal
  <2>1. acked[<<r, step[r]>>] # 0 /\ acked' = [acked EXCEPT ![<<r, step[r]>>] = 0]
        /\ UNCHANGED <<writing, arrived, acking>>
    BY <1>5 DEF WaitForTransferAck, sourceAcked
  <2>2. Sent(q, j)' = Sent(q, j) /\ Received(t, j)' = Received(t, j)
        /\ Acknowledged(t, j)' = Acknowledged(t, j)
        /\ Confirmed(q, j)' = IF q = r /\ j = step[r] THEN Confirmed(q, j) + 1
                                                    ELSE Confirmed(q, j)
    BY <1>5, <1>t, CountsWaitForTransferAck
  <2>3. (q = r /\ j = step[r]) <=> (c = <<r, step[r]>>)
    BY DEF c
  <2>4. CASE c = <<r, step[r]>>
    BY <2>1, <2>2, <2>3, <2>4, <1>0, <1>n, <1>c
  <2>5. CASE c # <<r, step[r]>>
    BY <2>1, <2>2, <2>3, <2>5, <1>0, <1>n, <1>c
  <2> QED BY <2>4, <2>5
<1>6. ASSUME NEW d \in Channels, Land(d) PROVE Goal
  <2>1. UNCHANGED <<pc, step, round>>
    BY <1>6 DEF Land
  <2>2. /\ Sent(q, j)' = Sent(q, j) /\ Confirmed(q, j)' = Confirmed(q, j)
        /\ Received(t, j)' = Received(t, j) /\ Acknowledged(t, j)' = Acknowledged(t, j)
    BY <2>1 DEF Sent, Confirmed, Received, Acknowledged, Count, Done
  <2>3. writing[d] + arrived[d] <= 1 /\ acking[d] + acked[d] <= 1
    BY AtMostOne DEF NoNotificationLost, OneOutstanding
  <2>4. writing[d] \in Nat /\ arrived[d] \in 0..1 /\ acking[d] \in Nat /\ acked[d] \in 0..1
    BY <1>n
  <2>5. CASE WriteLands(d)
    <3>1. /\ arrived[d] = 0
          /\ writing' = [writing EXCEPT ![d] = @ - 1]
          /\ arrived' = [arrived EXCEPT ![d] = 1]
          /\ UNCHANGED <<acking, acked>>
      BY <2>3, <2>4, <2>5 DEF WriteLands
    <3>2. writing'[c] + arrived'[c] = writing[c] + arrived[c]
      BY <3>1, <1>n, <1>c
    <3> QED
      BY <3>1, <3>2, <2>2, <1>0
  <2>6. CASE AckLands(d)
    <3>1. /\ acked[d] = 0
          /\ acking' = [acking EXCEPT ![d] = @ - 1]
          /\ acked' = [acked EXCEPT ![d] = 1]
          /\ UNCHANGED <<writing, arrived>>
      BY <2>3, <2>4, <2>6 DEF AckLands
    <3>2. acking'[c] + acked'[c] = acking[c] + acked[c]
      BY <3>1, <1>n, <1>c
    <3> QED
      BY <3>1, <3>2, <2>2, <1>0
  <2> QED
    BY <1>6, <2>5, <2>6 DEF Land
<1>7. ASSUME UNCHANGED vars PROVE Goal
  <2>1. UNCHANGED <<pc, step, round>> /\ UNCHANGED endpointVars
    BY <1>7 DEF vars, endpointVars
  <2>2. /\ Sent(q, j)' = Sent(q, j) /\ Confirmed(q, j)' = Confirmed(q, j)
        /\ Received(t, j)' = Received(t, j) /\ Acknowledged(t, j)' = Acknowledged(t, j)
    BY <2>1 DEF Sent, Confirmed, Received, Acknowledged, Count, Done
  <2> QED
    BY <2>1, <2>2, <1>0 DEF endpointVars
<1>8. Goal
  BY <1>1, <1>2, <1>3, <1>4, <1>5, <1>6, <1>7 DEF Next, Execute
<1> QED
  BY <1>8 DEF c, t
-----------------------------------------------------------------------------
(* What is known about the other ranks spreads by a factor of two per step. *)
LEMMA BehindRank ==
  ASSUME NEW r \in Ranks, NEW d \in Ranks
  PROVE  Behind(r, d) \in Ranks
BY SizeAssumption DEF Behind, Ranks

(* A rank that has done all steps covers all ranks. *)
LEMMA Everyone ==
  ASSUME TypeOK, Coverage, NEW r \in Ranks, Progress(r) = number_steps,
         NEW q \in Ranks
  PROVE  round[q] >= round[r]
<1>1. PICK d \in Ranks : Behind(r, d) = q
  <2>1. CASE q <= r
    <3>1. r - q \in Ranks /\ Behind(r, r - q) = q
      BY <2>1, SizeAssumption DEF Behind, Ranks
    <3> QED BY <3>1
  <2>2. CASE q > r
    <3>1. r - q + N \in Ranks /\ Behind(r, r - q + N) = q
      BY <2>2, SizeAssumption DEF Behind, Ranks
    <3> QED BY <3>1
  <2> QED BY <2>1, <2>2, SizeAssumption DEF Ranks
<1>2. d < 2^number_steps
  BY NumberSteps, SizeAssumption, PowerAssumption DEF Ranks
<1> QED
  BY <1>1, <1>2, NumberSteps DEF Coverage

(* Every step keeps the ranks within one call of each other. *)
LEMMA LockstepStep == IInv /\ [Next]_vars => Lockstep'
<1> SUFFICES ASSUME IInv, [Next]_vars PROVE Lockstep'
  OBVIOUS
<1> USE DEF IInv
<1>1. ASSUME NEW r \in Ranks, Enter(r) PROVE Lockstep'
  <2>1. \A q \in Ranks : round[q] >= round[r]
    BY <1>1, Everyone DEF Progress, Enter
  <2>2. round' = [round EXCEPT ![r] = @ + 1]
    BY <1>1 DEF Enter
  <2> QED
    BY <2>1, <2>2 DEF Lockstep, TypeOK
<1>2. CASE UNCHANGED round
  BY <1>2 DEF Lockstep
<1> QED
  BY <1>1, <1>2 DEF Next, Execute, InitTransfer, WaitForCompletion, AckTransfer,
     WaitForTransferAck, Leave, Land, vars

(* A rank receives in step i the signal of a rank that has received in the *)
(* i steps before, or has since finished the call and begun the next one.  *)
LEMMA CoverageReceive ==
  ASSUME IInv, NEW r \in Ranks, WaitForCompletion(r)
  PROVE  \A d \in Ranks : d < 2^(step[r] + 1) => round[Behind(r, d)] >= round[r]
<1> DEFINE i == step[r]
           s == Source(r, i)
<1> USE DEF IInv
<1>1. i \in Steps /\ s \in Ranks /\ Target(s, i) = r /\ s = Behind(r, 2^i)
  BY Partners DEF WaitForCompletion, TypeOK
<1>2. i \in Nat /\ 2^i \in 1 .. N - 1 /\ 2^(i + 1) = 2 * 2^i
  BY <1>1, StepPower
<1>3. Sent(s, i) >= round[r]
  <2>1. arrived[<<s, i>>] = 1 /\ writing[<<s, i>>] \in Nat
    BY <1>1 DEF WaitForCompletion, targetCompletes, TypeOK, EndpointTypeOK, Channels
  <2>2. Sent(s, i) - Received(r, i) = writing[<<s, i>>] + arrived[<<s, i>>]
    BY <1>1 DEF ChannelCounts
  <2>3. Received(r, i) = round[r] - 1
    BY <1>1 DEF WaitForCompletion, Received, Count, Done, TypeOK, Steps
  <2>4. Sent(s, i) \in Int /\ round[r] \in Nat
    BY <1>1, CountTypes DEF TypeOK
  <2> QED
    BY <2>1, <2>2, <2>3, <2>4
<1>4. \A d \in Ranks : d < 2^i => round[Behind(r, d)] >= round[r]
  BY <1>2 DEF WaitForCompletion, Coverage, Progress
<1>5. \A e \in Ranks : e < 2^i => round[Behind(s, e)] >= round[r]
  <2>0. round[s] \in Nat /\ round[r] \in Nat /\ \A q \in Ranks : round[q] \in Nat
    BY <1>1 DEF TypeOK
  <2>1. CASE round[s] > round[r]
    BY <1>1, <2>0, <2>1, BehindRank DEF Lockstep
  <2>2. CASE round[s] <= round[r]
    <3>1. /\ round[s] = round[r]
          /\ Done(s, i, {"waitForCompletion", "ackTransfer", "waitForTransferAck"})
      BY <1>3, <2>0, <2>2 DEF Sent, Count
    <3>2. i \in 0..Progress(s)
      BY <3>1, <1>1, <1>2, NumberSteps DEF Done, Progress, TypeOK, Steps
    <3> QED
      BY <1>1, <3>1, <3>2 DEF Coverage
  <2> QED
    BY <1>1, <2>0, <2>1, <2>2
<1> SUFFICES ASSUME NEW d \in Ranks, d < 2^(i + 1), ~(d < 2^i)
             PROVE  round[Behind(r, d)] >= round[r]
  BY <1>4
<1> DEFINE p == 2^i
<1>6. p \in 1 .. N - 1 /\ s = Behind(r, p) /\ d < 2 * p /\ ~(d < p)
  BY <1>1, <1>2
<1> HIDE DEF p, s
<1>7. d - p \in Ranks /\ d - p < p /\ Behind(s, d - p) = Behind(r, d)
  BY <1>6, SizeAssumption DEF Behind, Ranks
<1> QED
  BY <1>5, <1>7 DEF p

(* Every step preserves what the ranks know of each other. *)
LEMMA CoverageStep == IInv /\ [Next]_vars => Coverage'
<1> SUFFICES ASSUME IInv, [Next]_vars,
                    NEW q \in Ranks, NEW d \in Ranks, NEW k \in 0 .. Progress(q)',
                    d < 2^k
             PROVE  round'[Behind(q, d)] >= round'[q]
  BY DEF Coverage, Behind
<1> USE DEF IInv
<1>b. Behind(q, d) \in Ranks
  BY BehindRank
<1>n. round \in [Ranks -> Nat]
  BY DEF TypeOK
<1>0. k \in 0..Progress(q) => round[Behind(q, d)] >= round[q]
  BY DEF Coverage
<1> DEFINE Goal == round'[Behind(q, d)] >= round'[q]
<1>1. ASSUME NEW r \in Ranks, Enter(r) PROVE Goal
  <2>1. /\ round' = [round EXCEPT ![r] = @ + 1]
        /\ pc' = [pc EXCEPT ![r] = "initTransfer"]
        /\ step' = [step EXCEPT ![r] = 0]
    BY <1>1 DEF Enter
  <2>2. CASE q = r
    <3>1. k = 0
      BY <2>1, <2>2 DEF Progress, TypeOK
    <3>2. d = 0 /\ Behind(q, d) = q
      BY <3>1, PowerAssumption, SizeAssumption DEF Behind, Ranks
    <3> QED
      BY <3>2, <2>1, <2>2, <1>n
  <2>3. CASE q # r
    <3>1. Progress(q)' = Progress(q)
      BY <2>1, <2>3 DEF Progress, TypeOK
    <3> QED
      BY <3>1, <2>1, <2>3, <1>0, <1>b, <1>n
  <2> QED BY <2>2, <2>3
<1>2. ASSUME NEW r \in Ranks, WaitForCompletion(r) PROVE Goal
  <2>1. UNCHANGED round
    BY <1>2 DEF WaitForCompletion
  <2>2. CASE q = r /\ k = step[r] + 1
    BY <1>2, <2>1, <2>2, CoverageReceive
  <2>3. CASE ~(q = r /\ k = step[r] + 1)
    <3>1. k \in 0..Progress(q)
      BY <1>2, <2>3 DEF WaitForCompletion, Progress, TypeOK
    <3> QED
      BY <3>1, <2>1, <1>0
  <2> QED BY <2>2, <2>3
<1>3. ASSUME UNCHANGED round, Progress(q)' = Progress(q) PROVE Goal
  BY <1>3, <1>0
<1>4. ASSUME NEW r \in Ranks, InitTransfer(r) \/ AckTransfer(r) \/ WaitForTransferAck(r) \/ Leave(r)
      PROVE  UNCHANGED round /\ Progress(q)' = Progress(q)
  BY <1>4, NumberSteps
     DEF InitTransfer, AckTransfer, WaitForTransferAck, Leave, Progress, TypeOK
<1>5. ASSUME \/ UNCHANGED vars
             \/ \E c \in Channels : Land(c)
      PROVE  UNCHANGED round /\ Progress(q)' = Progress(q)
  <2>1. UNCHANGED <<pc, step, round>>
    BY <1>5 DEF vars, Land
  <2> QED
    BY <2>1 DEF Progress
<1> QED
  BY <1>1, <1>2, <1>3, <1>4, <1>5 DEF Next, Execute
-----------------------------------------------------------------------------
(* The inductive invariant holds after construction. *)
LEMMA InvInit == Init => IInv
<1> SUFFICES ASSUME Init PROVE IInv
  OBVIOUS
<1>1. TypeOK
  BY TypeInit
<1>2. \A r \in Ranks : pc[r] = "out" /\ round[r] = 0
  BY DEF Init
<1>3. ChannelCounts
  <2> SUFFICES ASSUME NEW r \in Ranks, NEW i \in Steps
               PROVE  /\ writing[<<r, i>>] + arrived[<<r, i>>] =
                            Sent(r, i) - Received(Target(r, i), i)
                      /\ acking[<<r, i>>] + acked[<<r, i>>] =
                            Acknowledged(Target(r, i), i) - Confirmed(r, i)
    BY DEF ChannelCounts
  <2>1. Target(r, i) \in Ranks
    BY Partners
  <2>2. \A q \in Ranks : Sent(q, i) = 0 /\ Received(q, i) = 0
                         /\ Acknowledged(q, i) = 0 /\ Confirmed(q, i) = 0
    BY <1>2 DEF Sent, Received, Acknowledged, Confirmed, Count, Done
  <2> QED
    BY <2>1, <2>2 DEF Init, Connected, Channels
<1>4. Coverage /\ Lockstep
  BY <1>2, BehindRank DEF Coverage, Lockstep
<1> QED
  BY <1>1, <1>2, <1>3, <1>4 DEF IInv

(* Every step preserves the inductive invariant. *)
LEMMA InvStep == IInv /\ [Next]_vars => IInv'
<1> SUFFICES ASSUME IInv, [Next]_vars PROVE IInv'
  OBVIOUS
<1>1. TypeOK' /\ ChannelCounts' /\ Coverage' /\ Lockstep'
  BY TypeStep, ChannelCountsStep, CoverageStep, LockstepStep DEF IInv
<1>2. (\A r \in Ranks : pc[r] # "out" => round[r] >= 1)'
  <2> DEFINE Called == \A r \in Ranks : pc[r] # "out" => round[r] >= 1
  <2> USE DEF IInv, TypeOK
  <2>1. ASSUME NEW q \in Ranks, Enter(q) PROVE Called'
    BY <2>1 DEF Enter
  <2>2. ASSUME NEW q \in Ranks, Execute(q) PROVE Called'
    BY <2>2 DEF Execute, InitTransfer, WaitForCompletion, AckTransfer,
       WaitForTransferAck, Leave
  <2>3. ASSUME UNCHANGED <<pc, round>> PROVE Called'
    BY <2>3
  <2> QED
    BY <2>1, <2>2, <2>3 DEF Next, Land, vars
<1> QED
  BY <1>1, <1>2 DEF IInv

THEOREM Invariance == Spec => []IInv
BY InvInit, InvStep, PTL DEF Spec

(* The inductive invariant implies that the calls synchronize. *)
LEMMA SynchronizedInv == IInv => Synchronized
BY Everyone DEF IInv, Synchronized, Progress

(* execute() never overwrites a notification that has not been consumed,   *)
(* for every group size and every number of consecutive calls.             *)
THEOREM NotificationSafety == Spec => []NoNotificationLost
<1>1. IInv => NoNotificationLost
  BY AtMostOne DEF IInv
<1> QED
  BY <1>1, Invariance, PTL

(* A rank that has returned from its k-th execute() knows that every rank  *)
(* of the group, of any size, has called execute() k times.                *)
THEOREM Synchronization == Spec => []Synchronized
BY SynchronizedInv, Invariance, PTL

(* No rank makes more calls than the bound. *)
LEMMA RoundsBounded == Spec => [](\A r \in Ranks : round[r] <= MaxRounds)
<1> DEFINE Bounded == \A r \in Ranks : round[r] <= MaxRounds
<1>1. Init => Bounded
  BY SizeAssumption DEF Init
<1>2. TypeOK /\ Bounded /\ [Next]_vars => Bounded'
  <2> SUFFICES ASSUME TypeOK, Bounded, [Next]_vars PROVE Bounded'
    OBVIOUS
  <2>1. ASSUME NEW r \in Ranks, Enter(r) PROVE Bounded'
    BY <2>1, SizeAssumption DEF Enter, TypeOK
  <2>2. ASSUME UNCHANGED round PROVE Bounded'
    BY <2>2
  <2> QED
    BY <2>1, <2>2 DEF Next, Execute, InitTransfer, WaitForCompletion, AckTransfer,
       WaitForTransferAck, Leave, Land, vars
<1> QED
  BY <1>1, <1>2, TypeCorrect, PTL DEF Spec

(* A rank that has returned from the last call of execute() has nothing    *)
(* under way to or from its buffers, whatever the group size: ~Runtime may *)
(* go on to delete the segments they lie in.                               *)
THEOREM TearDown == Spec => []SafeToTearDown
<1>1. IInv /\ (\A r \in Ranks : round[r] <= MaxRounds) => SafeToTearDown
  <2> SUFFICES ASSUME IInv, \A q \in Ranks : round[q] <= MaxRounds,
                      NEW r \in Ranks, pc[r] = "out", round[r] = MaxRounds, NEW i \in Steps
               PROVE  /\ writing[<<Source(r, i), i>>] = 0 /\ arrived[<<Source(r, i), i>>] = 0
                      /\ writing[<<r, i>>] = 0 /\ acking[<<r, i>>] = 0 /\ acked[<<r, i>>] = 0
    BY DEF SafeToTearDown
  <2> DEFINE s == Source(r, i)
             t == Target(r, i)
             in == <<s, i>>
             out == <<r, i>>
  <2>1. s \in Ranks /\ t \in Ranks /\ Target(s, i) = r /\ in \in Channels /\ out \in Channels
    BY Partners DEF Channels
  <2>2. /\ writing[in] + arrived[in] = Sent(s, i) - Received(r, i)
        /\ writing[out] + arrived[out] = Sent(r, i) - Received(t, i)
        /\ acking[out] + acked[out] = Acknowledged(t, i) - Confirmed(r, i)
    BY <2>1 DEF IInv, ChannelCounts
  <2>3. /\ writing[in] \in Nat /\ arrived[in] \in Nat
        /\ writing[out] \in Nat /\ arrived[out] \in Nat
        /\ acking[out] \in Nat /\ acked[out] \in Nat
    BY <2>1 DEF IInv, TypeOK, EndpointTypeOK
  <2>4. Sent(r, i) = MaxRounds /\ Received(r, i) = MaxRounds /\ Confirmed(r, i) = MaxRounds
    BY DEF Sent, Received, Confirmed, Count, Done
  <2>5. \A q \in Ranks : Sent(q, i) <= MaxRounds /\ Acknowledged(q, i) <= MaxRounds
    BY SizeAssumption DEF IInv, TypeOK, Sent, Acknowledged, Count
  <2>6. /\ Sent(s, i) \in Int /\ Received(t, i) \in Int /\ Acknowledged(t, i) \in Int
        /\ Acknowledged(t, i) <= Received(t, i)
    BY <2>1, CountTypes, CountOrder DEF IInv
  <2>7. Sent(s, i) <= MaxRounds /\ Acknowledged(t, i) <= MaxRounds /\ MaxRounds \in Nat
    BY <2>1, <2>5, SizeAssumption
  <2> HIDE DEF s, t, in, out
  <2>8. writing[in] = 0 /\ arrived[in] = 0
    <3>1. writing[in] + arrived[in] <= 0
      BY <2>2, <2>4, <2>6, <2>7
    <3> QED
      BY <2>3, <3>1
  <2>9. acking[out] = 0 /\ acked[out] = 0 /\ Acknowledged(t, i) = MaxRounds
    <3>1. acking[out] + acked[out] <= 0
      BY <2>2, <2>4, <2>6, <2>7
    <3>2. acking[out] = 0 /\ acked[out] = 0
      BY <2>3, <3>1
    <3>3. Acknowledged(t, i) - MaxRounds = 0
      BY <2>2, <2>4, <3>2
    <3> QED
      BY <3>2, <3>3, <2>6, <2>7
  <2>10. writing[out] = 0
    <3>1. writing[out] + arrived[out] <= 0
      BY <2>2, <2>4, <2>6, <2>7, <2>9
    <3> QED
      BY <2>3, <3>1
  <2> QED
    BY <2>8, <2>9, <2>10 DEF in, out, s
<1> QED
  BY <1>1, Invariance, RoundsBounded, PTL

(* The dissemination barrier implements the abstract barrier: it lets a    *)
(* rank leave only when all have arrived, whatever the group size.         *)
THEOREM Refinement == Spec => ImplementsBarrier
<1>1. Init => Abstract!Init
  BY DEF Init, Abstract!Init
<1>2. IInv /\ [Next]_vars => [Abstract!Next]_Abstract!vars
  <2> SUFFICES ASSUME IInv, [Next]_vars PROVE [Abstract!Next]_Abstract!vars
    OBVIOUS
  <2> USE DEF Abstract!Next, Abstract!vars
  <2>1. ASSUME NEW r \in Ranks, Enter(r) PROVE Abstract!Enter(r)
    BY <2>1 DEF Enter, Abstract!Enter, IInv, TypeOK
  <2>2. ASSUME NEW r \in Ranks, Leave(r) PROVE Abstract!Leave(r)
    <3>1. \A q \in Ranks : round[q] >= round[r]
      BY <2>2, Everyone DEF IInv, Leave, Progress
    <3> QED
      BY <2>2, <3>1 DEF Leave, Abstract!Leave, IInv, TypeOK
  <2>3. ASSUME NEW r \in Ranks, InitTransfer(r) \/ WaitForCompletion(r)
                               \/ AckTransfer(r) \/ WaitForTransferAck(r)
        PROVE  UNCHANGED Abstract!vars
    BY <2>3 DEF InitTransfer, WaitForCompletion, AckTransfer,
       WaitForTransferAck, IInv, TypeOK
  <2>4. ASSUME UNCHANGED vars \/ \E c \in Channels : Land(c)
        PROVE  UNCHANGED Abstract!vars
    BY <2>4 DEF Land, vars
  <2> QED
    BY <2>1, <2>2, <2>3, <2>4 DEF Next, Execute
<1> QED
  BY <1>1, <1>2, Invariance, PTL DEF Spec, ImplementsBarrier, Abstract!Spec
=============================================================================

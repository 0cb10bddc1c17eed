------------------------- MODULE AllreduceRingProofs -------------------------
(***************************************************************************)
(* The theorems about AllreduceRing, for every size of the group and any   *)
(* number of executions, with or without a barrier between them.           *)
(***************************************************************************)
EXTENDS AllreduceRing, TLAPS

(* What the constructor is given. *)
Parameters == N \in Nat \ {0, 1} /\ Rounds \in Nat

(* How far the data of rank q has come on its way around the ring when it  *)
(* is at rank r.                                                           *)
Behind(r, q) == (r + N - q) % N

Steps == 0 .. 2 * N - 3

(* The step in which a channel is used; one channel of each stage is not.  *)
Turn(c) == IF c[1] = "reduce" THEN Behind(c[2], c[3])
                              ELSE N - 1 + Behind(Right(c[2]), c[3])
Used(c) == Turn(c) # IF c[1] = "reduce" THEN N - 1 ELSE 2 * N - 2

(* The executions in which r has sent step u to the right, which it does   *)
(* when it has received step u - 1 from the left, and in which it has got  *)
(* the acknowledgement of the last step.                                   *)
Sent(r, u) ==
  IF state[r] = "READY" \/ (state[r] = "RUNNING" /\ u > current_step[r])
  THEN round[r] - 1 ELSE round[r]
Confirmed(r) ==
  IF state[r] \in {"READY", "RUNNING"} THEN round[r] - 1 ELSE round[r]

TypeInv ==
  /\ TypeOK /\ DOMAIN output = Ranks
  /\ \A r \in Ranks : state[r] # "INITIALIZED" => round[r] > 0

IndexInv ==
  \A r \in Ranks : state[r] = "RUNNING" =>
    Behind(r, current_index[r]) =
      IF current_step[r] < N - 1 THEN current_step[r] + 1 ELSE current_step[r] - (N - 1)

Accounted(c) ==
  LET r == c[2] u == Turn(c) IN
    /\ writing[c] + arrived[c] = IF Used(c) THEN Sent(r, u) - Sent(Right(r), u + 1) ELSE 0
    /\ acking[c] + acked[c] =
         IF u = 2 * N - 3 /\ Used(c) THEN Sent(Right(r), u + 1) - Confirmed(r) ELSE 0

ChannelInv == \A c \in Channels : Accounted(c)

(* A rank can have sent step u only when the rank that is d before it has  *)
(* sent step u - d.                                                        *)
WaveInv ==
  \A q, r \in Ranks, u \in Steps :
    u >= Behind(q, r) => Sent(q, u) <= Sent(r, u - Behind(q, r))

Landed(c) == Sent(c[2], Turn(c)) - writing[c]

Reduced(S, k) == SetToBag({<<q, k>> : q \in S})
Arc(r, u) == {q \in Ranks : Behind(r, q) <= u}

SourceContent(r, i) ==
  LET u == Behind(r, i)
      k == round[r]
  IN IF k = 0 THEN EmptyBag
     ELSE IF u < N - 1 /\ Landed(<<"gather", Left(r), i>>) = k THEN Reduced(Ranks, k)
     ELSE IF Sent(r, u) = k THEN Reduced(Arc(r, u), k)
     ELSE Reduced({r}, k)

TargetContent(c) ==
  IF Landed(c) = 0 THEN EmptyBag ELSE Reduced(Arc(c[2], Turn(c)), Landed(c))

MemoryInv ==
  \A r, i \in Ranks :
    /\ mem[<<"source", r, i>>] = SourceContent(r, i)
    /\ Used(<<"reduce", r, i>>) =>
         mem[<<"target", Right(r), i>>] = TargetContent(<<"reduce", r, i>>)

DataInv == IndexInv /\ ChannelInv /\ WaveInv /\ MemoryInv /\ ResultsCorrect

IInv ==
  /\ TypeInv
  /\ number_elements = 0 => Quiet(Channels)
  /\ number_elements # 0 => DataInv

(* The ring: the neighbours, the distances, and the way the index of the   *)
(* chunks runs.                                                            *)
LEMMA RingFacts ==
  ASSUME Parameters
  PROVE  /\ \A r \in Ranks : /\ Right(r) \in Ranks /\ Left(r) \in Ranks
                             /\ Right(Left(r)) = r /\ Left(Right(r)) = r
                             /\ Left(r) # r /\ Right(r) # r
         /\ \A q, r \in Ranks : /\ Behind(r, q) \in 0 .. N - 1
                                /\ Behind(r, q) = 0 <=> q = r
                                /\ Behind(r, q) = N - 1 <=> q = Right(r)
                                /\ Behind(Right(r), q) =
                                     IF q = Right(r) THEN 0 ELSE Behind(r, q) + 1
         /\ \A p, q, r \in Ranks : Behind(r, p) = Behind(r, q) => p = q
         /\ \A i \in Ranks : /\ Down(i) = Left(i)
                             /\ (i + 1) % N = Right(i) /\ (i + 2) % N = Right(Right(i))
         /\ \A i, r \in Ranks : Behind(r, Left(i)) = Behind(Right(r), i)
<1>1. ASSUME NEW a \in 0 .. 2 * N - 1 PROVE a % N = IF a < N THEN a ELSE a - N
  BY DEF Parameters
<1>2. \A r \in Ranks : /\ Right(r) = IF r = N - 1 THEN 0 ELSE r + 1
                       /\ Left(r) = IF r = 0 THEN N - 1 ELSE r - 1
  <2> SUFFICES ASSUME NEW r \in Ranks
               PROVE  /\ Right(r) = IF r = N - 1 THEN 0 ELSE r + 1
                      /\ Left(r) = IF r = 0 THEN N - 1 ELSE r - 1
    OBVIOUS
  <2>1. r + 1 \in 0 .. 2 * N - 1 /\ r + N - 1 \in 0 .. 2 * N - 1
    BY DEF Parameters, Ranks
  <2> QED
    BY <1>1, <2>1 DEF Parameters, Ranks, Right, Left
<1>3. \A q, r \in Ranks : Behind(r, q) = IF q <= r THEN r - q ELSE r + N - q
  <2> SUFFICES ASSUME NEW q \in Ranks, NEW r \in Ranks
               PROVE  Behind(r, q) = IF q <= r THEN r - q ELSE r + N - q
    OBVIOUS
  <2>1. r + N - q \in 0 .. 2 * N - 1
    BY DEF Parameters, Ranks
  <2> QED
    BY <1>1, <2>1 DEF Parameters, Ranks, Behind
<1>4. \A r \in Ranks : /\ Right(r) \in Ranks /\ Left(r) \in Ranks
                       /\ Right(Left(r)) = r /\ Left(Right(r)) = r
                       /\ Left(r) # r /\ Right(r) # r
  <2>1. \A r \in Ranks : Right(r) \in Ranks /\ Left(r) \in Ranks
    BY <1>2 DEF Parameters, Ranks
  <2> QED
    BY <1>2, <2>1 DEF Parameters, Ranks
<1>5. ASSUME NEW q \in Ranks, NEW r \in Ranks
      PROVE  /\ Behind(r, q) \in 0 .. N - 1
             /\ Behind(r, q) = 0 <=> q = r
             /\ Behind(r, q) = N - 1 <=> q = Right(r)
             /\ Behind(Right(r), q) = IF q = Right(r) THEN 0 ELSE Behind(r, q) + 1
  <2>1. Behind(r, q) = IF q <= r THEN r - q ELSE r + N - q
    BY <1>3
  <2>2. Behind(Right(r), q) = IF q <= Right(r) THEN Right(r) - q ELSE Right(r) + N - q
    BY <1>3, <1>4
  <2>3. Right(r) = IF r = N - 1 THEN 0 ELSE r + 1
    BY <1>2
  <2> QED
    BY <2>1, <2>2, <2>3 DEF Parameters, Ranks
<1>6. ASSUME NEW p \in Ranks, NEW q \in Ranks, NEW r \in Ranks, Behind(r, p) = Behind(r, q)
      PROVE  p = q
  <2>1. /\ Behind(r, q) = IF q <= r THEN r - q ELSE r + N - q
        /\ Behind(r, p) = IF p <= r THEN r - p ELSE r + N - p
    BY <1>3
  <2> QED
    BY <1>6, <2>1 DEF Parameters, Ranks
<1>7. ASSUME NEW i \in Ranks
      PROVE  Down(i) = Left(i) /\ (i + 1) % N = Right(i) /\ (i + 2) % N = Right(Right(i))
  <2>1. (i + 2) \in 0 .. 2 * N - 1
    BY DEF Parameters, Ranks
  <2>2. (i + 2) % N = IF i + 2 < N THEN i + 2 ELSE i + 2 - N
    BY <1>1, <2>1 DEF Parameters, Ranks
  <2>3. Right(i) = (IF i = N - 1 THEN 0 ELSE i + 1) /\ Right(i) \in Ranks
    BY <1>2, <1>4
  <2>4. Right(Right(i)) = IF Right(i) = N - 1 THEN 0 ELSE Right(i) + 1
    BY <1>2, <2>3
  <2>5. (i + 2) % N = Right(Right(i))
    BY <2>2, <2>3, <2>4 DEF Parameters, Ranks
  <2>6. Down(i) = Left(i) /\ (i + 1) % N = Right(i)
    BY DEF Down, Left, Right
  <2> QED
    BY <2>5, <2>6
<1>8. ASSUME NEW i \in Ranks, NEW r \in Ranks
      PROVE  Behind(r, Left(i)) = Behind(Right(r), i)
  <2>1. Left(i) \in Ranks /\ Right(r) \in Ranks
    BY <1>4
  <2>2. /\ Behind(r, Left(i)) = IF Left(i) <= r THEN r - Left(i) ELSE r + N - Left(i)
        /\ Behind(Right(r), i) = IF i <= Right(r) THEN Right(r) - i ELSE Right(r) + N - i
    BY <1>3, <2>1
  <2>3. /\ Right(r) = IF r = N - 1 THEN 0 ELSE r + 1
        /\ Left(i) = IF i = 0 THEN N - 1 ELSE i - 1
    BY <1>2
  <2> QED
    BY <2>2, <2>3 DEF Parameters, Ranks
<1> QED
  BY <1>4, <1>5, <1>6, <1>7, <1>8

(* The neighbours of a rank. *)
LEMMA Neighbours ==
  ASSUME Parameters, NEW r \in Ranks
  PROVE  /\ Right(r) \in Ranks /\ Left(r) \in Ranks
         /\ Right(Left(r)) = r /\ Left(Right(r)) = r /\ Left(r) # r /\ Right(r) # r
BY RingFacts

(* The distances around the ring. *)
LEMMA Distance ==
  ASSUME Parameters, NEW r \in Ranks, NEW q \in Ranks
  PROVE  /\ Behind(r, q) \in 0 .. N - 1
         /\ Behind(r, q) = 0 <=> q = r
         /\ Behind(r, q) = N - 1 <=> q = Right(r)
         /\ Behind(Right(r), q) = IF q = Right(r) THEN 0 ELSE Behind(r, q) + 1
         /\ q # r => Behind(Left(r), q) = Behind(r, q) - 1
         /\ Behind(Left(r), r) = N - 1
<1>1. /\ Behind(r, q) \in 0 .. N - 1
      /\ Behind(r, q) = 0 <=> q = r
      /\ Behind(r, q) = N - 1 <=> q = Right(r)
      /\ Behind(Right(r), q) = IF q = Right(r) THEN 0 ELSE Behind(r, q) + 1
  BY RingFacts
<1>2. Left(r) \in Ranks /\ Right(Left(r)) = r
  BY RingFacts
<1>3. /\ Behind(Left(r), q) \in 0 .. N - 1
      /\ Behind(r, q) = IF q = r THEN 0 ELSE Behind(Left(r), q) + 1
      /\ Behind(Left(r), r) = N - 1
  BY <1>2, RingFacts
<1> QED
  BY <1>1, <1>3 DEF Parameters

(* The steps of the channels of a rank are all different.                  *)
LEMMA ChannelFacts ==
  ASSUME Parameters, NEW c \in Channels
  PROVE  /\ c[1] \in {"reduce", "gather"} /\ c[2] \in Ranks /\ c[3] \in Ranks
         /\ c = <<c[1], c[2], c[3]>>
         /\ Turn(c) \in Nat
         /\ Used(c) => /\ Turn(c) \in Steps
                       /\ Turn(c) < N - 1 <=> c[1] = "reduce"
         /\ \A d \in Channels :
              Used(c) /\ Used(d) /\ d[2] = c[2] /\ Turn(d) = Turn(c) => d = c
<1>1. \A d \in Channels : /\ d[1] \in {"reduce", "gather"} /\ d[2] \in Ranks /\ d[3] \in Ranks
                          /\ d = <<d[1], d[2], d[3]>>
  BY DEF Channels
<1>2. \A d \in Channels : /\ Behind(d[2], d[3]) \in 0 .. N - 1
                          /\ Right(d[2]) \in Ranks
                          /\ Behind(Right(d[2]), d[3]) \in 0 .. N - 1
  BY <1>1, RingFacts
<1>3. ASSUME NEW d \in Channels
      PROVE  /\ Turn(d) \in Nat
             /\ Used(d) => Turn(d) \in Steps /\ (Turn(d) < N - 1 <=> d[1] = "reduce")
  BY <1>1, <1>2 DEF Turn, Used, Steps, Parameters
<1>4. ASSUME NEW d \in Channels, Used(c), Used(d), d[2] = c[2], Turn(d) = Turn(c)
      PROVE  d = c
  <2>1. c[1] = d[1]
    BY <1>1, <1>3, <1>4
  <2>2. c[3] = d[3]
    <3>1. CASE c[1] = "reduce"
      <4>1. Behind(c[2], c[3]) = Behind(c[2], d[3])
        BY <1>4, <2>1, <3>1 DEF Turn
      <4> QED
        BY <1>1, <4>1, RingFacts
    <3>2. CASE c[1] # "reduce"
      <4>1. Behind(Right(c[2]), c[3]) = Behind(Right(c[2]), d[3])
        BY <1>2, <1>4, <2>1, <3>2 DEF Turn, Parameters
      <4> QED
        BY <1>1, <1>2, <4>1, RingFacts
    <3> QED
      BY <3>1, <3>2
  <2> QED
    BY <1>1, <1>4, <2>1, <2>2
<1> QED
  BY <1>1, <1>3, <1>4

(* The counts of one rank are within one execution of each other, and it   *)
(* takes the steps in their order.                                         *)
LEMMA Counts ==
  ASSUME Parameters, TypeInv, NEW r \in Ranks, NEW u \in Nat
  PROVE  /\ Sent(r, u) \in Nat /\ Confirmed(r) \in Nat /\ round[r] \in Nat
         /\ round[r] - 1 <= Confirmed(r) /\ Confirmed(r) <= round[r]
         /\ round[r] - 1 <= Sent(r, u) /\ Sent(r, u) <= round[r]
         /\ \A v \in Nat : v <= u => Sent(r, u) <= Sent(r, v)
<1>1. /\ round[r] \in Nat /\ current_step[r] \in Nat
      /\ state[r] # "INITIALIZED" => round[r] > 0
  BY DEF TypeInv, TypeOK, Parameters, steps_per_stage
<1> QED
  BY <1>1 DEF Sent, Confirmed

(* The types of the notifications. *)
LEMMA EndpointTypes ==
  ASSUME TypeInv, NEW c \in Channels
  PROVE  /\ writing[c] \in Nat /\ arrived[c] \in 0 .. 1
         /\ acking[c] \in Nat /\ acked[c] \in 0 .. 1
BY DEF TypeInv, TypeOK, EndpointTypeOK

(* The last step of every rank has a channel. *)
LEMMA LastChannel ==
  ASSUME Parameters, NEW r \in Ranks
  PROVE  LET l == <<"gather", r, Right(Right(Right(r)))>>
         IN  l \in Channels /\ l[2] = r /\ Used(l) /\ Turn(l) = 2 * N - 3
<1> DEFINE q == Right(r)
           p == Right(q)
           l == <<"gather", r, Right(p)>>
<1>1. q \in Ranks /\ p \in Ranks /\ Right(p) \in Ranks /\ Left(p) = q
  BY Neighbours
<1>2. l \in Channels /\ l[1] = "gather" /\ l[2] = r /\ l[3] = Right(p)
  BY <1>1 DEF Channels
<1>3. Behind(p, Right(p)) = N - 1 /\ p # Right(p)
  BY <1>1, Distance, Neighbours
<1>4. Behind(q, Right(p)) = N - 2
  BY <1>1, <1>3, Distance DEF Parameters
<1> HIDE DEF l, p
<1>5. Turn(l) = 2 * N - 3
  BY <1>2, <1>4 DEF Turn, Parameters
<1>6. Used(l)
  BY <1>2, <1>5 DEF Used, Parameters
<1> QED
  BY <1>2, <1>5, <1>6 DEF l, p

(* What the accounts say of one channel: at most one notification is on    *)
(* its way in either direction, none once the sender has got its last      *)
(* acknowledgement, and what is on its way is of the sender's execution.   *)
LEMMA Bounded ==
  ASSUME Parameters, TypeInv, ChannelInv, NEW c \in Channels
  PROVE  /\ writing[c] + arrived[c] <= 1
         /\ acking[c] + acked[c] <= 1
         /\ Confirmed(c[2]) = round[c[2]] =>
              writing[c] + arrived[c] = 0 /\ acking[c] + acked[c] = 0
         /\ writing[c] + arrived[c] > 0 =>
              /\ Used(c)
              /\ Sent(c[2], Turn(c)) = round[c[2]]
              /\ Sent(Right(c[2]), Turn(c) + 1) = round[c[2]] - 1
              /\ round[c[2]] > 0
<1> DEFINE r == c[2]
           q == Right(r)
           u == Turn(c)
           l == <<"gather", r, Right(Right(Right(r)))>>
           n == 2 * N - 3
<1>1. r \in Ranks /\ q \in Ranks /\ u \in Nat /\ (Used(c) => u <= n) /\ n \in Nat
  BY ChannelFacts, Neighbours DEF Parameters, Steps
<1>2. /\ writing[c] + arrived[c] = IF Used(c) THEN Sent(r, u) - Sent(q, u + 1) ELSE 0
      /\ acking[c] + acked[c] = IF u = n /\ Used(c) THEN Sent(q, u + 1) - Confirmed(r) ELSE 0
  BY DEF ChannelInv, Accounted
<1>3. Sent(q, n + 1) >= Confirmed(r)
  <2>1. l \in Channels /\ l[2] = r /\ Used(l) /\ Turn(l) = n
    BY <1>1, LastChannel
  <2>2. acking[l] \in Nat /\ acked[l] \in Nat
    BY <2>1, EndpointTypes
  <2> HIDE DEF l, n
  <2>3. acking[l] + acked[l] = Sent(q, n + 1) - Confirmed(r)
    BY <2>1 DEF ChannelInv, Accounted, n
  <2>4. Sent(q, n + 1) \in Nat /\ Confirmed(r) \in Nat
    BY <1>1, Counts
  <2> QED
    BY <2>2, <2>3, <2>4
<1>4. /\ writing[c] \in Nat /\ arrived[c] \in Nat /\ acking[c] \in Nat /\ acked[c] \in Nat
  BY EndpointTypes
<1>5. /\ Sent(r, u) \in Nat /\ Sent(r, u) <= round[r] /\ round[r] \in Nat
      /\ Confirmed(r) \in Nat /\ round[r] - 1 <= Confirmed(r) /\ Confirmed(r) <= round[r]
  BY <1>1, Counts
<1>6. /\ Sent(q, u + 1) \in Nat /\ Sent(q, n + 1) \in Nat
      /\ Used(c) => Sent(q, n + 1) <= Sent(q, u + 1)
  <2>1. u + 1 \in Nat /\ n + 1 \in Nat /\ (Used(c) => u + 1 <= n + 1)
    BY <1>1
  <2> QED
    BY <1>1, <2>1, Counts
<1> HIDE DEF r, q, u, l, n
<1>7. CASE Used(c)
  <2> DEFINE a == Sent(r, u)
             b == Sent(q, u + 1)
             w == writing[c] + arrived[c]
  <2>1. b >= Confirmed(r)
    BY <1>3, <1>5, <1>6, <1>7
  <2>2. w = a - b /\ acking[c] + acked[c] = IF u = n THEN b - Confirmed(r) ELSE 0
    BY <1>2, <1>7
  <2>3. w \in Nat /\ b \in Nat
    BY <1>4, <1>6
  <2> HIDE DEF a, b, w
  <2>4. /\ w <= 1 /\ acking[c] + acked[c] <= 1
        /\ Confirmed(r) = round[r] => w = 0 /\ acking[c] + acked[c] = 0
        /\ w > 0 => a = round[r] /\ b = round[r] - 1 /\ round[r] > 0
    BY <1>5, <2>1, <2>2, <2>3 DEF a
  <2> QED
    BY <1>7, <2>4 DEF a, b, w, r, q, u
<1>8. CASE ~Used(c)
  BY <1>2, <1>8
<1> QED
  BY <1>7, <1>8

(* Bags without repetition. *)
LEMMA BagOfUnion ==
  ASSUME NEW S, NEW T, S \cap T = {}
  PROVE  SetToBag(S) (+) SetToBag(T) = SetToBag(S \cup T)
BY DEF SetToBag, (+)

(* What r has reduced into its chunk is its own contribution and what has  *)
(* come from the left.                                                     *)
LEMMA ArcStep ==
  ASSUME Parameters, NEW r \in Ranks, NEW u \in Nat, u < N - 1, NEW k
  PROVE  Reduced({r}, k) (+) Reduced(Arc(Left(r), u), k) = Reduced(Arc(r, u + 1), k)
<1> DEFINE S == {<<q, k>> : q \in {r}}
           T == {<<q, k>> : q \in Arc(Left(r), u)}
           V == {<<q, k>> : q \in Arc(r, u + 1)}
<1>1. Left(r) \in Ranks
  BY Neighbours
<1>2. \A q \in Ranks : q \in Arc(r, u + 1) <=> q = r \/ q \in Arc(Left(r), u)
  <2> SUFFICES ASSUME NEW q \in Ranks
               PROVE  Behind(r, q) <= u + 1 <=> q = r \/ Behind(Left(r), q) <= u
    BY DEF Arc
  <2>1. /\ Behind(r, q) \in 0 .. N - 1 /\ (Behind(r, q) = 0 <=> q = r)
        /\ q # r => Behind(Left(r), q) = Behind(r, q) - 1
    BY Distance
  <2> QED
    BY <2>1 DEF Parameters
<1>3. r \notin Arc(Left(r), u)
  BY Distance DEF Arc, Parameters
<1>4. Arc(Left(r), u) \subseteq Ranks /\ Arc(r, u + 1) \subseteq Ranks
  BY DEF Arc
<1>5. S \cap T = {} /\ S \cup T = V
  <2>1. Arc(r, u + 1) = {r} \cup Arc(Left(r), u)
    BY <1>2, <1>4
  <2> HIDE DEF Arc
  <2> QED
    BY <1>3, <2>1
<1> HIDE DEF S, T, V
<1>6. SetToBag(S) (+) SetToBag(T) = SetToBag(V)
  BY <1>5, BagOfUnion
<1> QED
  BY <1>6 DEF Reduced, S, T, V

(* The shortest and the longest arc. *)
LEMMA ArcEnds ==
  ASSUME Parameters, NEW r \in Ranks
  PROVE  Arc(r, 0) = {r} /\ Arc(r, N - 1) = Ranks
<1>1. \A q \in Ranks : Behind(r, q) \in 0 .. N - 1 /\ (Behind(r, q) = 0 <=> q = r)
  BY Distance
<1> QED
  BY <1>1 DEF Arc, Parameters

(* Two channels, by the step they are used in. *)
LEMMA ReduceChannel ==
  ASSUME Parameters, NEW r \in Ranks, NEW i \in Ranks
  PROVE  LET c == <<"reduce", r, i>>
         IN  /\ c \in Channels /\ c[1] = "reduce" /\ c[2] = r /\ c[3] = i
             /\ Turn(c) = Behind(r, i) /\ (Used(c) <=> Behind(r, i) < N - 1)
BY Distance DEF Channels, Turn, Used, Parameters

(* The channel that brings the result of chunk i. *)
LEMMA GatherChannel ==
  ASSUME Parameters, NEW r \in Ranks, NEW i \in Ranks
  PROVE  LET c == <<"gather", Left(r), i>>
         IN  /\ c \in Channels /\ c[1] = "gather" /\ c[2] = Left(r) /\ c[3] = i
             /\ Turn(c) = N - 1 + Behind(r, i) /\ (Used(c) <=> Behind(r, i) < N - 1)
<1> DEFINE c == <<"gather", Left(r), i>>
<1>1. c \in Channels /\ c[1] = "gather" /\ c[2] = Left(r) /\ c[3] = i
  BY Neighbours DEF Channels
<1>2. Right(Left(r)) = r /\ Behind(r, i) \in 0 .. N - 1
  BY Neighbours, Distance
<1> HIDE DEF c
<1>3. Turn(c) = N - 1 + Behind(r, i)
  BY <1>1, <1>2 DEF Turn
<1>4. Used(c) <=> Behind(r, i) < N - 1
  BY <1>1, <1>2, <1>3 DEF Used, Parameters
<1> QED
  BY <1>1, <1>3, <1>4 DEF c

(* Without data nothing is ever posted. *)
LEMMA EmptyStep ==
  ASSUME Parameters, TypeInv, number_elements = 0, Quiet(Channels), Next
  PROVE  TypeInv' /\ Quiet(Channels)' /\ number_elements' = 0
<1> USE DEF TypeInv, TypeOK, EndpointTypeOK
<1>1. ASSUME NEW r \in Ranks, User(r) \/ TriggerProgress(r)
      PROVE  TypeInv' /\ Quiet(Channels)' /\ number_elements' = 0
  <2>1. CASE CopyIn(r)
    <3>1. /\ state' = [state EXCEPT ![r] = "READY"] /\ round[r] < Rounds
          /\ round' = [round EXCEPT ![r] = round[r] + 1] /\ DOMAIN mem' = Locations
          /\ UNCHANGED <<allreduceVars, endpointVars, output>>
      BY <2>1 DEF CopyIn, copyIn
    <3>2. state' \in [Ranks -> States] /\ round' \in [Ranks -> 0 .. Rounds]
      BY <3>1 DEF States, Parameters
    <3>3. \A q \in Ranks : state'[q] # "INITIALIZED" => round'[q] > 0
      BY <3>1 DEF Parameters
    <3> QED
      BY <3>1, <3>2, <3>3 DEF allreduceVars, endpointVars, Quiet
  <2>2. CASE Start(r) \/ Complete(r) \/ CopyOut(r)
    <3>1. /\ state[r] # "INITIALIZED" /\ UNCHANGED <<round, mem, allreduceVars, endpointVars>>
          /\ \E x \in States : state' = [state EXCEPT ![r] = x]
          /\ DOMAIN output' = Ranks
      BY <2>2 DEF Start, start, Complete, complete, CopyOut, copyOut, allreduceVars, endpointVars,
                  States
    <3>2. state' \in [Ranks -> States]
      BY <3>1
    <3>3. \A q \in Ranks : state'[q] # "INITIALIZED" => round'[q] > 0
      BY <3>1
    <3> QED
      BY <3>1, <3>2, <3>3 DEF allreduceVars, endpointVars, Quiet
  <2>3. ~Reduce(r) /\ ~Gather(r)
    BY DEF Reduce, Gather
  <2> QED
    BY <1>1, <2>1, <2>2, <2>3 DEF User, TriggerProgress
<1>2. ASSUME NEW c \in Channels PROVE ~WriteArrives(c) /\ ~AckArrives(c)
  <2>1. /\ writing[c] \in Nat /\ arrived[c] \in Nat /\ acking[c] \in Nat /\ acked[c] \in Nat
        /\ writing[c] + arrived[c] = 0 /\ acking[c] + acked[c] = 0
    BY DEF Quiet
  <2>2. ~(writing[c] > 0) /\ ~(acking[c] > 0)
    BY <2>1
  <2> QED
    BY <2>2 DEF WriteArrives, Transfer, WriteLands, AckArrives, Acknowledge, AckLands
<1> QED
  BY <1>1, <1>2 DEF Next

(* The step by which r consumes step s - 1 and sends step s, or            *)
(* acknowledges the last one.                                              *)
SendsOne(r, s) ==
  \A q \in Ranks, u \in Nat :
    /\ Sent(q, u)' = IF q = r /\ u = s THEN Sent(q, u) + 1 ELSE Sent(q, u)
    /\ Confirmed(q)' = Confirmed(q)

PostsOne(r, s) ==
  \A c \in Channels :
    LET out == Used(c) /\ c[2] = r /\ Turn(c) = s
        in  == Used(c) /\ c[2] = Left(r) /\ Turn(c) + 1 = s
    IN  /\ writing'[c] + arrived'[c] =
             IF out THEN writing[c] + arrived[c] + 1
             ELSE IF in THEN (writing[c] + arrived[c]) - 1 ELSE writing[c] + arrived[c]
        /\ acking'[c] + acked'[c] =
             IF in /\ Turn(c) = 2 * N - 3 THEN acking[c] + acked[c] + 1
             ELSE acking[c] + acked[c]

(* The step by which r sends step s, or reaches the end, keeps the order   *)
(* of the ranks.                                                           *)
LEMMA WaveKept ==
  ASSUME Parameters, TypeInv, WaveInv, NEW r \in Ranks, NEW s \in Nat,
         SendsOne(r, s),
         s > 0 => s - 1 \in Steps /\ Sent(r, s) + 1 <= Sent(Left(r), s - 1)
  PROVE  WaveInv'
<1> SUFFICES ASSUME NEW q \in Ranks, NEW p \in Ranks, NEW u \in Steps, u >= Behind(q, p)
             PROVE  Sent(q, u)' <= Sent(p, u - Behind(q, p))'
  BY DEF WaveInv
<1> USE DEF SendsOne
<1> DEFINE d == Behind(q, p)
<1>1. d \in Nat /\ u \in Nat /\ u - d \in Nat
  BY Distance DEF Steps, Parameters
<1>2. Sent(q, u) <= Sent(p, u - d)
  BY DEF WaveInv
<1> HIDE DEF d
<1>3. Sent(q, u) \in Nat /\ Sent(p, u - d) \in Nat
  BY <1>1, Counts
<1>4. Sent(p, u - d) <= Sent(p, u - d)'
  BY <1>1, <1>3
<1>5. CASE ~(q = r /\ u = s)
  <2>1. Sent(q, u)' = Sent(q, u)
    BY <1>1, <1>5
  <2>2. Sent(p, u - d)' \in Nat
    BY <1>1, <1>3
  <2> QED
    BY <1>2, <1>3, <1>4, <2>1, <2>2 DEF d
<1>6. CASE q = r /\ u = s /\ d = 0
  <2>1. p = q
    BY <1>6, Distance DEF d
  <2>2. u - d = u
    BY <1>1, <1>6
  <2>3. Sent(q, u)' = Sent(q, u) + 1
    BY <1>1, <1>6
  <2>4. Sent(q, u)' <= Sent(q, u)'
    BY <1>3, <2>3
  <2> QED
    BY <2>1, <2>2, <2>4 DEF d
<1>7. CASE q = r /\ u = s /\ d # 0
  <2> DEFINE l == Left(r)
  <2>1. l \in Ranks /\ p # r /\ Behind(l, p) = d - 1
    BY <1>7, Distance, Neighbours DEF d
  <2>2. s > 0 /\ s - 1 \in Steps /\ s - 1 >= d - 1 /\ Sent(r, s) + 1 <= Sent(l, s - 1)
    BY <1>1, <1>7 DEF d
  <2> HIDE DEF l
  <2>3. Sent(l, s - 1) <= Sent(p, (s - 1) - (d - 1))
    BY <2>1, <2>2 DEF WaveInv
  <2>4. (s - 1) - (d - 1) = u - d
    BY <1>1, <1>7
  <2>5. Sent(l, s - 1) <= Sent(p, u - d)
    BY <2>3, <2>4
  <2>6. Sent(l, s - 1) \in Nat /\ Sent(r, s) \in Nat /\ Sent(p, u - d)' \in Nat
    <3>1. s - 1 \in Nat
      BY <2>2 DEF Steps
    <3> QED
      BY <1>1, <1>3, <2>1, <3>1, Counts
  <2>7. Sent(q, u)' = Sent(r, s) + 1
    BY <1>1, <1>7
  <2> QED
    BY <1>3, <1>4, <2>2, <2>5, <2>6, <2>7 DEF d
<1> QED
  BY <1>5, <1>6, <1>7

(* A step that posts and consumes nothing. *)
LEMMA AccountsKept ==
  ASSUME Parameters, ChannelInv, WaveInv,
         \A q \in Ranks, u \in Nat : Sent(q, u)' = Sent(q, u) /\ Confirmed(q)' = Confirmed(q),
         \A c \in Channels : /\ writing'[c] + arrived'[c] = writing[c] + arrived[c]
                             /\ acking'[c] + acked'[c] = acking[c] + acked[c]
  PROVE  ChannelInv' /\ WaveInv'
<1>1. ASSUME NEW c \in Channels PROVE Accounted(c)'
  <2> DEFINE r == c[2]
             q == Right(r)
             u == Turn(c)
  <2>1. r \in Ranks /\ q \in Ranks /\ u \in Nat /\ u + 1 \in Nat
    BY ChannelFacts, Neighbours
  <2>2. Accounted(c)
    BY DEF ChannelInv
  <2>3. /\ Sent(r, u)' = Sent(r, u) /\ Sent(q, u + 1)' = Sent(q, u + 1)
        /\ Confirmed(r)' = Confirmed(r)
    BY <2>1
  <2> QED
    BY <2>2, <2>3 DEF Accounted
<1>2. WaveInv'
  <2> SUFFICES ASSUME NEW q \in Ranks, NEW p \in Ranks, NEW u \in Steps, u >= Behind(q, p)
               PROVE  Sent(q, u)' <= Sent(p, u - Behind(q, p))'
    BY DEF WaveInv
  <2>1. u \in Nat /\ u - Behind(q, p) \in Nat
    BY Distance DEF Steps, Parameters
  <2> QED
    BY <2>1 DEF WaveInv
<1> QED
  BY <1>1, <1>2 DEF ChannelInv

(* The content of a target buffer depends on what has landed in it. *)
LEMMA MemoryKept ==
  ASSUME Parameters, MemoryInv, UNCHANGED <<round, mem>>,
         \A c \in Channels : Used(c) => Landed(c)' = Landed(c),
         \A q \in Ranks, u \in 1 .. N - 1 : Sent(q, u)' = Sent(q, u)
  PROVE  MemoryInv'
<1> SUFFICES ASSUME NEW r \in Ranks, NEW i \in Ranks
             PROVE  /\ mem'[<<"source", r, i>>] = SourceContent(r, i)'
                    /\ Used(<<"reduce", r, i>>) =>
                         mem'[<<"target", Right(r), i>>] = TargetContent(<<"reduce", r, i>>)'
  BY DEF MemoryInv
<1>1. mem[<<"source", r, i>>] = SourceContent(r, i)
  BY DEF MemoryInv
<1>2. SourceContent(r, i)' = SourceContent(r, i)
  <2> DEFINE c == <<"gather", Left(r), i>>
  <2>1. c \in Channels /\ (Behind(r, i) < N - 1 => Used(c)) /\ Behind(r, i) \in 0 .. N - 1
    BY GatherChannel, Distance
  <2>2. Behind(r, i) < N - 1 => Landed(c)' = Landed(c)
    BY <2>1
  <2>3. CASE Behind(r, i) = 0
    <3>1. Arc(r, Behind(r, i)) = {r}
      BY <2>3, ArcEnds
    <3> HIDE DEF c
    <3> QED
      BY <2>2, <3>1 DEF SourceContent, c
  <2>4. CASE Behind(r, i) # 0
    <3>1. Sent(r, Behind(r, i))' = Sent(r, Behind(r, i))
      BY <2>1, <2>4 DEF Parameters
    <3> HIDE DEF c
    <3> QED
      BY <2>2, <3>1 DEF SourceContent, c
  <2> QED
    BY <2>3, <2>4
<1>3. ASSUME Used(<<"reduce", r, i>>)
      PROVE  mem'[<<"target", Right(r), i>>] = TargetContent(<<"reduce", r, i>>)'
  <2> DEFINE c == <<"reduce", r, i>>
  <2>1. c \in Channels
    BY ReduceChannel
  <2>2. mem[<<"target", Right(r), i>>] = TargetContent(c) /\ Landed(c)' = Landed(c)
    BY <1>3, <2>1 DEF MemoryInv
  <2> HIDE DEF c
  <2>3. TargetContent(c)' = TargetContent(c)
    BY <2>2 DEF TargetContent
  <2> QED
    BY <2>2, <2>3 DEF c
<1> QED
  BY <1>1, <1>2, <1>3

(* Nobody else copies out. *)
LEMMA ResultsKept ==
  ASSUME ResultsCorrect, number_elements' = number_elements,
         \A q \in Ranks : HasResult(q)' =>
           HasResult(q) /\ output'[q] = output[q] /\ round'[q] = round[q]
  PROVE  ResultsCorrect'
<1> DEFINE Result(q, k) == [i \in Ranks |-> SetToBag({<<p, k>> : p \in Ranks})]
<1>1. number_elements > 0 => \A q \in Ranks : HasResult(q) => output[q] = Result(q, round[q])
  BY DEF ResultsCorrect
<1>2. number_elements' > 0 =>
        \A q \in Ranks : HasResult(q)' => output'[q] = Result(q, round'[q])
  <2> HIDE DEF Result
  <2> QED
    BY <1>1
<1> QED
  BY <1>2 DEF ResultsCorrect

(* copyIn begins an execution: nothing of it has come to r yet. *)
LEMMA CopyInStep ==
  ASSUME Parameters, TypeInv, DataInv, number_elements # 0, NEW r \in Ranks, CopyIn(r)
  PROVE  TypeInv' /\ DataInv'
<1> USE DEF DataInv
<1>1. /\ state[r] = "INITIALIZED" /\ round[r] < Rounds
      /\ state' = [state EXCEPT ![r] = "READY"]
      /\ round' = [round EXCEPT ![r] = round[r] + 1]
      /\ UNCHANGED <<output, number_elements, current_step, current_index,
                     writing, arrived, acking, acked>>
  BY DEF CopyIn, copyIn, endpointVars, allreduceVars
<1>2. /\ round \in [Ranks -> 0 .. Rounds] /\ state \in [Ranks -> States] /\ Rounds \in Nat
      /\ number_elements = 1
  BY DEF Parameters, TypeInv, TypeOK
<1>3. mem' = [l \in Locations |-> IF l[1] = "source" /\ l[2] = r THEN Reduced({r}, round'[r])
                                  ELSE mem[l]]
  <2>1. Reduced({r}, round'[r]) = SetToBag({<<r, round'[r]>>})
    <3>1. {<<q, round'[r]>> : q \in {r}} = {<<r, round'[r]>>}
      OBVIOUS
    <3> QED
      BY <3>1 DEF Reduced
  <2>2. mem' = [l \in Locations |->
                  IF l[1] = "source" /\ l[2] = r /\ number_elements > 0
                    THEN SetToBag({<<r, round'[r]>>}) ELSE mem[l]]
    BY DEF CopyIn
  <2>3. number_elements > 0
    BY <1>2
  <2> QED
    BY <2>1, <2>2, <2>3
<1>4. TypeInv'
  <2>1. state' \in [Ranks -> States] /\ round' \in [Ranks -> 0 .. Rounds]
    BY <1>1, <1>2 DEF States
  <2>2. \A q \in Ranks : state'[q] # "INITIALIZED" => round'[q] > 0
    BY <1>1, <1>2 DEF TypeInv
  <2>3. DOMAIN mem' = Locations
    BY <1>3
  <2>4. EndpointTypeOK(Channels)'
    BY <1>1 DEF TypeInv, TypeOK, EndpointTypeOK
  <2> QED
    BY <1>1, <2>1, <2>2, <2>3, <2>4 DEF TypeInv, TypeOK
<1>5. \A q \in Ranks, u \in Nat : Sent(q, u)' = Sent(q, u) /\ Confirmed(q)' = Confirmed(q)
  BY <1>1, <1>2 DEF Sent, Confirmed
<1>6. ChannelInv' /\ WaveInv'
  BY <1>1, <1>5, AccountsKept
<1>7. IndexInv'
  BY <1>1, <1>2 DEF IndexInv
<1>8. \A c \in Channels : Landed(c)' = Landed(c)
  BY <1>1, <1>5, ChannelFacts DEF Landed
<1>9. MemoryInv'
  <2> SUFFICES ASSUME NEW q \in Ranks, NEW i \in Ranks
               PROVE  /\ mem'[<<"source", q, i>>] = SourceContent(q, i)'
                      /\ Used(<<"reduce", q, i>>) =>
                           mem'[<<"target", Right(q), i>>] = TargetContent(<<"reduce", q, i>>)'
    BY DEF MemoryInv
  <2> DEFINE v == Behind(q, i)
             d == <<"gather", Left(q), i>>
             e == <<"reduce", q, i>>
             g == <<"source", q, i>>
             h == <<"target", Right(q), i>>
  <2>1. /\ v \in 0 .. N - 1 /\ Left(q) \in Ranks
        /\ d \in Channels /\ d[2] = Left(q) /\ Turn(d) = N - 1 + v /\ e \in Channels
    BY Distance, Neighbours, GatherChannel, ReduceChannel
  <2>2. /\ mem[g] = SourceContent(q, i)
        /\ Used(e) => mem[h] = TargetContent(e)
    BY DEF MemoryInv
  <2>3. g \in Locations /\ g[1] = "source" /\ g[2] = q /\ h \in Locations /\ h[1] = "target"
    BY Neighbours DEF Locations
  <2> HIDE DEF g, h, e, v
  <2>4. mem'[h] = mem[h] /\ TargetContent(e)' = TargetContent(e)
    BY <1>3, <1>8, <2>1, <2>3 DEF TargetContent
  <2>5. CASE q # r
    <3>1. mem'[g] = mem[g] /\ round'[q] = round[q]
      BY <1>1, <1>2, <1>3, <2>3, <2>5
    <3>2. Landed(d)' = Landed(d) /\ Sent(q, v)' = Sent(q, v)
      BY <1>5, <1>8, <2>1
    <3> HIDE DEF d
    <3>3. SourceContent(q, i)' = SourceContent(q, i)
      BY <3>1, <3>2 DEF SourceContent, d, v
    <3> QED
      BY <2>2, <2>4, <3>1, <3>3 DEF g, h, e
  <2>6. CASE q = r
    <3>1. mem'[g] = Reduced({r}, round'[r]) /\ round'[r] = round[r] + 1 /\ round[r] \in Nat
      BY <1>1, <1>2, <1>3, <2>3, <2>6
    <3>2. Sent(r, v) = round[r]
      BY <1>1 DEF Sent
    <3>3. v < N - 1 => Landed(d) <= round[r] /\ Landed(d) \in Int
      <4> SUFFICES ASSUME v < N - 1 PROVE Landed(d) <= round[r] /\ Landed(d) \in Int
        OBVIOUS
      <4>1. /\ N - 1 + v \in Steps /\ N - 1 + v >= N - 1 /\ Behind(Left(q), q) = N - 1
            /\ (N - 1 + v) - (N - 1) = v
        BY <2>1, Distance DEF Steps, Parameters
      <4>2. Sent(Left(q), N - 1 + v) <= Sent(q, v)
        BY <2>1, <4>1 DEF WaveInv
      <4>3. Sent(Left(q), N - 1 + v) \in Nat /\ writing[d] \in Nat
        <5>1. N - 1 + v \in Nat
          BY <4>1 DEF Steps
        <5> QED
          BY <2>1, <5>1, Counts, EndpointTypes
      <4>4. Landed(d) = Sent(Left(q), N - 1 + v) - writing[d]
        BY <2>1 DEF Landed
      <4> HIDE DEF d
      <4> QED
        BY <2>6, <3>1, <3>2, <4>2, <4>3, <4>4
    <3>4. (v < N - 1 => Landed(d)' = Landed(d)) /\ Sent(q, v)' = Sent(q, v)
      BY <1>5, <1>8, <2>1
    <3> HIDE DEF d
    <3>5. SourceContent(q, i)' = Reduced({r}, round'[r])
      BY <2>6, <3>1, <3>2, <3>3, <3>4 DEF SourceContent, d, v
    <3> QED
      BY <2>2, <2>4, <3>1, <3>5 DEF g, h, e
  <2> QED
    BY <2>5, <2>6
<1>10. ResultsCorrect'
  <2>1. \A q \in Ranks : HasResult(q)' =>
          HasResult(q) /\ output'[q] = output[q] /\ round'[q] = round[q]
    BY <1>1, <1>2 DEF HasResult
  <2> QED
    BY <1>1, <2>1, ResultsKept
<1> QED
  BY <1>4, <1>6, <1>7, <1>9, <1>10

(* A step of rank r that sends step s and does nothing else keeps the      *)
(* accounts.                                                               *)
LEMMA AccountsMoved ==
  ASSUME Parameters, TypeInv, ChannelInv, NEW r \in Ranks, NEW s \in Nat,
         SendsOne(r, s), PostsOne(r, s)
  PROVE  ChannelInv'
<1> SUFFICES ASSUME NEW c \in Channels PROVE Accounted(c)'
  BY DEF ChannelInv
<1> DEFINE p == c[2]
           q == Right(p)
           u == Turn(c)
           W == writing[c] + arrived[c]
           A == acking[c] + acked[c]
           out == Used(c) /\ p = r /\ u = s
           in  == Used(c) /\ p = Left(r) /\ u + 1 = s
<1>1. /\ p \in Ranks /\ q \in Ranks /\ u \in Nat /\ u + 1 \in Nat /\ (p = Left(r) <=> q = r)
      /\ ~(out /\ in)
  BY ChannelFacts, Neighbours
<1>2. /\ W = IF Used(c) THEN Sent(p, u) - Sent(q, u + 1) ELSE 0
      /\ A = IF u = 2 * N - 3 /\ Used(c) THEN Sent(q, u + 1) - Confirmed(p) ELSE 0
  BY DEF ChannelInv, Accounted
<1>3. /\ Sent(p, u) \in Nat /\ Sent(q, u + 1) \in Nat /\ Confirmed(p) \in Nat
      /\ W \in Nat /\ A \in Nat
  <2>1. W \in Nat /\ A \in Nat
    BY EndpointTypes
  <2>2. Sent(p, u) \in Nat /\ Sent(q, u + 1) \in Nat /\ Confirmed(p) \in Nat
    BY <1>1, Counts
  <2> QED
    BY <2>1, <2>2
<1>4. /\ writing'[c] + arrived'[c] = IF out THEN W + 1 ELSE IF in THEN W - 1 ELSE W
      /\ acking'[c] + acked'[c] = IF in /\ u = 2 * N - 3 THEN A + 1 ELSE A
  BY DEF PostsOne
<1>5. /\ Sent(p, u)' = IF p = r /\ u = s THEN Sent(p, u) + 1 ELSE Sent(p, u)
      /\ Sent(q, u + 1)' = IF q = r /\ u + 1 = s THEN Sent(q, u + 1) + 1 ELSE Sent(q, u + 1)
      /\ Confirmed(p)' = Confirmed(p)
  BY <1>1 DEF SendsOne
<1>6. /\ (writing[c] + arrived[c])' = IF Used(c) THEN Sent(p, u)' - Sent(q, u + 1)' ELSE 0
      /\ (acking[c] + acked[c])' =
           IF u = 2 * N - 3 /\ Used(c) THEN Sent(q, u + 1)' - Confirmed(p)' ELSE 0
  <2> DEFINE a == Sent(p, u)
             b == Sent(q, u + 1)
             z == Confirmed(p)
  <2> HIDE DEF W, A, a, b, z, p, q, u
  <2>1. CASE ~Used(c)
    BY <1>2, <1>4, <2>1
  <2>2. CASE Used(c)
    <3>1. W = a - b /\ A = IF u = 2 * N - 3 THEN b - z ELSE 0
      BY <1>2, <2>2 DEF a, b, z
    <3>2. a \in Nat /\ b \in Nat /\ z \in Nat
      BY <1>3 DEF a, b, z
    <3>3. /\ a' = IF p = r /\ u = s THEN a + 1 ELSE a
          /\ b' = IF p = Left(r) /\ u + 1 = s THEN b + 1 ELSE b
          /\ z' = z
      BY <1>1, <1>5 DEF a, b, z
    <3>4. /\ (writing[c] + arrived[c])' = a' - b'
          /\ (acking[c] + acked[c])' = IF u = 2 * N - 3 THEN b' - z' ELSE 0
      <4> HIDE DEF a, b, z
      <4> QED
        BY <1>1, <1>4, <2>2, <3>1, <3>2, <3>3
    <3> QED
      BY <2>2, <3>4 DEF a, b, z
  <2> QED
    BY <2>1, <2>2
<1> QED
  BY <1>6 DEF Accounted

(* start posts the first step. *)
LEMMA StartStep ==
  ASSUME Parameters, TypeInv, DataInv, number_elements # 0, NEW r \in Ranks, Start(r)
  PROVE  TypeInv' /\ DataInv'
<1> USE DEF DataInv
<1> DEFINE o == <<"reduce", r, r>>
<1>1. /\ state[r] = "READY"
      /\ state' = [state EXCEPT ![r] = "RUNNING"]
      /\ current_step' = [current_step EXCEPT ![r] = 0]
      /\ current_index' = [current_index EXCEPT ![r] = Down(r)]
      /\ writing' = [writing EXCEPT ![o] = writing[o] + 1]
      /\ UNCHANGED <<round, output, mem, number_elements, arrived, acking, acked>>
  BY DEF Start, start, initTransfer
<1>2. o \in Channels /\ o[2] = r /\ Turn(o) = 0 /\ Used(o)
  BY ReduceChannel, Distance DEF Parameters
<1> HIDE DEF o
<1>3. /\ state \in [Ranks -> States] /\ current_step \in [Ranks -> 0 .. 2 * (N - 1)]
      /\ current_index \in [Ranks -> Ranks] /\ round \in [Ranks -> 0 .. Rounds]
      /\ writing \in [Channels -> Nat] /\ 0 \in 0 .. 2 * (N - 1)
      /\ \A q \in Ranks : round[q] \in Nat
  BY DEF Parameters, TypeInv, TypeOK, EndpointTypeOK, steps_per_stage
<1>4. Down(r) \in Ranks /\ Behind(r, Down(r)) = 1
  <2>1. Down(r) = Left(r) /\ Behind(r, Left(r)) = Behind(Right(r), r) /\ Left(r) \in Ranks
    BY RingFacts
  <2>2. Behind(Right(r), r) = Behind(r, r) + 1 /\ Behind(r, r) = 0
    BY Distance, Neighbours
  <2> QED
    BY <2>1, <2>2
<1>5. TypeInv'
  <2>1. writing' \in [Channels -> Nat]
    BY <1>1, <1>2, <1>3
  <2>2. state' \in [Ranks -> States] /\ current_step' \in [Ranks -> 0 .. 2 * (N - 1)]
    BY <1>1, <1>3 DEF States
  <2>3. current_index' \in [Ranks -> Ranks]
    BY <1>1, <1>3, <1>4
  <2>4. \A q \in Ranks : state'[q] # "INITIALIZED" => round'[q] > 0
    BY <1>1, <1>3 DEF TypeInv
  <2> QED
    BY <1>1, <2>1, <2>2, <2>3, <2>4 DEF TypeInv, TypeOK, EndpointTypeOK, steps_per_stage
<1>6. SendsOne(r, 0)
  BY <1>1, <1>3 DEF SendsOne, Sent, Confirmed
<1>7. \A c \in Channels :
        /\ writing'[c] = IF Used(c) /\ c[2] = r /\ Turn(c) = 0 THEN writing[c] + 1 ELSE writing[c]
        /\ writing[c] \in Nat /\ arrived[c] \in Nat
  <2> SUFFICES ASSUME NEW c \in Channels
               PROVE  writing'[c] = IF Used(c) /\ c[2] = r /\ Turn(c) = 0 THEN writing[c] + 1
                                    ELSE writing[c]
    BY EndpointTypes
  <2>1. c = o <=> Used(c) /\ c[2] = r /\ Turn(c) = 0
    BY <1>2, ChannelFacts
  <2>2. writing'[c] = IF c = o THEN writing[c] + 1 ELSE writing[c]
    BY <1>1, <1>3
  <2> QED
    BY <2>1, <2>2
<1>8. ChannelInv'
  <2>1. \A c \in Channels : ~(Turn(c) + 1 = 0)
    BY ChannelFacts
  <2>2. PostsOne(r, 0)
    BY <1>1, <1>7, <2>1 DEF PostsOne
  <2> QED
    BY <1>6, <2>2, AccountsMoved
<1>9. WaveInv'
  BY <1>6, WaveKept
<1>10. IndexInv'
  BY <1>1, <1>3, <1>4 DEF IndexInv, Parameters
<1>11. MemoryInv'
  <2>1. ASSUME NEW c \in Channels, Used(c) PROVE Landed(c)' = Landed(c)
    <3>1. c[2] \in Ranks /\ Turn(c) \in Nat
      BY ChannelFacts
    <3>2. Sent(c[2], Turn(c)) \in Nat
      BY <3>1, Counts
    <3> QED
      BY <1>6, <1>7, <2>1, <3>1, <3>2 DEF Landed, SendsOne
  <2>2. \A q \in Ranks, u \in 1 .. N - 1 : Sent(q, u)' = Sent(q, u)
    BY <1>6 DEF SendsOne, Parameters
  <2> QED
    BY <1>1, <2>1, <2>2, MemoryKept
<1>12. ResultsCorrect'
  <2>1. \A q \in Ranks : HasResult(q)' =>
          HasResult(q) /\ output'[q] = output[q] /\ round'[q] = round[q]
    BY <1>1, <1>3 DEF HasResult
  <2> QED
    BY <1>1, <2>1, ResultsKept
<1> QED
  BY <1>5, <1>8, <1>9, <1>10, <1>11, <1>12

(* The channels of the next step of r, to be received from and sent to. *)
Incoming(r) ==
  IF current_step[r] < N - 1 THEN <<"reduce", Left(r), current_index[r]>>
                             ELSE <<"gather", Left(r), current_index[r]>>
Outgoing(r) ==
  IF current_step[r] < N - 2 THEN <<"reduce", r, current_index[r]>>
                             ELSE <<"gather", r, current_index[r]>>

(* What the two stages have in common. *)
Advances(r) ==
  LET t == current_step[r]
  IN  /\ state[r] = "RUNNING" /\ t # 2 * N - 2 /\ arrived[Incoming(r)] # 0
      /\ arrived' = [arrived EXCEPT ![Incoming(r)] = 0]
      /\ IF t = 2 * N - 3
           THEN acking' = [acking EXCEPT ![Incoming(r)] = @ + 1] /\ writing' = writing
           ELSE writing' = [writing EXCEPT ![Outgoing(r)] = @ + 1] /\ acking' = acking
      /\ current_step' = [current_step EXCEPT ![r] = t + 1]
      /\ current_index' = [current_index EXCEPT ![r] = Down(@)]
      /\ UNCHANGED <<state, round, output, number_elements, acked>>

(* The channels that a rank takes from and sends to in a step. *)
LEMMA StepChannels ==
  ASSUME Parameters, TypeInv, IndexInv, NEW r \in Ranks,
         state[r] = "RUNNING", current_step[r] # 2 * N - 2
  PROVE  /\ current_step[r] \in 0 .. 2 * N - 3 /\ current_index[r] \in Ranks
         /\ Incoming(r) \in Channels /\ Incoming(r)[2] = Left(r)
         /\ Used(Incoming(r)) /\ Turn(Incoming(r)) = current_step[r]
         /\ current_step[r] # 2 * N - 3 =>
              /\ Outgoing(r) \in Channels /\ Outgoing(r)[2] = r
              /\ Used(Outgoing(r)) /\ Turn(Outgoing(r)) = current_step[r] + 1
<1> DEFINE t == current_step[r]
           i == current_index[r]
           l == Left(r)
<1>1. /\ t \in 0 .. 2 * N - 3 /\ i \in Ranks /\ N \in Nat /\ N > 1
      /\ Behind(r, i) = IF t < N - 1 THEN t + 1 ELSE t - (N - 1)
  BY DEF Parameters, TypeInv, TypeOK, IndexInv, steps_per_stage
<1>2. l \in Ranks /\ Right(l) = r /\ Left(Right(r)) = r /\ Right(r) \in Ranks
  BY Neighbours
<1> HIDE DEF t, i, l
<1>3. /\ Behind(r, i) = 0 <=> i = r
      /\ Behind(r, i) = N - 1 <=> i = Right(r)
      /\ Behind(Right(r), i) = IF i = Right(r) THEN 0 ELSE Behind(r, i) + 1
      /\ i # r => Behind(l, i) = Behind(r, i) - 1
  BY <1>1, Distance DEF l
<1>4. ASSUME t < N - 1
      PROVE  /\ Incoming(r) \in Channels /\ Incoming(r)[2] = l
             /\ Used(Incoming(r)) /\ Turn(Incoming(r)) = t
  <2> DEFINE c == <<"reduce", l, i>>
  <2>1. /\ c \in Channels /\ c[2] = l /\ Turn(c) = Behind(l, i)
        /\ Used(c) <=> Behind(l, i) < N - 1
    BY <1>1, <1>2, ReduceChannel
  <2>2. Incoming(r) = c
    BY <1>4 DEF Incoming, t, i, l
  <2> HIDE DEF c
  <2>3. Behind(l, i) = t
    BY <1>1, <1>3, <1>4
  <2> QED
    BY <1>4, <2>1, <2>2, <2>3
<1>5. ASSUME t >= N - 1
      PROVE  /\ Incoming(r) \in Channels /\ Incoming(r)[2] = l
             /\ Used(Incoming(r)) /\ Turn(Incoming(r)) = t
  <2> DEFINE c == <<"gather", l, i>>
  <2>1. /\ c \in Channels /\ c[2] = l /\ Turn(c) = N - 1 + Behind(r, i)
        /\ Used(c) <=> Behind(r, i) < N - 1
    BY <1>1, GatherChannel DEF l
  <2>2. Incoming(r) = c
    BY <1>1, <1>5 DEF Incoming, t, i, l
  <2> HIDE DEF c
  <2>3. Behind(r, i) = t - (N - 1) /\ Behind(r, i) < N - 1
    BY <1>1, <1>5
  <2> QED
    BY <1>1, <1>5, <2>1, <2>2, <2>3
<1>6. ASSUME t < N - 2
      PROVE  /\ Outgoing(r) \in Channels /\ Outgoing(r)[2] = r
             /\ Used(Outgoing(r)) /\ Turn(Outgoing(r)) = t + 1
  <2> DEFINE c == <<"reduce", r, i>>
  <2>1. /\ c \in Channels /\ c[2] = r /\ Turn(c) = Behind(r, i)
        /\ Used(c) <=> Behind(r, i) < N - 1
    BY <1>1, ReduceChannel
  <2>2. Outgoing(r) = c
    BY <1>6 DEF Outgoing, t, i
  <2> HIDE DEF c
  <2> QED
    BY <1>1, <1>6, <2>1, <2>2
<1>7. ASSUME t >= N - 2, t # 2 * N - 3
      PROVE  /\ Outgoing(r) \in Channels /\ Outgoing(r)[2] = r
             /\ Used(Outgoing(r)) /\ Turn(Outgoing(r)) = t + 1
  <2> DEFINE c == <<"gather", r, i>>
  <2>1. /\ c \in Channels /\ c[2] = r /\ Turn(c) = N - 1 + Behind(Right(r), i)
        /\ Used(c) <=> Behind(Right(r), i) < N - 1
    <3> DEFINE d == <<"gather", Left(Right(r)), i>>
    <3>1. /\ d \in Channels /\ d[2] = Left(Right(r)) /\ Turn(d) = N - 1 + Behind(Right(r), i)
          /\ Used(d) <=> Behind(Right(r), i) < N - 1
      BY <1>1, <1>2, GatherChannel
    <3> QED
      BY <1>2, <3>1
  <2>2. Outgoing(r) = c
    BY <1>1, <1>7 DEF Outgoing, t, i
  <2> HIDE DEF c
  <2>3. t # 2 * N - 3 => Behind(Right(r), i) = t + 1 - (N - 1)
    BY <1>1, <1>3, <1>7
  <2> QED
    BY <1>1, <1>7, <2>1, <2>2, <2>3
<1> QED
  BY <1>1, <1>4, <1>5, <1>6, <1>7 DEF t, i, l

(* What the two stages have in common: the rank takes the chunk from the   *)
(* left, sends the next one and goes on to the next step.                  *)
LEMMA AdvanceStep ==
  ASSUME Parameters, TypeInv, IndexInv, ChannelInv, WaveInv, NEW r \in Ranks, Advances(r)
  PROVE  /\ EndpointTypeOK(Channels)'
         /\ current_step' \in [Ranks -> 0 .. 2 * N - 2] /\ current_index' \in [Ranks -> Ranks]
         /\ IndexInv' /\ ChannelInv' /\ WaveInv'
         /\ SendsOne(r, current_step[r] + 1)
         /\ \A c \in Channels : Used(c) => Landed(c)' = Landed(c)
         /\ writing[Incoming(r)] = 0
         /\ Sent(Left(r), current_step[r]) = round[r]
         /\ Sent(r, current_step[r] + 1) = round[r] - 1
<1> DEFINE t == current_step[r]
           s == t + 1
           l == Left(r)
           in == Incoming(r)
           out == Outgoing(r)
<1>1. /\ state[r] = "RUNNING" /\ t # 2 * N - 2 /\ arrived[in] # 0
      /\ arrived' = [arrived EXCEPT ![in] = 0]
      /\ IF t = 2 * N - 3
           THEN acking' = [acking EXCEPT ![in] = acking[in] + 1] /\ writing' = writing
           ELSE writing' = [writing EXCEPT ![out] = writing[out] + 1] /\ acking' = acking
      /\ current_step' = [current_step EXCEPT ![r] = s]
      /\ current_index' = [current_index EXCEPT ![r] = Down(current_index[r])]
      /\ UNCHANGED <<state, round, output, number_elements, acked>>
  BY DEF Advances
<1>2. /\ t \in 0 .. 2 * N - 3 /\ current_index[r] \in Ranks
      /\ in \in Channels /\ in[2] = l /\ Used(in) /\ Turn(in) = t
      /\ t # 2 * N - 3 => out \in Channels /\ out[2] = r /\ Used(out) /\ Turn(out) = s
  BY <1>1, StepChannels
<1> HIDE DEF in, out
<1>3. /\ writing \in [Channels -> Nat] /\ arrived \in [Channels -> 0 .. 1]
      /\ acking \in [Channels -> Nat] /\ acked \in [Channels -> 0 .. 1]
      /\ current_step \in [Ranks -> 0 .. 2 * N - 2] /\ current_index \in [Ranks -> Ranks]
      /\ \A q \in Ranks : round[q] \in Nat
      /\ l \in Ranks /\ Right(l) = r /\ l # r /\ N \in Nat /\ N > 1
  <2>1. current_step \in [Ranks -> 0 .. 2 * N - 2]
    BY DEF Parameters, TypeInv, TypeOK, steps_per_stage
  <2> QED
    BY <2>1, Neighbours DEF Parameters, TypeInv, TypeOK, EndpointTypeOK
<1> HIDE DEF l
<1>4. EndpointTypeOK(Channels)'
  <2>1. writing' \in [Channels -> Nat]
    BY <1>1, <1>2, <1>3
  <2>2. arrived' \in [Channels -> 0 .. 1]
    BY <1>1, <1>2, <1>3
  <2>3. acking' \in [Channels -> Nat]
    BY <1>1, <1>2, <1>3
  <2> QED
    BY <1>1, <1>3, <2>1, <2>2, <2>3 DEF EndpointTypeOK
<1>5. /\ Down(current_index[r]) \in Ranks
      /\ Behind(r, Down(current_index[r])) =
           IF current_index[r] = Right(r) THEN 0 ELSE Behind(r, current_index[r]) + 1
  <2> DEFINE i == current_index[r]
  <2>1. Down(i) = Left(i) /\ Left(i) \in Ranks /\ Behind(r, Left(i)) = Behind(Right(r), i)
    BY <1>2, RingFacts
  <2>2. Behind(Right(r), i) = IF i = Right(r) THEN 0 ELSE Behind(r, i) + 1
    BY <1>2, Distance
  <2> QED
    BY <2>1, <2>2
<1>6. current_step' \in [Ranks -> 0 .. 2 * N - 2] /\ current_index' \in [Ranks -> Ranks]
  BY <1>1, <1>2, <1>3, <1>5
<1>7. IndexInv'
  <2> SUFFICES ASSUME NEW q \in Ranks, state'[q] = "RUNNING"
               PROVE  Behind(q, current_index'[q]) =
                        IF current_step'[q] < N - 1 THEN current_step'[q] + 1
                        ELSE current_step'[q] - (N - 1)
    BY DEF IndexInv
  <2>1. CASE q # r
    BY <1>1, <1>3, <2>1 DEF IndexInv
  <2>2. CASE q = r
    <3>1. Behind(r, current_index[r]) = IF t < N - 1 THEN t + 1 ELSE t - (N - 1)
      BY <1>1 DEF IndexInv
    <3>2. current_index[r] = Right(r) <=> Behind(r, current_index[r]) = N - 1
      BY <1>2, Distance
    <3>3. current_step'[r] = t + 1 /\ current_index'[r] = Down(current_index[r])
      BY <1>1, <1>3
    <3> QED
      BY <1>2, <1>3, <1>5, <2>2, <3>1, <3>2, <3>3
  <2> QED
    BY <2>1, <2>2
<1>8. SendsOne(r, s)
  <2> SUFFICES ASSUME NEW q \in Ranks, NEW u \in Nat
               PROVE  /\ Sent(q, u)' = IF q = r /\ u = s THEN Sent(q, u) + 1 ELSE Sent(q, u)
                      /\ Confirmed(q)' = Confirmed(q)
    BY DEF SendsOne
  <2>1. current_step'[q] = (IF q = r THEN s ELSE current_step[q]) /\ current_step[q] \in Nat
    BY <1>1, <1>3
  <2> QED
    BY <1>1, <1>2, <1>3, <2>1 DEF Sent, Confirmed
<1>9. \A c \in Channels :
        /\ c = in <=> Used(c) /\ c[2] = l /\ Turn(c) = t
        /\ t # 2 * N - 3 => (c = out <=> Used(c) /\ c[2] = r /\ Turn(c) = s)
        /\ t = 2 * N - 3 => ~(Used(c) /\ c[2] = r /\ Turn(c) = s)
        /\ Turn(c) + 1 = s <=> Turn(c) = t
  <2> SUFFICES ASSUME NEW c \in Channels
               PROVE  /\ c = in <=> Used(c) /\ c[2] = l /\ Turn(c) = t
                      /\ t # 2 * N - 3 => (c = out <=> Used(c) /\ c[2] = r /\ Turn(c) = s)
                      /\ t = 2 * N - 3 => ~(Used(c) /\ c[2] = r /\ Turn(c) = s)
                      /\ Turn(c) + 1 = s <=> Turn(c) = t
    OBVIOUS
  <2>1. c = in <=> Used(c) /\ c[2] = l /\ Turn(c) = t
    BY <1>2, ChannelFacts
  <2>2. t # 2 * N - 3 => (c = out <=> Used(c) /\ c[2] = r /\ Turn(c) = s)
    BY <1>2, ChannelFacts
  <2>3. Turn(c) \in Nat /\ (Used(c) => Turn(c) \in Steps)
    BY ChannelFacts
  <2> QED
    BY <1>2, <1>3, <2>1, <2>2, <2>3 DEF Steps
<1>10. arrived[in] = 1 /\ writing[in] = 0 /\ Sent(l, t) = round[r] /\ Sent(r, s) = round[r] - 1
  <2>1. arrived[in] = 1 /\ writing[in] \in Nat
    BY <1>1, <1>2, <1>3
  <2>2. writing[in] + arrived[in] <= 1
    BY <1>2, Bounded
  <2>3. writing[in] + arrived[in] = Sent(l, t) - Sent(r, s)
    BY <1>2, <1>3 DEF ChannelInv, Accounted
  <2>4. Sent(r, s) = round[r] - 1
    BY <1>1, <1>2 DEF Sent
  <2>5. Sent(l, t) \in Nat /\ round[r] \in Nat
    BY <1>2, <1>3, Counts
  <2> QED
    BY <2>1, <2>2, <2>3, <2>4, <2>5
<1>11. ASSUME NEW c \in Channels
       PROVE  /\ writing'[c] = IF Used(c) /\ c[2] = r /\ Turn(c) = s THEN writing[c] + 1
                               ELSE writing[c]
              /\ arrived'[c] = IF c = in THEN 0 ELSE arrived[c]
              /\ acking'[c] = IF c = in /\ t = 2 * N - 3 THEN acking[c] + 1 ELSE acking[c]
  <2>1. arrived'[c] = IF c = in THEN 0 ELSE arrived[c]
    BY <1>1, <1>2, <1>3
  <2>2. CASE t = 2 * N - 3
    BY <1>1, <1>2, <1>3, <1>9, <2>1, <2>2
  <2>3. CASE t # 2 * N - 3
    BY <1>1, <1>2, <1>3, <1>9, <2>1, <2>3
  <2> QED
    BY <2>2, <2>3
<1>12. PostsOne(r, s)
  <2> SUFFICES ASSUME NEW c \in Channels
               PROVE  LET go == Used(c) /\ c[2] = r /\ Turn(c) = s
                          come == Used(c) /\ c[2] = l /\ Turn(c) + 1 = s
                      IN  /\ writing'[c] + arrived'[c] =
                               IF go THEN writing[c] + arrived[c] + 1
                               ELSE IF come THEN (writing[c] + arrived[c]) - 1
                                    ELSE writing[c] + arrived[c]
                          /\ acking'[c] + acked'[c] =
                               IF come /\ Turn(c) = 2 * N - 3 THEN acking[c] + acked[c] + 1
                               ELSE acking[c] + acked[c]
    BY DEF PostsOne, l
  <2>1. writing[c] \in Nat /\ arrived[c] \in Nat /\ acking[c] \in Nat /\ acked[c] \in Nat
    BY <1>3
  <2>2. c = in <=> Used(c) /\ c[2] = l /\ Turn(c) + 1 = s
    BY <1>9
  <2>3. c = in => Turn(c) = t /\ ~(c[2] = r) /\ arrived[c] = 1
    BY <1>2, <1>3, <1>10
  <2> QED
    BY <1>1, <1>11, <2>1, <2>2, <2>3
<1>13. ChannelInv'
  BY <1>2, <1>8, <1>12, AccountsMoved
<1>14. WaveInv'
  <2>1. s \in Nat /\ s - 1 = t /\ t \in Steps
    BY <1>2, <1>3 DEF Steps
  <2>2. Sent(r, s) + 1 <= Sent(l, s - 1)
    BY <1>3, <1>10, <2>1
  <2> QED
    BY <1>8, <2>1, <2>2, WaveKept DEF l
<1>15. ASSUME NEW c \in Channels, Used(c) PROVE Landed(c)' = Landed(c)
  <2>1. c[2] \in Ranks /\ Turn(c) \in Nat /\ writing[c] \in Nat
    BY <1>3, ChannelFacts
  <2>2. Sent(c[2], Turn(c)) \in Nat
    BY <2>1, Counts
  <2> QED
    BY <1>8, <1>11, <1>15, <2>1, <2>2 DEF Landed, SendsOne
<1> QED
  BY <1>4, <1>6, <1>7, <1>8, <1>10, <1>13, <1>14, <1>15 DEF in, l

(* The result for chunk i comes back to r only after r has sent its        *)
(* contribution to it.                                                     *)
LEMMA NotGathered ==
  ASSUME Parameters, TypeInv, WaveInv, NEW r \in Ranks, NEW i \in Ranks, Behind(r, i) < N - 1
  PROVE  LET c == <<"gather", Left(r), i>>
         IN  Landed(c) \in Int /\ Landed(c) <= Sent(r, Behind(r, i))
<1> DEFINE c == <<"gather", Left(r), i>>
           l == Left(r)
           v == Behind(r, i)
           u == N - 1 + v
<1>1. c \in Channels /\ c[2] = l /\ Turn(c) = u /\ l \in Ranks /\ v \in Nat /\ N \in Nat /\ N > 1
  BY GatherChannel, Neighbours, Distance DEF Parameters
<1> HIDE DEF c
<1>2. u \in Steps /\ u \in Nat /\ u >= N - 1 /\ u - (N - 1) = v
  BY <1>1 DEF Steps
<1>3. Behind(l, r) = N - 1
  BY Distance
<1> HIDE DEF l, v, u
<1>4. Sent(l, u) <= Sent(r, v)
  BY <1>1, <1>2, <1>3 DEF WaveInv
<1>5. Sent(l, u) \in Nat /\ Sent(r, v) \in Nat /\ writing[c] \in Nat
  BY <1>1, <1>2, Counts, EndpointTypes
<1>6. Landed(c) = Sent(l, u) - writing[c]
  BY <1>1 DEF Landed
<1>7. Landed(c) \in Int /\ Landed(c) <= Sent(r, v)
  BY <1>4, <1>5, <1>6
<1> QED
  BY <1>7 DEF c, l, v

(* A partial sum comes from the left, is reduced and sent on. *)
LEMMA ReduceStep ==
  ASSUME Parameters, TypeInv, DataInv, number_elements # 0, NEW r \in Ranks, Reduce(r)
  PROVE  TypeInv' /\ DataInv'
<1> USE DEF DataInv
<1> DEFINE t == current_step[r]
           s == t + 1
           i == current_index[r]
           l == Left(r)
           g == <<"source", r, i>>
           h == <<"target", r, i>>
           e == <<"reduce", l, i>>
<1>1. t \in 0 .. 2 * N - 3 /\ t < N - 1 /\ i \in Ranks /\ state[r] = "RUNNING" /\ N \in Nat /\ N > 1
  BY StepChannels DEF Parameters, TypeInv, TypeOK, Reduce, progress, InReduceStage, steps_per_stage
<1>2. Advances(r)
  <2>1. /\ Incoming(r) = Into("reduce", r, i)
        /\ Outgoing(r) = <<IF is_last_step_reduce(r) THEN "gather" ELSE "reduce", r, i>>
    BY <1>1 DEF Incoming, Outgoing, Into, is_last_step_reduce, steps_per_stage
  <2> QED
    BY <1>1, <2>1 DEF Advances, Advance, Reduce, progress, targetCompletes, initTransfer
<1>3. mem' = [mem EXCEPT ![g] = mem[g] (+) mem[h]]
  BY DEF Reduce
<1>4. /\ EndpointTypeOK(Channels)'
      /\ current_step' \in [Ranks -> 0 .. 2 * N - 2] /\ current_index' \in [Ranks -> Ranks]
      /\ IndexInv' /\ ChannelInv' /\ WaveInv'
      /\ SendsOne(r, s)
      /\ \A c \in Channels : Used(c) => Landed(c)' = Landed(c)
      /\ writing[Incoming(r)] = 0 /\ Sent(l, t) = round[r] /\ Sent(r, s) = round[r] - 1
  BY <1>2, AdvanceStep
<1>5. /\ round \in [Ranks -> 0 .. Rounds] /\ round[r] > 0 /\ round[r] \in Nat
      /\ UNCHANGED <<state, round, output, number_elements>> /\ DOMAIN mem = Locations
      /\ l \in Ranks /\ Right(l) = r
  BY <1>1, <1>2, Neighbours DEF Advances, TypeInv, TypeOK
<1>6. TypeInv'
  <2>1. DOMAIN mem' = Locations
    BY <1>3, <1>5
  <2>2. 2 * steps_per_stage = 2 * N - 2
    BY <1>1 DEF steps_per_stage
  <2> QED
    BY <1>4, <1>5, <2>1, <2>2 DEF TypeInv, TypeOK
<1>7. Behind(r, i) = s /\ Behind(l, i) = t /\ e = Incoming(r)
  <2>1. Behind(r, i) = s
    BY <1>1 DEF IndexInv
  <2>2. i # r
    BY <1>1, <2>1, Distance
  <2> QED
    BY <1>1, <2>1, <2>2, Distance DEF Incoming
<1> HIDE DEF g, h, e, s, t, i, l
<1>8. mem[g] = Reduced({r}, round[r])
  <2>1. mem[g] = SourceContent(r, i)
    BY <1>1 DEF MemoryInv, g
  <2>2. Behind(r, i) < N - 1 => Landed(<<"gather", Left(r), i>>) # round[r]
    BY <1>1, <1>4, <1>5, <1>7, NotGathered
  <2> QED
    BY <1>4, <1>5, <1>7, <2>1, <2>2 DEF SourceContent
<1>9. mem[h] = Reduced(Arc(l, t), round[r])
  <2>1. e \in Channels /\ e[2] = l /\ Turn(e) = t /\ Used(e)
    BY <1>1, <1>5, <1>7, ReduceChannel DEF e
  <2>2. mem[h] = TargetContent(e)
    BY <1>1, <1>5, <2>1 DEF MemoryInv, e, h
  <2>3. Landed(e) = round[r]
    BY <1>4, <1>5, <1>7, <2>1 DEF Landed
  <2> QED
    BY <1>5, <2>1, <2>2, <2>3 DEF TargetContent
<1>10. mem[g] (+) mem[h] = Reduced(Arc(r, s), round[r])
  <2>1. t \in Nat /\ s = t + 1
    BY <1>1 DEF s
  <2> QED
    BY <1>1, <1>8, <1>9, <2>1, ArcStep DEF l
<1>11. MemoryInv'
  <2> SUFFICES ASSUME NEW q \in Ranks, NEW j \in Ranks
               PROVE  /\ mem'[<<"source", q, j>>] = SourceContent(q, j)'
                      /\ Used(<<"reduce", q, j>>) =>
                           mem'[<<"target", Right(q), j>>] = TargetContent(<<"reduce", q, j>>)'
    BY DEF MemoryInv
  <2> DEFINE d == <<"gather", Left(q), j>>
             f == <<"reduce", q, j>>
             x == <<"source", q, j>>
             y == <<"target", Right(q), j>>
             v == Behind(q, j)
  <2>1. /\ d \in Channels /\ (v < N - 1 => Used(d)) /\ f \in Channels
        /\ v \in 0 .. N - 1 /\ Right(q) \in Ranks
    BY GatherChannel, ReduceChannel, Distance, Neighbours
  <2>2. /\ x \in Locations /\ y \in Locations /\ x # g <=> ~(q = r /\ j = i)
        /\ y # g /\ g \in Locations
    BY <1>1, <2>1 DEF Locations, g
  <2>3. mem[x] = SourceContent(q, j) /\ (Used(f) => mem[y] = TargetContent(f))
    BY DEF MemoryInv
  <2>4. v < N - 1 => Landed(d)' = Landed(d)
    BY <1>4, <2>1
  <2>5. Sent(q, v)' = IF q = r /\ v = s THEN Sent(q, v) + 1 ELSE Sent(q, v)
    BY <1>4, <2>1 DEF SendsOne
  <2>6. v = s /\ q = r => j = i
    BY <1>1, <1>7, RingFacts
  <2>7. Used(f) => TargetContent(f)' = TargetContent(f) /\ mem'[y] = mem[y]
    <3> HIDE DEF f, y
    <3> QED
      BY <1>3, <1>4, <1>5, <2>1, <2>2 DEF TargetContent
  <2> HIDE DEF d, f, x, y
  <2>8. CASE q = r /\ j = i
    <3>1. mem'[x] = Reduced(Arc(r, s), round[r])
      <4>1. x = g
        BY <2>8 DEF x, g
      <4> QED
        BY <1>3, <1>5, <1>10, <2>2, <4>1
    <3>2. v = s /\ Sent(q, v)' = round[r] /\ round'[r] = round[r]
      BY <1>4, <1>5, <1>7, <2>5, <2>8
    <3>3. v < N - 1 => Landed(d) # round[r]
      BY <1>1, <1>4, <1>5, <1>7, <2>8, NotGathered DEF d
    <3>4. SourceContent(q, j)' = Reduced(Arc(r, s), round[r])
      BY <1>5, <2>4, <2>8, <3>2, <3>3 DEF SourceContent, d
    <3> QED
      BY <2>3, <2>7, <3>1, <3>4 DEF f, x, y
  <2>9. CASE ~(q = r /\ j = i)
    <3>1. mem'[x] = mem[x] /\ round'[q] = round[q]
      BY <1>3, <1>5, <2>2, <2>9
    <3>2. Sent(q, v)' = Sent(q, v)
      BY <2>5, <2>6, <2>9
    <3>3. SourceContent(q, j)' = SourceContent(q, j)
      BY <2>4, <3>1, <3>2 DEF SourceContent, d
    <3> QED
      BY <2>3, <2>7, <3>1, <3>3 DEF f, x, y
  <2> QED
    BY <2>8, <2>9
<1>12. ResultsCorrect'
  <2>1. \A q \in Ranks : HasResult(q)' =>
          HasResult(q) /\ output'[q] = output[q] /\ round'[q] = round[q]
    BY <1>5 DEF HasResult
  <2> QED
    BY <1>5, <2>1, ResultsKept
<1> QED
  BY <1>4, <1>6, <1>11, <1>12

(* A result comes from the left and is sent on, the last one acknowledged. *)
LEMMA GatherStep ==
  ASSUME Parameters, TypeInv, DataInv, number_elements # 0, NEW r \in Ranks, Gather(r)
  PROVE  TypeInv' /\ DataInv'
<1> USE DEF DataInv
<1> DEFINE t == current_step[r]
           i == current_index[r]
<1>1. /\ t \in 0 .. 2 * N - 3 /\ t >= N - 1 /\ t # 2 * N - 2 /\ state[r] = "RUNNING"
      /\ N \in Nat /\ N > 1
  BY DEF Parameters, TypeInv, TypeOK, Gather, progress, InReduceStage, is_last_step, steps_per_stage
<1>2. Advances(r)
  <2>1. Incoming(r) = Into("gather", r, i) /\ Outgoing(r) = <<"gather", r, i>>
    BY <1>1 DEF Incoming, Outgoing, Into
  <2>2. is_last_step_gather(r) <=> t = 2 * N - 3
    BY <1>1 DEF is_last_step_gather, steps_per_stage
  <2> QED
    BY <1>1, <2>1, <2>2
       DEF Advances, Advance, Gather, progress, targetCompletes, initTransfer, ackTransfer
<1>3. /\ EndpointTypeOK(Channels)'
      /\ current_step' \in [Ranks -> 0 .. 2 * N - 2] /\ current_index' \in [Ranks -> Ranks]
      /\ IndexInv' /\ ChannelInv' /\ WaveInv'
      /\ SendsOne(r, t + 1)
      /\ \A c \in Channels : Used(c) => Landed(c)' = Landed(c)
  BY <1>2, AdvanceStep
<1>4. UNCHANGED <<state, round, output, number_elements, mem>>
  BY <1>2 DEF Advances, Gather
<1>5. TypeInv'
  <2>1. 2 * steps_per_stage = 2 * N - 2
    BY <1>1 DEF steps_per_stage
  <2> QED
    BY <1>3, <1>4, <2>1 DEF TypeInv, TypeOK
<1>6. MemoryInv'
  <2>1. ASSUME NEW q \in Ranks, NEW u \in 1 .. N - 1 PROVE Sent(q, u)' = Sent(q, u)
    BY <1>1, <1>3 DEF SendsOne
  <2> QED
    BY <1>3, <1>4, <2>1, MemoryKept
<1>7. ResultsCorrect'
  <2>1. \A q \in Ranks : HasResult(q)' =>
          HasResult(q) /\ output'[q] = output[q] /\ round'[q] = round[q]
    BY <1>4 DEF HasResult
  <2> QED
    BY <1>4, <2>1, ResultsKept
<1> QED
  BY <1>3, <1>5, <1>6, <1>7

(* The last rank of the ring has acknowledged the last transfer of r. *)
LEMMA CompleteStep ==
  ASSUME Parameters, TypeInv, DataInv, number_elements # 0, NEW r \in Ranks, Complete(r)
  PROVE  TypeInv' /\ DataInv'
<1> USE DEF DataInv
<1> DEFINE i == current_index[r]
           n == 2 * N - 3
           o == <<"gather", r, Right(Right(Right(r)))>>
<1>1. /\ state[r] = "RUNNING" /\ current_step[r] = n + 1 /\ i = Right(r)
      /\ N \in Nat /\ N > 1 /\ n \in Nat
  <2>1. /\ state[r] = "RUNNING" /\ current_step[r] = 2 * (N - 1) /\ N \in Nat /\ N > 1
        /\ i \in Ranks
    BY DEF Parameters, TypeInv, TypeOK, Complete, complete, is_last_step, steps_per_stage
  <2>2. Behind(r, i) = N - 1
    BY <2>1 DEF IndexInv
  <2> QED
    BY <2>1, <2>2, Distance
<1>2. o \in Channels /\ o[2] = r /\ Used(o) /\ Turn(o) = n
  BY LastChannel
<1>3. /\ acked[o] # 0 /\ acked' = [acked EXCEPT ![o] = 0]
      /\ state' = [state EXCEPT ![r] = "FINISHED"]
      /\ UNCHANGED <<round, output, mem, number_elements, current_step, current_index,
                     writing, arrived, acking>>
  <2>1. (i + 2) % N = Right(Right(i))
    BY <1>1, Neighbours, RingFacts
  <2> QED
    BY <1>1, <2>1 DEF Complete, complete, sourceAcked, allreduceVars
<1> HIDE DEF o
<1>4. /\ state \in [Ranks -> States] /\ acked \in [Channels -> 0 .. 1]
      /\ \A q \in Ranks : round[q] \in Nat /\ current_step[q] \in Nat
      /\ \A q \in Ranks : state[q] # "INITIALIZED" => round[q] > 0
  BY <1>1 DEF TypeInv, TypeOK, EndpointTypeOK, steps_per_stage
<1>5. TypeInv'
  <2>1. state' \in [Ranks -> States] /\ acked' \in [Channels -> 0 .. 1]
    BY <1>2, <1>3, <1>4 DEF States
  <2>2. \A q \in Ranks : state'[q] # "INITIALIZED" => round'[q] > 0
    BY <1>1, <1>3, <1>4
  <2> QED
    BY <1>3, <2>1, <2>2 DEF TypeInv, TypeOK, EndpointTypeOK
<1>6. \A q \in Ranks, u \in 0 .. n + 1 : Sent(q, u)' = Sent(q, u)
  BY <1>1, <1>3, <1>4 DEF Sent
<1>7. \A q \in Ranks : Confirmed(q)' = IF q = r THEN Confirmed(q) + 1 ELSE Confirmed(q)
  BY <1>1, <1>3, <1>4 DEF Confirmed
<1> HIDE DEF n
<1>8. ChannelInv'
  <2> SUFFICES ASSUME NEW c \in Channels PROVE Accounted(c)'
    BY DEF ChannelInv
  <2> DEFINE p == c[2]
             q == Right(p)
             u == Turn(c)
             a == Sent(p, u)
             b == Sent(q, u + 1)
             z == Confirmed(p)
  <2>1. p \in Ranks /\ q \in Ranks /\ u \in Nat /\ (Used(c) => u <= n)
    BY ChannelFacts, Neighbours DEF Parameters, Steps, n
  <2>2. /\ writing[c] + arrived[c] = IF Used(c) THEN a - b ELSE 0
        /\ acking[c] + acked[c] = IF u = n /\ Used(c) THEN b - z ELSE 0
    BY DEF ChannelInv, Accounted, n
  <2>3. c = o <=> Used(c) /\ p = r /\ u = n
    BY <1>2, ChannelFacts
  <2>4. acking[c] \in Nat /\ acked[c] \in 0 .. 1
    BY EndpointTypes
  <2>5. /\ acked'[c] = (IF c = o THEN 0 ELSE acked[c]) /\ (c = o => acked[c] = 1)
        /\ writing'[c] = writing[c] /\ arrived'[c] = arrived[c] /\ acking'[c] = acking[c]
    BY <1>3, <1>4, <2>4
  <2>6. a \in Nat /\ b \in Nat /\ z \in Nat
    <3>1. u + 1 \in Nat
      BY <2>1
    <3> QED
      BY <2>1, <3>1, Counts
  <2>7. Used(c) => a' = a /\ b' = b
    <3>1. Used(c) => u \in 0 .. n + 1 /\ u + 1 \in 0 .. n + 1
      BY <1>1, <2>1
    <3> QED
      BY <1>6, <2>1, <3>1
  <2>8. z' = IF p = r THEN z + 1 ELSE z
    BY <1>7, <2>1
  <2>9. /\ writing'[c] + arrived'[c] = IF Used(c) THEN a' - b' ELSE 0
        /\ acking'[c] + acked'[c] = IF u = n /\ Used(c) THEN b' - z' ELSE 0
    <3> HIDE DEF a, b, z, u, p, q
    <3> QED
      BY <2>2, <2>3, <2>4, <2>5, <2>6, <2>7, <2>8
  <2> QED
    BY <2>9 DEF Accounted, n
<1>9. WaveInv'
  <2> SUFFICES ASSUME NEW q \in Ranks, NEW p \in Ranks, NEW u \in Steps, u >= Behind(q, p)
               PROVE  Sent(q, u)' <= Sent(p, u - Behind(q, p))'
    BY DEF WaveInv
  <2>1. u \in 0 .. n + 1 /\ u - Behind(q, p) \in 0 .. n + 1
    BY <1>1, Distance DEF Steps, n
  <2> QED
    BY <1>6, <2>1 DEF WaveInv
<1>10. IndexInv'
  BY <1>3, <1>4 DEF IndexInv
<1>11. MemoryInv'
  <2>1. ASSUME NEW c \in Channels, Used(c) PROVE Landed(c)' = Landed(c)
    <3>1. c[2] \in Ranks /\ Turn(c) \in 0 .. n + 1
      BY <1>1, <2>1, ChannelFacts DEF Steps, n
    <3> QED
      BY <1>3, <1>6, <3>1 DEF Landed
  <2>2. ASSUME NEW q \in Ranks, NEW u \in 1 .. N - 1 PROVE Sent(q, u)' = Sent(q, u)
    <3>1. u \in 0 .. n + 1
      BY <1>1 DEF n
    <3> QED
      BY <1>6, <3>1
  <2> QED
    BY <1>3, <2>1, <2>2, MemoryKept
<1>12. ResultsCorrect'
  <2>1. \A q \in Ranks : HasResult(q)' =>
          HasResult(q) /\ output'[q] = output[q] /\ round'[q] = round[q]
    BY <1>3, <1>4 DEF HasResult
  <2> QED
    BY <1>3, <2>1, ResultsKept
<1> QED
  BY <1>5, <1>8, <1>9, <1>10, <1>11, <1>12

(* When r has taken the step that receives the result for chunk i, or has  *)
(* made that result itself, its memory holds it.                           *)
LEMMA Gathered ==
  ASSUME Parameters, TypeInv, DataInv, NEW r \in Ranks, NEW i \in Ranks, round[r] > 0,
         Sent(r, IF Behind(r, i) = N - 1 THEN N - 1 ELSE N + Behind(r, i)) = round[r]
  PROVE  mem[<<"source", r, i>>] = Reduced(Ranks, round[r])
<1> USE DEF DataInv
<1> DEFINE v == Behind(r, i)
           k == round[r]
           d == <<"gather", Left(r), i>>
           l == Left(r)
<1>1. v \in 0 .. N - 1 /\ N \in Nat /\ N > 1 /\ k \in Nat /\ k > 0
  BY Distance, Counts DEF Parameters
<1>2. mem[<<"source", r, i>>] =
        IF v < N - 1 /\ Landed(d) = k THEN Reduced(Ranks, k)
        ELSE IF Sent(r, v) = k THEN Reduced(Arc(r, v), k) ELSE Reduced({r}, k)
  <2>1. mem[<<"source", r, i>>] = SourceContent(r, i)
    BY DEF MemoryInv
  <2> HIDE DEF d
  <2> QED
    BY <1>1, <2>1 DEF SourceContent, d
<1>3. CASE v = N - 1
  BY <1>1, <1>2, <1>3, ArcEnds
<1>4. CASE v # N - 1
  <2> DEFINE u == N - 1 + v
             a == Sent(l, u)
             b == Sent(r, u + 1)
  <2>1. /\ d \in Channels /\ d[2] = l /\ Turn(d) = u /\ Used(d) /\ Right(l) = r /\ l \in Ranks
        /\ v < N - 1 /\ u + 1 = N + v /\ u \in Nat
    BY <1>1, <1>4, GatherChannel, Neighbours
  <2>2. Landed(d) \in Int /\ Landed(d) <= Sent(r, v)
    BY <2>1, NotGathered
  <2>3. Sent(r, v) <= k /\ Sent(r, v) \in Nat /\ a \in Nat
    <3>1. v \in Nat
      BY <1>1
    <3> HIDE DEF v, u, l
    <3> QED
      BY <2>1, <3>1, Counts
  <2> HIDE DEF d, u, l
  <2>4. writing[d] + arrived[d] = a - b /\ Landed(d) = a - writing[d]
    BY <2>1 DEF ChannelInv, Accounted, Landed
  <2>5. b = k
    BY <1>4, <2>1
  <2>6. writing[d] \in Nat /\ arrived[d] \in Nat
    BY <2>1, EndpointTypes
  <2> HIDE DEF a, b, v, k
  <2>7. Landed(d) = k
    BY <1>1, <2>2, <2>3, <2>4, <2>5, <2>6
  <2> QED
    BY <1>2, <2>1, <2>7 DEF k
<1> QED
  BY <1>3, <1>4

(* copyOut hands out a vector of which all chunks are complete. *)
LEMMA CopyOutStep ==
  ASSUME Parameters, TypeInv, DataInv, number_elements # 0, NEW r \in Ranks, CopyOut(r)
  PROVE  TypeInv' /\ DataInv'
<1> USE DEF DataInv
<1>1. /\ state[r] = "FINISHED"
      /\ state' = [state EXCEPT ![r] = "INITIALIZED"]
      /\ output' = [output EXCEPT ![r] = [i \in Ranks |-> mem[<<"source", r, i>>]]]
      /\ UNCHANGED <<round, mem, number_elements, current_step, current_index,
                     writing, arrived, acking, acked>>
  BY DEF CopyOut, copyOut, allreduceVars, endpointVars
<1>2. /\ state \in [Ranks -> States] /\ \A q \in Ranks : round[q] \in Nat
      /\ \A q \in Ranks : state[q] # "INITIALIZED" => round[q] > 0
  BY DEF Parameters, TypeInv, TypeOK
<1>3. TypeInv'
  <2>1. state' \in [Ranks -> States]
    BY <1>1, <1>2 DEF States
  <2>2. \A q \in Ranks : state'[q] # "INITIALIZED" => round'[q] > 0
    BY <1>1, <1>2
  <2> QED
    BY <1>1, <2>1, <2>2 DEF TypeInv, TypeOK, EndpointTypeOK
<1>4. \A q \in Ranks, u \in Nat : Sent(q, u)' = Sent(q, u) /\ Confirmed(q)' = Confirmed(q)
  BY <1>1, <1>2 DEF Sent, Confirmed
<1>5. ChannelInv' /\ WaveInv'
  BY <1>1, <1>4, AccountsKept
<1>6. IndexInv'
  BY <1>1, <1>2 DEF IndexInv
<1>7. MemoryInv'
  <2>1. \A c \in Channels : Landed(c)' = Landed(c)
    BY <1>1, <1>4, ChannelFacts DEF Landed
  <2>2. \A q \in Ranks, u \in 1 .. N - 1 : Sent(q, u)' = Sent(q, u)
    BY <1>4 DEF Parameters
  <2> QED
    BY <1>1, <2>1, <2>2, MemoryKept
<1>8. \A i \in Ranks : mem[<<"source", r, i>>] = Reduced(Ranks, round[r])
  <2> SUFFICES ASSUME NEW i \in Ranks
               PROVE  mem[<<"source", r, i>>] = Reduced(Ranks, round[r])
    OBVIOUS
  <2>1. \A u : Sent(r, u) = round[r]
    BY <1>1 DEF Sent
  <2>2. round[r] > 0
    BY <1>1, <1>2
  <2> QED
    BY <2>1, <2>2, Gathered
<1>9. ResultsCorrect'
  <2> DEFINE Result(k) == [i \in Ranks |-> Reduced(Ranks, k)]
  <2>1. ASSUME NEW q \in Ranks, HasResult(q)' PROVE output'[q] = Result(round'[q])
    <3>1. DOMAIN output = Ranks
      BY DEF TypeInv
    <3>2. CASE q = r
      BY <1>1, <1>8, <3>1, <3>2
    <3>3. CASE q # r
      <4>1. HasResult(q) /\ output'[q] = output[q]
        BY <1>1, <1>2, <2>1, <3>3 DEF HasResult
      <4>2. number_elements > 0
        BY DEF TypeInv, TypeOK
      <4>3. output[q] = Result(round[q])
        BY <4>1, <4>2 DEF ResultsCorrect, Reduced
      <4> QED
        BY <1>1, <4>1, <4>3
    <3> QED
      BY <3>2, <3>3
  <2> QED
    BY <2>1 DEF ResultsCorrect, Reduced
<1> QED
  BY <1>3, <1>5, <1>6, <1>7, <1>9

(* A write lands: the memory it reads is that of the execution and of the  *)
(* step in which it was posted.                                            *)
LEMMA WriteStep ==
  ASSUME Parameters, TypeInv, DataInv, number_elements # 0, NEW c \in Channels, WriteArrives(c)
  PROVE  TypeInv' /\ DataInv'
<1> USE DEF DataInv
<1> DEFINE p == c[2]
           j == c[3]
           r == Right(p)
           u == Turn(c)
           k == round[p]
           x == SourceMemory(c)
           y == TargetMemory(c)
<1>1. /\ writing[c] > 0
      /\ writing' = [writing EXCEPT ![c] = writing[c] - 1]
      /\ arrived' = [arrived EXCEPT ![c] = 1]
      /\ mem' = [mem EXCEPT ![y] = mem[x]]
      /\ UNCHANGED <<state, round, output, number_elements, current_step, current_index,
                     acking, acked>>
  BY DEF WriteArrives, Transfer, WriteLands, allreduceVars
<1>2. /\ writing \in [Channels -> Nat] /\ arrived \in [Channels -> 0 .. 1]
      /\ DOMAIN mem = Locations /\ N \in Nat /\ N > 1
  BY DEF Parameters, TypeInv, TypeOK, EndpointTypeOK
<1>3. /\ c[1] \in {"reduce", "gather"} /\ p \in Ranks /\ j \in Ranks /\ c = <<c[1], p, j>>
      /\ r \in Ranks /\ Left(r) = p /\ u \in Nat /\ Left(p) \in Ranks
  BY ChannelFacts, Neighbours
<1>4. /\ writing[c] = 1 /\ arrived[c] = 0
      /\ Used(c) /\ Sent(p, u) = k /\ Sent(r, u + 1) = k - 1 /\ k > 0 /\ k \in Nat
  <2>1. writing[c] + arrived[c] <= 1 /\ writing[c] \in Nat /\ arrived[c] \in Nat
    BY <1>2, Bounded
  <2>2. Used(c) /\ Sent(p, u) = k /\ Sent(r, u + 1) = k - 1 /\ k > 0
    BY <1>1, <2>1, Bounded
  <2>3. k \in Nat
    BY <1>3, Counts
  <2> QED
    BY <1>1, <2>1, <2>2, <2>3
<1>5. u \in Steps /\ (u < N - 1 <=> c[1] = "reduce")
  BY <1>4, ChannelFacts
<1> HIDE DEF x, y, u, p, r, j, k
<1>6. TypeInv'
  <2>1. writing' \in [Channels -> Nat] /\ arrived' \in [Channels -> 0 .. 1]
    BY <1>1, <1>2, <1>4
  <2>2. DOMAIN mem' = Locations
    BY <1>1, <1>2
  <2> QED
    BY <1>1, <2>1, <2>2 DEF TypeInv, TypeOK, EndpointTypeOK
<1>7. \A q \in Ranks, v \in Nat : Sent(q, v)' = Sent(q, v) /\ Confirmed(q)' = Confirmed(q)
  BY <1>1 DEF Sent, Confirmed
<1>8. ChannelInv' /\ WaveInv'
  <2>1. \A d \in Channels : /\ writing'[d] + arrived'[d] = writing[d] + arrived[d]
                            /\ acking'[d] + acked'[d] = acking[d] + acked[d]
    BY <1>1, <1>2, <1>4
  <2> QED
    BY <1>7, <2>1, AccountsKept
<1>9. IndexInv'
  BY <1>1 DEF IndexInv
<1>10. \A d \in Channels : Landed(d)' = IF d = c THEN k ELSE Landed(d)
  <2> SUFFICES ASSUME NEW d \in Channels PROVE Landed(d)' = IF d = c THEN k ELSE Landed(d)
    OBVIOUS
  <2>1. d[2] \in Ranks /\ Turn(d) \in Nat
    BY ChannelFacts
  <2>2. Sent(d[2], Turn(d))' = Sent(d[2], Turn(d))
    BY <1>7, <2>1
  <2>3. writing'[d] = IF d = c THEN 0 ELSE writing[d]
    BY <1>1, <1>2, <1>4
  <2>4. d = c => Sent(d[2], Turn(d)) = k
    BY <1>4 DEF p, u
  <2> QED
    BY <1>4, <2>2, <2>3, <2>4 DEF Landed
<1>11. /\ x = <<"source", p, j>>
       /\ y = IF c[1] = "reduce" THEN <<"target", r, j>> ELSE <<"source", r, j>>
       /\ y \in Locations
  BY <1>3 DEF x, y, p, r, j, SourceMemory, TargetMemory, Locations
<1>12. c[1] = "reduce" => mem[x] = Reduced(Arc(p, u), k)
  <2> SUFFICES ASSUME c[1] = "reduce" PROVE mem[x] = Reduced(Arc(p, u), k)
    OBVIOUS
  <2> DEFINE d == <<"gather", Left(p), j>>
             l == Left(p)
  <2>1. c = <<"reduce", p, j>>
    BY <1>3
  <2>2. u = Behind(p, j) /\ u < N - 1
    BY <1>3, <1>5, <2>1, ReduceChannel DEF u
  <2>3. /\ d \in Channels /\ d[2] = l /\ Turn(d) = N - 1 + u /\ l \in Ranks
    BY <1>3, <2>2, GatherChannel
  <2> HIDE DEF d, l
  <2>4. Behind(l, r) = N - 2
    <3>1. Behind(p, r) = N - 1 /\ r # p
      BY <1>3, Distance, Neighbours DEF r
    <3>2. r # p => Behind(Left(p), r) = Behind(p, r) - 1
      BY <1>3, Distance
    <3> QED
      BY <1>2, <3>1, <3>2 DEF l
  <2>5. Sent(l, N - 1 + u) <= Sent(r, u + 1)
    <3>1. /\ N - 1 + u \in Steps /\ N - 1 + u >= N - 2 /\ (N - 1 + u) - (N - 2) = u + 1
      BY <1>2, <1>3, <2>2 DEF Steps
    <3> QED
      BY <1>3, <2>3, <2>4, <3>1 DEF WaveInv
  <2>6. Landed(d) # k
    <3>1. N - 1 + u \in Nat
      BY <1>2, <1>3
    <3>2. Sent(l, N - 1 + u) \in Nat /\ writing[d] \in Nat
      BY <2>3, <3>1, Counts, EndpointTypes
    <3>3. Landed(d) = Sent(l, N - 1 + u) - writing[d]
      BY <2>3 DEF Landed
    <3> QED
      BY <1>4, <2>5, <3>2, <3>3
  <2>7. mem[x] = SourceContent(p, j)
    BY <1>3, <1>11 DEF MemoryInv
  <2> QED
    BY <1>4, <2>2, <2>6, <2>7 DEF SourceContent, d, l, k
<1>13. c[1] = "gather" =>
         /\ mem[x] = Reduced(Ranks, k) /\ round[r] = k
         /\ c = <<"gather", Left(r), j>> /\ Behind(r, j) < N - 1
  <2> SUFFICES ASSUME c[1] = "gather"
               PROVE  /\ mem[x] = Reduced(Ranks, k) /\ round[r] = k
                      /\ c = <<"gather", Left(r), j>> /\ Behind(r, j) < N - 1
    OBVIOUS
  <2> DEFINE w == Behind(r, j)
  <2>1. c = <<"gather", Left(r), j>>
    BY <1>3
  <2>2. u = N - 1 + w /\ w < N - 1 /\ w \in Nat
    BY <1>3, <1>4, <2>1, GatherChannel, Distance DEF u
  <2>3. w = IF j = r THEN 0 ELSE Behind(p, j) + 1
    BY <1>3, Distance DEF r
  <2>4. Behind(p, j) = N - 1 <=> j = r
    BY <1>3, Distance DEF r
  <2>5. Behind(p, j) \in Nat
    BY <1>3, Distance
  <2>6. u = IF Behind(p, j) = N - 1 THEN N - 1 ELSE N + Behind(p, j)
    BY <1>2, <2>2, <2>3, <2>4, <2>5
  <2>7. mem[x] = Reduced(Ranks, k)
    BY <1>3, <1>4, <1>11, <2>6, Gathered DEF k
  <2>8. round[r] = k
    <3>1. Sent(p, u) <= Sent(r, w)
      <4>1. Behind(p, r) = N - 1 /\ u >= N - 1 /\ u - (N - 1) = w
        BY <1>2, <1>3, <2>2, Distance DEF r
      <4> QED
        BY <1>3, <1>5, <4>1 DEF WaveInv
    <3>2. Sent(r, w) <= round[r] /\ Sent(r, w) \in Nat /\ round[r] \in Nat
      BY <1>3, <2>2, Counts
    <3>3. round[r] - 1 <= Sent(r, u + 1)
      BY <1>3, Counts
    <3> QED
      BY <1>4, <3>1, <3>2, <3>3
  <2> QED
    BY <2>1, <2>2, <2>7, <2>8
<1>14. MemoryInv'
  <2> SUFFICES ASSUME NEW q \in Ranks, NEW i \in Ranks
               PROVE  /\ mem'[<<"source", q, i>>] = SourceContent(q, i)'
                      /\ Used(<<"reduce", q, i>>) =>
                           mem'[<<"target", Right(q), i>>] = TargetContent(<<"reduce", q, i>>)'
    BY DEF MemoryInv
  <2> DEFINE d == <<"gather", Left(q), i>>
             f == <<"reduce", q, i>>
             g == <<"source", q, i>>
             h == <<"target", Right(q), i>>
             v == Behind(q, i)
  <2>1. /\ d \in Channels /\ f \in Channels /\ f[1] = "reduce" /\ f[2] = q
        /\ v \in Nat /\ Right(q) \in Ranks
    BY GatherChannel, ReduceChannel, Distance, Neighbours
  <2>2. mem[g] = SourceContent(q, i) /\ (Used(f) => mem[h] = TargetContent(f))
    BY DEF MemoryInv
  <2>3. g \in Locations /\ h \in Locations
    BY <2>1 DEF Locations
  <2>4. Sent(q, v)' = Sent(q, v) /\ round'[q] = round[q]
    BY <1>1, <1>7, <2>1
  <2>5. /\ y = g <=> c[1] = "gather" /\ q = r /\ i = j
        /\ y = h <=> c[1] = "reduce" /\ Right(q) = r /\ i = j
    BY <1>3, <1>11
  <2>6. mem'[g] = SourceContent(q, i)'
    <3>1. CASE y = g
      <4>1. c[1] = "gather" /\ q = r /\ i = j
        BY <2>5, <3>1
      <4>2. d = c /\ v < N - 1 /\ round[q] = k /\ mem[x] = Reduced(Ranks, k)
        BY <1>13, <4>1
      <4>3. mem'[g] = Reduced(Ranks, k)
        BY <1>1, <1>2, <1>11, <3>1, <4>2
      <4>4. Landed(d)' = k
        BY <1>10, <2>1, <4>2
      <4> HIDE DEF d, v, g
      <4> QED
        BY <1>4, <2>4, <4>2, <4>3, <4>4 DEF SourceContent, d, v
    <3>2. CASE y # g
      <4>1. mem'[g] = mem[g]
        BY <1>1, <1>2, <2>3, <3>2
      <4>2. v < N - 1 => d # c
        <5>1. d = c => c[1] = "gather" /\ Left(q) = p /\ i = j
          BY <1>3
        <5>2. Left(q) = p => q = r
          BY Neighbours DEF r
        <5> QED
          BY <2>5, <3>2, <5>1, <5>2
      <4>3. v < N - 1 => Landed(d)' = Landed(d)
        BY <1>10, <2>1, <4>2
      <4> HIDE DEF d, v, g
      <4>4. SourceContent(q, i)' = SourceContent(q, i)
        BY <2>4, <4>3 DEF SourceContent, d, v
      <4> QED
        BY <2>2, <4>1, <4>4
    <3> QED
      BY <3>1, <3>2
  <2>7. ASSUME Used(f) PROVE mem'[h] = TargetContent(f)'
    <3>1. CASE y = h
      <4>1. c[1] = "reduce" /\ q = p /\ i = j
        BY <1>3, <2>5, <3>1, Neighbours DEF r
      <4>2. f = c
        BY <1>3, <4>1
      <4>3. mem'[h] = Reduced(Arc(p, u), k)
        BY <1>1, <1>2, <1>11, <1>12, <3>1, <4>1
      <4>4. Landed(c)' = k
        BY <1>10
      <4> HIDE DEF f, h
      <4> QED
        BY <1>4, <4>2, <4>3, <4>4 DEF TargetContent, p, u
    <3>2. CASE y # h
      <4>1. mem'[h] = mem[h]
        BY <1>1, <1>2, <2>3, <3>2
      <4>2. f # c
        <5>1. f = c => c[1] = "reduce" /\ q = p /\ i = j
          BY <1>3
        <5> QED
          BY <2>5, <3>2, <5>1 DEF r
      <4>3. Landed(f)' = Landed(f)
        BY <1>10, <2>1, <4>2
      <4> HIDE DEF f, h
      <4> QED
        BY <2>2, <2>7, <4>1, <4>3 DEF TargetContent
    <3> QED
      BY <3>1, <3>2
  <2> QED
    BY <2>6, <2>7
<1>15. ResultsCorrect'
  <2>1. \A q \in Ranks : HasResult(q)' =>
          HasResult(q) /\ output'[q] = output[q] /\ round'[q] = round[q]
    BY <1>1 DEF HasResult
  <2> QED
    BY <1>1, <2>1, ResultsKept
<1> QED
  BY <1>6, <1>8, <1>9, <1>14, <1>15

(* An acknowledgement lands. *)
LEMMA AckStep ==
  ASSUME Parameters, TypeInv, DataInv, number_elements # 0, NEW c \in Channels, AckArrives(c)
  PROVE  TypeInv' /\ DataInv'
<1> USE DEF DataInv
<1>1. /\ acking[c] > 0
      /\ acking' = [acking EXCEPT ![c] = acking[c] - 1]
      /\ acked' = [acked EXCEPT ![c] = 1]
      /\ UNCHANGED <<state, round, output, mem, number_elements, current_step, current_index,
                     writing, arrived>>
  BY DEF AckArrives, Acknowledge, AckLands, allreduceVars, collectiveVars
<1>2. acking \in [Channels -> Nat] /\ acked \in [Channels -> 0 .. 1]
  BY DEF TypeInv, TypeOK, EndpointTypeOK
<1>3. acking[c] = 1 /\ acked[c] = 0
  <2>1. acking[c] + acked[c] <= 1
    BY Bounded
  <2> QED
    BY <1>1, <1>2, <2>1
<1>4. TypeInv'
  <2>1. acking' \in [Channels -> Nat] /\ acked' \in [Channels -> 0 .. 1]
    BY <1>1, <1>2, <1>3
  <2> QED
    BY <1>1, <2>1 DEF TypeInv, TypeOK, EndpointTypeOK
<1>5. \A q \in Ranks, u \in Nat : Sent(q, u)' = Sent(q, u) /\ Confirmed(q)' = Confirmed(q)
  BY <1>1 DEF Sent, Confirmed
<1>6. ChannelInv' /\ WaveInv'
  <2>1. \A d \in Channels : /\ writing'[d] + arrived'[d] = writing[d] + arrived[d]
                            /\ acking'[d] + acked'[d] = acking[d] + acked[d]
    BY <1>1, <1>2, <1>3
  <2> QED
    BY <1>5, <2>1, AccountsKept
<1>7. IndexInv'
  BY <1>1 DEF IndexInv
<1>8. MemoryInv'
  <2>1. \A d \in Channels : Landed(d)' = Landed(d)
    BY <1>1, <1>5, ChannelFacts DEF Landed
  <2>2. \A q \in Ranks, u \in 1 .. N - 1 : Sent(q, u)' = Sent(q, u)
    BY <1>5 DEF Parameters
  <2> QED
    BY <1>1, <2>1, <2>2, MemoryKept
<1>9. ResultsCorrect'
  <2>1. \A q \in Ranks : HasResult(q)' =>
          HasResult(q) /\ output'[q] = output[q] /\ round'[q] = round[q]
    BY <1>1 DEF HasResult
  <2> QED
    BY <1>1, <2>1, ResultsKept
<1> QED
  BY <1>4, <1>6, <1>7, <1>8, <1>9

(* The invariant holds after waitForSetup. *)
LEMMA InitInv ==
  ASSUME Parameters, Init
  PROVE  IInv
<1>1. /\ \A c \in Channels : /\ writing[c] = 0 /\ arrived[c] = 0
                               /\ acking[c] = 0 /\ acked[c] = 0
      /\ EndpointTypeOK(Channels)
  BY DEF Init, Setup, Connected, EndpointTypeOK
<1>2. /\ state = [r \in Ranks |-> "INITIALIZED"] /\ round = [r \in Ranks |-> 0]
      /\ mem = [l \in Locations |-> EmptyBag] /\ DOMAIN output = Ranks
      /\ number_elements \in {0, 1} /\ current_step = [r \in Ranks |-> 0]
      /\ current_index = [r \in Ranks |-> r]
  BY DEF Init, Setup
<1>3. TypeInv
  <2>1. state \in [Ranks -> States] /\ round \in [Ranks -> 0 .. Rounds]
    BY <1>2 DEF States, Parameters
  <2>2. current_step \in [Ranks -> 0 .. 2 * steps_per_stage]
    <3>1. 0 \in 0 .. 2 * steps_per_stage
      BY DEF Parameters, steps_per_stage
    <3> QED
      BY <1>2, <3>1
  <2>3. current_index \in [Ranks -> Ranks] /\ DOMAIN mem = Locations
    BY <1>2
  <2> QED
    BY <1>1, <1>2, <2>1, <2>2, <2>3 DEF TypeInv, TypeOK
<1>4. \A r \in Ranks, u \in Nat : Sent(r, u) = 0 /\ Confirmed(r) = 0
  BY <1>2 DEF Sent, Confirmed
<1>5. ChannelInv
  <2> SUFFICES ASSUME NEW c \in Channels PROVE Accounted(c)
    BY DEF ChannelInv
  <2>1. c[2] \in Ranks /\ Right(c[2]) \in Ranks /\ Turn(c) \in Nat /\ Turn(c) + 1 \in Nat
    BY ChannelFacts, Neighbours
  <2> QED
    BY <1>1, <1>4, <2>1 DEF Accounted
<1>6. WaveInv
  <2> SUFFICES ASSUME NEW q \in Ranks, NEW p \in Ranks, NEW u \in Steps, u >= Behind(q, p)
               PROVE  Sent(q, u) <= Sent(p, u - Behind(q, p))
    BY DEF WaveInv
  <2>1. u \in Nat /\ u - Behind(q, p) \in Nat
    BY Distance DEF Steps, Parameters
  <2> QED
    BY <1>4, <2>1
<1>7. IndexInv
  BY <1>2 DEF IndexInv
<1>8. MemoryInv
  <2> SUFFICES ASSUME NEW r \in Ranks, NEW i \in Ranks
               PROVE  /\ mem[<<"source", r, i>>] = SourceContent(r, i)
                      /\ Used(<<"reduce", r, i>>) =>
                           mem[<<"target", Right(r), i>>] = TargetContent(<<"reduce", r, i>>)
    BY DEF MemoryInv
  <2> DEFINE c == <<"reduce", r, i>>
             g == <<"source", r, i>>
             h == <<"target", Right(r), i>>
  <2>1. c \in Channels /\ c[2] = r /\ Turn(c) \in Nat /\ Right(r) \in Ranks
    BY ReduceChannel, ChannelFacts, Neighbours
  <2>2. g \in Locations /\ h \in Locations
    BY <2>1 DEF Locations
  <2>3. SourceContent(r, i) = EmptyBag
    BY <1>2 DEF SourceContent
  <2> HIDE DEF c, g, h
  <2>4. Landed(c) = 0
    BY <1>1, <1>4, <2>1 DEF Landed
  <2>5. mem[g] = EmptyBag /\ mem[h] = EmptyBag
    BY <1>2, <2>2
  <2> QED
    BY <2>3, <2>4, <2>5 DEF TargetContent, c, g, h
<1>9. ResultsCorrect
  BY <1>2 DEF ResultsCorrect, HasResult
<1>10. Quiet(Channels)
  BY <1>1 DEF Quiet
<1> QED
  BY <1>3, <1>5, <1>6, <1>7, <1>8, <1>9, <1>10 DEF IInv, DataInv

(* Every step preserves the invariant. *)
LEMMA NextStep ==
  ASSUME Parameters, IInv, Next
  PROVE  IInv'
<1>1. CASE number_elements = 0
  BY <1>1, EmptyStep DEF IInv
<1>2. CASE number_elements # 0
  <2>1. TypeInv /\ DataInv
    BY <1>2 DEF IInv
  <2>2. number_elements' = number_elements
    BY DEF Next, User, TriggerProgress, CopyIn, Start, CopyOut, Reduce, Gather, Complete,
           Advance, WriteArrives, AckArrives, allreduceVars
  <2>3. ASSUME NEW r \in Ranks, User(r) \/ TriggerProgress(r) PROVE TypeInv' /\ DataInv'
    BY <1>2, <2>1, <2>3, CopyInStep, StartStep, CopyOutStep, ReduceStep, GatherStep, CompleteStep
       DEF User, TriggerProgress
  <2>4. ASSUME NEW c \in Channels, WriteArrives(c) \/ AckArrives(c) PROVE TypeInv' /\ DataInv'
    BY <1>2, <2>1, <2>4, WriteStep, AckStep
  <2>5. TypeInv' /\ DataInv'
    BY <2>3, <2>4 DEF Next
  <2> QED
    BY <1>2, <2>2, <2>5 DEF IInv
<1> QED
  BY <1>1, <1>2

(* And so does a step of the other variables.                              *)
LEMMA NextInv == Parameters /\ IInv /\ [Next]_vars => IInv'
<1> SUFFICES ASSUME Parameters, IInv, [Next]_vars PROVE IInv'
  OBVIOUS
<1>1. CASE UNCHANGED vars
  <2>1. /\ UNCHANGED <<number_elements, current_step, current_index>>
        /\ UNCHANGED <<separated, state, round, mem, output>>
        /\ UNCHANGED <<writing, arrived, acking, acked>>
    BY <1>1 DEF vars, allreduceVars, collectiveVars, endpointVars
  <2>2. TypeInv' /\ Quiet(Channels)' = Quiet(Channels)
    BY <2>1 DEF IInv, TypeInv, TypeOK, EndpointTypeOK, Quiet
  <2>3. /\ \A r, u : Sent(r, u)' = Sent(r, u)
        /\ \A r : Confirmed(r)' = Confirmed(r)
    BY <2>1 DEF Sent, Confirmed
  <2>4. \A c : Landed(c)' = Landed(c)
    BY <2>1, <2>3 DEF Landed
  <2>5. ChannelInv => ChannelInv'
    BY <2>1, <2>3 DEF ChannelInv, Accounted
  <2>6. (IndexInv => IndexInv') /\ (WaveInv => WaveInv')
    BY <2>1, <2>3 DEF IndexInv, WaveInv
  <2>7. MemoryInv => MemoryInv'
    <3>1. /\ \A r, i : SourceContent(r, i)' = SourceContent(r, i)
          /\ \A c : TargetContent(c)' = TargetContent(c)
      BY <2>1, <2>3, <2>4 DEF SourceContent, TargetContent
    <3> QED
      BY <2>1, <3>1 DEF MemoryInv
  <2>8. ResultsCorrect => ResultsCorrect'
    BY <2>1 DEF ResultsCorrect, HasResult
  <2> QED
    BY <2>1, <2>2, <2>5, <2>6, <2>7, <2>8 DEF IInv, DataInv
<1>2. CASE Next
  BY <1>2, NextStep
<1> QED
  BY <1>1, <1>2

(* What the invariant says about the properties of the collective. *)
LEMMA Consequences ==
  ASSUME Parameters, IInv
  PROVE  /\ TypeOK /\ ResultsCorrect
         /\ NoNotificationLost /\ SourcesReleased /\ NothingLeftOver
<1>1. TypeInv /\ TypeOK
  BY DEF IInv, TypeInv
<1>2. CASE number_elements = 0
  <2>1. \A c \in Channels : /\ writing[c] + arrived[c] = 0 /\ acking[c] + acked[c] = 0
                            /\ writing[c] = 0 /\ acking[c] = 0
    BY <1>1, <1>2, EndpointTypes DEF IInv, Quiet
  <2> QED
    BY <1>1, <1>2, <2>1 DEF ResultsCorrect, NoNotificationLost, OneOutstanding,
                            SourcesReleased, Released, NothingLeftOver, Quiet
<1>3. CASE number_elements # 0
  <2>1. ChannelInv /\ ResultsCorrect
    BY <1>3 DEF IInv, DataInv
  <2>2. \A c \in Channels :
          /\ writing[c] + arrived[c] <= 1 /\ acking[c] + acked[c] <= 1
          /\ Confirmed(c[2]) = round[c[2]] =>
               writing[c] + arrived[c] = 0 /\ acking[c] + acked[c] = 0
    BY <1>1, <2>1, Bounded
  <2>3. NoNotificationLost
    BY <2>2 DEF NoNotificationLost, OneOutstanding
  <2>4. SourcesReleased
    <3> SUFFICES ASSUME NEW r \in Ranks, state[r] = "FINISHED", NEW c \in Channels, c[2] = r
                 PROVE  writing[c] = 0 /\ acking[c] = 0
      BY DEF SourcesReleased, Released
    <3>1. Confirmed(c[2]) = round[c[2]]
      BY DEF Confirmed
    <3> QED
      BY <1>1, <2>2, <3>1, EndpointTypes
  <2>5. NothingLeftOver
    <3> SUFFICES ASSUME AllHaveResults, NEW c \in Channels
                 PROVE  writing[c] + arrived[c] = 0 /\ acking[c] + acked[c] = 0
      BY DEF NothingLeftOver, Quiet
    <3>1. Confirmed(c[2]) = round[c[2]]
      BY ChannelFacts DEF AllHaveResults, HasResult, Confirmed
    <3> QED
      BY <2>2, <3>1
  <2> QED
    BY <1>1, <2>1, <2>3, <2>4, <2>5
<1> QED
  BY <1>2, <1>3

(* The invariant holds in every reachable state of the allreduce. *)
THEOREM Invariance == ASSUME Parameters PROVE Spec => []IInv
<1>1. Init => IInv
  BY InitInv
<1>2. IInv /\ [Next]_vars => IInv'
  BY NextInv
<1> QED
  BY <1>1, <1>2, PTL DEF Spec

(* AllreduceLowLevel<T, RING>: for every group and number of executions    *)
(* copyOut writes the reduction of exactly one contribution of every rank, *)
(* all of this execution, no notification is lost, a FINISHED rank may     *)
(* reuse its buffers and nothing is left over for the next execution.      *)
THEOREM Correctness ==
  ASSUME Parameters
  PROVE  Spec => [](/\ TypeOK /\ ResultsCorrect /\ NoNotificationLost
                    /\ SourcesReleased /\ NothingLeftOver)
<1>1. IInv => /\ TypeOK /\ ResultsCorrect /\ NoNotificationLost
              /\ SourcesReleased /\ NothingLeftOver
  BY Consequences
<1> QED
  BY <1>1, Invariance, PTL
=============================================================================

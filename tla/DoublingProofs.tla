--------------------------- MODULE DoublingProofs ---------------------------
(***************************************************************************)
(* The theorems about AllreduceRecursiveDoubling, for every size of the    *)
(* group, a power of two or not, and any number of executions.             *)
(***************************************************************************)
EXTENDS AllreduceRecursiveDoubling, TLAPS

(* A group, and facts of arithmetic about 2^i that no installed prover     *)
(* derives.                                                                *)
Parameters ==
  /\ N \in Nat \ {0, 1} /\ Rounds \in Nat
  /\ \E k \in 0 .. N : 2^k <= N /\ N < 2^(k + 1)
  /\ 2^0 = 1
  /\ \A i \in 0 .. N : 2^i \in Nat \ {0} /\ 2^(i + 1) = 2 * 2^i
  /\ \A i, j \in 0 .. N : i <= j => 2^j = 2^i * 2^(j - i)

(* Facts about quotients. *)
LEMMA Division ==
  ASSUME NEW d \in Nat \ {0}, NEW a \in Nat
  PROVE  a \div d \in Nat /\ a % d \in 0 .. d - 1 /\ a = d * (a \div d) + (a % d)
<1>1. a \div d \in Int /\ a % d \in 0 .. d - 1 /\ a = d * (a \div d) + (a % d)
  OBVIOUS
<1>2. a \div d >= 0
  BY <1>1
<1> QED
  BY <1>1, <1>2

(* A quotient is known by its remainder. *)
LEMMA Quotient ==
  ASSUME NEW d \in Nat \ {0}, NEW q \in Nat, NEW s \in 0 .. d - 1
  PROVE  (d * q + s) \div d = q
OBVIOUS

(* Dividing by two comes out the same before and after. *)
LEMMA Halves ==
  ASSUME NEW d \in Nat \ {0}, NEW a \in Nat
  PROVE  a \div (2 * d) = (a \div d) \div 2
<1> DEFINE q == a \div d
           s == a % d
           h == q \div 2
           b == q % 2
           t == d * b + s
<1>1. q \in Nat /\ s \in 0 .. d - 1 /\ a = d * q + s
  BY Division
<1>2. h \in Nat /\ b \in 0 .. 1 /\ q = 2 * h + b
  BY <1>1
<1> HIDE DEF q, s, h, b
<1>3. t \in 0 .. 2 * d - 1
  BY <1>1, <1>2
<1>4. d * q = (2 * d) * h + d * b
  BY <1>1, <1>2
<1>5. a = (2 * d) * h + t
  <2>1. (2 * d) * h \in Nat /\ d * b \in Nat
    BY <1>2
  <2> QED
  BY <1>1, <1>4, <2>1
<1> HIDE DEF t
<1>6. (2 * d) * h + t = a => a \div (2 * d) = h
  <2> SUFFICES ASSUME NEW e, e = 2 * d PROVE  (e * h + t) \div e = h
    BY <1>5
  <2> QED
  BY <1>2, <1>3, Quotient
<1> QED
  BY <1>5, <1>6 DEF h, q

(* a and FlipBit(a, d) are the same but for one bit. *)
LEMMA Flip ==
  ASSUME NEW d \in Nat \ {0}, NEW a \in Nat
  PROVE  /\ FlipBit(a, d) \in Nat
         /\ FlipBit(a, d) \div d = IF (a \div d) % 2 = 0 THEN (a \div d) + 1 ELSE (a \div d) - 1
         /\ FlipBit(a, d) \div (2 * d) = a \div (2 * d)
         /\ FlipBit(FlipBit(a, d), d) = a
         /\ \A c \in Nat : c \div (2 * d) = a \div (2 * d) <=>
                            c \div d = a \div d \/ c \div d = FlipBit(a, d) \div d
<1> DEFINE q == a \div d
           s == a % d
           p == IF q % 2 = 0 THEN q + 1 ELSE q - 1
           b == FlipBit(a, d)
<1>1. q \in Nat /\ s \in 0 .. d - 1 /\ a = d * q + s
  BY Division
<1> HIDE DEF q, s
<1>2. p \in Nat /\ p \div 2 = q \div 2 /\ (p % 2 = 0 <=> q % 2 # 0)
  BY <1>1
<1>3. b = IF q % 2 = 0 THEN a + d ELSE a - d
  BY DEF FlipBit, q
<1>4. d * p = IF q % 2 = 0 THEN d * q + d ELSE d * q - d
  BY <1>1
<1>5. b = d * p + s
  <2>1. d * q \in Nat /\ d * p \in Nat
    BY <1>1, <1>2
  <2> HIDE DEF p
  <2> QED
    BY <1>1, <1>3, <1>4, <2>1
<1>6. b \in Nat /\ b \div d = p
  BY <1>1, <1>2, <1>5, Quotient
<1>7. b \div (2 * d) = a \div (2 * d)
  BY <1>2, <1>6, Halves DEF q
<1>8. FlipBit(b, d) = a
  <2> HIDE DEF b, p
  <2>1. FlipBit(b, d) = IF p % 2 = 0 THEN b + d ELSE b - d
    BY <1>6 DEF FlipBit
  <2> QED
    BY <1>1, <1>2, <1>3, <1>6, <2>1
<1>9. ASSUME NEW c \in Nat
      PROVE  c \div (2 * d) = a \div (2 * d) <=> c \div d = q \/ c \div d = p
  <2>1. c \div d \in Nat
    BY Division
  <2>2. c \div (2 * d) = (c \div d) \div 2 /\ a \div (2 * d) = q \div 2
    BY Halves DEF q
  <2> QED
    BY <1>1, <2>1, <2>2
<1> QED
  BY <1>6, <1>7, <1>8, <1>9 DEF q, b

(* A number is below a multiple when its quotient is. *)
LEMMA Below ==
  ASSUME NEW d \in Nat \ {0}, NEW a \in Nat, NEW e \in Nat
  PROVE  a < d * e <=> a \div d < e
<1> DEFINE q == a \div d
           s == a % d
<1>1. q \in Nat /\ s \in 0 .. d - 1 /\ a = d * q + s
  BY Division
<1> HIDE DEF q, s
<1>2. CASE q < e
  <2>1. e = q + 1 + (e - q - 1) /\ e - q - 1 \in Nat
    BY <1>1, <1>2
  <2> DEFINE f == e - q - 1
  <2>2. f \in Nat /\ e = q + 1 + f
    BY <2>1
  <2> HIDE DEF f
  <2>3. d * e = d * q + d + d * f /\ d * f \in Nat /\ d * q \in Nat
    BY <1>1, <2>2
  <2> QED
    BY <1>1, <1>2, <2>3 DEF q
<1>3. CASE q >= e
  <2> DEFINE f == q - e
  <2>1. f \in Nat /\ q = e + f
    BY <1>1, <1>3
  <2> HIDE DEF f
  <2>2. d * q = d * e + d * f /\ d * f \in Nat /\ d * e \in Nat
    BY <1>1, <2>1
  <2> QED
    BY <1>1, <1>3, <2>2 DEF q
<1> QED
  BY <1>1, <1>2, <1>3

(* The size of the exchange. *)
LEMMA Sizes ==
  ASSUME Parameters
  PROVE  /\ number_iterations \in 1 .. N /\ number_ranks_used \in Nat \ {0}
         /\ number_ranks_rest \in Nat /\ number_ranks_rest < number_ranks_used
         /\ N = number_ranks_used + number_ranks_rest /\ N \in Nat /\ N > 1
<1>1. number_iterations \in 0 .. N /\ 2^number_iterations <= N /\ N < 2^(number_iterations + 1)
  BY DEF Parameters, number_iterations
<1> HIDE DEF number_iterations
<1>2. 2^number_iterations \in Nat \ {0} /\ 2^(number_iterations + 1) = 2 * 2^number_iterations
  BY <1>1 DEF Parameters
<1>3. N \in Nat /\ N > 1
  BY DEF Parameters
<1>4. number_iterations # 0
  BY <1>1, <1>2, <1>3 DEF Parameters
<1> QED
  BY <1>1, <1>2, <1>3, <1>4 DEF number_ranks_used, number_ranks_rest

(* Half of the bits and the other half. *)
LEMMA Power ==
  ASSUME Parameters, NEW k \in 0 .. number_iterations
  PROVE  /\ 2^k \in Nat \ {0} /\ 2^(k + 1) = 2 * 2^k
         /\ number_ranks_used = 2^k * 2^(number_iterations - k)
         /\ 2^(number_iterations - k) \in Nat \ {0}
<1>1. k \in 0 .. N /\ number_iterations \in 0 .. N /\ number_iterations - k \in 0 .. N
      /\ k <= number_iterations
  BY Sizes
<1> QED
  BY <1>1 DEF Parameters, number_ranks_used

(* Every rank is an even, an odd or an extra one. *)
LEMMA Kinds ==
  ASSUME Parameters, NEW r \in Ranks
  PROVE  /\ is_active_rank(r) <=> ~is_odd_non_extra_rank(r)
         /\ ~(is_even_non_extra_rank(r) /\ is_odd_non_extra_rank(r))
         /\ is_extra_rank(r) => ~is_even_non_extra_rank(r) /\ ~is_odd_non_extra_rank(r)
         /\ ~is_extra_rank(r) <=> is_even_non_extra_rank(r) \/ is_odd_non_extra_rank(r)
<1>1. r \in Nat
  BY Sizes DEF Ranks
<1> QED
  BY <1>1, Sizes DEF is_active_rank, is_odd_non_extra_rank, is_even_non_extra_rank, is_extra_rank

(* The label of an active rank in the exchange; an odd rank has that of    *)
(* its even neighbour.                                                     *)
Label(r) == IF r < 2 * number_ranks_rest THEN r \div 2 ELSE r - number_ranks_rest
Labelled(p) == IF p < number_ranks_rest THEN p * 2 ELSE p + number_ranks_rest

(* The active ranks are numbered 0 to number_ranks_used - 1. *)
LEMMA Labels ==
  ASSUME Parameters
  PROVE  /\ \A r \in Ranks : Label(r) \in Nat /\ Label(r) < number_ranks_used
         /\ \A r \in Ranks : is_active_rank(r) => Labelled(Label(r)) = r
         /\ \A p \in Nat : p < number_ranks_used =>
              Labelled(p) \in Ranks /\ is_active_rank(Labelled(p)) /\ Label(Labelled(p)) = p
<1>1. /\ number_ranks_rest \in Nat /\ number_ranks_used \in Nat
      /\ number_ranks_rest < number_ranks_used /\ N = number_ranks_used + number_ranks_rest
  BY Sizes
<1> HIDE DEF number_ranks_rest, number_ranks_used
<1> USE DEF is_active_rank, is_even_non_extra_rank, is_extra_rank, Ranks, Label, Labelled
<1>2. \A r \in Ranks : Label(r) \in Nat /\ Label(r) < number_ranks_used
  BY <1>1
<1>3. \A r \in Ranks : is_active_rank(r) => Labelled(Label(r)) = r
  BY <1>1
<1>4. ASSUME NEW p \in Nat, p < number_ranks_used
      PROVE  Labelled(p) \in Ranks /\ is_active_rank(Labelled(p)) /\ Label(Labelled(p)) = p
  BY <1>1, <1>4
<1> QED
  BY <1>2, <1>3, <1>4

(* The partner of an active rank differs from it in one bit of the label.  *)
LEMMA Neighbors ==
  ASSUME Parameters, NEW r \in Ranks, is_active_rank(r), NEW k \in 0 .. number_iterations - 1
  PROVE  LET b == Neighbor(r, k)
         IN  /\ b \in Ranks /\ is_active_rank(b) /\ b # r
             /\ Label(b) = FlipBit(Label(r), 2^k) /\ Neighbor(b, k) = r
<1> DEFINE d == 2^k
           a == Label(r)
           f == FlipBit(a, d)
           b == Labelled(f)
<1>1. /\ d \in Nat \ {0} /\ 2^(k + 1) = 2 * d /\ k + 1 \in 0 .. number_iterations
      /\ a \in Nat /\ a < number_ranks_used /\ Labelled(a) = r
  BY Labels, Power, Sizes
<1>2. Neighbor(r, k) = b
  BY DEF Neighbor, Label, Labelled
<1> DEFINE e == 2^(number_iterations - (k + 1))
           D == 2^(k + 1)
<1>3. number_ranks_used = D * e /\ e \in Nat /\ D \in Nat \ {0} /\ D = 2 * d
  BY <1>1, Power
<1> HIDE DEF d, a, e, D, number_ranks_used
<1>4. f \in Nat /\ f \div D = a \div D /\ FlipBit(f, d) = a
  BY <1>1, <1>3, Flip
<1>5. f \div d # a \div d
  <2>1. f \div d = IF (a \div d) % 2 = 0 THEN (a \div d) + 1 ELSE (a \div d) - 1
    BY <1>1, Flip
  <2>2. a \div d \in Nat
    BY <1>1, Division
  <2> HIDE DEF f
  <2> QED
    BY <2>1, <2>2
<1> HIDE DEF f
<1>6. f < number_ranks_used
  <2>1. a < D * e <=> a \div D < e
    BY <1>1, <1>3, Below
  <2>2. f < D * e <=> f \div D < e
    BY <1>3, <1>4, Below
  <2> QED
    BY <1>1, <1>3, <1>4, <2>1, <2>2
<1>7. b \in Ranks /\ is_active_rank(b) /\ Label(b) = f
  BY <1>4, <1>6, Labels
<1>8. Neighbor(b, k) = Labelled(FlipBit(Label(b), d))
  BY DEF Neighbor, Label, Labelled, d
<1>9. b # r
  BY <1>5, <1>7 DEF a
<1> QED
  BY <1>1, <1>2, <1>4, <1>7, <1>8, <1>9 DEF a, f, d

(* The even and the odd neighbour. *)
LEMMA Pairs ==
  ASSUME Parameters, NEW r \in Ranks, ~is_extra_rank(r)
  PROVE  LET b == FlipBit(r, 1)
         IN  /\ b \in Ranks /\ ~is_extra_rank(b) /\ b # r /\ FlipBit(b, 1) = r
             /\ is_odd_non_extra_rank(b) <=> is_even_non_extra_rank(r)
             /\ Label(b) = Label(r)
             /\ \A q \in Ranks : Label(q) = Label(r) <=> q = r \/ q = b
<1>1. /\ number_ranks_rest \in Nat /\ number_ranks_used \in Nat /\ r \in Nat
      /\ number_ranks_rest < number_ranks_used /\ N = number_ranks_used + number_ranks_rest
  BY Sizes DEF Ranks
<1> DEFINE b == FlipBit(r, 1)
<1>2. b = IF r % 2 = 0 THEN r + 1 ELSE r - 1
  BY <1>1 DEF FlipBit
<1>3. FlipBit(b, 1) = IF b % 2 = 0 THEN b + 1 ELSE b - 1
  BY <1>1, <1>2 DEF FlipBit
<1> HIDE DEF number_ranks_rest, number_ranks_used, b
<1> USE DEF is_odd_non_extra_rank, is_even_non_extra_rank, is_extra_rank, Ranks
<1>4. b \in Ranks /\ ~is_extra_rank(b) /\ b # r /\ FlipBit(b, 1) = r
  BY <1>1, <1>2, <1>3
<1>5. is_odd_non_extra_rank(b) <=> is_even_non_extra_rank(r)
  BY <1>1, <1>2, <1>4
<1>6. ASSUME NEW q \in Ranks PROVE Label(q) = Label(r) <=> q = r \/ q = b
  BY <1>1, <1>2 DEF Label
<1> QED
  BY <1>4, <1>5, <1>6 DEF b

Odd(r) == is_odd_non_extra_rank(r)
To(c) == Partner(c[1], c[2])

(* How far a rank is in its execution.  It sends iteration k at 2k + 1,    *)
(* takes what its partner has sent at 2k + 2 and learns that the partner   *)
(* has taken it at 2k + 3.  An odd rank sends at 1 and takes at the end.   *)
End == 2 * number_iterations + 2

Position(r) ==
  IF state[r] = "READY" THEN 0
  ELSE IF state[r] # "RUNNING" THEN End
  ELSE IF Odd(r) THEN 1
  ELSE IF alg_stage[r] = "INITIAL_STEP" THEN 0
  ELSE IF alg_stage[r] = "WAIT_FOR_ACK" THEN 2 * iteration[r] + 2
  ELSE 2 * iteration[r] + 1

Sending(c)    == IF Odd(c[1]) THEN 1 ELSE 2 * c[2] + 1
Taking(c)     == IF Odd(c[1]) THEN 1 ELSE 2 * c[2] + 2
Confirming(c) == IF c[2] = NonPowerTwo THEN End ELSE 2 * c[2] + 3

(* The positions of a rank that a channel knows, and the executions in     *)
(* which it has reached them.                                              *)
Marks(r) == IF Odd(r) THEN {1, End} ELSE 1 .. End
Done(r, x) == IF x <= Position(r) THEN round[r] ELSE round[r] - 1

Stages == {"NOT_STARTED", "INITIAL_STEP", "WAIT_FOR_DATA", "WAIT_FOR_ACK", "FINAL_STEP"}

StageInv(r) ==
  /\ alg_stage[r] # "NOT_STARTED"
  /\ alg_stage[r] = "INITIAL_STEP" =>
       ~is_extra_rank(r) /\ IF Odd(r) THEN iteration[r] < number_iterations ELSE iteration[r] = 0
  /\ alg_stage[r] \in {"WAIT_FOR_DATA", "WAIT_FOR_ACK"} =>
       ~Odd(r) /\ iteration[r] < number_iterations
  /\ alg_stage[r] = "FINAL_STEP" => iteration[r] = number_iterations

TypeInv ==
  /\ TypeOK /\ DOMAIN output = Ranks /\ separated \in BOOLEAN
  /\ \A r \in Ranks : state[r] # "INITIALIZED" => round[r] > 0

Accounted(c) ==
  /\ writing[c] + arrived[c] = Done(c[1], Sending(c)) - Done(To(c), Taking(c))
  /\ acking[c] + acked[c] =
       IF Odd(c[1]) THEN 0 ELSE Done(To(c), Taking(c)) - Done(c[1], Confirming(c))

ChannelInv == \A c \in Channels : Accounted(c)

(* With a barrier between executions no rank begins the next execution     *)
(* before all have ended this one.                                         *)
LockStep ==
  \A q, r \in Ranks :
    \/ round[q] >= round[r]
    \/ round[q] = round[r] - 1 /\ state[q] = "INITIALIZED"

Reduced(S, k) == IF k = 0 THEN EmptyBag ELSE SetToBag({<<q, k>> : q \in S})

(* The ranks of which an active rank has the data before iteration k.      *)
Group(r, k) == {q \in Ranks : Label(q) \div 2^k = Label(r) \div 2^k}

Held(r) ==
  IF Odd(r) \/ Position(r) = 0 THEN {r}
  ELSE IF Position(r) = End THEN Ranks
  ELSE Group(r, iteration[r])
Content(c) == IF Odd(c[1]) THEN {c[1]} ELSE Group(c[1], c[2])
Landed(c) == Done(c[1], Sending(c)) - writing[c]

MemoryInv ==
  /\ \A r \in Ranks : mem[Vector(r)] = Reduced(Held(r), round[r])
  /\ \A c \in Channels : mem[TargetMemory(c)] = Reduced(Content(c), Landed(c))

DataInv == MemoryInv /\ LockStep /\ ResultsCorrect

RunInv ==
  /\ \A r \in Ranks : state[r] = "RUNNING" => StageInv(r)
  /\ ChannelInv
  /\ separated => DataInv

EmptyInv == Quiet(Channels) /\ \A r \in Ranks : alg_stage[r] = "NOT_STARTED"

IInv ==
  /\ TypeInv
  /\ number_elements = 0 => EmptyInv
  /\ number_elements # 0 => RunInv

(* A channel and its two ranks. *)
LEMMA ChannelFacts ==
  ASSUME Parameters, NEW c \in Channels
  PROVE  /\ c[1] \in Ranks /\ c[2] \in 0 .. number_iterations /\ c = <<c[1], c[2]>>
         /\ c[2] = NonPowerTwo => ~is_extra_rank(c[1])
         /\ Odd(c[1]) => c[2] = NonPowerTwo
         /\ To(c) \in Ranks /\ To(c) # c[1]
         /\ <<To(c), c[2]>> \in Channels /\ To(<<To(c), c[2]>>) = c[1]
         /\ Odd(To(c)) <=> c[2] = NonPowerTwo /\ ~Odd(c[1])
<1>1. c[1] \in Ranks /\ c[2] \in 0 .. number_iterations /\ c = <<c[1], c[2]>>
  BY DEF Channels, NonPowerTwo
<1>2. /\ c[2] = NonPowerTwo => ~is_extra_rank(c[1])
      /\ c[2] # NonPowerTwo => is_active_rank(c[1])
  BY DEF Channels
<1>3. number_iterations \in Nat /\ number_iterations > 0
  BY Sizes
<1> DEFINE r == c[1]
           k == c[2]
           b == Partner(r, k)
<1>4. To(c) = b /\ To(<<b, k>>) = Partner(b, k)
  BY DEF To
<1>5. <<b, k>> \in Channels <=> IF k = NonPowerTwo THEN b \in Ranks /\ ~is_extra_rank(b)
                                                  ELSE b \in Ranks /\ is_active_rank(b)
  BY <1>1 DEF Channels, NonPowerTwo
<1> HIDE DEF r, k, b
<1>6. CASE k = NonPowerTwo
  <2> DEFINE p == FlipBit(r, 1)
  <2>1. b = p /\ Partner(b, k) = FlipBit(p, 1)
    BY <1>6 DEF b, Partner
  <2>2. r \in Ranks /\ ~is_extra_rank(r)
    BY <1>1, <1>2, <1>6 DEF r, k
  <2>3. /\ p \in Ranks /\ ~is_extra_rank(p) /\ p # r /\ FlipBit(p, 1) = r
        /\ is_odd_non_extra_rank(p) <=> is_even_non_extra_rank(r)
    BY <2>2, Pairs
  <2>4. is_even_non_extra_rank(r) <=> ~is_odd_non_extra_rank(r)
    BY <2>2, Kinds
  <2> QED
    BY <1>1, <1>2, <1>4, <1>5, <1>6, <2>1, <2>2, <2>3, <2>4 DEF Odd, r, k
<1>7. CASE k # NonPowerTwo
  <2> DEFINE p == Neighbor(r, k)
  <2>1. b = p /\ Partner(b, k) = Neighbor(p, k)
    BY <1>7 DEF b, Partner
  <2>2. r \in Ranks /\ is_active_rank(r) /\ k \in 0 .. number_iterations - 1
    BY <1>1, <1>2, <1>3, <1>7 DEF r, k, NonPowerTwo
  <2>3. p \in Ranks /\ is_active_rank(p) /\ p # r /\ Neighbor(p, k) = r
    BY <2>2, Neighbors
  <2>4. ~is_odd_non_extra_rank(r) /\ ~is_odd_non_extra_rank(p)
    BY <2>2, <2>3, Kinds
  <2> QED
    BY <1>1, <1>2, <1>4, <1>5, <1>7, <2>1, <2>2, <2>3, <2>4 DEF Odd, r, k
<1> QED
  BY <1>6, <1>7

(* The channels of a rank. *)
LEMMA OwnChannels ==
  ASSUME Parameters, NEW r \in Ranks, NEW k \in 0 .. number_iterations,
         IF k = NonPowerTwo THEN ~is_extra_rank(r) ELSE ~Odd(r)
  PROVE  LET c == <<r, k>>
             d == Into(r, k)
         IN  /\ c \in Channels /\ c[1] = r /\ c[2] = k
             /\ d \in Channels /\ d[1] = To(c) /\ d[2] = k /\ To(d) = r
             /\ TargetMemory(d) = c
<1> DEFINE c == <<r, k>>
<1>1. c \in Channels /\ c[1] = r /\ c[2] = k
  BY Kinds DEF Channels, NonPowerTwo, Odd
<1> HIDE DEF c
<1>2. <<To(c), k>> \in Channels /\ To(<<To(c), k>>) = r
  BY <1>1, ChannelFacts
<1>3. Into(r, k) = <<To(c), k>>
  BY <1>1 DEF Into, To
<1>4. TargetMemory(Into(r, k)) = <<r, k>>
  BY <1>2, <1>3 DEF TargetMemory, To
<1> QED
  BY <1>1, <1>2, <1>3, <1>4 DEF c

(* What a channel knows of its two ranks, and when. *)
LEMMA Times ==
  ASSUME Parameters, NEW c \in Channels
  PROVE  /\ Sending(c) \in Marks(c[1]) /\ Taking(c) \in Marks(To(c))
         /\ Sending(c) \in 1 .. End /\ Taking(c) \in 1 .. End /\ Confirming(c) \in 1 .. End
         /\ ~Odd(c[1]) => Confirming(c) \in Marks(c[1]) /\ Sending(c) < Confirming(c)
         /\ End \in Nat
<1> DEFINE m == number_iterations
           k == c[2]
<1>1. m \in Nat /\ m > 0 /\ k \in 0 .. m
  <2>1. m \in Nat /\ m > 0
    BY Sizes
  <2> QED
    BY <2>1, ChannelFacts
<1>2. /\ Odd(c[1]) => k = m
      /\ Odd(To(c)) <=> k = m /\ ~Odd(c[1])
  BY ChannelFacts DEF NonPowerTwo
<1>3. End = 2 * m + 2 /\ NonPowerTwo = m
  BY DEF End, NonPowerTwo
<1> HIDE DEF m, k, End, NonPowerTwo
<1>4. /\ Sending(c) = IF Odd(c[1]) THEN 1 ELSE 2 * k + 1
      /\ Taking(c) = IF Odd(c[1]) THEN 1 ELSE 2 * k + 2
      /\ Confirming(c) = IF k = m THEN End ELSE 2 * k + 3
  BY <1>3 DEF Sending, Taking, Confirming, k
<1> QED
  BY <1>1, <1>2, <1>3, <1>4 DEF Marks

(* At each of its positions a rank uses one channel for each purpose. *)
LEMMA Alone ==
  ASSUME Parameters, NEW c \in Channels, NEW d \in Channels
  PROVE  /\ c[1] = d[1] /\ Sending(c) = Sending(d) => c = d
         /\ To(c) = To(d) /\ Taking(c) = Taking(d) => c = d
         /\ c[1] = d[1] /\ Confirming(c) = Confirming(d) => c = d
<1> DEFINE m == number_iterations
<1>1. /\ m \in Nat /\ m > 0 /\ c[2] \in 0 .. m /\ d[2] \in 0 .. m
      /\ c = <<c[1], c[2]>> /\ d = <<d[1], d[2]>>
      /\ Odd(c[1]) => c[2] = m
      /\ Odd(d[1]) => d[2] = m
      /\ To(<<To(c), c[2]>>) = c[1] /\ To(<<To(d), d[2]>>) = d[1]
  BY Sizes, ChannelFacts DEF NonPowerTwo
<1>2. End = 2 * m + 2 /\ NonPowerTwo = m
  BY DEF End, NonPowerTwo
<1> HIDE DEF m, End, NonPowerTwo
<1>3. c[1] = d[1] /\ Sending(c) = Sending(d) => c = d
  BY <1>1 DEF Sending
<1>4. To(c) = To(d) /\ Taking(c) = Taking(d) => c = d
  <2>1. Taking(c) = Taking(d) => c[2] = d[2]
    BY <1>1 DEF Taking
  <2> QED
    BY <1>1, <2>1
<1>5. c[1] = d[1] /\ Confirming(c) = Confirming(d) => c = d
  BY <1>1, <1>2 DEF Confirming
<1> QED
  BY <1>3, <1>4, <1>5

(* The executions in which a rank has reached a position. *)
LEMMA Counts ==
  ASSUME Parameters, TypeInv, NEW r \in Ranks
  PROVE  /\ round[r] \in Nat /\ Position(r) \in 0 .. End
         /\ \A x \in 1 .. End :
              /\ Done(r, x) \in Nat /\ Done(r, x) <= round[r] /\ round[r] - 1 <= Done(r, x)
              /\ Done(r, x) = round[r] <=> x <= Position(r)
              /\ \A y \in 1 .. End : x <= y => Done(r, y) <= Done(r, x)
<1>1. /\ round[r] \in Nat /\ iteration[r] \in 0 .. number_iterations
      /\ state[r] # "INITIALIZED" => round[r] > 0
  BY DEF TypeInv, TypeOK, Parameters
<1>2. number_iterations \in Nat /\ number_iterations > 0
  BY Sizes
<1> HIDE DEF number_iterations
<1>3. Position(r) \in 0 .. End /\ (state[r] = "INITIALIZED" => Position(r) = End)
  BY <1>1, <1>2 DEF Position, End
<1> QED
  BY <1>1, <1>3 DEF Done

(* The types of the notifications. *)
LEMMA EndpointTypes ==
  ASSUME TypeInv, NEW c \in Channels
  PROVE  /\ writing[c] \in Nat /\ arrived[c] \in 0 .. 1
         /\ acking[c] \in Nat /\ acked[c] \in 0 .. 1
BY DEF TypeInv, TypeOK, EndpointTypeOK

(* What the accounts say of one channel: at most one notification is on    *)
(* its way in either direction, none once the sender has come to the end,  *)
(* and what is on its way is of the sender's execution.                    *)
LEMMA Bounded ==
  ASSUME Parameters, TypeInv, ChannelInv, NEW c \in Channels
  PROVE  /\ writing[c] + arrived[c] <= 1
         /\ acking[c] + acked[c] <= 1
         /\ Position(c[1]) = End => writing[c] + arrived[c] = 0 /\ acking[c] + acked[c] = 0
         /\ writing[c] + arrived[c] > 0 =>
              /\ Done(c[1], Sending(c)) = round[c[1]] /\ Sending(c) <= Position(c[1])
              /\ Done(To(c), Taking(c)) = round[c[1]] - 1
              /\ Odd(c[1]) \/ Position(c[1]) < Confirming(c)
              /\ round[c[1]] > 0
<1> DEFINE a == c[1]
           b == To(c)
           s == Done(a, Sending(c))
           t == Done(b, Taking(c))
           z == Done(a, Confirming(c))
           W == writing[c] + arrived[c]
           A == acking[c] + acked[c]
<1>1. a \in Ranks /\ b \in Ranks
  BY ChannelFacts
<1>2. /\ Sending(c) \in 1 .. End /\ Taking(c) \in 1 .. End /\ Confirming(c) \in 1 .. End
      /\ ~Odd(a) => Sending(c) < Confirming(c)
      /\ End \in Nat
  BY Times
<1>3. /\ W = s - t /\ A = (IF Odd(a) THEN 0 ELSE t - z)
      /\ W \in Nat /\ A \in Nat
  BY EndpointTypes DEF ChannelInv, Accounted
<1>4. /\ s \in Nat /\ t \in Nat /\ z \in Nat /\ round[a] \in Nat /\ Position(a) \in 0 .. End
      /\ s <= round[a] /\ round[a] - 1 <= s /\ z <= round[a] /\ round[a] - 1 <= z
      /\ s = round[a] <=> Sending(c) <= Position(a)
      /\ z = round[a] <=> Confirming(c) <= Position(a)
  BY <1>1, <1>2, Counts
<1>5. CASE ~Odd(a)
  <2> HIDE DEF a, b, s, t, z, W, A, End
  <2>1. /\ W <= 1 /\ A <= 1
        /\ Position(a) = End => W = 0 /\ A = 0
        /\ W > 0 => /\ s = round[a] /\ Sending(c) <= Position(a) /\ t = round[a] - 1
                    /\ Position(a) < Confirming(c) /\ round[a] > 0
    BY <1>2, <1>3, <1>4, <1>5
  <2> QED
    BY <2>1 DEF a, b, s, t, z, W, A
<1>6. CASE Odd(a)
  <2> DEFINE d == <<b, c[2]>>
             f == Done(b, Sending(d))
             e == Done(a, Taking(d))
             D == writing[d] + arrived[d]
  <2>1. d \in Channels /\ d[1] = b /\ d[2] = c[2] /\ To(d) = a /\ ~Odd(b)
    BY <1>6, ChannelFacts
  <2>2. c[2] = number_iterations /\ number_iterations \in Nat
    <3>1. number_iterations \in Nat
      BY Sizes
    <3> QED
      BY <1>6, <3>1, ChannelFacts DEF NonPowerTwo
  <2> HIDE DEF d, a, b, number_iterations
  <2>3. /\ Taking(c) = 1 /\ Sending(c) = 1 /\ Taking(d) = End /\ Sending(d) \in 1 .. End
        /\ 1 <= Sending(d) /\ 1 \in 1 .. End
    BY <1>2, <1>6, <2>1, <2>2 DEF Sending, Taking, End, a, b
  <2>4. D = f - e /\ D \in Nat
    BY <2>1, EndpointTypes DEF ChannelInv, Accounted
  <2>5. /\ f \in Nat /\ e \in Nat /\ f <= t /\ round[a] - 1 <= e
        /\ Position(a) = End => e = round[a]
    <3>1. f \in Nat /\ f <= t
      BY <1>1, <2>3, Counts
    <3>2. e \in Nat /\ round[a] - 1 <= e /\ (e = round[a] <=> End <= Position(a))
      <4>1. End \in 1 .. End
        BY <1>2
      <4> QED
        BY <1>1, <2>3, <4>1, Counts
    <3> QED
      BY <1>2, <3>1, <3>2
  <2> HIDE DEF s, t, z, W, A, End, D, e, f
  <2>6. /\ W <= 1 /\ A <= 1
        /\ Position(a) = End => W = 0 /\ A = 0
        /\ W > 0 => s = round[a] /\ Sending(c) <= Position(a) /\ t = round[a] - 1 /\ round[a] > 0
    BY <1>3, <1>4, <1>6, <2>4, <2>5
  <2> QED
    BY <1>6, <2>6 DEF a, b, s, t, z, W, A
<1> QED
  BY <1>5, <1>6

(* The groups of ranks double in every iteration. *)
LEMMA Groups ==
  ASSUME Parameters, NEW r \in Ranks
  PROVE  /\ is_extra_rank(r) => Group(r, 0) = {r}
         /\ ~is_extra_rank(r) => Group(r, 0) = {r} \cup {FlipBit(r, 1)}
         /\ Group(r, number_iterations) = Ranks
<1>1. /\ number_ranks_rest \in Nat /\ number_ranks_used \in Nat \ {0}
      /\ number_ranks_rest < number_ranks_used /\ N = number_ranks_used + number_ranks_rest
  BY Sizes
<1>2. \A q \in Ranks : Label(q) \in Nat /\ Label(q) < number_ranks_used
  BY Labels
<1>3. Group(r, 0) = {q \in Ranks : Label(q) = Label(r)}
  <2>1. 2^0 = 1
    BY DEF Parameters
  <2>2. \A q \in Ranks : Label(q) \div 1 = Label(q)
    BY <1>2
  <2> HIDE DEF Label
  <2> QED
    BY <2>1, <2>2 DEF Group
<1>4. ASSUME is_extra_rank(r) PROVE Group(r, 0) = {r}
  <2>1. \A q \in Ranks : Label(q) = Label(r) => q = r
    <3> HIDE DEF number_ranks_rest, number_ranks_used
    <3> QED
      BY <1>1, <1>4 DEF Label, is_extra_rank, Ranks
  <2> QED
    BY <1>3, <2>1
<1>5. ASSUME ~is_extra_rank(r) PROVE Group(r, 0) = {r} \cup {FlipBit(r, 1)}
  <2>1. FlipBit(r, 1) \in Ranks
    BY <1>5, Pairs
  <2>2. \A q \in Ranks : Label(q) = Label(r) <=> q = r \/ q = FlipBit(r, 1)
    BY <1>5, Pairs
  <2> QED
    BY <1>3, <2>1, <2>2
<1>6. Group(r, number_iterations) = Ranks
  <2>1. \A q \in Ranks : Label(q) \div number_ranks_used = 0
    <3> SUFFICES ASSUME NEW q \in Ranks PROVE Label(q) \div number_ranks_used = 0
      OBVIOUS
    <3>1. Label(q) < number_ranks_used * 1 <=> Label(q) \div number_ranks_used < 1
      BY <1>1, <1>2, Below
    <3>2. Label(q) \div number_ranks_used \in Nat
      BY <1>1, <1>2, Division
    <3> HIDE DEF number_ranks_used
    <3> QED
      BY <1>1, <1>2, <3>1, <3>2
  <2> QED
    BY <2>1 DEF Group, number_ranks_used
<1> QED
  BY <1>4, <1>5, <1>6

(* An iteration unites the groups of two partners, which are disjoint. *)
LEMMA GroupStep ==
  ASSUME Parameters, NEW r \in Ranks, is_active_rank(r), NEW k \in 0 .. number_iterations - 1
  PROVE  /\ Group(r, k + 1) = Group(r, k) \cup Group(Neighbor(r, k), k)
         /\ Group(r, k) \cap Group(Neighbor(r, k), k) = {}
<1> DEFINE d == 2^k
           a == Label(r)
           b == Neighbor(r, k)
<1>1. /\ d \in Nat \ {0} /\ 2^(k + 1) = 2 * d /\ a \in Nat
      /\ \A q \in Ranks : Label(q) \in Nat
  <2>1. k \in 0 .. number_iterations
    BY Sizes
  <2> QED
    BY <2>1, Labels, Power
<1>2. Label(b) = FlipBit(a, d) /\ b \in Ranks
  BY Neighbors
<1> HIDE DEF d, a, b
<1>3. FlipBit(a, d) \div d = IF (a \div d) % 2 = 0 THEN (a \div d) + 1 ELSE (a \div d) - 1
  BY <1>1, Flip
<1>4. a \div d # FlipBit(a, d) \div d
  <2>1. a \div d \in Nat
    BY <1>1, Division
  <2> QED
    BY <1>3, <2>1
<1>5. \A q \in Ranks : Label(q) \div (2 * d) = a \div (2 * d) <=>
                         Label(q) \div d = a \div d \/ Label(q) \div d = FlipBit(a, d) \div d
  BY <1>1, Flip
<1>6. /\ Group(r, k) = {q \in Ranks : Label(q) \div d = a \div d}
      /\ Group(b, k) = {q \in Ranks : Label(q) \div d = FlipBit(a, d) \div d}
      /\ Group(r, k + 1) = {q \in Ranks : Label(q) \div (2 * d) = a \div (2 * d)}
  BY <1>1, <1>2 DEF Group, a, d
<1> HIDE DEF Group
<1>7. /\ Group(r, k + 1) = Group(r, k) \cup Group(b, k)
      /\ Group(r, k) \cap Group(b, k) = {}
  BY <1>4, <1>5, <1>6
<1> QED
  BY <1>7 DEF b

(* Bags without repetition. *)
LEMMA BagOfUnion ==
  ASSUME NEW S, NEW T, S \cap T = {}
  PROVE  SetToBag(S) (+) SetToBag(T) = SetToBag(S \cup T)
BY DEF SetToBag, (+)

(* Reducing two vectors gives the contributions of both. *)
LEMMA ReducedUnion ==
  ASSUME NEW S, NEW T, S \cap T = {}, NEW k, k # 0
  PROVE  Reduced(S, k) (+) Reduced(T, k) = Reduced(S \cup T, k)
<1> DEFINE A == {<<q, k>> : q \in S}
           B == {<<q, k>> : q \in T}
           C == {<<q, k>> : q \in S \cup T}
<1>1. A \cap B = {} /\ A \cup B = C
  OBVIOUS
<1> HIDE DEF A, B, C
<1>2. SetToBag(A) (+) SetToBag(B) = SetToBag(C)
  BY <1>1, BagOfUnion
<1> QED
  BY <1>2 DEF Reduced, A, B, C

(* The locations are distinct. *)
LEMMA LocationFacts ==
  ASSUME Parameters
  PROVE  /\ \A r \in Ranks : Vector(r) \in Locations
         /\ \A q, r \in Ranks : Vector(q) = Vector(r) => q = r
         /\ \A c \in Channels : TargetMemory(c) \in Locations
         /\ \A c \in Channels, r \in Ranks : TargetMemory(c) # Vector(r)
         /\ \A c, d \in Channels : TargetMemory(c) = TargetMemory(d) => c = d
<1>1. \A c \in Channels :
        /\ TargetMemory(c) = <<To(c), c[2]>> /\ <<To(c), c[2]>> \in Channels
        /\ c[2] \in 0 .. number_iterations /\ c = <<c[1], c[2]>>
        /\ To(<<To(c), c[2]>>) = c[1]
  BY ChannelFacts DEF TargetMemory, To
<1>2. \A c \in Channels, r \in Ranks : TargetMemory(c) # Vector(r)
  <2> SUFFICES ASSUME NEW c \in Channels, NEW r \in Ranks PROVE TargetMemory(c) # Vector(r)
    OBVIOUS
  <2>1. number_iterations \in Nat
    BY Sizes
  <2>2. c[2] \in 0 .. number_iterations /\ TargetMemory(c) = <<To(c), c[2]>>
    BY <1>1
  <2> HIDE DEF number_iterations
  <2>3. c[2] # -1
    BY <2>1, <2>2
  <2> QED
    BY <2>2, <2>3 DEF Vector
<1>3. \A q, r \in Ranks : Vector(q) = Vector(r) => q = r
  BY DEF Vector
<1>4. \A c, d \in Channels : TargetMemory(c) = TargetMemory(d) => c = d
  <2> SUFFICES ASSUME NEW c \in Channels, NEW d \in Channels, TargetMemory(c) = TargetMemory(d)
               PROVE  c = d
    OBVIOUS
  <2>1. /\ TargetMemory(c) = <<To(c), c[2]>> /\ c = <<c[1], c[2]>>
        /\ To(<<To(c), c[2]>>) = c[1]
    BY <1>1
  <2>2. /\ TargetMemory(d) = <<To(d), d[2]>> /\ d = <<d[1], d[2]>>
        /\ To(<<To(d), d[2]>>) = d[1]
    BY <1>1
  <2>3. To(c) = To(d) /\ c[2] = d[2]
    <3>1. <<To(c), c[2]>> = <<To(d), d[2]>>
      BY <2>1, <2>2
    <3> QED
      BY <3>1
  <2> QED
    BY <2>1, <2>2, <2>3
<1> QED
  BY <1>1, <1>2, <1>3, <1>4 DEF Locations

(* A step of rank r that brings it to position x. *)
Moves(r, x) ==
  \A y \in Marks(r) : Done(r, y)' = IF y = x THEN Done(r, y) + 1 ELSE Done(r, y)

Posts(r, x) ==
  \A c \in Channels :
    LET send == c[1] = r /\ Sending(c) = x
        take == To(c) = r /\ Taking(c) = x
        confirm == c[1] = r /\ ~Odd(r) /\ Confirming(c) = x
    IN  /\ writing'[c] = IF send THEN writing[c] + 1 ELSE writing[c]
        /\ arrived'[c] = IF take THEN arrived[c] - 1 ELSE arrived[c]
        /\ acking'[c] = IF take /\ ~Odd(c[1]) THEN acking[c] + 1 ELSE acking[c]
        /\ acked'[c] = IF confirm THEN acked[c] - 1 ELSE acked[c]

Others(r) ==
  \A q \in Ranks \ {r} : /\ state'[q] = state[q] /\ round'[q] = round[q]
                         /\ iteration'[q] = iteration[q] /\ alg_stage'[q] = alg_stage[q]

(* A step of rank r leaves the others where they are. *)
LEMMA OthersKept ==
  ASSUME NEW r \in Ranks, Others(r), NEW q \in Ranks, q # r
  PROVE  /\ \A y : Done(q, y)' = Done(q, y)
         /\ Held(q)' = Held(q) /\ StageInv(q)' = StageInv(q)
<1>1. /\ state'[q] = state[q] /\ round'[q] = round[q]
      /\ iteration'[q] = iteration[q] /\ alg_stage'[q] = alg_stage[q]
  BY DEF Others
<1>2. Position(q)' = Position(q)
  BY <1>1 DEF Position
<1> QED
  BY <1>1, <1>2 DEF Done, Held, StageInv

(* When a rank posts what is due at the position it comes to, the accounts *)
(* stay right.                                                             *)
LEMMA AccountsMoved ==
  ASSUME Parameters, TypeInv, ChannelInv, NEW r \in Ranks, NEW x, Others(r),
         Moves(r, x), Posts(r, x)
  PROVE  ChannelInv' /\ \A c \in Channels : Landed(c)' = Landed(c)
<1> SUFFICES ASSUME NEW c \in Channels PROVE Accounted(c)' /\ Landed(c)' = Landed(c)
  BY DEF ChannelInv
<1> DEFINE a == c[1]
           b == To(c)
           s == Done(a, Sending(c))
           t == Done(b, Taking(c))
           z == Done(a, Confirming(c))
<1>1. a \in Ranks /\ b \in Ranks /\ a # b
  BY ChannelFacts
<1>2. /\ writing[c] + arrived[c] = s - t
      /\ acking[c] + acked[c] = IF Odd(a) THEN 0 ELSE t - z
      /\ Landed(c) = s - writing[c]
  BY DEF ChannelInv, Accounted, Landed
<1>3. s \in Nat /\ t \in Nat /\ z \in Nat
  <2>1. Sending(c) \in 1 .. End /\ Taking(c) \in 1 .. End /\ Confirming(c) \in 1 .. End
    BY Times
  <2> QED
    BY <1>1, <2>1, Counts
<1>4. /\ s' = IF a = r /\ Sending(c) = x THEN s + 1 ELSE s
      /\ t' = IF b = r /\ Taking(c) = x THEN t + 1 ELSE t
      /\ ~Odd(a) => z' = IF a = r /\ Confirming(c) = x THEN z + 1 ELSE z
  <2>1. /\ Sending(c) \in Marks(a) /\ Taking(c) \in Marks(b)
        /\ ~Odd(a) => Confirming(c) \in Marks(a)
    BY Times
  <2>2. /\ a = r => /\ s' = IF Sending(c) = x THEN s + 1 ELSE s
                    /\ ~Odd(a) => z' = IF Confirming(c) = x THEN z + 1 ELSE z
        /\ b = r => t' = IF Taking(c) = x THEN t + 1 ELSE t
    BY <2>1 DEF Moves
  <2>3. (a # r => s' = s /\ z' = z) /\ (b # r => t' = t)
    BY <1>1, OthersKept
  <2> QED
    BY <2>2, <2>3
<1>5. /\ writing[c] \in Nat /\ arrived[c] \in Nat /\ acking[c] \in Nat /\ acked[c] \in Nat
  BY EndpointTypes
<1>6. /\ writing'[c] = IF a = r /\ Sending(c) = x THEN writing[c] + 1 ELSE writing[c]
      /\ arrived'[c] = IF b = r /\ Taking(c) = x THEN arrived[c] - 1 ELSE arrived[c]
      /\ acking'[c] = IF b = r /\ Taking(c) = x /\ ~Odd(a) THEN acking[c] + 1 ELSE acking[c]
      /\ acked'[c] = IF a = r /\ ~Odd(a) /\ Confirming(c) = x THEN acked[c] - 1 ELSE acked[c]
  BY DEF Posts
<1>7. ~Odd(a) => Sending(c) # Confirming(c)
  <2>1. /\ Sending(c) \in 1 .. End /\ End \in Nat
        /\ ~Odd(a) => Confirming(c) \in 1 .. End /\ Sending(c) < Confirming(c)
    BY Times
  <2> QED
    BY <2>1
<1>8. /\ writing'[c] + arrived'[c] = s' - t'
      /\ acking'[c] + acked'[c] = IF Odd(a) THEN 0 ELSE t' - z'
      /\ s' - writing'[c] = s - writing[c]
  <2> DEFINE send == a = r /\ Sending(c) = x
             take == b = r /\ Taking(c) = x
             confirm == a = r /\ Confirming(c) = x
             odd == Odd(a)
  <2>1. ~(send /\ take) /\ ~(take /\ confirm) /\ (~odd => ~(send /\ confirm))
    BY <1>1, <1>7
  <2>2. /\ s' = (IF send THEN s + 1 ELSE s) /\ t' = (IF take THEN t + 1 ELSE t)
        /\ ~odd => z' = IF confirm THEN z + 1 ELSE z
    BY <1>4
  <2>3. /\ writing'[c] = IF send THEN writing[c] + 1 ELSE writing[c]
        /\ arrived'[c] = IF take THEN arrived[c] - 1 ELSE arrived[c]
        /\ acking'[c] = IF take /\ ~odd THEN acking[c] + 1 ELSE acking[c]
        /\ acked'[c] = IF confirm /\ ~odd THEN acked[c] - 1 ELSE acked[c]
    BY <1>6
  <2>4. /\ writing[c] + arrived[c] = s - t
        /\ acking[c] + acked[c] = IF odd THEN 0 ELSE t - z
    BY <1>2
  <2> HIDE DEF a, b, s, t, z, send, take, confirm, odd
  <2>5. writing'[c] + arrived'[c] = s' - t' /\ s' - writing'[c] = s - writing[c]
    BY <1>3, <1>5, <2>1, <2>2, <2>3, <2>4
  <2>6. acking'[c] + acked'[c] = IF odd THEN 0 ELSE t' - z'
    <3>1. CASE odd
      BY <1>5, <2>3, <2>4, <3>1
    <3>2. CASE ~odd /\ take
      BY <1>3, <1>5, <2>1, <2>2, <2>3, <2>4, <3>2
    <3>3. CASE ~odd /\ ~take /\ confirm
      BY <1>3, <1>5, <2>1, <2>2, <2>3, <2>4, <3>3
    <3>4. CASE ~odd /\ ~take /\ ~confirm
      BY <1>3, <1>5, <2>1, <2>2, <2>3, <2>4, <3>4
    <3> QED
      BY <3>1, <3>2, <3>3, <3>4
  <2> QED
    BY <2>5, <2>6 DEF odd
<1> QED
  BY <1>2, <1>8 DEF Accounted, Landed

(* What a step of a rank keeps when it does its part. *)
LEMMA RankStep ==
  ASSUME Parameters, TypeInv, RunInv, NEW r \in Ranks, NEW x, Others(r),
         Moves(r, x), Posts(r, x),
         state'[r] = "RUNNING" => StageInv(r)', separated' = separated,
         separated => /\ mem'[Vector(r)] = Reduced(Held(r)', round'[r])
                      /\ \A l \in Locations : l # Vector(r) => mem'[l] = mem[l]
                      /\ LockStep' /\ ResultsCorrect'
  PROVE  RunInv'
<1> USE DEF RunInv
<1>1. ChannelInv' /\ \A c \in Channels : Landed(c)' = Landed(c)
  BY AccountsMoved
<1>2. ASSUME NEW q \in Ranks, state'[q] = "RUNNING" PROVE StageInv(q)'
  <2>1. CASE q = r
    BY <1>2, <2>1
  <2>2. CASE q # r
    BY <1>2, <2>2, OthersKept DEF Others
  <2> QED
    BY <2>1, <2>2
<1>3. ASSUME separated PROVE MemoryInv'
  <2>1. ASSUME NEW q \in Ranks PROVE mem'[Vector(q)] = Reduced(Held(q)', round'[q])
    <3>1. CASE q = r
      BY <1>3, <3>1
    <3>2. CASE q # r
      <4>1. Vector(q) \in Locations /\ Vector(q) # Vector(r)
        BY <3>2, LocationFacts
      <4>2. mem'[Vector(q)] = mem[Vector(q)] /\ Held(q)' = Held(q) /\ round'[q] = round[q]
        BY <1>3, <3>2, <4>1, OthersKept DEF Others
      <4> QED
        BY <1>3, <4>2 DEF DataInv, MemoryInv
    <3> QED
      BY <3>1, <3>2
  <2>2. ASSUME NEW c \in Channels PROVE mem'[TargetMemory(c)] = Reduced(Content(c), Landed(c)')
    <3>1. mem'[TargetMemory(c)] = mem[TargetMemory(c)]
      BY <1>3, LocationFacts
    <3> QED
      BY <1>1, <1>3, <3>1 DEF DataInv, MemoryInv
  <2> QED
    BY <2>1, <2>2 DEF MemoryInv, Reduced
<1> QED
  BY <1>1, <1>2, <1>3 DEF DataInv

(* The channels of the even, the odd and the extra ranks. *)
LEMMA Roles ==
  ASSUME Parameters, NEW c \in Channels
  PROVE  LET m == number_iterations
             k == c[2]
         IN  /\ m \in Nat /\ m > 0 /\ End = 2 * m + 2 /\ NonPowerTwo = m
             /\ k \in 0 .. m /\ c[1] \in Ranks /\ To(c) \in Ranks /\ To(c) # c[1]
             /\ Odd(c[1]) => k = m /\ Sending(c) = 1 /\ Taking(c) = 1
             /\ ~Odd(c[1]) => /\ Sending(c) = 2 * k + 1 /\ Taking(c) = 2 * k + 2
                              /\ Confirming(c) = IF k = m THEN End ELSE 2 * k + 3
             /\ Odd(To(c)) <=> k = m /\ ~Odd(c[1])
             /\ k = m => ~is_extra_rank(c[1]) /\ ~is_extra_rank(To(c))
<1> DEFINE d == <<To(c), c[2]>>
<1>1. number_iterations \in Nat /\ number_iterations > 0
  BY Sizes
<1>2. /\ c[1] \in Ranks /\ c[2] \in 0 .. number_iterations
      /\ c[2] = NonPowerTwo => ~is_extra_rank(c[1])
      /\ Odd(c[1]) => c[2] = NonPowerTwo
      /\ To(c) \in Ranks /\ To(c) # c[1] /\ d \in Channels
      /\ Odd(To(c)) <=> c[2] = NonPowerTwo /\ ~Odd(c[1])
  BY ChannelFacts
<1>3. d[1] = To(c) /\ d[2] = c[2]
  OBVIOUS
<1> HIDE DEF d, number_iterations
<1>4. c[2] = NonPowerTwo => ~is_extra_rank(To(c))
  BY <1>2, <1>3, ChannelFacts
<1> QED
  BY <1>1, <1>2, <1>4 DEF Sending, Taking, Confirming, End, NonPowerTwo

(* No notification is due at position 0. *)
LEMMA NothingPosted ==
  ASSUME Parameters, NEW r \in Ranks, UNCHANGED endpointVars
  PROVE  Posts(r, 0)
<1> SUFFICES ASSUME NEW c \in Channels
             PROVE  Sending(c) # 0 /\ Taking(c) # 0 /\ Confirming(c) # 0
  BY DEF Posts, endpointVars
<1>1. Sending(c) \in 1 .. End /\ Taking(c) \in 1 .. End /\ Confirming(c) \in 1 .. End /\ End \in Nat
  BY Times
<1> QED
  BY <1>1

(* The barrier is only passed in copyIn. *)
LEMMA LockStepKept ==
  ASSUME LockStep, round' = round,
         \A q \in Ranks : state[q] = "INITIALIZED" => state'[q] = "INITIALIZED"
  PROVE  LockStep'
BY DEF LockStep

(* What is handed out changes in copyOut only. *)
LEMMA ResultsKept ==
  ASSUME ResultsCorrect, number_elements' = number_elements, separated' = separated,
         \A q \in Ranks : HasResult(q)' =>
           HasResult(q) /\ output'[q] = output[q] /\ round'[q] = round[q]
  PROVE  ResultsCorrect'
<1> DEFINE Result(k) == SetToBag({<<p, k>> : p \in Ranks})
<1>1. separated /\ number_elements > 0 =>
        \A q \in Ranks : HasResult(q) => output[q] = Result(round[q])
  BY DEF ResultsCorrect
<1>2. (separated /\ number_elements > 0)' =>
        \A q \in Ranks : HasResult(q)' => output'[q] = Result(round'[q])
  <2> HIDE DEF Result
  <2> QED
    BY <1>1
<1> QED
  BY <1>2 DEF ResultsCorrect

(* The positions of a rank that its channels know. *)
LEMMA MarkFacts ==
  ASSUME Parameters, NEW r \in Ranks
  PROVE  /\ End \in Nat /\ End >= 4 /\ End = 2 * number_iterations + 2
         /\ number_iterations \in Nat /\ number_iterations > 0
         /\ Odd(r) => Marks(r) = {1, End}
         /\ \A y \in Marks(r) : y \in 1 .. End
<1>1. number_iterations \in Nat /\ number_iterations > 0
  BY Sizes
<1> HIDE DEF number_iterations
<1> QED
  BY <1>1 DEF Marks, End

(* copyIn begins an execution with the rank's own data. *)
LEMMA CopyInStep ==
  ASSUME Parameters, TypeInv, RunInv, number_elements # 0, NEW r \in Ranks, CopyIn(r)
  PROVE  TypeInv' /\ RunInv'
<1>1. /\ state[r] = "INITIALIZED" /\ round[r] < Rounds
      /\ separated => PassedBarrier(r)
      /\ state' = [state EXCEPT ![r] = "READY"]
      /\ round' = [round EXCEPT ![r] = round[r] + 1]
      /\ mem' = [mem EXCEPT ![Vector(r)] = SetToBag({<<r, round'[r]>>})]
      /\ UNCHANGED <<separated, output, number_elements, iteration, alg_stage>>
      /\ UNCHANGED endpointVars
  BY DEF CopyIn, copyIn, allreduceVars
<1>2. /\ round \in [Ranks -> 0 .. Rounds] /\ state \in [Ranks -> States] /\ Rounds \in Nat
      /\ DOMAIN mem = Locations
  BY DEF Parameters, TypeInv, TypeOK
<1>3. TypeInv'
  <2>1. state' \in [Ranks -> States] /\ round' \in [Ranks -> 0 .. Rounds]
    BY <1>1, <1>2 DEF States
  <2>2. \A q \in Ranks : state'[q] # "INITIALIZED" => round'[q] > 0
    BY <1>1, <1>2 DEF TypeInv
  <2>3. DOMAIN mem' = Locations
    BY <1>1, <1>2
  <2>4. EndpointTypeOK(Channels)'
    BY <1>1 DEF TypeInv, TypeOK, EndpointTypeOK, endpointVars
  <2> QED
    BY <1>1, <2>1, <2>2, <2>3, <2>4 DEF TypeInv, TypeOK
<1>4. Others(r)
  BY <1>1, <1>2 DEF Others
<1>5. state'[r] = "READY" /\ round'[r] = round[r] + 1 /\ round[r] \in Nat
  BY <1>1, <1>2
<1>6. Position(r) = End /\ Position(r)' = 0
  BY <1>1, <1>5 DEF Position
<1>7. Moves(r, 0)
  <2> SUFFICES ASSUME NEW y \in Marks(r) PROVE y # 0 /\ Done(r, y)' = Done(r, y)
    BY DEF Moves
  <2>1. y \in 1 .. End /\ End \in Nat
    BY MarkFacts
  <2> QED
    BY <1>5, <1>6, <2>1 DEF Done
<1>8. Posts(r, 0)
  BY <1>1, NothingPosted
<1>9. ASSUME separated
      PROVE  /\ mem'[Vector(r)] = Reduced(Held(r)', round'[r])
             /\ \A l \in Locations : l # Vector(r) => mem'[l] = mem[l]
             /\ LockStep' /\ ResultsCorrect'
  <2>1. mem'[Vector(r)] = Reduced(Held(r)', round'[r])
    <3>1. Held(r)' = {r}
      BY <1>6 DEF Held
    <3>2. mem'[Vector(r)] = SetToBag({<<r, round'[r]>>})
      BY <1>1, <1>2, LocationFacts
    <3>3. {<<q, round'[r]>> : q \in {r}} = {<<r, round'[r]>>}
      OBVIOUS
    <3>4. round'[r] # 0
      BY <1>5
    <3> QED
      BY <3>1, <3>2, <3>3, <3>4 DEF Reduced
  <2>2. \A l \in Locations : l # Vector(r) => mem'[l] = mem[l]
    BY <1>1, <1>2
  <2>3. LockStep'
    <3>1. LockStep /\ PassedBarrier(r)
      BY <1>1, <1>9 DEF RunInv, DataInv
    <3> SUFFICES ASSUME NEW q \in Ranks, NEW p \in Ranks
                 PROVE  \/ round'[q] >= round'[p]
                        \/ round'[q] = round'[p] - 1 /\ state'[q] = "INITIALIZED"
      BY DEF LockStep
    <3>2. /\ round[q] \in Nat /\ round[p] \in Nat /\ round[r] \in Nat
          /\ round'[q] = (IF q = r THEN round[r] + 1 ELSE round[q])
          /\ round'[p] = (IF p = r THEN round[r] + 1 ELSE round[p])
          /\ q # r => state'[q] = state[q]
      BY <1>1, <1>2
    <3>3. \/ round[q] >= round[p]
          \/ round[q] = round[p] - 1 /\ state[q] = "INITIALIZED"
      BY <3>1 DEF LockStep
    <3>4. round[q] > round[r] \/ (round[q] = round[r] /\ state[q] = "INITIALIZED")
      BY <3>1 DEF PassedBarrier
    <3> QED
      BY <3>2, <3>3, <3>4
  <2>4. ResultsCorrect'
    <3>1. \A q \in Ranks : HasResult(q)' =>
            HasResult(q) /\ output'[q] = output[q] /\ round'[q] = round[q]
      BY <1>1, <1>2 DEF HasResult
    <3>2. ResultsCorrect
      BY <1>9 DEF RunInv, DataInv
    <3> QED
      BY <1>1, <3>1, <3>2, ResultsKept
  <2> QED
    BY <2>1, <2>2, <2>3, <2>4
<1>10. ~(state'[r] = "RUNNING") /\ separated' = separated
  BY <1>1, <1>5
<1>11. RunInv'
  BY <1>4, <1>7, <1>8, <1>9, <1>10, RankStep
<1> QED
  BY <1>3, <1>11

(* start posts the first transfer of the extra and of the odd ranks. *)
LEMMA StartStep ==
  ASSUME Parameters, TypeInv, RunInv, number_elements # 0, NEW r \in Ranks, Start(r)
  PROVE  TypeInv' /\ RunInv'
<1> DEFINE x == IF is_even_non_extra_rank(r) THEN 0 ELSE 1
           o == IF Odd(r) THEN <<r, NonPowerTwo>> ELSE <<r, 0>>
           stage == IF is_extra_rank(r) THEN "WAIT_FOR_DATA" ELSE "INITIAL_STEP"
<1>1. /\ state[r] = "READY" /\ state' = [state EXCEPT ![r] = "RUNNING"]
      /\ iteration' = [iteration EXCEPT ![r] = 0]
      /\ alg_stage' = [alg_stage EXCEPT ![r] = stage]
      /\ UNCHANGED <<separated, round, mem, output, number_elements, arrived, acking, acked>>
  BY DEF Start, start
<1>2. /\ is_even_non_extra_rank(r) => writing' = writing
      /\ ~is_even_non_extra_rank(r) => writing' = [writing EXCEPT ![o] = writing[o] + 1]
  <2>1. CASE is_even_non_extra_rank(r)
    <3>1. ~is_extra_rank(r) /\ ~is_odd_non_extra_rank(r)
      BY <2>1, Kinds
    <3> QED
      BY <2>1, <3>1 DEF Start
  <2>2. CASE is_extra_rank(r)
    <3>1. ~is_even_non_extra_rank(r) /\ ~is_odd_non_extra_rank(r)
      BY <2>2, Kinds
    <3>2. initTransfer(<<r, 0>>)
      BY <2>2, <3>1 DEF Start
    <3> QED
      BY <3>1, <3>2 DEF initTransfer, Odd
  <2>3. CASE is_odd_non_extra_rank(r)
    <3>1. ~is_even_non_extra_rank(r) /\ ~is_extra_rank(r)
      BY <2>3, Kinds
    <3>2. initTransfer(<<r, NonPowerTwo>>)
      BY <2>3, <3>1 DEF Start
    <3> QED
      BY <2>3, <3>1, <3>2 DEF initTransfer, Odd
  <2> QED
    BY <2>1, <2>2, <2>3, Kinds
<1>3. /\ round \in [Ranks -> 0 .. Rounds] /\ state \in [Ranks -> States] /\ Rounds \in Nat
      /\ iteration \in [Ranks -> 0 .. number_iterations] /\ alg_stage \in [Ranks -> Stages]
      /\ writing \in [Channels -> Nat]
      /\ number_iterations \in Nat /\ number_iterations > 0 /\ End \in Nat /\ End >= 4
  BY MarkFacts DEF Parameters, TypeInv, TypeOK, EndpointTypeOK, Stages
<1>4. ~is_even_non_extra_rank(r) => o \in Channels /\ o[1] = r /\ Sending(o) = 1
  <2>1. CASE Odd(r)
    <3>1. ~is_extra_rank(r) /\ NonPowerTwo \in 0 .. number_iterations
      BY <1>3, <2>1, Kinds DEF Odd, NonPowerTwo
    <3>2. o \in Channels /\ o[1] = r
      BY <2>1, <3>1, OwnChannels
    <3> QED
      BY <2>1, <3>2 DEF Sending
  <2>2. CASE ~Odd(r)
    <3>1. 0 \in 0 .. number_iterations /\ NonPowerTwo # 0
      BY <1>3 DEF NonPowerTwo
    <3>2. o \in Channels /\ o[1] = r /\ o[2] = 0
      BY <2>2, <3>1, OwnChannels
    <3> QED
      BY <2>2, <3>2 DEF Sending
  <2> QED
    BY <2>1, <2>2
<1> HIDE DEF o, End
<1>5. TypeInv'
  <2>1. state' \in [Ranks -> States]
    BY <1>1, <1>3 DEF States
  <2>2. iteration' \in [Ranks -> 0 .. number_iterations]
    BY <1>1, <1>3
  <2>3. alg_stage' \in [Ranks -> Stages]
    BY <1>1, <1>3 DEF Stages
  <2>4. \A q \in Ranks : state'[q] # "INITIALIZED" => round'[q] > 0
    BY <1>1, <1>3 DEF TypeInv
  <2>5. writing' \in [Channels -> Nat]
    BY <1>2, <1>3, <1>4
  <2>6. EndpointTypeOK(Channels)'
    BY <1>1, <2>5 DEF TypeInv, TypeOK, EndpointTypeOK
  <2> QED
    BY <1>1, <2>1, <2>2, <2>3, <2>4, <2>6 DEF TypeInv, TypeOK, Stages
<1>6. Others(r)
  BY <1>1, <1>3 DEF Others
<1>7. /\ state'[r] = "RUNNING" /\ iteration'[r] = 0 /\ alg_stage'[r] = stage
      /\ round'[r] = round[r] /\ round[r] \in Nat
  BY <1>1, <1>3
<1>8. Position(r) = 0 /\ Position(r)' = x
  <2>1. is_even_non_extra_rank(r) <=> ~is_extra_rank(r) /\ ~Odd(r)
    BY Kinds DEF Odd
  <2>2. Odd(r) => ~is_extra_rank(r)
    BY Kinds DEF Odd
  <2> QED
    BY <1>1, <1>7, <2>1, <2>2 DEF Position
<1>9. Moves(r, x)
  <2> SUFFICES ASSUME NEW y \in Marks(r)
               PROVE  Done(r, y)' = IF y = x THEN Done(r, y) + 1 ELSE Done(r, y)
    BY DEF Moves
  <2>1. y \in 1 .. End
    BY MarkFacts
  <2> QED
    BY <1>3, <1>7, <1>8, <2>1 DEF Done
<1>10. Posts(r, x)
  <2> SUFFICES ASSUME NEW c \in Channels
               PROVE  /\ writing'[c] = IF c[1] = r /\ Sending(c) = x THEN writing[c] + 1
                                       ELSE writing[c]
                      /\ ~(To(c) = r /\ Taking(c) = x)
                      /\ ~(c[1] = r /\ ~Odd(r) /\ Confirming(c) = x)
    BY <1>1 DEF Posts
  <2>1. /\ c[2] \in 0 .. number_iterations
        /\ Sending(c) \in 1 .. End /\ Taking(c) \in 1 .. End /\ Confirming(c) \in 1 .. End
    BY Roles, Times
  <2>2. CASE is_even_non_extra_rank(r)
    BY <1>2, <1>3, <2>1, <2>2
  <2>3. CASE ~is_even_non_extra_rank(r)
    <3>1. c = o <=> c[1] = r /\ Sending(c) = 1
      BY <1>4, <2>3, Alone
    <3>2. writing'[c] = IF c = o THEN writing[c] + 1 ELSE writing[c]
      BY <1>2, <1>3, <2>3
    <3>3. Taking(c) = 1 => Odd(c[1])
      BY <1>3, <2>1, Roles
    <3>4. Odd(c[1]) => ~Odd(To(c)) /\ ~is_extra_rank(To(c))
      BY Roles
    <3>5. is_extra_rank(r) \/ Odd(r)
      BY <2>3, Kinds DEF Odd
    <3>6. ~Odd(c[1]) => Confirming(c) # 1
      BY <1>3, <2>1, Roles
    <3> QED
      BY <2>3, <3>1, <3>2, <3>3, <3>4, <3>5, <3>6
  <2> QED
    BY <2>2, <2>3
<1>11. ASSUME separated
       PROVE  /\ mem'[Vector(r)] = Reduced(Held(r)', round'[r])
              /\ \A l \in Locations : l # Vector(r) => mem'[l] = mem[l]
              /\ LockStep' /\ ResultsCorrect'
  <2>1. LockStep /\ ResultsCorrect /\ MemoryInv
    BY <1>11 DEF RunInv, DataInv
  <2>2. Held(r) = {r} /\ Held(r)' = {r}
    <3>1. ~Odd(r) /\ x # 0 => is_extra_rank(r)
      BY Kinds DEF Odd
    <3>2. is_extra_rank(r) => Group(r, 0) = {r}
      BY Groups
    <3>3. x # End
      BY <1>3
    <3> QED
      BY <1>7, <1>8, <3>1, <3>2, <3>3 DEF Held
  <2>3. mem[Vector(r)] = Reduced({r}, round[r])
    BY <2>1, <2>2 DEF MemoryInv
  <2>4. LockStep'
    BY <1>1, <1>3, <2>1, LockStepKept
  <2>5. ResultsCorrect'
    <3>1. \A q \in Ranks : HasResult(q)' =>
            HasResult(q) /\ output'[q] = output[q] /\ round'[q] = round[q]
      BY <1>1, <1>3 DEF HasResult
    <3> QED
      BY <1>1, <2>1, <3>1, ResultsKept
  <2> QED
    BY <1>1, <2>2, <2>3, <2>4, <2>5
<1>12. StageInv(r)'
  <2>1. Odd(r) => ~is_extra_rank(r)
    BY Kinds DEF Odd
  <2> QED
    BY <1>3, <1>7, <2>1 DEF StageInv
<1> HIDE DEF x
<1>13. RunInv'
  BY <1>1, <1>6, <1>9, <1>10, <1>11, <1>12, RankStep
<1> QED
  BY <1>5, <1>13

(* What a step that brings a rank to its next position does to the marks.  *)
LEMMA Advance ==
  ASSUME Parameters, NEW r \in Ranks, NEW x \in 1 .. End,
         round'[r] = round[r], round[r] \in Nat, Position(r)' = x,
         Position(r) = x - 1 \/ (Odd(r) /\ Position(r) = 1 /\ x = End)
  PROVE  Moves(r, x)
<1> SUFFICES ASSUME NEW y \in Marks(r)
             PROVE  Done(r, y)' = IF y = x THEN Done(r, y) + 1 ELSE Done(r, y)
  BY DEF Moves
<1>1. y \in 1 .. End /\ End \in Nat /\ End >= 4 /\ (Odd(r) => Marks(r) = {1, End})
  BY MarkFacts
<1> HIDE DEF End
<1>2. Odd(r) => y = 1 \/ y = End
  BY <1>1
<1>3. /\ Done(r, y) = IF y <= Position(r) THEN round[r] ELSE round[r] - 1
      /\ Done(r, y)' = IF y <= x THEN round[r] ELSE round[r] - 1
  BY DEF Done
<1> QED
  BY <1>1, <1>2, <1>3

(* What the steps of a RUNNING rank in triggerProgressImpl have in common. *)
LEMMA RunningStep ==
  ASSUME Parameters, TypeInv, NEW r \in Ranks, progress(r),
         NEW i \in 0 .. number_iterations, NEW s \in Stages,
         number_elements' = number_elements,
         iteration' = [iteration EXCEPT ![r] = i],
         alg_stage' = [alg_stage EXCEPT ![r] = s],
         EndpointTypeOK(Channels)', DOMAIN mem' = Locations
  PROVE  /\ TypeInv' /\ Others(r) /\ separated' = separated
         /\ state[r] = "RUNNING" /\ state'[r] = "RUNNING"
         /\ round'[r] = round[r] /\ round[r] \in Nat /\ round[r] > 0
         /\ iteration[r] \in Nat /\ iteration'[r] = i /\ alg_stage'[r] = s
         /\ LockStep => LockStep'
         /\ ResultsCorrect => ResultsCorrect'
<1>1. state[r] = "RUNNING" /\ UNCHANGED <<separated, state, round, output>>
  BY DEF progress
<1>2. /\ round \in [Ranks -> 0 .. Rounds] /\ state \in [Ranks -> States] /\ Rounds \in Nat
      /\ iteration \in [Ranks -> 0 .. number_iterations] /\ alg_stage \in [Ranks -> Stages]
      /\ number_iterations \in Nat
  BY MarkFacts DEF Parameters, TypeInv, TypeOK, EndpointTypeOK, Stages
<1> HIDE DEF number_iterations
<1>3. /\ iteration' \in [Ranks -> 0 .. number_iterations] /\ alg_stage' \in [Ranks -> Stages]
      /\ iteration'[r] = i /\ alg_stage'[r] = s
  BY <1>2
<1>4. TypeInv'
  BY <1>1, <1>2, <1>3 DEF TypeInv, TypeOK, Stages, number_iterations
<1>5. Others(r)
  BY <1>1, <1>2 DEF Others
<1>6. round[r] \in Nat /\ round[r] > 0 /\ iteration[r] \in Nat
  BY <1>1, <1>2 DEF TypeInv
<1>7. LockStep => LockStep'
  BY <1>1, LockStepKept
<1>8. ResultsCorrect => ResultsCorrect'
  <2>1. \A q \in Ranks : HasResult(q)' =>
          HasResult(q) /\ output'[q] = output[q] /\ round'[q] = round[q]
    BY <1>1 DEF HasResult
  <2> QED
    BY <1>1, <2>1, ResultsKept
<1> QED
  BY <1>1, <1>3, <1>4, <1>5, <1>6, <1>7, <1>8

(* What a rank has taken of this execution is all that has landed.         *)
LEMMA Arrived ==
  ASSUME Parameters, TypeInv, ChannelInv, LockStep, NEW c \in Channels,
         state[To(c)] # "INITIALIZED", Taking(c) <= Position(To(c))
  PROVE  Landed(c) = round[To(c)]
<1>1. c[1] \in Ranks /\ To(c) \in Ranks
  BY ChannelFacts
<1>2. Sending(c) \in 1 .. End /\ Taking(c) \in 1 .. End
  BY Times
<1>3. /\ round[c[1]] \in Nat /\ round[To(c)] \in Nat
      /\ Done(c[1], Sending(c)) \in Nat /\ Done(c[1], Sending(c)) <= round[c[1]]
  BY <1>1, <1>2, Counts
<1>4. Done(To(c), Taking(c)) = round[To(c)]
  BY DEF Done
<1>5. writing[c] \in Nat /\ arrived[c] \in Nat
  BY EndpointTypes
<1>6. round[To(c)] >= round[c[1]]
  BY <1>1 DEF LockStep
<1>7. writing[c] + arrived[c] = Done(c[1], Sending(c)) - Done(To(c), Taking(c))
  BY DEF ChannelInv, Accounted
<1> QED
  BY <1>3, <1>4, <1>5, <1>6, <1>7 DEF Landed

(* An odd rank counts the iterations.                                      *)
LEMMA SkipIterationStep ==
  ASSUME Parameters, TypeInv, RunInv, number_elements # 0, NEW r \in Ranks, SkipIteration(r)
  PROVE  TypeInv' /\ RunInv'
<1> DEFINE i == iteration[r] + 1
           s == IF is_last_iteration(r) THEN "FINAL_STEP" ELSE "INITIAL_STEP"
<1>1. /\ progress(r) /\ Odd(r) /\ alg_stage[r] = "INITIAL_STEP"
      /\ iteration' = [iteration EXCEPT ![r] = i]
      /\ alg_stage' = [alg_stage EXCEPT ![r] = s]
      /\ UNCHANGED <<number_elements, mem>> /\ UNCHANGED endpointVars
  BY DEF SkipIteration, Odd
<1>2. /\ number_iterations \in Nat /\ iteration[r] \in Nat /\ DOMAIN mem = Locations
      /\ iteration[r] < number_iterations
      /\ is_last_iteration(r) <=> i = number_iterations
  <2>1. /\ number_iterations \in Nat /\ iteration[r] \in 0 .. number_iterations
        /\ DOMAIN mem = Locations
    BY MarkFacts DEF TypeInv, TypeOK
  <2>2. iteration[r] < number_iterations
    BY <1>1 DEF RunInv, StageInv, progress
  <2> HIDE DEF number_iterations
  <2> QED
    BY <2>1, <2>2 DEF is_last_iteration
<1>3. EndpointTypeOK(Channels)'
  BY <1>1 DEF TypeInv, TypeOK, EndpointTypeOK, endpointVars
<1> HIDE DEF number_iterations
<1>4. i \in 0 .. number_iterations /\ s \in Stages
  BY <1>2 DEF Stages
<1> HIDE DEF i, s
<1>5. /\ TypeInv' /\ Others(r) /\ separated' = separated
      /\ state[r] = "RUNNING" /\ state'[r] = "RUNNING"
      /\ round'[r] = round[r] /\ iteration'[r] = i /\ alg_stage'[r] = s
      /\ LockStep => LockStep'
      /\ ResultsCorrect => ResultsCorrect'
  BY <1>1, <1>2, <1>3, <1>4, RunningStep
<1>6. Position(r) = 1 /\ Position(r)' = 1
  BY <1>1, <1>5 DEF Position
<1>7. Moves(r, 0)
  <2> SUFFICES ASSUME NEW y \in Marks(r) PROVE y # 0 /\ Done(r, y)' = Done(r, y)
    BY DEF Moves
  <2>1. y \in 1 .. End /\ End \in Nat
    BY MarkFacts
  <2> QED
    BY <1>5, <1>6, <2>1 DEF Done
<1>8. Posts(r, 0)
  BY <1>1, NothingPosted
<1>9. ASSUME separated
      PROVE  /\ mem'[Vector(r)] = Reduced(Held(r)', round'[r])
             /\ \A l \in Locations : l # Vector(r) => mem'[l] = mem[l]
             /\ LockStep' /\ ResultsCorrect'
  <2>1. Held(r) = {r} /\ Held(r)' = {r}
    BY <1>1 DEF Held
  <2>2. mem[Vector(r)] = Reduced({r}, round[r])
    BY <1>9, <2>1 DEF RunInv, DataInv, MemoryInv
  <2> QED
    BY <1>1, <1>5, <1>9, <2>1, <2>2 DEF RunInv, DataInv
<1>10. StageInv(r)'
  <2>1. ~is_extra_rank(r)
    BY <1>1, Kinds DEF Odd
  <2> QED
    BY <1>1, <1>2, <1>5, <2>1 DEF StageInv, i, s
<1>11. RunInv'
  BY <1>5, <1>7, <1>8, <1>9, <1>10, RankStep
<1> QED
  BY <1>5, <1>11

(* copyOut hands out the reduction of all ranks' data.                     *)
LEMMA CopyOutStep ==
  ASSUME Parameters, TypeInv, RunInv, number_elements # 0, NEW r \in Ranks, CopyOut(r)
  PROVE  TypeInv' /\ RunInv'
<1> DEFINE result == mem[IF is_active_rank(r) THEN Vector(r) ELSE <<r, NonPowerTwo>>]
<1>1. /\ state[r] = "FINISHED" /\ state' = [state EXCEPT ![r] = "INITIALIZED"]
      /\ output' = [output EXCEPT ![r] = result]
      /\ UNCHANGED <<separated, round, mem, number_elements, iteration, alg_stage>>
      /\ UNCHANGED endpointVars
  BY DEF CopyOut, copyOut, allreduceVars
<1>2. /\ round \in [Ranks -> 0 .. Rounds] /\ state \in [Ranks -> States] /\ Rounds \in Nat
      /\ DOMAIN mem = Locations /\ DOMAIN output = Ranks
      /\ \A q \in Ranks : state[q] # "INITIALIZED" => round[q] > 0
  BY DEF Parameters, TypeInv, TypeOK
<1>3. /\ state' \in [Ranks -> States] /\ state'[r] = "INITIALIZED" /\ round[r] \in Nat
      /\ round[r] > 0 /\ output'[r] = result
      /\ \A q \in Ranks : q # r => state'[q] = state[q] /\ output'[q] = output[q]
  BY <1>1, <1>2 DEF States
<1> HIDE DEF result
<1>4. TypeInv'
  <2>1. EndpointTypeOK(Channels)'
    BY <1>1 DEF TypeInv, TypeOK, EndpointTypeOK, endpointVars
  <2>2. DOMAIN output' = Ranks /\ \A q \in Ranks : state'[q] # "INITIALIZED" => round'[q] > 0
    BY <1>1, <1>2, <1>3
  <2> QED
    BY <1>1, <1>2, <1>3, <2>1, <2>2 DEF TypeInv, TypeOK
<1>5. Others(r)
  BY <1>1, <1>3 DEF Others
<1>6. Position(r) = End /\ Position(r)' = End
  BY <1>1, <1>3 DEF Position
<1>7. Moves(r, 0)
  <2> SUFFICES ASSUME NEW y \in Marks(r) PROVE y # 0 /\ Done(r, y)' = Done(r, y)
    BY DEF Moves
  <2>1. y \in 1 .. End /\ End \in Nat
    BY MarkFacts
  <2> QED
    BY <1>1, <1>6, <2>1 DEF Done
<1>8. Posts(r, 0)
  BY <1>1, NothingPosted
<1>9. ASSUME separated
      PROVE  /\ mem'[Vector(r)] = Reduced(Held(r)', round'[r])
             /\ \A l \in Locations : l # Vector(r) => mem'[l] = mem[l]
             /\ LockStep' /\ ResultsCorrect'
  <2>1. ChannelInv /\ MemoryInv /\ LockStep /\ ResultsCorrect
    BY <1>9 DEF RunInv, DataInv
  <2>2. Held(r)' = Held(r)
    BY <1>6 DEF Held, End
  <2>3. mem[Vector(r)] = Reduced(Held(r), round[r])
    BY <2>1 DEF MemoryInv
  <2>4. LockStep'
    BY <1>1, <1>3, <2>1, LockStepKept
  <2>5. result = Reduced(Ranks, round[r])
    <3>1. CASE is_active_rank(r)
      <4>1. ~Odd(r)
        BY <3>1, Kinds DEF Odd
      <4>2. End # 0
        BY MarkFacts
      <4>3. Held(r) = Ranks
        BY <1>6, <4>1, <4>2 DEF Held
      <4> QED
        BY <2>3, <3>1, <4>3 DEF result
    <3>2. CASE ~is_active_rank(r)
      <4> DEFINE d == Into(r, number_iterations)
      <4>1. Odd(r) /\ ~is_extra_rank(r)
        BY <3>2, Kinds DEF Odd
      <4>2. number_iterations \in 0 .. number_iterations
        BY MarkFacts
      <4>3. /\ d \in Channels /\ d[2] = number_iterations /\ To(d) = r
            /\ TargetMemory(d) = <<r, number_iterations>>
        BY <4>1, <4>2, OwnChannels DEF NonPowerTwo
      <4> HIDE DEF d
      <4>4. d[1] \in Ranks /\ ~Odd(d[1]) /\ Taking(d) \in 1 .. End
        BY <4>1, <4>3, Roles, Times
      <4>5. Content(d) = Ranks
        BY <4>3, <4>4, Groups DEF Content
      <4>6. Landed(d) = round[r]
        <5>1. Taking(d) <= Position(To(d)) /\ state[To(d)] # "INITIALIZED"
          BY <1>1, <1>6, <4>3, <4>4
        <5> QED
          BY <2>1, <4>3, <5>1, Arrived
      <4>7. mem[TargetMemory(d)] = Reduced(Content(d), Landed(d))
        BY <2>1, <4>3 DEF MemoryInv
      <4> QED
        BY <3>2, <4>3, <4>5, <4>6, <4>7 DEF result, NonPowerTwo
    <3> QED
      BY <3>1, <3>2
  <2>6. ResultsCorrect'
    <3>1. result = SetToBag({<<q, round[r]>> : q \in Ranks})
      BY <1>3, <2>5 DEF Reduced
    <3>2. \A q \in Ranks : output[q] = SetToBag({<<p, round[q]>> : p \in Ranks}) \/ ~HasResult(q)
                           \/ ~(number_elements > 0)
      BY <1>9, <2>1 DEF ResultsCorrect
    <3>3. \A q \in Ranks : HasResult(q)' /\ (number_elements > 0) =>
                           output'[q] = SetToBag({<<p, round'[q]>> : p \in Ranks})
      <4> SUFFICES ASSUME NEW q \in Ranks, HasResult(q)', number_elements > 0
                   PROVE  output'[q] = SetToBag({<<p, round'[q]>> : p \in Ranks})
        OBVIOUS
      <4>1. CASE q = r
        BY <1>1, <1>3, <3>1, <4>1
      <4>2. CASE q # r
        <5>1. HasResult(q) /\ output'[q] = output[q]
          BY <1>1, <1>3, <4>2 DEF HasResult
        <5> QED
          BY <1>1, <3>2, <5>1
      <4> QED
        BY <4>1, <4>2
    <3> QED
      BY <1>1, <3>3 DEF ResultsCorrect
  <2> QED
    BY <1>1, <2>2, <2>3, <2>4, <2>6
<1>10. RunInv'
  BY <1>1, <1>3, <1>5, <1>7, <1>8, <1>9, RankStep
<1> QED
  BY <1>4, <1>10

(* The positions in the executions of a rank that is RUNNING.              *)
LEMMA Where ==
  ASSUME Parameters, TypeInv, RunInv, NEW r \in Ranks, state[r] = "RUNNING"
  PROVE  /\ iteration[r] \in 0 .. number_iterations /\ StageInv(r)
         /\ alg_stage[r] = "WAIT_FOR_DATA" => /\ Position(r) = 2 * iteration[r] + 1
                                              /\ iteration[r] < number_iterations /\ ~Odd(r)
         /\ alg_stage[r] = "WAIT_FOR_ACK"  => /\ Position(r) = 2 * iteration[r] + 2
                                              /\ iteration[r] < number_iterations /\ ~Odd(r)
         /\ alg_stage[r] = "FINAL_STEP"    =>
              Position(r) = IF Odd(r) THEN 1 ELSE 2 * number_iterations + 1
         /\ alg_stage[r] = "INITIAL_STEP"  => Position(r) = IF Odd(r) THEN 1 ELSE 0
<1>1. StageInv(r)
  BY DEF RunInv
<1>2. iteration[r] \in 0 .. number_iterations /\ number_iterations \in Nat
  BY MarkFacts DEF TypeInv, TypeOK
<1> HIDE DEF number_iterations
<1> QED
  BY <1>1, <1>2 DEF StageInv, Position

(* The even rank takes its odd neighbour's data and begins the exchange.   *)
LEMMA InitialStepStep ==
  ASSUME Parameters, TypeInv, RunInv, number_elements # 0, NEW r \in Ranks, InitialStep(r)
  PROVE  TypeInv' /\ RunInv'
<1> DEFINE m == number_iterations
           c == <<r, 0>>
           d == Into(r, m)
           old == mem[Vector(r)]
           data == mem[<<r, m>>]
<1>1. /\ progress(r) /\ is_even_non_extra_rank(r) /\ alg_stage[r] = "INITIAL_STEP"
      /\ arrived[d] # 0 /\ arrived' = [arrived EXCEPT ![d] = 0]
      /\ mem' = [mem EXCEPT ![Vector(r)] = old (+) data]
      /\ writing' = [writing EXCEPT ![<<r, iteration[r]>>] = writing[<<r, iteration[r]>>] + 1]
      /\ alg_stage' = [alg_stage EXCEPT ![r] = "WAIT_FOR_DATA"]
      /\ UNCHANGED <<number_elements, iteration, acking, acked>>
  BY DEF InitialStep, targetCompletes, initTransfer, ApplyReduce, NonPowerTwo
<1>2. ~Odd(r) /\ ~is_extra_rank(r) /\ state[r] = "RUNNING"
  BY <1>1, Kinds DEF Odd, progress
<1>3. m \in Nat /\ m > 0 /\ NonPowerTwo = m /\ End = 2 * m + 2
  BY MarkFacts DEF NonPowerTwo
<1>4. Position(r) = 0 /\ iteration[r] = 0
  <2>1. Position(r) = 0
    BY <1>1, <1>2, Where
  <2>2. StageInv(r)
    BY <1>2, Where
  <2> QED
    BY <1>1, <1>2, <2>1, <2>2 DEF StageInv
<1>5. c \in Channels /\ c[1] = r /\ c[2] = 0 /\ Sending(c) = 1
  <2>1. c \in Channels /\ c[1] = r /\ c[2] = 0
    BY <1>2, <1>3, OwnChannels
  <2> QED
    BY <1>2, <2>1 DEF Sending
<1>6. /\ d \in Channels /\ d[2] = m /\ To(d) = r /\ TargetMemory(d) = <<r, m>>
      /\ d[1] = FlipBit(r, 1)
  <2>1. m \in 0 .. m /\ (m = NonPowerTwo)
    BY <1>3
  <2>2. /\ d \in Channels /\ d[2] = m /\ To(d) = r /\ TargetMemory(d) = <<r, m>>
        /\ d[1] = To(<<r, m>>)
    BY <1>2, <2>1, OwnChannels
  <2> QED
    BY <2>1, <2>2 DEF To, Partner
<1>7. Odd(d[1]) /\ Taking(d) = 1
  <2>1. d[1] \in Ranks /\ (Odd(r) <=> m = m /\ ~Odd(d[1]))
    BY <1>3, <1>6, Roles
  <2> QED
    BY <1>2, <2>1 DEF Taking
<1>8. /\ iteration \in [Ranks -> 0 .. m] /\ writing \in [Channels -> Nat]
      /\ arrived \in [Channels -> 0 .. 1] /\ DOMAIN mem = Locations
  BY DEF TypeInv, TypeOK, EndpointTypeOK
<1>9. /\ writing' = [writing EXCEPT ![c] = writing[c] + 1]
      /\ iteration' = [iteration EXCEPT ![r] = 0]
  BY <1>1, <1>4, <1>8
<1>10. "WAIT_FOR_DATA" \in Stages /\ 0 \in 0 .. m
  BY <1>3 DEF Stages
<1> HIDE DEF c, d, m, End, number_iterations, old, data
<1>11. EndpointTypeOK(Channels)'
  <2>1. writing' \in [Channels -> Nat]
    BY <1>5, <1>8, <1>9
  <2>2. arrived' \in [Channels -> 0 .. 1]
    BY <1>1, <1>6, <1>8
  <2> QED
    BY <1>1, <2>1, <2>2 DEF TypeInv, TypeOK, EndpointTypeOK
<1>12. /\ TypeInv' /\ Others(r) /\ separated' = separated
       /\ state[r] = "RUNNING" /\ state'[r] = "RUNNING"
       /\ round'[r] = round[r] /\ round[r] \in Nat /\ round[r] > 0
       /\ iteration'[r] = 0 /\ alg_stage'[r] = "WAIT_FOR_DATA"
       /\ LockStep => LockStep'
       /\ ResultsCorrect => ResultsCorrect'
  <2>1. DOMAIN mem' = Locations
    BY <1>1, <1>8
  <2> QED
    BY <1>1, <1>9, <1>11, <1>10, <2>1, RunningStep DEF m
<1>13. Position(r)' = 1
  BY <1>2, <1>12 DEF Position
<1>14. Moves(r, 1)
  <2>1. 1 \in 1 .. End
    BY <1>3
  <2> QED
    BY <1>4, <1>12, <1>13, <2>1, Advance
<1>15. Posts(r, 1)
  <2> SUFFICES ASSUME NEW e \in Channels
               PROVE  /\ writing'[e] = IF e[1] = r /\ Sending(e) = 1 THEN writing[e] + 1
                                       ELSE writing[e]
                      /\ arrived'[e] = IF To(e) = r /\ Taking(e) = 1 THEN arrived[e] - 1
                                       ELSE arrived[e]
                      /\ ~(To(e) = r /\ Taking(e) = 1 /\ ~Odd(e[1]))
                      /\ ~(e[1] = r /\ ~Odd(r) /\ Confirming(e) = 1)
    BY <1>1 DEF Posts
  <2>1. e = c <=> e[1] = r /\ Sending(e) = 1
    BY <1>5, Alone
  <2>2. e = d <=> To(e) = r /\ Taking(e) = 1
    BY <1>6, <1>7, Alone
  <2>3. ~Odd(e[1]) => Taking(e) # 1 /\ Confirming(e) # 1
    <3>1. /\ e[2] \in 0 .. m
          /\ ~Odd(e[1]) => /\ Taking(e) = 2 * e[2] + 2
                           /\ Confirming(e) = IF e[2] = m THEN End ELSE 2 * e[2] + 3
      BY Roles DEF m
    <3> QED
      BY <1>3, <3>1
  <2>4. arrived[d] = 1
    BY <1>1, <1>6, <1>8
  <2> QED
    BY <1>1, <1>8, <1>9, <2>1, <2>2, <2>3, <2>4
<1>16. ASSUME separated
       PROVE  /\ mem'[Vector(r)] = Reduced(Held(r)', round'[r])
              /\ \A l \in Locations : l # Vector(r) => mem'[l] = mem[l]
              /\ LockStep' /\ ResultsCorrect'
  <2>1. ChannelInv /\ MemoryInv /\ LockStep /\ ResultsCorrect
    BY <1>16 DEF RunInv, DataInv
  <2>2. Landed(d) = round[r]
    <3>1. arrived[d] = 1 /\ writing[d] \in Nat
      BY <1>1, <1>6, <1>8
    <3>2. /\ writing[d] + arrived[d] <= 1
          /\ writing[d] + arrived[d] > 0 =>
               /\ Done(d[1], Sending(d)) = round[d[1]]
               /\ Done(To(d), Taking(d)) = round[d[1]] - 1
      BY <1>6, <2>1, Bounded
    <3>3. Done(r, 1) = round[r] - 1
      BY <1>4 DEF Done
    <3>4. round[d[1]] \in Nat
      <4>1. d[1] \in Ranks
        BY <1>6, Roles
      <4> QED
        BY <4>1, Counts
    <3> QED
      BY <1>6, <1>7, <1>12, <3>1, <3>2, <3>3, <3>4 DEF Landed
  <2>3. old = Reduced({r}, round[r]) /\ data = Reduced({FlipBit(r, 1)}, round[r])
    <3>1. Held(r) = {r}
      BY <1>4 DEF Held
    <3>2. Content(d) = {FlipBit(r, 1)}
      BY <1>6, <1>7 DEF Content
    <3>3. mem[TargetMemory(d)] = Reduced(Content(d), Landed(d))
      BY <1>6, <2>1 DEF MemoryInv
    <3> QED
      BY <1>6, <2>1, <2>2, <3>1, <3>2, <3>3 DEF MemoryInv, old, data
  <2>4. Held(r)' = {r} \cup {FlipBit(r, 1)}
    <3>1. Held(r)' = Group(r, 0)
      BY <1>2, <1>3, <1>12, <1>13 DEF Held
    <3> QED
      BY <1>2, <3>1, Groups
  <2>5. mem'[Vector(r)] = Reduced(Held(r)', round'[r])
    <3>1. FlipBit(r, 1) # r
      BY <1>2, Pairs
    <3>2. old (+) data = Reduced({r} \cup {FlipBit(r, 1)}, round[r])
      BY <1>12, <2>3, <3>1, ReducedUnion
    <3>3. mem'[Vector(r)] = old (+) data
      BY <1>1, <1>8, LocationFacts
    <3> QED
      BY <1>12, <2>4, <3>2, <3>3
  <2>6. \A l \in Locations : l # Vector(r) => mem'[l] = mem[l]
    BY <1>1, <1>8
  <2> QED
    BY <1>12, <2>1, <2>5, <2>6
<1>17. StageInv(r)'
  BY <1>2, <1>3, <1>12 DEF StageInv, m
<1>18. RunInv'
  BY <1>12, <1>14, <1>15, <1>16, <1>17, RankStep
<1> QED
  BY <1>12, <1>18

(* An active rank takes what its partner has sent and acknowledges it.     *)
LEMMA AwaitDataStep ==
  ASSUME Parameters, TypeInv, RunInv, number_elements # 0, NEW r \in Ranks, AwaitData(r)
  PROVE  TypeInv' /\ RunInv'
<1> DEFINE m == number_iterations
           k == iteration[r]
           d == Into(r, k)
           x == 2 * k + 2
<1>1. /\ progress(r) /\ alg_stage[r] = "WAIT_FOR_DATA"
      /\ arrived[d] # 0 /\ arrived' = [arrived EXCEPT ![d] = 0]
      /\ acking' = [acking EXCEPT ![d] = acking[d] + 1]
      /\ alg_stage' = [alg_stage EXCEPT ![r] = "WAIT_FOR_ACK"]
      /\ UNCHANGED <<number_elements, iteration, mem, writing, acked>>
  BY DEF AwaitData, targetCompletes, ackTransfer
<1>2. state[r] = "RUNNING"
  BY <1>1 DEF progress
<1>3. /\ m \in Nat /\ m > 0 /\ NonPowerTwo = m /\ End = 2 * m + 2
      /\ k \in 0 .. m /\ k < m /\ Position(r) = 2 * k + 1 /\ ~Odd(r)
  BY <1>1, <1>2, MarkFacts, Where DEF NonPowerTwo
<1>4. d \in Channels /\ d[2] = k /\ To(d) = r
  <2>1. k \in 0 .. number_iterations /\ k # NonPowerTwo /\ ~Odd(r)
    BY <1>3
  <2> HIDE DEF k
  <2> QED
    BY <2>1, OwnChannels
<1>5. ~Odd(d[1]) /\ Taking(d) = x
  <2>1. ~Odd(d[1])
    BY <1>3, <1>4, Roles
  <2> QED
    BY <1>4, <2>1 DEF Taking
<1>6. /\ iteration \in [Ranks -> 0 .. m] /\ acking \in [Channels -> Nat]
      /\ arrived \in [Channels -> 0 .. 1] /\ DOMAIN mem = Locations
  BY DEF TypeInv, TypeOK, EndpointTypeOK
<1>7. iteration' = [iteration EXCEPT ![r] = k]
  BY <1>1, <1>6
<1>8. EndpointTypeOK(Channels)'
  <2>1. acking' \in [Channels -> Nat] /\ arrived' \in [Channels -> 0 .. 1]
    BY <1>1, <1>4, <1>6
  <2> QED
    BY <1>1, <2>1 DEF TypeInv, TypeOK, EndpointTypeOK
<1>9. "WAIT_FOR_ACK" \in Stages
  BY DEF Stages
<1> HIDE DEF d, k, m, x, End, number_iterations
<1>10. /\ TypeInv' /\ Others(r) /\ separated' = separated
       /\ state[r] = "RUNNING" /\ state'[r] = "RUNNING"
       /\ round'[r] = round[r] /\ round[r] \in Nat /\ round[r] > 0
       /\ iteration'[r] = k /\ alg_stage'[r] = "WAIT_FOR_ACK"
       /\ LockStep => LockStep'
       /\ ResultsCorrect => ResultsCorrect'
  <2>1. DOMAIN mem' = Locations /\ k \in 0 .. number_iterations /\ progress(r)
    BY <1>1, <1>3, <1>6 DEF m
  <2>2. /\ alg_stage' = [alg_stage EXCEPT ![r] = "WAIT_FOR_ACK"]
        /\ number_elements' = number_elements
    BY <1>1
  <2> QED
    BY <1>7, <1>8, <1>9, <2>1, <2>2, RunningStep
<1>11. Position(r)' = x /\ x \in 1 .. End
  BY <1>3, <1>10 DEF Position, x
<1>12. Moves(r, x)
  <2>1. Position(r) = x - 1
    BY <1>3 DEF x
  <2> QED
    BY <1>10, <1>11, <2>1, Advance
<1>13. Posts(r, x)
  <2> SUFFICES ASSUME NEW e \in Channels
               PROVE  LET take == To(e) = r /\ Taking(e) = x
                      IN  /\ ~(e[1] = r /\ Sending(e) = x)
                          /\ arrived'[e] = IF take THEN arrived[e] - 1 ELSE arrived[e]
                          /\ acking'[e] = IF take /\ ~Odd(e[1]) THEN acking[e] + 1
                                          ELSE acking[e]
                          /\ ~(e[1] = r /\ ~Odd(r) /\ Confirming(e) = x)
    BY <1>1 DEF Posts
  <2>1. e = d <=> To(e) = r /\ Taking(e) = x
    BY <1>4, <1>5, Alone
  <2>2. ~(e[1] = r /\ (Sending(e) = x \/ Confirming(e) = x))
    <3>1. /\ e[2] \in 0 .. m
          /\ ~Odd(e[1]) => /\ Sending(e) = 2 * e[2] + 1
                           /\ Confirming(e) = IF e[2] = m THEN End ELSE 2 * e[2] + 3
      BY Roles DEF m
    <3> QED
      BY <1>3, <3>1 DEF x
  <2>3. arrived[d] = 1
    BY <1>1, <1>4, <1>6
  <2> QED
    BY <1>1, <1>5, <1>6, <2>1, <2>2, <2>3
<1>14. ASSUME separated
       PROVE  /\ mem'[Vector(r)] = Reduced(Held(r)', round'[r])
              /\ \A l \in Locations : l # Vector(r) => mem'[l] = mem[l]
              /\ LockStep' /\ ResultsCorrect'
  <2>1. MemoryInv /\ LockStep /\ ResultsCorrect
    BY <1>14 DEF RunInv, DataInv
  <2>2. Held(r)' = Held(r)
    <3>1. Position(r) # 0 /\ Position(r) # End /\ x # 0 /\ x # End
      BY <1>3 DEF x
    <3> QED
      BY <1>3, <1>10, <1>11, <3>1 DEF Held, k, End, number_iterations
  <2> QED
    BY <1>1, <1>10, <2>1, <2>2 DEF MemoryInv
<1>15. StageInv(r)'
  BY <1>3, <1>10 DEF StageInv, m, number_iterations
<1>16. RunInv'
  BY <1>10, <1>12, <1>13, <1>14, <1>15, RankStep
<1> QED
  BY <1>10, <1>16

(* The vector has left: the rank reduces into it what it has taken, and    *)
(* sends the sum on.                                                       *)
LEMMA AwaitAckStep ==
  ASSUME Parameters, TypeInv, RunInv, number_elements # 0, NEW r \in Ranks, AwaitAck(r)
  PROVE  TypeInv' /\ RunInv'
<1> DEFINE m == number_iterations
           k == iteration[r]
           c == <<r, k>>
           d == Into(r, k)
           e == <<r, k + 1>>
           x == 2 * k + 3
           sends == k + 1 = m => ~is_extra_rank(r)
           stage == IF k + 1 = m THEN "FINAL_STEP" ELSE "WAIT_FOR_DATA"
           old == mem[Vector(r)]
           data == mem[<<r, k>>]
<1>1. /\ progress(r) /\ alg_stage[r] = "WAIT_FOR_ACK"
      /\ acked[c] # 0 /\ acked' = [acked EXCEPT ![c] = 0]
      /\ mem' = [mem EXCEPT ![Vector(r)] = old (+) data]
      /\ alg_stage' = [alg_stage EXCEPT ![r] =
                         IF is_last_iteration(r) THEN "FINAL_STEP" ELSE "WAIT_FOR_DATA"]
      /\ writing' = IF is_last_iteration(r) /\ ~is_even_non_extra_rank(r) THEN writing
                    ELSE [writing EXCEPT ![e] = writing[e] + 1]
      /\ iteration' = [iteration EXCEPT ![r] = k + 1]
      /\ UNCHANGED <<number_elements, arrived, acking>>
  BY DEF AwaitAck, sourceAcked, initTransfer, ApplyReduce
<1>2. state[r] = "RUNNING"
  BY <1>1 DEF progress
<1>3. /\ m \in Nat /\ m > 0 /\ NonPowerTwo = m /\ End = 2 * m + 2
      /\ k \in 0 .. m /\ k < m /\ Position(r) = 2 * k + 2 /\ ~Odd(r)
  BY <1>1, <1>2, MarkFacts, Where DEF NonPowerTwo
<1>4. /\ is_last_iteration(r) <=> k + 1 = m
      /\ is_even_non_extra_rank(r) <=> ~is_extra_rank(r)
  <2>1. is_even_non_extra_rank(r) <=> ~is_extra_rank(r)
    BY <1>3, Kinds DEF Odd
  <2> HIDE DEF m
  <2> QED
    BY <1>3, <2>1 DEF is_last_iteration, m
<1>5. /\ alg_stage' = [alg_stage EXCEPT ![r] = stage]
      /\ sends => writing' = [writing EXCEPT ![e] = writing[e] + 1]
      /\ ~sends => writing' = writing
  <2> HIDE DEF m, e
  <2> QED
    BY <1>1, <1>4
<1>6. /\ c \in Channels /\ c[1] = r /\ c[2] = k /\ Confirming(c) = x
      /\ d \in Channels /\ d[2] = k /\ To(d) = r /\ TargetMemory(d) = c
      /\ d[1] = Neighbor(r, k)
  <2>1. k \in 0 .. number_iterations /\ k # NonPowerTwo /\ ~Odd(r)
    BY <1>3
  <2> HIDE DEF k
  <2>2. /\ c \in Channels /\ c[1] = r /\ c[2] = k
        /\ d \in Channels /\ d[2] = k /\ To(d) = r /\ TargetMemory(d) = c
        /\ d[1] = To(c)
    BY <2>1, OwnChannels
  <2> QED
    BY <2>1, <2>2 DEF Confirming, To, Partner
<1>7. ~Odd(d[1]) /\ Taking(d) = 2 * k + 2
  <2>1. ~Odd(d[1])
    BY <1>3, <1>6, Roles
  <2> QED
    BY <1>6, <2>1 DEF Taking
<1>8. sends => e \in Channels /\ e[1] = r /\ Sending(e) = x
  <2> SUFFICES ASSUME sends PROVE e \in Channels /\ e[1] = r /\ Sending(e) = x
    OBVIOUS
  <2>1. /\ k + 1 \in 0 .. number_iterations
        /\ IF k + 1 = NonPowerTwo THEN ~is_extra_rank(r) ELSE ~Odd(r)
    BY <1>3
  <2>2. e \in Channels /\ e[1] = r /\ e[2] = k + 1
    <3> HIDE DEF k
    <3> QED
      BY <2>1, OwnChannels
  <2> QED
    BY <1>3, <2>2 DEF Sending
<1>9. /\ iteration \in [Ranks -> 0 .. m] /\ writing \in [Channels -> Nat]
      /\ acked \in [Channels -> 0 .. 1] /\ DOMAIN mem = Locations
  BY DEF TypeInv, TypeOK, EndpointTypeOK
<1>10. stage \in Stages
  BY DEF Stages
<1> HIDE DEF c, d, e, k, m, x, sends, stage, End, number_iterations, old, data
<1>11. EndpointTypeOK(Channels)'
  <2>1. writing' \in [Channels -> Nat]
    BY <1>5, <1>8, <1>9
  <2>2. acked' \in [Channels -> 0 .. 1]
    BY <1>1, <1>6, <1>9
  <2> QED
    BY <1>1, <2>1, <2>2 DEF TypeInv, TypeOK, EndpointTypeOK
<1>12. /\ TypeInv' /\ Others(r) /\ separated' = separated
       /\ state[r] = "RUNNING" /\ state'[r] = "RUNNING"
       /\ round'[r] = round[r] /\ round[r] \in Nat /\ round[r] > 0
       /\ iteration'[r] = k + 1 /\ alg_stage'[r] = stage
       /\ LockStep => LockStep'
       /\ ResultsCorrect => ResultsCorrect'
  <2>1. DOMAIN mem' = Locations /\ k + 1 \in 0 .. number_iterations /\ progress(r)
    BY <1>1, <1>3, <1>9 DEF m
  <2>2. iteration' = [iteration EXCEPT ![r] = k + 1] /\ number_elements' = number_elements
    BY <1>1
  <2> QED
    BY <1>5, <1>10, <1>11, <2>1, <2>2, RunningStep
<1>13. Position(r)' = x /\ x \in 1 .. End
  BY <1>3, <1>12 DEF Position, x, stage
<1>14. Moves(r, x)
  <2>1. Position(r) = x - 1
    BY <1>3 DEF x
  <2> QED
    BY <1>12, <1>13, <2>1, Advance
<1>15. Posts(r, x)
  <2> SUFFICES ASSUME NEW f \in Channels
               PROVE  /\ writing'[f] = IF f[1] = r /\ Sending(f) = x THEN writing[f] + 1
                                       ELSE writing[f]
                      /\ ~(To(f) = r /\ Taking(f) = x)
                      /\ acked'[f] = IF f[1] = r /\ ~Odd(r) /\ Confirming(f) = x THEN acked[f] - 1
                                     ELSE acked[f]
    BY <1>1 DEF Posts
  <2>1. f = c <=> f[1] = r /\ Confirming(f) = x
    BY <1>6, Alone
  <2>2. /\ f[2] \in 0 .. m
        /\ Odd(f[1]) => Taking(f) = 1
        /\ ~Odd(f[1]) => Sending(f) = 2 * f[2] + 1 /\ Taking(f) = 2 * f[2] + 2
        /\ f[2] = m => ~is_extra_rank(f[1])
    BY Roles DEF m
  <2>3. ~(To(f) = r /\ Taking(f) = x)
    BY <1>3, <2>2 DEF x
  <2>4. writing'[f] = IF f[1] = r /\ Sending(f) = x THEN writing[f] + 1 ELSE writing[f]
    <3>1. CASE sends
      <4>1. f = e <=> f[1] = r /\ Sending(f) = x
        BY <1>8, <3>1, Alone
      <4> QED
        BY <1>5, <1>9, <3>1, <4>1
    <3>2. CASE ~sends
      <4>1. k + 1 = m /\ is_extra_rank(r)
        BY <3>2 DEF sends
      <4>2. ~(f[1] = r /\ Sending(f) = x)
        BY <1>3, <2>2, <4>1 DEF x
      <4> QED
        BY <1>5, <3>2, <4>2
    <3> QED
      BY <3>1, <3>2
  <2>5. acked[c] = 1
    BY <1>1, <1>6, <1>9
  <2> QED
    BY <1>1, <1>3, <1>9, <2>1, <2>3, <2>4, <2>5
<1>16. ASSUME separated
       PROVE  /\ mem'[Vector(r)] = Reduced(Held(r)', round'[r])
              /\ \A l \in Locations : l # Vector(r) => mem'[l] = mem[l]
              /\ LockStep' /\ ResultsCorrect'
  <2>1. ChannelInv /\ MemoryInv /\ LockStep /\ ResultsCorrect
    BY <1>16 DEF RunInv, DataInv
  <2>2. Landed(d) = round[r]
    <3>1. state[To(d)] # "INITIALIZED" /\ Taking(d) <= Position(To(d))
      BY <1>2, <1>3, <1>6, <1>7
    <3> QED
      BY <1>6, <2>1, <3>1, Arrived
  <2>3. old = Reduced(Group(r, k), round[r]) /\ data = Reduced(Group(Neighbor(r, k), k), round[r])
    <3>1. Held(r) = Group(r, k)
      <4>1. Position(r) # 0 /\ Position(r) # End
        BY <1>3
      <4> QED
        BY <1>3, <4>1 DEF Held, k
    <3>2. Content(d) = Group(Neighbor(r, k), k)
      BY <1>6, <1>7 DEF Content
    <3>3. mem[TargetMemory(d)] = Reduced(Content(d), Landed(d))
      BY <1>6, <2>1 DEF MemoryInv
    <3>4. data = mem[TargetMemory(d)]
      BY <1>6 DEF data, c
    <3> QED
      BY <1>6, <2>1, <2>2, <3>1, <3>2, <3>3, <3>4 DEF MemoryInv, old
  <2>4. /\ Group(r, k + 1) = Group(r, k) \cup Group(Neighbor(r, k), k)
        /\ Group(r, k) \cap Group(Neighbor(r, k), k) = {}
    <3>1. k \in 0 .. number_iterations - 1 /\ is_active_rank(r)
      BY <1>3, Kinds DEF Odd, m
    <3> QED
      BY <3>1, GroupStep
  <2>5. Held(r)' = Group(r, k + 1)
    <3>1. x # 0 /\ x # End
      BY <1>3 DEF x
    <3> QED
      BY <1>3, <1>12, <1>13, <3>1 DEF Held, End, number_iterations
  <2>6. mem'[Vector(r)] = Reduced(Held(r)', round'[r])
    <3>1. old (+) data = Reduced(Group(r, k + 1), round[r])
      BY <1>12, <2>3, <2>4, ReducedUnion
    <3>2. mem'[Vector(r)] = old (+) data
      BY <1>1, <1>9, LocationFacts
    <3> QED
      BY <1>12, <2>5, <3>1, <3>2
  <2>7. \A l \in Locations : l # Vector(r) => mem'[l] = mem[l]
    BY <1>1, <1>9
  <2> QED
    BY <1>12, <2>1, <2>6, <2>7
<1>17. StageInv(r)'
  BY <1>3, <1>12 DEF StageInv, stage, m, number_iterations
<1>18. RunInv'
  BY <1>12, <1>14, <1>15, <1>16, <1>17, RankStep
<1> QED
  BY <1>12, <1>18

(* The end of an execution: the even rank learns that the result has       *)
(* arrived, the odd one takes it.                                          *)
LEMMA CompletePosts ==
  ASSUME Parameters, TypeInv, RunInv, number_elements # 0, NEW r \in Ranks, Complete(r)
  PROVE  EndpointTypeOK(Channels)' /\ Posts(r, End) /\ alg_stage[r] = "FINAL_STEP"
<1> DEFINE m == number_iterations
           c == <<r, m>>
           d == Into(r, m)
<1>1. m \in Nat /\ m > 0 /\ NonPowerTwo = m /\ End = 2 * m + 2 /\ m \in 0 .. m
  BY MarkFacts DEF NonPowerTwo
<1>2. /\ alg_stage[r] = "FINAL_STEP" /\ writing' = writing
      /\ \/ is_extra_rank(r) /\ UNCHANGED <<arrived, acking, acked>>
         \/ /\ is_even_non_extra_rank(r) /\ acked[c] # 0
            /\ acked' = [acked EXCEPT ![c] = 0]
            /\ UNCHANGED <<arrived, acking>>
         \/ /\ Odd(r) /\ arrived[d] # 0 /\ arrived' = [arrived EXCEPT ![d] = 0]
            /\ acking' = [acking EXCEPT ![d] = acking[d] + 1]
            /\ acked' = acked
  BY DEF Complete, sourceAcked, targetCompletes, ackTransfer, NonPowerTwo, Odd
<1>3. ~is_extra_rank(r) => /\ c \in Channels /\ c[1] = r /\ c[2] = m
                           /\ d \in Channels /\ d[2] = m /\ To(d) = r
  BY <1>1, OwnChannels
<1>4. /\ writing \in [Channels -> Nat] /\ acking \in [Channels -> Nat]
      /\ arrived \in [Channels -> 0 .. 1] /\ acked \in [Channels -> 0 .. 1]
  BY DEF TypeInv, TypeOK, EndpointTypeOK
<1>5. \A f \in Channels :
        /\ f[2] \in 0 .. m
        /\ Odd(f[1]) => f[2] = m /\ Sending(f) = 1 /\ Taking(f) = 1
        /\ ~Odd(f[1]) => /\ Sending(f) = 2 * f[2] + 1 /\ Taking(f) = 2 * f[2] + 2
                         /\ Confirming(f) = IF f[2] = m THEN End ELSE 2 * f[2] + 3
        /\ Odd(To(f)) <=> f[2] = m /\ ~Odd(f[1])
        /\ f[2] = m => ~is_extra_rank(f[1]) /\ ~is_extra_rank(To(f))
  BY Roles
<1> HIDE DEF c, d, m, number_iterations, End
<1>6. EndpointTypeOK(Channels)'
  <2>1. is_even_non_extra_rank(r) \/ Odd(r) => ~is_extra_rank(r)
    BY Kinds DEF Odd
  <2>2. acking' \in [Channels -> Nat] /\ arrived' \in [Channels -> 0 .. 1]
        /\ acked' \in [Channels -> 0 .. 1]
    BY <1>2, <1>3, <1>4, <2>1
  <2> QED
    BY <1>2, <1>4, <2>2 DEF EndpointTypeOK
<1>7. Posts(r, End)
  <2> SUFFICES ASSUME NEW f \in Channels
               PROVE  LET take == To(f) = r /\ Taking(f) = End
                          confirm == f[1] = r /\ ~Odd(r) /\ Confirming(f) = End
                      IN  /\ ~(f[1] = r /\ Sending(f) = End)
                          /\ arrived'[f] = IF take THEN arrived[f] - 1 ELSE arrived[f]
                          /\ acking'[f] = IF take /\ ~Odd(f[1]) THEN acking[f] + 1 ELSE acking[f]
                          /\ acked'[f] = IF confirm THEN acked[f] - 1 ELSE acked[f]
    BY <1>2 DEF Posts
  <2>1. Sending(f) # End
    BY <1>1, <1>5
  <2>2. Taking(f) = End <=> f[2] = m /\ ~Odd(f[1])
    BY <1>1, <1>5
  <2>3. ~Odd(f[1]) => (Confirming(f) = End <=> f[2] = m)
    BY <1>1, <1>5
  <2>4. Taking(f) = End => Odd(To(f)) /\ ~is_extra_rank(To(f))
    BY <1>5, <2>2
  <2>5. ~Odd(f[1]) /\ Confirming(f) = End => ~is_extra_rank(f[1])
    BY <1>5, <2>3
  <2>6. CASE is_extra_rank(r) /\ UNCHANGED <<arrived, acking, acked>>
    BY <2>1, <2>4, <2>5, <2>6
  <2>7. CASE is_even_non_extra_rank(r) /\ acked[c] # 0 /\ acked' = [acked EXCEPT ![c] = 0]
             /\ UNCHANGED <<arrived, acking>>
    <3>1. ~Odd(r) /\ ~is_extra_rank(r)
      BY <2>7, Kinds DEF Odd
    <3>2. c \in Channels /\ c[1] = r /\ c[2] = m /\ Confirming(c) = End
      BY <1>3, <1>5, <3>1
    <3>3. f = c <=> f[1] = r /\ Confirming(f) = End
      BY <3>2, Alone
    <3>4. acked[c] = 1
      BY <1>4, <2>7, <3>2
    <3> QED
      BY <1>4, <2>1, <2>4, <2>7, <3>1, <3>3, <3>4
  <2>8. CASE Odd(r) /\ arrived[d] # 0 /\ arrived' = [arrived EXCEPT ![d] = 0]
             /\ acking' = [acking EXCEPT ![d] = acking[d] + 1] /\ acked' = acked
    <3>1. ~is_extra_rank(r)
      BY <2>8, Kinds DEF Odd
    <3>2. d \in Channels /\ d[2] = m /\ To(d) = r /\ ~Odd(d[1]) /\ Taking(d) = End
      BY <1>1, <1>3, <1>5, <2>8, <3>1
    <3>3. f = d <=> To(f) = r /\ Taking(f) = End
      BY <3>2, Alone
    <3>4. arrived[d] = 1
      BY <1>4, <2>8, <3>2
    <3> QED
      BY <1>4, <2>1, <2>2, <2>8, <3>3, <3>4
  <2> QED
    BY <1>2, <2>6, <2>7, <2>8
<1> QED
  BY <1>2, <1>6, <1>7

(* An execution ends with all the data in the vector. *)
LEMMA CompleteStep ==
  ASSUME Parameters, TypeInv, RunInv, number_elements # 0, NEW r \in Ranks, Complete(r)
  PROVE  TypeInv' /\ RunInv'
<1> DEFINE m == number_iterations
<1>1. /\ state[r] = "RUNNING" /\ state' = [state EXCEPT ![r] = "FINISHED"]
      /\ UNCHANGED <<separated, round, output, number_elements, iteration, alg_stage, mem>>
  BY DEF Complete, complete, allreduceVars
<1>2. EndpointTypeOK(Channels)' /\ Posts(r, End) /\ alg_stage[r] = "FINAL_STEP"
  BY CompletePosts
<1>3. /\ round \in [Ranks -> 0 .. Rounds] /\ state \in [Ranks -> States] /\ Rounds \in Nat
      /\ \A q \in Ranks : state[q] # "INITIALIZED" => round[q] > 0
  BY DEF Parameters, TypeInv, TypeOK
<1>4. /\ state' \in [Ranks -> States] /\ state'[r] = "FINISHED" /\ round[r] \in Nat
      /\ \A q \in Ranks : q # r => state'[q] = state[q]
  BY <1>1, <1>3 DEF States
<1>5. TypeInv'
  BY <1>1, <1>2, <1>3, <1>4 DEF TypeInv, TypeOK
<1>6. Others(r)
  BY <1>1, <1>4 DEF Others
<1>7. /\ m \in Nat /\ m > 0 /\ End = 2 * m + 2
      /\ Position(r) = IF Odd(r) THEN 1 ELSE 2 * m + 1
      /\ StageInv(r)
  BY <1>1, <1>2, MarkFacts, Where
<1>8. iteration[r] = m
  BY <1>2, <1>7 DEF StageInv
<1> HIDE DEF m, End
<1>9. Position(r)' = End
  BY <1>4 DEF Position, End, number_iterations
<1>10. Moves(r, End)
  <2>1. End \in 1 .. End /\ (Odd(r) \/ Position(r) = End - 1)
    BY <1>7
  <2> QED
    BY <1>1, <1>4, <1>7, <1>9, <2>1, Advance
<1>11. ASSUME separated
       PROVE  /\ mem'[Vector(r)] = Reduced(Held(r)', round'[r])
              /\ \A l \in Locations : l # Vector(r) => mem'[l] = mem[l]
              /\ LockStep' /\ ResultsCorrect'
  <2>1. MemoryInv /\ LockStep /\ ResultsCorrect
    BY <1>11 DEF RunInv, DataInv
  <2>2. Held(r)' = Held(r)
    <3>1. Odd(r)' = Odd(r) /\ End' = End
      BY DEF End
    <3>2. CASE Odd(r)
      BY <3>1, <3>2 DEF Held
    <3>3. CASE ~Odd(r)
      <4>1. Position(r) # 0 /\ Position(r) # End /\ End # 0
        BY <1>7, <3>3
      <4>2. Held(r) = Group(r, m) /\ Held(r)' = Ranks
        BY <1>8, <1>9, <3>1, <3>3, <4>1 DEF Held
      <4>3. Group(r, m) = Ranks
        BY Groups DEF m
      <4> QED
        BY <4>2, <4>3
    <3> QED
      BY <3>2, <3>3
  <2>3. mem'[Vector(r)] = Reduced(Held(r)', round'[r])
    BY <1>1, <2>1, <2>2 DEF MemoryInv
  <2>4. LockStep'
    BY <1>1, <1>4, <2>1, LockStepKept
  <2>5. ResultsCorrect'
    <3>1. \A q \in Ranks : HasResult(q)' =>
            HasResult(q) /\ output'[q] = output[q] /\ round'[q] = round[q]
      BY <1>1, <1>4 DEF HasResult
    <3> QED
      BY <1>1, <2>1, <3>1, ResultsKept
  <2> QED
    BY <1>1, <2>3, <2>4, <2>5
<1>12. RunInv'
  BY <1>1, <1>2, <1>4, <1>6, <1>10, <1>11, RankStep
<1> QED
  BY <1>5, <1>12

(* A vector that lands is that of the execution of its sender.             *)
LEMMA WriteArrivesStep ==
  ASSUME Parameters, TypeInv, RunInv, number_elements # 0, NEW c \in Channels, WriteArrives(c)
  PROVE  TypeInv' /\ RunInv'
<1> DEFINE a == c[1]
           b == To(c)
<1>1. /\ writing[c] > 0 /\ writing' = [writing EXCEPT ![c] = writing[c] - 1]
      /\ arrived' = [arrived EXCEPT ![c] = 1]
      /\ mem' = [mem EXCEPT ![TargetMemory(c)] = mem[Vector(a)]]
      /\ UNCHANGED <<separated, state, round, output, number_elements, iteration, alg_stage,
                     acking, acked>>
  BY DEF WriteArrives, Transfer, WriteLands, SourceMemory, allreduceVars
<1>2. /\ writing \in [Channels -> Nat] /\ arrived \in [Channels -> 0 .. 1]
      /\ DOMAIN mem = Locations /\ ChannelInv
  BY DEF TypeInv, TypeOK, EndpointTypeOK, RunInv
<1>3. writing[c] = 1 /\ arrived[c] = 0
  <2>1. writing[c] + arrived[c] <= 1
    BY <1>2, Bounded
  <2> QED
    BY <1>1, <1>2, <2>1
<1>4. /\ Done(a, Sending(c)) = round[a] /\ Sending(c) <= Position(a)
      /\ Odd(a) \/ Position(a) < Confirming(c)
  <2>1. writing[c] + arrived[c] > 0
    BY <1>3
  <2> QED
    BY <1>2, <2>1, Bounded
<1>5. TypeInv'
  <2>1. writing' \in [Channels -> Nat] /\ arrived' \in [Channels -> 0 .. 1]
    BY <1>1, <1>2, <1>3
  <2>2. DOMAIN mem' = Locations
    BY <1>1, <1>2
  <2> QED
    BY <1>1, <2>1, <2>2 DEF TypeInv, TypeOK, EndpointTypeOK
<1>6. \A r \in Ranks : /\ \A y : Done(r, y)' = Done(r, y)
                       /\ Held(r)' = Held(r) /\ StageInv(r)' = StageInv(r)
  BY <1>1 DEF Done, Position, Held, StageInv, End
<1>7. ChannelInv'
  <2> SUFFICES ASSUME NEW d \in Channels PROVE Accounted(d)'
    BY DEF ChannelInv
  <2>1. writing'[d] + arrived'[d] = writing[d] + arrived[d]
    BY <1>1, <1>2, <1>3
  <2>2. d[1] \in Ranks /\ To(d) \in Ranks
    BY ChannelFacts
  <2> QED
    BY <1>1, <1>2, <1>6, <2>1, <2>2 DEF ChannelInv, Accounted
<1>8. ASSUME separated PROVE DataInv'
  <2>1. MemoryInv /\ LockStep /\ ResultsCorrect
    BY <1>8 DEF RunInv, DataInv
  <2>2. LockStep' /\ ResultsCorrect'
    BY <1>1, <2>1 DEF LockStep, ResultsCorrect, HasResult
  <2>3. \A r \in Ranks : mem'[Vector(r)] = mem[Vector(r)]
    BY <1>1, <1>2, LocationFacts
  <2>4. Held(a) = Content(c)
    <3>1. CASE Odd(a)
      BY <3>1 DEF Held, Content
    <3>2. CASE ~Odd(a)
      <4>1. /\ number_iterations \in Nat /\ End = 2 * number_iterations + 2
            /\ c[2] \in 0 .. number_iterations /\ a \in Ranks
            /\ Sending(c) = 2 * c[2] + 1
            /\ Confirming(c) = IF c[2] = number_iterations THEN End ELSE 2 * c[2] + 3
        BY <3>2, Roles
      <4>2. iteration[a] \in 0 .. number_iterations
        BY <4>1 DEF TypeInv, TypeOK
      <4> HIDE DEF number_iterations, End, a
      <4>3. Position(a) \in {2 * c[2] + 1, 2 * c[2] + 2} /\ Position(a) # 0 /\ Position(a) # End
        <5>1. Position(a) \in 0 .. End
          BY <4>1, Counts
        <5> DEFINE p == Position(a)
                   k == c[2]
                   m == number_iterations
        <5>2. p \in Nat /\ p < End /\ 2 * k + 1 <= p /\ (k # m => p < 2 * k + 3)
          BY <1>4, <3>2, <4>1, <5>1
        <5>3. m \in Nat /\ k \in 0 .. m /\ End = 2 * m + 2
          BY <4>1
        <5> HIDE DEF p, k, m
        <5>4. p \in {2 * k + 1, 2 * k + 2} /\ p # 0 /\ p # End
          BY <5>2, <5>3
        <5> QED
          BY <5>4 DEF p, k
      <4>4. Position(a) \in {2 * iteration[a] + 1, 2 * iteration[a] + 2}
        BY <3>2, <4>3 DEF Position
      <4>5. iteration[a] = c[2]
        BY <4>1, <4>2, <4>3, <4>4
      <4> QED
        BY <3>2, <4>3, <4>5 DEF Held, Content, a
    <3> QED
      BY <3>1, <3>2
  <2>5. \A d \in Channels : mem'[TargetMemory(d)] = Reduced(Content(d), Landed(d)')
    <3> SUFFICES ASSUME NEW d \in Channels
                 PROVE  mem'[TargetMemory(d)] = Reduced(Content(d), Landed(d)')
      OBVIOUS
    <3>1. d[1] \in Ranks
      BY ChannelFacts
    <3>2. Landed(d)' = Done(d[1], Sending(d)) - writing'[d]
      BY <1>6, <3>1 DEF Landed
    <3>3. CASE d = c
      <4>1. mem'[TargetMemory(c)] = mem[Vector(a)]
        BY <1>1, <1>2, LocationFacts
      <4>2. mem[Vector(a)] = Reduced(Content(c), round[a])
        BY <2>1, <2>4, <3>1, <3>3 DEF MemoryInv
      <4>3. round[a] \in Nat /\ writing'[c] = 0
        BY <1>1, <1>2, <1>3, <3>1, <3>3, Counts
      <4>4. Landed(d)' = round[a]
        BY <1>4, <3>2, <3>3, <4>3
      <4> QED
        BY <3>3, <4>1, <4>2, <4>4
    <3>4. CASE d # c
      <4>1. TargetMemory(d) # TargetMemory(c) /\ TargetMemory(d) \in Locations
        BY <3>4, LocationFacts
      <4>2. mem'[TargetMemory(d)] = mem[TargetMemory(d)] /\ writing'[d] = writing[d]
        BY <1>1, <1>2, <3>4, <4>1
      <4>3. mem[TargetMemory(d)] = Reduced(Content(d), Landed(d))
        BY <2>1 DEF MemoryInv
      <4> QED
        BY <3>2, <4>2, <4>3 DEF Landed
    <3> QED
      BY <3>3, <3>4
  <2>6. MemoryInv'
    <3>1. \A r \in Ranks : mem'[Vector(r)] = Reduced(Held(r)', round'[r])
      BY <1>1, <1>6, <2>1, <2>3 DEF MemoryInv
    <3> QED
      BY <2>5, <3>1 DEF MemoryInv, Content, Group, Reduced
  <2> QED
    BY <2>2, <2>6 DEF DataInv
<1>9. RunInv'
  BY <1>1, <1>6, <1>7, <1>8 DEF RunInv
<1> QED
  BY <1>5, <1>9

(* An acknowledgement lands. *)
LEMMA AckArrivesStep ==
  ASSUME Parameters, TypeInv, RunInv, number_elements # 0, NEW c \in Channels, AckArrives(c)
  PROVE  TypeInv' /\ RunInv'
<1>1. /\ acking[c] > 0 /\ acking' = [acking EXCEPT ![c] = acking[c] - 1]
      /\ acked' = [acked EXCEPT ![c] = 1]
      /\ UNCHANGED <<separated, state, round, output, mem, number_elements, iteration, alg_stage,
                     writing, arrived>>
  BY DEF AckArrives, Acknowledge, AckLands, allreduceVars, collectiveVars
<1>2. /\ acking \in [Channels -> Nat] /\ acked \in [Channels -> 0 .. 1] /\ ChannelInv
  BY DEF TypeInv, TypeOK, EndpointTypeOK, RunInv
<1>3. acking[c] = 1 /\ acked[c] = 0
  <2>1. acking[c] + acked[c] <= 1
    BY <1>2, Bounded
  <2> QED
    BY <1>1, <1>2, <2>1
<1>4. TypeInv'
  <2>1. acking' \in [Channels -> Nat] /\ acked' \in [Channels -> 0 .. 1]
    BY <1>1, <1>2, <1>3
  <2> QED
    BY <1>1, <2>1 DEF TypeInv, TypeOK, EndpointTypeOK
<1>5. /\ \A r \in Ranks : /\ \A y : Done(r, y)' = Done(r, y)
                          /\ Held(r)' = Held(r) /\ StageInv(r)' = StageInv(r)
  BY <1>1 DEF Done, Position, Held, StageInv, End
<1>6. ChannelInv'
  <2> SUFFICES ASSUME NEW d \in Channels PROVE Accounted(d)'
    BY DEF ChannelInv
  <2>1. acking'[d] + acked'[d] = acking[d] + acked[d]
    BY <1>1, <1>2, <1>3
  <2>2. d[1] \in Ranks /\ To(d) \in Ranks
    BY ChannelFacts
  <2> QED
    BY <1>1, <1>2, <1>5, <2>1, <2>2 DEF ChannelInv, Accounted
<1>7. ASSUME separated PROVE DataInv'
  <2>1. MemoryInv /\ LockStep /\ ResultsCorrect
    BY <1>7 DEF RunInv, DataInv
  <2>2. LockStep' /\ ResultsCorrect'
    BY <1>1, <2>1 DEF LockStep, ResultsCorrect, HasResult
  <2>3. \A d \in Channels : Landed(d)' = Landed(d)
    BY <1>1, <1>5, ChannelFacts DEF Landed
  <2>4. MemoryInv'
    BY <1>1, <1>5, <2>1, <2>3 DEF MemoryInv
  <2> QED
    BY <2>2, <2>4 DEF DataInv
<1>8. RunInv'
  BY <1>1, <1>5, <1>6, <1>7 DEF RunInv
<1> QED
  BY <1>4, <1>8

(* Without data a rank goes through its states and touches nothing else.   *)
LEMMA EmptyStep ==
  ASSUME Parameters, TypeInv, EmptyInv, number_elements = 0, Next
  PROVE  TypeInv' /\ EmptyInv' /\ number_elements' = number_elements
<1>1. /\ round \in [Ranks -> 0 .. Rounds] /\ state \in [Ranks -> States] /\ Rounds \in Nat
      /\ DOMAIN output = Ranks /\ \A q \in Ranks : state[q] # "INITIALIZED" => round[q] > 0
  BY DEF Parameters, TypeInv, TypeOK
<1>2. ASSUME NEW r \in Ranks, CopyIn(r) \/ Start(r) \/ Complete(r) \/ CopyOut(r)
      PROVE  /\ UNCHANGED <<separated, mem, number_elements, iteration, alg_stage>>
             /\ UNCHANGED endpointVars
             /\ state' \in [Ranks -> States] /\ round' \in [Ranks -> 0 .. Rounds]
             /\ DOMAIN output' = Ranks
             /\ \A q \in Ranks : state'[q] # "INITIALIZED" => round'[q] > 0
  <2>1. CASE CopyIn(r)
    <3>1. /\ round[r] < Rounds /\ state' = [state EXCEPT ![r] = "READY"]
          /\ round' = [round EXCEPT ![r] = round[r] + 1]
          /\ UNCHANGED <<separated, mem, output, number_elements, iteration, alg_stage>>
          /\ UNCHANGED endpointVars
      BY <2>1 DEF CopyIn, copyIn, allreduceVars
    <3> QED
      BY <1>1, <3>1 DEF States
  <2>2. CASE Start(r)
    <3>1. /\ state[r] = "READY" /\ state' = [state EXCEPT ![r] = "RUNNING"]
          /\ UNCHANGED <<separated, round, mem, output, number_elements, iteration, alg_stage>>
          /\ UNCHANGED endpointVars
      BY <2>2 DEF Start, start, endpointVars
    <3> QED
      BY <1>1, <3>1 DEF States
  <2>3. CASE Complete(r)
    <3>1. ~(alg_stage[r] = "FINAL_STEP")
      BY DEF EmptyInv
    <3>2. /\ state[r] = "RUNNING" /\ state' = [state EXCEPT ![r] = "FINISHED"]
          /\ UNCHANGED <<separated, round, mem, output, number_elements, iteration, alg_stage>>
          /\ UNCHANGED endpointVars
      BY <2>3, <3>1 DEF Complete, complete, allreduceVars, endpointVars
    <3> QED
      BY <1>1, <3>2 DEF States
  <2>4. CASE CopyOut(r)
    <3> DEFINE result == mem[IF is_active_rank(r) THEN Vector(r) ELSE <<r, NonPowerTwo>>]
    <3>1. /\ state' = [state EXCEPT ![r] = "INITIALIZED"]
          /\ output' = [output EXCEPT ![r] = result]
          /\ UNCHANGED <<separated, round, mem, number_elements, iteration, alg_stage>>
          /\ UNCHANGED endpointVars
      BY <2>4 DEF CopyOut, copyOut, allreduceVars
    <3> HIDE DEF result
    <3> QED
      BY <1>1, <3>1 DEF States
  <2> QED
    BY <1>2, <2>1, <2>2, <2>3, <2>4
<1>3. ASSUME NEW r \in Ranks, InitialStep(r) \/ AwaitData(r) \/ AwaitAck(r) \/ SkipIteration(r)
      PROVE  FALSE
  BY <1>3 DEF EmptyInv, InitialStep, AwaitData, AwaitAck, SkipIteration
<1>4. ASSUME NEW c \in Channels, WriteArrives(c) \/ AckArrives(c) PROVE FALSE
  <2>1. /\ writing[c] \in Nat /\ arrived[c] \in Nat /\ acking[c] \in Nat /\ acked[c] \in Nat
    BY EndpointTypes
  <2>2. writing[c] + arrived[c] = 0 /\ acking[c] + acked[c] = 0
    BY DEF EmptyInv, Quiet
  <2>3. writing[c] > 0 \/ acking[c] > 0
    BY <1>4 DEF WriteArrives, AckArrives, Transfer, Acknowledge, WriteLands, AckLands
  <2> QED
    BY <2>1, <2>2, <2>3
<1>5. PICK r \in Ranks : CopyIn(r) \/ Start(r) \/ Complete(r) \/ CopyOut(r)
  BY <1>3, <1>4 DEF Next, User, TriggerProgress
<1>6. TypeInv'
  BY <1>2, <1>5 DEF TypeInv, TypeOK, EndpointTypeOK, endpointVars
<1>7. EmptyInv'
  BY <1>2, <1>5 DEF EmptyInv, Quiet, endpointVars
<1> QED
  BY <1>2, <1>5, <1>6, <1>7

(* The invariant holds after waitForSetup. *)
LEMMA InitInv ==
  ASSUME Parameters, Init
  PROVE  IInv
<1>1. /\ \A c \in Channels : /\ writing[c] = 0 /\ arrived[c] = 0
                             /\ acking[c] = 0 /\ acked[c] = 0
      /\ writing \in [Channels -> Nat] /\ arrived \in [Channels -> 0 .. 1]
      /\ acking \in [Channels -> Nat] /\ acked \in [Channels -> 0 .. 1]
  BY DEF Init, Setup, Connected
<1>2. /\ separated \in BOOLEAN /\ number_elements \in {0, 1}
      /\ state = [r \in Ranks |-> "INITIALIZED"] /\ round = [r \in Ranks |-> 0]
      /\ iteration = [r \in Ranks |-> 0] /\ alg_stage = [r \in Ranks |-> "NOT_STARTED"]
      /\ mem = [l \in Locations |-> EmptyBag] /\ DOMAIN output = Ranks
  BY DEF Init, Setup
<1>3. number_iterations \in Nat /\ Rounds \in Nat
  BY MarkFacts, Sizes DEF Parameters
<1> HIDE DEF number_iterations
<1>4. TypeInv
  BY <1>1, <1>2, <1>3 DEF TypeInv, TypeOK, EndpointTypeOK, States
<1>5. EmptyInv
  BY <1>1, <1>2 DEF EmptyInv, Quiet
<1>6. \A r \in Ranks : Position(r) = End /\ round[r] = 0 /\ state[r] = "INITIALIZED"
  BY <1>2 DEF Position
<1>7. \A r \in Ranks, y \in 1 .. End : Done(r, y) = 0
  <2>1. End \in Nat
    BY <1>3 DEF End
  <2> HIDE DEF End
  <2> QED
    BY <1>6, <2>1 DEF Done
<1>8. \A c \in Channels : Done(c[1], Sending(c)) = 0 /\ Done(To(c), Taking(c)) = 0
                          /\ Done(c[1], Confirming(c)) = 0
  BY <1>7, ChannelFacts, Times
<1>9. ChannelInv
  BY <1>1, <1>8 DEF ChannelInv, Accounted
<1>10. DataInv
  <2>1. LockStep /\ ResultsCorrect
    BY <1>6 DEF LockStep, ResultsCorrect, HasResult
  <2>2. \A r \in Ranks : mem[Vector(r)] = EmptyBag
    BY <1>2, LocationFacts
  <2>3. \A c \in Channels : mem[TargetMemory(c)] = EmptyBag /\ Landed(c) = 0
    BY <1>1, <1>2, <1>8, LocationFacts DEF Landed
  <2>4. MemoryInv
    BY <1>6, <2>2, <2>3 DEF MemoryInv, Reduced
  <2> QED
    BY <2>1, <2>4 DEF DataInv
<1>11. RunInv
  BY <1>6, <1>9, <1>10 DEF RunInv
<1> QED
  BY <1>4, <1>5, <1>11 DEF IInv

(* Every step preserves the invariant. *)
LEMMA NextStep ==
  ASSUME Parameters, IInv, Next
  PROVE  IInv'
<1>1. CASE number_elements = 0
  <2>1. TypeInv' /\ EmptyInv' /\ number_elements' = number_elements
    BY <1>1, EmptyStep DEF IInv
  <2> QED
    BY <1>1, <2>1 DEF IInv
<1>2. CASE number_elements # 0
  <2>1. TypeInv /\ RunInv
    BY <1>2 DEF IInv
  <2>2. number_elements' = number_elements
    BY DEF Next, User, TriggerProgress, CopyIn, Start, InitialStep, AwaitData, AwaitAck,
           SkipIteration, Complete, CopyOut, WriteArrives, AckArrives, allreduceVars
  <2>3. ASSUME NEW r \in Ranks, User(r) \/ TriggerProgress(r)
        PROVE  TypeInv' /\ RunInv'
    BY <1>2, <2>1, <2>3, CopyInStep, StartStep, InitialStepStep, AwaitDataStep, AwaitAckStep,
       SkipIterationStep, CompleteStep, CopyOutStep DEF User, TriggerProgress
  <2>4. ASSUME NEW c \in Channels, WriteArrives(c) \/ AckArrives(c)
        PROVE  TypeInv' /\ RunInv'
    BY <1>2, <2>1, <2>4, WriteArrivesStep, AckArrivesStep
  <2>5. TypeInv' /\ RunInv'
    BY <2>3, <2>4 DEF Next
  <2> QED
    BY <1>2, <2>2, <2>5 DEF IInv
<1> QED
  BY <1>1, <1>2

(* And so does a step of the other variables.                              *)
LEMMA NextInv == Parameters /\ IInv /\ [Next]_vars => IInv'
<1> SUFFICES ASSUME Parameters, IInv, [Next]_vars PROVE IInv'
  OBVIOUS
<1>1. CASE UNCHANGED vars
  <2>1. /\ UNCHANGED <<number_elements, iteration, alg_stage>>
        /\ UNCHANGED <<separated, state, round, mem, output>>
        /\ UNCHANGED <<writing, arrived, acking, acked>>
    BY <1>1 DEF vars, allreduceVars, collectiveVars, endpointVars
  <2>2. TypeInv' /\ EmptyInv' = EmptyInv
    BY <2>1 DEF IInv, TypeInv, TypeOK, EndpointTypeOK, EmptyInv, Quiet
  <2>3. \A r \in Ranks : /\ \A y : Done(r, y)' = Done(r, y)
                         /\ Held(r)' = Held(r) /\ StageInv(r)' = StageInv(r)
    BY <2>1 DEF Done, Position, Held, StageInv, End
  <2>4. \A c \in Channels : c[1] \in Ranks /\ To(c) \in Ranks
    BY ChannelFacts
  <2>5. /\ ChannelInv => ChannelInv'
        /\ \A c \in Channels : Landed(c)' = Landed(c)
    BY <2>1, <2>3, <2>4 DEF ChannelInv, Accounted, Landed
  <2>6. MemoryInv => MemoryInv'
    BY <2>1, <2>3, <2>5 DEF MemoryInv
  <2>7. (LockStep => LockStep') /\ (ResultsCorrect => ResultsCorrect')
    BY <2>1 DEF LockStep, ResultsCorrect, HasResult
  <2>8. RunInv => RunInv'
    BY <2>1, <2>3, <2>5, <2>6, <2>7 DEF RunInv, DataInv
  <2> QED
    BY <2>1, <2>2, <2>8 DEF IInv
<1>2. CASE Next
  BY <1>2, NextStep
<1> QED
  BY <1>1, <1>2

(* What the invariant says about the properties of the collective. *)
LEMMA Consequences ==
  ASSUME Parameters, IInv
  PROVE  TypeOK /\ ResultsCorrect /\ NoNotificationLost /\ SourcesReleased /\ NothingLeftOver
<1>1. TypeInv
  BY DEF IInv
<1>2. \A c \in Channels : /\ writing[c] \in Nat /\ arrived[c] \in Nat
                          /\ acking[c] \in Nat /\ acked[c] \in Nat
  BY <1>1, EndpointTypes
<1>3. ASSUME number_elements # 0, NEW c \in Channels
      PROVE  /\ writing[c] + arrived[c] <= 1 /\ acking[c] + acked[c] <= 1
             /\ state[c[1]] \in {"INITIALIZED", "FINISHED"} =>
                  writing[c] + arrived[c] = 0 /\ acking[c] + acked[c] = 0
  <2>1. ChannelInv
    BY <1>3 DEF IInv, RunInv
  <2>2. state[c[1]] \in {"INITIALIZED", "FINISHED"} => Position(c[1]) = End
    BY DEF Position
  <2> QED
    BY <1>1, <2>1, <2>2, Bounded
<1>4. ASSUME number_elements = 0, NEW c \in Channels
      PROVE  writing[c] + arrived[c] = 0 /\ acking[c] + acked[c] = 0
  BY <1>4 DEF IInv, EmptyInv, Quiet
<1>5. ResultsCorrect
  <2>1. number_elements \in {0, 1}
    BY <1>1 DEF TypeInv, TypeOK
  <2>2. CASE number_elements # 0
    BY <2>2 DEF IInv, RunInv, DataInv, ResultsCorrect
  <2>3. CASE number_elements = 0
    BY <2>3 DEF ResultsCorrect
  <2> QED
    BY <2>2, <2>3
<1>6. NoNotificationLost
  BY <1>3, <1>4 DEF NoNotificationLost, OneOutstanding
<1>7. SourcesReleased
  BY <1>2, <1>3, <1>4 DEF SourcesReleased, Released
<1>8. NothingLeftOver
  <2>1. \A c \in Channels : c[1] \in Ranks
    BY ChannelFacts
  <2> QED
    BY <1>3, <1>4, <2>1 DEF NothingLeftOver, AllHaveResults, HasResult, Quiet
<1> QED
  BY <1>1, <1>5, <1>6, <1>7, <1>8 DEF TypeInv

(* The invariant holds in every reachable state of the allreduce. *)
THEOREM Invariance == ASSUME Parameters PROVE Spec => []IInv
<1>1. Init => IInv
  BY InitInv
<1>2. IInv /\ [Next]_vars => IInv'
  BY NextInv
<1> QED
  BY <1>1, <1>2, PTL DEF Spec

(* AllreduceLowLevel<T, RECURSIVE_DOUBLING>: for every group and number of *)
(* executions copyOut writes, if a barrier separates executions, the       *)
(* reduction of exactly one contribution of every rank; with or without    *)
(* the barrier no notification is lost, a FINISHED rank may reuse its      *)
(* buffers and nothing is left over for the next execution.                *)
THEOREM Correctness ==
  ASSUME Parameters
  PROVE  Spec => [](/\ TypeOK /\ ResultsCorrect /\ NoNotificationLost
                    /\ SourcesReleased /\ NothingLeftOver)
<1>1. IInv => /\ TypeOK /\ ResultsCorrect /\ NoNotificationLost
              /\ SourcesReleased /\ NothingLeftOver
  BY Consequences
<1> QED
  BY <1>1, Invariance, PTL
=============================================================================

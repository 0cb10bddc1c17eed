-------------------------- MODULE CollectivesProofs --------------------------
(***************************************************************************)
(* The theorems about MCCollectives, where the application chooses the     *)
(* collective: for every size of the groups, every root and any number of  *)
(* executions.  The broadcasts and the allgather are proved here; what     *)
(* AllreduceRingProofs and DoublingProofs prove is carried over.           *)
(***************************************************************************)
EXTENDS MCCollectives, FiniteSetTheorems, TLAPS

-----------------------------------------------------------------------------
LinearParameters == Medium \in Nat \ {0, 1} /\ Rounds \in Nat /\ root \in Linear!Ranks

(* The executions of the linear broadcast in which rank r has had the data *)
(* (and sent it on), and in which it has finished.                         *)
Passed(r) ==
  IF state[r] = "READY" \/ (state[r] = "RUNNING" /\ iteration[r] <= Linear!rank_after_first(r))
  THEN round[r] - 1 ELSE round[r]
Finished(r) ==
  IF state[r] \in {"READY", "RUNNING"} THEN round[r] - 1 ELSE round[r]

LinearBegun ==
  \A r \in Linear!Ranks : /\ state[r] # "INITIALIZED" => round[r] > 0
                          /\ state[r] = "RUNNING" /\ number_elements > 0 => iteration[r] >= 1

LinearTypeInv == Linear!TypeOK /\ separated \in BOOLEAN /\ LinearBegun

(* A notification that is under way or waits belongs to an execution in    *)
(* which the sender is ahead.  It is no equality: without a barrier        *)
(* notifications may be lost.  An empty broadcast has none.                *)
LinearChannelInv ==
  IF number_elements = 0 THEN Linear!Quiet(Linear!Channels) ELSE
  \A c \in Linear!Channels :
    /\ writing[c] + arrived[c] <= Passed(c) - Passed(Linear!right_neighbour(c))
    /\ acking[c] + acked[c] <=
         IF c = Linear!second_last THEN Passed(Linear!right_neighbour(c)) - Finished(c) ELSE 0

(* Nobody begins an execution before all have left the one before. *)
LinearInStep ==
  separated => \A q, r \in Linear!Ranks :
    round[r] > round[q] => round[r] = round[q] + 1 /\ state[q] = "INITIALIZED"

LinearMemoryInv ==
  separated /\ number_elements > 0 =>
    /\ mem[root] = round[root]
    /\ \A c \in Linear!Channels : mem[Linear!right_neighbour(c)] = Passed(c) - writing[c]

LinearInv ==
  /\ LinearTypeInv /\ LinearChannelInv /\ LinearInStep /\ LinearMemoryInv /\ Linear!ResultsCorrect

(* The line of ranks from the root to the rank before it. *)
LEMMA LinearRing ==
  ASSUME LinearParameters
  PROVE  /\ \A c \in Linear!Channels :
              /\ c \in Linear!Ranks /\ Linear!right_neighbour(c) \in Linear!Ranks \ {root, c}
              /\ Linear!rank_after_first(Linear!right_neighbour(c)) = Linear!rank_after_first(c) + 1
              /\ Linear!Into(Linear!right_neighbour(c)) = c
         /\ \A r \in Linear!Ranks : /\ Linear!rank_after_first(r) \in 0 .. Medium - 1
                                    /\ Linear!rank_after_first(r) = 0 <=> r = root
         /\ \A r \in Linear!Ranks \ {root} :
              Linear!Into(r) \in Linear!Channels /\ Linear!right_neighbour(Linear!Into(r)) = r
         /\ Linear!last \in Linear!Ranks \ {root} /\ Linear!second_last = Linear!Into(Linear!last)
         /\ root \in Linear!Channels
<1>1. ASSUME NEW a \in 0 .. 2 * Medium
      PROVE  a % Medium = IF a < Medium THEN a ELSE IF a < 2 * Medium THEN a - Medium ELSE 0
  BY DEF LinearParameters
<1> USE DEF LinearParameters, Linear!Ranks
<1>2. ASSUME NEW r \in Linear!Ranks
      PROVE  /\ Linear!right_neighbour(r) = IF r = Medium - 1 THEN 0 ELSE r + 1
             /\ Linear!Into(r) = IF r = 0 THEN Medium - 1 ELSE r - 1
             /\ Linear!rank_after_first(r) = IF r < root THEN Medium + r - root ELSE r - root
  <2>1. /\ Medium + r + 1 \in 0 .. 2 * Medium /\ Medium + r - 1 \in 0 .. 2 * Medium
        /\ Medium + r - root \in 0 .. 2 * Medium
    OBVIOUS
  <2>2. Linear!right_neighbour(r) = IF r = Medium - 1 THEN 0 ELSE r + 1
    BY <1>1, <2>1 DEF Linear!right_neighbour
  <2>3. Linear!Into(r) = IF r = 0 THEN Medium - 1 ELSE r - 1
    BY <1>1, <2>1 DEF Linear!Into
  <2>4. Linear!rank_after_first(r) = IF r < root THEN Medium + r - root ELSE r - root
    BY <1>1, <2>1 DEF Linear!rank_after_first, Linear!first
  <2> QED
    BY <2>2, <2>3, <2>4
<1>3. /\ Linear!last = IF root = 0 THEN Medium - 1 ELSE root - 1
      /\ Linear!second_last = IF root < 2 THEN Medium + root - 2 ELSE root - 2
  <2>1. Medium + root - 1 \in 0 .. 2 * Medium /\ Medium + root - 2 \in 0 .. 2 * Medium
    OBVIOUS
  <2>2. Linear!last = IF root = 0 THEN Medium - 1 ELSE root - 1
    BY <1>1, <2>1 DEF Linear!last, Linear!first
  <2>3. Linear!second_last = IF root < 2 THEN Medium + root - 2 ELSE root - 2
    BY <1>1, <2>1 DEF Linear!second_last, Linear!first
  <2> QED
    BY <2>2, <2>3
<1>4. ASSUME NEW c \in Linear!Channels
      PROVE  /\ c \in Linear!Ranks /\ Linear!right_neighbour(c) \in Linear!Ranks \ {root, c}
             /\ Linear!rank_after_first(Linear!right_neighbour(c)) = Linear!rank_after_first(c) + 1
             /\ Linear!Into(Linear!right_neighbour(c)) = c
  <2>1. c \in Linear!Ranks /\ c # Linear!last
    BY DEF Linear!Channels
  <2>2. Linear!right_neighbour(c) \in Linear!Ranks
    BY <1>2, <2>1
  <2>3. Linear!right_neighbour(c) # root /\ Linear!right_neighbour(c) # c
    BY <1>2, <1>3, <2>1
  <2>4. Linear!Into(Linear!right_neighbour(c)) = c
    BY <1>2, <2>1, <2>2
  <2>5. Linear!rank_after_first(Linear!right_neighbour(c)) = Linear!rank_after_first(c) + 1
    BY <1>2, <1>3, <2>1, <2>2, <2>3
  <2> QED
    BY <2>1, <2>2, <2>3, <2>4, <2>5
<1>5. \A r \in Linear!Ranks : /\ Linear!rank_after_first(r) \in 0 .. Medium - 1
                              /\ Linear!rank_after_first(r) = 0 <=> r = root
  BY <1>2
<1>6. ASSUME NEW r \in Linear!Ranks \ {root}
      PROVE  Linear!Into(r) \in Linear!Channels /\ Linear!right_neighbour(Linear!Into(r)) = r
  <2>1. Linear!Into(r) \in Linear!Ranks
    BY <1>2
  <2>2. Linear!right_neighbour(Linear!Into(r)) = r
    BY <1>2, <2>1
  <2>3. Linear!Into(r) # Linear!last
    BY <1>2, <1>3
  <2> QED
    BY <2>1, <2>2, <2>3 DEF Linear!Channels
<1>7. Linear!last \in Linear!Ranks \ {root} /\ Linear!second_last = Linear!Into(Linear!last)
  BY <1>2, <1>3
<1>9. root \in Linear!Channels
  BY <1>7 DEF Linear!Channels
<1> QED
  BY <1>4, <1>5, <1>6, <1>7, <1>9

(* Nobody has passed on or finished more than it has begun. *)
LEMMA LinearCounts ==
  ASSUME LinearTypeInv, LinearParameters
  PROVE  /\ \A r \in Linear!Ranks :
              /\ round[r] \in Nat /\ Passed(r) \in Nat /\ Finished(r) \in Nat
              /\ round[r] - 1 <= Finished(r) /\ Finished(r) <= round[r]
              /\ round[r] - 1 <= Passed(r) /\ Passed(r) <= round[r]
         /\ \A c \in Linear!Channels : /\ writing[c] \in Nat /\ arrived[c] \in 0 .. 1
                                       /\ acking[c] \in Nat /\ acked[c] \in 0 .. 1
<1>1. \A r \in Linear!Ranks : round[r] \in Nat /\ (state[r] # "INITIALIZED" => round[r] > 0)
  BY DEF LinearTypeInv, LinearBegun, Linear!TypeOK, LinearParameters
<1> QED
  BY <1>1 DEF LinearTypeInv, Linear!TypeOK, Linear!EndpointTypeOK, Passed, Finished

(* With a barrier between executions a rank is ahead of another by its     *)
(* present execution only.                                                 *)
LEMMA LinearAhead ==
  ASSUME LinearParameters, LinearTypeInv, LinearInStep, separated,
         NEW q \in Linear!Ranks, NEW r \in Linear!Ranks
  PROVE  /\ Passed(r) <= Passed(q) + 1
         /\ Passed(r) > Passed(q) => Passed(r) = round[r]
         /\ round[r] > round[q] => Passed(q) = round[q] /\ round[r] = round[q] + 1
<1>1. round[r] > round[q] => Passed(q) = round[q] /\ round[r] = round[q] + 1
  BY DEF LinearInStep, Passed
<1> QED
  BY <1>1, LinearCounts

(* The invariant holds after waitForSetup, *)
LEMMA LinearInit == LinearParameters /\ Linear!Init => LinearInv
<1> SUFFICES ASSUME LinearParameters, Linear!Init PROVE LinearInv
  OBVIOUS
<1> USE DEF Linear!Init, Linear!Setup, Linear!Connected, Linear!NoData
<1>1. /\ Linear!Channels \subseteq Linear!Ranks /\ root \in Linear!Ranks
      /\ 0 \in 0 .. Rounds /\ 0 \in 0 .. Linear!last_iteration
  BY DEF Linear!Channels, LinearParameters, Linear!last_iteration
<1>2. LinearTypeInv
  BY <1>1 DEF LinearTypeInv, LinearBegun, Linear!TypeOK, Linear!EndpointTypeOK, Linear!States
<1>3. \A r \in Linear!Ranks : Passed(r) = 0 /\ Finished(r) = 0
  BY DEF Passed, Finished
<1>4. \A c \in Linear!Channels : Linear!right_neighbour(c) \in Linear!Ranks /\ c \in Linear!Ranks
  BY LinearRing
<1>5. LinearChannelInv
  BY <1>3, <1>4 DEF LinearChannelInv, Linear!Quiet
<1>6. LinearInStep /\ Linear!ResultsCorrect
  BY <1>1 DEF LinearInStep, Linear!ResultsCorrect, Linear!HasResult
<1>7. LinearMemoryInv
  BY <1>1, <1>3, <1>4 DEF LinearMemoryInv
<1> QED
  BY <1>2, <1>5, <1>6, <1>7 DEF LinearInv

(* What does not touch the channels keeps what is said of them.            *)
LEMMA LinearChannelsKept ==
  ASSUME LinearParameters, LinearChannelInv,
         UNCHANGED <<number_elements, writing, arrived, acking, acked>>,
         \A r \in Linear!Ranks : Passed(r)' = Passed(r) /\ Finished(r)' = Finished(r)
  PROVE  LinearChannelInv'
<1>1. \A c \in Linear!Channels : Linear!right_neighbour(c) \in Linear!Ranks /\ c \in Linear!Ranks
  BY LinearRing
<1> QED
  BY <1>1 DEF LinearChannelInv, Linear!Quiet

(* copyIn: the memory of the root is free for the next execution.          *)
LEMMA LinearCopyIn ==
  ASSUME LinearParameters, LinearInv, NEW r \in Linear!Ranks, Linear!CopyIn(r)
  PROVE  LinearInv'
<1> USE DEF LinearInv
<1>1. /\ state[r] = "INITIALIZED" /\ round[r] < Rounds
      /\ separated => Linear!PassedBarrier(r)
      /\ state' = [state EXCEPT ![r] = "READY"]
      /\ round' = [round EXCEPT ![r] = round[r] + 1]
      /\ UNCHANGED <<separated, output, number_elements, iteration>>
      /\ UNCHANGED <<writing, arrived, acking, acked>>
      /\ IF number_elements > 0 /\ r = root THEN mem' = [mem EXCEPT ![r] = round'[r]]
                                            ELSE mem' = mem
  BY DEF Linear!CopyIn, Linear!copyIn, Linear!endpointVars, Linear!broadcastVars, Linear!first
<1>2. /\ round \in [Linear!Ranks -> 0 .. Rounds] /\ mem \in [Linear!Ranks -> 0 .. Rounds]
      /\ state \in [Linear!Ranks -> Linear!States] /\ Rounds \in Nat
  BY DEF LinearParameters, LinearTypeInv, Linear!TypeOK
<1>3. round[r] + 1 \in 0 .. Rounds
  BY <1>1, <1>2
<1>4. LinearTypeInv'
  <2>1. round' \in [Linear!Ranks -> 0 .. Rounds] /\ mem' \in [Linear!Ranks -> 0 .. Rounds]
    BY <1>1, <1>2, <1>3
  <2>2. state' \in [Linear!Ranks -> Linear!States]
    BY <1>1, <1>2 DEF Linear!States
  <2>3. Linear!TypeOK'
    BY <1>1, <2>1, <2>2 DEF LinearTypeInv, Linear!TypeOK, Linear!EndpointTypeOK
  <2>4. LinearBegun'
    BY <1>1, <1>2 DEF LinearTypeInv, LinearBegun
  <2> QED
    BY <1>1, <2>3, <2>4 DEF LinearTypeInv
<1>5. \A q \in Linear!Ranks : Passed(q)' = Passed(q) /\ Finished(q)' = Finished(q)
  BY <1>1, <1>2 DEF Passed, Finished
<1>6. LinearChannelInv'
  BY <1>1, <1>5, LinearChannelsKept
<1>7. LinearInStep'
  <2> SUFFICES ASSUME separated, NEW p \in Linear!Ranks, NEW q \in Linear!Ranks,
                      round'[q] > round'[p]
               PROVE  round'[q] = round'[p] + 1 /\ state'[p] = "INITIALIZED"
    BY <1>1 DEF LinearInStep
  <2>1. \A x \in Linear!Ranks : x # r => round'[x] = round[x] /\ state'[x] = state[x]
    BY <1>1, <1>2
  <2>2. round'[r] = round[r] + 1
    BY <1>1, <1>2
  <2>3. CASE q = r
    <3>1. p # r
      BY <1>2, <2>2, <2>3
    <3>2. round[p] <= round[r] /\ round[p] \in Nat /\ round[r] \in Nat
      BY <1>2, <2>1, <2>2, <2>3, <3>1
    <3> QED
      BY <1>1, <2>1, <2>2, <2>3, <3>1, <3>2 DEF Linear!PassedBarrier
  <2>4. CASE q # r
    <3>1. round[q] > round[p]
      BY <1>2, <2>1, <2>2, <2>4
    <3>2. round[q] = round[p] + 1 /\ state[p] = "INITIALIZED"
      BY <3>1 DEF LinearInStep
    <3>3. p # r
      <4>1. SUFFICES ASSUME p = r PROVE FALSE
        OBVIOUS
      <4>2. round'[q] = round'[p]
        BY <2>1, <2>2, <2>4, <3>2, <4>1
      <4> QED
        BY <1>2, <2>1, <2>2, <2>4, <4>1, <4>2
    <3> QED
      BY <2>1, <2>4, <3>2, <3>3
  <2> QED
    BY <2>3, <2>4
<1>8. LinearMemoryInv'
  <2> SUFFICES ASSUME separated, number_elements > 0
               PROVE  /\ mem'[root] = round'[root]
                      /\ \A c \in Linear!Channels :
                           mem'[Linear!right_neighbour(c)] = Passed(c)' - writing'[c]
    BY <1>1 DEF LinearMemoryInv
  <2>1. root \in Linear!Ranks
    BY DEF LinearParameters
  <2>2. mem'[root] = round'[root]
    BY <1>1, <1>2, <2>1 DEF LinearMemoryInv
  <2>3. \A q \in Linear!Ranks \ {root} : mem'[q] = mem[q]
    BY <1>1, <1>2
  <2>4. \A c \in Linear!Channels :
          c \in Linear!Ranks /\ Linear!right_neighbour(c) \in Linear!Ranks \ {root}
    BY LinearRing
  <2> QED
    BY <1>1, <1>5, <2>2, <2>3, <2>4 DEF LinearMemoryInv
<1>9. Linear!ResultsCorrect'
  BY <1>1, <1>2 DEF Linear!ResultsCorrect, Linear!HasResult
<1> QED
  BY <1>4, <1>6, <1>7, <1>8, <1>9

(* start: the root sends; the others are not yet at their turn.            *)
LEMMA LinearStart ==
  ASSUME LinearParameters, LinearInv, NEW r \in Linear!Ranks, Linear!Start(r)
  PROVE  LinearInv'
<1> USE DEF LinearInv
<1>1. /\ state[r] = "READY"
      /\ state' = [state EXCEPT ![r] = "RUNNING"]
      /\ IF number_elements = 0 THEN iteration' = iteration
                                ELSE iteration' = [iteration EXCEPT ![r] = 1]
      /\ IF number_elements > 0 /\ r = root THEN writing' = [writing EXCEPT ![r] = writing[r] + 1]
                                            ELSE writing' = writing
      /\ UNCHANGED <<separated, round, output, mem, number_elements, arrived, acking, acked>>
  BY DEF Linear!Start, Linear!start, Linear!initTransfer, Linear!first
<1>2. /\ iteration \in [Linear!Ranks -> 0 .. Medium] /\ writing \in [Linear!Channels -> Nat]
      /\ state \in [Linear!Ranks -> Linear!States] /\ Medium \in Nat \ {0, 1}
      /\ number_elements \in {0, 1}
      /\ round \in [Linear!Ranks -> Nat]
  BY DEF LinearParameters, LinearTypeInv, Linear!TypeOK, Linear!EndpointTypeOK,
         Linear!last_iteration
<1>3. /\ root \in Linear!Channels
      /\ \A c \in Linear!Channels :
           c \in Linear!Ranks /\ Linear!right_neighbour(c) \in Linear!Ranks \ {root}
      /\ \A q \in Linear!Ranks : /\ Linear!rank_after_first(q) \in 0 .. Medium - 1
                                 /\ Linear!rank_after_first(q) = 0 <=> q = root
  BY LinearRing
<1>4. LinearTypeInv'
  <2>1. state' \in [Linear!Ranks -> Linear!States]
    BY <1>1, <1>2 DEF Linear!States
  <2>2. iteration' \in [Linear!Ranks -> 0 .. Medium]
    BY <1>1, <1>2
  <2>3. writing' \in [Linear!Channels -> Nat]
    BY <1>1, <1>2, <1>3
  <2>4. Linear!TypeOK'
    BY <1>1, <2>1, <2>2, <2>3 DEF LinearTypeInv, Linear!TypeOK, Linear!EndpointTypeOK,
                                  Linear!last_iteration
  <2>5. LinearBegun'
    BY <1>1, <1>2 DEF LinearTypeInv, LinearBegun
  <2> QED
    BY <1>1, <2>4, <2>5 DEF LinearTypeInv
<1>5. /\ \A q \in Linear!Ranks : Finished(q)' = Finished(q)
      /\ number_elements > 0 =>
           \A q \in Linear!Ranks :
             Passed(q)' = IF q = r /\ r = root THEN Passed(q) + 1 ELSE Passed(q)
  BY <1>1, <1>2, <1>3 DEF Passed, Finished
<1>6. LinearChannelInv'
  <2>1. CASE number_elements = 0
    BY <1>1, <2>1 DEF LinearChannelInv, Linear!Quiet
  <2>2. CASE number_elements > 0
    <3> SUFFICES ASSUME NEW c \in Linear!Channels
                 PROVE  /\ writing'[c] + arrived'[c]
                             <= Passed(c)' - Passed(Linear!right_neighbour(c))'
                        /\ acking'[c] + acked'[c] <=
                             IF c = Linear!second_last
                               THEN Passed(Linear!right_neighbour(c))' - Finished(c)' ELSE 0
      BY <1>1, <2>2 DEF LinearChannelInv
    <3> DEFINE d == Linear!right_neighbour(c)
    <3>1. Passed(d)' = Passed(d) /\ Finished(c)' = Finished(c)
      BY <1>3, <1>5, <2>2
    <3>2. /\ writing[c] + arrived[c] <= Passed(c) - Passed(d)
          /\ acking[c] + acked[c] <= IF c = Linear!second_last THEN Passed(d) - Finished(c) ELSE 0
      BY <2>2 DEF LinearChannelInv
    <3>3. /\ writing[c] \in Nat /\ arrived[c] \in Nat /\ Passed(c) \in Nat /\ Passed(d) \in Nat
      BY <1>3, LinearCounts
    <3> HIDE DEF d
    <3>4. CASE c = r /\ r = root
      <4>1. writing'[c] = writing[c] + 1 /\ Passed(c)' = Passed(c) + 1
        BY <1>1, <1>2, <1>3, <1>5, <2>2, <3>4
      <4> QED
        BY <1>1, <3>1, <3>2, <3>3, <4>1 DEF d
    <3>5. CASE ~(c = r /\ r = root)
      <4>1. writing'[c] = writing[c] /\ Passed(c)' = Passed(c)
        BY <1>1, <1>2, <1>3, <1>5, <2>2, <3>5
      <4> QED
        BY <1>1, <3>1, <3>2, <3>3, <4>1 DEF d
    <3> QED
      BY <3>4, <3>5
  <2> QED
    BY <1>2, <2>1, <2>2
<1>7. LinearInStep'
  BY <1>1, <1>2 DEF LinearInStep
<1>8. LinearMemoryInv'
  <2> SUFFICES ASSUME separated, number_elements > 0
               PROVE  /\ mem'[root] = round'[root]
                      /\ \A c \in Linear!Channels :
                           mem'[Linear!right_neighbour(c)] = Passed(c)' - writing'[c]
    BY <1>1 DEF LinearMemoryInv
  <2>1. \A c \in Linear!Channels : Passed(c) \in Nat /\ writing[c] \in Nat
    BY <1>3, LinearCounts
  <2>2. \A c \in Linear!Channels : Passed(c)' - writing'[c] = Passed(c) - writing[c]
    BY <1>1, <1>2, <1>3, <1>5, <2>1
  <2> QED
    BY <1>1, <2>2 DEF LinearMemoryInv
<1>9. Linear!ResultsCorrect'
  BY <1>1, <1>2 DEF Linear!ResultsCorrect, Linear!HasResult
<1> QED
  BY <1>4, <1>6, <1>7, <1>8, <1>9

(* The turn of rank r: what it sends on is what its neighbour has sent.    *)
LEMMA LinearReceive ==
  ASSUME LinearParameters, LinearInv, NEW r \in Linear!Ranks, Linear!Receive(r)
  PROVE  LinearInv'
<1> USE DEF LinearInv
<1> DEFINE l == Linear!Into(r)
<1>1. /\ state[r] = "RUNNING" /\ number_elements > 0
      /\ iteration[r] # Medium /\ Linear!rank_after_first(r) = iteration[r]
      /\ arrived[l] # 0 /\ arrived' = [arrived EXCEPT ![l] = 0]
      /\ IF r # Linear!last
           THEN writing' = [writing EXCEPT ![r] = writing[r] + 1] /\ acking' = acking
           ELSE acking' = [acking EXCEPT ![l] = acking[l] + 1] /\ writing' = writing
      /\ iteration' = [iteration EXCEPT ![r] = iteration[r] + 1]
      /\ UNCHANGED <<separated, state, round, output, number_elements, mem, acked>>
  BY DEF Linear!Receive, Linear!progress, Linear!targetCompletes, Linear!initTransfer,
         Linear!ackTransfer, Linear!last_iteration
<1>2. /\ iteration \in [Linear!Ranks -> 0 .. Medium] /\ writing \in [Linear!Channels -> Nat]
      /\ arrived \in [Linear!Channels -> 0 .. 1] /\ acking \in [Linear!Channels -> Nat]
      /\ Medium \in Nat \ {0, 1} /\ round \in [Linear!Ranks -> Nat]
  BY DEF LinearParameters, LinearTypeInv, Linear!TypeOK, Linear!EndpointTypeOK,
         Linear!last_iteration
<1>3. /\ \A c \in Linear!Channels :
           /\ c \in Linear!Ranks /\ Linear!right_neighbour(c) \in Linear!Ranks \ {root, c}
           /\ Linear!Into(Linear!right_neighbour(c)) = c
      /\ \A q \in Linear!Ranks : /\ Linear!rank_after_first(q) \in 0 .. Medium - 1
                                 /\ Linear!rank_after_first(q) = 0 <=> q = root
      /\ Linear!second_last = Linear!Into(Linear!last)
  BY LinearRing
<1>4. r # root /\ iteration[r] >= 1
  BY <1>1, <1>3 DEF LinearTypeInv, LinearBegun
<1>5. /\ l \in Linear!Channels /\ Linear!right_neighbour(l) = r /\ l # r
      /\ r # Linear!last => r \in Linear!Channels
  BY <1>4, LinearRing DEF Linear!Channels
<1> HIDE DEF l
<1>6. LinearTypeInv'
  <2>1. iteration' \in [Linear!Ranks -> 0 .. Medium]
    BY <1>1, <1>2
  <2>2. writing' \in [Linear!Channels -> Nat] /\ acking' \in [Linear!Channels -> Nat]
    BY <1>1, <1>2, <1>5
  <2>3. arrived' \in [Linear!Channels -> 0 .. 1]
    BY <1>1, <1>2, <1>5
  <2>4. Linear!TypeOK'
    BY <1>1, <2>1, <2>2, <2>3 DEF LinearTypeInv, Linear!TypeOK, Linear!EndpointTypeOK,
                                  Linear!last_iteration
  <2>5. LinearBegun'
    BY <1>1, <1>2 DEF LinearTypeInv, LinearBegun
  <2> QED
    BY <1>1, <2>4, <2>5 DEF LinearTypeInv
<1>7. /\ Passed(r) = round[r] - 1 /\ Passed(r)' = round[r] /\ round[r] \in Nat
      /\ \A q \in Linear!Ranks : q # r => Passed(q)' = Passed(q)
      /\ \A q \in Linear!Ranks : Finished(q)' = Finished(q)
  BY <1>1, <1>2 DEF Passed, Finished
<1>8. LinearChannelInv'
  <2> SUFFICES ASSUME NEW c \in Linear!Channels
               PROVE  /\ writing'[c] + arrived'[c]
                           <= Passed(c)' - Passed(Linear!right_neighbour(c))'
                      /\ acking'[c] + acked'[c] <=
                           IF c = Linear!second_last
                             THEN Passed(Linear!right_neighbour(c))' - Finished(c)' ELSE 0
    BY <1>1 DEF LinearChannelInv
  <2> DEFINE d == Linear!right_neighbour(c)
  <2>1. /\ writing[c] + arrived[c] <= Passed(c) - Passed(d)
        /\ acking[c] + acked[c] <= IF c = Linear!second_last THEN Passed(d) - Finished(c) ELSE 0
    BY <1>1 DEF LinearChannelInv
  <2>2. /\ writing[c] \in Nat /\ arrived[c] \in 0 .. 1 /\ acking[c] \in Nat /\ acked[c] \in Nat
        /\ Passed(c) \in Nat /\ Passed(d) \in Nat /\ Finished(c) \in Nat
    BY <1>3, LinearCounts
  <2>3. d \in Linear!Ranks /\ d # c /\ c \in Linear!Ranks
    BY <1>3
  <2>4. d = r <=> c = l
    BY <1>3, <1>5 DEF l
  <2>5. r = Linear!last => l = Linear!second_last
    BY <1>3 DEF l
  <2>6. r # Linear!last => l # Linear!second_last
    BY <1>5, LinearRing
  <2> HIDE DEF d
  <2>7. CASE c = l
    <3>1. /\ d = r /\ c # r /\ Passed(d)' = Passed(d) + 1 /\ Passed(c)' = Passed(c)
          /\ Finished(c)' = Finished(c)
      BY <1>5, <1>7, <2>3, <2>4, <2>7
    <3>2. /\ arrived[c] = 1 /\ arrived'[c] = 0
          /\ writing'[c] = writing[c] /\ acked'[c] = acked[c]
          /\ acking'[c] = IF r = Linear!last THEN acking[c] + 1 ELSE acking[c]
      BY <1>1, <1>2, <2>2, <2>7, <3>1
    <3> QED
      BY <2>1, <2>2, <2>5, <2>6, <2>7, <3>1, <3>2 DEF d
  <2>8. CASE c # l
    <3>1. /\ Passed(d)' = Passed(d) /\ Finished(c)' = Finished(c)
          /\ Passed(c)' = IF c = r THEN Passed(c) + 1 ELSE Passed(c)
      BY <1>7, <2>3, <2>4, <2>8
    <3>2. /\ arrived'[c] = arrived[c] /\ acking'[c] = acking[c] /\ acked'[c] = acked[c]
          /\ writing'[c] = IF c = r THEN writing[c] + 1 ELSE writing[c]
      BY <1>1, <1>2, <2>8 DEF Linear!Channels
    <3> QED
      BY <2>1, <2>2, <3>1, <3>2 DEF d
  <2> QED
    BY <2>7, <2>8
<1>9. LinearInStep'
  BY <1>1 DEF LinearInStep
<1>10. LinearMemoryInv'
  <2> SUFFICES ASSUME separated
               PROVE  /\ mem'[root] = round'[root]
                      /\ \A c \in Linear!Channels :
                           mem'[Linear!right_neighbour(c)] = Passed(c)' - writing'[c]
    BY <1>1 DEF LinearMemoryInv
  <2>1. mem[root] = round[root]
    BY <1>1 DEF LinearMemoryInv
  <2>2. ASSUME NEW c \in Linear!Channels
        PROVE  mem'[Linear!right_neighbour(c)] = Passed(c)' - writing'[c]
    <3>1. mem[Linear!right_neighbour(c)] = Passed(c) - writing[c]
      BY <1>1 DEF LinearMemoryInv
    <3>2. writing[c] \in Nat /\ Passed(c) \in Nat
      BY <1>3, LinearCounts
    <3>3. CASE c = r
      <4>1. writing'[c] = writing[c] + 1 /\ Passed(c)' = Passed(c) + 1
        BY <1>1, <1>2, <1>7, <3>3 DEF Linear!Channels
      <4> QED
        BY <1>1, <3>1, <3>2, <4>1
    <3>4. CASE c # r
      <4>1. writing'[c] = writing[c] /\ Passed(c)' = Passed(c)
        BY <1>1, <1>2, <1>3, <1>7, <3>4
      <4> QED
        BY <1>1, <3>1, <4>1
    <3> QED
      BY <3>3, <3>4
  <2> QED
    BY <1>1, <2>1, <2>2
<1>11. Linear!ResultsCorrect'
  BY <1>1 DEF Linear!ResultsCorrect, Linear!HasResult
<1> QED
  BY <1>6, <1>8, <1>9, <1>10, <1>11

(* The turn of another rank.                                               *)
LEMMA LinearSkip ==
  ASSUME LinearParameters, LinearInv, NEW r \in Linear!Ranks, Linear!SkipIteration(r)
  PROVE  LinearInv'
<1> USE DEF LinearInv
<1>1. /\ state[r] = "RUNNING" /\ iteration[r] # Medium /\ Linear!rank_after_first(r) # iteration[r]
      /\ iteration' = [iteration EXCEPT ![r] = iteration[r] + 1]
      /\ UNCHANGED <<separated, state, round, output, number_elements, mem,
                     writing, arrived, acking, acked>>
  BY DEF Linear!SkipIteration, Linear!progress, Linear!last_iteration, Linear!endpointVars
<1>2. iteration \in [Linear!Ranks -> 0 .. Medium] /\ Medium \in Nat
  BY DEF LinearParameters, LinearTypeInv, Linear!TypeOK, Linear!last_iteration
<1>3. \A q \in Linear!Ranks : Linear!rank_after_first(q) \in 0 .. Medium - 1
  BY LinearRing
<1>4. LinearTypeInv'
  <2>1. iteration' \in [Linear!Ranks -> 0 .. Medium]
    BY <1>1, <1>2
  <2>2. Linear!TypeOK'
    BY <1>1, <2>1 DEF LinearTypeInv, Linear!TypeOK, Linear!EndpointTypeOK, Linear!last_iteration
  <2>3. LinearBegun'
    BY <1>1, <1>2 DEF LinearTypeInv, LinearBegun
  <2> QED
    BY <1>1, <2>2, <2>3 DEF LinearTypeInv
<1>5. \A q \in Linear!Ranks : Passed(q)' = Passed(q) /\ Finished(q)' = Finished(q)
  BY <1>1, <1>2, <1>3 DEF Passed, Finished
<1>6. LinearChannelInv'
  BY <1>1, <1>5, LinearChannelsKept
<1>7. \A c \in Linear!Channels : Linear!right_neighbour(c) \in Linear!Ranks /\ c \in Linear!Ranks
  BY LinearRing
<1>8. LinearInStep' /\ LinearMemoryInv' /\ Linear!ResultsCorrect'
  BY <1>1, <1>5, <1>7 DEF LinearInStep, LinearMemoryInv, Linear!ResultsCorrect, Linear!HasResult
<1> QED
  BY <1>4, <1>6, <1>8

(* The last but one takes the only acknowledgement.                        *)
LEMMA LinearComplete ==
  ASSUME LinearParameters, LinearInv, NEW r \in Linear!Ranks, Linear!Complete(r)
  PROVE  LinearInv'
<1> USE DEF LinearInv
<1>1. /\ state[r] = "RUNNING"
      /\ state' = [state EXCEPT ![r] = "FINISHED"]
      /\ number_elements > 0 => iteration[r] = Medium
      /\ IF number_elements > 0 /\ r = Linear!second_last
           THEN acked[r] # 0 /\ acked' = [acked EXCEPT ![r] = 0] ELSE acked' = acked
      /\ UNCHANGED <<separated, round, output, number_elements, iteration, mem,
                     writing, arrived, acking>>
  BY DEF Linear!Complete, Linear!complete, Linear!sourceAcked, Linear!last_iteration,
         Linear!broadcastVars
<1>2. /\ state \in [Linear!Ranks -> Linear!States] /\ round \in [Linear!Ranks -> Nat]
      /\ Medium \in Nat \ {0, 1}
      /\ acked \in [Linear!Channels -> 0 .. 1] /\ number_elements \in {0, 1}
  BY DEF LinearParameters, LinearTypeInv, Linear!TypeOK, Linear!EndpointTypeOK
<1>3. /\ Linear!second_last \in Linear!Channels
      /\ \A c \in Linear!Channels : Linear!right_neighbour(c) \in Linear!Ranks /\ c \in Linear!Ranks
      /\ \A q \in Linear!Ranks : Linear!rank_after_first(q) \in 0 .. Medium - 1
  BY LinearRing
<1>4. LinearTypeInv'
  <2>1. state' \in [Linear!Ranks -> Linear!States]
    BY <1>1, <1>2 DEF Linear!States
  <2>2. acked' \in [Linear!Channels -> 0 .. 1]
    BY <1>1, <1>2, <1>3
  <2>3. Linear!TypeOK'
    BY <1>1, <2>1, <2>2 DEF LinearTypeInv, Linear!TypeOK, Linear!EndpointTypeOK
  <2>4. LinearBegun'
    BY <1>1, <1>2 DEF LinearTypeInv, LinearBegun
  <2> QED
    BY <1>1, <2>3, <2>4 DEF LinearTypeInv
<1>5. /\ number_elements > 0 => \A q \in Linear!Ranks : Passed(q)' = Passed(q)
      /\ \A q \in Linear!Ranks : Finished(q)' = IF q = r THEN Finished(q) + 1 ELSE Finished(q)
  BY <1>1, <1>2, <1>3 DEF Passed, Finished
<1>6. LinearChannelInv'
  <2>1. CASE number_elements = 0
    BY <1>1, <2>1 DEF LinearChannelInv, Linear!Quiet
  <2>2. CASE number_elements > 0
    <3> SUFFICES ASSUME NEW c \in Linear!Channels
                 PROVE  /\ writing'[c] + arrived'[c]
                             <= Passed(c)' - Passed(Linear!right_neighbour(c))'
                        /\ acking'[c] + acked'[c] <=
                             IF c = Linear!second_last
                               THEN Passed(Linear!right_neighbour(c))' - Finished(c)' ELSE 0
      BY <1>1, <2>2 DEF LinearChannelInv
    <3>1. /\ writing[c] + arrived[c] <= Passed(c) - Passed(Linear!right_neighbour(c))
          /\ acking[c] + acked[c] <=
               IF c = Linear!second_last THEN Passed(Linear!right_neighbour(c)) - Finished(c) ELSE 0
      BY <2>2 DEF LinearChannelInv
    <3>2. /\ Passed(c)' = Passed(c)
          /\ Passed(Linear!right_neighbour(c))' = Passed(Linear!right_neighbour(c))
          /\ writing'[c] = writing[c] /\ arrived'[c] = arrived[c] /\ acking'[c] = acking[c]
      BY <1>1, <1>3, <1>5, <2>2
    <3>3. /\ acking[c] \in Nat /\ acked[c] \in 0 .. 1 /\ Finished(c) \in Nat
          /\ Passed(Linear!right_neighbour(c)) \in Nat
      BY <1>3, LinearCounts
    <3>4. CASE c = r /\ r = Linear!second_last
      <4>1. acked[c] = 1 /\ acked'[c] = 0 /\ Finished(c)' = Finished(c) + 1
        BY <1>1, <1>2, <1>3, <1>5, <2>2, <3>4
      <4> QED
        BY <3>1, <3>2, <3>3, <3>4, <4>1
    <3>5. CASE ~(c = r /\ r = Linear!second_last)
      <4>1. acked'[c] = acked[c] /\ (c = Linear!second_last => Finished(c)' = Finished(c))
        BY <1>1, <1>2, <1>3, <1>5, <2>2, <3>5
      <4> QED
        BY <3>1, <3>2, <3>3, <4>1
    <3> QED
      BY <3>4, <3>5
  <2> QED
    BY <1>2, <2>1, <2>2
<1>7. LinearInStep'
  BY <1>1, <1>2 DEF LinearInStep
<1>8. LinearMemoryInv' /\ Linear!ResultsCorrect'
  BY <1>1, <1>2, <1>3, <1>5 DEF LinearMemoryInv, Linear!ResultsCorrect, Linear!HasResult
<1> QED
  BY <1>4, <1>6, <1>7, <1>8

(* copyOut: what the rank has is of its present execution.                 *)
LEMMA LinearCopyOut ==
  ASSUME LinearParameters, LinearInv, NEW r \in Linear!Ranks, Linear!CopyOut(r)
  PROVE  LinearInv'
<1> USE DEF LinearInv
<1>1. /\ state[r] = "FINISHED"
      /\ state' = [state EXCEPT ![r] = "INITIALIZED"]
      /\ output' = [output EXCEPT ![r] = mem[r]]
      /\ UNCHANGED <<separated, round, mem, number_elements, iteration,
                     writing, arrived, acking, acked>>
  BY DEF Linear!CopyOut, Linear!copyOut, Linear!endpointVars, Linear!broadcastVars
<1>2. /\ state \in [Linear!Ranks -> Linear!States] /\ round \in [Linear!Ranks -> Nat]
      /\ mem \in [Linear!Ranks -> 0 .. Rounds] /\ output \in [Linear!Ranks -> 0 .. Rounds]
  BY DEF LinearParameters, LinearTypeInv, Linear!TypeOK
<1>3. \A c \in Linear!Channels : Linear!right_neighbour(c) \in Linear!Ranks /\ c \in Linear!Ranks
  BY LinearRing
<1>4. LinearTypeInv'
  <2>1. state' \in [Linear!Ranks -> Linear!States] /\ output' \in [Linear!Ranks -> 0 .. Rounds]
    BY <1>1, <1>2 DEF Linear!States
  <2>2. Linear!TypeOK'
    BY <1>1, <2>1 DEF LinearTypeInv, Linear!TypeOK, Linear!EndpointTypeOK
  <2>3. LinearBegun'
    BY <1>1, <1>2 DEF LinearTypeInv, LinearBegun
  <2> QED
    BY <1>1, <2>2, <2>3 DEF LinearTypeInv
<1>5. \A q \in Linear!Ranks : Passed(q)' = Passed(q) /\ Finished(q)' = Finished(q)
  BY <1>1, <1>2 DEF Passed, Finished
<1>6. LinearChannelInv'
  BY <1>1, <1>5, LinearChannelsKept
<1>7. LinearInStep' /\ LinearMemoryInv'
  BY <1>1, <1>2, <1>3, <1>5 DEF LinearInStep, LinearMemoryInv
<1>8. ASSUME separated, number_elements > 0 PROVE mem[r] = round[r]
  <2>1. CASE r = root
    BY <1>8, <2>1 DEF LinearMemoryInv
  <2>2. CASE r # root
    <3> DEFINE l == Linear!Into(r)
    <3>1. l \in Linear!Channels /\ l \in Linear!Ranks /\ Linear!right_neighbour(l) = r
      BY <2>2, LinearRing
    <3> HIDE DEF l
    <3>2. mem[r] = Passed(l) - writing[l]
      BY <1>8, <3>1 DEF LinearMemoryInv
    <3>3. Passed(r) = round[r]
      BY <1>1 DEF Passed
    <3>4. writing[l] + arrived[l] <= Passed(l) - Passed(r)
      BY <1>8, <3>1 DEF LinearChannelInv
    <3>5. ~(round[l] > round[r])
      BY <1>1, <1>8, <3>1 DEF LinearInStep
    <3>6. /\ Passed(l) \in Nat /\ Passed(r) \in Nat /\ Passed(l) <= round[l]
          /\ round[l] \in Nat /\ round[r] \in Nat /\ writing[l] \in Nat /\ arrived[l] \in Nat
      BY <3>1, LinearCounts
    <3>7. Passed(l) <= Passed(r)
      BY <3>3, <3>5, <3>6
    <3>8. writing[l] = 0 /\ Passed(l) = Passed(r)
      BY <3>4, <3>6, <3>7
    <3> QED
      BY <3>2, <3>3, <3>6, <3>8
  <2> QED
    BY <2>1, <2>2
<1>9. Linear!ResultsCorrect'
  BY <1>1, <1>2, <1>8 DEF Linear!ResultsCorrect, Linear!HasResult
<1> QED
  BY <1>4, <1>6, <1>7, <1>9

(* With a barrier nothing is signalled twice; without one the              *)
(* acknowledgement at least is not.                                        *)
LEMMA LinearOutstanding ==
  ASSUME LinearParameters, LinearInv, NEW c \in Linear!Channels
  PROVE  /\ separated => writing[c] + arrived[c] <= 1
         /\ acking[c] + acked[c] <= 1
<1> USE DEF LinearInv
<1> DEFINE d == Linear!right_neighbour(c)
<1>1. c \in Linear!Ranks /\ d \in Linear!Ranks
  BY LinearRing
<1>2. /\ writing[c] \in Nat /\ arrived[c] \in Nat /\ acking[c] \in Nat /\ acked[c] \in Nat
      /\ Passed(c) \in Nat /\ Passed(d) \in Nat /\ Finished(c) \in Nat /\ round[c] \in Nat
      /\ Passed(c) <= round[c] /\ round[c] - 1 <= Finished(c)
  BY <1>1, LinearCounts
<1>3. separated => Passed(c) <= Passed(d) + 1
  BY <1>1, LinearAhead
<1> HIDE DEF d
<1>4. CASE number_elements = 0
  BY <1>4 DEF LinearChannelInv, Linear!Quiet
<1>5. CASE number_elements # 0
  <2>1. /\ writing[c] + arrived[c] <= Passed(c) - Passed(d)
        /\ acking[c] + acked[c] <= IF c = Linear!second_last THEN Passed(d) - Finished(c) ELSE 0
    BY <1>5 DEF LinearChannelInv, d
  <2> QED
    BY <1>2, <1>3, <2>1
<1> QED
  BY <1>4, <1>5

(* What a rank forwards is of the execution in which it was sent.          *)
LEMMA LinearForward ==
  ASSUME LinearParameters, LinearInv, separated, number_elements > 0,
         NEW c \in Linear!Channels, writing[c] > 0
  PROVE  mem[c] = Passed(c)
<1> USE DEF LinearInv
<1> DEFINE d == Linear!right_neighbour(c)
<1>1. c \in Linear!Ranks /\ d \in Linear!Ranks
  BY LinearRing
<1>2. /\ writing[c] \in Nat /\ arrived[c] \in Nat /\ Passed(c) \in Nat /\ Passed(d) \in Nat
      /\ Passed(c) <= round[c] /\ round[c] \in Nat /\ round[d] \in Nat
      /\ round[d] - 1 <= Passed(d) /\ Passed(d) <= round[d]
  BY <1>1, LinearCounts
<1>3. writing[c] + arrived[c] <= Passed(c) - Passed(d)
  BY DEF LinearChannelInv
<1>4. Passed(c) > Passed(d)
  BY <1>2, <1>3
<1>5. Passed(c) = round[c]
  BY <1>1, <1>4, LinearAhead
<1> HIDE DEF d
<1>6. CASE c = root
  BY <1>5, <1>6 DEF LinearMemoryInv
<1>7. CASE c # root
  <2> DEFINE b == Linear!Into(c)
  <2>1. b \in Linear!Channels /\ b \in Linear!Ranks /\ Linear!right_neighbour(b) = c
    BY <1>1, <1>7, LinearRing
  <2> HIDE DEF b
  <2>2. mem[c] = Passed(b) - writing[b]
    BY <2>1 DEF LinearMemoryInv
  <2>3. writing[b] + arrived[b] <= Passed(b) - Passed(c)
    BY <2>1 DEF LinearChannelInv
  <2>4. /\ Passed(b) \in Nat /\ writing[b] \in Nat /\ arrived[b] \in Nat /\ round[b] \in Nat
        /\ Passed(b) <= round[b]
    BY <2>1, LinearCounts
  <2>5. round[b] > round[d] => Passed(d) = round[d] /\ round[b] = round[d] + 1
    BY <1>1, <2>1, LinearAhead
  <2>6. Passed(b) <= Passed(c)
    BY <1>2, <1>4, <1>5, <2>4, <2>5
  <2> QED
    BY <1>2, <2>2, <2>3, <2>4, <2>6
<1> QED
  BY <1>6, <1>7

(* A write lands. *)
LEMMA LinearWriteArrives ==
  ASSUME LinearParameters, LinearInv, NEW c \in Linear!Channels, Linear!WriteArrives(c)
  PROVE  LinearInv'
<1> USE DEF LinearInv
<1> DEFINE d == Linear!right_neighbour(c)
<1>1. /\ writing[c] > 0
      /\ writing' = [writing EXCEPT ![c] = writing[c] - 1]
      /\ arrived' = [arrived EXCEPT ![c] = 1]
      /\ mem' = [mem EXCEPT ![d] = mem[c]]
      /\ UNCHANGED <<separated, state, round, output, number_elements, iteration, acking, acked>>
  BY DEF Linear!WriteArrives, Linear!Transfer, Linear!WriteLands, Linear!broadcastVars
<1>2. /\ writing \in [Linear!Channels -> Nat] /\ arrived \in [Linear!Channels -> 0 .. 1]
      /\ mem \in [Linear!Ranks -> 0 .. Rounds]
  BY DEF LinearTypeInv, Linear!TypeOK, Linear!EndpointTypeOK
<1>3. /\ c \in Linear!Ranks /\ d \in Linear!Ranks \ {root}
      /\ \A b \in Linear!Channels :
           /\ b \in Linear!Ranks /\ Linear!right_neighbour(b) \in Linear!Ranks
           /\ Linear!Into(Linear!right_neighbour(b)) = b
  BY LinearRing
<1>4. LinearTypeInv'
  <2>1. writing' \in [Linear!Channels -> Nat] /\ arrived' \in [Linear!Channels -> 0 .. 1]
    BY <1>1, <1>2
  <2>2. mem' \in [Linear!Ranks -> 0 .. Rounds]
    BY <1>1, <1>2, <1>3
  <2>3. Linear!TypeOK'
    BY <1>1, <2>1, <2>2 DEF LinearTypeInv, Linear!TypeOK, Linear!EndpointTypeOK
  <2>4. LinearBegun'
    BY <1>1 DEF LinearTypeInv, LinearBegun
  <2> QED
    BY <1>1, <2>3, <2>4 DEF LinearTypeInv
<1>5. \A q \in Linear!Ranks : Passed(q)' = Passed(q) /\ Finished(q)' = Finished(q)
  BY <1>1 DEF Passed, Finished
<1>6. number_elements > 0
  <2>1. number_elements = 0 => writing[c] + arrived[c] = 0
    BY DEF LinearChannelInv, Linear!Quiet
  <2> QED
    BY <1>1, <1>2, <2>1 DEF LinearTypeInv, Linear!TypeOK
<1>7. LinearChannelInv'
  <2> SUFFICES ASSUME NEW b \in Linear!Channels
               PROVE  /\ writing'[b] + arrived'[b]
                           <= Passed(b)' - Passed(Linear!right_neighbour(b))'
                      /\ acking'[b] + acked'[b] <=
                           IF b = Linear!second_last
                             THEN Passed(Linear!right_neighbour(b))' - Finished(b)' ELSE 0
    BY <1>1, <1>6 DEF LinearChannelInv
  <2>1. /\ writing[b] + arrived[b] <= Passed(b) - Passed(Linear!right_neighbour(b))
        /\ acking[b] + acked[b] <=
             IF b = Linear!second_last THEN Passed(Linear!right_neighbour(b)) - Finished(b) ELSE 0
    BY <1>6 DEF LinearChannelInv
  <2>2. /\ Passed(b)' = Passed(b) /\ Finished(b)' = Finished(b)
        /\ Passed(Linear!right_neighbour(b))' = Passed(Linear!right_neighbour(b))
    BY <1>3, <1>5
  <2>3. /\ writing[b] \in Nat /\ arrived[b] \in 0 .. 1
        /\ Passed(b) \in Nat /\ Passed(Linear!right_neighbour(b)) \in Nat
    BY <1>3, LinearCounts
  <2>4. \/ writing'[b] = writing[b] /\ arrived'[b] = arrived[b]
        \/ writing'[b] = writing[b] - 1 /\ arrived'[b] = 1
    BY <1>1, <1>2
  <2> QED
    BY <1>1, <2>1, <2>2, <2>3, <2>4
<1>8. LinearInStep' /\ Linear!ResultsCorrect'
  BY <1>1 DEF LinearInStep, Linear!ResultsCorrect, Linear!HasResult
<1>9. LinearMemoryInv'
  <2> SUFFICES ASSUME separated
               PROVE  /\ mem'[root] = round'[root]
                      /\ \A b \in Linear!Channels :
                           mem'[Linear!right_neighbour(b)] = Passed(b)' - writing'[b]
    BY <1>1 DEF LinearMemoryInv
  <2>1. mem'[root] = round'[root]
    BY <1>1, <1>2, <1>3, <1>6 DEF LinearMemoryInv, LinearParameters
  <2>2. ASSUME NEW b \in Linear!Channels
        PROVE  mem'[Linear!right_neighbour(b)] = Passed(b)' - writing'[b]
    <3>1. CASE b = c
      <4>1. mem'[d] = mem[c]
        BY <1>1, <1>2, <1>3
      <4>2. mem[c] = Passed(c)
        BY <1>1, <1>6, LinearForward
      <4>3. writing[c] = 1
        BY <1>1, <1>2, LinearOutstanding
      <4>4. writing'[c] = 0 /\ Passed(c)' = Passed(c) /\ Passed(c) \in Nat
        BY <1>1, <1>2, <1>3, <1>5, <4>3, LinearCounts
      <4> QED
        BY <3>1, <4>1, <4>2, <4>4
    <3>2. CASE b # c
      <4>1. Linear!right_neighbour(b) # d
        BY <1>3, <3>2
      <4>2. /\ mem'[Linear!right_neighbour(b)] = mem[Linear!right_neighbour(b)]
            /\ writing'[b] = writing[b]
        BY <1>1, <1>2, <1>3, <3>2, <4>1
      <4>3. mem[Linear!right_neighbour(b)] = Passed(b) - writing[b]
        BY <1>6 DEF LinearMemoryInv
      <4> QED
        BY <1>3, <1>5, <4>2, <4>3
    <3> QED
      BY <3>1, <3>2
  <2> QED
    BY <2>1, <2>2
<1> QED
  BY <1>4, <1>7, <1>8, <1>9

(* An acknowledgement lands. *)
LEMMA LinearAckArrives ==
  ASSUME LinearParameters, LinearInv, NEW c \in Linear!Channels, Linear!AckArrives(c)
  PROVE  LinearInv'
<1> USE DEF LinearInv
<1>1. /\ acking[c] > 0
      /\ acking' = [acking EXCEPT ![c] = acking[c] - 1]
      /\ acked' = [acked EXCEPT ![c] = 1]
      /\ UNCHANGED <<separated, state, round, mem, output, number_elements, iteration,
                     writing, arrived>>
  BY DEF Linear!AckArrives, Linear!Acknowledge, Linear!AckLands, Linear!collectiveVars,
         Linear!broadcastVars
<1>2. acking \in [Linear!Channels -> Nat] /\ acked \in [Linear!Channels -> 0 .. 1]
  BY DEF LinearTypeInv, Linear!TypeOK, Linear!EndpointTypeOK
<1>3. \A b \in Linear!Channels : Linear!right_neighbour(b) \in Linear!Ranks /\ b \in Linear!Ranks
  BY LinearRing
<1>4. LinearTypeInv'
  <2>1. acking' \in [Linear!Channels -> Nat] /\ acked' \in [Linear!Channels -> 0 .. 1]
    BY <1>1, <1>2
  <2>2. Linear!TypeOK'
    BY <1>1, <2>1 DEF LinearTypeInv, Linear!TypeOK, Linear!EndpointTypeOK
  <2> QED
    BY <1>1, <2>2 DEF LinearTypeInv, LinearBegun
<1>5. \A q \in Linear!Ranks : Passed(q)' = Passed(q) /\ Finished(q)' = Finished(q)
  BY <1>1 DEF Passed, Finished
<1>6. number_elements > 0
  <2>1. number_elements = 0 => acking[c] + acked[c] = 0
    BY DEF LinearChannelInv, Linear!Quiet
  <2> QED
    BY <1>1, <1>2, <2>1 DEF LinearTypeInv, Linear!TypeOK
<1>7. LinearChannelInv'
  <2> SUFFICES ASSUME NEW b \in Linear!Channels
               PROVE  /\ writing'[b] + arrived'[b]
                           <= Passed(b)' - Passed(Linear!right_neighbour(b))'
                      /\ acking'[b] + acked'[b] <=
                           IF b = Linear!second_last
                             THEN Passed(Linear!right_neighbour(b))' - Finished(b)' ELSE 0
    BY <1>1, <1>6 DEF LinearChannelInv
  <2>1. /\ writing[b] + arrived[b] <= Passed(b) - Passed(Linear!right_neighbour(b))
        /\ acking[b] + acked[b] <=
             IF b = Linear!second_last THEN Passed(Linear!right_neighbour(b)) - Finished(b) ELSE 0
    BY <1>6 DEF LinearChannelInv
  <2>2. /\ Passed(b)' = Passed(b) /\ Finished(b)' = Finished(b)
        /\ Passed(Linear!right_neighbour(b))' = Passed(Linear!right_neighbour(b))
    BY <1>3, <1>5
  <2>3. /\ acking[b] \in Nat /\ acked[b] \in 0 .. 1
        /\ Finished(b) \in Nat /\ Passed(Linear!right_neighbour(b)) \in Nat
    BY <1>3, LinearCounts
  <2>4. \/ acking'[b] = acking[b] /\ acked'[b] = acked[b]
        \/ acking'[b] = acking[b] - 1 /\ acked'[b] = 1
    BY <1>1, <1>2
  <2> QED
    BY <1>1, <2>1, <2>2, <2>3, <2>4
<1>8. LinearInStep' /\ LinearMemoryInv' /\ Linear!ResultsCorrect'
  BY <1>1, <1>3, <1>5 DEF LinearInStep, LinearMemoryInv, Linear!ResultsCorrect, Linear!HasResult
<1> QED
  BY <1>4, <1>7, <1>8

(* and every step preserves it. *)
LEMMA LinearNext == LinearParameters /\ LinearInv /\ [Linear!Next]_Linear!vars => LinearInv'
<1> SUFFICES ASSUME LinearParameters, LinearInv, [Linear!Next]_Linear!vars PROVE LinearInv'
  OBVIOUS
<1>1. CASE UNCHANGED Linear!vars
  BY <1>1 DEF Linear!vars, Linear!broadcastVars, Linear!collectiveVars, Linear!endpointVars,
              LinearInv, LinearTypeInv, LinearBegun, Linear!TypeOK, Linear!EndpointTypeOK,
              LinearChannelInv, Linear!Quiet, LinearInStep, LinearMemoryInv,
              Passed, Finished, Linear!ResultsCorrect, Linear!HasResult
<1> QED
  BY <1>1, LinearCopyIn, LinearStart, LinearCopyOut, LinearReceive, LinearSkip, LinearComplete,
     LinearWriteArrives, LinearAckArrives DEF Linear!Next, Linear!User, Linear!TriggerProgress

(* The invariant implies the properties of the linear broadcast.           *)
LEMMA LinearConsequences ==
  ASSUME LinearParameters, LinearInv
  PROVE  Linear!NoNotificationLost /\ Linear!NothingLeftOver /\ Linear!ResultsCorrect
<1>1. Linear!NoNotificationLost
  BY LinearOutstanding DEF Linear!NoNotificationLost, Linear!OneOutstanding
<1>2. ASSUME Linear!AllHaveResults, NEW c \in Linear!Channels
      PROVE  writing[c] + arrived[c] = 0 /\ acking[c] + acked[c] = 0
  <2> DEFINE d == Linear!right_neighbour(c)
  <2>1. c \in Linear!Ranks /\ d \in Linear!Ranks
    BY LinearRing
  <2>2. Passed(c) = round[0] /\ Passed(d) = round[0] /\ Finished(c) = round[0]
    BY <1>2, <2>1 DEF Linear!AllHaveResults, Linear!HasResult, Passed, Finished
  <2>3. /\ writing[c] \in Nat /\ arrived[c] \in Nat /\ acking[c] \in Nat /\ acked[c] \in Nat
        /\ Passed(c) \in Nat
    BY <2>1, LinearCounts DEF LinearInv
  <2>4. CASE number_elements = 0
    BY <2>4 DEF LinearInv, LinearChannelInv, Linear!Quiet
  <2>5. CASE number_elements # 0
    <3>1. /\ writing[c] + arrived[c] <= Passed(c) - Passed(d)
          /\ acking[c] + acked[c] <= IF c = Linear!second_last THEN Passed(d) - Finished(c) ELSE 0
      BY <2>5 DEF LinearInv, LinearChannelInv
    <3> HIDE DEF d
    <3> QED
      BY <2>2, <2>3, <3>1
  <2> QED
    BY <2>4, <2>5
<1>3. Linear!NothingLeftOver
  BY <1>2 DEF Linear!NothingLeftOver, Linear!Quiet
<1> QED
  BY <1>1, <1>3 DEF LinearInv
-----------------------------------------------------------------------------
(* What the constructor is given. *)
ToAllParameters == Medium \in Nat /\ Rounds \in Nat /\ root \in ToAll!Ranks

(* Executions that the root has sent, and that r has received. *)
Sent == IF state[root] = "READY" THEN round[root] - 1 ELSE round[root]
Received(r) == IF state[r] \in {"READY", "RUNNING"} THEN round[r] - 1 ELSE round[r]

(* A channel whose transfer the root still counts. *)
Open(c) == writing[c] + arrived[c] + acking[c] + acked[c]

ToAllTypeInv ==
  /\ ToAll!EndpointTypeOK(ToAll!Channels)
  /\ state \in [ToAll!Ranks -> ToAll!States]
  /\ round \in [ToAll!Ranks -> 0 .. Rounds]
  /\ mem \in [ToAll!Ranks -> 0 .. Rounds]
  /\ output \in [ToAll!Ranks -> 0 .. Rounds]
  /\ transfers_in_progress \in 0 .. Medium - 1
  /\ separated \in BOOLEAN
  /\ \A r \in ToAll!Ranks : state[r] # "INITIALIZED" => round[r] > 0

(* Each execution is one token on every channel, from the start of the     *)
(* root until it has collected the acknowledgement.  Its data lands while  *)
(* the root still has it.                                                  *)
ToAllChannelInv ==
  \A c \in ToAll!Channels :
    /\ writing[c] + arrived[c] = Sent - Received(c)
    /\ Open(c) <= 1
    /\ state[root] # "RUNNING" => Open(c) = 0
    /\ mem[c] = Sent - writing[c]

(* Nobody begins an execution before all have left the one before. *)
ToAllInStep ==
  separated => \A q, r \in ToAll!Ranks :
    round[r] > round[q] => round[r] = round[q] + 1 /\ state[q] = "INITIALIZED"

ToAllOutputInv ==
  /\ mem[root] = round[root]
  /\ separated => \A r \in ToAll!Ranks : state[r] = "INITIALIZED" => output[r] = round[r]

ToAllCountInv ==
  state[root] = "RUNNING" =>
    transfers_in_progress = Cardinality({c \in ToAll!Channels : Open(c) > 0})

ToAllInv == ToAllTypeInv /\ ToAllChannelInv /\ ToAllCountInv /\ ToAllInStep /\ ToAllOutputInv

(* The Cardinality of both instances of FiniteSets is the same. *)
LEMMA SameCardinality == \A S : ToAll!Cardinality(S) = Cardinality(S)
BY DEF ToAll!Cardinality, Cardinality

(* The channels are finitely many. *)
LEMMA ToAllFiniteChannels ==
  ASSUME ToAllParameters
  PROVE  /\ IsFiniteSet(ToAll!Channels) /\ Cardinality(ToAll!Channels) = Medium - 1
         /\ \A C \in SUBSET ToAll!Channels : IsFiniteSet(C) /\ Cardinality(C) \in 0 .. Medium - 1
<1> USE DEF ToAllParameters
<1>1. IsFiniteSet(ToAll!Ranks) /\ Cardinality(ToAll!Ranks) = Medium
  BY FS_Interval DEF ToAll!Ranks
<1>2. IsFiniteSet(ToAll!Channels) /\ Cardinality(ToAll!Channels) = Medium - 1
  BY <1>1, FS_RemoveElement DEF ToAll!Channels
<1>3. ASSUME NEW C \in SUBSET ToAll!Channels
      PROVE  IsFiniteSet(C) /\ Cardinality(C) \in 0 .. Medium - 1
  <2>1. IsFiniteSet(C) /\ Cardinality(C) <= Cardinality(ToAll!Channels)
    BY <1>2, FS_Subset
  <2>2. Cardinality(C) \in Nat
    BY <2>1, FS_CardinalityType
  <2> QED
    BY <1>2, <2>1, <2>2
<1> QED
  BY <1>2, <1>3

(* The invariant holds after waitForSetup. *)
LEMMA ToAllInit == ToAllParameters /\ ToAll!Init => ToAllInv
<1> SUFFICES ASSUME ToAllParameters, ToAll!Init PROVE ToAllInv
  OBVIOUS
<1> USE DEF ToAll!Init, ToAll!Setup, ToAll!Connected, ToAll!NoData
<1>1. ToAllTypeInv
  <2>1. 0 \in 0 .. Medium - 1
    BY DEF ToAllParameters, ToAll!Ranks
  <2> QED
    BY <2>1 DEF ToAllParameters, ToAllTypeInv, ToAll!EndpointTypeOK, ToAll!States
<1>2. root \in ToAll!Ranks /\ ToAll!Channels \subseteq ToAll!Ranks
  BY DEF ToAllParameters, ToAll!Channels
<1>3. ToAllChannelInv
  BY <1>2 DEF ToAllChannelInv, Sent, Received, Open
<1>4. ToAllCountInv /\ ToAllInStep /\ ToAllOutputInv
  BY <1>2 DEF ToAllCountInv, ToAllInStep, ToAllOutputInv
<1> QED
  BY <1>1, <1>3, <1>4 DEF ToAllInv

(* copyIn begins an execution; the memory of the root is free for it. *)
LEMMA ToAllCopyInStep ==
  ASSUME ToAllParameters, ToAllInv, NEW r \in ToAll!Ranks, ToAll!CopyIn(r)
  PROVE  ToAllInv'
<1> USE DEF ToAllInv
<1>1. /\ state[r] = "INITIALIZED" /\ round[r] < Rounds
      /\ separated => ToAll!PassedBarrier(r)
      /\ state' = [state EXCEPT ![r] = "READY"]
      /\ round' = [round EXCEPT ![r] = round[r] + 1]
      /\ UNCHANGED <<separated, output, transfers_in_progress>>
      /\ UNCHANGED <<writing, arrived, acking, acked>>
      /\ IF r = root THEN mem' = [mem EXCEPT ![r] = round'[r]] ELSE mem' = mem
  BY DEF ToAll!CopyIn, ToAll!copyIn, ToAll!endpointVars
<1>2. root \in ToAll!Ranks /\ ToAll!Channels = ToAll!Ranks \ {root} /\ Rounds \in Nat
  BY DEF ToAllParameters, ToAll!Channels
<1>3. ToAllTypeInv'
  BY <1>1, <1>2 DEF ToAllTypeInv, ToAll!EndpointTypeOK, ToAll!States
<1>4. Sent' = Sent /\ \A c \in ToAll!Channels : Received(c)' = Received(c)
  BY <1>1, <1>2 DEF ToAllTypeInv, Sent, Received, ToAll!States
<1>5. ToAllChannelInv'
  BY <1>1, <1>2, <1>4 DEF ToAllChannelInv, ToAllTypeInv, Open
<1>6. ToAllCountInv'
  <2>1. {c \in ToAll!Channels : Open(c)' > 0} = {c \in ToAll!Channels : Open(c) > 0}
    BY <1>1 DEF Open
  <2> QED
    BY <1>1, <1>2, <2>1 DEF ToAllCountInv, ToAllTypeInv
<1>7. ToAllInStep'
  BY <1>1, <1>2 DEF ToAllInStep, ToAllTypeInv, ToAll!PassedBarrier
<1>8. ToAllOutputInv'
  BY <1>1, <1>2 DEF ToAllOutputInv, ToAllTypeInv
<1> QED
  BY <1>3, <1>5, <1>6, <1>7, <1>8

(* start: the root posts one write on every channel. *)
LEMMA ToAllStartStep ==
  ASSUME ToAllParameters, ToAllInv, NEW r \in ToAll!Ranks, ToAll!Start(r)
  PROVE  ToAllInv'
<1> USE DEF ToAllInv
<1>1. /\ state[r] = "READY"
      /\ state' = [state EXCEPT ![r] = "RUNNING"]
      /\ UNCHANGED <<separated, round, output, mem, arrived, acking, acked>>
      /\ IF r = root
           THEN /\ writing' = [c \in ToAll!Channels |-> writing[c] + 1]
                /\ transfers_in_progress' = Cardinality(ToAll!Channels)
           ELSE UNCHANGED <<writing, transfers_in_progress>>
  BY SameCardinality DEF ToAll!Start, ToAll!start
<1>2. /\ root \in ToAll!Ranks /\ ToAll!Channels = ToAll!Ranks \ {root}
      /\ Rounds \in Nat /\ Medium \in Nat
  BY DEF ToAllParameters, ToAll!Channels
<1>3. Cardinality(ToAll!Channels) \in 0 .. Medium - 1
  BY ToAllFiniteChannels
<1>4. ToAllTypeInv'
  <2>1. writing' \in [ToAll!Channels -> Nat]
    BY <1>1 DEF ToAllTypeInv, ToAll!EndpointTypeOK
  <2>2. transfers_in_progress' \in 0 .. Medium - 1
    BY <1>1, <1>3 DEF ToAllTypeInv
  <2> QED
    BY <1>1, <1>2, <2>1, <2>2 DEF ToAllTypeInv, ToAll!EndpointTypeOK, ToAll!States
<1>5. /\ Sent' = IF r = root THEN Sent + 1 ELSE Sent
      /\ \A c \in ToAll!Channels : Received(c)' = Received(c)
  BY <1>1, <1>2 DEF ToAllTypeInv, Sent, Received, ToAll!States
<1>6. Sent \in Int /\ \A c \in ToAll!Channels : Received(c) \in Int
  BY <1>2 DEF ToAllTypeInv, Sent, Received
<1>7. ToAllChannelInv'
  BY <1>1, <1>2, <1>5, <1>6 DEF ToAllChannelInv, ToAllTypeInv, ToAll!EndpointTypeOK, Open
<1>8. ToAllCountInv'
  <2>1. CASE r = root
    <3>1. \A c \in ToAll!Channels : Open(c)' > 0
      BY <1>1, <2>1 DEF ToAllTypeInv, ToAll!EndpointTypeOK, Open
    <3>2. {c \in ToAll!Channels : Open(c)' > 0} = ToAll!Channels
      BY <3>1
    <3> QED
      BY <1>1, <2>1, <3>2 DEF ToAllCountInv, Open
  <2>2. CASE r # root
    <3>1. {c \in ToAll!Channels : Open(c)' > 0} = {c \in ToAll!Channels : Open(c) > 0}
      BY <1>1, <2>2 DEF Open
    <3> QED
      BY <1>1, <1>2, <2>2, <3>1 DEF ToAllCountInv, ToAllTypeInv
  <2> QED
    BY <2>1, <2>2
<1>9. ToAllInStep' /\ ToAllOutputInv'
  BY <1>1, <1>2 DEF ToAllInStep, ToAllOutputInv, ToAllTypeInv
<1> QED
  BY <1>4, <1>7, <1>8, <1>9

(* The acknowledgements that are there are counted, each once; with the    *)
(* last one the root is FINISHED.                                          *)
LEMMA ToAllRootStep ==
  ASSUME ToAllParameters, ToAllInv, ToAll!RootProgress \/ ToAll!RootCompletes
  PROVE  ToAllInv'
<1> USE DEF ToAllInv
<1> DEFINE T == {c \in ToAll!Channels : Open(c) > 0}
           A == {c \in ToAll!Channels : acked[c] # 0}
<1>1. /\ state[root] = "RUNNING"
      /\ \/ transfers_in_progress' # 0 /\ state' = state
         \/ transfers_in_progress' = 0 /\ state' = [state EXCEPT ![root] = "FINISHED"]
      /\ acked' = [c \in ToAll!Channels |-> 0]
      /\ transfers_in_progress' = transfers_in_progress - Cardinality(A)
      /\ UNCHANGED <<separated, round, output, mem, writing, arrived, acking>>
  BY SameCardinality DEF ToAll!RootProgress, ToAll!RootCompletes, ToAll!progress,
                         ToAll!complete, ToAll!CollectAcks
<1>2. /\ root \in ToAll!Ranks /\ ToAll!Channels = ToAll!Ranks \ {root}
      /\ Rounds \in Nat /\ Medium \in Nat
  BY DEF ToAllParameters, ToAll!Channels
<1>3. /\ \A c \in ToAll!Channels : Open(c) \in Nat /\ Open(c)' \in Nat
      /\ \A c \in ToAll!Channels : acked[c] # 0 => Open(c) = 1 /\ acked[c] = 1
      /\ \A c \in ToAll!Channels : Open(c)' = IF acked[c] # 0 THEN 0 ELSE Open(c)
  <2> SUFFICES ASSUME NEW c \in ToAll!Channels
               PROVE  /\ Open(c) \in Nat /\ Open(c)' \in Nat
                      /\ acked[c] # 0 => Open(c) = 1 /\ acked[c] = 1
                      /\ Open(c)' = IF acked[c] # 0 THEN 0 ELSE Open(c)
    OBVIOUS
  <2>1. writing[c] \in Nat /\ arrived[c] \in 0 .. 1 /\ acking[c] \in Nat /\ acked[c] \in 0 .. 1
    BY DEF ToAllTypeInv, ToAll!EndpointTypeOK
  <2>2. Open(c) <= 1
    BY DEF ToAllChannelInv
  <2>3. acked'[c] = 0 /\ UNCHANGED <<writing, arrived, acking>>
    BY <1>1
  <2> QED
    BY <2>1, <2>2, <2>3 DEF Open
<1>4. {c \in ToAll!Channels : Open(c)' > 0} = T \ A /\ A \subseteq T /\ A = T \cap A
  BY <1>3
<1>5. IsFiniteSet(T) /\ Cardinality(T) \in Nat
  BY ToAllFiniteChannels, <1>2
<1>6. IsFiniteSet(A) /\ Cardinality(A) \in Nat
  BY ToAllFiniteChannels, <1>2
<1>7. Cardinality(T \ A) = Cardinality(T) - Cardinality(A)
  <2> HIDE DEF T, A
  <2>1. Cardinality(T \ A) = Cardinality(T) - Cardinality(T \cap A)
    BY <1>5, FS_Difference
  <2> QED
    BY <1>4, <2>1
<1>8. transfers_in_progress = Cardinality(T)
  BY <1>1 DEF ToAllCountInv, Open
<1>9. transfers_in_progress' = Cardinality(T \ A)
  BY <1>1, <1>7, <1>8
<1>10. transfers_in_progress' = 0 => \A c \in ToAll!Channels : Open(c)' = 0
  <2>1. IsFiniteSet(T \ A)
    BY ToAllFiniteChannels
  <2>2. transfers_in_progress' = 0 => T \ A = {}
    BY <1>9, <2>1, FS_EmptySet
  <2> QED
    BY <1>3, <1>4, <2>2
<1>11. ToAllTypeInv'
  <2>1. transfers_in_progress' \in 0 .. Medium - 1
    BY <1>9, ToAllFiniteChannels
  <2> QED
    BY <1>1, <1>2, <2>1 DEF ToAllTypeInv, ToAll!EndpointTypeOK, ToAll!States
<1>12. Sent' = Sent /\ \A c \in ToAll!Channels : Received(c)' = Received(c)
  BY <1>1, <1>2 DEF ToAllTypeInv, Sent, Received, ToAll!States
<1>13. ToAllChannelInv'
  <2>1. \A c \in ToAll!Channels : Open(c) <= 1 => Open(c)' <= 1
    BY <1>3
  <2>2. state'[root] # "RUNNING" => transfers_in_progress' = 0
    BY <1>1
  <2> QED
    BY <1>1, <1>10, <1>12, <2>1, <2>2 DEF ToAllChannelInv
<1>14. ToAllCountInv'
  BY <1>4, <1>9 DEF ToAllCountInv, Open
<1>15. ToAllInStep' /\ ToAllOutputInv'
  BY <1>1, <1>2 DEF ToAllInStep, ToAllOutputInv, ToAllTypeInv
<1> QED
  BY <1>11, <1>13, <1>14, <1>15

(* A receiver consumes its notification and acknowledges. *)
LEMMA ToAllReceiveStep ==
  ASSUME ToAllParameters, ToAllInv, NEW r \in ToAll!Ranks, ToAll!Receive(r)
  PROVE  ToAllInv'
<1> USE DEF ToAllInv
<1>1. /\ r \in ToAll!Channels /\ r # root /\ state[r] = "RUNNING" /\ arrived[r] # 0
      /\ state' = [state EXCEPT ![r] = "FINISHED"]
      /\ arrived' = [arrived EXCEPT ![r] = 0]
      /\ acking' = [acking EXCEPT ![r] = acking[r] + 1]
      /\ UNCHANGED <<separated, round, output, transfers_in_progress, mem, writing, acked>>
  BY DEF ToAll!Receive, ToAll!complete, ToAll!targetCompletes, ToAll!ackTransfer, ToAll!Channels
<1>2. root \in ToAll!Ranks /\ ToAll!Channels = ToAll!Ranks \ {root} /\ Rounds \in Nat
  BY DEF ToAllParameters, ToAll!Channels
<1>3. ToAllTypeInv'
  BY <1>1, <1>2 DEF ToAllTypeInv, ToAll!EndpointTypeOK, ToAll!States
<1>4. \A c \in ToAll!Channels :
        /\ Open(c)' = Open(c)
        /\ Received(c)' = IF c = r THEN Received(c) + 1 ELSE Received(c)
        /\ writing[c] + arrived'[c] = IF c = r THEN writing[c] + arrived[c] - 1
                                               ELSE writing[c] + arrived[c]
  <2> SUFFICES ASSUME NEW c \in ToAll!Channels
               PROVE  /\ Open(c)' = Open(c)
                      /\ Received(c)' = IF c = r THEN Received(c) + 1 ELSE Received(c)
                      /\ writing[c] + arrived'[c] = IF c = r THEN writing[c] + arrived[c] - 1
                                                             ELSE writing[c] + arrived[c]
    OBVIOUS
  <2>1. writing[c] \in Nat /\ arrived[c] \in 0 .. 1 /\ acking[c] \in Nat /\ acked[c] \in 0 .. 1
    BY DEF ToAllTypeInv, ToAll!EndpointTypeOK
  <2>2. /\ arrived'[c] = IF c = r THEN 0 ELSE arrived[c]
        /\ acking'[c] = IF c = r THEN acking[c] + 1 ELSE acking[c]
    BY <1>1 DEF ToAllTypeInv, ToAll!EndpointTypeOK
  <2>3. Received(c)' = IF c = r THEN Received(c) + 1 ELSE Received(c)
    BY <1>1, <1>2 DEF ToAllTypeInv, Received, ToAll!States
  <2> QED
    BY <1>1, <2>1, <2>2, <2>3 DEF Open
<1>5. Sent' = Sent
  BY <1>1, <1>2 DEF ToAllTypeInv, Sent
<1>6. Sent \in Int /\ \A c \in ToAll!Channels : Received(c) \in Int
  BY <1>2 DEF ToAllTypeInv, Sent, Received
<1>7. ToAllChannelInv'
  BY <1>1, <1>2, <1>4, <1>5, <1>6 DEF ToAllChannelInv, ToAllTypeInv, ToAll!EndpointTypeOK
<1>8. ToAllCountInv'
  <2>1. {c \in ToAll!Channels : Open(c)' > 0} = {c \in ToAll!Channels : Open(c) > 0}
    BY <1>4
  <2> QED
    BY <1>1, <1>2, <2>1 DEF ToAllCountInv, Open, ToAllTypeInv
<1>9. ToAllInStep' /\ ToAllOutputInv'
  BY <1>1, <1>2 DEF ToAllInStep, ToAllOutputInv, ToAllTypeInv
<1> QED
  BY <1>3, <1>7, <1>8, <1>9

(* copyOut: with a barrier between executions the memory holds what the    *)
(* root has sent in this one.                                              *)
LEMMA ToAllCopyOutStep ==
  ASSUME ToAllParameters, ToAllInv, NEW r \in ToAll!Ranks, ToAll!CopyOut(r)
  PROVE  ToAllInv'
<1> USE DEF ToAllInv
<1>1. /\ state[r] = "FINISHED"
      /\ state' = [state EXCEPT ![r] = "INITIALIZED"]
      /\ output' = [output EXCEPT ![r] = mem[r]]
      /\ UNCHANGED <<separated, round, mem, transfers_in_progress>>
      /\ UNCHANGED <<writing, arrived, acking, acked>>
  BY DEF ToAll!CopyOut, ToAll!copyOut, ToAll!endpointVars
<1>2. root \in ToAll!Ranks /\ ToAll!Channels = ToAll!Ranks \ {root} /\ Rounds \in Nat
  BY DEF ToAllParameters, ToAll!Channels
<1>3. ToAllTypeInv'
  BY <1>1, <1>2 DEF ToAllTypeInv, ToAll!EndpointTypeOK, ToAll!States
<1>4. Sent' = Sent /\ \A c \in ToAll!Channels : Received(c)' = Received(c)
  BY <1>1, <1>2 DEF ToAllTypeInv, Sent, Received, ToAll!States
<1>5. ToAllChannelInv' /\ ToAllCountInv' /\ ToAllInStep'
  BY <1>1, <1>2, <1>4 DEF ToAllChannelInv, ToAllTypeInv, Open, ToAllCountInv, ToAllInStep
<1>6. separated => mem[r] = round[r]
  <2>1. CASE r = root
    BY <2>1 DEF ToAllOutputInv
  <2>2. CASE r # root /\ separated
    <3>1. r \in ToAll!Channels /\ Received(r) = round[r] /\ round[root] <= round[r]
      BY <1>1, <1>2, <2>2 DEF Received, ToAllInStep, ToAllTypeInv
    <3>2. Sent <= round[root] /\ Sent \in Int /\ round[r] \in Int /\ round[root] \in Int
      BY <1>2 DEF Sent, ToAllTypeInv
    <3>3. writing[r] \in Nat /\ arrived[r] \in Nat
      BY <3>1 DEF ToAllTypeInv, ToAll!EndpointTypeOK
    <3>4. writing[r] + arrived[r] = Sent - Received(r) /\ mem[r] = Sent - writing[r]
      BY <3>1 DEF ToAllChannelInv
    <3> QED
      BY <3>1, <3>2, <3>3, <3>4
  <2> QED
    BY <2>1, <2>2
<1>7. ToAllOutputInv'
  BY <1>1, <1>2, <1>6 DEF ToAllOutputInv, ToAllTypeInv
<1> QED
  BY <1>3, <1>5, <1>7

(* A write lands, and with it what the root's memory holds then. *)
LEMMA ToAllWriteStep ==
  ASSUME ToAllParameters, ToAllInv, NEW c \in ToAll!Channels, ToAll!WriteArrives(c)
  PROVE  ToAllInv'
<1> USE DEF ToAllInv
<1>1. /\ writing[c] > 0
      /\ writing' = [writing EXCEPT ![c] = writing[c] - 1]
      /\ arrived' = [arrived EXCEPT ![c] = 1]
      /\ mem' = [mem EXCEPT ![c] = mem[root]]
      /\ UNCHANGED <<acking, acked, separated, state, round, output, transfers_in_progress>>
  BY DEF ToAll!WriteArrives, ToAll!Transfer, ToAll!WriteLands
<1>2. root \in ToAll!Ranks /\ ToAll!Channels = ToAll!Ranks \ {root} /\ Rounds \in Nat
  BY DEF ToAllParameters, ToAll!Channels
<1>3. writing[c] = 1 /\ arrived[c] = 0 /\ state[root] = "RUNNING"
  <2>1. writing[c] \in Nat /\ arrived[c] \in 0 .. 1 /\ acking[c] \in Nat /\ acked[c] \in 0 .. 1
    BY DEF ToAllTypeInv, ToAll!EndpointTypeOK
  <2>2. Open(c) <= 1 /\ (state[root] # "RUNNING" => Open(c) = 0)
    BY DEF ToAllChannelInv
  <2> QED
    BY <1>1, <2>1, <2>2 DEF Open
<1>4. ToAllTypeInv'
  <2>1. writing' \in [ToAll!Channels -> Nat]
    BY <1>1, <1>3 DEF ToAllTypeInv, ToAll!EndpointTypeOK
  <2>2. arrived' \in [ToAll!Channels -> 0 .. 1]
    BY <1>1 DEF ToAllTypeInv, ToAll!EndpointTypeOK
  <2>3. mem' \in [ToAll!Ranks -> 0 .. Rounds]
    BY <1>1, <1>2 DEF ToAllTypeInv
  <2> QED
    BY <1>1, <2>1, <2>2, <2>3 DEF ToAllTypeInv, ToAll!EndpointTypeOK
<1>5. Sent' = Sent /\ \A d \in ToAll!Channels : Received(d)' = Received(d)
  BY <1>1 DEF Sent, Received
<1>6. \A d \in ToAll!Channels :
        /\ writing'[d] + arrived'[d] = writing[d] + arrived[d]
        /\ Open(d)' = Open(d)
        /\ mem'[d] = IF d = c THEN mem[root] ELSE mem[d]
        /\ writing'[d] = IF d = c THEN 0 ELSE writing[d]
  BY <1>1, <1>2, <1>3 DEF ToAllTypeInv, ToAll!EndpointTypeOK, Open
<1>7. ToAllChannelInv'
  <2>1. mem[root] = Sent /\ Sent \in Int
    BY <1>2, <1>3 DEF ToAllOutputInv, Sent, ToAllTypeInv
  <2> QED
    BY <1>1, <1>5, <1>6, <2>1 DEF ToAllChannelInv
<1>8. ToAllCountInv'
  <2>1. {d \in ToAll!Channels : Open(d)' > 0} = {d \in ToAll!Channels : Open(d) > 0}
    BY <1>6
  <2> QED
    BY <1>1, <2>1 DEF ToAllCountInv, Open
<1>9. ToAllInStep' /\ ToAllOutputInv'
  BY <1>1, <1>2 DEF ToAllInStep, ToAllOutputInv, ToAllTypeInv
<1> QED
  BY <1>4, <1>7, <1>8, <1>9

(* An acknowledgement lands. *)
LEMMA ToAllAckStep ==
  ASSUME ToAllParameters, ToAllInv, NEW c \in ToAll!Channels, ToAll!AckArrives(c)
  PROVE  ToAllInv'
<1> USE DEF ToAllInv
<1>1. /\ acking[c] > 0
      /\ acking' = [acking EXCEPT ![c] = acking[c] - 1]
      /\ acked' = [acked EXCEPT ![c] = 1]
      /\ UNCHANGED <<writing, arrived, transfers_in_progress>>
      /\ UNCHANGED <<separated, state, round, mem, output>>
  BY DEF ToAll!AckArrives, ToAll!Acknowledge, ToAll!AckLands, ToAll!collectiveVars
<1>2. acking[c] = 1 /\ acked[c] = 0
  <2>1. writing[c] \in Nat /\ arrived[c] \in 0 .. 1 /\ acking[c] \in Nat /\ acked[c] \in 0 .. 1
    BY DEF ToAllTypeInv, ToAll!EndpointTypeOK
  <2>2. Open(c) <= 1
    BY DEF ToAllChannelInv
  <2> QED
    BY <1>1, <2>1, <2>2 DEF Open
<1>3. ToAllTypeInv'
  <2>1. acking' \in [ToAll!Channels -> Nat]
    BY <1>1, <1>2 DEF ToAllTypeInv, ToAll!EndpointTypeOK
  <2>2. acked' \in [ToAll!Channels -> 0 .. 1]
    BY <1>1 DEF ToAllTypeInv, ToAll!EndpointTypeOK
  <2> QED
    BY <1>1, <2>1, <2>2 DEF ToAllTypeInv, ToAll!EndpointTypeOK
<1>4. Sent' = Sent /\ \A d \in ToAll!Channels : Received(d)' = Received(d)
  BY <1>1 DEF Sent, Received
<1>5. \A d \in ToAll!Channels : Open(d)' = Open(d)
  BY <1>1, <1>2 DEF ToAllTypeInv, ToAll!EndpointTypeOK, Open
<1>6. ToAllChannelInv'
  BY <1>1, <1>4, <1>5 DEF ToAllChannelInv
<1>7. ToAllCountInv'
  <2>1. {d \in ToAll!Channels : Open(d)' > 0} = {d \in ToAll!Channels : Open(d) > 0}
    BY <1>5
  <2> QED
    BY <1>1, <2>1 DEF ToAllCountInv, Open
<1>8. ToAllInStep' /\ ToAllOutputInv'
  BY <1>1 DEF ToAllInStep, ToAllOutputInv
<1> QED
  BY <1>3, <1>6, <1>7, <1>8

(* Every step preserves the invariant. *)
LEMMA ToAllNext == ToAllParameters /\ ToAllInv /\ [ToAll!Next]_ToAll!vars => ToAllInv'
<1> SUFFICES ASSUME ToAllParameters, ToAllInv, [ToAll!Next]_ToAll!vars PROVE ToAllInv'
  OBVIOUS
<1>1. CASE UNCHANGED ToAll!vars
  BY <1>1 DEF ToAll!vars, ToAll!collectiveVars, ToAll!endpointVars, ToAllInv, ToAllTypeInv,
              ToAll!EndpointTypeOK, ToAllChannelInv,
              Sent, Received, Open, ToAllCountInv, ToAllInStep, ToAllOutputInv
<1>2. CASE ToAll!Next
  BY <1>2, ToAllCopyInStep, ToAllStartStep, ToAllCopyOutStep, ToAllReceiveStep, ToAllRootStep,
     ToAllWriteStep, ToAllAckStep
     DEF ToAll!Next, ToAll!User
<1> QED
  BY <1>1, <1>2

(* What the invariant says about the properties of the collective. *)
LEMMA ToAllConsequences ==
  ASSUME ToAllParameters, ToAllInv
  PROVE  /\ ToAll!TypeOK /\ ToAll!NoNotificationLost
         /\ ToAll!SourcesReleased /\ ToAll!NothingLeftOver
         /\ ToAll!CountExact /\ ToAll!ResultsCorrect
<1> USE DEF ToAllInv
<1>1. \A c \in ToAll!Channels : /\ writing[c] \in Nat /\ arrived[c] \in 0 .. 1
                                /\ acking[c] \in Nat /\ acked[c] \in 0 .. 1
  BY DEF ToAllTypeInv, ToAll!EndpointTypeOK
<1>2. root \in ToAll!Ranks /\ Rounds \in Nat
  BY DEF ToAllParameters
<1>3. ToAll!NoNotificationLost
  BY <1>1 DEF ToAll!NoNotificationLost, ToAll!OneOutstanding, ToAllChannelInv, Open
<1>4. ToAll!SourcesReleased
  BY <1>1 DEF ToAll!SourcesReleased, ToAll!Released, ToAllChannelInv, Open
<1>5. ToAll!NothingLeftOver
  BY <1>1, <1>2 DEF ToAll!NothingLeftOver, ToAll!AllHaveResults, ToAll!HasResult, ToAll!Quiet,
                    ToAllChannelInv, Open
<1>6. ToAll!ResultsCorrect
  BY DEF ToAll!ResultsCorrect, ToAll!HasResult, ToAllOutputInv
<1>7. ToAll!TypeOK
  BY DEF ToAll!TypeOK, ToAllTypeInv
<1>8. ToAll!CountExact
  <2>1. {c \in ToAll!Channels : writing[c] + arrived[c] + acking[c] + acked[c] > 0}
          = {c \in ToAll!Channels : Open(c) > 0}
    BY DEF Open
  <2> QED
    BY <2>1, SameCardinality, Zenon DEF ToAll!CountExact, ToAllCountInv
<1> QED
  BY <1>3, <1>4, <1>5, <1>6, <1>7, <1>8
-----------------------------------------------------------------------------
(* What the constructor is given; a single rank has no ring. *)
AllgathervParameters == Small \in Nat \ {0, 1} /\ Rounds \in Nat

Left(r) == (r + Small - 1) % Small

(* The executions in which r has sent step i to the right, has received    *)
(* step i from the left, and has got the acknowledgement of the last step. *)
Sends(r, i) ==
  IF state[r] = "READY" \/ (state[r] = "RUNNING" /\ i > current_step[r])
  THEN round[r] - 1 ELSE round[r]
Gets(r, i) ==
  IF state[r] = "READY" \/ (state[r] = "RUNNING" /\ i >= current_step[r])
  THEN round[r] - 1 ELSE round[r]
Confirmed(r) ==
  IF state[r] \in {"READY", "RUNNING"} THEN round[r] - 1 ELSE round[r]

AllgathervTypeInv ==
  /\ Allgatherv!TypeOK
  /\ separated \in BOOLEAN
  /\ \A r \in Allgatherv!Ranks : state[r] # "INITIALIZED" => round[r] > 0

(* What has been posted on a channel and not been consumed.  Every step is *)
(* received in its turn, so the acknowledgement of the last one speaks for *)
(* all of them.                                                            *)
AllgathervChannelInv ==
  \A r \in Allgatherv!Ranks : \A i \in 0 .. Small - 2 :
    /\ writing[<<r, i>>] + arrived[<<r, i>>] = Sends(r, i) - Gets(Allgatherv!Right(r), i)
    /\ acking[<<r, i>>] + acked[<<r, i>>] =
         IF i = Small - 2 THEN Gets(Allgatherv!Right(r), i) - Confirmed(r) ELSE 0

(* Nobody begins an execution before all have left the one before. *)
AllgathervInStep ==
  separated => \A q, r \in Allgatherv!Ranks :
    round[r] > round[q] => round[r] = round[q] + 1 /\ state[q] = "INITIALIZED"

(* The execution whose block is in location <<r, j>>. *)
Landed(r, j) ==
  IF j = 0 THEN round[r]
  ELSE Sends(Left(r), j - 1) - writing[<<Left(r), j - 1>>]

AllgathervMemoryInv ==
  separated => \A r \in Allgatherv!Ranks : \A j \in 0 .. Small - 1 :
    mem[<<r, j>>] = IF Landed(r, j) = 0 THEN Allgatherv!NoData
                                        ELSE <<(r + Small - j) % Small, Landed(r, j)>>

AllgathervInv ==
  /\ AllgathervTypeInv /\ AllgathervChannelInv /\ AllgathervInStep /\ AllgathervMemoryInv
  /\ Allgatherv!ResultsCorrect

(* The ring: the neighbours, and whose block is where. *)
LEMMA AllgathervRingFacts ==
  ASSUME AllgathervParameters
  PROVE  /\ \A r \in Allgatherv!Ranks : /\ Allgatherv!Right(r) \in Allgatherv!Ranks
                                        /\ Left(r) \in Allgatherv!Ranks
                                        /\ Allgatherv!Right(Left(r)) = r
                                        /\ Left(Allgatherv!Right(r)) = r
                                        /\ Left(r) # r /\ Allgatherv!Right(r) # r
         /\ \A q, r \in Allgatherv!Ranks : /\ (r + Small - q) % Small \in 0 .. Small - 1
                                           /\ (r + Small - ((r + Small - q) % Small)) % Small = q
                                           /\ (r + Small - q) % Small = 0 <=> q = r
         /\ \A r \in Allgatherv!Ranks : (r + Small - 0) % Small = r
         /\ \A r \in Allgatherv!Ranks, i \in 0 .. Small - 2 :
              (Allgatherv!Right(r) + Small - (i + 1)) % Small = (r + Small - i) % Small
<1>1. ASSUME NEW a \in 0 .. 2 * Small - 1 PROVE a % Small = IF a < Small THEN a ELSE a - Small
  BY DEF AllgathervParameters
<1>2. \A r \in Allgatherv!Ranks : /\ Allgatherv!Right(r) = IF r = Small - 1 THEN 0 ELSE r + 1
                                  /\ Left(r) = IF r = 0 THEN Small - 1 ELSE r - 1
  <2> SUFFICES ASSUME NEW r \in Allgatherv!Ranks
               PROVE  /\ Allgatherv!Right(r) = IF r = Small - 1 THEN 0 ELSE r + 1
                      /\ Left(r) = IF r = 0 THEN Small - 1 ELSE r - 1
    OBVIOUS
  <2>1. r + 1 \in 0 .. 2 * Small - 1 /\ r + Small - 1 \in 0 .. 2 * Small - 1
    BY DEF AllgathervParameters, Allgatherv!Ranks
  <2> QED
    BY <1>1, <2>1 DEF AllgathervParameters, Allgatherv!Ranks, Allgatherv!Right, Left
<1>3. \A q, r \in Allgatherv!Ranks :
        (r + Small - q) % Small = IF q <= r THEN r - q ELSE r + Small - q
  <2> SUFFICES ASSUME NEW q \in Allgatherv!Ranks, NEW r \in Allgatherv!Ranks
               PROVE  (r + Small - q) % Small = IF q <= r THEN r - q ELSE r + Small - q
    OBVIOUS
  <2>1. r + Small - q \in 0 .. 2 * Small - 1
    BY DEF AllgathervParameters, Allgatherv!Ranks
  <2> QED
    BY <1>1, <2>1 DEF AllgathervParameters, Allgatherv!Ranks
<1>4. \A r \in Allgatherv!Ranks : /\ Allgatherv!Right(r) \in Allgatherv!Ranks
                                  /\ Left(r) \in Allgatherv!Ranks
                                  /\ Allgatherv!Right(Left(r)) = r /\ Left(Allgatherv!Right(r)) = r
                                  /\ Left(r) # r /\ Allgatherv!Right(r) # r
  <2>1. \A r \in Allgatherv!Ranks : /\ Allgatherv!Right(r) \in Allgatherv!Ranks
                                    /\ Left(r) \in Allgatherv!Ranks
    BY <1>2 DEF AllgathervParameters, Allgatherv!Ranks
  <2> QED
    BY <1>2, <2>1 DEF AllgathervParameters, Allgatherv!Ranks
<1>5. \A q, r \in Allgatherv!Ranks : /\ (r + Small - q) % Small \in 0 .. Small - 1
                                     /\ (r + Small - ((r + Small - q) % Small)) % Small = q
                                     /\ (r + Small - q) % Small = 0 <=> q = r
  <2> SUFFICES ASSUME NEW q \in Allgatherv!Ranks, NEW r \in Allgatherv!Ranks
               PROVE  /\ (r + Small - q) % Small \in 0 .. Small - 1
                      /\ (r + Small - ((r + Small - q) % Small)) % Small = q
                      /\ (r + Small - q) % Small = 0 <=> q = r
    OBVIOUS
  <2> DEFINE x == IF q <= r THEN r - q ELSE r + Small - q
  <2>1. (r + Small - q) % Small = x
    BY <1>3
  <2>2. x \in Allgatherv!Ranks /\ (x = 0 <=> q = r)
    BY DEF AllgathervParameters, Allgatherv!Ranks
  <2>3. (r + Small - x) % Small = IF x <= r THEN r - x ELSE r + Small - x
    BY <1>3, <2>2
  <2>4. (r + Small - x) % Small = q
    BY <2>3 DEF AllgathervParameters, Allgatherv!Ranks
  <2> HIDE DEF x
  <2>5. (r + Small - ((r + Small - q) % Small)) % Small = q
    BY <2>1, <2>4, Zenon
  <2>6. x \in 0 .. Small - 1
    BY <2>2 DEF Allgatherv!Ranks
  <2> QED
    BY <2>1, <2>2, <2>5, <2>6, Zenon
<1>6. \A r \in Allgatherv!Ranks : (r + Small - 0) % Small = r
  BY <1>3 DEF AllgathervParameters, Allgatherv!Ranks
<1>7. ASSUME NEW r \in Allgatherv!Ranks, NEW i \in 0 .. Small - 2
      PROVE  (Allgatherv!Right(r) + Small - (i + 1)) % Small = (r + Small - i) % Small
  <2>1. /\ i \in Allgatherv!Ranks /\ i + 1 \in Allgatherv!Ranks
        /\ Allgatherv!Right(r) \in Allgatherv!Ranks
    BY <1>4 DEF AllgathervParameters, Allgatherv!Ranks
  <2>2. (r + Small - i) % Small = IF i <= r THEN r - i ELSE r + Small - i
    BY <1>3, <2>1
  <2>3. (Allgatherv!Right(r) + Small - (i + 1)) % Small
          = IF i + 1 <= Allgatherv!Right(r) THEN Allgatherv!Right(r) - (i + 1)
                                            ELSE Allgatherv!Right(r) + Small - (i + 1)
    BY <1>3, <2>1
  <2> QED
    BY <1>2, <2>2, <2>3 DEF AllgathervParameters, Allgatherv!Ranks
<1> QED
  BY <1>4, <1>5, <1>6, <1>7

LEMMA AllgathervSides ==
  ASSUME AllgathervParameters, NEW r \in Allgatherv!Ranks
  PROVE  /\ Allgatherv!Right(r) \in Allgatherv!Ranks /\ Left(r) \in Allgatherv!Ranks
         /\ Allgatherv!Right(Left(r)) = r /\ Left(Allgatherv!Right(r)) = r
         /\ Left(r) # r /\ Allgatherv!Right(r) # r
BY AllgathervRingFacts

(* The counts of one rank are within one execution of each other, and a    *)
(* rank receives and sends the steps in their order.                       *)
LEMMA AllgathervCounts ==
  ASSUME AllgathervParameters, AllgathervTypeInv, NEW r \in Allgatherv!Ranks,
         NEW i \in 0 .. Small - 2
  PROVE  /\ Sends(r, i) \in Nat /\ Gets(r, i) \in Nat /\ Confirmed(r) \in Nat
         /\ round[r] \in Nat /\ round[r] - 1 <= Confirmed(r) /\ Confirmed(r) <= round[r]
         /\ Sends(r, i) <= round[r] /\ Gets(r, i) <= round[r]
         /\ Gets(r, Small - 2) <= Gets(r, i)
         /\ writing[<<r, i>>] \in Nat /\ arrived[<<r, i>>] \in 0 .. 1
         /\ acking[<<r, i>>] \in Nat /\ acked[<<r, i>>] \in 0 .. 1
<1>1. <<r, i>> \in Allgatherv!Channels
  BY DEF Allgatherv!Channels
<1>2. /\ writing[<<r, i>>] \in Nat /\ arrived[<<r, i>>] \in 0 .. 1
      /\ acking[<<r, i>>] \in Nat /\ acked[<<r, i>>] \in 0 .. 1
  BY <1>1 DEF AllgathervTypeInv, Allgatherv!TypeOK, Allgatherv!EndpointTypeOK
<1>3. /\ round[r] \in Nat /\ current_step[r] \in Nat
      /\ state[r] # "INITIALIZED" => round[r] > 0
  BY DEF AllgathervTypeInv, Allgatherv!TypeOK, AllgathervParameters
<1> QED
  BY <1>2, <1>3 DEF Sends, Gets, Confirmed, AllgathervParameters

(* At most one notification is on its way in either direction, and none    *)
(* once the sender has got the acknowledgement of the last step.           *)
LEMMA AllgathervBounded ==
  ASSUME AllgathervParameters, AllgathervTypeInv, AllgathervChannelInv, NEW r \in Allgatherv!Ranks,
         NEW i \in 0 .. Small - 2
  PROVE  /\ writing[<<r, i>>] + arrived[<<r, i>>] <= 1
         /\ acking[<<r, i>>] + acked[<<r, i>>] <= 1
         /\ Confirmed(r) = round[r] =>
              /\ writing[<<r, i>>] + arrived[<<r, i>>] = 0
              /\ acking[<<r, i>>] + acked[<<r, i>>] = 0
<1> DEFINE q == Allgatherv!Right(r)
           n == Small - 2
<1>1. q \in Allgatherv!Ranks /\ n \in 0 .. Small - 2
  BY AllgathervSides DEF AllgathervParameters
<1>2. /\ writing[<<r, i>>] + arrived[<<r, i>>] = Sends(r, i) - Gets(q, i)
      /\ acking[<<r, i>>] + acked[<<r, i>>] = IF i = n THEN Gets(q, i) - Confirmed(r) ELSE 0
      /\ writing[<<r, n>>] + arrived[<<r, n>>] = Sends(r, n) - Gets(q, n)
      /\ acking[<<r, n>>] + acked[<<r, n>>] = Gets(q, n) - Confirmed(r)
  BY <1>1 DEF AllgathervChannelInv
<1>3. /\ Sends(r, i) \in Nat /\ Confirmed(r) \in Nat /\ round[r] \in Nat
      /\ round[r] - 1 <= Confirmed(r) /\ Confirmed(r) <= round[r] /\ Sends(r, i) <= round[r]
      /\ writing[<<r, i>>] \in Nat /\ arrived[<<r, i>>] \in Nat
      /\ acking[<<r, i>>] \in Nat /\ acked[<<r, i>>] \in Nat
  BY AllgathervCounts
<1>4. /\ Sends(r, n) \in Nat /\ Sends(r, n) <= round[r]
      /\ writing[<<r, n>>] \in Nat /\ arrived[<<r, n>>] \in Nat
      /\ acking[<<r, n>>] \in Nat /\ acked[<<r, n>>] \in Nat
  BY <1>1, AllgathervCounts
<1>5. /\ Gets(q, i) \in Nat /\ Gets(q, n) \in Nat /\ Gets(q, n) <= Gets(q, i)
  BY <1>1, AllgathervCounts
<1> HIDE DEF q, n
<1>6. /\ writing[<<r, i>>] + arrived[<<r, i>>] <= 1
      /\ Confirmed(r) = round[r] => writing[<<r, i>>] + arrived[<<r, i>>] = 0
  BY <1>2, <1>3, <1>4, <1>5
<1>7. /\ acking[<<r, i>>] + acked[<<r, i>>] <= 1
      /\ Confirmed(r) = round[r] => acking[<<r, i>>] + acked[<<r, i>>] = 0
  <2>1. /\ acking[<<r, n>>] + acked[<<r, n>>] <= 1
        /\ Confirmed(r) = round[r] => acking[<<r, n>>] + acked[<<r, n>>] = 0
    <3>1. /\ writing[<<r, n>>] + arrived[<<r, n>>] = Sends(r, n) - Gets(q, n)
          /\ acking[<<r, n>>] + acked[<<r, n>>] = Gets(q, n) - Confirmed(r)
      BY <1>2
    <3>2. /\ Confirmed(r) \in Nat /\ round[r] \in Nat /\ round[r] - 1 <= Confirmed(r)
          /\ Gets(q, n) \in Nat
      BY <1>3, <1>5
    <3>3. Gets(q, n) <= round[r]
      BY <1>4, <3>1, <3>2
    <3>4. acking[<<r, n>>] + acked[<<r, n>>] \in Nat
      BY <1>4
    <3> QED
      BY <3>1, <3>2, <3>3, <3>4
  <2>2. CASE i # n
    BY <1>2, <2>2
  <2> QED
    BY <2>1, <2>2, Zenon
<1> QED
  BY <1>6, <1>7

(* The invariant holds after waitForSetup. *)
LEMMA AllgathervInit == AllgathervParameters /\ Allgatherv!Init => AllgathervInv
<1> SUFFICES ASSUME AllgathervParameters, Allgatherv!Init PROVE AllgathervInv
  OBVIOUS
<1> USE DEF Allgatherv!Init, Allgatherv!Setup, Allgatherv!Connected
<1>1. AllgathervTypeInv
  <2>1. 0 \in 0 .. Rounds /\ 0 \in 0 .. Small - 1
    BY DEF AllgathervParameters
  <2>2. Allgatherv!EndpointTypeOK(Allgatherv!Channels)
    BY DEF Allgatherv!EndpointTypeOK
  <2> QED
    BY <2>1, <2>2 DEF AllgathervTypeInv, Allgatherv!TypeOK, Allgatherv!States
<1>2. ASSUME NEW r \in Allgatherv!Ranks, NEW i \in 0 .. Small - 2
      PROVE  /\ writing[<<r, i>>] = 0 /\ arrived[<<r, i>>] = 0
             /\ acking[<<r, i>>] = 0 /\ acked[<<r, i>>] = 0
             /\ Sends(r, i) = 0 /\ Gets(r, i) = 0 /\ Confirmed(r) = 0
  BY DEF Allgatherv!Channels, Sends, Gets, Confirmed
<1>3. AllgathervChannelInv
  <2> SUFFICES ASSUME NEW q \in Allgatherv!Ranks, NEW i \in 0 .. Small - 2
               PROVE  /\ writing[<<q, i>>] + arrived[<<q, i>>]
                           = Sends(q, i) - Gets(Allgatherv!Right(q), i)
                      /\ acking[<<q, i>>] + acked[<<q, i>>] =
                           IF i = Small - 2 THEN Gets(Allgatherv!Right(q), i) - Confirmed(q) ELSE 0
    BY DEF AllgathervChannelInv
  <2>1. Allgatherv!Right(q) \in Allgatherv!Ranks
    BY AllgathervSides
  <2>2. Gets(Allgatherv!Right(q), i) = 0
    BY <1>2, <2>1
  <2> QED
    BY <1>2, <2>2
<1>4. AllgathervMemoryInv
  <2> SUFFICES ASSUME NEW r \in Allgatherv!Ranks, NEW j \in 0 .. Small - 1
               PROVE  Landed(r, j) = 0 /\ mem[<<r, j>>] = Allgatherv!NoData
    BY DEF AllgathervMemoryInv
  <2>1. j # 0 => j - 1 \in 0 .. Small - 2
    BY DEF AllgathervParameters
  <2>2. Landed(r, j) = 0
    BY <1>2, <2>1, AllgathervSides DEF Landed
  <2> QED
    BY <2>2 DEF Allgatherv!Locations
<1>5. AllgathervInStep /\ Allgatherv!ResultsCorrect
  BY DEF AllgathervInStep, Allgatherv!ResultsCorrect, Allgatherv!ReuseCorrect,
         Allgatherv!HasResult
<1> QED
  BY <1>1, <1>3, <1>4, <1>5 DEF AllgathervInv

(* A step that leaves the memory alone and sends as much as it posts keeps *)
(* what is said of the memory.                                             *)
LEMMA AllgathervMemoryKept ==
  ASSUME AllgathervParameters, AllgathervMemoryInv, UNCHANGED <<separated, round, mem>>,
         \A r \in Allgatherv!Ranks, i \in 0 .. Small - 2 :
           Sends(r, i)' - writing'[<<r, i>>] = Sends(r, i) - writing[<<r, i>>]
  PROVE  AllgathervMemoryInv'
<1> SUFFICES ASSUME NEW r \in Allgatherv!Ranks, NEW j \in 0 .. Small - 1
             PROVE  Landed(r, j)' = Landed(r, j)
  BY DEF AllgathervMemoryInv
<1>1. CASE j = 0
  BY <1>1 DEF Landed
<1>2. CASE j # 0
  <2>1. j - 1 \in 0 .. Small - 2 /\ Left(r) \in Allgatherv!Ranks
    BY <1>2, AllgathervSides DEF AllgathervParameters
  <2> QED
    BY <1>2, <2>1 DEF Landed
<1> QED
  BY <1>1, <1>2

(* copyIn begins an execution. *)
LEMMA AllgathervCopyInStep ==
  ASSUME AllgathervParameters, AllgathervInv, NEW r \in Allgatherv!Ranks, Allgatherv!CopyIn(r)
  PROVE  AllgathervInv'
<1> USE DEF AllgathervInv
<1>1. /\ state[r] = "INITIALIZED" /\ round[r] < Rounds
      /\ separated => Allgatherv!PassedBarrier(r)
      /\ state' = [state EXCEPT ![r] = "READY"]
      /\ round' = [round EXCEPT ![r] = round[r] + 1]
      /\ mem' = [mem EXCEPT ![<<r, 0>>] = <<r, round'[r]>>]
      /\ UNCHANGED <<separated, output, current_step, writing, arrived, acking, acked>>
  BY DEF Allgatherv!CopyIn, Allgatherv!copyIn, Allgatherv!endpointVars
<1>2. /\ round \in [Allgatherv!Ranks -> 0 .. Rounds]
      /\ state \in [Allgatherv!Ranks -> Allgatherv!States] /\ Rounds \in Nat
      /\ mem \in [Allgatherv!Locations ->
                    {Allgatherv!NoData} \cup (Allgatherv!Ranks \X (1 .. Rounds))]
  BY DEF AllgathervParameters, AllgathervTypeInv, Allgatherv!TypeOK
<1>3. AllgathervTypeInv'
  <2>1. /\ round' \in [Allgatherv!Ranks -> 0 .. Rounds] /\ round'[r] \in 1 .. Rounds
        /\ round'[r] = round[r] + 1
    BY <1>1, <1>2
  <2>2. state' \in [Allgatherv!Ranks -> Allgatherv!States]
    BY <1>1, <1>2 DEF Allgatherv!States
  <2>3. mem' \in [Allgatherv!Locations ->
                    {Allgatherv!NoData} \cup (Allgatherv!Ranks \X (1 .. Rounds))]
    BY <1>1, <1>2, <2>1
  <2>4. \A q \in Allgatherv!Ranks : state'[q] # "INITIALIZED" => round'[q] > 0
    BY <1>1, <1>2 DEF AllgathervTypeInv
  <2>5. Allgatherv!EndpointTypeOK(Allgatherv!Channels)'
    BY <1>1 DEF AllgathervTypeInv, Allgatherv!TypeOK, Allgatherv!EndpointTypeOK
  <2> QED
    BY <1>1, <2>1, <2>2, <2>3, <2>4, <2>5 DEF AllgathervTypeInv, Allgatherv!TypeOK
<1>4. \A q \in Allgatherv!Ranks, i \in 0 .. Small - 2 :
        Sends(q, i)' = Sends(q, i) /\ Gets(q, i)' = Gets(q, i) /\ Confirmed(q)' = Confirmed(q)
  BY <1>1, <1>2 DEF Sends, Gets, Confirmed
<1>5. AllgathervChannelInv'
  <2> SUFFICES ASSUME NEW q \in Allgatherv!Ranks, NEW i \in 0 .. Small - 2
               PROVE  /\ writing'[<<q, i>>] + arrived'[<<q, i>>]
                           = Sends(q, i)' - Gets(Allgatherv!Right(q), i)'
                      /\ acking'[<<q, i>>] + acked'[<<q, i>>] =
                           IF i = Small - 2 THEN Gets(Allgatherv!Right(q), i)' - Confirmed(q)'
                                            ELSE 0
    BY DEF AllgathervChannelInv
  <2>1. Allgatherv!Right(q) \in Allgatherv!Ranks
    BY AllgathervSides
  <2> QED
    BY <1>1, <1>4, <2>1 DEF AllgathervChannelInv
<1>6. AllgathervInStep'
  BY <1>1, <1>2 DEF AllgathervInStep, Allgatherv!PassedBarrier
<1>7. AllgathervMemoryInv'
  <2> SUFFICES ASSUME separated, NEW q \in Allgatherv!Ranks, NEW j \in 0 .. Small - 1
               PROVE  mem'[<<q, j>>] = IF Landed(q, j)' = 0 THEN Allgatherv!NoData
                                       ELSE <<(q + Small - j) % Small, Landed(q, j)'>>
    BY <1>1 DEF AllgathervMemoryInv
  <2>1. <<q, j>> \in Allgatherv!Locations /\ <<r, 0>> \in Allgatherv!Locations
    BY DEF Allgatherv!Locations, AllgathervParameters
  <2>2. CASE q = r /\ j = 0
    <3>1. Landed(q, j)' = round[r] + 1 /\ round[r] + 1 # 0 /\ (q + Small - j) % Small = r
      BY <1>1, <1>2, <2>2, AllgathervRingFacts DEF Landed
    <3> QED
      BY <1>1, <1>2, <2>1, <2>2, <3>1
  <2>3. CASE ~(q = r /\ j = 0)
    <3>1. mem'[<<q, j>>] = mem[<<q, j>>]
      BY <1>1, <1>2, <2>1, <2>3
    <3>2. CASE j = 0
      BY <1>1, <1>2, <2>3, <3>1, <3>2 DEF AllgathervMemoryInv, Landed
    <3>3. CASE j # 0
      <4>1. j - 1 \in 0 .. Small - 2 /\ Left(q) \in Allgatherv!Ranks
        BY <3>3, AllgathervSides DEF AllgathervParameters
      <4>2. Landed(q, j)' = Landed(q, j)
        BY <1>1, <1>4, <3>3, <4>1 DEF Landed
      <4> QED
        BY <3>1, <4>2 DEF AllgathervMemoryInv
    <3> QED
      BY <3>2, <3>3
  <2> QED
    BY <2>2, <2>3
<1>8. Allgatherv!ResultsCorrect'
  BY <1>1, <1>2 DEF Allgatherv!ResultsCorrect, Allgatherv!ReuseCorrect, Allgatherv!HasResult
<1> QED
  BY <1>3, <1>5, <1>6, <1>7, <1>8

(* start posts the first step. *)
LEMMA AllgathervStartStep ==
  ASSUME AllgathervParameters, AllgathervInv, NEW r \in Allgatherv!Ranks, Allgatherv!Start(r)
  PROVE  AllgathervInv'
<1> USE DEF AllgathervInv
<1>1. /\ state[r] = "READY"
      /\ state' = [state EXCEPT ![r] = "RUNNING"]
      /\ current_step' = [current_step EXCEPT ![r] = 0]
      /\ writing' = [writing EXCEPT ![<<r, 0>>] = writing[<<r, 0>>] + 1]
      /\ UNCHANGED <<separated, round, output, mem, arrived, acking, acked>>
  BY DEF Allgatherv!Start, Allgatherv!start, Allgatherv!initTransfer
<1>2. /\ state \in [Allgatherv!Ranks -> Allgatherv!States]
      /\ current_step \in [Allgatherv!Ranks -> 0 .. Small - 1]
      /\ writing \in [Allgatherv!Channels -> Nat] /\ <<r, 0>> \in Allgatherv!Channels
      /\ 0 \in 0 .. Small - 1
      /\ 0 \in 0 .. Small - 2
  BY DEF AllgathervParameters, AllgathervTypeInv, Allgatherv!TypeOK, Allgatherv!EndpointTypeOK,
         Allgatherv!Channels
<1>3. AllgathervTypeInv'
  <2>1. writing' \in [Allgatherv!Channels -> Nat]
    BY <1>1, <1>2
  <2>2. /\ state' \in [Allgatherv!Ranks -> Allgatherv!States]
        /\ current_step' \in [Allgatherv!Ranks -> 0 .. Small - 1]
    BY <1>1, <1>2 DEF Allgatherv!States
  <2>3. \A q \in Allgatherv!Ranks : state'[q] # "INITIALIZED" => round'[q] > 0
    BY <1>1, <1>2 DEF AllgathervTypeInv
  <2> QED
    BY <1>1, <2>1, <2>2, <2>3 DEF AllgathervTypeInv, Allgatherv!TypeOK, Allgatherv!EndpointTypeOK
<1>4. ASSUME NEW q \in Allgatherv!Ranks, NEW i \in 0 .. Small - 2
      PROVE  /\ Sends(q, i)' = IF q = r /\ i = 0 THEN Sends(q, i) + 1 ELSE Sends(q, i)
             /\ writing'[<<q, i>>] = IF q = r /\ i = 0 THEN writing[<<q, i>>] + 1
                                                       ELSE writing[<<q, i>>]
             /\ Gets(q, i)' = Gets(q, i) /\ Confirmed(q)' = Confirmed(q)
  <2>1. <<q, i>> \in Allgatherv!Channels
    BY DEF Allgatherv!Channels
  <2>2. writing'[<<q, i>>] = IF q = r /\ i = 0 THEN writing[<<q, i>>] + 1 ELSE writing[<<q, i>>]
    BY <1>1, <1>2, <2>1
  <2>3. round[q] \in Int
    BY DEF AllgathervTypeInv, Allgatherv!TypeOK
  <2> QED
    BY <1>1, <1>2, <2>2, <2>3 DEF Sends, Gets, Confirmed
<1>5. AllgathervChannelInv'
  <2> SUFFICES ASSUME NEW q \in Allgatherv!Ranks, NEW i \in 0 .. Small - 2
               PROVE  /\ writing'[<<q, i>>] + arrived'[<<q, i>>]
                           = Sends(q, i)' - Gets(Allgatherv!Right(q), i)'
                      /\ acking'[<<q, i>>] + acked'[<<q, i>>] =
                           IF i = Small - 2 THEN Gets(Allgatherv!Right(q), i)' - Confirmed(q)'
                                            ELSE 0
    BY DEF AllgathervChannelInv
  <2>1. Allgatherv!Right(q) \in Allgatherv!Ranks
    BY AllgathervSides
  <2>2. Sends(q, i) \in Nat /\ writing[<<q, i>>] \in Nat /\ arrived[<<q, i>>] \in Nat
    BY AllgathervCounts
  <2>3. Gets(Allgatherv!Right(q), i) \in Nat
    BY <2>1, AllgathervCounts
  <2>4. /\ writing[<<q, i>>] + arrived[<<q, i>>] = Sends(q, i) - Gets(Allgatherv!Right(q), i)
        /\ acking[<<q, i>>] + acked[<<q, i>>] =
             IF i = Small - 2 THEN Gets(Allgatherv!Right(q), i) - Confirmed(q) ELSE 0
    BY DEF AllgathervChannelInv
  <2>5. Gets(Allgatherv!Right(q), i)' = Gets(Allgatherv!Right(q), i)
    BY <1>4, <2>1
  <2>6. writing'[<<q, i>>] + arrived'[<<q, i>>] = Sends(q, i)' - Gets(Allgatherv!Right(q), i)'
    BY <1>1, <1>4, <2>2, <2>3, <2>4, <2>5
  <2> QED
    BY <1>1, <1>4, <2>4, <2>5, <2>6
<1>6. AllgathervMemoryInv'
  <2>1. ASSUME NEW q \in Allgatherv!Ranks, NEW i \in 0 .. Small - 2
        PROVE  Sends(q, i)' - writing'[<<q, i>>] = Sends(q, i) - writing[<<q, i>>]
    BY <1>4, AllgathervCounts
  <2> QED
    BY <1>1, <2>1, AllgathervMemoryKept
<1>7. AllgathervInStep' /\ Allgatherv!ResultsCorrect'
  BY <1>1, <1>2 DEF AllgathervInStep, Allgatherv!ResultsCorrect, Allgatherv!ReuseCorrect,
                    Allgatherv!HasResult
<1> QED
  BY <1>3, <1>5, <1>6, <1>7

(* A step from the left is consumed, and forwarded or acknowledged. *)
LEMMA AllgathervReceiveStep ==
  ASSUME AllgathervParameters, AllgathervInv, NEW r \in Allgatherv!Ranks, Allgatherv!Receive(r)
  PROVE  AllgathervInv'
<1> USE DEF AllgathervInv
<1> DEFINE s == current_step[r]
           l == Left(r)
<1>1. /\ state[r] = "RUNNING" /\ s # Small - 1 /\ arrived[<<l, s>>] # 0
      /\ arrived' = [arrived EXCEPT ![<<l, s>>] = 0]
      /\ current_step' = [current_step EXCEPT ![r] = s + 1]
      /\ IF s + 1 = Small - 1
           THEN acking' = [acking EXCEPT ![<<l, s>>] = acking[<<l, s>>] + 1] /\ writing' = writing
           ELSE /\ writing' = [writing EXCEPT ![<<r, s + 1>>] = writing[<<r, s + 1>>] + 1]
                /\ acking' = acking
      /\ UNCHANGED <<separated, state, round, output, mem, acked>>
  BY DEF Allgatherv!Receive, Allgatherv!progress, Allgatherv!is_last_step,
         Allgatherv!targetCompletes, Allgatherv!ackTransfer, Allgatherv!initTransfer,
            Allgatherv!Into, Left
<1>2. /\ current_step \in [Allgatherv!Ranks -> 0 .. Small - 1]
      /\ writing \in [Allgatherv!Channels -> Nat]
      /\ arrived \in [Allgatherv!Channels -> 0 .. 1] /\ acking \in [Allgatherv!Channels -> Nat]
  BY DEF AllgathervTypeInv, Allgatherv!TypeOK, Allgatherv!EndpointTypeOK
<1>3. /\ Small \in Nat /\ s \in 0 .. Small - 2 /\ l \in Allgatherv!Ranks
      /\ <<l, s>> \in Allgatherv!Channels
      /\ s + 1 # Small - 1 => s + 1 \in 0 .. Small - 2 /\ <<r, s + 1>> \in Allgatherv!Channels
  <2>1. Small \in Nat /\ s \in 0 .. Small - 2 /\ l \in Allgatherv!Ranks
    BY <1>1, <1>2, AllgathervSides DEF AllgathervParameters
  <2>2. s + 1 # Small - 1 => s + 1 \in 0 .. Small - 2
    BY <2>1
  <2> QED
    BY <2>1, <2>2 DEF Allgatherv!Channels
<1> HIDE DEF s, l
<1>4. AllgathervTypeInv'
  <2>1. writing' \in [Allgatherv!Channels -> Nat]
    BY <1>1, <1>2, <1>3
  <2>2. arrived' \in [Allgatherv!Channels -> 0 .. 1]
    BY <1>1, <1>2, <1>3
  <2>3. acking' \in [Allgatherv!Channels -> Nat]
    BY <1>1, <1>2, <1>3
  <2>4. current_step' \in [Allgatherv!Ranks -> 0 .. Small - 1]
    <3>1. s + 1 \in 0 .. Small - 1
      BY <1>3
    <3> QED
      BY <1>1, <1>2, <3>1
  <2> QED
    BY <1>1, <2>1, <2>2, <2>3, <2>4 DEF AllgathervTypeInv, Allgatherv!TypeOK,
                                        Allgatherv!EndpointTypeOK
<1>5. ASSUME NEW q \in Allgatherv!Ranks, NEW i \in 0 .. Small - 2
      PROVE  /\ writing'[<<q, i>>] = IF q = r /\ i = s + 1 THEN writing[<<q, i>>] + 1
                                                           ELSE writing[<<q, i>>]
             /\ arrived'[<<q, i>>] = IF q = l /\ i = s THEN 0 ELSE arrived[<<q, i>>]
             /\ acking'[<<q, i>>] = IF q = l /\ i = s /\ i = Small - 2
                                       THEN acking[<<q, i>>] + 1
                                       ELSE acking[<<q, i>>]
  <2>1. <<q, i>> \in Allgatherv!Channels
    BY DEF Allgatherv!Channels
  <2>2. arrived'[<<q, i>>] = IF q = l /\ i = s THEN 0 ELSE arrived[<<q, i>>]
    BY <1>1, <1>2, <1>3, <2>1
  <2>3. CASE s + 1 = Small - 1
    <3>1. i # s + 1 /\ s = Small - 2
      BY <1>3, <2>3
    <3> QED
      BY <1>1, <1>2, <1>3, <2>1, <2>2, <2>3, <3>1
  <2>4. CASE s + 1 # Small - 1
    <3>1. s # Small - 2
      BY <1>3, <2>4
    <3> QED
      BY <1>1, <1>2, <1>3, <2>1, <2>2, <2>4, <3>1
  <2> QED
    BY <2>3, <2>4
<1>6. ASSUME NEW q \in Allgatherv!Ranks, NEW i \in 0 .. Small - 2
      PROVE  /\ Sends(q, i)' = IF q = r /\ i = s + 1 THEN Sends(q, i) + 1 ELSE Sends(q, i)
             /\ Gets(q, i)' = IF q = r /\ i = s THEN Gets(q, i) + 1 ELSE Gets(q, i)
             /\ Confirmed(q)' = Confirmed(q)
  <2>1. round[q] \in Int /\ current_step[q] \in Int
    BY DEF AllgathervTypeInv, Allgatherv!TypeOK
  <2>2. current_step'[q] = IF q = r THEN s + 1 ELSE current_step[q]
    BY <1>1, <1>2
  <2> QED
    BY <1>1, <1>3, <2>1, <2>2 DEF Sends, Gets, Confirmed, s
<1>7. arrived[<<l, s>>] = 1
  BY <1>1, <1>2, <1>3
<1>8. AllgathervChannelInv'
  <2> SUFFICES ASSUME NEW q \in Allgatherv!Ranks, NEW i \in 0 .. Small - 2
               PROVE  /\ writing'[<<q, i>>] + arrived'[<<q, i>>]
                           = Sends(q, i)' - Gets(Allgatherv!Right(q), i)'
                      /\ acking'[<<q, i>>] + acked'[<<q, i>>] =
                           IF i = Small - 2 THEN Gets(Allgatherv!Right(q), i)' - Confirmed(q)'
                                            ELSE 0
    BY DEF AllgathervChannelInv
  <2>1. Allgatherv!Right(q) \in Allgatherv!Ranks
    BY AllgathervSides
  <2>2. /\ Sends(q, i) \in Nat /\ Confirmed(q) \in Nat
        /\ writing[<<q, i>>] \in Nat /\ arrived[<<q, i>>] \in Nat
        /\ acking[<<q, i>>] \in Nat /\ acked[<<q, i>>] \in Nat
    BY AllgathervCounts
  <2>3. Gets(Allgatherv!Right(q), i) \in Nat
    BY <2>1, AllgathervCounts
  <2>4. /\ writing[<<q, i>>] + arrived[<<q, i>>] = Sends(q, i) - Gets(Allgatherv!Right(q), i)
        /\ acking[<<q, i>>] + acked[<<q, i>>] =
             IF i = Small - 2 THEN Gets(Allgatherv!Right(q), i) - Confirmed(q) ELSE 0
    BY DEF AllgathervChannelInv
  <2>5. /\ Allgatherv!Right(q) = r <=> q = l
        /\ q = l => q # r
    BY AllgathervSides DEF l
  <2>6. Gets(Allgatherv!Right(q), i)' = IF q = l /\ i = s THEN Gets(Allgatherv!Right(q), i) + 1
                                                          ELSE Gets(Allgatherv!Right(q), i)
    BY <1>6, <2>1, <2>5
  <2>7. writing'[<<q, i>>] + arrived'[<<q, i>>] = Sends(q, i)' - Gets(Allgatherv!Right(q), i)'
    <3>1. CASE q = l /\ i = s
      BY <1>3, <1>5, <1>6, <1>7, <2>2, <2>3, <2>4, <2>5, <2>6, <3>1
    <3>2. CASE ~(q = l /\ i = s)
      BY <1>5, <1>6, <2>2, <2>3, <2>4, <2>6, <3>2
    <3> QED
      BY <3>1, <3>2
  <2>8. acking'[<<q, i>>] + acked'[<<q, i>>] =
          IF i = Small - 2 THEN Gets(Allgatherv!Right(q), i)' - Confirmed(q)' ELSE 0
    <3>1. /\ Confirmed(q)' = Confirmed(q) /\ acked'[<<q, i>>] = acked[<<q, i>>]
          /\ acking'[<<q, i>>] = IF q = l /\ i = s /\ i = Small - 2
                                    THEN acking[<<q, i>>] + 1 ELSE acking[<<q, i>>]
      BY <1>1, <1>5, <1>6
    <3>2. CASE q = l /\ i = s /\ i = Small - 2
      BY <2>2, <2>3, <2>4, <2>6, <3>1, <3>2
    <3>3. CASE ~(q = l /\ i = s) /\ i = Small - 2
      BY <2>2, <2>3, <2>4, <2>6, <3>1, <3>3
    <3>4. CASE i # Small - 2
      BY <2>2, <2>4, <3>1, <3>4
    <3> QED
      BY <3>2, <3>3, <3>4
  <2> QED
    BY <2>7, <2>8, Zenon
<1>9. AllgathervMemoryInv'
  <2>1. ASSUME NEW q \in Allgatherv!Ranks, NEW i \in 0 .. Small - 2
        PROVE  Sends(q, i)' - writing'[<<q, i>>] = Sends(q, i) - writing[<<q, i>>]
    BY <1>5, <1>6, AllgathervCounts
  <2> QED
    BY <1>1, <2>1, AllgathervMemoryKept
<1>10. AllgathervInStep' /\ Allgatherv!ResultsCorrect'
  BY <1>1 DEF AllgathervInStep, Allgatherv!ResultsCorrect, Allgatherv!ReuseCorrect,
              Allgatherv!HasResult
<1> QED
  BY <1>4, <1>8, <1>9, <1>10

(* The acknowledgement of the last step completes the execution. *)
LEMMA AllgathervCompleteStep ==
  ASSUME AllgathervParameters, AllgathervInv, NEW r \in Allgatherv!Ranks, Allgatherv!Complete(r)
  PROVE  AllgathervInv'
<1> USE DEF AllgathervInv
<1> DEFINE n == Small - 2
<1>1. /\ state[r] = "RUNNING" /\ current_step[r] = Small - 1
      /\ state' = [state EXCEPT ![r] = "FINISHED"]
      /\ acked[<<r, Small - 1 - 1>>] # 0
      /\ acked' = [acked EXCEPT ![<<r, Small - 1 - 1>>] = 0]
      /\ UNCHANGED <<separated, round, output, mem, current_step, writing, arrived, acking>>
  BY DEF Allgatherv!Complete, Allgatherv!complete, Allgatherv!is_last_step, Allgatherv!sourceAcked
<1>2. /\ state \in [Allgatherv!Ranks -> Allgatherv!States]
      /\ acked \in [Allgatherv!Channels -> 0 .. 1]
      /\ Small \in Nat /\ n \in 0 .. Small - 2 /\ Small - 1 - 1 = n
      /\ <<r, n>> \in Allgatherv!Channels
  <2>1. Small \in Nat /\ n \in 0 .. Small - 2 /\ Small - 1 - 1 = n
    BY DEF AllgathervParameters
  <2> HIDE DEF n
  <2> QED
    BY <2>1 DEF AllgathervTypeInv, Allgatherv!TypeOK, Allgatherv!EndpointTypeOK,
                Allgatherv!Channels
<1>3. acked[<<r, n>>] = 1 /\ acked' = [acked EXCEPT ![<<r, n>>] = 0]
  BY <1>1, <1>2
<1> HIDE DEF n
<1>4. AllgathervTypeInv'
  <2>1. /\ acked' \in [Allgatherv!Channels -> 0 .. 1]
        /\ state' \in [Allgatherv!Ranks -> Allgatherv!States]
    BY <1>1, <1>2, <1>3 DEF Allgatherv!States
  <2>2. \A q \in Allgatherv!Ranks : state'[q] # "INITIALIZED" => round'[q] > 0
    BY <1>1, <1>2 DEF AllgathervTypeInv
  <2> QED
    BY <1>1, <2>1, <2>2 DEF AllgathervTypeInv, Allgatherv!TypeOK, Allgatherv!EndpointTypeOK
<1>5. ASSUME NEW q \in Allgatherv!Ranks, NEW i \in 0 .. Small - 2
      PROVE  /\ Sends(q, i)' = Sends(q, i) /\ Gets(q, i)' = Gets(q, i)
             /\ Confirmed(q)' = IF q = r THEN Confirmed(q) + 1 ELSE Confirmed(q)
             /\ acked'[<<q, i>>] = IF q = r /\ i = n THEN 0 ELSE acked[<<q, i>>]
  <2>1. <<q, i>> \in Allgatherv!Channels /\ round[q] \in Int
    BY DEF Allgatherv!Channels, AllgathervTypeInv, Allgatherv!TypeOK
  <2>2. acked'[<<q, i>>] = IF q = r /\ i = n THEN 0 ELSE acked[<<q, i>>]
    BY <1>2, <1>3, <2>1
  <2> QED
    BY <1>1, <1>2, <2>1, <2>2 DEF Sends, Gets, Confirmed
<1>6. AllgathervChannelInv'
  <2> SUFFICES ASSUME NEW q \in Allgatherv!Ranks, NEW i \in 0 .. Small - 2
               PROVE  /\ writing'[<<q, i>>] + arrived'[<<q, i>>]
                           = Sends(q, i)' - Gets(Allgatherv!Right(q), i)'
                      /\ acking'[<<q, i>>] + acked'[<<q, i>>] =
                           IF i = Small - 2 THEN Gets(Allgatherv!Right(q), i)' - Confirmed(q)'
                                            ELSE 0
    BY DEF AllgathervChannelInv
  <2>1. Allgatherv!Right(q) \in Allgatherv!Ranks
    BY AllgathervSides
  <2>2. /\ Sends(q, i) \in Nat /\ Confirmed(q) \in Nat
        /\ writing[<<q, i>>] \in Nat /\ arrived[<<q, i>>] \in Nat
        /\ acking[<<q, i>>] \in Nat /\ acked[<<q, i>>] \in Nat
    BY AllgathervCounts
  <2>3. Gets(Allgatherv!Right(q), i) \in Nat
    BY <2>1, AllgathervCounts
  <2>4. /\ writing[<<q, i>>] + arrived[<<q, i>>] = Sends(q, i) - Gets(Allgatherv!Right(q), i)
        /\ acking[<<q, i>>] + acked[<<q, i>>] =
             IF i = Small - 2 THEN Gets(Allgatherv!Right(q), i) - Confirmed(q) ELSE 0
    BY DEF AllgathervChannelInv
  <2>5. Gets(Allgatherv!Right(q), i)' = Gets(Allgatherv!Right(q), i)
    BY <1>5, <2>1
  <2>6. acking'[<<q, i>>] + acked'[<<q, i>>] =
          IF i = Small - 2 THEN Gets(Allgatherv!Right(q), i)' - Confirmed(q)' ELSE 0
    <3>1. CASE q = r /\ i = n
      BY <1>1, <1>3, <1>5, <2>2, <2>3, <2>4, <2>5, <3>1 DEF n
    <3>2. CASE q # r \/ i # n
      BY <1>1, <1>5, <2>2, <2>3, <2>4, <2>5, <3>2 DEF n
    <3> QED
      BY <3>1, <3>2
  <2> QED
    BY <1>1, <1>5, <2>4, <2>5, <2>6
<1>7. AllgathervMemoryInv'
  <2>1. ASSUME NEW q \in Allgatherv!Ranks, NEW i \in 0 .. Small - 2
        PROVE  Sends(q, i)' - writing'[<<q, i>>] = Sends(q, i) - writing[<<q, i>>]
    BY <1>1, <1>5
  <2> QED
    BY <1>1, <2>1, AllgathervMemoryKept
<1>8. AllgathervInStep' /\ Allgatherv!ResultsCorrect'
  BY <1>1, <1>2 DEF AllgathervInStep, Allgatherv!ResultsCorrect, Allgatherv!ReuseCorrect,
                    Allgatherv!HasResult
<1> QED
  BY <1>4, <1>6, <1>7, <1>8

(* copyOut: with a barrier between executions all blocks in the memory are *)
(* of this one.                                                            *)
LEMMA AllgathervCopyOutStep ==
  ASSUME AllgathervParameters, AllgathervInv, NEW r \in Allgatherv!Ranks, Allgatherv!CopyOut(r)
  PROVE  AllgathervInv'
<1> USE DEF AllgathervInv
<1> DEFINE Pos(q) == (r + Small - q) % Small
           result == [q \in Allgatherv!Ranks |-> mem[<<r, Pos(q)>>]]
<1>1. /\ state[r] = "FINISHED"
      /\ state' = [state EXCEPT ![r] = "INITIALIZED"]
      /\ output' = [output EXCEPT ![r] = result]
      /\ UNCHANGED <<separated, round, mem, current_step, writing, arrived, acking, acked>>
  BY DEF Allgatherv!CopyOut, Allgatherv!copyOut, Allgatherv!endpointVars
<1>2. /\ state \in [Allgatherv!Ranks -> Allgatherv!States]
      /\ mem \in [Allgatherv!Locations ->
                    {Allgatherv!NoData} \cup (Allgatherv!Ranks \X (1 .. Rounds))]
      /\ output \in [Allgatherv!Ranks -> {Allgatherv!NoData} \cup
                   [Allgatherv!Ranks ->
                      {Allgatherv!NoData} \cup (Allgatherv!Ranks \X (1 .. Rounds))]]
  BY DEF AllgathervTypeInv, Allgatherv!TypeOK
<1>3. \A q \in Allgatherv!Ranks : /\ Pos(q) \in 0 .. Small - 1 /\ (r + Small - Pos(q)) % Small = q
                                  /\ <<r, Pos(q)>> \in Allgatherv!Locations
  BY AllgathervRingFacts DEF Allgatherv!Locations
<1> HIDE DEF Pos
<1>4. AllgathervTypeInv'
  <2>1. result \in [Allgatherv!Ranks ->
                      {Allgatherv!NoData} \cup (Allgatherv!Ranks \X (1 .. Rounds))]
    BY <1>2, <1>3
  <2> HIDE DEF result
  <2>2. output' \in [Allgatherv!Ranks -> {Allgatherv!NoData} \cup
                   [Allgatherv!Ranks ->
                      {Allgatherv!NoData} \cup (Allgatherv!Ranks \X (1 .. Rounds))]]
    BY <1>1, <1>2, <2>1
  <2>3. state' \in [Allgatherv!Ranks -> Allgatherv!States]
    BY <1>1, <1>2 DEF Allgatherv!States
  <2>4. \A q \in Allgatherv!Ranks : state'[q] # "INITIALIZED" => round'[q] > 0
    BY <1>1, <1>2 DEF AllgathervTypeInv
  <2> QED
    BY <1>1, <2>2, <2>3, <2>4 DEF AllgathervTypeInv, Allgatherv!TypeOK, Allgatherv!EndpointTypeOK
<1>5. ASSUME NEW q \in Allgatherv!Ranks, NEW i \in 0 .. Small - 2
      PROVE  Sends(q, i)' = Sends(q, i) /\ Gets(q, i)' = Gets(q, i) /\ Confirmed(q)' = Confirmed(q)
  BY <1>1, <1>2 DEF Sends, Gets, Confirmed
<1>6. AllgathervChannelInv'
  <2> SUFFICES ASSUME NEW q \in Allgatherv!Ranks, NEW i \in 0 .. Small - 2
               PROVE  /\ writing'[<<q, i>>] + arrived'[<<q, i>>]
                           = Sends(q, i)' - Gets(Allgatherv!Right(q), i)'
                      /\ acking'[<<q, i>>] + acked'[<<q, i>>] =
                           IF i = Small - 2 THEN Gets(Allgatherv!Right(q), i)' - Confirmed(q)'
                                            ELSE 0
    BY DEF AllgathervChannelInv
  <2>1. Allgatherv!Right(q) \in Allgatherv!Ranks
    BY AllgathervSides
  <2>2. /\ Sends(q, i) \in Nat /\ Confirmed(q) \in Nat
        /\ writing[<<q, i>>] \in Nat /\ arrived[<<q, i>>] \in Nat
        /\ acking[<<q, i>>] \in Nat /\ acked[<<q, i>>] \in Nat
    BY AllgathervCounts
  <2>3. Gets(Allgatherv!Right(q), i) \in Nat
    BY <2>1, AllgathervCounts
  <2>4. /\ writing[<<q, i>>] + arrived[<<q, i>>] = Sends(q, i) - Gets(Allgatherv!Right(q), i)
        /\ acking[<<q, i>>] + acked[<<q, i>>] =
             IF i = Small - 2 THEN Gets(Allgatherv!Right(q), i) - Confirmed(q) ELSE 0
    BY DEF AllgathervChannelInv
  <2>5. Gets(Allgatherv!Right(q), i)' = Gets(Allgatherv!Right(q), i)
    BY <1>5, <2>1
  <2> QED
    BY <1>1, <1>5, <2>4, <2>5
<1>7. AllgathervMemoryInv'
  <2>1. ASSUME NEW q \in Allgatherv!Ranks, NEW i \in 0 .. Small - 2
        PROVE  Sends(q, i)' - writing'[<<q, i>>] = Sends(q, i) - writing[<<q, i>>]
    BY <1>1, <1>5
  <2> QED
    BY <1>1, <2>1, AllgathervMemoryKept
<1>8. ASSUME separated, NEW j \in 0 .. Small - 1 PROVE Landed(r, j) = round[r]
  <2>1. CASE j = 0
    BY <2>1 DEF Landed
  <2>2. CASE j # 0
    <3> DEFINE l == Left(r)
               i == j - 1
    <3>1. i \in 0 .. Small - 2 /\ l \in Allgatherv!Ranks /\ Allgatherv!Right(l) = r
      BY <2>2, AllgathervSides DEF AllgathervParameters
    <3>2. Landed(r, j) = Sends(l, i) - writing[<<l, i>>]
      BY <2>2 DEF Landed
    <3> HIDE DEF l, i
    <3>3. Gets(r, i) = round[r]
      BY <1>1 DEF Gets
    <3>4. writing[<<l, i>>] + arrived[<<l, i>>] = Sends(l, i) - round[r]
      BY <3>1, <3>3 DEF AllgathervChannelInv
    <3>5. round[l] <= round[r] /\ round[r] \in Nat
      BY <1>1, <1>8, <3>1 DEF AllgathervInStep, AllgathervTypeInv, Allgatherv!TypeOK
    <3>6. /\ Sends(l, i) \in Nat /\ Sends(l, i) <= round[l] /\ round[l] \in Nat
          /\ writing[<<l, i>>] \in Nat /\ arrived[<<l, i>>] \in Nat
      BY <3>1, AllgathervCounts
    <3>7. Sends(l, i) - round[r] <= 0
      BY <3>5, <3>6
    <3>8. writing[<<l, i>>] = 0 /\ arrived[<<l, i>>] = 0
      BY <3>4, <3>6, <3>7
    <3> QED
      BY <3>2, <3>4, <3>5, <3>6, <3>8
  <2> QED
    BY <2>1, <2>2
<1>9. separated => result = [q \in Allgatherv!Ranks |-> <<q, round[r]>>]
  <2> SUFFICES ASSUME separated, NEW q \in Allgatherv!Ranks
               PROVE  mem[<<r, Pos(q)>>] = <<q, round[r]>>
    OBVIOUS
  <2>1. Pos(q) \in 0 .. Small - 1 /\ (r + Small - Pos(q)) % Small = q
    BY <1>3
  <2>2. Landed(r, Pos(q)) = round[r] /\ round[r] > 0
    BY <1>1, <1>8, <2>1 DEF AllgathervTypeInv
  <2>3. mem[<<r, Pos(q)>>] = IF Landed(r, Pos(q)) = 0 THEN Allgatherv!NoData
                             ELSE <<(r + Small - Pos(q)) % Small, Landed(r, Pos(q))>>
    BY <2>1 DEF AllgathervMemoryInv
  <2>4. round[r] # 0
    BY <2>2 DEF AllgathervTypeInv, Allgatherv!TypeOK
  <2> QED
    BY <2>1, <2>2, <2>3, <2>4
<1>10. Allgatherv!ResultsCorrect'
  <2> HIDE DEF result
  <2> QED
    BY <1>1, <1>2, <1>9 DEF Allgatherv!ResultsCorrect, Allgatherv!ReuseCorrect,
                            Allgatherv!HasResult
<1>11. AllgathervInStep'
  BY <1>1, <1>2 DEF AllgathervInStep
<1> QED
  BY <1>4, <1>6, <1>7, <1>10, <1>11

(* A write that lands carries the block of the execution it was posted in, *)
(* if a barrier separates executions: the block that it forwards is not    *)
(* replaced before.                                                        *)
LEMMA AllgathervSourceValid ==
  ASSUME AllgathervParameters, AllgathervInv, separated, NEW r \in Allgatherv!Ranks,
         NEW i \in 0 .. Small - 2,
         writing[<<r, i>>] > 0
  PROVE  Landed(r, i) = Sends(r, i) /\ Sends(r, i) > 0
<1> USE DEF AllgathervInv
<1> DEFINE q == Allgatherv!Right(r)
           n == Small - 2
<1>1. q \in Allgatherv!Ranks /\ n \in 0 .. Small - 2
  BY AllgathervSides DEF AllgathervParameters
<1>2. /\ writing[<<r, i>>] + arrived[<<r, i>>] = Sends(r, i) - Gets(q, i)
      /\ acking[<<r, n>>] + acked[<<r, n>>] = Gets(q, n) - Confirmed(r)
  BY <1>1 DEF AllgathervChannelInv
<1>3. /\ Gets(q, i) \in Nat /\ Gets(q, n) \in Nat /\ Gets(q, n) <= Gets(q, i)
      /\ acking[<<r, n>>] \in Nat /\ acked[<<r, n>>] \in Nat
  <2>1. Gets(q, i) \in Nat /\ Gets(q, n) <= Gets(q, i)
    BY <1>1, AllgathervCounts
  <2>2. Gets(q, n) \in Nat
    BY <1>1, AllgathervCounts
  <2>3. acking[<<r, n>>] \in Nat /\ acked[<<r, n>>] \in Nat
    BY <1>1, AllgathervCounts
  <2> QED
    BY <2>1, <2>2, <2>3
<1>4. /\ Sends(r, i) \in Nat /\ Confirmed(r) \in Nat /\ round[r] \in Nat
      /\ round[r] - 1 <= Confirmed(r) /\ Sends(r, i) <= round[r]
      /\ writing[<<r, i>>] \in Nat /\ arrived[<<r, i>>] \in Nat
  BY AllgathervCounts
<1> HIDE DEF q, n
<1>5. Sends(r, i) = round[r] /\ Confirmed(r) # round[r] /\ round[r] > 0
  <2>1. Gets(q, n) >= Confirmed(r)
    BY <1>2, <1>3, <1>4
  <2>2. Gets(q, i) >= Confirmed(r)
    BY <1>3, <1>4, <2>1
  <2>3. Sends(r, i) > Gets(q, i)
    BY <1>2, <1>3, <1>4
  <2> QED
    BY <1>3, <1>4, <2>2, <2>3
<1>6. state[r] = "RUNNING" /\ i <= current_step[r]
  BY <1>4, <1>5 DEF Sends, Confirmed, AllgathervTypeInv, Allgatherv!TypeOK, Allgatherv!States
<1>7. CASE i = 0
  BY <1>5, <1>7 DEF Landed
<1>8. CASE i # 0
  <2> DEFINE l == Left(r)
             k == i - 1
  <2>1. /\ k \in 0 .. Small - 2 /\ l \in Allgatherv!Ranks /\ Allgatherv!Right(l) = r
        /\ k < current_step[r]
    <3>1. current_step[r] \in Int /\ Small \in Nat
      BY DEF AllgathervParameters, AllgathervTypeInv, Allgatherv!TypeOK
    <3>2. l \in Allgatherv!Ranks /\ Allgatherv!Right(l) = r
      BY AllgathervSides
    <3> QED
      BY <1>6, <1>8, <3>1, <3>2
  <2>2. Landed(r, i) = Sends(l, k) - writing[<<l, k>>]
    BY <1>8 DEF Landed
  <2> HIDE DEF l, k
  <2>3. Gets(r, k) = round[r]
    BY <1>6, <2>1 DEF Gets, AllgathervTypeInv, Allgatherv!TypeOK
  <2>4. writing[<<l, k>>] + arrived[<<l, k>>] = Sends(l, k) - round[r]
    BY <2>1, <2>3 DEF AllgathervChannelInv
  <2>5. round[l] <= round[r]
    BY <1>6, <2>1 DEF AllgathervInStep, AllgathervTypeInv, Allgatherv!TypeOK
  <2>6. /\ Sends(l, k) \in Nat /\ Sends(l, k) <= round[l] /\ round[l] \in Nat
        /\ writing[<<l, k>>] \in Nat /\ arrived[<<l, k>>] \in Nat
    BY <2>1, AllgathervCounts
  <2> QED
    BY <1>4, <1>5, <2>2, <2>4, <2>5, <2>6
<1> QED
  BY <1>5, <1>7, <1>8

(* A write lands. *)
LEMMA AllgathervWriteStep ==
  ASSUME AllgathervParameters, AllgathervInv, NEW c \in Allgatherv!Channels,
         Allgatherv!WriteArrives(c)
  PROVE  AllgathervInv'
<1> USE DEF AllgathervInv
<1>1. PICK r \in Allgatherv!Ranks, k \in 0 .. Small - 2 : c = <<r, k>>
  BY DEF Allgatherv!Channels
<1> DEFINE t == <<Allgatherv!Right(r), k + 1>>
<1>2. /\ writing[<<r, k>>] > 0
      /\ writing' = [writing EXCEPT ![<<r, k>>] = writing[<<r, k>>] - 1]
      /\ arrived' = [arrived EXCEPT ![<<r, k>>] = 1]
      /\ mem' = [mem EXCEPT ![t] = mem[<<r, k>>]]
      /\ UNCHANGED <<acking, acked, separated, state, round, output, current_step>>
  BY <1>1 DEF Allgatherv!WriteArrives, Allgatherv!Transfer, Allgatherv!WriteLands,
              Allgatherv!SourceMemory, Allgatherv!TargetMemory
<1>3. /\ writing \in [Allgatherv!Channels -> Nat] /\ arrived \in [Allgatherv!Channels -> 0 .. 1]
      /\ mem \in [Allgatherv!Locations ->
                    {Allgatherv!NoData} \cup (Allgatherv!Ranks \X (1 .. Rounds))]
      /\ <<r, k>> \in Allgatherv!Channels /\ Small \in Nat
  BY <1>1 DEF AllgathervTypeInv, Allgatherv!TypeOK, Allgatherv!EndpointTypeOK,
              AllgathervParameters
<1>4. writing[<<r, k>>] = 1 /\ arrived[<<r, k>>] = 0
  <2>1. writing[<<r, k>>] + arrived[<<r, k>>] <= 1
    BY AllgathervBounded
  <2>2. writing[<<r, k>>] \in Nat /\ arrived[<<r, k>>] \in 0 .. 1
    BY AllgathervCounts
  <2> QED
    BY <1>2, <2>1, <2>2
<1>5. t \in Allgatherv!Locations /\ <<r, k>> \in Allgatherv!Locations
  <2>1. k + 1 \in 0 .. Small - 1 /\ k \in 0 .. Small - 1
    BY <1>3
  <2>2. Allgatherv!Right(r) \in Allgatherv!Ranks
    BY AllgathervSides
  <2> QED
    BY <2>1, <2>2 DEF Allgatherv!Locations
<1>6. AllgathervTypeInv'
  <2>1. writing' \in [Allgatherv!Channels -> Nat]
    BY <1>2, <1>3, <1>4
  <2>2. arrived' \in [Allgatherv!Channels -> 0 .. 1]
    BY <1>2, <1>3
  <2>3. mem' \in [Allgatherv!Locations ->
                    {Allgatherv!NoData} \cup (Allgatherv!Ranks \X (1 .. Rounds))]
    BY <1>2, <1>3, <1>5
  <2> QED
    BY <1>2, <2>1, <2>2, <2>3 DEF AllgathervTypeInv, Allgatherv!TypeOK, Allgatherv!EndpointTypeOK
<1>7. ASSUME NEW q \in Allgatherv!Ranks, NEW i \in 0 .. Small - 2
      PROVE  /\ Sends(q, i)' = Sends(q, i) /\ Gets(q, i)' = Gets(q, i)
             /\ Confirmed(q)' = Confirmed(q)
             /\ writing'[<<q, i>>] = IF q = r /\ i = k THEN 0 ELSE writing[<<q, i>>]
             /\ arrived'[<<q, i>>] = IF q = r /\ i = k THEN 1 ELSE arrived[<<q, i>>]
  <2>1. <<q, i>> \in Allgatherv!Channels
    BY DEF Allgatherv!Channels
  <2>2. /\ writing'[<<q, i>>] = IF q = r /\ i = k THEN 0 ELSE writing[<<q, i>>]
        /\ arrived'[<<q, i>>] = IF q = r /\ i = k THEN 1 ELSE arrived[<<q, i>>]
    BY <1>2, <1>3, <1>4, <2>1
  <2> QED
    BY <1>2, <2>2 DEF Sends, Gets, Confirmed
<1>8. AllgathervChannelInv'
  <2> SUFFICES ASSUME NEW q \in Allgatherv!Ranks, NEW i \in 0 .. Small - 2
               PROVE  /\ writing'[<<q, i>>] + arrived'[<<q, i>>]
                           = Sends(q, i)' - Gets(Allgatherv!Right(q), i)'
                      /\ acking'[<<q, i>>] + acked'[<<q, i>>] =
                           IF i = Small - 2 THEN Gets(Allgatherv!Right(q), i)' - Confirmed(q)'
                                            ELSE 0
    BY DEF AllgathervChannelInv
  <2>1. Allgatherv!Right(q) \in Allgatherv!Ranks
    BY AllgathervSides
  <2>2. /\ Sends(q, i) \in Nat /\ Confirmed(q) \in Nat
        /\ writing[<<q, i>>] \in Nat /\ arrived[<<q, i>>] \in Nat
        /\ acking[<<q, i>>] \in Nat /\ acked[<<q, i>>] \in Nat
    BY AllgathervCounts
  <2>3. Gets(Allgatherv!Right(q), i) \in Nat
    BY <2>1, AllgathervCounts
  <2>4. /\ writing[<<q, i>>] + arrived[<<q, i>>] = Sends(q, i) - Gets(Allgatherv!Right(q), i)
        /\ acking[<<q, i>>] + acked[<<q, i>>] =
             IF i = Small - 2 THEN Gets(Allgatherv!Right(q), i) - Confirmed(q) ELSE 0
    BY DEF AllgathervChannelInv
  <2>5. Gets(Allgatherv!Right(q), i)' = Gets(Allgatherv!Right(q), i)
    BY <1>7, <2>1
  <2>6. writing'[<<q, i>>] + arrived'[<<q, i>>] = writing[<<q, i>>] + arrived[<<q, i>>]
    BY <1>4, <1>7, <2>2
  <2> QED
    BY <1>2, <1>7, <2>4, <2>5, <2>6
<1>9. AllgathervMemoryInv'
  <2> SUFFICES ASSUME separated, NEW q \in Allgatherv!Ranks, NEW j \in 0 .. Small - 1
               PROVE  mem'[<<q, j>>] = IF Landed(q, j)' = 0 THEN Allgatherv!NoData
                                       ELSE <<(q + Small - j) % Small, Landed(q, j)'>>
    BY <1>2 DEF AllgathervMemoryInv
  <2>1. <<q, j>> \in Allgatherv!Locations
    BY DEF Allgatherv!Locations
  <2>2. mem[<<q, j>>] = IF Landed(q, j) = 0 THEN Allgatherv!NoData
                                            ELSE <<(q + Small - j) % Small, Landed(q, j)>>
    BY DEF AllgathervMemoryInv
  <2>3. CASE q = Allgatherv!Right(r) /\ j = k + 1
    <3>1. Landed(q, j)' = Sends(r, k)
      <4>1. Left(q) = r /\ j # 0 /\ j - 1 = k
        BY <1>3, <2>3, AllgathervSides
      <4>2. Landed(q, j)' = Sends(r, k)' - writing'[<<r, k>>]
        BY <4>1 DEF Landed
      <4>3. Sends(r, k) \in Nat /\ Sends(r, k)' = Sends(r, k) /\ writing'[<<r, k>>] = 0
        BY <1>7, AllgathervCounts
      <4> QED
        BY <4>2, <4>3
    <3>2. Landed(r, k) = Sends(r, k) /\ Sends(r, k) > 0 /\ Sends(r, k) \in Nat
      BY <1>2, AllgathervSourceValid, AllgathervCounts
    <3>3. mem[<<r, k>>] = <<(r + Small - k) % Small, Sends(r, k)>>
      <4>1. k \in 0 .. Small - 1
        BY <1>3
      <4>2. mem[<<r, k>>] = IF Landed(r, k) = 0 THEN Allgatherv!NoData
                                                ELSE <<(r + Small - k) % Small, Landed(r, k)>>
        BY <4>1 DEF AllgathervMemoryInv
      <4> QED
        BY <3>2, <4>2
    <3>4. (q + Small - j) % Small = (r + Small - k) % Small
      BY <2>3, AllgathervRingFacts
    <3>5. mem'[<<q, j>>] = mem[<<r, k>>]
      BY <1>2, <1>3, <1>5, <2>3
    <3> QED
      BY <3>1, <3>2, <3>3, <3>4, <3>5
  <2>4. CASE ~(q = Allgatherv!Right(r) /\ j = k + 1)
    <3>1. mem'[<<q, j>>] = mem[<<q, j>>]
      BY <1>2, <1>3, <1>5, <2>1, <2>4
    <3>2. Landed(q, j)' = Landed(q, j)
      <4>1. CASE j = 0
        BY <1>2, <4>1 DEF Landed
      <4>2. CASE j # 0
        <5>1. j - 1 \in 0 .. Small - 2 /\ (j - 1 = k <=> j = k + 1)
          BY <1>3, <4>2
        <5>2. Left(q) \in Allgatherv!Ranks /\ (Left(q) = r => q = Allgatherv!Right(r))
          BY AllgathervSides
        <5>3. /\ Sends(Left(q), j - 1)' = Sends(Left(q), j - 1)
              /\ writing'[<<Left(q), j - 1>>] = writing[<<Left(q), j - 1>>]
          BY <1>7, <2>4, <5>1, <5>2
        <5> QED
          BY <4>2, <5>3 DEF Landed
      <4> QED
        BY <4>1, <4>2
    <3> QED
      BY <2>2, <3>1, <3>2
  <2> QED
    BY <2>3, <2>4
<1>10. AllgathervInStep' /\ Allgatherv!ResultsCorrect'
  BY <1>2 DEF AllgathervInStep, Allgatherv!ResultsCorrect, Allgatherv!ReuseCorrect,
              Allgatherv!HasResult
<1> QED
  BY <1>6, <1>8, <1>9, <1>10

(* An acknowledgement lands. *)
LEMMA AllgathervAckStep ==
  ASSUME AllgathervParameters, AllgathervInv, NEW c \in Allgatherv!Channels,
         Allgatherv!AckArrives(c)
  PROVE  AllgathervInv'
<1> USE DEF AllgathervInv
<1>1. PICK r \in Allgatherv!Ranks, k \in 0 .. Small - 2 : c = <<r, k>>
  BY DEF Allgatherv!Channels
<1>2. /\ acking[<<r, k>>] > 0
      /\ acking' = [acking EXCEPT ![<<r, k>>] = acking[<<r, k>>] - 1]
      /\ acked' = [acked EXCEPT ![<<r, k>>] = 1]
      /\ UNCHANGED <<writing, arrived, separated, state, round, mem, output, current_step>>
  BY <1>1 DEF Allgatherv!AckArrives, Allgatherv!Acknowledge, Allgatherv!AckLands,
              Allgatherv!collectiveVars
<1>3. /\ acking \in [Allgatherv!Channels -> Nat]
      /\ acked \in [Allgatherv!Channels -> 0 .. 1]
      /\ <<r, k>> \in Allgatherv!Channels
  BY <1>1 DEF AllgathervTypeInv, Allgatherv!TypeOK, Allgatherv!EndpointTypeOK
<1>4. acking[<<r, k>>] = 1 /\ acked[<<r, k>>] = 0
  <2>1. acking[<<r, k>>] + acked[<<r, k>>] <= 1
    BY AllgathervBounded
  <2>2. acking[<<r, k>>] \in Nat /\ acked[<<r, k>>] \in 0 .. 1
    BY AllgathervCounts
  <2> QED
    BY <1>2, <2>1, <2>2
<1>5. AllgathervTypeInv'
  <2>1. acking' \in [Allgatherv!Channels -> Nat] /\ acked' \in [Allgatherv!Channels -> 0 .. 1]
    BY <1>2, <1>3, <1>4
  <2> QED
    BY <1>2, <2>1 DEF AllgathervTypeInv, Allgatherv!TypeOK, Allgatherv!EndpointTypeOK
<1>6. ASSUME NEW q \in Allgatherv!Ranks, NEW i \in 0 .. Small - 2
      PROVE  /\ Sends(q, i)' = Sends(q, i) /\ Gets(q, i)' = Gets(q, i)
             /\ Confirmed(q)' = Confirmed(q)
             /\ acking'[<<q, i>>] + acked'[<<q, i>>] = acking[<<q, i>>] + acked[<<q, i>>]
  <2>1. <<q, i>> \in Allgatherv!Channels
    BY DEF Allgatherv!Channels
  <2>2. acking'[<<q, i>>] + acked'[<<q, i>>] = acking[<<q, i>>] + acked[<<q, i>>]
    BY <1>2, <1>3, <1>4, <2>1
  <2> QED
    BY <1>2, <2>2 DEF Sends, Gets, Confirmed
<1>7. AllgathervChannelInv'
  <2> SUFFICES ASSUME NEW q \in Allgatherv!Ranks, NEW i \in 0 .. Small - 2
               PROVE  /\ writing'[<<q, i>>] + arrived'[<<q, i>>]
                           = Sends(q, i)' - Gets(Allgatherv!Right(q), i)'
                      /\ acking'[<<q, i>>] + acked'[<<q, i>>] =
                           IF i = Small - 2 THEN Gets(Allgatherv!Right(q), i)' - Confirmed(q)'
                                            ELSE 0
    BY DEF AllgathervChannelInv
  <2>1. Allgatherv!Right(q) \in Allgatherv!Ranks
    BY AllgathervSides
  <2>2. /\ Sends(q, i) \in Nat /\ Confirmed(q) \in Nat
        /\ writing[<<q, i>>] \in Nat /\ arrived[<<q, i>>] \in Nat
        /\ acking[<<q, i>>] \in Nat /\ acked[<<q, i>>] \in Nat
    BY AllgathervCounts
  <2>3. Gets(Allgatherv!Right(q), i) \in Nat
    BY <2>1, AllgathervCounts
  <2>4. /\ writing[<<q, i>>] + arrived[<<q, i>>] = Sends(q, i) - Gets(Allgatherv!Right(q), i)
        /\ acking[<<q, i>>] + acked[<<q, i>>] =
             IF i = Small - 2 THEN Gets(Allgatherv!Right(q), i) - Confirmed(q) ELSE 0
    BY DEF AllgathervChannelInv
  <2>5. Gets(Allgatherv!Right(q), i)' = Gets(Allgatherv!Right(q), i)
    BY <1>6, <2>1
  <2> QED
    BY <1>2, <1>6, <2>4, <2>5
<1>8. AllgathervMemoryInv'
  <2>1. ASSUME NEW q \in Allgatherv!Ranks, NEW i \in 0 .. Small - 2
        PROVE  Sends(q, i)' - writing'[<<q, i>>] = Sends(q, i) - writing[<<q, i>>]
    BY <1>2, <1>6
  <2> QED
    BY <1>2, <2>1, AllgathervMemoryKept
<1>9. AllgathervInStep' /\ Allgatherv!ResultsCorrect'
  BY <1>2 DEF AllgathervInStep, Allgatherv!ResultsCorrect, Allgatherv!ReuseCorrect,
              Allgatherv!HasResult
<1> QED
  BY <1>5, <1>7, <1>8, <1>9

(* Every step preserves the invariant. *)
LEMMA AllgathervNext ==
  AllgathervParameters /\ AllgathervInv /\ [Allgatherv!Next]_Allgatherv!vars => AllgathervInv'
<1> SUFFICES ASSUME AllgathervParameters, AllgathervInv, [Allgatherv!Next]_Allgatherv!vars
             PROVE  AllgathervInv'
  OBVIOUS
<1>1. CASE UNCHANGED Allgatherv!vars
  BY <1>1 DEF Allgatherv!vars, Allgatherv!collectiveVars, Allgatherv!endpointVars, AllgathervInv,
              AllgathervTypeInv, Allgatherv!TypeOK, Allgatherv!EndpointTypeOK,
              AllgathervChannelInv, Sends, Gets, Confirmed, AllgathervInStep, AllgathervMemoryInv,
              Landed, Allgatherv!ResultsCorrect, Allgatherv!ReuseCorrect, Allgatherv!HasResult
<1>2. CASE Allgatherv!Next
  BY <1>2, AllgathervCopyInStep, AllgathervStartStep, AllgathervCopyOutStep,
     AllgathervReceiveStep, AllgathervCompleteStep, AllgathervWriteStep, AllgathervAckStep
     DEF Allgatherv!Next, Allgatherv!User, Allgatherv!TriggerProgress
<1> QED
  BY <1>1, <1>2

(* What the invariant says about the properties of the collective. *)
LEMMA AllgathervConsequences ==
  ASSUME AllgathervParameters, AllgathervInv
  PROVE  /\ Allgatherv!TypeOK /\ Allgatherv!NoNotificationLost
         /\ Allgatherv!SourcesReleased /\ Allgatherv!NothingLeftOver
         /\ Allgatherv!ResultsCorrect
<1> USE DEF AllgathervInv
<1>1. Allgatherv!NoNotificationLost
  <2> SUFFICES ASSUME NEW r \in Allgatherv!Ranks, NEW i \in 0 .. Small - 2
               PROVE  /\ writing[<<r, i>>] + arrived[<<r, i>>] <= 1
                      /\ acking[<<r, i>>] + acked[<<r, i>>] <= 1
    BY DEF Allgatherv!NoNotificationLost, Allgatherv!OneOutstanding, Allgatherv!Channels
  <2> QED
    BY AllgathervBounded
<1>2. Allgatherv!SourcesReleased
  <2> SUFFICES ASSUME NEW r \in Allgatherv!Ranks, state[r] = "FINISHED", NEW i \in 0 .. Small - 2
               PROVE  writing[<<r, i>>] = 0 /\ acking[<<r, i>>] = 0
    BY DEF Allgatherv!SourcesReleased, Allgatherv!Released, Allgatherv!Channels
  <2>1. Confirmed(r) = round[r]
    BY DEF Confirmed
  <2>2. writing[<<r, i>>] + arrived[<<r, i>>] = 0 /\ acking[<<r, i>>] + acked[<<r, i>>] = 0
    BY <2>1, AllgathervBounded
  <2>3. /\ writing[<<r, i>>] \in Nat /\ arrived[<<r, i>>] \in Nat
        /\ acking[<<r, i>>] \in Nat /\ acked[<<r, i>>] \in Nat
    BY AllgathervCounts
  <2> QED
    BY <2>2, <2>3
<1>3. Allgatherv!NothingLeftOver
  <2> SUFFICES ASSUME Allgatherv!AllHaveResults, NEW r \in Allgatherv!Ranks,
                      NEW i \in 0 .. Small - 2
               PROVE  /\ writing[<<r, i>>] + arrived[<<r, i>>] = 0
                      /\ acking[<<r, i>>] + acked[<<r, i>>] = 0
    BY DEF Allgatherv!NothingLeftOver, Allgatherv!Quiet, Allgatherv!Channels
  <2>1. Confirmed(r) = round[r]
    BY DEF Confirmed, Allgatherv!AllHaveResults, Allgatherv!HasResult
  <2> QED
    BY <2>1, AllgathervBounded
<1> QED
  BY <1>1, <1>2, <1>3 DEF AllgathervTypeInv
-----------------------------------------------------------------------------
(* What the modules of the allreduces prove. *)
RingProofs == INSTANCE AllreduceRingProofs WITH N <- Small
SmallProofs == INSTANCE DoublingProofs WITH N <- Small
LargeProofs == INSTANCE DoublingProofs WITH N <- Large

(* Both instances of AllreduceRing are the same, *)
LEMMA SameRing ==
  /\ Ring!Init => RingProofs!Init
  /\ Ring!Next => RingProofs!Next
  /\ UNCHANGED vars => UNCHANGED RingProofs!vars
  /\ RingProofs!ResultsCorrect => Ring!ResultsCorrect
  /\ RingProofs!NoNotificationLost => Ring!NoNotificationLost
  /\ RingProofs!SourcesReleased => Ring!SourcesReleased
  /\ RingProofs!NothingLeftOver => Ring!NothingLeftOver
<1> USE DEF Ring!Ranks, RingProofs!Ranks, Ring!Right, RingProofs!Right, Ring!Left,
            RingProofs!Left, Ring!Down, RingProofs!Down, Ring!steps_per_stage,
            RingProofs!steps_per_stage, Ring!allreduceVars, RingProofs!allreduceVars,
            Ring!endpointVars, RingProofs!endpointVars
<1>1. Ring!EmptyBag = RingProofs!EmptyBag
  BY DEF Ring!EmptyBag, RingProofs!EmptyBag, Ring!SetToBag, RingProofs!SetToBag
<1>2. \A S : Ring!SetToBag(S) = RingProofs!SetToBag(S)
  BY DEF Ring!SetToBag, RingProofs!SetToBag
<1>3. \A a, b : Ring!(+)(a, b) = RingProofs!(+)(a, b)
  BY DEF Ring!(+), RingProofs!(+)
<1>4. Ring!Channels = RingProofs!Channels
  BY DEF Ring!Channels, RingProofs!Channels
<1>5. Ring!Locations = RingProofs!Locations
  BY <1>4 DEF Ring!Locations, RingProofs!Locations
<1>6. Ring!Init => RingProofs!Init
  BY <1>1, <1>4, <1>5 DEF Ring!Init, RingProofs!Init, Ring!Setup, RingProofs!Setup,
                          Ring!Connected, RingProofs!Connected
<1>7. ASSUME NEW r, Ring!CopyIn(r) PROVE RingProofs!CopyIn(r)
  BY <1>7, <1>2, <1>5 DEF Ring!CopyIn, RingProofs!CopyIn, Ring!copyIn, RingProofs!copyIn,
                          Ring!PassedBarrier, RingProofs!PassedBarrier
<1>8. ASSUME NEW r, Ring!Start(r) PROVE RingProofs!Start(r)
  BY <1>8 DEF Ring!Start, RingProofs!Start, Ring!start, RingProofs!start, Ring!initTransfer,
              RingProofs!initTransfer
<1>9. ASSUME NEW r, Ring!CopyOut(r) PROVE RingProofs!CopyOut(r)
  BY <1>9 DEF Ring!CopyOut, RingProofs!CopyOut, Ring!copyOut, RingProofs!copyOut
<1>10. ASSUME NEW r, Ring!Reduce(r) PROVE RingProofs!Reduce(r)
  BY <1>10, <1>3 DEF Ring!Reduce, RingProofs!Reduce, Ring!progress, RingProofs!progress,
                     Ring!InReduceStage, RingProofs!InReduceStage, Ring!targetCompletes,
                     RingProofs!targetCompletes, Ring!Into, RingProofs!Into, Ring!initTransfer,
                     RingProofs!initTransfer, Ring!is_last_step_reduce,
                     RingProofs!is_last_step_reduce, Ring!Advance, RingProofs!Advance
<1>11. ASSUME NEW r, Ring!Gather(r) PROVE RingProofs!Gather(r)
  BY <1>11 DEF Ring!Gather, RingProofs!Gather, Ring!progress, RingProofs!progress,
               Ring!InReduceStage, RingProofs!InReduceStage, Ring!is_last_step,
               RingProofs!is_last_step, Ring!targetCompletes, RingProofs!targetCompletes,
               Ring!Into, RingProofs!Into, Ring!is_last_step_gather,
               RingProofs!is_last_step_gather, Ring!ackTransfer, RingProofs!ackTransfer,
               Ring!initTransfer, RingProofs!initTransfer, Ring!Advance, RingProofs!Advance
<1>12. ASSUME NEW r, Ring!Complete(r) PROVE RingProofs!Complete(r)
  BY <1>12 DEF Ring!Complete, RingProofs!Complete, Ring!complete, RingProofs!complete,
               Ring!is_last_step, RingProofs!is_last_step, Ring!sourceAcked,
               RingProofs!sourceAcked
<1>13. ASSUME NEW c, Ring!WriteArrives(c) PROVE RingProofs!WriteArrives(c)
  BY <1>13 DEF Ring!WriteArrives, RingProofs!WriteArrives, Ring!Transfer, RingProofs!Transfer,
               Ring!SourceMemory, RingProofs!SourceMemory, Ring!TargetMemory,
               RingProofs!TargetMemory, Ring!WriteLands, RingProofs!WriteLands
<1>14. ASSUME NEW c, Ring!AckArrives(c) PROVE RingProofs!AckArrives(c)
  BY <1>14 DEF Ring!AckArrives, RingProofs!AckArrives, Ring!Acknowledge, RingProofs!Acknowledge,
               Ring!AckLands, RingProofs!AckLands, Ring!collectiveVars, RingProofs!collectiveVars
<1>15. Ring!Next => RingProofs!Next
  BY <1>4, <1>7, <1>8, <1>9, <1>10, <1>11, <1>12, <1>13, <1>14
     DEF Ring!Next, RingProofs!Next, Ring!User, RingProofs!User, Ring!TriggerProgress,
         RingProofs!TriggerProgress
<1>16. UNCHANGED vars => UNCHANGED RingProofs!vars
  BY DEF vars, common, RingProofs!vars, RingProofs!allreduceVars, RingProofs!collectiveVars,
         RingProofs!endpointVars
<1>17. RingProofs!ResultsCorrect => Ring!ResultsCorrect
  BY DEF Ring!ResultsCorrect, RingProofs!ResultsCorrect, Ring!HasResult, RingProofs!HasResult,
         Ring!SetToBag, RingProofs!SetToBag
<1>18. RingProofs!NoNotificationLost => Ring!NoNotificationLost
  BY <1>4 DEF Ring!NoNotificationLost, RingProofs!NoNotificationLost, Ring!OneOutstanding,
              RingProofs!OneOutstanding
<1>19. RingProofs!SourcesReleased => Ring!SourcesReleased
  BY <1>4 DEF Ring!SourcesReleased, RingProofs!SourcesReleased, Ring!Released, RingProofs!Released
<1>20. RingProofs!NothingLeftOver => Ring!NothingLeftOver
  BY <1>4 DEF Ring!NothingLeftOver, RingProofs!NothingLeftOver, Ring!AllHaveResults,
              RingProofs!AllHaveResults, Ring!Quiet, RingProofs!Quiet, Ring!HasResult,
              RingProofs!HasResult
<1> QED
  BY <1>6, <1>15, <1>16, <1>17, <1>18, <1>19, <1>20

(* so are those of AllreduceRecursiveDoubling for the small group *)
LEMMA SameDoubling ==
  /\ Doubling!Init => SmallProofs!Init
  /\ Doubling!Next => SmallProofs!Next
  /\ UNCHANGED vars => UNCHANGED SmallProofs!vars
  /\ SmallProofs!ResultsCorrect => Doubling!ResultsCorrect
  /\ SmallProofs!NoNotificationLost => Doubling!NoNotificationLost
  /\ SmallProofs!SourcesReleased => Doubling!SourcesReleased
  /\ SmallProofs!NothingLeftOver => Doubling!NothingLeftOver
<1> USE DEF Doubling!Ranks, SmallProofs!Ranks, Doubling!number_iterations,
            SmallProofs!number_iterations, Doubling!number_ranks_used,
            SmallProofs!number_ranks_used, Doubling!number_ranks_rest,
            SmallProofs!number_ranks_rest, Doubling!is_extra_rank, SmallProofs!is_extra_rank,
            Doubling!is_even_non_extra_rank, SmallProofs!is_even_non_extra_rank,
            Doubling!is_odd_non_extra_rank, SmallProofs!is_odd_non_extra_rank,
            Doubling!is_active_rank, SmallProofs!is_active_rank, Doubling!FlipBit,
            SmallProofs!FlipBit, Doubling!Neighbor, SmallProofs!Neighbor, Doubling!NonPowerTwo,
            SmallProofs!NonPowerTwo, Doubling!Partner, SmallProofs!Partner, Doubling!Vector,
            SmallProofs!Vector, Doubling!allreduceVars, SmallProofs!allreduceVars,
            Doubling!endpointVars, SmallProofs!endpointVars
<1>1. Doubling!EmptyBag = SmallProofs!EmptyBag
  BY DEF Doubling!EmptyBag, SmallProofs!EmptyBag, Doubling!SetToBag, SmallProofs!SetToBag
<1>2. \A S : Doubling!SetToBag(S) = SmallProofs!SetToBag(S)
  BY DEF Doubling!SetToBag, SmallProofs!SetToBag
<1>3. \A a, b : Doubling!(+)(a, b) = SmallProofs!(+)(a, b)
  BY DEF Doubling!(+), SmallProofs!(+)
<1>4. Doubling!Channels = SmallProofs!Channels
  BY DEF Doubling!Channels, SmallProofs!Channels
<1>5. Doubling!Locations = SmallProofs!Locations
  BY <1>4 DEF Doubling!Locations, SmallProofs!Locations
<1>6. Doubling!Init => SmallProofs!Init
  BY <1>1, <1>4, <1>5 DEF Doubling!Init, SmallProofs!Init, Doubling!Setup, SmallProofs!Setup,
                          Doubling!Connected, SmallProofs!Connected
<1>7. ASSUME NEW r, Doubling!CopyIn(r) PROVE SmallProofs!CopyIn(r)
  BY <1>7, <1>2 DEF Doubling!CopyIn, SmallProofs!CopyIn, Doubling!copyIn, SmallProofs!copyIn,
                    Doubling!PassedBarrier, SmallProofs!PassedBarrier
<1>8. ASSUME NEW r, Doubling!Start(r) PROVE SmallProofs!Start(r)
  BY <1>8 DEF Doubling!Start, SmallProofs!Start, Doubling!start, SmallProofs!start,
              Doubling!initTransfer, SmallProofs!initTransfer
<1>9. ASSUME NEW r, Doubling!CopyOut(r) PROVE SmallProofs!CopyOut(r)
  BY <1>9 DEF Doubling!CopyOut, SmallProofs!CopyOut, Doubling!copyOut, SmallProofs!copyOut
<1>10. ASSUME NEW r, Doubling!InitialStep(r) PROVE SmallProofs!InitialStep(r)
  BY <1>10, <1>3 DEF Doubling!InitialStep, SmallProofs!InitialStep, Doubling!progress,
                     SmallProofs!progress, Doubling!targetCompletes, SmallProofs!targetCompletes,
                     Doubling!Into, SmallProofs!Into, Doubling!ApplyReduce,
                     SmallProofs!ApplyReduce, Doubling!initTransfer, SmallProofs!initTransfer
<1>11. ASSUME NEW r, Doubling!AwaitData(r) PROVE SmallProofs!AwaitData(r)
  BY <1>11 DEF Doubling!AwaitData, SmallProofs!AwaitData, Doubling!progress, SmallProofs!progress,
               Doubling!targetCompletes, SmallProofs!targetCompletes, Doubling!Into,
               SmallProofs!Into, Doubling!ackTransfer, SmallProofs!ackTransfer
<1>12. ASSUME NEW r, Doubling!AwaitAck(r) PROVE SmallProofs!AwaitAck(r)
  BY <1>12, <1>3 DEF Doubling!AwaitAck, SmallProofs!AwaitAck, Doubling!progress,
                     SmallProofs!progress, Doubling!sourceAcked, SmallProofs!sourceAcked,
                     Doubling!ApplyReduce, SmallProofs!ApplyReduce, Doubling!is_last_iteration,
                     SmallProofs!is_last_iteration, Doubling!initTransfer,
                     SmallProofs!initTransfer
<1>13. ASSUME NEW r, Doubling!SkipIteration(r) PROVE SmallProofs!SkipIteration(r)
  BY <1>13 DEF Doubling!SkipIteration, SmallProofs!SkipIteration, Doubling!progress,
               SmallProofs!progress, Doubling!is_last_iteration, SmallProofs!is_last_iteration
<1>14. ASSUME NEW r, Doubling!Complete(r) PROVE SmallProofs!Complete(r)
  BY <1>14 DEF Doubling!Complete, SmallProofs!Complete, Doubling!complete, SmallProofs!complete,
               Doubling!sourceAcked, SmallProofs!sourceAcked, Doubling!targetCompletes,
               SmallProofs!targetCompletes, Doubling!Into, SmallProofs!Into, Doubling!ackTransfer,
               SmallProofs!ackTransfer
<1>15. ASSUME NEW c, Doubling!WriteArrives(c) PROVE SmallProofs!WriteArrives(c)
  BY <1>15 DEF Doubling!WriteArrives, SmallProofs!WriteArrives, Doubling!Transfer,
               SmallProofs!Transfer, Doubling!SourceMemory, SmallProofs!SourceMemory,
               Doubling!TargetMemory, SmallProofs!TargetMemory, Doubling!WriteLands,
               SmallProofs!WriteLands
<1>16. ASSUME NEW c, Doubling!AckArrives(c) PROVE SmallProofs!AckArrives(c)
  BY <1>16 DEF Doubling!AckArrives, SmallProofs!AckArrives, Doubling!Acknowledge,
               SmallProofs!Acknowledge, Doubling!AckLands, SmallProofs!AckLands,
               Doubling!collectiveVars, SmallProofs!collectiveVars
<1>17. Doubling!Next => SmallProofs!Next
  BY <1>4, <1>7, <1>8, <1>9, <1>10, <1>11, <1>12, <1>13, <1>14, <1>15, <1>16
     DEF Doubling!Next, SmallProofs!Next, Doubling!User, SmallProofs!User,
         Doubling!TriggerProgress, SmallProofs!TriggerProgress
<1>18. UNCHANGED vars => UNCHANGED SmallProofs!vars
  BY DEF vars, common, SmallProofs!vars, SmallProofs!allreduceVars, SmallProofs!collectiveVars,
         SmallProofs!endpointVars
<1>19. SmallProofs!ResultsCorrect => Doubling!ResultsCorrect
  BY DEF Doubling!ResultsCorrect, SmallProofs!ResultsCorrect, Doubling!HasResult,
         SmallProofs!HasResult, Doubling!SetToBag, SmallProofs!SetToBag
<1>20. SmallProofs!NoNotificationLost => Doubling!NoNotificationLost
  BY <1>4 DEF Doubling!NoNotificationLost, SmallProofs!NoNotificationLost,
              Doubling!OneOutstanding, SmallProofs!OneOutstanding
<1>21. SmallProofs!SourcesReleased => Doubling!SourcesReleased
  BY <1>4 DEF Doubling!SourcesReleased, SmallProofs!SourcesReleased, Doubling!Released,
              SmallProofs!Released
<1>22. SmallProofs!NothingLeftOver => Doubling!NothingLeftOver
  BY <1>4 DEF Doubling!NothingLeftOver, SmallProofs!NothingLeftOver, Doubling!AllHaveResults,
              SmallProofs!AllHaveResults, Doubling!Quiet, SmallProofs!Quiet, Doubling!HasResult,
              SmallProofs!HasResult
<1> QED
  BY <1>6, <1>17, <1>18, <1>19, <1>20, <1>21, <1>22

(* and those for the large one. *)
LEMMA SameLargeDoubling ==
  /\ LargeDoubling!Init => LargeProofs!Init
  /\ LargeDoubling!Next => LargeProofs!Next
  /\ UNCHANGED vars => UNCHANGED LargeProofs!vars
  /\ LargeProofs!ResultsCorrect => LargeDoubling!ResultsCorrect
  /\ LargeProofs!NoNotificationLost => LargeDoubling!NoNotificationLost
  /\ LargeProofs!SourcesReleased => LargeDoubling!SourcesReleased
  /\ LargeProofs!NothingLeftOver => LargeDoubling!NothingLeftOver
<1> USE DEF LargeDoubling!Ranks, LargeProofs!Ranks, LargeDoubling!number_iterations,
            LargeProofs!number_iterations, LargeDoubling!number_ranks_used,
            LargeProofs!number_ranks_used, LargeDoubling!number_ranks_rest,
            LargeProofs!number_ranks_rest, LargeDoubling!is_extra_rank, LargeProofs!is_extra_rank,
            LargeDoubling!is_even_non_extra_rank, LargeProofs!is_even_non_extra_rank,
            LargeDoubling!is_odd_non_extra_rank, LargeProofs!is_odd_non_extra_rank,
            LargeDoubling!is_active_rank, LargeProofs!is_active_rank, LargeDoubling!FlipBit,
            LargeProofs!FlipBit, LargeDoubling!Neighbor, LargeProofs!Neighbor,
            LargeDoubling!NonPowerTwo, LargeProofs!NonPowerTwo, LargeDoubling!Partner,
            LargeProofs!Partner, LargeDoubling!Vector, LargeProofs!Vector,
            LargeDoubling!allreduceVars, LargeProofs!allreduceVars, LargeDoubling!endpointVars,
            LargeProofs!endpointVars
<1>1. LargeDoubling!EmptyBag = LargeProofs!EmptyBag
  BY DEF LargeDoubling!EmptyBag, LargeProofs!EmptyBag, LargeDoubling!SetToBag,
         LargeProofs!SetToBag
<1>2. \A S : LargeDoubling!SetToBag(S) = LargeProofs!SetToBag(S)
  BY DEF LargeDoubling!SetToBag, LargeProofs!SetToBag
<1>3. \A a, b : LargeDoubling!(+)(a, b) = LargeProofs!(+)(a, b)
  BY DEF LargeDoubling!(+), LargeProofs!(+)
<1>4. LargeDoubling!Channels = LargeProofs!Channels
  BY DEF LargeDoubling!Channels, LargeProofs!Channels
<1>5. LargeDoubling!Locations = LargeProofs!Locations
  BY <1>4 DEF LargeDoubling!Locations, LargeProofs!Locations
<1>6. LargeDoubling!Init => LargeProofs!Init
  BY <1>1, <1>4, <1>5 DEF LargeDoubling!Init, LargeProofs!Init, LargeDoubling!Setup,
                          LargeProofs!Setup, LargeDoubling!Connected, LargeProofs!Connected
<1>7. ASSUME NEW r, LargeDoubling!CopyIn(r) PROVE LargeProofs!CopyIn(r)
  BY <1>7, <1>2 DEF LargeDoubling!CopyIn, LargeProofs!CopyIn, LargeDoubling!copyIn,
                    LargeProofs!copyIn, LargeDoubling!PassedBarrier, LargeProofs!PassedBarrier
<1>8. ASSUME NEW r, LargeDoubling!Start(r) PROVE LargeProofs!Start(r)
  BY <1>8 DEF LargeDoubling!Start, LargeProofs!Start, LargeDoubling!start, LargeProofs!start,
              LargeDoubling!initTransfer, LargeProofs!initTransfer
<1>9. ASSUME NEW r, LargeDoubling!CopyOut(r) PROVE LargeProofs!CopyOut(r)
  BY <1>9 DEF LargeDoubling!CopyOut, LargeProofs!CopyOut, LargeDoubling!copyOut,
              LargeProofs!copyOut
<1>10. ASSUME NEW r, LargeDoubling!InitialStep(r) PROVE LargeProofs!InitialStep(r)
  BY <1>10, <1>3 DEF LargeDoubling!InitialStep, LargeProofs!InitialStep, LargeDoubling!progress,
                     LargeProofs!progress, LargeDoubling!targetCompletes,
                     LargeProofs!targetCompletes, LargeDoubling!Into, LargeProofs!Into,
                     LargeDoubling!ApplyReduce, LargeProofs!ApplyReduce,
                     LargeDoubling!initTransfer, LargeProofs!initTransfer
<1>11. ASSUME NEW r, LargeDoubling!AwaitData(r) PROVE LargeProofs!AwaitData(r)
  BY <1>11 DEF LargeDoubling!AwaitData, LargeProofs!AwaitData, LargeDoubling!progress,
               LargeProofs!progress, LargeDoubling!targetCompletes, LargeProofs!targetCompletes,
               LargeDoubling!Into, LargeProofs!Into, LargeDoubling!ackTransfer,
               LargeProofs!ackTransfer
<1>12. ASSUME NEW r, LargeDoubling!AwaitAck(r) PROVE LargeProofs!AwaitAck(r)
  BY <1>12, <1>3 DEF LargeDoubling!AwaitAck, LargeProofs!AwaitAck, LargeDoubling!progress,
                     LargeProofs!progress, LargeDoubling!sourceAcked, LargeProofs!sourceAcked,
                     LargeDoubling!ApplyReduce, LargeProofs!ApplyReduce,
                     LargeDoubling!is_last_iteration, LargeProofs!is_last_iteration,
                     LargeDoubling!initTransfer, LargeProofs!initTransfer
<1>13. ASSUME NEW r, LargeDoubling!SkipIteration(r) PROVE LargeProofs!SkipIteration(r)
  BY <1>13 DEF LargeDoubling!SkipIteration, LargeProofs!SkipIteration, LargeDoubling!progress,
               LargeProofs!progress, LargeDoubling!is_last_iteration,
               LargeProofs!is_last_iteration
<1>14. ASSUME NEW r, LargeDoubling!Complete(r) PROVE LargeProofs!Complete(r)
  BY <1>14 DEF LargeDoubling!Complete, LargeProofs!Complete, LargeDoubling!complete,
               LargeProofs!complete, LargeDoubling!sourceAcked, LargeProofs!sourceAcked,
               LargeDoubling!targetCompletes, LargeProofs!targetCompletes, LargeDoubling!Into,
               LargeProofs!Into, LargeDoubling!ackTransfer, LargeProofs!ackTransfer
<1>15. ASSUME NEW c, LargeDoubling!WriteArrives(c) PROVE LargeProofs!WriteArrives(c)
  BY <1>15 DEF LargeDoubling!WriteArrives, LargeProofs!WriteArrives, LargeDoubling!Transfer,
               LargeProofs!Transfer, LargeDoubling!SourceMemory, LargeProofs!SourceMemory,
               LargeDoubling!TargetMemory, LargeProofs!TargetMemory, LargeDoubling!WriteLands,
               LargeProofs!WriteLands
<1>16. ASSUME NEW c, LargeDoubling!AckArrives(c) PROVE LargeProofs!AckArrives(c)
  BY <1>16 DEF LargeDoubling!AckArrives, LargeProofs!AckArrives, LargeDoubling!Acknowledge,
               LargeProofs!Acknowledge, LargeDoubling!AckLands, LargeProofs!AckLands,
               LargeDoubling!collectiveVars, LargeProofs!collectiveVars
<1>17. LargeDoubling!Next => LargeProofs!Next
  BY <1>4, <1>7, <1>8, <1>9, <1>10, <1>11, <1>12, <1>13, <1>14, <1>15, <1>16
     DEF LargeDoubling!Next, LargeProofs!Next, LargeDoubling!User, LargeProofs!User,
         LargeDoubling!TriggerProgress, LargeProofs!TriggerProgress
<1>18. UNCHANGED vars => UNCHANGED LargeProofs!vars
  BY DEF vars, common, LargeProofs!vars, LargeProofs!allreduceVars, LargeProofs!collectiveVars,
         LargeProofs!endpointVars
<1>19. LargeProofs!ResultsCorrect => LargeDoubling!ResultsCorrect
  BY DEF LargeDoubling!ResultsCorrect, LargeProofs!ResultsCorrect, LargeDoubling!HasResult,
         LargeProofs!HasResult, LargeDoubling!SetToBag, LargeProofs!SetToBag
<1>20. LargeProofs!NoNotificationLost => LargeDoubling!NoNotificationLost
  BY <1>4 DEF LargeDoubling!NoNotificationLost, LargeProofs!NoNotificationLost,
              LargeDoubling!OneOutstanding, LargeProofs!OneOutstanding
<1>21. LargeProofs!SourcesReleased => LargeDoubling!SourcesReleased
  BY <1>4 DEF LargeDoubling!SourcesReleased, LargeProofs!SourcesReleased, LargeDoubling!Released,
              LargeProofs!Released
<1>22. LargeProofs!NothingLeftOver => LargeDoubling!NothingLeftOver
  BY <1>4 DEF LargeDoubling!NothingLeftOver, LargeProofs!NothingLeftOver,
              LargeDoubling!AllHaveResults, LargeProofs!AllHaveResults, LargeDoubling!Quiet,
              LargeProofs!Quiet, LargeDoubling!HasResult, LargeProofs!HasResult
<1> QED
  BY <1>6, <1>17, <1>18, <1>19, <1>20, <1>21, <1>22
-----------------------------------------------------------------------------
(* Whatever collective is chosen, its invariant holds. *)
IInv ==
  /\ algorithm = "Linear" => LinearInv
  /\ algorithm = "ToAll" => ToAllInv
  /\ algorithm = "Allgatherv" => AllgathervInv
  /\ algorithm = "Ring" => RingProofs!IInv
  /\ algorithm = "Doubling" => SmallProofs!IInv
  /\ algorithm = "LargeDoubling" => LargeProofs!IInv

(* The groups are such as the constructors are given. *)
LEMMA ParametersHold ==
  /\ LinearParameters /\ ToAllParameters /\ AllgathervParameters
  /\ RingProofs!Parameters /\ SmallProofs!Parameters /\ LargeProofs!Parameters
<1>1. {Small, Medium, Large} \subseteq Nat \ {0, 1} /\ Rounds \in Nat /\ root \in 0 .. Medium - 1
  BY GroupAssumption
<1>2. LinearParameters /\ ToAllParameters /\ AllgathervParameters /\ RingProofs!Parameters
  BY <1>1 DEF LinearParameters, Linear!Ranks, ToAllParameters, ToAll!Ranks,
              AllgathervParameters, RingProofs!Parameters
<1>3. SmallProofs!Parameters /\ LargeProofs!Parameters
  BY <1>1, PowerAssumption DEF SmallProofs!Parameters, LargeProofs!Parameters
<1> QED
  BY <1>2, <1>3

(* The invariant of the chosen collective implies its properties.          *)
LEMMA Consequences ==
  ASSUME IInv
  PROVE  /\ algorithm = "Linear" =>
              Linear!ResultsCorrect /\ Linear!NoNotificationLost /\ Linear!NothingLeftOver
         /\ algorithm = "ToAll" =>
              /\ ToAll!ResultsCorrect /\ ToAll!NoNotificationLost
              /\ ToAll!SourcesReleased /\ ToAll!NothingLeftOver /\ ToAll!CountExact
         /\ algorithm = "Allgatherv" =>
              /\ Allgatherv!ResultsCorrect /\ Allgatherv!NoNotificationLost
              /\ Allgatherv!SourcesReleased /\ Allgatherv!NothingLeftOver
         /\ algorithm = "Ring" =>
              /\ Ring!ResultsCorrect /\ Ring!NoNotificationLost
              /\ Ring!SourcesReleased /\ Ring!NothingLeftOver
         /\ algorithm = "Doubling" =>
              /\ Doubling!ResultsCorrect /\ Doubling!NoNotificationLost
              /\ Doubling!SourcesReleased /\ Doubling!NothingLeftOver
         /\ algorithm = "LargeDoubling" =>
              /\ LargeDoubling!ResultsCorrect /\ LargeDoubling!NoNotificationLost
              /\ LargeDoubling!SourcesReleased /\ LargeDoubling!NothingLeftOver
<1>1. ASSUME algorithm = "Linear"
      PROVE  Linear!ResultsCorrect /\ Linear!NoNotificationLost /\ Linear!NothingLeftOver
  BY <1>1, ParametersHold, LinearConsequences DEF IInv
<1>2. ASSUME algorithm = "ToAll"
      PROVE  /\ ToAll!ResultsCorrect /\ ToAll!NoNotificationLost
             /\ ToAll!SourcesReleased /\ ToAll!NothingLeftOver /\ ToAll!CountExact
  BY <1>2, ParametersHold, ToAllConsequences DEF IInv
<1>3. ASSUME algorithm = "Allgatherv"
      PROVE  /\ Allgatherv!ResultsCorrect /\ Allgatherv!NoNotificationLost
             /\ Allgatherv!SourcesReleased /\ Allgatherv!NothingLeftOver
  BY <1>3, ParametersHold, AllgathervConsequences DEF IInv
<1>4. ASSUME algorithm = "Ring"
      PROVE  /\ Ring!ResultsCorrect /\ Ring!NoNotificationLost
             /\ Ring!SourcesReleased /\ Ring!NothingLeftOver
  <2>1. /\ RingProofs!ResultsCorrect /\ RingProofs!NoNotificationLost
        /\ RingProofs!SourcesReleased /\ RingProofs!NothingLeftOver
    BY <1>4, ParametersHold, RingProofs!Consequences DEF IInv
  <2> QED
    BY <2>1, SameRing
<1>5. ASSUME algorithm = "Doubling"
      PROVE  /\ Doubling!ResultsCorrect /\ Doubling!NoNotificationLost
             /\ Doubling!SourcesReleased /\ Doubling!NothingLeftOver
  <2>1. /\ SmallProofs!ResultsCorrect /\ SmallProofs!NoNotificationLost
        /\ SmallProofs!SourcesReleased /\ SmallProofs!NothingLeftOver
    BY <1>5, ParametersHold, SmallProofs!Consequences DEF IInv
  <2> QED
    BY <2>1, SameDoubling
<1>6. ASSUME algorithm = "LargeDoubling"
      PROVE  /\ LargeDoubling!ResultsCorrect /\ LargeDoubling!NoNotificationLost
             /\ LargeDoubling!SourcesReleased /\ LargeDoubling!NothingLeftOver
  <2>1. /\ LargeProofs!ResultsCorrect /\ LargeProofs!NoNotificationLost
        /\ LargeProofs!SourcesReleased /\ LargeProofs!NothingLeftOver
    BY <1>6, ParametersHold, LargeProofs!Consequences DEF IInv
  <2> QED
    BY <2>1, SameLargeDoubling
<1> QED
  BY <1>1, <1>2, <1>3, <1>4, <1>5, <1>6
-----------------------------------------------------------------------------
(* The invariant holds at first, *)
LEMMA InitInv == Init => IInv
<1> SUFFICES ASSUME Init PROVE IInv
  OBVIOUS
<1>1. ASSUME algorithm = "Linear" PROVE LinearInv
  BY <1>1, ParametersHold, LinearInit DEF Init
<1>2. ASSUME algorithm = "ToAll" PROVE ToAllInv
  BY <1>2, ParametersHold, ToAllInit DEF Init
<1>3. ASSUME algorithm = "Allgatherv" PROVE AllgathervInv
  BY <1>3, ParametersHold, AllgathervInit DEF Init
<1>4. ASSUME algorithm = "Ring" PROVE RingProofs!IInv
  <2>1. RingProofs!Init
    BY <1>4, SameRing DEF Init
  <2> QED
    BY <2>1, ParametersHold, RingProofs!InitInv
<1>5. ASSUME algorithm = "Doubling" PROVE SmallProofs!IInv
  <2>1. SmallProofs!Init
    BY <1>5, SameDoubling DEF Init
  <2> QED
    BY <2>1, ParametersHold, SmallProofs!InitInv
<1>6. ASSUME algorithm = "LargeDoubling" PROVE LargeProofs!IInv
  <2>1. LargeProofs!Init
    BY <1>6, SameLargeDoubling DEF Init
  <2> QED
    BY <2>1, ParametersHold, LargeProofs!InitInv
<1> QED
  BY <1>1, <1>2, <1>3, <1>4, <1>5, <1>6 DEF IInv

(* and every step preserves it. *)
LEMMA NextInv == IInv /\ [Next]_vars => IInv'
<1> SUFFICES ASSUME IInv, [Next]_vars PROVE IInv'
  OBVIOUS
<1>1. ASSUME algorithm = "Linear" PROVE LinearInv'
  <2>1. [Linear!Next]_Linear!vars
    BY <1>1 DEF Next, vars, common, Linear!vars, Linear!broadcastVars,
                Linear!collectiveVars, Linear!endpointVars
  <2> QED
    BY <1>1, <2>1, ParametersHold, LinearNext DEF IInv
<1>2. ASSUME algorithm = "ToAll" PROVE ToAllInv'
  <2>1. [ToAll!Next]_ToAll!vars
    BY <1>2 DEF Next, vars, common, ToAll!vars, ToAll!collectiveVars, ToAll!endpointVars
  <2> QED
    BY <1>2, <2>1, ParametersHold, ToAllNext DEF IInv
<1>3. ASSUME algorithm = "Allgatherv" PROVE AllgathervInv'
  <2>1. [Allgatherv!Next]_Allgatherv!vars
    BY <1>3 DEF Next, vars, common, Allgatherv!vars, Allgatherv!collectiveVars,
                Allgatherv!endpointVars
  <2> QED
    BY <1>3, <2>1, ParametersHold, AllgathervNext DEF IInv
<1>4. ASSUME algorithm = "Ring" PROVE RingProofs!IInv'
  <2>1. [RingProofs!Next]_RingProofs!vars
    BY <1>4, SameRing DEF Next
  <2> QED
    BY <1>4, <2>1, ParametersHold, RingProofs!NextInv DEF IInv
<1>5. ASSUME algorithm = "Doubling" PROVE SmallProofs!IInv'
  <2>1. [SmallProofs!Next]_SmallProofs!vars
    BY <1>5, SameDoubling DEF Next
  <2> QED
    BY <1>5, <2>1, ParametersHold, SmallProofs!NextInv DEF IInv
<1>6. ASSUME algorithm = "LargeDoubling" PROVE LargeProofs!IInv'
  <2>1. [LargeProofs!Next]_LargeProofs!vars
    BY <1>6, SameLargeDoubling DEF Next
  <2> QED
    BY <1>6, <2>1, ParametersHold, LargeProofs!NextInv DEF IInv
<1>7. algorithm' = algorithm
  BY DEF Next, vars
<1> QED
  BY <1>1, <1>2, <1>3, <1>4, <1>5, <1>6, <1>7 DEF IInv

(* The invariants of the collectives hold in every reachable state. *)
THEOREM Invariance == Spec => []IInv
BY InitInv, NextInv, PTL DEF Spec

(* AllreduceLowLevel: copyOut writes the reduction of exactly one          *)
(* contribution of every rank, all of this execution; for the ring always, *)
(* for recursive doubling if a barrier separates executions.               *)
THEOREM AllreduceIsCorrect == Spec => []AllreduceCorrect
<1>1. IInv => AllreduceCorrect
  BY Consequences DEF AllreduceCorrect
<1> QED
  BY <1>1, Invariance, PTL

(* AllgathervLowLevel<T, RING>: copyOut writes the blocks that the ranks   *)
(* gave to this execution, if a barrier separates executions.              *)
THEOREM AllgathervIsCorrect == Spec => []AllgathervCorrect
<1>1. IInv => AllgathervCorrect
  BY Consequences DEF AllgathervCorrect
<1> QED
  BY <1>1, Invariance, PTL

(* BroadcastLowLevel: copyOut writes the root's data of this execution, by *)
(* either algorithm, if a barrier separates executions.                    *)
THEOREM BroadcastIsCorrect == Spec => []BroadcastCorrect
<1>1. IInv => BroadcastCorrect
  BY Consequences DEF BroadcastCorrect
<1> QED
  BY <1>1, Invariance, PTL

(* BroadcastLowLevel<T, SEND_TO_ALL>: the root's transfers_in_progress is  *)
(* exact, in whatever order and grouping the acknowledgements come in.     *)
THEOREM CountIsExact == Spec => []CountExact
<1>1. IInv => CountExact
  BY Consequences DEF CountExact
<1> QED
  BY <1>1, Invariance, PTL

(* No collective ever signals a buffer whose last signal has not been      *)
(* consumed, with or without a barrier between executions; the linear      *)
(* broadcast not without one.                                              *)
THEOREM NotificationsAreSafe == Spec => []NoNotificationLost
<1>1. IInv => NoNotificationLost
  BY Consequences DEF NoNotificationLost
<1> QED
  BY <1>1, Invariance, PTL

(* A rank whose collective is FINISHED may overwrite or release its source *)
(* buffers: all its transfers have landed (the linear broadcast apart).    *)
THEOREM SourcesAreReleased == Spec => []SourcesReleased
<1>1. IInv => SourcesReleased
  BY Consequences DEF SourcesReleased
<1> QED
  BY <1>1, Invariance, PTL

(* An execution that all ranks have completed leaves no notification       *)
(* behind that the next one could take for its own.                        *)
THEOREM NothingIsLeftOver == Spec => []NothingLeftOver
<1>1. IInv => NothingLeftOver
  BY Consequences DEF NothingLeftOver
<1> QED
  BY <1>1, Invariance, PTL
=============================================================================

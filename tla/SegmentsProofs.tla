--------------------------- MODULE SegmentsProofs ---------------------------
(***************************************************************************)
(* The theorems about Segments, for any threads, sizes of buffers and of   *)
(* segments, and numbers of notifications, segments and buffers.           *)
(***************************************************************************)
EXTENDS Segments, SequenceTheorems, FiniteSetTheorems, WellFoundedInduction, TLAPS

Blocks == [start : Nat, size : Nat, free : BOOLEAN]

(* The list of a manager.  That any two blocks are in order, and not only  *)
(* neighbours, makes the start of a block its name.                        *)
Ordered(blocks) ==
  \A i, j \in DOMAIN blocks : i < j => blocks[i].start + blocks[i].size <= blocks[j].start

Listed(blocks, size) ==
  /\ blocks \in Seq(Blocks) /\ blocks # <<>>
  /\ Tile(blocks, size)
  /\ Ordered(blocks)

(* A set of numbers that is not empty has a minimum. *)
LEMMA MinIn ==
  ASSUME NEW S, S \subseteq Nat, S # {}
  PROVE  Min(S) \in S /\ \A x \in S : Min(S) <= x
<1>1. \E x \in S : \A y \in S : ~(<<y, x>> \in OpToRel(<, Nat))
  BY WFMin, NatLessThanWellFounded
<1>2. PICK x \in S : \A y \in S : ~(<<y, x>> \in OpToRel(<, Nat))
  BY <1>1
<1>3. ASSUME NEW y \in S PROVE x <= y
  <2>1. <<y, x>> \in Nat \X Nat /\ ~(<<y, x>>[1] < <<y, x>>[2])
    BY <1>2 DEF OpToRel
  <2> QED
    BY <2>1
<1> QED
  BY <1>3 DEF Min

(* What Splice returns. *)
Spliced(s, f, l, m, r) ==
  /\ r \in Seq(Blocks)
  /\ Len(r) = f - 1 + Len(m) + Len(s) - l
  /\ \A k \in 1 .. f - 1 : r[k] = s[k]
  /\ \A k \in 1 .. Len(m) : r[f - 1 + k] = m[k]
  /\ \A k \in 1 .. Len(s) - l : r[f - 1 + Len(m) + k] = s[l + k]

LEMMA SpliceProperties ==
  ASSUME NEW s \in Seq(Blocks), NEW m \in Seq(Blocks),
         NEW f \in 1 .. Len(s), NEW l \in f .. Len(s)
  PROVE  Spliced(s, f, l, m, Splice(s, f, l, m))
<1> DEFINE a == SubSeq(s, 1, f - 1)
           c == SubSeq(s, l + 1, Len(s))
<1>1. Len(s) \in Nat /\ Len(m) \in Nat /\ f \in Nat /\ l \in Nat
  OBVIOUS
<1>2. \A i \in 1 .. f - 1 : s[i] \in Blocks
  BY <1>1
<1>3. \A i \in l + 1 .. Len(s) : s[i] \in Blocks
  BY <1>1
<1>4. /\ a \in Seq(Blocks) /\ Len(a) = f - 1
      /\ \A i \in 1 .. f - 1 : a[i] = s[i]
  <2>1. /\ a \in Seq(Blocks) /\ Len(a) = IF 1 <= f - 1 THEN f - 1 - 1 + 1 ELSE 0
        /\ \A i \in 1 .. f - 1 - 1 + 1 : a[i] = s[1 + i - 1]
    BY <1>1, <1>2, SubSeqProperties
  <2> HIDE DEF a
  <2> QED
    BY <1>1, <2>1
<1>5. /\ c \in Seq(Blocks) /\ Len(c) = Len(s) - l
      /\ \A i \in 1 .. Len(s) - l : c[i] = s[l + i]
  <2>1. /\ c \in Seq(Blocks) /\ Len(c) = IF l + 1 <= Len(s) THEN Len(s) - (l + 1) + 1 ELSE 0
        /\ \A i \in 1 .. Len(s) - (l + 1) + 1 : c[i] = s[l + 1 + i - 1]
    BY <1>1, <1>3, SubSeqProperties
  <2> HIDE DEF c
  <2> QED
    BY <1>1, <2>1
<1>6. Splice(s, f, l, m) = (a \o m) \o c
  BY DEF Splice
<1> HIDE DEF a, c
<1>7. /\ a \o m \in Seq(Blocks) /\ Len(a \o m) = f - 1 + Len(m)
      /\ \A i \in 1 .. f - 1 + Len(m) : (a \o m)[i] = IF i <= f - 1 THEN a[i] ELSE m[i - (f - 1)]
  <2>1. /\ a \o m \in Seq(Blocks) /\ Len(a \o m) = Len(a) + Len(m)
        /\ \A i \in 1 .. Len(a) + Len(m) : (a \o m)[i] = IF i <= Len(a) THEN a[i] ELSE m[i - Len(a)]
    BY <1>4, ConcatProperties
  <2> DEFINE am == a \o m
  <2> HIDE DEF am
  <2>2. /\ am \in Seq(Blocks) /\ Len(am) = Len(a) + Len(m)
        /\ \A i \in 1 .. Len(a) + Len(m) : am[i] = IF i <= Len(a) THEN a[i] ELSE m[i - Len(a)]
    BY <2>1 DEF am
  <2>3. /\ am \in Seq(Blocks) /\ Len(am) = f - 1 + Len(m)
        /\ \A i \in 1 .. f - 1 + Len(m) : am[i] = IF i <= f - 1 THEN a[i] ELSE m[i - (f - 1)]
    BY <1>4, <2>2
  <2> QED
    BY <2>3 DEF am
<1> DEFINE am == a \o m
           r == am \o c
<1> HIDE DEF am
<1>8. /\ r \in Seq(Blocks) /\ Len(r) = f - 1 + Len(m) + (Len(s) - l)
      /\ \A i \in 1 .. f - 1 + Len(m) + (Len(s) - l) :
           r[i] = IF i <= f - 1 + Len(m) THEN am[i] ELSE c[i - (f - 1 + Len(m))]
  <2>1. am \in Seq(Blocks) /\ Len(am) = f - 1 + Len(m)
    BY <1>7 DEF am
  <2>2. /\ r \in Seq(Blocks) /\ Len(r) = Len(am) + Len(c)
        /\ \A i \in 1 .. Len(am) + Len(c) : r[i] = IF i <= Len(am) THEN am[i] ELSE c[i - Len(am)]
    <3>1. am \in Seq(Blocks) /\ c \in Seq(Blocks)
      BY <1>5, <2>1
    <3> QED
      BY <3>1, ConcatProperties
  <2> HIDE DEF r
  <2> QED
    BY <1>1, <1>5, <2>1, <2>2
<1> HIDE DEF r
<1>9. \A i \in 1 .. f - 1 + Len(m) : am[i] = IF i <= f - 1 THEN a[i] ELSE m[i - (f - 1)]
  BY <1>7 DEF am
<1>10. ASSUME NEW k \in 1 .. f - 1 PROVE r[k] = s[k]
  <2>1. k \in 1 .. f - 1 + Len(m) + (Len(s) - l) /\ k <= f - 1 + Len(m) /\ k \in 1 .. f - 1 + Len(m)
    BY <1>1
  <2>2. r[k] = am[k] /\ am[k] = a[k]
    BY <1>8, <1>9, <2>1
  <2> QED
    BY <1>4, <2>2
<1>11. ASSUME NEW k \in 1 .. Len(m) PROVE r[f - 1 + k] = m[k]
  <2> DEFINE j == f - 1 + k
  <2>1. /\ j \in 1 .. f - 1 + Len(m) + (Len(s) - l) /\ j <= f - 1 + Len(m)
        /\ j \in 1 .. f - 1 + Len(m) /\ ~(j <= f - 1) /\ j - (f - 1) = k
    BY <1>1
  <2> HIDE DEF j
  <2>2. r[j] = am[j] /\ am[j] = m[j - (f - 1)]
    BY <1>8, <1>9, <2>1
  <2> QED
    BY <2>1, <2>2 DEF j
<1>12. ASSUME NEW k \in 1 .. Len(s) - l PROVE r[f - 1 + Len(m) + k] = s[l + k]
  <2> DEFINE j == f - 1 + Len(m) + k
  <2>1. /\ j \in 1 .. f - 1 + Len(m) + (Len(s) - l) /\ ~(j <= f - 1 + Len(m))
        /\ j - (f - 1 + Len(m)) = k
    BY <1>1
  <2> HIDE DEF j
  <2>2. r[j] = c[j - (f - 1 + Len(m))]
    BY <1>8, <2>1
  <2> QED
    BY <1>5, <2>1, <2>2 DEF j
<1> QED
  BY <1>1, <1>6, <1>8, <1>10, <1>11, <1>12 DEF r, am, Spliced

(* r is b with blocks f to l replaced by one block, and with one block     *)
(* replaced by two, element by element.                                    *)
OneFor(b, f, l, x, r) ==
  /\ r \in Seq(Blocks) /\ Len(r) = Len(b) - (l - f)
  /\ \A k \in 1 .. f - 1 : r[k] = b[k]
  /\ r[f] = x
  /\ \A k \in f + 1 .. Len(r) : r[k] = b[k + (l - f)] /\ k + (l - f) \in l + 1 .. Len(b)

TwoFor(b, i, x, y, r) ==
  /\ r \in Seq(Blocks) /\ Len(r) = Len(b) + 1
  /\ \A k \in 1 .. i - 1 : r[k] = b[k]
  /\ r[i] = x /\ r[i + 1] = y
  /\ \A k \in i + 2 .. Len(r) : r[k] = b[k - 1] /\ k - 1 \in i + 1 .. Len(b)

LEMMA SpliceOne ==
  ASSUME NEW b \in Seq(Blocks), NEW f \in 1 .. Len(b), NEW l \in f .. Len(b),
         NEW x \in Blocks, NEW r, r = Splice(b, f, l, <<x>>)
  PROVE  OneFor(b, f, l, x, r)
<1> DEFINE m == <<x>>
<1>1. m \in Seq(Blocks) /\ Len(m) = 1 /\ m[1] = x
  OBVIOUS
<1>0. r = Splice(b, f, l, m)
  OBVIOUS
<1> HIDE DEF m
<1>2. /\ r \in Seq(Blocks)
      /\ Len(r) = f - 1 + Len(m) + Len(b) - l
      /\ \A k \in 1 .. f - 1 : r[k] = b[k]
      /\ \A k \in 1 .. Len(m) : r[f - 1 + k] = m[k]
      /\ \A k \in 1 .. Len(b) - l : r[f - 1 + Len(m) + k] = b[l + k]
  <2>1. Spliced(b, f, l, m, Splice(b, f, l, m))
    BY <1>1, SpliceProperties
  <2> QED
    BY <1>0, <2>1 DEF Spliced
<1>3. Len(b) \in Nat /\ f \in Nat /\ l \in Nat
  OBVIOUS
<1>4. Len(r) = Len(b) - (l - f)
  BY <1>1, <1>2, <1>3
<1>5. r[f] = x
  <2>1. 1 \in 1 .. Len(m) /\ f - 1 + 1 = f
    BY <1>1, <1>3
  <2>2. r[f - 1 + 1] = m[1]
    BY <1>2, <2>1
  <2> QED
    BY <1>1, <2>1, <2>2
<1>6. ASSUME NEW k \in f + 1 .. Len(r)
      PROVE  r[k] = b[k + (l - f)] /\ k + (l - f) \in l + 1 .. Len(b)
  <2> DEFINE d == k - f
  <2>1. /\ d \in 1 .. Len(b) - l /\ f - 1 + Len(m) + d = k /\ l + d = k + (l - f)
        /\ k + (l - f) \in l + 1 .. Len(b)
    BY <1>1, <1>3, <1>4
  <2> HIDE DEF d
  <2>2. r[f - 1 + Len(m) + d] = b[l + d]
    BY <1>2, <2>1
  <2> QED
    BY <2>1, <2>2
<1> QED
  BY <1>2, <1>4, <1>5, <1>6 DEF OneFor

LEMMA SpliceTwo ==
  ASSUME NEW b \in Seq(Blocks), NEW i \in 1 .. Len(b),
         NEW x \in Blocks, NEW y \in Blocks, NEW r, r = Splice(b, i, i, <<x, y>>)
  PROVE  TwoFor(b, i, x, y, r)
<1> DEFINE m == <<x, y>>
<1>1. m \in Seq(Blocks) /\ Len(m) = 2 /\ m[1] = x /\ m[2] = y
  OBVIOUS
<1>0. r = Splice(b, i, i, m)
  OBVIOUS
<1> HIDE DEF m
<1>2. i \in i .. Len(b)
  OBVIOUS
<1>3. /\ r \in Seq(Blocks)
      /\ Len(r) = i - 1 + Len(m) + Len(b) - i
      /\ \A k \in 1 .. i - 1 : r[k] = b[k]
      /\ \A k \in 1 .. Len(m) : r[i - 1 + k] = m[k]
      /\ \A k \in 1 .. Len(b) - i : r[i - 1 + Len(m) + k] = b[i + k]
  <2>1. Spliced(b, i, i, m, Splice(b, i, i, m))
    BY <1>1, <1>2, SpliceProperties
  <2> QED
    BY <1>0, <2>1 DEF Spliced
<1>4. Len(b) \in Nat /\ i \in Nat
  OBVIOUS
<1>5. Len(r) = Len(b) + 1
  BY <1>1, <1>3, <1>4
<1>6. r[i] = x /\ r[i + 1] = y
  <2>1. 1 \in 1 .. Len(m) /\ 2 \in 1 .. Len(m) /\ i - 1 + 1 = i /\ i - 1 + 2 = i + 1
    BY <1>1, <1>4
  <2>2. r[i - 1 + 1] = m[1] /\ r[i - 1 + 2] = m[2]
    BY <1>3, <2>1
  <2> QED
    BY <1>1, <2>1, <2>2
<1>7. ASSUME NEW k \in i + 2 .. Len(r)
      PROVE  r[k] = b[k - 1] /\ k - 1 \in i + 1 .. Len(b)
  <2> DEFINE d == k - 1 - i
  <2>1. /\ d \in 1 .. Len(b) - i /\ i - 1 + Len(m) + d = k /\ i + d = k - 1
        /\ k - 1 \in i + 1 .. Len(b)
    BY <1>1, <1>4, <1>5
  <2> HIDE DEF d
  <2>2. r[i - 1 + Len(m) + d] = b[i + d]
    BY <1>3, <2>1
  <2> QED
    BY <2>1, <2>2
<1> QED
  BY <1>3, <1>5, <1>6, <1>7 DEF TwoFor

(* The fields of a block of a list. *)
LEMMA BlockFields ==
  ASSUME NEW b, NEW size, Listed(b, size), NEW k \in DOMAIN b
  PROVE  b[k].start \in Nat /\ b[k].size \in Nat /\ b[k].free \in BOOLEAN /\ b[k].size > 0
<1>1. b[k] \in Blocks
  BY DEF Listed
<1>2. b[k].size > 0
  BY DEF Listed, Tile
<1> QED
  BY <1>1, <1>2 DEF Blocks

(* The start of a block is its name. *)
LEMMA StartUnique ==
  ASSUME NEW b, NEW size, Listed(b, size), NEW i \in DOMAIN b, NEW j \in DOMAIN b,
         b[i].start = b[j].start
  PROVE  i = j
<1>1. b \in Seq(Blocks) /\ DOMAIN b = 1 .. Len(b)
  BY DEF Listed
<1>2. /\ b[i].start \in Nat /\ b[i].size \in Nat /\ b[j].size \in Nat
      /\ b[i].size > 0 /\ b[j].size > 0
  BY <1>1, BlockFields
<1>3. /\ i < j => b[i].start + b[i].size <= b[j].start
      /\ j < i => b[j].start + b[j].size <= b[i].start
  BY DEF Listed, Ordered
<1> QED
  BY <1>1, <1>2, <1>3

(* Neighbours are merged, or a block is marked, without gap or overlap. *)
Spans(b, f, l, x) ==
  /\ x \in Blocks /\ x.size > 0
  /\ x.start = b[f].start /\ x.start + x.size = b[l].start + b[l].size
  /\ x.free => /\ f > 1 => ~b[f - 1].free
               /\ l < Len(b) => ~b[l + 1].free

LEMMA MergeListed ==
  ASSUME NEW b, NEW size, Listed(b, size),
         NEW f \in 1 .. Len(b), NEW l \in f .. Len(b), NEW x, Spans(b, f, l, x),
         NEW r, OneFor(b, f, l, x, r)
  PROVE  Listed(r, size)
<1> DEFINE d == l - f
<1>1. /\ b \in Seq(Blocks) /\ DOMAIN b = 1 .. Len(b) /\ Len(b) \in Nat
      /\ f \in Nat /\ l \in Nat /\ f <= l /\ l <= Len(b) /\ d \in Nat
  BY DEF Listed
<1>2. /\ r \in Seq(Blocks) /\ Len(r) = Len(b) - d
      /\ \A k \in 1 .. f - 1 : r[k] = b[k]
      /\ r[f] = x
      /\ \A k \in f + 1 .. Len(r) : r[k] = b[k + d] /\ k + d \in l + 1 .. Len(b)
  BY DEF OneFor
<1>3. DOMAIN r = 1 .. Len(r) /\ Len(r) \in Nat /\ f \in 1 .. Len(r) /\ r # <<>>
  <2>1. DOMAIN r = 1 .. Len(r) /\ Len(r) \in Nat /\ f \in 1 .. Len(r)
    BY <1>1, <1>2
  <2>2. r # <<>>
    BY <2>1
  <2> QED
    BY <2>1, <2>2
<1>4. \A k \in 1 .. Len(b) : b[k].start \in Nat /\ b[k].size \in Nat /\ b[k].size > 0
  BY <1>1, BlockFields
<1>5. \A k, j \in 1 .. Len(b) : k < j => b[k].start + b[k].size <= b[j].start
  BY <1>1 DEF Listed, Ordered
<1>6. x.start \in Nat /\ x.size \in Nat /\ x.size > 0
  BY DEF Spans, Blocks
<1>6a. /\ x.start = b[f].start /\ x.start + x.size = b[l].start + b[l].size
       /\ x.free => /\ f > 1 => ~b[f - 1].free
                    /\ l < Len(b) => ~b[l + 1].free
  BY DEF Spans
<1>6b. /\ f \in Int /\ l \in Int /\ d \in Int /\ Len(b) \in Int /\ Len(r) \in Int
       /\ d = l - f /\ Len(r) = Len(b) - d /\ f <= Len(r)
  BY <1>1, <1>2, <1>3
<1> HIDE DEF d
<1>7. r[1].start = 0
  <2>1. b[1].start = 0
    BY DEF Listed, Tile
  <2>2. CASE f = 1
    BY <1>2, <1>6a, <2>1, <2>2
  <2>3. CASE f # 1
    <3>1. 1 \in 1 .. f - 1
      BY <1>1, <2>3
    <3> QED
      BY <1>2, <2>1, <3>1
  <2> QED
    BY <2>2, <2>3
<1>8. r[Len(r)].start + r[Len(r)].size = size
  <2>1. b[Len(b)].start + b[Len(b)].size = size
    BY DEF Listed, Tile
  <2>2. CASE f = Len(r)
    <3>1. l = Len(b)
      BY <1>6b, <2>2
    <3> QED
      BY <1>2, <1>6a, <2>1, <2>2, <3>1
  <2>3. CASE f # Len(r)
    <3>1. Len(r) \in f + 1 .. Len(r) /\ Len(r) + d = Len(b)
      BY <1>6b, <2>3
    <3> QED
      BY <1>2, <2>1, <3>1
  <2> QED
    BY <2>2, <2>3
<1>9. \A k \in 1 .. Len(r) : r[k].size > 0
  <2> SUFFICES ASSUME NEW k \in 1 .. Len(r) PROVE r[k].size > 0
    OBVIOUS
  <2>1. CASE k < f
    <3>1. k \in 1 .. f - 1 /\ k \in 1 .. Len(b)
      BY <1>1, <1>3, <2>1
    <3> QED
      BY <1>2, <1>4, <3>1
  <2>2. CASE k = f
    BY <1>2, <1>6, <2>2
  <2>3. CASE k > f
    <3>1. k \in f + 1 .. Len(r)
      BY <1>1, <1>3, <2>3
    <3>2. k + d \in 1 .. Len(b)
      BY <1>1, <1>2, <3>1
    <3> QED
      BY <1>2, <1>4, <3>1, <3>2
  <2> QED
    BY <1>1, <1>3, <2>1, <2>2, <2>3
<1>10. ASSUME NEW k \in 1 .. Len(r) - 1
       PROVE  /\ r[k].start + r[k].size = r[k + 1].start
              /\ ~(r[k].free /\ r[k + 1].free)
  <2>1. \A j \in 1 .. Len(b) - 1 : /\ b[j].start + b[j].size = b[j + 1].start
                                   /\ ~(b[j].free /\ b[j + 1].free)
    BY DEF Listed, Tile
  <2>2. CASE k + 1 < f
    <3>1. k \in 1 .. f - 1 /\ k + 1 \in 1 .. f - 1 /\ k \in 1 .. Len(b) - 1
      BY <1>1, <1>3, <2>2
    <3> QED
      BY <1>2, <2>1, <3>1
  <2>3. CASE k + 1 = f
    <3>1. k \in 1 .. f - 1 /\ k \in 1 .. Len(b) - 1 /\ f > 1 /\ k = f - 1
      BY <1>1, <1>3, <2>3
    <3>2. r[k] = b[k] /\ r[k + 1] = x /\ b[k].start + b[k].size = b[f].start
      BY <1>2, <2>1, <2>3, <3>1
    <3> QED
      BY <1>6a, <3>1, <3>2
  <2>4. CASE k = f
    <3>1. k + 1 \in f + 1 .. Len(r) /\ l \in 1 .. Len(b) - 1 /\ k + 1 + d = l + 1 /\ l < Len(b)
      BY <1>1, <1>2, <1>3, <2>4 DEF d
    <3>2. r[k] = x /\ r[k + 1] = b[l + 1] /\ b[l].start + b[l].size = b[l + 1].start
      BY <1>2, <2>1, <2>4, <3>1
    <3> QED
      BY <1>6a, <3>1, <3>2
  <2>5. CASE k > f
    <3>1. /\ k \in f + 1 .. Len(r) /\ k + 1 \in f + 1 .. Len(r)
          /\ k + d \in 1 .. Len(b) - 1 /\ k + 1 + d = k + d + 1
      BY <1>1, <1>2, <1>3, <2>5
    <3>2. r[k] = b[k + d] /\ r[k + 1] = b[k + d + 1]
      BY <1>2, <3>1
    <3> QED
      BY <2>1, <3>1, <3>2
  <2> QED
    BY <1>1, <1>3, <2>2, <2>3, <2>4, <2>5
<1>11. Tile(r, size)
  BY <1>3, <1>7, <1>8, <1>9, <1>10 DEF Tile
<1>12. Ordered(r)
  <2> SUFFICES ASSUME NEW i \in 1 .. Len(r), NEW j \in 1 .. Len(r), i < j
               PROVE  r[i].start + r[i].size <= r[j].start
    BY <1>3 DEF Ordered
  <2> DEFINE last(k) == IF k < f THEN k ELSE k + d
             first(k) == IF k <= f THEN k ELSE k + d
  <2>1. ASSUME NEW k \in 1 .. Len(r)
        PROVE  /\ first(k) \in 1 .. Len(b) /\ last(k) \in 1 .. Len(b)
               /\ r[k].start = b[first(k)].start
               /\ r[k].start + r[k].size = b[last(k)].start + b[last(k)].size
    <3>1. CASE k < f
      <4>1. k \in 1 .. f - 1 /\ k \in 1 .. Len(b)
        BY <1>1, <1>3, <3>1
      <4> QED
        BY <1>2, <1>3, <3>1, <4>1
    <3>2. CASE k = f
      <4>1. k + d = l
        BY <1>1, <3>2 DEF d
      <4>2. r[k] = x /\ first(k) = f /\ last(k) = l
        BY <1>1, <1>2, <3>2, <4>1
      <4> QED
        BY <1>1, <1>6a, <4>2
    <3>3. CASE k > f
      <4>1. k \in f + 1 .. Len(r)
        BY <1>1, <1>3, <3>3
      <4>2. r[k] = b[k + d] /\ k + d \in l + 1 .. Len(b)
        BY <1>2, <4>1
      <4>3. k + d \in 1 .. Len(b)
        BY <1>1, <4>2
      <4> QED
        BY <1>1, <3>3, <4>2, <4>3
    <3> QED
      BY <1>1, <1>3, <3>1, <3>2, <3>3
  <2>2. last(i) < first(j)
    BY <1>1, <1>3
  <2> HIDE DEF last, first
  <2>3. b[last(i)].start + b[last(i)].size <= b[first(j)].start
    BY <1>5, <2>1, <2>2
  <2> QED
    BY <2>1, <2>3
<1> QED
  BY <1>2, <1>3, <1>11, <1>12 DEF Listed

(* A free block is split into a used and a free one. *)
Splits(b, i, x, y) ==
  /\ x \in Blocks /\ y \in Blocks /\ x.size > 0 /\ y.size > 0
  /\ x.start = b[i].start /\ y.start = x.start + x.size
  /\ y.start + y.size = b[i].start + b[i].size
  /\ b[i].free /\ ~x.free

LEMMA SplitListed ==
  ASSUME NEW b, NEW size, Listed(b, size), NEW i \in 1 .. Len(b), NEW x, NEW y,
         Splits(b, i, x, y), NEW r, TwoFor(b, i, x, y, r)
  PROVE  Listed(r, size)
<1>1. /\ b \in Seq(Blocks) /\ DOMAIN b = 1 .. Len(b) /\ Len(b) \in Nat
      /\ i \in Nat /\ i <= Len(b) /\ 1 <= i
  BY DEF Listed
<1>2. /\ r \in Seq(Blocks) /\ Len(r) = Len(b) + 1
      /\ \A k \in 1 .. i - 1 : r[k] = b[k]
      /\ r[i] = x /\ r[i + 1] = y
      /\ \A k \in i + 2 .. Len(r) : r[k] = b[k - 1] /\ k - 1 \in i + 1 .. Len(b)
  BY DEF TwoFor
<1>3. DOMAIN r = 1 .. Len(r) /\ Len(r) \in Nat /\ r # <<>>
  <2>1. DOMAIN r = 1 .. Len(r) /\ Len(r) \in Nat /\ i \in 1 .. Len(r)
    BY <1>1, <1>2
  <2>2. r # <<>>
    BY <2>1
  <2> QED
    BY <2>1, <2>2
<1>4. \A k \in 1 .. Len(b) : b[k].start \in Nat /\ b[k].size \in Nat /\ b[k].size > 0
  BY <1>1, BlockFields
<1>5. \A k, j \in 1 .. Len(b) : k < j => b[k].start + b[k].size <= b[j].start
  BY <1>1 DEF Listed, Ordered
<1>6. /\ x.start \in Nat /\ x.size \in Nat /\ x.size > 0
      /\ y.start \in Nat /\ y.size \in Nat /\ y.size > 0
  BY DEF Splits, Blocks
<1>7. /\ x.start = b[i].start /\ y.start = x.start + x.size
      /\ y.start + y.size = b[i].start + b[i].size
      /\ b[i].free /\ ~x.free
  BY DEF Splits
<1>8. /\ i \in Int /\ Len(b) \in Int /\ Len(r) \in Int /\ 1 <= i /\ i <= Len(b)
      /\ Len(r) = Len(b) + 1
  BY <1>1, <1>2
<1>9. ASSUME NEW k \in 1 .. Len(r)
      PROVE  \/ k \in 1 .. i - 1 /\ k \in 1 .. Len(b)
             \/ k = i
             \/ k = i + 1
             \/ k \in i + 2 .. Len(r) /\ k - 1 \in 1 .. Len(b)
  BY <1>8
<1>10. r[1].start = 0
  <2>1. b[1].start = 0
    BY DEF Listed, Tile
  <2>2. CASE i = 1
    BY <1>2, <1>7, <2>1, <2>2
  <2>3. CASE i # 1
    <3>1. 1 \in 1 .. i - 1
      BY <1>8, <2>3
    <3> QED
      BY <1>2, <2>1, <3>1
  <2> QED
    BY <2>2, <2>3
<1>11. r[Len(r)].start + r[Len(r)].size = size
  <2>1. b[Len(b)].start + b[Len(b)].size = size
    BY DEF Listed, Tile
  <2>2. CASE i = Len(b)
    <3>1. Len(r) = i + 1
      BY <1>8, <2>2
    <3> QED
      BY <1>2, <1>7, <2>1, <2>2, <3>1
  <2>3. CASE i # Len(b)
    <3>1. Len(r) \in i + 2 .. Len(r) /\ Len(r) - 1 = Len(b)
      BY <1>8, <2>3
    <3> QED
      BY <1>2, <2>1, <3>1
  <2> QED
    BY <2>2, <2>3
<1>12. \A k \in 1 .. Len(r) : r[k].size > 0
  <2> SUFFICES ASSUME NEW k \in 1 .. Len(r) PROVE r[k].size > 0
    OBVIOUS
  <2>1. CASE k \in 1 .. i - 1 /\ k \in 1 .. Len(b)
    BY <1>2, <1>4, <2>1
  <2>2. CASE k = i
    BY <1>2, <1>6, <2>2
  <2>3. CASE k = i + 1
    BY <1>2, <1>6, <2>3
  <2>4. CASE k \in i + 2 .. Len(r) /\ k - 1 \in 1 .. Len(b)
    BY <1>2, <1>4, <2>4
  <2> QED
    BY <1>9, <2>1, <2>2, <2>3, <2>4
<1>13. ASSUME NEW k \in 1 .. Len(r) - 1
       PROVE  /\ r[k].start + r[k].size = r[k + 1].start
              /\ ~(r[k].free /\ r[k + 1].free)
  <2>1. \A j \in 1 .. Len(b) - 1 : /\ b[j].start + b[j].size = b[j + 1].start
                                   /\ ~(b[j].free /\ b[j + 1].free)
    BY DEF Listed, Tile
  <2>2. CASE k + 1 < i
    <3>1. k \in 1 .. i - 1 /\ k + 1 \in 1 .. i - 1 /\ k \in 1 .. Len(b) - 1
      BY <1>8, <2>2
    <3> QED
      BY <1>2, <2>1, <3>1
  <2>3. CASE k + 1 = i
    <3>1. k \in 1 .. i - 1 /\ k \in 1 .. Len(b) - 1
      BY <1>8, <2>3
    <3>2. r[k] = b[k] /\ r[k + 1] = x /\ b[k].start + b[k].size = b[i].start
      BY <1>2, <2>1, <2>3, <3>1
    <3> QED
      BY <1>7, <3>2
  <2>4. CASE k = i
    BY <1>2, <1>7, <2>4
  <2>5. CASE k = i + 1
    <3>1. /\ k + 1 \in i + 2 .. Len(r) /\ i \in 1 .. Len(b) - 1 /\ k + 1 - 1 = i + 1
      BY <1>8, <2>5
    <3>2. /\ r[k] = y /\ r[k + 1] = b[i + 1]
          /\ b[i].start + b[i].size = b[i + 1].start /\ ~b[i + 1].free
      BY <1>2, <1>7, <2>1, <2>5, <3>1
    <3> QED
      BY <1>7, <3>2
  <2>6. CASE k > i + 1
    <3>1. /\ k \in i + 2 .. Len(r) /\ k + 1 \in i + 2 .. Len(r)
          /\ k - 1 \in 1 .. Len(b) - 1 /\ k + 1 - 1 = k - 1 + 1
      BY <1>8, <2>6
    <3>2. r[k] = b[k - 1] /\ r[k + 1] = b[k - 1 + 1]
      BY <1>2, <3>1
    <3> QED
      BY <2>1, <3>1, <3>2
  <2> QED
    BY <1>8, <2>2, <2>3, <2>4, <2>5, <2>6
<1>14. Tile(r, size)
  BY <1>3, <1>10, <1>11, <1>12, <1>13 DEF Tile
<1>15. Ordered(r)
  <2> SUFFICES ASSUME NEW k \in 1 .. Len(r), NEW j \in 1 .. Len(r), k < j
               PROVE  r[k].start + r[k].size <= r[j].start
    BY <1>3 DEF Ordered
  <2>0. /\ i \in 1 .. Len(b) /\ b[i].start <= x.start /\ b[i].start <= y.start
        /\ x.start + x.size <= b[i].start + b[i].size
        /\ y.start + y.size <= b[i].start + b[i].size
    <3>1. i \in 1 .. Len(b) /\ b[i].start \in Nat /\ b[i].size \in Nat
      BY <1>4, <1>8
    <3> QED
      BY <1>6, <1>7, <3>1
  <2> DEFINE at(n) == IF n <= i THEN n ELSE n - 1
  <2>1. ASSUME NEW n \in 1 .. Len(r)
        PROVE  /\ at(n) \in 1 .. Len(b)
               /\ r[n].start \in Nat /\ r[n].size \in Nat
               /\ b[at(n)].start <= r[n].start
               /\ r[n].start + r[n].size <= b[at(n)].start + b[at(n)].size
    <3>1. CASE n \in 1 .. i - 1 /\ n \in 1 .. Len(b)
      <4>1. at(n) = n /\ r[n] = b[n]
        BY <1>2, <1>8, <3>1
      <4> HIDE DEF at
      <4> QED
        BY <1>4, <3>1, <4>1
    <3>2. CASE n = i
      <4>1. at(n) = i /\ r[n] = x /\ i \in 1 .. Len(b)
        BY <1>2, <1>8, <3>2
      <4> HIDE DEF at
      <4> QED
        BY <1>6, <2>0, <4>1
    <3>3. CASE n = i + 1
      <4>1. at(n) = i /\ r[n] = y /\ i \in 1 .. Len(b)
        BY <1>2, <1>8, <3>3
      <4> HIDE DEF at
      <4> QED
        BY <1>6, <2>0, <4>1
    <3>4. CASE n \in i + 2 .. Len(r) /\ n - 1 \in 1 .. Len(b)
      <4>1. at(n) = n - 1 /\ r[n] = b[n - 1]
        BY <1>2, <1>8, <3>4
      <4> HIDE DEF at
      <4> QED
        BY <1>4, <3>4, <4>1
    <3> QED
      BY <1>9, <3>1, <3>2, <3>3, <3>4
  <2>2. CASE k = i /\ j = i + 1
    BY <1>2, <1>6, <1>7, <2>2
  <2>3. CASE ~(k = i /\ j = i + 1)
    <3>1. at(k) < at(j)
      BY <1>8, <2>3
    <3> HIDE DEF at
    <3>2. b[at(k)].start + b[at(k)].size <= b[at(j)].start
      BY <1>5, <2>1, <3>1
    <3>3. /\ at(k) \in 1 .. Len(b) /\ at(j) \in 1 .. Len(b)
          /\ b[at(k)].start \in Nat /\ b[at(k)].size \in Nat /\ b[at(j)].start \in Nat
      BY <1>4, <2>1
    <3>4. r[k].start + r[k].size <= b[at(k)].start + b[at(k)].size /\ b[at(j)].start <= r[j].start
      BY <2>1
    <3>5. r[k].start \in Nat /\ r[k].size \in Nat /\ r[j].start \in Nat
      BY <2>1
    <3> DEFINE end == b[at(k)].start + b[at(k)].size
               begin == b[at(j)].start
    <3>6. /\ end \in Nat /\ begin \in Nat /\ end <= begin
          /\ r[k].start + r[k].size <= end /\ begin <= r[j].start
      BY <3>2, <3>3, <3>4
    <3> HIDE DEF end, begin
    <3> QED
      BY <3>5, <3>6
  <2> QED
    BY <2>2, <2>3
<1> QED
  BY <1>2, <1>3, <1>14, <1>15 DEF Listed

(* z is a block of b, and it is one that is not among blocks f to l. *)
Among(z, b) == \E k \in DOMAIN b : z = b[k]

Outside(z, b, f, l) == \E k \in DOMAIN b : (k < f \/ k > l) /\ z = b[k]

(* The blocks of the new list. *)
LEMMA OneForRange ==
  ASSUME NEW b \in Seq(Blocks), NEW f \in 1 .. Len(b), NEW l \in f .. Len(b),
         NEW x, NEW r, OneFor(b, f, l, x, r), NEW z
  PROVE  Among(z, r) <=> z = x \/ Outside(z, b, f, l)
<1>1. /\ r \in Seq(Blocks) /\ Len(r) = Len(b) - (l - f)
      /\ \A k \in 1 .. f - 1 : r[k] = b[k]
      /\ r[f] = x
      /\ \A k \in f + 1 .. Len(r) : r[k] = b[k + (l - f)] /\ k + (l - f) \in l + 1 .. Len(b)
  BY DEF OneFor
<1>2. /\ DOMAIN r = 1 .. Len(r) /\ DOMAIN b = 1 .. Len(b)
      /\ Len(r) \in Int /\ Len(b) \in Int /\ f \in Int /\ l \in Int
      /\ 1 <= f /\ f <= l /\ l <= Len(b) /\ Len(r) = Len(b) - (l - f)
  BY <1>1
<1>3. ASSUME NEW k \in DOMAIN r, z = r[k]
      PROVE  z = x \/ \E j \in DOMAIN b : (j < f \/ j > l) /\ z = b[j]
  <2>1. CASE k < f
    <3>1. k \in 1 .. f - 1 /\ k \in DOMAIN b
      BY <1>2, <2>1
    <3> QED
      BY <1>1, <1>3, <2>1, <3>1
  <2>2. CASE k = f
    BY <1>1, <1>3, <2>2
  <2>3. CASE k > f
    <3>1. k \in f + 1 .. Len(r)
      BY <1>2, <2>3
    <3>2. r[k] = b[k + (l - f)] /\ k + (l - f) \in l + 1 .. Len(b)
      BY <1>1, <3>1
    <3>3. k + (l - f) \in DOMAIN b /\ k + (l - f) > l
      BY <1>2, <3>2
    <3> QED
      BY <1>3, <3>2, <3>3
  <2> QED
    BY <1>2, <2>1, <2>2, <2>3
<1>4. ASSUME z = x PROVE \E k \in DOMAIN r : z = r[k]
  <2>1. f \in DOMAIN r
    BY <1>2
  <2> QED
    BY <1>1, <1>4, <2>1
<1>5. ASSUME NEW j \in DOMAIN b, j < f \/ j > l, z = b[j] PROVE \E k \in DOMAIN r : z = r[k]
  <2>1. CASE j < f
    <3>1. j \in 1 .. f - 1 /\ j \in DOMAIN r
      BY <1>2, <2>1
    <3> QED
      BY <1>1, <1>5, <3>1
  <2>2. CASE j > l
    <3> DEFINE k == j - (l - f)
    <3>1. k \in f + 1 .. Len(r) /\ k \in DOMAIN r /\ k + (l - f) = j
      BY <1>2, <2>2
    <3> HIDE DEF k
    <3>2. r[k] = b[k + (l - f)]
      BY <1>1, <3>1
    <3> QED
      BY <1>5, <3>1, <3>2
  <2> QED
    BY <1>5, <2>1, <2>2
<1> QED
  BY <1>3, <1>4, <1>5 DEF Among, Outside

LEMMA TwoForRange ==
  ASSUME NEW b \in Seq(Blocks), NEW i \in 1 .. Len(b),
         NEW x, NEW y, NEW r, TwoFor(b, i, x, y, r), NEW z
  PROVE  Among(z, r) <=> z = x \/ z = y \/ Outside(z, b, i, i)
<1>1. /\ r \in Seq(Blocks) /\ Len(r) = Len(b) + 1
      /\ \A k \in 1 .. i - 1 : r[k] = b[k]
      /\ r[i] = x /\ r[i + 1] = y
      /\ \A k \in i + 2 .. Len(r) : r[k] = b[k - 1] /\ k - 1 \in i + 1 .. Len(b)
  BY DEF TwoFor
<1>2. /\ DOMAIN r = 1 .. Len(r) /\ DOMAIN b = 1 .. Len(b)
      /\ Len(r) \in Int /\ Len(b) \in Int /\ i \in Int
      /\ 1 <= i /\ i <= Len(b) /\ Len(r) = Len(b) + 1
  BY <1>1
<1>3. ASSUME NEW k \in DOMAIN r, z = r[k]
      PROVE  z = x \/ z = y \/ \E j \in DOMAIN b : j # i /\ z = b[j]
  <2>1. CASE k < i
    <3>1. k \in 1 .. i - 1 /\ k \in DOMAIN b /\ k # i
      BY <1>2, <2>1
    <3> QED
      BY <1>1, <1>3, <3>1
  <2>2. CASE k = i \/ k = i + 1
    BY <1>1, <1>3, <2>2
  <2>3. CASE k > i + 1
    <3>1. k \in i + 2 .. Len(r) /\ k - 1 \in DOMAIN b /\ k - 1 # i
      BY <1>2, <2>3
    <3> QED
      BY <1>1, <1>3, <3>1
  <2> QED
    BY <1>2, <2>1, <2>2, <2>3
<1>4. ASSUME z = x \/ z = y PROVE \E k \in DOMAIN r : z = r[k]
  <2>1. i \in DOMAIN r /\ i + 1 \in DOMAIN r
    BY <1>2
  <2> QED
    BY <1>1, <1>4, <2>1
<1>5. ASSUME NEW j \in DOMAIN b, j # i, z = b[j] PROVE \E k \in DOMAIN r : z = r[k]
  <2>1. CASE j < i
    <3>1. j \in 1 .. i - 1 /\ j \in DOMAIN r
      BY <1>2, <2>1
    <3> QED
      BY <1>1, <1>5, <3>1
  <2>2. CASE j > i
    <3> DEFINE k == j + 1
    <3>1. k \in i + 2 .. Len(r) /\ k \in DOMAIN r /\ k - 1 = j
      BY <1>2, <2>2
    <3> HIDE DEF k
    <3>2. r[k] = b[k - 1]
      BY <1>1, <3>1
    <3> QED
      BY <1>5, <3>1, <3>2
  <2> QED
    BY <1>2, <1>5, <2>1, <2>2
<1>6. Outside(z, b, i, i) <=> \E j \in DOMAIN b : j # i /\ z = b[j]
  BY <1>2 DEF Outside
<1> QED
  BY <1>3, <1>4, <1>5, <1>6 DEF Among

LEMMA UsedBlocks ==
  ASSUME NEW b, NEW z
  PROVE  z \in Used(b) <=> Among(z, b) /\ ~z.free
BY DEF Used, Among

(* allocate keeps the list tiled and marks one block that was free: x is   *)
(* the used block of size n at the beginning of block i, r the new list.   *)
Allocated(b, size, n, i, x, r) ==
  /\ i \in DOMAIN b
  /\ Listed(r, size)
  /\ \A z : z \in Used(r) <=> z \in Used(b) \/ z = x
  /\ \A z \in Used(b) : z.start # x.start
  /\ x.start \in Nat /\ x.start = b[i].start /\ x.size = n

LEMMA AllocateListed ==
  ASSUME NEW b, NEW size, Listed(b, size), NEW n \in Nat, n > 0, Fits(b, n) # {},
         NEW i, i = FirstFit(b, n), NEW x, x = Block(b[i].start, n, FALSE)
  PROVE  Allocated(b, size, n, i, x, allocate(b, n))
<1>1. b \in Seq(Blocks) /\ DOMAIN b = 1 .. Len(b) /\ Len(b) \in Nat
  BY DEF Listed
<1>2. i \in Fits(b, n)
  <2>1. Fits(b, n) \subseteq Nat
    BY <1>1 DEF Fits
  <2> QED
    BY <2>1, MinIn DEF FirstFit
<1>3. i \in DOMAIN b /\ i \in 1 .. Len(b) /\ b[i].free /\ b[i].size >= n
  BY <1>1, <1>2 DEF Fits
<1>4. b[i].start \in Nat /\ b[i].size \in Nat /\ b[i].size > 0
  BY <1>3, BlockFields
<1> DEFINE y == Block(b[i].start + n, b[i].size - n, TRUE)
           r == allocate(b, n)
<1>5. x.start = b[i].start /\ x.size = n /\ x.free = FALSE /\ x \in Blocks
  BY <1>4 DEF Block, Blocks
<1>6. \A z \in Used(b) : z.start # x.start
  <2> SUFFICES ASSUME NEW z \in Used(b), z.start = x.start PROVE FALSE
    OBVIOUS
  <2>1. PICK k \in DOMAIN b : z = b[k] /\ ~z.free
    BY UsedBlocks DEF Among
  <2>2. k = i
    BY <1>3, <1>5, <2>1, StartUnique
  <2> QED
    BY <1>3, <2>1, <2>2
<1>7. CASE b[i].size = n
  <2>1. r = Splice(b, i, i, <<x>>)
    BY <1>7 DEF allocate
  <2> HIDE DEF r
  <2>2. i \in i .. Len(b)
    BY <1>3
  <2>3. OneFor(b, i, i, x, r)
    BY <1>1, <1>3, <1>5, <2>1, <2>2, SpliceOne
  <2>4. Spans(b, i, i, x)
    BY <1>4, <1>5, <1>7 DEF Spans
  <2>5. Listed(r, size)
    BY <1>3, <2>2, <2>3, <2>4, MergeListed
  <2>6. ASSUME NEW z PROVE z \in Used(r) <=> z \in Used(b) \/ z = x
    <3>1. Among(z, r) <=> z = x \/ Outside(z, b, i, i)
      BY <1>1, <1>3, <2>2, <2>3, OneForRange
    <3>2. \A k \in DOMAIN b : (k < i \/ k > i) \/ b[k].free
      BY <1>1, <1>3
    <3>3. ~x.free
      BY <1>5
    <3>4. Among(z, b) /\ ~z.free <=> Outside(z, b, i, i) /\ ~z.free
      BY <3>2 DEF Among, Outside
    <3> QED
      BY <3>1, <3>3, <3>4, UsedBlocks
  <2> QED
    BY <1>3, <1>4, <1>5, <1>6, <2>5, <2>6 DEF r, Allocated
<1>8. CASE b[i].size # n
  <2>1. r = Splice(b, i, i, <<x, y>>)
    BY <1>8 DEF allocate
  <2>2. /\ y.start = b[i].start + n /\ y.size = b[i].size - n /\ y.free = TRUE
        /\ y \in Blocks /\ y.size > 0
    BY <1>3, <1>4, <1>8 DEF Block, Blocks
  <2> HIDE DEF r, y
  <2>3. TwoFor(b, i, x, y, r)
    BY <1>1, <1>3, <1>5, <2>1, <2>2, SpliceTwo
  <2>4. Splits(b, i, x, y)
    <3>1. y.start = x.start + x.size
      BY <1>5, <2>2
    <3>2. (b[i].start + n) + (b[i].size - n) = b[i].start + b[i].size
      BY <1>4
    <3>3. y.start + y.size = b[i].start + b[i].size
      BY <2>2, <3>2
    <3> QED
      BY <1>3, <1>5, <2>2, <3>1, <3>3 DEF Splits
  <2>5. Listed(r, size)
    BY <1>3, <2>3, <2>4, SplitListed
  <2>6. ASSUME NEW z PROVE z \in Used(r) <=> z \in Used(b) \/ z = x
    <3>1. Among(z, r) <=> z = x \/ z = y \/ Outside(z, b, i, i)
      BY <1>1, <1>3, <2>3, TwoForRange
    <3>2. \A k \in DOMAIN b : (k < i \/ k > i) \/ b[k].free
      BY <1>1, <1>3
    <3>3. y.free /\ ~x.free
      BY <1>5, <2>2
    <3>4. Among(z, b) /\ ~z.free <=> Outside(z, b, i, i) /\ ~z.free
      BY <3>2 DEF Among, Outside
    <3> QED
      BY <3>1, <3>3, <3>4, UsedBlocks
  <2> QED
    BY <1>3, <1>4, <1>5, <1>6, <2>5, <2>6 DEF r, Allocated
<1> QED
  BY <1>7, <1>8

(* deallocate keeps the list tiled, frees exactly the block released, and  *)
(* what could be allocated before can be allocated afterwards.             *)
Deallocated(b, size, i, r) ==
  /\ Listed(r, size)
  /\ \A z : z \in Used(r) <=> z \in Used(b) /\ z # b[i]
  /\ \A n \in Nat : canAllocate(b, n) => canAllocate(r, n)

LEMMA DeallocateListed ==
  ASSUME NEW b, NEW size, Listed(b, size), NEW i \in DOMAIN b, ~b[i].free
  PROVE  Deallocated(b, size, i, deallocate(b, b[i].start))
<1>1. b \in Seq(Blocks) /\ DOMAIN b = 1 .. Len(b) /\ Len(b) \in Nat /\ i \in Nat
  BY DEF Listed
<1>2. (CHOOSE j \in DOMAIN b : b[j].start = b[i].start) = i
  BY StartUnique
<1> DEFINE f == IF i > 1 /\ b[i - 1].free THEN i - 1 ELSE i
           l == IF i < Len(b) /\ b[i + 1].free THEN i + 1 ELSE i
           x == Block(b[f].start, (b[l].start + b[l].size) - b[f].start, TRUE)
           r == deallocate(b, b[i].start)
<1>3. r = Splice(b, f, l, <<x>>)
  <2>1. r = FreeBlocks(b, f, l)
    BY <1>2 DEF deallocate
  <2> HIDE DEF r, f, l
  <2> QED
    BY <2>1 DEF FreeBlocks
<1>4. /\ f \in 1 .. Len(b) /\ l \in f .. Len(b) /\ f <= i /\ i <= l
      /\ f \in DOMAIN b /\ l \in DOMAIN b
  BY <1>1
<1>5. \A k \in DOMAIN b : k < f \/ k > l \/ k = i \/ b[k].free
  BY <1>1
<1>6. \A k \in 1 .. Len(b) - 1 : ~(b[k].free /\ b[k + 1].free)
  BY DEF Listed, Tile
<1>7. (f > 1 => ~b[f - 1].free) /\ (l < Len(b) => ~b[l + 1].free)
  <2>1. ASSUME f > 1 PROVE ~b[f - 1].free
    <3>1. CASE f = i
      BY <1>1, <2>1, <3>1
    <3>2. CASE f # i
      <4>1. f = i - 1 /\ b[f].free /\ f - 1 \in 1 .. Len(b) - 1 /\ f - 1 + 1 = f
        BY <1>1, <2>1, <3>2
      <4> QED
        BY <1>6, <4>1
    <3> QED
      BY <3>1, <3>2
  <2>2. ASSUME l < Len(b) PROVE ~b[l + 1].free
    <3>1. CASE l = i
      BY <1>1, <2>2, <3>1
    <3>2. CASE l # i
      <4>1. l = i + 1 /\ b[l].free /\ l \in 1 .. Len(b) - 1
        BY <1>1, <2>2, <3>2
      <4> QED
        BY <1>6, <4>1
    <3> QED
      BY <3>1, <3>2
  <2> QED
    BY <2>1, <2>2
<1> HIDE DEF f, l
<1>8. /\ b[f].start \in Nat /\ b[l].start \in Nat /\ b[l].size \in Nat /\ b[l].size > 0
      /\ b[f].size \in Nat
  BY <1>4, BlockFields
<1>9. b[f].start <= b[l].start
  <2>1. f = l \/ f < l
    BY <1>1, <1>4
  <2>2. f < l => b[f].start + b[f].size <= b[l].start
    BY <1>4 DEF Listed, Ordered
  <2> QED
    BY <1>8, <2>1, <2>2
<1>10. /\ x.start = b[f].start /\ x.size = (b[l].start + b[l].size) - b[f].start /\ x.free = TRUE
       /\ x \in Blocks /\ x.size > 0 /\ x.start + x.size = b[l].start + b[l].size
  BY <1>8, <1>9 DEF Block, Blocks
<1> HIDE DEF r, x
<1>11. OneFor(b, f, l, x, r)
  BY <1>1, <1>3, <1>4, <1>10, SpliceOne
<1>12. Spans(b, f, l, x)
  BY <1>7, <1>10 DEF Spans
<1>13. Listed(r, size)
  BY <1>4, <1>11, <1>12, MergeListed
<1>14. ASSUME NEW z PROVE z \in Used(r) <=> z \in Used(b) /\ z # b[i]
  <2>1. Among(z, r) <=> z = x \/ Outside(z, b, f, l)
    BY <1>1, <1>4, <1>11, OneForRange
  <2>2. x.free
    BY <1>10
  <2>3. \A k \in DOMAIN b : k < f \/ k > l => b[k] # b[i]
    <3> SUFFICES ASSUME NEW k \in DOMAIN b, k < f \/ k > l, b[k] = b[i] PROVE FALSE
      OBVIOUS
    <3>1. k = i
      BY StartUnique
    <3> QED
      BY <1>1, <1>4, <3>1
  <2>4. Outside(z, b, f, l) /\ ~z.free <=> Among(z, b) /\ ~z.free /\ z # b[i]
    BY <1>5, <2>3 DEF Among, Outside
  <2> QED
    BY <2>1, <2>2, <2>4, UsedBlocks
<1>15. ASSUME NEW n \in Nat, canAllocate(b, n) PROVE canAllocate(r, n)
  <2>1. CASE n = 0
    BY <2>1 DEF canAllocate
  <2>2. CASE n # 0
    <3>1. PICK k \in DOMAIN b : b[k].free /\ b[k].size >= n
      BY <1>15, <2>2 DEF canAllocate, Fits
    <3>2. \A z : Among(z, r) <=> z = x \/ Outside(z, b, f, l)
      BY <1>1, <1>4, <1>11, OneForRange
    <3>3. \E z : Among(z, r) /\ z.free /\ z.size >= n
      <4>1. CASE k < f \/ k > l
        BY <3>1, <3>2, <4>1 DEF Outside
      <4>2. CASE f <= k /\ k <= l
        <5>1. b[k].start \in Nat /\ b[k].size \in Nat
          BY <3>1, BlockFields
        <5>2. b[f].start <= b[k].start
          <6>1. f = k \/ f < k
            BY <1>1, <1>4, <3>1, <4>2
          <6>2. f < k => b[f].start + b[f].size <= b[k].start
            BY <1>4, <3>1 DEF Listed, Ordered
          <6> QED
            BY <1>8, <5>1, <6>1, <6>2
        <5>3. b[k].start + b[k].size <= b[l].start + b[l].size
          <6>1. k = l \/ k < l
            BY <1>1, <1>4, <3>1, <4>2
          <6>2. k < l => b[k].start + b[k].size <= b[l].start
            BY <1>4, <3>1 DEF Listed, Ordered
          <6> QED
            BY <1>8, <5>1, <6>1, <6>2
        <5>4. x.size >= n
          <6>1. x.size = (b[l].start + b[l].size) - b[f].start
            BY <1>10
          <6> QED
            BY <1>8, <3>1, <5>1, <5>2, <5>3, <6>1
        <5> QED
          BY <1>10, <3>2, <5>4
      <4> QED
        BY <1>1, <1>4, <3>1, <4>1, <4>2
    <3> QED
      BY <3>3 DEF Among, canAllocate, Fits
  <2> QED
    BY <2>1, <2>2
<1> QED
  BY <1>13, <1>14, <1>15 DEF r, Deallocated

-----------------------------------------------------------------------------
(* What owns memory or a notification: a buffer c of thread t, or the      *)
(* memory that t holds on its way to or from a buffer.                     *)
Hold(t, c) == <<<<t, c>>, c.start, c.size>>
Way(t, start, size) == <<<<t>>, start, size>>
Note(t, c) == <<<<t, c>>, c.notification, 1>>

OnWay == {"notification", "release"}

HoldsIn(o, t, id) == \E c \in held[t] : c.segment = id /\ c.start # NULL /\ o = Hold(t, c)
WayIn(o, t, id) ==
  pc[t] \in OnWay /\ chosen[t] = id /\ pointer[t] # NULL /\ o = Way(t, pointer[t], request[t])
OwnsIn(o, t, id) == HoldsIn(o, t, id) \/ WayIn(o, t, id)
NotesIn(o, t, id) == \E c \in held[t] : c.segment = id /\ o = Note(t, c)

Notes(id) == {<<x, x[2].notification, 1>> : x \in Buffers(id)}

(* Owners and used blocks correspond one to one: the same start and size,  *)
(* and no two owners with one start.                                       *)
Matches(owners, blocks) ==
  /\ \A o \in owners : \E z \in Used(blocks) : z.start = o[2] /\ z.size = o[3]
  /\ \A o, p \in owners : o[2] = p[2] => o = p
  /\ \A z \in Used(blocks) : \E o \in owners : z.start = o[2] /\ z.size = o[3]

SegmentRecords ==
  [id : Nat, size : Nat, memory : Seq(Blocks), notifications : Seq(Blocks)]

BufferRecords == [segment : Nat, start : Nat \cup {NULL}, size : Nat, notification : Nat]

(* The inductive invariant. *)
TypeInv ==
  /\ pool \in {"dynamic", "single"}
  /\ sizePerSegment \in 1 .. MaxSegmentSize
  /\ pc \in [Threads -> {"idle", "adjust", "find", "memory", "notification", "release"}]
  /\ request \in [Threads -> Nat]
  /\ chosen \in [Threads -> Nat]
  /\ pointer \in [Threads -> Nat \cup {NULL}]
  /\ held \in [Threads -> SUBSET BufferRecords]

SegmentsInv ==
  /\ segments \in Seq(SegmentRecords)
  /\ pool = "single" => Len(segments) = 1
  /\ \A i \in DOMAIN segments :
       /\ segments[i].id = (Len(segments) - i) + 1
       /\ Listed(segments[i].memory, segments[i].size)
       /\ Listed(segments[i].notifications, NumNotifications)

RefersInv ==
  /\ \A t \in Threads : pc[t] \in OnWay \cup {"memory"} => chosen[t] \in 1 .. Len(segments)
  /\ \A t \in Threads : \A c \in held[t] : c.segment \in 1 .. Len(segments)

OwnersInv ==
  \A i \in DOMAIN segments : \A id :
    id = segments[i].id => /\ Matches(MemoryOwners(id), segments[i].memory)
                           /\ Matches(Notes(id), segments[i].notifications)

SizeInv ==
  /\ \A t \in Threads : pc[t] = "adjust" => request[t] \in 1 .. MaxSegmentSize
  /\ serial =>
       /\ \A t, u \in Threads : Constructing(t) /\ Constructing(u) => t = u
       /\ \A t \in Threads : pc[t] = "find" /\ pool = "dynamic" => request[t] <= sizePerSegment
       /\ \A t \in Threads, i \in DOMAIN segments :
            pc[t] = "memory" /\ segments[i].id = chosen[t]
              => canAllocate(segments[i].memory, request[t])

IInv == TypeInv /\ SegmentsInv /\ RefersInv /\ OwnersInv /\ SizeInv

-----------------------------------------------------------------------------
(* The parts of an owner. *)
LEMMA OwnerParts ==
  /\ \A t, c : /\ Hold(t, c)[1][1] = t /\ Hold(t, c)[1][2] = c
               /\ Hold(t, c)[2] = c.start /\ Hold(t, c)[3] = c.size
  /\ \A t, a, n : Way(t, a, n)[1][1] = t /\ Way(t, a, n)[2] = a /\ Way(t, a, n)[3] = n
  /\ \A t, c : /\ Note(t, c)[1][1] = t /\ Note(t, c)[1][2] = c
               /\ Note(t, c)[2] = c.notification /\ Note(t, c)[3] = 1
BY DEF Hold, Way, Note

LEMMA OwnersDiffer ==
  ASSUME NEW t, NEW c, NEW u, NEW a, NEW n
  PROVE  Hold(t, c) # Way(u, a, n)
<1>1. Hold(t, c)[1] = <<t, c>> /\ Way(u, a, n)[1] = <<u>>
  BY DEF Hold, Way
<1>2. <<t, c>> # <<u>>
  OBVIOUS
<1> QED
  BY <1>1, <1>2

(* The owners in a segment, thread by thread. *)
LEMMA Owners == \A id, o : o \in MemoryOwners(id) <=> \E t \in Threads : OwnsIn(o, t, id)
<1> SUFFICES ASSUME NEW id, NEW o
             PROVE  o \in MemoryOwners(id) <=> \E t \in Threads : OwnsIn(o, t, id)
  OBVIOUS
<1> DEFINE A == {<<x, x[2].start, x[2].size>> : x \in Buffers(id)}
           B == {<<<<t>>, pointer[t], request[t]>> : t \in OnTheWay(id)}
<1>1. o \in MemoryOwners(id) <=> (o \in A \/ o \in B) /\ o[2] # NULL
  BY DEF MemoryOwners
<1>2. o \in A <=> \E t \in Threads : \E c \in held[t] : c.segment = id /\ o = Hold(t, c)
  <2>1. \A x : x \in Buffers(id) <=> \E t \in Threads : \E c \in held[t] : c.segment = id /\ x = <<t, c>>
    BY DEF Buffers
  <2>2. \A t, c : <<<<t, c>>, <<t, c>>[2].start, <<t, c>>[2].size>> = Hold(t, c)
    BY DEF Hold
  <2> QED
    BY <2>1, <2>2
<1>3. o \in B <=> \E t \in Threads : /\ pc[t] \in OnWay /\ chosen[t] = id
                                     /\ o = Way(t, pointer[t], request[t])
  BY DEF OnTheWay, OnWay, Way
<1> HIDE DEF A, B
<1> QED
  BY <1>1, <1>2, <1>3, OwnerParts DEF OwnsIn, HoldsIn, WayIn

LEMMA NoteOwners == \A id, o : o \in Notes(id) <=> \E t \in Threads : NotesIn(o, t, id)
<1> SUFFICES ASSUME NEW id, NEW o
             PROVE  o \in Notes(id) <=> \E t \in Threads : NotesIn(o, t, id)
  OBVIOUS
<1>1. \A x : x \in Buffers(id) <=> \E t \in Threads : \E c \in held[t] : c.segment = id /\ x = <<t, c>>
  BY DEF Buffers
<1>2. \A t, c : <<<<t, c>>, <<t, c>>[2].notification, 1>> = Note(t, c)
  BY DEF Note
<1> QED
  BY <1>1, <1>2 DEF Notes, NotesIn

LEMMA OwnersNext == (\A id, o : o \in MemoryOwners(id) <=> \E t \in Threads : OwnsIn(o, t, id))'
BY Owners, PTL

LEMMA NoteOwnersNext == (\A id, o : o \in Notes(id) <=> \E t \in Threads : NotesIn(o, t, id))'
BY NoteOwners, PTL

(* A new owner gets a new block. *)
LEMMA MatchesAdd ==
  ASSUME NEW M, NEW b, Matches(M, b), NEW N, NEW r, NEW w, NEW x,
         \A o : o \in N <=> o \in M \/ o = w,
         \A z : z \in Used(r) <=> z \in Used(b) \/ z = x,
         x.start = w[2], x.size = w[3],
         \A z \in Used(b) : z.start # x.start
  PROVE  Matches(N, r)
<1>1. /\ \A o \in M : \E z \in Used(b) : z.start = o[2] /\ z.size = o[3]
      /\ \A o, p \in M : o[2] = p[2] => o = p
      /\ \A z \in Used(b) : \E o \in M : z.start = o[2] /\ z.size = o[3]
  BY DEF Matches
<1>2. \A o \in N : \E z \in Used(r) : z.start = o[2] /\ z.size = o[3]
  BY <1>1
<1>3. \A z \in Used(r) : \E o \in N : z.start = o[2] /\ z.size = o[3]
  BY <1>1
<1>4. \A o \in M : o[2] # w[2]
  BY <1>1
<1>5. \A o, p \in N : o[2] = p[2] => o = p
  BY <1>1, <1>4
<1> QED
  BY <1>2, <1>3, <1>5 DEF Matches

(* An owner goes with its block. *)
LEMMA MatchesRemove ==
  ASSUME NEW M, NEW b, NEW size, Listed(b, size), Matches(M, b), NEW N, NEW r,
         NEW w \in M, NEW x \in Used(b), x.start = w[2],
         \A o : o \in N <=> o \in M /\ o # w,
         \A z : z \in Used(r) <=> z \in Used(b) /\ z # x
  PROVE  Matches(N, r)
<1>1. /\ \A o \in M : \E z \in Used(b) : z.start = o[2] /\ z.size = o[3]
      /\ \A o, p \in M : o[2] = p[2] => o = p
      /\ \A z \in Used(b) : \E o \in M : z.start = o[2] /\ z.size = o[3]
  BY DEF Matches
<1>2. \A y, z \in Used(b) : y.start = z.start => y = z
  BY StartUnique, UsedBlocks DEF Among
<1>3. \A o \in N : \E z \in Used(r) : z.start = o[2] /\ z.size = o[3]
  BY <1>1
<1>4. \A z \in Used(r) : \E o \in N : z.start = o[2] /\ z.size = o[3]
  BY <1>1, <1>2
<1>5. \A o, p \in N : o[2] = p[2] => o = p
  BY <1>1
<1> QED
  BY <1>3, <1>4, <1>5 DEF Matches

(* A block changes hands. *)
LEMMA MatchesReplace ==
  ASSUME NEW M, NEW b, Matches(M, b), NEW N, NEW v \in M, NEW w,
         v[2] = w[2], v[3] = w[3],
         \A o : o \in N <=> (o \in M /\ o # v) \/ o = w
  PROVE  Matches(N, b)
<1>1. /\ \A o \in M : \E z \in Used(b) : z.start = o[2] /\ z.size = o[3]
      /\ \A o, p \in M : o[2] = p[2] => o = p
      /\ \A z \in Used(b) : \E o \in M : z.start = o[2] /\ z.size = o[3]
  BY DEF Matches
<1>2. \A o \in N : \E z \in Used(b) : z.start = o[2] /\ z.size = o[3]
  BY <1>1
<1>3. \A z \in Used(b) : \E o \in N : z.start = o[2] /\ z.size = o[3]
  BY <1>1
<1>4. \A o \in M : o # v => o[2] # w[2]
  BY <1>1
<1>5. \A o, p \in N : o[2] = p[2] => o = p
  BY <1>1, <1>4
<1> QED
  BY <1>2, <1>3, <1>5 DEF Matches

LEMMA MatchesSame ==
  ASSUME NEW M, NEW b, Matches(M, b), NEW N, \A o : o \in N <=> o \in M
  PROVE  Matches(N, b)
<1>1. N = M
  OBVIOUS
<1> QED
  BY <1>1

-----------------------------------------------------------------------------
(* A step of thread t leaves what the others have alone. *)
OnlyThread(t) ==
  \A u \in Threads : u # t => /\ held'[u] = held[u] /\ pc'[u] = pc[u]
                              /\ chosen'[u] = chosen[u] /\ pointer'[u] = pointer[u]
                              /\ request'[u] = request[u]

LEMMA OwnerThread ==
  ASSUME NEW o, NEW t, NEW id, OwnsIn(o, t, id) \/ NotesIn(o, t, id)
  PROVE  o[1][1] = t
BY OwnerParts DEF OwnsIn, HoldsIn, WayIn, NotesIn

LEMMA OwnersStep ==
  ASSUME NEW t \in Threads, OnlyThread(t), NEW id, NEW o
  PROVE  o \in MemoryOwners(id)' <=> \/ OwnsIn(o, t, id)'
                                     \/ o \in MemoryOwners(id) /\ ~OwnsIn(o, t, id)
<1>1. o \in MemoryOwners(id) <=> \E u \in Threads : OwnsIn(o, u, id)
  BY Owners
<1>2. o \in MemoryOwners(id)' <=> \E u \in Threads : OwnsIn(o, u, id)'
  BY OwnersNext
<1>3. ASSUME NEW u \in Threads, u # t PROVE OwnsIn(o, u, id)' <=> OwnsIn(o, u, id)
  <2>1. /\ held'[u] = held[u] /\ pc'[u] = pc[u] /\ chosen'[u] = chosen[u]
        /\ pointer'[u] = pointer[u] /\ request'[u] = request[u]
    BY <1>3 DEF OnlyThread
  <2> QED
    BY <2>1 DEF OwnsIn, HoldsIn, WayIn
<1>4. \A u \in Threads : OwnsIn(o, u, id) /\ OwnsIn(o, t, id) => u = t
  BY OwnerThread
<1> QED
  BY <1>1, <1>2, <1>3, <1>4

LEMMA NotesStep ==
  ASSUME NEW t \in Threads, OnlyThread(t), NEW id, NEW o
  PROVE  o \in Notes(id)' <=> NotesIn(o, t, id)' \/ (o \in Notes(id) /\ ~NotesIn(o, t, id))
<1>1. o \in Notes(id) <=> \E u \in Threads : NotesIn(o, u, id)
  BY NoteOwners
<1>2. o \in Notes(id)' <=> \E u \in Threads : NotesIn(o, u, id)'
  BY NoteOwnersNext
<1>3. ASSUME NEW u \in Threads, u # t PROVE NotesIn(o, u, id)' <=> NotesIn(o, u, id)
  BY <1>3 DEF OnlyThread, NotesIn
<1>4. \A u \in Threads : NotesIn(o, u, id) /\ NotesIn(o, t, id) => u = t
  BY OwnerThread
<1> QED
  BY <1>1, <1>2, <1>3, <1>4

(* A thread that neither has nor gets memory on its way, and keeps its     *)
(* buffers, changes no owner.                                              *)
LEMMA QuietOwners ==
  ASSUME NEW t \in Threads, OnlyThread(t), held'[t] = held[t],
         \A id, o : ~WayIn(o, t, id) /\ ~WayIn(o, t, id)'
  PROVE  \A id : MemoryOwners(id)' = MemoryOwners(id) /\ Notes(id)' = Notes(id)
<1> SUFFICES ASSUME NEW id
             PROVE  MemoryOwners(id)' = MemoryOwners(id) /\ Notes(id)' = Notes(id)
  OBVIOUS
<1>1. \A o : OwnsIn(o, t, id)' <=> OwnsIn(o, t, id)
  BY DEF OwnsIn, HoldsIn
<1>2. \A o : NotesIn(o, t, id)' <=> NotesIn(o, t, id)
  BY DEF NotesIn
<1>3. ASSUME NEW o PROVE o \in MemoryOwners(id)' <=> o \in MemoryOwners(id)
  <2>1. OwnsIn(o, t, id) => o \in MemoryOwners(id)
    BY Owners
  <2> QED
    BY <1>1, <2>1, OwnersStep
<1>4. ASSUME NEW o PROVE o \in Notes(id)' <=> o \in Notes(id)
  <2>1. NotesIn(o, t, id) => o \in Notes(id)
    BY NoteOwners
  <2> QED
    BY <1>2, <2>1, NotesStep
<1>5. MemoryOwners(id)' = MemoryOwners(id)
  BY <1>3
<1>6. Notes(id)' = Notes(id)
  BY <1>4
<1> QED
  BY <1>5, <1>6

(* Segments are known by their id. *)
LEMMA PositionOf ==
  ASSUME SegmentsInv, NEW id \in 1 .. Len(segments)
  PROVE  /\ Position(id) \in DOMAIN segments
         /\ segments[Position(id)].id = id
         /\ \A i \in DOMAIN segments : segments[i].id = id => i = Position(id)
<1>1. /\ DOMAIN segments = 1 .. Len(segments) /\ Len(segments) \in Nat
      /\ \A i \in DOMAIN segments : segments[i].id = (Len(segments) - i) + 1
  BY DEF SegmentsInv
<1> DEFINE k == (Len(segments) - id) + 1
<1>2. k \in DOMAIN segments /\ (Len(segments) - k) + 1 = id
  BY <1>1
<1> HIDE DEF k
<1>3. segments[k].id = id
  BY <1>1, <1>2
<1>4. Position(id) \in DOMAIN segments /\ segments[Position(id)].id = id
  BY <1>2, <1>3 DEF Position
<1>5. ASSUME NEW i \in DOMAIN segments, NEW j \in DOMAIN segments,
             segments[i].id = id, segments[j].id = id
      PROVE  i = j
  <2>1. (Len(segments) - i) + 1 = id /\ (Len(segments) - j) + 1 = id
    BY <1>1, <1>5
  <2> QED
    BY <1>1, <2>1
<1> QED
  BY <1>4, <1>5

(* Lists m and n take the place of those of segment k. *)
Updated(k, m, n) ==
  /\ segments' \in Seq(SegmentRecords) /\ DOMAIN segments' = DOMAIN segments
  /\ Len(segments') = Len(segments)
  /\ \A i \in DOMAIN segments :
       /\ segments'[i].id = segments[i].id /\ segments'[i].size = segments[i].size
       /\ i = k => segments'[i].memory = m /\ segments'[i].notifications = n
       /\ i # k => /\ segments'[i].memory = segments[i].memory
                   /\ segments'[i].notifications = segments[i].notifications

LEMMA UpdateMemory ==
  ASSUME SegmentsInv, NEW k \in DOMAIN segments, NEW m \in Seq(Blocks),
         segments' = [segments EXCEPT ![k].memory = m]
  PROVE  Updated(k, m, segments[k].notifications)
<1>1. segments \in Seq(SegmentRecords) /\ DOMAIN segments = 1 .. Len(segments)
  BY DEF SegmentsInv
<1> DEFINE s == [segments[k] EXCEPT !.memory = m]
<1>2. segments[k] \in SegmentRecords
  BY <1>1
<1>3. /\ s \in SegmentRecords /\ s.id = segments[k].id /\ s.size = segments[k].size
      /\ s.memory = m /\ s.notifications = segments[k].notifications
  BY <1>2 DEF SegmentRecords
<1>4. segments' = [segments EXCEPT ![k] = s]
  OBVIOUS
<1> HIDE DEF s
<1>5. /\ segments' \in Seq(SegmentRecords) /\ DOMAIN segments' = DOMAIN segments
      /\ Len(segments') = Len(segments)
      /\ \A i \in DOMAIN segments : segments'[i] = IF i = k THEN s ELSE segments[i]
  BY <1>1, <1>3, <1>4
<1> QED
  BY <1>3, <1>5 DEF Updated

LEMMA UpdateNotifications ==
  ASSUME SegmentsInv, NEW k \in DOMAIN segments, NEW n \in Seq(Blocks),
         segments' = [segments EXCEPT ![k].notifications = n]
  PROVE  Updated(k, segments[k].memory, n)
<1>1. segments \in Seq(SegmentRecords) /\ DOMAIN segments = 1 .. Len(segments)
  BY DEF SegmentsInv
<1> DEFINE s == [segments[k] EXCEPT !.notifications = n]
<1>2. segments[k] \in SegmentRecords
  BY <1>1
<1>3. /\ s \in SegmentRecords /\ s.id = segments[k].id /\ s.size = segments[k].size
      /\ s.memory = segments[k].memory /\ s.notifications = n
  BY <1>2 DEF SegmentRecords
<1>4. segments' = [segments EXCEPT ![k] = s]
  OBVIOUS
<1> HIDE DEF s
<1>5. /\ segments' \in Seq(SegmentRecords) /\ DOMAIN segments' = DOMAIN segments
      /\ Len(segments') = Len(segments)
      /\ \A i \in DOMAIN segments : segments'[i] = IF i = k THEN s ELSE segments[i]
  BY <1>1, <1>3, <1>4
<1> QED
  BY <1>3, <1>5 DEF Updated

LEMMA UpdatedSegments ==
  ASSUME SegmentsInv, NEW k \in DOMAIN segments, NEW m, NEW n, Updated(k, m, n),
         Listed(m, segments[k].size), Listed(n, NumNotifications), pool' = pool
  PROVE  SegmentsInv'
<1>1. /\ segments' \in Seq(SegmentRecords) /\ DOMAIN segments' = DOMAIN segments
      /\ Len(segments') = Len(segments)
  BY DEF Updated
<1>2. pool' = "single" => Len(segments') = 1
  BY <1>1 DEF SegmentsInv
<1>3. ASSUME NEW i \in DOMAIN segments
      PROVE  /\ segments'[i].id = (Len(segments') - i) + 1
             /\ Listed(segments'[i].memory, segments'[i].size)
             /\ Listed(segments'[i].notifications, NumNotifications)
  <2>1. /\ segments[i].id = (Len(segments) - i) + 1
        /\ Listed(segments[i].memory, segments[i].size)
        /\ Listed(segments[i].notifications, NumNotifications)
    BY DEF SegmentsInv
  <2>2. segments'[i].id = segments[i].id /\ segments'[i].size = segments[i].size
    BY DEF Updated
  <2>3. CASE i = k
    <3>1. segments'[i].memory = m /\ segments'[i].notifications = n
      BY <2>3 DEF Updated
    <3> QED
      BY <1>1, <2>1, <2>2, <2>3, <3>1
  <2>4. CASE i # k
    <3>1. /\ segments'[i].memory = segments[i].memory
          /\ segments'[i].notifications = segments[i].notifications
      BY <2>4 DEF Updated
    <3> QED
      BY <1>1, <2>1, <2>2, <3>1
  <2> QED
    BY <2>3, <2>4
<1> QED
  BY <1>1, <1>2, <1>3 DEF SegmentsInv

LEMMA UpdatedOwners ==
  ASSUME SegmentsInv, OwnersInv, NEW d \in 1 .. Len(segments), NEW k, k = Position(d),
         NEW m, NEW n, Updated(k, m, n),
         Matches(MemoryOwners(d)', m), Matches(Notes(d)', n),
         \A id : id # d => MemoryOwners(id)' = MemoryOwners(id) /\ Notes(id)' = Notes(id)
  PROVE  OwnersInv'
<1> SUFFICES ASSUME NEW i \in DOMAIN segments, NEW id, id = segments'[i].id
             PROVE  /\ Matches(MemoryOwners(id)', segments'[i].memory)
                    /\ Matches(Notes(id)', segments'[i].notifications)
  BY DEF OwnersInv, Updated
<1>1. segments'[i].id = segments[i].id
  BY DEF Updated
<1>2. CASE i = k
  <2>1. id = d
    BY <1>1, <1>2, PositionOf
  <2>2. segments'[i].memory = m /\ segments'[i].notifications = n
    BY <1>2 DEF Updated
  <2> QED
    BY <2>1, <2>2
<1>3. CASE i # k
  <2>1. id # d
    BY <1>1, <1>3, PositionOf
  <2>2. /\ segments'[i].memory = segments[i].memory
        /\ segments'[i].notifications = segments[i].notifications
    BY <1>3 DEF Updated
  <2>3. Matches(MemoryOwners(id), segments[i].memory) /\ Matches(Notes(id), segments[i].notifications)
    BY <1>1 DEF OwnersInv
  <2> QED
    BY <2>1, <2>2, <2>3
<1> QED
  BY <1>2, <1>3

-----------------------------------------------------------------------------
(* A manager begins with one free block. *)
LEMMA OneBlock ==
  ASSUME NEW n \in Nat, n > 0, NEW x \in Blocks, x.start = 0, x.size = n, x.free = TRUE,
         NEW b \in Seq(Blocks), Len(b) = 1, b[1] = x
  PROVE  Listed(b, n) /\ Used(b) = {}
<1>1. DOMAIN b = 1 .. 1
  OBVIOUS
<1>2. \A i : i \in DOMAIN b <=> i = 1
  BY <1>1
<1>3. b # <<>>
  <2>1. Len(<<>>) = 0
    OBVIOUS
  <2>2. Len(b) # 0
    OBVIOUS
  <2> QED
    BY <2>1, <2>2, Zenon
<1>4. Tile(b, n)
  <2>1. b[1].start = 0 /\ b[Len(b)].start + b[Len(b)].size = n
    OBVIOUS
  <2>2. \A i \in DOMAIN b : b[i].size > 0
    BY <1>2
  <2>3. 1 .. Len(b) - 1 = {}
    OBVIOUS
  <2> QED
    BY <2>1, <2>2, <2>3 DEF Tile
<1>5. Ordered(b)
  <2>1. \A i, j \in DOMAIN b : ~(i < j)
    BY <1>2
  <2> QED
    BY <2>1 DEF Ordered
<1>6. Used(b) = {}
  BY <1>2 DEF Used
<1> QED
  BY <1>3, <1>4, <1>5, <1>6 DEF Listed

LEMMA Single ==
  ASSUME NEW S, NEW x \in S
  PROVE  <<x>> \in Seq(S) /\ Len(<<x>>) = 1 /\ <<x>>[1] = x
OBVIOUS

LEMMA FreshListed ==
  ASSUME NEW n \in Nat, n > 0, NEW b, b = <<Block(0, n, TRUE)>>
  PROVE  Listed(b, n) /\ b \in Seq(Blocks) /\ Used(b) = {} /\ Len(b) = 1 /\ b[1].free /\ b[1].size = n
<1> DEFINE x == Block(0, n, TRUE)
<1>1. x \in Blocks /\ x.start = 0 /\ x.size = n /\ x.free = TRUE
  BY DEF Block, Blocks
<1>2. b = <<x>>
  OBVIOUS
<1> HIDE DEF x
<1>3. <<x>> \in Seq(Blocks) /\ Len(<<x>>) = 1 /\ <<x>>[1] = x
  BY <1>1, Single
<1>4. b \in Seq(Blocks) /\ Len(b) = 1 /\ b[1] = x
  BY <1>2, <1>3, Zenon
<1>5. Listed(b, n) /\ Used(b) = {}
  BY <1>1, <1>4, OneBlock
<1> QED
  BY <1>1, <1>4, <1>5

LEMMA NobodyMatches ==
  ASSUME NEW M, NEW b, M = {}, Used(b) = {}
  PROVE  Matches(M, b)
BY DEF Matches

Fresh(s, id, n) ==
  /\ s \in SegmentRecords /\ s.id = id /\ s.size = n
  /\ Listed(s.memory, n) /\ Used(s.memory) = {}
  /\ Listed(s.notifications, NumNotifications) /\ Used(s.notifications) = {}
  /\ Len(s.memory) = 1 /\ s.memory[1].free /\ s.memory[1].size = n

LEMMA NewSegment ==
  ASSUME NEW id \in Nat, NEW n \in Nat, n > 0
  PROVE  Fresh(Segment(id, n), id, n)
<1> DEFINE s == Segment(id, n)
<1> DEFINE m == <<Block(0, n, TRUE)>>
           k == <<Block(0, NumNotifications, TRUE)>>
<1>1. s = [id |-> id, size |-> n, memory |-> m, notifications |-> k]
  BY DEF Segment
<1>2. Listed(m, n) /\ m \in Seq(Blocks) /\ Used(m) = {} /\ Len(m) = 1 /\ m[1].free /\ m[1].size = n
  BY FreshListed
<1>3. NumNotifications \in Nat /\ NumNotifications > 0
  BY SizesAssumption
<1>4. Listed(k, NumNotifications) /\ k \in Seq(Blocks) /\ Used(k) = {}
  BY <1>3, FreshListed
<1> HIDE DEF m, k, s
<1>5. /\ s.id = id /\ s.size = n /\ s.memory = m /\ s.notifications = k
      /\ s \in SegmentRecords
  BY <1>1, <1>2, <1>4 DEF SegmentRecords
<1> QED
  BY <1>2, <1>4, <1>5 DEF Fresh, s

LEMMA Initially == Init => IInv
<1> SUFFICES ASSUME Init PROVE IInv
  OBVIOUS
<1>1. MaxSegmentSize \in Nat /\ MaxSegmentSize > 0 /\ InitialSize \in 1 .. MaxSegmentSize
  BY SizesAssumption
<1>2. \A t \in Threads : pc[t] = "idle" /\ held[t] = {}
  BY DEF Init
<1>3. TypeInv
  BY <1>1 DEF Init, TypeInv
<1>4. RefersInv
  BY <1>2 DEF RefersInv, OnWay
<1>5. SizeInv
  BY <1>2 DEF SizeInv, Constructing
<1>6. \A id : MemoryOwners(id) = {} /\ Notes(id) = {}
  <2>1. \A id, o, t : t \in Threads => ~OwnsIn(o, t, id) /\ ~NotesIn(o, t, id)
    BY <1>2 DEF OwnsIn, HoldsIn, WayIn, NotesIn, OnWay
  <2> QED
    BY <2>1, Owners, NoteOwners
<1>7. CASE pool = "single"
  <2> DEFINE s == Segment(1, MaxSegmentSize)
  <2>1. /\ s \in SegmentRecords /\ s.id = 1 /\ s.size = MaxSegmentSize
        /\ Listed(s.memory, MaxSegmentSize) /\ Used(s.memory) = {}
        /\ Listed(s.notifications, NumNotifications) /\ Used(s.notifications) = {}
    BY <1>1, NewSegment DEF Fresh
  <2>2. segments = <<s>>
    BY <1>7 DEF Init
  <2> HIDE DEF s
  <2>3. segments \in Seq(SegmentRecords) /\ Len(segments) = 1 /\ DOMAIN segments = {1} /\ segments[1] = s
    BY <2>1, <2>2
  <2>4. SegmentsInv
    BY <2>1, <2>3 DEF SegmentsInv
  <2>5. OwnersInv
    BY <1>6, <2>1, <2>3, NobodyMatches DEF OwnersInv
  <2> QED
    BY <1>3, <1>4, <1>5, <2>4, <2>5 DEF IInv
<1>8. CASE pool # "single"
  <2>1. segments = <<>>
    BY <1>8 DEF Init
  <2>2. segments \in Seq(SegmentRecords) /\ Len(segments) = 0 /\ DOMAIN segments = {}
    BY <2>1
  <2>3. SegmentsInv /\ OwnersInv
    BY <1>8, <2>2 DEF SegmentsInv, OwnersInv
  <2> QED
    BY <1>3, <1>4, <1>5, <2>3 DEF IInv
<1> QED
  BY <1>7, <1>8

-----------------------------------------------------------------------------
(* The steps. *)
LEMMA QuietStep ==
  ASSUME SegmentsInv, OwnersInv, NEW t \in Threads, OnlyThread(t), held' = held,
         segments' = segments, pool' = pool,
         pc[t] \notin OnWay \/ pointer[t] = NULL, pc'[t] \notin OnWay \/ pointer'[t] = NULL
  PROVE  SegmentsInv' /\ OwnersInv'
<1>1. \A id, o : ~WayIn(o, t, id) /\ ~WayIn(o, t, id)'
  BY DEF WayIn
<1>2. \A id : MemoryOwners(id)' = MemoryOwners(id) /\ Notes(id)' = Notes(id)
  BY <1>1, QuietOwners
<1>3. SegmentsInv'
  BY DEF SegmentsInv
<1>4. OwnersInv'
  BY <1>2 DEF OwnersInv
<1> QED
  BY <1>3, <1>4

(* What Leave and Go do to the variables of the threads. *)
LEMMA AfterLeave ==
  ASSUME TypeInv, NEW t \in Threads, Leave(t)
  PROVE  /\ pc' \in [Threads -> {"idle", "adjust", "find", "memory", "notification", "release"}]
         /\ request' \in [Threads -> Nat] /\ chosen' \in [Threads -> Nat]
         /\ pointer' \in [Threads -> Nat \cup {NULL}]
         /\ pc'[t] = "idle"
         /\ \A u \in Threads : u # t => /\ pc'[u] = pc[u] /\ chosen'[u] = chosen[u]
                                        /\ pointer'[u] = pointer[u] /\ request'[u] = request[u]
BY DEF TypeInv, Leave, Go

LEMMA AfterGo ==
  ASSUME TypeInv, NEW t \in Threads,
         NEW where \in {"idle", "adjust", "find", "memory", "notification", "release"}, Go(t, where)
  PROVE  /\ pc' \in [Threads -> {"idle", "adjust", "find", "memory", "notification", "release"}]
         /\ pc'[t] = where
         /\ \A u \in Threads : u # t => pc'[u] = pc[u]
BY DEF TypeInv, Go

(* A thread that leaves a constructor or a destructor without having       *)
(* changed a segment.                                                      *)
LEMMA LeaveStep ==
  ASSUME IInv, NEW t \in Threads, Leave(t), pc[t] \notin OnWay \/ pointer[t] = NULL,
         UNCHANGED <<pool, serial, sizePerSegment, segments, held>>
  PROVE  IInv'
<1>1. /\ pc'[t] = "idle"
      /\ \A u \in Threads : u # t => /\ pc'[u] = pc[u] /\ chosen'[u] = chosen[u]
                                     /\ pointer'[u] = pointer[u] /\ request'[u] = request[u]
  BY AfterLeave DEF IInv
<1>2. OnlyThread(t)
  BY <1>1 DEF OnlyThread
<1>3. TypeInv'
  BY AfterLeave DEF IInv, TypeInv
<1>4. SegmentsInv' /\ OwnersInv'
  BY <1>1, <1>2, QuietStep DEF IInv, OnWay
<1>5. RefersInv'
  BY <1>1 DEF IInv, RefersInv, OnWay
<1>6. SizeInv'
  BY <1>1 DEF IInv, SizeInv, Constructing
<1> QED
  BY <1>3, <1>4, <1>5, <1>6 DEF IInv

LEMMA ConstructStep ==
  ASSUME IInv, NEW t \in Threads, NEW size \in Sizes, Construct(t, size)
  PROVE  IInv'
<1>1. /\ pc[t] = "idle" /\ UNCHANGED <<pool, serial, sizePerSegment, segments, held>>
      /\ serial => \A u \in Threads : ~Constructing(u)
  BY DEF Construct
<1>2. size \in Nat /\ sizePerSegment \in 1 .. MaxSegmentSize /\ MaxSegmentSize \in Nat
  BY SizesAssumption DEF IInv, TypeInv
<1>3. CASE Leave(t)
  BY <1>1, <1>3, LeaveStep DEF OnWay
<1>4. ASSUME NEW where \in {"adjust", "find"}, Go(t, where),
             where = "adjust" => size \in 1 .. MaxSegmentSize,
             where = "find" => pool = "single" \/ size <= sizePerSegment,
             request' = [request EXCEPT ![t] = size], UNCHANGED <<chosen, pointer>>
      PROVE  IInv'
  <2>1. /\ pc' \in [Threads -> {"idle", "adjust", "find", "memory", "notification", "release"}]
        /\ pc'[t] = where
        /\ \A u \in Threads : u # t => pc'[u] = pc[u]
    BY <1>4, AfterGo DEF IInv
  <2>2. /\ request' \in [Threads -> Nat] /\ request'[t] = size
        /\ \A u \in Threads : u # t => request'[u] = request[u]
    BY <1>2, <1>4 DEF IInv, TypeInv
  <2>3. OnlyThread(t)
    BY <1>1, <1>4, <2>1, <2>2 DEF OnlyThread
  <2>4. TypeInv'
    BY <1>1, <1>4, <2>1, <2>2 DEF IInv, TypeInv
  <2>5. SegmentsInv' /\ OwnersInv'
    BY <1>1, <2>1, <2>3, QuietStep DEF IInv, OnWay
  <2>6. RefersInv'
    BY <1>1, <1>4, <2>1 DEF IInv, RefersInv, OnWay
  <2>7. SizeInv'
    <3>1. \A u \in Threads : pc'[u] = "adjust" => request'[u] \in 1 .. MaxSegmentSize
      BY <1>4, <2>1, <2>2 DEF IInv, SizeInv
    <3>2. ASSUME serial'
          PROVE  /\ \A u, v \in Threads : Constructing(u)' /\ Constructing(v)' => u = v
                 /\ \A u \in Threads : pc'[u] = "find" /\ pool' = "dynamic" => request'[u] <= sizePerSegment'
                 /\ \A u \in Threads, i \in DOMAIN segments' :
                      pc'[u] = "memory" /\ segments'[i].id = chosen'[u]
                        => canAllocate(segments'[i].memory, request'[u])
      <4>1. \A u \in Threads : u # t => pc'[u] \notin {"adjust", "find", "memory", "notification"}
        BY <1>1, <2>1, <3>2 DEF Constructing
      <4>2. pool' = "dynamic" => pool # "single"
        BY <1>1
      <4> QED
        BY <1>1, <1>4, <2>1, <2>2, <4>1, <4>2 DEF Constructing
    <3> QED
      BY <3>1, <3>2 DEF SizeInv
  <2> QED
    BY <2>4, <2>5, <2>6, <2>7 DEF IInv
<1>5. CASE /\ pool = "dynamic" /\ size \in sizePerSegment + 1 .. MaxSegmentSize
           /\ request' = [request EXCEPT ![t] = size]
           /\ Go(t, "adjust") /\ UNCHANGED <<chosen, pointer>>
  <2>1. size \in 1 .. MaxSegmentSize
    BY <1>2, <1>5
  <2> QED
    BY <1>4, <1>5, <2>1
<1>6. CASE /\ pool = "single" \/ size <= sizePerSegment
           /\ request' = [request EXCEPT ![t] = size]
           /\ Go(t, "find") /\ UNCHANGED <<chosen, pointer>>
  BY <1>4, <1>6
<1> QED
  BY <1>3, <1>5, <1>6 DEF Construct

LEMMA AdjustStep ==
  ASSUME IInv, NEW t \in Threads, Adjust(t)
  PROVE  IInv'
<1>1. /\ pc[t] = "adjust" /\ Go(t, "find")
      /\ UNCHANGED <<pool, serial, segments, request, chosen, pointer, held>>
  BY DEF Adjust
<1>2. MaxSegmentSize \in Nat /\ request[t] \in 1 .. MaxSegmentSize
  BY <1>1, SizesAssumption DEF IInv, SizeInv
<1>3. PICK p \in ToPowerOfTwo(request[t]) : sizePerSegment' = Min({p, MaxSegmentSize})
  BY DEF Adjust
<1>4. p \in Nat /\ request[t] <= p
  BY <1>2, <1>3 DEF ToPowerOfTwo
<1>5. sizePerSegment' \in 1 .. MaxSegmentSize /\ request[t] <= sizePerSegment'
  <2> DEFINE S == {p, MaxSegmentSize}
  <2>1. S \subseteq Nat /\ S # {}
    BY <1>2, <1>4
  <2>2. Min(S) \in S
    BY <2>1, MinIn
  <2> QED
    BY <1>2, <1>3, <1>4, <2>1, <2>2, MinIn
<1>6. /\ pc' \in [Threads -> {"idle", "adjust", "find", "memory", "notification", "release"}]
      /\ pc'[t] = "find"
      /\ \A u \in Threads : u # t => pc'[u] = pc[u]
  BY <1>1, AfterGo DEF IInv
<1>7. OnlyThread(t)
  BY <1>1, <1>6 DEF OnlyThread
<1>8. TypeInv'
  BY <1>1, <1>5, <1>6 DEF IInv, TypeInv
<1>9. SegmentsInv' /\ OwnersInv'
  BY <1>1, <1>6, <1>7, QuietStep DEF IInv, OnWay
<1>10. RefersInv'
  BY <1>1, <1>6 DEF IInv, RefersInv, OnWay
<1>11. SizeInv'
  <2>1. \A u \in Threads : pc'[u] = "adjust" => request'[u] \in 1 .. MaxSegmentSize
    BY <1>1, <1>6 DEF IInv, SizeInv
  <2>2. ASSUME serial'
        PROVE  /\ \A u, v \in Threads : Constructing(u)' /\ Constructing(v)' => u = v
               /\ \A u \in Threads : pc'[u] = "find" /\ pool' = "dynamic" => request'[u] <= sizePerSegment'
               /\ \A u \in Threads, i \in DOMAIN segments' :
                    pc'[u] = "memory" /\ segments'[i].id = chosen'[u]
                      => canAllocate(segments'[i].memory, request'[u])
    <3>1. \A u \in Threads : u # t => pc'[u] \notin {"adjust", "find", "memory", "notification"}
      BY <1>1, <1>6, <2>2 DEF IInv, SizeInv, Constructing
    <3> QED
      BY <1>1, <1>5, <1>6, <3>1 DEF Constructing
  <2> QED
    BY <2>1, <2>2 DEF SizeInv
<1> QED
  BY <1>8, <1>9, <1>10, <1>11 DEF IInv

(* A segment is chosen that has enough memory. *)
LEMMA FoundStep ==
  ASSUME IInv, NEW t \in Threads, pc[t] = "find", NEW k \in DOMAIN segments,
         canAllocate(segments[k].memory, request[t]), Found(t, segments[k].id),
         UNCHANGED <<pool, serial, sizePerSegment, segments, held>>
  PROVE  IInv'
<1>1. /\ Go(t, "memory") /\ UNCHANGED <<request, pointer>>
      /\ chosen' = [chosen EXCEPT ![t] = segments[k].id]
  BY DEF Found
<1>2. /\ DOMAIN segments = 1 .. Len(segments) /\ Len(segments) \in Nat
      /\ segments[k].id \in 1 .. Len(segments)
  <2>1. DOMAIN segments = 1 .. Len(segments) /\ Len(segments) \in Nat
    BY DEF IInv, SegmentsInv
  <2>2. segments[k].id = (Len(segments) - k) + 1
    BY DEF IInv, SegmentsInv
  <2> QED
    BY <2>1, <2>2
<1>3. /\ pc' \in [Threads -> {"idle", "adjust", "find", "memory", "notification", "release"}]
      /\ pc'[t] = "memory"
      /\ \A u \in Threads : u # t => pc'[u] = pc[u]
  BY <1>1, AfterGo DEF IInv
<1>4. /\ chosen' \in [Threads -> Nat] /\ chosen'[t] = segments[k].id
      /\ \A u \in Threads : u # t => chosen'[u] = chosen[u]
  <2>1. segments[k].id \in Nat
    BY <1>2
  <2> QED
    BY <1>1, <2>1 DEF IInv, TypeInv
<1>5. OnlyThread(t)
  BY <1>1, <1>3, <1>4 DEF OnlyThread
<1>6. TypeInv'
  BY <1>1, <1>3, <1>4 DEF IInv, TypeInv
<1>7. SegmentsInv' /\ OwnersInv'
  BY <1>3, <1>5, QuietStep DEF IInv, OnWay
<1>8. RefersInv'
  BY <1>2, <1>3, <1>4 DEF IInv, RefersInv, OnWay
<1>9. SizeInv'
  <2>1. \A u \in Threads : pc'[u] = "adjust" => request'[u] \in 1 .. MaxSegmentSize
    BY <1>1, <1>3 DEF IInv, SizeInv
  <2>2. ASSUME serial'
        PROVE  /\ \A u, v \in Threads : Constructing(u)' /\ Constructing(v)' => u = v
               /\ \A u \in Threads : pc'[u] = "find" /\ pool' = "dynamic" => request'[u] <= sizePerSegment'
               /\ \A u \in Threads, i \in DOMAIN segments' :
                    pc'[u] = "memory" /\ segments'[i].id = chosen'[u]
                      => canAllocate(segments'[i].memory, request'[u])
    <3>1. \A u \in Threads : u # t => pc'[u] \notin {"adjust", "find", "memory", "notification"}
      BY <1>3, <2>2 DEF IInv, SizeInv, Constructing
    <3>2. \A i \in DOMAIN segments : segments[i].id = segments[k].id => i = k
      BY <1>2, PositionOf DEF IInv
    <3>3. \A u \in Threads, i \in DOMAIN segments' :
            pc'[u] = "memory" /\ segments'[i].id = chosen'[u]
              => canAllocate(segments'[i].memory, request'[u])
      <4> SUFFICES ASSUME NEW u \in Threads, NEW i \in DOMAIN segments,
                          pc'[u] = "memory", segments[i].id = chosen'[u]
                   PROVE  canAllocate(segments[i].memory, request[u])
        BY <1>1
      <4>1. u = t
        BY <3>1
      <4>2. i = k
        BY <1>4, <3>2, <4>1
      <4> QED
        BY <4>1, <4>2
    <3> QED
      BY <1>3, <3>1, <3>3 DEF Constructing
  <2> QED
    BY <2>1, <2>2 DEF SizeInv
<1> QED
  BY <1>6, <1>7, <1>8, <1>9 DEF IInv

LEMMA FindSingleStep ==
  ASSUME IInv, NEW t \in Threads, FindSingle(t)
  PROVE  IInv'
<1>1. /\ pc[t] = "find" /\ pool = "single"
      /\ UNCHANGED <<pool, serial, sizePerSegment, segments, held>>
  BY DEF FindSingle
<1>2. CASE Leave(t)
  BY <1>1, <1>2, LeaveStep DEF OnWay
<1>3. CASE Enough(request[t]) # {} /\ Found(t, 1)
  <2>1. PICK k \in DOMAIN segments : canAllocate(segments[k].memory, request[t])
    BY <1>3 DEF Enough
  <2>2. segments[k].id = 1
    <3>0. segments \in Seq(SegmentRecords) /\ (pool = "single" => Len(segments) = 1)
      BY DEF IInv, SegmentsInv
    <3>1. Len(segments) = 1 /\ DOMAIN segments = 1 .. Len(segments)
      <4>1. pool = "single"
        BY <1>1
      <4>2. Len(segments) = 1
        BY <3>0, <4>1, Zenon
      <4>3. DOMAIN segments = 1 .. Len(segments)
        BY <3>0
      <4> QED
        BY <4>2, <4>3, Zenon
    <3>2. k = 1
      BY <2>1, <3>1
    <3>3. segments[k].id = (Len(segments) - k) + 1
      BY <2>1 DEF IInv, SegmentsInv
    <3> QED
      BY <3>1, <3>2, <3>3
  <2> QED
    BY <1>1, <1>3, <2>1, <2>2, FoundStep
<1> QED
  BY <1>2, <1>3 DEF FindSingle

(* A segment is put in front of the others. *)
LEMMA PutInFront ==
  ASSUME NEW S, NEW q \in Seq(S), NEW x \in S, NEW r, r = <<x>> \o q
  PROVE  /\ r \in Seq(S) /\ Len(r) = Len(q) + 1 /\ r[1] = x
         /\ \A i \in 1 .. Len(q) : r[i + 1] = q[i]
<1> DEFINE f == <<x>>
<1>1. f \in Seq(S) /\ Len(f) = 1 /\ f[1] = x
  BY Single
<1>2. r = f \o q
  OBVIOUS
<1> HIDE DEF f
<1>3. Len(q) \in Nat
  OBVIOUS
<1>4. /\ f \o q \in Seq(S) /\ Len(f \o q) = Len(f) + Len(q)
      /\ \A i \in 1 .. Len(f) + Len(q) : (f \o q)[i] = IF i <= Len(f) THEN f[i] ELSE q[i - Len(f)]
  BY <1>1, ConcatProperties
<1>5. /\ r \in Seq(S) /\ Len(r) = Len(f) + Len(q)
      /\ \A i \in 1 .. Len(f) + Len(q) : r[i] = IF i <= Len(f) THEN f[i] ELSE q[i - Len(f)]
  BY <1>2, <1>4, Zenon
<1>6. r[1] = x
  <2>1. 1 \in 1 .. Len(f) + Len(q) /\ 1 <= Len(f)
    BY <1>1, <1>3
  <2> QED
    BY <1>1, <1>5, <2>1
<1>7. ASSUME NEW i \in 1 .. Len(q) PROVE r[i + 1] = q[i]
  <2>1. i + 1 \in 1 .. Len(f) + Len(q) /\ ~(i + 1 <= Len(f)) /\ (i + 1) - Len(f) = i
    BY <1>1, <1>3
  <2> QED
    BY <1>5, <2>1
<1> QED
  BY <1>1, <1>3, <1>5, <1>6, <1>7

LEMMA NewSegmentStep ==
  ASSUME IInv, NEW t \in Threads, pc[t] = "find", pool = "dynamic",
         NEW new, new = Len(segments) + 1,
         segments' = <<Segment(new, sizePerSegment)>> \o segments, Found(t, new),
         UNCHANGED <<pool, serial, sizePerSegment, held>>
  PROVE  IInv'
<1>0. /\ UNCHANGED pool /\ UNCHANGED serial /\ UNCHANGED sizePerSegment /\ UNCHANGED held
  OBVIOUS
<1> DEFINE s == Segment(new, sizePerSegment)
<1>1. /\ Go(t, "memory") /\ UNCHANGED <<request, pointer>>
      /\ chosen' = [chosen EXCEPT ![t] = new]
  BY DEF Found
<1>2. /\ segments \in Seq(SegmentRecords)
      /\ \A i \in DOMAIN segments :
           /\ segments[i].id = (Len(segments) - i) + 1
           /\ Listed(segments[i].memory, segments[i].size)
           /\ Listed(segments[i].notifications, NumNotifications)
  BY DEF IInv, SegmentsInv
<1>3. /\ Len(segments) \in Nat /\ DOMAIN segments = 1 .. Len(segments) /\ new \in Nat
      /\ sizePerSegment \in Nat /\ sizePerSegment > 0
  <2>1. sizePerSegment \in 1 .. MaxSegmentSize /\ MaxSegmentSize \in Nat
    BY SizesAssumption DEF IInv, TypeInv
  <2> QED
    BY <1>2, <2>1
<1>4. /\ s \in SegmentRecords /\ s.id = new /\ s.size = sizePerSegment
      /\ Listed(s.memory, sizePerSegment) /\ Used(s.memory) = {}
      /\ Listed(s.notifications, NumNotifications) /\ Used(s.notifications) = {}
      /\ Len(s.memory) = 1 /\ s.memory[1].free /\ s.memory[1].size = sizePerSegment
  <2>1. Fresh(s, new, sizePerSegment)
    BY <1>3, NewSegment
  <2> HIDE DEF s
  <2> QED
    BY <2>1 DEF Fresh
<1>5. segments' = <<s>> \o segments
  OBVIOUS
<1> HIDE DEF s
<1>6. /\ segments' \in Seq(SegmentRecords) /\ Len(segments') = Len(segments) + 1 /\ segments'[1] = s
      /\ \A i \in 1 .. Len(segments) : segments'[i + 1] = segments[i]
  BY <1>2, <1>4, <1>5, PutInFront
<1>7. DOMAIN segments' = 1 .. new
  BY <1>6
<1>8. \A i \in DOMAIN segments' : i = 1 \/ (i - 1 \in 1 .. Len(segments) /\ segments'[i] = segments[i - 1])
  <2> SUFFICES ASSUME NEW i \in DOMAIN segments', i # 1
               PROVE  i - 1 \in 1 .. Len(segments) /\ segments'[i] = segments[i - 1]
    OBVIOUS
  <2>1. i - 1 \in 1 .. Len(segments) /\ (i - 1) + 1 = i
    BY <1>3, <1>7
  <2> QED
    BY <1>6, <2>1
<1>9. /\ pc' \in [Threads -> {"idle", "adjust", "find", "memory", "notification", "release"}]
      /\ pc'[t] = "memory"
      /\ \A u \in Threads : u # t => pc'[u] = pc[u]
  BY <1>1, AfterGo DEF IInv
<1>10. /\ chosen' \in [Threads -> Nat] /\ chosen'[t] = new
       /\ \A u \in Threads : u # t => chosen'[u] = chosen[u]
  BY <1>1, <1>3 DEF IInv, TypeInv
<1>11. OnlyThread(t)
  BY <1>0, <1>1, <1>9, <1>10 DEF OnlyThread
<1>12. TypeInv'
  BY <1>0, <1>1, <1>9, <1>10 DEF IInv, TypeInv
<1>13. SegmentsInv'
  <2>1. pool' # "single"
    BY <1>0
  <2>2. ASSUME NEW i \in DOMAIN segments'
        PROVE  /\ segments'[i].id = (Len(segments') - i) + 1
               /\ Listed(segments'[i].memory, segments'[i].size)
               /\ Listed(segments'[i].notifications, NumNotifications)
    <3>1. CASE i = 1
      BY <1>3, <1>4, <1>6, <3>1
    <3>2. CASE i # 1
      <4>1. i - 1 \in DOMAIN segments /\ segments'[i] = segments[i - 1] /\ i \in Int
        BY <1>3, <1>7, <1>8, <3>2
      <4>2. segments[i - 1].id = (Len(segments) - (i - 1)) + 1
        BY <1>2, <4>1
      <4>3. (Len(segments) - (i - 1)) + 1 = ((Len(segments) + 1) - i) + 1
        BY <1>3, <4>1
      <4> QED
        BY <1>2, <1>6, <4>1, <4>2, <4>3
    <3> QED
      BY <3>1, <3>2
  <2> QED
    BY <1>6, <2>1, <2>2 DEF SegmentsInv
<1>14. RefersInv'
  <2>1. 1 .. Len(segments) \subseteq 1 .. Len(segments') /\ new \in 1 .. Len(segments')
    BY <1>3, <1>6
  <2>2. \A u \in Threads : u # t /\ pc[u] \in OnWay \cup {"memory"} => chosen[u] \in 1 .. Len(segments)
    BY DEF IInv, RefersInv
  <2>3. \A u \in Threads : \A c \in held[u] : c.segment \in 1 .. Len(segments)
    BY DEF IInv, RefersInv
  <2> QED
    BY <1>0, <1>9, <1>10, <2>1, <2>2, <2>3 DEF RefersInv
<1>15. OwnersInv'
  <2>1. \A id, o : ~WayIn(o, t, id) /\ ~WayIn(o, t, id)'
    BY <1>9 DEF WayIn, OnWay
  <2>2. \A id : MemoryOwners(id)' = MemoryOwners(id) /\ Notes(id)' = Notes(id)
    BY <1>0, <1>11, <2>1, QuietOwners
  <2>3. MemoryOwners(new) = {} /\ Notes(new) = {}
    <3>1. ASSUME NEW u \in Threads, NEW o PROVE ~OwnsIn(o, u, new) /\ ~NotesIn(o, u, new)
      <4>1. \A c \in held[u] : c.segment # new
        BY <1>3 DEF IInv, RefersInv
      <4>2. pc[u] \in OnWay => chosen[u] # new
        BY <1>3 DEF IInv, RefersInv
      <4> QED
        BY <4>1, <4>2 DEF OwnsIn, HoldsIn, WayIn, NotesIn
    <3> QED
      BY <3>1, Owners, NoteOwners
  <2> SUFFICES ASSUME NEW i \in DOMAIN segments', NEW id, id = segments'[i].id
               PROVE  /\ Matches(MemoryOwners(id)', segments'[i].memory)
                      /\ Matches(Notes(id)', segments'[i].notifications)
    BY DEF OwnersInv
  <2>4. CASE i = 1
    <3>1. id = new /\ segments'[i] = s
      BY <1>4, <1>6, <2>4
    <3>2. Matches(MemoryOwners(id), s.memory) /\ Matches(Notes(id), s.notifications)
      BY <1>4, <2>3, <3>1, NobodyMatches
    <3> QED
      BY <2>2, <3>1, <3>2
  <2>5. CASE i # 1
    <3>1. i - 1 \in DOMAIN segments /\ segments'[i] = segments[i - 1]
      BY <1>3, <1>8, <2>5
    <3>2. Matches(MemoryOwners(id), segments[i - 1].memory) /\ Matches(Notes(id), segments[i - 1].notifications)
      BY <3>1 DEF IInv, OwnersInv
    <3> QED
      BY <2>2, <3>1, <3>2
  <2> QED
    BY <2>4, <2>5
<1>16. SizeInv'
  <2>1. \A u \in Threads : pc'[u] = "adjust" => request'[u] \in 1 .. MaxSegmentSize
    BY <1>1, <1>9 DEF IInv, SizeInv
  <2>2. ASSUME serial'
        PROVE  /\ \A u, v \in Threads : Constructing(u)' /\ Constructing(v)' => u = v
               /\ \A u \in Threads : pc'[u] = "find" /\ pool' = "dynamic" => request'[u] <= sizePerSegment'
               /\ \A u \in Threads, i \in DOMAIN segments' :
                    pc'[u] = "memory" /\ segments'[i].id = chosen'[u]
                      => canAllocate(segments'[i].memory, request'[u])
    <3>1. \A u \in Threads : u # t => pc'[u] \notin {"adjust", "find", "memory", "notification"}
      BY <1>0, <1>9, <2>2 DEF IInv, SizeInv, Constructing
    <3>2. canAllocate(s.memory, request[t])
      <4>1. request[t] <= sizePerSegment
        BY <1>0, <2>2 DEF IInv, SizeInv
      <4>2. request[t] \in Nat
        BY DEF IInv, TypeInv
      <4>3. 1 \in DOMAIN s.memory /\ s.memory[1].size >= request[t]
        <5>1. s.memory \in Seq(Blocks)
          BY <1>4 DEF Listed
        <5> QED
          BY <1>3, <1>4, <4>1, <4>2, <5>1
      <4> QED
        BY <1>4, <4>3 DEF canAllocate, Fits
    <3>3. \A u \in Threads, i \in DOMAIN segments' :
            pc'[u] = "memory" /\ segments'[i].id = chosen'[u]
              => canAllocate(segments'[i].memory, request'[u])
      <4> SUFFICES ASSUME NEW u \in Threads, NEW i \in DOMAIN segments',
                          pc'[u] = "memory", segments'[i].id = chosen'[u]
                   PROVE  canAllocate(segments'[i].memory, request[u])
        BY <1>1
      <4>1. u = t
        BY <3>1
      <4>2. segments'[i].id = (Len(segments') - i) + 1 /\ segments'[i].id = new /\ i \in Int
        BY <1>7, <1>10, <1>13, <4>1 DEF SegmentsInv
      <4>3. i = 1
        BY <1>3, <1>6, <4>2
      <4> QED
        BY <1>6, <3>2, <4>1, <4>3
    <3> QED
      BY <1>9, <3>1, <3>3 DEF Constructing
  <2> QED
    BY <2>1, <2>2 DEF SizeInv
<1> QED
  BY <1>12, <1>13, <1>14, <1>15, <1>16 DEF IInv

LEMMA FindStep ==
  ASSUME IInv, NEW t \in Threads, Find(t)
  PROVE  IInv'
<1> DEFINE enough == Enough(request[t])
           new == Len(segments) + 1
<1>1. /\ pc[t] = "find" /\ pool = "dynamic"
      /\ UNCHANGED <<pool, serial, sizePerSegment, held>>
      /\ \/ enough # {} /\ Found(t, segments[Min(enough)].id) /\ UNCHANGED segments
         \/ /\ segments' = <<Segment(new, sizePerSegment)>> \o segments
            /\ Found(t, new)
         \/ Leave(t) /\ UNCHANGED segments
  BY DEF Find
<1>2. CASE Leave(t) /\ UNCHANGED segments
  BY <1>1, <1>2, LeaveStep DEF OnWay
<1>3. CASE segments' = <<Segment(new, sizePerSegment)>> \o segments /\ Found(t, new)
  BY <1>1, <1>3, NewSegmentStep
<1>4. CASE enough # {} /\ Found(t, segments[Min(enough)].id) /\ UNCHANGED segments
  <2> DEFINE k == Min(enough)
  <2>1. enough \subseteq Nat
    <3>1. DOMAIN segments = 1 .. Len(segments) /\ Len(segments) \in Nat
      BY DEF IInv, SegmentsInv
    <3> QED
      BY <3>1 DEF Enough
  <2>2. k \in enough
    BY <1>4, <2>1, MinIn
  <2>3. k \in DOMAIN segments /\ canAllocate(segments[k].memory, request[t])
    BY <2>2 DEF Enough
  <2> QED
    BY <1>1, <1>4, <2>3, FoundStep
<1> QED
  BY <1>1, <1>2, <1>3, <1>4

-----------------------------------------------------------------------------
(* How the owners change when thread t gets memory, gives it back, makes   *)
(* it part of a buffer, and takes a buffer apart.                          *)
LEMMA WayGained ==
  ASSUME NEW t \in Threads, OnlyThread(t), held'[t] = held[t], pc[t] \notin OnWay, NEW id
  PROVE  /\ \A o : o \in MemoryOwners(id)' <=> o \in MemoryOwners(id) \/ WayIn(o, t, id)'
         /\ \A o : o \in Notes(id)' <=> o \in Notes(id)
<1>1. ASSUME NEW o PROVE o \in MemoryOwners(id)' <=> o \in MemoryOwners(id) \/ WayIn(o, t, id)'
  <2>1. (OwnsIn(o, t, id)' <=> HoldsIn(o, t, id) \/ WayIn(o, t, id)') /\ (OwnsIn(o, t, id) <=> HoldsIn(o, t, id))
    BY DEF OwnsIn, HoldsIn, WayIn
  <2>2. OwnsIn(o, t, id) => o \in MemoryOwners(id)
    BY Owners
  <2> QED
    BY <2>1, <2>2, OwnersStep
<1>2. ASSUME NEW o PROVE o \in Notes(id)' <=> o \in Notes(id)
  <2>1. NotesIn(o, t, id)' <=> NotesIn(o, t, id)
    BY DEF NotesIn
  <2>2. NotesIn(o, t, id) => o \in Notes(id)
    BY NoteOwners
  <2> QED
    BY <2>1, <2>2, NotesStep
<1> QED
  BY <1>1, <1>2

LEMMA WayLost ==
  ASSUME NEW t \in Threads, OnlyThread(t), held'[t] = held[t], pc'[t] \notin OnWay, NEW id
  PROVE  /\ \A o : o \in MemoryOwners(id)' <=> o \in MemoryOwners(id) /\ ~WayIn(o, t, id)
         /\ \A o : o \in Notes(id)' <=> o \in Notes(id)
<1>1. ASSUME NEW o PROVE o \in MemoryOwners(id)' <=> o \in MemoryOwners(id) /\ ~WayIn(o, t, id)
  <2>1. (OwnsIn(o, t, id)' <=> HoldsIn(o, t, id)) /\ (OwnsIn(o, t, id) <=> HoldsIn(o, t, id) \/ WayIn(o, t, id))
    BY DEF OwnsIn, HoldsIn, WayIn
  <2>2. ~(HoldsIn(o, t, id) /\ WayIn(o, t, id))
    BY OwnersDiffer DEF HoldsIn, WayIn
  <2>3. OwnsIn(o, t, id) => o \in MemoryOwners(id)
    BY Owners
  <2> QED
    BY <2>1, <2>2, <2>3, OwnersStep
<1>2. ASSUME NEW o PROVE o \in Notes(id)' <=> o \in Notes(id)
  <2>1. NotesIn(o, t, id)' <=> NotesIn(o, t, id)
    BY DEF NotesIn
  <2>2. NotesIn(o, t, id) => o \in Notes(id)
    BY NoteOwners
  <2> QED
    BY <2>1, <2>2, NotesStep
<1> QED
  BY <1>1, <1>2

HoldIs(o, t, c, id) == c.segment = id /\ c.start # NULL /\ o = Hold(t, c)
NoteIs(o, t, c, id) == c.segment = id /\ o = Note(t, c)

LEMMA BufferGained ==
  ASSUME NEW t \in Threads, OnlyThread(t), NEW c, held'[t] = held[t] \cup {c},
         pc'[t] \notin OnWay, NEW id
  PROVE  /\ \A o : o \in MemoryOwners(id)'
                     <=> (o \in MemoryOwners(id) /\ ~WayIn(o, t, id)) \/ HoldIs(o, t, c, id)
         /\ \A o : o \in Notes(id)' <=> o \in Notes(id) \/ NoteIs(o, t, c, id)
<1>1. ASSUME NEW o
      PROVE  o \in MemoryOwners(id)'
               <=> (o \in MemoryOwners(id) /\ ~WayIn(o, t, id)) \/ HoldIs(o, t, c, id)
  <2>1. /\ OwnsIn(o, t, id)' <=> HoldsIn(o, t, id) \/ HoldIs(o, t, c, id)
        /\ OwnsIn(o, t, id) <=> HoldsIn(o, t, id) \/ WayIn(o, t, id)
    BY DEF OwnsIn, HoldsIn, WayIn, HoldIs
  <2>2. ~(HoldsIn(o, t, id) /\ WayIn(o, t, id)) /\ ~(HoldIs(o, t, c, id) /\ WayIn(o, t, id))
    BY OwnersDiffer DEF HoldsIn, WayIn, HoldIs
  <2>3. OwnsIn(o, t, id) => o \in MemoryOwners(id)
    BY Owners
  <2> QED
    BY <2>1, <2>2, <2>3, OwnersStep
<1>2. ASSUME NEW o PROVE o \in Notes(id)' <=> o \in Notes(id) \/ NoteIs(o, t, c, id)
  <2>1. NotesIn(o, t, id)' <=> NotesIn(o, t, id) \/ NoteIs(o, t, c, id)
    BY DEF NotesIn, NoteIs
  <2>2. NotesIn(o, t, id) => o \in Notes(id)
    BY NoteOwners
  <2> QED
    BY <2>1, <2>2, NotesStep
<1> QED
  BY <1>1, <1>2

LEMMA BufferLost ==
  ASSUME NEW t \in Threads, OnlyThread(t), NEW c, c \in held[t], held'[t] = held[t] \ {c},
         pc[t] \notin OnWay, NEW id
  PROVE  /\ \A o : o \in MemoryOwners(id)'
                     <=> (o \in MemoryOwners(id) /\ ~HoldIs(o, t, c, id)) \/ WayIn(o, t, id)'
         /\ \A o : o \in Notes(id)' <=> o \in Notes(id) /\ ~NoteIs(o, t, c, id)
<1>1. ASSUME NEW o
      PROVE  o \in MemoryOwners(id)'
               <=> (o \in MemoryOwners(id) /\ ~HoldIs(o, t, c, id)) \/ WayIn(o, t, id)'
  <2>1. \A b \in held[t] : b # c => Hold(t, b) # Hold(t, c)
    BY OwnerParts
  <2>2. /\ OwnsIn(o, t, id) <=> HoldsIn(o, t, id)
        /\ OwnsIn(o, t, id)' <=> HoldsIn(o, t, id)' \/ WayIn(o, t, id)'
    BY DEF OwnsIn, WayIn
  <2>3. HoldsIn(o, t, id)' <=> HoldsIn(o, t, id) /\ ~HoldIs(o, t, c, id)
    BY <2>1 DEF HoldsIn, HoldIs
  <2>4. OwnsIn(o, t, id) => o \in MemoryOwners(id)
    BY Owners
  <2>5. HoldIs(o, t, c, id) => HoldsIn(o, t, id)
    BY DEF HoldIs, HoldsIn
  <2> QED
    BY <2>2, <2>3, <2>4, <2>5, OwnersStep
<1>2. ASSUME NEW o PROVE o \in Notes(id)' <=> o \in Notes(id) /\ ~NoteIs(o, t, c, id)
  <2>1. \A b \in held[t] : b # c => Note(t, b) # Note(t, c)
    BY OwnerParts
  <2>2. NotesIn(o, t, id)' <=> NotesIn(o, t, id) /\ ~NoteIs(o, t, c, id)
    BY <2>1 DEF NotesIn, NoteIs
  <2>3. NotesIn(o, t, id) => o \in Notes(id)
    BY NoteOwners
  <2>4. NoteIs(o, t, c, id) => NotesIn(o, t, id)
    BY DEF NoteIs, NotesIn
  <2> QED
    BY <2>2, <2>3, <2>4, NotesStep
<1> QED
  BY <1>1, <1>2

(* In a step of another part of a constructor than the choice of the       *)
(* segment, the invariant about sizes is about the other threads.          *)
LEMMA SizesKept ==
  ASSUME IInv, NEW t \in Threads, UNCHANGED <<pool, serial, sizePerSegment>>,
         \A u \in Threads : u # t => pc'[u] = pc[u] /\ request'[u] = request[u],
         pc'[t] \in {"idle", "notification", "release"},
         pc'[t] = "notification" => pc[t] \in {"adjust", "find", "memory", "notification"},
         serial => \A u \in Threads, i \in DOMAIN segments' :
                     u # t /\ pc[u] = "memory" /\ segments'[i].id = chosen'[u]
                       => canAllocate(segments'[i].memory, request[u])
  PROVE  SizeInv'
<1>0. UNCHANGED pool /\ UNCHANGED serial /\ UNCHANGED sizePerSegment
  OBVIOUS
<1>1. \A u \in Threads : pc'[u] = "adjust" => request'[u] \in 1 .. MaxSegmentSize
  BY DEF IInv, SizeInv
<1>2. ASSUME serial'
      PROVE  /\ \A u, v \in Threads : Constructing(u)' /\ Constructing(v)' => u = v
             /\ \A u \in Threads : pc'[u] = "find" /\ pool' = "dynamic" => request'[u] <= sizePerSegment'
             /\ \A u \in Threads, i \in DOMAIN segments' :
                  pc'[u] = "memory" /\ segments'[i].id = chosen'[u]
                    => canAllocate(segments'[i].memory, request'[u])
  <2>1. serial
    BY <1>0, <1>2
  <2>2. \A u, v \in Threads : Constructing(u) /\ Constructing(v) => u = v
    BY <2>1 DEF IInv, SizeInv
  <2>3. \A u \in Threads : Constructing(u)' => Constructing(u)
    BY DEF Constructing
  <2>4. \A u, v \in Threads : Constructing(u)' /\ Constructing(v)' => u = v
    BY <2>2, <2>3
  <2>5. \A u \in Threads : pc'[u] = "find" /\ pool' = "dynamic" => request'[u] <= sizePerSegment'
    BY <1>0, <2>1 DEF IInv, SizeInv
  <2>6. \A u \in Threads, i \in DOMAIN segments' :
          pc'[u] = "memory" /\ segments'[i].id = chosen'[u]
            => canAllocate(segments'[i].memory, request'[u])
    BY <2>1
  <2> QED
    BY <2>4, <2>5, <2>6
<1> QED
  BY <1>1, <1>2 DEF SizeInv

LEMMA AllocateMemoryStep ==
  ASSUME IInv, NEW t \in Threads, AllocateMemory(t)
  PROVE  IInv'
<1> DEFINE d == chosen[t]
           k == Position(d)
           memory == segments[k].memory
           n == request[t]
           Got(start) == /\ pointer' = [pointer EXCEPT ![t] = start]
                         /\ Go(t, "notification") /\ UNCHANGED <<request, chosen>>
<1>1. /\ pc[t] = "memory" /\ UNCHANGED <<pool, serial, sizePerSegment, held>>
      /\ \/ n = 0 /\ Got(NULL) /\ UNCHANGED segments
         \/ /\ n > 0 /\ canAllocate(memory, n)
            /\ segments' = [segments EXCEPT ![k].memory = allocate(memory, n)]
            /\ Got(memory[FirstFit(memory, n)].start)
         \/ Leave(t) /\ UNCHANGED segments
  BY DEF AllocateMemory, SegmentOf, SetMemory
<1>2. /\ UNCHANGED pool /\ UNCHANGED serial /\ UNCHANGED sizePerSegment /\ UNCHANGED held
  BY <1>1
<1>3. d \in 1 .. Len(segments) /\ n \in Nat
  BY <1>1 DEF IInv, RefersInv, TypeInv
<1>4. k \in DOMAIN segments /\ segments[k].id = d
  BY <1>3, PositionOf DEF IInv
<1>5. CASE Leave(t) /\ UNCHANGED segments
  BY <1>1, <1>5, LeaveStep DEF OnWay
<1>6. ASSUME NEW start \in Nat \cup {NULL}, Got(start), DOMAIN segments' = DOMAIN segments,
             Len(segments') = Len(segments), SegmentsInv',
             \A i \in DOMAIN segments : segments'[i].id = segments[i].id
      PROVE  /\ TypeInv' /\ RefersInv' /\ OnlyThread(t) /\ SizeInv'
             /\ pc'[t] = "notification" /\ pointer'[t] = start /\ chosen' = chosen /\ request' = request
  <2>1. /\ pc' \in [Threads -> {"idle", "adjust", "find", "memory", "notification", "release"}]
        /\ pc'[t] = "notification"
        /\ \A u \in Threads : u # t => pc'[u] = pc[u]
    BY <1>6, AfterGo DEF IInv
  <2>2. /\ pointer' \in [Threads -> Nat \cup {NULL}] /\ pointer'[t] = start
        /\ \A u \in Threads : u # t => pointer'[u] = pointer[u]
    BY <1>6 DEF IInv, TypeInv
  <2>3. TypeInv'
    BY <1>2, <1>6, <2>1, <2>2 DEF IInv, TypeInv
  <2>4. RefersInv'
    BY <1>1, <1>2, <1>3, <1>6, <2>1 DEF IInv, RefersInv
  <2>5. OnlyThread(t)
    BY <1>2, <1>6, <2>1, <2>2 DEF OnlyThread
  <2>6. serial => \A u \in Threads : u # t => pc[u] # "memory"
    BY <1>1 DEF IInv, SizeInv, Constructing
  <2>7. SizeInv'
    BY <1>1, <1>2, <1>6, <2>1, <2>6, SizesKept
  <2> QED
    BY <1>6, <2>1, <2>2, <2>3, <2>4, <2>5, <2>7
<1>7. CASE n = 0 /\ Got(NULL) /\ UNCHANGED segments
  <2>1. SegmentsInv'
    BY <1>2, <1>7 DEF IInv, SegmentsInv
  <2>2. /\ TypeInv' /\ RefersInv' /\ OnlyThread(t) /\ SizeInv'
        /\ pc'[t] = "notification" /\ pointer'[t] = NULL
    BY <1>6, <1>7, <2>1
  <2>3. OwnersInv'
    BY <1>1, <1>2, <1>7, <2>2, QuietStep DEF IInv, OnWay
  <2> QED
    BY <2>1, <2>2, <2>3 DEF IInv
<1>8. CASE /\ n > 0 /\ canAllocate(memory, n)
           /\ segments' = [segments EXCEPT ![k].memory = allocate(memory, n)]
           /\ Got(memory[FirstFit(memory, n)].start)
  <2> DEFINE m == allocate(memory, n)
             i == FirstFit(memory, n)
             start == memory[i].start
             x == Block(start, n, FALSE)
             w == Way(t, start, n)
  <2>1. Listed(memory, segments[k].size) /\ Fits(memory, n) # {}
    BY <1>3, <1>4, <1>8 DEF IInv, SegmentsInv, canAllocate
  <2>2. /\ i \in DOMAIN memory /\ Listed(m, segments[k].size)
        /\ \A z : z \in Used(m) <=> z \in Used(memory) \/ z = x
        /\ \A z \in Used(memory) : z.start # x.start
        /\ x.start \in Nat /\ x.start = memory[i].start /\ x.size = n
    <3>1. Allocated(memory, segments[k].size, n, i, x, m)
      BY <1>3, <1>8, <2>1, AllocateListed
    <3> HIDE DEF m, x, i
    <3> QED
      BY <3>1 DEF Allocated
  <2>3. Got(start) /\ segments' = [segments EXCEPT ![k].memory = m]
    BY <1>8
  <2> HIDE DEF Got
  <2>4. m \in Seq(Blocks)
    BY <2>2 DEF Listed
  <2> HIDE DEF m, x
  <2>5. Updated(k, m, segments[k].notifications)
    BY <1>4, <2>3, <2>4, UpdateMemory DEF IInv
  <2>6. Listed(segments[k].notifications, NumNotifications)
    BY <1>4 DEF IInv, SegmentsInv
  <2>7. SegmentsInv'
    BY <1>2, <1>4, <2>2, <2>5, <2>6, UpdatedSegments DEF IInv
  <2>8. /\ TypeInv' /\ RefersInv' /\ OnlyThread(t) /\ SizeInv'
        /\ pc'[t] = "notification" /\ pointer'[t] = start /\ chosen' = chosen /\ request' = request
    BY <1>6, <2>2, <2>3, <2>5, <2>7 DEF Updated
  <2>9. \A id, o : WayIn(o, t, id)' <=> id = d /\ o = w
    <3>1. start # NULL
      <4>1. start \in Nat
        BY <2>2
      <4> QED
        BY <4>1 DEF NULL
    <3> QED
      BY <2>8, <3>1 DEF WayIn, OnWay
  <2> HIDE DEF w
  <2>10. \A id : /\ \A o : o \in MemoryOwners(id)' <=> o \in MemoryOwners(id) \/ WayIn(o, t, id)'
                 /\ \A o : o \in Notes(id)' <=> o \in Notes(id)
    BY <1>1, <1>2, <2>8, WayGained DEF OnWay
  <2>11. \A id : id # d => MemoryOwners(id)' = MemoryOwners(id) /\ Notes(id)' = Notes(id)
    <3> SUFFICES ASSUME NEW id, id # d
                 PROVE  MemoryOwners(id)' = MemoryOwners(id) /\ Notes(id)' = Notes(id)
      OBVIOUS
    <3>1. \A o : o \in MemoryOwners(id)' <=> o \in MemoryOwners(id)
      BY <2>9, <2>10
    <3>2. \A o : o \in Notes(id)' <=> o \in Notes(id)
      BY <2>10
    <3>3. MemoryOwners(id)' = MemoryOwners(id)
      BY <3>1
    <3>4. Notes(id)' = Notes(id)
      BY <3>2
    <3> QED
      BY <3>3, <3>4
  <2> SUFFICES ASSUME NEW e, e = d PROVE OwnersInv'
    BY <2>7, <2>8 DEF IInv
  <2>12. Matches(MemoryOwners(e), memory) /\ Matches(Notes(e), segments[k].notifications)
    BY <1>4 DEF IInv, OwnersInv
  <2>13. Matches(MemoryOwners(e)', m)
    <3>1. \A o : o \in MemoryOwners(e)' <=> o \in MemoryOwners(e) \/ o = w
      BY <2>9, <2>10
    <3>2. w[2] = start /\ w[3] = n
      BY OwnerParts DEF w
    <3> QED
      BY <2>2, <2>12, <3>1, <3>2, MatchesAdd
  <2>14. Matches(Notes(e)', segments[k].notifications)
    BY <2>10, <2>12, MatchesSame
  <2> QED
    BY <1>3, <1>4, <2>5, <2>11, <2>13, <2>14, UpdatedOwners DEF IInv
<1> QED
  BY <1>1, <1>5, <1>7, <1>8

(* An owner of something in a list: its block. *)
LEMMA OwnedBlock ==
  ASSUME NEW M, NEW b, NEW size, Listed(b, size), Matches(M, b), NEW w \in M
  PROVE  \E i \in DOMAIN b : ~b[i].free /\ b[i] \in Used(b) /\ b[i].start = w[2] /\ b[i].size = w[3]
<1>1. PICK z \in Used(b) : z.start = w[2] /\ z.size = w[3]
  BY DEF Matches
<1>2. PICK i \in DOMAIN b : z = b[i]
  BY <1>1, UsedBlocks DEF Among
<1>3. ~z.free
  BY <1>1, UsedBlocks
<1> QED
  BY <1>1, <1>2, <1>3

(* Memory is given back, by the destructor of a buffer or by a constructor *)
(* that found no notification.                                             *)
LEMMA ReturnStep ==
  ASSUME IInv, NEW t \in Threads, pc[t] \in OnWay, ReturnMemory(t), Leave(t),
         UNCHANGED <<pool, serial, sizePerSegment, held>>
  PROVE  IInv'
<1>0. UNCHANGED pool /\ UNCHANGED serial /\ UNCHANGED sizePerSegment /\ UNCHANGED held
  OBVIOUS
<1>1. CASE pointer[t] = NULL
  <2>1. UNCHANGED segments
    BY <1>1 DEF ReturnMemory
  <2> QED
    BY <1>1, <2>1, LeaveStep
<1>2. CASE pointer[t] # NULL
  <2> DEFINE d == chosen[t]
             k == Position(d)
             memory == segments[k].memory
             m == deallocate(memory, pointer[t])
             w == Way(t, pointer[t], request[t])
  <2>1. segments' = [segments EXCEPT ![k].memory = m]
    BY <1>2 DEF ReturnMemory, SetMemory, SegmentOf
  <2>2. d \in 1 .. Len(segments)
    BY DEF IInv, RefersInv
  <2>3. /\ k \in DOMAIN segments /\ segments[k].id = d
        /\ \A i \in DOMAIN segments : segments[i].id = d => i = k
    BY <2>2, PositionOf DEF IInv
  <2>4. Listed(memory, segments[k].size) /\ Listed(segments[k].notifications, NumNotifications)
    BY <2>3 DEF IInv, SegmentsInv
  <2> SUFFICES ASSUME NEW e, e = d PROVE IInv'
    OBVIOUS
  <2>5. Matches(MemoryOwners(e), memory) /\ Matches(Notes(e), segments[k].notifications)
    BY <2>3 DEF IInv, OwnersInv
  <2>6. \A id, o : WayIn(o, t, id) <=> id = d /\ o = w
    BY <1>2 DEF WayIn
  <2>7. w \in MemoryOwners(e) /\ w[2] = pointer[t]
    <3>1. OwnsIn(w, t, e)
      BY <2>6 DEF OwnsIn
    <3>2. w[2] = pointer[t]
      BY OwnerParts
    <3> QED
      BY <3>1, <3>2, Owners
  <2> HIDE DEF w
  <2>8. PICK i \in DOMAIN memory : /\ ~memory[i].free /\ memory[i] \in Used(memory)
                                   /\ memory[i].start = pointer[t]
    BY <2>4, <2>5, <2>7, OwnedBlock
  <2>9. Deallocated(memory, segments[k].size, i, m)
    BY <2>4, <2>8, DeallocateListed
  <2> HIDE DEF m
  <2>10. m \in Seq(Blocks) /\ Listed(m, segments[k].size)
    BY <2>9 DEF Deallocated, Listed
  <2>11. Updated(k, m, segments[k].notifications)
    BY <2>1, <2>3, <2>10, UpdateMemory DEF IInv
  <2>12. SegmentsInv'
    BY <1>0, <2>3, <2>4, <2>10, <2>11, UpdatedSegments DEF IInv
  <2>13. /\ pc'[t] = "idle"
         /\ \A u \in Threads : u # t => /\ pc'[u] = pc[u] /\ chosen'[u] = chosen[u]
                                        /\ pointer'[u] = pointer[u] /\ request'[u] = request[u]
    BY AfterLeave DEF IInv
  <2>14. OnlyThread(t)
    BY <1>0, <2>13 DEF OnlyThread
  <2>15. TypeInv'
    BY <1>0, AfterLeave DEF IInv, TypeInv
  <2>16. RefersInv'
    BY <1>0, <2>11, <2>13 DEF IInv, RefersInv, OnWay, Updated
  <2>17. SizeInv'
    <3>1. serial => \A u \in Threads, j \in DOMAIN segments' :
                      u # t /\ pc[u] = "memory" /\ segments'[j].id = chosen'[u]
                        => canAllocate(segments'[j].memory, request[u])
      <4> SUFFICES ASSUME serial, NEW u \in Threads, NEW j \in DOMAIN segments,
                          u # t, pc[u] = "memory", segments'[j].id = chosen'[u]
                   PROVE  canAllocate(segments'[j].memory, request[u])
        BY <2>11 DEF Updated
      <4>1. segments[j].id = chosen[u]
        BY <2>11, <2>13 DEF Updated
      <4>2. canAllocate(segments[j].memory, request[u]) /\ request[u] \in Nat
        BY <4>1 DEF IInv, SizeInv, TypeInv
      <4>3. CASE j = k
        <5>1. segments'[j].memory = m
          BY <2>11, <4>3 DEF Updated
        <5> QED
          BY <2>9, <4>2, <4>3, <5>1 DEF Deallocated
      <4>4. CASE j # k
        BY <2>11, <4>2, <4>4 DEF Updated
      <4> QED
        BY <4>3, <4>4
    <3> QED
      BY <2>13, <3>1, SizesKept
  <2>18. \A id : /\ \A o : o \in MemoryOwners(id)' <=> o \in MemoryOwners(id) /\ ~WayIn(o, t, id)
                 /\ \A o : o \in Notes(id)' <=> o \in Notes(id)
    BY <1>0, <2>13, <2>14, WayLost DEF OnWay
  <2>19. \A id : id # d => MemoryOwners(id)' = MemoryOwners(id) /\ Notes(id)' = Notes(id)
    <3> SUFFICES ASSUME NEW id, id # d
                 PROVE  MemoryOwners(id)' = MemoryOwners(id) /\ Notes(id)' = Notes(id)
      OBVIOUS
    <3>1. \A o : o \in MemoryOwners(id)' <=> o \in MemoryOwners(id)
      BY <2>6, <2>18
    <3>2. \A o : o \in Notes(id)' <=> o \in Notes(id)
      BY <2>18
    <3>3. MemoryOwners(id)' = MemoryOwners(id)
      BY <3>1
    <3>4. Notes(id)' = Notes(id)
      BY <3>2
    <3> QED
      BY <3>3, <3>4
  <2>20. Matches(MemoryOwners(e)', m)
    <3>1. \A o : o \in MemoryOwners(e)' <=> o \in MemoryOwners(e) /\ o # w
      BY <2>6, <2>18
    <3>2. \A z : z \in Used(m) <=> z \in Used(memory) /\ z # memory[i]
      BY <2>9 DEF Deallocated
    <3> QED
      BY <2>4, <2>5, <2>7, <2>8, <3>1, <3>2, MatchesRemove
  <2>21. Matches(Notes(e)', segments[k].notifications)
    BY <2>5, <2>18, MatchesSame
  <2>22. OwnersInv'
    BY <2>2, <2>3, <2>11, <2>19, <2>20, <2>21, UpdatedOwners DEF IInv
  <2> QED
    BY <2>12, <2>15, <2>16, <2>17, <2>22 DEF IInv
<1> QED
  BY <1>1, <1>2

LEMMA CompleteStep ==
  ASSUME IInv, NEW t \in Threads, pc[t] = "notification", Complete(t), Leave(t),
         UNCHANGED <<pool, serial, sizePerSegment>>
  PROVE  IInv'
<1>0. UNCHANGED pool /\ UNCHANGED serial /\ UNCHANGED sizePerSegment
  OBVIOUS
<1> DEFINE d == chosen[t]
           k == Position(d)
           notes == segments[k].notifications
           i == FirstFit(notes, 1)
           n == allocate(notes, 1)
           x == Block(notes[i].start, 1, FALSE)
           c == [segment |-> d, start |-> pointer[t], size |-> request[t],
                 notification |-> notes[i].start]
           w == Way(t, pointer[t], request[t])
<1>1. d \in 1 .. Len(segments)
  BY DEF IInv, RefersInv, OnWay
<1>2. /\ k \in DOMAIN segments /\ segments[k].id = d
      /\ \A j \in DOMAIN segments : segments[j].id = d => j = k
  BY <1>1, PositionOf DEF IInv
<1>3. /\ canAllocate(notes, 1)
      /\ segments' = [segments EXCEPT ![k].notifications = n]
      /\ held' = [held EXCEPT ![t] = held[t] \cup {c}]
  <2>1. SegmentOf(t) = segments[k] /\ Position(SegmentOf(t).id) = k
    BY <1>2 DEF SegmentOf
  <2> QED
    BY <1>2, <2>1 DEF Complete, acquire_notification
<1>4. Listed(segments[k].memory, segments[k].size) /\ Listed(notes, NumNotifications)
  BY <1>2 DEF IInv, SegmentsInv
<1>5. Fits(notes, 1) # {}
  BY <1>3 DEF canAllocate
<1>6. Allocated(notes, NumNotifications, 1, i, x, n)
  <2>1. \A one \in Nat : one = 1 => Allocated(notes, NumNotifications, one, i, x, n)
    <3> SUFFICES ASSUME NEW one \in Nat, one = 1
                 PROVE  Allocated(notes, NumNotifications, one, i, x, n)
      OBVIOUS
    <3>1. /\ one > 0 /\ Fits(notes, one) # {} /\ i = FirstFit(notes, one)
          /\ x = Block(notes[i].start, one, FALSE) /\ n = allocate(notes, one)
      BY <1>5
    <3> HIDE DEF notes, i, x, n
    <3> QED
      BY <1>4, <3>1, AllocateListed
  <2> QED
    BY <2>1
<1>7. notes[i].start \in Nat
  BY <1>6 DEF Allocated
<1>8. /\ c \in BufferRecords /\ c.segment = d /\ c.start = pointer[t] /\ c.size = request[t]
      /\ c.notification = notes[i].start
  <2>1. d \in Nat /\ pointer[t] \in Nat \cup {NULL} /\ request[t] \in Nat
    BY DEF IInv, TypeInv
  <2> QED
    BY <1>7, <2>1 DEF BufferRecords
<1>9. /\ x.start = notes[i].start /\ x.size = 1
  BY DEF Block
<1> HIDE DEF n, x, c
<1>10. n \in Seq(Blocks) /\ Listed(n, NumNotifications)
  BY <1>6 DEF Allocated, Listed
<1>11. Updated(k, segments[k].memory, n)
  BY <1>2, <1>3, <1>10, UpdateNotifications DEF IInv
<1>12. SegmentsInv'
  BY <1>0, <1>2, <1>4, <1>10, <1>11, UpdatedSegments DEF IInv
<1>13. /\ pc'[t] = "idle"
       /\ \A u \in Threads : u # t => /\ pc'[u] = pc[u] /\ chosen'[u] = chosen[u]
                                      /\ pointer'[u] = pointer[u] /\ request'[u] = request[u]
  BY AfterLeave DEF IInv
<1>14. /\ held' \in [Threads -> SUBSET BufferRecords] /\ held'[t] = held[t] \cup {c}
       /\ \A u \in Threads : u # t => held'[u] = held[u]
  BY <1>3, <1>8 DEF IInv, TypeInv
<1>15. OnlyThread(t)
  BY <1>13, <1>14 DEF OnlyThread
<1>16. TypeInv'
  BY <1>0, <1>14, AfterLeave DEF IInv, TypeInv
<1>17. RefersInv'
  <2>1. \A u \in Threads : pc'[u] \in OnWay \cup {"memory"} => chosen'[u] \in 1 .. Len(segments')
    BY <1>11, <1>13 DEF IInv, RefersInv, OnWay, Updated
  <2>2. \A u \in Threads : \A b \in held[u] : b.segment \in 1 .. Len(segments')
    BY <1>11 DEF IInv, RefersInv, Updated
  <2>3. c.segment \in 1 .. Len(segments')
    BY <1>1, <1>8, <1>11 DEF Updated
  <2> QED
    BY <1>14, <2>1, <2>2, <2>3 DEF RefersInv
<1>18. SizeInv'
  <2>1. serial => \A u \in Threads : u # t => pc[u] # "memory"
    BY DEF IInv, SizeInv, Constructing
  <2> QED
    BY <1>13, <2>1, SizesKept
<1> SUFFICES ASSUME NEW e, e = d PROVE OwnersInv'
  BY <1>12, <1>16, <1>17, <1>18 DEF IInv
<1>19. Matches(MemoryOwners(e), segments[k].memory) /\ Matches(Notes(e), notes)
  BY <1>2 DEF IInv, OwnersInv
<1>20. \A id : /\ \A o : o \in MemoryOwners(id)'
                          <=> (o \in MemoryOwners(id) /\ ~WayIn(o, t, id)) \/ HoldIs(o, t, c, id)
               /\ \A o : o \in Notes(id)' <=> o \in Notes(id) \/ NoteIs(o, t, c, id)
  BY <1>13, <1>14, <1>15, BufferGained DEF OnWay
<1>21. \A id, o : /\ WayIn(o, t, id) <=> id = d /\ pointer[t] # NULL /\ o = w
                  /\ HoldIs(o, t, c, id) <=> id = d /\ pointer[t] # NULL /\ o = Hold(t, c)
                  /\ NoteIs(o, t, c, id) <=> id = d /\ o = Note(t, c)
  BY <1>8 DEF WayIn, HoldIs, NoteIs, OnWay
<1>22. w[2] = Hold(t, c)[2] /\ w[3] = Hold(t, c)[3]
  BY <1>8, OwnerParts
<1> HIDE DEF w
<1>23. \A id : id # d => MemoryOwners(id)' = MemoryOwners(id) /\ Notes(id)' = Notes(id)
  <2> SUFFICES ASSUME NEW id, id # d
               PROVE  MemoryOwners(id)' = MemoryOwners(id) /\ Notes(id)' = Notes(id)
    OBVIOUS
  <2>1. \A o : o \in MemoryOwners(id)' <=> o \in MemoryOwners(id)
    BY <1>20, <1>21
  <2>2. \A o : o \in Notes(id)' <=> o \in Notes(id)
    BY <1>20, <1>21
  <2>3. MemoryOwners(id)' = MemoryOwners(id)
    BY <2>1
  <2>4. Notes(id)' = Notes(id)
    BY <2>2
  <2> QED
    BY <2>3, <2>4
<1>24. Matches(MemoryOwners(e)', segments[k].memory)
  <2>1. CASE pointer[t] = NULL
    <3>1. \A o : o \in MemoryOwners(e)' <=> o \in MemoryOwners(e)
      BY <1>20, <1>21, <2>1
    <3> QED
      BY <1>19, <3>1, MatchesSame
  <2>2. CASE pointer[t] # NULL
    <3>1. w \in MemoryOwners(e)
      <4>1. OwnsIn(w, t, e)
        BY <1>21, <2>2 DEF OwnsIn
      <4> QED
        BY <4>1, Owners
    <3>2. \A o : o \in MemoryOwners(e)' <=> (o \in MemoryOwners(e) /\ o # w) \/ o = Hold(t, c)
      BY <1>20, <1>21, <2>2
    <3> QED
      BY <1>19, <1>22, <3>1, <3>2, MatchesReplace
  <2> QED
    BY <2>1, <2>2
<1>25. Matches(Notes(e)', n)
  <2>1. \A o : o \in Notes(e)' <=> o \in Notes(e) \/ o = Note(t, c)
    BY <1>20, <1>21
  <2>2. x.start = Note(t, c)[2] /\ x.size = Note(t, c)[3]
    BY <1>8, <1>9, OwnerParts
  <2>3. /\ \A z : z \in Used(n) <=> z \in Used(notes) \/ z = x
        /\ \A z \in Used(notes) : z.start # x.start
    BY <1>6 DEF Allocated
  <2> QED
    BY <1>19, <2>1, <2>2, <2>3, MatchesAdd
<1> QED
  BY <1>1, <1>2, <1>11, <1>23, <1>24, <1>25, UpdatedOwners DEF IInv

LEMMA AcquireNotificationStep ==
  ASSUME IInv, NEW t \in Threads, AcquireNotification(t)
  PROVE  IInv'
<1>1. /\ pc[t] = "notification" /\ Leave(t) /\ UNCHANGED <<pool, serial, sizePerSegment>>
      /\ Complete(t) \/ (ReturnMemory(t) /\ UNCHANGED held)
  BY DEF AcquireNotification
<1>2. CASE Complete(t)
  BY <1>1, <1>2, CompleteStep
<1>3. CASE ReturnMemory(t) /\ UNCHANGED held
  BY <1>1, <1>3, ReturnStep DEF OnWay
<1> QED
  BY <1>1, <1>2, <1>3

LEMMA ReleaseMemoryStep ==
  ASSUME IInv, NEW t \in Threads, ReleaseMemory(t)
  PROVE  IInv'
BY ReturnStep DEF ReleaseMemory, OnWay

LEMMA ReleaseNotificationStep ==
  ASSUME IInv, NEW t \in Threads, NEW b \in held[t], ReleaseNotification(t, b)
  PROVE  IInv'
<1> DEFINE d == b.segment
           k == Position(d)
           notes == segments[k].notifications
           n == deallocate(notes, b.notification)
           w == Way(t, b.start, b.size)
<1>0. UNCHANGED pool /\ UNCHANGED serial /\ UNCHANGED sizePerSegment
  BY DEF ReleaseNotification
<1>1. /\ pc[t] = "idle" /\ Go(t, "release")
      /\ held' = [held EXCEPT ![t] = held[t] \ {b}]
      /\ chosen' = [chosen EXCEPT ![t] = b.segment]
      /\ pointer' = [pointer EXCEPT ![t] = b.start]
      /\ request' = [request EXCEPT ![t] = b.size]
      /\ segments' = [segments EXCEPT ![k].notifications = n]
  BY DEF ReleaseNotification, release_notification
<1>2. b \in BufferRecords
  BY DEF IInv, TypeInv
<1>3. /\ b.segment \in Nat /\ b.start \in Nat \cup {NULL} /\ b.size \in Nat
      /\ b.notification \in Nat
  BY <1>2 DEF BufferRecords
<1>4. d \in 1 .. Len(segments)
  BY DEF IInv, RefersInv
<1>5. /\ k \in DOMAIN segments /\ segments[k].id = d
      /\ \A j \in DOMAIN segments : segments[j].id = d => j = k
  BY <1>4, PositionOf DEF IInv
<1>6. Listed(segments[k].memory, segments[k].size) /\ Listed(notes, NumNotifications)
  BY <1>5 DEF IInv, SegmentsInv
<1> SUFFICES ASSUME NEW e, e = d PROVE IInv'
  OBVIOUS
<1>7. Matches(MemoryOwners(e), segments[k].memory) /\ Matches(Notes(e), notes)
  BY <1>5 DEF IInv, OwnersInv
<1>8. Note(t, b) \in Notes(e) /\ Note(t, b)[2] = b.notification
  <2>1. NotesIn(Note(t, b), t, e)
    BY DEF NotesIn
  <2> QED
    BY <2>1, NoteOwners, OwnerParts
<1>9. PICK i \in DOMAIN notes : /\ ~notes[i].free /\ notes[i] \in Used(notes)
                                /\ notes[i].start = b.notification
  BY <1>6, <1>7, <1>8, OwnedBlock
<1>10. Deallocated(notes, NumNotifications, i, n)
  BY <1>6, <1>9, DeallocateListed
<1> HIDE DEF n
<1>11. n \in Seq(Blocks) /\ Listed(n, NumNotifications)
  BY <1>10 DEF Deallocated, Listed
<1>12. Updated(k, segments[k].memory, n)
  BY <1>1, <1>5, <1>11, UpdateNotifications DEF IInv
<1>13. SegmentsInv'
  BY <1>0, <1>5, <1>6, <1>11, <1>12, UpdatedSegments DEF IInv
<1>14. /\ pc' \in [Threads -> {"idle", "adjust", "find", "memory", "notification", "release"}]
       /\ pc'[t] = "release"
       /\ \A u \in Threads : u # t => pc'[u] = pc[u]
  BY <1>1, AfterGo DEF IInv
<1>15. /\ held' \in [Threads -> SUBSET BufferRecords] /\ held'[t] = held[t] \ {b}
       /\ chosen' \in [Threads -> Nat] /\ chosen'[t] = d
       /\ pointer' \in [Threads -> Nat \cup {NULL}] /\ pointer'[t] = b.start
       /\ request' \in [Threads -> Nat] /\ request'[t] = b.size
       /\ \A u \in Threads : u # t => /\ held'[u] = held[u] /\ chosen'[u] = chosen[u]
                                      /\ pointer'[u] = pointer[u] /\ request'[u] = request[u]
  BY <1>1, <1>3 DEF IInv, TypeInv
<1>16. OnlyThread(t)
  BY <1>14, <1>15 DEF OnlyThread
<1>17. TypeInv'
  BY <1>0, <1>14, <1>15 DEF IInv, TypeInv
<1>18. RefersInv'
  <2>1. \A u \in Threads : pc'[u] \in OnWay \cup {"memory"} => chosen'[u] \in 1 .. Len(segments')
    BY <1>4, <1>12, <1>14, <1>15 DEF IInv, RefersInv, Updated
  <2>2. \A u \in Threads : \A c \in held[u] : c.segment \in 1 .. Len(segments')
    BY <1>12 DEF IInv, RefersInv, Updated
  <2>3. \A u \in Threads : held'[u] \subseteq held[u]
    BY <1>15
  <2> QED
    BY <2>1, <2>2, <2>3 DEF RefersInv
<1>19. SizeInv'
  <2>1. serial => \A u \in Threads, j \in DOMAIN segments' :
                    u # t /\ pc[u] = "memory" /\ segments'[j].id = chosen'[u]
                      => canAllocate(segments'[j].memory, request[u])
    <3> SUFFICES ASSUME serial, NEW u \in Threads, NEW j \in DOMAIN segments,
                        u # t, pc[u] = "memory", segments'[j].id = chosen'[u]
                 PROVE  canAllocate(segments'[j].memory, request[u])
      BY <1>12 DEF Updated
    <3>1. segments[j].id = chosen[u] /\ segments'[j].memory = segments[j].memory
      BY <1>12, <1>15 DEF Updated
    <3> QED
      BY <3>1 DEF IInv, SizeInv
  <2> QED
    BY <1>0, <1>14, <1>15, <2>1, SizesKept
<1>20. \A id : /\ \A o : o \in MemoryOwners(id)'
                          <=> (o \in MemoryOwners(id) /\ ~HoldIs(o, t, b, id)) \/ WayIn(o, t, id)'
               /\ \A o : o \in Notes(id)' <=> o \in Notes(id) /\ ~NoteIs(o, t, b, id)
  BY <1>1, <1>15, <1>16, BufferLost DEF OnWay
<1>21. \A id, o : /\ WayIn(o, t, id)' <=> id = d /\ b.start # NULL /\ o = w
                  /\ HoldIs(o, t, b, id) <=> id = d /\ b.start # NULL /\ o = Hold(t, b)
                  /\ NoteIs(o, t, b, id) <=> id = d /\ o = Note(t, b)
  BY <1>14, <1>15 DEF WayIn, HoldIs, NoteIs, OnWay
<1>22. w[2] = Hold(t, b)[2] /\ w[3] = Hold(t, b)[3]
  BY OwnerParts
<1> HIDE DEF w
<1>23. \A id : id # d => MemoryOwners(id)' = MemoryOwners(id) /\ Notes(id)' = Notes(id)
  <2> SUFFICES ASSUME NEW id, id # d
               PROVE  MemoryOwners(id)' = MemoryOwners(id) /\ Notes(id)' = Notes(id)
    OBVIOUS
  <2>1. \A o : o \in MemoryOwners(id)' <=> o \in MemoryOwners(id)
    BY <1>20, <1>21
  <2>2. \A o : o \in Notes(id)' <=> o \in Notes(id)
    BY <1>20, <1>21
  <2>3. MemoryOwners(id)' = MemoryOwners(id)
    BY <2>1
  <2>4. Notes(id)' = Notes(id)
    BY <2>2
  <2> QED
    BY <2>3, <2>4
<1>24. Matches(MemoryOwners(e)', segments[k].memory)
  <2>1. CASE b.start = NULL
    <3>1. \A o : o \in MemoryOwners(e)' <=> o \in MemoryOwners(e)
      BY <1>20, <1>21, <2>1
    <3> QED
      BY <1>7, <3>1, MatchesSame
  <2>2. CASE b.start # NULL
    <3>1. Hold(t, b) \in MemoryOwners(e)
      <4>1. OwnsIn(Hold(t, b), t, e)
        BY <2>2 DEF OwnsIn, HoldsIn
      <4> QED
        BY <4>1, Owners
    <3>2. \A o : o \in MemoryOwners(e)' <=> (o \in MemoryOwners(e) /\ o # Hold(t, b)) \/ o = w
      BY <1>20, <1>21, <2>2
    <3> QED
      BY <1>7, <1>22, <3>1, <3>2, MatchesReplace
  <2> QED
    BY <2>1, <2>2
<1>25. Matches(Notes(e)', n)
  <2>1. \A o : o \in Notes(e)' <=> o \in Notes(e) /\ o # Note(t, b)
    BY <1>20, <1>21
  <2>2. \A z : z \in Used(n) <=> z \in Used(notes) /\ z # notes[i]
    BY <1>10 DEF Deallocated
  <2> QED
    BY <1>6, <1>7, <1>8, <1>9, <2>1, <2>2, MatchesRemove
<1>26. OwnersInv'
  BY <1>4, <1>5, <1>12, <1>23, <1>24, <1>25, UpdatedOwners DEF IInv
<1> QED
  BY <1>13, <1>17, <1>18, <1>19, <1>26 DEF IInv
-----------------------------------------------------------------------------
LEMMA Stuttering == IInv /\ UNCHANGED vars => IInv'
<1> SUFFICES ASSUME IInv, UNCHANGED vars PROVE IInv'
  OBVIOUS
<1>1. /\ pool' = pool /\ serial' = serial /\ sizePerSegment' = sizePerSegment
      /\ segments' = segments /\ pc' = pc /\ request' = request /\ chosen' = chosen
      /\ pointer' = pointer /\ held' = held
  BY DEF vars
<1>2. TypeInv' /\ SegmentsInv' /\ RefersInv'
  BY <1>1 DEF IInv, TypeInv, SegmentsInv, RefersInv
<1>3. SizeInv'
  BY <1>1 DEF IInv, SizeInv, Constructing
<1>4. \A id : MemoryOwners(id)' = MemoryOwners(id) /\ Notes(id)' = Notes(id)
  BY <1>1 DEF MemoryOwners, Notes, Buffers, OnTheWay
<1>5. OwnersInv'
  BY <1>1, <1>4 DEF IInv, OwnersInv
<1> QED
  BY <1>2, <1>3, <1>5 DEF IInv

(* Whatever buffers the threads construct and destroy, the lists of all    *)
(* managers stay tiled, and owners and used blocks correspond.             *)
THEOREM Invariance == Spec => []IInv
<1>1. IInv /\ [Next]_vars => IInv'
  <2> SUFFICES ASSUME IInv, [Next]_vars PROVE IInv'
    OBVIOUS
  <2>1. ASSUME NEW t \in Threads, NEW size \in Sizes, Construct(t, size) PROVE IInv'
    BY <2>1, ConstructStep
  <2>2. ASSUME NEW t \in Threads, Adjust(t) PROVE IInv'
    BY <2>2, AdjustStep
  <2>3. ASSUME NEW t \in Threads, Find(t) PROVE IInv'
    BY <2>3, FindStep
  <2>4. ASSUME NEW t \in Threads, FindSingle(t) PROVE IInv'
    BY <2>4, FindSingleStep
  <2>5. ASSUME NEW t \in Threads, AllocateMemory(t) PROVE IInv'
    BY <2>5, AllocateMemoryStep
  <2>6. ASSUME NEW t \in Threads, AcquireNotification(t) PROVE IInv'
    BY <2>6, AcquireNotificationStep
  <2>7. ASSUME NEW t \in Threads, NEW b \in held[t], ReleaseNotification(t, b) PROVE IInv'
    BY <2>7, ReleaseNotificationStep
  <2>8. ASSUME NEW t \in Threads, ReleaseMemory(t) PROVE IInv'
    BY <2>8, ReleaseMemoryStep
  <2>9. CASE UNCHANGED vars
    BY <2>9, Stuttering
  <2> QED
    BY <2>1, <2>2, <2>3, <2>4, <2>5, <2>6, <2>7, <2>8, <2>9 DEF Next
<1> QED
  BY <1>1, Initially, PTL DEF Spec

(* No gap, no overlap and no two free neighbours in any manager.           *)
THEOREM NeverFragmented == Spec => []Tiling
<1>1. IInv => Tiling
  BY DEF IInv, SegmentsInv, Tiling, Listed
<1> QED
  BY <1>1, Invariance, PTL

(* The segment a pool returned still has the memory when a buffer that is  *)
(* constructed alone allocates it.                                         *)
THEOREM PoolKeepsItsPromise == Spec => []SegmentSuffices
<1>1. IInv => SegmentSuffices
  <2> SUFFICES ASSUME IInv, serial, NEW t \in Threads, pc[t] = "memory"
               PROVE  canAllocate(SegmentOf(t).memory, request[t])
    BY DEF SegmentSuffices
  <2>1. chosen[t] \in 1 .. Len(segments)
    BY DEF IInv, RefersInv
  <2>2. Position(chosen[t]) \in DOMAIN segments /\ segments[Position(chosen[t])].id = chosen[t]
    BY <2>1, PositionOf DEF IInv
  <2> QED
    BY <2>2 DEF IInv, SizeInv, SegmentOf
<1> QED
  BY <1>1, Invariance, PTL

(* A manager has finitely many blocks. *)
LEMMA UsedFinite ==
  ASSUME NEW b \in Seq(Blocks)
  PROVE  IsFiniteSet(Used(b))
<1> DEFINE all == {b[i] : i \in DOMAIN b}
           f == [i \in 1 .. Len(b) |-> b[i]]
<1>1. DOMAIN b = 1 .. Len(b) /\ Len(b) \in Int
  OBVIOUS
<1>2. f \in Surjection(1 .. Len(b), all)
  BY <1>1 DEF Surjection
<1>3. IsFiniteSet(1 .. Len(b))
  BY <1>1, FS_Interval
<1>4. IsFiniteSet(all)
  BY <1>2, <1>3, FS_Surjection
<1>5. Used(b) \in SUBSET all
  BY DEF Used
<1> QED
  BY <1>4, <1>5, FS_Subset

LEMMA MatchesCount ==
  ASSUME NEW b, NEW size, Listed(b, size), NEW M, Matches(M, b)
  PROVE  Cardinality(M) = Cardinality(Used(b))
<1>1. /\ \A o \in M : \E z \in Used(b) : z.start = o[2] /\ z.size = o[3]
      /\ \A o, p \in M : o[2] = p[2] => o = p
      /\ \A z \in Used(b) : \E o \in M : z.start = o[2] /\ z.size = o[3]
  BY DEF Matches
<1>2. \A y, z \in Used(b) : y.start = z.start => y = z
  BY StartUnique, UsedBlocks DEF Among
<1> DEFINE f == [o \in M |-> CHOOSE z \in Used(b) : z.start = o[2] /\ z.size = o[3]]
<1>3. \A o \in M : f[o] \in Used(b) /\ f[o].start = o[2]
  BY <1>1
<1>4. f \in [M -> Used(b)]
  BY <1>3
<1> HIDE DEF f
<1>5. f \in Injection(M, Used(b))
  BY <1>1, <1>3, <1>4 DEF Injection, IsInjective
<1>6. f \in Surjection(M, Used(b))
  <2>1. ASSUME NEW z \in Used(b) PROVE \E o \in M : f[o] = z
    BY <1>1, <1>2, <1>3
  <2> QED
    BY <1>4, <2>1 DEF Surjection
<1>7. IsFiniteSet(Used(b))
  BY UsedFinite DEF Listed
<1> QED
  BY <1>5, <1>6, <1>7, FS_Injection

(* Nothing is given out twice and nothing is lost, whatever is thrown.     *)
THEOREM EachHasOneOwner == Spec => []OwnedOnce
<1>1. IInv => OwnedOnce
  <2> SUFFICES ASSUME IInv, NEW i \in DOMAIN segments, NEW s, s = segments[i], NEW id, id = s.id
               PROVE  /\ {<<o[2], o[3]>> : o \in MemoryOwners(id)}
                           = {<<b.start, b.size>> : b \in Used(s.memory)}
                      /\ Cardinality(MemoryOwners(id)) = Cardinality(Used(s.memory))
                      /\ {x[2].notification : x \in Buffers(id)}
                           = {b.start : b \in Used(s.notifications)}
                      /\ Cardinality({x[2].notification : x \in Buffers(id)})
                           = Cardinality(Buffers(id))
    BY DEF OwnedOnce
  <2>1. Listed(s.memory, s.size) /\ Listed(s.notifications, NumNotifications)
    BY DEF IInv, SegmentsInv
  <2>2. Matches(MemoryOwners(id), s.memory) /\ Matches(Notes(id), s.notifications)
    BY DEF IInv, OwnersInv
  <2> HIDE DEF IInv
  <2>3. /\ \A o \in MemoryOwners(id) : \E z \in Used(s.memory) : z.start = o[2] /\ z.size = o[3]
        /\ \A z \in Used(s.memory) : \E o \in MemoryOwners(id) : z.start = o[2] /\ z.size = o[3]
    BY <2>2 DEF Matches
  <2>4. {<<o[2], o[3]>> : o \in MemoryOwners(id)} = {<<b.start, b.size>> : b \in Used(s.memory)}
    <3>1. ASSUME NEW p
          PROVE  (\E o \in MemoryOwners(id) : p = <<o[2], o[3]>>)
                   <=> (\E b \in Used(s.memory) : p = <<b.start, b.size>>)
      BY <2>3
    <3> QED
      BY <3>1
  <2>5. Cardinality(MemoryOwners(id)) = Cardinality(Used(s.memory))
    BY <2>1, <2>2, MatchesCount
  <2> DEFINE note(x) == <<x, x[2].notification, 1>>
             ids == {x[2].notification : x \in Buffers(id)}
             used == Used(s.notifications)
  <2>6. /\ \A x \in Buffers(id) : \E z \in used : z.start = x[2].notification
        /\ \A z \in used : \E x \in Buffers(id) : z.start = x[2].notification
        /\ \A x, y \in Buffers(id) : x[2].notification = y[2].notification => x = y
    <3>1. \A x : note(x)[1] = x /\ note(x)[2] = x[2].notification
      OBVIOUS
    <3>2. Notes(id) = {note(x) : x \in Buffers(id)}
      BY DEF Notes
    <3> HIDE DEF note
    <3>3. /\ \A o \in Notes(id) : \E z \in used : z.start = o[2]
          /\ \A z \in used : \E o \in Notes(id) : z.start = o[2]
          /\ \A o, p \in Notes(id) : o[2] = p[2] => o = p
      BY <2>2 DEF Matches
    <3>4. \A x \in Buffers(id) : note(x) \in Notes(id)
      BY <3>2
    <3>5. \A o \in Notes(id) : \E x \in Buffers(id) : o = note(x)
      BY <3>2
    <3>6. \A x \in Buffers(id) : \E z \in used : z.start = x[2].notification
      BY <3>1, <3>3, <3>4
    <3>7. \A z \in used : \E x \in Buffers(id) : z.start = x[2].notification
      BY <3>1, <3>3, <3>5
    <3>8. \A x, y \in Buffers(id) : x[2].notification = y[2].notification => x = y
      BY <3>1, <3>3, <3>4
    <3> QED
      BY <3>6, <3>7, <3>8
  <2>7. ids = {b.start : b \in used}
    BY <2>6
  <2>8. Cardinality(ids) = Cardinality(Buffers(id))
    <3> DEFINE g == [x \in Buffers(id) |-> x[2].notification]
               h == [b \in used |-> b.start]
    <3>1. IsFiniteSet(used)
      BY <2>1, UsedFinite DEF Listed
    <3>2. h \in Surjection(used, ids)
      BY <2>7 DEF Surjection
    <3> HIDE DEF h
    <3>3. IsFiniteSet(ids)
      BY <3>1, <3>2, FS_Surjection
    <3>4. g \in Injection(Buffers(id), ids) /\ g \in Surjection(Buffers(id), ids)
      BY <2>6 DEF Injection, IsInjective, Surjection
    <3> HIDE DEF g, ids
    <3> QED
      BY <3>3, <3>4, FS_Injection
  <2> QED
    BY <2>4, <2>5, <2>7, <2>8
<1> QED
  BY <1>1, Invariance, PTL
=============================================================================

---------------------------- MODULE LbMainProofs ----------------------------
(***************************************************************************)
(* Proofs about LbMain, for any number of CPUs and any frames, addresses   *)
(* and lookup table.                                                       *)
(*                                                                         *)
(* Ones' complement arithmetic: the checksum makes the words of a header   *)
(* add up to a multiple of 65535, in which case they verify, unless the    *)
(* carry of the fold has been lost; then they add up to one more.          *)
(*                                                                         *)
(* Counters: a total moves by what one CPU's counter moves by (SumMoves).  *)
(* A reading under way adds up values of the CPUs' counters, each between  *)
(* the value when the reading began and the present one (Between).         *)
(***************************************************************************)
EXTENDS LbMain, FiniteSetTheorems, WellFoundedInduction, TLAPS

(* What has been sent is the encapsulation of a frame.                     *)
SentOK == sent = <<>> \/ \E f \in Frames : sent = <<Encapsulated(f)>>
-----------------------------------------------------------------------------
(* Cutting a sum of up to ten words into words, and putting it together.   *)
LEMMA Split ==
  ASSUME NEW n \in Nat, n <= 655350
  PROVE  /\ n % 65536 \in Nat /\ n % 65536 < 65536
         /\ n \div 65536 \in Nat /\ n \div 65536 < 10
         /\ n = 65536 * (n \div 65536) + (n % 65536)
BY SMT

LEMMA FoldOf ==
  ASSUME NEW n \in Nat, NEW q \in Nat, NEW r \in Nat, r < 65536,
         n = 65536 * q + r
  PROVE  Fold(n) = q + r
<1>1. n % 65536 = r
  BY SMT
<1>2. n \div 65536 = q
  BY SMT
<1> QED BY SMT, <1>1, <1>2 DEF Fold

(* n is the sum of the header without its checksum: nine words at most.    *)
LEMMA ChecksumVerifies ==
  ASSUME NEW n \in Nat, n <= 589815
  PROVE  Fold(Fold(n + Not16(Fold(n) % 65536))) = 65535 <=> ~(Fold(n) > 65535)
<1> DEFINE q == n \div 65536
           r == n % 65536
<1>1. q \in Nat /\ q < 10 /\ r \in Nat /\ r < 65536 /\ n = 65536 * q + r
  BY SMT, Split
<1> HIDE DEF q, r
<1>2. Fold(n) = q + r
  BY SMT, <1>1, FoldOf
<1>3. CASE q + r < 65536
  <2>1. (q + r) % 65536 = q + r
    BY SMT, <1>1, <1>3
  <2>2. n + Not16(Fold(n) % 65536) = 65536 * q + (65535 - q)
    BY SMT, <1>1, <1>2, <2>1 DEF Not16
  <2>3. Fold(65536 * q + (65535 - q)) = q + (65535 - q)
    <3>1. 65535 - q \in Nat /\ 65535 - q < 65536 /\ 65536 * q + (65535 - q) \in Nat
      BY SMT, <1>1
    <3> QED BY SMT, <1>1, <3>1, FoldOf
  <2>4. Fold(65535) = 65535
    BY SMT DEF Fold
  <2> QED BY SMT, <1>1, <1>2, <1>3, <2>2, <2>3, <2>4
<1>4. CASE q + r >= 65536
  <2>1. (q + r) % 65536 = q + r - 65536
    BY SMT, <1>1, <1>4
  <2>2. n + Not16(Fold(n) % 65536) = 65536 * (q + 1) + (65535 - q)
    BY SMT, <1>1, <1>2, <2>1 DEF Not16
  <2>3. Fold(65536 * (q + 1) + (65535 - q)) = (q + 1) + (65535 - q)
    <3>1. PICK a \in Nat, b \in Nat : a = q + 1 /\ b = 65535 - q
      BY SMT, <1>1
    <3>2. b < 65536 /\ 65536 * a + b \in Nat
      BY SMT, <1>1, <3>1
    <3>3. Fold(65536 * a + b) = a + b
      BY SMT, <3>2, FoldOf
    <3> QED BY SMT, <3>1, <3>3
  <2>4. Fold(65536) = 1
    BY SMT DEF Fold
  <2> QED BY SMT, <1>1, <1>2, <1>4, <2>2, <2>3, <2>4
<1> QED BY SMT, <1>1, <1>3, <1>4

LEMMA SwappedIsWord ==
  ASSUME NEW w \in Word
  PROVE  Swapped(w) \in Word
BY SMT DEF Swapped, Word

(* The outer header before its checksum is put in.                         *)
LEMMA HeaderWords ==
  ASSUME NEW f \in Frames
  PROVE  \E a, b, c, d, e, g \in Word :
           Header(f) = <<69, a, b, 64, 1088, 0, c, d, e, g>>
<1>1. Swapped(f.totLen + IpLen) \in Word
  BY SMT, FramesAssumption, SwappedIsWord DEF IpLen, Word
<1>2. Not16(f.id) \in Word
  BY SMT, FramesAssumption DEF Not16, Word
<1>3. /\ Entries[0][1] \in Word /\ Entries[0][2] \in Word
      /\ Entries[Destination(f)][1] \in Word /\ Entries[Destination(f)][2] \in Word
  BY FramesAssumption, MapsAssumption DEF Destination
<1> QED BY <1>1, <1>2, <1>3 DEF Header

(* The frame that is sent for f.                                           *)
LEMMA EncapsulationArrives ==
  ASSUME NEW f \in Frames
  PROVE  LET o == Encapsulated(f) IN
           /\ o.frame.len >= EthZlen => InnerLen(o) >= o.frame.totLen
           /\ Verifies(o.header) <=> ~CarriesAgain(o.frame)
<1> DEFINE h == Header(f)
           g == [h EXCEPT ![6] = Checksum(h)]
           l == f.len + IpLen - (IF Shrinks(f) THEN padding(f) ELSE 0)
<1>1. f.len >= EthZlen => l - EthLen - IpLen >= f.totLen
  BY SMT, FramesAssumption DEF Shrinks, padding, EthZlen, EthLen, IpLen
<1>2. /\ SumOf(h) \in Nat /\ SumOf(h) <= 589815
      /\ Checksum(h) \in Nat => SumOf(g) = SumOf(h) + Checksum(h)
  <2>1. PICK a, b, c, d, e, k \in Word : h = <<69, a, b, 64, 1088, 0, c, d, e, k>>
    BY HeaderWords
  <2>2. SumOf(h) = 1221 + a + b + c + d + e + k
    BY SMT, <2>1 DEF SumOf, Word
  <2>3. g = <<69, a, b, 64, 1088, Checksum(h), c, d, e, k>>
    BY SMT, <2>1
  <2>4. Checksum(h) \in Nat => SumOf(g) = 1221 + Checksum(h) + a + b + c + d + e + k
    BY SMT, <2>3 DEF SumOf, Word
  <2> QED BY SMT, <2>2, <2>4 DEF Word
<1>3. Checksum(h) \in Nat
  <2>1. Fold(SumOf(h)) % 65536 \in Nat /\ Fold(SumOf(h)) % 65536 < 65536
    BY SMT, <1>2 DEF Fold
  <2> QED BY SMT, <2>1 DEF Checksum, Not16
<1>4. Verifies(g) <=> ~CarriesAgain(f)
  BY SMT, <1>2, <1>3, ChecksumVerifies DEF Verifies, CarriesAgain, Checksum
<1>5. /\ Encapsulated(f).frame = f
      /\ Encapsulated(f).len = l
      /\ Encapsulated(f).header = g
  BY DEF Encapsulated
<1> HIDE DEF g, h, l
<1>6. f.len >= EthZlen => InnerLen(Encapsulated(f)) >= f.totLen
  BY <1>1, <1>5 DEF InnerLen
<1>7. Verifies(Encapsulated(f).header) <=> ~CarriesAgain(Encapsulated(f).frame)
  BY <1>4, <1>5
<1> QED BY <1>5, <1>6, <1>7

(* Frames that came over a wire are sent on whole; and the destination     *)
(* accepts the outer header exactly if no second carry has been lost.      *)
THEOREM SentFramesArrive == Spec => []SentArrives
<1>1. Init => SentOK
  BY DEF Init, SentOK
<1>2. SentOK /\ [Next]_vars => SentOK'
  <2> SUFFICES ASSUME SentOK, [Next]_vars PROVE SentOK'
    OBVIOUS
  <2>1. ASSUME NEW c \in 1..Cpus, NEW f \in Frames, Send(c, f) PROVE SentOK'
    BY <2>1 DEF Send, SentOK
  <2>2. CASE UNCHANGED sent
    BY <2>2 DEF SentOK
  <2>3. UNCHANGED sent \/ \E c \in 1..Cpus, f \in Frames : Send(c, f)
    BY DEF Next, vars, Pass, AdjustHeadFails, AdjustTailFails, Drop, StartReading, ReadCpu
  <2> QED BY <2>1, <2>2, <2>3
<1>3. SentOK => SentArrives
  BY EncapsulationArrives DEF SentOK, SentArrives
<1> QED BY <1>1, <1>2, <1>3, PTL DEF Spec
-----------------------------------------------------------------------------
(* Sums over the CPUs, as MapThenSumSet computes them: g[s] is the sum of  *)
(* f over the set s.                                                       *)
All == 1..Cpus
First(s) == CHOOSE c \in s : TRUE
Unfolds(g, f) ==
  \A s \in SUBSET All : g[s] = IF s = {} THEN 0 ELSE f[First(s)] + g[s \ {First(s)}]
SumIs(f, v) == \E g : Unfolds(g, f) /\ v = g[All]

LEMMA LeastExists ==
  ASSUME NEW S, S \subseteq Nat, S # {}
  PROVE  \E x \in S : \A y \in S : x <= y
<1> DEFINE Less == OpToRel(<, Nat)
<1>1. IsWellFoundedOn(Less, Nat)
  BY NatLessThanWellFounded
<1> HIDE DEF Less
<1>2. PICK x \in S : \A y \in S : ~(<<y, x>> \in Less)
  BY <1>1, WFMin
<1>3. \A y \in S : ~(y < x)
  BY <1>2 DEF Less, OpToRel
<1> QED BY <1>3

(* Sets of CPUs are finite, and the First of one is in it.                 *)
LEMMA CpuSets ==
  ASSUME NEW s \in SUBSET All
  PROVE  /\ IsFiniteSet(s) /\ Cardinality(s) \in Nat
         /\ Cardinality(s) = 0 <=> s = {}
         /\ s # {} => /\ First(s) \in s
                      /\ s \ {First(s)} \in SUBSET All
                      /\ Cardinality(s \ {First(s)}) = Cardinality(s) - 1
<1>1. IsFiniteSet(All)
  BY FS_Interval, SizesAssumption DEF All
<1>2. IsFiniteSet(s)
  BY <1>1, FS_Subset
<1>3. Cardinality(s) \in Nat /\ (Cardinality(s) = 0 <=> s = {})
  BY <1>2, FS_CardinalityType, FS_EmptySet
<1>4. s # {} => First(s) \in s
  BY DEF First
<1>5. s # {} => Cardinality(s \ {First(s)}) = Cardinality(s) - 1
  BY <1>2, <1>4, FS_RemoveElement
<1> QED BY <1>2, <1>3, <1>4, <1>5

(* Induction on a set of CPUs, as there is no smallest counterexample.     *)
LEMMA NoCounterexample ==
  ASSUME NEW B \in SUBSET (SUBSET All), {} \notin B,
         \A s \in B : s # {} => s \ {First(s)} \in B
  PROVE  B = {}
<1> SUFFICES ASSUME B # {} PROVE FALSE
  OBVIOUS
<1> DEFINE C == {Cardinality(s) : s \in B}
<1>1. C \subseteq Nat /\ C # {}
  <2>1. \A s \in B : s \in SUBSET All OBVIOUS
  <2>2. \A s \in B : Cardinality(s) \in Nat BY <2>1, CpuSets
  <2> QED BY <2>2
<1>2. PICK m \in C : \A k \in C : m <= k
  BY <1>1, LeastExists
<1>3. PICK s \in B : m = Cardinality(s)
  BY <1>2
<1>4. s # {} /\ s \in SUBSET All
  BY <1>3
<1>5. Cardinality(s \ {First(s)}) \in C
  BY <1>4
<1>6. Cardinality(s \ {First(s)}) = m - 1 /\ m \in Nat
  BY <1>3, <1>4, CpuSets
<1> QED BY <1>2, <1>5, <1>6

(* There is a function like that: each cardinality adds to it.             *)
LEMMA SumFunctionExists ==
  ASSUME NEW f
  PROVE  \E g : g = [s \in SUBSET All |->
                       IF s = {} THEN 0 ELSE f[First(s)] + g[s \ {First(s)}]]
<1> DEFINE Upto(g, n) ==
             \A s \in SUBSET All : Cardinality(s) <= n =>
               g[s] = IF s = {} THEN 0 ELSE f[First(s)] + g[s \ {First(s)}]
           Bad == {n \in Nat : ~\E g : Upto(g, n)}
<1>1. Bad = {}
  <2> SUFFICES ASSUME Bad # {} PROVE FALSE
    OBVIOUS
  <2>1. PICK n \in Bad : \A k \in Bad : n <= k
    <3>1. Bad \subseteq Nat OBVIOUS
    <3> HIDE DEF Bad
    <3> QED BY <3>1, LeastExists
  <2>2. n \in Nat /\ ~\E g : Upto(g, n)
    BY <2>1
  <2>3. CASE n = 0
    <3> DEFINE g == [s \in SUBSET All |-> 0]
    <3>1. Upto(g, 0)
      <4> SUFFICES ASSUME NEW s \in SUBSET All, Cardinality(s) <= 0 PROVE s = {}
        OBVIOUS
      <4>1. Cardinality(s) \in Nat /\ (Cardinality(s) = 0 <=> s = {}) BY CpuSets
      <4> QED BY <4>1
    <3> QED BY <2>2, <2>3, <3>1
  <2>4. CASE n # 0
    <3>1. n - 1 \in Nat /\ n - 1 \notin Bad
      <4>1. n - 1 \in Nat /\ ~(n <= n - 1) BY <2>2, <2>4
      <4> HIDE DEF Bad
      <4> QED BY <2>1, <4>1
    <3>2. PICK h : Upto(h, n - 1)
      BY <3>1
    <3> DEFINE g == [s \in SUBSET All |-> IF Cardinality(s) = n
                       THEN f[First(s)] + h[s \ {First(s)}] ELSE h[s]]
    <3>3. ASSUME NEW s \in SUBSET All, Cardinality(s) <= n
          PROVE  g[s] = IF s = {} THEN 0 ELSE f[First(s)] + g[s \ {First(s)}]
      <4>1. CASE s = {}
        <5>1. Cardinality(s) = 0 BY <4>1, CpuSets
        <5>2. g[s] = h[s] BY <2>4, <5>1
        <5>3. Cardinality(s) <= n - 1 BY <3>1, <5>1
        <5> QED BY <3>2, <4>1, <5>2, <5>3
      <4>2. CASE s # {}
        <5> DEFINE r == s \ {First(s)}
        <5>1. r \in SUBSET All /\ Cardinality(r) = Cardinality(s) - 1 /\ Cardinality(s) \in Nat
          BY <4>2, CpuSets
        <5> HIDE DEF r
        <5>2. g[r] = h[r] BY <2>2, <3>3, <5>1
        <5>3. CASE Cardinality(s) = n
          <6>1. g[s] = f[First(s)] + h[r] BY <5>3 DEF r
          <6> QED BY <4>2, <5>2, <6>1 DEF r
        <5>4. CASE Cardinality(s) # n
          <6>1. g[s] = h[s] BY <5>4
          <6>2. Cardinality(s) <= n - 1 BY <2>2, <3>3, <5>1, <5>4
          <6>3. h[s] = f[First(s)] + h[r] BY <3>2, <4>2, <6>2 DEF r
          <6> QED BY <4>2, <5>2, <6>1, <6>3 DEF r
        <5> QED BY <5>3, <5>4
      <4> QED BY <4>1, <4>2
    <3>4. Upto(g, n)
      BY <3>3
    <3> QED BY <2>2, <3>4
  <2> QED BY <2>3, <2>4
<1>2. IsFiniteSet(All) /\ Cardinality(All) \in Nat
  BY CpuSets
<1>3. PICK h : Upto(h, Cardinality(All))
  BY <1>1, <1>2
<1>4. \A s \in SUBSET All : Cardinality(s) <= Cardinality(All)
  BY <1>2, FS_Subset
<1> DEFINE g == [s \in SUBSET All |-> h[s]]
<1>5. ASSUME NEW s \in SUBSET All
      PROVE  h[s] = IF s = {} THEN 0 ELSE f[First(s)] + g[s \ {First(s)}]
  <2>1. s \ {First(s)} \in SUBSET All
    OBVIOUS
  <2> QED BY <1>3, <1>4, <2>1
<1>6. g = [s \in SUBSET All |-> IF s = {} THEN 0 ELSE f[First(s)] + g[s \ {First(s)}]]
  BY <1>5
<1> QED BY <1>6

LEMMA SumExists ==
  ASSUME NEW f
  PROVE  \E v : SumIs(f, v)
<1>1. PICK g : g = [s \in SUBSET All |->
                      IF s = {} THEN 0 ELSE f[First(s)] + g[s \ {First(s)}]]
  BY SumFunctionExists
<1>2. Unfolds(g, f)
  BY <1>1 DEF Unfolds
<1> QED BY <1>2 DEF SumIs

LEMMA SumStep ==
  ASSUME NEW g, NEW f, Unfolds(g, f), NEW s \in SUBSET All
  PROVE  /\ s = {} => g[s] = 0
         /\ s # {} => /\ First(s) \in All /\ s \ {First(s)} \in SUBSET All
                      /\ g[s] = f[First(s)] + g[s \ {First(s)}]
<1>1. s # {} => First(s) \in s
  BY CpuSets
<1> QED BY <1>1 DEF Unfolds

LEMMA SumType ==
  ASSUME NEW f, \A c \in All : f[c] \in Nat, NEW g, Unfolds(g, f)
  PROVE  \A s \in SUBSET All : g[s] \in Nat
<1> DEFINE B == {s \in SUBSET All : g[s] \notin Nat}
<1>1. {} \notin B
  <2>1. g[{}] = 0 BY DEF Unfolds
  <2> QED BY <2>1
<1>2. ASSUME NEW s \in B, s # {} PROVE s \ {First(s)} \in B
  <2> DEFINE r == s \ {First(s)}
  <2>1. s \in SUBSET All /\ g[s] \notin Nat BY <1>2
  <2>2. First(s) \in All /\ r \in SUBSET All /\ g[s] = f[First(s)] + g[r]
    BY <1>2, <2>1, SumStep
  <2> QED BY <2>1, <2>2
<1>3. B \in SUBSET (SUBSET All)
  OBVIOUS
<1> HIDE DEF B
<1>4. B = {}
  BY <1>1, <1>2, <1>3, NoCounterexample
<1> QED BY <1>4 DEF B

(* What one CPU adds, the sum gains.                                       *)
LEMMA SumMoves ==
  ASSUME NEW f, \A c \in All : f[c] \in Nat, NEW v, SumIs(f, v),
         NEW e, NEW w, SumIs(e, w), NEW d \in Nat, NEW c \in All,
         e[c] = f[c] + d, \A o \in All \ {c} : e[o] = f[o]
  PROVE  v \in Nat /\ w = v + d
<1>1. PICK g : Unfolds(g, f) /\ v = g[All] BY DEF SumIs
<1>2. PICK h : Unfolds(h, e) /\ w = h[All] BY DEF SumIs
<1>3. \A s \in SUBSET All : g[s] \in Nat
  BY <1>1, SumType
<1> DEFINE B == {s \in SUBSET All : h[s] # g[s] + IF c \in s THEN d ELSE 0}
<1>4. {} \notin B
  <2>1. g[{}] = 0 /\ h[{}] = 0 BY <1>1, <1>2 DEF Unfolds
  <2> QED BY <2>1
<1>5. ASSUME NEW s \in B, s # {} PROVE s \ {First(s)} \in B
  <2> SUFFICES ASSUME s \ {First(s)} \notin B PROVE FALSE
    OBVIOUS
  <2> DEFINE r == s \ {First(s)}
             x == First(s)
  <2>1. s \in SUBSET All /\ h[s] # g[s] + IF c \in s THEN d ELSE 0
    BY <1>5
  <2>2. /\ x \in All /\ r \in SUBSET All
        /\ g[s] = f[x] + g[r] /\ h[s] = e[x] + h[r]
    BY <1>1, <1>2, <1>5, <2>1, SumStep
  <2>3. h[r] = g[r] + IF c \in r THEN d ELSE 0
    BY <2>2
  <2>4. x \in s /\ (c \in r <=> c \in s /\ c # x)
    BY <1>5, <2>1, CpuSets
  <2> HIDE DEF r, x, B
  <2>5. f[x] \in Nat /\ g[r] \in Nat /\ e[x] = f[x] + IF c = x THEN d ELSE 0
    BY <1>3, <2>2
  <2> QED BY <2>1, <2>2, <2>3, <2>4, <2>5
<1>6. B \in SUBSET (SUBSET All)
  OBVIOUS
<1> HIDE DEF B
<1>7. B = {}
  BY <1>4, <1>5, <1>6, NoCounterexample
<1>8. h[All] = g[All] + IF c \in All THEN d ELSE 0
  BY <1>7 DEF B
<1> QED BY <1>1, <1>2, <1>3, <1>8

LEMMA SumMonotone ==
  ASSUME NEW f, NEW e, \A c \in All : f[c] \in Nat /\ e[c] \in Nat /\ f[c] <= e[c],
         NEW v, SumIs(f, v), NEW w, SumIs(e, w)
  PROVE  v \in Nat /\ w \in Nat /\ v <= w
<1>1. PICK g : Unfolds(g, f) /\ v = g[All] BY DEF SumIs
<1>2. PICK h : Unfolds(h, e) /\ w = h[All] BY DEF SumIs
<1>3. \A s \in SUBSET All : g[s] \in Nat /\ h[s] \in Nat
  BY <1>1, <1>2, SumType
<1> DEFINE B == {s \in SUBSET All : ~(g[s] <= h[s])}
<1>4. {} \notin B
  <2>1. g[{}] = 0 /\ h[{}] = 0 BY <1>1, <1>2 DEF Unfolds
  <2> QED BY <2>1
<1>5. ASSUME NEW s \in B, s # {} PROVE s \ {First(s)} \in B
  <2> SUFFICES ASSUME s \ {First(s)} \notin B PROVE FALSE
    OBVIOUS
  <2> DEFINE r == s \ {First(s)}
             x == First(s)
  <2>1. s \in SUBSET All /\ ~(g[s] <= h[s])
    BY <1>5
  <2>2. /\ x \in All /\ r \in SUBSET All
        /\ g[s] = f[x] + g[r] /\ h[s] = e[x] + h[r]
    BY <1>1, <1>2, <1>5, <2>1, SumStep
  <2>3. g[r] <= h[r]
    BY <2>2
  <2> HIDE DEF r, x, B
  <2>4. f[x] \in Nat /\ e[x] \in Nat /\ f[x] <= e[x] /\ g[r] \in Nat /\ h[r] \in Nat
    BY <1>3, <2>2
  <2> QED BY <2>1, <2>2, <2>3, <2>4
<1>6. B \in SUBSET (SUBSET All)
  OBVIOUS
<1> HIDE DEF B
<1>7. B = {}
  BY <1>4, <1>5, <1>6, NoCounterexample
<1>8. g[All] <= h[All]
  BY <1>7 DEF B
<1> QED BY <1>1, <1>2, <1>3, <1>8

LEMMA SumOfZeros ==
  ASSUME NEW f, \A c \in All : f[c] = 0, NEW v, SumIs(f, v)
  PROVE  v = 0
<1>1. PICK g : Unfolds(g, f) /\ v = g[All] BY DEF SumIs
<1> DEFINE B == {s \in SUBSET All : g[s] # 0}
<1>2. {} \notin B
  <2>1. g[{}] = 0 BY <1>1 DEF Unfolds
  <2> QED BY <2>1
<1>3. ASSUME NEW s \in B, s # {} PROVE s \ {First(s)} \in B
  <2> DEFINE r == s \ {First(s)}
  <2>1. s \in SUBSET All /\ g[s] # 0 BY <1>3
  <2>2. First(s) \in All /\ r \in SUBSET All /\ g[s] = f[First(s)] + g[r]
    BY <1>1, <1>3, <2>1, SumStep
  <2>3. f[First(s)] = 0 BY <2>2
  <2>4. g[r] = 0 => g[s] = 0 BY <2>2, <2>3
  <2> QED BY <2>1, <2>2, <2>4
<1>4. B \in SUBSET (SUBSET All)
  OBVIOUS
<1> HIDE DEF B
<1>5. B = {}
  BY <1>2, <1>3, <1>4, NoCounterexample
<1> QED BY <1>1, <1>5 DEF B

(* Total is the sum over the CPUs.                                         *)
Column(cs, x) == [c \in All |-> cs[c][x]]

TotalsAreSums == \A x \in Counters : SumIs(Column(counters, x), Total(x))

LEMMA TotalIsSum == TotalsAreSums
<1> SUFFICES ASSUME NEW x \in Counters
             PROVE  SumIs(Column(counters, x), Total(x))
  BY DEF TotalsAreSums
<1> DEFINE Iter(g) == g = [s \in SUBSET All |->
                             IF s = {} THEN 0
                             ELSE LET y == CHOOSE c \in s : TRUE
                                  IN  counters[y][x] + g[s \ {y}]]
           f == Column(counters, x)
<1>1. \A s \in SUBSET All : s # {} => f[First(s)] = counters[First(s)][x]
  BY CpuSets DEF Column
<1>2. \E g : Iter(g)
  <2>1. PICK g : g = [s \in SUBSET All |->
                        IF s = {} THEN 0 ELSE f[First(s)] + g[s \ {First(s)}]]
    BY SumFunctionExists
  <2>2. g = [s \in SUBSET All |->
               IF s = {} THEN 0 ELSE counters[First(s)][x] + g[s \ {First(s)}]]
    BY <1>1, <2>1
  <2>3. Iter(g) BY <2>2 DEF First
  <2> QED BY <2>3
<1> DEFINE it == CHOOSE g : Iter(g)
<1>3. Iter(it)
  BY <1>2
<1>4. Total(x) = it[All]
  BY DEF Total, MapThenSumSet, MapThenFoldSet, All
<1> HIDE DEF it
<1>5. Unfolds(it, f)
  BY <1>1, <1>3 DEF Unfolds, First
<1> QED BY <1>4, <1>5 DEF SumIs
-----------------------------------------------------------------------------
TypeOK ==
  /\ counters \in [All -> [Counters -> Nat]]
  /\ verdicts \in [passed : Nat, dropped : Nat, sent : Nat]
  /\ reading \in 0..Cpus

(* A reading under way: lo is what the CPUs had counted when it began, rd  *)
(* what has been read of them since, and sum is made of the latter.        *)
Between(cs, k, fl, sm, x) ==
  \E lo, rd \in [All -> Nat] :
    /\ SumIs(lo, fl[x]) /\ SumIs(rd, sm[x])
    /\ \A c \in All : /\ lo[c] <= cs[c][x]
                      /\ c < k => lo[c] <= rd[c] /\ rd[c] <= cs[c][x]
                      /\ c >= k => rd[c] = 0

Reading == reading # 0 => \A x \in Counters : Between(counters, reading, floor, sum, x)

IInv == TypeOK /\ CountersAccount /\ Reading

(* A frame adds to the counters of its CPU, and so to the totals.          *)
LEMMA TotalsMove ==
  ASSUME TypeOK, TypeOK', NEW c \in 1..Cpus, NEW d \in [Counters -> Nat],
         counters' = [counters EXCEPT ![c] = Plus(@, d)]
  PROVE  \A x \in Counters : Total(x) \in Nat /\ Total(x)' = Total(x) + d[x]
<1> TAKE x \in Counters
<1> DEFINE f == Column(counters, x)
           e == Column(counters', x)
<1>1. SumIs(f, Total(x))
  BY TotalIsSum DEF TotalsAreSums
<1>2. SumIs(e, Total(x)')
  <2>1. TotalsAreSums'
    BY TotalIsSum, PTL
  <2> QED BY <2>1 DEF TotalsAreSums
<1>3. c \in All /\ counters \in [All -> [Counters -> Nat]]
  BY DEF All, TypeOK
<1>4. \A o \in All : f[o] = counters[o][x] /\ e[o] = counters'[o][x] /\ f[o] \in Nat
  BY <1>3 DEF Column
<1>5. e[c] = f[c] + d[x] /\ \A o \in All \ {c} : e[o] = f[o]
  BY <1>3, <1>4 DEF Plus
<1> DEFINE v == Total(x)
           w == Total(x)'
<1>6. d[x] \in Nat /\ SumIs(f, v) /\ SumIs(e, w)
  BY <1>1, <1>2
<1> HIDE DEF f, e, v, w
<1>7. v \in Nat /\ w = v + d[x]
  BY <1>3, <1>4, <1>5, <1>6, SumMoves
<1> QED BY <1>7 DEF v, w

(* A frame is in one of the six classes, and its size counts if it is in   *)
(* the first.                                                              *)
LEMMA CountedIs ==
  ASSUME NEW f \in Frames
  PROVE  LET d == Counted(f) IN
           /\ d \in [Counters -> Nat]
           /\ d["rx_packet_total"] + d["too_short_packet_total"]
                + d["non_ipv4_packet_total"] + d["ip_option_packet_total"]
                + d["no_vip_match_total"] + d["non_supported_proto_packet_total"] = 1
           /\ d["failed_adjust_head_total"] = 0 /\ d["failed_adjust_tail_total"] = 0
           /\ Ours(f) => d["rx_packet_total"] = 1 /\ d["rx_total_size"] >= 54
           /\ ~Ours(f) => d["rx_packet_total"] = 0 /\ d["rx_total_size"] = 0
<1>1. f.len \in Nat
  BY FramesAssumption
<1>2. Class(f) \in {"rx_packet_total", "too_short_packet_total",
                    "non_ipv4_packet_total", "ip_option_packet_total",
                    "no_vip_match_total", "non_supported_proto_packet_total"}
  BY DEF Class
<1>3. Ours(f) => f.len >= 54
  BY <1>1 DEF Ours, Class, EthLen, IpLen, TcpLen
<1>4. Ours(f) <=> Class(f) = "rx_packet_total"
  BY DEF Ours
<1> QED BY <1>1, <1>2, <1>3, <1>4 DEF Counted, Counters

LEMMA PlusType ==
  ASSUME NEW a \in [Counters -> Nat], NEW b \in [Counters -> Nat]
  PROVE  Plus(a, b) \in [Counters -> Nat]
BY DEF Plus

LEMMA OneType ==
  ASSUME NEW x \in Counters
  PROVE  /\ One(x) \in [Counters -> Nat]
         /\ \A y \in Counters : One(x)[y] = IF y = x THEN 1 ELSE 0
BY DEF One

(* A frame that adds d to the counters of a CPU.                           *)
LEMMA AccountMoves ==
  ASSUME TypeOK, TypeOK', CountersAccount, NEW c \in 1..Cpus, NEW d \in [Counters -> Nat],
         counters' = [counters EXCEPT ![c] = Plus(@, d)],
         d["rx_packet_total"] + d["too_short_packet_total"]
           + d["non_ipv4_packet_total"] + d["ip_option_packet_total"]
           + d["no_vip_match_total"] + d["non_supported_proto_packet_total"] = 1,
         d["rx_total_size"] >= 54 * d["rx_packet_total"],
         Arrived' = Arrived + 1,
         verdicts'.dropped = verdicts.dropped
           + d["failed_adjust_head_total"] + d["failed_adjust_tail_total"],
         verdicts'.sent + verdicts'.dropped
           <= verdicts.sent + verdicts.dropped + d["rx_packet_total"]
  PROVE  CountersAccount'
<1>1. \A x \in Counters : Total(x) \in Nat /\ Total(x)' = Total(x) + d[x] /\ d[x] \in Nat
  BY TotalsMove
<1> DEFINE rx == Total("rx_packet_total")
           sz == Total("rx_total_size")
           short == Total("too_short_packet_total")
           ipv4 == Total("non_ipv4_packet_total")
           opt == Total("ip_option_packet_total")
           vip == Total("no_vip_match_total")
           proto == Total("non_supported_proto_packet_total")
           head == Total("failed_adjust_head_total")
           tail == Total("failed_adjust_tail_total")
<1>2. /\ rx \in Nat /\ rx' = rx + d["rx_packet_total"] /\ d["rx_packet_total"] \in Nat
      /\ sz \in Nat /\ sz' = sz + d["rx_total_size"] /\ d["rx_total_size"] \in Nat
      /\ short \in Nat /\ short' = short + d["too_short_packet_total"]
      /\ d["too_short_packet_total"] \in Nat
      /\ ipv4 \in Nat /\ ipv4' = ipv4 + d["non_ipv4_packet_total"]
      /\ d["non_ipv4_packet_total"] \in Nat
      /\ opt \in Nat /\ opt' = opt + d["ip_option_packet_total"]
      /\ d["ip_option_packet_total"] \in Nat
      /\ vip \in Nat /\ vip' = vip + d["no_vip_match_total"]
      /\ d["no_vip_match_total"] \in Nat
      /\ proto \in Nat /\ proto' = proto + d["non_supported_proto_packet_total"]
      /\ d["non_supported_proto_packet_total"] \in Nat
      /\ head \in Nat /\ head' = head + d["failed_adjust_head_total"]
      /\ d["failed_adjust_head_total"] \in Nat
      /\ tail \in Nat /\ tail' = tail + d["failed_adjust_tail_total"]
      /\ d["failed_adjust_tail_total"] \in Nat
  BY <1>1 DEF Counters
<1>3. /\ Arrived = rx + short + ipv4 + opt + vip + proto
      /\ verdicts.dropped = head + tail
      /\ verdicts.sent + verdicts.dropped <= rx
      /\ sz >= 54 * rx
  BY <1>2 DEF CountersAccount, EthLen, IpLen, TcpLen
<1>4. /\ CountersAccount' <=>
           /\ Arrived' = rx' + short' + ipv4' + opt' + vip' + proto'
           /\ verdicts'.dropped = head' + tail'
           /\ verdicts'.sent + verdicts'.dropped <= rx'
           /\ sz' >= 54 * rx'
  BY <1>2 DEF CountersAccount, EthLen, IpLen, TcpLen
<1>5. /\ verdicts.sent \in Nat /\ verdicts.dropped \in Nat
      /\ verdicts'.sent \in Nat /\ verdicts'.dropped \in Nat
  BY DEF TypeOK
<1> HIDE DEF rx, sz, short, ipv4, opt, vip, proto, head, tail
<1>6. Arrived' = rx' + short' + ipv4' + opt' + vip' + proto'
  <2> DEFINE p == d["rx_packet_total"]
             q == d["too_short_packet_total"]
             r == d["non_ipv4_packet_total"]
             s == d["ip_option_packet_total"]
             t == d["no_vip_match_total"]
             u == d["non_supported_proto_packet_total"]
  <2>1. /\ p \in Nat /\ q \in Nat /\ r \in Nat /\ s \in Nat /\ t \in Nat /\ u \in Nat
        /\ rx' = rx + p /\ short' = short + q /\ ipv4' = ipv4 + r
        /\ opt' = opt + s /\ vip' = vip + t /\ proto' = proto + u
        /\ p + q + r + s + t + u = 1
    BY <1>2
  <2>2. /\ rx \in Nat /\ short \in Nat /\ ipv4 \in Nat /\ opt \in Nat /\ vip \in Nat
        /\ proto \in Nat
    BY <1>2
  <2> HIDE DEF p, q, r, s, t, u
  <2>3. (rx + p) + (short + q) + (ipv4 + r) + (opt + s) + (vip + t) + (proto + u)
          = (rx + short + ipv4 + opt + vip + proto) + 1
    BY <2>1, <2>2
  <2>4. Arrived' = (rx + short + ipv4 + opt + vip + proto) + 1
    BY <1>3
  <2> QED BY <2>1, <2>3, <2>4
<1>7. verdicts'.dropped = head' + tail'
  BY <1>2, <1>3
<1>8. verdicts'.sent + verdicts'.dropped <= rx'
  BY <1>2, <1>3, <1>5
<1>9. sz' >= 54 * rx'
  BY <1>2, <1>3
<1> QED BY <1>4, <1>6, <1>7, <1>8, <1>9

LEMMA ReadingGoesOn ==
  ASSUME TypeOK, Reading, NEW c \in 1..Cpus, NEW d \in [Counters -> Nat],
         counters' = [counters EXCEPT ![c] = Plus(@, d)],
         UNCHANGED <<reading, sum, floor>>
  PROVE  Reading'
<1>1. \A o \in All, x \in Counters :
        /\ counters[o][x] \in Nat /\ counters'[o][x] \in Nat
        /\ counters[o][x] <= counters'[o][x]
  BY DEF TypeOK, All, Plus
<1>2. ASSUME NEW x \in Counters, Between(counters, reading, floor, sum, x)
      PROVE  Between(counters', reading, floor, sum, x)
  <2>1. PICK lo, rd \in [All -> Nat] :
          /\ SumIs(lo, floor[x]) /\ SumIs(rd, sum[x])
          /\ \A o \in All : /\ lo[o] <= counters[o][x]
                            /\ o < reading => lo[o] <= rd[o] /\ rd[o] <= counters[o][x]
                            /\ o >= reading => rd[o] = 0
    BY <1>2 DEF Between
  <2>2. \A o \in All : /\ lo[o] <= counters'[o][x]
                       /\ o < reading => lo[o] <= rd[o] /\ rd[o] <= counters'[o][x]
                       /\ o >= reading => rd[o] = 0
    BY <1>1, <2>1
  <2> QED BY <2>1, <2>2 DEF Between
<1> QED BY <1>2 DEF Reading

LEMMA ArrivedMoves ==
  ASSUME TypeOK
  PROVE  /\ verdicts' = [verdicts EXCEPT !.passed = @ + 1] =>
              /\ verdicts' \in [passed : Nat, dropped : Nat, sent : Nat]
              /\ verdicts'.dropped = verdicts.dropped /\ verdicts'.sent = verdicts.sent
              /\ Arrived' = Arrived + 1
         /\ verdicts' = [verdicts EXCEPT !.sent = @ + 1] =>
              /\ verdicts' \in [passed : Nat, dropped : Nat, sent : Nat]
              /\ verdicts'.dropped = verdicts.dropped /\ verdicts'.sent = verdicts.sent + 1
              /\ Arrived' = Arrived + 1
         /\ verdicts' = [verdicts EXCEPT !.dropped = @ + 1] =>
              /\ verdicts' \in [passed : Nat, dropped : Nat, sent : Nat]
              /\ verdicts'.dropped = verdicts.dropped + 1 /\ verdicts'.sent = verdicts.sent
              /\ Arrived' = Arrived + 1
BY DEF TypeOK, Arrived

LEMMA CountersMoveType ==
  ASSUME TypeOK, NEW c \in 1..Cpus, NEW d \in [Counters -> Nat],
         counters' = [counters EXCEPT ![c] = Plus(@, d)],
         verdicts' \in [passed : Nat, dropped : Nat, sent : Nat], reading' = reading
  PROVE  TypeOK'
<1>1. counters[c] \in [Counters -> Nat] /\ counters \in [All -> [Counters -> Nat]]
  BY DEF TypeOK, All
<1>2. counters' \in [All -> [Counters -> Nat]]
  BY <1>1, PlusType
<1> QED BY <1>2 DEF TypeOK

LEMMA PassKeepsIInv ==
  ASSUME IInv, NEW c \in 1..Cpus, NEW f \in Frames, Pass(c, f)
  PROVE  IInv'
<1> DEFINE d == Counted(f)
<1>1. /\ d \in [Counters -> Nat] /\ counters' = [counters EXCEPT ![c] = Plus(@, d)]
      /\ d["rx_packet_total"] \in Nat
      /\ d["rx_packet_total"] + d["too_short_packet_total"]
           + d["non_ipv4_packet_total"] + d["ip_option_packet_total"]
           + d["no_vip_match_total"] + d["non_supported_proto_packet_total"] = 1
      /\ d["failed_adjust_head_total"] = 0 /\ d["failed_adjust_tail_total"] = 0
      /\ d["rx_total_size"] >= 54 * d["rx_packet_total"]
  BY CountedIs DEF Pass, Counters
<1>2. verdicts' = [verdicts EXCEPT !.passed = @ + 1] /\ UNCHANGED <<reading, sum, floor>>
  BY DEF Pass
<1>3. TypeOK /\ CountersAccount /\ Reading
  BY DEF IInv
<1> HIDE DEF d
<1>4. /\ verdicts' \in [passed : Nat, dropped : Nat, sent : Nat]
      /\ verdicts'.dropped = verdicts.dropped /\ verdicts'.sent = verdicts.sent
      /\ Arrived' = Arrived + 1
  BY <1>2, <1>3, ArrivedMoves
<1>5. TypeOK'
  BY <1>1, <1>2, <1>3, <1>4, CountersMoveType
<1>6. CountersAccount'
  <2>1. verdicts.sent \in Nat /\ verdicts.dropped \in Nat BY <1>3 DEF TypeOK
  <2>2. verdicts'.dropped = verdicts.dropped
          + d["failed_adjust_head_total"] + d["failed_adjust_tail_total"]
    BY <1>1, <1>4, <2>1
  <2>3. verdicts'.sent + verdicts'.dropped
          <= verdicts.sent + verdicts.dropped + d["rx_packet_total"]
    BY <1>1, <1>4, <2>1
  <2> QED BY <1>1, <1>3, <1>4, <1>5, <2>2, <2>3, AccountMoves
<1>7. Reading'
  BY <1>1, <1>2, <1>3, ReadingGoesOn
<1> QED BY <1>5, <1>6, <1>7 DEF IInv

LEMMA SendKeepsIInv ==
  ASSUME IInv, NEW c \in 1..Cpus, NEW f \in Frames, Send(c, f)
  PROVE  IInv'
<1> DEFINE d == Counted(f)
<1>1. /\ d \in [Counters -> Nat] /\ counters' = [counters EXCEPT ![c] = Plus(@, d)]
      /\ d["rx_packet_total"] = 1
      /\ d["rx_packet_total"] + d["too_short_packet_total"]
           + d["non_ipv4_packet_total"] + d["ip_option_packet_total"]
           + d["no_vip_match_total"] + d["non_supported_proto_packet_total"] = 1
      /\ d["failed_adjust_head_total"] = 0 /\ d["failed_adjust_tail_total"] = 0
      /\ d["rx_total_size"] >= 54 * d["rx_packet_total"]
  BY CountedIs DEF Send, Balanced, Counters
<1>2. verdicts' = [verdicts EXCEPT !.sent = @ + 1] /\ UNCHANGED <<reading, sum, floor>>
  BY DEF Send
<1>3. TypeOK /\ CountersAccount /\ Reading
  BY DEF IInv
<1> HIDE DEF d
<1>4. /\ verdicts' \in [passed : Nat, dropped : Nat, sent : Nat]
      /\ verdicts'.dropped = verdicts.dropped /\ verdicts'.sent = verdicts.sent + 1
      /\ Arrived' = Arrived + 1
  BY <1>2, <1>3, ArrivedMoves
<1>5. TypeOK'
  BY <1>1, <1>2, <1>3, <1>4, CountersMoveType
<1>6. CountersAccount'
  <2>1. verdicts.sent \in Nat /\ verdicts.dropped \in Nat BY <1>3 DEF TypeOK
  <2>2. verdicts'.dropped = verdicts.dropped
          + d["failed_adjust_head_total"] + d["failed_adjust_tail_total"]
    BY <1>1, <1>4, <2>1
  <2>3. verdicts'.sent + verdicts'.dropped
          <= verdicts.sent + verdicts.dropped + d["rx_packet_total"]
    BY <1>1, <1>4, <2>1
  <2> QED BY <1>1, <1>3, <1>4, <1>5, <2>2, <2>3, AccountMoves
<1>7. Reading'
  BY <1>1, <1>2, <1>3, ReadingGoesOn
<1> QED BY <1>5, <1>6, <1>7 DEF IInv

LEMMA DropKeepsIInv ==
  ASSUME IInv, NEW c \in 1..Cpus, NEW f \in Frames,
         NEW x \in {"failed_adjust_head_total", "failed_adjust_tail_total"}, Drop(c, f, x)
  PROVE  IInv'
<1> DEFINE e == Counted(f)
           d == Plus(e, One(x))
<1>1. /\ e \in [Counters -> Nat] /\ One(x) \in [Counters -> Nat] /\ d \in [Counters -> Nat]
      /\ \A y \in Counters : d[y] = e[y] + IF y = x THEN 1 ELSE 0
  BY CountedIs, OneType, PlusType DEF Counters, Plus
<1>2. counters' = [counters EXCEPT ![c] = Plus(@, d)]
  <2>1. \A a \in [Counters -> Nat] : Plus(Plus(a, e), One(x)) = Plus(a, d)
    BY <1>1 DEF Plus
  <2>2. counters[c] \in [Counters -> Nat]
    BY DEF IInv, TypeOK, All
  <2> QED BY <2>1, <2>2 DEF Drop
<1>3. /\ e["rx_packet_total"] = 1
      /\ e["rx_packet_total"] + e["too_short_packet_total"]
           + e["non_ipv4_packet_total"] + e["ip_option_packet_total"]
           + e["no_vip_match_total"] + e["non_supported_proto_packet_total"] = 1
      /\ e["failed_adjust_head_total"] = 0 /\ e["failed_adjust_tail_total"] = 0
      /\ e["rx_total_size"] >= 54 * e["rx_packet_total"]
  BY CountedIs DEF Drop, Balanced
<1> HIDE DEF d, e
<1>4. \A y \in Counters \ {"failed_adjust_head_total", "failed_adjust_tail_total"} :
        d[y] = e[y]
  BY <1>1
<1>5. /\ d["rx_packet_total"] = 1
      /\ d["rx_packet_total"] + d["too_short_packet_total"]
           + d["non_ipv4_packet_total"] + d["ip_option_packet_total"]
           + d["no_vip_match_total"] + d["non_supported_proto_packet_total"] = 1
      /\ d["rx_total_size"] >= 54 * d["rx_packet_total"]
  BY <1>3, <1>4 DEF Counters
<1>6. d["failed_adjust_head_total"] + d["failed_adjust_tail_total"] = 1
      /\ d["failed_adjust_head_total"] \in Nat /\ d["failed_adjust_tail_total"] \in Nat
  BY <1>1, <1>3 DEF Counters
<1>7. verdicts' = [verdicts EXCEPT !.dropped = @ + 1] /\ UNCHANGED <<reading, sum, floor>>
  BY DEF Drop
<1>8. TypeOK /\ CountersAccount /\ Reading
  BY DEF IInv
<1>9. /\ verdicts' \in [passed : Nat, dropped : Nat, sent : Nat]
      /\ verdicts'.dropped = verdicts.dropped + 1 /\ verdicts'.sent = verdicts.sent
      /\ Arrived' = Arrived + 1
  BY <1>7, <1>8, ArrivedMoves
<1>10. TypeOK'
  BY <1>1, <1>2, <1>7, <1>8, <1>9, CountersMoveType
<1>11. CountersAccount'
  <2>1. verdicts.sent \in Nat /\ verdicts.dropped \in Nat BY <1>8 DEF TypeOK
  <2>2. verdicts'.dropped = verdicts.dropped
          + d["failed_adjust_head_total"] + d["failed_adjust_tail_total"]
    BY <1>6, <1>9, <2>1
  <2>3. verdicts'.sent + verdicts'.dropped
          <= verdicts.sent + verdicts.dropped + d["rx_packet_total"]
    BY <1>5, <1>9, <2>1
  <2> QED BY <1>1, <1>2, <1>5, <1>8, <1>9, <1>10, <2>2, <2>3, AccountMoves
<1>12. Reading'
  BY <1>1, <1>2, <1>7, <1>8, ReadingGoesOn
<1> QED BY <1>10, <1>11, <1>12 DEF IInv

LEMMA NothingRead ==
  ASSUME NEW lo \in [All -> Nat], NEW rd \in [All -> Nat], NEW cs, NEW fl, NEW sm, NEW x,
         SumIs(lo, fl[x]), SumIs(rd, sm[x]),
         \A c \in All : lo[c] <= cs[c][x], \A c \in All : rd[c] = 0
  PROVE  Between(cs, 1, fl, sm, x)
<1> DEFINE first == 1
<1>1. \A c \in All : ~(c < first)
  BY DEF All
<1> HIDE DEF first
<1>2. Between(cs, first, fl, sm, x)
  BY <1>1 DEF Between
<1> QED BY <1>2 DEF first

LEMMA StartReadingKeepsIInv ==
  ASSUME IInv, StartReading
  PROVE  IInv'
<1>1. /\ counters' = counters /\ verdicts' = verdicts /\ reading' = 1
      /\ sum' = Zero /\ floor' = Totals
  BY DEF StartReading
<1>2. TypeOK'
  BY <1>1, SizesAssumption DEF IInv, TypeOK
<1>3. CountersAccount'
  <2>1. \A x : Total(x)' = Total(x)
    BY <1>1 DEF Total, MapThenSumSet, MapThenFoldSet
  <2>2. Arrived' = Arrived BY <1>1 DEF Arrived
  <2> QED BY <1>1, <2>1, <2>2 DEF IInv, CountersAccount
<1>4. ASSUME NEW x \in Counters
      PROVE  Between(counters', reading', floor', sum', x)
  <2> DEFINE lo == Column(counters, x)
             rd == [c \in All |-> 0]
  <2>1. lo \in [All -> Nat] /\ \A c \in All : lo[c] = counters[c][x] /\ lo[c] <= counters'[c][x]
    BY <1>1 DEF Column, IInv, TypeOK
  <2>2. SumIs(lo, floor'[x])
    BY <1>1, TotalIsSum DEF TotalsAreSums, Totals
  <2>3. SumIs(rd, sum'[x])
    <3>1. PICK v : SumIs(rd, v) BY SumExists
    <3>2. v = 0 BY <3>1, SumOfZeros
    <3> QED BY <1>1, <3>1, <3>2 DEF Zero
  <2>4. rd \in [All -> Nat] /\ \A c \in All : rd[c] = 0 /\ c >= 1
    BY DEF All
  <2> HIDE DEF lo, rd
  <2>5. Between(counters', 1, floor', sum', x)
    BY <2>1, <2>2, <2>3, <2>4, NothingRead
  <2> QED BY <1>1, <2>5
<1> QED BY <1>2, <1>3, <1>4 DEF IInv, Reading

(* The next CPU's counter is added, with what it has counted by now.       *)
LEMMA BetweenGoesOn ==
  ASSUME TypeOK, NEW x \in Counters, reading # 0, ReadCpu,
         Between(counters, reading, floor, sum, x)
  PROVE  Between(counters, reading + 1, floor, sum', x)
<1>1. PICK lo, rd \in [All -> Nat] :
        /\ SumIs(lo, floor[x]) /\ SumIs(rd, sum[x])
        /\ \A c \in All : /\ lo[c] <= counters[c][x]
                          /\ c < reading => lo[c] <= rd[c] /\ rd[c] <= counters[c][x]
                          /\ c >= reading => rd[c] = 0
  BY DEF Between
<1> DEFINE now == counters[reading][x]
           e == [rd EXCEPT ![reading] = now]
<1>2. reading \in All /\ now \in Nat
  BY SizesAssumption DEF TypeOK, All
<1>3. sum'[x] = sum[x] + now
  BY DEF ReadCpu, Add, Plus
<1>4. e \in [All -> Nat] /\ e[reading] = rd[reading] + now
      /\ \A o \in All \ {reading} : e[o] = rd[o]
  BY <1>1, <1>2 DEF All
<1>5. \A c \in All : /\ lo[c] <= counters[c][x]
                     /\ c < reading + 1 => lo[c] <= e[c] /\ e[c] <= counters[c][x]
                     /\ c >= reading + 1 => e[c] = 0
  BY <1>1, <1>2 DEF All
<1> HIDE DEF e, now
<1>6. SumIs(e, sum'[x])
  <2>1. PICK w : SumIs(e, w) BY SumExists
  <2>2. \A c \in All : rd[c] \in Nat BY <1>1
  <2>3. w = sum[x] + now
    BY <1>1, <1>2, <1>4, <2>1, <2>2, SumMoves
  <2> QED BY <1>3, <2>1, <2>3
<1> QED BY <1>1, <1>4, <1>5, <1>6 DEF Between

LEMMA ReadCpuKeepsIInv ==
  ASSUME IInv, ReadCpu
  PROVE  IInv'
<1>1. /\ counters' = counters /\ verdicts' = verdicts /\ floor' = floor
      /\ reading # 0 /\ reading' = IF reading = Cpus THEN 0 ELSE reading + 1
  BY DEF ReadCpu
<1>2. TypeOK'
  BY <1>1, SizesAssumption DEF IInv, TypeOK
<1>3. CountersAccount'
  <2>1. \A x : Total(x)' = Total(x)
    BY <1>1 DEF Total, MapThenSumSet, MapThenFoldSet
  <2>2. Arrived' = Arrived BY <1>1 DEF Arrived
  <2> QED BY <1>1, <2>1, <2>2 DEF IInv, CountersAccount
<1>4. Reading'
  <2>1. \A x \in Counters : Between(counters, reading + 1, floor, sum', x)
    BY <1>1, BetweenGoesOn DEF IInv, Reading
  <2> QED BY <1>1, <2>1 DEF Reading
<1> QED BY <1>2, <1>3, <1>4 DEF IInv

LEMMA InitIInv == Init => IInv
<1> SUFFICES ASSUME Init PROVE IInv
  OBVIOUS
<1>1. counters = [c \in All |-> Zero] /\ Zero \in [Counters -> Nat]
      /\ \A x \in Counters : Zero[x] = 0
  BY DEF Init, All, Zero
<1>2. TypeOK
  BY <1>1, SizesAssumption DEF Init, TypeOK
<1>3. \A x \in Counters : Total(x) = 0
  <2> TAKE x \in Counters
  <2>1. SumIs(Column(counters, x), Total(x))
    BY TotalIsSum DEF TotalsAreSums
  <2>2. \A c \in All : Column(counters, x)[c] = 0
    BY <1>1 DEF Column
  <2> QED BY <2>1, <2>2, SumOfZeros
<1>4. CountersAccount
  <2>1. Arrived = 0 /\ verdicts.dropped = 0 /\ verdicts.sent = 0
    BY DEF Init, Arrived
  <2>2. EthLen + IpLen + TcpLen = 54
    BY DEF EthLen, IpLen, TcpLen
  <2> QED BY <1>3, <2>1, <2>2 DEF CountersAccount, Counters
<1>5. Reading
  BY DEF Init, Reading
<1> QED BY <1>2, <1>4, <1>5 DEF IInv

(* What the counters say of the frames that came, and what a reading has   *)
(* of the counters.                                                        *)
THEOREM Invariance == Spec => []IInv
<1>1. IInv /\ [Next]_vars => IInv'
  <2> SUFFICES ASSUME IInv, [Next]_vars PROVE IInv'
    OBVIOUS
  <2>1. CASE UNCHANGED vars
    <3>1. UNCHANGED <<counters, sent, verdicts, reading, sum, floor>>
      BY <2>1 DEF vars
    <3>2. \A x : Total(x)' = Total(x)
      BY <3>1 DEF Total, MapThenSumSet, MapThenFoldSet
    <3>3. CountersAccount'
      BY <3>1, <3>2 DEF IInv, CountersAccount, Arrived
    <3>4. TypeOK' /\ Reading'
      BY <3>1 DEF IInv, TypeOK, Reading
    <3> QED BY <3>3, <3>4 DEF IInv
  <2>2. ASSUME NEW c \in 1..Cpus, NEW f \in Frames,
               Pass(c, f) \/ Send(c, f) \/ AdjustHeadFails(c, f) \/ AdjustTailFails(c, f)
        PROVE  IInv'
    BY <2>2, PassKeepsIInv, SendKeepsIInv, DropKeepsIInv
       DEF AdjustHeadFails, AdjustTailFails
  <2>3. CASE StartReading
    BY <2>3, StartReadingKeepsIInv
  <2>4. CASE ReadCpu
    BY <2>4, ReadCpuKeepsIInv
  <2> QED BY <2>1, <2>2, <2>3, <2>4 DEF Next
<1> QED BY <1>1, InitIInv, PTL DEF Spec

(* Every frame is counted in one class, on whatever CPU it came, every     *)
(* dropped one has left a trace, and no size is lost: the checks and the   *)
(* counters of lb_main (lb.c), for any number of CPUs.                     *)
THEOREM CountersTell == Spec => []CountersAccount
<1>1. IInv => CountersAccount
  BY DEF IInv
<1> QED BY <1>1, Invariance, PTL

(* A reading made while frames keep coming lies, in every counter, between *)
(* the totals at its begin and at its end (ReadStatCountersAggregate,      *)
(* bindings.go).                                                           *)
THEOREM ReadingsAreBetween == Spec => ReadingIsBetween
<1>1. IInv /\ [Next]_vars =>
        [reading # 0 /\ reading' = 0 =>
           \A x \in Counters : floor[x] <= sum'[x] /\ sum'[x] <= Total(x)]_vars
  <2> SUFFICES ASSUME IInv, Next, reading # 0, reading' = 0, NEW x \in Counters
               PROVE  floor[x] <= sum'[x] /\ sum'[x] <= Total(x)
    OBVIOUS
  <2>1. ReadCpu
    BY DEF Next, Pass, Send, AdjustHeadFails, AdjustTailFails, Drop, StartReading
  <2>2. reading = Cpus
    BY <2>1, SizesAssumption DEF ReadCpu, IInv, TypeOK
  <2>3. Between(counters, Cpus + 1, floor, sum', x)
    BY <2>1, <2>2, BetweenGoesOn DEF IInv, Reading
  <2>4. PICK lo, rd \in [All -> Nat] :
          /\ SumIs(lo, floor[x]) /\ SumIs(rd, sum'[x])
          /\ \A c \in All : lo[c] <= rd[c] /\ rd[c] <= counters[c][x]
    <3>1. \A c \in All : c < Cpus + 1 BY SizesAssumption DEF All
    <3> QED BY <2>3, <3>1 DEF Between
  <2>5. floor[x] <= sum'[x]
    BY <2>4, SumMonotone
  <2>6. sum'[x] <= Total(x)
    <3>1. SumIs(Column(counters, x), Total(x))
      BY TotalIsSum DEF TotalsAreSums
    <3>2. \A c \in All : /\ rd[c] \in Nat /\ Column(counters, x)[c] \in Nat
                         /\ rd[c] <= Column(counters, x)[c]
      BY <2>4 DEF Column, IInv, TypeOK
    <3> HIDE DEF IInv
    <3> QED BY <2>4, <3>1, <3>2, SumMonotone
  <2> QED BY <2>5, <2>6
<1> QED BY <1>1, Invariance, PTL DEF Spec, ReadingIsBetween
=============================================================================

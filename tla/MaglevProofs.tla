---------------------------- MODULE MaglevProofs ----------------------------
(***************************************************************************)
(* Proofs about Maglev, for a table of any size, any number of             *)
(* destinations, any hashes of their addresses and any health reports.     *)
(*                                                                         *)
(* That the finished table is full is a matter of counting: n counts the   *)
(* slots that are filled (Counted).  That it is fair is a matter of turns: *)
(* the live destinations in front of i have had one turn more than those   *)
(* from i on (Level), and every turn ends with a slot, however long the    *)
(* destination had to probe for it.                                        *)
(*                                                                         *)
(* That the table depends on nothing but the hashes and the dead is a      *)
(* matter of order: turn for turn the same destination takes the first     *)
(* slot of its permutation that is left, so two tables filled like that    *)
(* are the same (SameTable), and each is (Orderly).                        *)
(***************************************************************************)
EXTENDS Maglev, FiniteSetTheorems, WellFoundedInduction, TLAPS

(* The counters say what is in the table.                                  *)
Counted ==
  /\ n = Cardinality(Filled)
  /\ \A d \in Dests : share[d] = Cardinality(SlotsOf(d))

OnlyAlive == \A c \in Slots : table[c] \in Alive \cup {Free}

(* Destination d has had its turn in this round.                           *)
Served(d) == d < i \/ (d = i /\ pc = "built")
Level == \E q \in Nat : \A d \in Alive : share[d] = IF Served(d) THEN q + 1 ELSE q

Filling ==
  /\ Counted
  /\ OnlyAlive
  /\ Level
  /\ pc = "fill" => n < M
  /\ pc = "built" => n = M

IInv == TypeOK /\ (pc \in {"fill", "built"} => Filling)
-----------------------------------------------------------------------------
LEMMA SlotsFinite ==
  /\ IsFiniteSet(Slots)
  /\ Cardinality(Slots) = M
<1>1. 0 \in Int /\ M - 1 \in Int /\ Cardinality(Slots) = IF 0 > M - 1 THEN 0 ELSE (M - 1) - 0 + 1
  BY SizesAssumption, FS_Interval DEF Slots
<1>2. IsFiniteSet(Slots)
  BY SizesAssumption, FS_Interval DEF Slots
<1> QED BY <1>1, <1>2, SizesAssumption

(* A set of slots counts from 0 to M, and M only if it has them all.       *)
LEMMA SlotSets ==
  ASSUME NEW S \in SUBSET Slots
  PROVE  /\ IsFiniteSet(S)
         /\ Cardinality(S) \in 0..M
         /\ Cardinality(S) = M => S = Slots
<1>1. IsFiniteSet(S) /\ Cardinality(S) <= M /\ (Cardinality(S) = M => S = Slots)
  BY SlotsFinite, FS_Subset
<1>2. Cardinality(S) \in Nat
  BY <1>1, FS_CardinalityType
<1> QED BY <1>1, <1>2, SizesAssumption

(* Moving along a permutation stays inside the table.                      *)
LEMMA NextOffsetInTable ==
  ASSUME TypeOK, NEW d \in Dests
  PROVE  nextOffset(d) \in Slots
<1>1. offsets[d] \in 0..M - 1 /\ hash[d].skip \in 1..M - 1
  BY DEF TypeOK, Hashes, Slots
<1> QED BY <1>1, SizesAssumption DEF nextOffset, Slots

LEMMA AdvanceType ==
  ASSUME TypeOK, Advance
  PROVE  offsets' \in [Dests -> Slots]
<1>1. i \in Dests
  BY DEF TypeOK
<1> QED BY <1>1, NextOffsetInTable DEF Advance, TypeOK

LEMMA AfterType ==
  ASSUME NEW d \in Dests
  PROVE  After(d) \in Dests
BY SizesAssumption DEF After, Dests

(* The turn goes from i to the next one: everyone in front of that has had *)
(* theirs.                                                                 *)
LEMMA TurnPasses ==
  ASSUME NEW d \in Dests, NEW e \in Dests
  PROVE  IF d = N THEN After(d) = 1 /\ ~(e < 1) /\ (e < d \/ e = d)
                  ELSE After(d) = d + 1 /\ (e < d + 1 <=> e < d \/ e = d)
BY SizesAssumption DEF After, Dests
-----------------------------------------------------------------------------
LEMMA InitKeepsIInv == Init => IInv
<1> SUFFICES ASSUME Init PROVE IInv
  OBVIOUS
<1>1. 1 \in Dests /\ 0 \in Slots /\ 0 \in 0..M /\ M \in Nat
  BY SizesAssumption DEF Dests, Slots
<1>2. EmptyTable \in [Slots -> Dests \cup {Free}]
  BY DEF EmptyTable
<1> QED BY <1>1, <1>2 DEF Init, IInv, TypeOK

LEMMA PopulateKeepsIInv == IInv /\ Populate => IInv'
<1> SUFFICES ASSUME IInv, Populate PROVE IInv'
  OBVIOUS
<1>1. TypeOK /\ 1 \in Dests /\ 0 \in 0..M
  BY SizesAssumption DEF IInv, Dests
<1>2. offsets' \in [Dests -> Slots]
  BY <1>1 DEF Populate, generateOffsetsAndSkips, TypeOK, Hashes
<1>3. table' \in [Slots -> Dests \cup {Free}] /\ \A c \in Slots : table'[c] = Free
  BY DEF Populate, EmptyTable
<1>4. TypeOK'
  BY <1>1, <1>2, <1>3 DEF TypeOK, Populate
<1>5. Counted'
  <2>1. Filled' = {} BY <1>3 DEF Filled
  <2>2. \A d \in Dests : SlotsOf(d)' = {} BY <1>3 DEF SlotsOf, Dests, Free
  <2>3. n' = 0 /\ \A d \in Dests : share'[d] = 0 BY DEF Populate
  <2>4. Cardinality(Filled)' = 0 /\ \A d \in Dests : Cardinality(SlotsOf(d))' = 0
    BY <2>1, <2>2, FS_EmptySet
  <2> QED BY <2>3, <2>4 DEF Counted
<1>6. OnlyAlive'
  BY <1>3 DEF OnlyAlive
<1>7. Level'
  <2>1. \A d \in Dests : ~Served(d)' BY DEF Served, Populate, Dests
  <2>2. \A d \in Dests : share'[d] = 0 BY DEF Populate
  <2>3. \A d \in Alive' : share'[d] = IF Served(d)' THEN 0 + 1 ELSE 0
    BY <2>1, <2>2 DEF Alive
  <2> QED BY <2>3 DEF Level
<1>8. pc' = "fill" /\ n' < M
  BY SizesAssumption DEF Populate
<1> QED BY <1>4, <1>5, <1>6, <1>7, <1>8 DEF IInv, Filling

LEMMA SkipDeadKeepsIInv == IInv /\ SkipDead => IInv'
<1> SUFFICES ASSUME IInv, SkipDead PROVE IInv'
  OBVIOUS
<1>1. TypeOK /\ Filling /\ i \in dead /\ i \in Dests /\ pc = "fill"
  BY DEF IInv, SkipDead, Skipped, TypeOK
<1>2. i' = After(i) /\ i' \in Dests
  BY <1>1, AfterType DEF SkipDead
<1>3. TypeOK'
  BY <1>1, <1>2 DEF TypeOK, SkipDead
<1>4. Counted' /\ OnlyAlive' /\ n' < M /\ pc' = "fill"
  BY <1>1 DEF SkipDead, Filling, Counted, OnlyAlive, Filled, SlotsOf, Alive
<1>5. Level'
  <2>1. PICK q \in Nat : \A d \in Alive : share[d] = IF Served(d) THEN q + 1 ELSE q
    BY <1>1 DEF Filling, Level
  <2>2. ASSUME NEW d \in Alive
        PROVE  share'[d] = IF Served(d)' THEN (IF i = N THEN q + 1 ELSE q) + 1
                                         ELSE IF i = N THEN q + 1 ELSE q
    <3>1. d \in Dests /\ d # i /\ share'[d] = share[d]
      BY <1>1 DEF Alive, SkipDead
    <3>2. Served(d) <=> d < i BY <3>1 DEF Served
    <3>3. Served(d)' <=> d < i' BY <1>4, <3>1 DEF Served
    <3> QED BY <1>1, <1>2, <2>1, <3>1, <3>2, <3>3, TurnPasses
  <2>3. (IF i = N THEN q + 1 ELSE q) \in Nat /\ Alive' = Alive
    BY DEF Alive, SkipDead
  <2> QED BY <2>2, <2>3 DEF Level
<1> QED BY <1>3, <1>4, <1>5 DEF IInv, Filling

LEMMA ProbeTakenKeepsIInv == IInv /\ ProbeTaken => IInv'
<1> SUFFICES ASSUME IInv, ProbeTaken PROVE IInv'
  OBVIOUS
<1>1. TypeOK /\ offsets' \in [Dests -> Slots]
  BY AdvanceType DEF IInv, ProbeTaken
<1>2. TypeOK'
  BY <1>1 DEF TypeOK, ProbeTaken
<1>3. Filling'
  BY DEF IInv, ProbeTaken, Filling, Counted, OnlyAlive, Level, Served, Filled,
         SlotsOf, Alive
<1> QED BY <1>2, <1>3 DEF IInv

LEMMA ProbeFreeKeepsIInv == IInv /\ ProbeFree => IInv'
<1> SUFFICES ASSUME IInv, ProbeFree PROVE IInv'
  OBVIOUS
<1> DEFINE c == offsets[i]
           filled == [table EXCEPT ![c] = i]
<1>1. TypeOK /\ Filling /\ i \in Dests /\ i \in Alive /\ c \in Slots
  BY DEF IInv, ProbeFree, TypeOK, Skipped, Alive
<1>2. /\ table[c] = Free
      /\ table' = filled
      /\ n' = n + 1
      /\ share' = [share EXCEPT ![i] = share[i] + 1]
      /\ turn' = [turn EXCEPT ![c] = n]
      /\ Advance
      /\ hash' = hash /\ dead' = dead
  BY <1>1 DEF ProbeFree, TypeOK, Dests
<1>3. \/ n + 1 = M /\ pc' = "built" /\ i' = i /\ last' = [last EXCEPT ![dead] = filled]
      \/ n + 1 # M /\ pc = "fill" /\ pc' = "fill" /\ i' = After(i) /\ last' = last
  BY DEF ProbeFree, TurnAfter
<1>4. pc = "fill" /\ n \in 0..M /\ n < M
  BY <1>1 DEF ProbeFree, TypeOK, Filling
<1>5. table' \in [Slots -> Dests \cup {Free}]
      /\ \A x \in Slots : table'[x] = IF x = c THEN i ELSE table[x]
  BY <1>1, <1>2 DEF TypeOK
<1>6. Counted'
  <2>1. Filled' = Filled \cup {c} /\ c \notin Filled
    <3>1. i # Free BY <1>1 DEF Dests, Free
    <3> HIDE DEF c
    <3> QED BY <1>1, <1>2, <1>5, <3>1 DEF Filled
  <2>2. Cardinality(Filled)' = Cardinality(Filled) + 1
    <3>1. Filled \in SUBSET Slots BY DEF Filled
    <3> QED BY <2>1, <3>1, SlotSets, FS_AddElement
  <2>3. ASSUME NEW d \in Dests PROVE share'[d] = Cardinality(SlotsOf(d)')
    <3>1. SlotsOf(d) \in SUBSET Slots BY DEF SlotsOf
    <3>2. SlotsOf(d)' = IF d = i THEN SlotsOf(d) \cup {c} ELSE SlotsOf(d)
      <4>1. d # Free BY DEF Dests, Free
      <4>2. SlotsOf(d)' = {x \in Slots : table'[x] = d} BY DEF SlotsOf
      <4> HIDE DEF c
      <4> QED BY <1>1, <1>2, <1>5, <4>1, <4>2 DEF SlotsOf
    <3>3. c \notin SlotsOf(d)
      <4>1. d # Free BY DEF Dests, Free
      <4> QED BY <1>2, <4>1 DEF SlotsOf
    <3>4. share[d] = Cardinality(SlotsOf(d))
      BY <1>1 DEF Filling, Counted
    <3>5. Cardinality(SlotsOf(d) \cup {c}) = Cardinality(SlotsOf(d)) + 1
      BY <3>1, <3>3, SlotSets, FS_AddElement
    <3>6. share'[d] = IF d = i THEN share[d] + 1 ELSE share[d]
      BY <1>1, <1>2 DEF TypeOK
    <3> QED BY <3>2, <3>4, <3>5, <3>6
  <2>4. n' = Cardinality(Filled)'
    BY <1>1, <1>2, <2>2 DEF Filling, Counted
  <2> QED BY <2>3, <2>4 DEF Counted
<1>7. share' \in [Dests -> 0..M]
  <2>1. \A d \in Dests : SlotsOf(d)' \in SUBSET Slots BY DEF SlotsOf
  <2>2. \A d \in Dests : share'[d] \in 0..M
    BY <1>6, <2>1, SlotSets DEF Counted
  <2>3. DOMAIN share' = Dests /\ share' = [d \in Dests |-> share'[d]]
    BY <1>1, <1>2 DEF TypeOK
  <2> QED BY <2>2, <2>3
<1>8. TypeOK'
  <2>1. offsets' \in [Dests -> Slots] BY <1>1, <1>2, AdvanceType
  <2>2. n' \in 0..M /\ turn' \in [Slots -> 0..M]
    BY <1>1, <1>2, <1>4, SizesAssumption DEF TypeOK
  <2>3. i' \in Dests BY <1>1, <1>3, AfterType
  <2>4. last' \in [Reports \cup {{}} -> [Slots -> Dests \cup {Free}]]
    BY <1>1, <1>2, <1>3, <1>5 DEF TypeOK
  <2>5. pc' \in {"idle", "fill", "built"} BY <1>3
  <2> QED BY <1>1, <1>2, <1>5, <1>7, <2>1, <2>2, <2>3, <2>4, <2>5 DEF TypeOK
<1>9. OnlyAlive'
  <2>1. Alive' = Alive BY <1>2 DEF Alive
  <2> QED BY <1>1, <1>5, <2>1 DEF OnlyAlive, Filling
<1>10. Level'
  <2>1. PICK q \in Nat : \A d \in Alive : share[d] = IF Served(d) THEN q + 1 ELSE q
    BY <1>1 DEF Filling, Level
  <2>2. ASSUME NEW d \in Alive
        PROVE  /\ d \in Dests
               /\ share[d] = IF d < i THEN q + 1 ELSE q
               /\ share'[d] = IF d < i \/ d = i THEN q + 1 ELSE q
    <3>1. d \in Dests /\ (Served(d) <=> d < i) BY <1>4 DEF Alive, Served
    <3>2. share[d] = IF d < i THEN q + 1 ELSE q BY <2>1, <3>1
    <3>3. share'[d] = IF d = i THEN share[d] + 1 ELSE share[d]
      BY <1>1, <1>2, <3>1 DEF TypeOK
    <3>4. i \in Int BY <1>1 DEF Dests
    <3> QED BY <3>1, <3>2, <3>3, <3>4
  <2>3. Alive' = Alive BY <1>2 DEF Alive
  <2>4. CASE n + 1 = M
    <3>1. \A d \in Alive : Served(d)' <=> d < i \/ d = i
      BY <1>3, <2>4 DEF Served
    <3> QED BY <2>2, <2>3, <3>1 DEF Level
  <2>5. CASE n + 1 # M
    <3>1. ASSUME NEW d \in Alive
          PROVE  share'[d] = IF Served(d)' THEN (IF i = N THEN q + 1 ELSE q) + 1
                                           ELSE IF i = N THEN q + 1 ELSE q
      <4>1. Served(d)' <=> d < i' BY <1>3, <2>5 DEF Served
      <4> QED BY <1>1, <1>3, <2>2, <2>5, <4>1, TurnPasses
    <3>2. (IF i = N THEN q + 1 ELSE q) \in Nat
      OBVIOUS
    <3> QED BY <2>3, <3>1, <3>2 DEF Level
  <2> QED BY <2>4, <2>5
<1>11. /\ pc' = "fill" => n' < M
       /\ pc' = "built" => n' = M
  BY <1>2, <1>3, <1>4, SizesAssumption
<1> QED BY <1>6, <1>8, <1>9, <1>10, <1>11 DEF IInv, Filling

THEOREM Invariance == Spec => []IInv
<1>1. IInv /\ [Next]_vars => IInv'
  <2> SUFFICES ASSUME IInv, [Next]_vars PROVE IInv'
    OBVIOUS
  <2>1. CASE UNCHANGED vars
    BY <2>1 DEF vars, IInv, TypeOK, Filling, Counted, OnlyAlive, Level, Served,
                Filled, SlotsOf, Alive
  <2>2. CASE \E D \in Reports : HealthChecked(D)
    BY <2>2, ReportsAssumption DEF HealthChecked, IInv, TypeOK
  <2>3. CASE Populate
    BY <2>3, PopulateKeepsIInv
  <2>4. CASE Fill
    BY <2>4, SkipDeadKeepsIInv, ProbeTakenKeepsIInv, ProbeFreeKeepsIInv DEF Fill
  <2> QED BY <2>1, <2>2, <2>3, <2>4 DEF Next
<1> QED BY <1>1, InitKeepsIInv, PTL DEF Spec
-----------------------------------------------------------------------------
(* Every variable keeps its type; no probe ever leaves the table.          *)
THEOREM TypeCorrect == Spec => []TypeOK
<1>1. IInv => TypeOK
  BY DEF IInv
<1> QED BY <1>1, Invariance, PTL

(* A finished table sends no flow to a destination that was dead when it   *)
(* was computed, and leaves none without a destination                     *)
(* (PopulateLookupTable, drv.go lines 124 to 178).                         *)
THEOREM ServesAlive == Spec => []BuiltTableServesAlive
<1>1. IInv => BuiltTableServesAlive
  <2> SUFFICES ASSUME IInv, pc = "built", NEW c \in Slots
               PROVE  table[c] \in Alive
    BY DEF BuiltTableServesAlive
  <2>1. Cardinality(Filled) = M /\ OnlyAlive
    BY DEF IInv, Filling, Counted
  <2>2. Filled = Slots
    BY <2>1, SlotSets DEF Filled
  <2> QED BY <2>1, <2>2 DEF OnlyAlive, Filled
<1> QED BY <1>1, Invariance, PTL

(* At any moment of the fill, and in the finished table, the live          *)
(* destinations' shares differ by one slot at most.                        *)
THEOREM Fair == Spec => []FairShare
<1>1. IInv => FairShare
  <2> SUFFICES ASSUME IInv, pc \in {"fill", "built"}, NEW d \in Alive, NEW e \in Alive
               PROVE  Cardinality(SlotsOf(d)) <= Cardinality(SlotsOf(e)) + 1
    BY DEF FairShare
  <2>1. PICK q \in Nat : \A x \in Alive : share[x] = IF Served(x) THEN q + 1 ELSE q
    BY DEF IInv, Filling, Level
  <2>2. share[d] = Cardinality(SlotsOf(d)) /\ share[e] = Cardinality(SlotsOf(e))
    BY DEF IInv, Filling, Counted, Alive
  <2>3. share[d] <= share[e] + 1
    BY <2>1
  <2> QED BY <2>2, <2>3
<1> QED BY <1>1, Invariance, PTL
-----------------------------------------------------------------------------
(* Euclidean division.                                                     *)
LEMMA Divides ==
  ASSUME NEW a \in Int, NEW m \in Nat, m > 0
  PROVE  /\ a % m \in 0..m - 1 /\ a \div m \in Int
         /\ a = m * (a \div m) + (a % m)
OBVIOUS

LEMMA SmallMultiple ==
  ASSUME NEW m \in Nat, m > 0, NEW x \in Int, -m < m * x, m * x < m
  PROVE  x = 0
<1>1. CASE x >= 1
  <2>1. x - 1 \in Nat BY <1>1
  <2>2. m * (x - 1) >= 0 BY <2>1
  <2>3. m * (x - 1) = m * x - m OBVIOUS
  <2> QED BY <2>2, <2>3
<1>2. CASE x <= -1
  <2>1. -1 - x \in Nat BY <1>2
  <2>2. m * (-1 - x) >= 0 BY <2>1
  <2>3. m * (-1 - x) = -m - m * x OBVIOUS
  <2> QED BY <2>2, <2>3
<1> QED BY <1>1, <1>2

(* The remainder is the only one in its range.                             *)
LEMMA RemainderIs ==
  ASSUME NEW m \in Nat, m > 0, NEW q \in Int, NEW r \in 0..m - 1
  PROVE  (m * q + r) % m = r
<1> DEFINE a == m * q + r
<1>1. a \in Int OBVIOUS
<1>2. /\ a % m \in 0..m - 1 /\ a \div m \in Int
      /\ a = m * (a \div m) + (a % m)
  BY <1>1, Divides
<1> DEFINE p == a \div m
           s == a % m
<1>3. m * q + r = m * p + s /\ p \in Int /\ s \in 0..m - 1
  BY <1>2
<1> HIDE DEF a, p, s
<1>4. m * (q - p) = m * q - m * p BY <1>3
<1>5. m * (q - p) = s - r
  <2>1. m * q \in Int /\ m * p \in Int BY <1>3
  <2> QED BY <1>3, <1>4, <2>1
<1>6. q - p = 0
  BY <1>3, <1>5, SmallMultiple
<1>7. q = p BY <1>3, <1>6
<1>8. s = r BY <1>3, <1>5, <1>7
<1> QED BY <1>8 DEF s, a

(* Going on by s.                                                          *)
LEMMA RemainderMoves ==
  ASSUME NEW a \in Nat, NEW m \in Nat, m > 0, NEW s \in 0..m - 1
  PROVE  (a + s) % m = IF (a % m) + s >= m THEN (a % m) + s - m ELSE (a % m) + s
<1> DEFINE q == a \div m
           r == a % m
<1>1. a = m * q + r /\ q \in Int /\ r \in 0..m - 1
  BY Divides
<1> HIDE DEF q, r
<1>2. CASE r + s >= m
  <2>1. m * (q + 1) = m * q + m BY <1>1
  <2>2. a + s = m * (q + 1) + (r + s - m)
    <3>1. m * q \in Int BY <1>1
    <3> QED BY <1>1, <2>1, <3>1
  <2>3. r + s - m \in 0..m - 1 BY <1>1, <1>2
  <2>4. (m * (q + 1) + (r + s - m)) % m = r + s - m
    <3> DEFINE x == q + 1
               y == r + s - m
    <3>1. x \in Int /\ y \in 0..m - 1 BY <1>1, <2>3
    <3> HIDE DEF x, y
    <3>2. (m * x + y) % m = y BY <3>1, RemainderIs
    <3> QED BY <3>2 DEF x, y
  <2> QED BY <1>2, <2>2, <2>4 DEF r
<1>3. CASE ~(r + s >= m)
  <2>1. a + s = m * q + (r + s)
    <3>1. m * q \in Int BY <1>1
    <3> QED BY <1>1, <3>1
  <2>2. r + s \in 0..m - 1 BY <1>1, <1>3
  <2>3. (m * q + (r + s)) % m = r + s BY <1>1, <2>2, RemainderIs
  <2> QED BY <1>3, <2>1, <2>3 DEF r
<1> QED BY <1>2, <1>3

LEMMA LeastExists ==
  ASSUME NEW S, S \subseteq Nat, S # {}
  PROVE  \E x \in S : \A y \in S : x <= y
<1> DEFINE Less == OpToRel(<, Nat)
<1>1. IsWellFoundedOn(Less, Nat)
  BY NatLessThanWellFounded
<1> HIDE DEF Less
<1>2. PICK x \in S : \A y \in S : ~(<<y, x>> \in Less)
  BY <1>1, WFMin
<1>3. \A y \in S : ~(y < x)
  BY <1>2 DEF Less, OpToRel
<1> QED BY <1>3

(* Two numbers with the same remainder are a multiple of m apart.          *)
LEMMA SameRemainder ==
  ASSUME NEW a \in Int, NEW b \in Int, NEW m \in Nat, m > 0, a % m = b % m
  PROVE  \E z \in Int : b - a = m * z
<1> DEFINE p == a \div m
           q == b \div m
           r == a % m
<1>1. a = m * p + r /\ b = m * q + r /\ p \in Int /\ q \in Int /\ r \in Int
  BY Divides
<1> HIDE DEF p, q, r
<1>2. m * (q - p) = m * q - m * p
  BY <1>1
<1>3. b - a = m * (q - p)
  <2>1. m * q \in Int /\ m * p \in Int BY <1>1
  <2> QED BY <1>1, <1>2, <2>1
<1>4. q - p \in Int BY <1>1
<1> QED BY <1>3, <1>4

(* Euclid's lemma, as far as it is needed: a prime divides no product of   *)
(* two smaller numbers.  Were x the least number that makes one of x * a,  *)
(* x would divide the prime.                                               *)
LEMMA PrimeDividesNoProduct ==
  ASSUME NEW m \in Nat, Prime(m), NEW a \in 1..m - 1, NEW b \in 1..m - 1
  PROVE  ~\E z \in Int : b * a = m * z
<1> SUFFICES ASSUME \E z \in Int : b * a = m * z PROVE FALSE
  OBVIOUS
<1> DEFINE S == {x \in 1..m - 1 : \E z \in Int : x * a = m * z}
<1>1. S \subseteq Nat /\ b \in S
  OBVIOUS
<1>2. PICK x \in S : \A y \in S : x <= y
  BY <1>1, LeastExists
<1>3. x \in 1..m - 1 /\ \E z \in Int : x * a = m * z
  BY <1>2
<1>4. PICK z \in Int : x * a = m * z
  BY <1>3
<1>5. m > 1 /\ \A c, d \in 2..m - 1 : c * d # m
  BY DEF Prime
<1>6. x # 1
  <2> SUFFICES ASSUME x = 1 PROVE FALSE
    OBVIOUS
  <2>1. a = m * z BY <1>4
  <2>2. z = 0 BY <1>5, <2>1, SmallMultiple
  <2> QED BY <2>1, <2>2
<1> DEFINE q == m \div x
           r == m % x
<1>7. r \in 0..x - 1 /\ q \in Int /\ m = x * q + r
  BY <1>3, Divides
<1> HIDE DEF q, r
<1>8. r * a = m * (a - q * z)
  <2>1. x * q \in Int /\ r = m - x * q BY <1>3, <1>7
  <2>2. r * a = m * a - (x * q) * a BY <1>3, <2>1
  <2>3. (x * q) * a = q * (x * a) BY <1>3, <1>7
  <2>4. q * (m * z) = m * (q * z) BY <1>4, <1>7
  <2>5. m * (a - q * z) = m * a - m * (q * z)
    <3>1. q * z \in Int BY <1>7
    <3> QED BY <3>1
  <2> QED BY <1>4, <2>2, <2>3, <2>4, <2>5
<1>9. r = 0
  <2> SUFFICES ASSUME r # 0 PROVE FALSE
    OBVIOUS
  <2>1. r \in 1..m - 1 /\ r < x BY <1>3, <1>7
  <2>2. a - q * z \in Int
    <3>1. q * z \in Int BY <1>7
    <3> QED BY <3>1
  <2>3. r \in S BY <1>8, <2>1, <2>2
  <2>4. x <= r BY <1>2, <2>3
  <2> QED BY <1>3, <2>1, <2>4
<1>10. m = x * q
  <2>1. x * q \in Int BY <1>3, <1>7
  <2> QED BY <1>7, <1>9, <2>1
<1>11. q > 1
  <2> SUFFICES ASSUME q <= 1 PROVE FALSE
    BY <1>7
  <2>1. CASE q = 1 BY <1>3, <1>10, <2>1
  <2>2. CASE q <= 0
    <3>1. -q \in Nat BY <1>7, <2>2
    <3>2. x * (-q) >= 0 BY <1>3, <3>1
    <3>3. x * (-q) = -(x * q) BY <1>3, <1>7
    <3> QED BY <1>5, <1>10, <3>2, <3>3
  <2> QED BY <1>7, <2>1, <2>2
<1>12. q < m
  <2> SUFFICES ASSUME q >= m PROVE FALSE
    BY <1>7
  <2>1. (x - 2) * q >= 0
    <3>1. x - 2 \in Nat /\ q \in Nat BY <1>3, <1>6, <1>11, <1>7
    <3> QED BY <3>1
  <2>2. (x - 2) * q = x * q - 2 * q BY <1>3, <1>7
  <2>3. x * q \in Int BY <1>3, <1>7
  <2>4. m >= 2 * q BY <1>7, <1>10, <2>1, <2>2, <2>3
  <2> QED BY <1>5, <1>7, <2>4
<1>13. x \in 2..m - 1 /\ q \in 2..m - 1
  BY <1>3, <1>6, <1>7, <1>11, <1>12
<1> QED BY <1>5, <1>10, <1>13
-----------------------------------------------------------------------------
(* Why a table depends on nothing but the hashes and the dead.  Given says *)
(* of a table, and the order in which its slots were given away, that the  *)
(* order leaves out no turn, that the live destinations took turns, and    *)
(* that each took the first slot of its permutation that was left.  There  *)
(* is one table at most like that (SameTable): two of them would first     *)
(* differ in some turn, and in that turn the same destination would have   *)
(* found the same slots taken.                                             *)
Pref(h, d, k) == (h[d].offset + k * h[d].skip) % M

(* From p on, e is reached past dead destinations only.                    *)
Reached(D, p, e) ==
  \/ e > p /\ \A x \in Dests : p < x /\ x < e => x \in D
  \/ e <= p /\ \A x \in Dests : p < x \/ x < e => x \in D

Given(h, T, t, D, m) ==
  /\ \A c \in Slots : T[c] # Free => T[c] \in Dests \ D /\ t[c] \in 0..m - 1
  /\ \A u \in 0..m - 1 : \E c \in Slots : T[c] # Free /\ t[c] = u
  /\ \A c, e \in Slots : T[c] # Free /\ T[e] # Free /\ t[c] = t[e] => c = e
  /\ \A c \in Slots : T[c] # Free =>
       \E k \in Nat : /\ c = Pref(h, T[c], k)
                      /\ \A j \in 0..k - 1 : /\ T[Pref(h, T[c], j)] # Free
                                             /\ t[Pref(h, T[c], j)] < t[c]
  /\ \A c \in Slots : T[c] # Free /\ t[c] = 0 => \A x \in Dests : x < T[c] => x \in D
  /\ \A c, e \in Slots : T[c] # Free /\ T[e] # Free /\ t[e] = t[c] + 1 =>
       Reached(D, T[c], T[e])

(* Every destination has walked past slots that are taken.                 *)
Walked(h, T, o) ==
  \A d \in Dests : \E k \in Nat :
    o[d] = Pref(h, d, k) /\ \A j \in 0..k - 1 : T[Pref(h, d, j)] # Free

(* Since the last turn, m - 1, only the dead have been passed over.        *)
Turning(T, t, D, m, x) ==
  /\ m = 0 => \A y \in Dests : y < x => y \in D
  /\ \A c \in Slots : T[c] # Free /\ t[c] = m - 1 => Reached(D, T[c], x)

Complete(T) == \A c \in Slots : T[c] # Free
LastGiven(h, L) ==
  \A D \in Reports \cup {{}} : L[D] # EmptyTable =>
    Complete(L[D]) /\ \E t : Given(h, L[D], t, D, M)

Orderly ==
  /\ pc \in {"fill", "built"} => Given(hash, table, turn, dead, n)
  /\ pc = "fill" => /\ Walked(hash, table, offsets)
                    /\ Turning(table, turn, dead, n, i)
  /\ LastGiven(hash, last)

LEMMA PrefInTable ==
  ASSUME NEW h \in [Dests -> Hashes], NEW d \in Dests, NEW k \in Nat
  PROVE  Pref(h, d, k) \in Slots
<1> DEFINE a == h[d].offset
           s == h[d].skip
<1>1. a \in Nat /\ s \in Nat
  BY SizesAssumption DEF Hashes, Slots
<1> HIDE DEF a, s
<1>2. k * s \in Nat /\ a + k * s \in Int BY <1>1
<1> DEFINE b == a + k * s
<1>3. b \in Int BY <1>2
<1> HIDE DEF b
<1>4. b % M \in 0..M - 1 BY <1>3, Divides, SizesAssumption
<1> QED BY <1>4 DEF a, s, b, Pref, Slots

LEMMA PrefStarts ==
  ASSUME NEW h \in [Dests -> Hashes], NEW d \in Dests
  PROVE  Pref(h, d, 0) = h[d].offset
<1> DEFINE a == h[d].offset
           s == h[d].skip
<1>1. a \in 0..M - 1 /\ s \in Nat
  BY SizesAssumption DEF Hashes, Slots
<1> HIDE DEF a, s
<1>2. (M * 0 + a) % M = a
  BY <1>1, RemainderIs, SizesAssumption
<1>3. M * 0 + a = a + 0 * s
  BY <1>1, SizesAssumption
<1> QED BY <1>2, <1>3 DEF a, s, Pref

LEMMA PrefGoesOn ==
  ASSUME NEW h \in [Dests -> Hashes], NEW d \in Dests, NEW k \in Nat
  PROVE  LET o == Pref(h, d, k) + h[d].skip
         IN  Pref(h, d, k + 1) = IF o >= M THEN o - M ELSE o
<1> DEFINE a == h[d].offset
           s == h[d].skip
<1>1. a \in Nat /\ s \in 0..M - 1
  BY SizesAssumption DEF Hashes, Slots
<1> HIDE DEF a, s
<1> DEFINE b == a + k * s
<1>2. b \in Nat
  <2>1. k * s \in Nat BY <1>1
  <2> QED BY <1>1, <2>1
<1>3. a + (k + 1) * s = b + s
  <2>1. (k + 1) * s = k * s + s BY <1>1
  <2>2. k * s \in Nat BY <1>1
  <2> QED BY <1>1, <2>1, <2>2
<1> HIDE DEF b
<1>4. (b + s) % M = IF (b % M) + s >= M THEN (b % M) + s - M ELSE (b % M) + s
  <2>1. M \in Nat /\ M > 0 BY SizesAssumption
  <2>2. \A m \in Nat, r \in 0..M - 1 :
          m = M => (b + r) % m = IF (b % m) + r >= m THEN (b % m) + r - m ELSE (b % m) + r
    BY <1>2, <2>1, RemainderMoves
  <2> QED BY <1>1, <2>1, <2>2
<1>5. Pref(h, d, k) = b % M /\ Pref(h, d, k + 1) = (b + s) % M /\ h[d].skip = s
  BY <1>3 DEF Pref, a, s, b
<1> DEFINE r == b % M
           x == (b + s) % M
<1>6. x = IF r + s >= M THEN r + s - M ELSE r + s
  BY <1>4
<1>7. Pref(h, d, k) = r /\ Pref(h, d, k + 1) = x
  BY <1>5
<1>8. r \in Int /\ M \in Int
  BY <1>2, SizesAssumption
<1> HIDE DEF r, x
<1> QED BY <1>1, <1>5, <1>6, <1>7, <1>8

(* With a prime M, a destination's permutation has every slot once.        *)
LEMMA PrefIsInjective ==
  ASSUME Prime(M), NEW h \in [Dests -> Hashes], NEW d \in Dests,
         NEW j \in Slots, NEW k \in Slots, j < k
  PROVE  Pref(h, d, j) # Pref(h, d, k)
<1> SUFFICES ASSUME Pref(h, d, j) = Pref(h, d, k) PROVE FALSE
  OBVIOUS
<1> DEFINE a == h[d].offset
           s == h[d].skip
<1>1. a \in Nat /\ s \in 1..M - 1
  BY SizesAssumption DEF Hashes, Slots
<1>2. (a + j * s) % M = (a + k * s) % M
  BY DEF Pref
<1> HIDE DEF a, s
<1>3. j \in Nat /\ k \in Nat /\ k - j \in 1..M - 1
  BY SizesAssumption DEF Slots
<1>4. j * s \in Int /\ k * s \in Int
  BY <1>1, <1>3
<1> DEFINE x == a + j * s
           y == a + k * s
<1>5. x \in Int /\ y \in Int /\ x % M = y % M
  BY <1>1, <1>2, <1>4
<1>6. y - x = (k - j) * s
  <2>1. (k - j) * s = k * s - j * s BY <1>1, <1>3
  <2> QED BY <1>1, <1>4, <2>1
<1> HIDE DEF x, y
<1>7. PICK z \in Int : y - x = M * z
  BY <1>5, SameRemainder, SizesAssumption
<1> DEFINE b == k - j
<1>8. b \in 1..M - 1 /\ b * s = M * z
  BY <1>3, <1>6, <1>7
<1> HIDE DEF b
<1> QED BY <1>1, <1>7, <1>8, PrimeDividesNoProduct, SizesAssumption

LEMMA ReachedIsOne ==
  ASSUME NEW D, NEW p \in Dests, NEW d \in Dests \ D, NEW e \in Dests \ D,
         Reached(D, p, d), Reached(D, p, e)
  PROVE  d = e
BY DEF Reached, Dests

LEMMA SameTable ==
  ASSUME NEW h, NEW D,
         NEW T \in [Slots -> Dests \cup {Free}], NEW t, Complete(T), Given(h, T, t, D, M),
         NEW U \in [Slots -> Dests \cup {Free}], NEW w, Complete(U), Given(h, U, w, D, M)
  PROVE  T = U
<1> DEFINE Differ(c) == ~(w[c] = t[c] /\ U[c] = T[c])
           S == {u \in 0..M - 1 : \E c \in Slots : t[c] = u /\ Differ(c)}
<1>1. \A c \in Slots : /\ T[c] # Free /\ T[c] \in Dests \ D /\ t[c] \in 0..M - 1
                       /\ U[c] # Free /\ U[c] \in Dests \ D /\ w[c] \in 0..M - 1
  BY DEF Complete, Given
<1>2. \A u \in 0..M - 1 : (\E c \in Slots : t[c] = u) /\ (\E c \in Slots : w[c] = u)
  BY DEF Given
<1>3. \A c, e \in Slots : (t[c] = t[e] => c = e) /\ (w[c] = w[e] => c = e)
  BY <1>1 DEF Given
<1>4. CASE S = {}
  <2>1. \A c \in Slots : ~Differ(c) BY <1>1, <1>4
  <2> QED BY <2>1
<1>5. CASE S # {}
  <2>1. S \subseteq Nat
    OBVIOUS
  <2>2. PICK u \in S : \A v \in S : u <= v
    BY <1>5, <2>1, LeastExists
  <2>3. PICK c \in Slots : t[c] = u /\ Differ(c)
    BY <2>2
  <2>4. u \in 0..M - 1
    BY <2>2
  <2>5. PICK e \in Slots : w[e] = u
    BY <1>2, <2>4
  <2>6. \A x \in Slots : t[x] < u => w[x] = t[x] /\ U[x] = T[x]
    <3> SUFFICES ASSUME NEW x \in Slots, t[x] < u, Differ(x) PROVE FALSE
      OBVIOUS
    <3>1. t[x] \in S BY <1>1
    <3> QED BY <1>1, <2>2, <2>4, <3>1
  <2>7. \A x \in Slots : w[x] < u => t[x] = w[x]
    <3> SUFFICES ASSUME NEW x \in Slots, w[x] < u PROVE t[x] = w[x]
      OBVIOUS
    <3>1. PICK y \in Slots : t[y] = w[x] BY <1>1, <1>2
    <3>2. w[y] = t[y] BY <2>6, <3>1
    <3> QED BY <1>3, <3>1, <3>2
  <2> HIDE DEF S, Differ
  <2>8. T[c] = U[e]
    <3>1. CASE u = 0
      <4>1. \A x \in Dests : (x < T[c] => x \in D) /\ (x < U[e] => x \in D)
        BY <1>1, <2>3, <2>5, <3>1 DEF Given
      <4>2. T[c] \in Dests \ D /\ U[e] \in Dests \ D
        BY <1>1
      <4> QED BY <4>1, <4>2 DEF Dests
    <3>2. CASE u # 0
      <4>1. u - 1 \in 0..M - 1 /\ u - 1 < u /\ (u - 1) + 1 = u
        BY <2>4, <3>2, SizesAssumption
      <4>2. PICK p \in Slots : t[p] = u - 1 BY <1>2, <4>1
      <4>3. w[p] = u - 1 /\ U[p] = T[p] BY <2>6, <4>1, <4>2
      <4>4. Reached(D, T[p], T[c])
        BY <1>1, <2>3, <4>1, <4>2 DEF Given
      <4>5. Reached(D, U[p], U[e])
        BY <1>1, <2>5, <4>1, <4>3 DEF Given
      <4> QED BY <1>1, <4>3, <4>4, <4>5, ReachedIsOne
    <3> QED BY <3>1, <3>2
  <2> DEFINE d == T[c]
  <2>9. PICK k \in Nat : /\ c = Pref(h, d, k)
                         /\ \A j \in 0..k - 1 : t[Pref(h, d, j)] < t[c]
    BY <1>1 DEF Given
  <2>10. PICK l \in Nat : /\ e = Pref(h, d, l)
                          /\ \A j \in 0..l - 1 : w[Pref(h, d, j)] < w[e]
    BY <1>1, <2>8 DEF Given
  <2> HIDE DEF d
  <2>11. ~(k < l)
    <3> SUFFICES ASSUME k < l PROVE FALSE
      OBVIOUS
    <3>1. k \in 0..l - 1 BY <2>9, <2>10
    <3>2. w[c] < u BY <2>5, <2>9, <2>10, <3>1
    <3>3. t[c] = w[c] BY <2>7, <3>2
    <3> QED BY <2>3, <2>4, <3>2, <3>3
  <2>12. ~(l < k)
    <3> SUFFICES ASSUME l < k PROVE FALSE
      OBVIOUS
    <3>1. l \in 0..k - 1 BY <2>9, <2>10
    <3>2. t[e] < u BY <2>3, <2>9, <2>10, <3>1
    <3>3. w[e] = t[e] BY <2>6, <3>2
    <3> QED BY <2>4, <2>5, <3>2, <3>3
  <2>13. k = l BY <2>9, <2>10, <2>11, <2>12
  <2>14. c = e BY <2>9, <2>10, <2>13
  <2> QED BY <2>3, <2>5, <2>8, <2>14 DEF Differ
<1> QED BY <1>4, <1>5

(* Destination x takes the first free slot of its permutation, c, in turn  *)
(* m.                                                                      *)
LEMMA GivenGrows ==
  ASSUME NEW h \in [Dests -> Hashes], NEW T \in [Slots -> Dests \cup {Free}],
         NEW t \in [Slots -> 0..M], NEW D, NEW m \in Nat, Given(h, T, t, D, m),
         NEW x \in Dests \ D, NEW c \in Slots, T[c] = Free,
         NEW l \in Nat, c = Pref(h, x, l),
         \A j \in 0..l - 1 : T[Pref(h, x, j)] # Free,
         Turning(T, t, D, m, x)
  PROVE  Given(h, [T EXCEPT ![c] = x], [t EXCEPT ![c] = m], D, m + 1)
<1> DEFINE U == [T EXCEPT ![c] = x]
           w == [t EXCEPT ![c] = m]
<1>1. \A e \in Slots : /\ U[e] = IF e = c THEN x ELSE T[e]
                       /\ w[e] = IF e = c THEN m ELSE t[e]
  OBVIOUS
<1>2. \A d \in Dests, k \in Nat : Pref(h, d, k) \in Slots
  BY PrefInTable
<1>3. \A e \in Slots : T[e] # Free => e # c /\ T[e] \in Dests \ D /\ t[e] \in 0..m - 1
  BY DEF Given
<1>4. x # Free
  BY DEF Dests, Free
<1> HIDE DEF U, w
<1>5. \A e \in Slots : U[e] # Free => U[e] \in Dests \ D /\ w[e] \in 0..(m + 1) - 1
  BY <1>1, <1>3
<1>6. \A u \in 0..(m + 1) - 1 : \E e \in Slots : U[e] # Free /\ w[e] = u
  <2> SUFFICES \A u \in 0..m : \E e \in Slots : U[e] # Free /\ w[e] = u
    <3>1. (m + 1) - 1 = m
      OBVIOUS
    <3> QED BY <3>1
  <2> TAKE u \in 0..m
  <2>1. CASE u = m BY <1>1, <1>4, <2>1
  <2>2. CASE u # m
    <3>1. u \in 0..m - 1 BY <2>2
    <3>2. PICK e \in Slots : T[e] # Free /\ t[e] = u BY <3>1 DEF Given
    <3> QED BY <1>1, <1>3, <3>2
  <2> QED BY <2>1, <2>2
<1>7. \A e, f \in Slots : U[e] # Free /\ U[f] # Free /\ w[e] = w[f] => e = f
  <2> SUFFICES ASSUME NEW e \in Slots, NEW f \in Slots, U[e] # Free, U[f] # Free,
                      w[e] = w[f], e # f
               PROVE  FALSE
    OBVIOUS
  <2>1. CASE e = c BY <1>1, <1>3, <2>1
  <2>2. CASE f = c BY <1>1, <1>3, <2>2
  <2>3. CASE e # c /\ f # c
    <3>1. T[e] # Free /\ T[f] # Free /\ t[e] = t[f] BY <1>1, <2>3
    <3> QED BY <3>1 DEF Given
  <2> QED BY <2>1, <2>2, <2>3
<1>8. ASSUME NEW e \in Slots, U[e] # Free
      PROVE  \E k \in Nat : /\ e = Pref(h, U[e], k)
                            /\ \A j \in 0..k - 1 : /\ U[Pref(h, U[e], j)] # Free
                                                   /\ w[Pref(h, U[e], j)] < w[e]
  <2>1. CASE e = c
    <3>1. U[e] = x /\ w[e] = m BY <1>1, <2>1
    <3>2. ASSUME NEW j \in 0..l - 1
          PROVE  U[Pref(h, x, j)] # Free /\ w[Pref(h, x, j)] < m
      <4>1. Pref(h, x, j) \in Slots /\ T[Pref(h, x, j)] # Free BY <1>2
      <4> QED BY <1>1, <1>3, <4>1
    <3> QED BY <2>1, <3>1, <3>2
  <2>2. CASE e # c
    <3>1. U[e] = T[e] /\ w[e] = t[e] /\ T[e] # Free /\ T[e] \in Dests BY <1>1, <1>3, <1>8, <2>2
    <3>2. PICK k \in Nat : /\ e = Pref(h, T[e], k)
                           /\ \A j \in 0..k - 1 : /\ T[Pref(h, T[e], j)] # Free
                                                  /\ t[Pref(h, T[e], j)] < t[e]
      BY <3>1 DEF Given
    <3>3. ASSUME NEW j \in 0..k - 1
          PROVE  U[Pref(h, T[e], j)] # Free /\ w[Pref(h, T[e], j)] < w[e]
      <4>1. Pref(h, T[e], j) \in Slots /\ T[Pref(h, T[e], j)] # Free BY <1>2, <3>1, <3>2
      <4> QED BY <1>1, <1>3, <3>1, <3>2, <4>1
    <3> QED BY <3>1, <3>2, <3>3
  <2> QED BY <2>1, <2>2
<1>9. \A e \in Slots : U[e] # Free /\ w[e] = 0 => \A y \in Dests : y < U[e] => y \in D
  <2> SUFFICES ASSUME NEW e \in Slots, U[e] # Free, w[e] = 0
               PROVE  \A y \in Dests : y < U[e] => y \in D
    OBVIOUS
  <2>1. CASE e = c BY <1>1, <2>1 DEF Turning
  <2>2. CASE e # c BY <1>1, <2>2 DEF Given
  <2> QED BY <2>1, <2>2
<1>10. \A e, f \in Slots : U[e] # Free /\ U[f] # Free /\ w[f] = w[e] + 1 =>
         Reached(D, U[e], U[f])
  <2> SUFFICES ASSUME NEW e \in Slots, NEW f \in Slots, U[e] # Free, U[f] # Free,
                      w[f] = w[e] + 1
               PROVE  Reached(D, U[e], U[f])
    OBVIOUS
  <2>1. e # c
    <3> SUFFICES ASSUME e = c PROVE FALSE
      OBVIOUS
    <3>1. w[e] = m BY <1>1
    <3>2. w[f] \in 0..m BY <1>5
    <3> QED BY <3>1, <3>2
  <2>2. U[e] = T[e] /\ w[e] = t[e] /\ T[e] # Free BY <1>1, <2>1
  <2>3. CASE f = c
    <3>1. U[f] = x /\ t[e] + 1 = m BY <1>1, <2>2, <2>3
    <3>2. t[e] = m - 1 BY <1>3, <2>2, <3>1
    <3> QED BY <2>2, <3>1, <3>2 DEF Turning
  <2>4. CASE f # c
    <3>1. U[f] = T[f] /\ w[f] = t[f] BY <1>1, <2>4
    <3> QED BY <2>2, <3>1 DEF Given
  <2> QED BY <2>3, <2>4
<1>11. Given(h, U, w, D, m + 1)
  BY <1>5, <1>6, <1>7, <1>8, <1>9, <1>10 DEF Given
<1> QED BY <1>11 DEF U, w

(* Destination x moves on from a slot that is taken by now.                *)
LEMMA WalkGoesOn ==
  ASSUME NEW h \in [Dests -> Hashes], NEW T, NEW U, NEW o \in [Dests -> Slots],
         Walked(h, T, o), NEW x \in Dests,
         \A c \in Slots : T[c] # Free => U[c] # Free, U[o[x]] # Free
  PROVE  Walked(h, U, [o EXCEPT ![x] = LET p == o[x] + h[x].skip
                                       IN IF p >= M THEN p - M ELSE p])
<1> DEFINE next == LET p == o[x] + h[x].skip IN IF p >= M THEN p - M ELSE p
           q == [o EXCEPT ![x] = next]
<1>1. \A d \in Dests, k \in Nat : Pref(h, d, k) \in Slots
  BY PrefInTable
<1>2. ASSUME NEW d \in Dests
      PROVE  \E k \in Nat : q[d] = Pref(h, d, k) /\ \A j \in 0..k - 1 : U[Pref(h, d, j)] # Free
  <2>1. PICK k \in Nat : o[d] = Pref(h, d, k) /\ \A j \in 0..k - 1 : T[Pref(h, d, j)] # Free
    BY DEF Walked
  <2>2. \A j \in 0..k - 1 : U[Pref(h, d, j)] # Free
    BY <1>1, <2>1
  <2>3. CASE d # x
    <3>1. q[d] = o[d] BY <2>3
    <3> QED BY <2>1, <2>2, <3>1
  <2>4. CASE d = x
    <3>1. q[d] = next BY <2>4
    <3>2. next = Pref(h, d, k + 1) BY <2>1, <2>4, PrefGoesOn
    <3> HIDE DEF next, q
    <3>3. \A j \in 0..(k + 1) - 1 : U[Pref(h, d, j)] # Free
      <4> TAKE j \in 0..(k + 1) - 1
      <4>1. j = k \/ j \in 0..k - 1 OBVIOUS
      <4> QED BY <2>1, <2>2, <2>4, <4>1
    <3> QED BY <3>1, <3>2, <3>3
  <2> QED BY <2>3, <2>4
<1>3. Walked(h, U, q)
  BY <1>2 DEF Walked
<1> QED BY <1>3

(* The turn passes from a dead destination to the next.                    *)
LEMMA DeadArePassed ==
  ASSUME NEW D, NEW p \in Dests \ D, NEW x \in Dests, x \in D, Reached(D, p, x)
  PROVE  Reached(D, p, After(x))
<1>1. CASE x = N
  <2>1. After(x) = 1 BY <1>1 DEF After
  <2>2. p < x /\ \A y \in Dests : p < y /\ y < x => y \in D
    BY <1>1 DEF Reached, Dests
  <2>3. \A y \in Dests : p < y \/ y < 1 => y \in D
    BY <1>1, <2>2 DEF Dests
  <2> QED BY <2>1, <2>3 DEF Reached, Dests
<1>2. CASE x # N
  <2>1. After(x) = x + 1 BY <1>2 DEF After
  <2>2. CASE x > p /\ \A y \in Dests : p < y /\ y < x => y \in D
    BY <2>1, <2>2 DEF Reached, Dests
  <2>3. CASE x <= p /\ \A y \in Dests : p < y \/ y < x => y \in D
    <3>1. x + 1 <= p BY <2>3 DEF Dests
    <3>2. \A y \in Dests : p < y \/ y < x + 1 => y \in D
      BY <2>3 DEF Dests
    <3> QED BY <2>1, <3>1, <3>2 DEF Reached
  <2> QED BY <2>2, <2>3 DEF Reached
<1> QED BY <1>1, <1>2

LEMMA NextIsReached ==
  ASSUME NEW D, NEW x \in Dests
  PROVE  Reached(D, x, After(x))
BY SizesAssumption DEF Reached, After, Dests

LEMMA TurningSkips ==
  ASSUME NEW h, NEW T, NEW t, NEW D, NEW m, Given(h, T, t, D, m),
         NEW x \in Dests, x \in D, Turning(T, t, D, m, x)
  PROVE  Turning(T, t, D, m, After(x))
<1>1. m = 0 => \A y \in Dests : y < After(x) => y \in D
  <2> SUFFICES ASSUME m = 0, NEW y \in Dests, y < After(x) PROVE y \in D
    OBVIOUS
  <2>1. \A z \in Dests : z < x => z \in D BY DEF Turning
  <2>2. y < x \/ y = x BY SizesAssumption DEF After, Dests
  <2> QED BY <2>1, <2>2
<1>2. \A c \in Slots : T[c] # Free /\ t[c] = m - 1 => Reached(D, T[c], After(x))
  BY DeadArePassed DEF Turning, Given
<1> QED BY <1>1, <1>2 DEF Turning

LEMMA TurningGoesOn ==
  ASSUME NEW h, NEW T \in [Slots -> Dests \cup {Free}], NEW t \in [Slots -> 0..M],
         NEW D, NEW m \in Nat, Given(h, T, t, D, m),
         NEW x \in Dests, NEW c \in Slots, T[c] = Free
  PROVE  Turning([T EXCEPT ![c] = x], [t EXCEPT ![c] = m], D, m + 1, After(x))
<1> DEFINE U == [T EXCEPT ![c] = x]
           w == [t EXCEPT ![c] = m]
<1>1. \A e \in Slots : /\ U[e] = IF e = c THEN x ELSE T[e]
                       /\ w[e] = IF e = c THEN m ELSE t[e]
  OBVIOUS
<1> HIDE DEF U, w
<1>2. \A e \in Slots : T[e] # Free => t[e] \in 0..m - 1
  BY DEF Given
<1>3. \A e \in Slots : U[e] # Free /\ w[e] = (m + 1) - 1 => Reached(D, U[e], After(x))
  <2> SUFFICES ASSUME NEW e \in Slots, U[e] # Free, w[e] = m
               PROVE  Reached(D, U[e], After(x))
    OBVIOUS
  <2>1. e = c BY <1>1, <1>2
  <2> QED BY <1>1, <2>1, NextIsReached
<1>4. m + 1 # 0
  OBVIOUS
<1>5. Turning(U, w, D, m + 1, After(x))
  BY <1>3, <1>4 DEF Turning
<1> QED BY <1>5 DEF U, w
-----------------------------------------------------------------------------
LEMMA InitKeepsOrder == Init => Orderly
<1> SUFFICES ASSUME Init PROVE Orderly
  OBVIOUS
<1>1. \A D \in Reports \cup {{}} : last[D] = EmptyTable /\ pc = "idle"
  BY DEF Init
<1>2. pc = "idle"
  BY DEF Init
<1> QED BY <1>1, <1>2 DEF Orderly, LastGiven

LEMMA HealthCheckedKeepsOrder ==
  ASSUME Orderly, NEW D \in Reports, HealthChecked(D)
  PROVE  Orderly'
<1>1. pc' = "idle" /\ last' = last /\ hash' = hash
  BY DEF HealthChecked
<1> QED BY <1>1 DEF Orderly, LastGiven

LEMMA PopulateKeepsOrder == IInv /\ Orderly /\ Populate => Orderly'
<1> SUFFICES ASSUME IInv, Orderly, Populate PROVE Orderly'
  OBVIOUS
<1>1. /\ \A d \in Dests : offsets'[d] = hash[d].offset
      /\ \A c \in Slots : table'[c] = Free
      /\ n' = 0 /\ i' = 1 /\ pc' = "fill"
      /\ hash' = hash /\ dead' = dead /\ last' = last
      /\ hash \in [Dests -> Hashes]
  BY DEF Populate, generateOffsetsAndSkips, EmptyTable, IInv, TypeOK
<1>2. Given(hash', table', turn', dead', n')
  <2>1. \A u \in 0..0 - 1 : FALSE
    OBVIOUS
  <2> QED BY <1>1, <2>1 DEF Given
<1>3. Walked(hash', table', offsets')
  <2> SUFFICES ASSUME NEW d \in Dests
               PROVE  \E k \in Nat : /\ offsets'[d] = Pref(hash, d, k)
                                     /\ \A j \in 0..k - 1 : table'[Pref(hash, d, j)] # Free
    BY <1>1 DEF Walked
  <2>1. offsets'[d] = Pref(hash, d, 0)
    BY <1>1, PrefStarts
  <2>2. \A j \in 0..0 - 1 : FALSE
    OBVIOUS
  <2> QED BY <2>1, <2>2
<1>4. Turning(table', turn', dead', n', i')
  <2>1. \A y \in Dests : ~(y < 1)
    BY DEF Dests
  <2> QED BY <1>1, <2>1 DEF Turning
<1>5. LastGiven(hash', last')
  BY <1>1 DEF Orderly
<1> QED BY <1>2, <1>3, <1>4, <1>5 DEF Orderly

LEMMA SkipDeadKeepsOrder == IInv /\ Orderly /\ SkipDead => Orderly'
<1> SUFFICES ASSUME IInv, Orderly, SkipDead PROVE Orderly'
  OBVIOUS
<1>1. /\ pc = "fill" /\ pc' = "fill" /\ i' = After(i) /\ i \in dead /\ i \in Dests
      /\ hash' = hash /\ dead' = dead /\ last' = last /\ table' = table
      /\ turn' = turn /\ n' = n /\ offsets' = offsets
  BY DEF SkipDead, Skipped, IInv, TypeOK
<1>2. Given(hash, table, turn, dead, n) /\ Turning(table, turn, dead, n, i)
  BY <1>1 DEF Orderly
<1>3. Turning(table, turn, dead, n, After(i))
  BY <1>1, <1>2, TurningSkips
<1> QED BY <1>1, <1>3 DEF Orderly

LEMMA ProbeTakenKeepsOrder == IInv /\ Orderly /\ ProbeTaken => Orderly'
<1> SUFFICES ASSUME IInv, Orderly, ProbeTaken PROVE Orderly'
  OBVIOUS
<1>1. /\ pc = "fill" /\ pc' = "fill" /\ i' = i /\ table[offsets[i]] # Free
      /\ hash' = hash /\ dead' = dead /\ last' = last /\ table' = table
      /\ turn' = turn /\ n' = n
      /\ Advance
  BY DEF ProbeTaken, Free
<1>2. /\ hash \in [Dests -> Hashes] /\ offsets \in [Dests -> Slots] /\ i \in Dests
      /\ Walked(hash, table, offsets)
  BY <1>1 DEF Orderly, IInv, TypeOK
<1>3. Walked(hash, table, offsets')
  BY <1>1, <1>2, WalkGoesOn DEF Advance, nextOffset
<1> QED BY <1>1, <1>3 DEF Orderly

LEMMA ProbeFreeKeepsOrder == IInv /\ Orderly /\ ProbeFree => Orderly'
<1> SUFFICES ASSUME IInv, Orderly, ProbeFree PROVE Orderly'
  OBVIOUS
<1> DEFINE c == offsets[i]
           filled == [table EXCEPT ![c] = i]
           turned == [turn EXCEPT ![c] = n]
<1>1. /\ TypeOK /\ pc = "fill" /\ i \in Dests \ dead /\ i \in Dests /\ c \in Slots
      /\ hash \in [Dests -> Hashes] /\ offsets \in [Dests -> Slots]
      /\ table \in [Slots -> Dests \cup {Free}] /\ turn \in [Slots -> 0..M]
      /\ n \in Nat /\ last \in [Reports \cup {{}} -> [Slots -> Dests \cup {Free}]]
  BY SizesAssumption DEF IInv, ProbeFree, TypeOK, Skipped
<1>2. /\ table[c] = Free /\ table' = filled /\ turn' = turned /\ n' = n + 1
      /\ hash' = hash /\ dead' = dead /\ Advance
  BY <1>1 DEF ProbeFree, Dests
<1>3. \/ n + 1 = M /\ pc' = "built" /\ last' = [last EXCEPT ![dead] = filled]
      \/ pc' = "fill" /\ i' = After(i) /\ last' = last
  BY <1>1 DEF ProbeFree, TurnAfter
<1>4. /\ Given(hash, table, turn, dead, n) /\ Walked(hash, table, offsets)
      /\ Turning(table, turn, dead, n, i) /\ LastGiven(hash, last)
  BY <1>1 DEF Orderly
<1> HIDE DEF c, filled, turned
<1>5. Given(hash, filled, turned, dead, n + 1)
  <2>1. PICK l \in Nat : /\ c = Pref(hash, i, l)
                         /\ \A j \in 0..l - 1 : table[Pref(hash, i, j)] # Free
    BY <1>1, <1>4 DEF Walked, c
  <2> QED BY <1>1, <1>2, <1>4, <2>1, GivenGrows DEF filled, turned
<1>6. Walked(hash, filled, offsets')
  <2>1. \A x \in Slots : filled[x] = IF x = c THEN i ELSE table[x]
    BY <1>1 DEF filled
  <2>2. i # Free
    BY <1>1 DEF Dests, Free
  <2>3. \A x \in Slots : table[x] # Free => filled[x] # Free
    BY <2>1, <2>2
  <2>4. filled[offsets[i]] # Free
    BY <1>1, <2>1, <2>2 DEF c
  <2> QED BY <1>1, <1>2, <1>4, <2>3, <2>4, WalkGoesOn DEF Advance, nextOffset
<1>7. Turning(filled, turned, dead, n + 1, After(i))
  BY <1>1, <1>2, <1>4, TurningGoesOn DEF filled, turned
<1>8. CASE pc' = "fill" /\ i' = After(i) /\ last' = last
  BY <1>2, <1>4, <1>5, <1>6, <1>7, <1>8 DEF Orderly
<1>9. CASE n + 1 = M /\ pc' = "built" /\ last' = [last EXCEPT ![dead] = filled]
  <2>1. Complete(filled)
    <3>1. IInv' BY ProbeFreeKeepsIInv
    <3>2. TypeOK' /\ Counted' /\ n' = M BY <1>2, <1>9, <3>1 DEF IInv, Filling
    <3>3. Filled' = Slots
      <4>1. Cardinality(Filled') = M /\ Filled' \in SUBSET Slots BY <3>2 DEF Counted, Filled
      <4> QED BY <4>1, SlotSets
    <3>4. \A x \in Slots : table'[x] # Free BY <3>3 DEF Filled
    <3> QED BY <1>2, <3>4 DEF Complete
  <2>2. ASSUME NEW D \in Reports \cup {{}}, last'[D] # EmptyTable
        PROVE  Complete(last'[D]) /\ \E t : Given(hash, last'[D], t, D, M)
    <3>1. CASE D = dead
      <4>1. last'[D] = filled BY <1>1, <1>9, <3>1
      <4> QED BY <1>5, <1>9, <2>1, <3>1, <4>1
    <3>2. CASE D # dead
      <4>1. last'[D] = last[D] BY <1>1, <1>9, <3>2
      <4> QED BY <1>4, <2>2, <4>1 DEF LastGiven
    <3> QED BY <3>1, <3>2
  <2>3. LastGiven(hash', last') BY <1>2, <2>2 DEF LastGiven
  <2> QED BY <1>2, <1>5, <1>9, <2>3 DEF Orderly
<1> QED BY <1>3, <1>8, <1>9

(* Every table is filled in turns, each live destination taking the first  *)
(* slot of its permutation that is left (the loop of PopulateLookupTable,  *)
(* drv.go lines 151 to 171), and every finished one was.                   *)
THEOREM OrderIsKept == Spec => [](IInv /\ Orderly)
<1>1. IInv /\ Orderly /\ [Next]_vars => IInv' /\ Orderly'
  <2> SUFFICES ASSUME IInv, Orderly, [Next]_vars PROVE IInv' /\ Orderly'
    OBVIOUS
  <2>1. CASE UNCHANGED vars
    BY <2>1 DEF vars, IInv, TypeOK, Filling, Counted, OnlyAlive, Level, Served,
                Filled, SlotsOf, Alive, Orderly, LastGiven
  <2>2. CASE \E D \in Reports : HealthChecked(D)
    <3>1. IInv' BY <2>2, ReportsAssumption DEF HealthChecked, IInv, TypeOK
    <3> QED BY <2>2, <3>1, HealthCheckedKeepsOrder
  <2>3. CASE Populate
    BY <2>3, PopulateKeepsIInv, PopulateKeepsOrder
  <2>4. CASE Fill
    BY <2>4, SkipDeadKeepsIInv, ProbeTakenKeepsIInv, ProbeFreeKeepsIInv,
       SkipDeadKeepsOrder, ProbeTakenKeepsOrder, ProbeFreeKeepsOrder DEF Fill
  <2> QED BY <2>1, <2>2, <2>3, <2>4 DEF Next
<1> QED BY <1>1, InitKeepsIInv, InitKeepsOrder, PTL DEF Spec

(* When the same destinations are dead again, the same table is built      *)
(* again, whatever the tables between the two: the loop starts from the    *)
(* hashes each time (generateOffsetsAndSkips, drv.go) and keeps nothing of *)
(* the run before.                                                         *)
THEOREM FailbackRestores == Spec => FailbackRestoresTable
<1>1. IInv /\ Orderly /\ (IInv /\ Orderly)' /\ [Next]_vars =>
        [\A D \in Reports : last[D] # EmptyTable => last'[D] = last[D]]_vars
  <2> SUFFICES ASSUME IInv, Orderly, IInv', Orderly', Next,
                      NEW D \in Reports, last[D] # EmptyTable
               PROVE  last'[D] = last[D]
    BY DEF vars
  <2>1. CASE last' = last
    BY <2>1
  <2>2. CASE ProbeFree /\ last' # last
    <3> DEFINE filled == [table EXCEPT ![offsets[i]] = i]
    <3>1. hash' = hash /\ last' = [last EXCEPT ![dead] = filled] /\ table' = filled
      BY <2>2 DEF ProbeFree
    <3>2. /\ last \in [Reports \cup {{}} -> [Slots -> Dests \cup {Free}]]
          /\ last' \in [Reports \cup {{}} -> [Slots -> Dests \cup {Free}]]
          /\ table \in [Slots -> Dests \cup {Free}]
          /\ offsets[i] \in Slots /\ i # Free
      <4>1. TypeOK /\ TypeOK' BY DEF IInv
      <4>2. i \in Dests BY <4>1 DEF TypeOK
      <4>3. /\ last \in [Reports \cup {{}} -> [Slots -> Dests \cup {Free}]]
            /\ last' \in [Reports \cup {{}} -> [Slots -> Dests \cup {Free}]]
        BY <4>1 DEF TypeOK
      <4>4. table \in [Slots -> Dests \cup {Free}] /\ offsets[i] \in Slots
        BY <4>1, <4>2 DEF TypeOK
      <4> QED BY <4>2, <4>3, <4>4 DEF Dests, Free
    <3>3. filled # EmptyTable
      BY <3>2 DEF EmptyTable
    <3> HIDE DEF filled
    <3>4. last'[D] # EmptyTable
      BY <3>1, <3>2, <3>3
    <3>5. PICK t : Complete(last[D]) /\ Given(hash, last[D], t, D, M)
      BY DEF Orderly, LastGiven
    <3>6. PICK w : Complete(last'[D]) /\ Given(hash, last'[D], w, D, M)
      BY <3>1, <3>4 DEF Orderly, LastGiven
    <3> QED BY <3>2, <3>5, <3>6, SameTable
  <2> QED BY <2>1, <2>2 DEF Next, Fill, HealthChecked, Populate, SkipDead, ProbeTaken
<1> QED BY <1>1, OrderIsKept, PTL DEF Spec, FailbackRestoresTable

(* When a destination is given a slot, every slot it prefers to that one   *)
(* is already gone.  This is where the size of the table has to be a prime *)
(* (MAGLEV_TABLE_SIZE is 65537): otherwise a permutation may come back to  *)
(* a slot, and its second place there says nothing about the places        *)
(* before.                                                                 *)
THEOREM FirstComeFirst ==
  ASSUME Prime(M)
  PROVE  Spec => []FirstComeFirstServed
<1>1. IInv /\ Orderly => FirstComeFirstServed
  <2> SUFFICES ASSUME IInv, Orderly, pc \in {"fill", "built"},
                      NEW d \in Dests, NEW k \in Slots, table[Preference(d, k)] = d,
                      NEW j \in 0..k - 1
               PROVE  /\ table[Preference(d, j)] # Free
                      /\ turn[Preference(d, j)] < turn[Preference(d, k)]
    BY DEF FirstComeFirstServed
  <2>1. hash \in [Dests -> Hashes] /\ Given(hash, table, turn, dead, n)
    BY DEF IInv, TypeOK, Orderly
  <2>2. \A x : Preference(d, x) = Pref(hash, d, x)
    BY DEF Preference, Pref
  <2>3. k \in Nat /\ j \in Nat /\ j < k /\ d # Free
    BY DEF Slots, Dests, Free
  <2>4. Pref(hash, d, k) \in Slots
    BY <2>1, <2>3, PrefInTable
  <2>5. PICK l \in Nat : /\ Pref(hash, d, k) = Pref(hash, d, l)
                         /\ \A x \in 0..l - 1 : /\ table[Pref(hash, d, x)] # Free
                                                /\ turn[Pref(hash, d, x)] < turn[Pref(hash, d, k)]
    <3> DEFINE c == Pref(hash, d, k)
    <3>1. c \in Slots /\ table[c] = d /\ table[c] # Free BY <2>2, <2>3, <2>4
    <3> HIDE DEF c
    <3>2. \E l \in Nat : /\ c = Pref(hash, table[c], l)
                         /\ \A x \in 0..l - 1 : /\ table[Pref(hash, table[c], x)] # Free
                                                /\ turn[Pref(hash, table[c], x)] < turn[c]
      BY <2>1, <3>1 DEF Given
    <3> QED BY <3>1, <3>2 DEF c
  <2>6. ~(l < k)
    <3> SUFFICES ASSUME l < k PROVE FALSE
      OBVIOUS
    <3>1. l \in Slots BY <2>5, SizesAssumption DEF Slots
    <3> QED BY <2>1, <2>5, <3>1, PrefIsInjective
  <2>7. j \in 0..l - 1
    BY <2>3, <2>5, <2>6
  <2> QED BY <2>2, <2>5, <2>7
<1> QED BY <1>1, OrderIsKept, PTL
=============================================================================

--------------------------- MODULE HttpRpsProofs ---------------------------
(***************************************************************************)
(* Proofs about HttpRps, for a window of any length and any finite number  *)
(* of requests.                                                            *)
(*                                                                         *)
(* The sum of the window is not inductive: nothing in it says why the      *)
(* count taken out of the sum is that of the requests which leave the      *)
(* window.  The invariant follows every slot of the ring round: the one    *)
(* that was written k ticks ago counts the requests reported for k ticks.  *)
(***************************************************************************)
EXTENDS HttpRps, FiniteSetTheorems, TLAPS

(* The slot written k ticks ago.                                           *)
SlotOf(k) == IF k <= currentIdx THEN currentIdx - k ELSE currentIdx + W - k

Ring == \A k \in 1..W : counts[SlotOf(k)] = Cardinality(Aged({k + 2}))

Counting ==
  /\ curr = Cardinality(Aged({InCurr}))
  /\ newCount = Cardinality(Aged({Taken}))
  /\ ticker = "waiting" => newCount = 0
  /\ total = Cardinality(Aged(Reported))

IInv == RpsTypeOK /\ Counting /\ Ring
-----------------------------------------------------------------------------
LEMMA AgedFinite ==
  ASSUME NEW S
  PROVE  IsFiniteSet(Aged(S)) /\ Cardinality(Aged(S)) \in Nat
<1>1. IsFiniteSet(Aged(S))
  BY RequestsAssumption, FS_Subset DEF Aged
<1> QED BY <1>1, FS_CardinalityType

(* A request has one age.                                                  *)
LEMMA AgedUnion ==
  ASSUME NEW S, NEW T, S \cap T = {}
  PROVE  Cardinality(Aged(S \cup T)) = Cardinality(Aged(S)) + Cardinality(Aged(T))
<1>1. Aged(S \cup T) = Aged(S) \cup Aged(T) /\ Aged(S) \cap Aged(T) = {}
  BY DEF Aged
<1>2. Cardinality(Aged(S) \cup Aged(T))
        = Cardinality(Aged(S)) + Cardinality(Aged(T)) - Cardinality({})
  BY <1>1, AgedFinite, FS_Union
<1> QED BY <1>1, <1>2, AgedFinite, FS_EmptySet

(* Nobody who is being reported is at an earlier age.                      *)
LEMMA DifferentAges ==
  /\ New \notin {InCurr} /\ New \notin {Taken} /\ InCurr \notin {Taken}
  /\ New \notin Reported /\ InCurr \notin Reported /\ Taken \notin Reported
  /\ {Taken} \cap Reported = {}
  /\ \A k \in 1..W : New \notin {k + 2} /\ InCurr \notin {k + 2} /\ Taken \notin {k + 2}
BY WindowAssumption DEF New, InCurr, Taken, Reported

(* The ring turns by one slot.                                             *)
LEMMA RingTurns ==
  ASSUME currentIdx \in 0..W - 1
  PROVE  /\ (currentIdx + 1) % W = IF currentIdx = W - 1 THEN 0 ELSE currentIdx + 1
         /\ SlotOf(W) = currentIdx
         /\ \A k \in 1..W : SlotOf(k) \in 0..W - 1
         /\ \A k \in 1..W - 1 : SlotOf(k) # currentIdx
<1>1. CASE currentIdx = W - 1
  <2>1. W % W = 0
    BY WindowAssumption
  <2> QED BY <1>1, <2>1, WindowAssumption DEF SlotOf
<1>2. CASE currentIdx # W - 1
  <2>1. (currentIdx + 1) % W = currentIdx + 1
    BY <1>2, WindowAssumption
  <2> QED BY <1>2, <2>1, WindowAssumption DEF SlotOf
<1> QED BY <1>1, <1>2

LEMMA InitIInv == RpsInit => IInv
<1> SUFFICES ASSUME RpsInit PROVE IInv
  OBVIOUS
<1>1. \A S : New \notin S => Aged(S) = {}
  BY DEF RpsInit, Aged
<1>2. Aged({InCurr}) = {} /\ Aged({Taken}) = {} /\ Aged(Reported) = {}
  BY <1>1, DifferentAges
<1>3. \A k \in 1..W : Aged({k + 2}) = {}
  BY <1>1, DifferentAges
<1>4. RpsTypeOK
  BY WindowAssumption DEF RpsInit, RpsTypeOK, New, Gone
<1>5. Counting
  BY <1>2, FS_EmptySet DEF RpsInit, Counting
<1>6. Ring
  BY <1>3, <1>4, RingTurns, FS_EmptySet DEF RpsInit, Ring, RpsTypeOK
<1> QED BY <1>4, <1>5, <1>6 DEF IInv

LEMMA CountKeepsIInv ==
  ASSUME IInv, NEW r \in Requests, Count(r)
  PROVE  IInv'
<1> USE DEF IInv
<1>1. RpsTypeOK'
  BY WindowAssumption DEF RpsTypeOK, Count, New, InCurr, Gone
<1>2. r \notin Aged({InCurr}) /\ Aged({InCurr})' = Aged({InCurr}) \cup {r}
  BY DEF Aged, Count, RpsTypeOK, New, InCurr
<1>3. Cardinality(Aged({InCurr}) \cup {r}) = Cardinality(Aged({InCurr})) + 1
  BY <1>2, AgedFinite, FS_AddElement
<1>4. \A S : New \notin S /\ InCurr \notin S => Aged(S)' = Aged(S)
  BY DEF Aged, Count, RpsTypeOK
<1>5. Aged({Taken})' = Aged({Taken}) /\ Aged(Reported)' = Aged(Reported)
  BY <1>4, DifferentAges
<1>6. \A k \in 1..W : Aged({k + 2})' = Aged({k + 2})
  BY <1>4, DifferentAges
<1>7. Counting'
  BY <1>2, <1>3, <1>5 DEF Counting, Count
<1>8. Ring'
  BY <1>6 DEF Ring, Count, SlotOf
<1> QED BY <1>1, <1>7, <1>8

LEMMA SwapKeepsIInv ==
  ASSUME IInv, Swap
  PROVE  IInv'
<1> USE DEF IInv
<1>1. RpsTypeOK'
  BY WindowAssumption DEF RpsTypeOK, Swap, New, InCurr, Taken, Gone
<1>2. Aged({Taken}) = {}
  BY AgedFinite, FS_EmptySet DEF Swap, Counting
<1>3. Aged({InCurr})' = {} /\ Aged({Taken})' = Aged({InCurr})
  BY <1>2 DEF Aged, Swap, RpsTypeOK, InCurr, Taken
<1>4. \A S : InCurr \notin S /\ Taken \notin S => Aged(S)' = Aged(S)
  BY DEF Aged, Swap, RpsTypeOK
<1>5. Aged(Reported)' = Aged(Reported)
  BY <1>4, DifferentAges
<1>6. \A k \in 1..W : Aged({k + 2})' = Aged({k + 2})
  BY <1>4, DifferentAges
<1>7. Counting'
  BY <1>3, <1>5, FS_EmptySet DEF Counting, Swap
<1>8. Ring'
  BY <1>6 DEF Ring, Swap, SlotOf
<1> QED BY <1>1, <1>7, <1>8

LEMMA StoreKeepsIInv ==
  ASSUME IInv, Store
  PROVE  IInv'
<1> USE DEF IInv
<1>0. currentIdx \in 0..W - 1 /\ counts \in [0..W - 1 -> Nat]
  BY DEF RpsTypeOK
<1>1. Aged({InCurr})' = Aged({InCurr}) /\ Aged({Taken})' = {}
  BY WindowAssumption DEF Aged, Store, RpsTypeOK, New, InCurr, Taken, Gone
<1>2. ASSUME NEW k \in 1..W
      PROVE  Aged({k + 2})' = Aged({k + 1})
  <2>1. ASSUME NEW r \in Requests
        PROVE  age'[r] = k + 2 <=> age[r] = k + 1
    <3>1. age[r] \in 0..W + 3 /\ W \in Nat
      BY WindowAssumption DEF RpsTypeOK, New, Gone
    <3>2. age'[r] = IF age[r] \in 2..W + 2 THEN age[r] + 1 ELSE age[r]
      BY DEF Store, Taken
    <3> QED BY <3>1, <3>2
  <2> QED BY <2>1 DEF Aged
<1>3. Aged(Reported)' = Aged(Taken..W + 1)
  BY WindowAssumption DEF Aged, Store, RpsTypeOK, New, Taken, Reported, Gone
<1>4. counts[currentIdx] = Cardinality(Aged({W + 2}))
  BY <1>0, RingTurns, WindowAssumption DEF Ring
<1>5. Cardinality(Aged(Taken..W + 1)) + Cardinality(Aged({W + 2}))
        = Cardinality(Aged({Taken})) + Cardinality(Aged(Reported))
  <2>1. Taken..W + 1 \cup {W + 2} = {Taken} \cup Reported
    BY WindowAssumption DEF Taken, Reported
  <2>2. Cardinality(Aged(Taken..W + 1 \cup {W + 2}))
          = Cardinality(Aged(Taken..W + 1)) + Cardinality(Aged({W + 2}))
    BY AgedUnion, WindowAssumption DEF Taken
  <2>3. Cardinality(Aged({Taken} \cup Reported))
          = Cardinality(Aged({Taken})) + Cardinality(Aged(Reported))
    BY AgedUnion, DifferentAges
  <2> QED BY <2>1, <2>2, <2>3
<1>6. total' = Cardinality(Aged(Reported)')
  BY <1>3, <1>4, <1>5, AgedFinite DEF Counting, Store, NewTotal
<1>7. Counting'
  BY <1>1, <1>6, FS_EmptySet DEF Counting, Store
<1>8. RpsTypeOK'
  <2>1. total' \in Nat
    BY <1>3, <1>6, AgedFinite
  <2>2. currentIdx' \in 0..W - 1
    BY <1>0, RingTurns, WindowAssumption DEF Store
  <2> QED BY <2>1, <2>2, WindowAssumption DEF RpsTypeOK, Store, New, Taken, Gone
<1>9. Ring'
  <2> SUFFICES ASSUME NEW k \in 1..W
               PROVE  counts'[SlotOf(k)'] = Cardinality(Aged({k + 2})')
    BY DEF Ring
  <2>1. CASE k = 1
    <3>1. SlotOf(1)' = currentIdx
      BY <1>0, RingTurns, WindowAssumption DEF Store, SlotOf
    <3> QED BY <1>0, <1>2, <2>1, <3>1 DEF Store, Counting, Taken
  <2>2. CASE k # 1
    <3>1. k - 1 \in 1..W - 1 /\ k - 1 \in 1..W
      BY <2>2, WindowAssumption
    <3>2. SlotOf(k)' = SlotOf(k - 1)
      <4>1. currentIdx' = IF currentIdx = W - 1 THEN 0 ELSE currentIdx + 1
        BY <1>0, RingTurns DEF Store
      <4>2. CASE currentIdx = W - 1
        BY <3>1, <4>1, <4>2, WindowAssumption DEF SlotOf
      <4>3. CASE currentIdx # W - 1
        BY <1>0, <3>1, <4>1, <4>3, WindowAssumption DEF SlotOf
      <4> QED BY <4>2, <4>3
    <3>3. counts'[SlotOf(k - 1)] = counts[SlotOf(k - 1)]
      BY <1>0, <3>1, RingTurns DEF Store
    <3>4. counts[SlotOf(k - 1)] = Cardinality(Aged({(k - 1) + 2}))
      BY <3>1 DEF Ring
    <3>5. (k - 1) + 2 = k + 1
      BY WindowAssumption
    <3> QED BY <1>2, <3>2, <3>3, <3>4, <3>5
  <2> QED BY <2>1, <2>2
<1> QED BY <1>7, <1>8, <1>9

(* All of the bookkeeping is kept up: what is in curr, what has been taken,*)
(* what each slot of the ring holds, and their sum.                        *)
THEOREM Invariance == RpsSpec => []IInv
<1>1. IInv /\ [RpsNext]_rpsVars => IInv'
  <2> SUFFICES ASSUME IInv, [RpsNext]_rpsVars PROVE IInv'
    OBVIOUS
  <2>1. ASSUME NEW r \in Requests, Count(r) PROVE IInv'
    BY <2>1, CountKeepsIInv
  <2>2. CASE Swap
    BY <2>2, SwapKeepsIInv
  <2>3. CASE Store
    BY <2>3, StoreKeepsIInv
  <2>4. CASE UNCHANGED rpsVars
    BY <2>4 DEF rpsVars, IInv, RpsTypeOK, Counting, Ring, SlotOf, Aged
  <2> QED BY <2>1, <2>2, <2>3, <2>4 DEF RpsNext, RpsTick
<1> QED BY <1>1, InitIInv, PTL DEF RpsSpec

(* The meter's variables keep their types; its ring index stays in range.  *)
THEOREM TypeCorrect == RpsSpec => []RpsTypeOK
<1>1. IInv => RpsTypeOK
  BY DEF IInv
<1> QED BY <1>1, Invariance, PTL

(* GetRPS reports exactly the requests of the last W ticks.                *)
THEOREM WindowIsCounted == RpsSpec => []RateCountsWindow
<1>1. IInv => RateCountsWindow
  BY DEF IInv, Counting, RateCountsWindow
<1> QED BY <1>1, Invariance, PTL
=============================================================================

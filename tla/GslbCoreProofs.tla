--------------------------- MODULE GslbCoreProofs ---------------------------
(***************************************************************************)
(* Proofs about GslbCore, for any number of PoPs, regions and sources, any *)
(* prefixes and any latencies.                                             *)
(*                                                                         *)
(* What is stored is told from the world as it is now, not from the calls  *)
(* that were made: as long as nothing has changed, a call's result is what *)
(* Seen says, and late is whether something in the round has hung.         *)
(***************************************************************************)
EXTENDS GslbCore, WellFoundedInduction, SequenceTheorems, TLAPS

(* What the worker gets for PoP p from region r in a round without change. *)
Seen(r, p) == IF Reached(r, p) THEN network[r][p] ELSE Default

Idle == pc \notin {"status", "measure"} => results = <<>>

(* While the first round goes on, the serial is behind the regions.        *)
FirstRound ==
  measured # Regions =>
    \/ pc \in {"start", "status", "exited"} /\ measured = {} /\ serial = 0
    \/ pc = "measure" /\ measured = 1..region - 1 /\ serial <= region

(* Something has hung in the round, up to the n-th PoP of region r.        *)
HungBy(r, n) ==
  \E o \in 1..r : \E q \in Pops : (o < r \/ q <= n) /\ Hangs(o, q)

RoundTruthful ==
  calm /\ pc = "measure" =>
    /\ late <=> HungBy(region, Len(results))
    /\ \A q \in 1..Len(results) : results[q] = Seen(region, q)

StoreTruthful == \A r \in current : \A p \in Pops : latency[r][p] = Seen(r, p)

IInv == TypeOK /\ Idle /\ FirstRound /\ RoundTruthful /\ StoreTruthful
-----------------------------------------------------------------------------
(* The minimum of a set of natural numbers.                                *)
LEMMA LeastExists ==
  ASSUME NEW S, S \subseteq Nat, S # {}
  PROVE  \E x \in S : \A y \in S : x <= y
<1> DEFINE Less == OpToRel(<, Nat)
<1>1. IsWellFoundedOn(Less, Nat)
  BY NatLessThanWellFounded
<1> HIDE DEF Less
<1>2. PICK x \in S : \A y \in S : ~(<<y, x>> \in Less)
  BY <1>1, WFMin
<1>3. \A y \in S : ~(y < x)
  BY <1>2 DEF Less, OpToRel
<1> QED BY <1>3

(* FirstLeast is what its loop finds: the first of the least elements.     *)
LEMMA FirstLeastProperty ==
  ASSUME NEW f, \A p \in Pops : f[p] \in Nat
  PROVE  /\ FirstLeast(f) \in Pops
         /\ \A q \in Pops : \/ f[FirstLeast(f)] < f[q]
                            \/ f[FirstLeast(f)] = f[q] /\ FirstLeast(f) <= q
<1> DEFINE V == {f[p] : p \in Pops}
<1>1. V \subseteq Nat /\ V # {}
  BY SizesAssumption DEF Pops
<1>2. PICK m \in V : \A v \in V : m <= v
  BY <1>1, LeastExists
<1> DEFINE S == {p \in Pops : f[p] = m}
<1>3. S \subseteq Nat /\ S # {}
  BY <1>2 DEF Pops
<1>4. PICK p \in S : \A q \in S : p <= q
  BY <1>3, LeastExists
<1>5. \A q \in Pops : f[p] < f[q] \/ (f[p] = f[q] /\ p <= q)
  BY <1>2, <1>4
<1>6. p \in Pops
  BY <1>4
<1> QED BY <1>5, <1>6 DEF FirstLeast

(* The serial moves by one or goes back to zero.                           *)
LEMMA TickCounts ==
  ASSUME serial \in 0..SerialMod - 1, Tick
  PROVE  serial' \in 0..SerialMod - 1 /\ serial' <= serial + 1
<1>1. CASE serial = SerialMod - 1
  <2>1. SerialMod % SerialMod = 0
    BY SizesAssumption
  <2> QED BY <1>1, <2>1, SizesAssumption DEF Tick
<1>2. CASE serial # SerialMod - 1
  <2>1. (serial + 1) % SerialMod = serial + 1
    BY <1>2, SizesAssumption
  <2> QED BY <1>2, <2>1, SizesAssumption DEF Tick
<1> QED BY <1>1, <1>2

LEMMA LatenciesAreSmall ==
  ASSUME network \in Networks, NEW r \in Regions, NEW p \in Pops
  PROVE  network[r][p] \in 0..Default /\ network[r][p] < Default
BY NetworksAssumption, SizesAssumption

LEMMA InitIInv == Init => IInv
<1> SUFFICES ASSUME Init PROVE IInv
  OBVIOUS
<1>1. TypeOK
  <2>1. latency \in [Regions -> [Pops -> 0..Default]]
    BY SizesAssumption DEF Init, Unmeasured
  <2>2. popstate \in [Pops -> {Unknown, "ok", "error"}]
    BY DEF Init
  <2>3. pop \in [Pops -> Conditions] /\ prober \in [Regions -> Conditions]
    BY DEF Init, Conditions
  <2>4. results \in Seq(0..Default) /\ Len(results) <= P
    BY SizesAssumption DEF Init
  <2>5. 1 \in Regions /\ 0 \in 0..SerialMod - 1 /\ 0 \in 0..MaxFaults
    BY SizesAssumption DEF Regions
  <2> QED BY <2>1, <2>2, <2>3, <2>4, <2>5 DEF Init, TypeOK
<1>2. Idle /\ FirstRound /\ RoundTruthful /\ StoreTruthful
  BY DEF Init, Idle, FirstRound, RoundTruthful, StoreTruthful
<1> QED BY <1>1, <1>2 DEF IInv

(* While the world and the store stay as they are, so does what is stored. *)
LEMMA StoreStays ==
  ASSUME StoreTruthful, UNCHANGED <<worldVars, latency, current>>
  PROVE  StoreTruthful'
<1>1. pop' = pop /\ prober' = prober /\ network' = network
  BY DEF worldVars
<1>2. \A r, p : Seen(r, p)' = Seen(r, p)
  BY <1>1 DEF Seen, Reached, Answered, Hangs
<1> QED BY <1>2 DEF StoreTruthful

LEMMA StartWebKeepsIInv ==
  ASSUME IInv, StartWeb
  PROVE  IInv'
<1> USE DEF IInv
<1>1. TypeOK'
  BY SizesAssumption DEF TypeOK, StartWeb, Expired, worldVars, storeVars
<1>2. Idle' /\ FirstRound' /\ RoundTruthful'
  BY DEF Idle, FirstRound, RoundTruthful, StartWeb, storeVars
<1>3. StoreTruthful'
  BY StoreStays DEF StartWeb, storeVars
<1> QED BY <1>1, <1>2, <1>3

LEMMA FetchStatusKeepsIInv ==
  ASSUME IInv, FetchStatus
  PROVE  IInv'
<1> USE DEF IInv
<1>1. results \in Seq({"ok", "error"}) /\ Len(results) < P /\ pc = "status"
  BY DEF TypeOK, FetchStatus, Calls
<1>2. results' \in Seq({"ok", "error"}) /\ Len(results') <= P
  BY <1>1, SizesAssumption DEF FetchStatus
<1>3. TypeOK'
  BY <1>1, <1>2, SizesAssumption DEF TypeOK, FetchStatus, worldVars, storeVars
<1>4. Idle' /\ FirstRound' /\ RoundTruthful'
  BY <1>1 DEF Idle, FirstRound, RoundTruthful, FetchStatus, storeVars
<1>5. StoreTruthful'
  BY StoreStays DEF FetchStatus, storeVars
<1> QED BY <1>3, <1>4, <1>5

LEMMA StoreStatusKeepsIInv ==
  ASSUME IInv, StoreStatus
  PROVE  IInv'
<1> USE DEF IInv
<1>1. results \in Seq({"ok", "error"}) /\ Len(results) = P /\ pc = "status"
  BY DEF TypeOK, StoreStatus
<1>2. results \in [Pops -> {Unknown, "ok", "error"}]
  BY <1>1 DEF Pops
<1>3. serial' \in 0..SerialMod - 1 /\ serial' <= serial + 1
  BY TickCounts DEF TypeOK, StoreStatus
<1>4. <<>> \in Seq(0..Default) /\ Len(<<>>) = 0
  OBVIOUS
<1>5. TypeOK'
  <2>1. 1 \in Regions /\ 0 <= P
    BY SizesAssumption DEF Regions
  <2> QED BY <1>2, <1>3, <1>4, <2>1 DEF TypeOK, StoreStatus, Expired, worldVars
<1>6. FirstRound'
  <2>1. 1..1 - 1 = {}
    OBVIOUS
  <2> QED BY <1>1, <1>3, <2>1 DEF FirstRound, StoreStatus, TypeOK
<1>7. RoundTruthful'
  <2>1. region' = 1 /\ results' = <<>> /\ (calm' => late' = FALSE)
    BY DEF StoreStatus, Expired, TypeOK
  <2>2. ~HungBy(region, Len(results))'
    BY <1>4, <2>1 DEF HungBy, Pops
  <2>3. 1..Len(results') = {}
    BY <1>4, <2>1
  <2> QED BY <2>1, <2>2, <2>3 DEF RoundTruthful
<1>8. Idle' /\ StoreTruthful'
  BY StoreStays DEF Idle, StoreStatus
<1> QED BY <1>5, <1>6, <1>7, <1>8

(* What a measurement adds to what is known of the round: n is the PoP.    *)
LEMMA HungByNext ==
  ASSUME NEW r \in Regions, NEW n \in Pops
  PROVE  /\ HungBy(r, n) <=> HungBy(r, n - 1) \/ Hangs(r, n)
         /\ Reached(r, n) <=> Answered(r, n) /\ ~HungBy(r, n - 1)
<1>1. HungBy(r, n) <=> HungBy(r, n - 1) \/ Hangs(r, n)
  BY DEF HungBy, Regions, Pops
<1>2. \A o \in 1..r : \A q \in Pops : (o < r \/ q < n) <=> (o < r \/ q <= n - 1)
  BY DEF Regions, Pops
<1>3. Reached(r, n) <=> Answered(r, n) /\ ~HungBy(r, n - 1)
  BY <1>2 DEF Reached, HungBy
<1> QED BY <1>1, <1>3

LEMMA MeasuredKeepsIInv ==
  ASSUME IInv, Measured
  PROVE  IInv'
<1> USE DEF IInv
<1> DEFINE p == Len(results) + 1
<1>1. results \in Seq(0..Default) /\ p \in Pops /\ region \in Regions /\ pc = "measure"
  BY SizesAssumption DEF TypeOK, Measured, Calls, Pops
<1>2. network[region][p] \in 0..Default
  BY <1>1, LatenciesAreSmall DEF TypeOK
<1>3. results' = Append(results, network[region][p]) /\ Answered(region, p) /\ ~late
  BY DEF Measured
<1> HIDE DEF p
<1>4. /\ results' \in Seq(0..Default)
      /\ Len(results') = p
      /\ results'[p] = network[region][p]
      /\ \A q \in 1..Len(results) : results'[q] = results[q]
  BY <1>1, <1>2, <1>3 DEF p
<1>5. TypeOK'
  BY <1>1, <1>4 DEF TypeOK, Measured, worldVars, storeVars, Pops
<1>6. Idle' /\ FirstRound' /\ StoreTruthful'
  BY <1>1, StoreStays DEF Idle, FirstRound, Measured, storeVars
<1>7. RoundTruthful'
  <2> SUFFICES ASSUME calm
               PROVE  RoundTruthful'
    BY DEF RoundTruthful, Measured
  <2>1. ~HungBy(region, p - 1)
    BY <1>1, <1>3 DEF RoundTruthful, p, TypeOK
  <2>2. ~HungBy(region, p) /\ Reached(region, p)
    BY <1>1, <1>3, <2>1, HungByNext DEF Answered, Hangs
  <2>3. \A q \in 1..p : results'[q] = Seen(region, q)
    BY <1>1, <1>4, <2>2 DEF RoundTruthful, Seen, p
  <2>4. UNCHANGED <<pop, prober, network, region, late>>
    BY DEF Measured, worldVars
  <2> QED
    BY <1>3, <1>4, <2>2, <2>3, <2>4
    DEF RoundTruthful, Seen, Reached, HungBy, Answered, Hangs
<1> QED BY <1>5, <1>6, <1>7

LEMMA NotMeasuredKeepsIInv ==
  ASSUME IInv, NotMeasured
  PROVE  IInv'
<1> USE DEF IInv
<1> DEFINE p == Len(results) + 1
<1>1. results \in Seq(0..Default) /\ p \in Pops /\ region \in Regions /\ pc = "measure"
  BY SizesAssumption DEF TypeOK, NotMeasured, Calls, Pops
<1>2. Default \in 0..Default
  BY SizesAssumption
<1>3. /\ results' = Append(results, Default)
      /\ late \/ ~Answered(region, p)
      /\ late' = (late \/ Hangs(region, p))
  BY DEF NotMeasured
<1> HIDE DEF p
<1>4. /\ results' \in Seq(0..Default)
      /\ Len(results') = p
      /\ results'[p] = Default
      /\ \A q \in 1..Len(results) : results'[q] = results[q]
  BY <1>1, <1>2, <1>3 DEF p
<1>5. TypeOK'
  <2>1. late' \in BOOLEAN
    BY <1>3 DEF TypeOK
  <2> QED BY <1>1, <1>4, <2>1 DEF TypeOK, NotMeasured, worldVars, storeVars, Pops
<1>6. Idle' /\ FirstRound' /\ StoreTruthful'
  BY <1>1, StoreStays DEF Idle, FirstRound, NotMeasured, storeVars
<1>7. RoundTruthful'
  <2> SUFFICES ASSUME calm
               PROVE  RoundTruthful'
    BY DEF RoundTruthful, NotMeasured
  <2>1. late <=> HungBy(region, p - 1)
    BY <1>1 DEF RoundTruthful, p, TypeOK
  <2>2. (late' <=> HungBy(region, p)) /\ ~Reached(region, p)
    BY <1>1, <1>3, <2>1, HungByNext
  <2>3. \A q \in 1..p : results'[q] = Seen(region, q)
    BY <1>1, <1>4, <2>2 DEF RoundTruthful, Seen, p
  <2>4. UNCHANGED <<pop, prober, network, region>>
    BY DEF NotMeasured, worldVars
  <2> QED
    BY <1>3, <1>4, <2>2, <2>3, <2>4
    DEF RoundTruthful, Seen, Reached, HungBy, Answered, Hangs
<1> QED BY <1>5, <1>6, <1>7

LEMMA StoreLatencyKeepsIInv ==
  ASSUME IInv, StoreLatency
  PROVE  IInv'
<1> USE DEF IInv
<1>1. results \in Seq(0..Default) /\ Len(results) = P /\ pc = "measure" /\ region \in Regions
  BY DEF TypeOK, StoreLatency
<1>2. results \in [Pops -> 0..Default]
  BY <1>1, LenProperties DEF Pops
<1>3. serial' \in 0..SerialMod - 1 /\ serial' <= serial + 1
  BY TickCounts DEF TypeOK, StoreLatency
<1>4. results' = <<>> /\ <<>> \in Seq(0..Default) /\ <<>> \in Seq({"ok", "error"}) /\ Len(<<>>) = 0
  BY DEF StoreLatency
<1>5. \/ region < R /\ region' = region + 1 /\ pc' = "measure"
      \/ region = R /\ region' = 1 /\ pc' = "sleep"
  BY <1>1, SizesAssumption DEF StoreLatency, MoreRegions, Regions
<1>6. region' \in Regions
  BY <1>1, <1>5, SizesAssumption DEF Regions
<1>7. /\ UNCHANGED <<pop, prober, network, late, cancelled, popstate, calm, faults>>
      /\ latency' = [latency EXCEPT ![region] = results]
      /\ measured' = measured \cup {region}
      /\ current' = IF calm THEN current \cup {region} ELSE current \ {region}
  BY DEF StoreLatency, worldVars
<1>8. TypeOK'
  <2>1. latency' \in [Regions -> [Pops -> 0..Default]]
    BY <1>1, <1>2, <1>7 DEF TypeOK
  <2>2. measured' \subseteq Regions /\ current' \subseteq measured'
    BY <1>1, <1>7 DEF TypeOK
  <2>3. results' \in Seq(IF pc' = "status" THEN {"ok", "error"} ELSE 0..Default)
    BY <1>4
  <2>4. Len(results') <= P
    BY <1>4, SizesAssumption
  <2>5. pc' \in {"start", "status", "measure", "sleep", "returned", "exited"}
    BY <1>5
  <2> QED BY <1>3, <1>6, <1>7, <2>1, <2>2, <2>3, <2>4, <2>5 DEF TypeOK
<1>9. Idle'
  BY <1>4 DEF Idle
<1>10. FirstRound'
  <2> SUFFICES ASSUME measured' # Regions
               PROVE  pc' = "measure" /\ measured' = 1..region' - 1 /\ serial' <= region'
    BY DEF FirstRound
  <2>1. measured # Regions
    BY <1>1, <1>7 DEF TypeOK
  <2>2. measured = 1..region - 1 /\ serial <= region
    BY <1>1, <2>1 DEF FirstRound
  <2>3. measured' = 1..region
    BY <1>1, <1>7, <2>2 DEF Regions
  <2>4. region < R /\ region' = region + 1 /\ pc' = "measure"
    BY <1>5, <2>3 DEF Regions
  <2> QED BY <1>1, <1>3, <2>2, <2>3, <2>4 DEF TypeOK, Regions
<1>11. RoundTruthful'
  <2> SUFFICES ASSUME calm, pc' = "measure"
               PROVE  RoundTruthful'
    BY <1>7 DEF RoundTruthful
  <2>1. late <=> HungBy(region, P)
    BY <1>1 DEF RoundTruthful
  <2>2. HungBy(region, P) <=> HungBy(region + 1, 0)
    BY <1>1, SizesAssumption DEF HungBy, Regions, Pops
  <2>3. region' = region + 1 /\ Len(results') = 0
    BY <1>4, <1>5
  <2>4. HungBy(region, Len(results))' <=> HungBy(region + 1, 0)
    BY <1>7, <2>3 DEF HungBy, Hangs
  <2> QED BY <1>7, <2>1, <2>2, <2>3, <2>4 DEF RoundTruthful
<1>12. StoreTruthful'
  <2>1. \A r, p : Seen(r, p)' = Seen(r, p)
    BY <1>7 DEF Seen, Reached, Answered, Hangs
  <2> SUFFICES ASSUME NEW r \in current', NEW p \in Pops
               PROVE  latency'[r][p] = Seen(r, p)
    BY <2>1 DEF StoreTruthful
  <2>2. CASE r = region
    <3>1. calm
      BY <1>7, <2>2
    <3>2. results[p] = Seen(region, p)
      BY <1>1, <3>1 DEF RoundTruthful, Pops
    <3> QED BY <1>1, <1>7, <2>2, <3>2 DEF TypeOK
  <2>3. CASE r # region
    <3>1. r \in current
      BY <1>7, <2>3
    <3> QED BY <1>7, <2>3, <3>1 DEF TypeOK, StoreTruthful
  <2> QED BY <2>2, <2>3
<1> QED BY <1>8, <1>9, <1>10, <1>11, <1>12

LEMMA SleepKeepsIInv ==
  ASSUME IInv, WakeUp \/ Return
  PROVE  IInv'
<1> USE DEF IInv
<1>1. results = <<>> /\ measured = Regions
  BY DEF Idle, FirstRound, WakeUp, Return
<1>2. <<>> \in Seq(0..Default) /\ <<>> \in Seq({"ok", "error"})
  OBVIOUS
<1>3. TypeOK'
  BY <1>1, <1>2 DEF TypeOK, WakeUp, Return, Expired, worldVars, storeVars
<1>4. Idle' /\ FirstRound' /\ RoundTruthful'
  BY <1>1 DEF Idle, FirstRound, RoundTruthful, WakeUp, Return
<1>5. StoreTruthful'
  BY StoreStays DEF WakeUp, Return, storeVars
<1> QED BY <1>3, <1>4, <1>5

(* After a change nothing that was measured counts.                        *)
LEMMA DisturbedKeepsIInv ==
  ASSUME IInv, Disturbed, TypeOK', UNCHANGED <<pc, region, results, serial, measured>>
  PROVE  IInv'
<1>1. Idle' /\ FirstRound'
  BY DEF IInv, Idle, FirstRound
<1>2. RoundTruthful' /\ StoreTruthful'
  BY DEF Disturbed, RoundTruthful, StoreTruthful
<1> QED BY <1>1, <1>2 DEF IInv

LEMMA ChangesKeepIInv ==
  ASSUME IInv,
         \/ \E p \in Pops : PopChanges(p)
         \/ \E r \in Regions : ProberChanges(r)
         \/ NetworkChanges
  PROVE  IInv'
<1>1. Fault /\ Disturbed /\ UNCHANGED <<pc, region, results, late, cancelled, storeVars, measured>>
  BY DEF PopChanges, ProberChanges, NetworkChanges
<1>2. pop' \in [Pops -> Conditions] /\ prober' \in [Regions -> Conditions] /\ network' \in Networks
  BY DEF IInv, TypeOK, PopChanges, ProberChanges, NetworkChanges
<1>3. faults' \in 0..MaxFaults
  BY <1>1, SizesAssumption DEF IInv, TypeOK, Fault
<1>4. TypeOK'
  BY <1>1, <1>2, <1>3 DEF IInv, TypeOK, Disturbed, storeVars
<1> QED BY <1>1, <1>4, DisturbedKeepsIInv DEF storeVars

LEMMA RestartKeepsIInv ==
  ASSUME IInv, Restart
  PROVE  IInv'
<1> USE DEF IInv
<1>1. faults' \in 0..MaxFaults
  BY SizesAssumption DEF TypeOK, Restart, Fault
<1>2. latency' \in [Regions -> [Pops -> 0..Default]] /\ popstate' \in [Pops -> {Unknown, "ok", "error"}]
  BY SizesAssumption DEF Restart, Unmeasured
<1>3. <<>> \in Seq(0..Default) /\ Len(<<>>) <= P /\ 1 \in Regions /\ 0 \in 0..SerialMod - 1
  BY SizesAssumption DEF Regions
<1>4. TypeOK'
  BY <1>1, <1>2, <1>3 DEF TypeOK, Restart, Disturbed, worldVars
<1>5. Idle' /\ FirstRound' /\ RoundTruthful' /\ StoreTruthful'
  BY DEF Idle, FirstRound, RoundTruthful, StoreTruthful, Restart, Disturbed
<1> QED BY <1>4, <1>5

(* The remaining steps change neither the world nor the store.             *)
LEMMA ContextKeepsIInv ==
  ASSUME IInv, DeadlinePasses \/ Cancel \/ WebFails
  PROVE  IInv'
<1> USE DEF IInv
<1>1. faults' \in 0..MaxFaults
  BY SizesAssumption DEF TypeOK, DeadlinePasses, Cancel, WebFails, Fault
<1>2. UNCHANGED <<worldVars, region, results, storeVars, measured, current>>
  BY DEF DeadlinePasses, Cancel, WebFails
<1>3. pc' = pc \/ (pc = "start" /\ pc' = "exited")
  BY DEF DeadlinePasses, Cancel, WebFails
<1>4. calm' = FALSE \/ (calm' = calm /\ pc' = "exited")
  BY DEF DeadlinePasses, Cancel, WebFails
<1>5. late' \in BOOLEAN /\ cancelled' \in BOOLEAN
  BY DEF TypeOK, DeadlinePasses, Cancel, WebFails
<1>6. TypeOK'
  BY <1>1, <1>2, <1>3, <1>4, <1>5 DEF TypeOK, worldVars, storeVars
<1>7. Idle' /\ FirstRound' /\ RoundTruthful'
  BY <1>2, <1>3, <1>4 DEF Idle, FirstRound, RoundTruthful, storeVars
<1>8. StoreTruthful'
  BY <1>2, StoreStays DEF storeVars
<1> QED BY <1>6, <1>7, <1>8
-----------------------------------------------------------------------------
(* What is stored, and what the worker has got so far, is what the world   *)
(* has to say, for as long as nothing has changed.                         *)
THEOREM Invariance == Spec => []IInv
<1>1. IInv /\ [Next]_vars => IInv'
  <2> SUFFICES ASSUME IInv, [Next]_vars PROVE IInv'
    OBVIOUS
  <2>1. CASE Worker
    BY <2>1, StartWebKeepsIInv, FetchStatusKeepsIInv, StoreStatusKeepsIInv,
       MeasuredKeepsIInv, NotMeasuredKeepsIInv, StoreLatencyKeepsIInv, SleepKeepsIInv
    DEF Worker
  <2>2. CASE World
    BY <2>2, ChangesKeepIInv, ContextKeepsIInv, RestartKeepsIInv DEF World
  <2>3. CASE UNCHANGED vars
    <3>1. UNCHANGED <<pop, prober, network, pc, region, results, late, cancelled, popstate,
                      latency, serial, measured, calm, current, faults>>
      BY <2>3 DEF vars, worldVars, storeVars
    <3>2. TypeOK' /\ Idle' /\ FirstRound'
      BY <3>1 DEF IInv, TypeOK, Idle, FirstRound
    <3>3. RoundTruthful'
      BY <3>1 DEF IInv, RoundTruthful, HungBy, Seen, Reached, Answered, Hangs
    <3>4. StoreTruthful'
      BY <3>1, StoreStays DEF IInv, worldVars
    <3> QED BY <3>2, <3>3, <3>4 DEF IInv
  <2> QED BY <2>1, <2>2, <2>3 DEF Next
<1> QED BY InitIInv, <1>1, PTL DEF Spec

(* Every variable keeps its type; in particular each round's results are   *)
(* as many as there are PoPs when they are stored.                         *)
THEOREM TypeCorrect == Spec => []TypeOK
<1>1. IInv => TypeOK
  BY DEF IInv
<1> QED BY <1>1, Invariance, PTL

(* Who waits for the serial to pass the number of regions finds all of     *)
(* them measured, however often the serial has wrapped.                    *)
THEOREM SerialIsTelling == Spec => []SerialTellsFirstRound
<1>1. IInv => SerialTellsFirstRound
  <2> SUFFICES ASSUME IInv, serial > R, measured # Regions PROVE FALSE
    BY DEF SerialTellsFirstRound
  <2>1. region <= R /\ serial \in Nat
    BY SizesAssumption DEF IInv, TypeOK, Regions
  <2> QED BY <2>1, SizesAssumption DEF IInv, FirstRound, TypeOK, Regions
<1> QED BY <1>1, Invariance, PTL

(* Whoever asks from a region that has been measured in a round without    *)
(* change gets the nearest PoP that its prober reaches.                    *)
LEMMA AnswersAreNearest ==
  ASSUME IInv, NEW r \in current, \E p \in Pops : Reached(r, p),
         NEW s \in Sources, RegionOf[s] = r
  PROVE  NearestReached(r, Answer(s)) /\ Answer(s) \in Pops
<1>1. r \in Regions /\ r # 0
  BY DEF IInv, TypeOK, Regions
<1>2. \A p \in Pops : latency[r][p] = Seen(r, p)
  BY DEF IInv, StoreTruthful
<1>3. \A p \in Pops : network[r][p] \in Nat /\ network[r][p] < Default
  BY <1>1, LatenciesAreSmall DEF IInv, TypeOK
<1>4. \A p \in Pops : latency[r][p] \in Nat
  BY <1>2, <1>3, SizesAssumption DEF Seen
<1>5. PICK o \in Pops : Reached(r, o)
  OBVIOUS
<1>6. latency[r][o] < Default
  BY <1>2, <1>3, <1>5 DEF Seen
<1>7. Answer(s) = FirstLeast(latency[r])
  BY <1>1, <1>6 DEF Answer
<1> DEFINE first == FirstLeast(latency[r])
<1>8. /\ first \in Pops
      /\ \A q \in Pops : \/ latency[r][first] < latency[r][q]
                         \/ latency[r][first] = latency[r][q] /\ first <= q
  BY <1>4, FirstLeastProperty
<1> HIDE DEF first
<1>9. latency[r][first] < Default
  BY <1>4, <1>6, <1>8, SizesAssumption
<1>10. Reached(r, first)
  BY <1>2, <1>8, <1>9, SizesAssumption DEF Seen
<1>11. NearestReached(r, first)
  <2>1. \A q \in Pops : Reached(r, q) => latency[r][q] = network[r][q]
    BY <1>2 DEF Seen
  <2> QED BY <1>8, <1>10, <2>1 DEF NearestReached, NearestOf
<1> QED BY <1>7, <1>8, <1>11 DEF first

THEOREM NearestIsAnswered == Spec => []MeasuredRegionGetsNearest
<1>1. IInv => MeasuredRegionGetsNearest
  BY AnswersAreNearest DEF MeasuredRegionGetsNearest, SourcesOf, IInv, TypeOK
<1> QED BY <1>1, Invariance, PTL

(* What Query answers is read from the latencies alone.                    *)
LEMMA AnswerReadsLatencies ==
  ASSUME latency' = latency, NEW s \in Sources
  PROVE  Answer(s)' = Answer(s)
<1>1. getMostAveragePop' = getMostAveragePop
  BY DEF getMostAveragePop, MapThenSumSet, MapThenFoldSet
<1> QED BY <1>1 DEF Answer

(* A serial is never that of the update before.                            *)
LEMMA TickMoves ==
  ASSUME serial \in 0..SerialMod - 1, Tick
  PROVE  serial' # serial
<1>1. CASE serial = SerialMod - 1
  <2>1. SerialMod % SerialMod = 0 BY SizesAssumption
  <2> QED BY <1>1, <2>1, SizesAssumption DEF Tick
<1>2. CASE serial # SerialMod - 1
  <2>1. (serial + 1) % SerialMod = serial + 1
    BY <1>2, SizesAssumption
  <2> QED BY <2>1, SizesAssumption DEF Tick
<1> QED BY <1>1, <1>2

(* While a process lives, no source is answered differently before the     *)
(* serial of the SOA record has moved (UpdateLatency stores latencies and  *)
(* counts under one lock, core.go lines 192 to 195).                       *)
THEOREM AnswersKeep == Spec => AnswersKeepToSerial
<1>1. TypeOK /\ [Next]_vars =>
        [pc' = "start" \/ serial' # serial \/ \A s \in Sources : Answer(s)' = Answer(s)]_vars
  <2> SUFFICES ASSUME TypeOK, Next, pc' # "start", serial' = serial, NEW s \in Sources
               PROVE  Answer(s)' = Answer(s)
    OBVIOUS
  <2>1. ~StoreLatency
    <3>1. StoreLatency => Tick BY DEF StoreLatency
    <3>2. serial \in 0..SerialMod - 1 BY DEF TypeOK
    <3> QED BY <3>1, <3>2, TickMoves
  <2>2. ~Restart
    BY DEF Restart
  <2>3. latency' = latency
    BY <2>1, <2>2 DEF Next, Worker, World, StartWeb, FetchStatus, StoreStatus, Measured,
                      NotMeasured, WakeUp, Return, PopChanges, ProberChanges,
                      NetworkChanges, DeadlinePasses, Cancel, WebFails, storeVars
  <2> QED BY <2>3, AnswerReadsLatencies
<1> QED BY <1>1, TypeCorrect, PTL DEF Spec, AnswersKeepToSerial
=============================================================================

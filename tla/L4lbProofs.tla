----------------------------- MODULE L4lbProofs -----------------------------
(***************************************************************************)
(* Proofs about L4lb, for any number of destinations and slots, and any    *)
(* way to compute tables that Maglev's properties allow.                   *)
(***************************************************************************)
EXTENDS L4lb, FiniteSetTheorems, TLAPS

(* How far New and Close have come, and that the rounds of health checks   *)
(* do not overlap.                                                         *)
Phases ==
  /\ pc \in {"tick", "check", "close", "detached", "closed", "exited"} => booted
  /\ pc \in {"attach", "config", "entries"} => ~booted
  /\ ~booted => dead = {}
  /\ booted => entries
  /\ attacher # "none" => link \/ pc = "closed"
  /\ pc # "check" => \A d \in Dests : checks[d] = "done"

Done == {d \in Dests : checks[d] = "done"}

(* There are not more elements in changed than goroutines that have ended. *)
Counting ==
  /\ changed <= Cardinality(Done)
  /\ \A d \in Dests : checks[d] = "appending" => seen[d] <= Cardinality(Done)

Differs(d) == d \in dead <=> d \notin before

(* A destination that has changed is in changed, or on its way there; or   *)
(* another one has come after it.                                          *)
Noticing ==
  pc = "check" =>
    /\ \A d \in Dests : checks[d] \in {"probe", "ok", "failed"} => ~Differs(d)
    /\ \A d \in Dests : checks[d] \in {"append", "appending"} => Differs(d)
    /\ changed > 0 <=> \E d \in Done : Differs(d)

(* The kernel's table holds what the last complete update has written.     *)
Tables ==
  /\ pc = "put" =>
       /\ Alive # {} /\ target = Lookup[Alive]
       /\ \A c \in Slots : c < next => lookup[c] = target[c]
  /\ pc \in {"attach", "config", "entries", "tick"} /\ ~stale /\ Alive # {} =>
       lookup = Lookup[Alive]
  /\ pc = "check" /\ ~stale /\ Dests \ before # {} => lookup = Lookup[Dests \ before]
  /\ booted \/ config \/ pc \in {"attach", "config", "entries"} =>
       \A c \in Slots : lookup[c] \in Dests

IInv == TypeOK /\ Phases /\ Counting /\ Noticing /\ Tables
-----------------------------------------------------------------------------
LEMMA DoneIsSmall ==
  /\ IsFiniteSet(Dests)
  /\ IsFiniteSet(Done) /\ Cardinality(Done) \in 0..N
<1>1. IsFiniteSet(Dests) /\ Cardinality(Dests) = N
  BY SizesAssumption, FS_Interval DEF Dests
<1>2. Done \subseteq Dests
  BY DEF Done
<1>3. IsFiniteSet(Done) /\ Cardinality(Done) <= N
  BY <1>1, <1>2, FS_Subset
<1> QED BY <1>1, <1>3, FS_CardinalityType, SizesAssumption

LEMMA FaultCounts ==
  ASSUME faults \in 0..MaxFaults, Fault
  PROVE  faults' \in 0..MaxFaults
BY SizesAssumption DEF Fault

LEMMA CountingStays ==
  ASSUME Counting, UNCHANGED <<checks, seen, changed>>
  PROVE  Counting'
<1>1. Done' = Done
  BY DEF Done
<1> QED BY <1>1 DEF Counting

LEMMA TableOfAlive ==
  ASSUME NEW A, A \subseteq Dests, A # {}
  PROVE  /\ Lookup[A] \in [Slots -> 0..N]
         /\ \A c \in Slots : Lookup[A][c] \in Dests
<1>1. Lookup[A] \in [Slots -> A]
  BY LookupAssumption
<1> QED BY <1>1 DEF Dests

LEMMA InitIInv == Init => IInv
<1> SUFFICES ASSUME Init PROVE IInv
  OBVIOUS
<1>1. 0 \in Slots /\ 0 \in 0..N /\ 0 \in 0..MaxFaults
  BY SizesAssumption DEF Slots
<1>2. checks \in [Dests -> {"probe", "ok", "failed", "append", "appending", "done"}]
  BY DEF Init
<1>3. seen \in [Dests -> 0..N] /\ target \in [Slots -> 0..N] /\ lookup \in [Slots -> 0..N]
  BY <1>1 DEF Init, Zeroes
<1>4. TypeOK
  BY <1>1, <1>2, <1>3 DEF Init, TypeOK
<1>5. Counting
  BY DoneIsSmall DEF Init, Counting
<1>6. Phases /\ Noticing /\ Tables
  BY DEF Init, Phases, Noticing, Tables
<1> QED BY <1>4, <1>5, <1>6 DEF IInv
-----------------------------------------------------------------------------
(* PopulateLookupTable *)

LEMMA ComputeKeepsIInv ==
  ASSUME IInv, AllDead \/ Compute
  PROVE  IInv'
<1> USE DEF IInv
<1>1. pc = "populate" /\ UNCHANGED <<healthy, booted, dead, checkVars, lookup, stale, mapVars,
                                     linkVars, faults>>
  BY DEF AllDead, Compute, tableVars
<1>2. Alive \subseteq Dests /\ 0 \in Slots
  BY SizesAssumption DEF Alive, Slots
<1>3. \/ Alive = {} /\ booted /\ pc' = "tick" /\ UNCHANGED <<target, next>>
      \/ Alive # {} /\ pc' = "put" /\ next' = 0 /\ target' = Lookup[Alive]
  <2>1. ~booted => Alive # {}
    BY SizesAssumption DEF Phases, Alive, Dests
  <2> QED BY <2>1 DEF AllDead, Compute, AfterPopulate, TableFor, tableVars
<1>4. TypeOK'
  <2>1. target' \in [Slots -> 0..N] /\ next' \in Slots
    BY <1>2, <1>3, TableOfAlive DEF TypeOK
  <2>2. pc' \in {"tick", "put"}
    BY <1>3
  <2> QED BY <1>1, <2>1, <2>2 DEF TypeOK, checkVars, mapVars, linkVars
<1>5. Phases'
  BY <1>1, <1>3 DEF Phases, checkVars, mapVars, linkVars
<1>6. Counting' /\ Noticing'
  BY <1>1, <1>3, CountingStays DEF Noticing, checkVars
<1>7. Tables'
  <2>1. Alive' = Alive
    BY <1>1 DEF Alive
  <2>2. \A c \in Slots : ~(c < 0)
    BY DEF Slots
  <2> QED BY <1>1, <1>3, <2>1, <2>2 DEF Tables, mapVars
<1> QED BY <1>4, <1>5, <1>6, <1>7

LEMMA PutEntryKeepsIInv ==
  ASSUME IInv, PutEntry
  PROVE  IInv'
<1> USE DEF IInv
<1>1. pc = "put" /\ UNCHANGED <<healthy, booted, dead, checkVars, target, mapVars, linkVars, faults>>
  BY DEF PutEntry
<1>2. next \in Slots /\ lookup \in [Slots -> 0..N] /\ target \in [Slots -> 0..N]
  BY DEF TypeOK
<1>3. lookup' = [lookup EXCEPT ![next] = target[next]]
  BY DEF PutEntry
<1>4. \/ next + 1 = M /\ pc' = AfterPopulate /\ stale' = FALSE /\ next' = 0
      \/ next + 1 < M /\ pc' = "put" /\ stale' = stale /\ next' = next + 1
  <2>1. next \in Nat /\ next < M /\ M \in Nat
    BY <1>2, SizesAssumption DEF Slots
  <2>2. CASE next + 1 = M
    BY <1>1, <2>2 DEF PutEntry, LastEntry
  <2>3. CASE next + 1 # M
    <3>1. next + 1 < M BY <2>1, <2>3
    <3> QED BY <1>1, <2>3, <3>1 DEF PutEntry, LastEntry
  <2> QED BY <2>2, <2>3
<1>5. next' \in Slots /\ lookup' \in [Slots -> 0..N]
  <2>1. next' \in Slots
    <3>1. next \in Nat /\ M \in Nat \ {0} /\ Slots = 0..M - 1
      BY <1>2, SizesAssumption DEF Slots
    <3> QED BY <1>4, <3>1
  <2>2. lookup' \in [Slots -> 0..N]
    <3>1. target[next] \in 0..N BY <1>2
    <3> QED BY <1>2, <1>3, <3>1
  <2> QED BY <2>1, <2>2
<1>6. pc' \in {"put", "tick", "attach"} /\ (pc' = "tick" => booted) /\ (pc' = "attach" => ~booted)
  BY <1>4 DEF AfterPopulate
<1>7. TypeOK'
  BY <1>1, <1>4, <1>5, <1>6 DEF TypeOK, checkVars, mapVars, linkVars
<1>8. Phases'
  BY <1>1, <1>6 DEF Phases, checkVars, mapVars, linkVars
<1>9. Counting' /\ Noticing'
  BY <1>1, <1>6, CountingStays DEF Noticing, checkVars
<1>10. Tables'
  <2>1. Alive' = Alive /\ Alive # {} /\ Alive \subseteq Dests /\ target = Lookup[Alive]
    BY <1>1 DEF Alive, Tables
  <2>2. \A c \in Slots : c <= next => lookup'[c] = target[c]
    BY <1>1, <1>2, <1>3 DEF Tables, Slots
  <2>3. \A c \in Slots : lookup[c] \in Dests => lookup'[c] \in Dests
    BY <1>2, <1>3, <2>1, TableOfAlive
  <2>4. CASE pc' = "put"
    <3>1. next' = next + 1
      BY <1>4, <2>4 DEF AfterPopulate
    <3>2. \A c \in Slots : c < next' => lookup'[c] = target[c]
      BY <1>2, <2>2, <3>1 DEF Slots
    <3>3. booted' \/ config' => \A c \in Slots : lookup'[c] \in Dests
      BY <1>1, <2>3 DEF Tables, mapVars
    <3> QED BY <1>1, <2>1, <2>4, <3>2, <3>3 DEF Tables, mapVars
  <2>5. CASE pc' # "put"
    <3>1. next + 1 = M
      BY <1>4, <2>5
    <3>2. \A c \in Slots : lookup'[c] = target[c]
      BY <1>2, <2>2, <3>1, SizesAssumption DEF Slots
    <3>3. lookup' = target
      BY <1>2, <1>5, <3>2
    <3> QED BY <1>6, <2>1, <2>5, <3>3, TableOfAlive DEF Tables
  <2> QED BY <2>4, <2>5
<1> QED BY <1>7, <1>8, <1>9, <1>10

LEMMA PutFailsKeepsIInv ==
  ASSUME IInv, PutFails
  PROVE  IInv'
<1> USE DEF IInv
<1>1. /\ pc = "put" /\ stale' = TRUE
      /\ UNCHANGED <<healthy, booted, dead, checkVars, tableVars, mapVars, linkVars>>
  BY DEF PutFails
<1>2. (booted /\ pc' = "tick") \/ (~booted /\ pc' = "crashed")
  BY DEF PutFails, AfterError
<1>3. faults' \in 0..MaxFaults
  BY FaultCounts DEF TypeOK, PutFails
<1>4. TypeOK'
  BY <1>1, <1>2, <1>3 DEF TypeOK, checkVars, tableVars, mapVars, linkVars
<1>5. Phases' /\ Noticing' /\ Counting'
  BY <1>1, <1>2, CountingStays DEF Phases, Noticing, checkVars, mapVars, linkVars
<1>6. Tables'
  BY <1>1, <1>2 DEF Tables, tableVars, mapVars
<1> QED BY <1>4, <1>5, <1>6

(* Steps that end the process or leave the round and the tables alone.     *)
LEMMA QuietKeepsIInv ==
  ASSUME IInv, TypeOK', UNCHANGED <<booted, dead, checkVars, tableVars, stale, entries>>,
         config' => config \/ pc = "config",
         attacher' # "none" => link' \/ pc' = "closed",
         \/ pc' = pc
         \/ pc # "check" /\ pc' = "crashed"
         \/ pc = "attach" /\ pc' = "config"
         \/ pc = "config" /\ pc' = "entries"
         \/ pc = "tick" /\ pc' = "close"
         \/ pc \in {"close", "detached", "closed"} /\ pc' \in {"detached", "closed", "exited"}
  PROVE  IInv'
<1> USE DEF IInv
<1>1. Phases'
  BY DEF Phases, checkVars, linkVars
<1>2. Counting'
  BY CountingStays DEF checkVars
<1>3. Noticing'
  <2>1. Done' = Done /\ \A d : Differs(d)' <=> Differs(d)
    BY DEF Done, Differs, checkVars
  <2> QED BY <2>1 DEF Noticing, checkVars
<1>4. Tables'
  <2>1. Alive' = Alive
    BY DEF Alive
  <2> QED BY <2>1 DEF Tables, tableVars, checkVars, mapVars
<1> QED BY <1>1, <1>2, <1>3, <1>4

(* The rest of New *)

LEMMA NewKeepsIInv ==
  ASSUME IInv, Attach \/ AttachFails \/ SyncConfig \/ SyncFails
  PROVE  IInv'
<1>1. faults' \in 0..MaxFaults
  BY FaultCounts DEF IInv, TypeOK, Attach, AttachFails, SyncConfig, SyncFails
<1>2. TypeOK'
  BY <1>1 DEF IInv, TypeOK, Attach, AttachFails, SyncConfig, SyncFails,
              checkVars, tableVars, mapVars, linkVars
<1> QED
  BY <1>2, QuietKeepsIInv
  DEF IInv, Phases, Attach, AttachFails, SyncConfig, SyncFails, mapVars, linkVars

LEMMA SyncEntriesKeepsIInv ==
  ASSUME IInv, SyncEntries
  PROVE  IInv'
<1> USE DEF IInv
<1>1. TypeOK'
  BY DEF TypeOK, SyncEntries, checkVars, tableVars, linkVars
<1>2. Phases' /\ Counting' /\ Noticing'
  BY CountingStays DEF Phases, Noticing, SyncEntries, checkVars, linkVars
<1>3. Tables'
  <2>1. Alive' = Alive
    BY DEF Alive, SyncEntries
  <2> QED BY <2>1 DEF Tables, SyncEntries, tableVars
<1> QED BY <1>1, <1>2, <1>3
-----------------------------------------------------------------------------
(* A round of health checks *)

LEMMA StartChecksKeepsIInv ==
  ASSUME IInv, StartChecks
  PROVE  IInv'
<1> USE DEF IInv
<1>1. /\ pc = "tick" /\ pc' = "check" /\ checks' = [d \in Dests |-> "probe"]
      /\ changed' = 0 /\ before' = dead
      /\ UNCHANGED <<healthy, booted, dead, seen, tableVars, stale, mapVars, linkVars, faults>>
  BY DEF StartChecks
<1>2. checks' \in [Dests -> {"probe", "ok", "failed", "append", "appending", "done"}]
  BY <1>1
<1>3. TypeOK'
  BY <1>1, <1>2, SizesAssumption DEF TypeOK, tableVars, mapVars, linkVars
<1>4. Phases'
  BY <1>1 DEF Phases, mapVars, linkVars
<1>5. Done' = {}
  BY <1>1 DEF Done
<1>6. Counting'
  BY <1>1, <1>5, FS_EmptySet DEF Counting
<1>7. Noticing'
  BY <1>1, <1>5 DEF Noticing, Differs
<1>8. Tables'
  BY <1>1 DEF Tables, tableVars, Alive, Phases, mapVars
<1> QED BY <1>3, <1>4, <1>6, <1>7, <1>8

(* Steps of one goroutine: the table stays as it is.                       *)
LEMMA TablesStay ==
  ASSUME Tables, pc = "check", UNCHANGED <<pc, booted, before, stale, lookup, config>>
  PROVE  Tables'
BY DEF Tables

LEMMA GoroutineIsChecked ==
  ASSUME Phases, NEW d \in Dests, checks[d] # "done"
  PROVE  pc = "check" /\ booted
BY DEF Phases

(* More goroutines have ended.                                             *)
LEMMA CountingGrows ==
  ASSUME Counting, TypeOK, TypeOK', Done \subseteq Done', UNCHANGED <<seen, changed>>,
         \A d \in Dests : checks'[d] = "appending" => checks[d] = "appending"
  PROVE  Counting'
<1>1. IsFiniteSet(Dests)
  BY DoneIsSmall
<1>2. IsFiniteSet(Done') /\ Cardinality(Done') \in Nat
  <2>1. Done' \subseteq Dests
    BY DEF Done
  <2> QED BY <1>1, <2>1, FS_Subset, FS_CardinalityType
<1>3. Cardinality(Done) <= Cardinality(Done') /\ Cardinality(Done) \in Nat
  BY <1>2, FS_Subset, DoneIsSmall
<1> QED BY <1>2, <1>3 DEF Counting, TypeOK

LEMMA ProbeKeepsIInv ==
  ASSUME IInv, NEW d \in Dests, Probe(d) \/ ProbeTimesOut(d)
  PROVE  IInv'
<1> USE DEF IInv
<1>1. /\ checks[d] = "probe"
      /\ \E v \in {"ok", "failed"} : checks' = [checks EXCEPT ![d] = v]
      /\ UNCHANGED <<healthy, pc, booted, dead, seen, changed, before, tableVars,
                     stale, mapVars, linkVars>>
  BY DEF Probe, ProbeTimesOut
<1>2. faults' \in 0..MaxFaults
  BY FaultCounts DEF TypeOK, Probe, ProbeTimesOut
<1>3. pc = "check" /\ booted
  BY <1>1, GoroutineIsChecked
<1>4. TypeOK'
  BY <1>1, <1>2 DEF TypeOK, tableVars, mapVars, linkVars
<1>5. Phases' /\ Tables'
  BY <1>1, <1>3, TablesStay DEF Phases, mapVars, tableVars, linkVars
<1>6. Done' = Done
  BY <1>1 DEF Done, TypeOK
<1>7. Counting'
  BY <1>1, <1>4, <1>6, CountingGrows DEF TypeOK
<1>8. Noticing'
  BY <1>1, <1>3, <1>6 DEF Noticing, Differs, TypeOK
<1> QED BY <1>4, <1>5, <1>7, <1>8

LEMMA JudgeKeepsIInv ==
  ASSUME IInv, NEW d \in Dests, Judge(d)
  PROVE  IInv'
<1> USE DEF IInv
<1>1. /\ checks[d] \in {"ok", "failed"}
      /\ dead' = IF checks[d] = "ok" THEN dead \ {d} ELSE dead \cup {d}
      /\ checks' = [checks EXCEPT ![d] = IF dead' = dead THEN "done" ELSE "append"]
      /\ UNCHANGED <<healthy, pc, booted, seen, changed, before, tableVars, stale,
                     mapVars, linkVars, faults>>
  BY DEF Judge, DeadAfter
<1>2. pc = "check" /\ booted
  BY <1>1, GoroutineIsChecked
<1>3. TypeOK'
  BY <1>1 DEF TypeOK, tableVars, mapVars, linkVars
<1>4. Phases' /\ Tables'
  BY <1>1, <1>2, TablesStay DEF Phases, mapVars, tableVars, linkVars
<1>5. Counting'
  <2>1. Done \subseteq Done' /\ \A e \in Dests : checks'[e] = "appending" => checks[e] = "appending"
    BY <1>1 DEF Done, TypeOK
  <2> QED BY <1>1, <1>3, <2>1, CountingGrows
<1>6. Noticing'
  <2>1. \A e \in Dests : e # d => (Differs(e)' <=> Differs(e)) /\ checks'[e] = checks[e]
    BY <1>1 DEF Differs, TypeOK
  <2>2. ~Differs(d)
    BY <1>1, <1>2 DEF Noticing
  <2>3. CASE dead' = dead
    <3>1. ~Differs(d)' /\ Done' = Done \cup {d} /\ checks'[d] = "done"
      BY <1>1, <2>2, <2>3 DEF Differs, Done, TypeOK
    <3>2. (\E e \in Done' : Differs(e)') <=> (\E e \in Done : Differs(e))
      BY <1>1, <2>1, <3>1 DEF Done
    <3> QED BY <1>1, <1>2, <2>1, <3>1, <3>2 DEF Noticing
  <2>4. CASE dead' # dead
    <3>1. Differs(d)' /\ Done' = Done /\ checks'[d] = "append"
      BY <1>1, <2>2, <2>4 DEF Differs, Done, TypeOK
    <3>2. (\E e \in Done' : Differs(e)') <=> (\E e \in Done : Differs(e))
      BY <1>1, <2>1, <3>1 DEF Done
    <3> QED BY <1>1, <1>2, <2>1, <3>1, <3>2 DEF Noticing
  <2> QED BY <2>3, <2>4
<1> QED BY <1>3, <1>4, <1>5, <1>6

LEMMA AppendReadKeepsIInv ==
  ASSUME IInv, NEW d \in Dests, AppendRead(d)
  PROVE  IInv'
<1> USE DEF IInv
<1>1. /\ checks[d] = "append"
      /\ checks' = [checks EXCEPT ![d] = "appending"]
      /\ seen' = [seen EXCEPT ![d] = changed]
      /\ UNCHANGED <<healthy, pc, booted, dead, changed, before, tableVars, stale,
                     mapVars, linkVars, faults>>
  BY DEF AppendRead
<1>2. pc = "check" /\ booted
  BY <1>1, GoroutineIsChecked
<1>3. TypeOK'
  BY <1>1 DEF TypeOK, tableVars, mapVars, linkVars
<1>4. Phases' /\ Tables'
  BY <1>1, <1>2, TablesStay DEF Phases, mapVars, tableVars, linkVars
<1>5. Done' = Done
  BY <1>1 DEF Done, TypeOK
<1>6. Counting'
  BY <1>1, <1>5 DEF Counting, TypeOK
<1>7. Noticing'
  BY <1>1, <1>2, <1>5 DEF Noticing, Differs, TypeOK
<1> QED BY <1>3, <1>4, <1>6, <1>7

LEMMA AppendWriteKeepsIInv ==
  ASSUME IInv, NEW d \in Dests, AppendWrite(d)
  PROVE  IInv'
<1> USE DEF IInv
<1>1. /\ checks[d] = "appending"
      /\ checks' = [checks EXCEPT ![d] = "done"]
      /\ changed' = seen[d] + 1
      /\ UNCHANGED <<healthy, pc, booted, dead, seen, before, tableVars, stale,
                     mapVars, linkVars, faults>>
  BY DEF AppendWrite, Appended
<1>2. pc = "check" /\ booted
  BY <1>1, GoroutineIsChecked
<1>3. seen[d] \in Nat /\ seen[d] <= Cardinality(Done) /\ seen \in [Dests -> 0..N]
  BY <1>1, SizesAssumption DEF TypeOK, Counting
<1>4. d \notin Done /\ Done' = Done \cup {d}
  BY <1>1 DEF Done, TypeOK
<1>5. Cardinality(Done') = Cardinality(Done) + 1
  BY <1>4, FS_AddElement, DoneIsSmall
<1>6. Cardinality(Done') <= N /\ Cardinality(Done) \in Nat
  <2>1. Cardinality(Dests) = N /\ IsFiniteSet(Dests)
    BY SizesAssumption, FS_Interval DEF Dests
  <2>2. Done' \subseteq Dests
    BY DEF Done
  <2> QED BY <2>1, <2>2, FS_Subset, DoneIsSmall
<1>7. changed' \in 0..N /\ changed' <= Cardinality(Done')
  BY <1>1, <1>3, <1>5, <1>6, SizesAssumption
<1>8. TypeOK'
  BY <1>1, <1>7 DEF TypeOK, tableVars, mapVars, linkVars
<1>9. Phases' /\ Tables'
  BY <1>1, <1>2, TablesStay DEF Phases, mapVars, tableVars, linkVars
<1>10. Counting'
  <2>1. \A e \in Dests : checks'[e] = "appending" => seen'[e] <= Cardinality(Done')
    BY <1>1, <1>3, <1>5, <1>6, SizesAssumption DEF Counting, TypeOK
  <2> QED BY <1>7, <2>1 DEF Counting
<1>11. Noticing'
  <2>1. \A e : Differs(e)' <=> Differs(e)
    BY <1>1 DEF Differs
  <2>2. Differs(d)
    BY <1>1, <1>2 DEF Noticing
  <2>3. changed' > 0
    BY <1>1, <1>3
  <2> QED BY <1>1, <1>2, <1>4, <2>1, <2>2, <2>3 DEF Noticing, TypeOK
<1> QED BY <1>8, <1>9, <1>10, <1>11

LEMMA AppendTornKeepsIInv ==
  ASSUME IInv, NEW d \in Dests, AppendTorn(d)
  PROVE  IInv'
<1> USE DEF IInv
<1>1. /\ checks[d] = "append" /\ changed = 0 /\ pc' = "crashed"
      /\ checks' = [e \in Dests |-> "done"]
      /\ attacher' = "none"
      /\ UNCHANGED <<healthy, booted, dead, seen, changed, before, tableVars, stale,
                     mapVars, attached, link, faults>>
  BY DEF AppendTorn
<1>2. pc = "check" /\ booted
  BY <1>1, GoroutineIsChecked
<1>3. checks' \in [Dests -> {"probe", "ok", "failed", "append", "appending", "done"}]
  BY <1>1
<1>4. TypeOK'
  BY <1>1, <1>3 DEF TypeOK, tableVars, mapVars
<1>5. Phases' /\ Noticing'
  BY <1>1, <1>2 DEF Phases, Noticing, mapVars, linkVars
<1>6. Counting'
  BY <1>1, <1>4, CountingGrows DEF Done
<1>7. Tables'
  BY <1>1, <1>2 DEF Tables, tableVars, mapVars
<1> QED BY <1>4, <1>5, <1>6, <1>7

(* At the end of a round, changed is empty exactly if nothing has changed. *)
LEMMA RoundIsNoticed ==
  ASSUME IInv, pc = "check", \A d \in Dests : checks[d] = "done"
  PROVE  changed > 0 <=> dead # before
<1>1. changed > 0 <=> \E d \in Dests : Differs(d)
  BY DEF IInv, Noticing, Done
<1> QED BY <1>1 DEF IInv, TypeOK, Differs

LEMMA ChecksDoneKeepsIInv ==
  ASSUME IInv, ChecksDone
  PROVE  IInv'
<1> USE DEF IInv
<1>1. /\ pc = "check" /\ \A d \in Dests : checks[d] = "done"
      /\ UNCHANGED <<healthy, booted, dead, checkVars, tableVars, stale, mapVars, linkVars, faults>>
  BY DEF ChecksDone
<1>2. \/ dead # before /\ pc' = "populate"
      \/ dead = before /\ pc' = "tick"
  BY <1>1, RoundIsNoticed DEF ChecksDone
<1>3. TypeOK'
  BY <1>1, <1>2 DEF TypeOK, checkVars, tableVars, mapVars, linkVars
<1>4. Phases' /\ Counting' /\ Noticing'
  BY <1>1, <1>2, CountingStays DEF Phases, Noticing, checkVars, mapVars, linkVars
<1>5. Tables'
  BY <1>1, <1>2 DEF Tables, Alive, Phases, tableVars
<1> QED BY <1>3, <1>4, <1>5
-----------------------------------------------------------------------------
(* The end of the process, and what happens around it *)

LEMMA EndKeepsIInv ==
  ASSUME IInv, Signal \/ Detach \/ Forget \/ DetachFails \/ Exit
  PROVE  IInv'
<1>1. faults' \in 0..MaxFaults
  BY FaultCounts DEF IInv, TypeOK, Signal, Detach, Forget, DetachFails, Exit
<1>2. TypeOK'
  BY <1>1 DEF IInv, TypeOK, Signal, Detach, Forget, DetachFails, Exit,
              checkVars, tableVars, mapVars, linkVars
<1> QED
  BY <1>2, QuietKeepsIInv
  DEF IInv, Phases, Signal, Detach, Forget, DetachFails, Exit, mapVars, linkVars

LEMMA AttacherKeepsIInv ==
  ASSUME IInv, Attacher \/ ReattachFails
  PROVE  IInv'
<1>1. /\ faults' \in 0..MaxFaults /\ attached' \in BOOLEAN
      /\ attacher' \in {"none", "waiting", "ticking"}
      /\ UNCHANGED <<healthy, booted, dead, checkVars, tableVars, stale, mapVars, link>>
  BY FaultCounts DEF IInv, TypeOK, Attacher, Tick, TickPanics, Reattach, ReattachFails, AfterTick
<1>2. pc' = pc \/ (pc # "check" /\ pc' = "crashed")
  <2>1. CASE TickPanics
    BY <2>1 DEF TickPanics, IInv, Phases
  <2>2. CASE Tick \/ Reattach \/ ReattachFails
    BY <2>2 DEF Tick, Reattach, ReattachFails
  <2> QED BY <2>1, <2>2 DEF Attacher
<1>3. TypeOK'
  BY <1>1, <1>2 DEF IInv, TypeOK, checkVars, tableVars, mapVars
<1>4. attacher' # "none" => link' \/ pc' = "closed"
  BY DEF IInv, Phases, Attacher, Tick, TickPanics, Reattach, ReattachFails, AfterTick
<1> QED BY <1>1, <1>2, <1>3, <1>4, QuietKeepsIInv DEF mapVars

LEMMA AroundKeepsIInv ==
  ASSUME IInv, LinkDetaches \/ \E d \in Dests : GoesDown(d) \/ ComesUp(d)
  PROVE  IInv'
<1>1. faults' \in 0..MaxFaults
  BY FaultCounts DEF IInv, TypeOK, LinkDetaches, GoesDown, ComesUp
<1>2. healthy' \subseteq Dests
  BY DEF IInv, TypeOK, LinkDetaches, GoesDown, ComesUp
<1>3. attached' \in BOOLEAN
      /\ UNCHANGED <<pc, booted, dead, checkVars, tableVars, stale, mapVars, link, attacher>>
  BY DEF IInv, TypeOK, LinkDetaches, GoesDown, ComesUp, linkVars
<1>4. TypeOK'
  BY <1>1, <1>2, <1>3 DEF IInv, TypeOK, checkVars, tableVars, mapVars
<1> QED BY <1>3, <1>4, QuietKeepsIInv DEF IInv, Phases, mapVars
-----------------------------------------------------------------------------
(* The table in the kernel is told from the destinations that are held to  *)
(* be dead, and a round of health checks from those before it.             *)
THEOREM Invariance == Spec => []IInv
<1>1. IInv /\ [Next]_vars => IInv'
  <2> SUFFICES ASSUME IInv, [Next]_vars PROVE IInv'
    OBVIOUS
  <2>1. CASE Main
    BY <2>1, ComputeKeepsIInv, PutEntryKeepsIInv, NewKeepsIInv, SyncEntriesKeepsIInv,
       StartChecksKeepsIInv, ChecksDoneKeepsIInv, EndKeepsIInv
    DEF Main
  <2>2. CASE Attacher
    BY <2>2, AttacherKeepsIInv
  <2>3. CASE Environment
    BY <2>3, PutFailsKeepsIInv, NewKeepsIInv, EndKeepsIInv, AttacherKeepsIInv,
       AroundKeepsIInv, ProbeKeepsIInv, AppendTornKeepsIInv
    DEF Environment
  <2>4. CASE \E d \in Dests : Check(d)
    BY <2>4, ProbeKeepsIInv, JudgeKeepsIInv, AppendReadKeepsIInv, AppendWriteKeepsIInv
    DEF Check
  <2>5. CASE UNCHANGED vars
    <3>1. UNCHANGED <<healthy, pc, booted, dead, checkVars, tableVars, stale, mapVars,
                      linkVars, faults>>
      BY <2>5 DEF vars
    <3>2. TypeOK'
      BY <3>1 DEF IInv, TypeOK, checkVars, tableVars, mapVars, linkVars
    <3> QED BY <3>1, <3>2, QuietKeepsIInv DEF IInv, Phases, mapVars, linkVars
  <2> QED BY <2>1, <2>2, <2>3, <2>4, <2>5 DEF Next
<1> QED BY InitIInv, <1>1, PTL DEF Spec

(* Every variable keeps its type: in particular the unlocked appends never *)
(* make changed longer than there are destinations.                        *)
THEOREM TypeCorrect == Spec => []TypeOK
<1>1. IInv => TypeOK
  BY DEF IInv
<1> QED BY <1>1, Invariance, PTL

(* Whichever elements the appends lose, a round reports a change exactly   *)
(* if there is one.                                                        *)
THEOREM RoundsNotice == Spec => []ChangeNoticed
<1>1. IInv => ChangeNoticed
  BY RoundIsNoticed DEF ChangeNoticed
<1> QED BY <1>1, Invariance, PTL

(* Between two rounds the kernel has the table for the destinations that   *)
(* are held to be alive, unless a write has failed.                        *)
THEOREM TableFollows == Spec => []TableMatchesHealth
<1>1. IInv => TableMatchesHealth
  BY DEF IInv, Tables, TableMatchesHealth
<1> QED BY <1>1, Invariance, PTL

(* Whenever the program balances, every slot names a destination, and once *)
(* New has returned no packet is sent to a zeroed entry.                   *)
THEOREM PacketsHaveDestination == Spec => []NoPacketToNowhere
<1>1. IInv => NoPacketToNowhere
  BY DEF IInv, Phases, Tables, NoPacketToNowhere, Balancing
<1> QED BY <1>1, Invariance, PTL
=============================================================================

------------------------------- MODULE Maglev -------------------------------
(***************************************************************************)
(* PopulateLookupTable of l4lb/l4lbdrv/drv.go up to the point where the    *)
(* table is handed to the data plane: the Maglev fill loop, probe by       *)
(* probe, run again and again as destinations die and come back.           *)
(*                                                                         *)
(* The hash of a destination's address is an input: hash[i] holds the      *)
(* offset and the skip siphash gives destination i, the same in every run. *)
(* The code keeps the running offsets in the L4LB itself (lb.offsets), so  *)
(* one run leaves them changed for the next.                               *)
(***************************************************************************)
EXTENDS Integers, FiniteSets

CONSTANTS M,      \* MAGLEV_TABLE_SIZE, 65537 in the code
          N,      \* destinations 1..N; Dests[0] is the balancer itself
          Reports \* bound: the sets of dead destinations health checks report

Slots == 0..M - 1
Dests == 1..N

(* New refuses a configuration without a destination.                      *)
ASSUME SizesAssumption == M \in Nat /\ M > 1 /\ N \in Nat /\ N > 0
ASSUME ReportsAssumption == Reports \subseteq SUBSET Dests

(* 65537 is a prime; only the end of the loop depends on it.               *)
Prime(m) == m > 1 /\ \A a \in 2..m - 1, b \in 2..m - 1 : a * b # m

VARIABLES
  hash,      \* hash[i]: what siphash makes of the address of destination i
  dead,      \* lb.deadDests, as the set of the dead destinations
  offsets,   \* lb.offsets: the next slot each destination will probe
  table,     \* the table under construction, -1 where a slot is free
  n,         \* slots filled
  i,         \* the destination whose turn it is
  pc,        \* "idle", "fill" or, when the table is complete, "built"
  share,     \* history: share[d], slots destination d has been given
  turn,      \* history: turn[c], the value of n when slot c was filled
  last       \* history: last[D], the table last built with D dead

vars == <<hash, dead, offsets, table, n, i, pc, share, turn, last>>

Alive == Dests \ dead
Free == -1
EmptyTable == [c \in Slots |-> Free]

(* siphash's upper and lower half, reduced to the size of the table.       *)
Hashes == [offset : Slots, skip : 1..M - 1]

Init ==
  /\ hash \in [Dests -> Hashes]
  /\ dead = {}
  /\ offsets = [d \in Dests |-> 0]
  /\ table = EmptyTable
  /\ n = 0
  /\ i = 1
  /\ pc = "idle"
  /\ share = [d \in Dests |-> 0]
  /\ turn = [c \in Slots |-> 0]
  /\ last = [D \in Reports \cup {{}} |-> EmptyTable]

(* A round of health checks has changed the set of the dead, so the main   *)
(* loop calls PopulateLookupTable again.  The call before has built a      *)
(* table, or has returned at once because no destination was alive.        *)
HealthChecked(D) ==
  /\ pc = "built" \/ Alive = {}
  /\ D # dead
  /\ dead' = D
  /\ pc' = "idle"
  /\ UNCHANGED <<hash, offsets, table, n, i, share, turn, last>>

(* The running offsets of the previous run are kept.                       *)
generateOffsetsAndSkips_Slip == offsets

generateOffsetsAndSkips == [d \in Dests |-> hash[d].offset]

(* PopulateLookupTable up to its loop; with every destination dead it      *)
(* leaves everything as it is.                                             *)
Populate ==
  /\ pc = "idle"
  /\ Alive # {}
  /\ offsets' = generateOffsetsAndSkips
  /\ table' = EmptyTable
  /\ n' = 0
  /\ i' = 1
  /\ pc' = "fill"
  /\ share' = [d \in Dests |-> 0]
  /\ UNCHANGED <<hash, dead, turn, last>>

After(d) == IF d = N THEN 1 ELSE d + 1

(* Operators named X_Slip or X_... are plausible mistakes in X, there to   *)
(* show which property tells them from X; no behaviour contains them.      *)

(* The comparison is off by one.                                           *)
nextOffset_Slip(d) ==
  LET o == offsets[d] + hash[d].skip IN IF o > M THEN o - M ELSE o

(* A probe sequence that leaves the table starts again at its first slot.  *)
nextOffset_Restart(d) ==
  LET o == offsets[d] + hash[d].skip IN IF o >= M THEN 0 ELSE o

(* nextOffset: destination d moves on along its permutation of the slots.  *)
nextOffset(d) ==
  LET o == offsets[d] + hash[d].skip IN IF o >= M THEN o - M ELSE o

(* The slot found taken is probed again.                                   *)
Advance_Slip == offsets' = offsets

Advance == offsets' = [offsets EXCEPT ![i] = nextOffset(i)]

(* The dead are not skipped.                                               *)
Skipped_Slip(d) == FALSE

Skipped(d) == d \in dead

SkipDead ==
  /\ pc = "fill"
  /\ Skipped(i)
  /\ i' = After(i)
  /\ UNCHANGED <<hash, dead, offsets, table, n, pc, share, turn, last>>

(* The slot is taken: probe on.                                            *)
ProbeTaken ==
  /\ pc = "fill"
  /\ ~Skipped(i)
  /\ table[offsets[i]] >= 0
  /\ Advance
  /\ UNCHANGED <<hash, dead, table, n, i, pc, share, turn, last>>

(* The destination does not give way after the slot it has taken.          *)
TurnAfter_Slip(d) == d

(* Whose turn it is once d has taken a slot.                               *)
TurnAfter(d) == After(d)

(* The slot is free: it goes to i, and the next destination has its turn,  *)
(* unless it was the last one.                                             *)
ProbeFree ==
  /\ pc = "fill"
  /\ ~Skipped(i)
  /\ table[offsets[i]] < 0
  /\ LET c == offsets[i]
         filled == [table EXCEPT ![c] = i]
     IN /\ table' = filled
        /\ turn' = [turn EXCEPT ![c] = n]
        /\ IF n + 1 = M
             THEN pc' = "built" /\ i' = i /\ last' = [last EXCEPT ![dead] = filled]
             ELSE pc' = pc /\ i' = TurnAfter(i) /\ last' = last
  /\ n' = n + 1
  /\ share' = [share EXCEPT ![i] = @ + 1]
  /\ Advance
  /\ UNCHANGED <<hash, dead>>

Fill == SkipDead \/ ProbeTaken \/ ProbeFree

Next == \/ \E D \in Reports : HealthChecked(D)
        \/ Populate
        \/ Fill

Spec == Init /\ [][Next]_vars

(* The loop runs on the main goroutine and waits for nothing.              *)
FairSpec == Spec /\ WF_vars(Fill)
-----------------------------------------------------------------------------
SlotsOf(d) == {c \in Slots : table[c] = d}
Filled == {c \in Slots : table[c] # Free}

TypeOK ==
  /\ hash \in [Dests -> Hashes]
  /\ dead \subseteq Dests
  /\ offsets \in [Dests -> Slots]
  /\ table \in [Slots -> Dests \cup {Free}]
  /\ n \in 0..M
  /\ i \in Dests
  /\ pc \in {"idle", "fill", "built"}
  /\ share \in [Dests -> 0..M]
  /\ turn \in [Slots -> 0..M]
  /\ last \in [Reports \cup {{}} -> [Slots -> Dests \cup {Free}]]

(* A finished table sends every flow to a destination that was alive when  *)
(* it was computed: no slot is left free or with a dead destination, and   *)
(* no two of the live destinations differ by more than one slot.           *)
BuiltTableServesAlive ==
  pc = "built" => \A c \in Slots : table[c] \in Alive

FairShare ==
  pc \in {"fill", "built"} =>
    \A d, e \in Alive : Cardinality(SlotsOf(d)) <= Cardinality(SlotsOf(e)) + 1

(* The k-th slot of d's permutation.                                       *)
Preference(d, k) == (hash[d].offset + k * hash[d].skip) % M

(* Each slot went to the destination that wanted it most: when d was given *)
(* a slot, every slot it prefers to that one was already gone, so a table  *)
(* depends on nothing but the hashes and the dead.                         *)
FirstComeFirstServed ==
  pc \in {"fill", "built"} =>
    \A d \in Dests, k \in Slots :
      table[Preference(d, k)] = d =>
        \A j \in 0..k - 1 :
          /\ table[Preference(d, j)] # Free
          /\ turn[Preference(d, j)] < turn[Preference(d, k)]

(* When the same destinations are dead again, the same table is built: a   *)
(* backend that fails and recovers gets back exactly the flows it had.     *)
FailbackRestoresTable ==
  [][\A D \in Reports :
       last[D] # EmptyTable => last'[D] = last[D]]_vars

(* The fill loop ends.                                                     *)
FillEnds == Prime(M) => ((pc = "fill") ~> (pc = "built"))
=============================================================================

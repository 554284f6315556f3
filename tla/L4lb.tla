-------------------------------- MODULE L4lb --------------------------------
(***************************************************************************)
(* The L4 load balancer process of l4lb/: start-up (drv.go New), the       *)
(* main loop of cmd/main.go with its concurrent health checks, the update  *)
(* of the data plane's lookup table entry by entry, the link attacher      *)
(* (link.go) and shutdown.  The XDP program runs in the kernel and reads   *)
(* the maps at any time, also between two of the driver's updates: the     *)
(* invariants speak of what it finds there.                                *)
(*                                                                         *)
(* How a table is computed is the subject of module Maglev; here it is     *)
(* Lookup[A], the table for the set A of live destinations.                *)
(***************************************************************************)
EXTENDS Naturals, FiniteSets

CONSTANTS N,         \* destinations 1..N; entry 0 is the balancer itself
          M,         \* slots of the lookup table
          Lookup,    \* Lookup[A]: the table PopulateLookupTable computes
          MaxFaults  \* bound: failures of servers, probes, maps and the link

Dests == 1..N
Slots == 0..M - 1

(* What module Maglev shows of a table: it serves the live destinations,   *)
(* each of them.                                                           *)
ASSUME SizesAssumption == N \in Nat \ {0} /\ M \in Nat \ {0} /\ MaxFaults \in Nat
ASSUME LookupAssumption ==
  \A A \in (SUBSET Dests) \ {{}} :
    /\ Lookup[A] \in [Slots -> A]
    /\ \A d \in A : \E c \in Slots : Lookup[A][c] = d

VARIABLES
  healthy,  \* destinations that answer a health check with 200
  pc,       \* where the main goroutine is
  booted,   \* New has returned
  dead,     \* lb.deadDests
  checks,   \* checks[d]: where the health check goroutine of d is
  seen,     \* seen[d]: the length of changed that the append of d has read
  changed,  \* len(changed)
  before,   \* history: dead when the round of health checks began
  target,   \* the table being written to the kernel's
  next,     \* the entry of it that is written next
  stale,    \* history: the last attempt to write a table failed
  lookup,   \* maglev_lookup_table
  config,   \* lb_config_map holds the VIP
  entries,  \* destinations_map holds the destinations
  attached, \* the XDP program is attached to the link
  link,     \* a.attachedLink of the LinkAttacher is not nil
  attacher, \* its goroutine: "none", "waiting" for a tick, "ticking"
  faults    \* faults so far

checkVars == <<checks, seen, changed, before>>
tableVars == <<target, next, lookup>>
mapVars == <<config, entries>>
linkVars == <<attached, link, attacher>>
vars == <<healthy, pc, booted, dead, checkVars, tableVars, stale, mapVars,
          linkVars, faults>>

Alive == Dests \ dead
Zeroes == [c \in Slots |-> 0]
Running == pc \notin {"exited", "crashed"}

Init ==
  /\ healthy \in SUBSET Dests
  /\ pc = "populate"
  /\ booted = FALSE
  /\ dead = {}
  /\ checks = [d \in Dests |-> "done"]
  /\ seen = [d \in Dests |-> 0]
  /\ changed = 0
  /\ before = {}
  /\ target = Zeroes
  /\ next = 0
  /\ stale = FALSE
  /\ lookup = Zeroes
  /\ config = FALSE
  /\ entries = FALSE
  /\ attached = FALSE
  /\ link = FALSE
  /\ attacher = "none"
  /\ faults = 0

Fault == faults < MaxFaults /\ faults' = faults + 1
-----------------------------------------------------------------------------
(* PopulateLookupTable, called by New and by the main loop *)

(* Where New, or the main loop, goes on after it.                          *)
AfterPopulate == IF booted THEN "tick" ELSE "attach"

(* An error of New panics in main; the main loop logs it and goes on.      *)
AfterError == IF booted THEN "tick" ELSE "crashed"

(* Operators named X_Slip or X_... are plausible mistakes in X, there to   *)
(* show which property tells them from X; no behaviour contains them.      *)

(* Dead destinations keep their slots.                                     *)
TableFor_Slip(A) == Lookup[Dests]

TableFor(A) == Lookup[A]

AllDead ==
  /\ pc = "populate"
  /\ Alive = {}
  /\ pc' = AfterPopulate
  /\ UNCHANGED <<healthy, booted, dead, checkVars, tableVars, stale, mapVars,
                 linkVars, faults>>

Compute ==
  /\ pc = "populate"
  /\ Alive # {}
  /\ target' = TableFor(Alive)
  /\ next' = 0
  /\ pc' = "put"
  /\ UNCHANGED <<healthy, booted, dead, checkVars, lookup, stale, mapVars,
                 linkVars, faults>>

(* The loop runs one entry too far.                                        *)
LastEntry_PastEnd(c) == c = M

(* The last entry is left out.                                             *)
LastEntry_Slip(c) == c + 2 >= M

LastEntry(c) == c + 1 = M

PutEntry ==
  /\ pc = "put"
  /\ lookup' = [lookup EXCEPT ![next] = target[next]]
  /\ IF LastEntry(next)
       THEN /\ pc' = AfterPopulate
            /\ stale' = FALSE
            /\ next' = 0
       ELSE /\ next' = next + 1
            /\ UNCHANGED <<pc, stale>>
  /\ UNCHANGED <<healthy, booted, dead, checkVars, target, mapVars, linkVars, faults>>

PutFails ==
  /\ Fault
  /\ pc = "put"
  /\ pc' = AfterError
  /\ stale' = TRUE
  /\ UNCHANGED <<healthy, booted, dead, checkVars, tableVars, mapVars, linkVars>>
-----------------------------------------------------------------------------
(* The rest of New *)

(* AttachToLink, which starts the attacher's goroutine.                    *)
Attach ==
  /\ pc = "attach"
  /\ attached' = TRUE
  /\ link' = TRUE
  /\ attacher' = "waiting"
  /\ pc' = "config"
  /\ UNCHANGED <<healthy, booted, dead, checkVars, tableVars, stale, mapVars, faults>>

AttachFails ==
  /\ Fault
  /\ pc = "attach"
  /\ pc' = "crashed"
  /\ UNCHANGED <<healthy, booted, dead, checkVars, tableVars, stale, mapVars, linkVars>>

(* Sync: the VIP first, then the destinations, in one batch.               *)
SyncConfig ==
  /\ pc = "config"
  /\ config' = TRUE
  /\ pc' = "entries"
  /\ UNCHANGED <<healthy, booted, dead, checkVars, tableVars, stale, entries,
                 linkVars, faults>>

SyncEntries ==
  /\ pc = "entries"
  /\ entries' = TRUE
  /\ booted' = TRUE
  /\ pc' = "tick"
  /\ UNCHANGED <<healthy, dead, checkVars, tableVars, stale, config, linkVars, faults>>

(* New returns an error and main panics; nothing detaches the program, and *)
(* the kernel keeps it with its maps.                                      *)
SyncFails ==
  /\ Fault
  /\ pc \in {"config", "entries"}
  /\ pc' = "crashed"
  /\ attacher' = "none"
  /\ UNCHANGED <<healthy, booted, dead, checkVars, tableVars, stale, mapVars,
                 attached, link>>
-----------------------------------------------------------------------------
(* The main loop *)

(* HealthCheckAll: one goroutine for each destination.                     *)
StartChecks ==
  /\ pc = "tick"
  /\ pc' = "check"
  /\ checks' = [d \in Dests |-> "probe"]
  /\ changed' = 0
  /\ before' = dead
  /\ UNCHANGED <<healthy, booted, dead, seen, tableVars, stale, mapVars, linkVars, faults>>

Probe(d) ==
  /\ checks[d] = "probe"
  /\ checks' = [checks EXCEPT ![d] = IF d \in healthy THEN "ok" ELSE "failed"]
  /\ UNCHANGED <<healthy, pc, booted, dead, seen, changed, before, tableVars,
                 stale, mapVars, linkVars, faults>>

(* A healthy destination does not answer within 500 ms.                    *)
ProbeTimesOut(d) ==
  /\ Fault
  /\ checks[d] = "probe"
  /\ checks' = [checks EXCEPT ![d] = "failed"]
  /\ UNCHANGED <<healthy, pc, booted, dead, seen, changed, before, tableVars,
                 stale, mapVars, linkVars>>

(* A destination that has recovered is not taken back.                     *)
DeadAfter_Slip(d, ok) == IF ok THEN dead ELSE dead \cup {d}

DeadAfter(d, ok) == IF ok THEN dead \ {d} ELSE dead \cup {d}

(* The answer, which may be out of date by now, meets deadDests[d].        *)
Judge(d) ==
  /\ checks[d] \in {"ok", "failed"}
  /\ dead' = DeadAfter(d, checks[d] = "ok")
  /\ checks' = [checks EXCEPT ![d] = IF dead' = dead THEN "done" ELSE "append"]
  /\ UNCHANGED <<healthy, pc, booted, seen, changed, before, tableVars, stale,
                 mapVars, linkVars, faults>>

(* changed = append(changed, i), which the goroutines run without a lock:  *)
(* it reads the slice header and writes it back.                           *)
AppendRead(d) ==
  /\ checks[d] = "append"
  /\ checks' = [checks EXCEPT ![d] = "appending"]
  /\ seen' = [seen EXCEPT ![d] = changed]
  /\ UNCHANGED <<healthy, pc, booted, dead, changed, before, tableVars, stale,
                 mapVars, linkVars, faults>>

(* The length is put back as it was read.                                  *)
Appended_Slip(len) == len

Appended(len) == len + 1

AppendWrite(d) ==
  /\ checks[d] = "appending"
  /\ checks' = [checks EXCEPT ![d] = "done"]
  /\ changed' = Appended(seen[d])
  /\ UNCHANGED <<healthy, pc, booted, dead, seen, before, tableVars, stale,
                 mapVars, linkVars, faults>>

(* Two of them at once: one can read the length the other has just written *)
(* with the nil pointer from before, and growing the slice then copies     *)
(* from address zero, which ends the process.                              *)
AppendTorn(d) ==
  /\ checks[d] = "append"
  /\ changed = 0
  /\ \E e \in Dests \ {d} : checks[e] = "appending"
  /\ pc' = "crashed"
  /\ checks' = [e \in Dests |-> "done"]
  /\ attacher' = "none"
  /\ UNCHANGED <<healthy, booted, dead, seen, changed, before, tableVars, stale,
                 mapVars, attached, link, faults>>

(* wg.Wait returns.                                                        *)
ChecksDone ==
  /\ pc = "check"
  /\ \A d \in Dests : checks[d] = "done"
  /\ pc' = IF changed > 0 THEN "populate" ELSE "tick"
  /\ UNCHANGED <<healthy, booted, dead, checkVars, tableVars, stale, mapVars,
                 linkVars, faults>>

(* SIGINT or SIGTERM, noticed between two rounds.                          *)
Signal ==
  /\ pc = "tick"
  /\ pc' = "close"
  /\ UNCHANGED <<healthy, booted, dead, checkVars, tableVars, stale, mapVars,
                 linkVars, faults>>

(* LinkAttacher.Close: it closes linkCheckDone, which ends nothing (the     *)
(* break leaves the select, not the loop), takes the program off the link, *)
Detach ==
  /\ pc = "close"
  /\ pc' = "detached"
  /\ attached' = FALSE
  /\ UNCHANGED <<healthy, booted, dead, checkVars, tableVars, stale, mapVars,
                 link, attacher, faults>>

(* and forgets the link.  Of the bindings only the maps are closed then,   *)
(* which the kernel holds by itself; the program's descriptor stays open.  *)
Forget ==
  /\ pc = "detached"
  /\ pc' = "closed"
  /\ link' = FALSE
  /\ UNCHANGED <<healthy, booted, dead, checkVars, tableVars, stale, mapVars,
                 attached, attacher, faults>>

(* The link is not forgotten, nor is anything else closed.                 *)
DetachFails ==
  /\ Fault
  /\ pc = "close"
  /\ pc' = "closed"
  /\ UNCHANGED <<healthy, booted, dead, checkVars, tableVars, stale, mapVars, linkVars>>

(* main returns.                                                           *)
Exit ==
  /\ pc = "closed"
  /\ pc' = "exited"
  /\ attacher' = "none"
  /\ UNCHANGED <<healthy, booted, dead, checkVars, tableVars, stale, mapVars,
                 attached, link, faults>>
-----------------------------------------------------------------------------
(* The link, and the destinations *)

(* The attacher's ticker fires: the goroutine reads a.attachedLink for the *)
(* call that attaches the program, which has not been made yet.            *)
Tick ==
  /\ attacher = "waiting"
  /\ link
  /\ attacher' = "ticking"
  /\ UNCHANGED <<healthy, pc, booted, dead, checkVars, tableVars, stale, mapVars,
                 attached, link, faults>>

(* The link has been forgotten: the call on nil panics, and so does one on *)
(* half of it, which Forget could be writing.                              *)
TickPanics ==
  /\ attacher = "waiting"
  /\ ~link
  /\ pc' = "crashed"
  /\ attacher' = "none"
  /\ UNCHANGED <<healthy, booted, dead, checkVars, tableVars, stale, mapVars,
                 attached, link, faults>>

(* The attacher gives up the first time it finds the program in place.     *)
AfterTick_Slip == IF attached THEN "none" ELSE "waiting"

AfterTick == "waiting"

(* The call attaches the program; one that is attached stays (EBUSY).      *)
Reattach ==
  /\ attacher = "ticking"
  /\ attached' = TRUE
  /\ attacher' = AfterTick
  /\ UNCHANGED <<healthy, pc, booted, dead, checkVars, tableVars, stale, mapVars,
                 link, faults>>

(* Any other error is logged.                                              *)
ReattachFails ==
  /\ Fault
  /\ attacher = "ticking"
  /\ attacher' = "waiting"
  /\ UNCHANGED <<healthy, pc, booted, dead, checkVars, tableVars, stale, mapVars,
                 attached, link>>

(* "XDP programs are unattached from the interface spontaneously."         *)
LinkDetaches ==
  /\ Fault
  /\ attached
  /\ attached' = FALSE
  /\ UNCHANGED <<healthy, pc, booted, dead, checkVars, tableVars, stale, mapVars,
                 link, attacher>>

GoesDown(d) ==
  /\ Fault
  /\ d \in healthy
  /\ healthy' = healthy \ {d}
  /\ UNCHANGED <<pc, booted, dead, checkVars, tableVars, stale, mapVars, linkVars>>

ComesUp(d) ==
  /\ d \notin healthy
  /\ healthy' = healthy \cup {d}
  /\ UNCHANGED <<pc, booted, dead, checkVars, tableVars, stale, mapVars, linkVars, faults>>

-----------------------------------------------------------------------------
Main == \/ AllDead \/ Compute \/ PutEntry
        \/ Attach \/ SyncConfig \/ SyncEntries
        \/ StartChecks \/ ChecksDone \/ Detach \/ Forget \/ Exit

Check(d) == Probe(d) \/ Judge(d) \/ AppendRead(d) \/ AppendWrite(d)

Attacher == Tick \/ TickPanics \/ Reattach

Environment ==
  \/ PutFails \/ AttachFails \/ SyncFails \/ DetachFails \/ ReattachFails
  \/ Signal \/ LinkDetaches
  \/ \E d \in Dests : ProbeTimesOut(d) \/ AppendTorn(d) \/ GoesDown(d) \/ ComesUp(d)

Next == Main \/ Attacher \/ Environment \/ \E d \in Dests : Check(d)

Spec == Init /\ [][Next]_vars

(* The goroutines are scheduled and the tickers fire; a probe returns      *)
(* within its 500 ms.  Nothing forces a failure, a recovery or a signal.   *)
FairSpec == /\ Spec
            /\ WF_vars(Main)
            /\ WF_vars(Attacher)
            /\ \A d \in Dests : WF_vars(Check(d))
-----------------------------------------------------------------------------
(* lb_main encapsulates the packets to the VIP, and sends a flow of hash c *)
(* to entry lookup[c] of destinations_map; until then the network stack of *)
(* the balancer gets them.                                                 *)
Balancing == attached /\ config

TypeOK ==
  /\ healthy \subseteq Dests
  /\ pc \in {"populate", "put", "attach", "config", "entries", "tick", "check",
             "close", "detached", "closed", "exited", "crashed"}
  /\ booted \in BOOLEAN
  /\ dead \subseteq Dests
  /\ checks \in [Dests -> {"probe", "ok", "failed", "append", "appending", "done"}]
  /\ seen \in [Dests -> 0..N]
  /\ changed \in 0..N
  /\ before \subseteq Dests
  /\ target \in [Slots -> 0..N]
  /\ next \in Slots
  /\ stale \in BOOLEAN
  /\ lookup \in [Slots -> 0..N]
  /\ config \in BOOLEAN
  /\ entries \in BOOLEAN
  /\ attached \in BOOLEAN
  /\ link \in BOOLEAN
  /\ attacher \in {"none", "waiting", "ticking"}
  /\ faults \in 0..MaxFaults

(* The unlocked appends of HealthCheckAll can lose elements, never all of  *)
(* them: when the round is over it reports a change exactly if the set of  *)
(* dead destinations differs from the one the round began with.            *)
ChangeNoticed ==
  pc = "check" /\ (\A d \in Dests : checks[d] = "done") =>
    (changed > 0 <=> dead # before)

(* Between two rounds the kernel's table is the one for the destinations   *)
(* held to be alive, through all the all-dead episodes in which it is left *)
(* alone; only a failed write can have left it otherwise.                  *)
TableMatchesHealth ==
  pc = "tick" /\ ~stale /\ Alive # {} => lookup = Lookup[Alive]

(* Whenever the program balances, also while New is still at work, every   *)
(* slot names a destination, not the balancer: in the middle of an update, *)
(* after a failed one, when the process has died.  Once New has returned   *)
(* their addresses are there, too, so no packet is sent to a zeroed entry. *)
NoPacketToNowhere ==
  Balancing => (booted => entries) /\ \A c \in Slots : lookup[c] \in Dests

(* A destination that stays down loses its flows for good, if another one  *)
(* stays up, and unless the process ends or its last table update failed.  *)
DownLosesFlows ==
  \A d \in Dests, e \in Dests :
    <>[](d \notin healthy /\ e \in healthy /\ Running /\ ~stale)
      => <>[](\A c \in Slots : lookup[c] # d)

(* A destination that stays up gets its flows back.                        *)
UpGetsFlows ==
  \A d \in Dests :
    <>[](d \in healthy /\ Running /\ ~stale) => <>[](\E c \in Slots : lookup[c] = d)

(* LinkAttacher: a program detached by whatever cause is attached again    *)
(* (link.go, lines 15 to 17), while the process runs and until Close has   *)
(* taken it off, however often the attacher fails or comes too early.      *)
LinkHeals ==
  (link /\ ~attached)
    ~> (attached \/ ~Running \/ pc \in {"detached", "closed"})

(* TODO.md: the balancer runs health checks and notices that a cache       *)
(* server is down.                                                         *)
DownIsNoticed ==
  <>booted /\ [](pc # "close") =>
    \A d \in Dests : <>[](d \notin healthy) => <>[](d \in dead)
=============================================================================

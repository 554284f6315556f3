------------------------------ MODULE GslbCore ------------------------------
(***************************************************************************)
(* The core of the global load balancer, gslb/gslbcore/core.go: the worker *)
(* Run, which fetches the status of every PoP and lets the prober of every *)
(* region measure the latency of every PoP, one call after the other under *)
(* a deadline that all calls of a round share; and Query, which answers in *)
(* between with what is stored at the time.                                *)
(*                                                                         *)
(* PoPs, probers and the network between them change at any time.  Query   *)
(* holds the lock from its first read to its last and changes nothing, so  *)
(* it is the operator Answer, read in every state; the worker's calls are  *)
(* made without the lock.  Latencies are small naturals.                   *)
(***************************************************************************)
EXTENDS Naturals, Sequences, FiniteSetsExt

CONSTANTS P,         \* PoPs 1..P, in the order of the configuration
          R,         \* regions 1..R, likewise
          Sources,   \* addresses that ask
          Prefixes,  \* Prefixes[r]: set of [bits |-> length, covers |-> sources]
          Networks,  \* latencies there may be between regions and PoPs
          Default,   \* defaultLatency
          SerialMod, \* the serial is counted modulo this, 2^32 in the code
          MaxFaults  \* bound: changes of PoPs, probers, network and process

Pops == 1..P
Regions == 1..R

(* Query indexes cfg.Pops without looking at its length.  A measurement    *)
(* takes less than the deadline of 30 s, defaultLatency is 20000 s.        *)
ASSUME SizesAssumption ==
  /\ P \in Nat \ {0}
  /\ R \in Nat \ {0}
  /\ Default \in Nat
  /\ SerialMod \in Nat \ {0, 1}
  /\ MaxFaults \in Nat
ASSUME PrefixesAssumption ==
  \A r \in Regions :
    /\ IsFiniteSet(Prefixes[r])
    /\ \A q \in Prefixes[r] : q.bits \in Nat /\ q.covers \subseteq Sources
ASSUME NetworksAssumption ==
  \A net \in Networks : \A r \in Regions, p \in Pops :
    net[r][p] \in Nat /\ net[r][p] < Default

VARIABLES
  pop,       \* pop[p]: how a PoP responds
  prober,    \* prober[r]: how the prober of a region responds
  network,   \* the latencies at present
  pc,        \* where the worker is
  region,    \* the region it measures from
  results,   \* what the calls of the loop have returned so far
  late,      \* the deadline of the round has passed
  cancelled, \* the context given to Run is done
  popstate,  \* c.popstate
  latency,   \* c.regions[r].popLatency
  serial,    \* c.serial
  measured,  \* history: regions measured since the process started
  calm,      \* history: nothing has changed since the round began
  current,   \* history: regions whose latencies describe the present
  faults     \* faults so far

worldVars == <<pop, prober, network>>
storeVars == <<popstate, latency, serial>>
vars == <<worldVars, pc, region, results, late, cancelled, storeVars,
          measured, calm, current, faults>>

Running == pc # "exited"

(* Who answers is up, whatever the status: the prober does not look at it. *)
Conditions == {"up", "refuses", "hangs"}
Unknown == "unknown"
Unmeasured == [r \in Regions |-> [p \in Pops |-> Default]]

Init ==
  /\ pop = [p \in Pops |-> "up"]
  /\ prober = [r \in Regions |-> "up"]
  /\ network \in Networks
  /\ pc = "start"
  /\ region = 1
  /\ results = <<>>
  /\ late = FALSE
  /\ cancelled = FALSE
  /\ popstate = [p \in Pops |-> Unknown]
  /\ latency = Unmeasured
  /\ serial = 0
  /\ measured = {}
  /\ calm = FALSE
  /\ current = {}
  /\ faults = 0
-----------------------------------------------------------------------------
(* Query *)

Least(S) == CHOOSE x \in S : \A y \in S : x <= y

(* Operators named X_Slip or X_... are plausible mistakes in X, there to   *)
(* show which property tells them from X; no behaviour contains them.      *)

(* The last of the least.                                                  *)
FirstLeast_Slip(f) ==
  CHOOSE p \in Pops : \A q \in Pops : f[p] < f[q] \/ (f[p] = f[q] /\ p >= q)

FirstLeast(f) ==
  CHOOSE p \in Pops : \A q \in Pops : f[p] < f[q] \/ (f[p] = f[q] /\ p <= q)

(* Lengths of the prefixes of r that contain the source.                   *)
Matches(r, s) == {q.bits : q \in {q \in Prefixes[r] : s \in q.covers}}

(* The first of the regions with the longest match; none is 0.             *)
RegionOf ==
  [s \in Sources |->
     LET longest == {r \in Regions :
                       /\ Matches(r, s) # {}
                       /\ \A o \in Regions : \A b \in Matches(o, s) :
                            \E a \in Matches(r, s) : b <= a}
     IN  IF longest = {} THEN 0 ELSE Least(longest)]

(* Only what could be measured is counted.                                 *)
getMostAveragePop_Slip ==
  FirstLeast([p \in Pops |->
                MapThenSumSet(LAMBDA r : latency[r][p] % Default, Regions)])

getMostAveragePop ==
  FirstLeast([p \in Pops |->
                MapThenSumSet(LAMBDA r : latency[r][p], Regions)])

Answer(s) ==
  LET r == RegionOf[s]
  IN  IF r # 0 /\ \E p \in Pops : latency[r][p] < Default
        THEN FirstLeast(latency[r])
        ELSE getMostAveragePop
-----------------------------------------------------------------------------
(* The worker *)

(* A deadline set now has passed at once if the context is done.           *)
Expired == cancelled

(* The web interface is up, or there is none.                              *)
StartWeb ==
  /\ pc = "start"
  /\ pc' = "status"
  /\ results' = <<>>
  /\ late' = Expired
  /\ UNCHANGED <<worldVars, region, cancelled, storeVars, measured, calm,
                 current, faults>>

Fault == faults < MaxFaults /\ faults' = faults + 1

(* Run returns the error, on which the plugin ends the process.            *)
WebFails ==
  /\ Fault
  /\ pc = "start"
  /\ pc' = "exited"
  /\ UNCHANGED <<worldVars, region, results, late, cancelled, storeVars,
                 measured, calm, current>>

(* The call that the worker makes next is answered, or it hangs: to a PoP  *)
(* itself, or to a prober that calls the PoP in turn and has no deadline   *)
(* of its own.  The answer to a call that began late is always an error.   *)
Calls(step) == pc = step /\ Len(results) < P

Answered(r, p) == prober[r] = "up" /\ pop[p] = "up"
Hangs(r, p) == prober[r] = "hangs" \/ (prober[r] = "up" /\ pop[p] = "hangs")

FetchStatus ==
  /\ Calls("status")
  /\ LET p == Len(results) + 1
     IN  /\ results' = Append(results, IF pop[p] = "up" /\ ~late THEN "ok" ELSE "error")
         /\ late' = (late \/ pop[p] = "hangs")
  /\ UNCHANGED <<worldVars, pc, region, cancelled, storeVars, measured, calm,
                 current, faults>>

Measured ==
  /\ Calls("measure")
  /\ LET p == Len(results) + 1
     IN  /\ Answered(region, p) /\ ~late
         /\ results' = Append(results, network[region][p])
  /\ UNCHANGED <<worldVars, pc, region, late, cancelled, storeVars, measured,
                 calm, current, faults>>

(* A measurement that fails, at once or by the deadline.                   *)
NotMeasured ==
  /\ Calls("measure")
  /\ LET p == Len(results) + 1
     IN  /\ late \/ ~Answered(region, p)
         /\ late' = (late \/ Hangs(region, p))
  /\ results' = Append(results, Default)
  /\ UNCHANGED <<worldVars, pc, region, cancelled, storeVars, measured, calm,
                 current, faults>>

(* A round that fails is not counted.                                      *)
Tick_Slip == serial' = IF late THEN serial ELSE (serial + 1) % SerialMod

(* The status of every PoP is counted.                                     *)
Tick_PerPop == serial' = (serial + IF pc = "status" THEN P ELSE 1) % SerialMod

Tick == serial' = (serial + 1) % SerialMod

(* UpdateLatency begins with a new deadline.                               *)
StoreStatus ==
  /\ pc = "status"
  /\ Len(results) = P
  /\ popstate' = results
  /\ Tick
  /\ pc' = "measure"
  /\ region' = 1
  /\ results' = <<>>
  /\ late' = Expired
  /\ calm' = ~cancelled
  /\ UNCHANGED <<worldVars, cancelled, latency, measured, current, faults>>

(* The loop runs one region too far.                                       *)
MoreRegions_Slip == region <= R

MoreRegions == region < R

StoreLatency ==
  /\ pc = "measure"
  /\ Len(results) = P
  /\ latency' = [latency EXCEPT ![region] = results]
  /\ Tick
  /\ results' = <<>>
  /\ IF MoreRegions
       THEN region' = region + 1 /\ UNCHANGED pc
       ELSE region' = 1 /\ pc' = "sleep"
  /\ measured' = measured \cup {region}
  /\ current' = IF calm THEN current \cup {region} ELSE current \ {region}
  /\ UNCHANGED <<worldVars, late, cancelled, popstate, calm, faults>>

(* The context is not looked at.                                           *)
TimerFires_Slip == TRUE

(* The loop watches the context of the round that is over.                 *)
TimerFires_OfRound == ~cancelled /\ ~late

(* A context that is done ends the sleep before the timer does.            *)
TimerFires == ~cancelled

WakeUp ==
  /\ pc = "sleep"
  /\ TimerFires
  /\ pc' = "status"
  /\ late' = Expired
  /\ UNCHANGED <<worldVars, region, results, cancelled, storeVars, measured,
                 calm, current, faults>>

Return ==
  /\ pc = "sleep"
  /\ cancelled
  /\ pc' = "returned"
  /\ UNCHANGED <<worldVars, region, results, late, cancelled, storeVars,
                 measured, calm, current, faults>>

Worker == \/ StartWeb \/ FetchStatus \/ StoreStatus
          \/ Measured \/ NotMeasured \/ StoreLatency
          \/ WakeUp \/ Return
-----------------------------------------------------------------------------
(* The rest of the world *)

Disturbed == calm' = FALSE /\ current' = {}

PopChanges(p) ==
  /\ Fault
  /\ \E c \in Conditions \ {pop[p]} : pop' = [pop EXCEPT ![p] = c]
  /\ Disturbed
  /\ UNCHANGED <<prober, network, pc, region, results, late, cancelled,
                 storeVars, measured>>

ProberChanges(r) ==
  /\ Fault
  /\ \E c \in Conditions \ {prober[r]} : prober' = [prober EXCEPT ![r] = c]
  /\ Disturbed
  /\ UNCHANGED <<pop, network, pc, region, results, late, cancelled,
                 storeVars, measured>>

NetworkChanges ==
  /\ Fault
  /\ \E n \in Networks \ {network} : network' = n
  /\ Disturbed
  /\ UNCHANGED <<pop, prober, pc, region, results, late, cancelled,
                 storeVars, measured>>

(* Answers are slow, and the deadline passes between two of them.          *)
DeadlinePasses ==
  /\ Fault
  /\ pc \in {"status", "measure"}
  /\ ~late
  /\ late' = TRUE
  /\ calm' = FALSE
  /\ UNCHANGED <<worldVars, pc, region, results, cancelled, storeVars,
                 measured, current>>

(* Every call under way fails, and every later one.                        *)
Cancel ==
  /\ Running
  /\ ~cancelled
  /\ cancelled' = TRUE
  /\ late' = (late \/ pc \in {"status", "measure"})
  /\ calm' = FALSE
  /\ UNCHANGED <<worldVars, pc, region, results, storeVars, measured, current,
                 faults>>

(* The process is ended, if it has not ended by itself, and started again. *)
Restart ==
  /\ Fault
  /\ ~cancelled
  /\ pc' = "start"
  /\ region' = 1
  /\ results' = <<>>
  /\ late' = FALSE
  /\ popstate' = [p \in Pops |-> Unknown]
  /\ latency' = Unmeasured
  /\ serial' = 0
  /\ measured' = {}
  /\ Disturbed
  /\ UNCHANGED <<worldVars, cancelled>>

World == \/ \E p \in Pops : PopChanges(p)
         \/ \E r \in Regions : ProberChanges(r)
         \/ NetworkChanges \/ DeadlinePasses \/ Cancel \/ WebFails \/ Restart

Next == Worker \/ World

Spec == Init /\ [][Next]_vars

(* The worker's goroutine is scheduled; each of its waits has an end: the  *)
(* deadline of the round, the timer.                                       *)
FairSpec == Spec /\ WF_vars(Worker)
-----------------------------------------------------------------------------
TypeOK ==
  /\ pop \in [Pops -> Conditions]
  /\ prober \in [Regions -> Conditions]
  /\ network \in Networks
  /\ pc \in {"start", "status", "measure", "sleep", "returned", "exited"}
  /\ region \in Regions
  /\ results \in Seq(IF pc = "status" THEN {"ok", "error"} ELSE 0..Default)
  /\ Len(results) <= P
  /\ late \in BOOLEAN
  /\ cancelled \in BOOLEAN
  /\ popstate \in [Pops -> {Unknown, "ok", "error"}]
  /\ latency \in [Regions -> [Pops -> 0..Default]]
  /\ serial \in 0..SerialMod - 1
  /\ measured \subseteq Regions
  /\ calm \in BOOLEAN
  /\ current \subseteq measured
  /\ faults \in 0..MaxFaults

(* The measurement of p from r is made before anything in its round hangs, *)
(* and is answered.                                                        *)
Reached(r, p) ==
  /\ Answered(r, p)
  /\ \A o \in 1..r : \A q \in Pops : (o < r \/ q < p) => ~Hangs(o, q)

NearestOf(S, r, p) ==
  /\ p \in S
  /\ \A q \in S : \/ network[r][p] < network[r][q]
                  \/ network[r][p] = network[r][q] /\ p <= q

NearestReached(r, p) == NearestOf({q \in Pops : Reached(r, q)}, r, p)

SourcesOf == [r \in Regions |-> {s \in Sources : RegionOf[s] = r}]

(* Once a region has been measured in a round without change, its sources  *)
(* are sent to the nearest of the PoPs that the round reached: not to one  *)
(* of another region's, of an older round's or of half a round's choice,   *)
(* while statuses and other regions are being updated around them.         *)
MeasuredRegionGetsNearest ==
  \A r \in current :
    (\E p \in Pops : Reached(r, p)) =>
      \A s \in SourcesOf[r] : NearestReached(r, Answer(s))

(* What core_test.go relies on when it waits for the serial: when it has   *)
(* counted one update for each region and one for the statuses, every      *)
(* region has been measured.                                               *)
SerialTellsFirstRound == serial > R => measured = Regions

(* No source is sent elsewhere under one serial of the SOA record, in the  *)
(* life of a process.                                                      *)
AnswersKeepToSerial ==
  [][pc' = "start" \/ serial' # serial \/ \A s \in Sources : Answer(s)' = Answer(s)]_vars

(* When the faults are over, the sources of a region are sent to the       *)
(* nearest PoP that its prober reaches, whatever the failures left behind. *)
Serving == Running /\ ~cancelled

NearestIsServed ==
  \A r \in Regions :
    <>[](Serving /\ \E p \in Pops : Reached(r, p))
      => <>[](\A s \in SourcesOf[r] : NearestReached(r, Answer(s)))

(* A PoP that stays down loses all sources, those without a region and     *)
(* those whose own prober is down too, if any region reaches some PoP.     *)
DeadPopIsLeft ==
  <>[](Serving /\ \E r \in Regions, p \in Pops : Reached(r, p))
    => <>[](\A s \in Sources : pop[Answer(s)] = "up")

(* Run returns after its context has been cancelled, which core_test.go    *)
(* waits for, also when PoPs and probers hang.                             *)
CancelEndsRun == cancelled ~> (pc \in {"returned", "exited"})

(* "2. Look for the PoP nearest to the region" (core.go, Query): the       *)
(* nearest of the PoPs that answer the region's prober is the answer, also *)
(* when another PoP, or another region's prober, hangs.                    *)
NearestDespiteHangs ==
  \A r \in Regions :
    <>[](Serving /\ \E p \in Pops : Answered(r, p))
      => <>[](\A s \in SourcesOf[r] :
                NearestOf({q \in Pops : Answered(r, q)}, r, Answer(s)))
=============================================================================

------------------------------ MODULE HttpRps ------------------------------
(***************************************************************************)
(* The request rate meter of httprps/httprps.go: handlers count requests   *)
(* with an atomic add, a goroutine moves the count to a ring of the last W *)
(* seconds once a second, and GetRPS reports the sum of the ring.          *)
(*                                                                         *)
(* The goroutine takes the count before it takes the lock, so requests and *)
(* readers come in between.  What it does under the lock is one step, and  *)
(* GetRPS, which reads under the lock, is the state function total.        *)
(***************************************************************************)
EXTENDS Integers, FiniteSets

CONSTANTS W,        \* windowSize
          Requests  \* requests, each of which arrives once or never

ASSUME WindowAssumption == W \in Nat \ {0}
ASSUME RequestsAssumption == IsFiniteSet(Requests)

VARIABLES
  curr,        \* m.curr
  counts,      \* m.counts
  currentIdx,  \* m.currentIdx
  total,       \* m.total
  ticker,      \* the goroutine: "waiting" for a tick, or "swapped"
  newCount,    \* its local variable
  age          \* history: age[r], how far a request has come, see below

rpsVars == <<curr, counts, currentIdx, total, ticker, newCount, age>>

(* A request is counted in curr, taken by the goroutine, and then reported *)
(* for W ticks: at age 3 since the last tick, at age W + 2 for the last    *)
(* time.                                                                   *)
New == 0
InCurr == 1
Taken == 2
Reported == 3..W + 2
Gone == W + 3

Aged(S) == {r \in Requests : age[r] \in S}

RpsInit ==
  /\ curr = 0
  /\ counts = [i \in 0..W - 1 |-> 0]
  /\ currentIdx = 0
  /\ total = 0
  /\ ticker = "waiting"
  /\ newCount = 0
  /\ age = [r \in Requests |-> New]
-----------------------------------------------------------------------------
(* ServeHTTP, which hands the request on to the wrapped handler.           *)
Count(r) ==
  /\ age[r] = New
  /\ curr' = curr + 1
  /\ age' = [age EXCEPT ![r] = InCurr]
  /\ UNCHANGED <<counts, currentIdx, total, ticker, newCount>>

(* Operators named X_Slip or X_... are plausible mistakes in X, there to   *)
(* show which property tells them from X; no behaviour contains them.      *)

(* A timer in place of the ticker: it fires once.                          *)
TickerFires_Slip == currentIdx = 0

TickerFires == TRUE

Swap ==
  /\ ticker = "waiting"
  /\ TickerFires
  /\ ticker' = "swapped"
  /\ newCount' = curr
  /\ curr' = 0
  /\ age' = [r \in Requests |-> IF age[r] = InCurr THEN Taken ELSE age[r]]
  /\ UNCHANGED <<counts, currentIdx, total>>

(* The oldest count is left in the sum.                                    *)
NewTotal_Slip == total + newCount

NewTotal == total - counts[currentIdx] + newCount

(* The locked section.  newCount ends with the turn of the loop.           *)
Store ==
  /\ ticker = "swapped"
  /\ ticker' = "waiting"
  /\ total' = NewTotal
  /\ counts' = [counts EXCEPT ![currentIdx] = newCount]
  /\ currentIdx' = (currentIdx + 1) % W
  /\ newCount' = 0
  /\ age' = [r \in Requests |-> IF age[r] \in Taken..W + 2 THEN age[r] + 1 ELSE age[r]]
  /\ UNCHANGED curr

RpsTick == Swap \/ Store

RpsNext == RpsTick \/ \E r \in Requests : Count(r)

RpsSpec == RpsInit /\ [][RpsNext]_rpsVars
-----------------------------------------------------------------------------
RpsTypeOK ==
  /\ curr \in Nat
  /\ counts \in [0..W - 1 -> Nat]
  /\ currentIdx \in 0..W - 1
  /\ total \in Nat
  /\ ticker \in {"waiting", "swapped"}
  /\ newCount \in Nat
  /\ age \in [Requests -> New..Gone]

(* GetRPS reports the requests counted by the last W ticks: each of them   *)
(* once, for W ticks, and no other, wherever requests fall between taking  *)
(* the count and the lock, and however often the ring has gone round.      *)
RateCountsWindow == total = Cardinality(Aged(Reported))

(* A request is out of the rate some time after it has been counted: the   *)
(* rate goes back to zero when requests stop.                              *)
RateForgets == \A r \in Requests : age[r] = InCurr ~> age[r] = Gone
=============================================================================

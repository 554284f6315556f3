----------------------------- MODULE CdnService -----------------------------
(***************************************************************************)
(* What the cache tiers promise to a client, with no node, cache, header   *)
(* or route in sight.  Origins publish successive versions of the object   *)
(* behind each host and URI; a client request is answered at most once,    *)
(* with some version of what it asked for that had been published by then  *)
(* (the caches never revalidate, so any of them), or with an error.  A 500 *)
(* is allowed only for a host one of whose own exchanges has failed:       *)
(* trouble with one tenant's origin never shows to the clients of another. *)
(***************************************************************************)
EXTENDS Naturals

CONSTANTS Hosts, URIs, Requests, MaxVersion,
          Listed     \* the hosts configured on every node

VARIABLES version,   \* version[q]: number of versions of q published so far
          hurt,      \* hosts that have had a failed exchange
          asked,     \* asked[r]: what r asks for, NoQuery before it is asked
          outcome    \* outcome[r]: what the client of r was told

vars == <<version, hurt, asked, outcome>>

Queries == [host : Hosts, uri : URIs]
NoQuery == [uri |-> "none"]

Pending == [code |-> "pending", ver |-> 0]
Lost == [code |-> "lost", ver |-> 0]      \* the connection broke, no answer
Ok(v) == [code |-> "200", ver |-> v]
UnknownHost == [code |-> "404", ver |-> 0]
ServerError == [code |-> "500", ver |-> 0]

Init == /\ version = [q \in Queries |-> 1]
        /\ hurt = {}
        /\ asked = [r \in Requests |-> NoQuery]
        /\ outcome = [r \in Requests |-> Pending]

Publish(q) == /\ version[q] < MaxVersion
              /\ version' = [version EXCEPT ![q] = @ + 1]
              /\ UNCHANGED <<hurt, asked, outcome>>

Fail(h) == /\ hurt' = hurt \cup {h}
           /\ UNCHANGED <<version, asked, outcome>>

Ask(r, q) == /\ asked[r] = NoQuery
             /\ asked' = [asked EXCEPT ![r] = q]
             /\ UNCHANGED <<version, hurt, outcome>>

(* The outcomes the service may give a request for q.                      *)
Allowed(q) == {Ok(v) : v \in 1..version[q]}
              \cup {Lost}
              \cup {x \in {UnknownHost} : q.host \notin Listed}
              \cup {x \in {ServerError} : q.host \in hurt}

Finish(r) == /\ asked[r] # NoQuery
             /\ outcome[r] = Pending
             /\ \E x \in Allowed(asked[r]) : outcome' = [outcome EXCEPT ![r] = x]
             /\ UNCHANGED <<version, hurt, asked>>

(* A node that crashes loses every request it serves, in one step.         *)
LoseMany == /\ \E R \in SUBSET {r \in Requests : asked[r] # NoQuery /\ outcome[r] = Pending} :
                 outcome' = [r \in Requests |-> IF r \in R THEN Lost ELSE outcome[r]]
            /\ UNCHANGED <<version, hurt, asked>>

Next == \/ \E q \in Queries : Publish(q)
        \/ \E h \in Hosts : Fail(h)
        \/ \E r \in Requests : Finish(r) \/ \E q \in Queries : Ask(r, q)
        \/ LoseMany

Spec == Init /\ [][Next]_vars
=============================================================================

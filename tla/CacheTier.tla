------------------------------ MODULE CacheTier ------------------------------
(***************************************************************************)
(* The two cache tiers of popcache/: edge nodes (cmd/popcache) and shield  *)
(* nodes (cmd/shield) in front of the origins.  One CacheServer runs on    *)
(* each node.  A miss on an edge goes to the edge that rendezvous hashing  *)
(* makes the owner of the key (Shard), from there to a shield and from     *)
(* there to the origin (Forward), each hop falling back on the next one    *)
(* when its Fetch returns an error; every node on the way back keeps a     *)
(* copy.                                                                   *)
(*                                                                         *)
(* A client request is a call stack of HTTP handlers, one frame for each   *)
(* node it is passing through; all but the last frame wait in Fetch for    *)
(* the frame above.  Requests interleave; nodes crash and restart, links   *)
(* break, origins go down and publish new versions of their objects.       *)
(*                                                                         *)
(* The hash itself is left open: EdgeOwner[n][k] and ShieldOwner[n][k] are *)
(* the backends RendezvousSelect returns for k at node n, from the yaml    *)
(* files node n was started with.  Nodes started with different files may  *)
(* disagree on the owner.                                                  *)
(***************************************************************************)
EXTENDS Naturals, Sequences, FiniteSets

CONSTANTS
  Edges, Shields,         \* the nodes of the two tiers
  Hosts, URIs,            \* the tenants' host names, and request URIs
  Requests,               \* client requests, each made at most once
  Knows,                  \* Knows[n]: the hosts in n's originLookup
  EdgeOwner, ShieldOwner, \* the nodes RendezvousSelect picks, as each node sees it
  Cap,                    \* capacity of a node's LRU cache (256 in the code)
  MaxVersion,             \* bound: versions an origin publishes of an object
  MaxFaults               \* bound: crashes, broken links and outages in a run

Nodes == Edges \cup Shields
Queries == [host : Hosts, uri : URIs]
Keys == Hosts \X URIs

ASSUME TopologyAssumption ==
  /\ Edges \cap Shields = {}
  /\ Knows \in [Nodes -> SUBSET Hosts]
  /\ EdgeOwner \in [Edges -> [Keys -> Edges]]
  /\ ShieldOwner \in [Nodes -> [Keys -> Shields]]

ASSUME FiniteAssumption == IsFiniteSet(Hosts) /\ IsFiniteSet(URIs)

ASSUME BoundsAssumption ==
  Cap \in Nat \ {0} /\ MaxVersion \in Nat \ {0} /\ MaxFaults \in Nat

VARIABLES
  up,        \* up[n]: node n runs
  cache,     \* cache[n][k]: the object n holds for k, or NoResp
  originUp,  \* originUp[h]: the origin of host h answers
  version,   \* version[q]: the version of object q its origin serves
  asked,     \* asked[r]: the host and URI client request r asks for, and of which edge
  stack,     \* stack[r]: the handlers r is passing through, <<>> before and after
  answer,    \* answer[r]: the response the client got; NoResp until then
  lost,      \* the requests whose client lost its connection
  faults,    \* faults so far
  hurt,      \* history: hosts whose origin did not answer or whose response was cut short
  contacts   \* history: contacts[r], the times r made a node contact an origin

clientVars == <<asked, answer, lost>>
worldVars == <<up, originUp, version, faults>>
vars == <<up, cache, originUp, version, asked, stack, answer, lost, faults,
          hurt, contacts>>

-----------------------------------------------------------------------------
(* Objects, responses and frames *)

(* Operators named X_Slip are plausible mistakes in X.  They are part of no *)
(* behaviour: each stands beside the definition it would break, to show    *)
(* that some property tells the two apart.                                 *)

(* The host left out of the hashed bytes.                                  *)
CacheKey_Slip(q) == <<CHOOSE h \in Hosts : TRUE, q.uri>>

(* CacheKey: host and URI, hashed; an incoming request has no URL port.    *)
CacheKey(q) == <<q.host, q.uri>>

(* A response: the object, and the two headers the nodes manipulate, as    *)
(* the sequences of their values.                                          *)
Codes == {"200", "404", "500"}
Values == [code : Codes, query : Queries, ver : 0..MaxVersion]
Responses == [value : Values, nodeId : Seq(Nodes), xcache : Seq({"HIT", "Miss"})]

NoResp == [value |-> "none"]
NoAsk == [query |-> "none"]

(* http.Error, on node n.                                                  *)
Error(n, q, code) == [value |-> [code |-> code, query |-> q, ver |-> 0],
                      nodeId |-> <<n>>, xcache |-> <<>>]

FromOrigin(q) == [value |-> [code |-> "200", query |-> q, ver |-> version[q]],
                  nodeId |-> <<>>, xcache |-> <<>>]

(* pc: where the handler of a frame is.  "serve": before the cache lookup; *)
(* "peer", "shield", "origin": in, or about to enter, the Fetch of that    *)
(* hop; "body": the response's headers have arrived, its body is being     *)
(* read; "reply": about to write its own response.                         *)
PCs == {"serve", "peer", "shield", "origin", "body", "reply"}
Frames == [node : Nodes, xshard : BOOLEAN, pc : PCs, resp : Responses \cup {NoResp}]

Arrival(n, xshard) == [node |-> n, xshard |-> xshard, pc |-> "serve", resp |-> NoResp]

Active(r) == stack[r] # <<>>
Top(r) == stack[r][Len(stack[r])]
At(r, pc) == Active(r) /\ Top(r).pc = pc
Query(r) == asked[r].query
KeyOf(r) == CacheKey(Query(r))

(* The stack with its last frame replaced by f.                            *)
WithTop(s, f) == [s EXCEPT ![Len(s)] = f]
-----------------------------------------------------------------------------
(* Cache *)

Held(c) == {k \in Keys : c[k] # NoResp}

(* A plain map instead of the LRU.                                         *)
Put_Slip(c, k, resp) == {[c EXCEPT ![k] = resp]}

(* lru.Add: k is stored; when the cache was full another key goes.  Which  *)
(* one depends on the order of use, which is not kept: any of them.        *)
Put(c, k, resp) ==
  LET others == Held(c) \ {k}
      stored == [c EXCEPT ![k] = resp]
  IN IF Cardinality(others) < Cap
       THEN {stored}
       ELSE {[stored EXCEPT ![victim] = NoResp] : victim \in others}

(* The upstream's headers kept as they are.                                *)
Stripped_Slip(resp) == resp

(* What CacheAndFetch keeps of an upstream's response: the node headers    *)
(* are deleted.  The X-Cache value it adds after the Put lands in the      *)
(* cached object too, which shares its header map.                         *)
Stripped(resp) == [resp EXCEPT !.nodeId = <<>>, !.xcache = <<>>]
AddMiss(resp) == [resp EXCEPT !.xcache = Append(@, "Miss")]
SetHit(resp) == [resp EXCEPT !.xcache = <<"HIT">>]

(* ServeHTTP's response: its own node id, then the object's headers.       *)
Written(n, resp) == [resp EXCEPT !.nodeId = <<n>> \o @]
-----------------------------------------------------------------------------
(* Routing *)

Owner(n, k) == IF n \in Edges THEN EdgeOwner[n][k] ELSE ShieldOwner[n][k]

(* The round tripper below Shard, and below each Forward.                  *)
BelowShard(n) == IF n \in Edges THEN "shield" ELSE "origin"
NextHop(n, pc) == IF pc = "peer" THEN BelowShard(n) ELSE "origin"

(* X-Shard is not looked at.                                               *)
ShardHop_Slip(n, k, xshard) ==
  IF Owner(n, k) = n THEN BelowShard(n) ELSE "peer"

(* Shard: the hop a miss takes first.                                      *)
ShardHop(n, k, xshard) ==
  IF xshard \/ Owner(n, k) = n THEN BelowShard(n) ELSE "peer"

(* X-Shard on the request once Shard has chosen: removed when it was       *)
(* there, added on the way to a peer; it stays if the peer fails.          *)
ShardMark(n, k, xshard) == ShardHop(n, k, xshard) = "peer"

(* The first shield that answers, not the one the key hashes to.           *)
Callee_Slip(f, k) == IF f.pc = "peer" THEN Owner(f.node, k)
                     ELSE CHOOSE s \in Shields : up[s] \/ \A x \in Shields : ~up[x]

Callee(f, k) == IF f.pc = "peer" THEN Owner(f.node, k) ELSE ShieldOwner[f.node][k]

(* The same hop is tried again.                                            *)
FellBack_Slip(f) == f

(* Fetch returned an error to frame f: its round tripper's next one runs.  *)
FellBack(f) == [f EXCEPT !.pc = NextHop(f.node, f.pc)]

(* The stack s once frame i is gone: the frames above it are cancelled     *)
(* with it and the one below gets an error.                                *)
Unwound(s, i) == IF i = 1 THEN <<>>
                 ELSE WithTop(SubSeq(s, 1, i - 1), FellBack(s[i - 1]))
-----------------------------------------------------------------------------
Init ==
  /\ up = [n \in Nodes |-> TRUE]
  /\ cache = [n \in Nodes |-> [k \in Keys |-> NoResp]]
  /\ originUp = [h \in Hosts |-> TRUE]
  /\ version = [q \in Queries |-> 1]
  /\ asked = [r \in Requests |-> NoAsk]
  /\ stack = [r \in Requests |-> <<>>]
  /\ answer = [r \in Requests |-> NoResp]
  /\ lost = {}
  /\ faults = 0
  /\ hurt = {}
  /\ contacts = [r \in Requests |-> 0]

(* A client's request for q reaches the edge e.                            *)
ClientRequest(r, e, q) ==
  /\ asked[r] = NoAsk
  /\ up[e]
  /\ asked' = [asked EXCEPT ![r] = [query |-> q, edge |-> e]]
  /\ stack' = [stack EXCEPT ![r] = <<Arrival(e, FALSE)>>]
  /\ UNCHANGED <<cache, answer, lost, hurt, contacts, worldVars>>

(* Replace the last frame of r.                                            *)
Step(r, f) == stack' = [stack EXCEPT ![r] = WithTop(@, f)]

Reply(r, resp) == Step(r, [Top(r) EXCEPT !.pc = "reply", !.resp = resp])

(* ServeHTTP on a host that is not in originLookup.                        *)
RejectUnknownHost(r) ==
  /\ At(r, "serve")
  /\ Query(r).host \notin Knows[Top(r).node]
  /\ Reply(r, Error(Top(r).node, Query(r), "404"))
  /\ UNCHANGED <<cache, hurt, contacts, clientVars, worldVars>>

ServeHit(r) ==
  /\ At(r, "serve")
  /\ Query(r).host \in Knows[Top(r).node]
  /\ LET n == Top(r).node IN
       /\ cache[n][KeyOf(r)] # NoResp
       /\ Reply(r, Written(n, SetHit(cache[n][KeyOf(r)])))
  /\ UNCHANGED <<cache, hurt, contacts, clientVars, worldVars>>

(* A miss: no lock is held and no other request is waited for.             *)
ServeMiss(r) ==
  /\ At(r, "serve")
  /\ Query(r).host \in Knows[Top(r).node]
  /\ LET n == Top(r).node
         x == Top(r).xshard
     IN /\ cache[n][KeyOf(r)] = NoResp
        /\ Step(r, [Top(r) EXCEPT !.pc = ShardHop(n, KeyOf(r), x),
                                  !.xshard = ShardMark(n, KeyOf(r), x)])
  /\ UNCHANGED <<cache, hurt, contacts, clientVars, worldVars>>

(* Fetch from a peer or a shield that runs: its handler starts.            *)
Fetch(r) ==
  /\ At(r, "peer") \/ At(r, "shield")
  /\ LET callee == Callee(Top(r), KeyOf(r)) IN
       /\ up[callee]
       /\ stack' = [stack EXCEPT ![r] = Append(@, Arrival(callee, Top(r).xshard))]
  /\ UNCHANGED <<cache, hurt, contacts, clientVars, worldVars>>

(* No fallback: an upstream that is down is an internal server error.      *)
FetchFails_Slip(r) ==
  /\ At(r, "peer") \/ At(r, "shield")
  /\ ~up[Callee(Top(r), KeyOf(r))]
  /\ Reply(r, Error(Top(r).node, Query(r), "500"))
  /\ UNCHANGED <<cache, hurt, contacts, clientVars, worldVars>>

(* Fetch from a node that is down.                                         *)
FetchFails(r) ==
  /\ At(r, "peer") \/ At(r, "shield")
  /\ ~up[Callee(Top(r), KeyOf(r))]
  /\ Step(r, FellBack(Top(r)))
  /\ UNCHANGED <<cache, hurt, contacts, clientVars, worldVars>>

Contact(r) == contacts' = [contacts EXCEPT ![r] = @ + 1]

FetchOrigin(r) ==
  /\ At(r, "origin")
  /\ originUp[Query(r).host]
  /\ Step(r, [Top(r) EXCEPT !.pc = "body", !.resp = FromOrigin(Query(r))])
  /\ Contact(r)
  /\ UNCHANGED <<cache, hurt, clientVars, worldVars>>

(* The origin does not answer: noUpstreamAvailable, and ServeHTTP replies  *)
(* 500.                                                                    *)
FetchOriginFails(r) ==
  /\ At(r, "origin")
  /\ ~originUp[Query(r).host]
  /\ Reply(r, Error(Top(r).node, Query(r), "500"))
  /\ hurt' = hurt \cup {Query(r).host}
  /\ Contact(r)
  /\ UNCHANGED <<cache, clientVars, worldVars>>

(* The body is complete: cached, whatever its status, and written.         *)
CacheAndReply(r) ==
  /\ At(r, "body")
  /\ LET n == Top(r).node
         obj == AddMiss(Stripped(Top(r).resp))
     IN /\ \E c \in Put(cache[n], KeyOf(r), obj) : cache' = [cache EXCEPT ![n] = c]
        /\ Reply(r, Written(n, obj))
  /\ UNCHANGED <<hurt, contacts, clientVars, worldVars>>

(* The handler returns: its caller's Fetch returns the response, or the    *)
(* client has its answer.                                                  *)
Return(r) ==
  /\ At(r, "reply")
  /\ LET s == stack[r]
         d == Len(s)
     IN IF d = 1
          THEN /\ answer' = [answer EXCEPT ![r] = Top(r).resp]
               /\ stack' = [stack EXCEPT ![r] = <<>>]
          ELSE /\ stack' = [stack EXCEPT ![r] =
                     WithTop(SubSeq(s, 1, d - 1),
                             [s[d - 1] EXCEPT !.pc = "body", !.resp = Top(r).resp])]
               /\ UNCHANGED answer
  /\ UNCHANGED <<cache, asked, lost, hurt, contacts, worldVars>>

Handle(r) == \/ RejectUnknownHost(r) \/ ServeHit(r) \/ ServeMiss(r)
             \/ Fetch(r) \/ FetchFails(r) \/ FetchOrigin(r) \/ FetchOriginFails(r)
             \/ CacheAndReply(r) \/ Return(r)
-----------------------------------------------------------------------------
(* The environment.  Each fault counts against MaxFaults. *)

Fault == faults < MaxFaults /\ faults' = faults + 1

(* io.ReadAll fails: the sender or the link died under the body.           *)
CutBody(r) ==
  /\ Fault
  /\ At(r, "body")
  /\ Reply(r, Error(Top(r).node, Query(r), "500"))
  /\ hurt' = hurt \cup {Query(r).host}
  /\ UNCHANGED <<cache, contacts, clientVars, up, originUp, version>>

(* The connection under the i-th frame breaks (under the first one it is   *)
(* the client's); the context of the frames from i on is cancelled.        *)
BreakLink(r, i) ==
  /\ Fault
  /\ i \in 1..Len(stack[r])
  /\ stack' = [stack EXCEPT ![r] = Unwound(@, i)]
  /\ lost' = IF i = 1 THEN lost \cup {r} ELSE lost
  /\ UNCHANGED <<cache, asked, answer, hurt, contacts, up, originUp, version>>

(* The first frame of s on node n; one past the end if there is none.      *)
FirstOn(s, n) ==
  CHOOSE i \in 1..Len(s) + 1 :
    /\ i <= Len(s) => s[i].node = n
    /\ \A j \in 1..i - 1 : s[j].node # n

(* A node dies with its cache and every handler on it.                     *)
Crash(n) ==
  /\ Fault
  /\ up[n]
  /\ up' = [up EXCEPT ![n] = FALSE]
  /\ cache' = [cache EXCEPT ![n] = [k \in Keys |-> NoResp]]
  /\ stack' = [r \in Requests |->
                 LET i == FirstOn(stack[r], n)
                 IN IF i > Len(stack[r]) THEN stack[r] ELSE Unwound(stack[r], i)]
  /\ lost' = lost \cup {r \in Requests : Active(r) /\ stack[r][1].node = n}
  /\ UNCHANGED <<asked, answer, hurt, contacts, originUp, version>>

Restart(n) ==
  /\ ~up[n]
  /\ up' = [up EXCEPT ![n] = TRUE]
  /\ UNCHANGED <<cache, stack, hurt, contacts, clientVars, originUp, version, faults>>

OriginDown(h) ==
  /\ Fault
  /\ originUp[h]
  /\ originUp' = [originUp EXCEPT ![h] = FALSE]
  /\ UNCHANGED <<cache, stack, hurt, contacts, clientVars, up, version>>

OriginRecovers(h) ==
  /\ ~originUp[h]
  /\ originUp' = [originUp EXCEPT ![h] = TRUE]
  /\ UNCHANGED <<cache, stack, hurt, contacts, clientVars, up, version, faults>>

Publish(q) ==
  /\ version[q] < MaxVersion
  /\ version' = [version EXCEPT ![q] = @ + 1]
  /\ UNCHANGED <<cache, stack, hurt, contacts, clientVars, up, originUp, faults>>

Environment ==
  \/ \E r \in Requests, e \in Edges, q \in Queries : ClientRequest(r, e, q)
  \/ \E r \in Requests : CutBody(r)
  \/ \E r \in Requests : \E i \in 1..Len(stack[r]) : BreakLink(r, i)
  \/ \E n \in Nodes : Crash(n) \/ Restart(n)
  \/ \E h \in Hosts : OriginDown(h) \/ OriginRecovers(h)
  \/ \E q \in Queries : Publish(q)

Next == Environment \/ \E r \in Requests : Handle(r)

Spec == Init /\ [][Next]_vars

(* net/http runs every request in a goroutine of its own, which the Go     *)
(* runtime schedules; nothing makes clients ask, nodes crash or restart.   *)
FairSpec == Spec /\ \A r \in Requests : WF_vars(Handle(r))
-----------------------------------------------------------------------------
(* Properties *)

TypeOK ==
  /\ up \in [Nodes -> BOOLEAN]
  /\ cache \in [Nodes -> [Keys -> Responses \cup {NoResp}]]
  /\ \A n \in Nodes : Cardinality(Held(cache[n])) <= Cap
  /\ originUp \in [Hosts -> BOOLEAN]
  /\ version \in [Queries -> 1..MaxVersion]
  /\ asked \in [Requests -> [query : Queries, edge : Edges] \cup {NoAsk}]
  /\ stack \in [Requests -> Seq(Frames)]
  /\ answer \in [Requests -> Responses \cup {NoResp}]
  /\ lost \subseteq Requests
  /\ faults \in 0..MaxFaults
  /\ hurt \subseteq Hosts
  /\ contacts \in [Requests -> Nat]
  /\ \A r \in Requests : Active(r) => asked[r] # NoAsk

(* A request never comes back to a node it is already waiting on, and goes *)
(* through two edges and two shields at most: the X-Shard mark, which Shard*)
(* adds, and deletes and obeys on the next node, breaks every cycle,       *)
(* however much the nodes' configurations disagree on who owns a key.      *)
NoRoutingLoop ==
  \A r \in Requests :
    LET s == stack[r] IN
      /\ \A i, j \in 1..Len(s) : i # j => s[i].node # s[j].node
      /\ Len(s) <= 4
      /\ \A i \in 3..Len(s) : s[i].node \in Shields

(* One client request makes the nodes turn to its origin five times at     *)
(* most, whatever crashes under it: the fallbacks of Shard and Forward do  *)
(* not multiply into a storm of retries.                                   *)
OriginLoad == \A r \in Requests : contacts[r] <= 5

(* What a response for query q may say, in a cache, under way or at a      *)
(* client: an object of q that its origin published, a 404 only for a host *)
(* some node was not configured with, a 500 only for a host whose own      *)
(* origin or transfers have failed.                                        *)
Listed == {h \in Hosts : \A n \in Nodes : h \in Knows[n]}
Sound(v, q) ==
  /\ v.query = q
  /\ v.code = "200" => v.ver \in 1..version[q]
  /\ v.code = "404" => q.host \notin Listed
  /\ v.code = "500" => q.host \in hurt

(* The tenants share nodes and caches but not their troubles: no response  *)
(* for one host carries another's object, and the outage of one origin     *)
(* never turns into errors, fresh or cached, for the clients of another    *)
(* (CacheKey, ByHost, ServeHTTP's check of the host).                      *)
TenantIsolation ==
  /\ \A n \in Nodes, q \in Queries :
       cache[n][CacheKey(q)] # NoResp => Sound(cache[n][CacheKey(q)].value, q)
  /\ \A r \in Requests :
       /\ answer[r] # NoResp => Sound(answer[r].value, Query(r))
       /\ \A i \in 1..Len(stack[r]) :
            stack[r][i].resp # NoResp => Sound(stack[r][i].resp.value, Query(r))

(* However many nodes an answer came through, its client sees one node id, *)
(* that of the edge it asked, and one X-Cache value at most; HIT only if   *)
(* the request was kept away from the origin.                              *)
HeadersTruthful ==
  \A r \in Requests : answer[r] # NoResp =>
    /\ answer[r].nodeId = <<asked[r].edge>>
    /\ answer[r].xcache \in {<<>>, <<"HIT">>, <<"Miss">>}
    /\ answer[r].xcache = <<"HIT">> => contacts[r] = 0
    /\ answer[r].xcache = <<>> => answer[r].value.code # "200"

(* When every node was started with the same files, the key of an object   *)
(* is held by one shield at most, the one hashing picks, and by an edge    *)
(* only if the edge owns it or was asked for it by a client, crashes and   *)
(* fallbacks notwithstanding: the tiers do not fill up with copies.        *)
ViewsAgree == /\ \A m, n \in Edges : EdgeOwner[m] = EdgeOwner[n]
              /\ \A m, n \in Nodes : ShieldOwner[m] = ShieldOwner[n]
Placement ==
  ViewsAgree =>
    \A n \in Nodes, k \in Keys : cache[n][k] # NoResp =>
      \/ Owner(n, k) = n
      \/ \E r \in Requests : asked[r] # NoAsk /\ asked[r].edge = n /\ KeyOf(r) = k

(* Every request a client makes ends, with an answer or a lost connection. *)
EveryRequestEnds == \A r \in Requests : Active(r) ~> ~Active(r)

(* The tiers implement the service their clients see.                      *)
Service == INSTANCE CdnService WITH
  asked <- [r \in Requests |-> IF asked[r] = NoAsk THEN [uri |-> "none"]
                               ELSE Query(r)],
  outcome <- [r \in Requests |->
                IF r \in lost THEN [code |-> "lost", ver |-> 0]
                ELSE IF answer[r] = NoResp THEN [code |-> "pending", ver |-> 0]
                ELSE [code |-> answer[r].value.code, ver |-> answer[r].value.ver]]
ImplementsService == Service!Spec

(* The cache meter of the demo sites (origin/cachemeter.js): what it takes *)
(* the answer to a fetch for.                                              *)
MeterState(resp) ==
  IF resp.xcache = <<"Hit">> THEN "hit"
  ELSE IF resp.xcache = <<"Miss">> THEN "miss" ELSE "unknown"

(* The meter reports the answers it cannot place as ones without X-Cache,  *)
(* which have not come through a PoPCache; all of these have.              *)
MeterPlacesAnswers ==
  \A r \in Requests :
    answer[r] # NoResp /\ answer[r].value.code = "200" =>
      MeterState(answer[r]) # "unknown"
=============================================================================

--------------------------- MODULE CacheTierProofs ---------------------------
(***************************************************************************)
(* Proofs about CacheTier, for any two disjoint tiers, any hosts and URIs, *)
(* any views the nodes have of the owners, any number of requests and any  *)
(* bound on the faults.                                                    *)
(*                                                                         *)
(* Three inductive invariants, each resting on the one before:             *)
(*                                                                         *)
(* IInv, for TypeOK and NoRoutingLoop.  NoRoutingLoop speaks of whole      *)
(* stacks and is not inductive.  Shape says of each frame, and of each     *)
(* pair of neighbours, why no cycle can close: who was called by a peer    *)
(* carries the X-Shard mark until it chooses its own hop and cannot choose *)
(* a peer then; a shield is only ever called from an edge or from one      *)
(* other shield.                                                           *)
(*                                                                         *)
(* Isolated, for TenantIsolation: every response, wherever it is, is sound *)
(* for the object it is kept or carried for.                               *)
(*                                                                         *)
(* Books, for OriginLoad, HeadersTruthful and Placement: what a request    *)
(* has cost, what its handlers may still cost, and what they write.        *)
(*                                                                         *)
(* With the three, every step maps to one of CdnService or to none.        *)
(***************************************************************************)
EXTENDS CacheTier, FiniteSetTheorems, SequenceTheorems, TLAPS

SameTier(m, n) == m \in Edges <=> n \in Edges

(* A frame by itself, in a request for key k.                              *)
Sane(f, k) ==
  /\ f.pc = "peer" => Owner(f.node, k) # f.node /\ f.xshard
  /\ f.pc = "shield" => f.node \in Edges
  /\ f.pc \in {"body", "reply"} => f.resp \in Responses

(* Frame f is waiting for frame g.                                         *)
Calls(f, g) ==
  \/ /\ f.pc = "peer"
     /\ f.node # g.node
     /\ SameTier(f.node, g.node)
     /\ g.pc # "peer"
     /\ g.pc = "serve" => g.xshard
  \/ /\ f.pc = "shield"
     /\ f.node \in Edges
     /\ g.node \in Shields

Shape(s, k) ==
  /\ s # <<>> => s[1].node \in Edges
  /\ \A i \in 1..Len(s) : Sane(s[i], k)
  /\ \A i \in 1..Len(s) - 1 : Calls(s[i], s[i + 1])

StackOK ==
  /\ stack \in [Requests -> Seq(Frames)]
  /\ \A r \in Requests :
       Active(r) => asked[r] # NoAsk /\ Shape(stack[r], KeyOf(r))

IInv == TypeOK /\ StackOK
-----------------------------------------------------------------------------
(* The shape of a stack settles where it can go. *)

(* Any stack of this shape visits no node twice and fits the two tiers.    *)
LEMMA ShapeIsLoopFree ==
  ASSUME NEW s \in Seq(Frames), NEW k \in Keys, Shape(s, k)
  PROVE  /\ \A i, j \in 1..Len(s) : i # j => s[i].node # s[j].node
         /\ Len(s) <= 4
         /\ \A i \in 3..Len(s) : s[i].node \in Shields
<1> USE TopologyAssumption
<1>0. Len(s) \in Nat /\ \A i \in 1..Len(s) : s[i].node \in Nodes
  <2>1. \A i \in 1..Len(s) : s[i] \in Frames
    BY ElementOfSeq
  <2>2. \A f \in Frames : f.node \in Nodes
    BY DEF Frames
  <2> QED BY <2>1, <2>2, LenProperties
<1>1. \A i \in 1..Len(s) - 1 :
        /\ s[i].pc \in {"peer", "shield"}
        /\ s[i].pc = "peer" => s[i + 1].pc # "peer"
        /\ s[i].pc = "peer" => s[i].node # s[i + 1].node
        /\ s[i].pc = "peer" => (s[i].node \in Edges <=> s[i + 1].node \in Edges)
        /\ s[i].pc = "shield" => s[i].node \in Edges /\ s[i + 1].node \in Shields
  BY DEF Shape, Calls, SameTier
<1>2. Len(s) > 0 => s[1].node \in Edges
  BY DEF Shape
<1>3. \A n \in Nodes : n \in Shields <=> n \notin Edges
  BY DEF Nodes
<1>4. Len(s) >= 3 => s[3].node \in Shields
  <2> SUFFICES ASSUME Len(s) >= 3 PROVE s[3].node \in Shields
    OBVIOUS
  <2>1. CASE s[1].pc = "peer"
    <3>1. s[2].pc = "shield" BY <1>0, <1>1, <2>1
    <3> QED BY <1>0, <1>1, <3>1
  <2>2. CASE s[1].pc = "shield"
    <3>1. s[2].node \in Shields /\ s[2].node \notin Edges BY <1>0, <1>1, <1>3, <2>2
    <3>2. s[2].pc = "peer" BY <1>0, <1>1, <3>1
    <3> QED BY <1>0, <1>1, <1>3, <3>1, <3>2
  <2> QED BY <1>0, <1>1, <2>1, <2>2
<1>5. Len(s) >= 4 => s[4].node \in Shields /\ s[4].node # s[3].node /\ s[2].node \in Edges
  <2> SUFFICES ASSUME Len(s) >= 4
               PROVE s[4].node \in Shields /\ s[4].node # s[3].node /\ s[2].node \in Edges
    OBVIOUS
  <2>1. s[3].node \in Shields /\ s[3].node \notin Edges BY <1>0, <1>3, <1>4
  <2>2. s[3].pc = "peer" BY <1>0, <1>1, <2>1
  <2>3. s[2].pc = "shield" BY <1>0, <1>1, <2>2
  <2> QED BY <1>0, <1>1, <1>3, <2>1, <2>2, <2>3
<1>6. Len(s) <= 4
  <2> SUFFICES ASSUME Len(s) >= 5 PROVE FALSE
    BY <1>0
  <2>1. s[3].node \notin Edges /\ s[4].node \notin Edges BY <1>0, <1>3, <1>4, <1>5
  <2>2. s[3].pc = "peer" /\ s[4].pc = "peer" BY <1>0, <1>1, <2>1
  <2> QED BY <1>0, <1>1, <2>2
<1>7. Len(s) >= 2 => s[1].node # s[2].node
  BY <1>0, <1>1, <1>3
<1>8. Len(s) >= 3 => s[1].node # s[3].node /\ s[2].node # s[3].node
  <2> SUFFICES ASSUME Len(s) >= 3 PROVE s[1].node # s[3].node /\ s[2].node # s[3].node
    OBVIOUS
  <2> QED BY <1>0, <1>1, <1>2, <1>3, <1>4
<1>9. Len(s) >= 4 => /\ s[1].node # s[4].node /\ s[2].node # s[4].node
                     /\ s[3].node # s[4].node
  BY <1>0, <1>2, <1>3, <1>5
<1>10. \A i \in 3..Len(s) : s[i].node \in Shields
  <2> TAKE i \in 3..Len(s)
  <2>1. i = 3 \/ i = 4 BY <1>0, <1>6
  <2> QED BY <1>0, <1>4, <1>5, <2>1
<1>11. \A i, j \in 1..Len(s) : i < j => s[i].node # s[j].node
  <2> TAKE i, j \in 1..Len(s)
  <2> HAVE i < j
  <2>1. \/ i = 1 /\ j \in {2, 3, 4}
        \/ i = 2 /\ j \in {3, 4}
        \/ i = 3 /\ j = 4
    BY <1>0, <1>6
  <2> QED BY <1>0, <1>7, <1>8, <1>9, <2>1
<1> QED
  <2>1. ASSUME NEW i \in 1..Len(s), NEW j \in 1..Len(s), i # j
        PROVE  s[i].node # s[j].node
    <3>1. i < j \/ j < i BY <1>0, <2>1
    <3> QED BY <1>11, <3>1
  <2> QED BY <1>6, <1>10, <2>1
-----------------------------------------------------------------------------
(* What the handlers do to a stack keeps its shape. *)

(* A handler moves on from f to g: it keeps its node, and it turns to a    *)
(* peer only from the cache lookup and without the mark.                   *)
MovesTo(f, g, k) ==
  /\ g.node = f.node
  /\ g.pc # "serve"
  /\ g.pc = "peer" => f.pc = "serve" /\ ~f.xshard
  /\ Sane(g, k)

LEMMA TopMoves ==
  ASSUME NEW s \in Seq(Frames), s # <<>>, NEW k \in Keys, Shape(s, k),
         NEW f \in Frames, MovesTo(s[Len(s)], f, k)
  PROVE  WithTop(s, f) \in Seq(Frames) /\ WithTop(s, f) # <<>> /\ Shape(WithTop(s, f), k)
<1> DEFINE t == WithTop(s, f)
<1>1. Len(s) \in Nat /\ Len(s) > 0
  BY LenProperties, EmptySeq
<1>2. t \in Seq(Frames) /\ Len(t) = Len(s) /\ t[Len(s)] = f
        /\ \A i \in 1..Len(s) : i # Len(s) => t[i] = s[i]
  BY <1>1, ExceptSeq DEF WithTop
<1>3. t # <<>>
  BY <1>1, <1>2, EmptySeq
<1>4. t[1].node \in Edges
  <2>1. s[1].node \in Edges BY <1>1 DEF Shape
  <2>2. CASE Len(s) = 1 BY <1>2, <2>1, <2>2 DEF MovesTo
  <2>3. CASE Len(s) # 1 BY <1>1, <1>2, <2>1, <2>3
  <2> QED BY <2>2, <2>3
<1>5. ASSUME NEW i \in 1..Len(t) PROVE Sane(t[i], k)
  <2>1. CASE i = Len(s) BY <1>2, <2>1 DEF MovesTo
  <2>2. CASE i # Len(s) BY <1>2, <2>2 DEF Shape
  <2> QED BY <2>1, <2>2
<1>6. ASSUME NEW i \in 1..Len(t) - 1 PROVE Calls(t[i], t[i + 1])
  <2>1. Calls(s[i], s[i + 1]) BY <1>2 DEF Shape
  <2>2. t[i] = s[i] BY <1>1, <1>2
  <2>3. CASE i + 1 = Len(s)
    BY <1>1, <1>2, <2>1, <2>2, <2>3 DEF MovesTo, Calls, SameTier
  <2>4. CASE i + 1 # Len(s)
    <3>1. t[i + 1] = s[i + 1] BY <1>1, <1>2, <2>4
    <3> QED BY <2>1, <2>2, <3>1
  <2> QED BY <2>3, <2>4
<1> QED BY <1>2, <1>3, <1>4, <1>5, <1>6 DEF Shape

LEMMA PrefixKeepsShape ==
  ASSUME NEW s \in Seq(Frames), NEW k \in Keys, Shape(s, k), NEW d \in 1..Len(s)
  PROVE  /\ SubSeq(s, 1, d) \in Seq(Frames) /\ SubSeq(s, 1, d) # <<>>
         /\ Shape(SubSeq(s, 1, d), k)
         /\ Len(SubSeq(s, 1, d)) = d
         /\ \A i \in 1..d : SubSeq(s, 1, d)[i] = s[i]
<1> DEFINE t == SubSeq(s, 1, d)
<1>1. Len(s) \in Nat /\ d \in Nat /\ 1 <= d /\ d <= Len(s)
  BY LenProperties
<1>2. t \in Seq(Frames) /\ Len(t) = d /\ \A i \in 1..d : t[i] = s[i]
  <2>1. \A i \in 1..d : s[i] \in Frames BY <1>1, ElementOfSeq
  <2> QED BY <1>1, <2>1, SubSeqProperties
<1>3. t # <<>> /\ s # <<>>
  BY <1>1, <1>2, EmptySeq
<1>4. Shape(t, k)
  BY <1>1, <1>2, <1>3 DEF Shape
<1> QED BY <1>2, <1>3, <1>4

LEMMA CallKeepsShape ==
  ASSUME NEW s \in Seq(Frames), s # <<>>, NEW k \in Keys, Shape(s, k),
         NEW f \in Frames, f.pc = "serve", Calls(s[Len(s)], f)
  PROVE  Append(s, f) \in Seq(Frames) /\ Append(s, f) # <<>> /\ Shape(Append(s, f), k)
<1> DEFINE t == Append(s, f)
<1>1. Len(s) \in Nat /\ Len(s) > 0
  BY LenProperties, EmptySeq
<1>2. /\ t \in Seq(Frames) /\ Len(t) = Len(s) + 1 /\ t # <<>>
      /\ \A i \in 1..Len(s) : t[i] = s[i]
      /\ t[Len(s) + 1] = f
  BY AppendProperties
<1>3. t[1].node \in Edges
  BY <1>1, <1>2 DEF Shape
<1>4. ASSUME NEW i \in 1..Len(t) PROVE Sane(t[i], k)
  <2>1. CASE i = Len(s) + 1 BY <1>2, <2>1 DEF Sane
  <2>2. CASE i # Len(s) + 1 BY <1>1, <1>2, <2>2 DEF Shape
  <2> QED BY <2>1, <2>2
<1>5. ASSUME NEW i \in 1..Len(t) - 1 PROVE Calls(t[i], t[i + 1])
  <2>1. CASE i = Len(s) BY <1>1, <1>2, <2>1
  <2>2. CASE i # Len(s) BY <1>1, <1>2, <2>2 DEF Shape
  <2> QED BY <2>1, <2>2
<1> QED BY <1>2, <1>3, <1>4, <1>5 DEF Shape

(* A Fetch that ends in an error, and a frame that goes away.              *)
LEMMA FellBackMoves ==
  ASSUME NEW f \in Frames, NEW k \in Keys, f.pc \in {"peer", "shield"}
  PROVE  FellBack(f) \in Frames /\ MovesTo(f, FellBack(f), k)
BY DEF FellBack, MovesTo, NextHop, BelowShard, Sane, Frames, PCs

LEMMA UnwoundKeepsShape ==
  ASSUME NEW s \in Seq(Frames), NEW k \in Keys, Shape(s, k), NEW i \in 1..Len(s)
  PROVE  /\ Unwound(s, i) \in Seq(Frames) /\ Shape(Unwound(s, i), k)
         /\ Unwound(s, i) # <<>> => s # <<>>
<1>1. Len(s) \in Nat /\ i \in Nat /\ 1 <= i /\ i <= Len(s) /\ s # <<>>
  BY LenProperties, EmptySeq
<1>2. CASE i = 1
  BY <1>1, <1>2, EmptySeq DEF Unwound, Shape
<1>3. CASE i # 1
  <2> DEFINE t == SubSeq(s, 1, i - 1)
  <2>1. i - 1 \in 1..Len(s) BY <1>1, <1>3
  <2>2. /\ t \in Seq(Frames) /\ t # <<>> /\ Shape(t, k) /\ Len(t) = i - 1
        /\ t[i - 1] = s[i - 1]
    BY <1>1, <2>1, PrefixKeepsShape
  <2>3. s[i - 1] \in Frames BY <2>1, ElementOfSeq
  <2>4. Calls(s[i - 1], s[(i - 1) + 1]) BY <1>1, <1>3 DEF Shape
  <2>5. s[i - 1].pc \in {"peer", "shield"} BY <2>4 DEF Calls
  <2>6. FellBack(s[i - 1]) \in Frames /\ MovesTo(s[i - 1], FellBack(s[i - 1]), k)
    BY <2>3, <2>5, FellBackMoves
  <2>7. MovesTo(t[Len(t)], FellBack(s[i - 1]), k) BY <2>2, <2>6
  <2> HIDE DEF t
  <2>8. /\ WithTop(t, FellBack(s[i - 1])) \in Seq(Frames)
        /\ Shape(WithTop(t, FellBack(s[i - 1])), k)
    BY <2>2, <2>6, <2>7, TopMoves
  <2> QED BY <1>1, <1>3, <2>8 DEF Unwound, t
<1> QED BY <1>2, <1>3
-----------------------------------------------------------------------------
(* Types of the operators of CacheTier. *)

LEMMA ErrorType ==
  ASSUME NEW n \in Nodes, NEW q \in Queries, NEW code \in Codes
  PROVE  Error(n, q, code) \in Responses
<1>1. <<n>> \in Seq(Nodes) /\ <<>> \in Seq({"HIT", "Miss"})
  OBVIOUS
<1>2. [code |-> code, query |-> q, ver |-> 0] \in Values
  BY BoundsAssumption DEF Values
<1> QED BY <1>1, <1>2 DEF Error, Responses

LEMMA FromOriginType ==
  ASSUME TypeOK, NEW q \in Queries
  PROVE  FromOrigin(q) \in Responses
<1>1. <<>> \in Seq(Nodes) /\ <<>> \in Seq({"HIT", "Miss"})
  OBVIOUS
<1>2. version[q] \in 0..MaxVersion
  BY BoundsAssumption DEF TypeOK
<1>3. [code |-> "200", query |-> q, ver |-> version[q]] \in Values
  BY <1>2 DEF Values, Codes
<1> QED BY <1>1, <1>3 DEF FromOrigin, Responses

LEMMA HeaderTypes ==
  ASSUME NEW resp \in Responses
  PROVE  /\ SetHit(resp) \in Responses
         /\ AddMiss(resp) \in Responses
         /\ Stripped(resp) \in Responses
         /\ \A n \in Nodes : Written(n, resp) \in Responses
<1>1. resp.nodeId \in Seq(Nodes) /\ resp.xcache \in Seq({"HIT", "Miss"})
  BY DEF Responses
<1>2. <<"HIT">> \in Seq({"HIT", "Miss"}) /\ <<>> \in Seq({"HIT", "Miss"}) /\ <<>> \in Seq(Nodes)
  OBVIOUS
<1>3. Append(resp.xcache, "Miss") \in Seq({"HIT", "Miss"})
  BY <1>1, AppendProperties
<1>4. \A n \in Nodes : <<n>> \o resp.nodeId \in Seq(Nodes)
  BY <1>1, ConcatProperties
<1>5. SetHit(resp) \in Responses BY <1>2 DEF SetHit, Responses
<1>6. AddMiss(resp) \in Responses BY <1>3 DEF AddMiss, Responses
<1>7. Stripped(resp) \in Responses BY <1>2 DEF Stripped, Responses
<1>8. \A n \in Nodes : Written(n, resp) \in Responses BY <1>4 DEF Written, Responses
<1> QED BY <1>5, <1>6, <1>7, <1>8

LEMMA RouteTypes ==
  ASSUME NEW n \in Nodes, NEW k \in Keys
  PROVE  /\ Owner(n, k) \in Nodes
         /\ SameTier(n, Owner(n, k))
         /\ ShieldOwner[n][k] \in Shields
BY TopologyAssumption DEF Owner, SameTier, Nodes

LEMMA KeyType == ASSUME NEW q \in Queries PROVE CacheKey(q) \in Keys
BY DEF CacheKey, Keys, Queries

(* The LRU never outgrows its capacity.                                    *)
LEMMA PutIsBounded ==
  ASSUME NEW c \in [Keys -> Responses \cup {NoResp}], Cardinality(Held(c)) <= Cap,
         NEW k \in Keys, NEW resp \in Responses, NEW d \in Put(c, k, resp)
  PROVE  /\ d \in [Keys -> Responses \cup {NoResp}]
         /\ Cardinality(Held(d)) <= Cap
<1> DEFINE others == Held(c) \ {k}
           stored == [c EXCEPT ![k] = resp]
<1>1. IsFiniteSet(Keys)
  BY FiniteAssumption, FS_Product DEF Keys
<1>2. IsFiniteSet(Held(c)) /\ IsFiniteSet(others) /\ others \subseteq Held(c)
  BY <1>1, FS_Subset DEF Held
<1>3. Cardinality(others) \in Nat /\ Cardinality(others) <= Cap
  <2>1. Cardinality(others) <= Cardinality(Held(c))
    BY <1>2, FS_Subset
  <2> QED BY <1>2, <2>1, FS_CardinalityType, BoundsAssumption
<1>4. CASE Cardinality(others) < Cap
  <2>1. d = stored BY <1>4 DEF Put
  <2>2. Held(d) \subseteq others \cup {k} BY <2>1 DEF Held
  <2>3. IsFiniteSet(others \cup {k}) /\ Cardinality(others \cup {k}) <= Cardinality(others) + 1
    BY <1>2, <1>3, FS_AddElement
  <2>4. Cardinality(Held(d)) <= Cardinality(others) + 1 /\ Cardinality(Held(d)) \in Nat
    <3>1. Cardinality(Held(d)) <= Cardinality(others \cup {k}) /\ IsFiniteSet(Held(d))
      BY <2>2, <2>3, FS_Subset
    <3>2. Cardinality(Held(d)) \in Nat /\ Cardinality(others \cup {k}) \in Nat
      BY <2>3, <3>1, FS_CardinalityType
    <3> QED BY <1>3, <2>3, <3>1, <3>2
  <2>5. d \in [Keys -> Responses \cup {NoResp}] BY <2>1
  <2> QED BY <1>3, <1>4, <2>4, <2>5, BoundsAssumption
<1>5. CASE ~(Cardinality(others) < Cap)
  <2>1. PICK victim \in others : d = [stored EXCEPT ![victim] = NoResp]
    BY <1>5 DEF Put
  <2>2. victim \in Keys /\ victim # k BY <2>1 DEF Held
  <2>3. Held(d) \subseteq (others \ {victim}) \cup {k}
    BY <2>1, <2>2 DEF Held
  <2>4. /\ IsFiniteSet(others \ {victim})
        /\ Cardinality(others \ {victim}) = Cardinality(others) - 1
    BY <1>2, <2>1, FS_RemoveElement
  <2>5. k \notin others \ {victim}
    OBVIOUS
  <2>6. /\ IsFiniteSet((others \ {victim}) \cup {k})
        /\ Cardinality((others \ {victim}) \cup {k}) = Cardinality(others)
    <3> DEFINE rest == others \ {victim}
    <3>1. IsFiniteSet(rest) /\ k \notin rest /\ Cardinality(rest) = Cardinality(others) - 1
      BY <2>4, <2>5
    <3> HIDE DEF rest
    <3>2. IsFiniteSet(rest \cup {k}) /\ Cardinality(rest \cup {k}) = Cardinality(rest) + 1
      BY <3>1, FS_AddElement
    <3>3. Cardinality(rest \cup {k}) = Cardinality(others)
      BY <1>3, <3>1, <3>2
    <3> QED BY <3>2, <3>3 DEF rest
  <2>7. Cardinality(Held(d)) <= Cardinality(others) /\ Cardinality(Held(d)) \in Nat
    BY <2>3, <2>6, FS_Subset, FS_CardinalityType
  <2>8. d \in [Keys -> Responses \cup {NoResp}] BY <2>1, <2>2
  <2> QED BY <1>3, <2>7, <2>8, BoundsAssumption
<1> QED BY <1>4, <1>5
-----------------------------------------------------------------------------
(* Every step keeps the invariant. *)

(* One request's stack becomes s, all else about the requests stays.       *)
LEMMA OneStackChanges ==
  ASSUME StackOK, NEW r \in Requests, NEW s \in Seq(Frames),
         s # <<>> => asked[r] # NoAsk /\ Shape(s, KeyOf(r)),
         stack' = [stack EXCEPT ![r] = s], asked' = asked
  PROVE  StackOK'
<1>1. stack' \in [Requests -> Seq(Frames)]
  BY DEF StackOK
<1>2. ASSUME NEW x \in Requests, stack'[x] # <<>>
      PROVE  asked'[x] # NoAsk /\ Shape(stack'[x], CacheKey(asked'[x].query))
  <2>1. CASE x = r BY <1>2, <2>1 DEF StackOK, KeyOf, Query
  <2>2. CASE x # r
    <3>1. stack'[x] = stack[x] BY <2>2 DEF StackOK
    <3> QED BY <1>2, <3>1 DEF StackOK, Active, KeyOf, Query
  <2> QED BY <2>1, <2>2
<1> QED BY <1>1, <1>2 DEF StackOK, Active, KeyOf, Query

(* What is known of the frame a handler runs in.                           *)
LEMMA ActiveFrame ==
  ASSUME IInv, NEW r \in Requests, Active(r)
  PROVE  /\ stack[r] \in Seq(Frames) /\ stack[r] # <<>>
         /\ Len(stack[r]) \in Nat /\ Len(stack[r]) >= 1
         /\ asked[r] # NoAsk
         /\ Top(r) \in Frames /\ Top(r).node \in Nodes
         /\ Query(r) \in Queries /\ KeyOf(r) \in Keys
         /\ Shape(stack[r], KeyOf(r))
         /\ Sane(Top(r), KeyOf(r))
<1>1. stack[r] \in Seq(Frames) /\ stack[r] # <<>> /\ asked[r] # NoAsk /\ Shape(stack[r], KeyOf(r))
  BY DEF IInv, StackOK, Active
<1>2. Len(stack[r]) \in Nat /\ Len(stack[r]) >= 1
  BY <1>1, LenProperties, EmptySeq
<1>3. Top(r) \in Frames
  BY <1>1, <1>2, ElementOfSeq DEF Top
<1>4. Top(r).node \in Nodes
  BY <1>3 DEF Frames
<1>5. Query(r) \in Queries
  BY <1>1 DEF IInv, TypeOK, Query
<1>6. KeyOf(r) \in Keys
  BY <1>5, KeyType DEF KeyOf
<1>7. Sane(Top(r), KeyOf(r))
  BY <1>1, <1>2 DEF Shape, Top
<1> QED BY <1>1, <1>2, <1>3, <1>4, <1>5, <1>6, <1>7

LEMMA HandlerMoves ==
  ASSUME IInv, NEW r \in Requests, Active(r), NEW f \in Frames,
         MovesTo(Top(r), f, KeyOf(r)), Step(r, f), asked' = asked
  PROVE  StackOK'
<1>1. /\ WithTop(stack[r], f) \in Seq(Frames) /\ WithTop(stack[r], f) # <<>>
      /\ Shape(WithTop(stack[r], f), KeyOf(r))
  BY ActiveFrame, TopMoves DEF Top
<1>2. stack' = [stack EXCEPT ![r] = WithTop(stack[r], f)]
  BY DEF Step, IInv, StackOK
<1> QED BY <1>1, <1>2, ActiveFrame, OneStackChanges DEF IInv

LEMMA ReplyMoves ==
  ASSUME IInv, NEW r \in Requests, Active(r), NEW resp \in Responses,
         Reply(r, resp), asked' = asked
  PROVE  StackOK'
<1> DEFINE f == [Top(r) EXCEPT !.pc = "reply", !.resp = resp]
<1>1. f \in Frames /\ f.node = Top(r).node /\ f.pc = "reply" /\ f.resp = resp
  BY ActiveFrame DEF Frames, PCs
<1>2. MovesTo(Top(r), f, KeyOf(r))
  BY <1>1 DEF MovesTo, Sane
<1> QED BY <1>1, <1>2, HandlerMoves DEF Reply

(* Actions that leave everything but the stacks alone, up to history.      *)
LEMMA OnlyStacks ==
  ASSUME IInv, StackOK', contacts' \in [Requests -> Nat], hurt' \subseteq Hosts,
         faults' \in 0..MaxFaults, lost' \subseteq Requests,
         UNCHANGED <<up, cache, originUp, version, asked, answer>>
  PROVE  IInv'
BY DEF IInv, TypeOK, StackOK, Held, Active

LEMMA ContactType ==
  ASSUME TypeOK, NEW r \in Requests, Contact(r)
  PROVE  contacts' \in [Requests -> Nat]
BY DEF TypeOK, Contact

LEMMA FaultType == ASSUME TypeOK, Fault PROVE faults' \in 0..MaxFaults
BY BoundsAssumption DEF TypeOK, Fault

LEMMA InitKeepsIInv == Init => IInv
<1> SUFFICES ASSUME Init PROVE IInv
  OBVIOUS
<1>1. \A n \in Nodes : Held(cache[n]) = {}
  BY DEF Init, Held
<1>2. \A n \in Nodes : Cardinality(Held(cache[n])) <= Cap
  BY <1>1, FS_EmptySet, BoundsAssumption
<1>3. TypeOK
  BY <1>2, BoundsAssumption DEF Init, TypeOK, Active
<1> QED BY <1>3 DEF Init, IInv, StackOK, TypeOK, Active

LEMMA ClientRequestKeepsIInv ==
  ASSUME IInv, NEW r \in Requests, NEW e \in Edges, NEW q \in Queries,
         ClientRequest(r, e, q)
  PROVE  IInv'
<1> DEFINE f == Arrival(e, FALSE)
<1>1. f \in Frames /\ f.node = e /\ f.pc = "serve"
  BY DEF Arrival, Frames, PCs, Nodes
<1> HIDE DEF f
<1>2. <<f>> \in Seq(Frames) /\ Len(<<f>>) = 1 /\ <<f>>[1] = f
  BY <1>1
<1>3. \A k : Shape(<<f>>, k)
  BY <1>1, <1>2 DEF Shape, Sane
<1>4. asked' \in [Requests -> [query : Queries, edge : Edges] \cup {NoAsk}]
  BY DEF ClientRequest, IInv, TypeOK
<1>5. asked'[r] # NoAsk
  <2>1. asked'[r] = [query |-> q, edge |-> e] BY DEF ClientRequest, IInv, TypeOK
  <2>2. asked'[r].edge = e /\ "edge" \in DOMAIN asked'[r] BY <2>1
  <2>3. "edge" \notin DOMAIN NoAsk BY DEF NoAsk
  <2> QED BY <2>2, <2>3
<1>6. ASSUME NEW x \in Requests, x # r
      PROVE  stack'[x] = stack[x] /\ asked'[x] = asked[x]
  BY <1>6 DEF ClientRequest, IInv, TypeOK
<1>7. stack' = [stack EXCEPT ![r] = <<f>>] /\ stack' \in [Requests -> Seq(Frames)]
  BY <1>2 DEF ClientRequest, IInv, StackOK, f
<1>8. StackOK'
  <2>1. ASSUME NEW x \in Requests, stack'[x] # <<>>
        PROVE  asked'[x] # NoAsk /\ Shape(stack'[x], CacheKey(asked'[x].query))
    <3>1. CASE x = r BY <1>3, <1>5, <1>7, <3>1 DEF IInv, StackOK
    <3>2. CASE x # r BY <1>6, <2>1, <3>2 DEF IInv, StackOK, Active, KeyOf, Query
    <3> QED BY <3>1, <3>2
  <2> QED BY <1>7, <2>1 DEF StackOK, Active, KeyOf, Query
<1>9. TypeOK'
  BY <1>4, <1>8 DEF IInv, TypeOK, StackOK, ClientRequest, worldVars, Held, Active
<1> QED BY <1>8, <1>9 DEF IInv

LEMMA HandleKeepsIInv ==
  ASSUME IInv, NEW r \in Requests, Handle(r)
  PROVE  IInv'
<1> USE DEF clientVars, worldVars
<1>0. TypeOK /\ Active(r)
  BY DEF IInv, Handle, RejectUnknownHost, ServeHit, ServeMiss, Fetch, FetchFails,
         FetchOrigin, FetchOriginFails, CacheAndReply, Return, At
<1>a. /\ Top(r) \in Frames /\ Top(r).node \in Nodes /\ Query(r) \in Queries
      /\ KeyOf(r) \in Keys /\ Sane(Top(r), KeyOf(r)) /\ asked[r] # NoAsk
      /\ stack[r] \in Seq(Frames) /\ stack[r] # <<>> /\ Shape(stack[r], KeyOf(r))
      /\ Len(stack[r]) \in Nat /\ Len(stack[r]) >= 1
  BY <1>0, ActiveFrame
<1>b. contacts \in [Requests -> Nat] /\ hurt \subseteq Hosts /\ faults \in 0..MaxFaults
        /\ lost \subseteq Requests
  BY <1>0 DEF TypeOK
<1>c. Query(r).host \in Hosts
  BY <1>a DEF Queries
<1>1. CASE RejectUnknownHost(r)
  <2>1. Error(Top(r).node, Query(r), "404") \in Responses
    BY <1>a, ErrorType DEF Codes
  <2>2. StackOK' BY <1>0, <1>1, <2>1, ReplyMoves DEF RejectUnknownHost
  <2> QED BY <1>1, <1>b, <2>2, OnlyStacks DEF RejectUnknownHost
<1>2. CASE ServeHit(r)
  <2>1. cache[Top(r).node][KeyOf(r)] \in Responses
    BY <1>0, <1>a, <1>2 DEF ServeHit, TypeOK
  <2>2. Written(Top(r).node, SetHit(cache[Top(r).node][KeyOf(r)])) \in Responses
    BY <1>a, <2>1, HeaderTypes
  <2>3. StackOK' BY <1>0, <1>2, <2>2, ReplyMoves DEF ServeHit
  <2> QED BY <1>2, <1>b, <2>3, OnlyStacks DEF ServeHit
<1>3. CASE ServeMiss(r)
  <2> DEFINE n == Top(r).node
             x == Top(r).xshard
             f == [Top(r) EXCEPT !.pc = ShardHop(n, KeyOf(r), x),
                                 !.xshard = ShardMark(n, KeyOf(r), x)]
  <2>1. Top(r).pc = "serve" /\ Step(r, f)
    BY <1>3 DEF ServeMiss, At
  <2>2. /\ ShardHop(n, KeyOf(r), x) \in {"peer", "shield", "origin"}
        /\ ShardHop(n, KeyOf(r), x) = "peer" => ~x /\ Owner(n, KeyOf(r)) # n
        /\ ShardHop(n, KeyOf(r), x) = "shield" => n \in Edges
        /\ ShardMark(n, KeyOf(r), x) <=> ShardHop(n, KeyOf(r), x) = "peer"
    BY DEF ShardHop, ShardMark, BelowShard
  <2>3. x \in BOOLEAN BY <1>a DEF Frames
  <2>4. /\ f \in Frames /\ f.node = n /\ f.pc = ShardHop(n, KeyOf(r), x)
        /\ f.xshard = ShardMark(n, KeyOf(r), x)
    <3>1. ShardMark(n, KeyOf(r), x) \in BOOLEAN BY DEF ShardMark
    <3> QED BY <1>a, <2>2, <3>1 DEF Frames, PCs
  <2> HIDE DEF f
  <2>5. MovesTo(Top(r), f, KeyOf(r))
    BY <2>1, <2>2, <2>4 DEF MovesTo, Sane
  <2>6. StackOK' BY <1>0, <1>3, <2>1, <2>4, <2>5, HandlerMoves DEF ServeMiss
  <2> QED BY <1>3, <1>b, <2>6, OnlyStacks DEF ServeMiss
<1>4. CASE Fetch(r)
  <2> DEFINE callee == Callee(Top(r), KeyOf(r))
             g == Arrival(callee, Top(r).xshard)
  <2>1. Top(r).pc \in {"peer", "shield"} BY <1>4 DEF Fetch, At
  <2>2. callee \in Nodes /\ Top(r).xshard \in BOOLEAN
    BY <1>a, RouteTypes DEF Callee, Nodes, Frames
  <2>3. g \in Frames /\ g.node = callee /\ g.pc = "serve" /\ g.xshard = Top(r).xshard
    BY <2>2 DEF Arrival, Frames, PCs
  <2>4. Calls(Top(r), g)
    <3>1. CASE Top(r).pc = "peer"
      <4>1. callee = Owner(Top(r).node, KeyOf(r)) BY <3>1 DEF Callee
      <4>2. SameTier(Top(r).node, callee) BY <1>a, <4>1, RouteTypes
      <4>3. callee # Top(r).node /\ Top(r).xshard BY <1>a, <3>1, <4>1 DEF Sane
      <4> QED BY <2>3, <3>1, <4>2, <4>3 DEF Calls
    <3>2. CASE Top(r).pc = "shield"
      <4>1. callee \in Shields BY <1>a, <3>2, RouteTypes DEF Callee
      <4> QED BY <1>a, <2>3, <3>2, <4>1 DEF Calls, Sane
    <3> QED BY <2>1, <3>1, <3>2
  <2> HIDE DEF g
  <2>5. /\ Append(stack[r], g) \in Seq(Frames) /\ Append(stack[r], g) # <<>>
        /\ Shape(Append(stack[r], g), KeyOf(r))
    BY <1>a, <2>3, <2>4, CallKeepsShape DEF Top
  <2>6. stack' = [stack EXCEPT ![r] = Append(stack[r], g)] /\ asked' = asked
    BY <1>4 DEF Fetch, g
  <2>7. StackOK' BY <1>a, <2>5, <2>6, OneStackChanges DEF IInv
  <2> QED BY <1>4, <1>b, <2>7, OnlyStacks DEF Fetch
<1>5. CASE FetchFails(r)
  <2>1. Top(r).pc \in {"peer", "shield"} /\ Step(r, FellBack(Top(r)))
    BY <1>5 DEF FetchFails, At
  <2>2. FellBack(Top(r)) \in Frames /\ MovesTo(Top(r), FellBack(Top(r)), KeyOf(r))
    BY <1>a, <2>1, FellBackMoves
  <2>3. StackOK' BY <1>0, <1>5, <2>1, <2>2, HandlerMoves DEF FetchFails
  <2> QED BY <1>5, <1>b, <2>3, OnlyStacks DEF FetchFails
<1>6. CASE FetchOrigin(r)
  <2> DEFINE f == [Top(r) EXCEPT !.pc = "body", !.resp = FromOrigin(Query(r))]
  <2>1. f \in Frames /\ f.node = Top(r).node /\ f.pc = "body" /\ f.resp \in Responses
    BY <1>0, <1>a, FromOriginType DEF Frames, PCs
  <2>2. MovesTo(Top(r), f, KeyOf(r)) BY <2>1 DEF MovesTo, Sane
  <2>3. Step(r, f) /\ Contact(r) BY <1>6 DEF FetchOrigin
  <2> HIDE DEF f
  <2>4. StackOK' BY <1>0, <1>6, <2>1, <2>2, <2>3, HandlerMoves DEF FetchOrigin
  <2> QED BY <1>0, <1>6, <1>b, <2>3, <2>4, ContactType, OnlyStacks DEF FetchOrigin
<1>7. CASE FetchOriginFails(r)
  <2>1. Error(Top(r).node, Query(r), "500") \in Responses
    BY <1>a, ErrorType DEF Codes
  <2>2. StackOK' BY <1>0, <1>7, <2>1, ReplyMoves DEF FetchOriginFails
  <2>3. contacts' \in [Requests -> Nat] BY <1>0, <1>7, ContactType DEF FetchOriginFails
  <2> QED BY <1>7, <1>b, <1>c, <2>2, <2>3, OnlyStacks DEF FetchOriginFails
<1>8. CASE CacheAndReply(r)
  <2> DEFINE n == Top(r).node
             obj == AddMiss(Stripped(Top(r).resp))
  <2>1. Top(r).resp \in Responses BY <1>a, <1>8 DEF CacheAndReply, At, Sane
  <2>2. obj \in Responses /\ Written(n, obj) \in Responses
    BY <1>a, <2>1, HeaderTypes
  <2> HIDE DEF obj
  <2>3. PICK c \in Put(cache[n], KeyOf(r), obj) : cache' = [cache EXCEPT ![n] = c]
    BY <1>8 DEF CacheAndReply, obj
  <2>4. Reply(r, Written(n, obj)) BY <1>8 DEF CacheAndReply, obj
  <2>5. c \in [Keys -> Responses \cup {NoResp}] /\ Cardinality(Held(c)) <= Cap
    BY <1>0, <1>a, <2>2, <2>3, PutIsBounded DEF TypeOK
  <2>6. StackOK' BY <1>0, <1>8, <2>2, <2>4, ReplyMoves DEF CacheAndReply
  <2>7. cache' \in [Nodes -> [Keys -> Responses \cup {NoResp}]]
    BY <1>0, <2>3, <2>5 DEF TypeOK
  <2>8. ASSUME NEW m \in Nodes PROVE Cardinality(Held(cache'[m])) <= Cap
    <3>1. cache'[m] = IF m = n THEN c ELSE cache[m] BY <1>0, <2>3 DEF TypeOK
    <3> QED BY <1>0, <2>5, <3>1 DEF TypeOK
  <2>9. TypeOK'
    BY <1>0, <1>8, <2>6, <2>7, <2>8 DEF TypeOK, CacheAndReply, StackOK, Held, Active
  <2> QED BY <2>6, <2>9 DEF IInv
<1>9. CASE Return(r)
  <2> DEFINE s == stack[r]
             d == Len(s)
             resp == Top(r).resp
  <2>1. resp \in Responses /\ Top(r).pc = "reply" BY <1>a, <1>9 DEF Return, At, Sane
  <2>2. CASE d = 1
    <3>1. /\ answer' = [answer EXCEPT ![r] = resp]
          /\ stack' = [stack EXCEPT ![r] = <<>>]
          /\ UNCHANGED <<cache, asked, lost, hurt, contacts, worldVars>>
      BY <1>9, <2>2 DEF Return
    <3>2. StackOK' BY <3>1, OneStackChanges, EmptySeq DEF IInv
    <3>3. answer' \in [Requests -> Responses \cup {NoResp}]
      BY <1>0, <2>1, <3>1 DEF TypeOK
    <3>4. TypeOK' BY <1>0, <3>1, <3>2, <3>3 DEF TypeOK, StackOK, Held, Active
    <3> QED BY <3>2, <3>4 DEF IInv
  <2>3. CASE d # 1
    <3> DEFINE p == SubSeq(s, 1, d - 1)
               f == [s[d - 1] EXCEPT !.pc = "body", !.resp = resp]
    <3>1. /\ stack' = [stack EXCEPT ![r] = WithTop(p, f)]
          /\ UNCHANGED <<answer, cache, asked, lost, hurt, contacts, worldVars>>
      BY <1>9, <2>3 DEF Return
    <3> HIDE DEF resp
    <3>2. d - 1 \in 1..d /\ d \in Nat
      <4>1. d \in Nat /\ d >= 1 BY <1>a
      <4> HIDE DEF d
      <4> QED BY <2>3, <4>1
    <3>3. /\ p \in Seq(Frames) /\ p # <<>> /\ Shape(p, KeyOf(r))
          /\ Len(p) = d - 1 /\ p[d - 1] = s[d - 1]
      <4>1. \A e \in 1..Len(s) :
              LET t == SubSeq(s, 1, e) IN
                /\ t \in Seq(Frames) /\ t # <<>> /\ Shape(t, KeyOf(r))
                /\ Len(t) = e /\ \A i \in 1..e : t[i] = s[i]
        BY <1>a, PrefixKeepsShape
      <4>2. d - 1 \in 1..Len(s) /\ d - 1 \in 1..d - 1 BY <3>2
      <4> QED BY <4>1, <4>2
    <3>4. s[d - 1] \in Frames BY <1>a, <3>2, ElementOfSeq
    <3>5. /\ f \in Frames /\ f.node = s[d - 1].node /\ f.pc = "body"
          /\ f.resp \in Responses
      BY <2>1, <3>4 DEF Frames, PCs
    <3> HIDE DEF f, p
    <3>6. MovesTo(p[Len(p)], f, KeyOf(r)) BY <3>3, <3>5 DEF MovesTo, Sane
    <3>7. WithTop(p, f) \in Seq(Frames) /\ Shape(WithTop(p, f), KeyOf(r))
      BY <1>a, <3>3, <3>5, <3>6, TopMoves
    <3>8. StackOK' BY <1>a, <3>1, <3>7, OneStackChanges DEF IInv
    <3> QED BY <1>b, <3>1, <3>8, OnlyStacks
  <2> QED BY <2>2, <2>3
<1> QED
  BY <1>1, <1>2, <1>3, <1>4, <1>5, <1>6, <1>7, <1>8, <1>9 DEF Handle

LEMMA CutBodyKeepsIInv ==
  ASSUME IInv, NEW r \in Requests, CutBody(r)
  PROVE  IInv'
<1>1. TypeOK /\ Active(r) /\ Fault
  BY DEF IInv, CutBody, At
<1>2. /\ Error(Top(r).node, Query(r), "500") \in Responses
      /\ Query(r).host \in Hosts
  BY <1>1, ActiveFrame, ErrorType DEF Codes, Queries
<1>3. StackOK'
  BY <1>1, <1>2, ReplyMoves DEF CutBody, clientVars
<1>4. faults' \in 0..MaxFaults
  BY <1>1, FaultType
<1> QED BY <1>1, <1>2, <1>3, <1>4, OnlyStacks DEF CutBody, clientVars, TypeOK

LEMMA BreakLinkKeepsIInv ==
  ASSUME IInv, NEW r \in Requests, NEW i \in 1..Len(stack[r]), BreakLink(r, i)
  PROVE  IInv'
<1>1. TypeOK /\ Fault /\ stack[r] \in Seq(Frames)
  BY DEF IInv, BreakLink, TypeOK
<1>2. Active(r)
  BY <1>1, EmptySeq DEF Active
<1>3. /\ Unwound(stack[r], i) \in Seq(Frames)
      /\ Shape(Unwound(stack[r], i), KeyOf(r))
  BY <1>2, ActiveFrame, UnwoundKeepsShape
<1>4. stack' = [stack EXCEPT ![r] = Unwound(stack[r], i)] /\ asked' = asked
  BY DEF BreakLink, IInv, StackOK
<1>5. StackOK'
  BY <1>2, <1>3, <1>4, ActiveFrame, OneStackChanges DEF IInv
<1>6. faults' \in 0..MaxFaults
  BY <1>1, FaultType
<1> QED BY <1>1, <1>5, <1>6, OnlyStacks DEF BreakLink, TypeOK

(* A stack of at most four frames has a first one on n, or none; the cases *)
(* stand for the least-element principle of the natural numbers.           *)
LEMMA FirstOnRange ==
  ASSUME NEW s \in Seq(Frames), NEW n \in Nodes, Len(s) <= 4
  PROVE  /\ FirstOn(s, n) \in 1..Len(s) + 1
         /\ FirstOn(s, n) <= Len(s) => s[FirstOn(s, n)].node = n
         /\ \A j \in 1..FirstOn(s, n) - 1 : s[j].node # n
<1> DEFINE P(i) == /\ i <= Len(s) => s[i].node = n
                   /\ \A j \in 1..i - 1 : s[j].node # n
           On(i) == i \in 1..Len(s) /\ s[i].node = n
<1>1. Len(s) \in Nat
  BY LenProperties
<1>2. \E i \in 1..Len(s) + 1 : P(i)
  <2>1. CASE On(1) BY <1>1, <2>1
  <2>2. CASE On(2) /\ ~On(1) BY <1>1, <2>2
  <2>3. CASE On(3) /\ ~On(2) /\ ~On(1) BY <1>1, <2>3
  <2>4. CASE On(4) /\ ~On(3) /\ ~On(2) /\ ~On(1) BY <1>1, <2>4
  <2>5. CASE ~On(4) /\ ~On(3) /\ ~On(2) /\ ~On(1)
    <3>1. Len(s) + 1 \in 1..Len(s) + 1 /\ P(Len(s) + 1) BY <1>1, <2>5
    <3> QED BY <3>1
  <2> QED BY <2>1, <2>2, <2>3, <2>4, <2>5
<1> HIDE DEF P
<1>3. FirstOn(s, n) = CHOOSE i \in 1..Len(s) + 1 : P(i)
  BY DEF FirstOn, P
<1>4. FirstOn(s, n) \in 1..Len(s) + 1 /\ P(FirstOn(s, n))
  BY <1>2, <1>3
<1> QED BY <1>4 DEF P

LEMMA CrashKeepsIInv ==
  ASSUME IInv, NEW n \in Nodes, Crash(n)
  PROVE  IInv'
<1>1. TypeOK /\ Fault
  BY DEF IInv, Crash
<1>2. ASSUME NEW r \in Requests
      PROVE  /\ stack'[r] \in Seq(Frames)
             /\ stack'[r] # <<>> =>
                  stack[r] # <<>> /\ Shape(stack'[r], KeyOf(r))
  <2> DEFINE i == FirstOn(stack[r], n)
  <2>0. stack[r] \in Seq(Frames) BY <1>1 DEF TypeOK
  <2>1. stack'[r] = IF i > Len(stack[r]) THEN stack[r] ELSE Unwound(stack[r], i)
    BY DEF Crash
  <2>2. CASE i > Len(stack[r])
    BY <2>0, <2>1, <2>2 DEF IInv, StackOK, Active
  <2>3. CASE ~(i > Len(stack[r]))
    <3>1. i \in 1..Len(stack[r])
      <4>0. Len(stack[r]) <= 4
        <5>1. CASE Active(r) BY <5>1, ActiveFrame, ShapeIsLoopFree
        <5>2. CASE ~Active(r) BY <5>2, EmptySeq DEF Active
        <5> QED BY <5>1, <5>2
      <4>1. i \in 1..Len(stack[r]) + 1 BY <2>0, <4>0, FirstOnRange
      <4>2. Len(stack[r]) \in Nat BY <2>0, LenProperties
      <4> HIDE DEF i
      <4> QED BY <2>3, <4>1, <4>2
    <3>2. Active(r) BY <2>0, <3>1, EmptySeq DEF Active
    <3> HIDE DEF i
    <3>3. Shape(stack[r], KeyOf(r)) /\ KeyOf(r) \in Keys /\ stack[r] # <<>>
      BY <3>2, ActiveFrame
    <3> QED BY <2>0, <2>1, <2>3, <3>1, <3>3, UnwoundKeepsShape
  <2> QED BY <2>2, <2>3
<1>3. stack' \in [Requests -> Seq(Frames)] /\ asked' = asked
  BY <1>2 DEF Crash
<1>4. StackOK'
  BY <1>2, <1>3 DEF IInv, StackOK, Active, KeyOf, Query
<1>5. cache' \in [Nodes -> [Keys -> Responses \cup {NoResp}]]
  BY <1>1 DEF TypeOK, Crash
<1>6. ASSUME NEW m \in Nodes PROVE Cardinality(Held(cache'[m])) <= Cap
  <2>1. CASE m = n
    <3>1. cache'[m] = [k \in Keys |-> NoResp] BY <1>1, <2>1 DEF Crash, TypeOK
    <3>2. Held(cache'[m]) = {} BY <3>1 DEF Held
    <3> QED BY <3>2, FS_EmptySet, BoundsAssumption
  <2>2. CASE m # n
    <3>1. cache'[m] = cache[m] BY <1>1, <2>2 DEF Crash, TypeOK
    <3> QED BY <1>1, <3>1 DEF TypeOK, Held
  <2> QED BY <2>1, <2>2
<1>7. faults' \in 0..MaxFaults
  BY <1>1, FaultType
<1>8. TypeOK'
  BY <1>1, <1>4, <1>5, <1>6, <1>7 DEF TypeOK, StackOK, Crash, Active, Held
<1> QED BY <1>4, <1>8 DEF IInv

LEMMA WorldKeepsIInv ==
  ASSUME IInv,
         \/ \E n \in Nodes : Restart(n)
         \/ \E h \in Hosts : OriginDown(h) \/ OriginRecovers(h)
         \/ \E q \in Queries : Publish(q)
  PROVE  IInv'
<1>1. TypeOK
  BY DEF IInv
<1>2. UNCHANGED <<cache, stack, hurt, contacts, asked, answer, lost>>
  BY DEF Restart, OriginDown, OriginRecovers, Publish, clientVars
<1>3. StackOK'
  BY <1>2 DEF IInv, StackOK, Active, KeyOf, Query
<1>4. up' \in [Nodes -> BOOLEAN] /\ originUp' \in [Hosts -> BOOLEAN]
  BY <1>1 DEF TypeOK, Restart, OriginDown, OriginRecovers, Publish
<1>5. version' \in [Queries -> 1..MaxVersion]
  <2>1. CASE version' = version BY <1>1, <2>1 DEF TypeOK
  <2>2. CASE \E q \in Queries : Publish(q)
    <3>1. PICK q \in Queries : Publish(q) BY <2>2
    <3>2. version[q] \in 1..MaxVersion BY <1>1 DEF TypeOK
    <3>3. version[q] + 1 \in 1..MaxVersion
      BY <3>1, <3>2, BoundsAssumption DEF Publish
    <3> QED BY <1>1, <3>1, <3>3 DEF TypeOK, Publish
  <2> QED BY <2>1, <2>2 DEF Restart, OriginDown, OriginRecovers
<1>6. faults' \in 0..MaxFaults
  <2>1. CASE faults' = faults BY <1>1, <2>1 DEF TypeOK
  <2>2. CASE Fault BY <1>1, <2>2, FaultType
  <2> QED BY <2>1, <2>2 DEF Restart, OriginDown, OriginRecovers, Publish
<1> QED BY <1>1, <1>2, <1>3, <1>4, <1>5, <1>6 DEF IInv, TypeOK, Held, Active

THEOREM Invariance == Spec => []IInv
<1>1. IInv /\ [Next]_vars => IInv'
  <2> SUFFICES ASSUME IInv, [Next]_vars PROVE IInv'
    OBVIOUS
  <2>1. CASE UNCHANGED vars
    BY <2>1 DEF vars, IInv, TypeOK, StackOK, Held, Active, KeyOf, Query
  <2>2. CASE \E r \in Requests : Handle(r)
    BY <2>2, HandleKeepsIInv
  <2>3. CASE Environment
    <3>1. CASE \E r \in Requests, e \in Edges, q \in Queries : ClientRequest(r, e, q)
      BY <3>1, ClientRequestKeepsIInv
    <3>2. CASE \E r \in Requests : CutBody(r)
      BY <3>2, CutBodyKeepsIInv
    <3>3. CASE \E r \in Requests : \E i \in 1..Len(stack[r]) : BreakLink(r, i)
      BY <3>3, BreakLinkKeepsIInv
    <3>4. CASE \E n \in Nodes : Crash(n)
      BY <3>4, CrashKeepsIInv
    <3>5. CASE \/ \E n \in Nodes : Restart(n)
               \/ \E h \in Hosts : OriginDown(h) \/ OriginRecovers(h)
               \/ \E q \in Queries : Publish(q)
      BY <3>5, WorldKeepsIInv
    <3> QED BY <2>3, <3>1, <3>2, <3>3, <3>4, <3>5 DEF Environment
  <2> QED BY <2>1, <2>2, <2>3 DEF Next
<1> QED BY <1>1, InitKeepsIInv, PTL DEF Spec
-----------------------------------------------------------------------------
(* Every variable keeps its type, and no cache outgrows its capacity.      *)
THEOREM TypeCorrect == Spec => []TypeOK
<1>1. IInv => TypeOK
  BY DEF IInv
<1> QED BY <1>1, Invariance, PTL

(* No request comes back to a node that is waiting for it, whatever the    *)
(* nodes believe about the owners of keys and whatever fails on the way    *)
(* (Shard's X-Shard mark, middleware.go lines 71 to 94).                   *)
THEOREM LoopFree == Spec => []NoRoutingLoop
<1>1. IInv => NoRoutingLoop
  <2> SUFFICES ASSUME IInv, NEW r \in Requests
               PROVE  /\ \A i, j \in 1..Len(stack[r]) :
                           i # j => stack[r][i].node # stack[r][j].node
                      /\ Len(stack[r]) <= 4
                      /\ \A i \in 3..Len(stack[r]) : stack[r][i].node \in Shields
    BY DEF NoRoutingLoop
  <2>1. CASE Active(r)
    BY <2>1, ActiveFrame, ShapeIsLoopFree
  <2>2. CASE ~Active(r)
    BY <2>2, EmptySeq DEF Active
  <2> QED BY <2>1, <2>2
<1> QED BY <1>1, Invariance, PTL
-----------------------------------------------------------------------------
(* The tenants.  Isolated says of every place a response can be in that it *)
(* is sound there; a step takes responses from one place to another of the *)
(* same object, or makes a sound one, and what is sound stays so because   *)
(* versions and the set of hosts that have been hurt only grow.            *)

(* Sound, of given versions and hosts, so that lemmas can speak of two     *)
(* states at once; and an error has no version.                            *)
Good(v, q, ver, hosts) ==
  /\ v.query = q
  /\ v.code = "200" => v.ver \in 1..ver[q]
  /\ v.code = "404" => q.host \notin Listed
  /\ v.code = "500" => q.host \in hosts
  /\ v.code # "200" => v.ver = 0
GoodOrNone(resp, q, ver, hosts) == resp # NoResp => Good(resp.value, q, ver, hosts)

CachesApart(c, ver, hosts) ==
  \A n \in Nodes, q \in Queries : GoodOrNone(c[n][CacheKey(q)], q, ver, hosts)
AnswersApart(a, ask, ver, hosts) ==
  \A r \in Requests : a[r] # NoResp => ask[r] # NoAsk /\ Good(a[r].value, ask[r].query, ver, hosts)
StacksApart(st, ask, ver, hosts) ==
  \A r \in Requests : \A i \in 1..Len(st[r]) :
    GoodOrNone(st[r][i].resp, ask[r].query, ver, hosts)

Isolated ==
  /\ CachesApart(cache, version, hurt)
  /\ AnswersApart(answer, asked, version, hurt)
  /\ StacksApart(stack, asked, version, hurt)

(* Time passes.                                                            *)
Grown(ver, hosts, ver2, hosts2) ==
  /\ \A q \in Queries : ver[q] \in Nat /\ ver2[q] \in Nat /\ ver[q] <= ver2[q]
  /\ hosts \subseteq hosts2

(* The responses in stack t are some of those in s, and perhaps resp.      *)
Carries(s, t, resp) ==
  \A i \in 1..Len(t) :
    \/ t[i].resp = NoResp
    \/ t[i].resp = resp
    \/ \E j \in 1..Len(s) : t[i].resp = s[j].resp

LEMMA TopCarries ==
  ASSUME NEW s \in Seq(Frames), s # <<>>, NEW f \in Frames
  PROVE  Carries(s, WithTop(s, f), f.resp)
<1>1. Len(s) \in 1..Len(s)
  BY LenProperties, EmptySeq
<1>2. /\ Len(WithTop(s, f)) = Len(s)
      /\ \A i \in 1..Len(s) : WithTop(s, f)[i] = IF i = Len(s) THEN f ELSE s[i]
  BY <1>1, ExceptSeq DEF WithTop
<1> QED BY <1>2 DEF Carries

LEMMA CallCarries ==
  ASSUME NEW s \in Seq(Frames), NEW f \in Frames
  PROVE  Carries(s, Append(s, f), f.resp)
<1>1. Len(s) \in Nat
  BY LenProperties
<1>2. /\ Len(Append(s, f)) = Len(s) + 1 /\ Append(s, f)[Len(s) + 1] = f
      /\ \A i \in 1..Len(s) : Append(s, f)[i] = s[i]
  BY AppendProperties
<1> QED BY <1>1, <1>2 DEF Carries

(* The last frame is gone, and its caller has become f.                    *)
LEMMA PrefixCarries ==
  ASSUME NEW s \in Seq(Frames), NEW d \in 1..Len(s), NEW f \in Frames
  PROVE  Carries(s, WithTop(SubSeq(s, 1, d), f), f.resp)
<1> DEFINE t == SubSeq(s, 1, d)
<1>1. Len(s) \in Nat /\ d \in Nat /\ 1 <= d /\ d <= Len(s)
  BY LenProperties
<1>2. t \in Seq(Frames) /\ Len(t) = d /\ \A i \in 1..d : t[i] = s[i]
  <2>1. \A i \in 1..d : s[i] \in Frames BY <1>1, ElementOfSeq
  <2> QED BY <1>1, <2>1, SubSeqProperties
<1> HIDE DEF t
<1>3. t # <<>>
  BY <1>1, <1>2, EmptySeq
<1>4. Carries(t, WithTop(t, f), f.resp)
  BY <1>2, <1>3, TopCarries
<1>5. \A j \in 1..Len(t) : j \in 1..Len(s) /\ t[j] = s[j]
  BY <1>1, <1>2
<1>6. Carries(s, WithTop(t, f), f.resp)
  BY <1>4, <1>5 DEF Carries
<1> QED BY <1>6 DEF t

LEMMA UnwoundCarries ==
  ASSUME NEW s \in Seq(Frames), NEW i \in 1..Len(s)
  PROVE  Carries(s, Unwound(s, i), NoResp)
<1>1. Len(s) \in Nat /\ i \in Nat /\ 1 <= i /\ i <= Len(s)
  BY LenProperties
<1>2. CASE i = 1
  BY <1>2, EmptySeq DEF Unwound, Carries
<1>3. CASE i # 1
  <2>1. i - 1 \in 1..Len(s)
    BY <1>1, <1>3
  <2>2. s[i - 1] \in Frames
    BY <2>1, ElementOfSeq
  <2>3. FellBack(s[i - 1]) \in Frames /\ FellBack(s[i - 1]).resp = s[i - 1].resp
    BY <2>2 DEF FellBack, NextHop, BelowShard, Frames, PCs
  <2>4. Carries(s, Unwound(s, i), FellBack(s[i - 1]).resp)
    BY <1>3, <2>1, <2>3, PrefixCarries DEF Unwound
  <2> QED BY <2>1, <2>3, <2>4 DEF Carries
<1> QED BY <1>2, <1>3

LEMMA KeyIsInjective ==
  ASSUME NEW p \in Queries, NEW q \in Queries, CacheKey(p) = CacheKey(q)
  PROVE  p = q
BY DEF CacheKey, Queries

LEMMA PutHolds ==
  ASSUME NEW c \in [Keys -> Responses \cup {NoResp}], NEW k \in Keys, NEW resp,
         NEW d \in Put(c, k, resp), NEW x \in Keys
  PROVE  d[x] = NoResp \/ d[x] = c[x] \/ (x = k /\ d[x] = resp)
BY DEF Put, Held

LEMMA GoodStays ==
  ASSUME NEW v, NEW q \in Queries, NEW ver, NEW hosts, NEW ver2, NEW hosts2,
         Grown(ver, hosts, ver2, hosts2), Good(v, q, ver, hosts)
  PROVE  Good(v, q, ver2, hosts2)
<1>1. ver[q] \in Nat /\ ver2[q] \in Nat /\ ver[q] <= ver2[q]
  BY DEF Grown
<1>2. 1..ver[q] \subseteq 1..ver2[q]
  BY <1>1
<1> QED BY <1>2 DEF Good, Grown

LEMMA CachesStayApart ==
  ASSUME NEW c, NEW c2, NEW ver, NEW hosts, NEW ver2, NEW hosts2,
         Grown(ver, hosts, ver2, hosts2), CachesApart(c, ver, hosts),
         \A n \in Nodes, q \in Queries :
           \/ c2[n][CacheKey(q)] = NoResp
           \/ c2[n][CacheKey(q)] = c[n][CacheKey(q)]
           \/ Good(c2[n][CacheKey(q)].value, q, ver2, hosts2)
  PROVE  CachesApart(c2, ver2, hosts2)
BY GoodStays DEF CachesApart, GoodOrNone

LEMMA AnswersStayApart ==
  ASSUME NEW a, NEW a2, NEW ask, NEW ask2, NEW ver, NEW hosts, NEW ver2, NEW hosts2,
         Grown(ver, hosts, ver2, hosts2), AnswersApart(a, ask, ver, hosts),
         \A r \in Requests :
           ask[r] # NoAsk => ask2[r] = ask[r] /\ ask[r].query \in Queries,
         \A r \in Requests :
           \/ a2[r] = a[r]
           \/ ask2[r] # NoAsk /\ Good(a2[r].value, ask2[r].query, ver2, hosts2)
  PROVE  AnswersApart(a2, ask2, ver2, hosts2)
BY GoodStays DEF AnswersApart

LEMMA StacksStayApart ==
  ASSUME NEW st, NEW st2, NEW ask, NEW ask2, NEW ver, NEW hosts, NEW ver2, NEW hosts2,
         Grown(ver, hosts, ver2, hosts2), StacksApart(st, ask, ver, hosts),
         \A r \in Requests :
           st[r] # <<>> => ask2[r] = ask[r] /\ ask[r].query \in Queries,
         \A r \in Requests : st[r] = <<>> => Len(st[r]) = 0,
         \A r \in Requests : \E resp :
           /\ Carries(st[r], st2[r], resp)
           /\ GoodOrNone(resp, ask2[r].query, ver2, hosts2)
  PROVE  StacksApart(st2, ask2, ver2, hosts2)
<1> SUFFICES ASSUME NEW r \in Requests, NEW i \in 1..Len(st2[r])
             PROVE  GoodOrNone(st2[r][i].resp, ask2[r].query, ver2, hosts2)
  BY DEF StacksApart
<1>1. PICK resp : /\ Carries(st[r], st2[r], resp)
                  /\ GoodOrNone(resp, ask2[r].query, ver2, hosts2)
  OBVIOUS
<1>2. CASE st2[r][i].resp \in {NoResp, resp}
  BY <1>1, <1>2 DEF GoodOrNone
<1>3. CASE \E j \in 1..Len(st[r]) : st2[r][i].resp = st[r][j].resp
  <2>1. PICK j \in 1..Len(st[r]) : st2[r][i].resp = st[r][j].resp
    BY <1>3
  <2>2. st[r] # <<>>
    BY <2>1
  <2>3. ask2[r] = ask[r] /\ ask[r].query \in Queries
    BY <2>2
  <2>4. GoodOrNone(st[r][j].resp, ask[r].query, ver, hosts)
    BY DEF StacksApart
  <2> QED BY <2>1, <2>3, <2>4, GoodStays DEF GoodOrNone
<1> QED BY <1>1, <1>2, <1>3 DEF Carries

(* What every step has in common.                                          *)
LEMMA AskedTypes ==
  ASSUME IInv
  PROVE  /\ \A r \in Requests : asked[r] # NoAsk => asked[r].query \in Queries
         /\ \A r \in Requests : stack[r] # <<>> => asked[r] # NoAsk
         /\ \A r \in Requests : stack[r] \in Seq(Frames)
         /\ \A r \in Requests : stack[r] = <<>> => Len(stack[r]) = 0
BY EmptySeq DEF IInv, TypeOK, Active

LEMMA TimePasses ==
  ASSUME IInv, IInv', hurt \subseteq hurt',
         version' = version \/ \E q \in Queries : version' = [version EXCEPT ![q] = @ + 1]
  PROVE  Grown(version, hurt, version', hurt')
<1>1. \A p \in Queries : version[p] \in Nat /\ version'[p] \in Nat
  BY BoundsAssumption DEF IInv, TypeOK
<1>2. version \in [Queries -> 1..MaxVersion]
  BY DEF IInv, TypeOK
<1>3. \A p \in Queries : version[p] <= version'[p]
  BY <1>1, <1>2
<1> QED BY <1>1, <1>3 DEF Grown

(* The handler of r takes a step; no other request is touched.             *)
LEMMA HandlerKeepsApart ==
  ASSUME IInv, Isolated, Grown(version, hurt, version', hurt'),
         NEW r \in Requests, NEW t, NEW resp,
         stack' = [stack EXCEPT ![r] = t], asked' = asked,
         Carries(stack[r], t, resp),
         GoodOrNone(resp, Query(r), version', hurt')
  PROVE  StacksApart(stack', asked', version', hurt')
<1>1. ASSUME NEW p \in Requests
      PROVE  \E x : /\ Carries(stack[p], stack'[p], x)
                    /\ GoodOrNone(x, asked'[p].query, version', hurt')
  <2>1. CASE p = r
    <3>1. stack'[p] = t BY <2>1 DEF IInv, TypeOK
    <3> QED BY <2>1, <3>1 DEF Query
  <2>2. CASE p # r
    <3>1. stack'[p] = stack[p] BY <2>2 DEF IInv, TypeOK
    <3>2. Carries(stack[p], stack'[p], NoResp) BY <3>1 DEF Carries
    <3>3. GoodOrNone(NoResp, asked'[p].query, version', hurt') BY DEF GoodOrNone
    <3> QED BY <3>2, <3>3
  <2> QED BY <2>1, <2>2
<1>2. StacksApart(stack, asked, version, hurt)
  BY DEF Isolated
<1> QED BY <1>1, <1>2, AskedTypes, StacksStayApart

(* The same, of a step that puts f in the place of the last frame.         *)
LEMMA TopKeepsApart ==
  ASSUME IInv, Isolated, Grown(version, hurt, version', hurt'),
         NEW r \in Requests, Active(r), NEW f \in Frames, Step(r, f), asked' = asked,
         GoodOrNone(f.resp, Query(r), version', hurt')
  PROVE  StacksApart(stack', asked', version', hurt')
<1>1. stack[r] \in Seq(Frames) /\ stack[r] # <<>>
  BY ActiveFrame
<1>2. Carries(stack[r], WithTop(stack[r], f), f.resp)
  BY <1>1, TopCarries
<1>3. stack' = [stack EXCEPT ![r] = WithTop(stack[r], f)]
  BY DEF Step, IInv, TypeOK
<1> QED BY <1>2, <1>3, HandlerKeepsApart

LEMMA OthersStayApart ==
  ASSUME IInv, Isolated, Grown(version, hurt, version', hurt'), asked' = asked
  PROVE  /\ cache' = cache => CachesApart(cache', version', hurt')
         /\ answer' = answer => AnswersApart(answer', asked', version', hurt')
         /\ stack' = stack => StacksApart(stack', asked', version', hurt')
<1>1. CachesApart(cache, version, hurt) /\ AnswersApart(answer, asked, version, hurt)
      /\ StacksApart(stack, asked, version, hurt)
  BY DEF Isolated
<1>2. ASSUME cache' = cache PROVE CachesApart(cache', version', hurt')
  BY <1>1, <1>2, CachesStayApart
<1>3. ASSUME answer' = answer PROVE AnswersApart(answer', asked', version', hurt')
  BY <1>1, <1>3, AskedTypes, AnswersStayApart
<1>4. ASSUME stack' = stack PROVE StacksApart(stack', asked', version', hurt')
  <2>1. \A r \in Requests : /\ Carries(stack[r], stack'[r], NoResp)
                            /\ GoodOrNone(NoResp, asked'[r].query, version', hurt')
    BY <1>4 DEF Carries, GoodOrNone
  <2> QED BY <1>1, <2>1, AskedTypes, StacksStayApart
<1> QED BY <1>2, <1>3, <1>4

(* The frame on top holds a good response, if any, and headers are no part *)
(* of what is good.                                                        *)
LEMMA TopIsGood ==
  ASSUME IInv, Isolated, NEW r \in Requests, Active(r)
  PROVE  GoodOrNone(Top(r).resp, Query(r), version, hurt)
<1>1. Len(stack[r]) \in 1..Len(stack[r])
  BY ActiveFrame
<1> QED BY <1>1 DEF Isolated, StacksApart, Top, Query

LEMMA HeadersAside ==
  ASSUME NEW n \in Nodes, NEW resp \in Responses
  PROVE  /\ Written(n, resp).value = resp.value
         /\ SetHit(resp).value = resp.value
         /\ AddMiss(Stripped(resp)).value = resp.value
BY DEF Written, SetHit, AddMiss, Stripped, Responses

LEMMA ErrorIsGood ==
  ASSUME NEW n \in Nodes, NEW q \in Queries, NEW code \in {"404", "500"}, NEW ver, NEW hosts,
         code = "404" => q.host \notin Listed, code = "500" => q.host \in hosts
  PROVE  GoodOrNone(Error(n, q, code), q, ver, hosts)
BY DEF GoodOrNone, Good, Error

LEMMA HandleKeepsApart ==
  ASSUME IInv, IInv', Isolated, NEW r \in Requests, Handle(r)
  PROVE  Isolated'
<1>1. Active(r) /\ asked' = asked /\ version' = version /\ hurt \subseteq hurt'
  BY DEF Handle, RejectUnknownHost, ServeHit, ServeMiss, Fetch, FetchFails, FetchOrigin,
         FetchOriginFails, CacheAndReply, Return, At, clientVars, worldVars
<1>2. Grown(version, hurt, version', hurt')
  BY <1>1, TimePasses
<1>3. /\ Top(r) \in Frames /\ Top(r).node \in Nodes /\ Query(r) \in Queries
      /\ KeyOf(r) \in Keys /\ Sane(Top(r), KeyOf(r))
      /\ stack[r] \in Seq(Frames) /\ stack[r] # <<>>
  BY <1>1, ActiveFrame
<1>4. GoodOrNone(Top(r).resp, Query(r), version', hurt')
  BY <1>1, <1>2, <1>3, TopIsGood, GoodStays DEF GoodOrNone
<1>5. /\ cache' = cache => CachesApart(cache', version', hurt')
      /\ answer' = answer => AnswersApart(answer', asked', version', hurt')
  BY <1>1, <1>2, OthersStayApart
(* A reply: r's last frame carries resp.                                   *)
<1>6. ASSUME NEW resp \in Responses, Reply(r, resp),
             GoodOrNone(resp, Query(r), version', hurt')
      PROVE  StacksApart(stack', asked', version', hurt')
  <2> DEFINE f == [Top(r) EXCEPT !.pc = "reply", !.resp = resp]
  <2>1. f \in Frames /\ f.resp = resp BY <1>3 DEF Frames, PCs
  <2>2. Step(r, f) BY <1>6 DEF Reply
  <2> HIDE DEF f
  <2> QED BY <1>1, <1>2, <1>6, <2>1, <2>2, TopKeepsApart
(* A change of hop: the responses stay where they are.                     *)
<1>7. ASSUME NEW f \in Frames, Step(r, f), f.resp = Top(r).resp
      PROVE  StacksApart(stack', asked', version', hurt')
  BY <1>1, <1>2, <1>4, <1>7, TopKeepsApart
<1>8. CASE RejectUnknownHost(r)
  <2>1. Query(r).host \notin Listed
    BY <1>3, <1>8 DEF RejectUnknownHost, Listed
  <2>2. /\ Error(Top(r).node, Query(r), "404") \in Responses
        /\ GoodOrNone(Error(Top(r).node, Query(r), "404"), Query(r), version', hurt')
    BY <1>3, <2>1, ErrorType, ErrorIsGood DEF Codes
  <2> QED BY <1>5, <1>6, <1>8, <2>2 DEF RejectUnknownHost, clientVars, Isolated
<1>9. CASE ServeHit(r)
  <2> DEFINE obj == cache[Top(r).node][KeyOf(r)]
             resp == Written(Top(r).node, SetHit(obj))
  <2>1. obj # NoResp /\ Reply(r, resp) /\ UNCHANGED <<cache, answer>>
    BY <1>9 DEF ServeHit, clientVars
  <2>2. obj \in Responses
    BY <1>3, <2>1 DEF IInv, TypeOK
  <2>3. Good(obj.value, Query(r), version', hurt')
    BY <1>2, <1>3, <2>1, GoodStays DEF Isolated, CachesApart, GoodOrNone, KeyOf
  <2> HIDE DEF obj
  <2>4. SetHit(obj) \in Responses /\ resp \in Responses
    BY <1>3, <2>2, HeaderTypes
  <2>5. resp.value = obj.value
    BY <1>3, <2>2, <2>4, HeadersAside
  <2> HIDE DEF resp
  <2> QED BY <1>5, <1>6, <2>1, <2>3, <2>4, <2>5 DEF GoodOrNone, Isolated
<1>10. CASE ServeMiss(r)
  <2> DEFINE n == Top(r).node
             x == Top(r).xshard
             f == [Top(r) EXCEPT !.pc = ShardHop(n, KeyOf(r), x),
                                 !.xshard = ShardMark(n, KeyOf(r), x)]
  <2>1. ShardHop(n, KeyOf(r), x) \in PCs /\ ShardMark(n, KeyOf(r), x) \in BOOLEAN
    BY DEF ShardHop, ShardMark, BelowShard, PCs
  <2>2. f \in Frames /\ f.resp = Top(r).resp
    BY <1>3, <2>1 DEF Frames
  <2>3. Step(r, f) /\ UNCHANGED <<cache, answer>>
    BY <1>10 DEF ServeMiss, clientVars
  <2> HIDE DEF f
  <2> QED BY <1>5, <1>7, <2>2, <2>3 DEF Isolated
<1>11. CASE Fetch(r)
  <2> DEFINE f == Arrival(Callee(Top(r), KeyOf(r)), Top(r).xshard)
  <2>1. Callee(Top(r), KeyOf(r)) \in Nodes
    BY <1>3, RouteTypes DEF Callee, Nodes
  <2>2. f \in Frames /\ f.resp = NoResp
    BY <1>3, <2>1 DEF Arrival, Frames, PCs
  <2>3. stack' = [stack EXCEPT ![r] = Append(stack[r], f)] /\ UNCHANGED <<cache, answer>>
    BY <1>11 DEF Fetch, clientVars, IInv, TypeOK
  <2> HIDE DEF f
  <2>4. Carries(stack[r], Append(stack[r], f), NoResp)
    BY <1>3, <2>2, CallCarries
  <2>5. GoodOrNone(NoResp, Query(r), version', hurt')
    BY DEF GoodOrNone
  <2> QED BY <1>1, <1>2, <1>5, <2>3, <2>4, <2>5, HandlerKeepsApart DEF Isolated
<1>12. CASE FetchFails(r)
  <2>1. FellBack(Top(r)) \in Frames /\ FellBack(Top(r)).resp = Top(r).resp
    BY <1>3 DEF FellBack, NextHop, BelowShard, Frames, PCs
  <2> QED BY <1>5, <1>7, <1>12, <2>1 DEF FetchFails, clientVars, Isolated
<1>13. CASE FetchOrigin(r)
  <2> DEFINE f == [Top(r) EXCEPT !.pc = "body", !.resp = FromOrigin(Query(r))]
  <2>1. FromOrigin(Query(r)) \in Responses
    BY <1>3, FromOriginType DEF IInv
  <2>2. f \in Frames /\ f.resp = FromOrigin(Query(r))
    BY <1>3, <2>1 DEF Frames, PCs
  <2>3. Step(r, f) /\ UNCHANGED <<cache, answer>>
    BY <1>13 DEF FetchOrigin, clientVars
  <2> HIDE DEF f
  <2>4. version[Query(r)] \in 1..version[Query(r)]
    BY <1>3, BoundsAssumption DEF IInv, TypeOK
  <2>5. GoodOrNone(FromOrigin(Query(r)), Query(r), version', hurt')
    BY <1>1, <2>4 DEF FromOrigin, GoodOrNone, Good
  <2> QED BY <1>1, <1>2, <1>5, <2>2, <2>3, <2>5, TopKeepsApart DEF Isolated
<1>14. CASE FetchOriginFails(r)
  <2>1. Query(r).host \in hurt'
    BY <1>14 DEF FetchOriginFails
  <2>2. /\ Error(Top(r).node, Query(r), "500") \in Responses
        /\ GoodOrNone(Error(Top(r).node, Query(r), "500"), Query(r), version', hurt')
    BY <1>3, <2>1, ErrorType, ErrorIsGood DEF Codes
  <2> QED BY <1>5, <1>6, <1>14, <2>2 DEF FetchOriginFails, clientVars, Isolated
<1>15. CASE CacheAndReply(r)
  <2> DEFINE n == Top(r).node
             obj == AddMiss(Stripped(Top(r).resp))
  <2>1. Top(r).resp \in Responses /\ Top(r).resp # NoResp
    <3>1. Top(r).resp \in Responses BY <1>3, <1>15 DEF CacheAndReply, At, Sane
    <3>2. NoResp \notin Responses BY DEF NoResp, Responses
    <3> QED BY <3>1, <3>2
  <2>2. obj \in Responses /\ Written(n, obj) \in Responses
    BY <1>3, <2>1, HeaderTypes
  <2>3. obj.value = Top(r).resp.value /\ Written(n, obj).value = Top(r).resp.value
    BY <1>3, <2>1, <2>2, HeadersAside
  <2>4. Good(obj.value, Query(r), version', hurt')
    BY <1>4, <2>1, <2>3 DEF GoodOrNone
  <2> HIDE DEF obj
  <2>5. PICK c \in Put(cache[n], KeyOf(r), obj) : cache' = [cache EXCEPT ![n] = c]
    BY <1>15 DEF CacheAndReply, obj
  <2>6. Reply(r, Written(n, obj)) /\ answer' = answer
    BY <1>15 DEF CacheAndReply, obj, clientVars
  <2>7. ASSUME NEW m \in Nodes, NEW q \in Queries
        PROVE  \/ cache'[m][CacheKey(q)] = NoResp
               \/ cache'[m][CacheKey(q)] = cache[m][CacheKey(q)]
               \/ Good(cache'[m][CacheKey(q)].value, q, version', hurt')
    <3>1. CASE m # n
      BY <2>5, <3>1 DEF IInv, TypeOK
    <3>2. CASE m = n
      <4>1. cache'[m] = c
        BY <2>5, <3>2 DEF IInv, TypeOK
      <4>2. CacheKey(q) \in Keys /\ cache[n] \in [Keys -> Responses \cup {NoResp}]
        BY <1>3, KeyType DEF IInv, TypeOK
      <4>3. \/ c[CacheKey(q)] = NoResp
            \/ c[CacheKey(q)] = cache[n][CacheKey(q)]
            \/ CacheKey(q) = KeyOf(r) /\ c[CacheKey(q)] = obj
        BY <1>3, <2>2, <2>5, <4>2, PutHolds
      <4>4. CacheKey(q) = KeyOf(r) => q = Query(r)
        BY <1>3, KeyIsInjective DEF KeyOf
      <4> QED BY <2>4, <3>2, <4>1, <4>3, <4>4
    <3> QED BY <3>1, <3>2
  <2>8. CachesApart(cache', version', hurt')
    BY <1>2, <2>7, CachesStayApart DEF Isolated
  <2>9. StacksApart(stack', asked', version', hurt')
    <3>1. GoodOrNone(Written(n, obj), Query(r), version', hurt')
      BY <2>3, <2>4 DEF GoodOrNone
    <3> QED BY <1>6, <2>2, <2>6, <3>1
  <2> QED BY <1>5, <2>6, <2>8, <2>9 DEF Isolated
<1>16. CASE Return(r)
  <2> DEFINE s == stack[r]
             d == Len(s)
             resp == Top(r).resp
  <2>1. resp \in Responses /\ resp # NoResp
    <3>1. resp \in Responses BY <1>3, <1>16 DEF Return, At, Sane
    <3>2. NoResp \notin Responses BY DEF NoResp, Responses
    <3> QED BY <3>1, <3>2
  <2>2. Good(resp.value, Query(r), version', hurt') /\ asked[r] # NoAsk
    BY <1>1, <1>4, <2>1, ActiveFrame DEF GoodOrNone
  <2>3. cache' = cache
    BY <1>16 DEF Return
  <2>4. CASE d = 1
    <3>1. answer' = [answer EXCEPT ![r] = resp] /\ stack' = [stack EXCEPT ![r] = <<>>]
      BY <1>16, <2>4 DEF Return
    <3>2. \A p \in Requests :
            \/ answer'[p] = answer[p]
            \/ asked'[p] # NoAsk /\ Good(answer'[p].value, asked'[p].query, version', hurt')
      BY <1>1, <2>2, <3>1 DEF IInv, TypeOK, Query
    <3>3. AnswersApart(answer', asked', version', hurt')
      BY <1>1, <1>2, <3>2, AskedTypes, AnswersStayApart DEF Isolated
    <3>4. Carries(s, <<>>, NoResp) /\ GoodOrNone(NoResp, Query(r), version', hurt')
      BY DEF Carries, GoodOrNone
    <3> QED BY <1>1, <1>2, <1>5, <2>3, <3>1, <3>3, <3>4, HandlerKeepsApart DEF Isolated
  <2>5. CASE d # 1
    <3> DEFINE f == [s[d - 1] EXCEPT !.pc = "body", !.resp = resp]
    <3>1. stack' = [stack EXCEPT ![r] = WithTop(SubSeq(s, 1, d - 1), f)] /\ answer' = answer
      BY <1>16, <2>5 DEF Return
    <3>2. d - 1 \in 1..d
      <4>1. d \in Nat /\ d >= 1 BY <1>1, ActiveFrame
      <4> HIDE DEF d
      <4> QED BY <2>5, <4>1
    <3>3. s[d - 1] \in Frames BY <1>3, <3>2, ElementOfSeq
    <3> HIDE DEF resp
    <3>4. f \in Frames /\ f.resp = resp
      BY <2>1, <3>3 DEF Frames, PCs
    <3> HIDE DEF f
    <3>5. Carries(s, WithTop(SubSeq(s, 1, d - 1), f), resp)
      BY <1>3, <3>2, <3>4, PrefixCarries
    <3>6. GoodOrNone(resp, Query(r), version', hurt')
      BY <2>2 DEF GoodOrNone
    <3> QED BY <1>1, <1>2, <1>5, <2>3, <3>1, <3>5, <3>6, HandlerKeepsApart DEF Isolated
  <2> QED BY <2>4, <2>5
<1> QED
  BY <1>8, <1>9, <1>10, <1>11, <1>12, <1>13, <1>14, <1>15, <1>16 DEF Handle

LEMMA FaultsKeepApart ==
  ASSUME IInv, IInv', Isolated,
         \/ \E r \in Requests : CutBody(r)
         \/ \E r \in Requests : \E i \in 1..Len(stack[r]) : BreakLink(r, i)
         \/ \E n \in Nodes : Crash(n)
  PROVE  Isolated'
<1>1. /\ asked' = asked /\ answer' = answer /\ version' = version
      /\ hurt \subseteq hurt'
  BY DEF CutBody, BreakLink, Crash, clientVars
<1>2. Grown(version, hurt, version', hurt')
  BY <1>1, TimePasses
<1>3. /\ cache' = cache => CachesApart(cache', version', hurt')
      /\ AnswersApart(answer', asked', version', hurt')
  BY <1>1, <1>2, OthersStayApart
<1>4. \A q \in Queries : GoodOrNone(NoResp, q, version', hurt')
  BY DEF GoodOrNone
<1>5. CASE \E r \in Requests : CutBody(r)
  <2>1. PICK r \in Requests : CutBody(r) BY <1>5
  <2> DEFINE resp == Error(Top(r).node, Query(r), "500")
             f == [Top(r) EXCEPT !.pc = "reply", !.resp = resp]
  <2>2. Active(r) /\ Query(r).host \in hurt' /\ cache' = cache
    BY <2>1 DEF CutBody, At
  <2>3. Top(r) \in Frames /\ Top(r).node \in Nodes /\ Query(r) \in Queries
    BY <2>2, ActiveFrame
  <2>4. resp \in Responses /\ GoodOrNone(resp, Query(r), version', hurt')
    BY <2>2, <2>3, ErrorType, ErrorIsGood DEF Codes
  <2> HIDE DEF resp
  <2>5. f \in Frames /\ f.resp = resp
    BY <2>3, <2>4 DEF Frames, PCs
  <2>6. Step(r, f)
    BY <2>1 DEF CutBody, Reply, resp
  <2> HIDE DEF f
  <2> QED BY <1>1, <1>2, <1>3, <2>2, <2>4, <2>5, <2>6, TopKeepsApart DEF Isolated
<1>6. CASE \E r \in Requests : \E i \in 1..Len(stack[r]) : BreakLink(r, i)
  <2>a. PICK r \in Requests : \E i \in 1..Len(stack[r]) : BreakLink(r, i) BY <1>6
  <2>1. PICK i \in 1..Len(stack[r]) : BreakLink(r, i) BY <2>a
  <2>2. stack' = [stack EXCEPT ![r] = Unwound(stack[r], i)] /\ cache' = cache
    BY <2>1 DEF BreakLink, IInv, TypeOK
  <2>3. Carries(stack[r], Unwound(stack[r], i), NoResp)
    BY AskedTypes, UnwoundCarries
  <2>4. GoodOrNone(NoResp, Query(r), version', hurt')
    BY DEF GoodOrNone
  <2> QED BY <1>1, <1>2, <1>3, <2>2, <2>3, <2>4, HandlerKeepsApart DEF Isolated
<1>7. CASE \E n \in Nodes : Crash(n)
  <2>1. PICK n \in Nodes : Crash(n) BY <1>7
  <2>2. ASSUME NEW r \in Requests
        PROVE  Carries(stack[r], stack'[r], NoResp)
    <3> DEFINE i == FirstOn(stack[r], n)
    <3>1. stack[r] \in Seq(Frames) BY AskedTypes
    <3>2. stack'[r] = IF i > Len(stack[r]) THEN stack[r] ELSE Unwound(stack[r], i)
      BY <2>1 DEF Crash
    <3>3. CASE i > Len(stack[r])
      BY <3>2, <3>3 DEF Carries
    <3>4. CASE ~(i > Len(stack[r]))
      <4>1. Len(stack[r]) <= 4
        <5>1. CASE Active(r) BY <5>1, ActiveFrame, ShapeIsLoopFree
        <5>2. CASE ~Active(r) BY <5>2, EmptySeq DEF Active
        <5> QED BY <5>1, <5>2
      <4>2. i \in 1..Len(stack[r]) + 1 BY <3>1, <4>1, FirstOnRange
      <4>3. Len(stack[r]) \in Nat BY <3>1, LenProperties
      <4> HIDE DEF i
      <4>4. i \in 1..Len(stack[r]) BY <3>4, <4>2, <4>3
      <4> QED BY <3>1, <3>2, <3>4, <4>4, UnwoundCarries
    <3> QED BY <3>3, <3>4
  <2>3. StacksApart(stack', asked', version', hurt')
    <3>1. \A r \in Requests : GoodOrNone(NoResp, asked'[r].query, version', hurt')
      BY DEF GoodOrNone
    <3> QED BY <1>1, <1>2, <2>2, <3>1, AskedTypes, StacksStayApart DEF Isolated
  <2>4. ASSUME NEW m \in Nodes, NEW q \in Queries
        PROVE  cache'[m][CacheKey(q)] \in {NoResp, cache[m][CacheKey(q)]}
    <3>1. CacheKey(q) \in Keys BY KeyType
    <3>2. CASE m = n BY <2>1, <3>1, <3>2 DEF Crash, IInv, TypeOK
    <3>3. CASE m # n BY <2>1, <3>3 DEF Crash, IInv, TypeOK
    <3> QED BY <3>2, <3>3
  <2>5. CachesApart(cache', version', hurt')
    BY <1>2, <2>4, CachesStayApart DEF Isolated
  <2> QED BY <1>3, <2>3, <2>5 DEF Isolated
<1> QED BY <1>5, <1>6, <1>7

LEMMA ClientRequestKeepsApart ==
  ASSUME IInv, IInv', Isolated, NEW r \in Requests, NEW e \in Edges, NEW q \in Queries,
         ClientRequest(r, e, q)
  PROVE  Isolated'
<1>1. /\ version' = version /\ hurt' = hurt /\ cache' = cache /\ answer' = answer
      /\ asked[r] = NoAsk
      /\ asked' = [asked EXCEPT ![r] = [query |-> q, edge |-> e]]
      /\ stack' = [stack EXCEPT ![r] = <<Arrival(e, FALSE)>>]
  BY DEF ClientRequest, worldVars
<1>2. Grown(version, hurt, version', hurt')
  BY <1>1, TimePasses
<1>3. stack[r] = <<>> /\ \A p \in Requests : p # r => asked'[p] = asked[p] /\ stack'[p] = stack[p]
  BY <1>1, AskedTypes DEF IInv, TypeOK
<1>4. /\ \A p \in Requests : asked[p] # NoAsk => asked'[p] = asked[p] /\ asked[p].query \in Queries
      /\ \A p \in Requests : stack[p] # <<>> => asked'[p] = asked[p] /\ asked[p].query \in Queries
  BY <1>1, <1>3, AskedTypes
<1>5. AnswersApart(answer', asked', version', hurt')
  BY <1>1, <1>2, <1>4, AnswersStayApart DEF Isolated
<1>6. CachesApart(cache', version', hurt')
  BY <1>1, <1>2, CachesStayApart DEF Isolated
<1>7. ASSUME NEW p \in Requests
      PROVE  /\ Carries(stack[p], stack'[p], NoResp)
             /\ GoodOrNone(NoResp, asked'[p].query, version', hurt')
  <2>1. CASE p = r
    <3>1. stack'[p] = <<Arrival(e, FALSE)>> BY <1>1, <2>1 DEF IInv, TypeOK
    <3>2. Len(stack'[p]) = 1 /\ stack'[p][1].resp = NoResp BY <3>1 DEF Arrival
    <3> QED BY <3>2 DEF Carries, GoodOrNone
  <2>2. CASE p # r
    BY <1>3, <2>2 DEF Carries, GoodOrNone
  <2> QED BY <2>1, <2>2
<1>8. StacksApart(stack', asked', version', hurt')
  BY <1>2, <1>4, <1>7, AskedTypes, StacksStayApart DEF Isolated
<1> QED BY <1>5, <1>6, <1>8 DEF Isolated

LEMMA WorldKeepsApart ==
  ASSUME IInv, IInv', Isolated,
         \/ \E n \in Nodes : Restart(n)
         \/ \E h \in Hosts : OriginDown(h) \/ OriginRecovers(h)
         \/ \E q \in Queries : Publish(q)
  PROVE  Isolated'
<1>1. UNCHANGED <<cache, stack, hurt, asked, answer>>
  BY DEF Restart, OriginDown, OriginRecovers, Publish, clientVars
<1>2. version' = version \/ \E q \in Queries : version' = [version EXCEPT ![q] = @ + 1]
  BY DEF Restart, OriginDown, OriginRecovers, Publish
<1>3. Grown(version, hurt, version', hurt')
  BY <1>1, <1>2, TimePasses
<1> QED BY <1>1, <1>3, OthersStayApart DEF Isolated

(* Isolated holds in every reachable state.                                *)
LEMMA TenantsStayApart == Spec => []Isolated
<1>1. Init => Isolated
  <2> SUFFICES ASSUME Init PROVE Isolated
    OBVIOUS
  <2>1. CachesApart(cache, version, hurt)
    BY KeyType DEF Init, CachesApart, GoodOrNone
  <2>2. AnswersApart(answer, asked, version, hurt)
    BY DEF Init, AnswersApart
  <2>3. StacksApart(stack, asked, version, hurt)
    BY DEF Init, StacksApart
  <2> QED BY <2>1, <2>2, <2>3 DEF Isolated
<1>2. IInv /\ IInv' /\ Isolated /\ [Next]_vars => Isolated'
  <2> SUFFICES ASSUME IInv, IInv', Isolated, [Next]_vars PROVE Isolated'
    OBVIOUS
  <2>1. CASE UNCHANGED vars
    BY <2>1 DEF vars, Isolated
  <2>2. CASE \E r \in Requests : Handle(r)
    BY <2>2, HandleKeepsApart
  <2>3. CASE Environment
    BY <2>3, ClientRequestKeepsApart, FaultsKeepApart, WorldKeepsApart DEF Environment
  <2> QED BY <2>1, <2>2, <2>3 DEF Next
<1> QED BY <1>1, <1>2, Invariance, PTL DEF Spec

(* No tenant's objects or troubles reach another: CacheKey, ByHost and     *)
(* ServeHTTP's check of the host, with any LRU capacity, evictions,        *)
(* crashes and fallbacks included.                                         *)
THEOREM TenantsAreApart == Spec => []TenantIsolation
<1>1. Isolated => TenantIsolation
  BY DEF Isolated, CachesApart, AnswersApart, StacksApart, TenantIsolation, GoodOrNone,
         Good, Sound, Query
<1> QED BY <1>1, TenantsStayApart, PTL
-----------------------------------------------------------------------------
(* What a request costs and what its answer says.  A frame has an          *)
(* allowance: the times it, and the handlers it may still call, can turn to*)
(* the origin.  A frame that waits is left with the allowance it falls back*)
(* to should its Fetch fail.  No step makes contacts plus allowances grow, *)
(* and a client's request starts with five.                                *)
Allowance(f) ==
  IF f.pc = "origin" THEN 1
  ELSE IF f.pc = "shield" THEN IF f.xshard THEN 2 ELSE 3
  ELSE IF f.pc = "peer" THEN IF f.node \in Edges THEN 5 ELSE 2
  ELSE IF f.pc = "serve"
    THEN IF f.node \in Edges THEN IF f.xshard THEN 3 ELSE 5
         ELSE IF f.xshard THEN 1 ELSE 2
  ELSE 0
Share(s, i) == IF i > Len(s) THEN 0
               ELSE IF i = Len(s) THEN Allowance(s[i])
               ELSE Allowance(FellBack(s[i]))
Load(s) == Share(s, 1) + Share(s, 2) + Share(s, 3) + Share(s, 4)

(* The headers of what node n writes.                                      *)
Truthful(resp, n) ==
  /\ resp.nodeId = <<n>>
  /\ resp.xcache \in {<<>>, <<"HIT">>, <<"Miss">>}
  /\ resp.xcache = <<>> => resp.value.code # "200"

(* The stack s of a request for key k, made to edge e, c contacts so far.  *)
Tracked(s, e, k, c) ==
  /\ s[1].node = e
  /\ ViewsAgree => \A i \in 2..Len(s) : Owner(s[i].node, k) = s[i].node
  /\ \A i \in 1..Len(s) : s[i].pc = "reply" => Truthful(s[i].resp, s[i].node)
  /\ s[1].pc = "serve" => c = 0
  /\ s[1].pc = "reply" /\ s[1].resp.xcache = <<"HIT">> => c = 0
  /\ c + Load(s) <= 5

Booked(s, ask, c, ans, out) ==
  /\ ask = NoAsk => c = 0 /\ s = <<>> /\ ans = NoResp /\ ~out
  /\ s # <<>> => /\ ask # NoAsk /\ ans = NoResp /\ ~out
                 /\ Tracked(s, ask.edge, CacheKey(ask.query), c)
  /\ ans # NoResp => /\ ~out /\ Truthful(ans, ask.edge)
                     /\ ans.xcache = <<"HIT">> => c = 0
  /\ c <= 5
RequestsBooked(st, ask, con, ans, los) ==
  \A r \in Requests : Booked(st[r], ask[r], con[r], ans[r], r \in los)

(* A cached object carries no node id, and is where Placement lets it be.  *)
CachesBooked(c, ask) ==
  \A n \in Nodes, k \in Keys : c[n][k] # NoResp =>
    /\ c[n][k].nodeId = <<>>
    /\ ViewsAgree =>
         \/ Owner(n, k) = n
         \/ \E r \in Requests :
              ask[r] # NoAsk /\ ask[r].edge = n /\ CacheKey(ask[r].query) = k

Books == /\ RequestsBooked(stack, asked, contacts, answer, lost)
         /\ CachesBooked(cache, asked)

LEMMA AllowanceType ==
  ASSUME NEW f PROVE Allowance(f) \in 0..5
BY DEF Allowance

LEMMA ShareType ==
  ASSUME NEW s, NEW i PROVE Share(s, i) \in 0..5
BY AllowanceType DEF Share

LEMMA LoadType ==
  ASSUME NEW s PROVE Load(s) \in Nat
BY ShareType DEF Load

(* Falling back costs, and so do the calls of a hop with its fallback.     *)
LEMMA FellBackAllows ==
  ASSUME NEW f \in Frames, f.pc \in {"peer", "shield"}, NEW k, Sane(f, k)
  PROVE  Allowance(FellBack(f)) <= Allowance(f)
<1>1. /\ FellBack(f).node = f.node /\ FellBack(f).xshard = f.xshard
      /\ FellBack(f).pc = NextHop(f.node, f.pc)
  BY DEF FellBack, Frames
<1> QED BY <1>1 DEF Allowance, NextHop, BelowShard, Sane

LEMMA CallAllows ==
  ASSUME NEW f \in Frames, NEW g \in Frames, NEW k \in Keys, Sane(f, k),
         Calls(f, g), g.pc = "serve", g.xshard = f.xshard
  PROVE  Allowance(FellBack(f)) + Allowance(g) <= Allowance(f)
<1>1. /\ FellBack(f).node = f.node /\ FellBack(f).xshard = f.xshard
      /\ FellBack(f).pc = NextHop(f.node, f.pc)
  BY DEF FellBack, Frames
<1>2. CASE f.pc = "peer" /\ f.node \in Edges
  <2>1. Allowance(f) = 5 BY <1>2 DEF Allowance
  <2>2. f.xshard /\ FellBack(f).pc = "shield"
    BY <1>1, <1>2 DEF Sane, NextHop, BelowShard
  <2>3. Allowance(FellBack(f)) = 2 BY <1>1, <2>2 DEF Allowance
  <2>4. g.node \in Edges BY <1>2 DEF Calls, SameTier
  <2>5. Allowance(g) = 3 BY <2>2, <2>4 DEF Allowance
  <2> QED BY <2>1, <2>3, <2>5
<1>3. CASE f.pc = "peer" /\ f.node \notin Edges
  <2>1. Allowance(f) = 2 BY <1>3 DEF Allowance
  <2>2. f.xshard /\ FellBack(f).pc = "origin"
    BY <1>1, <1>3 DEF Sane, NextHop, BelowShard
  <2>3. Allowance(FellBack(f)) = 1 BY <1>1, <2>2 DEF Allowance
  <2>4. g.node \notin Edges BY <1>3 DEF Calls, SameTier
  <2>5. Allowance(g) = 1 BY <2>2, <2>4 DEF Allowance
  <2> QED BY <2>1, <2>3, <2>5
<1>4. CASE f.pc = "shield"
  <2>1. Allowance(f) = IF f.xshard THEN 2 ELSE 3 BY <1>4 DEF Allowance
  <2>2. FellBack(f).pc = "origin" BY <1>1, <1>4 DEF NextHop
  <2>3. Allowance(FellBack(f)) = 1 BY <2>2 DEF Allowance
  <2>4. g.node \notin Edges BY <1>4, TopologyAssumption DEF Calls
  <2>5. Allowance(g) = IF f.xshard THEN 1 ELSE 2 BY <2>4 DEF Allowance
  <2> QED BY <2>1, <2>3, <2>5
<1> QED BY <1>2, <1>3, <1>4 DEF Calls

LEMMA UpTo4 ==
  ASSUME NEW n \in Nat, n > 0
  PROVE  (n <= 4 => n \in 1..4) /\ (n <= 3 => n \in 1..3)
OBVIOUS

LEMMA LoadTop ==
  ASSUME NEW s \in Seq(Frames), s # <<>>, Len(s) <= 4, NEW f \in Frames
  PROVE  Load(WithTop(s, f)) + Allowance(s[Len(s)]) = Load(s) + Allowance(f)
<1> DEFINE t == WithTop(s, f)
<1>0. Len(s) \in Nat /\ Len(s) > 0
  BY LenProperties, EmptySeq
<1>1. Len(s) \in 1..4
  BY <1>0, UpTo4
<1>2. /\ Len(t) = Len(s)
      /\ \A i \in 1..Len(s) : t[i] = IF i = Len(s) THEN f ELSE s[i]
  BY <1>1, ExceptSeq DEF WithTop
<1> HIDE DEF t
<1>3. \A i \in 1..4 : i # Len(s) => Share(t, i) = Share(s, i)
  BY <1>1, <1>2 DEF Share
<1>4. Share(t, Len(s)) = Allowance(f) /\ Share(s, Len(s)) = Allowance(s[Len(s)])
  BY <1>1, <1>2 DEF Share
<1>5. Load(t) + Share(s, Len(s)) = Load(s) + Share(t, Len(s))
  <2>1. \A i \in 1..4 : Share(t, i) \in Nat /\ Share(s, i) \in Nat
    BY ShareType
  <2>2. CASE Len(s) = 1 BY <1>3, <2>1, <2>2 DEF Load
  <2>3. CASE Len(s) = 2 BY <1>3, <2>1, <2>3 DEF Load
  <2>4. CASE Len(s) = 3 BY <1>3, <2>1, <2>4 DEF Load
  <2>5. CASE Len(s) = 4 BY <1>3, <2>1, <2>5 DEF Load
  <2> QED BY <1>1, <2>2, <2>3, <2>4, <2>5
<1> QED BY <1>4, <1>5 DEF t

LEMMA LoadCall ==
  ASSUME NEW s \in Seq(Frames), s # <<>>, Len(s) <= 3, NEW g \in Frames
  PROVE  Load(Append(s, g)) + Allowance(s[Len(s)])
           = Load(s) + Allowance(FellBack(s[Len(s)])) + Allowance(g)
<1> DEFINE t == Append(s, g)
           d == Len(s)
<1>0. Len(s) \in Nat /\ Len(s) > 0
  BY LenProperties, EmptySeq
<1>1. Len(s) \in 1..3
  BY <1>0, UpTo4
<1>2. /\ Len(t) = Len(s) + 1 /\ t[Len(s) + 1] = g
      /\ \A i \in 1..Len(s) : t[i] = s[i]
  BY AppendProperties
<1> HIDE DEF t
<1>3. \A i \in 1..4 : i # d /\ i # d + 1 => Share(t, i) = Share(s, i)
  BY <1>1, <1>2 DEF Share
<1>4. /\ Share(t, d) = Allowance(FellBack(s[d])) /\ Share(t, d + 1) = Allowance(g)
      /\ Share(s, d) = Allowance(s[d]) /\ Share(s, d + 1) = 0
  BY <1>1, <1>2 DEF Share
<1>5. Load(t) + Share(s, d) = Load(s) + Share(t, d) + Share(t, d + 1)
  <2>1. \A i \in 1..4 : Share(t, i) \in Nat /\ Share(s, i) \in Nat
    BY ShareType
  <2>2. CASE d = 1 BY <1>3, <1>4, <2>1, <2>2 DEF Load
  <2>3. CASE d = 2 BY <1>3, <1>4, <2>1, <2>3 DEF Load
  <2>4. CASE d = 3 BY <1>3, <1>4, <2>1, <2>4 DEF Load
  <2> QED BY <1>1, <2>2, <2>3, <2>4
<1> QED BY <1>4, <1>5 DEF t

(* Four numbers that are at most four others, added up.                    *)
LEMMA FourAtMost ==
  ASSUME NEW a \in Nat, NEW b \in Nat, NEW c \in Nat, NEW d \in Nat,
         NEW u \in Nat, NEW v \in Nat, NEW w \in Nat, NEW x \in Nat,
         a <= u, b <= v, c <= w, d <= x
  PROVE  a + b + c + d <= u + v + w + x
OBVIOUS

(* The frames above d are gone, and frame d has become f.                  *)
LEMMA LoadCut ==
  ASSUME NEW s \in Seq(Frames), Len(s) <= 4, NEW d \in 1..Len(s) - 1, NEW f \in Frames,
         Allowance(f) <= Allowance(FellBack(s[d]))
  PROVE  Load(WithTop(SubSeq(s, 1, d), f)) <= Load(s)
<1> DEFINE p == SubSeq(s, 1, d)
           t == WithTop(p, f)
<1>0. Len(s) \in Nat
  BY LenProperties
<1>1. Len(s) \in 2..4 /\ d \in 1..3 /\ d < Len(s)
  <2> DEFINE n == Len(s)
  <2>1. n \in Nat /\ n <= 4 /\ d \in 1..n - 1
    BY <1>0
  <2> HIDE DEF n
  <2>2. n \in 2..4 /\ d \in 1..3 /\ d < n
    BY <2>1
  <2> QED BY <2>2 DEF n
<1>2. p \in Seq(Frames) /\ Len(p) = d /\ \A i \in 1..d : p[i] = s[i]
  <2>1. \A i \in 1..d : s[i] \in Frames BY <1>1, ElementOfSeq
  <2> QED BY <1>1, <2>1, SubSeqProperties
<1> HIDE DEF p
<1>3. /\ Len(t) = d
      /\ \A i \in 1..d : t[i] = IF i = d THEN f ELSE s[i]
  BY <1>1, <1>2, ExceptSeq DEF WithTop
<1> HIDE DEF t
<1>4. \A i \in 1..4 : i < d => Share(t, i) = Share(s, i)
  BY <1>1, <1>3 DEF Share
<1>5. \A i \in 1..4 : i > d => Share(t, i) = 0
  BY <1>1, <1>3 DEF Share
<1>6. Share(t, d) = Allowance(f) /\ Share(s, d) = Allowance(FellBack(s[d]))
  BY <1>1, <1>3 DEF Share
<1>7. \A i \in 1..4 : Share(t, i) \in Nat /\ Share(s, i) \in Nat
  BY ShareType
<1>8. \A i \in 1..4 : Share(t, i) <= Share(s, i)
  <2> TAKE i \in 1..4
  <2>1. CASE i < d BY <1>4, <1>7, <2>1
  <2>2. CASE i = d BY <1>6, <2>2
  <2>3. CASE i > d BY <1>5, <1>7, <2>3
  <2> QED BY <1>1, <2>1, <2>2, <2>3
<1>9. Load(t) <= Load(s)
  <2>1. /\ Share(t, 1) <= Share(s, 1) /\ Share(t, 2) <= Share(s, 2)
        /\ Share(t, 3) <= Share(s, 3) /\ Share(t, 4) <= Share(s, 4)
    BY <1>8
  <2>2. /\ Share(t, 1) \in Nat /\ Share(t, 2) \in Nat /\ Share(t, 3) \in Nat
        /\ Share(t, 4) \in Nat
    BY <1>7
  <2>3. /\ Share(s, 1) \in Nat /\ Share(s, 2) \in Nat /\ Share(s, 3) \in Nat
        /\ Share(s, 4) \in Nat
    BY <1>7
  <2>4. Share(t, 1) + Share(t, 2) + Share(t, 3) + Share(t, 4)
          <= Share(s, 1) + Share(s, 2) + Share(s, 3) + Share(s, 4)
    BY ONLY <2>1, <2>2, <2>3, FourAtMost
  <2> QED BY <2>4 DEF Load
<1> QED BY <1>9 DEF t, p

(* The handlers of a request keep its book in order: one moves on, calls   *)
(* another, or goes away.                                                  *)
LEMMA TopTracked ==
  ASSUME NEW s \in Seq(Frames), s # <<>>, NEW k \in Keys, Shape(s, k), NEW e,
         NEW c \in Nat, NEW c2 \in Nat, Tracked(s, e, k, c),
         NEW f \in Frames, f.node = s[Len(s)].node, f.pc # "serve",
         f.pc = "reply" => Truthful(f.resp, f.node),
         Len(s) = 1 /\ f.pc = "reply" /\ f.resp.xcache = <<"HIT">> => c2 = 0,
         c2 + Allowance(f) <= c + Allowance(s[Len(s)])
  PROVE  Tracked(WithTop(s, f), e, k, c2)
<1> DEFINE t == WithTop(s, f)
           d == Len(s)
<1>1. d \in Nat /\ d >= 1 /\ d <= 4
  BY LenProperties, EmptySeq, ShapeIsLoopFree
<1>2. Len(t) = d /\ \A i \in 1..d : t[i] = IF i = d THEN f ELSE s[i]
  BY <1>1, ExceptSeq DEF WithTop
<1>3. Load(t) + Allowance(s[d]) = Load(s) + Allowance(f)
  BY <1>1, LoadTop
<1>4. d # 1 => s[1].pc \in {"peer", "shield"}
  <2>1. \A i \in 1..d - 1 : s[i].pc \in {"peer", "shield"} BY DEF Shape, Calls
  <2> HIDE DEF d
  <2> QED BY <1>1, <2>1
<1>5. /\ s[1].node = e /\ c + Load(s) <= 5
      /\ ViewsAgree => \A i \in 2..d : Owner(s[i].node, k) = s[i].node
      /\ \A i \in 1..d : s[i].pc = "reply" => Truthful(s[i].resp, s[i].node)
  BY DEF Tracked
<1>6. /\ f.node = s[d].node
      /\ d = 1 /\ f.pc = "reply" /\ f.resp.xcache = <<"HIT">> => c2 = 0
      /\ c2 + Allowance(f) <= c + Allowance(s[d])
  OBVIOUS
<1> HIDE DEF t, d
<1>7. t[1] = IF d = 1 THEN f ELSE s[1]
  BY <1>1, <1>2
<1>8. t[1].node = e
  BY <1>5, <1>6, <1>7
<1>9. ViewsAgree => \A i \in 2..Len(t) : Owner(t[i].node, k) = t[i].node
  <2> SUFFICES ASSUME ViewsAgree, NEW i \in 2..d PROVE Owner(t[i].node, k) = t[i].node
    BY <1>2
  <2>1. t[i].node = s[i].node BY <1>1, <1>2, <1>6
  <2> QED BY <1>5, <2>1
<1>10. \A i \in 1..Len(t) : t[i].pc = "reply" => Truthful(t[i].resp, t[i].node)
  BY <1>2, <1>5
<1>11. /\ t[1].pc = "serve" => c2 = 0
       /\ t[1].pc = "reply" /\ t[1].resp.xcache = <<"HIT">> => c2 = 0
  BY <1>4, <1>6, <1>7
<1>12. c2 + Load(t) <= 5
  <2>1. /\ Load(t) \in Nat /\ Load(s) \in Nat
        /\ Allowance(f) \in Nat /\ Allowance(s[d]) \in Nat
    BY LoadType, AllowanceType
  <2>2. c + Load(s) <= 5 /\ c2 + Allowance(f) <= c + Allowance(s[d])
    BY <1>5, <1>6
  <2> QED BY <1>3, <2>1, <2>2
<1> QED BY <1>8, <1>9, <1>10, <1>11, <1>12 DEF Tracked, t

LEMMA CallTracked ==
  ASSUME NEW s \in Seq(Frames), s # <<>>, NEW k \in Keys, Shape(s, k), NEW e,
         NEW c \in Nat, Tracked(s, e, k, c),
         NEW g \in Frames, Calls(s[Len(s)], g), g.pc = "serve",
         g.xshard = s[Len(s)].xshard, Sane(s[Len(s)], k),
         ViewsAgree => Owner(g.node, k) = g.node
  PROVE  Tracked(Append(s, g), e, k, c)
<1> DEFINE t == Append(s, g)
           d == Len(s)
<1>0. t \in Seq(Frames) /\ Shape(t, k) /\ s[d] \in Frames
  <2>1. d \in Nat /\ d >= 1 BY LenProperties, EmptySeq
  <2>2. s[d] \in Frames BY <2>1, ElementOfSeq
  <2> QED BY <2>2, CallKeepsShape
<1>1. d \in Nat /\ d >= 1
  BY LenProperties, EmptySeq
<1>2. Len(t) = d + 1 /\ t[d + 1] = g /\ \A i \in 1..d : t[i] = s[i]
  BY AppendProperties
<1>3. d <= 3
  <2>1. Len(t) <= 4 BY <1>0, ShapeIsLoopFree
  <2> HIDE DEF t, d
  <2> QED BY <1>1, <1>2, <2>1
<1>4. Load(t) + Allowance(s[d]) = Load(s) + Allowance(FellBack(s[d])) + Allowance(g)
  BY <1>3, LoadCall
<1>5. Allowance(FellBack(s[d])) + Allowance(g) <= Allowance(s[d])
  BY <1>0, CallAllows
<1>6. /\ s[1].node = e /\ c + Load(s) <= 5
      /\ ViewsAgree => \A i \in 2..d : Owner(s[i].node, k) = s[i].node
      /\ \A i \in 1..d : s[i].pc = "reply" => Truthful(s[i].resp, s[i].node)
      /\ s[1].pc = "serve" => c = 0
      /\ s[1].pc = "reply" /\ s[1].resp.xcache = <<"HIT">> => c = 0
  BY DEF Tracked
<1> HIDE DEF t, d
<1>7. t[1] = s[1]
  BY <1>1, <1>2
<1>8. ViewsAgree => \A i \in 2..Len(t) : Owner(t[i].node, k) = t[i].node
  <2> SUFFICES ASSUME ViewsAgree, NEW i \in 2..d + 1 PROVE Owner(t[i].node, k) = t[i].node
    BY <1>2
  <2>1. CASE i = d + 1 BY <1>2, <2>1
  <2>2. CASE i # d + 1 BY <1>1, <1>2, <1>6, <2>2
  <2> QED BY <2>1, <2>2
<1>9. \A i \in 1..Len(t) : t[i].pc = "reply" => Truthful(t[i].resp, t[i].node)
  <2> SUFFICES ASSUME NEW i \in 1..d + 1, t[i].pc = "reply"
               PROVE  Truthful(t[i].resp, t[i].node)
    BY <1>2
  <2>1. i # d + 1 BY <1>2
  <2> QED BY <1>1, <1>2, <1>6, <2>1
<1>10. c + Load(t) <= 5
  <2>1. /\ Load(t) \in Nat /\ Load(s) \in Nat /\ Allowance(g) \in Nat
        /\ Allowance(s[d]) \in Nat /\ Allowance(FellBack(s[d])) \in Nat
    BY LoadType, AllowanceType
  <2>2. c + Load(s) <= 5
    BY <1>6
  <2> QED BY <1>4, <1>5, <2>1, <2>2
<1> QED BY <1>6, <1>7, <1>8, <1>9, <1>10 DEF Tracked, t

LEMMA CutTracked ==
  ASSUME NEW s \in Seq(Frames), NEW k \in Keys, Shape(s, k), NEW e,
         NEW c \in Nat, Tracked(s, e, k, c), NEW d \in 1..Len(s) - 1,
         NEW f \in Frames, f.node = s[d].node, f.pc \notin {"serve", "reply"},
         Allowance(f) <= Allowance(FellBack(s[d]))
  PROVE  Tracked(WithTop(SubSeq(s, 1, d), f), e, k, c)
<1> DEFINE p == SubSeq(s, 1, d)
           t == WithTop(p, f)
<1>0. Len(s) \in Nat /\ Len(s) <= 4
  BY LenProperties, ShapeIsLoopFree
<1>1. d \in 1..Len(s) /\ d \in Nat /\ d >= 1 /\ 1..d \subseteq 1..Len(s)
  BY <1>0
<1>2. p \in Seq(Frames) /\ Len(p) = d /\ \A i \in 1..d : p[i] = s[i]
  BY <1>1, PrefixKeepsShape
<1> HIDE DEF p
<1>3. Len(t) = d /\ \A i \in 1..d : t[i] = IF i = d THEN f ELSE s[i]
  BY <1>1, <1>2, ExceptSeq DEF WithTop
<1>4. Load(t) <= Load(s)
  BY <1>0, LoadCut DEF p
<1>5. /\ s[1].node = e /\ c + Load(s) <= 5
      /\ ViewsAgree => \A i \in 2..Len(s) : Owner(s[i].node, k) = s[i].node
      /\ \A i \in 1..Len(s) : s[i].pc = "reply" => Truthful(s[i].resp, s[i].node)
      /\ s[1].pc = "serve" => c = 0
      /\ s[1].pc = "reply" /\ s[1].resp.xcache = <<"HIT">> => c = 0
  BY DEF Tracked
<1> HIDE DEF t
<1>6. t[1] = IF d = 1 THEN f ELSE s[1]
  BY <1>1, <1>3
<1>7. ViewsAgree => \A i \in 2..Len(t) : Owner(t[i].node, k) = t[i].node
  <2> SUFFICES ASSUME ViewsAgree, NEW i \in 2..d PROVE Owner(t[i].node, k) = t[i].node
    BY <1>3
  <2>1. i \in 1..d /\ i \in 1..Len(s) /\ i >= 2 BY <1>1
  <2>2. i \in 2..Len(s) BY <1>0, <2>1
  <2>3. t[i].node = s[i].node BY <1>3, <2>1
  <2> QED BY <1>5, <2>2, <2>3
<1>8. \A i \in 1..Len(t) : t[i].pc = "reply" => Truthful(t[i].resp, t[i].node)
  BY <1>1, <1>3, <1>5
<1>9. c + Load(t) <= 5
  BY <1>4, <1>5, LoadType
<1> QED BY <1>5, <1>6, <1>7, <1>8, <1>9 DEF Tracked, t, p

(* What waits in Fetch can fall back.                                      *)
LEMMA UnwoundTracked ==
  ASSUME NEW s \in Seq(Frames), NEW k \in Keys, Shape(s, k), NEW e,
         NEW c \in Nat, Tracked(s, e, k, c), NEW i \in 1..Len(s), i # 1
  PROVE  Tracked(Unwound(s, i), e, k, c)
<1>1. Len(s) \in Nat /\ i \in Nat
  BY LenProperties
<1>2. i - 1 \in 1..Len(s) - 1 /\ i - 1 \in 1..Len(s)
  BY <1>1
<1>3. s[i - 1] \in Frames
  BY <1>2, ElementOfSeq
<1>4. Calls(s[i - 1], s[(i - 1) + 1])
  BY <1>2 DEF Shape
<1>5. s[i - 1].pc \in {"peer", "shield"}
  BY <1>4 DEF Calls
<1>6. /\ FellBack(s[i - 1]) \in Frames /\ FellBack(s[i - 1]).node = s[i - 1].node
      /\ FellBack(s[i - 1]).pc \notin {"serve", "reply"}
  BY <1>3, <1>5 DEF FellBack, NextHop, BelowShard, Frames, PCs
<1>7. Allowance(FellBack(s[i - 1])) <= Allowance(FellBack(s[i - 1]))
  BY AllowanceType
<1> QED BY <1>2, <1>6, <1>7, CutTracked DEF Unwound

(* What is in the book of a request under way.                             *)
LEMMA ActiveBook ==
  ASSUME IInv, Books, NEW r \in Requests, Active(r)
  PROVE  /\ asked[r] # NoAsk /\ answer[r] = NoResp /\ r \notin lost
         /\ Tracked(stack[r], asked[r].edge, KeyOf(r), contacts[r])
         /\ contacts[r] \in Nat /\ contacts[r] <= 5
BY DEF Books, RequestsBooked, Booked, Active, KeyOf, Query, IInv, TypeOK

(* One request under way moves on.                                         *)
LEMMA OneBookChanges ==
  ASSUME IInv, Books, NEW r \in Requests, Active(r), NEW t, NEW c \in Nat,
         stack' = [stack EXCEPT ![r] = t], contacts' = [contacts EXCEPT ![r] = c],
         UNCHANGED <<asked, answer, lost>>,
         Tracked(t, asked[r].edge, KeyOf(r), c)
  PROVE  RequestsBooked(stack', asked', contacts', answer', lost')
<1>1. stack \in [Requests -> Seq(Frames)] /\ contacts \in [Requests -> Nat]
  BY DEF IInv, TypeOK
<1> SUFFICES ASSUME NEW x \in Requests
             PROVE  Booked(stack'[x], asked'[x], contacts'[x], answer'[x], x \in lost')
  BY DEF RequestsBooked
<1>2. Booked(stack[x], asked[x], contacts[x], answer[x], x \in lost)
  BY DEF Books, RequestsBooked
<1>3. CASE x # r
  BY <1>1, <1>2, <1>3
<1>4. CASE x = r
  <2>1. stack'[x] = t /\ contacts'[x] = c
    BY <1>1, <1>4
  <2>2. asked[r] # NoAsk /\ answer[r] = NoResp /\ r \notin lost
    BY ActiveBook
  <2>3. c <= 5
    <3>1. c + Load(t) <= 5 BY DEF Tracked
    <3>2. Load(t) \in Nat BY LoadType
    <3> QED BY <3>1, <3>2
  <2> QED BY <1>4, <2>1, <2>2, <2>3 DEF Booked, KeyOf, Query
<1> QED BY <1>3, <1>4

(* The same, of a step that puts f in the place of the last frame.         *)
LEMMA TopBooked ==
  ASSUME IInv, Books, NEW r \in Requests, Active(r), NEW f \in Frames, Step(r, f),
         UNCHANGED <<asked, answer, lost>>,
         NEW c \in Nat, contacts' = [contacts EXCEPT ![r] = c],
         f.node = Top(r).node, f.pc # "serve",
         f.pc = "reply" => Truthful(f.resp, f.node),
         Len(stack[r]) = 1 /\ f.pc = "reply" /\ f.resp.xcache = <<"HIT">> => c = 0,
         c + Allowance(f) <= contacts[r] + Allowance(Top(r))
  PROVE  RequestsBooked(stack', asked', contacts', answer', lost')
<1>1. /\ stack[r] \in Seq(Frames) /\ stack[r] # <<>> /\ KeyOf(r) \in Keys
      /\ Shape(stack[r], KeyOf(r))
  BY ActiveFrame
<1>2. /\ Tracked(stack[r], asked[r].edge, KeyOf(r), contacts[r])
      /\ contacts[r] \in Nat
  BY ActiveBook
<1>3. Tracked(WithTop(stack[r], f), asked[r].edge, KeyOf(r), c)
  BY <1>1, <1>2, TopTracked DEF Top
<1>4. stack' = [stack EXCEPT ![r] = WithTop(stack[r], f)]
  BY DEF Step, IInv, TypeOK
<1> QED BY <1>3, <1>4, OneBookChanges

LEMMA ReplyBooked ==
  ASSUME IInv, Books, NEW r \in Requests, Active(r), NEW resp \in Responses,
         Reply(r, resp), Truthful(resp, Top(r).node),
         UNCHANGED <<asked, answer, lost>>,
         NEW c \in Nat, contacts' = [contacts EXCEPT ![r] = c],
         Len(stack[r]) = 1 /\ resp.xcache = <<"HIT">> => c = 0,
         c <= contacts[r] + Allowance(Top(r))
  PROVE  RequestsBooked(stack', asked', contacts', answer', lost')
<1> DEFINE f == [Top(r) EXCEPT !.pc = "reply", !.resp = resp]
<1>1. f \in Frames /\ f.node = Top(r).node /\ f.pc = "reply" /\ f.resp = resp
  BY ActiveFrame DEF Frames, PCs
<1>2. Step(r, f)
  BY DEF Reply
<1> HIDE DEF f
<1>3. Allowance(f) = 0
  BY <1>1 DEF Allowance
<1>4. c + Allowance(f) <= contacts[r] + Allowance(Top(r))
  BY <1>3
<1> QED BY <1>1, <1>2, <1>4, TopBooked

LEMMA SameContacts ==
  ASSUME IInv, NEW r \in Requests, contacts' = contacts
  PROVE  contacts' = [contacts EXCEPT ![r] = contacts[r]] /\ contacts[r] \in Nat
BY DEF IInv, TypeOK

LEMMA ErrorIsTruthful ==
  ASSUME NEW n \in Nodes, NEW q \in Queries, NEW code \in {"404", "500"}
  PROVE  /\ Truthful(Error(n, q, code), n)
         /\ Error(n, q, code).xcache # <<"HIT">>
BY DEF Truthful, Error

LEMMA CacheBook ==
  ASSUME IInv, Books, NEW n \in Nodes, NEW k \in Keys, cache[n][k] # NoResp
  PROVE  cache[n][k] \in Responses /\ cache[n][k].nodeId = <<>>
BY DEF IInv, TypeOK, Books, CachesBooked

LEMMA HitIsTruthful ==
  ASSUME NEW n \in Nodes, NEW resp \in Responses, resp.nodeId = <<>>
  PROVE  Truthful(Written(n, SetHit(resp)), n)
<1>1. SetHit(resp).nodeId = <<>> /\ SetHit(resp).xcache = <<"HIT">>
  BY DEF SetHit, Responses
<1>2. SetHit(resp) \in Responses
  BY HeaderTypes
<1>3. /\ Written(n, SetHit(resp)).nodeId = <<n>> \o <<>>
      /\ Written(n, SetHit(resp)).xcache = <<"HIT">>
  BY <1>1, <1>2 DEF Written, Responses
<1>4. <<n>> \o <<>> = <<n>>
  OBVIOUS
<1> QED BY <1>3, <1>4 DEF Truthful

LEMMA MissIsTruthful ==
  ASSUME NEW n \in Nodes, NEW resp \in Responses
  PROVE  /\ AddMiss(Stripped(resp)).nodeId = <<>>
         /\ Truthful(Written(n, AddMiss(Stripped(resp))), n)
         /\ Written(n, AddMiss(Stripped(resp))).xcache # <<"HIT">>
<1>1. Stripped(resp).nodeId = <<>> /\ Stripped(resp).xcache = <<>> /\ Stripped(resp) \in Responses
  BY HeaderTypes DEF Stripped, Responses
<1>2. /\ AddMiss(Stripped(resp)).nodeId = <<>>
      /\ AddMiss(Stripped(resp)).xcache = Append(<<>>, "Miss")
      /\ AddMiss(Stripped(resp)) \in Responses
  BY <1>1, HeaderTypes DEF AddMiss, Responses
<1>3. Append(<<>>, "Miss") = <<"Miss">> /\ <<n>> \o <<>> = <<n>>
  OBVIOUS
<1>4. /\ Written(n, AddMiss(Stripped(resp))).nodeId = <<n>>
      /\ Written(n, AddMiss(Stripped(resp))).xcache = <<"Miss">>
  BY <1>2, <1>3 DEF Written, Responses
<1>5. <<"Miss">> # <<"HIT">> /\ <<"Miss">> # <<>>
  OBVIOUS
<1> QED BY <1>2, <1>4, <1>5 DEF Truthful

LEMMA CachesStayBooked ==
  ASSUME NEW c, NEW c2, NEW ask, NEW ask2, CachesBooked(c, ask),
         \A r \in Requests : ask[r] # NoAsk => ask2[r] = ask[r],
         \A n \in Nodes, k \in Keys : c2[n][k] = NoResp \/ c2[n][k] = c[n][k]
  PROVE  CachesBooked(c2, ask2)
BY DEF CachesBooked

(* Where the top handler of a request is, it may keep a copy.              *)
LEMMA CopyIsPlaced ==
  ASSUME IInv, Books, NEW r \in Requests, Active(r), ViewsAgree
  PROVE  \/ Owner(Top(r).node, KeyOf(r)) = Top(r).node
         \/ asked[r] # NoAsk /\ asked[r].edge = Top(r).node
<1> DEFINE d == Len(stack[r])
<1>1. d \in Nat /\ d >= 1
  BY ActiveFrame
<1>2. Tracked(stack[r], asked[r].edge, KeyOf(r), contacts[r]) /\ asked[r] # NoAsk
  BY ActiveBook
<1>3. /\ \A i \in 2..d : Owner(stack[r][i].node, KeyOf(r)) = stack[r][i].node
      /\ stack[r][1].node = asked[r].edge
  BY <1>2 DEF Tracked
<1>4. Top(r) = stack[r][d]
  BY DEF Top
<1> HIDE DEF d
<1>5. d = 1 \/ d \in 2..d
  BY <1>1
<1> QED BY <1>2, <1>3, <1>4, <1>5

LEMMA HandleKeepsBooks ==
  ASSUME IInv, Books, NEW r \in Requests, Handle(r)
  PROVE  Books'
<1>1. Active(r) /\ asked' = asked /\ lost' = lost
  BY DEF Handle, RejectUnknownHost, ServeHit, ServeMiss, Fetch, FetchFails,
         FetchOrigin, FetchOriginFails, CacheAndReply, Return, At, clientVars
<1>2. /\ Top(r) \in Frames /\ Top(r).node \in Nodes /\ Query(r) \in Queries
      /\ KeyOf(r) \in Keys /\ Sane(Top(r), KeyOf(r)) /\ asked[r] # NoAsk
      /\ stack[r] \in Seq(Frames) /\ stack[r] # <<>> /\ Shape(stack[r], KeyOf(r))
      /\ Len(stack[r]) \in Nat /\ Len(stack[r]) >= 1
  BY <1>1, ActiveFrame
<1>3. /\ Tracked(stack[r], asked[r].edge, KeyOf(r), contacts[r])
      /\ answer[r] = NoResp /\ contacts[r] \in Nat /\ contacts[r] <= 5
  BY <1>1, ActiveBook
<1>4. cache' = cache => CachesBooked(cache', asked')
  BY <1>1 DEF Books
<1>5. Allowance(Top(r)) \in Nat
  BY AllowanceType
<1>6. contacts[r] <= contacts[r] + Allowance(Top(r))
  BY <1>3, <1>5
<1>7. CASE RejectUnknownHost(r)
  <2>1. /\ Reply(r, Error(Top(r).node, Query(r), "404"))
        /\ UNCHANGED <<cache, answer, contacts>>
    BY <1>7 DEF RejectUnknownHost, clientVars
  <2>2. Error(Top(r).node, Query(r), "404") \in Responses
    BY <1>2, ErrorType DEF Codes
  <2>3. contacts' = [contacts EXCEPT ![r] = contacts[r]]
    BY <2>1, SameContacts
  <2>4. RequestsBooked(stack', asked', contacts', answer', lost')
    BY <1>1, <1>2, <1>3, <1>6, <2>1, <2>2, <2>3, ErrorIsTruthful, ReplyBooked
  <2> QED BY <1>4, <2>1, <2>4 DEF Books
<1>8. CASE ServeHit(r)
  <2> DEFINE obj == cache[Top(r).node][KeyOf(r)]
             resp == Written(Top(r).node, SetHit(obj))
  <2>1. /\ obj # NoResp /\ Reply(r, resp) /\ UNCHANGED <<cache, answer, contacts>>
        /\ Top(r).pc = "serve"
    BY <1>8 DEF ServeHit, At, clientVars
  <2>2. obj \in Responses /\ obj.nodeId = <<>>
    BY <1>2, <2>1, CacheBook
  <2> HIDE DEF obj
  <2>3. resp \in Responses /\ Truthful(resp, Top(r).node)
    BY <1>2, <2>2, HeaderTypes, HitIsTruthful
  <2> HIDE DEF resp
  <2>4. contacts' = [contacts EXCEPT ![r] = contacts[r]]
    BY <2>1, SameContacts
  <2>5. Len(stack[r]) = 1 => contacts[r] = 0
    BY <1>3, <2>1 DEF Tracked, Top
  <2>6. RequestsBooked(stack', asked', contacts', answer', lost')
    BY <1>1, <1>3, <1>6, <2>1, <2>3, <2>4, <2>5, ReplyBooked
  <2> QED BY <1>4, <2>1, <2>6 DEF Books
<1>9. CASE ServeMiss(r)
  <2> DEFINE n == Top(r).node
             x == Top(r).xshard
             f == [Top(r) EXCEPT !.pc = ShardHop(n, KeyOf(r), x),
                                 !.xshard = ShardMark(n, KeyOf(r), x)]
  <2>1. Top(r).pc = "serve" /\ Step(r, f) /\ UNCHANGED <<cache, answer, contacts>>
    BY <1>9 DEF ServeMiss, At, clientVars
  <2>2. /\ ShardHop(n, KeyOf(r), x) \in {"peer", BelowShard(n)}
        /\ ShardHop(n, KeyOf(r), x) = "peer" => ~x
        /\ ShardMark(n, KeyOf(r), x) <=> ShardHop(n, KeyOf(r), x) = "peer"
        /\ BelowShard(n) = IF n \in Edges THEN "shield" ELSE "origin"
        /\ ShardMark(n, KeyOf(r), x) \in BOOLEAN
    BY DEF ShardHop, ShardMark, BelowShard
  <2>3. x \in BOOLEAN BY <1>2 DEF Frames
  <2>4. /\ f \in Frames /\ f.node = n /\ f.pc = ShardHop(n, KeyOf(r), x)
        /\ f.xshard = ShardMark(n, KeyOf(r), x)
    BY <1>2, <2>2 DEF Frames, PCs
  <2> HIDE DEF f
  <2>5. Allowance(f) <= Allowance(Top(r))
    BY <2>1, <2>2, <2>3, <2>4 DEF Allowance
  <2>6. contacts' = [contacts EXCEPT ![r] = contacts[r]]
    BY <2>1, SameContacts
  <2>7. contacts[r] + Allowance(f) <= contacts[r] + Allowance(Top(r))
    BY <1>3, <2>5, AllowanceType
  <2>8. f.pc # "serve" /\ f.pc # "reply"
    BY <2>2, <2>4
  <2>9. RequestsBooked(stack', asked', contacts', answer', lost')
    BY <1>1, <1>3, <2>1, <2>4, <2>6, <2>7, <2>8, TopBooked
  <2> QED BY <1>4, <2>1, <2>9 DEF Books
<1>10. CASE Fetch(r)
  <2> DEFINE callee == Callee(Top(r), KeyOf(r))
             g == Arrival(callee, Top(r).xshard)
  <2>1. Top(r).pc \in {"peer", "shield"} /\ UNCHANGED <<cache, answer, contacts>>
    BY <1>10 DEF Fetch, At, clientVars
  <2>2. callee \in Nodes /\ Top(r).xshard \in BOOLEAN
    BY <1>2, RouteTypes DEF Callee, Nodes, Frames
  <2>3. g \in Frames /\ g.node = callee /\ g.pc = "serve" /\ g.xshard = Top(r).xshard
    BY <2>2 DEF Arrival, Frames, PCs
  <2>4. Calls(Top(r), g) /\ (ViewsAgree => Owner(callee, KeyOf(r)) = callee)
    <3>1. CASE Top(r).pc = "peer"
      <4>1. callee = Owner(Top(r).node, KeyOf(r)) BY <3>1 DEF Callee
      <4>2. SameTier(Top(r).node, callee) BY <1>2, <4>1, RouteTypes
      <4>3. callee # Top(r).node /\ Top(r).xshard BY <1>2, <3>1, <4>1 DEF Sane
      <4>4. Calls(Top(r), g) BY <2>3, <3>1, <4>2, <4>3 DEF Calls
      <4>5. ViewsAgree => Owner(callee, KeyOf(r)) = Owner(Top(r).node, KeyOf(r))
        BY <1>2, <2>2, <4>2 DEF Owner, SameTier, ViewsAgree
      <4> QED BY <4>1, <4>4, <4>5
    <3>2. CASE Top(r).pc = "shield"
      <4>1. callee = ShieldOwner[Top(r).node][KeyOf(r)] /\ callee \in Shields
        BY <1>2, <3>2, RouteTypes DEF Callee
      <4>2. Calls(Top(r), g) BY <1>2, <2>3, <3>2, <4>1 DEF Calls, Sane
      <4>3. Owner(callee, KeyOf(r)) = ShieldOwner[callee][KeyOf(r)]
        BY <4>1, TopologyAssumption DEF Owner
      <4>4. ViewsAgree => ShieldOwner[callee] = ShieldOwner[Top(r).node]
        BY <1>2, <2>2 DEF ViewsAgree
      <4> QED BY <4>1, <4>2, <4>3, <4>4
    <3> QED BY <2>1, <3>1, <3>2
  <2>5. stack' = [stack EXCEPT ![r] = Append(stack[r], g)]
    BY <1>10 DEF Fetch, IInv, TypeOK
  <2> HIDE DEF g, callee
  <2>6. Tracked(Append(stack[r], g), asked[r].edge, KeyOf(r), contacts[r])
    BY <1>2, <1>3, <2>3, <2>4, CallTracked DEF Top
  <2>7. contacts' = [contacts EXCEPT ![r] = contacts[r]]
    BY <2>1, SameContacts
  <2>8. RequestsBooked(stack', asked', contacts', answer', lost')
    BY <1>1, <1>3, <2>1, <2>5, <2>6, <2>7, OneBookChanges
  <2> QED BY <1>4, <2>1, <2>8 DEF Books
<1>11. CASE FetchFails(r)
  <2> DEFINE f == FellBack(Top(r))
  <2>1. /\ Top(r).pc \in {"peer", "shield"} /\ Step(r, f)
        /\ UNCHANGED <<cache, answer, contacts>>
    BY <1>11 DEF FetchFails, At, clientVars
  <2>2. f \in Frames /\ f.node = Top(r).node /\ f.pc \in {"shield", "origin"}
    BY <1>2, <2>1 DEF FellBack, NextHop, BelowShard, Frames, PCs
  <2>3. Allowance(f) <= Allowance(Top(r))
    BY <1>2, <2>1, FellBackAllows
  <2> HIDE DEF f
  <2>4. contacts[r] + Allowance(f) <= contacts[r] + Allowance(Top(r))
    BY <1>3, <2>3, AllowanceType
  <2>5. contacts' = [contacts EXCEPT ![r] = contacts[r]]
    BY <2>1, SameContacts
  <2>6. RequestsBooked(stack', asked', contacts', answer', lost')
    BY <1>1, <1>3, <2>1, <2>2, <2>4, <2>5, TopBooked
  <2> QED BY <1>4, <2>1, <2>6 DEF Books
<1>12. CASE FetchOrigin(r)
  <2> DEFINE f == [Top(r) EXCEPT !.pc = "body", !.resp = FromOrigin(Query(r))]
  <2>1. /\ Top(r).pc = "origin" /\ Step(r, f) /\ UNCHANGED <<cache, answer>>
        /\ contacts' = [contacts EXCEPT ![r] = contacts[r] + 1]
    BY <1>12 DEF FetchOrigin, At, clientVars, Contact, IInv, TypeOK
  <2>2. FromOrigin(Query(r)) \in Responses
    BY <1>2, FromOriginType DEF IInv
  <2>3. f \in Frames /\ f.node = Top(r).node /\ f.pc = "body"
    BY <1>2, <2>2 DEF Frames, PCs
  <2> HIDE DEF f
  <2>4. Allowance(f) = 0 /\ Allowance(Top(r)) = 1
    BY <2>1, <2>3 DEF Allowance
  <2>5. contacts[r] + 1 \in Nat /\ (contacts[r] + 1) + Allowance(f) <= contacts[r] + Allowance(Top(r))
    BY <1>3, <2>4
  <2>6. RequestsBooked(stack', asked', contacts', answer', lost')
    BY <1>1, <2>1, <2>3, <2>5, TopBooked
  <2> QED BY <1>4, <2>1, <2>6 DEF Books
<1>13. CASE FetchOriginFails(r)
  <2>1. /\ Top(r).pc = "origin" /\ UNCHANGED <<cache, answer>>
        /\ Reply(r, Error(Top(r).node, Query(r), "500"))
        /\ contacts' = [contacts EXCEPT ![r] = contacts[r] + 1]
    BY <1>13 DEF FetchOriginFails, At, clientVars, Contact, IInv, TypeOK
  <2>2. Error(Top(r).node, Query(r), "500") \in Responses
    BY <1>2, ErrorType DEF Codes
  <2>3. Allowance(Top(r)) = 1
    BY <2>1 DEF Allowance
  <2>4. contacts[r] + 1 \in Nat /\ contacts[r] + 1 <= contacts[r] + Allowance(Top(r))
    BY <1>3, <2>3
  <2>5. RequestsBooked(stack', asked', contacts', answer', lost')
    BY <1>1, <1>2, <2>1, <2>2, <2>4, ErrorIsTruthful, ReplyBooked
  <2> QED BY <1>4, <2>1, <2>5 DEF Books
<1>14. CASE CacheAndReply(r)
  <2> DEFINE n == Top(r).node
             obj == AddMiss(Stripped(Top(r).resp))
  <2>1. Top(r).resp \in Responses
    BY <1>2, <1>14 DEF CacheAndReply, At, Sane
  <2>2. /\ obj \in Responses /\ obj.nodeId = <<>>
        /\ Written(n, obj) \in Responses /\ Truthful(Written(n, obj), n)
        /\ Written(n, obj).xcache # <<"HIT">>
    BY <1>2, <2>1, HeaderTypes, MissIsTruthful
  <2> HIDE DEF obj
  <2>3. PICK c \in Put(cache[n], KeyOf(r), obj) : cache' = [cache EXCEPT ![n] = c]
    BY <1>14 DEF CacheAndReply, obj
  <2>4. Reply(r, Written(n, obj)) /\ UNCHANGED <<answer, contacts>>
    BY <1>14 DEF CacheAndReply, obj, clientVars
  <2>5. ASSUME NEW m \in Nodes, NEW k \in Keys
        PROVE  \/ cache'[m][k] = NoResp
               \/ cache'[m][k] = cache[m][k]
               \/ m = n /\ k = KeyOf(r) /\ cache'[m][k] = obj
    <3>1. cache \in [Nodes -> [Keys -> Responses \cup {NoResp}]] BY DEF IInv, TypeOK
    <3>2. CASE m # n BY <2>3, <3>1, <3>2
    <3>3. CASE m = n
      <4>1. cache'[m] = c BY <2>3, <3>1, <3>3
      <4>2. c[k] = NoResp \/ c[k] = cache[n][k] \/ (k = KeyOf(r) /\ c[k] = obj)
        BY <1>2, <2>3, <3>1, PutHolds
      <4> QED BY <3>3, <4>1, <4>2
    <3> QED BY <3>2, <3>3
  <2>6. CachesBooked(cache', asked')
    <3>1. CachesBooked(cache, asked) BY DEF Books
    <3>2. ViewsAgree => \/ Owner(n, KeyOf(r)) = n
                        \/ asked[r] # NoAsk /\ asked[r].edge = n
      BY <1>1, CopyIsPlaced
    <3>3. CacheKey(asked[r].query) = KeyOf(r) BY DEF KeyOf, Query
    <3> HIDE DEF n
    <3>4. ASSUME NEW m \in Nodes, NEW k \in Keys, cache'[m][k] # NoResp
          PROVE  /\ cache'[m][k].nodeId = <<>>
                 /\ ViewsAgree =>
                      \/ Owner(m, k) = m
                      \/ \E x \in Requests : /\ asked[x] # NoAsk /\ asked[x].edge = m
                                             /\ CacheKey(asked[x].query) = k
      <4>1. CASE cache'[m][k] = cache[m][k] BY <3>1, <3>4, <4>1 DEF CachesBooked
      <4>2. CASE m = n /\ k = KeyOf(r) /\ cache'[m][k] = obj
        BY <2>2, <3>2, <3>3, <4>2
      <4> QED BY <2>5, <3>4, <4>1, <4>2
    <3> QED BY <1>1, <3>4 DEF CachesBooked
  <2>7. contacts' = [contacts EXCEPT ![r] = contacts[r]]
    BY <2>4, SameContacts
  <2>8. RequestsBooked(stack', asked', contacts', answer', lost')
    BY <1>1, <1>3, <1>6, <2>2, <2>4, <2>7, ReplyBooked
  <2> QED BY <2>6, <2>8 DEF Books
<1>15. CASE Return(r)
  <2> DEFINE s == stack[r]
             d == Len(s)
             resp == Top(r).resp
  <2>1. /\ resp \in Responses /\ Top(r).pc = "reply"
        /\ UNCHANGED <<cache, contacts>>
    BY <1>2, <1>15 DEF Return, At, Sane
  <2>2. CASE d = 1
    <3>1. answer' = [answer EXCEPT ![r] = resp] /\ stack' = [stack EXCEPT ![r] = <<>>]
      BY <1>15, <2>2 DEF Return
    <3>2. /\ Truthful(resp, asked[r].edge)
          /\ resp.xcache = <<"HIT">> => contacts[r] = 0
      <4>1. Top(r) = s[1] BY <2>2 DEF Top
      <4>2. Truthful(s[1].resp, s[1].node) /\ s[1].node = asked[r].edge
        BY <1>3, <2>1, <2>2, <4>1 DEF Tracked
      <4>3. s[1].resp.xcache = <<"HIT">> => contacts[r] = 0
        BY <1>3, <2>1, <4>1 DEF Tracked
      <4> QED BY <4>1, <4>2, <4>3
    <3>3. ASSUME NEW x \in Requests
          PROVE  Booked(stack'[x], asked'[x], contacts'[x], answer'[x], x \in lost')
      <4>1. Booked(stack[x], asked[x], contacts[x], answer[x], x \in lost)
        BY DEF Books, RequestsBooked
      <4>2. CASE x # r BY <1>1, <2>1, <3>1, <4>1, <4>2 DEF IInv, TypeOK
      <4>3. CASE x = r
        <5>1. stack'[x] = <<>> /\ answer'[x] = resp BY <3>1, <4>3 DEF IInv, TypeOK
        <5>2. r \notin lost BY <1>1, ActiveBook
        <5> HIDE DEF resp
        <5> QED BY <1>1, <1>2, <1>3, <2>1, <3>2, <4>3, <5>1, <5>2 DEF Booked
      <4> QED BY <4>2, <4>3
    <3> QED BY <1>4, <2>1, <3>3 DEF Books, RequestsBooked
  <2>3. CASE d # 1
    <3> DEFINE f == [s[d - 1] EXCEPT !.pc = "body", !.resp = resp]
    <3>1. stack' = [stack EXCEPT ![r] = WithTop(SubSeq(s, 1, d - 1), f)] /\ answer' = answer
      BY <1>15, <2>3 DEF Return
    <3>2. d - 1 \in 1..d /\ d - 1 \in 1..d - 1
      <4>1. d \in Nat /\ d >= 1 BY <1>2
      <4> HIDE DEF d
      <4> QED BY <2>3, <4>1
    <3>3. s[d - 1] \in Frames BY <1>2, <3>2, ElementOfSeq
    <3> HIDE DEF resp
    <3>4. f \in Frames /\ f.node = s[d - 1].node /\ f.pc = "body"
      BY <2>1, <3>3 DEF Frames, PCs
    <3> HIDE DEF f
    <3>5. Allowance(f) <= Allowance(FellBack(s[d - 1]))
      <4>1. Allowance(f) = 0 BY <3>4 DEF Allowance
      <4>2. Allowance(FellBack(s[d - 1])) \in Nat BY AllowanceType
      <4> QED BY <4>1, <4>2
    <3>6. Tracked(WithTop(SubSeq(s, 1, d - 1), f), asked[r].edge, KeyOf(r), contacts[r])
      BY <1>2, <1>3, <3>2, <3>4, <3>5, CutTracked
    <3>7. contacts' = [contacts EXCEPT ![r] = contacts[r]]
      BY <2>1, SameContacts
    <3>8. RequestsBooked(stack', asked', contacts', answer', lost')
      BY <1>1, <1>3, <3>1, <3>6, <3>7, OneBookChanges
    <3> QED BY <1>4, <2>1, <3>8 DEF Books
  <2> QED BY <2>2, <2>3
<1> QED
  BY <1>7, <1>8, <1>9, <1>10, <1>11, <1>12, <1>13, <1>14, <1>15 DEF Handle

LEMMA ClientRequestKeepsBooks ==
  ASSUME IInv, Books, NEW r \in Requests, NEW e \in Edges, NEW q \in Queries,
         ClientRequest(r, e, q)
  PROVE  Books'
<1> DEFINE f == Arrival(e, FALSE)
           ask == [query |-> q, edge |-> e]
<1>1. /\ UNCHANGED <<cache, answer, lost, contacts>>
      /\ asked[r] = NoAsk
      /\ asked' = [asked EXCEPT ![r] = ask]
      /\ stack' = [stack EXCEPT ![r] = <<f>>]
  BY DEF ClientRequest
<1>2. f.node = e /\ f.pc = "serve" /\ f.xshard = FALSE
  BY DEF Arrival
<1>3. ask # NoAsk /\ ask.edge = e
  BY DEF NoAsk
<1> HIDE DEF f, ask
<1>4. \A x \in Requests : x # r => asked'[x] = asked[x] /\ stack'[x] = stack[x]
  BY <1>1 DEF IInv, TypeOK
<1>5. asked'[r] = ask /\ stack'[r] = <<f>>
  BY <1>1 DEF IInv, TypeOK
<1>6. Load(<<f>>) = 5
  <2>1. Len(<<f>>) = 1 /\ <<f>>[1] = f
    OBVIOUS
  <2>2. Share(<<f>>, 1) = 5 BY <1>2, <2>1 DEF Share, Allowance
  <2>3. Share(<<f>>, 2) = 0 /\ Share(<<f>>, 3) = 0 /\ Share(<<f>>, 4) = 0
    BY <2>1 DEF Share
  <2> QED BY <2>2, <2>3 DEF Load
<1>7. \A k : Tracked(<<f>>, e, k, 0)
  BY <1>2, <1>6 DEF Tracked
<1>8. Booked(stack[r], asked[r], contacts[r], answer[r], r \in lost)
  BY DEF Books, RequestsBooked
<1>9. contacts[r] = 0 /\ answer[r] = NoResp /\ r \notin lost
  BY <1>1, <1>8 DEF Booked
<1>10. ASSUME NEW x \in Requests
       PROVE  Booked(stack'[x], asked'[x], contacts'[x], answer'[x], x \in lost')
  <2>1. CASE x = r
    BY <1>1, <1>3, <1>5, <1>7, <1>9, <2>1 DEF Booked
  <2>2. CASE x # r
    BY <1>1, <1>4, <2>2 DEF Books, RequestsBooked
  <2> QED BY <2>1, <2>2
<1>11. CachesBooked(cache', asked')
  <2>1. \A x \in Requests : asked[x] # NoAsk => asked'[x] = asked[x]
    BY <1>1, <1>4
  <2>2. CachesBooked(cache, asked) BY DEF Books
  <2>3. \A m \in Nodes, k \in Keys : cache[m][k] = NoResp \/ cache[m][k] = cache[m][k]
    OBVIOUS
  <2>4. CachesBooked(cache, asked') BY <2>1, <2>2, <2>3, CachesStayBooked
  <2> QED BY <1>1, <2>4
<1> QED BY <1>10, <1>11 DEF Books, RequestsBooked

LEMMA CutBodyKeepsBooks ==
  ASSUME IInv, Books, NEW r \in Requests, CutBody(r)
  PROVE  Books'
<1>1. /\ Active(r) /\ Reply(r, Error(Top(r).node, Query(r), "500"))
      /\ UNCHANGED <<cache, contacts, asked, answer, lost>>
  BY DEF CutBody, At, clientVars
<1>2. /\ Error(Top(r).node, Query(r), "500") \in Responses
      /\ Top(r).node \in Nodes /\ Query(r) \in Queries
  BY <1>1, ActiveFrame, ErrorType DEF Codes
<1>3. contacts' = [contacts EXCEPT ![r] = contacts[r]] /\ contacts[r] \in Nat
  BY <1>1, SameContacts
<1>4. contacts[r] <= contacts[r] + Allowance(Top(r))
  BY <1>3, AllowanceType
<1>5. RequestsBooked(stack', asked', contacts', answer', lost')
  BY <1>1, <1>2, <1>3, <1>4, ErrorIsTruthful, ReplyBooked
<1> QED BY <1>1, <1>5, CachesStayBooked DEF Books

(* The frames from the i-th on are gone; with the first one, the client is *)
(* lost.                                                                   *)
LEMMA UnwoundBooked ==
  ASSUME IInv, Books, NEW r \in Requests, NEW i \in 1..Len(stack[r])
  PROVE  Booked(Unwound(stack[r], i), asked[r], contacts[r], answer[r], i = 1)
<1>1. Active(r)
  BY AskedTypes DEF Active
<1>2. /\ stack[r] \in Seq(Frames) /\ KeyOf(r) \in Keys /\ Shape(stack[r], KeyOf(r))
  BY <1>1, ActiveFrame
<1>3. /\ Tracked(stack[r], asked[r].edge, KeyOf(r), contacts[r])
      /\ asked[r] # NoAsk /\ answer[r] = NoResp /\ contacts[r] \in Nat /\ contacts[r] <= 5
  BY <1>1, ActiveBook
<1>4. CASE i = 1
  BY <1>3, <1>4 DEF Unwound, Booked
<1>5. CASE i # 1
  <2>1. Tracked(Unwound(stack[r], i), asked[r].edge, KeyOf(r), contacts[r])
    BY <1>2, <1>3, <1>5, UnwoundTracked
  <2> QED BY <1>3, <1>5, <2>1 DEF Booked, KeyOf, Query
<1> QED BY <1>4, <1>5

LEMMA BreakLinkKeepsBooks ==
  ASSUME IInv, Books, NEW r \in Requests, NEW i \in 1..Len(stack[r]), BreakLink(r, i)
  PROVE  Books'
<1>1. /\ stack' = [stack EXCEPT ![r] = Unwound(stack[r], i)]
      /\ lost' = IF i = 1 THEN lost \cup {r} ELSE lost
      /\ UNCHANGED <<cache, asked, answer, contacts>>
  BY DEF BreakLink, IInv, TypeOK
<1>2. Active(r)
  BY AskedTypes DEF Active
<1>3. r \in lost' <=> i = 1
  BY <1>1, <1>2, ActiveBook
<1>4. ASSUME NEW x \in Requests
      PROVE  Booked(stack'[x], asked'[x], contacts'[x], answer'[x], x \in lost')
  <2>1. CASE x = r
    <3>1. stack'[x] = Unwound(stack[r], i) BY <1>1, <2>1 DEF IInv, TypeOK
    <3>2. Booked(Unwound(stack[r], i), asked[r], contacts[r], answer[r], i = 1)
      BY UnwoundBooked
    <3>3. (x \in lost') = (i = 1) BY <1>3, <2>1
    <3> QED BY <1>1, <2>1, <3>1, <3>2, <3>3
  <2>2. CASE x # r
    <3>1. stack'[x] = stack[x] /\ (x \in lost' <=> x \in lost)
      BY <1>1, <2>2 DEF IInv, TypeOK
    <3>2. Booked(stack[x], asked[x], contacts[x], answer[x], x \in lost)
      BY DEF Books, RequestsBooked
    <3>3. (x \in lost') = (x \in lost) BY <3>1
    <3> QED BY <1>1, <3>1, <3>2, <3>3
  <2> QED BY <2>1, <2>2
<1> QED BY <1>1, <1>4, CachesStayBooked DEF Books, RequestsBooked

LEMMA CrashKeepsBooks ==
  ASSUME IInv, Books, NEW n \in Nodes, Crash(n)
  PROVE  Books'
<1>1. UNCHANGED <<asked, answer, contacts>>
  BY DEF Crash
<1>2. ASSUME NEW r \in Requests
      PROVE  Booked(stack'[r], asked'[r], contacts'[r], answer'[r], r \in lost')
  <2> DEFINE i == FirstOn(stack[r], n)
  <2>1. /\ stack'[r] = IF i > Len(stack[r]) THEN stack[r] ELSE Unwound(stack[r], i)
        /\ r \in lost' <=> r \in lost \/ (Active(r) /\ stack[r][1].node = n)
    BY DEF Crash
  <2>2. Booked(stack[r], asked[r], contacts[r], answer[r], r \in lost)
    BY DEF Books, RequestsBooked
  <2>3. CASE ~Active(r)
    <3>1. Len(stack[r]) = 0 /\ stack[r] = <<>> BY <2>3, AskedTypes DEF Active
    <3>2. i \in 1..1
      <4>1. Len(stack[r]) <= 4 /\ stack[r] \in Seq(Frames) BY <3>1, AskedTypes
      <4>2. i \in 1..Len(stack[r]) + 1 BY <4>1, FirstOnRange
      <4> HIDE DEF i
      <4> QED BY <3>1, <4>2
    <3> HIDE DEF i
    <3>3. stack'[r] = stack[r] BY <2>1, <3>1, <3>2
    <3>4. (r \in lost') = (r \in lost) BY <2>1, <2>3
    <3> QED BY <1>1, <2>2, <3>3, <3>4
  <2>4. CASE Active(r)
    <3>1. /\ stack[r] \in Seq(Frames) /\ Len(stack[r]) \in Nat /\ Len(stack[r]) >= 1
          /\ Shape(stack[r], KeyOf(r)) /\ KeyOf(r) \in Keys
      BY <2>4, ActiveFrame
    <3>2. Len(stack[r]) <= 4 BY <3>1, ShapeIsLoopFree
    <3>3. /\ i \in 1..Len(stack[r]) + 1
          /\ i <= Len(stack[r]) => stack[r][i].node = n
          /\ \A j \in 1..i - 1 : stack[r][j].node # n
      BY <3>1, <3>2, FirstOnRange
    <3>4. r \notin lost BY <2>4, ActiveBook
    <3> HIDE DEF i
    <3>5. i = 1 <=> stack[r][1].node = n
      <4> DEFINE d == Len(stack[r])
      <4>1. d \in Nat /\ d >= 1 /\ i \in 1..d + 1 /\ (i <= d => stack[r][i].node = n)
        BY <3>1, <3>3
      <4> HIDE DEF d
      <4>2. CASE i = 1 BY <4>1, <4>2
      <4>3. CASE i # 1 BY <3>3, <4>1, <4>3
      <4> QED BY <4>2, <4>3
    <3>6. (r \in lost') = (i = 1)
      BY <2>1, <2>4, <3>4, <3>5
    <3>7. CASE i > Len(stack[r])
      <4>1. (r \in lost') = (r \in lost) BY <3>1, <3>4, <3>6, <3>7
      <4> QED BY <1>1, <2>1, <2>2, <3>7, <4>1
    <3>8. CASE ~(i > Len(stack[r]))
      <4>1. i \in 1..Len(stack[r])
        <5> DEFINE d == Len(stack[r])
        <5>1. d \in Nat /\ i \in 1..d + 1 /\ ~(i > d) BY <3>1, <3>3, <3>8
        <5> HIDE DEF d
        <5>2. i \in 1..d BY <5>1
        <5> QED BY <5>2 DEF d
      <4>2. Booked(Unwound(stack[r], i), asked[r], contacts[r], answer[r], i = 1)
        BY <4>1, UnwoundBooked
      <4> QED BY <1>1, <2>1, <3>6, <3>8, <4>2
    <3> QED BY <3>7, <3>8
  <2> QED BY <2>3, <2>4
<1>3. \A m \in Nodes, k \in Keys : cache'[m][k] = NoResp \/ cache'[m][k] = cache[m][k]
  BY DEF Crash, IInv, TypeOK
<1> QED BY <1>1, <1>2, <1>3, CachesStayBooked DEF Books, RequestsBooked

(* The books hold, whatever the nodes believe and whatever fails.          *)
THEOREM BooksAreKept == Spec => []Books
<1>1. Init => Books
  <2> SUFFICES ASSUME Init PROVE Books
    OBVIOUS
  <2>1. ASSUME NEW r \in Requests
        PROVE  Booked(stack[r], asked[r], contacts[r], answer[r], r \in lost)
    BY DEF Init, Booked
  <2>2. CachesBooked(cache, asked)
    BY DEF Init, CachesBooked
  <2> QED BY <2>1, <2>2 DEF Books, RequestsBooked
<1>2. IInv /\ Books /\ [Next]_vars => Books'
  <2> SUFFICES ASSUME IInv, Books, [Next]_vars PROVE Books'
    OBVIOUS
  <2>1. CASE UNCHANGED vars
    BY <2>1 DEF vars, Books
  <2>2. CASE \E r \in Requests : Handle(r)
    BY <2>2, HandleKeepsBooks
  <2>3. CASE Environment
    <3>1. CASE \E r \in Requests, e \in Edges, q \in Queries : ClientRequest(r, e, q)
      BY <3>1, ClientRequestKeepsBooks
    <3>2. CASE \E r \in Requests : CutBody(r)
      BY <3>2, CutBodyKeepsBooks
    <3>3. CASE \E r \in Requests : \E i \in 1..Len(stack[r]) : BreakLink(r, i)
      BY <3>3, BreakLinkKeepsBooks
    <3>4. CASE \E n \in Nodes : Crash(n)
      BY <3>4, CrashKeepsBooks
    <3>5. CASE \/ \E n \in Nodes : Restart(n)
               \/ \E h \in Hosts : OriginDown(h) \/ OriginRecovers(h)
               \/ \E q \in Queries : Publish(q)
      <4>1. UNCHANGED <<cache, stack, asked, answer, lost, contacts>>
        BY <3>5 DEF Restart, OriginDown, OriginRecovers, Publish, clientVars
      <4> QED BY <4>1 DEF Books
    <3> QED BY <2>3, <3>1, <3>2, <3>3, <3>4, <3>5 DEF Environment
  <2> QED BY <2>1, <2>2, <2>3 DEF Next
<1> QED BY <1>1, <1>2, Invariance, PTL DEF Spec

(* Shard's and Forward's fallbacks make five contacts with the origin at   *)
(* most of one client's request, in any tiers and under any faults         *)
(* (middleware.go lines 71 to 94, 102 to 126).                             *)
THEOREM LoadIsBounded == Spec => []OriginLoad
<1>1. Books => OriginLoad
  BY DEF Books, RequestsBooked, Booked, OriginLoad
<1> QED BY <1>1, BooksAreKept, PTL

(* What the client reads in X-NCDN-NodeID and X-Cache is true, however     *)
(* many nodes the answer came through (CacheAndFetch, ServeHTTP).          *)
THEOREM HeadersAreTruthful == Spec => []HeadersTruthful
<1>1. Books => HeadersTruthful
  BY DEF Books, RequestsBooked, Booked, Truthful, HeadersTruthful
<1> QED BY <1>1, BooksAreKept, PTL

(* With agreed views, the tiers hold the copies hashing asks for and the   *)
(* ones clients asked an edge for, and no other.                           *)
THEOREM CopiesAreInPlace == Spec => []Placement
<1>1. Books => Placement
  BY DEF Books, CachesBooked, Placement, KeyOf, Query
<1> QED BY <1>1, BooksAreKept, PTL
-----------------------------------------------------------------------------
(* The refinement.  What the clients have asked and been told, as          *)
(* CdnService sees it.                                                     *)
Asks == [r \in Requests |-> IF asked[r] = NoAsk THEN [uri |-> "none"] ELSE Query(r)]
Outcomes == [r \in Requests |->
               IF r \in lost THEN [code |-> "lost", ver |-> 0]
               ELSE IF answer[r] = NoResp THEN [code |-> "pending", ver |-> 0]
               ELSE [code |-> answer[r].value.code, ver |-> answer[r].value.ver]]

LEMMA Stutter ==
  ASSUME UNCHANGED <<version, hurt, asked, answer, lost>>
  PROVE  UNCHANGED Service!vars
BY DEF Service!vars, Query

LEMMA InitRefines == Init => Service!Init
BY DEF Init, Service!Init, Service!Queries, Service!NoQuery, Service!Pending, Queries, NoAsk

LEMMA FailRefines ==
  ASSUME NEW h, hurt' = hurt \cup {h}, UNCHANGED <<version, asked, answer, lost>>
  PROVE  Service!Fail(h)
BY DEF Service!Fail, Query

LEMMA PublishRefines ==
  ASSUME NEW q \in Queries, Publish(q)
  PROVE  Service!Publish(q)
BY DEF Publish, Service!Publish, clientVars, Query

LEMMA AskRefines ==
  ASSUME IInv, NEW r \in Requests, NEW e \in Edges, NEW q \in Queries, ClientRequest(r, e, q)
  PROVE  Service!Ask(r, q)
<1>1. /\ asked[r] = NoAsk /\ UNCHANGED <<version, hurt, answer, lost>>
      /\ asked' = [asked EXCEPT ![r] = [query |-> q, edge |-> e]]
  BY DEF ClientRequest, worldVars
<1>2. [query |-> q, edge |-> e] # NoAsk
  BY DEF NoAsk
<1>3. /\ asked'[r] = [query |-> q, edge |-> e]
      /\ \A x \in Requests : x # r => asked'[x] = asked[x]
  BY <1>1 DEF IInv, TypeOK
<1>4. Asks[r] = [uri |-> "none"] /\ Asks' = [Asks EXCEPT ![r] = q]
  <2>1. \A x \in Requests : Asks'[x] = IF x = r THEN q ELSE Asks[x]
    BY <1>2, <1>3 DEF Asks, Query
  <2> QED BY <1>1, <2>1 DEF Asks
<1>5. Outcomes' = Outcomes
  BY <1>1 DEF Outcomes
<1> QED BY <1>1, <1>4, <1>5 DEF Service!Ask, Service!NoQuery, Asks, Outcomes

(* A request under way has asked and has not been told anything.           *)
LEMMA ActiveIsPending ==
  ASSUME IInv, Books, NEW r \in Requests, Active(r)
  PROVE  /\ Asks[r] = Query(r) /\ Query(r) \in Queries
         /\ Asks[r] # Service!NoQuery /\ Outcomes[r] = Service!Pending
<1>1. asked[r] # NoAsk /\ answer[r] = NoResp /\ r \notin lost
  BY ActiveBook
<1>2. Query(r) \in Queries
  BY ActiveFrame
<1>3. Query(r) # [uri |-> "none"]
  BY <1>2 DEF Queries
<1> QED BY <1>1, <1>2, <1>3 DEF Asks, Outcomes, Service!NoQuery, Service!Pending

LEMMA GoodIsAllowed ==
  ASSUME NEW q \in Queries, NEW v \in Values, Good(v, q, version, hurt)
  PROVE  [code |-> v.code, ver |-> v.ver] \in Service!Allowed(q)
<1>1. v.code \in {"200", "404", "500"}
  BY DEF Values, Codes
<1>2. CASE v.code = "200"
  BY <1>2 DEF Good, Service!Allowed, Service!Ok
<1>3. CASE v.code = "404"
  BY <1>3 DEF Good, Service!Allowed, Service!UnknownHost
<1>4. CASE v.code = "500"
  BY <1>4 DEF Good, Service!Allowed, Service!ServerError
<1> QED BY <1>1, <1>2, <1>3, <1>4

LEMMA FinishRefines ==
  ASSUME IInv, Books, NEW r \in Requests, Active(r),
         NEW x \in Service!Allowed(Query(r)), Outcomes' = [Outcomes EXCEPT ![r] = x],
         UNCHANGED <<version, hurt, asked>>
  PROVE  Service!Finish(r)
<1>1. Asks' = Asks
  BY DEF Asks, Query
<1>2. Asks[r] = Query(r) /\ Asks[r] # Service!NoQuery /\ Outcomes[r] = Service!Pending
  BY ActiveIsPending
<1> QED BY <1>1, <1>2 DEF Service!Finish, Asks, Outcomes

LEMMA HandleRefines ==
  ASSUME IInv, Isolated, Books, NEW r \in Requests, Handle(r)
  PROVE  \/ UNCHANGED Service!vars
         \/ \E h \in Hosts : Service!Fail(h)
         \/ Service!Finish(r)
<1>1. CASE RejectUnknownHost(r) \/ ServeHit(r) \/ ServeMiss(r) \/ Fetch(r) \/ FetchFails(r)
             \/ FetchOrigin(r) \/ CacheAndReply(r)
  BY <1>1, Stutter DEF RejectUnknownHost, ServeHit, ServeMiss, Fetch, FetchFails,
     FetchOrigin, CacheAndReply, clientVars, worldVars
<1>2. CASE FetchOriginFails(r)
  <2>1. Active(r) /\ hurt' = hurt \cup {Query(r).host}
        /\ UNCHANGED <<version, asked, answer, lost>>
    BY <1>2 DEF FetchOriginFails, At, clientVars, worldVars
  <2>2. Query(r).host \in Hosts BY <2>1, ActiveFrame DEF Queries
  <2> QED BY <2>1, <2>2, FailRefines
<1>3. CASE Return(r)
  <2> DEFINE resp == Top(r).resp
  <2>1. Active(r) /\ Top(r).pc = "reply" /\ UNCHANGED <<version, hurt, asked, lost>>
    BY <1>3 DEF Return, At, worldVars
  <2>2. resp \in Responses /\ resp # NoResp
    <3>1. resp \in Responses BY <2>1, ActiveFrame DEF Sane
    <3>2. NoResp \notin Responses BY DEF NoResp, Responses
    <3> QED BY <3>1, <3>2
  <2>3. CASE Len(stack[r]) = 1
    <3>1. answer' = [answer EXCEPT ![r] = resp]
      BY <1>3, <2>3 DEF Return
    <3>2. Good(resp.value, Query(r), version, hurt) /\ resp.value \in Values
      BY <2>1, <2>2, TopIsGood DEF GoodOrNone, Responses
    <3>3. [code |-> resp.value.code, ver |-> resp.value.ver] \in Service!Allowed(Query(r))
      BY <2>1, <3>2, ActiveFrame, GoodIsAllowed
    <3>4. r \notin lost
      BY <2>1, ActiveBook
    <3>5. answer'[r] = resp /\ \A x \in Requests : x # r => answer'[x] = answer[x]
      BY <3>1 DEF IInv, TypeOK
    <3> HIDE DEF resp
    <3>6. Outcomes' = [Outcomes EXCEPT ![r] = [code |-> resp.value.code, ver |-> resp.value.ver]]
      BY <2>1, <2>2, <3>4, <3>5 DEF Outcomes
    <3> QED BY <2>1, <3>3, <3>6, FinishRefines
  <2>4. CASE Len(stack[r]) # 1
    BY <1>3, <2>1, <2>4, Stutter DEF Return
  <2> QED BY <2>3, <2>4
<1> QED BY <1>1, <1>2, <1>3 DEF Handle

LEMMA BreakLinkRefines ==
  ASSUME IInv, Books, NEW r \in Requests, NEW i \in 1..Len(stack[r]), BreakLink(r, i)
  PROVE  UNCHANGED Service!vars \/ Service!Finish(r)
<1>1. UNCHANGED <<version, hurt, asked, answer>> /\ lost' = IF i = 1 THEN lost \cup {r} ELSE lost
  BY DEF BreakLink
<1>2. CASE i # 1
  BY <1>1, <1>2, Stutter
<1>3. CASE i = 1
  <2>1. Active(r) BY AskedTypes DEF Active
  <2>2. Outcomes' = [Outcomes EXCEPT ![r] = Service!Lost]
    BY <1>1, <1>3 DEF Outcomes, Service!Lost
  <2>3. Service!Lost \in Service!Allowed(Query(r))
    BY DEF Service!Allowed
  <2> QED BY <1>1, <2>1, <2>2, <2>3, FinishRefines
<1> QED BY <1>2, <1>3

LEMMA CrashRefines ==
  ASSUME IInv, Books, NEW n \in Nodes, Crash(n)
  PROVE  Service!LoseMany
<1> DEFINE R == {r \in Requests : Active(r) /\ stack[r][1].node = n}
<1>1. UNCHANGED <<version, hurt, asked, answer>> /\ lost' = lost \cup R
  BY DEF Crash
<1>2. \A r \in R : Asks[r] # Service!NoQuery /\ Outcomes[r] = Service!Pending
  BY ActiveIsPending
<1>3. R \in SUBSET {r \in Requests : Asks[r] # Service!NoQuery /\ Outcomes[r] = Service!Pending}
  BY <1>2
<1> HIDE DEF R
<1>4. Outcomes' = [r \in Requests |-> IF r \in R THEN Service!Lost ELSE Outcomes[r]]
  BY <1>1 DEF Outcomes, Service!Lost
<1>5. Asks' = Asks
  BY <1>1 DEF Asks, Query
<1> QED BY <1>1, <1>3, <1>4, <1>5 DEF Service!LoseMany, Asks, Outcomes

LEMMA NextRefines ==
  ASSUME IInv, Isolated, Books, [Next]_vars
  PROVE  [Service!Next]_(Service!vars)
<1>1. CASE UNCHANGED vars
  BY <1>1, Stutter DEF vars
<1>2. CASE \E r \in Requests : Handle(r)
  BY <1>2, HandleRefines DEF Service!Next
<1>3. CASE Environment
  <2>1. CASE \E r \in Requests, e \in Edges, q \in Queries : ClientRequest(r, e, q)
    <3>1. \E r \in Requests : \E q \in Queries : Service!Ask(r, q)
      BY <2>1, AskRefines
    <3> QED BY <3>1 DEF Service!Next, Queries, Service!Queries
  <2>2. CASE \E r \in Requests : CutBody(r)
    <3>1. PICK r \in Requests : CutBody(r) BY <2>2
    <3>2. Active(r) /\ hurt' = hurt \cup {Query(r).host}
          /\ UNCHANGED <<version, asked, answer, lost>>
      BY <3>1 DEF CutBody, At, clientVars
    <3>3. Query(r).host \in Hosts BY <3>2, ActiveFrame DEF Queries
    <3> QED BY <3>2, <3>3, FailRefines DEF Service!Next
  <2>3. CASE \E r \in Requests : \E i \in 1..Len(stack[r]) : BreakLink(r, i)
    BY <2>3, BreakLinkRefines DEF Service!Next
  <2>4. CASE \E n \in Nodes : Crash(n)
    BY <2>4, CrashRefines DEF Service!Next
  <2>5. CASE \/ \E n \in Nodes : Restart(n)
             \/ \E h \in Hosts : OriginDown(h) \/ OriginRecovers(h)
    BY <2>5, Stutter DEF Restart, OriginDown, OriginRecovers, clientVars
  <2>6. CASE \E q \in Queries : Publish(q)
    BY <2>6, PublishRefines DEF Service!Next, Queries, Service!Queries
  <2> QED BY <1>3, <2>1, <2>2, <2>3, <2>4, <2>5, <2>6 DEF Environment
<1> QED BY <1>1, <1>2, <1>3 DEF Next

(* The tiers, with all their nodes, routes and caches, promise their       *)
(* clients what CdnService says and no less.                               *)
THEOREM ServiceImplemented == Spec => ImplementsService
<1>1. Spec => []Isolated
  BY TenantsStayApart
<1>2. IInv /\ Isolated /\ Books /\ [Next]_vars => [Service!Next]_(Service!vars)
  BY NextRefines
<1> QED BY <1>1, <1>2, InitRefines, Invariance, BooksAreKept, PTL
        DEF Spec, ImplementsService, Service!Spec
=============================================================================

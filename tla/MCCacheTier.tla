----------------------------- MODULE MCCacheTier -----------------------------
(* Instances of CacheTier for TLC: two edges, two shields, and the views   *)
(* the nodes have of who owns a key.                                       *)
EXTENDS CacheTier, TLC

CONSTANTS e1, e2, s1, s2, hostA, hostB, page, video

TwoEdges == {e1, e2}
TwoShields == {s1, s2}

(* Every node lists every host.                                            *)
AllKnown == [n \in TwoEdges \cup TwoShields |-> Hosts]

(* s2 was started without hostB's origin.                                  *)
ShieldMissesB == [n \in TwoEdges \cup TwoShields |->
                    IF n = s2 THEN Hosts \ {hostB} ELSE Hosts]

(* Same files everywhere: both tiers split the keys.                       *)
AgreedEdgeOwner ==
  [n \in TwoEdges |-> [k \in Hosts \X URIs |-> IF k[1] = hostA THEN e2 ELSE e1]]
AgreedShieldOwner ==
  [n \in TwoEdges \cup TwoShields |->
     [k \in Hosts \X URIs |-> IF k[1] = hostA THEN s1 ELSE s2]]

(* The worst disagreement: every node believes another one to be the owner.*)
SkewedEdgeOwner ==
  [n \in TwoEdges |-> [k \in Hosts \X URIs |-> IF n = e1 THEN e2 ELSE e1]]
SkewedShieldOwner ==
  [n \in TwoEdges \cup TwoShields |->
     [k \in Hosts \X URIs |-> IF n \in {e1, s2} THEN s1 ELSE s2]]

RequestSymmetry == Permutations(Requests)
=============================================================================

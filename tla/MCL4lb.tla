------------------------------- MODULE MCL4lb -------------------------------
(* Instances of L4lb for TLC.                                              *)
EXTENDS L4lb

(* The live destinations in turn, in the order of their numbers.           *)
RoundRobin ==
  [A \in (SUBSET (1..N)) \ {{}} |->
     [c \in 0..M - 1 |->
        CHOOSE d \in A : Cardinality({e \in A : e < d}) = c % Cardinality(A)]]
=============================================================================

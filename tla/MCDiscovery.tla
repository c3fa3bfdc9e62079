---------------------------- MODULE MCDiscovery ----------------------------
(***************************************************************************)
(* A small cluster for TLC: one key, two storage nodes on its preference   *)
(* list, both with long names that begin alike.                            *)
(***************************************************************************)
EXTENDS Discovery

CONSTANTS n1, n2, k1

PairList == <<n1, n2>>

OwnerN2      == [k \in Keys |-> n2]
ReplicasRest == [k \in Keys |-> Nodes \ {n2}]
LongAlike    == [n \in Nodes |-> IF n \in LongNames THEN LongNames ELSE {n}]
=============================================================================

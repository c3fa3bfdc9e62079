----------------------------- MODULE MCManager ------------------------------
(***************************************************************************)
(* A manager with three storage nodes, one with two virtual nodes, and     *)
(* every hash function of a small range: collisions, wraps around the end  *)
(* and adjacent virtual nodes of one storage node all occur.               *)
(***************************************************************************)
EXTENDS Manager, TLC

CONSTANTS n1, n2, n3

VNodeCounts == [n \in Nodes |-> IF n = n1 THEN 2 ELSE 1]

AllVNodes == UNION {{[node |-> n, rank |-> r] : r \in 0 .. VNodeCounts[n] - 1} :
                      n \in Nodes}

(* Nodes with one virtual node each are interchangeable.                   *)
Alternates == Permutations({n2, n3})
=============================================================================

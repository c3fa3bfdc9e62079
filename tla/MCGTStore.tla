----------------------------- MODULE MCGTStore -----------------------------
(***************************************************************************)
(* Small clusters for TLC.  Preference lists are those of a ring on which  *)
(* the virtual nodes are placed clockwise n1, n2, n3, n4.                  *)
(***************************************************************************)
EXTENDS GTStoreRefinement, GTStoreInvariant, TLC

CONSTANTS n1, n2, n3, n4, c1, c2, k1, k2, short, long

Entry(n, r) == [node |-> n, rank |-> r]

(* Two keys whose coordinators replicate for each other.                   *)
CrossingLists == (k1 :> <<Entry(n1, 0), Entry(n2, 0), Entry(n3, 0)>>)
              @@ (k2 :> <<Entry(n3, 0), Entry(n4, 0), Entry(n1, 0)>>)

(* Two keys of which the one's coordinator replicates the other, which     *)
(* makes it wait for a coordinator, and never the other way round.         *)
ChainLists == (k1 :> <<Entry(n1, 0), Entry(n2, 0), Entry(n3, 0)>>)
           @@ (k2 :> <<Entry(n2, 1), Entry(n3, 0), Entry(n4, 0)>>)

(* One key.                                                                *)
OneKeyList == k1 :> <<Entry(n1, 0), Entry(n2, 0), Entry(n3, 0)>>

(* The key's coordinator has more virtual nodes than one replica.          *)
HighRankList == k1 :> <<Entry(n1, 1), Entry(n2, 0), Entry(n3, 0)>>

OneVNode   == [n \in Nodes |-> 1]
TwoVNodes  == [n \in Nodes |-> 2]
UnevenVNodes == [n \in Nodes |-> IF n \in {n1, n3} THEN 2 ELSE 1]

Lengths == (EmptyValue :> 0) @@ (short :> 1) @@ (long :> 2)
=============================================================================

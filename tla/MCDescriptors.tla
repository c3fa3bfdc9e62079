--------------------------- MODULE MCDescriptors ---------------------------
(***************************************************************************)
(* One key and few descriptors.                                            *)
(***************************************************************************)
EXTENDS MCGTStore, Descriptors

(* A node has descriptors for two requests it coordinates, a client for    *)
(* one call.                                                               *)
FewOpen == [p \in Procs |-> IF p \in Clients THEN 2 ELSE 6]

(* Descriptors for one coordinated request.                                *)
TightOpen == [p \in Procs |-> IF p \in Clients THEN 4 ELSE 3]
=============================================================================

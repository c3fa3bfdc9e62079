------------------------- MODULE GTStoreRefinement -------------------------
(***************************************************************************)
(* GTStore implements AtomicStore.  The map is what the coordinators hold: *)
(* a call takes effect when the coordinator of its key accepts it and      *)
(* writes, or reads, its own virtual node.                                 *)
(***************************************************************************)
EXTENDS GTStoreInvariant

dbBar == [k \in Keys |-> CellAt(Coordinator(k), k)]

Applied(c) == /\ call[c].pc = "request"
              /\ Serves(call[c].peer, c) \/ Answered(call[c].peer, c)

Answer(c) == IF Answered(call[c].peer, c) THEN inbox[c][call[c].peer]
                                          ELSE cur[call[c].peer].pkt

pendBar ==
  [c \in Clients |->
     IF call[c] = None THEN None
     ELSE [op |-> call[c].op, key |-> call[c].key, val |-> call[c].val,
           done |-> Applied(c),
           cell |-> IF Applied(c) /\ call[c].op = "get"
                    THEN [val |-> Answer(c).value, ver |-> Answer(c).timpStamp]
                    ELSE Absent]]

(* A call in progress, as AtomicStore sees it.                             *)
Pending == [op : {"put", "get"}, key : Keys, val : Values, done : BOOLEAN,
            cell : [val : Text, ver : Versions]]

ASSUME PendingAssumption == None \notin Pending

Abstract == INSTANCE AtomicStore WITH
              db <- dbBar, pend <- pendBar, known <- versions, ret <- value,
              faulty <- up # Procs

(***************************************************************************)
(* What IInv does not say about the data: a request carries what its       *)
(* client called with, and a read that waits for replicas carries the      *)
(* version its coordinator holds, as do its copies and their answers, so   *)
(* that no answer ever replaces what the coordinator has read.             *)
(***************************************************************************)
AsCalled(m) ==
  m.from \in Clients /\ m.pkt.type = "client"
    => m.pkt = RequestPacket(m.from, m.pkt.rank, EmptyValue)

ReadCurrent(n) ==
  pc[n] = "reading" =>
    LET p == cur[n].pkt
    IN  /\ p.timpStamp = CellAt(n, p.key).ver
        /\ \A r \in Nodes : inbox[n][r] # None => inbox[n][r].timpStamp = p.timpStamp
        /\ \A r \in Nodes \cap up : \A i \in 1 .. Len(backlog[r]) :
             backlog[r][i].from = n => backlog[r][i].pkt.timpStamp = p.timpStamp

PutCalls ==
  \A c \in Clients : call[c] # None /\ call[c].op = "put" => call[c].val \in PutValues

RequestsAsCalled ==
  \A n \in Nodes \cap up : \A i \in 1 .. Len(backlog[n]) : AsCalled(backlog[n][i])

ReadsCurrent == \A n \in Nodes \cap up : ReadCurrent(n)

Linear == PutCalls /\ RequestsAsCalled /\ ReadsCurrent

LinearInv == IInv /\ Linear

(***************************************************************************)
(* When it does: same numbers of virtual nodes, value buffers that start   *)
(* out empty, and no put of the empty string, which is handled as a read.  *)
(***************************************************************************)
CleanData == SameRanks /\ Stack = {EmptyValue} /\ EmptyValue \notin PutValues

(***************************************************************************)
(* Linearizability: reads, writes, versions and results of GTStore are     *)
(* those of the atomic map, through fan-out, merges and process deaths.    *)
(***************************************************************************)
ImplementsAtomicStore == Abstract!Spec
=============================================================================

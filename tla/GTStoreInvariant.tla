------------------------- MODULE GTStoreInvariant -------------------------
(***************************************************************************)
(* The inductive invariant of GTStore.  It says what the packets in the    *)
(* queues and sockets are: whose request they carry on, for which key and  *)
(* virtual node, and which replicas a fan-out has already reached.         *)
(***************************************************************************)
EXTENDS GTStore

(***************************************************************************)
(* Every preference-list node of every key has the rank its coordinator    *)
(* writes to, as it does when all nodes have the same number of virtual    *)
(* nodes.                                                                  *)
(***************************************************************************)
SameRanks == \A k \in Keys : \A n \in Holders(k) : RankOK(n, CoordRank(k))

(* A request packet for the virtual node that coordinates its key.         *)
ForCoordinator(n, p) == n = Coordinator(p.key) /\ p.rank = CoordRank(p.key)

(* The replicas the fan-out of n has passed.                               *)
Reached(n) == {PrefList[cur[n].pkt.key][i].node : i \in 2 .. it[n] - 1}

(* The request a node coordinates.                                         *)
CoordinatorOK(n) ==
  /\ pc[n] = "accept" <=> cur[n] = None
  /\ pc[n] = "accept" => fds[n] = {}
  /\ cur[n] # None => /\ ForCoordinator(n, cur[n].pkt)
                      /\ cur[n].pkt.type = "node" /\ cur[n].from \in Clients
  /\ cur[n] # None => fds[n] \subseteq Reached(n)
  /\ pc[n] = "writing" => cur[n].pkt.size # 0 /\ cur[n].pkt.value \in Values
  /\ n \in up /\ cur[n] # None => call[cur[n].from].pc = "request"

(* A connection in the accept queue of a running node n.                   *)
NodeConnectionOK(n, m) ==
  /\ m.pkt.type = "node"
  /\ cur[m.from] # None
  /\ m.pkt.key = cur[m.from].pkt.key /\ m.pkt.rank = cur[m.from].pkt.rank
  /\ n \in ReplicaNodes(m.pkt.key)
  /\ IF pc[m.from] = "writing" THEN m.pkt = cur[m.from].pkt ELSE m.pkt.size = 0

ClientConnectionOK(n, m) ==
  IF call[m.from].pc = "lookup"
  THEN m.pkt.type = "lookup" /\ m.pkt.key = call[m.from].key
  ELSE m.pkt.type = "client" /\ ForCoordinator(n, m.pkt)

ConnectionOK(n, m) ==
  /\ m.pkt.size # 0 => m.pkt.value \in Values
  /\ IF m.from \in Clients THEN ClientConnectionOK(n, m)
                           ELSE NodeConnectionOK(n, m)

QueueOK(n) == \A i \in 1 .. Len(backlog[n]) : ConnectionOK(n, backlog[n][i])

(* A reply in the socket of p to n.                                        *)
ReplyOK(p, n) ==
  inbox[p][n] # None =>
    /\ Expects(p, n)
    /\ IF p \in Clients
       THEN IF call[p].pc = "lookup"
            THEN /\ inbox[p][n] \in LookupReply
                 /\ inbox[p][n].value = Coordinator(call[p].key)
                 /\ inbox[p][n].rank = CoordRank(call[p].key)
            ELSE inbox[p][n] \in Packet
       ELSE /\ inbox[p][n] \in Packet /\ inbox[p][n].type = "node"
            /\ cur[p] # None
            /\ inbox[p][n].key = cur[p].pkt.key
            /\ inbox[p][n].rank = cur[p].pkt.rank

(***************************************************************************)
(* Every packet belongs to the call or fan-out that sent it: what makes    *)
(* TypeOK and RequestInOnePlace inductive.                                 *)
(***************************************************************************)
Messages ==
  /\ RequestInOnePlace
  /\ \A n \in Nodes : CoordinatorOK(n)
  /\ \A n \in Nodes \cap up : QueueOK(n)
  /\ \A p \in Procs, n \in Nodes : ReplyOK(p, n)

Protocol == TypeOK /\ Messages

(***************************************************************************)
(* A write has reached, besides its coordinator, every running replica the *)
(* fan-out has passed whose copy of the request is no longer queued.       *)
(***************************************************************************)
FanOutOK(n) ==
  n \in up /\ pc[n] = "writing" =>
    LET k == cur[n].pkt.key
    IN  /\ CellAt(n, k) = [val |-> cur[n].pkt.value,
                           ver |-> cur[n].pkt.timpStamp]
        /\ \A i \in 2 .. SIZE_PREFERENCE_LIST :
             LET r == PrefList[k][i].node
             IN  i < it[n] /\ r \in up /\ ~Queues(backlog[r], n)
                   => CellAt(r, k) = CellAt(n, k)

Replication == ReplicasAgree /\ \A n \in Nodes : FanOutOK(n)

IInv == Protocol /\ Replication
=============================================================================

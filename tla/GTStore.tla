------------------------------ MODULE GTStore ------------------------------
(***************************************************************************)
(* The data path of GTStore: client library calls, the single-threaded     *)
(* accept loop of every storage node, the coordinator's fan-out to the     *)
(* replicas of a key, and the Unix stream sockets between them.            *)
(*                                                                         *)
(* Every request travels on a connection of its own: the caller connects,  *)
(* sends one Packet and blocks in recv for one Packet.  A connection waits *)
(* in the target's accept queue (backlog) until the target, which serves   *)
(* one connection at a time, accepts it.  A storage node that coordinates  *)
(* a client request is itself such a caller, and accepts nothing until the *)
(* replicas it contacted have answered or died.                            *)
(*                                                                         *)
(* Failure is what the operating system makes of it: connecting to a dead  *)
(* node fails, recv from a dead peer returns no Packet, and sending to a   *)
(* dead peer raises SIGPIPE, which no process of the program handles.      *)
(***************************************************************************)
EXTENDS Naturals, Sequences, FiniteSets

CONSTANTS
  Nodes,        \* storage nodes, the ones the manager was given, with names
                \*   of up to 7 characters (longer ones: Discovery)
  Clients,      \* client processes, one Client object each
  Keys,         \* object keys of exactly 20 bytes (gt_object.h)
  Values,       \* C strings a value buffer can hold
  EmptyValue,   \* the string of length 0
  Garbled,      \* a string nobody put: a value followed by another's tail
  Length,       \* [Values -> Nat], the length of each string
  PutValues,    \* the values clients put
  Stack,        \* what an uninitialised Packet.value may hold: a string with
                \*   zeros behind it, and EmptyValue is zeros throughout
  NumVNodes,    \* [Nodes -> Nat], StorageNode::numVirtualNodes
  MaxVNodes,    \* the largest of them
  PrefList,     \* [Keys -> list of <<node, rank>>], getPreferenceList
  LastNode,     \* env.nodeIDs.back()
  VersionLimit, \* 2^32 in the code: ObjectVersionType is unsigned int
  ListenQueue,  \* connections the kernel queues on a listening socket
  MaxCalls,     \* bound: calls each client makes
  MaxKills,     \* bound: processes the environment kills
  None          \* no packet, no request, no call

SIZE_PREFERENCE_LIST == 3
OneReplica == 1      \* (fault) wait for one replica of a write only
QUORUM_W == 2
QUORUM_R == 2

Procs    == Nodes \cup Clients
Text     == Values \cup {Garbled}
Ranks    == 0 .. (MaxVNodes - 1)
Versions == 0 .. (VersionLimit - 1)

ASSUME ProcsAssumption ==
  /\ Nodes \cap Clients = {}
  /\ LastNode \in Nodes
  /\ \A n \in Nodes : NumVNodes[n] \in 1 .. MaxVNodes
  /\ MaxVNodes \in Nat
  /\ ListenQueue \in Nat \ {0}
  /\ MaxCalls \in Nat /\ MaxKills \in Nat

ASSUME DataAssumption ==
  /\ EmptyValue \in Values
  /\ Garbled \notin Values
  /\ Length \in [Values -> Nat]
  /\ \A v \in Values : Length[v] = 0 <=> v = EmptyValue
  /\ PutValues \subseteq Values
  /\ Stack \subseteq Values
  /\ VersionLimit \in Nat \ {0}
  /\ Text \cap Procs = {}

(***************************************************************************)
(* What getPreferenceList returns on a ring of at least                    *)
(* SIZE_PREFERENCE_LIST storage nodes (ListIsNearestNodes of Manager).      *)
(***************************************************************************)
ASSUME PrefListAssumption ==
  /\ PrefList \in [Keys -> [1 .. SIZE_PREFERENCE_LIST ->
                              [node : Nodes, rank : Ranks]]]
  /\ \A k \in Keys : \A i, j \in 1 .. SIZE_PREFERENCE_LIST :
       PrefList[k][i].node = PrefList[k][j].node => i = j
  /\ \A k \in Keys : \A i \in 1 .. SIZE_PREFERENCE_LIST :
       PrefList[k][i].rank < NumVNodes[PrefList[k][i].node]

(***************************************************************************)
(* findCoordinator returns the first entry of the preference list.         *)
(***************************************************************************)
Coordinator(k)  == PrefList[k][1].node
CoordRank(k)    == PrefList[k][1].rank
ReplicaNodes(k) == {PrefList[k][i].node : i \in 2 .. SIZE_PREFERENCE_LIST}
Holders(k)      == {Coordinator(k)} \cup ReplicaNodes(k)

(***************************************************************************)
(* Packet: head.type (1 "node", 2 "client", 3 "lookup"), head.timpStamp,   *)
(* head.size, head.rank, key and value.  A reply to a lookup carries the   *)
(* coordinator's name in value.  head.seq and head.ack are never read.     *)
(***************************************************************************)
Packet == [type : {"node", "client", "lookup"},
           timpStamp : Versions, size : Nat, rank : Ranks,
           key : Keys, value : Text]

LookupReply == [type : {"lookup"}, timpStamp : Versions, size : Nat,
                rank : Ranks, key : Keys, value : Nodes]

Connection == [from : Procs, pkt : Packet]

(* An entry of a virtual node's data and versions maps; Absent: no entry.  *)
(* A stored value is never empty: a packet of size 0 is taken for a read.  *)
Cell   == [val : Values, ver : Versions]
Absent == [val |-> EmptyValue, ver |-> 0]

Call == [pc : {"lookup", "request"}, op : {"put", "get"},
         key : Keys, val : Values, peer : Nodes]

ASSUME NoneAssumption ==
  None \notin Packet \cup LookupReply \cup Connection \cup Call

VARIABLES
  up,        \* processes that are running
  backlog,   \* node -> queue of connections not yet accepted
  inbox,     \* process -> node -> the reply in its socket to that node
  pc,        \* node -> "accept", "writing" or "reading": where it blocks
  cur,       \* node -> the client request it coordinates, its Packet p
  it,        \* node -> iterator of the fan-out over the preference list
  fds,       \* node -> replicas whose reply a future still waits for
  store,     \* node -> rank -> key -> what the virtual node holds
  call,      \* client -> its put or get in progress
  versions,  \* client -> key -> Client::versions, 0 when absent
  value,     \* client -> the value its last get delivered
  calls,     \* client -> number of calls made
  kills      \* number of processes the environment killed

nodeVars   == <<pc, cur, it, fds>>
clientVars == <<call, versions, value, calls>>
vars == <<up, backlog, inbox, nodeVars, store, clientVars, kills>>

-----------------------------------------------------------------------------
Init ==
  /\ up = Procs
  /\ backlog = [n \in Nodes |-> <<>>]
  /\ inbox = [p \in Procs |-> [n \in Nodes |-> None]]
  /\ pc = [n \in Nodes |-> "accept"]
  /\ cur = [n \in Nodes |-> None]
  /\ it = [n \in Nodes |-> 2]
  /\ fds = [n \in Nodes |-> {}]
  /\ store = [n \in Nodes |-> [r \in Ranks |-> [k \in Keys |-> Absent]]]
  /\ call = [c \in Clients |-> None]
  /\ versions = [c \in Clients |-> [k \in Keys |-> 0]]
  /\ value = [c \in Clients |-> EmptyValue]
  /\ calls = [c \in Clients |-> 0]
  /\ kills = 0

-----------------------------------------------------------------------------
(* Sockets.                                                                *)

Connectable(t) == t \in up /\ Len(backlog[t]) < ListenQueue

Enqueue(p, t, m) ==
  backlog' = [backlog EXCEPT ![t] = Append(@, [from |-> p, pkt |-> m])]

Dequeue(n) == backlog' = [backlog EXCEPT ![n] = Tail(@)]

Exit(p) == up' = up \ {p}

(* send() on an accepted connection: SIGPIPE kills n when p is gone.       *)
SendBack(n, p, m) ==
  IF p \in up
  THEN inbox' = [inbox EXCEPT ![p][n] = m] /\ UNCHANGED up
  ELSE Exit(n) /\ UNCHANGED inbox

KeepReply(p, n) == UNCHANGED inbox   \* (fault) the reply is not consumed

Take(p, n) == inbox' = [inbox EXCEPT ![p][n] = None]

(* recv() from n returns without a Packet: n died before it answered.      *)
NeverLost(p, n) == FALSE             \* (fault) wait for a dead peer for ever

PeerLost(p, n) == n \notin up /\ inbox[p][n] = None

-----------------------------------------------------------------------------
(* Virtual nodes.                                                          *)

RankOK(n, r) == r < NumVNodes[n]

(* (fault) the version map is forgotten.                                   *)
WriteValueOnly(n, p) ==
  IF RankOK(n, p.rank)
  THEN store' = [store EXCEPT ![n][p.rank][p.key].val = p.value]
  ELSE UNCHANGED store

(* write(): writeToLocalVNode refuses a rank the node does not have.       *)
Write(n, p) ==
  IF RankOK(n, p.rank)
  THEN store' = [store EXCEPT ![n][p.rank][p.key] =
                   [val |-> p.value, ver |-> p.timpStamp]]
  ELSE UNCHANGED store

(* memcpy of a value over the buffer, which get later reads as a C string. *)
Overlay(v, buf) ==
  IF buf \in Values /\ Length[buf] <= Length[v] THEN v ELSE Garbled

(* (fault) the version is not filled in.                                   *)
ReadValueOnly(n, p) ==
  LET cell == store[n][p.rank][p.key]
  IN  IF RankOK(n, p.rank) /\ cell # Absent
      THEN [p EXCEPT !.size = Length[cell.val], !.value = Overlay(cell.val, @)]
      ELSE p

(* read(): fills size, value and timpStamp in, or leaves the packet alone. *)
Read(n, p) ==
  LET cell == store[n][p.rank][p.key]
  IN  IF RankOK(n, p.rank) /\ cell # Absent
      THEN [p EXCEPT !.size = Length[cell.val], !.timpStamp = cell.ver,
                     !.value = Overlay(cell.val, @)]
      ELSE p

(* timpStamp++ on an unsigned int.                                         *)
StampedWide(p) == [p EXCEPT !.timpStamp = @ + 1]    \* (fault) no wrap
Unstamped(p) == p                                  \* (fault) no new version

Stamped(p) == [p EXCEPT !.timpStamp = (@ + 1) % VersionLimit]

(* A reply to a write also loses its key to the node's name; who waits for *)
(* one never looks into it.                                                *)
WriteBackPack(p) == [p EXCEPT !.size = 0]
ReadBackPack(p)  == p

-----------------------------------------------------------------------------
(* The client library.                                                     *)

(* First half of put and get: ask a node for the coordinator of the key.   *)
Begin(c, op, k, v, t) ==
  /\ c \in up /\ call[c] = None /\ calls[c] < MaxCalls
  /\ calls' = [calls EXCEPT ![c] = @ + 1]
  /\ \/ /\ Connectable(t)
        /\ Enqueue(c, t, [type |-> "lookup", timpStamp |-> 0, size |-> 0,
                          rank |-> 0, key |-> k, value |-> EmptyValue])
        /\ call' = [call EXCEPT ![c] = [pc |-> "lookup", op |-> op, key |-> k,
                                        val |-> v, peer |-> t]]
     \/ t \notin up /\ UNCHANGED <<backlog, call>>    \* returns false
  /\ UNCHANGED <<up, inbox, nodeVars, store, versions, value, kills>>

Put(c) == \E k \in Keys, v \in PutValues : Begin(c, "put", k, v, LastNode)
Get(c) == \E k \in Keys, t \in Nodes : Begin(c, "get", k, EmptyValue, t)

(* The node dies between connect and send: SIGPIPE ends the client.        *)
LookupBroken(c) ==
  /\ c \in up /\ call[c] = None /\ calls[c] < MaxCalls
  /\ ~(Nodes \subseteq up)
  /\ Exit(c)
  /\ UNCHANGED <<backlog, inbox, nodeVars, store, clientVars, kills>>

(* The request packet; a get sends its value buffer uninitialised.         *)
RequestPacket(c, rank, junk) ==
  LET put == call[c].op = "put"
  IN  [type |-> "client",
       timpStamp |-> IF put THEN versions[c][call[c].key] ELSE 0,
       size |-> IF put THEN Length[call[c].val] ELSE 0,
       rank |-> rank, key |-> call[c].key,
       value |-> IF put THEN call[c].val ELSE junk]

(* Second half: connect to the coordinator; the client exits if it cannot. *)
ContactCoordinator(c) ==
  /\ c \in up /\ call[c] # None /\ call[c].pc = "lookup"
  /\ LET reply == inbox[c][call[c].peer]
         coord == reply.value
     IN  /\ reply # None
         /\ \/ /\ Connectable(coord)
               /\ \E junk \in Stack :
                    Enqueue(c, coord, RequestPacket(c, reply.rank, junk))
               /\ Take(c, call[c].peer)
               /\ call' = [call EXCEPT ![c].pc = "request", ![c].peer = coord]
               /\ UNCHANGED up
            \/ coord \notin up /\ Exit(c) /\ UNCHANGED <<backlog, inbox, call>>
  /\ UNCHANGED <<nodeVars, store, versions, value, calls, kills>>

(* No reply to the lookup: the coordinator's name stays empty, and the     *)
(* connect to it fails.                                                    *)
LookupLost(c) ==
  /\ c \in up /\ call[c] # None /\ call[c].pc = "lookup"
  /\ PeerLost(c, call[c].peer)
  /\ Exit(c)
  /\ UNCHANGED <<backlog, inbox, nodeVars, store, clientVars, kills>>

Return(c) ==
  /\ c \in up /\ call[c] # None /\ call[c].pc = "request"
  /\ LET reply == inbox[c][call[c].peer]
     IN  /\ reply # None
         /\ Take(c, call[c].peer)
         /\ IF call[c].op = "get"
            THEN /\ value' = [value EXCEPT ![c] = reply.value]
                 /\ versions' = [versions EXCEPT ![c][call[c].key] =
                                   reply.timpStamp]
            ELSE UNCHANGED <<value, versions>>
  /\ call' = [call EXCEPT ![c] = None]
  /\ UNCHANGED <<up, backlog, nodeVars, store, calls, kills>>

(* The coordinator died: put and get return true all the same.             *)
ReturnLost(c) ==
  /\ c \in up /\ call[c] # None /\ call[c].pc = "request"
  /\ PeerLost(c, call[c].peer)
  /\ call' = [call EXCEPT ![c] = None]
  /\ UNCHANGED <<up, backlog, inbox, nodeVars, store, versions, value,
                 calls, kills>>

-----------------------------------------------------------------------------
(* The storage node.  Its loop accepts one connection and runs a handler.  *)

Accepts(n, type) ==
  /\ n \in up /\ pc[n] = "accept" /\ backlog[n] # <<>>
  /\ Head(backlog[n]).pkt.type = type
  /\ Dequeue(n)

(* clientCoordinator: answers a lookup from the ring.                      *)
ClientCoordinator(n) ==
  /\ Accepts(n, "lookup")
  /\ LET m == Head(backlog[n])
     IN  SendBack(n, m.from, [m.pkt EXCEPT !.rank = CoordRank(m.pkt.key),
                                           !.value = Coordinator(m.pkt.key)])
  /\ UNCHANGED <<nodeVars, store, clientVars, kills>>

(* nodeHandler, write branch.  write() goes on to use vnodes[rank] even    *)
(* when the node has no such rank: the process may or may not survive it.  *)
NodeHandlerWrite(n) ==
  /\ Accepts(n, "node")
  /\ LET m == Head(backlog[n])
     IN  /\ m.pkt.size # 0
         /\ Write(n, m.pkt)
         /\ \/ SendBack(n, m.from, WriteBackPack(m.pkt))
            \/ ~RankOK(n, m.pkt.rank) /\ Exit(n) /\ UNCHANGED inbox
  /\ UNCHANGED <<nodeVars, clientVars, kills>>

(* nodeHandler, read branch.                                               *)
NodeHandlerRead(n) ==
  /\ Accepts(n, "node")
  /\ LET m == Head(backlog[n])
     IN  /\ m.pkt.size = 0
         /\ SendBack(n, m.from, ReadBackPack(Read(n, m.pkt)))
  /\ UNCHANGED <<nodeVars, store, clientVars, kills>>

(* clientHandler up to the fan-out: write or read locally, turn the packet *)
(* into a node packet, skip the first entry of the preference list.        *)
ClientHandler(n) ==
  /\ Accepts(n, "client")
  /\ LET m == Head(backlog[n])
         q == Stamped(m.pkt)
     IN  IF m.pkt.size # 0
         THEN /\ Write(n, q)
              /\ pc' = [pc EXCEPT ![n] = "writing"]
              /\ cur' = [cur EXCEPT ![n] = [from |-> m.from,
                           pkt |-> [q EXCEPT !.type = "node"]]]
         ELSE /\ UNCHANGED store
              /\ pc' = [pc EXCEPT ![n] = "reading"]
              /\ cur' = [cur EXCEPT ![n] = [from |-> m.from,
                           pkt |-> [Read(n, m.pkt) EXCEPT !.type = "node"]]]
  /\ it' = [it EXCEPT ![n] = 2]
  /\ UNCHANGED <<up, inbox, fds, clientVars, kills>>

Coordinates(n) == n \in up /\ pc[n] # "accept"
PreviousEntry(n) == PrefList[cur[n].pkt.key][it[n] - 1].node   \* (fault)
Target(n)      == PrefList[cur[n].pkt.key][it[n]].node
FanOutDone(n)  == it[n] > SIZE_PREFERENCE_LIST
Awaited(n)     == IF pc[n] = "writing" THEN QUORUM_W ELSE QUORUM_R

(* One iteration of the loop of writeToNodes or readFromNodes: connect and *)
(* send; the node exits when it cannot connect.  Futures are later made    *)
(* for the first QUORUM_W or QUORUM_R sockets only.                        *)
ContactReplica(n) ==
  /\ Coordinates(n) /\ ~FanOutDone(n)
  /\ \/ /\ Connectable(Target(n))
        /\ Enqueue(n, Target(n),
             IF pc[n] = "writing" THEN cur[n].pkt
                                  ELSE [cur[n].pkt EXCEPT !.size = 0])
        /\ it' = [it EXCEPT ![n] = @ + 1]
        /\ fds' = IF it[n] - 1 <= Awaited(n)
                  THEN [fds EXCEPT ![n] = @ \cup {Target(n)}] ELSE fds
        /\ UNCHANGED up
     \/ Target(n) \notin up /\ Exit(n) /\ UNCHANGED <<backlog, it, fds>>
  /\ UNCHANGED <<inbox, pc, cur, store, clientVars, kills>>

(* A future gets a replica's reply; a read keeps the reply if it is newer. *)
ReplicaReply(n, r) ==
  /\ Coordinates(n) /\ FanOutDone(n) /\ r \in fds[n]
  /\ LET reply == inbox[n][r]
     IN  /\ reply # None
         /\ cur' = IF pc[n] = "reading" /\ cur[n].pkt.timpStamp < reply.timpStamp
                   THEN [cur EXCEPT ![n].pkt = reply] ELSE cur
  /\ Take(n, r)
  /\ fds' = [fds EXCEPT ![n] = @ \ {r}]
  /\ UNCHANGED <<up, backlog, pc, it, store, clientVars, kills>>

(* A future finds the replica dead: it does not count, and nobody checks.  *)
ReplicaLost(n, r) ==
  /\ Coordinates(n) /\ FanOutDone(n) /\ r \in fds[n]
  /\ PeerLost(n, r)
  /\ fds' = [fds EXCEPT ![n] = @ \ {r}]
  /\ UNCHANGED <<up, backlog, inbox, pc, cur, it, store, clientVars, kills>>

(* All futures done: acknowledge the client, accept again.                 *)
Respond(n) ==
  /\ Coordinates(n) /\ FanOutDone(n) /\ fds[n] = {}
  /\ SendBack(n, cur[n].from, IF pc[n] = "writing"
                              THEN WriteBackPack(cur[n].pkt)
                              ELSE ReadBackPack(cur[n].pkt))
  /\ IF cur[n].from \in up
     THEN /\ pc' = [pc EXCEPT ![n] = "accept"]
          /\ cur' = [cur EXCEPT ![n] = None]
     ELSE UNCHANGED <<pc, cur>>
  /\ UNCHANGED <<backlog, it, fds, store, clientVars, kills>>

-----------------------------------------------------------------------------
(* The environment kills a process.                                        *)
Kill(p) ==
  /\ p \in up /\ kills < MaxKills
  /\ kills' = kills + 1
  /\ Exit(p)
  /\ UNCHANGED <<backlog, inbox, nodeVars, store, clientVars>>

ClientStep(c) ==
  ContactCoordinator(c) \/ LookupLost(c) \/ Return(c) \/ ReturnLost(c)

NodeStep(n) ==
  \/ ClientCoordinator(n) \/ NodeHandlerWrite(n) \/ NodeHandlerRead(n)
  \/ ClientHandler(n) \/ ContactReplica(n) \/ Respond(n)
  \/ \E r \in Nodes : ReplicaReply(n, r) \/ ReplicaLost(n, r)

Next ==
  \/ \E c \in Clients : Put(c) \/ Get(c) \/ LookupBroken(c) \/ ClientStep(c)
  \/ \E n \in Nodes : NodeStep(n)
  \/ \E p \in Procs : Kill(p)

Spec == Init /\ [][Next]_vars

(* A running process keeps executing; calls and kills are not forced.      *)
Fairness ==
  /\ \A c \in Clients : WF_vars(ClientStep(c))
  /\ \A n \in Nodes : WF_vars(NodeStep(n))

FairSpec == Spec /\ Fairness

-----------------------------------------------------------------------------
(* The types of the variables, which are those of the fields and locals    *)
(* they stand for.                                                         *)
TypeOK ==
  /\ up \subseteq Procs
  /\ backlog \in [Nodes -> Seq(Connection)]
  /\ inbox \in [Procs -> [Nodes -> Packet \cup LookupReply \cup {None}]]
  /\ pc \in [Nodes -> {"accept", "writing", "reading"}]
  /\ cur \in [Nodes -> Connection \cup {None}]
  /\ it \in [Nodes -> 2 .. SIZE_PREFERENCE_LIST + 1]
  /\ fds \in [Nodes -> SUBSET Nodes]
  /\ store \in [Nodes -> [Ranks -> [Keys -> Cell]]]
  /\ call \in [Clients -> Call \cup {None}]
  /\ versions \in [Clients -> [Keys -> Versions]]
  /\ value \in [Clients -> Text]
  /\ calls \in [Clients -> 0 .. MaxCalls]
  /\ kills \in 0 .. MaxKills

(***************************************************************************)
(* Once the coordinator of a key is back in its accept loop, or busy with  *)
(* anything but a write of that key, every replica that is still running   *)
(* holds the same value and version of the key as the coordinator does,    *)
(* whatever was killed in between (writeToNodes waits for both replicas).  *)
(***************************************************************************)
CellAt(n, k)  == store[n][CoordRank(k)][k]
Writing(n, k) == pc[n] = "writing" /\ cur[n].pkt.key = k

ReplicasAgree ==
  \A k \in Keys :
    LET n == Coordinator(k)
    IN  n \in up /\ ~Writing(n, k)
          => \A r \in ReplicaNodes(k) \cap up : CellAt(r, k) = CellAt(n, k)

(***************************************************************************)
(* No group of storage nodes blocks itself: in every group of running      *)
(* coordinators some member waits for nobody of the group, neither in recv *)
(* for a reply nor in connect for room in an accept queue.  It fails on    *)
(* most rings.                                                             *)
(***************************************************************************)
WaitsFor(n, m) ==
  /\ Coordinates(n) /\ m \in up
  /\ IF FanOutDone(n)
     THEN m \in fds[n] /\ inbox[n][m] = None
     ELSE m = Target(n) /\ Len(backlog[m]) >= ListenQueue

Blocked(S) == S # {} /\ \A n \in S : \E m \in S : WaitsFor(n, m)

NoDeadlock == \A S \in SUBSET Nodes : ~Blocked(S)

(***************************************************************************)
(* What a group that blocks itself looks like, on any ring: every member   *)
(* coordinates the call of another client, of a key of its own that some   *)
(* other member replicates.  Slow or dead replicas, full queues and nodes  *)
(* that only replicate never take part, and one client alone never gets    *)
(* the storage nodes to block each other.                                  *)
(***************************************************************************)
DeadlockCrosses ==
  \A S \in SUBSET Nodes :
    Blocked(S) =>
      \A n \in S :
        LET key == cur[n].pkt.key
        IN  /\ cur[n] # None /\ cur[n].from \in Clients
            /\ n = Coordinator(key)
            /\ \E m \in S \ {n} : m \in ReplicaNodes(key)
            /\ \A m \in S \ {n} : cur[m].from # cur[n].from

(***************************************************************************)
(* A coordinator that acknowledges a put has the value and version on      *)
(* every node of the preference list that is still running, itself         *)
(* included: a future that ended without a reply was that of a dead node.  *)
(***************************************************************************)
Stored(n, p) == CellAt(n, p.key) = [val |-> p.value, ver |-> p.timpStamp]

AckedWriteReplicated ==
  [][\A n \in Nodes :
       pc[n] = "writing" /\ pc'[n] = "accept"
         => \A m \in Holders(cur[n].pkt.key) \cap up : Stored(m, cur[n].pkt)]_vars

(***************************************************************************)
(* A request is in one place: for every running node and every caller that *)
(* waits for it, the request is queued once, or served, or answered, and   *)
(* nothing else of that caller is.  Nothing is lost, served twice or left  *)
(* over for a later call, across fan-outs, merges and deaths.              *)
(***************************************************************************)
Queues(q, p)   == \E i \in 1 .. Len(q) : q[i].from = p
Once(q)        == \A i, j \in 1 .. Len(q) : q[i].from = q[j].from => i = j
Serves(n, p)   == cur[n] # None /\ cur[n].from = p
Answered(n, p) == inbox[p][n] # None
Expects(p, n)  == IF p \in Clients THEN call[p] # None /\ call[p].peer = n
                                   ELSE n \in fds[p]

RequestInOnePlace ==
  \A n \in Nodes \cap up :
    /\ Once(backlog[n])
    /\ \A p \in Procs :
         /\ Expects(p, n)
              <=> Queues(backlog[n], p) \/ Serves(n, p) \/ Answered(n, p)
         /\ Queues(backlog[n], p) => ~Serves(n, p) /\ ~Answered(n, p)
         /\ Serves(n, p) => ~Answered(n, p)

(***************************************************************************)
(* A put that returns true has its value on a write quorum; the client     *)
(* returns true whatever recv said.                                        *)
(***************************************************************************)
PutReturnsStored ==
  [][\A c \in Clients :
       /\ call[c] # None /\ call'[c] = None
       /\ call[c].op = "put"
       => Cardinality({m \in Holders(call[c].key) :
              CellAt(m, call[c].key).val = call[c].val}) >= QUORUM_W]_vars

(***************************************************************************)
(* What get delivers is a value somebody put, or nothing.                  *)
(***************************************************************************)
GetDeliversPutValue ==
  \A c \in Clients : value[c] \in PutValues \cup {EmptyValue}

(***************************************************************************)
(* Every put or get a running client started returns, or its client exits. *)
(***************************************************************************)
CallsReturn ==
  \A c \in Clients : (c \in up /\ call[c] # None) ~> (c \notin up \/ call[c] = None)
=============================================================================

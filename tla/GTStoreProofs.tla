--------------------------- MODULE GTStoreProofs ---------------------------
(***************************************************************************)
(* Proofs that the data path of GTStore is type correct and that replicas  *)
(* agree, for any number of nodes, clients, keys, values, calls and kills. *)
(***************************************************************************)
EXTENDS GTStoreInvariant, TLAPS

(***************************************************************************)
(* The constants a proof step may need to know about.                      *)
(***************************************************************************)
LEMMA ConstantFacts ==
  /\ \A k \in Keys : Coordinator(k) \in Nodes /\ CoordRank(k) \in Ranks
  /\ \A k \in Keys, i \in 1 .. SIZE_PREFERENCE_LIST : PrefList[k][i].node \in Nodes
  /\ \A k \in Keys : CoordRank(k) < NumVNodes[Coordinator(k)]
  /\ \A k \in Keys : Coordinator(k) \notin ReplicaNodes(k)
  /\ \A v \in Values : Length[v] \in Nat
  /\ \A v \in Values : Length[v] # 0 => v # EmptyValue
  /\ \A n \in Nodes : NumVNodes[n] \in Nat
  /\ Nodes \cap Clients = {} /\ Text \cap Procs = {}
BY PrefListAssumption, DataAssumption, ProcsAssumption
DEF Coordinator, CoordRank, ReplicaNodes, SIZE_PREFERENCE_LIST, Ranks, Text, Procs

LEMMA InitTypeOK == Init => TypeOK
BY DataAssumption, ProcsAssumption
DEF Init, TypeOK, Cell, Absent, Versions, Ranks, Procs, Text, SIZE_PREFERENCE_LIST

-----------------------------------------------------------------------------
(* Updates of nested functions.                                            *)

LEMMA Update2 ==
  ASSUME NEW A, NEW B, NEW S, NEW f \in [A -> [B -> S]],
         NEW a \in A, NEW b \in B, NEW s \in S
  PROVE  /\ [f EXCEPT ![a][b] = s] \in [A -> [B -> S]]
         /\ \A x \in A, y \in B : [f EXCEPT ![a][b] = s][x][y]
                                    = IF x = a /\ y = b THEN s ELSE f[x][y]
<1>1. [f[a] EXCEPT ![b] = s] \in [B -> S]
  OBVIOUS
<1>2. \A y \in B : [f[a] EXCEPT ![b] = s][y] = IF y = b THEN s ELSE f[a][y]
  OBVIOUS
<1>. QED
  BY <1>1, <1>2

LEMMA Update3 ==
  ASSUME NEW A, NEW B, NEW C, NEW S, NEW f \in [A -> [B -> [C -> S]]],
         NEW a \in A, NEW b \in B, NEW c \in C, NEW s \in S
  PROVE  [f EXCEPT ![a][b][c] = s] \in [A -> [B -> [C -> S]]]
<1>1. f[a] \in [B -> [C -> S]]
  OBVIOUS
<1>. DEFINE g == [f[a] EXCEPT ![b][c] = s]
<1>2. g \in [B -> [C -> S]]
  BY <1>1, Update2
<1>3. [f EXCEPT ![a][b][c] = s] = [f EXCEPT ![a] = g]
  OBVIOUS
<1>. HIDE DEF g
<1>. QED
  BY <1>2, <1>3

LEMMA Lookup3 ==
  ASSUME NEW A, NEW B, NEW C, NEW S, NEW f \in [A -> [B -> [C -> S]]],
         NEW a \in A, NEW b \in B, NEW c \in C, NEW s \in S,
         NEW g, g = [f EXCEPT ![a][b][c] = s]
  PROVE  \A x \in A, y \in B, z \in C :
           g[x][y][z] = IF x = a /\ y = b /\ z = c THEN s ELSE f[x][y][z]
<1>1. ASSUME NEW x \in A, NEW y \in B, NEW z \in C
      PROVE  g[x][y][z] = IF x = a /\ y = b /\ z = c THEN s ELSE f[x][y][z]
  <2>1. CASE x = a
    <3>1. g[x] = [f[a] EXCEPT ![b][c] = s] /\ f[a] \in [B -> [C -> S]]
      BY <2>1
    <3>. QED
      BY <2>1, <3>1, Update2
  <2>2. CASE x # a
    BY <2>2
  <2>. QED
    BY <2>1, <2>2
<1>. QED
  BY <1>1

-----------------------------------------------------------------------------
(* The sockets keep their types.                                           *)

LEMMA EnqueueType ==
  ASSUME TypeOK, NEW p \in Procs, NEW t \in Nodes, NEW m \in Packet,
         Enqueue(p, t, m)
  PROVE  backlog' \in [Nodes -> Seq(Connection)]
<1>1. [from |-> p, pkt |-> m] \in Connection
  BY DEF Connection
<1>2. backlog \in [Nodes -> Seq(Connection)]
  BY DEF TypeOK
<1>. QED
  BY <1>1, <1>2 DEF Enqueue

LEMMA AcceptsType ==
  ASSUME TypeOK, NEW n \in Nodes, NEW type, Accepts(n, type)
  PROVE  /\ Head(backlog[n]) \in Connection
         /\ Head(backlog[n]).pkt.type = type
         /\ backlog' = [backlog EXCEPT ![n] = Tail(backlog[n])]
         /\ backlog' \in [Nodes -> Seq(Connection)]
         /\ n \in up /\ pc[n] = "accept"
         /\ backlog[n] \in Seq(Connection) /\ backlog[n] # <<>>
<1>1. backlog \in [Nodes -> Seq(Connection)]
  BY DEF TypeOK
<1>2. /\ backlog[n] \in Seq(Connection) /\ backlog[n] # <<>>
      /\ backlog' = [backlog EXCEPT ![n] = Tail(backlog[n])]
  BY <1>1 DEF Accepts, Dequeue
<1>3. Tail(backlog[n]) \in Seq(Connection) /\ Head(backlog[n]) \in Connection
  BY <1>2
<1>. QED
  BY <1>1, <1>2, <1>3 DEF Accepts

LEMMA SendBackType ==
  ASSUME TypeOK, NEW n \in Nodes, NEW p \in Procs,
         NEW m \in Packet \cup LookupReply, SendBack(n, p, m)
  PROVE  up' \subseteq Procs
         /\ inbox' \in [Procs -> [Nodes -> Packet \cup LookupReply \cup {None}]]
<1>1. inbox \in [Procs -> [Nodes -> Packet \cup LookupReply \cup {None}]]
  BY DEF TypeOK
<1>2. [inbox EXCEPT ![p][n] = m]
        \in [Procs -> [Nodes -> Packet \cup LookupReply \cup {None}]]
  BY <1>1, Update2
<1>3. up \subseteq Procs
  BY DEF TypeOK
<1>. QED
  BY <1>1, <1>2, <1>3 DEF SendBack, Exit

LEMMA TakeType ==
  ASSUME TypeOK, NEW n \in Nodes, NEW p \in Procs, Take(p, n)
  PROVE  inbox' \in [Procs -> [Nodes -> Packet \cup LookupReply \cup {None}]]
<1>1. inbox \in [Procs -> [Nodes -> Packet \cup LookupReply \cup {None}]]
  BY DEF TypeOK
<1>. QED
  BY <1>1, Update2 DEF Take

(* A value written to a virtual node keeps the store's type.               *)
LEMMA WriteType ==
  ASSUME TypeOK, NEW n \in Nodes, NEW p \in Packet, p.value \in Values,
         Write(n, p)
  PROVE  store' \in [Nodes -> [Ranks -> [Keys -> Cell]]]
<1>. DEFINE c == [val |-> p.value, ver |-> p.timpStamp]
            r == p.rank
            k == p.key
<1>1. store \in [Nodes -> [Ranks -> [Keys -> Cell]]]
  BY DEF TypeOK
<1>2. r \in Ranks /\ k \in Keys /\ c \in Cell
  BY DEF Packet, Cell
<1>3. store' = [store EXCEPT ![n][r][k] = c] \/ store' = store
  BY DEF Write
<1>. HIDE DEF c, r, k
<1>4. [store EXCEPT ![n][r][k] = c] \in [Nodes -> [Ranks -> [Keys -> Cell]]]
  BY <1>1, <1>2, Update3
<1>. QED
  BY <1>1, <1>3, <1>4

(* A read changes size, version and value of a packet only.                *)
LEMMA ReadType ==
  ASSUME TypeOK, NEW n \in Nodes, NEW p \in Packet
  PROVE  /\ Read(n, p) \in Packet
         /\ Read(n, p).key = p.key /\ Read(n, p).rank = p.rank
         /\ Read(n, p).type = p.type
<1>. DEFINE cell == store[n][p.rank][p.key]
            v == Overlay(cell.val, p.value)
<1>1. cell \in Cell
  BY DEF TypeOK, Packet
<1>2. v \in Text /\ Length[cell.val] \in Nat /\ cell.ver \in Versions
  BY <1>1, ConstantFacts DEF Cell, Overlay, Text
<1>3. CASE RankOK(n, p.rank) /\ cell # Absent
  <2>1. Read(n, p) = [p EXCEPT !.size = Length[cell.val],
                               !.timpStamp = cell.ver, !.value = v]
    BY <1>3 DEF Read
  <2>. QED
    BY <1>2, <2>1 DEF Packet
<1>4. CASE ~(RankOK(n, p.rank) /\ cell # Absent)
  <2>1. Read(n, p) = p
    BY <1>4 DEF Read
  <2>. QED
    BY <2>1
<1>. QED
  BY <1>3, <1>4

-----------------------------------------------------------------------------
(* Each action keeps the types, given what the packets are.                *)

LEMMA BeginTypeOK ==
  ASSUME TypeOK, NEW c \in Clients, NEW op \in {"put", "get"}, NEW k \in Keys,
         NEW v \in Values, NEW t \in Nodes, Begin(c, op, k, v, t)
  PROVE  TypeOK'
<1>. DEFINE m == [type |-> "lookup", timpStamp |-> 0, size |-> 0,
                  rank |-> 0, key |-> k, value |-> EmptyValue]
<1>1. m \in Packet
  BY DataAssumption, ProcsAssumption DEF Packet, Versions, Ranks, Text
<1>2. calls[c] + 1 \in 0 .. MaxCalls
  BY ProcsAssumption DEF TypeOK, Begin
<1>3. backlog' \in [Nodes -> Seq(Connection)]
  <2>1. CASE Enqueue(c, t, m)
    BY <1>1, <2>1, EnqueueType DEF Procs
  <2>2. CASE UNCHANGED backlog
    BY <2>2 DEF TypeOK
  <2>. QED
    BY <2>1, <2>2 DEF Begin
<1>4. [pc |-> "lookup", op |-> op, key |-> k, val |-> v, peer |-> t] \in Call
  BY DEF Call
<1>5. call' \in [Clients -> Call \cup {None}]
  BY <1>4 DEF TypeOK, Begin
<1>6. calls' \in [Clients -> 0 .. MaxCalls]
  BY <1>2 DEF TypeOK, Begin
<1>7. UNCHANGED <<up, inbox, nodeVars, store, versions, value, kills>>
  BY DEF Begin
<1>. QED
  BY <1>3, <1>5, <1>6, <1>7 DEF TypeOK, nodeVars

(* The packet a client sends to the coordinator it was told about.         *)
LEMMA RequestPacketType ==
  ASSUME Protocol, NEW c \in Clients, ContactCoordinator(c), NEW junk \in Stack
  PROVE  LET reply == inbox[c][call[c].peer]
             m     == RequestPacket(c, reply.rank, junk)
         IN  /\ reply \in LookupReply /\ reply.value = Coordinator(call[c].key)
             /\ reply.value \in Nodes /\ reply.rank \in Ranks
             /\ m \in Packet /\ m.type = "client"
             /\ ForCoordinator(reply.value, m)
             /\ m.size # 0 => m.value \in Values
<1>. DEFINE reply == inbox[c][call[c].peer]
<1>1. /\ TypeOK /\ Messages /\ c \in Procs
      /\ call[c] \in Call /\ call[c].pc = "lookup" /\ reply # None
  BY DEF Protocol, TypeOK, ContactCoordinator, Procs
<1>2. call[c].peer \in Nodes /\ call[c].key \in Keys
  BY <1>1 DEF Call
<1>3. /\ reply \in LookupReply /\ reply.value = Coordinator(call[c].key)
      /\ reply.rank = CoordRank(call[c].key)
  BY <1>1, <1>2 DEF Messages, ReplyOK
<1>4. reply.value \in Nodes /\ reply.rank \in Ranks
  BY <1>3 DEF LookupReply
<1>5. /\ call[c].val \in Values /\ junk \in Values
      /\ Length[call[c].val] \in Nat /\ 0 \in Versions
      /\ versions[c][call[c].key] \in Versions
  BY <1>1, <1>2, DataAssumption DEF TypeOK, Call, Versions
<1>. QED
  BY <1>2, <1>3, <1>4, <1>5 DEF RequestPacket, Packet, Text, ForCoordinator

LEMMA ContactCoordinatorTypeOK ==
  ASSUME Protocol, NEW c \in Clients, ContactCoordinator(c)
  PROVE  TypeOK'
<1>. DEFINE reply == inbox[c][call[c].peer]
            coord == reply.value
<1>1. TypeOK /\ call[c] \in Call /\ call[c].pc = "lookup" /\ c \in Procs
  BY DEF Protocol, TypeOK, ContactCoordinator, Procs
<1>2. call[c].peer \in Nodes /\ reply # None
  BY <1>1 DEF Call, ContactCoordinator
<1>3. reply \in LookupReply
  BY <1>1, <1>2 DEF Protocol, Messages, ReplyOK
<1>4. coord \in Nodes /\ reply.rank \in Ranks
  BY <1>3 DEF LookupReply
<1>5. CASE coord \notin up /\ Exit(c) /\ UNCHANGED <<backlog, inbox, call>>
  BY <1>1, <1>5 DEF ContactCoordinator, Exit, TypeOK, nodeVars
<1>6. CASE /\ \E junk \in Stack :
                Enqueue(c, coord, RequestPacket(c, reply.rank, junk))
           /\ Take(c, call[c].peer)
           /\ call' = [call EXCEPT ![c].pc = "request", ![c].peer = coord]
           /\ UNCHANGED up
  <2>1. PICK junk \in Stack :
              Enqueue(c, coord, RequestPacket(c, reply.rank, junk))
    BY <1>6
  <2>2. RequestPacket(c, reply.rank, junk) \in Packet
    BY <2>1, RequestPacketType
  <2>3. backlog' \in [Nodes -> Seq(Connection)]
    BY <1>1, <1>4, <2>1, <2>2, EnqueueType
  <2>4. inbox' \in [Procs -> [Nodes -> Packet \cup LookupReply \cup {None}]]
    BY <1>1, <1>2, <1>6, TakeType
  <2>5. call' \in [Clients -> Call \cup {None}]
    <3>1. [call[c] EXCEPT !.pc = "request", !.peer = coord] \in Call
      BY <1>1, <1>4 DEF Call
    <3>2. call' = [call EXCEPT ![c] =
                     [call[c] EXCEPT !.pc = "request", !.peer = coord]]
      BY <1>6, <1>1 DEF TypeOK
    <3>. QED
      BY <1>1, <3>1, <3>2 DEF TypeOK
  <2>. QED
    BY <1>1, <1>6, <2>3, <2>4, <2>5 DEF ContactCoordinator, TypeOK, nodeVars
<1>. QED
  BY <1>5, <1>6 DEF ContactCoordinator

LEMMA ReturnTypeOK ==
  ASSUME Protocol, NEW c \in Clients, Return(c)
  PROVE  TypeOK'
<1>. DEFINE reply == inbox[c][call[c].peer]
<1>1. TypeOK /\ call[c] \in Call /\ call[c].pc = "request" /\ c \in Procs
  BY DEF Protocol, TypeOK, Return, Procs
<1>2. call[c].peer \in Nodes /\ reply # None /\ call[c].key \in Keys
  BY <1>1 DEF Call, Return
<1>3. reply \in Packet
  BY <1>1, <1>2 DEF Protocol, Messages, ReplyOK
<1>4. reply.value \in Text /\ reply.timpStamp \in Versions
  BY <1>3 DEF Packet
<1>5. inbox' \in [Procs -> [Nodes -> Packet \cup LookupReply \cup {None}]]
  BY <1>1, <1>2, TakeType DEF Return
<1>6. /\ value' \in [Clients -> Text]
      /\ versions' \in [Clients -> [Keys -> Versions]]
  <2>. DEFINE k == call[c].key
              ver == reply.timpStamp
  <2>1. versions \in [Clients -> [Keys -> Versions]] /\ value \in [Clients -> Text]
    BY <1>1 DEF TypeOK
  <2>2. \/ value' = [value EXCEPT ![c] = reply.value]
           /\ versions' = [versions EXCEPT ![c][k] = ver]
        \/ UNCHANGED <<value, versions>>
    BY DEF Return
  <2>3. k \in Keys /\ ver \in Versions
    BY <1>2, <1>4
  <2>. HIDE DEF k, ver
  <2>4. [versions EXCEPT ![c][k] = ver] \in [Clients -> [Keys -> Versions]]
    BY <2>1, <2>3, Update2
  <2>. QED
    BY <1>4, <2>1, <2>2, <2>4
<1>7. call' \in [Clients -> Call \cup {None}]
  BY <1>1 DEF Return, TypeOK
<1>. QED
  BY <1>1, <1>5, <1>6, <1>7 DEF Return, TypeOK, nodeVars

LEMMA ClientCoordinatorTypeOK ==
  ASSUME TypeOK, NEW n \in Nodes, ClientCoordinator(n)
  PROVE  TypeOK'
<1>. DEFINE m == Head(backlog[n])
            reply == [m.pkt EXCEPT !.rank = CoordRank(m.pkt.key),
                                   !.value = Coordinator(m.pkt.key)]
<1>1. Accepts(n, "lookup") /\ SendBack(n, m.from, reply)
  BY DEF ClientCoordinator
<1>2. m \in Connection /\ m.pkt.type = "lookup"
      /\ backlog' \in [Nodes -> Seq(Connection)]
  BY <1>1, AcceptsType
<1>3. reply \in LookupReply /\ m.from \in Procs
  BY <1>2, ConstantFacts DEF Connection, Packet, LookupReply
<1>. HIDE DEF reply, m
<1>4. /\ up' \subseteq Procs
      /\ inbox' \in [Procs -> [Nodes -> Packet \cup LookupReply \cup {None}]]
  BY <1>1, <1>3, SendBackType
<1>. QED
  BY <1>2, <1>4 DEF ClientCoordinator, TypeOK, nodeVars, clientVars

LEMMA NodeHandlerWriteTypeOK ==
  ASSUME Protocol, NEW n \in Nodes, NodeHandlerWrite(n)
  PROVE  TypeOK'
<1>. DEFINE m == Head(backlog[n])
<1>1. TypeOK /\ Accepts(n, "node") /\ m.pkt.size # 0 /\ Write(n, m.pkt)
  BY DEF Protocol, NodeHandlerWrite
<1>2. /\ m \in Connection /\ backlog' \in [Nodes -> Seq(Connection)] /\ n \in up
      /\ m = backlog[n][1] /\ 1 \in 1 .. Len(backlog[n])
  BY <1>1, AcceptsType
<1>3. m.pkt \in Packet /\ m.from \in Procs /\ m.pkt.value \in Values
  BY <1>1, <1>2 DEF Connection, Protocol, Messages, QueueOK, ConnectionOK
<1>4. store' \in [Nodes -> [Ranks -> [Keys -> Cell]]]
  BY <1>1, <1>3, WriteType
<1>5. WriteBackPack(m.pkt) \in Packet
  BY <1>3 DEF WriteBackPack, Packet
<1>6. /\ up' \subseteq Procs
      /\ inbox' \in [Procs -> [Nodes -> Packet \cup LookupReply \cup {None}]]
  <2>1. CASE SendBack(n, m.from, WriteBackPack(m.pkt))
    BY <1>1, <1>3, <1>5, <2>1, SendBackType
  <2>2. CASE Exit(n) /\ UNCHANGED inbox
    BY <1>1, <2>2 DEF TypeOK, Exit
  <2>. QED
    BY <2>1, <2>2 DEF NodeHandlerWrite
<1>. QED
  BY <1>1, <1>2, <1>4, <1>6 DEF NodeHandlerWrite, TypeOK, nodeVars, clientVars

LEMMA NodeHandlerReadTypeOK ==
  ASSUME TypeOK, NEW n \in Nodes, NodeHandlerRead(n)
  PROVE  TypeOK'
<1>. DEFINE m == Head(backlog[n])
            reply == ReadBackPack(Read(n, m.pkt))
<1>1. Accepts(n, "node") /\ SendBack(n, m.from, reply)
  BY DEF NodeHandlerRead
<1>2. m \in Connection /\ backlog' \in [Nodes -> Seq(Connection)]
  BY <1>1, AcceptsType
<1>3. m.from \in Procs /\ m.pkt \in Packet
  BY <1>2 DEF Connection
<1>4. reply \in Packet
  BY <1>3, ReadType DEF ReadBackPack
<1>. HIDE DEF reply, m
<1>5. /\ up' \subseteq Procs
      /\ inbox' \in [Procs -> [Nodes -> Packet \cup LookupReply \cup {None}]]
  BY <1>1, <1>3, <1>4, SendBackType
<1>. QED
  BY <1>2, <1>5 DEF NodeHandlerRead, TypeOK, nodeVars, clientVars

LEMMA StampedType ==
  ASSUME NEW p \in Packet
  PROVE  /\ Stamped(p) \in Packet
         /\ Stamped(p).key = p.key /\ Stamped(p).rank = p.rank
         /\ Stamped(p).value = p.value /\ Stamped(p).size = p.size
<1>1. p.timpStamp \in Nat /\ VersionLimit \in Nat \ {0}
  BY DataAssumption DEF Packet, Versions
<1>2. (p.timpStamp + 1) % VersionLimit \in Versions
  BY <1>1 DEF Versions
<1>. QED
  BY <1>2 DEF Packet, Stamped

LEMMA ClientHandlerCases ==
  ASSUME Protocol, NEW n \in Nodes, ClientHandler(n)
  PROVE  LET m == Head(backlog[n])
             q == Stamped(m.pkt)
         IN  /\ m \in Connection /\ m.pkt \in Packet /\ m.from \in Clients
             /\ \/ /\ m.pkt.size # 0 /\ m.pkt.value \in Values
                   /\ Write(n, q)
                   /\ pc' = [pc EXCEPT ![n] = "writing"]
                   /\ cur' = [cur EXCEPT ![n] =
                                [from |-> m.from, pkt |-> [q EXCEPT !.type = "node"]]]
                \/ /\ m.pkt.size = 0
                   /\ store' = store
                   /\ pc' = [pc EXCEPT ![n] = "reading"]
                   /\ cur' = [cur EXCEPT ![n] =
                                [from |-> m.from,
                                 pkt |-> [Read(n, m.pkt) EXCEPT !.type = "node"]]]
<1>. DEFINE m == Head(backlog[n])
<1>1. TypeOK /\ Accepts(n, "client")
  BY DEF Protocol, ClientHandler
<1>2. /\ m \in Connection /\ m.pkt.type = "client" /\ n \in up
      /\ m = backlog[n][1] /\ 1 \in 1 .. Len(backlog[n])
  BY <1>1, AcceptsType
<1>3. m.pkt \in Packet /\ m.from \in Procs /\ ConnectionOK(n, m)
  BY <1>2 DEF Connection, Protocol, Messages, QueueOK
<1>4. m.from \in Clients
  BY <1>2, <1>3 DEF ConnectionOK, NodeConnectionOK
<1>5. m.pkt.size # 0 => m.pkt.value \in Values
  BY <1>3 DEF ConnectionOK
<1>. QED
  BY <1>2, <1>3, <1>4, <1>5 DEF ClientHandler, Stamped

LEMMA ClientHandlerTypeOK ==
  ASSUME Protocol, NEW n \in Nodes, ClientHandler(n)
  PROVE  TypeOK'
<1>. DEFINE m == Head(backlog[n])
            q == Stamped(m.pkt)
<1>1. TypeOK /\ Accepts(n, "client")
  BY DEF Protocol, ClientHandler
<1>2. backlog' \in [Nodes -> Seq(Connection)]
  BY <1>1, AcceptsType
<1>3. m.pkt \in Packet /\ m.from \in Clients
  BY ClientHandlerCases
<1>4. /\ store' \in [Nodes -> [Ranks -> [Keys -> Cell]]]
      /\ pc' \in [Nodes -> {"accept", "writing", "reading"}]
      /\ cur' \in [Nodes -> Connection \cup {None}]
  <2>1. CASE /\ m.pkt.value \in Values
             /\ Write(n, q)
             /\ pc' = [pc EXCEPT ![n] = "writing"]
             /\ cur' = [cur EXCEPT ![n] =
                          [from |-> m.from, pkt |-> [q EXCEPT !.type = "node"]]]
    <3>1. q \in Packet /\ q.value \in Values
      BY <1>3, <2>1, StampedType
    <3>2. [from |-> m.from, pkt |-> [q EXCEPT !.type = "node"]] \in Connection
      BY <1>3, <3>1 DEF Connection, Packet, Procs
    <3>. QED
      BY <1>1, <2>1, <3>1, <3>2, WriteType DEF TypeOK
  <2>2. CASE /\ store' = store
             /\ pc' = [pc EXCEPT ![n] = "reading"]
             /\ cur' = [cur EXCEPT ![n] =
                          [from |-> m.from,
                           pkt |-> [Read(n, m.pkt) EXCEPT !.type = "node"]]]
    <3>1. Read(n, m.pkt) \in Packet
      BY <1>1, <1>3, ReadType
    <3>2. [from |-> m.from, pkt |-> [Read(n, m.pkt) EXCEPT !.type = "node"]]
            \in Connection
      BY <1>3, <3>1 DEF Connection, Packet, Procs
    <3>. QED
      BY <1>1, <2>2, <3>2 DEF TypeOK
  <2>. QED
    BY <2>1, <2>2, ClientHandlerCases
<1>5. it' \in [Nodes -> 2 .. SIZE_PREFERENCE_LIST + 1]
  BY <1>1 DEF ClientHandler, TypeOK, SIZE_PREFERENCE_LIST
<1>. QED
  BY <1>1, <1>2, <1>4, <1>5 DEF ClientHandler, TypeOK, clientVars

(* What a coordinating node works on.                                      *)
LEMMA CoordinatesFacts ==
  ASSUME Protocol, NEW n \in Nodes, Coordinates(n)
  PROVE  /\ TypeOK /\ n \in up /\ pc[n] \in {"writing", "reading"}
         /\ cur[n] \in Connection /\ cur[n] # None
         /\ cur[n].pkt \in Packet /\ cur[n].from \in Clients
         /\ ForCoordinator(n, cur[n].pkt) /\ cur[n].pkt.type = "node"
         /\ pc[n] = "writing" => cur[n].pkt.size # 0 /\ cur[n].pkt.value \in Values
         /\ fds[n] \subseteq Reached(n)
         /\ it[n] \in 2 .. SIZE_PREFERENCE_LIST + 1
         /\ fds[n] \subseteq Nodes
<1>1. TypeOK /\ CoordinatorOK(n)
  BY DEF Protocol, Messages
<1>2. cur[n] # None /\ cur[n] \in Connection
  BY <1>1 DEF Coordinates, CoordinatorOK, TypeOK
<1>. QED
  BY <1>1, <1>2 DEF Coordinates, CoordinatorOK, TypeOK, Connection

LEMMA ContactReplicaTypeOK ==
  ASSUME Protocol, NEW n \in Nodes, ContactReplica(n)
  PROVE  TypeOK'
<1>. DEFINE q == IF pc[n] = "writing" THEN cur[n].pkt
                                      ELSE [cur[n].pkt EXCEPT !.size = 0]
<1>1. Coordinates(n) /\ TypeOK
  BY DEF ContactReplica, Protocol
<1>2. it[n] \in 2 .. SIZE_PREFERENCE_LIST
  BY <1>1, CoordinatesFacts DEF ContactReplica, FanOutDone, SIZE_PREFERENCE_LIST
<1>3. Target(n) \in Nodes
  BY <1>1, <1>2, CoordinatesFacts, ConstantFacts
  DEF Target, Packet, SIZE_PREFERENCE_LIST
<1>4. q \in Packet
  BY <1>1, CoordinatesFacts DEF Packet
<1>. HIDE DEF q
<1>5. backlog' \in [Nodes -> Seq(Connection)]
  <2>1. CASE Enqueue(n, Target(n), q)
    BY <1>1, <1>3, <1>4, <2>1, EnqueueType DEF Procs
  <2>2. CASE UNCHANGED backlog
    BY <1>1, <2>2 DEF TypeOK
  <2>. QED
    BY <2>1, <2>2 DEF ContactReplica, q
<1>6. it' \in [Nodes -> 2 .. SIZE_PREFERENCE_LIST + 1]
  <2>1. it' = [it EXCEPT ![n] = it[n] + 1] \/ it' = it
    BY DEF ContactReplica
  <2>2. it[n] + 1 \in 2 .. SIZE_PREFERENCE_LIST + 1
    BY <1>2 DEF SIZE_PREFERENCE_LIST
  <2>3. it \in [Nodes -> 2 .. SIZE_PREFERENCE_LIST + 1]
    BY <1>1 DEF TypeOK
  <2>. QED
    BY <2>1, <2>2, <2>3
<1>7. fds' \in [Nodes -> SUBSET Nodes]
  <2>1. fds' = [fds EXCEPT ![n] = fds[n] \cup {Target(n)}] \/ fds' = fds
    BY DEF ContactReplica
  <2>2. fds \in [Nodes -> SUBSET Nodes] /\ fds[n] \cup {Target(n)} \in SUBSET Nodes
    BY <1>1, <1>3 DEF TypeOK
  <2>. QED
    BY <2>1, <2>2
<1>8. up' \subseteq Procs
  BY <1>1 DEF ContactReplica, TypeOK, Exit
<1>. QED
  BY <1>1, <1>5, <1>6, <1>7, <1>8 DEF ContactReplica, TypeOK, clientVars

LEMMA ReplicaReplyTypeOK ==
  ASSUME Protocol, NEW n \in Nodes, NEW r \in Nodes, ReplicaReply(n, r)
  PROVE  TypeOK'
<1>1. Coordinates(n) /\ TypeOK /\ n \in Procs /\ n \notin Clients
  BY ConstantFacts DEF ReplicaReply, Protocol, Procs
<1>2. inbox[n][r] \in Packet
  BY <1>1 DEF ReplicaReply, Protocol, Messages, ReplyOK
<1>3. inbox' \in [Procs -> [Nodes -> Packet \cup LookupReply \cup {None}]]
  BY <1>1, TakeType DEF ReplicaReply
<1>4. cur' \in [Nodes -> Connection \cup {None}]
  <2>1. CASE UNCHANGED cur
    BY <1>1, <2>1 DEF TypeOK
  <2>2. CASE cur' = [cur EXCEPT ![n].pkt = inbox[n][r]]
    <3>1. [cur[n] EXCEPT !.pkt = inbox[n][r]] \in Connection
      BY <1>1, <1>2, CoordinatesFacts DEF Connection
    <3>. QED
      BY <1>1, <2>2, <3>1 DEF TypeOK
  <2>. QED
    BY <2>1, <2>2 DEF ReplicaReply
<1>5. fds' \in [Nodes -> SUBSET Nodes]
  BY <1>1 DEF ReplicaReply, TypeOK
<1>. QED
  BY <1>1, <1>3, <1>4, <1>5 DEF ReplicaReply, TypeOK, clientVars

LEMMA RespondTypeOK ==
  ASSUME Protocol, NEW n \in Nodes, Respond(n)
  PROVE  TypeOK'
<1>. DEFINE q == IF pc[n] = "writing" THEN WriteBackPack(cur[n].pkt)
                                      ELSE ReadBackPack(cur[n].pkt)
<1>1. Coordinates(n) /\ TypeOK
  BY DEF Respond, Protocol
<1>2. q \in Packet /\ cur[n].from \in Procs
  BY <1>1, CoordinatesFacts DEF WriteBackPack, ReadBackPack, Packet, Procs
<1>3. SendBack(n, cur[n].from, q)
  BY DEF Respond
<1>. HIDE DEF q
<1>4. /\ up' \subseteq Procs
      /\ inbox' \in [Procs -> [Nodes -> Packet \cup LookupReply \cup {None}]]
  BY <1>1, <1>2, <1>3, SendBackType
<1>5. /\ pc' \in [Nodes -> {"accept", "writing", "reading"}]
      /\ cur' \in [Nodes -> Connection \cup {None}]
  BY <1>1 DEF Respond, TypeOK
<1>. QED
  BY <1>1, <1>4, <1>5 DEF Respond, TypeOK, clientVars

(* Every step keeps the types.                                             *)
LEMMA NextTypeOK ==
  ASSUME Protocol, [Next]_vars
  PROVE  TypeOK'
<1>. USE DEF Protocol
<1>1. ASSUME NEW c \in Clients, Put(c)
      PROVE  TypeOK'
  BY <1>1, BeginTypeOK, ProcsAssumption, DataAssumption DEF Put
<1>2. ASSUME NEW c \in Clients, Get(c)
      PROVE  TypeOK'
  BY <1>2, BeginTypeOK, DataAssumption DEF Get
<1>3. ASSUME NEW c \in Clients, ClientStep(c)
      PROVE  TypeOK'
  <2>1. CASE ContactCoordinator(c)
    BY <2>1, ContactCoordinatorTypeOK
  <2>2. CASE LookupLost(c)
    BY <2>2 DEF LookupLost, Exit, TypeOK, nodeVars, clientVars
  <2>3. CASE Return(c)
    BY <2>3, ReturnTypeOK
  <2>4. CASE ReturnLost(c)
    BY <2>4 DEF ReturnLost, TypeOK, nodeVars
  <2>. QED
    BY <1>3, <2>1, <2>2, <2>3, <2>4 DEF ClientStep
<1>4. ASSUME NEW n \in Nodes, NodeStep(n)
      PROVE  TypeOK'
  <2>1. CASE \E r \in Nodes : ReplicaLost(n, r)
    BY <2>1 DEF ReplicaLost, TypeOK, clientVars
  <2>2. CASE \E r \in Nodes : ReplicaReply(n, r)
    BY <2>2, ReplicaReplyTypeOK
  <2>. QED
    BY <1>4, <2>1, <2>2, ClientCoordinatorTypeOK, NodeHandlerWriteTypeOK,
       NodeHandlerReadTypeOK, ClientHandlerTypeOK, ContactReplicaTypeOK,
       RespondTypeOK
    DEF NodeStep
<1>5. ASSUME NEW p \in Procs, Kill(p)
      PROVE  TypeOK'
  BY <1>5, ProcsAssumption DEF Kill, Exit, TypeOK, nodeVars, clientVars
<1>6. CASE UNCHANGED vars
  BY <1>6 DEF vars, nodeVars, clientVars, TypeOK
<1>7. ASSUME NEW c \in Clients, LookupBroken(c)
      PROVE  TypeOK'
  BY <1>7 DEF LookupBroken, Exit, TypeOK, nodeVars, clientVars
<1>. QED
  BY <1>1, <1>2, <1>3, <1>4, <1>5, <1>6, <1>7 DEF Next

-----------------------------------------------------------------------------
(* Accept queues.                                                          *)

LEMMA AppendQueue ==
  ASSUME NEW q \in Seq(Connection), NEW m \in Connection
  PROVE  /\ \A p : Queues(Append(q, m), p) <=> Queues(q, p) \/ m.from = p
         /\ Once(q) /\ ~Queues(q, m.from) => Once(Append(q, m))
         /\ \A i \in 1 .. Len(Append(q, m)) :
              \/ Append(q, m)[i] = m
              \/ \E j \in 1 .. Len(q) : Append(q, m)[i] = q[j]
<1>1. /\ Len(Append(q, m)) = Len(q) + 1 /\ Len(q) \in Nat
      /\ \A i \in 1 .. Len(q) : Append(q, m)[i] = q[i]
      /\ Append(q, m)[Len(q) + 1] = m
  OBVIOUS
<1>. QED
  BY <1>1 DEF Queues, Once

LEMMA TailQueue ==
  ASSUME NEW q \in Seq(Connection), q # <<>>, Once(q)
  PROVE  /\ Once(Tail(q))
         /\ Queues(q, Head(q).from) /\ ~Queues(Tail(q), Head(q).from)
         /\ \A p : p # Head(q).from => (Queues(Tail(q), p) <=> Queues(q, p))
         /\ \A i \in 1 .. Len(Tail(q)) :
              \E j \in 1 .. Len(q) : Tail(q)[i] = q[j]
<1>1. /\ Len(Tail(q)) = Len(q) - 1 /\ Len(q) \in Nat \ {0} /\ Head(q) = q[1]
      /\ \A i \in 1 .. Len(q) - 1 : Tail(q)[i] = q[i + 1]
  OBVIOUS
<1>2. \A i \in 1 .. Len(q) : i = 1 \/ (i - 1 \in 1 .. Len(q) - 1 /\ q[i] = Tail(q)[i - 1])
  BY <1>1
<1>3. \A i \in 1 .. Len(q) - 1 : i + 1 \in 1 .. Len(q) /\ i + 1 # 1
  BY <1>1
<1>4. Once(Tail(q))
  BY <1>1, <1>3 DEF Once
<1>5. ~Queues(Tail(q), q[1].from)
  BY <1>1, <1>3 DEF Once, Queues
<1>6. \A p : p # q[1].from => (Queues(Tail(q), p) <=> Queues(q, p))
  BY <1>1, <1>2, <1>3 DEF Queues
<1>. QED
  BY <1>1, <1>3, <1>4, <1>5, <1>6 DEF Queues

(* A request joins a queue in which its sender has none.                   *)
LEMMA EnqueueEffect ==
  ASSUME TypeOK, NEW p \in Procs, NEW t \in Nodes, NEW m \in Packet,
         Enqueue(p, t, m), ~Queues(backlog[t], p)
  PROVE  /\ \A n \in Nodes \ {t} : backlog'[n] = backlog[n]
         /\ \A x : Queues(backlog'[t], x) <=> Queues(backlog[t], x) \/ x = p
         /\ Once(backlog[t]) => Once(backlog'[t])
         /\ \A i \in 1 .. Len(backlog'[t]) :
              \/ backlog'[t][i] = [from |-> p, pkt |-> m]
              \/ \E j \in 1 .. Len(backlog[t]) : backlog'[t][i] = backlog[t][j]
<1>. DEFINE conn == [from |-> p, pkt |-> m]
<1>1. backlog \in [Nodes -> Seq(Connection)] /\ backlog[t] \in Seq(Connection)
  BY DEF TypeOK
<1>2. conn \in Connection /\ conn.from = p
  BY DEF Connection
<1>3. backlog'[t] = Append(backlog[t], conn)
      /\ \A n \in Nodes \ {t} : backlog'[n] = backlog[n]
  BY <1>1 DEF Enqueue
<1>. HIDE DEF conn
<1>4. /\ \A x : Queues(Append(backlog[t], conn), x)
                  <=> Queues(backlog[t], x) \/ conn.from = x
      /\ Once(backlog[t]) => Once(Append(backlog[t], conn))
      /\ \A i \in 1 .. Len(Append(backlog[t], conn)) :
           \/ Append(backlog[t], conn)[i] = conn
           \/ \E j \in 1 .. Len(backlog[t]) :
                Append(backlog[t], conn)[i] = backlog[t][j]
  BY <1>1, <1>2, AppendQueue
<1>. QED
  BY <1>2, <1>3, <1>4 DEF conn

(* The head of a queue leaves it.                                          *)
LEMMA DequeueEffect ==
  ASSUME TypeOK, NEW n \in Nodes, NEW type, Accepts(n, type), Once(backlog[n])
  PROVE  /\ \A x \in Nodes \ {n} : backlog'[x] = backlog[x]
         /\ Once(backlog'[n])
         /\ Queues(backlog[n], Head(backlog[n]).from)
         /\ ~Queues(backlog'[n], Head(backlog[n]).from)
         /\ \A x : x # Head(backlog[n]).from
                     => (Queues(backlog'[n], x) <=> Queues(backlog[n], x))
         /\ \A i \in 1 .. Len(backlog'[n]) :
              \E j \in 1 .. Len(backlog[n]) : backlog'[n][i] = backlog[n][j]
<1>1. /\ backlog[n] \in Seq(Connection) /\ backlog[n] # <<>>
      /\ backlog' = [backlog EXCEPT ![n] = Tail(backlog[n])]
  BY AcceptsType
<1>2. backlog'[n] = Tail(backlog[n]) /\ \A x \in Nodes \ {n} : backlog'[x] = backlog[x]
  BY <1>1 DEF TypeOK
<1>. QED
  BY <1>1, <1>2, TailQueue

LEMMA QueuedConnection ==
  ASSUME TypeOK, NEW n \in Nodes, NEW i \in 1 .. Len(backlog[n])
  PROVE  /\ backlog[n][i] \in Connection /\ backlog[n][i].from \in Procs
         /\ backlog[n][i].pkt \in Packet /\ Queues(backlog[n], backlog[n][i].from)
<1>. DEFINE q == backlog[n]
<1>1. q \in Seq(Connection)
  BY DEF TypeOK
<1>. HIDE DEF q
<1>2. q[i] \in Connection
  BY <1>1 DEF q
<1>. QED
  BY <1>2 DEF Connection, Queues, q

-----------------------------------------------------------------------------
(* Each action keeps every packet with the call or fan-out it belongs to.  *)

(* A step that at most ends processes or changes what packets do not       *)
(* depend on.                                                              *)
LEMMA SilentMessages ==
  ASSUME Messages, up' \subseteq up, UNCHANGED <<backlog, inbox, nodeVars, call>>
  PROVE  Messages'
<1>. USE DEF Messages, nodeVars
<1>1. RequestInOnePlace'
  BY DEF RequestInOnePlace, Expects, Serves, Answered
<1>2. \A n \in Nodes : CoordinatorOK(n)'
  BY DEF CoordinatorOK, Reached, ForCoordinator
<1>3. \A n \in Nodes \cap up' : QueueOK(n)'
  BY DEF QueueOK, ConnectionOK, NodeConnectionOK, ClientConnectionOK, ForCoordinator
<1>4. \A p \in Procs, n \in Nodes : ReplyOK(p, n)'
  BY DEF ReplyOK, Expects
<1>. QED
  BY <1>1, <1>2, <1>3, <1>4

(* A client with no request under way ends its call or sends a request.    *)
LEMMA ClientMoveMessages ==
  ASSUME Protocol, NEW c \in Clients,
         \A n \in Nodes \cap up : ~Queues(backlog[n], c) /\ ~Serves(n, c),
         UNCHANGED <<up, nodeVars>>,
         \A d \in Clients \ {c} : call'[d] = call[d],
         \A p \in Procs \ {c}, n \in Nodes : inbox'[p][n] = inbox[p][n],
         \A n \in Nodes : inbox'[c][n] = None,
         \/ call'[c] = None /\ backlog' = backlog
         \/ \E t \in Nodes \cap up, m \in Packet :
              /\ Enqueue(c, t, m)
              /\ call'[c] # None /\ call'[c].peer = t
              /\ m.size # 0 => m.value \in Values
              /\ IF call'[c].pc = "lookup"
                 THEN m.type = "lookup" /\ m.key = call'[c].key
                 ELSE m.type = "client" /\ ForCoordinator(t, m)
  PROVE  Messages'
<1>1. TypeOK /\ Messages /\ c \in Procs /\ c \notin Nodes
  BY ConstantFacts DEF Protocol, Procs
<1>2. \A n \in Nodes : CoordinatorOK(n)'
  BY <1>1 DEF Messages, CoordinatorOK, Reached, ForCoordinator, nodeVars, Serves
<1>3. \A p \in Procs, n \in Nodes : ReplyOK(p, n)'
  BY <1>1 DEF Messages, ReplyOK, Expects, nodeVars, Procs
<1>4. ASSUME NEW n \in Nodes \cap up, NEW j \in 1 .. Len(backlog[n]),
             NEW i \in 1 .. Len(backlog'[n]), backlog'[n][i] = backlog[n][j]
      PROVE  ConnectionOK(n, backlog[n][i])'
  <2>1. /\ ConnectionOK(n, backlog[n][j]) /\ backlog[n][j].from # c
        /\ backlog[n][j].from \in Procs
    BY <1>1, QueuedConnection DEF Messages, QueueOK
  <2>. QED
    BY <1>4, <2>1
    DEF ConnectionOK, ClientConnectionOK, NodeConnectionOK, ForCoordinator, nodeVars
<1>5. CASE call'[c] = None /\ backlog' = backlog
  <2>1. RequestInOnePlace'
    BY <1>1, <1>5 DEF Messages, RequestInOnePlace, Expects, Serves, Answered, nodeVars
  <2>2. \A n \in Nodes \cap up' : QueueOK(n)'
    BY <1>4, <1>5 DEF QueueOK
  <2>. QED
    BY <1>2, <1>3, <2>1, <2>2 DEF Messages
<1>6. ASSUME NEW t \in Nodes \cap up, NEW m \in Packet,
             Enqueue(c, t, m),
             call'[c] # None, call'[c].peer = t,
             m.size # 0 => m.value \in Values,
             IF call'[c].pc = "lookup"
             THEN m.type = "lookup" /\ m.key = call'[c].key
             ELSE m.type = "client" /\ ForCoordinator(t, m)
      PROVE  Messages'
  <2>. DEFINE conn == [from |-> c, pkt |-> m]
  <2>1. /\ \A n \in Nodes \ {t} : backlog'[n] = backlog[n]
        /\ \A x : Queues(backlog'[t], x) <=> Queues(backlog[t], x) \/ x = c
        /\ Once(backlog[t]) => Once(backlog'[t])
        /\ \A i \in 1 .. Len(backlog'[t]) :
              \/ backlog'[t][i] = conn
              \/ \E j \in 1 .. Len(backlog[t]) : backlog'[t][i] = backlog[t][j]
    BY <1>1, <1>6, EnqueueEffect, SMTT(30)
  <2>2. RequestInOnePlace'
    BY <1>1, <1>6, <2>1
    DEF Messages, RequestInOnePlace, Expects, Serves, Answered, nodeVars
  <2>3. ASSUME NEW n \in Nodes \cap up', NEW i \in 1 .. Len(backlog'[n])
        PROVE  ConnectionOK(n, backlog[n][i])'
    <3>1. CASE n = t /\ backlog'[n][i] = conn
      BY <1>6, <3>1 DEF ConnectionOK, ClientConnectionOK, ForCoordinator
    <3>2. CASE \E j \in 1 .. Len(backlog[n]) : backlog'[n][i] = backlog[n][j]
      BY <1>4, <3>2
    <3>. QED
      BY <2>1, <3>1, <3>2
  <2>. QED
    BY <1>2, <1>3, <2>2, <2>3 DEF Messages, QueueOK
<1>. QED
  BY <1>5, <1>6

LEMMA BeginMessages ==
  ASSUME Protocol, NEW c \in Clients, NEW op \in {"put", "get"}, NEW k \in Keys,
         NEW v \in Values, NEW t \in Nodes, Begin(c, op, k, v, t)
  PROVE  Messages'
<1>. DEFINE m == [type |-> "lookup", timpStamp |-> 0, size |-> 0,
                  rank |-> 0, key |-> k, value |-> EmptyValue]
            new == [pc |-> "lookup", op |-> op, key |-> k, val |-> v, peer |-> t]
<1>1. TypeOK /\ Messages /\ c \in Procs /\ call[c] = None
  BY DEF Protocol, Procs, Begin
<1>2. CASE UNCHANGED <<backlog, call>>
  BY <1>1, <1>2, SilentMessages DEF Begin
<1>3. CASE t \in up /\ Enqueue(c, t, m) /\ call' = [call EXCEPT ![c] = new]
  <2>1. m \in Packet /\ new \in Call
    BY DataAssumption, ProcsAssumption DEF Packet, Versions, Ranks, Text, Call
  <2>2. new # None
    BY <2>1, NoneAssumption
  <2>3. \A n \in Nodes : ~Expects(c, n) /\ inbox[c][n] = None
    BY <1>1 DEF Expects, Messages, ReplyOK
  <2>4. \A n \in Nodes \cap up : ~Queues(backlog[n], c) /\ ~Serves(n, c)
    BY <1>1, <2>3 DEF Messages, RequestInOnePlace
  <2>5. call'[c] = new /\ \A d \in Clients \ {c} : call'[d] = call[d]
    BY <1>1, <1>3 DEF TypeOK
  <2>6. UNCHANGED <<up, inbox, nodeVars>>
    BY DEF Begin
  <2>7. /\ call'[c] # None /\ call'[c].peer = t /\ call'[c].pc = "lookup"
        /\ m.type = "lookup" /\ m.key = call'[c].key /\ m.size = 0
    BY <2>2, <2>5
  <2>. HIDE DEF m, new
  <2>. QED
    BY <1>3, <2>1, <2>3, <2>4, <2>5, <2>6, <2>7, ClientMoveMessages
<1>. QED
  BY <1>2, <1>3 DEF Begin, Connectable

(* A client whose call was answered, or whose peer died, has no request    *)
(* under way.                                                              *)
LEMMA AnsweredClient ==
  ASSUME Protocol, NEW c \in Clients, call[c] # None,
         inbox[c][call[c].peer] # None \/ call[c].peer \notin up
  PROVE  /\ \A n \in Nodes \cap up : ~Queues(backlog[n], c) /\ ~Serves(n, c)
         /\ \A n \in Nodes \ {call[c].peer} : inbox[c][n] = None
         /\ call[c] \in Call /\ call[c].peer \in Nodes /\ call[c].key \in Keys
<1>1. TypeOK /\ Messages /\ c \in Procs
  BY DEF Protocol, Procs
<1>. QED
  BY <1>1
  DEF Messages, RequestInOnePlace, ReplyOK, Expects, Answered, TypeOK, Call

LEMMA ContactCoordinatorMessages ==
  ASSUME Protocol, NEW c \in Clients, ContactCoordinator(c)
  PROVE  Messages'
<1>. DEFINE reply == inbox[c][call[c].peer]
            coord == reply.value
<1>1. TypeOK /\ Messages /\ c \in Procs
  BY DEF Protocol, Procs
<1>2. call[c] # None /\ call[c].pc = "lookup" /\ reply # None
  BY DEF ContactCoordinator
<1>3. /\ \A n \in Nodes \cap up : ~Queues(backlog[n], c) /\ ~Serves(n, c)
      /\ \A n \in Nodes \ {call[c].peer} : inbox[c][n] = None
      /\ call[c] \in Call /\ call[c].peer \in Nodes /\ call[c].key \in Keys
  BY <1>2, AnsweredClient
<1>4. CASE Exit(c) /\ UNCHANGED <<backlog, inbox, call>>
  BY <1>1, <1>4, SilentMessages DEF ContactCoordinator, Exit
<1>5. CASE /\ Connectable(coord)
           /\ \E junk \in Stack :
                Enqueue(c, coord, RequestPacket(c, reply.rank, junk))
           /\ Take(c, call[c].peer)
           /\ call' = [call EXCEPT ![c].pc = "request", ![c].peer = coord]
           /\ UNCHANGED up
  <2>1. /\ reply \in LookupReply /\ coord = Coordinator(call[c].key)
        /\ reply.rank = CoordRank(call[c].key)
    BY <1>1, <1>2, <1>3 DEF Messages, ReplyOK
  <2>2. coord \in Nodes \cap up /\ reply.rank \in Ranks
    BY <1>5, <2>1 DEF Connectable, LookupReply
  <2>3. PICK junk \in Stack :
              Enqueue(c, coord, RequestPacket(c, reply.rank, junk))
    BY <1>5
  <2>. DEFINE m == RequestPacket(c, reply.rank, junk)
  <2>4. /\ m \in Packet /\ m.type = "client" /\ ForCoordinator(coord, m)
        /\ m.size # 0 => m.value \in Values
    BY <2>3, RequestPacketType
  <2>5. /\ call'[c].pc = "request" /\ call'[c].peer = coord
        /\ \A d \in Clients \ {c} : call'[d] = call[d]
        /\ call'[c] # None
    <3>1. [call[c] EXCEPT !.pc = "request", !.peer = coord] \in Call
      BY <1>3, <2>2 DEF Call
    <3>2. call' = [call EXCEPT ![c] =
                     [call[c] EXCEPT !.pc = "request", !.peer = coord]]
      BY <1>1, <1>5 DEF TypeOK
    <3>. QED
      BY <1>1, <1>3, <3>1, <3>2, NoneAssumption DEF TypeOK, Call
  <2>6. /\ \A n \in Nodes : inbox'[c][n] = None
        /\ \A p \in Procs \ {c}, n \in Nodes : inbox'[p][n] = inbox[p][n]
    BY <1>1, <1>3, <1>5 DEF TypeOK, Take
  <2>7. UNCHANGED <<up, nodeVars>>
    BY <1>5 DEF ContactCoordinator
  <2>. HIDE DEF m, coord
  <2>. QED
    BY <1>3, <2>2, <2>3, <2>4, <2>5, <2>6, <2>7, ClientMoveMessages DEF m
<1>. QED
  BY <1>4, <1>5 DEF ContactCoordinator

LEMMA ReturnMessages ==
  ASSUME Protocol, NEW c \in Clients, Return(c) \/ ReturnLost(c)
  PROVE  Messages'
<1>1. TypeOK /\ call[c] # None /\ c \in Procs
  BY DEF Protocol, Procs, Return, ReturnLost
<1>2. inbox[c][call[c].peer] # None \/ call[c].peer \notin up
  BY DEF Return, ReturnLost, PeerLost
<1>3. /\ \A n \in Nodes \cap up : ~Queues(backlog[n], c) /\ ~Serves(n, c)
      /\ \A n \in Nodes \ {call[c].peer} : inbox[c][n] = None
      /\ call[c].peer \in Nodes
  BY <1>1, <1>2, AnsweredClient
<1>4. call'[c] = None /\ \A d \in Clients \ {c} : call'[d] = call[d]
  BY <1>1 DEF Return, ReturnLost, TypeOK
<1>5. /\ \A n \in Nodes : inbox'[c][n] = None
      /\ \A p \in Procs \ {c}, n \in Nodes : inbox'[p][n] = inbox[p][n]
  <2>1. CASE Take(c, call[c].peer)
    BY <1>1, <1>3, <2>1 DEF TypeOK, Take
  <2>2. CASE inbox[c][call[c].peer] = None /\ UNCHANGED inbox
    BY <1>1, <1>3, <2>2
  <2>. QED
    BY <2>1, <2>2 DEF Return, ReturnLost, PeerLost
<1>6. UNCHANGED <<up, nodeVars, backlog>>
  BY DEF Return, ReturnLost
<1>. QED
  BY <1>3, <1>4, <1>5, <1>6, ClientMoveMessages

(* A node answers the connection it accepted, or dies of doing so.         *)
LEMMA AnswerMessages ==
  ASSUME Protocol, NEW n \in Nodes, NEW type, Accepts(n, type),
         type \in {"lookup", "node"},
         NEW reply \in Packet \cup LookupReply,
         \/ SendBack(n, Head(backlog[n]).from, reply)
         \/ Exit(n) /\ UNCHANGED inbox,
         Head(backlog[n]).from \in Clients =>
           /\ reply \in LookupReply
           /\ reply.value = Coordinator(call[Head(backlog[n]).from].key)
           /\ reply.rank = CoordRank(call[Head(backlog[n]).from].key),
         Head(backlog[n]).from \notin Clients =>
           /\ reply \in Packet /\ reply.type = "node"
           /\ reply.key = cur[Head(backlog[n]).from].pkt.key
           /\ reply.rank = cur[Head(backlog[n]).from].pkt.rank,
         UNCHANGED <<nodeVars, call>>
  PROVE  Messages'
<1>. DEFINE m == Head(backlog[n])
<1>1. TypeOK /\ Messages
  BY DEF Protocol
<1>2. /\ m \in Connection /\ m.pkt.type = type /\ n \in up
      /\ m = backlog[n][1] /\ 1 \in 1 .. Len(backlog[n])
      /\ Once(backlog[n])
  BY <1>1, AcceptsType DEF Messages, RequestInOnePlace
<1>3. m.from \in Procs /\ ConnectionOK(n, m)
  BY <1>1, <1>2 DEF Connection, Messages, QueueOK
<1>4. /\ \A x \in Nodes \ {n} : backlog'[x] = backlog[x]
      /\ Once(backlog'[n])
      /\ Queues(backlog[n], m.from) /\ ~Queues(backlog'[n], m.from)
      /\ \A x : x # m.from => (Queues(backlog'[n], x) <=> Queues(backlog[n], x))
      /\ \A i \in 1 .. Len(backlog'[n]) :
           \E j \in 1 .. Len(backlog[n]) : backlog'[n][i] = backlog[n][j]
  BY <1>1, <1>2, DequeueEffect
<1>5. /\ Expects(m.from, n) /\ ~Serves(n, m.from) /\ inbox[m.from][n] = None
      /\ m.from \in Clients => call[m.from].pc = "lookup"
      /\ m.from \notin Clients => cur[m.from] # None
  <2>1. /\ Expects(m.from, n) /\ ~Serves(n, m.from) /\ inbox[m.from][n] = None
    BY <1>1, <1>2, <1>3, <1>4 DEF Messages, RequestInOnePlace, Answered
  <2>2. /\ m.from \in Clients => call[m.from].pc = "lookup"
        /\ m.from \notin Clients => cur[m.from] # None
    BY <1>2, <1>3 DEF ConnectionOK, ClientConnectionOK, NodeConnectionOK
  <2>. QED
    BY <2>1, <2>2
<1>6. /\ up' \subseteq up
      /\ \A p \in Procs, x \in Nodes :
           (p # m.from \/ x # n) => inbox'[p][x] = inbox[p][x]
      /\ n \in up' => inbox'[m.from][n] = reply
      /\ inbox'[m.from][n] \in {None, reply}
  <2>1. CASE m.from \in up /\ inbox' = [inbox EXCEPT ![m.from][n] = reply]
             /\ UNCHANGED up
    BY <1>1, <1>3, <2>1 DEF TypeOK
  <2>2. CASE Exit(n) /\ UNCHANGED inbox
    BY <1>5, <2>2 DEF Exit
  <2>. QED
    BY <2>1, <2>2 DEF SendBack
<1>7. reply # None
  BY NoneAssumption
<1>. PICK a \in Procs : a = m.from
  BY <1>3
<1>. HIDE DEF m
<1>8. \A p \in Procs, x \in Nodes : Expects(p, x)' <=> Expects(p, x)
  BY DEF Expects, nodeVars
<1>9. \A p \in Procs, x \in Nodes : Serves(x, p)' <=> Serves(x, p)
  BY DEF Serves, nodeVars
<1>10. RequestInOnePlace'
  <2>1. ASSUME NEW x \in Nodes \cap up', NEW p \in Procs
        PROVE  /\ Once(backlog'[x])
               /\ Expects(p, x)
                    <=> Queues(backlog'[x], p) \/ Serves(x, p) \/ inbox'[p][x] # None
               /\ Queues(backlog'[x], p) => ~Serves(x, p) /\ inbox'[p][x] = None
               /\ Serves(x, p) => inbox'[p][x] = None
    <3>1. /\ x \in up /\ Once(backlog[x])
          /\ Expects(p, x) <=> Queues(backlog[x], p) \/ Serves(x, p)
                                 \/ inbox[p][x] # None
          /\ Queues(backlog[x], p) => ~Serves(x, p) /\ inbox[p][x] = None
          /\ Serves(x, p) => inbox[p][x] = None
      BY <1>1, <1>6, <2>1 DEF Messages, RequestInOnePlace, Answered
    <3>2. CASE x = n /\ p = a
      BY <1>4, <1>5, <1>6, <1>7, <2>1, <3>2
    <3>3. CASE x # n \/ p # a
      BY <1>4, <1>6, <2>1, <3>1, <3>3
    <3>. QED
      BY <3>2, <3>3
  <2>2. ASSUME NEW x \in Nodes \cap up'
        PROVE  Once(backlog'[x])
    BY <1>3, <2>1
  <2>. QED
    BY <1>8, <1>9, <2>1, <2>2 DEF RequestInOnePlace, Answered
<1>11. \A x \in Nodes : CoordinatorOK(x)'
  BY <1>1, <1>6 DEF Messages, CoordinatorOK, Reached, ForCoordinator, nodeVars
<1>12. \A x \in Nodes \cap up' : QueueOK(x)'
  <2>1. ASSUME NEW x \in Nodes \cap up', NEW i \in 1 .. Len(backlog'[x])
        PROVE  ConnectionOK(x, backlog[x][i])'
    <3>1. PICK j \in 1 .. Len(backlog[x]) : backlog'[x][i] = backlog[x][j]
      BY <1>4, <2>1
    <3>2. ConnectionOK(x, backlog[x][j])
      BY <1>1, <1>6, <2>1, <3>1 DEF Messages, QueueOK
    <3>. QED
      BY <3>1, <3>2
      DEF ConnectionOK, ClientConnectionOK, NodeConnectionOK, ForCoordinator, nodeVars
  <2>. QED
    BY <2>1 DEF QueueOK
<1>13. \A p \in Procs, x \in Nodes : ReplyOK(p, x)'
  <2>1. ASSUME NEW p \in Procs, NEW x \in Nodes, inbox'[p][x] = inbox[p][x]
        PROVE  ReplyOK(p, x)'
    BY <1>1, <2>1 DEF Messages, ReplyOK, Expects, nodeVars
  <2>2. ReplyOK(a, n)'
    BY <1>3, <1>5, <1>6 DEF ReplyOK, Expects, nodeVars, m
  <2>. QED
    BY <1>6, <2>1, <2>2
<1>. QED
  BY <1>10, <1>11, <1>12, <1>13 DEF Messages

(* What the packet at the head of a queue is.                              *)
LEMMA HeadConnection ==
  ASSUME Protocol, NEW n \in Nodes, NEW type, Accepts(n, type)
  PROVE  LET m == Head(backlog[n])
         IN  /\ m \in Connection /\ m.pkt \in Packet /\ m.from \in Procs
             /\ m.pkt.type = type /\ n \in up /\ pc[n] = "accept"
             /\ ConnectionOK(n, m)
             /\ Queues(backlog[n], m.from) /\ Once(backlog[n])
             /\ type = "node" => m.from \in Nodes /\ m.from \notin Clients
             /\ type # "node" => m.from \in Clients
<1>. DEFINE m == Head(backlog[n])
<1>1. TypeOK /\ Messages
  BY DEF Protocol
<1>2. /\ m \in Connection /\ m.pkt.type = type /\ n \in up /\ pc[n] = "accept"
      /\ m = backlog[n][1] /\ 1 \in 1 .. Len(backlog[n])
  BY <1>1, AcceptsType
<1>3. ConnectionOK(n, m) /\ Once(backlog[n]) /\ Queues(backlog[n], m.from)
  BY <1>1, <1>2 DEF Messages, QueueOK, RequestInOnePlace, Queues
<1>4. m.from \in Procs /\ m.pkt \in Packet
  BY <1>2 DEF Connection
<1>. QED
  BY <1>2, <1>3, <1>4, ConstantFacts
  DEF ConnectionOK, ClientConnectionOK, NodeConnectionOK, Procs

LEMMA ClientCoordinatorMessages ==
  ASSUME Protocol, NEW n \in Nodes, ClientCoordinator(n)
  PROVE  Messages'
<1>. DEFINE m == Head(backlog[n])
            reply == [m.pkt EXCEPT !.rank = CoordRank(m.pkt.key),
                                   !.value = Coordinator(m.pkt.key)]
<1>1. Accepts(n, "lookup") /\ SendBack(n, m.from, reply) /\ UNCHANGED <<nodeVars, call>>
  BY DEF ClientCoordinator, clientVars
<1>2. /\ m.pkt \in Packet /\ m.pkt.type = "lookup" /\ ConnectionOK(n, m)
      /\ m.from \in Clients
  BY <1>1, HeadConnection
<1>3. m.pkt.key = call[m.from].key
  BY <1>2 DEF ConnectionOK, ClientConnectionOK
<1>4. /\ reply \in LookupReply
      /\ reply.value = Coordinator(call[m.from].key)
      /\ reply.rank = CoordRank(call[m.from].key)
  BY <1>2, <1>3, ConstantFacts DEF Packet, LookupReply
<1>. HIDE DEF reply
<1>. QED
  BY <1>1, <1>2, <1>4, AnswerMessages

LEMMA NodeHandlerMessages ==
  ASSUME Protocol, NEW n \in Nodes, NodeHandlerWrite(n) \/ NodeHandlerRead(n)
  PROVE  Messages'
<1>. DEFINE m == Head(backlog[n])
<1>1. Accepts(n, "node") /\ UNCHANGED <<nodeVars, call>>
  BY DEF NodeHandlerWrite, NodeHandlerRead, clientVars
<1>2. /\ m.pkt \in Packet /\ m.pkt.type = "node" /\ ConnectionOK(n, m)
      /\ m.from \in Nodes /\ m.from \notin Clients
  BY <1>1, HeadConnection
<1>3. m.pkt.key = cur[m.from].pkt.key /\ m.pkt.rank = cur[m.from].pkt.rank
  BY <1>2 DEF ConnectionOK, NodeConnectionOK
<1>4. PICK reply \in Packet :
        /\ reply.key = m.pkt.key /\ reply.rank = m.pkt.rank /\ reply.type = "node"
        /\ SendBack(n, m.from, reply) \/ (Exit(n) /\ UNCHANGED inbox)
  <2>1. WriteBackPack(m.pkt) \in Packet
        /\ WriteBackPack(m.pkt).key = m.pkt.key
        /\ WriteBackPack(m.pkt).type = "node"
        /\ WriteBackPack(m.pkt).rank = m.pkt.rank
    BY <1>2 DEF WriteBackPack, Packet
  <2>2. ReadBackPack(Read(n, m.pkt)) \in Packet
        /\ ReadBackPack(Read(n, m.pkt)).key = m.pkt.key
        /\ ReadBackPack(Read(n, m.pkt)).type = "node"
        /\ ReadBackPack(Read(n, m.pkt)).rank = m.pkt.rank
    BY <1>2, ReadType DEF ReadBackPack, Protocol
  <2>3. CASE NodeHandlerWrite(n)
    BY <2>1, <2>3 DEF NodeHandlerWrite
  <2>4. CASE NodeHandlerRead(n)
    BY <2>2, <2>4 DEF NodeHandlerRead
  <2>. QED
    BY <2>3, <2>4
<1>. QED
  BY <1>1, <1>2, <1>3, <1>4, AnswerMessages

LEMMA ClientHandlerMessages ==
  ASSUME Protocol, NEW n \in Nodes, ClientHandler(n)
  PROVE  Messages'
<1>. DEFINE m == Head(backlog[n])
<1>1. TypeOK /\ Messages /\ Accepts(n, "client")
  BY DEF Protocol, ClientHandler
<1>2. /\ m \in Connection /\ m.pkt \in Packet /\ m.from \in Clients
      /\ m.pkt.type = "client" /\ n \in up /\ pc[n] = "accept"
      /\ ConnectionOK(n, m) /\ Once(backlog[n])
  BY <1>1, HeadConnection
<1>3. call[m.from].pc = "request" /\ ForCoordinator(n, m.pkt)
  <2>1. call[m.from] # None /\ call[m.from] \in Call
    BY <1>1, <1>2, HeadConnection
    DEF Messages, RequestInOnePlace, Expects, TypeOK, Procs
  <2>. QED
    BY <1>2, <2>1 DEF ConnectionOK, ClientConnectionOK, Call
<1>4. /\ \A x \in Nodes \ {n} : backlog'[x] = backlog[x]
      /\ Once(backlog'[n])
      /\ Queues(backlog[n], m.from) /\ ~Queues(backlog'[n], m.from)
      /\ \A x : x # m.from => (Queues(backlog'[n], x) <=> Queues(backlog[n], x))
      /\ \A i \in 1 .. Len(backlog'[n]) :
           \E j \in 1 .. Len(backlog[n]) : backlog'[n][i] = backlog[n][j]
  BY <1>1, <1>2, DequeueEffect
<1>5. PICK q \in Packet :
        /\ q.key = m.pkt.key /\ q.rank = m.pkt.rank /\ q.type = "node"
        /\ cur' = [cur EXCEPT ![n] = [from |-> m.from, pkt |-> q]]
        /\ \/ /\ pc' = [pc EXCEPT ![n] = "writing"]
              /\ q.size # 0 /\ q.value \in Values
           \/ pc' = [pc EXCEPT ![n] = "reading"]
  <2>1. /\ Stamped(m.pkt) \in Packet
        /\ Stamped(m.pkt).key = m.pkt.key /\ Stamped(m.pkt).rank = m.pkt.rank
        /\ Stamped(m.pkt).value = m.pkt.value /\ Stamped(m.pkt).size = m.pkt.size
    BY <1>2, StampedType
  <2>2. /\ Read(n, m.pkt) \in Packet
        /\ Read(n, m.pkt).key = m.pkt.key /\ Read(n, m.pkt).rank = m.pkt.rank
    BY <1>1, <1>2, ReadType
  <2>3. ASSUME NEW p \in Packet
        PROVE  /\ [p EXCEPT !.type = "node"] \in Packet
               /\ [p EXCEPT !.type = "node"].key = p.key
               /\ [p EXCEPT !.type = "node"].type = "node"
               /\ [p EXCEPT !.type = "node"].rank = p.rank
               /\ [p EXCEPT !.type = "node"].size = p.size
               /\ [p EXCEPT !.type = "node"].value = p.value
    BY DEF Packet
  <2>4. CASE /\ m.pkt.size # 0 /\ m.pkt.value \in Values
             /\ pc' = [pc EXCEPT ![n] = "writing"]
             /\ cur' = [cur EXCEPT ![n] =
                          [from |-> m.from,
                           pkt |-> [Stamped(m.pkt) EXCEPT !.type = "node"]]]
    <3>. DEFINE q == [Stamped(m.pkt) EXCEPT !.type = "node"]
    <3>1. /\ q \in Packet /\ q.key = m.pkt.key /\ q.rank = m.pkt.rank
          /\ q.type = "node"
          /\ q.size # 0 /\ q.value \in Values
      BY <2>1, <2>3, <2>4
    <3>. QED
      BY <2>4, <3>1
  <2>5. CASE /\ pc' = [pc EXCEPT ![n] = "reading"]
             /\ cur' = [cur EXCEPT ![n] =
                          [from |-> m.from,
                           pkt |-> [Read(n, m.pkt) EXCEPT !.type = "node"]]]
    <3>. DEFINE q == [Read(n, m.pkt) EXCEPT !.type = "node"]
    <3>1. /\ q \in Packet /\ q.key = m.pkt.key /\ q.rank = m.pkt.rank
          /\ q.type = "node"
      BY <2>2, <2>3
    <3>. QED
      BY <2>5, <3>1
  <2>. QED
    BY <2>4, <2>5, ClientHandlerCases
<1>. PICK a \in Clients : a = m.from
  BY <1>2
<1>6. /\ cur'[n] = [from |-> a, pkt |-> q] /\ cur'[n] # None
      /\ cur[n] = None /\ fds[n] = {} /\ fds' = fds
      /\ \A x \in Nodes \ {n} : cur'[x] = cur[x] /\ pc'[x] = pc[x] /\ it'[x] = it[x]
      /\ pc'[n] # "accept" /\ UNCHANGED <<up, inbox, call>>
      /\ pc'[n] = "writing" => q.size # 0 /\ q.value \in Values
  <2>1. [from |-> a, pkt |-> q] \in Connection
    BY DEF Connection, Procs
  <2>2. cur[n] = None /\ fds[n] = {}
    BY <1>1, <1>2 DEF Messages, CoordinatorOK
  <2>. QED
    BY <1>1, <1>5, <2>1, <2>2, NoneAssumption DEF ClientHandler, TypeOK, clientVars
<1>7. a \in Procs /\ a \notin Nodes /\ Expects(a, n) /\ inbox[a][n] = None
  BY <1>1, <1>2, <1>4, ConstantFacts
  DEF Messages, RequestInOnePlace, Answered, Procs
<1>. HIDE DEF m
<1>8. \A p \in Procs, x \in Nodes : Expects(p, x)' <=> Expects(p, x)
  BY <1>6 DEF Expects
<1>9. \A p \in Procs, x \in Nodes : Serves(x, p)' <=> Serves(x, p) \/ (x = n /\ p = a)
  BY <1>6 DEF Serves
<1>10. RequestInOnePlace'
  <2>1. ASSUME NEW x \in Nodes \cap up', NEW p \in Procs
        PROVE  /\ Once(backlog'[x])
               /\ Expects(p, x)
                    <=> \/ Queues(backlog'[x], p) \/ inbox'[p][x] # None
                        \/ Serves(x, p) \/ (x = n /\ p = a)
               /\ Queues(backlog'[x], p)
                    => ~(Serves(x, p) \/ (x = n /\ p = a)) /\ inbox'[p][x] = None
               /\ Serves(x, p) \/ (x = n /\ p = a) => inbox'[p][x] = None
    <3>1. /\ x \in up /\ Once(backlog[x])
          /\ Expects(p, x) <=> Queues(backlog[x], p) \/ Serves(x, p)
                                 \/ inbox[p][x] # None
          /\ Queues(backlog[x], p) => ~Serves(x, p) /\ inbox[p][x] = None
          /\ Serves(x, p) => inbox[p][x] = None
      BY <1>1, <1>6, <2>1 DEF Messages, RequestInOnePlace, Answered
    <3>2. CASE x = n /\ p = a
      BY <1>4, <1>6, <1>7, <2>1, <3>2
    <3>3. CASE x # n \/ p # a
      BY <1>4, <1>6, <2>1, <3>1, <3>3
    <3>. QED
      BY <3>2, <3>3
  <2>2. ASSUME NEW x \in Nodes \cap up'
        PROVE  Once(backlog'[x])
    BY <1>7, <2>1
  <2>. QED
    BY <1>8, <1>9, <2>1, <2>2 DEF RequestInOnePlace, Answered
<1>11. \A x \in Nodes : CoordinatorOK(x)'
  <2>1. CoordinatorOK(n)'
    BY <1>3, <1>5, <1>6 DEF CoordinatorOK, ForCoordinator, m
  <2>2. ASSUME NEW x \in Nodes \ {n}
        PROVE  CoordinatorOK(x)'
    BY <1>1, <1>6 DEF Messages, CoordinatorOK, Reached, ForCoordinator
  <2>. QED
    BY <2>1, <2>2
<1>12. \A x \in Nodes \cap up' : QueueOK(x)'
  <2>1. ASSUME NEW x \in Nodes \cap up', NEW i \in 1 .. Len(backlog'[x])
        PROVE  ConnectionOK(x, backlog[x][i])'
    <3>1. PICK j \in 1 .. Len(backlog[x]) : backlog'[x][i] = backlog[x][j]
      BY <1>4, <2>1
    <3>2. ConnectionOK(x, backlog[x][j]) /\ backlog[x][j].from # n
          /\ backlog[x][j].from \in Procs
      <4>1. /\ ConnectionOK(x, backlog[x][j]) /\ backlog[x][j].from \in Procs
            /\ Queues(backlog[x], backlog[x][j].from)
        BY <1>1, <1>6, <2>1, <3>1, QueuedConnection DEF Messages, QueueOK
      <4>2. ~Queues(backlog[x], n)
        BY <1>1, <1>6, <2>1, ConstantFacts
        DEF Messages, RequestInOnePlace, Expects, Procs
      <4>. QED
        BY <4>1, <4>2
    <3>. QED
      BY <1>6, <3>1, <3>2
      DEF ConnectionOK, ClientConnectionOK, NodeConnectionOK, ForCoordinator, Procs
  <2>. QED
    BY <2>1 DEF QueueOK
<1>13. \A p \in Procs, x \in Nodes : ReplyOK(p, x)'
  <2>1. n \notin Clients /\ \A x \in Nodes : inbox'[n][x] = None
    BY <1>1, <1>6, ConstantFacts DEF Messages, ReplyOK, Expects, Procs
  <2>2. ASSUME NEW p \in Procs \ {n}, NEW x \in Nodes
        PROVE  ReplyOK(p, x)'
    BY <1>1, <1>6 DEF Messages, ReplyOK, Expects, Procs
  <2>. QED
    BY <2>1, <2>2 DEF ReplyOK
<1>. QED
  BY <1>10, <1>11, <1>12, <1>13 DEF Messages

LEMMA ContactReplicaMessages ==
  ASSUME Protocol, NEW n \in Nodes, ContactReplica(n)
  PROVE  Messages'
<1>. DEFINE T == Target(n)
            Q == IF pc[n] = "writing" THEN cur[n].pkt
                                      ELSE [cur[n].pkt EXCEPT !.size = 0]
            k == cur[n].pkt.key
<1>1. TypeOK /\ Messages /\ n \in Procs /\ n \notin Clients /\ Coordinates(n)
  BY ConstantFacts DEF Protocol, Procs, ContactReplica
<1>2. CASE Exit(n) /\ UNCHANGED <<backlog, it, fds>>
  BY <1>1, <1>2, SilentMessages DEF ContactReplica, Exit, nodeVars, clientVars
<1>3. CASE /\ Connectable(T) /\ Enqueue(n, T, Q)
           /\ it' = [it EXCEPT ![n] = @ + 1]
           /\ fds' = IF it[n] - 1 <= Awaited(n)
                     THEN [fds EXCEPT ![n] = @ \cup {T}] ELSE fds
           /\ UNCHANGED up
  <2>1. /\ n \in up /\ pc[n] \in {"writing", "reading"}
        /\ cur[n] \in Connection /\ cur[n] # None
        /\ cur[n].pkt \in Packet /\ cur[n].from \in Clients
        /\ ForCoordinator(n, cur[n].pkt) /\ cur[n].pkt.type = "node"
        /\ pc[n] = "writing" => cur[n].pkt.size # 0 /\ cur[n].pkt.value \in Values
        /\ fds[n] \subseteq Reached(n)
        /\ k \in Keys /\ it[n] \in 2 .. SIZE_PREFERENCE_LIST
    BY <1>1, CoordinatesFacts
    DEF ContactReplica, FanOutDone, SIZE_PREFERENCE_LIST, Packet
  <2>2. /\ T = PrefList[k][it[n]].node /\ T \in Nodes \cap up
        /\ T \in ReplicaNodes(k) /\ T \notin fds[n]
    <3>1. T = PrefList[k][it[n]].node /\ T \in Nodes
      BY <2>1, ConstantFacts DEF Target, SIZE_PREFERENCE_LIST
    <3>2. \A i \in 2 .. it[n] - 1 : PrefList[k][i].node # T
      BY <2>1, <3>1, PrefListAssumption DEF SIZE_PREFERENCE_LIST
    <3>3. T \notin fds[n]
      BY <2>1, <3>2 DEF Reached
    <3>. QED
      BY <1>3, <2>1, <3>1, <3>3 DEF Connectable, ReplicaNodes
  <2>3. /\ Q \in Packet /\ Q.type = "node" /\ Q.key = k
        /\ Q.rank = cur[n].pkt.rank
        /\ Q.size # 0 => Q.value \in Values
        /\ IF pc[n] = "writing" THEN Q = cur[n].pkt ELSE Q.size = 0
    BY <2>1 DEF Packet
  <2>a. PICK t \in Nodes, q \in Packet :
          /\ t = T /\ q = Q /\ t \in up /\ t \in ReplicaNodes(k) /\ t \notin fds[n]
          /\ Enqueue(n, t, q)
          /\ q.type = "node" /\ q.key = k /\ q.rank = cur[n].pkt.rank
          /\ q.size # 0 => q.value \in Values
          /\ IF pc[n] = "writing" THEN q = cur[n].pkt ELSE q.size = 0
    BY <1>3, <2>2, <2>3
  <2>. HIDE DEF Q, T, k
  <2>4. ~Queues(backlog[t], n) /\ ~Serves(t, n) /\ inbox[n][t] = None
    BY <1>1, <2>a DEF Messages, RequestInOnePlace, Expects, Answered
  <2>5. /\ \A x \in Nodes \ {t} : backlog'[x] = backlog[x]
        /\ \A x : Queues(backlog'[t], x) <=> Queues(backlog[t], x) \/ x = n
        /\ Once(backlog[t]) => Once(backlog'[t])
        /\ \A i \in 1 .. Len(backlog'[t]) :
              \/ backlog'[t][i] = [from |-> n, pkt |-> q]
              \/ \E j \in 1 .. Len(backlog[t]) : backlog'[t][i] = backlog[t][j]
    BY <1>1, <2>a, <2>4, EnqueueEffect
  <2>6. /\ fds'[n] = fds[n] \cup {t} /\ it'[n] = it[n] + 1
        /\ \A x \in Nodes \ {n} : fds'[x] = fds[x] /\ it'[x] = it[x]
        /\ UNCHANGED <<up, inbox, pc, cur, call>>
    <3>1. it[n] - 1 <= Awaited(n)
      BY <2>1 DEF Awaited, QUORUM_W, QUORUM_R, SIZE_PREFERENCE_LIST
    <3>. QED
      BY <1>1, <1>3, <2>a, <3>1 DEF ContactReplica, TypeOK, clientVars
  <2>7. \A p \in Procs, x \in Nodes :
          /\ Expects(p, x)' <=> Expects(p, x) \/ (p = n /\ x = t)
          /\ Serves(x, p)' <=> Serves(x, p)
    BY <1>1, <2>6 DEF Expects, Serves, Procs
  <2>8. RequestInOnePlace'
    <3>1. ASSUME NEW x \in Nodes \cap up', NEW p \in Procs
          PROVE  /\ Once(backlog'[x])
                 /\ Expects(p, x) \/ (p = n /\ x = t)
                      <=> Queues(backlog'[x], p) \/ Serves(x, p) \/ inbox'[p][x] # None
                 /\ Queues(backlog'[x], p) => ~Serves(x, p) /\ inbox'[p][x] = None
                 /\ Serves(x, p) => inbox'[p][x] = None
      <4>1. /\ x \in up /\ Once(backlog[x])
            /\ Expects(p, x) <=> Queues(backlog[x], p) \/ Serves(x, p)
                                   \/ inbox[p][x] # None
            /\ Queues(backlog[x], p) => ~Serves(x, p) /\ inbox[p][x] = None
            /\ Serves(x, p) => inbox[p][x] = None
        BY <1>1, <2>6, <3>1 DEF Messages, RequestInOnePlace, Answered
      <4>. QED
        BY <2>4, <2>5, <2>6, <4>1
    <3>2. ASSUME NEW x \in Nodes \cap up'
          PROVE  Once(backlog'[x])
      BY <1>1, <3>1
    <3>. QED
      BY <2>7, <3>1, <3>2 DEF RequestInOnePlace, Answered
  <2>9. \A x \in Nodes : CoordinatorOK(x)'
    <3>1. fds'[n] \subseteq Reached(n)'
      <4>1. cur'[n].pkt.key = k
        BY <2>6 DEF k
      <4>2. Reached(n)' = {PrefList[k][i].node : i \in 2 .. it[n]}
        BY <2>1, <2>6, <4>1 DEF Reached, SIZE_PREFERENCE_LIST
      <4>3. Reached(n) \subseteq {PrefList[k][i].node : i \in 2 .. it[n]}
        BY <2>1 DEF Reached, k, SIZE_PREFERENCE_LIST
      <4>4. t \in {PrefList[k][i].node : i \in 2 .. it[n]}
        BY <2>1, <2>2, <2>a DEF SIZE_PREFERENCE_LIST
      <4>. QED
        BY <2>1, <2>6, <4>2, <4>3, <4>4
    <3>2. CoordinatorOK(n)'
      BY <1>1, <2>1, <2>6, <3>1 DEF Messages, CoordinatorOK, ForCoordinator
    <3>3. ASSUME NEW x \in Nodes \ {n}
          PROVE  CoordinatorOK(x)'
      BY <1>1, <2>6 DEF Messages, CoordinatorOK, Reached, ForCoordinator
    <3>. QED
      BY <3>2, <3>3
  <2>10. \A x \in Nodes \cap up' : QueueOK(x)'
    <3>1. ASSUME NEW x \in Nodes \cap up', NEW i \in 1 .. Len(backlog'[x])
          PROVE  ConnectionOK(x, backlog[x][i])'
      <4>1. CASE x = t /\ backlog'[x][i] = [from |-> n, pkt |-> q]
        BY <1>1, <2>1, <2>a, <2>6, <4>1 DEF ConnectionOK, NodeConnectionOK, k
      <4>2. CASE \E j \in 1 .. Len(backlog[x]) : backlog'[x][i] = backlog[x][j]
        <5>1. PICK j \in 1 .. Len(backlog[x]) : backlog'[x][i] = backlog[x][j]
          BY <4>2
        <5>2. ConnectionOK(x, backlog[x][j])
          BY <1>1, <2>6, <3>1 DEF Messages, QueueOK
        <5>. QED
          BY <2>6, <5>1, <5>2
          DEF ConnectionOK, ClientConnectionOK, NodeConnectionOK, ForCoordinator
      <4>. QED
        BY <2>5, <4>1, <4>2
    <3>. QED
      BY <3>1 DEF QueueOK
  <2>11. \A p \in Procs, x \in Nodes : ReplyOK(p, x)'
    BY <1>1, <2>6, <2>7 DEF Messages, ReplyOK
  <2>. QED
    BY <2>8, <2>9, <2>10, <2>11 DEF Messages
<1>. QED
  BY <1>2, <1>3 DEF ContactReplica

(* A future of the fan-out of n ends, for the replica r.                   *)
LEMMA FutureDoneMessages ==
  ASSUME Protocol, NEW n \in Nodes, NEW r \in Nodes,
         ReplicaReply(n, r) \/ ReplicaLost(n, r)
  PROVE  Messages'
<1>1. /\ TypeOK /\ Messages /\ n \in Procs /\ n \notin Clients
      /\ Coordinates(n) /\ r \in fds[n]
  BY ConstantFacts DEF Protocol, Procs, ReplicaReply, ReplicaLost
<1>2. /\ cur[n] \in Connection /\ cur[n] # None
      /\ ForCoordinator(n, cur[n].pkt) /\ cur[n].pkt.type = "node"
      /\ cur[n].from \in Clients /\ fds[n] \subseteq Reached(n)
      /\ pc[n] \in {"writing", "reading"}
  BY <1>1, CoordinatesFacts
<1>3. /\ inbox'[n][r] = None
      /\ \A p \in Procs, x \in Nodes :
           p # n \/ x # r => inbox'[p][x] = inbox[p][x]
  <2>1. CASE Take(n, r)
    BY <1>1, <2>1 DEF TypeOK, Take
  <2>2. CASE inbox[n][r] = None /\ UNCHANGED inbox
    BY <2>2
  <2>. QED
    BY <2>1, <2>2 DEF ReplicaReply, ReplicaLost, PeerLost
<1>4. /\ fds'[n] = fds[n] \ {r} /\ \A x \in Nodes \ {n} : fds'[x] = fds[x]
      /\ UNCHANGED <<up, backlog, pc, it, call>>
  BY <1>1 DEF ReplicaReply, ReplicaLost, TypeOK, clientVars
<1>5. /\ \A x \in Nodes \ {n} : cur'[x] = cur[x]
      /\ cur'[n] # None /\ cur'[n].from = cur[n].from
      /\ cur'[n].pkt.key = cur[n].pkt.key /\ cur'[n].pkt.rank = cur[n].pkt.rank
      /\ cur'[n].pkt.type = "node"
      /\ pc[n] = "writing" => cur'[n] = cur[n]
  <2>1. CASE cur' = cur
    BY <1>2, <2>1
  <2>2. CASE /\ pc[n] = "reading" /\ inbox[n][r] # None
             /\ cur' = [cur EXCEPT ![n].pkt = inbox[n][r]]
    <3>1. /\ inbox[n][r] \in Packet /\ inbox[n][r].type = "node"
          /\ inbox[n][r].key = cur[n].pkt.key
          /\ inbox[n][r].rank = cur[n].pkt.rank
      BY <1>1, <2>2 DEF Messages, ReplyOK
    <3>2. [cur[n] EXCEPT !.pkt = inbox[n][r]] \in Connection
      BY <1>2, <3>1 DEF Connection
    <3>. QED
      BY <1>1, <1>2, <2>2, <3>1, <3>2, NoneAssumption DEF TypeOK, Connection
  <2>. QED
    BY <2>1, <2>2 DEF ReplicaReply, ReplicaLost
<1>6. \A p \in Procs, x \in Nodes :
        /\ Expects(p, x)' <=> Expects(p, x) /\ ~(p = n /\ x = r)
        /\ Serves(x, p)' <=> Serves(x, p)
  BY <1>1, <1>2, <1>4, <1>5 DEF Expects, Serves, Procs
<1>7. r \in up => /\ ~Queues(backlog[r], n) /\ ~Serves(r, n)
  <2>1. r \in up => inbox[n][r] # None
    BY DEF ReplicaReply, ReplicaLost, PeerLost
  <2>. QED
    BY <1>1, <2>1 DEF Messages, RequestInOnePlace, Answered
<1>8. RequestInOnePlace'
  <2>1. ASSUME NEW x \in Nodes \cap up', NEW p \in Procs
        PROVE  /\ Expects(p, x) /\ ~(p = n /\ x = r)
                    <=> Queues(backlog[x], p) \/ Serves(x, p) \/ inbox'[p][x] # None
               /\ Queues(backlog[x], p) => ~Serves(x, p) /\ inbox'[p][x] = None
               /\ Serves(x, p) => inbox'[p][x] = None
    <3>1. /\ x \in up
          /\ Expects(p, x) <=> Queues(backlog[x], p) \/ Serves(x, p)
                                 \/ inbox[p][x] # None
          /\ Queues(backlog[x], p) => ~Serves(x, p) /\ inbox[p][x] = None
          /\ Serves(x, p) => inbox[p][x] = None
      BY <1>1, <1>4, <2>1 DEF Messages, RequestInOnePlace, Answered
    <3>. QED
      BY <1>3, <1>7, <3>1
  <2>2. \A x \in Nodes \cap up' : Once(backlog[x])'
    BY <1>1, <1>4 DEF Messages, RequestInOnePlace
  <2>. QED
    BY <1>4, <1>6, <2>1, <2>2 DEF RequestInOnePlace, Answered
<1>9. \A x \in Nodes : CoordinatorOK(x)'
  <2>1. CoordinatorOK(n)'
    BY <1>1, <1>2, <1>4, <1>5 DEF Messages, CoordinatorOK, Reached, ForCoordinator
  <2>2. ASSUME NEW x \in Nodes \ {n}
        PROVE  CoordinatorOK(x)'
    BY <1>1, <1>4, <1>5 DEF Messages, CoordinatorOK, Reached, ForCoordinator
  <2>. QED
    BY <2>1, <2>2
<1>10. \A x \in Nodes \cap up' : QueueOK(x)'
  <2>1. ASSUME NEW x \in Nodes \cap up', NEW i \in 1 .. Len(backlog'[x])
        PROVE  ConnectionOK(x, backlog[x][i])'
    <3>1. ConnectionOK(x, backlog[x][i]) /\ backlog[x][i].from \in Procs
      BY <1>1, <1>4, QueuedConnection DEF Messages, QueueOK
    <3>2. \A a \in Nodes : /\ cur[a] # None => cur'[a] # None
                           /\ cur'[a].pkt.key = cur[a].pkt.key
                           /\ cur'[a].pkt.rank = cur[a].pkt.rank
                           /\ pc[a] = "writing" => cur'[a] = cur[a]
      BY <1>5
    <3>. QED
      BY <1>4, <3>1, <3>2
      DEF ConnectionOK, ClientConnectionOK, NodeConnectionOK, ForCoordinator, Procs
  <2>. QED
    BY <2>1 DEF QueueOK
<1>11. \A p \in Procs, x \in Nodes : ReplyOK(p, x)'
  <2>1. ASSUME NEW p \in Procs, NEW x \in Nodes, p # n \/ x # r
        PROVE  ReplyOK(p, x)'
    <3>1. ReplyOK(p, x) /\ inbox'[p][x] = inbox[p][x] /\ (Expects(p, x)' <=> Expects(p, x))
      BY <1>1, <1>3, <1>6, <2>1 DEF Messages
    <3>2. p \notin Clients => /\ cur[p] # None => cur'[p] # None
                              /\ cur'[p].pkt.key = cur[p].pkt.key
                              /\ cur'[p].pkt.rank = cur[p].pkt.rank
      BY <1>5 DEF Procs
    <3>. QED
      BY <1>4, <3>1, <3>2 DEF ReplyOK
  <2>2. ReplyOK(n, r)'
    BY <1>3 DEF ReplyOK
  <2>. QED
    BY <2>1, <2>2
<1>. QED
  BY <1>8, <1>9, <1>10, <1>11 DEF Messages

LEMMA RespondMessages ==
  ASSUME Protocol, NEW n \in Nodes, Respond(n)
  PROVE  Messages'
<1>. DEFINE Q == IF pc[n] = "writing" THEN WriteBackPack(cur[n].pkt)
                                      ELSE ReadBackPack(cur[n].pkt)
<1>1. /\ TypeOK /\ Messages /\ n \in Procs /\ n \notin Clients
      /\ Coordinates(n) /\ fds[n] = {}
  BY ConstantFacts DEF Protocol, Procs, Respond
<1>2. /\ n \in up /\ cur[n] # None /\ cur[n].from \in Clients
      /\ call[cur[n].from].pc = "request" /\ cur[n].pkt \in Packet
  BY <1>1, CoordinatesFacts DEF Messages, CoordinatorOK
<1>3. CASE cur[n].from \notin up
  BY <1>1, <1>3, SilentMessages DEF Respond, SendBack, Exit, nodeVars, clientVars
<1>4. CASE cur[n].from \in up
  <2>1. PICK a \in Clients, q \in Packet :
          /\ a = cur[n].from /\ call[a].pc = "request"
          /\ inbox' = [inbox EXCEPT ![a][n] = q]
    <3>1. Q \in Packet
      BY <1>2 DEF WriteBackPack, ReadBackPack, Packet
    <3>2. inbox' = [inbox EXCEPT ![cur[n].from][n] = Q]
      BY <1>4 DEF Respond, SendBack
    <3>. QED
      BY <1>2, <3>1, <3>2
  <2>2. /\ a \in Procs /\ a \notin Nodes /\ q # None
        /\ inbox'[a][n] = q
        /\ \A p \in Procs, x \in Nodes :
             p # a \/ x # n => inbox'[p][x] = inbox[p][x]
    BY <1>1, <2>1, ConstantFacts, NoneAssumption DEF TypeOK, Procs
  <2>3. /\ pc'[n] = "accept" /\ cur'[n] = None
        /\ \A x \in Nodes \ {n} : pc'[x] = pc[x] /\ cur'[x] = cur[x]
        /\ UNCHANGED <<up, backlog, it, fds, call>>
    BY <1>1, <1>4 DEF Respond, SendBack, TypeOK, clientVars
  <2>4. Expects(a, n) /\ ~Queues(backlog[n], a) /\ inbox[a][n] = None
    <3>1. Serves(n, a)
      BY <1>2, <2>1 DEF Serves
    <3>. QED
      BY <1>1, <1>2, <2>2, <3>1 DEF Messages, RequestInOnePlace, Answered
  <2>5. \A p \in Procs, x \in Nodes :
          /\ Expects(p, x)' <=> Expects(p, x)
          /\ Serves(x, p)' <=> Serves(x, p) /\ ~(p = a /\ x = n)
    BY <1>2, <2>1, <2>3 DEF Expects, Serves
  <2>6. RequestInOnePlace'
    <3>1. ASSUME NEW x \in Nodes \cap up', NEW p \in Procs
          PROVE  /\ Expects(p, x)
                      <=> \/ Queues(backlog[x], p) \/ inbox'[p][x] # None
                          \/ (Serves(x, p) /\ ~(p = a /\ x = n))
                 /\ Queues(backlog[x], p)
                      => ~(Serves(x, p) /\ ~(p = a /\ x = n)) /\ inbox'[p][x] = None
                 /\ Serves(x, p) /\ ~(p = a /\ x = n) => inbox'[p][x] = None
      <4>1. /\ x \in up
            /\ Expects(p, x) <=> Queues(backlog[x], p) \/ Serves(x, p)
                                   \/ inbox[p][x] # None
            /\ Queues(backlog[x], p) => ~Serves(x, p) /\ inbox[p][x] = None
            /\ Serves(x, p) => inbox[p][x] = None
        BY <1>1, <2>3, <3>1 DEF Messages, RequestInOnePlace, Answered
      <4>. QED
        BY <2>2, <2>4, <4>1
    <3>2. \A x \in Nodes \cap up' : Once(backlog[x])'
      BY <1>1, <2>3 DEF Messages, RequestInOnePlace
    <3>. QED
      BY <2>3, <2>5, <3>1, <3>2 DEF RequestInOnePlace, Answered
  <2>7. \A x \in Nodes : CoordinatorOK(x)'
    <3>1. CoordinatorOK(n)'
      BY <1>1, <2>3 DEF CoordinatorOK
    <3>2. ASSUME NEW x \in Nodes \ {n}
          PROVE  CoordinatorOK(x)'
      BY <1>1, <2>3 DEF Messages, CoordinatorOK, Reached, ForCoordinator
    <3>. QED
      BY <3>1, <3>2
  <2>8. \A x \in Nodes \cap up' : QueueOK(x)'
    <3>1. ASSUME NEW x \in Nodes \cap up', NEW i \in 1 .. Len(backlog'[x])
          PROVE  ConnectionOK(x, backlog[x][i])'
      <4>1. /\ ConnectionOK(x, backlog[x][i]) /\ backlog[x][i].from \in Procs
            /\ Queues(backlog[x], backlog[x][i].from)
        BY <1>1, <2>3, QueuedConnection DEF Messages, QueueOK
      <4>2. ~Queues(backlog[x], n)
        BY <1>1, <2>3, <3>1 DEF Messages, RequestInOnePlace, Expects
      <4>. QED
        BY <2>3, <4>1, <4>2
        DEF ConnectionOK, ClientConnectionOK, NodeConnectionOK, ForCoordinator, Procs
    <3>. QED
      BY <3>1 DEF QueueOK
  <2>9. \A p \in Procs, x \in Nodes : ReplyOK(p, x)'
    <3>1. \A x \in Nodes : inbox'[n][x] = None
      BY <1>1, <2>2 DEF Messages, ReplyOK, Expects
    <3>2. ReplyOK(a, n)'
      BY <2>1, <2>2, <2>3, <2>4, <2>5 DEF ReplyOK
    <3>3. ASSUME NEW p \in Procs \ {n}, NEW x \in Nodes, p # a \/ x # n
          PROVE  ReplyOK(p, x)'
      BY <1>1, <2>2, <2>3, <2>5, <3>3 DEF Messages, ReplyOK, Procs
    <3>. QED
      BY <3>1, <3>2, <3>3 DEF ReplyOK
  <2>. QED
    BY <2>6, <2>7, <2>8, <2>9 DEF Messages
<1>. QED
  BY <1>3, <1>4

(* Every step keeps the packets in order.                                  *)
LEMMA NextMessages ==
  ASSUME Protocol, [Next]_vars
  PROVE  Messages'
<1>0. Messages /\ TypeOK
  BY DEF Protocol
<1>1. ASSUME NEW c \in Clients, Put(c)
      PROVE  Messages'
  BY <1>1, BeginMessages, ProcsAssumption, DataAssumption DEF Put
<1>2. ASSUME NEW c \in Clients, Get(c)
      PROVE  Messages'
  BY <1>2, BeginMessages, DataAssumption DEF Get
<1>3. ASSUME NEW c \in Clients, ClientStep(c)
      PROVE  Messages'
  <2>1. CASE LookupLost(c)
    BY <1>0, <2>1, SilentMessages DEF LookupLost, Exit, clientVars
  <2>. QED
    BY <1>3, <2>1, ContactCoordinatorMessages, ReturnMessages DEF ClientStep
<1>4. ASSUME NEW n \in Nodes, NodeStep(n)
      PROVE  Messages'
  BY <1>4, ClientCoordinatorMessages, NodeHandlerMessages, ClientHandlerMessages,
     ContactReplicaMessages, FutureDoneMessages, RespondMessages
  DEF NodeStep
<1>5. ASSUME NEW p \in Procs, Kill(p)
      PROVE  Messages'
  BY <1>0, <1>5, SilentMessages DEF Kill, Exit, clientVars
<1>6. CASE UNCHANGED vars
  BY <1>0, <1>6, SilentMessages DEF vars, clientVars
<1>7. ASSUME NEW c \in Clients, LookupBroken(c)
      PROVE  Messages'
  BY <1>0, <1>7, SilentMessages DEF LookupBroken, Exit, clientVars
<1>. QED
  BY <1>1, <1>2, <1>3, <1>4, <1>5, <1>6, <1>7 DEF Next

LEMMA InitProtocol == Init => Protocol
<1>. SUFFICES ASSUME Init PROVE Messages
  BY InitTypeOK DEF Protocol
<1>1. RequestInOnePlace
  BY DEF Init, RequestInOnePlace, Once, Queues, Serves, Answered, Expects, Procs
<1>. QED
  BY <1>1 DEF Init, Messages, CoordinatorOK, QueueOK, ReplyOK

(***************************************************************************)
(* The variables keep the types of the fields and locals they stand for,   *)
(* whatever the sizes of the system, and every packet belongs to the call  *)
(* or fan-out that sent it.                                                *)
(***************************************************************************)
THEOREM ProtocolHolds == Spec => []Protocol
<1>1. Init => Protocol
  BY InitProtocol
<1>2. Protocol /\ [Next]_vars => Protocol'
  BY NextTypeOK, NextMessages DEF Protocol
<1>. QED
  BY <1>1, <1>2, PTL DEF Spec

(* Type correctness, for every value of the constants.                     *)
THEOREM TypeCorrect == Spec => []TypeOK
<1>1. Protocol => TypeOK
  BY DEF Protocol
<1>. QED
  BY <1>1, ProtocolHolds, PTL

(* No request is lost, duplicated or left over, for every value of the     *)
(* constants and through every kill.                                       *)
THEOREM RequestsInOnePlace == Spec => []RequestInOnePlace
<1>1. Protocol => RequestInOnePlace
  BY DEF Protocol, Messages
<1>. QED
  BY <1>1, ProtocolHolds, PTL

-----------------------------------------------------------------------------
(* Replication.                                                            *)

(* A write changes one entry of one virtual node.                          *)
LEMMA WriteEffect ==
  ASSUME TypeOK, NEW n \in Nodes, NEW p \in Packet, p.value \in Values,
         Write(n, p), RankOK(n, p.rank), p.rank = CoordRank(p.key)
  PROVE  \A x \in Nodes, k \in Keys :
           CellAt(x, k)' = IF x = n /\ k = p.key
                           THEN [val |-> p.value, ver |-> p.timpStamp]
                           ELSE CellAt(x, k)
<1>. DEFINE C == [val |-> p.value, ver |-> p.timpStamp]
            r == p.rank
            l == p.key
<1>1. store \in [Nodes -> [Ranks -> [Keys -> Cell]]]
  BY DEF TypeOK
<1>2. r \in Ranks /\ l \in Keys /\ C \in Cell
  BY DEF Packet, Cell
<1>3. store' = [store EXCEPT ![n][r][l] = C]
  BY DEF Write
<1>4. \A k \in Keys : CoordRank(k) \in Ranks
  BY ConstantFacts
<1>5. r = CoordRank(l)
  OBVIOUS
<1>. HIDE DEF C, r, l
<1>6. \A x \in Nodes, y \in Ranks, z \in Keys :
        store'[x][y][z] = IF x = n /\ y = r /\ z = l THEN C ELSE store[x][y][z]
  BY <1>1, <1>2, <1>3, Lookup3
<1>7. ASSUME NEW x \in Nodes, NEW k \in Keys
      PROVE  CellAt(x, k)' = IF x = n /\ k = l THEN C ELSE CellAt(x, k)
  BY <1>4, <1>5, <1>6 DEF CellAt
<1>. QED
  BY <1>7 DEF C, l

(* Replicas and coordinators are nodes.                                    *)
LEMMA ReplicaFacts ==
  ASSUME NEW k \in Keys
  PROVE  /\ Coordinator(k) \in Nodes /\ ReplicaNodes(k) \subseteq Nodes
         /\ Coordinator(k) \notin ReplicaNodes(k)
         /\ \A i \in 2 .. SIZE_PREFERENCE_LIST : PrefList[k][i].node \in ReplicaNodes(k)
         /\ \A r \in ReplicaNodes(k) :
              \E i \in 2 .. SIZE_PREFERENCE_LIST : r = PrefList[k][i].node
         /\ Holders(k) = {Coordinator(k)} \cup ReplicaNodes(k)
BY ConstantFacts DEF ReplicaNodes, Holders, SIZE_PREFERENCE_LIST

(* A step that stores nothing and ends no fan-out.                         *)
LEMMA QuietReplication ==
  ASSUME Protocol, Replication, up' \subseteq up, UNCHANGED store,
         \A n \in Nodes : pc'[n] = "writing" <=> pc[n] = "writing",
         \A n \in Nodes : pc[n] = "writing" =>
           /\ cur'[n] = cur[n]
           /\ \A r \in Nodes \cap up' :
                Queues(backlog[r], n) => Queues(backlog'[r], n)
           /\ \A i \in 2 .. SIZE_PREFERENCE_LIST :
                i < it'[n] /\ ~(i < it[n])
                  => Queues(backlog'[PrefList[cur[n].pkt.key][i].node], n)
  PROVE  Replication'
<1>1. Replication /\ TypeOK /\ \A n \in Nodes : CoordinatorOK(n)
  BY DEF Protocol, Messages
<1>2. \A n \in Nodes, k \in Keys : CellAt(n, k)' = CellAt(n, k)
  BY DEF CellAt
<1>3. ReplicasAgree'
  <2>1. ASSUME NEW k \in Keys, NEW n \in Nodes, n = Coordinator(k),
               n \in up', ~Writing(n, k)',
               NEW r \in ReplicaNodes(k) \cap up'
        PROVE  CellAt(r, k)' = CellAt(n, k)'
    <3>1. ~Writing(n, k)
      BY <2>1 DEF Writing
    <3>2. CellAt(r, k) = CellAt(n, k)
      BY <1>1, <2>1, <3>1 DEF Replication, ReplicasAgree
    <3>. QED
      BY <1>2, <2>1, <3>2, ReplicaFacts
  <2>. QED
    BY <2>1, ReplicaFacts DEF ReplicasAgree
<1>4. ASSUME NEW n \in Nodes
      PROVE  FanOutOK(n)'
  <2>. SUFFICES ASSUME n \in up', pc'[n] = "writing"
                PROVE  FanOutOK(n)'
    BY DEF FanOutOK
  <2>. DEFINE K == cur[n].pkt.key
  <2>1. /\ FanOutOK(n) /\ n \in up /\ pc[n] = "writing" /\ cur'[n] = cur[n]
        /\ K \in Keys
    <3>1. cur[n] \in Connection
      BY <1>1 DEF CoordinatorOK, TypeOK
    <3>. QED
      BY <1>1, <3>1 DEF Replication, Connection, Packet
  <2>2. CellAt(n, K) = [val |-> cur[n].pkt.value, ver |-> cur[n].pkt.timpStamp]
    BY <2>1 DEF FanOutOK
  <2>3. PICK k \in Keys : k = K
    BY <2>1
  <2>. HIDE DEF K
  <2>4. ASSUME NEW i \in 2 .. SIZE_PREFERENCE_LIST, NEW r \in Nodes,
               r = PrefList[k][i].node, i < it'[n], r \in up',
               ~Queues(backlog'[r], n)
        PROVE  CellAt(r, k)' = CellAt(n, k)'
    <3>1. i < it[n] /\ ~Queues(backlog[r], n) /\ r \in up
      BY <2>1, <2>3, <2>4 DEF K
    <3>2. CellAt(r, k) = CellAt(n, k)
      BY <2>1, <2>3, <2>4, <3>1 DEF FanOutOK, K
    <3>. QED
      BY <1>2, <3>2
  <2>5. \A i \in 2 .. SIZE_PREFERENCE_LIST : PrefList[k][i].node \in Nodes
    BY ReplicaFacts
  <2>6. cur'[n].pkt.key = k /\ CellAt(n, k)' = [val |-> cur'[n].pkt.value,
                                               ver |-> cur'[n].pkt.timpStamp]
    BY <1>2, <2>1, <2>2, <2>3 DEF K
  <2>. QED
    BY <2>4, <2>5, <2>6 DEF FanOutOK
<1>. QED
  BY <1>3, <1>4 DEF Replication

LEMMA NodeHandlerWriteReplication ==
  ASSUME SameRanks, Protocol, Replication, NEW n \in Nodes, NodeHandlerWrite(n)
  PROVE  Replication'
<1>. DEFINE M == Head(backlog[n])
<1>1. /\ TypeOK /\ Accepts(n, "node") /\ M.pkt.size # 0 /\ Write(n, M.pkt)
      /\ \A x \in Nodes : CoordinatorOK(x)
      /\ UNCHANGED nodeVars /\ up' \subseteq up
  BY DEF Protocol, Messages, NodeHandlerWrite, SendBack, Exit
<1>2. /\ M.pkt \in Packet /\ M.pkt.value \in Values /\ M.from \in Nodes
      /\ NodeConnectionOK(n, M) /\ Once(backlog[n])
  BY <1>1, HeadConnection DEF ConnectionOK
<1>3. PICK a \in Nodes, k \in Keys, p \in Packet :
        /\ a = M.from /\ p = M.pkt /\ k = p.key
        /\ p = cur[a].pkt /\ pc[a] = "writing"
        /\ a = Coordinator(k) /\ p.rank = CoordRank(k)
        /\ n \in ReplicaNodes(k)
  <2>1. M.pkt.key \in Keys
    BY <1>2 DEF Packet
  <2>2. pc[M.from] = "writing"
    BY <1>1, <1>2 DEF NodeConnectionOK, CoordinatorOK, TypeOK
  <2>3. M.pkt = cur[M.from].pkt /\ ForCoordinator(M.from, M.pkt)
    BY <1>1, <1>2, <2>2 DEF NodeConnectionOK, CoordinatorOK
  <2>. QED
    BY <1>2, <2>1, <2>2, <2>3 DEF NodeConnectionOK, ForCoordinator
<1>4. /\ \A x \in Nodes \ {n} : backlog'[x] = backlog[x]
      /\ \A x : x # a => (Queues(backlog'[n], x) <=> Queues(backlog[n], x))
  BY <1>1, <1>2, <1>3, DequeueEffect
<1>5. a # n /\ RankOK(n, p.rank)
  BY <1>3, ReplicaFacts DEF SameRanks
<1>6. \A x \in Nodes, l \in Keys :
        CellAt(x, l)' = IF x = n /\ l = k
                        THEN [val |-> p.value, ver |-> p.timpStamp]
                        ELSE CellAt(x, l)
  BY <1>1, <1>2, <1>3, <1>5, WriteEffect
<1>. HIDE DEF M
<1>7. ReplicasAgree'
  <2>1. ASSUME NEW l \in Keys, NEW x \in Nodes, x = Coordinator(l),
               x \in up', ~Writing(x, l)', NEW r \in ReplicaNodes(l) \cap up'
        PROVE  CellAt(r, l)' = CellAt(x, l)'
    <3>1. ~Writing(x, l) /\ l # k
      BY <1>1, <1>3, <2>1 DEF Writing, nodeVars
    <3>2. CellAt(r, l) = CellAt(x, l)
      BY <1>1, <2>1, <3>1 DEF Replication, ReplicasAgree
    <3>. QED
      BY <1>6, <2>1, <3>1, <3>2, ReplicaFacts
  <2>. QED
    BY <2>1, ReplicaFacts DEF ReplicasAgree
<1>8. ASSUME NEW x \in Nodes
      PROVE  FanOutOK(x)'
  <2>. SUFFICES ASSUME x \in up', pc'[x] = "writing"
                PROVE  FanOutOK(x)'
    BY DEF FanOutOK
  <2>1. /\ FanOutOK(x) /\ x \in up /\ pc[x] = "writing" /\ cur'[x] = cur[x]
        /\ it'[x] = it[x]
    BY <1>1 DEF Replication, nodeVars
  <2>2. PICK l \in Keys : /\ l = cur[x].pkt.key /\ x = Coordinator(l)
                          /\ CellAt(x, l) = [val |-> cur[x].pkt.value,
                                             ver |-> cur[x].pkt.timpStamp]
    <3>1. cur[x] \in Connection /\ ForCoordinator(x, cur[x].pkt)
      BY <1>1, <2>1 DEF CoordinatorOK, TypeOK
    <3>. QED
      BY <2>1, <3>1 DEF FanOutOK, Connection, Packet, ForCoordinator
  <2>3. CellAt(x, l)' = CellAt(x, l)
    BY <1>3, <1>5, <1>6, <2>2
  <2>4. ASSUME NEW i \in 2 .. SIZE_PREFERENCE_LIST, NEW r \in Nodes,
               r = PrefList[l][i].node, i < it'[x], r \in up',
               ~Queues(backlog'[r], x)
        PROVE  CellAt(r, l)' = CellAt(x, l)'
    <3>1. CASE r = n /\ l = k
      <4>1. x = a /\ cur[x].pkt = p
        BY <1>3, <2>2, <3>1
      <4>2. CellAt(r, l)' = [val |-> p.value, ver |-> p.timpStamp]
        BY <1>6, <3>1
      <4>. QED
        BY <2>2, <2>3, <4>1, <4>2
    <3>2. CASE ~(r = n /\ l = k)
      <4>1. ~Queues(backlog[r], x)
        BY <1>3, <1>4, <2>2, <2>4, <3>2
      <4>2. CellAt(r, l) = CellAt(x, l)
        BY <1>1, <2>1, <2>2, <2>4, <4>1 DEF FanOutOK
      <4>. QED
        BY <1>6, <2>3, <3>2, <4>2
    <3>. QED
      BY <3>1, <3>2
  <2>5. \A i \in 2 .. SIZE_PREFERENCE_LIST : PrefList[l][i].node \in Nodes
    BY ReplicaFacts
  <2>6. cur'[x].pkt.key = l /\ CellAt(x, l)' = [val |-> cur'[x].pkt.value,
                                               ver |-> cur'[x].pkt.timpStamp]
    BY <2>1, <2>2, <2>3
  <2>. QED
    BY <2>4, <2>5, <2>6 DEF FanOutOK
<1>. QED
  BY <1>7, <1>8 DEF Replication
(* A connection joins the queue of its target and leaves no other.         *)
LEMMA EnqueueKeeps ==
  ASSUME TypeOK, NEW p \in Procs, NEW t \in Nodes, NEW m \in Packet,
         Enqueue(p, t, m)
  PROVE  /\ Queues(backlog'[t], p)
         /\ \A r \in Nodes : \A x : Queues(backlog[r], x) => Queues(backlog'[r], x)
<1>. DEFINE conn == [from |-> p, pkt |-> m]
<1>1. conn \in Connection /\ conn.from = p /\ backlog \in [Nodes -> Seq(Connection)]
  BY DEF Connection, TypeOK
<1>2. backlog' = [backlog EXCEPT ![t] = Append(backlog[t], conn)]
  BY DEF Enqueue
<1>. HIDE DEF conn
<1>3. /\ backlog'[t] = Append(backlog[t], conn)
      /\ \A r \in Nodes \ {t} : backlog'[r] = backlog[r]
      /\ backlog[t] \in Seq(Connection)
  BY <1>1, <1>2
<1>4. \A x : Queues(backlog'[t], x) <=> Queues(backlog[t], x) \/ conn.from = x
  BY <1>1, <1>3, AppendQueue
<1>. QED
  BY <1>1, <1>3, <1>4

(* The connections of the storage nodes that are writing stay queued when  *)
(* a node accepts a client's connection, or the one of a reader.           *)
LEMMA AcceptKeeps ==
  ASSUME Protocol, NEW n \in Nodes, NEW type, Accepts(n, type),
         \/ Head(backlog[n]).from \in Clients
         \/ pc[Head(backlog[n]).from] # "writing"
  PROVE  \A x \in Nodes : pc[x] = "writing" =>
           \A r \in Nodes : Queues(backlog[r], x) => Queues(backlog'[r], x)
<1>1. TypeOK /\ Once(backlog[n])
  BY HeadConnection DEF Protocol
<1>2. /\ \A r \in Nodes \ {n} : backlog'[r] = backlog[r]
      /\ \A x : x # Head(backlog[n]).from
                  => (Queues(backlog'[n], x) <=> Queues(backlog[n], x))
  BY <1>1, DequeueEffect
<1>. QED
  BY <1>2, ConstantFacts

LEMMA AcceptedReplication ==
  ASSUME Protocol, Replication, NEW n \in Nodes,
         ClientCoordinator(n) \/ NodeHandlerRead(n)
  PROVE  Replication'
<1>. DEFINE M == Head(backlog[n])
<1>1. up' \subseteq up /\ UNCHANGED <<nodeVars, store>>
  BY DEF ClientCoordinator, NodeHandlerRead, SendBack, Exit
<1>2. PICK type \in {"lookup", "node"} :
        Accepts(n, type) /\ (M.from \in Clients \/ pc[M.from] # "writing")
  <2>1. CASE ClientCoordinator(n)
    BY <2>1, HeadConnection DEF ClientCoordinator
  <2>2. CASE NodeHandlerRead(n)
    <3>1. Accepts(n, "node") /\ M.pkt.size = 0
      BY <2>2 DEF NodeHandlerRead
    <3>2. M.from \in Nodes /\ NodeConnectionOK(n, M) /\ CoordinatorOK(M.from)
      BY <3>1, HeadConnection DEF ConnectionOK, Protocol, Messages
    <3>3. pc[M.from] # "writing"
      BY <3>1, <3>2 DEF NodeConnectionOK, CoordinatorOK
    <3>. QED
      BY <3>1, <3>3
  <2>. QED
    BY <2>1, <2>2
<1>3. \A x \in Nodes : pc[x] = "writing" =>
        \A r \in Nodes : Queues(backlog[r], x) => Queues(backlog'[r], x)
  BY <1>2, AcceptKeeps
<1>. QED
  BY <1>1, <1>3, QuietReplication DEF nodeVars

(* The coordinator's own write: the key's replicas are now behind, and the *)
(* node is writing the key.                                                *)
LEMMA ClientHandlerReplication ==
  ASSUME Protocol, Replication, NEW n \in Nodes, ClientHandler(n)
  PROVE  Replication'
<1>. DEFINE M == Head(backlog[n])
            Q == Stamped(M.pkt)
<1>1. /\ TypeOK /\ Accepts(n, "client") /\ UNCHANGED up
      /\ \A x \in Nodes : CoordinatorOK(x)
      /\ it' = [it EXCEPT ![n] = 2] /\ it \in [Nodes -> 2 .. SIZE_PREFERENCE_LIST + 1]
      /\ pc \in [Nodes -> {"accept", "writing", "reading"}]
      /\ cur \in [Nodes -> Connection \cup {None}]
  BY DEF Protocol, Messages, ClientHandler, TypeOK
<1>2. /\ M.pkt \in Packet /\ M.from \in Clients /\ pc[n] = "accept"
      /\ ForCoordinator(n, M.pkt)
  <2>1. /\ M.pkt \in Packet /\ M.from \in Clients /\ pc[n] = "accept"
        /\ ConnectionOK(n, M) /\ M.pkt.type = "client"
    BY <1>1, HeadConnection
  <2>. QED
    BY <2>1 DEF ConnectionOK, ClientConnectionOK
<1>3. \A x \in Nodes : pc[x] = "writing" =>
        \A r \in Nodes : Queues(backlog[r], x) => Queues(backlog'[r], x)
  BY <1>1, <1>2, AcceptKeeps
<1>4. CASE M.pkt.size = 0
  <2>1. /\ UNCHANGED store /\ pc' = [pc EXCEPT ![n] = "reading"]
        /\ \A x \in Nodes \ {n} : cur'[x] = cur[x] /\ it'[x] = it[x]
    BY <1>1, <1>4, ClientHandlerCases
  <2>. QED
    BY <1>1, <1>2, <1>3, <2>1, QuietReplication
<1>5. CASE M.pkt.size # 0
  <2>1. /\ M.pkt.value \in Values /\ Write(n, Q)
        /\ pc' = [pc EXCEPT ![n] = "writing"]
        /\ cur' = [cur EXCEPT ![n] = [from |-> M.from,
                                      pkt |-> [Q EXCEPT !.type = "node"]]]
    BY <1>5, ClientHandlerCases
  <2>2. /\ Q \in Packet /\ Q.key = M.pkt.key /\ Q.rank = M.pkt.rank
        /\ Q.value = M.pkt.value
    BY <1>2, StampedType
  <2>. HIDE DEF Q, M
  <2>3. PICK k \in Keys : k = Q.key /\ n = Coordinator(k) /\ Q.rank = CoordRank(k)
    BY <1>2, <2>2 DEF ForCoordinator, Packet
  <2>4. \A x \in Nodes, l \in Keys :
          CellAt(x, l)' = IF x = n /\ l = k
                          THEN [val |-> Q.value, ver |-> Q.timpStamp]
                          ELSE CellAt(x, l)
    <3>1. RankOK(n, Q.rank)
      BY <2>3, ConstantFacts DEF RankOK
    <3>. QED
      BY <1>1, <2>1, <2>2, <2>3, <3>1, WriteEffect
  <2>5. /\ pc'[n] = "writing" /\ it'[n] = 2
        /\ cur'[n].pkt.key = k /\ cur'[n].pkt.value = Q.value
        /\ cur'[n].pkt.timpStamp = Q.timpStamp
        /\ \A x \in Nodes \ {n} : pc'[x] = pc[x] /\ cur'[x] = cur[x] /\ it'[x] = it[x]
    BY <1>1, <2>1, <2>2, <2>3 DEF Packet
  <2>6. ReplicasAgree'
    <3>1. ASSUME NEW l \in Keys, NEW x \in Nodes, x = Coordinator(l),
                 x \in up', ~Writing(x, l)', NEW r \in ReplicaNodes(l) \cap up'
          PROVE  CellAt(r, l)' = CellAt(x, l)'
      <4>1. l # k
        BY <2>3, <2>5, <3>1 DEF Writing
      <4>2. ~Writing(x, l)
        BY <1>2, <2>5, <3>1 DEF Writing
      <4>3. CellAt(r, l) = CellAt(x, l)
        BY <1>1, <3>1, <4>2 DEF Replication, ReplicasAgree
      <4>. QED
        BY <2>4, <3>1, <4>1, <4>3, ReplicaFacts
    <3>. QED
      BY <3>1, ReplicaFacts DEF ReplicasAgree
  <2>7. FanOutOK(n)'
    <3>1. CellAt(n, k)' = [val |-> Q.value, ver |-> Q.timpStamp]
      BY <2>3, <2>4
    <3>. QED
      BY <2>5, <3>1 DEF FanOutOK
  <2>8. ASSUME NEW x \in Nodes \ {n}
        PROVE  FanOutOK(x)'
    <3>. SUFFICES ASSUME x \in up', pc'[x] = "writing"
                  PROVE  FanOutOK(x)'
      BY DEF FanOutOK
    <3>1. /\ FanOutOK(x) /\ x \in up /\ pc[x] = "writing"
          /\ cur'[x] = cur[x] /\ it'[x] = it[x]
      BY <1>1, <2>5 DEF Replication
    <3>2. PICK l \in Keys : /\ l = cur[x].pkt.key /\ x = Coordinator(l)
                            /\ CellAt(x, l) = [val |-> cur[x].pkt.value,
                                               ver |-> cur[x].pkt.timpStamp]
      <4>1. cur[x] \in Connection /\ ForCoordinator(x, cur[x].pkt)
        BY <1>1, <3>1 DEF CoordinatorOK
      <4>. QED
        BY <3>1, <4>1 DEF FanOutOK, Connection, Packet, ForCoordinator
    <3>3. l # k /\ CellAt(x, l)' = CellAt(x, l)
      BY <2>3, <2>4, <3>2
    <3>4. ASSUME NEW i \in 2 .. SIZE_PREFERENCE_LIST, NEW r \in Nodes,
                 r = PrefList[l][i].node, i < it'[x], r \in up',
                 ~Queues(backlog'[r], x)
          PROVE  CellAt(r, l)' = CellAt(x, l)'
      <4>1. ~Queues(backlog[r], x)
        BY <1>3, <3>1, <3>4
      <4>2. CellAt(r, l) = CellAt(x, l)
        BY <1>1, <3>1, <3>2, <3>4, <4>1 DEF FanOutOK
      <4>. QED
        BY <2>4, <3>3, <4>2
    <3>5. \A i \in 2 .. SIZE_PREFERENCE_LIST : PrefList[l][i].node \in Nodes
      BY ReplicaFacts
    <3>6. cur'[x].pkt.key = l /\ CellAt(x, l)' = [val |-> cur'[x].pkt.value,
                                                 ver |-> cur'[x].pkt.timpStamp]
      BY <3>1, <3>2, <3>3
    <3>. QED
      BY <3>4, <3>5, <3>6 DEF FanOutOK
  <2>. QED
    BY <2>6, <2>7, <2>8 DEF Replication
<1>. QED
  BY <1>4, <1>5

LEMMA ContactReplicaReplication ==
  ASSUME Protocol, Replication, NEW n \in Nodes, ContactReplica(n)
  PROVE  Replication'
<1>. DEFINE q == IF pc[n] = "writing" THEN cur[n].pkt
                                      ELSE [cur[n].pkt EXCEPT !.size = 0]
            T == Target(n)
<1>1. UNCHANGED <<pc, cur, store>> /\ Coordinates(n) /\ ~FanOutDone(n)
  BY DEF ContactReplica
<1>2. /\ TypeOK /\ cur[n].pkt \in Packet /\ cur[n].pkt.key \in Keys
      /\ it[n] \in 2 .. SIZE_PREFERENCE_LIST + 1
      /\ it \in [Nodes -> 2 .. SIZE_PREFERENCE_LIST + 1]
  BY <1>1, CoordinatesFacts DEF TypeOK, Packet
<1>3. CASE Connectable(T) /\ Enqueue(n, T, q) /\ it' = [it EXCEPT ![n] = it[n] + 1]
           /\ UNCHANGED up
  <2>1. q \in Packet
    BY <1>2 DEF Packet
  <2>2. T \in Nodes
    BY <1>1, <1>2, ConstantFacts DEF Target, FanOutDone, SIZE_PREFERENCE_LIST
  <2>3. n \in Procs
    BY DEF Procs
  <2>4. T = PrefList[cur[n].pkt.key][it[n]].node
    BY DEF Target
  <2>. HIDE DEF q, T
  <2>5. /\ Queues(backlog'[T], n)
        /\ \A r \in Nodes : \A x : Queues(backlog[r], x) => Queues(backlog'[r], x)
    BY <1>2, <1>3, <2>1, <2>2, <2>3, EnqueueKeeps
  <2>6. /\ \A x \in Nodes \ {n} : it'[x] = it[x]
        /\ it'[n] = it[n] + 1
    BY <1>2, <1>3
  <2>7. ASSUME NEW x \in Nodes, NEW i \in 2 .. SIZE_PREFERENCE_LIST,
               i < it'[x], ~(i < it[x])
        PROVE  Queues(backlog'[PrefList[cur[x].pkt.key][i].node], x)
    <3>1. x = n
      BY <2>6, <2>7
    <3>2. i = it[n]
      BY <1>2, <2>6, <2>7, <3>1
    <3>. QED
      BY <2>4, <2>5, <3>1, <3>2
  <2>. QED
    BY <1>1, <1>3, <2>5, <2>7, QuietReplication
<1>4. CASE up' \subseteq up /\ UNCHANGED <<backlog, it>>
  BY <1>1, <1>4, QuietReplication
<1>. QED
  BY <1>3, <1>4 DEF ContactReplica, Exit

(* When a write is acknowledged no replica has its request queued.         *)
LEMMA RespondReplication ==
  ASSUME Protocol, Replication, NEW n \in Nodes, Respond(n)
  PROVE  Replication'
<1>1. /\ UNCHANGED <<backlog, it, store>> /\ up' \subseteq up
      /\ Coordinates(n) /\ FanOutDone(n) /\ fds[n] = {}
  BY DEF Respond, SendBack, Exit
<1>2. CASE UNCHANGED <<pc, cur>>
  BY <1>1, <1>2, QuietReplication
<1>3. CASE cur[n].from \in up
  <2>1. /\ TypeOK /\ n \in up /\ cur[n].pkt \in Packet
        /\ ForCoordinator(n, cur[n].pkt) /\ it[n] \in 2 .. SIZE_PREFERENCE_LIST + 1
        /\ \A x \in Nodes : CoordinatorOK(x)
        /\ RequestInOnePlace
    BY <1>1, CoordinatesFacts DEF Protocol, Messages
  <2>2. /\ pc' = [pc EXCEPT ![n] = "accept"] /\ cur' = [cur EXCEPT ![n] = None]
        /\ up' = up
    BY <1>3 DEF Respond, SendBack
  <2>3. /\ pc'[n] = "accept"
        /\ \A x \in Nodes \ {n} : pc'[x] = pc[x] /\ cur'[x] = cur[x]
    BY <2>1, <2>2 DEF TypeOK
  <2>4. \A x \in Nodes, l \in Keys : CellAt(x, l)' = CellAt(x, l)
    BY <1>1 DEF CellAt
  <2>5. ReplicasAgree'
    <3>1. ASSUME NEW l \in Keys, NEW x \in Nodes, x = Coordinator(l),
                 x \in up', ~Writing(x, l)', NEW r \in ReplicaNodes(l) \cap up'
          PROVE  CellAt(r, l) = CellAt(x, l)
      <4>1. CASE ~Writing(x, l)
        BY <2>1, <2>2, <3>1, <4>1 DEF Replication, ReplicasAgree
      <4>2. CASE Writing(x, l)
        <5>1. x = n /\ pc[n] = "writing" /\ cur[n].pkt.key = l
          BY <2>3, <3>1, <4>2 DEF Writing
        <5>2. PICK i \in 2 .. SIZE_PREFERENCE_LIST : r = PrefList[l][i].node
          BY <3>1, ReplicaFacts
        <5>3. i < it[n]
          BY <1>1, <2>1, <5>2 DEF FanOutDone, SIZE_PREFERENCE_LIST
        <5>4. r \in Nodes \cap up /\ n \in Procs /\ n \notin Clients
          BY <2>2, <3>1, ReplicaFacts, ConstantFacts DEF Procs
        <5>5. ~Queues(backlog[r], n)
          BY <1>1, <2>1, <5>4 DEF RequestInOnePlace, Expects
        <5>6. FanOutOK(n)
          BY DEF Replication
        <5>. QED
          BY <2>1, <5>1, <5>2, <5>3, <5>4, <5>5, <5>6 DEF FanOutOK
      <4>. QED
        BY <4>1, <4>2
    <3>. QED
      BY <2>4, <3>1, ReplicaFacts DEF ReplicasAgree
  <2>6. ASSUME NEW x \in Nodes
        PROVE  FanOutOK(x)'
    <3>1. CASE x = n
      BY <2>3, <3>1 DEF FanOutOK
    <3>2. CASE x # n
      <4>. SUFFICES ASSUME x \in up', pc'[x] = "writing"
                    PROVE  FanOutOK(x)'
        BY DEF FanOutOK
      <4>1. /\ FanOutOK(x) /\ x \in up /\ pc[x] = "writing"
            /\ cur'[x] = cur[x] /\ it'[x] = it[x]
        BY <1>1, <2>2, <2>3, <3>2 DEF Replication
      <4>2. PICK l \in Keys : l = cur[x].pkt.key
        <5>1. cur[x] \in Connection
          BY <2>1, <4>1 DEF CoordinatorOK, TypeOK
        <5>. QED
          BY <5>1 DEF Connection, Packet
      <4>3. /\ CellAt(x, l) = [val |-> cur[x].pkt.value, ver |-> cur[x].pkt.timpStamp]
            /\ \A i \in 2 .. SIZE_PREFERENCE_LIST :
                 i < it[x] /\ PrefList[l][i].node \in up
                   /\ ~Queues(backlog[PrefList[l][i].node], x)
                 => CellAt(PrefList[l][i].node, l) = CellAt(x, l)
        BY <4>1, <4>2 DEF FanOutOK
      <4>4. \A i \in 2 .. SIZE_PREFERENCE_LIST : PrefList[l][i].node \in Nodes
        BY ReplicaFacts
      <4>5. ASSUME NEW i \in 2 .. SIZE_PREFERENCE_LIST, NEW r \in Nodes,
                   r = PrefList[l][i].node, i < it'[x], r \in up',
                   ~Queues(backlog'[r], x)
            PROVE  CellAt(r, l)' = CellAt(x, l)'
        BY <1>1, <2>2, <2>4, <4>1, <4>3, <4>5
      <4>6. cur'[x].pkt.key = l /\ CellAt(x, l)' = [val |-> cur'[x].pkt.value,
                                                   ver |-> cur'[x].pkt.timpStamp]
        BY <2>4, <4>1, <4>2, <4>3
      <4>. QED
        BY <4>4, <4>5, <4>6 DEF FanOutOK
    <3>. QED
      BY <3>1, <3>2
  <2>. QED
    BY <2>5, <2>6 DEF Replication
<1>. QED
  BY <1>2, <1>3 DEF Respond

(* A client's step leaves the coordinators and their queues as they are.   *)
LEMMA ClientReplication ==
  ASSUME Protocol, Replication, NEW c \in Clients,
         Put(c) \/ Get(c) \/ LookupBroken(c) \/ ClientStep(c)
  PROVE  Replication'
<1>1. TypeOK /\ c \in Procs
  BY DEF Protocol, Procs
<1>2. ASSUME up' \subseteq up, UNCHANGED <<nodeVars, store>>,
             \A r \in Nodes : \A x : Queues(backlog[r], x) => Queues(backlog'[r], x)
      PROVE  Replication'
  BY <1>2, QuietReplication DEF nodeVars
<1>3. ASSUME NEW op, NEW k \in Keys, NEW v, NEW t \in Nodes, Begin(c, op, k, v, t)
      PROVE  Replication'
  <2>. DEFINE m == [type |-> "lookup", timpStamp |-> 0, size |-> 0,
                    rank |-> 0, key |-> k, value |-> EmptyValue]
  <2>1. CASE UNCHANGED backlog
    BY <1>2, <1>3, <2>1 DEF Begin
  <2>2. CASE Enqueue(c, t, m)
    <3>1. m \in Packet
      BY ConstantFacts, DataAssumption, ProcsAssumption DEF Packet, Versions, Ranks, Text
    <3>. HIDE DEF m
    <3>2. \A r \in Nodes : \A x : Queues(backlog[r], x) => Queues(backlog'[r], x)
      BY <1>1, <2>2, <3>1, EnqueueKeeps
    <3>. QED
      BY <1>2, <1>3, <3>2 DEF Begin
  <2>. QED
    BY <1>3, <2>1, <2>2 DEF Begin
<1>4. CASE Put(c)
  BY <1>3, <1>4, ProcsAssumption DEF Put
<1>5. CASE Get(c)
  BY <1>3, <1>5 DEF Get
<1>6. CASE LookupBroken(c) \/ LookupLost(c) \/ Return(c) \/ ReturnLost(c)
  BY <1>2, <1>6 DEF LookupBroken, LookupLost, Return, ReturnLost, Exit
<1>7. CASE ContactCoordinator(c)
  <2>. DEFINE reply == inbox[c][call[c].peer]
  <2>1. CASE UNCHANGED backlog
    BY <1>2, <1>7, <2>1 DEF ContactCoordinator, Exit
  <2>2. CASE \E junk \in Stack :
               Enqueue(c, reply.value, RequestPacket(c, reply.rank, junk))
    <3>1. PICK junk \in Stack :
                 Enqueue(c, reply.value, RequestPacket(c, reply.rank, junk))
      BY <2>2
    <3>2. \A r \in Nodes : \A x : Queues(backlog[r], x) => Queues(backlog'[r], x)
      BY <1>1, <1>7, <3>1, RequestPacketType, EnqueueKeeps
    <3>. QED
      BY <1>2, <1>7, <3>2 DEF ContactCoordinator, Exit
  <2>. QED
    BY <1>7, <2>1, <2>2 DEF ContactCoordinator
<1>. QED
  BY <1>4, <1>5, <1>6, <1>7 DEF ClientStep

(* Every step keeps the replicas converging.                               *)
LEMMA NextReplication ==
  ASSUME SameRanks, Protocol, Replication, [Next]_vars
  PROVE  Replication'
<1>1. ASSUME NEW c \in Clients,
             Put(c) \/ Get(c) \/ LookupBroken(c) \/ ClientStep(c)
      PROVE  Replication'
  BY <1>1, ClientReplication
<1>2. ASSUME NEW n \in Nodes, NodeStep(n)
      PROVE  Replication'
  <2>1. CASE \E r \in Nodes : ReplicaReply(n, r) \/ ReplicaLost(n, r)
    <3>1. /\ UNCHANGED <<up, backlog, pc, it, store>>
          /\ pc[n] = "writing" => cur' = cur
          /\ \A x \in Nodes \ {n} : cur'[x] = cur[x]
      BY <2>1 DEF ReplicaReply, ReplicaLost, Protocol, TypeOK
    <3>. QED
      BY <3>1, QuietReplication
  <2>. QED
    BY <1>2, <2>1, AcceptedReplication, NodeHandlerWriteReplication,
       ClientHandlerReplication, ContactReplicaReplication, RespondReplication
    DEF NodeStep
<1>3. ASSUME NEW p \in Procs, Kill(p)
      PROVE  Replication'
  BY <1>3, QuietReplication DEF Kill, Exit, nodeVars
<1>4. CASE UNCHANGED vars
  BY <1>4, QuietReplication DEF vars, nodeVars
<1>. QED
  BY <1>1, <1>2, <1>3, <1>4 DEF Next

LEMMA InitReplication == Init => Replication
<1>. SUFFICES ASSUME Init PROVE Replication
  OBVIOUS
<1>1. \A n \in Nodes, k \in Keys : CellAt(n, k) = Absent
  BY ConstantFacts DEF Init, CellAt
<1>2. ReplicasAgree
  BY <1>1, ReplicaFacts DEF ReplicasAgree
<1>3. \A n \in Nodes : FanOutOK(n)
  BY DEF Init, FanOutOK
<1>. QED
  BY <1>2, <1>3 DEF Replication

(***************************************************************************)
(* The inductive invariant: the packets are in order, and the replicas     *)
(* that a fan-out has reached hold what it writes.                         *)
(***************************************************************************)
THEOREM InvariantHolds ==
  ASSUME SameRanks
  PROVE  Spec => []IInv
<1>1. Init => IInv
  BY InitProtocol, InitReplication DEF IInv
<1>2. IInv /\ [Next]_vars => IInv'
  BY NextTypeOK, NextMessages, NextReplication DEF IInv, Protocol
<1>. QED
  BY <1>1, <1>2, PTL DEF Spec

(***************************************************************************)
(* Replica convergence, for every value of the constants with which a      *)
(* coordinator and its replicas have the virtual node it writes to: when a *)
(* coordinator is not writing a key, every running replica holds what it   *)
(* holds, whatever was killed and however the requests interleaved.        *)
(***************************************************************************)
THEOREM ReplicasConverge ==
  ASSUME SameRanks
  PROVE  Spec => []ReplicasAgree
<1>1. IInv => ReplicasAgree
  BY DEF IInv, Replication
<1>. QED
  BY <1>1, InvariantHolds, PTL

(***************************************************************************)
(* What an acknowledgement says: the put is on every node of the list that *)
(* is running, for any number of deaths.  How many those are is not said:  *)
(* a coordinator acknowledges also when it is the only one left.           *)
(***************************************************************************)
THEOREM AcknowledgedWrites ==
  ASSUME SameRanks
  PROVE  Spec => AckedWriteReplicated
<1>. DEFINE Step ==
       \A n \in Nodes :
         pc[n] = "writing" /\ pc'[n] = "accept"
           => \A m \in Holders(cur[n].pkt.key) \cap up : Stored(m, cur[n].pkt)
<1>1. IInv /\ [Next]_vars => [Step]_vars
  <2>. SUFFICES ASSUME IInv, [Next]_vars, NEW n \in Nodes,
                       pc[n] = "writing", pc'[n] = "accept",
                       NEW m \in Holders(cur[n].pkt.key) \cap up
                PROVE  Stored(m, cur[n].pkt)
    OBVIOUS
  <2>1. TypeOK /\ CoordinatorOK(n) /\ FanOutOK(n) /\ \A r \in Nodes \cap up : QueueOK(r)
        /\ RequestInOnePlace
    BY DEF IInv, Protocol, Messages, Replication
  <2>2. Respond(n)
    <3>1. PICK x \in Nodes : NodeStep(x)
      BY DEF Next, vars, nodeVars, Put, Get, Begin, LookupBroken, ClientStep,
             ContactCoordinator, LookupLost, Return, ReturnLost, Kill
    <3>2. Respond(x)
      BY <2>1, <3>1, ZenonT(60)
      DEF NodeStep, ClientCoordinator, NodeHandlerWrite, NodeHandlerRead, ClientHandler,
          ContactReplica, ReplicaReply, ReplicaLost, nodeVars, TypeOK
    <3>. QED
      BY <2>1, <3>2 DEF Respond, TypeOK
  <2>3. n \in up /\ it[n] > SIZE_PREFERENCE_LIST /\ fds[n] = {}
    BY <2>2 DEF Respond, Coordinates, FanOutDone
  <2>4. cur[n] \in Connection /\ cur[n].pkt \in Packet
    BY <2>1 DEF CoordinatorOK, TypeOK, Connection
  <2>5. PICK k \in Keys : k = cur[n].pkt.key /\ n = Coordinator(k)
    BY <2>1, <2>4 DEF CoordinatorOK, ForCoordinator, Packet
  <2>6. /\ Stored(n, cur[n].pkt)
        /\ \A i \in 2 .. SIZE_PREFERENCE_LIST :
             PrefList[k][i].node \in up /\ ~Queues(backlog[PrefList[k][i].node], n)
               => CellAt(PrefList[k][i].node, k) = CellAt(n, k)
    <3>1. \A i \in 2 .. SIZE_PREFERENCE_LIST : i < it[n]
      <4>1. it[n] \in Nat
        BY <2>1 DEF TypeOK
      <4>. QED
        BY <4>1, <2>3 DEF SIZE_PREFERENCE_LIST
    <3>2. /\ CellAt(n, k) = [val |-> cur[n].pkt.value, ver |-> cur[n].pkt.timpStamp]
          /\ \A i \in 2 .. SIZE_PREFERENCE_LIST :
               i < it[n] /\ PrefList[k][i].node \in up
                 /\ ~Queues(backlog[PrefList[k][i].node], n)
                 => CellAt(PrefList[k][i].node, k) = CellAt(n, k)
      BY <2>1, <2>3, <2>5 DEF FanOutOK
    <3>. QED
      BY <2>5, <3>1, <3>2 DEF Stored
  <2>7. CASE m = n
    BY <2>6, <2>7
  <2>8. CASE m # n
    <3>1. PICK i \in 2 .. SIZE_PREFERENCE_LIST : m = PrefList[k][i].node
      BY <2>5, <2>8, ReplicaFacts
    <3>2. m \in Nodes /\ n \in Procs /\ n \notin Clients
      BY <2>5, <3>1, ReplicaFacts, ConstantFacts DEF Procs
    <3>3. ~Queues(backlog[m], n)
      BY <2>1, <2>3, <3>2 DEF RequestInOnePlace, Expects
    <3>. QED
      BY <2>5, <2>6, <3>1, <3>3 DEF Stored
  <2>. QED
    BY <2>7, <2>8
<1>. QED
  BY <1>1, InvariantHolds, PTL DEF Spec, AckedWriteReplicated

(* A node only ever waits for a replica of the key whose request it        *)
(* coordinates for a client.                                               *)
LEMMA WaitsForReplica ==
  ASSUME Protocol, NEW n \in Nodes, NEW m \in Nodes, WaitsFor(n, m)
  PROVE  /\ cur[n] # None /\ cur[n].from \in Clients
         /\ cur[n].pkt.key \in Keys /\ n = Coordinator(cur[n].pkt.key)
         /\ m \in ReplicaNodes(cur[n].pkt.key) /\ m # n
<1>1. TypeOK /\ CoordinatorOK(n) /\ pc[n] # "accept"
  BY DEF Protocol, Messages, WaitsFor, Coordinates
<1>2. cur[n] \in Connection /\ cur[n] # None /\ cur[n].from \in Clients
      /\ fds[n] \subseteq Reached(n)
  BY <1>1 DEF CoordinatorOK, TypeOK
<1> DEFINE k == cur[n].pkt.key
<1>3. k \in Keys /\ n = Coordinator(k)
  BY <1>1, <1>2 DEF CoordinatorOK, ForCoordinator, Connection, Packet
<1>4. it[n] \in 2 .. SIZE_PREFERENCE_LIST + 1
  BY <1>1 DEF TypeOK
<1>5. \E i \in 2 .. SIZE_PREFERENCE_LIST : m = PrefList[k][i].node
  <2>1. CASE FanOutDone(n)
    <3>1. PICK i \in 2 .. it[n] - 1 : m = PrefList[k][i].node
      BY <1>2, <1>3, <2>1 DEF WaitsFor, Reached
    <3>2. i \in 2 .. SIZE_PREFERENCE_LIST
      BY <1>4, <3>1 DEF SIZE_PREFERENCE_LIST
    <3>. QED
      BY <3>1, <3>2
  <2>2. CASE ~FanOutDone(n)
    <3>1. m = PrefList[k][it[n]].node
      BY <1>3, <2>2 DEF WaitsFor, Target
    <3>2. it[n] \in 2 .. SIZE_PREFERENCE_LIST
      BY <1>4, <2>2 DEF FanOutDone, SIZE_PREFERENCE_LIST
    <3>. QED
      BY <3>1, <3>2
  <2>. QED
    BY <2>1, <2>2
<1>6. m \in ReplicaNodes(k) /\ m # n
  BY <1>3, <1>5, ReplicaFacts
<1>. QED
  BY <1>2, <1>3, <1>6

(* Two running nodes never coordinate requests of the same client.         *)
LEMMA ServesOneClient ==
  ASSUME Protocol, NEW n \in Nodes, NEW m \in Nodes,
         n \in up, m \in up, cur[n] # None, cur[m] # None,
         cur[n].from \in Clients, cur[m].from = cur[n].from
  PROVE  n = m
<1> DEFINE c == cur[n].from
<1>1. c \in Clients /\ c \in Procs /\ Serves(n, c) /\ Serves(m, c)
  BY DEF Serves, Procs
<1>2. Expects(c, n) /\ Expects(c, m)
  BY <1>1 DEF Protocol, Messages, RequestInOnePlace
<1>. QED
  BY <1>1, <1>2 DEF Expects

(***************************************************************************)
(* Whatever the ring, the length of the accept queues, the number of       *)
(* clients and the order of requests and deaths, storage nodes that block  *)
(* one another are coordinators of different clients' calls, each of which *)
(* replicates its key on another of them.                                  *)
(***************************************************************************)
THEOREM DeadlocksCross == Spec => []DeadlockCrosses
<1>1. Protocol => DeadlockCrosses
  <2>. SUFFICES ASSUME Protocol, NEW S \in SUBSET Nodes, Blocked(S),
                       NEW n \in S
                PROVE  LET key == cur[n].pkt.key
                       IN  /\ cur[n] # None /\ cur[n].from \in Clients
                           /\ n = Coordinator(key)
                           /\ \E m \in S \ {n} : m \in ReplicaNodes(key)
                           /\ \A m \in S \ {n} : cur[m].from # cur[n].from
    BY DEF DeadlockCrosses
  <2>1. PICK m \in S : WaitsFor(n, m)
    BY DEF Blocked
  <2>2. /\ cur[n] # None /\ cur[n].from \in Clients /\ n = Coordinator(cur[n].pkt.key)
        /\ m \in ReplicaNodes(cur[n].pkt.key) /\ m # n
    BY <2>1, WaitsForReplica
  <2>3. ASSUME NEW r \in S \ {n}
        PROVE  cur[r].from # cur[n].from
    <3>1. PICK q \in S : WaitsFor(r, q)
      BY DEF Blocked
    <3>2. cur[r] # None /\ n \in up /\ r \in up
      BY <2>1, <3>1, WaitsForReplica DEF WaitsFor, Coordinates
    <3>. QED
      BY <2>2, <3>2, ServesOneClient
  <2>. QED
    BY <2>2, <2>3
<1>. QED
  BY <1>1, ProtocolHolds, PTL

(***************************************************************************)
(* One client alone never gets the storage nodes to block one another, on  *)
(* any ring and through any deaths: the tests of the repository, which run *)
(* one client at a time, cannot meet the deadlock.                         *)
(***************************************************************************)
THEOREM LoneClientNeverBlocks ==
  ASSUME \A c, d \in Clients : c = d
  PROVE  Spec => []NoDeadlock
<1>1. DeadlockCrosses /\ Protocol => NoDeadlock
  <2>. SUFFICES ASSUME DeadlockCrosses, Protocol,
                       NEW S \in SUBSET Nodes, Blocked(S)
                PROVE  FALSE
    BY DEF NoDeadlock
  <2>1. PICK n \in S : TRUE
    BY DEF Blocked
  <2>2. PICK m \in S \ {n} : cur[m].from # cur[n].from
    BY <2>1 DEF DeadlockCrosses
  <2>3. cur[n].from \in Clients /\ cur[m].from \in Clients
    BY <2>1, <2>2 DEF DeadlockCrosses
  <2>. QED
    BY <2>2, <2>3
<1>. QED
  BY <1>1, DeadlocksCross, ProtocolHolds, PTL
=============================================================================

------------------------- MODULE GTStoreLinearProofs -------------------------
(***************************************************************************)
(* Proof that GTStore implements AtomicStore: every put and get takes      *)
(* effect at one instant, for any number of nodes, clients, keys, values,  *)
(* calls and kills.                                                        *)
(***************************************************************************)
EXTENDS GTStoreProofs, GTStoreRefinement

-----------------------------------------------------------------------------
(* Requests carry what their clients called with.                          *)

(* Clients that have a request queued go on with the same call, and what   *)
(* joins a queue is as it was called.                                      *)
LEMMA RequestsKept ==
  ASSUME TypeOK, RequestsAsCalled, up' \subseteq up,
         \A c \in Clients :
           \/ \A n \in Nodes \cap up : ~Queues(backlog[n], c)
           \/ call'[c] = call[c] /\ versions'[c] = versions[c],
         \A n \in Nodes \cap up' : \A i \in 1 .. Len(backlog'[n]) :
           \/ \E j \in 1 .. Len(backlog[n]) : backlog'[n][i] = backlog[n][j]
           \/ AsCalled(backlog[n][i])'
  PROVE  RequestsAsCalled'
<1>1. ASSUME NEW n \in Nodes \cap up', NEW i \in 1 .. Len(backlog'[n]),
             NEW j \in 1 .. Len(backlog[n]), backlog'[n][i] = backlog[n][j]
      PROVE  AsCalled(backlog[n][i])'
  <2>. DEFINE m == backlog[n][j]
  <2>1. AsCalled(m) /\ Queues(backlog[n], m.from)
    BY QueuedConnection DEF RequestsAsCalled
  <2>2. m.from \in Clients
          => call'[m.from] = call[m.from] /\ versions'[m.from] = versions[m.from]
    BY <2>1
  <2>. QED
    BY <1>1, <2>1, <2>2, ZenonT(60) DEF AsCalled, RequestPacket
<1>. QED
  BY <1>1 DEF RequestsAsCalled

(* What joins a queue joins it at the end.                                 *)
LEMMA EnqueueElements ==
  ASSUME TypeOK, NEW p \in Procs, NEW t \in Nodes, NEW m \in Packet,
         Enqueue(p, t, m)
  PROVE  \A x \in Nodes : \A i \in 1 .. Len(backlog'[x]) :
           \/ backlog'[x][i] = [from |-> p, pkt |-> m]
           \/ \E j \in 1 .. Len(backlog[x]) : backlog'[x][i] = backlog[x][j]
<1>. DEFINE conn == [from |-> p, pkt |-> m]
<1>1. conn \in Connection /\ backlog \in [Nodes -> Seq(Connection)]
  BY DEF Connection, TypeOK
<1>2. backlog' = [backlog EXCEPT ![t] = Append(backlog[t], conn)]
  BY DEF Enqueue
<1>. HIDE DEF conn
<1>3. \A x \in Nodes : \A i \in 1 .. Len(backlog'[x]) :
        \/ backlog'[x][i] = conn
        \/ \E j \in 1 .. Len(backlog[x]) : backlog'[x][i] = backlog[x][j]
  BY <1>1, <1>2, AppendQueue
<1>. QED
  BY <1>3 DEF conn

(* A node that serves the head of its queue.                               *)
LEMMA AcceptRequests ==
  ASSUME Protocol, RequestsAsCalled, NEW n \in Nodes, NEW type, Accepts(n, type),
         up' \subseteq up, UNCHANGED <<call, versions>>
  PROVE  RequestsAsCalled'
<1>1. TypeOK /\ Once(backlog[n])
  BY HeadConnection DEF Protocol
<1>2. \A x \in Nodes : \A i \in 1 .. Len(backlog'[x]) :
        \E j \in 1 .. Len(backlog[x]) : backlog'[x][i] = backlog[x][j]
  BY <1>1, DequeueEffect
<1>. QED
  BY <1>1, <1>2, RequestsKept

LEMMA NodeRequests ==
  ASSUME Protocol, RequestsAsCalled, NEW n \in Nodes, NodeStep(n)
  PROVE  RequestsAsCalled'
<1>1. TypeOK /\ UNCHANGED <<call, versions>> /\ up' \subseteq up
  BY DEF Protocol, NodeStep, ClientCoordinator, NodeHandlerWrite, NodeHandlerRead,
         ClientHandler, ContactReplica, ReplicaReply, ReplicaLost, Respond,
         clientVars, SendBack, Exit
<1>2. CASE UNCHANGED backlog
  BY <1>1, <1>2, RequestsKept
<1>3. CASE \E type : Accepts(n, type)
  BY <1>1, <1>3, AcceptRequests
<1>4. CASE ContactReplica(n)
  <2>. DEFINE Q == IF pc[n] = "writing" THEN cur[n].pkt
                                        ELSE [cur[n].pkt EXCEPT !.size = 0]
              T == Target(n)
  <2>1. CASE Enqueue(n, T, Q)
    <3>1. Coordinates(n) /\ ~FanOutDone(n) /\ n \in Procs /\ n \notin Clients
      BY <1>4, ConstantFacts DEF ContactReplica, Procs
    <3>2. Q \in Packet /\ Q.type = "node"
      BY <3>1, CoordinatesFacts DEF Packet
    <3>3. T \in Nodes
      BY <3>1, CoordinatesFacts, ConstantFacts
      DEF Target, Packet, FanOutDone, SIZE_PREFERENCE_LIST
    <3>. HIDE DEF Q, T
    <3>5. \A x \in Nodes : \A i \in 1 .. Len(backlog'[x]) :
            \/ backlog'[x][i] = [from |-> n, pkt |-> Q]
            \/ \E j \in 1 .. Len(backlog[x]) : backlog'[x][i] = backlog[x][j]
      BY <1>1, <2>1, <3>1, <3>2, <3>3, EnqueueElements
    <3>. QED
      BY <1>1, <3>1, <3>5, RequestsKept DEF AsCalled
  <2>. QED
    BY <1>2, <1>4, <2>1 DEF ContactReplica
<1>. QED
  BY <1>2, <1>3, <1>4
  DEF NodeStep, ClientCoordinator, NodeHandlerWrite, NodeHandlerRead,
      ClientHandler, ReplicaReply, ReplicaLost, Respond

(* A client between its requests has none queued or served.                *)
LEMMA IdleClient ==
  ASSUME Protocol, NEW c \in Clients, call[c] = None
  PROVE  \A n \in Nodes : /\ inbox[c][n] = None
                          /\ n \in up => ~Queues(backlog[n], c) /\ ~Serves(n, c)
<1>1. TypeOK /\ Messages /\ c \in Procs
  BY DEF Protocol, Procs
<1>2. \A n \in Nodes : ~Expects(c, n) /\ inbox[c][n] = None
  BY <1>1 DEF Expects, Messages, ReplyOK
<1>. QED
  BY <1>1, <1>2 DEF Messages, RequestInOnePlace

LEMMA BeginRequests ==
  ASSUME Protocol, RequestsAsCalled, NEW c \in Clients,
         NEW op \in {"put", "get"}, NEW k \in Keys,
         NEW v \in Values, NEW t \in Nodes, Begin(c, op, k, v, t)
  PROVE  RequestsAsCalled'
<1>. DEFINE m == [type |-> "lookup", timpStamp |-> 0, size |-> 0,
                  rank |-> 0, key |-> k, value |-> EmptyValue]
<1>1. /\ TypeOK /\ call[c] = None /\ up' \subseteq up /\ UNCHANGED versions
      /\ \A d \in Clients \ {c} : call'[d] = call[d]
  BY DEF Protocol, Begin, TypeOK
<1>2. \A n \in Nodes \cap up : ~Queues(backlog[n], c)
  BY <1>1, IdleClient
<1>3. CASE UNCHANGED backlog
  BY <1>1, <1>2, <1>3, RequestsKept
<1>4. CASE Enqueue(c, t, m)
  <2>1. m \in Packet /\ m.type = "lookup"
    BY DataAssumption, ProcsAssumption DEF Packet, Versions, Ranks, Text
  <2>. HIDE DEF m
  <2>2. c \in Procs
    BY DEF Procs
  <2>3. \A x \in Nodes : \A i \in 1 .. Len(backlog'[x]) :
          \/ backlog'[x][i] = [from |-> c, pkt |-> m]
          \/ \E j \in 1 .. Len(backlog[x]) : backlog'[x][i] = backlog[x][j]
    BY <1>1, <1>4, <2>1, <2>2, EnqueueElements
  <2>. QED
    BY <1>1, <1>2, <2>1, <2>3, RequestsKept DEF AsCalled
<1>. QED
  BY <1>3, <1>4 DEF Begin

LEMMA ContactRequests ==
  ASSUME Protocol, RequestsAsCalled, Stack = {EmptyValue},
         NEW c \in Clients, ContactCoordinator(c)
  PROVE  RequestsAsCalled'
<1>. DEFINE reply == inbox[c][call[c].peer]
            coord == reply.value
<1>1. /\ TypeOK /\ call[c] # None /\ reply # None /\ UNCHANGED versions
      /\ \A d \in Clients \ {c} : call'[d] = call[d]
  BY DEF Protocol, ContactCoordinator, TypeOK
<1>2. /\ \A n \in Nodes \cap up : ~Queues(backlog[n], c)
      /\ call[c] \in Call
  BY <1>1, AnsweredClient
<1>3. CASE Exit(c) /\ UNCHANGED backlog
  BY <1>1, <1>2, <1>3, RequestsKept DEF Exit
<1>4. CASE /\ UNCHANGED up
           /\ Enqueue(c, coord, RequestPacket(c, reply.rank, EmptyValue))
           /\ call' = [call EXCEPT ![c].pc = "request", ![c].peer = coord]
  <2>1. RequestPacket(c, reply.rank, EmptyValue) \in Packet /\ coord \in Nodes
        /\ reply.rank \in Ranks /\ c \in Procs
    BY RequestPacketType DEF Procs
  <2>2. PICK r \in Ranks, t \in Nodes, m \in Packet :
          r = reply.rank /\ t = coord /\ m = RequestPacket(c, r, EmptyValue)
    BY <2>1
  <2>3. call'[c] = [call[c] EXCEPT !.pc = "request", !.peer = t]
    BY <1>1, <1>4, <2>2 DEF TypeOK
  <2>4. call'[c].op = call[c].op /\ call'[c].key = call[c].key /\ call'[c].val = call[c].val
    BY <1>2, <2>3 DEF Call
  <2>5. m = RequestPacket(c, r, EmptyValue)' /\ m.rank = r
    BY <1>1, <2>2, <2>4 DEF RequestPacket
  <2>6. \A x \in Nodes : \A i \in 1 .. Len(backlog'[x]) :
          \/ backlog'[x][i] = [from |-> c, pkt |-> m]
          \/ \E j \in 1 .. Len(backlog[x]) : backlog'[x][i] = backlog[x][j]
    BY <1>1, <1>4, <2>1, <2>2, EnqueueElements, ZenonT(60)
  <2>7. ASSUME NEW x \in Nodes, NEW i \in 1 .. Len(backlog'[x]),
               backlog'[x][i] = [from |-> c, pkt |-> m]
        PROVE  AsCalled(backlog[x][i])'
    BY <2>5, <2>7 DEF AsCalled
  <2>. QED
    BY <1>1, <1>2, <1>4, <2>6, <2>7, RequestsKept, ZenonT(60)
<1>. QED
  BY <1>3, <1>4 DEF ContactCoordinator

LEMMA NextRequests ==
  ASSUME Protocol, RequestsAsCalled, Stack = {EmptyValue}, [Next]_vars
  PROVE  RequestsAsCalled'
<1>1. ASSUME NEW c \in Clients, Put(c) \/ Get(c)
      PROVE  RequestsAsCalled'
  BY <1>1, BeginRequests, ProcsAssumption, DataAssumption DEF Put, Get
<1>2. ASSUME NEW c \in Clients, Return(c) \/ ReturnLost(c)
      PROVE  RequestsAsCalled'
  <2>1. /\ TypeOK /\ call[c] # None /\ up' = up /\ UNCHANGED backlog
        /\ inbox[c][call[c].peer] # None \/ call[c].peer \notin up
    BY <1>2 DEF Protocol, Return, ReturnLost, PeerLost
  <2>2. \A n \in Nodes \cap up : ~Queues(backlog[n], c)
    BY <2>1, AnsweredClient
  <2>3. \A d \in Clients \ {c} : call'[d] = call[d] /\ versions'[d] = versions[d]
    BY <1>2, <2>1 DEF Return, ReturnLost, TypeOK
  <2>. QED
    BY <2>1, <2>2, <2>3, RequestsKept
<1>3. CASE UNCHANGED vars \/ (\E c \in Clients : LookupBroken(c) \/ LookupLost(c))
            \/ (\E p \in Procs : Kill(p))
  <2>1. TypeOK /\ UNCHANGED <<backlog, call, versions>> /\ up' \subseteq up
    BY <1>3 DEF Protocol, LookupBroken, LookupLost, Kill, Exit, vars, clientVars
  <2>. QED
    BY <2>1, RequestsKept
<1>. QED
  BY <1>1, <1>2, <1>3, ContactRequests, NodeRequests DEF Next, ClientStep

(* A put that is under way puts a value of PutValues.                      *)
LEMMA NextPutCalls ==
  ASSUME Protocol, PutCalls, [Next]_vars
  PROVE  PutCalls'
<1>1. TypeOK
  BY DEF Protocol
<1>2. ASSUME NEW c \in Clients, Put(c) \/ Get(c)
      PROVE  PutCalls'
  <2>1. PICK op \in {"put", "get"}, k \in Keys, v \in Values, t \in Nodes :
          Begin(c, op, k, v, t) /\ (op = "put" => v \in PutValues)
    BY <1>2, ProcsAssumption, DataAssumption DEF Put, Get
  <2>2. CASE UNCHANGED call
    BY <2>2 DEF PutCalls
  <2>3. CASE call' = [call EXCEPT ![c] = [pc |-> "lookup", op |-> op, key |-> k,
                                          val |-> v, peer |-> t]]
    <3>1. /\ call'[c].op = op /\ call'[c].val = v
          /\ \A d \in Clients \ {c} : call'[d] = call[d]
      BY <1>1, <2>3 DEF TypeOK
    <3>. QED
      BY <2>1, <3>1 DEF PutCalls
  <2>. QED
    BY <2>1, <2>2, <2>3 DEF Begin
<1>3. ASSUME NEW c \in Clients, Return(c) \/ ReturnLost(c)
      PROVE  PutCalls'
  BY <1>1, <1>3 DEF Return, ReturnLost, PutCalls, TypeOK
<1>4. ASSUME NEW c \in Clients, ContactCoordinator(c)
      PROVE  PutCalls'
  <2>1. call[c] \in Call /\ call \in [Clients -> Call \cup {None}]
    BY <1>1, <1>4 DEF ContactCoordinator, TypeOK
  <2>2. CASE UNCHANGED call
    BY <2>2 DEF PutCalls
  <2>3. CASE \E x : call' = [call EXCEPT ![c].pc = "request", ![c].peer = x]
    <3>1. PICK x : call' = [call EXCEPT ![c].pc = "request", ![c].peer = x]
      BY <2>3
    <3>2. call'[c] = [call[c] EXCEPT !.pc = "request", !.peer = x]
      BY <2>1, <3>1
    <3>3. call'[c].op = call[c].op /\ call'[c].val = call[c].val /\ call[c] # None
      BY <2>1, <3>2, NoneAssumption DEF Call
    <3>4. \A d \in Clients \ {c} : call'[d] = call[d]
      BY <2>1, <3>1
    <3>. QED
      BY <3>3, <3>4 DEF PutCalls
  <2>. QED
    BY <1>4, <2>2, <2>3 DEF ContactCoordinator
<1>5. ASSUME NEW n \in Nodes, NodeStep(n)
      PROVE  PutCalls'
  <2>1. UNCHANGED call
    BY <1>5 DEF NodeStep, ClientCoordinator, NodeHandlerWrite, NodeHandlerRead,
         ClientHandler, ContactReplica, ReplicaReply, ReplicaLost, Respond, clientVars
  <2>. QED
    BY <2>1 DEF PutCalls
<1>6. CASE UNCHANGED vars \/ (\E c \in Clients : LookupBroken(c) \/ LookupLost(c))
            \/ (\E p \in Procs : Kill(p))
  <2>1. UNCHANGED call
    BY <1>6 DEF LookupBroken, LookupLost, Kill, vars, clientVars
  <2>. QED
    BY <2>1 DEF PutCalls
<1>. QED
  BY <1>2, <1>3, <1>4, <1>5, <1>6 DEF Next, ClientStep

-----------------------------------------------------------------------------
(* Reads that wait for replicas carry the version their coordinator holds. *)

(* A reader whose copy, replies and requests stay as they are, or are      *)
(* joined by some of the same version.                                     *)
ReaderKept(n) ==
  /\ pc[n] = "reading" /\ cur'[n] = cur[n]
  /\ CellAt(n, cur[n].pkt.key)' = CellAt(n, cur[n].pkt.key)
  /\ \A r \in Nodes : inbox'[n][r] # None =>
       \/ inbox'[n][r] = inbox[n][r]
       \/ inbox'[n][r].timpStamp = cur[n].pkt.timpStamp
  /\ \A r \in Nodes \cap up' : \A i \in 1 .. Len(backlog'[r]) :
       backlog'[r][i].from = n =>
         \/ \E j \in 1 .. Len(backlog[r]) : backlog'[r][i] = backlog[r][j]
         \/ backlog'[r][i].pkt.timpStamp = cur[n].pkt.timpStamp

LEMMA ReadKept ==
  ASSUME NEW n \in Nodes, ReadCurrent(n), up' \subseteq up, ReaderKept(n)
  PROVE  ReadCurrent(n)'
<1>1. pc[n] = "reading" /\ cur'[n] = cur[n]
  BY DEF ReaderKept
<1>2. cur[n].pkt.timpStamp = CellAt(n, cur[n].pkt.key)'.ver
  BY <1>1 DEF ReadCurrent, ReaderKept
<1>3. \A r \in Nodes : inbox'[n][r] # None
                         => inbox'[n][r].timpStamp = cur[n].pkt.timpStamp
  BY <1>1 DEF ReadCurrent, ReaderKept
<1>4. \A r \in Nodes \cap up' : \A i \in 1 .. Len(backlog'[r]) :
        backlog'[r][i].from = n
          => backlog'[r][i].pkt.timpStamp = cur[n].pkt.timpStamp
  BY <1>1 DEF ReadCurrent, ReaderKept
<1>. QED
  BY <1>1, <1>2, <1>3, <1>4 DEF ReadCurrent

LEMMA ReadsKept ==
  ASSUME ReadsCurrent, up' \subseteq up,
         \A n \in Nodes \cap up' : pc'[n] = "reading" => ReaderKept(n)
  PROVE  ReadsCurrent'
<1>1. \A n \in Nodes \cap up' : pc'[n] # "reading" => ReadCurrent(n)'
  BY DEF ReadCurrent
<1>. QED
  BY <1>1, ReadKept DEF ReadsCurrent

LEMMA ClientReads ==
  ASSUME Protocol, ReadsCurrent, NEW c \in Clients,
         Put(c) \/ Get(c) \/ LookupBroken(c) \/ ClientStep(c)
  PROVE  ReadsCurrent'
<1>1. /\ TypeOK /\ c \in Procs /\ c \notin Nodes /\ up' \subseteq up
      /\ UNCHANGED <<nodeVars, store>>
  BY ConstantFacts
  DEF Protocol, Procs, Put, Get, Begin, LookupBroken, ClientStep,
      ContactCoordinator, LookupLost, Return, ReturnLost, Exit
<1>2. \A n \in Nodes, r \in Nodes : inbox'[n][r] = inbox[n][r]
  BY <1>1
  DEF TypeOK, Procs, Put, Get, Begin, LookupBroken, ClientStep,
      ContactCoordinator, LookupLost, Return, ReturnLost, Take
<1>3. \A n \in Nodes, k \in Keys : CellAt(n, k)' = CellAt(n, k)
  BY <1>1 DEF CellAt
<1>4. \A x \in Nodes : \A i \in 1 .. Len(backlog'[x]) :
        \/ backlog'[x][i].from = c
        \/ \E j \in 1 .. Len(backlog[x]) : backlog'[x][i] = backlog[x][j]
  <2>1. CASE UNCHANGED backlog
    BY <2>1
  <2>2. CASE \E m \in Packet, t \in Nodes : Enqueue(c, t, m)
    <3>1. PICK m \in Packet, t \in Nodes : Enqueue(c, t, m)
      BY <2>2
    <3>2. \A x \in Nodes : \A i \in 1 .. Len(backlog'[x]) :
            \/ backlog'[x][i] = [from |-> c, pkt |-> m]
            \/ \E j \in 1 .. Len(backlog[x]) : backlog'[x][i] = backlog[x][j]
      BY <1>1, <3>1, EnqueueElements
    <3>. QED
      BY <3>2
  <2>3. ASSUME NEW op, NEW k \in Keys, NEW v, NEW t \in Nodes, Begin(c, op, k, v, t),
               ~UNCHANGED backlog
        PROVE  \E m \in Packet, u \in Nodes : Enqueue(c, u, m)
    <3>. DEFINE m == [type |-> "lookup", timpStamp |-> 0, size |-> 0,
                      rank |-> 0, key |-> k, value |-> EmptyValue]
    <3>1. m \in Packet
      BY DataAssumption, ProcsAssumption DEF Packet, Versions, Ranks, Text
    <3>2. Enqueue(c, t, m)
      BY <2>3 DEF Begin
    <3>. QED
      BY <3>1, <3>2
  <2>4. CASE Put(c)
    BY <2>1, <2>2, <2>3, <2>4, ProcsAssumption DEF Put
  <2>5. CASE Get(c)
    BY <2>1, <2>2, <2>3, <2>5 DEF Get
  <2>6. CASE ContactCoordinator(c)
    BY <2>1, <2>2, <2>6, RequestPacketType DEF ContactCoordinator
  <2>. QED
    BY <2>1, <2>4, <2>5, <2>6
    DEF LookupBroken, ClientStep, LookupLost, Return, ReturnLost
<1>5. \A n \in Nodes : pc[n] = "reading" => cur[n].pkt.key \in Keys
  BY DEF Protocol, Messages, CoordinatorOK, ForCoordinator, TypeOK, Connection, Packet
<1>. QED
  BY <1>1, <1>2, <1>3, <1>4, <1>5, ReadsKept DEF ReaderKept, nodeVars

(* A replica answers: a writer, which is not reading, or a reader, with    *)
(* the version of its own copy, which is the coordinator's, or the one the *)
(* request came with.                                                      *)
LEMMA NodeHandlerReads ==
  ASSUME SameRanks, IInv, ReadsCurrent, NEW n \in Nodes,
         NodeHandlerWrite(n) \/ NodeHandlerRead(n)
  PROVE  ReadsCurrent'
<1>. DEFINE M == Head(backlog[n])
<1>1. /\ Protocol /\ TypeOK /\ Accepts(n, "node") /\ UNCHANGED nodeVars
      /\ up' \subseteq up /\ \A x \in Nodes : CoordinatorOK(x)
  BY DEF IInv, Protocol, Messages, NodeHandlerWrite, NodeHandlerRead, SendBack, Exit
<1>2. /\ M \in Connection /\ M.pkt \in Packet /\ M.from \in Nodes /\ M.from \in Procs
      /\ NodeConnectionOK(n, M) /\ Once(backlog[n]) /\ n \in up
      /\ M = backlog[n][1] /\ 1 \in 1 .. Len(backlog[n])
  BY <1>1, HeadConnection, AcceptsType DEF ConnectionOK
<1>3. PICK a \in Nodes, k \in Keys, p \in Packet :
        /\ a = M.from /\ p = M.pkt /\ k = p.key /\ k = cur[a].pkt.key
        /\ a = Coordinator(k) /\ p.rank = CoordRank(k)
        /\ n \in ReplicaNodes(k)
        /\ pc[a] = "writing" => p.size # 0
        /\ pc[a] # "writing" => p.size = 0
  <2>1. M.pkt.key \in Keys
    BY <1>2 DEF Packet
  <2>2. ForCoordinator(M.from, cur[M.from].pkt)
    BY <1>1, <1>2 DEF NodeConnectionOK, CoordinatorOK
  <2>3. /\ pc[M.from] = "writing" => M.pkt.size # 0
        /\ pc[M.from] # "writing" => M.pkt.size = 0
    BY <1>1, <1>2 DEF NodeConnectionOK, CoordinatorOK
  <2>. QED
    BY <1>2, <2>1, <2>2, <2>3 DEF NodeConnectionOK, ForCoordinator
<1>4. \A x \in Nodes : \A i \in 1 .. Len(backlog'[x]) :
        \E j \in 1 .. Len(backlog[x]) : backlog'[x][i] = backlog[x][j]
  BY <1>1, <1>2, DequeueEffect
<1>5. \A x \in Nodes : pc[x] = "reading" =>
        cur[x].pkt.key \in Keys /\ x = Coordinator(cur[x].pkt.key)
  BY <1>1 DEF CoordinatorOK, ForCoordinator, TypeOK, Connection, Packet
<1>6. CASE NodeHandlerWrite(n)
  <2>1. /\ p.value \in Values /\ Write(n, p) /\ p.size # 0
    BY <1>1, <1>3, <1>6, HeadConnection DEF NodeHandlerWrite, ConnectionOK
  <2>2. RankOK(n, p.rank)
    BY <1>3, ReplicaFacts DEF SameRanks
  <2>3. \A x \in Nodes, l \in Keys :
          CellAt(x, l)' = IF x = n /\ l = k
                          THEN [val |-> p.value, ver |-> p.timpStamp]
                          ELSE CellAt(x, l)
    BY <1>1, <1>3, <2>1, <2>2, WriteEffect
  <2>4. \A x \in Nodes : pc[x] = "reading" =>
          CellAt(x, cur[x].pkt.key)' = CellAt(x, cur[x].pkt.key)
    BY <1>1, <1>3, <1>5, <2>3, ReplicaFacts DEF nodeVars
  <2>5. \A x \in Nodes, r \in Nodes : x # a => inbox'[x][r] = inbox[x][r]
    BY <1>1, <1>3, <1>6 DEF NodeHandlerWrite, SendBack, TypeOK, Procs
  <2>6. pc[a] # "reading"
    BY <1>3, <2>1
  <2>. QED
    BY <1>1, <1>4, <2>4, <2>5, <2>6, ReadsKept DEF ReaderKept, nodeVars
<1>7. CASE NodeHandlerRead(n)
  <2>1. p.size = 0 /\ UNCHANGED store
        /\ (SendBack(n, a, Read(n, p)))
    BY <1>3, <1>7 DEF NodeHandlerRead, ReadBackPack
  <2>2. a \in up /\ pc[a] = "reading" => Read(n, p).timpStamp = cur[a].pkt.timpStamp
    <3>. SUFFICES ASSUME a \in up, pc[a] = "reading"
                  PROVE  Read(n, p).timpStamp = cur[a].pkt.timpStamp
      OBVIOUS
    <3>1. ReadCurrent(a)
      BY DEF ReadsCurrent
    <3>2. p.timpStamp = cur[a].pkt.timpStamp
      <4>1. /\ n \in Nodes \cap up /\ 1 \in 1 .. Len(backlog[n])
            /\ backlog[n][1].from = a /\ backlog[n][1].pkt = p
        BY <1>2, <1>3
      <4>2. \A r \in Nodes \cap up : \A i \in 1 .. Len(backlog[r]) :
              backlog[r][i].from = a
                => backlog[r][i].pkt.timpStamp = cur[a].pkt.timpStamp
        BY <3>1 DEF ReadCurrent
      <4>. QED
        BY <4>1, <4>2
    <3>3. CellAt(n, k) = CellAt(a, k)
      BY <1>2, <1>3 DEF IInv, Replication, ReplicasAgree, Writing
    <3>4. CellAt(a, k).ver = cur[a].pkt.timpStamp
      BY <1>3, <3>1 DEF ReadCurrent
    <3>5. Read(n, p).timpStamp \in {p.timpStamp, CellAt(n, k).ver}
      BY <1>3 DEF Read, CellAt, Packet
    <3>. QED
      BY <3>2, <3>3, <3>4, <3>5
  <2>3. \A x \in Nodes, l \in Keys : CellAt(x, l)' = CellAt(x, l)
    BY <2>1 DEF CellAt
  <2>4. \A x \in Nodes : pc[x] = "reading" =>
          CellAt(x, cur[x].pkt.key)' = CellAt(x, cur[x].pkt.key)
    BY <1>1, <1>5, <2>3 DEF nodeVars
  <2>5. \A x \in Nodes, r \in Nodes :
          \/ inbox'[x][r] = inbox[x][r]
          \/ x = a /\ inbox'[x][r] = Read(n, p)
    <3>1. CASE UNCHANGED inbox
      BY <3>1
    <3>2. CASE inbox' = [inbox EXCEPT ![a][n] = Read(n, p)]
      BY <1>1, <3>2 DEF TypeOK, Procs
    <3>. QED
      BY <2>1, <3>1, <3>2 DEF SendBack
  <2>. QED
    BY <1>1, <1>4, <2>2, <2>4, <2>5, ReadsKept DEF ReaderKept, nodeVars
<1>. QED
  BY <1>6, <1>7

(* A coordinator takes a request up: what it reads is its own version.     *)
LEMMA RequestData ==
  ASSUME SameRanks, EmptyValue \notin PutValues, Protocol, PutCalls, RequestsAsCalled,
         NEW n \in Nodes, ClientHandler(n)
  PROVE  LET m == Head(backlog[n])
             a == m.from
             p == m.pkt
         IN  /\ p \in Packet /\ a \in Clients /\ ForCoordinator(n, p)
             /\ call[a] \in Call /\ call[a].peer = n /\ call[a].pc = "request"
             /\ p.key = call[a].key
             /\ ~Serves(n, a) /\ ~Answered(n, a) /\ n \in up
             /\ p.size # 0 => /\ call[a].op = "put" /\ p.value = call[a].val
                              /\ p.timpStamp = versions[a][call[a].key]
             /\ p.size = 0 => /\ call[a].op = "get" /\ p.value = EmptyValue
                              /\ p.timpStamp = 0
<1>. DEFINE m == Head(backlog[n])
            a == m.from
            p == m.pkt
<1>1. Accepts(n, "client") /\ TypeOK /\ Messages
  BY DEF ClientHandler, Protocol
<1>2. /\ p \in Packet /\ a \in Clients /\ a \in Procs /\ ConnectionOK(n, m)
      /\ p.type = "client" /\ Queues(backlog[n], a) /\ n \in up
      /\ m = backlog[n][1] /\ 1 \in 1 .. Len(backlog[n])
  BY <1>1, HeadConnection, AcceptsType
<1>3. Expects(a, n) /\ ~Serves(n, a) /\ ~Answered(n, a)
  BY <1>1, <1>2 DEF Messages, RequestInOnePlace
<1>4. call[a] \in Call /\ call[a] # None /\ call[a].peer = n
  BY <1>1, <1>2, <1>3 DEF Expects, TypeOK
<1>5. call[a].pc = "request" /\ ForCoordinator(n, p)
  BY <1>2, <1>4 DEF ConnectionOK, ClientConnectionOK, Call
<1>6. p = RequestPacket(a, p.rank, EmptyValue)
  BY <1>2 DEF RequestsAsCalled, AsCalled
<1>7. call[a].op \in {"put", "get"} /\ call[a].val \in Values
  BY <1>4 DEF Call
<1>8. call[a].op = "put" => Length[call[a].val] # 0
  BY <1>2, <1>4, <1>7, DataAssumption DEF PutCalls
<1>9. /\ p.key = call[a].key
      /\ p.size = IF call[a].op = "put" THEN Length[call[a].val] ELSE 0
      /\ p.value = IF call[a].op = "put" THEN call[a].val ELSE EmptyValue
      /\ p.timpStamp = IF call[a].op = "put" THEN versions[a][call[a].key] ELSE 0
  BY <1>6, SMTT(30) DEF RequestPacket
<1>. HIDE DEF p, a, m
<1>10. /\ p.size # 0 => /\ call[a].op = "put" /\ p.value = call[a].val
                        /\ p.timpStamp = versions[a][call[a].key]
       /\ p.size = 0 => /\ call[a].op = "get" /\ p.value = EmptyValue
                        /\ p.timpStamp = 0
  BY <1>7, <1>8, <1>9
<1>. QED
  BY <1>2, <1>3, <1>4, <1>5, <1>9, <1>10 DEF p, a, m

(* An empty buffer takes a stored value as it is.                          *)
LEMMA ReadCell ==
  ASSUME TypeOK, NEW n \in Nodes, NEW p \in Packet,
         ForCoordinator(n, p), p.value = EmptyValue, p.timpStamp = 0
  PROVE  /\ Read(n, p).value = CellAt(n, p.key).val
         /\ Read(n, p).timpStamp = CellAt(n, p.key).ver
         /\ CellAt(n, p.key) \in Cell
<1>. DEFINE cell == CellAt(n, p.key)
<1>1. cell \in Cell /\ p.key \in Keys /\ p.rank = CoordRank(p.key) /\ RankOK(n, p.rank)
  BY ConstantFacts DEF TypeOK, CellAt, Packet, ForCoordinator, RankOK
<1>2. CASE cell = Absent
  <2>1. Read(n, p) = p
    BY <1>1, <1>2 DEF Read, CellAt
  <2>. QED
    BY <1>1, <1>2, <2>1 DEF Absent
<1>3. CASE cell # Absent
  <2>1. Length[EmptyValue] = 0 /\ Length[cell.val] \in Nat /\ EmptyValue \in Values
    BY <1>1, DataAssumption DEF Cell
  <2>2. Overlay(cell.val, EmptyValue) = cell.val
    BY <2>1 DEF Overlay
  <2>3. Read(n, p) = [p EXCEPT !.size = Length[cell.val], !.timpStamp = cell.ver,
                               !.value = cell.val]
    BY <1>1, <1>3, <2>2 DEF Read, CellAt
  <2>. HIDE DEF cell
  <2>4. Read(n, p).value = cell.val /\ Read(n, p).timpStamp = cell.ver
    BY <2>3 DEF Packet
  <2>. QED
    BY <1>1, <2>4 DEF cell
<1>. QED
  BY <1>2, <1>3

LEMMA ClientHandlerReads ==
  ASSUME SameRanks, EmptyValue \notin PutValues, Protocol, Linear,
         NEW n \in Nodes, ClientHandler(n)
  PROVE  ReadsCurrent'
<1>. DEFINE M == Head(backlog[n])
<1>1. /\ TypeOK /\ Messages /\ Accepts(n, "client") /\ UNCHANGED <<up, inbox, fds>>
      /\ PutCalls /\ RequestsAsCalled /\ ReadsCurrent
      /\ pc[n] = "accept" /\ n \notin Clients /\ n \in Procs
  BY HeadConnection, ConstantFacts DEF Protocol, Linear, ClientHandler, clientVars, Procs
<1>2. /\ M.pkt \in Packet /\ M.from \in Clients /\ ForCoordinator(n, M.pkt)
      /\ M.pkt.size = 0 => M.pkt.value = EmptyValue /\ M.pkt.timpStamp = 0
  BY <1>1, RequestData
<1>3. \A x \in Nodes : \A i \in 1 .. Len(backlog'[x]) :
        \E j \in 1 .. Len(backlog[x]) : backlog'[x][i] = backlog[x][j]
  BY <1>1, HeadConnection, DequeueEffect
<1>4. \A x \in Nodes : pc[x] = "reading" => cur[x].pkt.key \in Keys
  BY <1>1 DEF Messages, CoordinatorOK, TypeOK, Connection, Packet
<1>5. CASE M.pkt.size # 0
  <2>1. /\ M.pkt.value \in Values /\ Write(n, Stamped(M.pkt))
        /\ pc' = [pc EXCEPT ![n] = "writing"]
        /\ \A x \in Nodes \ {n} : cur'[x] = cur[x]
    BY <1>1, <1>5, ClientHandlerCases DEF TypeOK
  <2>2. pc'[n] = "writing" /\ \A x \in Nodes \ {n} : pc'[x] = pc[x]
    BY <1>1, <2>1 DEF TypeOK
  <2>3. \A x \in Nodes \ {n} : \A k \in Keys : CellAt(x, k)' = CellAt(x, k)
    BY <1>1, <2>1 DEF Write, CellAt, TypeOK
  <2>4. \A x \in Nodes \ {n} : pc'[x] = "reading" =>
          CellAt(x, cur[x].pkt.key)' = CellAt(x, cur[x].pkt.key)
    BY <1>4, <2>1, <2>2, <2>3
  <2>. QED
    BY <1>1, <1>3, <2>1, <2>2, <2>4, ReadsKept DEF ReaderKept
<1>6. CASE M.pkt.size = 0
  <2>1. /\ store' = store
        /\ pc' = [pc EXCEPT ![n] = "reading"]
        /\ cur' = [cur EXCEPT ![n] =
                     [from |-> M.from, pkt |-> [Read(n, M.pkt) EXCEPT !.type = "node"]]]
    BY <1>6, ClientHandlerCases
  <2>2. PICK k \in Keys, q \in Packet :
          k = M.pkt.key /\ q = Read(n, M.pkt)
          /\ q.key = k /\ q.timpStamp = CellAt(n, k).ver
    BY <1>1, <1>2, <1>6, ReadType, ReadCell DEF Packet
  <2>3. /\ pc'[n] = "reading" /\ cur'[n].pkt = [q EXCEPT !.type = "node"]
        /\ \A x \in Nodes \ {n} : pc'[x] = pc[x] /\ cur'[x] = cur[x]
    BY <1>1, <2>1, <2>2 DEF TypeOK
  <2>4. cur'[n].pkt.key = k /\ cur'[n].pkt.timpStamp = CellAt(n, k).ver
    BY <2>2, <2>3 DEF Packet
  <2>5. \A x \in Nodes, l \in Keys : CellAt(x, l)' = CellAt(x, l)
    BY <2>1 DEF CellAt
  <2>6. fds[n] = {} /\ \A r \in Nodes : ~Expects(n, r)
    BY <1>1 DEF Messages, CoordinatorOK, Expects
  <2>7. \A r \in Nodes : inbox'[n][r] = None
    BY <1>1, <2>6 DEF Messages, ReplyOK
  <2>8. \A r \in Nodes \cap up : \A i \in 1 .. Len(backlog'[r]) : backlog'[r][i].from # n
    BY <1>1, <1>3, <2>6 DEF Messages, RequestInOnePlace, Queues
  <2>9. ReadCurrent(n)'
    BY <1>1, <2>2, <2>3, <2>4, <2>5, <2>7, <2>8 DEF ReadCurrent
  <2>10. ASSUME NEW x \in Nodes \ {n}, x \in up', pc'[x] = "reading"
         PROVE  ReadCurrent(x)'
    <3>1. /\ ReadCurrent(x) /\ pc[x] = "reading" /\ cur'[x] = cur[x]
          /\ cur[x].pkt.key \in Keys
      BY <1>1, <1>4, <2>3, <2>10 DEF ReadsCurrent
    <3>2. CellAt(x, cur[x].pkt.key)' = CellAt(x, cur[x].pkt.key)
      BY <2>5, <3>1
    <3>. QED
      BY <1>1, <1>3, <3>1, <3>2, ReadKept DEF ReaderKept
  <2>11. \A x \in Nodes \cap up' : pc'[x] # "reading" => ReadCurrent(x)'
    BY DEF ReadCurrent
  <2>. QED
    BY <2>9, <2>10, <2>11 DEF ReadsCurrent
<1>. QED
  BY <1>5, <1>6

LEMMA ContactReplicaReads ==
  ASSUME Protocol, ReadsCurrent, NEW n \in Nodes, ContactReplica(n)
  PROVE  ReadsCurrent'
<1>. DEFINE Q == IF pc[n] = "writing" THEN cur[n].pkt
                                      ELSE [cur[n].pkt EXCEPT !.size = 0]
            T == Target(n)
<1>1. /\ TypeOK /\ Coordinates(n) /\ ~FanOutDone(n) /\ n \in Procs
      /\ up' \subseteq up /\ UNCHANGED <<inbox, pc, cur, store>>
  BY DEF Protocol, ContactReplica, Procs, Exit
<1>2. \A x \in Nodes, k \in Keys : CellAt(x, k)' = CellAt(x, k)
  BY <1>1 DEF CellAt
<1>3. \A x \in Nodes : pc[x] = "reading" => cur[x].pkt.key \in Keys
  BY DEF Protocol, Messages, CoordinatorOK, TypeOK, Connection, Packet
<1>4. \A x \in Nodes : pc[x] = "reading" =>
        CellAt(x, cur[x].pkt.key)' = CellAt(x, cur[x].pkt.key)
  BY <1>1, <1>2, <1>3
<1>5. CASE Enqueue(n, T, Q)
  <2>1. Q \in Packet /\ Q.timpStamp = cur[n].pkt.timpStamp
    BY <1>1, CoordinatesFacts DEF Packet
  <2>2. T \in Nodes
    BY <1>1, CoordinatesFacts, ConstantFacts
    DEF Target, Packet, FanOutDone, SIZE_PREFERENCE_LIST
  <2>. HIDE DEF Q, T
  <2>3. \A x \in Nodes : \A i \in 1 .. Len(backlog'[x]) :
          \/ backlog'[x][i] = [from |-> n, pkt |-> Q]
          \/ \E j \in 1 .. Len(backlog[x]) : backlog'[x][i] = backlog[x][j]
    BY <1>1, <1>5, <2>1, <2>2, EnqueueElements
  <2>. QED
    BY <1>1, <1>4, <2>1, <2>3, ReadsKept DEF ReaderKept
<1>6. CASE UNCHANGED backlog
  BY <1>1, <1>4, <1>6, ReadsKept DEF ReaderKept
<1>. QED
  BY <1>5, <1>6 DEF ContactReplica

(* No reply of a replica is newer than what its coordinator has read.      *)
LEMMA ReplyKeepsRead ==
  ASSUME Protocol, ReadsCurrent, NEW n \in Nodes, NEW r \in Nodes, ReplicaReply(n, r)
  PROVE  cur' = cur
<1>1. /\ n \in up /\ inbox[n][r] # None
      /\ pc[n] = "reading" => ReadCurrent(n) /\ cur[n].pkt.timpStamp \in Nat
  BY CoordinatesFacts DEF ReplicaReply, Coordinates, ReadsCurrent, Packet, Versions
<1>2. pc[n] = "reading" => ~(cur[n].pkt.timpStamp < inbox[n][r].timpStamp)
  BY <1>1 DEF ReadCurrent
<1>. QED
  BY <1>2 DEF ReplicaReply

LEMMA NodeReads ==
  ASSUME SameRanks, EmptyValue \notin PutValues, IInv, Linear,
         NEW n \in Nodes, NodeStep(n)
  PROVE  ReadsCurrent'
<1>1. /\ Protocol /\ TypeOK /\ ReadsCurrent /\ n \in Procs
      /\ \A x \in Nodes, y \in Clients : x # y
  BY ConstantFacts DEF IInv, Protocol, Linear, Procs
<1>2. \A x \in Nodes : pc[x] = "reading" => cur[x].pkt.key \in Keys
  BY <1>1 DEF Protocol, Messages, CoordinatorOK, TypeOK, Connection, Packet
<1>3. ASSUME UNCHANGED store, up' \subseteq up,
             \A x \in Nodes : pc'[x] = "reading"
                                => pc[x] = "reading" /\ cur'[x] = cur[x],
             \A x \in Nodes, y \in Nodes :
               inbox'[x][y] # None => inbox'[x][y] = inbox[x][y],
             \A x \in Nodes : \A i \in 1 .. Len(backlog'[x]) :
               \E j \in 1 .. Len(backlog[x]) : backlog'[x][i] = backlog[x][j]
      PROVE  ReadsCurrent'
  <2>1. \A x \in Nodes, k \in Keys : CellAt(x, k)' = CellAt(x, k)
    BY <1>3 DEF CellAt
  <2>2. \A x \in Nodes : pc'[x] = "reading" =>
          CellAt(x, cur[x].pkt.key)' = CellAt(x, cur[x].pkt.key)
    BY <1>2, <1>3, <2>1
  <2>. QED
    BY <1>1, <1>3, <2>2, ReadsKept DEF ReaderKept
<1>4. CASE ClientCoordinator(n)
  <2>1. Accepts(n, "lookup") /\ Head(backlog[n]).from \in Clients
    BY <1>1, <1>4, HeadConnection DEF ClientCoordinator
  <2>2. \A x \in Nodes : \A i \in 1 .. Len(backlog'[x]) :
          \E j \in 1 .. Len(backlog[x]) : backlog'[x][i] = backlog[x][j]
    BY <1>1, <2>1, HeadConnection, DequeueEffect
  <2>3. \A x \in Nodes : inbox'[x] = inbox[x]
    BY <1>1, <1>4, <2>1 DEF ClientCoordinator, SendBack, TypeOK, Procs
  <2>. QED
    BY <1>3, <1>4, <2>2, <2>3 DEF ClientCoordinator, SendBack, Exit, nodeVars
<1>5. ASSUME NEW r \in Nodes, ReplicaReply(n, r) \/ ReplicaLost(n, r)
      PROVE  ReadsCurrent'
  <2>1. UNCHANGED <<up, backlog, pc, cur, store>>
    BY <1>1, <1>5, ReplyKeepsRead DEF ReplicaReply, ReplicaLost
  <2>2. \A x \in Nodes, y \in Nodes : inbox'[x][y] # None => inbox'[x][y] = inbox[x][y]
    <3>1. CASE UNCHANGED inbox
      BY <3>1
    <3>2. CASE Take(n, r)
      BY <1>1, <3>2 DEF Take, TypeOK
    <3>. QED
      BY <1>5, <3>1, <3>2 DEF ReplicaReply, ReplicaLost
  <2>. QED
    BY <1>3, <2>1, <2>2
<1>6. CASE Respond(n)
  <2>1. cur[n].from \in Clients
    BY <1>1, <1>6, CoordinatesFacts DEF Respond
  <2>2. \A x \in Nodes : inbox'[x] = inbox[x]
    BY <1>1, <1>6, <2>1 DEF Respond, SendBack, TypeOK, Procs
  <2>3. \A x \in Nodes : pc'[x] = "reading" => pc[x] = "reading" /\ cur'[x] = cur[x]
    BY <1>1, <1>6 DEF Respond, TypeOK
  <2>. QED
    BY <1>3, <1>6, <2>2, <2>3 DEF Respond, SendBack, Exit
<1>. QED
  BY <1>1, <1>4, <1>5, <1>6, NodeHandlerReads, ClientHandlerReads, ContactReplicaReads
  DEF NodeStep, IInv

LEMMA NextReads ==
  ASSUME SameRanks, EmptyValue \notin PutValues, IInv, Linear, [Next]_vars
  PROVE  ReadsCurrent'
<1>1. Protocol /\ ReadsCurrent /\ TypeOK
  BY DEF IInv, Linear, Protocol
<1>2. CASE UNCHANGED vars \/ (\E p \in Procs : Kill(p))
  <2>1. up' \subseteq up /\ UNCHANGED <<backlog, inbox, pc, cur, store>>
    BY <1>2 DEF vars, nodeVars, Kill, Exit
  <2>2. \A n \in Nodes : pc[n] = "reading" =>
          CellAt(n, cur[n].pkt.key)' = CellAt(n, cur[n].pkt.key)
    BY <2>1 DEF CellAt
  <2>. QED
    BY <1>1, <2>1, <2>2, ReadsKept DEF ReaderKept
<1>. QED
  BY <1>1, <1>2, ClientReads, NodeReads DEF Next

LEMMA LinearStep ==
  ASSUME CleanData, LinearInv, [Next]_vars
  PROVE  LinearInv'
BY NextPutCalls, NextRequests, NextReads, NextTypeOK, NextMessages, NextReplication
DEF CleanData, LinearInv, Linear, IInv, Protocol

LEMMA InitLinear == Init => LinearInv
BY InitProtocol, InitReplication
DEF Init, LinearInv, IInv, Linear, PutCalls, RequestsAsCalled, ReadsCurrent, ReadCurrent

(***************************************************************************)
(* Part one of linearizability: the invariant LinearInv, for every value   *)
(* of the constants with clean data.                                       *)
(***************************************************************************)
THEOREM LinearHolds ==
  ASSUME CleanData
  PROVE  Spec => []LinearInv
<1>1. LinearInv /\ [Next]_vars => LinearInv'
  BY LinearStep
<1>. QED
  BY <1>1, InitLinear, PTL DEF Spec

-----------------------------------------------------------------------------
(* The simulation.                                                         *)

(* Nothing the map of a client's call depends on has changed.              *)
SameCall(c) ==
  /\ call'[c] = call[c]
  /\ call[c] # None /\ call[c].pc = "request" =>
       LET n == call[c].peer
       IN  /\ inbox'[c][n] = inbox[c][n]
           /\ Serves(n, c) <=> cur'[n] # None /\ cur'[n].from = c
           /\ Serves(n, c) => cur'[n].pkt = cur[n].pkt

LEMMA SamePend ==
  ASSUME NEW c \in Clients, SameCall(c)
  PROVE  pendBar'[c] = pendBar[c]
<1>1. CASE call[c] = None
  BY <1>1 DEF pendBar, SameCall
<1>2. CASE call[c] # None /\ call[c].pc # "request"
  BY <1>2 DEF pendBar, SameCall, Applied
<1>3. CASE call[c] # None /\ call[c].pc = "request"
  <2>. DEFINE n == call[c].peer
  <2>1. call'[c] = call[c] /\ inbox'[c][n] = inbox[c][n]
    BY <1>3 DEF SameCall
  <2>2. Serves(n, c) <=> Serves(n, c)'
    BY <1>3, <2>1 DEF SameCall, Serves
  <2>3. Applied(c)' <=> Applied(c)
    BY <1>3, <2>1, <2>2 DEF Applied, Answered, Serves, SameCall
  <2>4. Applied(c) => /\ Answer(c)'.value = Answer(c).value
                      /\ Answer(c)'.timpStamp = Answer(c).timpStamp
    BY <1>3, <2>1, <2>2 DEF Applied, Answer, Answered, SameCall
  <2>5. Applied(c)' = Applied(c)
    BY <2>3 DEF Applied
  <2>6. CASE Applied(c) /\ call[c].op = "get"
    BY <1>3, <2>1, <2>4, <2>5, <2>6 DEF pendBar
  <2>7. CASE ~(Applied(c) /\ call[c].op = "get")
    BY <1>3, <2>1, <2>5, <2>7 DEF pendBar
  <2>. QED
    BY <2>6, <2>7
<1>. QED
  BY <1>1, <1>2, <1>3

LEMMA PendUpdate ==
  /\ (\A c \in Clients : SameCall(c)) => pendBar' = pendBar
  /\ \A c \in Clients : \A v :
       (\A d \in Clients \ {c} : SameCall(d)) /\ pendBar'[c] = v
         => pendBar' = [pendBar EXCEPT ![c] = v]
<1>1. /\ pendBar = [c \in Clients |-> pendBar[c]]
      /\ pendBar' = [c \in Clients |-> pendBar'[c]]
  BY DEF pendBar
<1>. QED
  BY <1>1, SamePend

LEMMA SameDb ==
  ASSUME \A k \in Keys : CellAt(Coordinator(k), k)' = CellAt(Coordinator(k), k)
  PROVE  dbBar' = dbBar
BY DEF dbBar

(* The state of a call in progress has its type, so it is not None.        *)
LEMMA PendType ==
  ASSUME Protocol, NEW c \in Clients, call[c] # None
  PROVE  pendBar[c] \in Pending /\ pendBar[c] # None
<1>1. TypeOK /\ Messages /\ c \in Procs /\ call[c] \in Call
  BY DEF Protocol, TypeOK, Procs
<1>2. call[c].peer \in Nodes
  BY <1>1 DEF Call
<1>3. Applied(c) => Answer(c) \in Packet
  <2>1. CASE Applied(c) /\ Answered(call[c].peer, c)
    BY <1>1, <1>2, <2>1 DEF Applied, Answer, Answered, Messages, ReplyOK, Call
  <2>2. CASE Applied(c) /\ ~Answered(call[c].peer, c)
    <3>1. cur[call[c].peer] \in Connection
      BY <1>1, <1>2, <2>2 DEF Applied, Serves, TypeOK
    <3>. QED
      BY <2>2, <3>1 DEF Answer, Connection
  <2>. QED
    BY <2>1, <2>2
<1>4. Absent \in [val : Text, ver : Versions]
  BY DataAssumption DEF Absent, Text, Versions
<1>5. Applied(c) => [val |-> Answer(c).value, ver |-> Answer(c).timpStamp]
                      \in [val : Text, ver : Versions]
  BY <1>3 DEF Packet
<1>6. Applied(c) \in BOOLEAN
  BY DEF Applied
<1>7. pendBar[c] = [op |-> call[c].op, key |-> call[c].key, val |-> call[c].val,
                    done |-> Applied(c),
                    cell |-> IF Applied(c) /\ call[c].op = "get"
                             THEN [val |-> Answer(c).value, ver |-> Answer(c).timpStamp]
                             ELSE Absent]
  BY DEF pendBar
<1>8. pendBar[c] \in Pending
  BY <1>1, <1>4, <1>5, <1>6, <1>7 DEF Pending, Call
<1>. QED
  BY <1>8, PendingAssumption

(* A step that changes none of what the map shows, or ends a process.      *)
LEMMA SilentStep ==
  ASSUME TypeOK, up' \subseteq up,
         UNCHANGED <<dbBar, pendBar, versions, value>>
  PROVE  [Abstract!Next]_(Abstract!vars)
<1>1. CASE up' = up
  BY <1>1 DEF Abstract!vars
<1>2. CASE up' # up
  <2>1. (up # Procs)' = TRUE
    BY <1>2 DEF TypeOK
  <2>. QED
    BY <2>1 DEF Abstract!Next, Abstract!Fail
<1>. QED
  BY <1>1, <1>2

(* Steps that the map does not show.                                       *)
LEMMA QuietStep ==
  ASSUME TypeOK, up' \subseteq up,
         UNCHANGED <<inbox, cur, store, call, versions, value>>
  PROVE  [Abstract!Next]_(Abstract!vars)
<1>1. UNCHANGED <<dbBar, pendBar>>
  BY DEF dbBar, CellAt, pendBar, Applied, Serves, Answered, Answer
<1>. QED
  BY <1>1, SilentStep

(* A call begins.                                                          *)
LEMMA BeginStep ==
  ASSUME Protocol, NEW c \in Clients, NEW op \in {"put", "get"}, NEW k \in Keys,
         NEW v \in Values, op = "put" => v \in PutValues,
         op = "get" => v = EmptyValue, NEW t \in Nodes, Begin(c, op, k, v, t)
  PROVE  [Abstract!Next]_(Abstract!vars)
<1>1. /\ TypeOK /\ call[c] = None
      /\ UNCHANGED <<up, inbox, cur, store, versions, value>>
  BY DEF Protocol, Begin, nodeVars
<1>2. CASE UNCHANGED call
  BY <1>1, <1>2, QuietStep
<1>3. CASE call' = [call EXCEPT ![c] = [pc |-> "lookup", op |-> op, key |-> k,
                                        val |-> v, peer |-> t]]
  <2>. DEFINE new == [pc |-> "lookup", op |-> op, key |-> k, val |-> v, peer |-> t]
              p == [op |-> op, key |-> k, val |-> v, done |-> FALSE, cell |-> Absent]
  <2>1. call'[c] = new /\ \A d \in Clients \ {c} : call'[d] = call[d]
    BY <1>1, <1>3 DEF TypeOK
  <2>2. new # None
    BY NoneAssumption DEF Call
  <2>3. Applied(c)' = FALSE
    BY <2>1 DEF Applied
  <2>4. pendBar'[c] = p
    <3>1. /\ call'[c] # None
          /\ call'[c].op = op /\ call'[c].key = k /\ call'[c].val = v
      BY <2>1, <2>2
    <3>2. ~Applied(c)'
      BY <2>3
    <3>. HIDE DEF new
    <3>. QED
      BY <2>3, <3>1, <3>2 DEF pendBar
  <2>5. \A d \in Clients \ {c} : SameCall(d)
    BY <1>1, <2>1 DEF SameCall, Serves
  <2>. HIDE DEF p
  <2>6. pendBar' = [pendBar EXCEPT ![c] = p]
    BY <2>4, <2>5, PendUpdate
  <2>7. pendBar[c] = None
    BY <1>1 DEF pendBar
  <2>8. dbBar' = dbBar /\ (up # Procs)' = (up # Procs)
    BY <1>1 DEF dbBar, CellAt
  <2>9. Abstract!Begin(c, op, k, v)
    BY <1>1, <2>6, <2>7, <2>8 DEF Abstract!Begin, Abstract!Absent, Absent, p
  <2>10. \/ op = "put" /\ v \in PutValues /\ Abstract!Begin(c, "put", k, v)
         \/ op = "get" /\ Abstract!Begin(c, "get", k, EmptyValue)
    BY <2>9
  <2>11. Abstract!Next
    BY <2>10 DEF Abstract!Next
  <2>. QED
    BY <2>11
<1>. QED
  BY <1>2, <1>3 DEF Begin

(* The request is sent: the call is not applied before nor after.          *)
LEMMA ContactStep ==
  ASSUME Protocol, NEW c \in Clients, ContactCoordinator(c)
  PROVE  [Abstract!Next]_(Abstract!vars)
<1>. DEFINE coord == inbox[c][call[c].peer].value
<1>1. /\ TypeOK /\ call[c] # None /\ call[c].pc = "lookup" /\ c \in Procs
      /\ inbox[c][call[c].peer] # None
      /\ UNCHANGED <<cur, store, versions, value>>
  BY DEF Protocol, ContactCoordinator, nodeVars, Procs
<1>2. /\ \A n \in Nodes \cap up : ~Serves(n, c)
      /\ \A n \in Nodes \ {call[c].peer} : inbox[c][n] = None
      /\ call[c] \in Call /\ call[c].peer \in Nodes
  BY <1>1, AnsweredClient
<1>3. CASE Exit(c) /\ UNCHANGED <<inbox, call>>
  BY <1>1, <1>3, QuietStep DEF Exit
<1>4. CASE /\ Connectable(coord) /\ Take(c, call[c].peer) /\ UNCHANGED up
           /\ \E junk \in Stack :
                Enqueue(c, coord, RequestPacket(c, inbox[c][call[c].peer].rank, junk))
           /\ call' = [call EXCEPT ![c].pc = "request", ![c].peer = coord]
  <2>1. PICK t \in Nodes \cap up : t = coord
    BY <1>4, RequestPacketType DEF Connectable
  <2>2. /\ call'[c] = [call[c] EXCEPT !.pc = "request", !.peer = t]
        /\ \A d \in Clients \ {c} : call'[d] = call[d]
    BY <1>1, <1>4, <2>1 DEF TypeOK
  <2>3. /\ call'[c] \in Call /\ call'[c].peer = t
        /\ call'[c].op = call[c].op /\ call'[c].key = call[c].key
        /\ call'[c].val = call[c].val
    BY <1>2, <2>2 DEF Call
  <2>4. /\ \A n \in Nodes : inbox'[c][n] = None
        /\ \A d \in Clients \ {c}, n \in Nodes : inbox'[d][n] = inbox[d][n]
    BY <1>1, <1>2, <1>4 DEF TypeOK, Take, Procs
  <2>5. Applied(c)' = FALSE /\ Applied(c) = FALSE
    BY <1>1, <1>2, <2>1, <2>3, <2>4 DEF Applied, Serves, Answered
  <2>6. call'[c] # None
    BY <2>3, NoneAssumption
  <2>7. pendBar'[c] = pendBar[c]
    BY <1>1, <2>3, <2>5, <2>6 DEF pendBar
  <2>8. \A d \in Clients \ {c} : SameCall(d)
    <3>1. \A d \in Clients : call[d] # None => call[d].peer \in Nodes
      BY <1>1 DEF TypeOK, Call
    <3>. QED
      BY <1>1, <2>2, <2>4, <3>1 DEF SameCall, Serves
  <2>9. pendBar' = [pendBar EXCEPT ![c] = pendBar[c]]
    BY <2>7, <2>8, PendUpdate
  <2>10. pendBar' = pendBar
    BY <2>9 DEF pendBar
  <2>11. dbBar' = dbBar
    BY <1>1 DEF dbBar, CellAt
  <2>. QED
    BY <1>1, <1>4, <2>10, <2>11, SilentStep
<1>. QED
  BY <1>3, <1>4 DEF ContactCoordinator

(* A call returns what it was answered, or is given up after a failure.    *)
LEMMA ReturnStep ==
  ASSUME Protocol, NEW c \in Clients, Return(c) \/ ReturnLost(c)
  PROVE  [Abstract!Next]_(Abstract!vars)
<1>. DEFINE n == call[c].peer
<1>1. /\ TypeOK /\ call[c] # None /\ call[c].pc = "request" /\ c \in Procs
      /\ call' = [call EXCEPT ![c] = None]
      /\ UNCHANGED <<up, cur, store>>
  BY DEF Protocol, Return, ReturnLost, nodeVars, Procs
<1>2. call[c] \in Call /\ n \in Nodes
  BY <1>1 DEF TypeOK, Call
<1>3. call'[c] = None /\ \A d \in Clients \ {c} : call'[d] = call[d]
  BY <1>1 DEF TypeOK
<1>4. \A d \in Clients \ {c}, x \in Nodes : inbox'[d][x] = inbox[d][x]
  <2>1. CASE UNCHANGED inbox
    BY <2>1
  <2>2. CASE Take(c, n)
    BY <1>1, <1>2, <2>2 DEF Take, TypeOK, Procs
  <2>. QED
    BY <2>1, <2>2 DEF Return, ReturnLost
<1>5. \A d \in Clients \ {c} : SameCall(d)
  <2>1. \A d \in Clients : call[d] # None => call[d].peer \in Nodes
    BY <1>1 DEF TypeOK, Call
  <2>. QED
    BY <1>1, <1>3, <1>4, <2>1 DEF SameCall, Serves
<1>6. pendBar' = [pendBar EXCEPT ![c] = None]
  BY <1>3, <1>5, PendUpdate DEF pendBar
<1>7. dbBar' = dbBar /\ (up # Procs)' = (up # Procs) /\ pendBar[c] # None
  BY <1>1, PendType DEF dbBar, CellAt
<1>8. CASE Return(c)
  <2>1. Answered(n, c) /\ Applied(c) = TRUE /\ Answer(c) = inbox[c][n]
    BY <1>1, <1>8 DEF Return, Applied, Answered, Answer
  <2>2. /\ pendBar[c].op = call[c].op /\ pendBar[c].key = call[c].key
        /\ pendBar[c].done = TRUE
        /\ call[c].op = "get" => /\ pendBar[c].cell.val = inbox[c][n].value
                                 /\ pendBar[c].cell.ver = inbox[c][n].timpStamp
    BY <1>1, <2>1 DEF pendBar
  <2>3. IF call[c].op = "get"
        THEN /\ value' = [value EXCEPT ![c] = inbox[c][n].value]
             /\ versions' = [versions EXCEPT ![c][call[c].key] = inbox[c][n].timpStamp]
        ELSE UNCHANGED <<value, versions>>
    BY <1>8 DEF Return
  <2>4. Abstract!Return(c)
    BY <1>6, <1>7, <2>2, <2>3 DEF Abstract!Return
  <2>5. Abstract!Next
    BY <2>4 DEF Abstract!Next
  <2>. QED
    BY <2>5
<1>9. CASE ReturnLost(c)
  <2>1. up # Procs /\ UNCHANGED <<versions, value>>
    BY <1>2, <1>9 DEF ReturnLost, PeerLost, Procs
  <2>2. Abstract!Abandon(c)
    BY <1>6, <1>7, <2>1 DEF Abstract!Abandon
  <2>3. Abstract!Next
    BY <2>2 DEF Abstract!Next
  <2>. QED
    BY <2>3
<1>. QED
  BY <1>8, <1>9

(* A node answers a lookup, or another coordinator.                        *)
LEMMA AcceptStep ==
  ASSUME SameRanks, IInv, NEW n \in Nodes,
         ClientCoordinator(n) \/ NodeHandlerWrite(n) \/ NodeHandlerRead(n)
  PROVE  [Abstract!Next]_(Abstract!vars)
<1>. DEFINE M == Head(backlog[n])
<1>1. /\ Protocol /\ TypeOK /\ UNCHANGED <<cur, call, versions, value>> /\ up' \subseteq up
  BY DEF IInv, Protocol, ClientCoordinator, NodeHandlerWrite, NodeHandlerRead,
         nodeVars, clientVars, SendBack, Exit
<1>2. \A x \in Clients : call[x] # None => call[x].peer \in Nodes
  BY <1>1 DEF TypeOK, Call
<1>3. PICK a \in Procs : a = M.from /\ (a \in Clients => call[a].pc # "request")
  <2>1. CASE ClientCoordinator(n)
    <3>1. M.from \in Procs /\ ConnectionOK(n, M) /\ M.pkt.type = "lookup"
      BY <1>1, <2>1, HeadConnection DEF ClientCoordinator
    <3>. QED
      BY <3>1 DEF ConnectionOK, ClientConnectionOK
  <2>2. CASE NodeHandlerWrite(n) \/ NodeHandlerRead(n)
    BY <1>1, <2>2, HeadConnection DEF NodeHandlerWrite, NodeHandlerRead
  <2>. QED
    BY <2>1, <2>2
<1>4. \A d \in Clients, x \in Nodes : d # a => inbox'[d][x] = inbox[d][x]
  <2>1. CASE UNCHANGED inbox
    BY <2>1
  <2>2. ASSUME NEW m, inbox' = [inbox EXCEPT ![a][n] = m]
        PROVE  \A d \in Clients, x \in Nodes : d # a => inbox'[d][x] = inbox[d][x]
    BY <1>1, <2>2 DEF TypeOK, Procs
  <2>. QED
    BY <1>3, <2>1, <2>2
    DEF ClientCoordinator, NodeHandlerWrite, NodeHandlerRead, SendBack
<1>5. pendBar' = pendBar
  <2>1. \A d \in Clients : SameCall(d)
    BY <1>1, <1>2, <1>3, <1>4 DEF SameCall, Serves
  <2>. QED
    BY <2>1, PendUpdate
<1>6. dbBar' = dbBar
  <2>1. CASE UNCHANGED store
    BY <2>1 DEF dbBar, CellAt
  <2>2. CASE NodeHandlerWrite(n)
    <3>1. /\ Accepts(n, "node") /\ M.pkt.size # 0 /\ Write(n, M.pkt)
      BY <2>2 DEF NodeHandlerWrite
    <3>2. /\ M.pkt \in Packet /\ M.pkt.value \in Values /\ M.from \in Nodes
          /\ NodeConnectionOK(n, M)
      BY <1>1, <3>1, HeadConnection DEF ConnectionOK
    <3>3. CoordinatorOK(M.from)
      BY <1>1, <3>2 DEF Protocol, Messages
    <3>4. PICK k \in Keys, p \in Packet :
            /\ p = M.pkt /\ k = p.key /\ p.rank = CoordRank(k)
            /\ n \in ReplicaNodes(k) /\ p.value \in Values
      BY <3>2, <3>3 DEF NodeConnectionOK, CoordinatorOK, ForCoordinator, Packet
    <3>5. RankOK(n, p.rank)
      BY <3>4, ReplicaFacts DEF SameRanks
    <3>6. \A x \in Nodes, l \in Keys :
            CellAt(x, l)' = IF x = n /\ l = k
                            THEN [val |-> p.value, ver |-> p.timpStamp]
                            ELSE CellAt(x, l)
      BY <1>1, <3>1, <3>4, <3>5, WriteEffect
    <3>. QED
      BY <3>4, <3>6, ReplicaFacts, SameDb
  <2>. QED
    BY <2>1, <2>2 DEF ClientCoordinator, NodeHandlerRead
<1>. QED
  BY <1>1, <1>5, <1>6, SilentStep

(* The coordinator's answer moves from its hands to the client's socket.   *)
LEMMA RespondStep ==
  ASSUME Protocol, NEW n \in Nodes, Respond(n)
  PROVE  [Abstract!Next]_(Abstract!vars)
<1>1. /\ TypeOK /\ Messages /\ Coordinates(n) /\ n \in up
      /\ cur[n] # None /\ cur[n].from \in Clients /\ cur[n].pkt \in Packet
      /\ UNCHANGED <<store, call, versions, value>>
  BY CoordinatesFacts DEF Protocol, Respond, clientVars
<1>2. CASE cur[n].from \notin up
  BY <1>1, <1>2, QuietStep DEF Respond, SendBack, Exit
<1>3. CASE cur[n].from \in up
  <2>1. PICK a \in Clients : a = cur[n].from
    BY <1>1
  <2>2. PICK q : /\ q.value = cur[n].pkt.value /\ q.timpStamp = cur[n].pkt.timpStamp
                 /\ inbox' = [inbox EXCEPT ![a][n] = q] /\ q \in Packet
    <3>1. /\ WriteBackPack(cur[n].pkt) \in Packet /\ ReadBackPack(cur[n].pkt) \in Packet
          /\ WriteBackPack(cur[n].pkt).value = cur[n].pkt.value
          /\ ReadBackPack(cur[n].pkt).value = cur[n].pkt.value
          /\ WriteBackPack(cur[n].pkt).timpStamp = cur[n].pkt.timpStamp
          /\ ReadBackPack(cur[n].pkt).timpStamp = cur[n].pkt.timpStamp
      BY <1>1 DEF WriteBackPack, ReadBackPack, Packet
    <3>2. \/ inbox' = [inbox EXCEPT ![a][n] = WriteBackPack(cur[n].pkt)]
          \/ inbox' = [inbox EXCEPT ![a][n] = ReadBackPack(cur[n].pkt)]
      BY <1>3, <2>1 DEF Respond, SendBack
    <3>. QED
      BY <3>1, <3>2
  <2>3. /\ cur'[n] = None /\ \A x \in Nodes \ {n} : cur'[x] = cur[x]
        /\ up' = up
    BY <1>1, <1>3 DEF Respond, SendBack, TypeOK
  <2>4. /\ inbox'[a][n] = q /\ q # None
        /\ \A d \in Clients, x \in Nodes : d # a => inbox'[d][x] = inbox[d][x]
    BY <1>1, <2>2, NoneAssumption DEF TypeOK, Procs
  <2>5. /\ call[a] # None /\ call[a].peer = n /\ call[a].pc = "request"
        /\ ~Answered(n, a)
    BY <1>1, <2>1
    DEF Messages, RequestInOnePlace, CoordinatorOK, Expects, Serves, Procs
  <2>6. \A d \in Clients \ {a} : SameCall(d)
    <3>1. \A d \in Clients : call[d] # None => call[d].peer \in Nodes
      BY <1>1 DEF TypeOK, Call
    <3>. QED
      BY <1>1, <2>1, <2>3, <2>4, <3>1 DEF SameCall, Serves
  <2>7. pendBar'[a] = pendBar[a]
    <3>1. Applied(a) = TRUE /\ Answer(a) = cur[n].pkt
      BY <1>1, <2>1, <2>5 DEF Applied, Serves, Answer
    <3>2. Applied(a)' = TRUE /\ Answer(a)' = q
      BY <1>1, <2>4, <2>5 DEF Applied, Answered, Answer
    <3>. QED
      BY <1>1, <2>2, <2>5, <3>1, <3>2 DEF pendBar
  <2>8. pendBar' = [pendBar EXCEPT ![a] = pendBar[a]]
    BY <2>6, <2>7, PendUpdate
  <2>9. pendBar' = pendBar
    BY <2>8 DEF pendBar
  <2>10. dbBar' = dbBar
    BY <1>1 DEF dbBar, CellAt
  <2>. QED
    BY <1>1, <2>3, <2>9, <2>10, SilentStep
<1>. QED
  BY <1>2, <1>3

(* What taking effect does to the record of a call.                        *)
LEMMA DoneRecord ==
  ASSUME NEW p \in Pending, NEW q \in Pending,
         q.op = p.op, q.key = p.key, q.val = p.val, q.done = TRUE
  PROVE  /\ q.cell = p.cell => q = [p EXCEPT !.done = TRUE]
         /\ q = [p EXCEPT !.done = TRUE, !.cell = q.cell]
BY DEF Pending

(* The coordinator takes the request up: the call takes effect.            *)
LEMMA ApplyStep ==
  ASSUME SameRanks, EmptyValue \notin PutValues, Protocol, PutCalls, RequestsAsCalled,
         NEW n \in Nodes, ClientHandler(n)
  PROVE  [Abstract!Next]_(Abstract!vars)
<1>. DEFINE M == Head(backlog[n])
<1>1. /\ TypeOK /\ Messages /\ Accepts(n, "client")
      /\ UNCHANGED <<up, inbox, call, versions, value>>
  BY DEF Protocol, ClientHandler, clientVars
<1>2. PICK a \in Clients, p \in Packet, k \in Keys :
        /\ a = M.from /\ p = M.pkt /\ k = p.key
        /\ ForCoordinator(n, p) /\ n = Coordinator(k) /\ p.rank = CoordRank(k)
        /\ call[a] \in Call /\ call[a].peer = n /\ call[a].pc = "request"
        /\ k = call[a].key
        /\ ~Serves(n, a) /\ ~Answered(n, a) /\ n \in up
        /\ p.size # 0 => /\ call[a].op = "put" /\ p.value = call[a].val
                         /\ p.timpStamp = versions[a][k]
        /\ p.size = 0 => /\ call[a].op = "get" /\ p.value = EmptyValue
                         /\ p.timpStamp = 0
  BY RequestData DEF ForCoordinator, Packet
<1>3. call[a] # None /\ cur[n] = None
  BY <1>1, <1>2, NoneAssumption DEF Messages, CoordinatorOK, Accepts
<1>4. PICK q \in Packet :
        /\ cur' = [cur EXCEPT ![n] = [from |-> a, pkt |-> q]]
        /\ p.size # 0 => /\ q.timpStamp = (versions[a][k] + 1) % VersionLimit
                         /\ \A x \in Nodes, l \in Keys :
                              CellAt(x, l)' = IF x = n /\ l = k
                                THEN [val |-> call[a].val, ver |-> q.timpStamp]
                                ELSE CellAt(x, l)
        /\ p.size = 0 => /\ store' = store
                         /\ CellAt(n, k) = [val |-> q.value, ver |-> q.timpStamp]
  <2>1. CASE p.size # 0
    <3>1. /\ p.value \in Values /\ Write(n, Stamped(p))
          /\ cur' = [cur EXCEPT ![n] = [from |-> a,
                                        pkt |-> [Stamped(p) EXCEPT !.type = "node"]]]
      BY <1>2, <2>1, ClientHandlerCases
    <3>2. PICK s \in Packet :
            /\ s = Stamped(p) /\ s.key = k /\ s.rank = CoordRank(k)
            /\ s.value = call[a].val /\ s.timpStamp = (versions[a][k] + 1) % VersionLimit
      BY <1>2, <2>1, StampedType DEF Stamped, Packet
    <3>3. \A x \in Nodes, l \in Keys :
            CellAt(x, l)' = IF x = n /\ l = k
                            THEN [val |-> s.value, ver |-> s.timpStamp]
                            ELSE CellAt(x, l)
      <4>1. RankOK(n, s.rank)
        BY <1>2, <3>2, ConstantFacts DEF RankOK
      <4>2. s.value \in Values
        BY <1>2, <3>2 DEF Call
      <4>. QED
        BY <1>1, <3>1, <3>2, <4>1, <4>2, WriteEffect
    <3>4. /\ [s EXCEPT !.type = "node"] \in Packet
          /\ [s EXCEPT !.type = "node"].timpStamp = s.timpStamp
      BY DEF Packet
    <3>. QED
      BY <2>1, <3>1, <3>2, <3>3, <3>4
  <2>2. CASE p.size = 0
    <3>1. /\ store' = store
          /\ cur' = [cur EXCEPT ![n] = [from |-> a,
                                        pkt |-> [Read(n, p) EXCEPT !.type = "node"]]]
      BY <1>2, <2>2, ClientHandlerCases
    <3>2. PICK s \in Packet :
            /\ s = Read(n, p) /\ s.value = CellAt(n, k).val
            /\ s.timpStamp = CellAt(n, k).ver
      <4>1. Read(n, p) \in Packet
        BY <1>1, ReadType
      <4>2. /\ Read(n, p).value = CellAt(n, p.key).val
            /\ Read(n, p).timpStamp = CellAt(n, p.key).ver
        BY <1>1, <1>2, <2>2, ReadCell
      <4>. QED
        BY <1>2, <4>1, <4>2
    <3>3. CellAt(n, k) \in Cell
      BY <1>1, <1>2, <2>2, ReadCell
    <3>4. CellAt(n, k) = [val |-> s.value, ver |-> s.timpStamp]
      BY <3>2, <3>3 DEF Cell
    <3>5. /\ [s EXCEPT !.type = "node"] \in Packet
          /\ [s EXCEPT !.type = "node"].timpStamp = s.timpStamp
          /\ [s EXCEPT !.type = "node"].value = s.value
      BY DEF Packet
    <3>. QED
      BY <2>2, <3>1, <3>2, <3>4, <3>5
  <2>. QED
    BY <2>1, <2>2
<1>5. /\ cur'[n] = [from |-> a, pkt |-> q] /\ cur'[n] # None
      /\ \A x \in Nodes \ {n} : cur'[x] = cur[x]
  <2>1. [from |-> a, pkt |-> q] \in Connection
    BY DEF Connection, Procs
  <2>. QED
    BY <1>1, <1>4, <2>1, NoneAssumption DEF TypeOK
<1>6. \A d \in Clients \ {a} : SameCall(d)
  <2>1. \A d \in Clients : call[d] # None => call[d].peer \in Nodes
    BY <1>1 DEF TypeOK, Call
  <2>. QED
    BY <1>1, <1>3, <1>5, <2>1 DEF SameCall, Serves
<1>7. Applied(a) = FALSE
  BY <1>2 DEF Applied
<1>8. Applied(a)' = TRUE /\ Answer(a)' = q
  <2>1. call'[a] = call[a] /\ inbox'[a][n] = inbox[a][n] /\ inbox[a][n] = None
    BY <1>1, <1>2 DEF Answered
  <2>2. cur'[n].from = a /\ cur'[n].pkt = q
    BY <1>5
  <2>3. Serves(n, a)' /\ ~Answered(n, a)'
    BY <1>5, <2>1, <2>2 DEF Serves, Answered
  <2>. QED
    BY <1>2, <2>1, <2>2, <2>3 DEF Applied, Serves, Answered, Answer
<1>9. pendBar[a] = [op |-> call[a].op, key |-> k, val |-> call[a].val,
                    done |-> FALSE, cell |-> Absent]
  BY <1>2, <1>3, <1>7 DEF pendBar
<1>10. pendBar'[a] = [op |-> call[a].op, key |-> k, val |-> call[a].val,
                      done |-> TRUE,
                      cell |-> IF call[a].op = "get"
                               THEN [val |-> q.value, ver |-> q.timpStamp]
                               ELSE Absent]
  BY <1>1, <1>2, <1>3, <1>8 DEF pendBar
<1>11. /\ pendBar[a] # None /\ pendBar[a] \in Pending
       /\ (up # Procs)' = (up # Procs)
  BY <1>1, <1>3, PendType
<1>12. pendBar'[a] \in Pending
  <2>1. call[a].op \in {"put", "get"} /\ call[a].val \in Values
    BY <1>2 DEF Call
  <2>2. /\ Absent \in [val : Text, ver : Versions]
        /\ [val |-> q.value, ver |-> q.timpStamp] \in [val : Text, ver : Versions]
    BY DataAssumption DEF Absent, Text, Versions, Packet
  <2>. QED
    BY <1>10, <2>1, <2>2 DEF Pending
<1>13. /\ pendBar'[a].op = pendBar[a].op /\ pendBar'[a].key = pendBar[a].key
       /\ pendBar'[a].val = pendBar[a].val /\ pendBar'[a].done = TRUE
       /\ pendBar[a].cell = Absent
       /\ pendBar'[a].cell = IF call[a].op = "get"
                             THEN [val |-> q.value, ver |-> q.timpStamp]
                             ELSE Absent
  BY <1>9, <1>10
<1>14. CASE p.size # 0
  <2>1. dbBar' = [dbBar EXCEPT ![k] = [val |-> call[a].val,
                                       ver |-> (versions[a][k] + 1) % VersionLimit]]
    BY <1>2, <1>4, <1>14, ConstantFacts, ZenonT(60) DEF dbBar
  <2>2. call[a].op = "put"
    BY <1>2, <1>14
  <2>3. pendBar'[a] = [pendBar[a] EXCEPT !.done = TRUE]
    BY <1>11, <1>12, <1>13, <2>2, DoneRecord
  <2>4. pendBar' = [pendBar EXCEPT ![a] = [pendBar[a] EXCEPT !.done = TRUE]]
    BY <1>6, <2>3, PendUpdate
  <2>5. Abstract!ApplyPut(a)
    <3>1. Abstract!Waiting(a, "put")
      BY <1>9, <1>11, <2>2 DEF Abstract!Waiting
    <3>2. pendBar' = [pendBar EXCEPT ![a].done = TRUE]
      BY <2>4
    <3>3. pendBar[a].key = k /\ pendBar[a].val = call[a].val
      BY <1>9
    <3>. QED
      BY <1>1, <1>11, <2>1, <3>1, <3>2, <3>3 DEF Abstract!ApplyPut
  <2>6. Abstract!Next
    BY <2>5 DEF Abstract!Next
  <2>. QED
    BY <2>6
<1>15. CASE p.size = 0
  <2>1. dbBar' = dbBar /\ dbBar[k] = [val |-> q.value, ver |-> q.timpStamp]
    BY <1>2, <1>4, <1>15 DEF dbBar, CellAt
  <2>2. call[a].op = "get"
    BY <1>2, <1>15
  <2>3. pendBar'[a] = [pendBar[a] EXCEPT !.done = TRUE, !.cell = dbBar[k]]
    <3>1. pendBar'[a].cell = dbBar[k]
      BY <1>13, <2>1, <2>2
    <3>2. pendBar'[a] = [pendBar[a] EXCEPT !.done = TRUE,
                                           !.cell = pendBar'[a].cell]
      BY <1>11, <1>12, <1>13, DoneRecord
    <3>. QED
      BY <3>1, <3>2
  <2>4. pendBar' = [pendBar EXCEPT ![a] =
                      [pendBar[a] EXCEPT !.done = TRUE, !.cell = dbBar[k]]]
    BY <1>6, <2>3, PendUpdate
  <2>5. Abstract!ApplyGet(a)
    <3>1. Abstract!Waiting(a, "get")
      BY <1>9, <1>11, <2>2 DEF Abstract!Waiting
    <3>2. pendBar \in [Clients -> {pendBar[c] : c \in Clients}]
      BY DEF pendBar
    <3>3. pendBar' = [pendBar EXCEPT ![a].done = TRUE, ![a].cell = dbBar[k]]
      BY <2>4, <3>2
    <3>4. pendBar[a].key = k
      BY <1>9
    <3>. QED
      BY <1>1, <1>11, <2>1, <3>1, <3>3, <3>4 DEF Abstract!ApplyGet
  <2>6. Abstract!Next
    BY <2>5 DEF Abstract!Next
  <2>. QED
    BY <2>6
<1>. QED
  BY <1>14, <1>15

LEMMA FutureStep ==
  ASSUME Protocol, ReadsCurrent, NEW n \in Nodes, NEW r \in Nodes,
         ReplicaReply(n, r) \/ ReplicaLost(n, r)
  PROVE  [Abstract!Next]_(Abstract!vars)
<1>1. /\ TypeOK /\ n \in Procs /\ n \notin Clients
      /\ UNCHANGED <<up, cur, store, call, versions, value>>
  BY ReplyKeepsRead, ConstantFacts
  DEF Protocol, Procs, ReplicaReply, ReplicaLost, clientVars
<1>2. CASE UNCHANGED inbox
  BY <1>1, <1>2, QuietStep
<1>3. CASE Take(n, r)
  <2>1. \A d \in Clients, x \in Nodes : inbox'[d][x] = inbox[d][x]
    BY <1>1, <1>3 DEF Take, TypeOK
  <2>2. \A d \in Clients : call[d] # None => call[d].peer \in Nodes
    BY <1>1 DEF TypeOK, Call
  <2>3. \A d \in Clients : SameCall(d)
    BY <1>1, <2>1, <2>2 DEF SameCall, Serves
  <2>4. pendBar' = pendBar /\ dbBar' = dbBar
    BY <1>1, <2>3, PendUpdate DEF dbBar, CellAt
  <2>. QED
    BY <1>1, <2>4, SilentStep
<1>. QED
  BY <1>2, <1>3 DEF ReplicaReply, ReplicaLost

(* Every step of GTStore is one of AtomicStore, or none.                   *)
LEMMA NextStep ==
  ASSUME CleanData, LinearInv, [Next]_vars
  PROVE  [Abstract!Next]_(Abstract!vars)
<1>1. /\ SameRanks /\ EmptyValue \notin PutValues /\ IInv /\ Protocol /\ TypeOK
      /\ PutCalls /\ RequestsAsCalled /\ ReadsCurrent
  BY DEF CleanData, LinearInv, IInv, Protocol, Linear
<1>2. ASSUME NEW c \in Clients, Put(c) \/ Get(c)
      PROVE  [Abstract!Next]_(Abstract!vars)
  <2>1. PICK op \in {"put", "get"}, k \in Keys, v \in Values, t \in Nodes :
          /\ Begin(c, op, k, v, t) /\ (op = "put" => v \in PutValues)
          /\ (op = "get" => v = EmptyValue)
    BY <1>2, ProcsAssumption, DataAssumption DEF Put, Get
  <2>. QED
    BY <1>1, <2>1, BeginStep
<1>3. ASSUME NEW c \in Clients, ClientStep(c)
      PROVE  [Abstract!Next]_(Abstract!vars)
  <2>1. CASE LookupLost(c)
    BY <1>1, <2>1, QuietStep DEF LookupLost, Exit, nodeVars, clientVars
  <2>. QED
    BY <1>1, <1>3, <2>1, ContactStep, ReturnStep DEF ClientStep
<1>4. ASSUME NEW c \in Clients, LookupBroken(c)
      PROVE  [Abstract!Next]_(Abstract!vars)
  BY <1>1, <1>4, QuietStep DEF LookupBroken, Exit, nodeVars, clientVars
<1>5. ASSUME NEW n \in Nodes, NodeStep(n)
      PROVE  [Abstract!Next]_(Abstract!vars)
  <2>1. CASE ContactReplica(n)
    BY <1>1, <2>1, QuietStep DEF ContactReplica, Exit, clientVars
  <2>2. CASE ClientHandler(n)
    BY <1>1, <2>2, ApplyStep
  <2>3. CASE Respond(n)
    BY <1>1, <2>3, RespondStep
  <2>4. CASE \E r \in Nodes : ReplicaReply(n, r) \/ ReplicaLost(n, r)
    BY <1>1, <2>4, FutureStep
  <2>. QED
    BY <1>1, <1>5, <2>1, <2>2, <2>3, <2>4, AcceptStep DEF NodeStep
<1>6. ASSUME NEW p \in Procs, Kill(p)
      PROVE  [Abstract!Next]_(Abstract!vars)
  BY <1>1, <1>6, QuietStep DEF Kill, Exit, nodeVars, clientVars
<1>7. CASE UNCHANGED vars
  BY <1>1, <1>7, QuietStep DEF vars, nodeVars, clientVars
<1>. QED
  BY <1>2, <1>3, <1>4, <1>5, <1>6, <1>7 DEF Next

(* The map of the initial state.                                           *)
LEMMA InitMaps == Init => Abstract!Init
<1>. SUFFICES ASSUME Init PROVE Abstract!Init
  OBVIOUS
<1>1. dbBar = [k \in Keys |-> Abstract!Absent]
  BY ConstantFacts DEF Init, dbBar, CellAt, Abstract!Absent, Absent
<1>2. pendBar = [c \in Clients |-> None]
  BY DEF Init, pendBar
<1>. QED
  BY <1>1, <1>2 DEF Init, Abstract!Init

(***************************************************************************)
(* Linearizability, for any numbers of nodes, clients, keys, calls, kills  *)
(* and versions: with clean data GTStore implements the atomic map of      *)
(* AtomicStore, through every interleaving of calls and every death.       *)
(***************************************************************************)
THEOREM Linearizable ==
  ASSUME CleanData
  PROVE  Spec => ImplementsAtomicStore
<1>1. Init => Abstract!Init
  BY InitMaps
<1>2. LinearInv /\ [Next]_vars => [Abstract!Next]_(Abstract!vars)
  BY NextStep
<1>3. CleanData => (Spec => []LinearInv)
  BY LinearHolds
<1>. QED
  BY <1>1, <1>2, <1>3, PTL DEF Spec, ImplementsAtomicStore, Abstract!Spec
=============================================================================

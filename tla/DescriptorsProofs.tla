-------------------------- MODULE DescriptorsProofs --------------------------
(***************************************************************************)
(* Proofs about Descriptors: running out of descriptors stops processes    *)
(* and calls, and corrupts nothing.  Every step is a step of GTStore or    *)
(* one that leaves all data and packets as they are.                       *)
(***************************************************************************)
EXTENDS GTStoreLinearProofs, Descriptors, FiniteSetTheorems

(* What is left in p is no client's packet, and if it would be taken for a *)
(* write, it is one of what the virtual node holds.                        *)
Held(n, p) ==
  p.size # 0 => /\ p.key \in Keys /\ RankOK(n, p.rank)
                /\ store[n][p.rank][p.key] = [val |-> p.value, ver |-> p.timpStamp]

LeftoverOK(n) ==
  n \in up /\ pc[n] = "accept" /\ open[n] > 0
    => /\ last[n] \in LeftPacket /\ last[n].type # "client"
       /\ last[n].key = OwnName => last[n].size = 0
       /\ last[n].type = "node" => Held(n, last[n])

(* What a coordinator that reads will leave there.                         *)
ReadingOK(n) == n \in up /\ pc[n] = "reading" => Held(n, cur[n].pkt)

OpenInv ==
  /\ LinearInv /\ OpenTypeOK
  /\ \A n \in Nodes : LeftoverOK(n) /\ ReadingOK(n)

-----------------------------------------------------------------------------
(* The steps that are none of GTStore's.                                   *)

QuietMove == /\ up' \subseteq up
             /\ UNCHANGED <<backlog, inbox, nodeVars, store, call, versions,
                            value, kills>>
             /\ calls' \in [Clients -> 0 .. MaxCalls]

LEMMA QuietKeeps ==
  ASSUME LinearInv, QuietMove
  PROVE  LinearInv'
<1>1. /\ TypeOK /\ Messages /\ Protocol /\ Replication
      /\ PutCalls /\ RequestsAsCalled /\ ReadsCurrent
  BY DEF LinearInv, IInv, Protocol, Linear
<1>2. TypeOK'
  BY <1>1 DEF QuietMove, TypeOK, nodeVars
<1>3. Messages'
  BY <1>1, SilentMessages DEF QuietMove
<1>4. Replication'
  BY <1>1, QuietReplication DEF QuietMove, nodeVars
<1>5. PutCalls'
  BY <1>1 DEF QuietMove, PutCalls
<1>6. RequestsAsCalled'
  BY <1>1, RequestsKept DEF QuietMove
<1>7. ReadsCurrent'
  <2>1. \A n \in Nodes : \A k : CellAt(n, k)' = CellAt(n, k)
    BY DEF QuietMove, CellAt
  <2>. QED
    BY <1>1, <2>1, ReadsKept DEF QuietMove, nodeVars, ReaderKept
<1>. QED
  BY <1>2, <1>3, <1>4, <1>5, <1>6, <1>7
  DEF LinearInv, IInv, Protocol, Linear

LEMMA QuietImplements ==
  ASSUME LinearInv, QuietMove
  PROVE  [Abstract!Next]_(Abstract!vars)
BY QuietStep DEF LinearInv, IInv, Protocol, QuietMove, nodeVars

LEMMA SelfUpdate ==
  ASSUME NEW A, NEW B, NEW C, NEW S, NEW f \in [A -> [B -> [C -> S]]],
         NEW a \in A, NEW b \in B, NEW c \in C
  PROVE  [f EXCEPT ![a][b][c] = f[a][b][c]] = f
<1>1. f[a] \in [B -> [C -> S]] /\ f[a][b] \in [C -> S]
  OBVIOUS
<1>2. [f[a][b] EXCEPT ![c] = f[a][b][c]] = f[a][b]
  BY <1>1
<1>3. [f[a] EXCEPT ![b] = f[a][b]] = f[a]
  BY <1>1
<1>4. [f[a] EXCEPT ![b][c] = f[a][b][c]] = f[a]
  BY <1>2, <1>3
<1>5. [f EXCEPT ![a] = f[a]] = f
  OBVIOUS
<1>. QED
  BY <1>4, <1>5

(* A packet that is handled again stores nothing.                          *)
LEMMA AcceptFailsQuiet ==
  ASSUME OpenInv, NEW n \in Nodes, AcceptFails(n)
  PROVE  QuietMove /\ up' = up
<1>. DEFINE p == last[n]
<1>1. /\ TypeOK /\ OpenTypeOK /\ LeftoverOK(n)
      /\ n \in up /\ pc[n] = "accept" /\ ~HasRoom(n) /\ n \in Procs
  BY DEF OpenInv, LinearInv, IInv, Protocol, AcceptFails, Procs
<1>2. open[n] > 0
  <2>1. MaxOpen[n] \in Nat \ {0} /\ open[n] \in Nat
    BY <1>1, DescriptorAssumption DEF OpenTypeOK
  <2>. QED
    BY <1>1, <2>1 DEF HasRoom
<1>3. /\ p \in LeftPacket /\ p.type # "client"
      /\ p.type = "node" => Held(n, p)
  BY <1>1, <1>2 DEF LeftoverOK
<1>4. up' = up
  BY <1>3 DEF AcceptFails
<1>5. store' = store
  <2>1. CASE p.type = "lookup" \/ p.size = 0
    BY <2>1 DEF AcceptFails
  <2>2. CASE p.type # "lookup" /\ p.size # 0
    <3>1. p.type = "node" /\ Held(n, p)
      BY <1>3, <2>2 DEF LeftPacket
    <3>2. PICK r \in Ranks, k \in Keys, c \in Cell :
            /\ r = p.rank /\ k = p.key /\ c = [val |-> p.value, ver |-> p.timpStamp]
            /\ store[n][r][k] = c
      BY <1>1, <1>3, <2>2, <3>1 DEF Held, LeftPacket, TypeOK
    <3>3. store' = [store EXCEPT ![n][r][k] = c]
      BY <1>3, <2>2, <3>1, <3>2 DEF AcceptFails, Write, Held
    <3>4. store \in [Nodes -> [Ranks -> [Keys -> Cell]]]
      BY <1>1 DEF TypeOK
    <3>5. [store EXCEPT ![n][r][k] = store[n][r][k]] = store
      BY <3>4, SelfUpdate
    <3>. QED
      BY <3>2, <3>3, <3>5
  <2>. QED
    BY <2>1, <2>2
<1>. QED
  BY <1>1, <1>4, <1>5 DEF AcceptFails, QuietMove, clientVars, TypeOK

(* Every step is one of GTStore's or a quiet one.                          *)
LEMMA OpenStepKinds ==
  ASSUME OpenInv, [OpenNext]_allVars
  PROVE  [Next]_vars \/ QuietMove
<1>1. TypeOK
  BY DEF OpenInv, LinearInv, IInv, Protocol
<1>2. ASSUME NEW c \in Clients,
             StartCall(c) \/ CallRefused(c) \/ OpenBroken(c) \/ OpenClientStep(c)
      PROVE  [Next]_vars \/ QuietMove
  <2>1. CASE StartCall(c) \/ OpenContact(c) \/ CallDone(c) \/ OpenBroken(c)
    <3>1. Put(c) \/ Get(c) \/ LookupBroken(c) \/ ClientStep(c)
      BY <2>1 DEF StartCall, OpenContact, CallDone, OpenBroken, ClientStep
    <3>. QED
      BY <3>1 DEF Next
  <2>2. CASE CallRefused(c)
    <3>1. calls \in [Clients -> 0 .. MaxCalls] /\ calls[c] + 1 \in 0 .. MaxCalls
      BY <1>1, <2>2, ProcsAssumption DEF CallRefused, TypeOK
    <3>. QED
      BY <2>2, <3>1 DEF CallRefused, QuietMove
  <2>3. CASE ContactRefused(c)
    BY <1>1, <2>3 DEF ContactRefused, QuietMove, TypeOK, Exit, clientVars
  <2>. QED
    BY <1>2, <2>1, <2>2, <2>3 DEF OpenClientStep
<1>3. ASSUME NEW n \in Nodes, OpenNodeStep(n)
      PROVE  [Next]_vars \/ QuietMove
  <2>1. CASE Serve(n) \/ OpenReplica(n) \/ FutureDone(n) \/ AnswerClient(n)
    <3>1. NodeStep(n)
      BY <2>1 DEF Serve, OpenReplica, FutureDone, AnswerClient, NodeStep
    <3>. QED
      BY <3>1 DEF Next
  <2>2. CASE AcceptFails(n)
    BY <2>2, AcceptFailsQuiet
  <2>3. CASE SocketFails(n)
    BY <1>1, <2>3 DEF SocketFails, QuietMove, TypeOK, Exit, clientVars
  <2>. QED
    BY <1>3, <2>1, <2>2, <2>3 DEF OpenNodeStep
<1>4. ASSUME NEW p \in Procs, OpenKill(p)
      PROVE  [Next]_vars \/ QuietMove
  BY <1>4 DEF OpenKill, Next
<1>5. CASE UNCHANGED allVars
  BY <1>5 DEF allVars
<1>. QED
  BY <1>2, <1>3, <1>4, <1>5 DEF OpenNext

-----------------------------------------------------------------------------
(* What is left in p stays what the virtual node holds.                    *)

(* A node's own steps are the only ones that touch what is said of it.     *)
LEMMA OthersKept ==
  ASSUME NEW n \in Nodes, LeftoverOK(n), ReadingOK(n), up' \subseteq up,
         store'[n] = store[n], pc'[n] = pc[n], cur'[n] = cur[n],
         open'[n] = open[n], last'[n] = last[n]
  PROVE  LeftoverOK(n)' /\ ReadingOK(n)'
BY DEF LeftoverOK, ReadingOK, Held

LEMMA OthersUntouched ==
  ASSUME TypeOK, OpenTypeOK, NEW n \in Nodes, OpenNodeStep(n)
  PROVE  /\ up' \subseteq up
         /\ \A x \in Nodes \ {n} :
              /\ store'[x] = store[x] /\ pc'[x] = pc[x] /\ cur'[x] = cur[x]
              /\ open'[x] = open[x] /\ last'[x] = last[x]
<1>1. n \in Procs /\ \A x \in Nodes : x \in Procs
  BY DEF Procs
<1>2. CASE Serve(n)
  <2>1. /\ \A x \in Nodes \ {n} : open'[x] = open[x] /\ last'[x] = last[x]
    BY <1>1, <1>2 DEF Serve, Opens, OpenTypeOK
  <2>2. CASE ClientCoordinator(n) \/ NodeHandlerRead(n)
    BY <2>1, <2>2 DEF ClientCoordinator, NodeHandlerRead, SendBack, Exit, nodeVars
  <2>3. CASE NodeHandlerWrite(n)
    BY <2>1, <2>3 DEF NodeHandlerWrite, SendBack, Exit, Write, nodeVars, TypeOK
  <2>4. CASE ClientHandler(n)
    BY <2>1, <2>4 DEF ClientHandler, Write, TypeOK
  <2>. QED
    BY <1>2, <2>2, <2>3, <2>4 DEF Serve
<1>3. CASE OpenReplica(n)
  BY <1>1, <1>3 DEF OpenReplica, ContactReplica, Opens, OpenTypeOK, Exit
<1>4. CASE SocketFails(n)
  BY <1>4 DEF SocketFails, Exit, nodeVars, descVars
<1>5. CASE FutureDone(n)
  BY <1>5 DEF FutureDone, ReplicaReply, ReplicaLost, descVars, TypeOK
<1>6. CASE AnswerClient(n)
  BY <1>6 DEF AnswerClient, Respond, SendBack, Exit, OpenTypeOK, TypeOK
<1>7. CASE AcceptFails(n)
  BY <1>7 DEF AcceptFails, Write, Exit, nodeVars, OpenTypeOK, TypeOK
<1>. QED
  BY <1>2, <1>3, <1>4, <1>5, <1>6, <1>7 DEF OpenNodeStep

LEMMA RenamedType ==
  ASSUME NEW p \in LeftPacket
  PROVE  /\ Renamed(p) \in LeftPacket /\ Renamed(p).size = 0
         /\ Renamed(p).type = p.type
<1>. DEFINE q == [p EXCEPT !.size = 0]
<1>1. q \in LeftPacket /\ q.size = 0 /\ q.type = p.type
  BY DEF LeftPacket
<1>2. Renamed(p) = [q EXCEPT !.key = OwnName]
  BY DEF Renamed
<1>. HIDE DEF q
<1>. QED
  BY <1>1, <1>2 DEF LeftPacket

(* p after a handler: typed, and a write of it would change nothing.       *)
LEMMA HandledType ==
  ASSUME TypeOK, NEW n \in Nodes, NEW p \in LeftPacket,
         p.key = OwnName => p.size = 0
  PROVE  /\ Handled(n, p) \in LeftPacket /\ Handled(n, p).type = p.type
         /\ Handled(n, p).key = OwnName => Handled(n, p).size = 0
         /\ p.type = "node" => Held(n, Handled(n, p))
<1>. DEFINE cell == store[n][p.rank][p.key]
<1>1. OwnName \notin Keys /\ \A v \in Values : Length[v] \in Nat
  BY DescriptorAssumption, ConstantFacts
<1>2. CASE p.type # "node" \/ p.key = OwnName
  BY <1>2 DEF Handled, Held
<1>3. CASE p.type = "node" /\ p.key # OwnName /\ p.size # 0
  <2>1. Handled(n, p) = Renamed(p)
    BY <1>3 DEF Handled
  <2>2. /\ Handled(n, p) \in LeftPacket /\ Handled(n, p).size = 0
        /\ Handled(n, p).type = p.type
    BY <2>1, RenamedType
  <2>. QED
    BY <2>2 DEF Held
<1>4. CASE p.type = "node" /\ p.key # OwnName /\ p.size = 0
  <2>1. Handled(n, p) = Filled(n, p) /\ p.key \in Keys /\ p.rank \in Ranks
    BY <1>4 DEF Handled, LeftPacket
  <2>2. CASE RankOK(n, p.rank) /\ cell # Absent
    <3>1. PICK c \in Cell : c = cell
      BY <2>1 DEF TypeOK
    <3>2. Handled(n, p) = [p EXCEPT !.size = Length[c.val], !.timpStamp = c.ver,
                                    !.value = c.val]
      BY <2>1, <2>2, <3>1 DEF Filled
    <3>3. c.val \in Values /\ c.ver \in Versions /\ c = [val |-> c.val, ver |-> c.ver]
      BY DEF Cell
    <3>4. /\ Handled(n, p) \in LeftPacket
          /\ Handled(n, p).type = p.type /\ Handled(n, p).key = p.key
          /\ Handled(n, p).rank = p.rank
          /\ Handled(n, p).value = c.val /\ Handled(n, p).timpStamp = c.ver
      BY <1>1, <3>2, <3>3 DEF LeftPacket, Text
    <3>. QED
      BY <1>1, <1>4, <2>1, <2>2, <3>1, <3>3, <3>4 DEF Held
  <2>3. CASE ~(RankOK(n, p.rank) /\ cell # Absent)
    <3>1. Handled(n, p) = p
      BY <2>1, <2>3 DEF Filled
    <3>. QED
      BY <1>4, <3>1 DEF Held
  <2>. QED
    BY <2>2, <2>3
<1>. QED
  BY <1>2, <1>3, <1>4 DEF Held

LEMMA PacketLeft ==
  ASSUME NEW p \in Packet
  PROVE  p \in LeftPacket /\ p.key # OwnName
BY DescriptorAssumption DEF Packet, LeftPacket

(* A step of node n keeps what is said of n.                               *)
LEMMA OwnStep ==
  ASSUME CleanData, OpenInv, NEW n \in Nodes, OpenNodeStep(n)
  PROVE  LeftoverOK(n)' /\ ReadingOK(n)'
<1>1. /\ TypeOK /\ OpenTypeOK /\ LeftoverOK(n) /\ ReadingOK(n) /\ n \in Procs
      /\ Protocol /\ PutCalls /\ RequestsAsCalled /\ ReadsCurrent
      /\ CoordinatorOK(n)
      /\ SameRanks /\ EmptyValue \notin PutValues
  BY DEF CleanData, OpenInv, LinearInv, IInv, Protocol, Linear, Messages, Procs
<1>2. CASE Serve(n) /\ ~ClientHandler(n)
  <2>. DEFINE m == Head(backlog[n])
  <2>1. PICK type \in {"lookup", "node"} : Accepts(n, type)
    BY <1>2 DEF Serve, ClientCoordinator, NodeHandlerWrite, NodeHandlerRead
  <2>2. m.pkt \in Packet /\ m.pkt.type = type /\ pc[n] = "accept" /\ pc' = pc
    BY <1>1, <1>2, <2>1, HeadConnection
    DEF Serve, ClientCoordinator, NodeHandlerWrite, NodeHandlerRead, nodeVars
  <2>3. PICK q \in LeftPacket : q = m.pkt /\ q.type = type /\ q.key # OwnName
    BY <2>2, PacketLeft
  <2>4. last'[n] = Handled(n, q)
    BY <1>1, <1>2, <2>3 DEF Serve, OpenTypeOK
  <2>5. /\ Handled(n, q) \in LeftPacket /\ Handled(n, q).type = type
        /\ Handled(n, q).key = OwnName => Handled(n, q).size = 0
        /\ type = "node" => Held(n, Handled(n, q))
    BY <1>1, <2>3, HandledType
  <2>6. PICK x \in LeftPacket : x = Handled(n, q)
    BY <2>5
  <2>7. type = "node" => Held(n, x)'
    <3>1. CASE NodeHandlerWrite(n)
      <4>1. q.type = "node" /\ q.size # 0
        BY <1>1, <2>2, <2>3, <3>1, HeadConnection DEF NodeHandlerWrite
      <4>2. x = Renamed(q)
        BY <2>3, <2>6, <4>1 DEF Handled
      <4>3. x.size = 0
        BY <4>2, RenamedType
      <4>. QED
        BY <4>3 DEF Held
    <3>2. CASE ClientCoordinator(n) \/ NodeHandlerRead(n)
      <4>1. store' = store
        BY <3>2 DEF ClientCoordinator, NodeHandlerRead
      <4>. QED
        BY <2>5, <2>6, <4>1 DEF Held
    <3>. QED
      BY <1>2, <3>1, <3>2 DEF Serve
  <2>8. last'[n] = x /\ x.type # "client" /\ (x.key = OwnName => x.size = 0)
        /\ (x.type = "node" => Held(n, x)')
    BY <2>1, <2>4, <2>5, <2>6, <2>7
  <2>9. pc'[n] # "reading"
    BY <2>2
  <2>. QED
    BY <2>8, <2>9 DEF LeftoverOK, ReadingOK
<1>3. CASE Serve(n) /\ ClientHandler(n)
  <2>. DEFINE m == Head(backlog[n])
  <2>1. /\ m.pkt \in Packet /\ ForCoordinator(n, m.pkt)
        /\ m.pkt.size = 0 => m.pkt.value = EmptyValue /\ m.pkt.timpStamp = 0
    BY <1>1, <1>3, RequestData
  <2>2. CASE m.pkt.size # 0
    <3>1. pc'[n] = "writing"
      BY <1>1, <1>3, <2>2, ClientHandlerCases DEF TypeOK
    <3>. QED
      BY <3>1 DEF LeftoverOK, ReadingOK
  <2>3. CASE m.pkt.size = 0
    <3>. DEFINE C == [from |-> m.from, pkt |-> [Read(n, m.pkt) EXCEPT !.type = "node"]]
    <3>0. /\ store' = store /\ pc' = [pc EXCEPT ![n] = "reading"]
          /\ cur' = [cur EXCEPT ![n] = C]
      BY <1>1, <1>3, <2>3, ClientHandlerCases
    <3>1. /\ store' = store /\ pc'[n] = "reading"
          /\ cur'[n].pkt = [Read(n, m.pkt) EXCEPT !.type = "node"]
      BY <1>1, <3>0 DEF TypeOK
    <3>2. PICK q \in Packet : q = Read(n, m.pkt)
      BY <1>1, <2>1, ReadType
    <3>3. q.key = m.pkt.key /\ q.rank = m.pkt.rank
      BY <1>1, <2>1, <3>2, ReadType
    <3>4. /\ q.value = CellAt(n, m.pkt.key).val /\ q.timpStamp = CellAt(n, m.pkt.key).ver
          /\ CellAt(n, m.pkt.key) \in Cell
      BY <1>1, <2>1, <2>3, <3>2, ReadCell
    <3>5. CellAt(n, m.pkt.key) = store[n][q.rank][q.key]
      BY <2>1, <3>3 DEF CellAt, ForCoordinator
    <3>6. store[n][q.rank][q.key] = [val |-> q.value, ver |-> q.timpStamp]
      BY <3>4, <3>5 DEF Cell
    <3>7. RankOK(n, q.rank) /\ q.key \in Keys
      BY <2>1, <3>3, ConstantFacts DEF RankOK, ForCoordinator, Packet
    <3>8. PICK u \in Packet :
            /\ u = cur'[n].pkt /\ u.size = q.size /\ u.key = q.key /\ u.rank = q.rank
            /\ u.value = q.value /\ u.timpStamp = q.timpStamp
      BY <3>1, <3>2 DEF Packet
    <3>9. Held(n, u)'
      BY <3>1, <3>6, <3>7, <3>8 DEF Held
    <3>. QED
      BY <3>1, <3>8, <3>9 DEF LeftoverOK, ReadingOK
  <2>. QED
    BY <2>2, <2>3
<1>4. CASE OpenReplica(n) \/ SocketFails(n)
  <2>1. /\ pc[n] # "accept" /\ UNCHANGED <<pc, cur, store>> /\ up' \subseteq up
    BY <1>4 DEF OpenReplica, SocketFails, ContactReplica, Coordinates, Exit, nodeVars
  <2>. QED
    BY <1>1, <2>1 DEF LeftoverOK, ReadingOK, Held
<1>5. CASE FutureDone(n)
  <2>1. /\ pc[n] # "accept" /\ UNCHANGED <<pc, store, up>>
    BY <1>5 DEF FutureDone, ReplicaReply, ReplicaLost, Coordinates
  <2>2. cur' = cur
    BY <1>1, <1>5, ReplyKeepsRead DEF FutureDone, ReplicaLost
  <2>. QED
    BY <1>1, <2>1, <2>2 DEF LeftoverOK, ReadingOK, Held
<1>6. CASE AnswerClient(n)
  <2>1. /\ pc[n] # "accept" /\ n \in up /\ cur[n] \in Connection
        /\ store' = store /\ last'[n] = AnsweredPacket(n)
    BY <1>1, <1>6
    DEF AnswerClient, Respond, Coordinates, CoordinatorOK, OpenTypeOK, TypeOK
  <2>2. PICK p \in Packet : p = cur[n].pkt /\ p.type = "node"
    BY <1>1, <2>1 DEF CoordinatorOK, Connection
  <2>3. CASE n \notin up'
    BY <2>3 DEF LeftoverOK, ReadingOK
  <2>4. CASE n \in up'
    <3>1. pc'[n] = "accept"
      BY <1>1, <1>6, <2>4 DEF AnswerClient, Respond, SendBack, Exit, TypeOK
    <3>2. CASE pc[n] = "writing"
      <4>1. last'[n] = Renamed(p)
        BY <2>1, <2>2, <3>2 DEF AnsweredPacket
      <4>2. p \in LeftPacket
        BY PacketLeft
      <4>3. PICK x \in LeftPacket : x = Renamed(p) /\ x.size = 0 /\ x.type = "node"
        BY <2>2, <4>2, RenamedType
      <4>4. Held(n, x)'
        BY <4>3 DEF Held
      <4>. QED
        BY <3>1, <4>1, <4>3, <4>4 DEF LeftoverOK, ReadingOK
    <3>3. CASE pc[n] = "reading"
      <4>1. last'[n] = p /\ Held(n, p)
        BY <1>1, <2>1, <2>2, <3>3 DEF AnsweredPacket, ReadingOK
      <4>2. Held(n, p)'
        BY <2>1, <4>1 DEF Held
      <4>3. p \in LeftPacket /\ p.key # OwnName
        BY PacketLeft
      <4>. QED
        BY <2>2, <3>1, <4>1, <4>2, <4>3 DEF LeftoverOK, ReadingOK
    <3>. QED
      BY <1>1, <2>1, <3>2, <3>3 DEF TypeOK
  <2>. QED
    BY <2>3, <2>4
<1>7. CASE AcceptFails(n)
  <2>1. store' = store /\ up' = up /\ pc' = pc /\ pc[n] = "accept" /\ n \in up
    BY <1>7, AcceptFailsQuiet DEF QuietMove, AcceptFails, nodeVars
  <2>2. open[n] > 0 /\ open'[n] = open[n]
    <3>1. MaxOpen[n] \in Nat \ {0} /\ open[n] \in Nat
      BY <1>1, DescriptorAssumption DEF OpenTypeOK
    <3>. QED
      BY <1>7, <3>1 DEF AcceptFails, HasRoom
  <2>3. PICK p \in LeftPacket :
          p = last[n] /\ p.type # "client" /\ (p.key = OwnName => p.size = 0)
    BY <1>1, <2>1, <2>2 DEF LeftoverOK
  <2>4. last'[n] = Handled(n, p)
    BY <1>1, <1>7, <2>3 DEF AcceptFails, OpenTypeOK
  <2>5. /\ Handled(n, p) \in LeftPacket /\ Handled(n, p).type = p.type
        /\ Handled(n, p).key = OwnName => Handled(n, p).size = 0
        /\ p.type = "node" => Held(n, Handled(n, p))
    BY <1>1, <2>3, HandledType
  <2>6. PICK x \in LeftPacket : x = Handled(n, p)
    BY <2>5
  <2>7. p.type = "node" => Held(n, x)'
    BY <2>1, <2>5, <2>6 DEF Held
  <2>8. last'[n] = x /\ x.type # "client" /\ (x.key = OwnName => x.size = 0)
        /\ (x.type = "node" => Held(n, x)')
    BY <2>3, <2>4, <2>5, <2>6, <2>7
  <2>9. pc'[n] # "reading"
    BY <2>1
  <2>. QED
    BY <2>8, <2>9 DEF LeftoverOK, ReadingOK
<1>. QED
  BY <1>2, <1>3, <1>4, <1>5, <1>6, <1>7 DEF OpenNodeStep

LEMMA NodeTypes ==
  ASSUME OpenInv, NEW n \in Nodes, OpenNodeStep(n)
  PROVE  OpenTypeOK'
<1>1. TypeOK /\ OpenTypeOK /\ Protocol /\ LeftoverOK(n) /\ n \in Procs
  BY DEF OpenInv, LinearInv, IInv, Protocol, Procs
<1>2. CASE UNCHANGED <<open, last>>
  BY <1>1, <1>2 DEF OpenTypeOK
<1>3. HasRoom(n) /\ open' = [open EXCEPT ![n] = @ + 1]
        => open' \in [Procs -> Nat] /\ \A p \in Procs : open'[p] <= MaxOpen[p]
  BY <1>1, DescriptorAssumption DEF OpenTypeOK, HasRoom
<1>4. CASE Serve(n)
  <2>1. PICK type \in {"lookup", "node", "client"} : Accepts(n, type)
    BY <1>4 DEF Serve, ClientCoordinator, NodeHandlerWrite, NodeHandlerRead, ClientHandler
  <2>2. PICK q \in LeftPacket : q = Head(backlog[n]).pkt /\ q.key # OwnName
    BY <1>1, <2>1, HeadConnection, PacketLeft
  <2>3. Handled(n, q) \in LeftPacket
    BY <1>1, <2>2, HandledType
  <2>. QED
    BY <1>1, <1>3, <1>4, <2>2, <2>3 DEF Serve, Opens, OpenTypeOK
<1>5. CASE OpenReplica(n)
  BY <1>1, <1>3, <1>5 DEF OpenReplica, Opens, OpenTypeOK
<1>6. CASE AnswerClient(n)
  <2>1. cur[n] \in Connection
    BY <1>1, <1>6
    DEF AnswerClient, Respond, Coordinates, Protocol, Messages, CoordinatorOK, TypeOK
  <2>2. cur[n].pkt \in LeftPacket
    BY <2>1, PacketLeft DEF Connection
  <2>3. AnsweredPacket(n) \in LeftPacket
    BY <2>2, RenamedType DEF AnsweredPacket
  <2>. QED
    BY <1>1, <1>6, <2>3 DEF AnswerClient, OpenTypeOK
<1>7. CASE AcceptFails(n)
  <2>1. MaxOpen[n] \in Nat \ {0} /\ open[n] \in Nat
    BY <1>1, DescriptorAssumption DEF OpenTypeOK
  <2>2. n \in up /\ pc[n] = "accept" /\ open[n] > 0
    BY <1>7, <2>1 DEF AcceptFails, HasRoom
  <2>3. Handled(n, last[n]) \in LeftPacket
    BY <1>1, <2>2, HandledType DEF LeftoverOK
  <2>. QED
    BY <1>1, <1>7, <2>3 DEF AcceptFails, OpenTypeOK
<1>. QED
  BY <1>2, <1>4, <1>5, <1>6, <1>7 DEF OpenNodeStep, SocketFails, FutureDone, descVars

LEMMA OpenNextInv ==
  ASSUME CleanData, OpenInv, [OpenNext]_allVars
  PROVE  OpenInv'
<1>1. /\ TypeOK /\ OpenTypeOK /\ LinearInv
      /\ \A n \in Nodes : LeftoverOK(n) /\ ReadingOK(n) /\ n \in Procs
      /\ \A c \in Clients : c \in Procs /\ c \notin Nodes
  BY ProcsAssumption DEF OpenInv, LinearInv, IInv, Protocol, Procs
<1>2. LinearInv'
  BY <1>1, OpenStepKinds, QuietKeeps, LinearStep
<1>3. ASSUME NEW c \in Clients,
             StartCall(c) \/ CallRefused(c) \/ OpenBroken(c) \/ OpenClientStep(c)
      PROVE  OpenTypeOK' /\ \A n \in Nodes : LeftoverOK(n)' /\ ReadingOK(n)'
  <2>1. /\ last' = last /\ up' \subseteq up /\ UNCHANGED <<pc, cur, store>>
    BY <1>3
    DEF StartCall, CallRefused, OpenBroken, OpenClientStep, OpenContact,
        ContactRefused, CallDone, Put, Get, Begin, LookupBroken, LookupLost,
        ContactCoordinator, Return, ReturnLost, Exit, nodeVars, descVars
  <2>2. open' = open \/ (HasRoom(c) /\ open' = [open EXCEPT ![c] = @ + 1])
    BY <1>3
    DEF StartCall, CallRefused, OpenBroken, OpenClientStep, OpenContact,
        ContactRefused, CallDone, Opens, descVars
  <2>3. \A n \in Nodes : open'[n] = open[n]
    BY <1>1, <2>2 DEF OpenTypeOK
  <2>4. OpenTypeOK'
    BY <1>1, <2>1, <2>2, DescriptorAssumption DEF OpenTypeOK, HasRoom
  <2>. QED
    BY <1>1, <2>1, <2>3, <2>4, OthersKept
<1>4. ASSUME NEW n \in Nodes, OpenNodeStep(n)
      PROVE  OpenTypeOK' /\ \A x \in Nodes : LeftoverOK(x)' /\ ReadingOK(x)'
  <2>1. \A x \in Nodes \ {n} : LeftoverOK(x)' /\ ReadingOK(x)'
    BY <1>1, <1>4, OthersUntouched, OthersKept
  <2>. QED
    BY <1>4, <2>1, OwnStep, NodeTypes
<1>5. CASE (\E p \in Procs : OpenKill(p)) \/ UNCHANGED allVars
  <2>1. up' \subseteq up /\ UNCHANGED <<pc, cur, store, open, last>>
    BY <1>5 DEF OpenKill, Kill, Exit, allVars, vars, nodeVars, descVars
  <2>2. OpenTypeOK'
    BY <1>1, <2>1 DEF OpenTypeOK
  <2>3. \A n \in Nodes : LeftoverOK(n)' /\ ReadingOK(n)'
    BY <1>1, <2>1, OthersKept
  <2>. QED
    BY <1>2, <2>2, <2>3 DEF OpenInv
<1>. QED
  BY <1>2, <1>3, <1>4, <1>5 DEF OpenNext, OpenInv

-----------------------------------------------------------------------------
(***************************************************************************)
(* The inductive invariant: GTStore's, and that what a handler leaves in p *)
(* is harmless when it is handled again.                                   *)
(***************************************************************************)
THEOREM OpenHolds ==
  ASSUME CleanData
  PROVE  OpenSpec => []OpenInv
<1>1. OpenInit => OpenInv
  <2>. SUFFICES ASSUME OpenInit PROVE OpenInv
    OBVIOUS
  <2>1. LinearInv
    BY InitLinear DEF OpenInit
  <2>2. OpenTypeOK
    BY DescriptorAssumption DEF OpenInit, OpenTypeOK
  <2>3. ASSUME NEW n \in Nodes PROVE LeftoverOK(n) /\ ReadingOK(n)
    BY DEF OpenInit, Init, LeftoverOK, ReadingOK, Procs
  <2>. QED
    BY <2>1, <2>2, <2>3 DEF OpenInv
<1>2. OpenInv /\ [OpenNext]_allVars => OpenInv'
  BY OpenNextInv
<1>. QED
  BY <1>1, <1>2, PTL DEF OpenSpec

(***************************************************************************)
(* A node changes its data only for a request that leaves its queue, also  *)
(* when accept fails for ever and it handles the same packet again and     *)
(* again.                                                                  *)
(***************************************************************************)
THEOREM NothingStoredTwice ==
  ASSUME CleanData
  PROVE  OpenSpec => StoredOnlyByRequests
<1>. DEFINE Step == \A n \in Nodes : store'[n] # store[n]
                                       => Len(backlog'[n]) < Len(backlog[n])
<1>1. OpenInv /\ [OpenNext]_allVars => [Step]_allVars
  <2>. SUFFICES ASSUME OpenInv, [OpenNext]_allVars, NEW x \in Nodes,
                       store'[x] # store[x]
                PROVE  Len(backlog'[x]) < Len(backlog[x])
    OBVIOUS
  <2>1. TypeOK /\ OpenTypeOK /\ Protocol
    BY DEF OpenInv, LinearInv, IInv, Protocol
  <2>2. PICK n \in Nodes : NodeHandlerWrite(n) \/ ClientHandler(n)
    <3>1. [Next]_vars
      BY OpenStepKinds DEF QuietMove
    <3>2. PICK n \in Nodes : NodeStep(n)
      BY <3>1
      DEF Next, vars, Put, Get, Begin, LookupBroken, ClientStep, ContactCoordinator,
          LookupLost, Return, ReturnLost, Kill
    <3>. QED
      BY <3>2
      DEF NodeStep, ClientCoordinator, NodeHandlerRead, ContactReplica, Respond,
          ReplicaReply, ReplicaLost
  <2>3. PICK type \in {"node", "client"} : Accepts(n, type)
    BY <2>2 DEF NodeHandlerWrite, ClientHandler
  <2>4. x = n
    <3>1. store' = store \/ \E p : Write(n, p)
      BY <2>2 DEF NodeHandlerWrite, ClientHandler
    <3>2. store \in [Nodes -> [Ranks -> [Keys -> Cell]]]
      BY <2>1 DEF TypeOK
    <3>3. ASSUME NEW p, Write(n, p), x # n PROVE store'[x] = store[x]
      BY <3>2, <3>3 DEF Write
    <3>. QED
      BY <3>1, <3>3
  <2>5. /\ backlog' = [backlog EXCEPT ![n] = Tail(backlog[n])]
        /\ backlog[n] \in Seq(Connection) /\ backlog[n] # <<>>
        /\ backlog \in [Nodes -> Seq(Connection)]
    BY <2>1, <2>3, AcceptsType DEF TypeOK
  <2>. QED
    BY <2>4, <2>5
<1>. QED
  BY <1>1, OpenHolds, PTL DEF OpenSpec, StoredOnlyByRequests

(***************************************************************************)
(* Replica convergence, whatever processes run out of descriptors.         *)
(***************************************************************************)
THEOREM ReplicasConvergeFull ==
  ASSUME CleanData
  PROVE  OpenSpec => []ReplicasAgree
<1>1. OpenInv => ReplicasAgree
  BY DEF OpenInv, LinearInv, IInv, Replication
<1>. QED
  BY <1>1, OpenHolds, PTL

(***************************************************************************)
(* Linearizability, whatever processes run out of descriptors: they stop   *)
(* answering, and what they have answered remains that of one atomic map.  *)
(***************************************************************************)
THEOREM LinearizableFull ==
  ASSUME CleanData
  PROVE  OpenSpec => ImplementsAtomicStore
<1>1. Init => Abstract!Init
  BY InitMaps
<1>2. OpenInv /\ [OpenNext]_allVars => [Abstract!Next]_(Abstract!vars)
  BY OpenStepKinds, QuietImplements, NextStep DEF OpenInv
<1>. QED
  BY <1>1, <1>2, OpenHolds, PTL
  DEF OpenSpec, OpenInit, ImplementsAtomicStore, Abstract!Spec

(***************************************************************************)
(* The counter of descriptors never passes the limit, and what is left in  *)
(* p is always a whole packet or nothing.                                  *)
(***************************************************************************)
THEOREM OpenTypeCorrect ==
  ASSUME CleanData
  PROVE  OpenSpec => []OpenTypeOK
<1>1. OpenInv => OpenTypeOK
  BY DEF OpenInv
<1>. QED
  BY <1>1, OpenHolds, PTL

-----------------------------------------------------------------------------
(* How many descriptors a call can still cost storage nodes, besides the   *)
(* one for the connection that is queued: three while it looks the         *)
(* coordinator up, two sockets to replicas once the coordinator has the    *)
(* request, fewer as the fan-out goes on, none when it is answered.        *)
Left(c) ==
  IF call[c] = None THEN 0
  ELSE IF call[c].pc = "lookup" THEN 3
  ELSE IF call[c].peer \notin up THEN 0
  ELSE IF Queues(backlog[call[c].peer], c) THEN 2
  ELSE IF Serves(call[c].peer, c) THEN 4 - it[call[c].peer]
  ELSE 0

Lefts == [c \in Clients |-> Left(c)]

(* Those of all calls, one by one.                                         *)
Units(f, n) == {u \in Clients \X (1 .. n) : u[2] <= f[u[1]]}

(* What node n has open and what it will open for the connections in its   *)
(* queue and for the calls in progress is paid for by the calls made.      *)
Budget ==
  \A n \in Nodes :
    open[n] + Len(backlog[n]) + Cardinality(Units(Lefts, 3))
      <= 4 * Cardinality(Units(calls, MaxCalls))

LEMMA UnitsFinite ==
  ASSUME NEW f, NEW n \in Nat
  PROVE  IsFiniteSet(Units(f, n)) /\ Cardinality(Units(f, n)) \in Nat
<1>1. IsFiniteSet(1 .. n)
  BY FS_Interval
<1>2. IsFiniteSet(Clients \X (1 .. n))
  BY <1>1, FiniteClients, FS_Product
<1>3. Units(f, n) \subseteq Clients \X (1 .. n)
  BY DEF Units
<1>. QED
  BY <1>2, <1>3, FS_Subset, FS_CardinalityType

(* Nothing more to open for anybody.                                       *)
LEMMA UnitsKept ==
  ASSUME NEW n \in Nat, NEW f \in [Clients -> 0 .. n], NEW g \in [Clients -> 0 .. n],
         \A c \in Clients : g[c] <= f[c]
  PROVE  Cardinality(Units(g, n)) <= Cardinality(Units(f, n))
<1>1. Units(g, n) \subseteq Units(f, n)
  BY DEF Units
<1>. QED
  BY <1>1, UnitsFinite, FS_Subset

(* One descriptor of the call of d is no longer to be opened.              *)
LEMMA UnitSpent ==
  ASSUME NEW n \in Nat, NEW f \in [Clients -> 0 .. n], NEW g \in [Clients -> 0 .. n],
         \A c \in Clients : g[c] <= f[c],
         NEW d \in Clients, g[d] < f[d]
  PROVE  Cardinality(Units(g, n)) + 1 <= Cardinality(Units(f, n))
<1>. DEFINE u == <<d, f[d]>>
<1>1. Units(g, n) \cup {u} \subseteq Units(f, n)
  BY DEF Units
<1>2. u \notin Units(g, n)
  BY DEF Units
<1>3. Cardinality(Units(g, n) \cup {u}) = Cardinality(Units(g, n)) + 1
  BY <1>2, UnitsFinite, FS_AddElement
<1>4. Cardinality(Units(g, n) \cup {u}) <= Cardinality(Units(f, n))
  BY <1>1, UnitsFinite, FS_Subset
<1>. QED
  BY <1>3, <1>4

(* An element more is at most one more.                                    *)
LEMMA OneMore ==
  ASSUME NEW S, NEW x, IsFiniteSet(S)
  PROVE  /\ IsFiniteSet(S \cup {x}) /\ Cardinality(S \cup {x}) \in Nat
         /\ Cardinality(S \cup {x}) <= Cardinality(S) + 1
<1>1. Cardinality(S) \in Nat
  BY FS_CardinalityType
<1>2. /\ IsFiniteSet(S \cup {x})
      /\ \/ Cardinality(S \cup {x}) = Cardinality(S)
         \/ Cardinality(S \cup {x}) = Cardinality(S) + 1
  BY FS_AddElement, Zenon
<1>. QED
  BY <1>1, <1>2

(* A call that starts adds three.                                          *)
LEMMA UnitsAdded ==
  ASSUME NEW f \in [Clients -> 0 .. 3], NEW g \in [Clients -> 0 .. 3],
         NEW d \in Clients, \A c \in Clients \ {d} : g[c] <= f[c]
  PROVE  Cardinality(Units(g, 3)) <= Cardinality(Units(f, 3)) + 3
<1>. DEFINE S0 == Units(f, 3)
            S1 == S0 \cup {<<d, 1>>}
            S2 == S1 \cup {<<d, 2>>}
            S3 == S2 \cup {<<d, 3>>}
<1>1. Units(g, 3) \subseteq S3
  BY DEF Units
<1>2. IsFiniteSet(S0) /\ Cardinality(S0) \in Nat
  BY UnitsFinite
<1>3. IsFiniteSet(S1) /\ Cardinality(S1) \in Nat /\ Cardinality(S1) <= Cardinality(S0) + 1
  BY <1>2, OneMore
<1>4. IsFiniteSet(S2) /\ Cardinality(S2) \in Nat /\ Cardinality(S2) <= Cardinality(S1) + 1
  BY <1>3, OneMore
<1>5. IsFiniteSet(S3) /\ Cardinality(S3) \in Nat /\ Cardinality(S3) <= Cardinality(S2) + 1
  BY <1>4, OneMore
<1>6. Cardinality(Units(g, 3)) <= Cardinality(S3) /\ Cardinality(Units(g, 3)) \in Nat
  <2>. HIDE DEF S3
  <2>. QED
    BY <1>1, <1>5, UnitsFinite, FS_Subset
<1>. QED
  <2>. HIDE DEF S0, S1, S2, S3
  <2>1. Cardinality(Units(g, 3)) <= Cardinality(S0) + 3
    BY <1>2, <1>3, <1>4, <1>5, <1>6
  <2>. QED
    BY <2>1 DEF S0

(* One more call made.                                                     *)
LEMMA CallCounted ==
  ASSUME NEW f \in [Clients -> 0 .. MaxCalls], NEW c \in Clients, f[c] < MaxCalls
  PROVE  Cardinality(Units([f EXCEPT ![c] = @ + 1], MaxCalls))
           = Cardinality(Units(f, MaxCalls)) + 1
<1>. DEFINE g == [f EXCEPT ![c] = @ + 1]
            u == <<c, f[c] + 1>>
<1>0. MaxCalls \in Nat
  BY ProcsAssumption
<1>1. Units(g, MaxCalls) = Units(f, MaxCalls) \cup {u}
  BY <1>0 DEF Units
<1>2. u \notin Units(f, MaxCalls)
  BY <1>0 DEF Units
<1>. QED
  BY <1>0, <1>1, <1>2, UnitsFinite, FS_AddElement

LEMMA LeftsType ==
  ASSUME TypeOK, TypeOK'
  PROVE  Lefts \in [Clients -> 0 .. 3] /\ Lefts' \in [Clients -> 0 .. 3]
<1>1. ASSUME NEW c \in Clients PROVE Left(c) \in 0 .. 3
  <2>1. CASE call[c] = None
    BY <2>1 DEF Left
  <2>2. CASE call[c] # None
    <3>1. PICK m \in Nodes : m = call[c].peer
      BY <2>2 DEF TypeOK, Call
    <3>2. 4 - it[m] \in 0 .. 3
      <4>1. it[m] \in 2 .. 4
        BY DEF TypeOK, SIZE_PREFERENCE_LIST
      <4>. QED
        BY <4>1
    <3>3. Left(c) \in {0, 2, 3, 4 - it[m]}
      BY <2>2, <3>1 DEF Left
    <3>. QED
      BY <3>2, <3>3
  <2>. QED
    BY <2>1, <2>2
<1>2. ASSUME NEW c \in Clients PROVE Left(c)' \in 0 .. 3
  <2>1. CASE call'[c] = None
    BY <2>1 DEF Left
  <2>2. CASE call'[c] # None
    <3>1. PICK m \in Nodes : m = call'[c].peer
      BY <2>2 DEF TypeOK, Call
    <3>2. 4 - it'[m] \in 0 .. 3
      <4>1. it'[m] \in 2 .. 4
        BY DEF TypeOK, SIZE_PREFERENCE_LIST
      <4>. QED
        BY <4>1
    <3>3. Left(c)' \in {0, 2, 3, 4 - it'[m]}
      BY <2>2, <3>1 DEF Left
    <3>. QED
      BY <3>2, <3>3
  <2>. QED
    BY <2>1, <2>2
<1>. QED
  BY <1>1, <1>2 DEF Lefts

(* A call that goes on, or ends, with its request where it was or served.  *)
LEMMA LeftKept ==
  ASSUME TypeOK, TypeOK', NEW c \in Clients,
         call'[c] \in {call[c], None}, up' \subseteq up,
         \A m \in Nodes : Queues(backlog'[m], c) => Queues(backlog[m], c),
         \A m \in Nodes : Serves(m, c)' =>
           Queues(backlog[m], c) \/ (Serves(m, c) /\ it'[m] >= it[m])
  PROVE  Left(c)' <= Left(c)
<1>1. Left(c) \in 0 .. 3
  BY LeftsType DEF Lefts
<1>2. CASE call'[c] = None
  BY <1>1, <1>2 DEF Left
<1>3. CASE call'[c] # None /\ call[c].pc = "lookup"
  BY <1>3 DEF Left
<1>4. CASE call'[c] # None /\ call[c].pc # "lookup"
  <2>1. PICK m \in Nodes : m = call[c].peer
    BY <1>4 DEF TypeOK, Call
  <2>2. it[m] \in 2 .. 4 /\ it'[m] \in 2 .. 4
    BY DEF TypeOK, SIZE_PREFERENCE_LIST
  <2>3. Left(c) = IF m \notin up THEN 0 ELSE IF Queues(backlog[m], c) THEN 2
                  ELSE IF Serves(m, c) THEN 4 - it[m] ELSE 0
    BY <1>4, <2>1 DEF Left
  <2>4. Left(c)' = IF m \notin up' THEN 0 ELSE IF Queues(backlog'[m], c) THEN 2
                   ELSE IF Serves(m, c)' THEN 4 - it'[m] ELSE 0
    BY <1>4, <2>1 DEF Left
  <2>. QED
    BY <1>1, <2>2, <2>3, <2>4
<1>. QED
  BY <1>2, <1>3, <1>4

(* The sums of two successive states, in numbers.                          *)
LEMMA BudgetStep ==
  ASSUME TypeOK, TypeOK', OpenTypeOK, OpenTypeOK', Budget,
         calls' \in [Clients -> 0 .. MaxCalls],
         NEW spent \in Nat, NEW more \in Int,
         \A n \in Nodes : open'[n] + Len(backlog'[n]) <= open[n] + Len(backlog[n]) + spent,
         Cardinality(Units(Lefts', 3)) <= Cardinality(Units(Lefts, 3)) + more,
         spent + more
           <= 4 * (Cardinality(Units(calls', MaxCalls)) - Cardinality(Units(calls, MaxCalls)))
  PROVE  Budget'
<1>. DEFINE L == Cardinality(Units(Lefts, 3))
            M == Cardinality(Units(Lefts', 3))
            C == Cardinality(Units(calls, MaxCalls))
            D == Cardinality(Units(calls', MaxCalls))
<1>1. L \in Nat /\ M \in Nat /\ C \in Nat /\ D \in Nat
  BY UnitsFinite, ProcsAssumption
<1>2. SUFFICES ASSUME NEW n \in Nodes
               PROVE  open'[n] + Len(backlog'[n]) + M <= 4 * D
  BY DEF Budget, Units
<1>3. /\ open[n] \in Nat /\ Len(backlog[n]) \in Nat
      /\ open'[n] \in Nat /\ Len(backlog'[n]) \in Nat
  <2>1. open[n] \in Nat /\ open'[n] \in Nat
    BY DEF OpenTypeOK, Procs
  <2>2. /\ backlog \in [Nodes -> Seq(Connection)]
        /\ backlog' \in [Nodes -> Seq(Connection)]
    BY DEF TypeOK
  <2>3. Len(backlog[n]) \in Nat /\ Len(backlog'[n]) \in Nat
    BY <2>2
  <2>. QED
    BY <2>1, <2>3
<1>4. open[n] + Len(backlog[n]) + L <= 4 * C
  BY DEF Budget
<1>5. /\ open'[n] + Len(backlog'[n]) <= open[n] + Len(backlog[n]) + spent
      /\ M <= L + more /\ spent + more <= 4 * (D - C)
  OBVIOUS
<1>6. open'[n] + Len(backlog'[n]) + M <= 4 * D
  <2>. HIDE DEF L, M, C, D
  <2>1. \A o, q, u, v, l, m, c, d, s \in Nat : \A w \in Int :
          u + v <= o + q + s /\ m <= l + w /\ s + w <= 4 * (d - c)
            /\ o + q + l <= 4 * c => u + v + m <= 4 * d
    OBVIOUS
  <2>. QED
    BY <1>1, <1>3, <1>4, <1>5, <2>1
<1>. QED
  BY <1>6

(* The sums are numbers.                                                    *)
LEMMA BudgetNumbers ==
  ASSUME TypeOK, OpenTypeOK
  PROVE  /\ Cardinality(Units(Lefts, 3)) \in Nat /\ Cardinality(Units(Lefts', 3)) \in Nat
         /\ Cardinality(Units(calls, MaxCalls)) \in Nat
         /\ \A n \in Nodes : open[n] \in Nat /\ Len(backlog[n]) \in Nat
         /\ calls \in [Clients -> 0 .. MaxCalls] /\ MaxCalls \in Nat
<1>1. MaxCalls \in Nat
  BY ProcsAssumption
<1>2. /\ Cardinality(Units(Lefts, 3)) \in Nat /\ Cardinality(Units(Lefts', 3)) \in Nat
      /\ Cardinality(Units(calls, MaxCalls)) \in Nat
  BY <1>1, UnitsFinite
<1>3. backlog \in [Nodes -> Seq(Connection)] /\ calls \in [Clients -> 0 .. MaxCalls]
  BY DEF TypeOK
<1>4. \A n \in Nodes : Len(backlog[n]) \in Nat
  BY <1>3
<1>5. \A n \in Nodes : open[n] \in Nat
  BY DEF OpenTypeOK, Procs
<1>. QED
  BY <1>1, <1>2, <1>3, <1>4, <1>5

(* A step that opens what was queued.                                      *)
LEMMA BudgetKept ==
  ASSUME TypeOK, TypeOK', OpenTypeOK, OpenTypeOK', Budget, calls' = calls,
         \A c \in Clients : Left(c)' <= Left(c),
         \A n \in Nodes : open'[n] + Len(backlog'[n]) <= open[n] + Len(backlog[n])
  PROVE  Budget'
<1>0. /\ Cardinality(Units(Lefts, 3)) \in Nat /\ Cardinality(Units(Lefts', 3)) \in Nat
      /\ Cardinality(Units(calls, MaxCalls)) \in Nat
      /\ \A n \in Nodes : open[n] \in Nat /\ Len(backlog[n]) \in Nat
      /\ calls \in [Clients -> 0 .. MaxCalls] /\ MaxCalls \in Nat
  BY BudgetNumbers
<1>1. Cardinality(Units(Lefts', 3)) <= Cardinality(Units(Lefts, 3))
  BY LeftsType, UnitsKept DEF Lefts
<1>2.  /\ \A n \in Nodes : open'[n] + Len(backlog'[n]) <= open[n] + Len(backlog[n]) + 0
      /\ Cardinality(Units(Lefts', 3)) <= Cardinality(Units(Lefts, 3)) + 0
      /\ 0 + 0 <= 4 * (Cardinality(Units(calls', MaxCalls)) - Cardinality(Units(calls, MaxCalls)))
      /\ 0 \in Nat /\ 0 \in Int
  BY <1>0, <1>1
<1>. QED
  BY <1>0, <1>2, BudgetStep

(* A step of a call towards its end that opens or queues one more.         *)
LEMMA BudgetSpent ==
  ASSUME TypeOK, TypeOK', OpenTypeOK, OpenTypeOK', Budget, calls' = calls,
         \A c \in Clients : Left(c)' <= Left(c),
         NEW d \in Clients, Left(d)' < Left(d),
         \A n \in Nodes : open'[n] + Len(backlog'[n]) <= open[n] + Len(backlog[n]) + 1
  PROVE  Budget'
<1>0. /\ Cardinality(Units(Lefts, 3)) \in Nat /\ Cardinality(Units(Lefts', 3)) \in Nat
      /\ Cardinality(Units(calls, MaxCalls)) \in Nat
      /\ \A n \in Nodes : open[n] \in Nat /\ Len(backlog[n]) \in Nat
      /\ calls \in [Clients -> 0 .. MaxCalls] /\ MaxCalls \in Nat
  BY BudgetNumbers
<1>1. Cardinality(Units(Lefts', 3)) + 1 <= Cardinality(Units(Lefts, 3))
  BY LeftsType, UnitSpent DEF Lefts
<1>2.  /\ \A n \in Nodes : open'[n] + Len(backlog'[n]) <= open[n] + Len(backlog[n]) + 1
      /\ Cardinality(Units(Lefts', 3)) <= Cardinality(Units(Lefts, 3)) + (-1)
      /\ 1 + (-1) <= 4 * (Cardinality(Units(calls', MaxCalls)) - Cardinality(Units(calls, MaxCalls)))
      /\ 1 \in Nat /\ (-1) \in Int
  BY <1>0, <1>1
<1>. QED
  BY <1>0, <1>2, BudgetStep

(* A call more, with one connection queued or none.                        *)
LEMMA BudgetAdded ==
  ASSUME TypeOK, TypeOK', OpenTypeOK, OpenTypeOK', Budget,
         NEW d \in Clients, calls[d] < MaxCalls,
         calls' = [calls EXCEPT ![d] = @ + 1],
         \A c \in Clients \ {d} : Left(c)' <= Left(c),
         \A n \in Nodes : open'[n] + Len(backlog'[n]) <= open[n] + Len(backlog[n]) + 1
  PROVE  Budget'
<1>0. /\ Cardinality(Units(Lefts, 3)) \in Nat /\ Cardinality(Units(Lefts', 3)) \in Nat
      /\ Cardinality(Units(calls, MaxCalls)) \in Nat
      /\ \A n \in Nodes : open[n] \in Nat /\ Len(backlog[n]) \in Nat
      /\ calls \in [Clients -> 0 .. MaxCalls] /\ MaxCalls \in Nat
  BY BudgetNumbers
<1>1. Cardinality(Units(Lefts', 3)) <= Cardinality(Units(Lefts, 3)) + 3
  BY LeftsType, UnitsAdded DEF Lefts
<1>2. Cardinality(Units(calls', MaxCalls)) = Cardinality(Units(calls, MaxCalls)) + 1
  BY <1>0, CallCounted
<1>3.  /\ \A n \in Nodes : open'[n] + Len(backlog'[n]) <= open[n] + Len(backlog[n]) + 1
      /\ Cardinality(Units(Lefts', 3)) <= Cardinality(Units(Lefts, 3)) + 3
      /\ 1 + 3 <= 4 * (Cardinality(Units(calls', MaxCalls)) - Cardinality(Units(calls, MaxCalls)))
      /\ 1 \in Nat /\ 3 \in Int
  BY <1>0, <1>1, <1>2
<1>4. calls' \in [Clients -> 0 .. MaxCalls]
  BY DEF TypeOK
<1>. QED
  BY <1>3, <1>4, BudgetStep

-----------------------------------------------------------------------------
(* What the steps do to the sums.                                          *)

LEMMA EnqueueLength ==
  ASSUME TypeOK, NEW p \in Procs, NEW t \in Nodes, NEW m \in Packet,
         Enqueue(p, t, m)
  PROVE  /\ Len(backlog'[t]) = Len(backlog[t]) + 1
         /\ \A n \in Nodes \ {t} : backlog'[n] = backlog[n]
         /\ \A n \in Nodes : Len(backlog'[n]) <= Len(backlog[n]) + 1
         /\ Queues(backlog'[t], p)
         /\ \A n \in Nodes : \A x : x # p /\ Queues(backlog'[n], x) => Queues(backlog[n], x)
<1>. DEFINE conn == [from |-> p, pkt |-> m]
<1>1. conn \in Connection /\ conn.from = p /\ backlog \in [Nodes -> Seq(Connection)]
  BY DEF Connection, TypeOK
<1>2. backlog' = [backlog EXCEPT ![t] = Append(backlog[t], conn)]
  BY DEF Enqueue
<1>. HIDE DEF conn
<1>3. /\ backlog'[t] = Append(backlog[t], conn)
      /\ \A r \in Nodes \ {t} : backlog'[r] = backlog[r]
      /\ backlog[t] \in Seq(Connection) /\ \A r \in Nodes : Len(backlog[r]) \in Nat
  BY <1>1, <1>2
<1>4. Len(backlog'[t]) = Len(backlog[t]) + 1
  BY <1>1, <1>3
<1>5. \A x : Queues(backlog'[t], x) <=> Queues(backlog[t], x) \/ conn.from = x
  BY <1>1, <1>3, AppendQueue
<1>6. \A n \in Nodes : Len(backlog'[n]) <= Len(backlog[n]) + 1
  BY <1>3, <1>4
<1>. QED
  BY <1>1, <1>3, <1>4, <1>5, <1>6

(* The first half of a put or get.                                         *)
LEMMA StartCallBudget ==
  ASSUME OpenInv, OpenInv', Budget, NEW c \in Clients, StartCall(c)
  PROVE  Budget'
<1>1. TypeOK /\ TypeOK' /\ OpenTypeOK /\ OpenTypeOK' /\ c \in Procs /\ c \notin Nodes
  BY ProcsAssumption DEF OpenInv, LinearInv, IInv, Protocol, Procs
<1>2. PICK op \in {"put", "get"}, k \in Keys, v \in Values, t \in Nodes :
        Begin(c, op, k, v, t)
  BY <1>1, DataAssumption, ProcsAssumption DEF StartCall, Put, Get
<1>. DEFINE m == [type |-> "lookup", timpStamp |-> 0, size |-> 0,
                  rank |-> 0, key |-> k, value |-> EmptyValue]
<1>3. m \in Packet
  BY DataAssumption, ProcsAssumption DEF Packet, Versions, Ranks, Text
<1>4. Enqueue(c, t, m) \/ backlog' = backlog
  BY <1>2 DEF Begin
<1>. HIDE DEF m
<1>5. /\ \A n \in Nodes : Len(backlog'[n]) <= Len(backlog[n]) + 1
      /\ \A d \in Clients \ {c} : \A n \in Nodes :
           Queues(backlog'[n], d) => Queues(backlog[n], d)
  <2>1. \A n \in Nodes : Len(backlog[n]) \in Nat
    BY <1>1 DEF TypeOK
  <2>2. CASE Enqueue(c, t, m)
    BY <1>1, <1>3, <2>2, EnqueueLength
  <2>3. CASE backlog' = backlog
    BY <2>1, <2>3
  <2>. QED
    BY <1>4, <2>2, <2>3
<1>6. /\ UNCHANGED <<up, cur, it>> /\ calls[c] < MaxCalls
      /\ calls' = [calls EXCEPT ![c] = @ + 1]
      /\ \A d \in Clients \ {c} : call'[d] = call[d]
  BY <1>1, <1>2 DEF Begin, nodeVars, TypeOK
<1>7. \A n \in Nodes : open'[n] = open[n] /\ open[n] \in Nat /\ Len(backlog[n]) \in Nat
                       /\ Len(backlog'[n]) \in Nat
  <2>1. /\ backlog \in [Nodes -> Seq(Connection)]
        /\ backlog' \in [Nodes -> Seq(Connection)]
    BY <1>1 DEF TypeOK
  <2>2. \A n \in Nodes : open'[n] = open[n] /\ open[n] \in Nat
    BY <1>1 DEF StartCall, Opens, OpenTypeOK, Procs
  <2>3. \A n \in Nodes : Len(backlog[n]) \in Nat /\ Len(backlog'[n]) \in Nat
    BY <2>1
  <2>. QED
    BY <2>2, <2>3
<1>8. \A d \in Clients \ {c} : Left(d)' <= Left(d)
  <2>. SUFFICES ASSUME NEW d \in Clients \ {c} PROVE Left(d)' <= Left(d)
    OBVIOUS
  <2>1. \A n \in Nodes : it[n] \in 2 .. 4
    BY <1>1 DEF TypeOK, SIZE_PREFERENCE_LIST
  <2>2. \A n \in Nodes : Serves(n, d)' => Serves(n, d) /\ it'[n] >= it[n]
    BY <1>6, <2>1 DEF Serves
  <2>. QED
    BY <1>1, <1>5, <1>6, <2>2, LeftKept
<1>9. \A n \in Nodes : open'[n] + Len(backlog'[n]) <= open[n] + Len(backlog[n]) + 1
  BY <1>5, <1>7
<1>. QED
  BY <1>1, <1>6, <1>8, <1>9, BudgetAdded

LEMMA CallRefusedBudget ==
  ASSUME OpenInv, OpenInv', Budget, NEW c \in Clients, CallRefused(c)
  PROVE  Budget'
<1>1. TypeOK /\ TypeOK' /\ OpenTypeOK /\ OpenTypeOK'
  BY DEF OpenInv, LinearInv, IInv, Protocol
<1>2. \A d \in Clients : Left(d)' = Left(d) /\ Left(d) \in Nat
  BY <1>1, LeftsType DEF CallRefused, nodeVars, Left, Lefts, Serves
<1>3. \A n \in Nodes : open'[n] = open[n] /\ backlog'[n] = backlog[n]
                       /\ open[n] \in Nat /\ Len(backlog[n]) \in Nat
  BY <1>1 DEF CallRefused, descVars, OpenTypeOK, TypeOK, Procs
<1>4. calls[c] < MaxCalls /\ calls' = [calls EXCEPT ![c] = @ + 1]
  BY DEF CallRefused
<1>5. /\ \A d \in Clients \ {c} : Left(d)' <= Left(d)
      /\ \A n \in Nodes : open'[n] + Len(backlog'[n]) <= open[n] + Len(backlog[n]) + 1
  BY <1>2, <1>3
<1>. QED
  BY <1>1, <1>4, <1>5, BudgetAdded

(* The second half: the request is queued, two sockets are left.           *)
LEMMA OpenContactBudget ==
  ASSUME OpenInv, OpenInv', Budget, NEW c \in Clients, OpenContact(c)
  PROVE  Budget'
<1>1. /\ TypeOK /\ TypeOK' /\ OpenTypeOK /\ OpenTypeOK' /\ c \in Procs /\ c \notin Nodes
      /\ Protocol /\ ContactCoordinator(c) /\ call[c] \in Call /\ call[c].pc = "lookup"
  <2>1. TypeOK /\ TypeOK' /\ OpenTypeOK /\ OpenTypeOK' /\ Protocol
    BY DEF OpenInv, LinearInv, IInv, Protocol
  <2>2. c \in Procs /\ c \notin Nodes
    BY ProcsAssumption DEF Procs
  <2>3. ContactCoordinator(c)
    BY DEF OpenContact
  <2>4. call[c] # None /\ call[c].pc = "lookup"
    BY <2>3 DEF ContactCoordinator
  <2>5. call[c] \in Call
    BY <2>1, <2>4 DEF TypeOK
  <2>. QED
    BY <2>1, <2>2, <2>3, <2>4, <2>5
<1>2. \A n \in Nodes : /\ open'[n] = open[n] /\ open[n] \in Nat
                       /\ Len(backlog[n]) \in Nat /\ Len(backlog'[n]) \in Nat
                       /\ it[n] \in 2 .. 4
  BY <1>1 DEF OpenContact, Opens, OpenTypeOK, Procs, TypeOK, SIZE_PREFERENCE_LIST
<1>3. UNCHANGED <<cur, it, calls>> /\ \A d \in Clients \ {c} : call'[d] = call[d]
  BY <1>1 DEF ContactCoordinator, nodeVars, TypeOK
<1>4. \A d \in Clients : \A n \in Nodes : Serves(n, d)' => Serves(n, d) /\ it'[n] >= it[n]
  BY <1>2, <1>3 DEF Serves
<1>5. CASE Exit(c) /\ UNCHANGED <<backlog, call>>
  <2>1. \A d \in Clients : Left(d)' <= Left(d)
    BY <1>1, <1>4, <1>5, LeftKept DEF Exit
  <2>2. \A n \in Nodes : open'[n] + Len(backlog'[n]) <= open[n] + Len(backlog[n])
    BY <1>2, <1>5
  <2>. QED
    BY <1>1, <1>3, <2>1, <2>2, BudgetKept
<1>6. CASE ~(Exit(c) /\ UNCHANGED <<backlog, call>>)
  <2>. DEFINE reply == inbox[c][call[c].peer]
              coord == reply.value
  <2>1. PICK junk \in Stack :
          /\ Enqueue(c, coord, RequestPacket(c, reply.rank, junk))
          /\ call' = [call EXCEPT ![c].pc = "request", ![c].peer = coord]
          /\ up' = up /\ coord \in up
    BY <1>1, <1>6 DEF ContactCoordinator, Connectable
  <2>2. coord \in Nodes /\ RequestPacket(c, reply.rank, junk) \in Packet
    BY <1>1, RequestPacketType
  <2>3. call'[c] # None /\ call'[c].pc = "request" /\ call'[c].peer = coord
    <3>1. call' = [call EXCEPT ![c] = [call[c] EXCEPT !.pc = "request", !.peer = coord]]
      BY <1>1, <2>1 DEF TypeOK
    <3>2. [call[c] EXCEPT !.pc = "request", !.peer = coord] \in Call
      BY <1>1, <2>2 DEF Call
    <3>3. call'[c] = [call[c] EXCEPT !.pc = "request", !.peer = coord]
      BY <1>1, <3>1 DEF TypeOK
    <3>. QED
      BY <1>1, <3>2, <3>3, NoneAssumption DEF Call
  <2>. HIDE DEF coord, reply
  <2>4. /\ Queues(backlog'[coord], c)
        /\ \A n \in Nodes : Len(backlog'[n]) <= Len(backlog[n]) + 1
        /\ \A d \in Clients \ {c} : \A n \in Nodes :
             Queues(backlog'[n], d) => Queues(backlog[n], d)
    BY <1>1, <2>1, <2>2, EnqueueLength
  <2>5. Left(c)' = 2
    BY <2>1, <2>3, <2>4 DEF Left
  <2>6. Left(c) = 3
    BY <1>1, NoneAssumption DEF Left
  <2>7. \A d \in Clients : Left(d)' <= Left(d)
    <3>1. \A d \in Clients \ {c} : Left(d)' <= Left(d)
      BY <1>1, <1>3, <1>4, <2>1, <2>4, LeftKept
    <3>. QED
      BY <2>5, <2>6, <3>1
  <2>8. \A n \in Nodes : open'[n] + Len(backlog'[n]) <= open[n] + Len(backlog[n]) + 1
    BY <1>2, <2>4
  <2>9. Left(c)' < Left(c)
    BY <2>5, <2>6
  <2>. QED
    BY <1>1, <1>3, <2>7, <2>8, <2>9, BudgetSpent
<1>. QED
  BY <1>5, <1>6

(* A step that opens and queues nothing: calls end, processes exit.        *)
LEMMA SilentBudget ==
  ASSUME OpenInv, OpenInv', Budget, UNCHANGED <<backlog, open, it, calls>>,
         up' \subseteq up, \A c \in Clients : call'[c] \in {call[c], None},
         \A n \in Nodes : \A c \in Clients : Serves(n, c)' => Serves(n, c)
  PROVE  Budget'
<1>1. TypeOK /\ TypeOK' /\ OpenTypeOK /\ OpenTypeOK'
  BY DEF OpenInv, LinearInv, IInv, Protocol
<1>2. \A n \in Nodes : /\ open[n] \in Nat /\ Len(backlog[n]) \in Nat
                       /\ it[n] \in 2 .. 4 /\ it'[n] >= it[n]
  BY <1>1 DEF OpenTypeOK, Procs, TypeOK, SIZE_PREFERENCE_LIST
<1>3. \A d \in Clients : Left(d)' <= Left(d)
  BY <1>1, <1>2, LeftKept
<1>4. \A n \in Nodes : open'[n] + Len(backlog'[n]) <= open[n] + Len(backlog[n])
  BY <1>2
<1>. QED
  BY <1>1, <1>3, <1>4, BudgetKept

(* A connection is accepted.                                               *)
LEMMA ServeBudget ==
  ASSUME OpenInv, OpenInv', Budget, NEW n \in Nodes, Serve(n)
  PROVE  Budget'
<1>. DEFINE m == Head(backlog[n])
<1>1. /\ TypeOK /\ TypeOK' /\ OpenTypeOK /\ OpenTypeOK' /\ Protocol
      /\ open' = [open EXCEPT ![n] = @ + 1]
  BY DEF OpenInv, LinearInv, IInv, Protocol, Serve, Opens
<1>2. PICK type \in {"lookup", "node", "client"} : Accepts(n, type)
  BY DEF Serve, ClientCoordinator, NodeHandlerWrite, NodeHandlerRead, ClientHandler
<1>3. /\ Queues(backlog[n], m.from) /\ Once(backlog[n])
  BY <1>1, <1>2, HeadConnection
<1>4. /\ \A x \in Nodes \ {n} : backlog'[x] = backlog[x]
      /\ \A p : Queues(backlog'[n], p) => Queues(backlog[n], p)
  BY <1>1, <1>2, <1>3, DequeueEffect
<1>5. /\ backlog[n] \in Seq(Connection) /\ backlog[n] # <<>>
      /\ backlog' = [backlog EXCEPT ![n] = Tail(backlog[n])]
  BY <1>1, <1>2, AcceptsType
<1>6. Len(backlog'[n]) = Len(backlog[n]) - 1
  BY <1>1, <1>5 DEF TypeOK
<1>7. \A x \in Nodes : /\ open[x] \in Nat /\ Len(backlog[x]) \in Nat
                       /\ it[x] \in 2 .. 4 /\ it'[x] \in 2 .. 4
                       /\ open'[x] = IF x = n THEN open[x] + 1 ELSE open[x]
  BY <1>1 DEF OpenTypeOK, Procs, TypeOK, SIZE_PREFERENCE_LIST
<1>8. \A x \in Nodes : open'[x] + Len(backlog'[x]) <= open[x] + Len(backlog[x])
  BY <1>4, <1>6, <1>7
<1>9. /\ UNCHANGED <<call, calls>> /\ up' \subseteq up
      /\ \A x \in Nodes : \A c : Serves(x, c)' =>
           Queues(backlog[x], c) \/ (Serves(x, c) /\ it'[x] >= it[x])
  <2>1. CASE ClientHandler(n)
    <3>1. /\ UNCHANGED <<up, call, calls>>
          /\ \A x \in Nodes \ {n} : cur'[x] = cur[x] /\ it'[x] = it[x]
          /\ cur'[n].from = m.from
      BY <1>1, <2>1 DEF ClientHandler, TypeOK, clientVars
    <3>. QED
      BY <1>3, <1>7, <3>1 DEF Serves
  <2>2. CASE ~ClientHandler(n)
    <3>1. UNCHANGED <<cur, it, call, calls>> /\ up' \subseteq up
      BY <2>2 DEF Serve, ClientCoordinator, NodeHandlerWrite, NodeHandlerRead,
                  SendBack, Exit, nodeVars, clientVars
    <3>. QED
      BY <1>7, <3>1 DEF Serves
  <2>. QED
    BY <2>1, <2>2
<1>10. \A c \in Clients : Left(c)' <= Left(c)
  BY <1>1, <1>4, <1>9, LeftKept
<1>. QED
  BY <1>1, <1>8, <1>9, <1>10, BudgetKept

(* A socket to a replica: one descriptor here, one connection queued there.*)
LEMMA OpenReplicaBudget ==
  ASSUME OpenInv, OpenInv', Budget, NEW n \in Nodes, OpenReplica(n)
  PROVE  Budget'
<1>1. /\ TypeOK /\ TypeOK' /\ OpenTypeOK /\ OpenTypeOK' /\ Protocol
      /\ CoordinatorOK(n) /\ RequestInOnePlace /\ n \in Procs /\ n \notin Clients
      /\ open' = [open EXCEPT ![n] = @ + 1] /\ ContactReplica(n)
      /\ n \in up /\ pc[n] # "accept" /\ ~FanOutDone(n)
      /\ UNCHANGED <<cur, call, calls>>
  BY ProcsAssumption
  DEF OpenInv, LinearInv, IInv, Protocol, Messages, OpenReplica, Opens, ContactReplica,
      Coordinates, Procs, clientVars
<1>2. PICK d \in Clients :
        /\ d = cur[n].from /\ cur[n] # None /\ cur[n].pkt \in Packet
        /\ ForCoordinator(n, cur[n].pkt) /\ call[d].pc = "request"
  BY <1>1 DEF CoordinatorOK, TypeOK, Connection
<1>3. /\ call[d] # None /\ call[d].peer = n /\ Serves(n, d) /\ ~Queues(backlog[n], d)
  BY <1>1, <1>2 DEF RequestInOnePlace, Serves, Expects, Procs
<1>4. /\ it[n] \in {2, 3} /\ \A x \in Nodes : it[x] \in 2 .. 4
  BY <1>1 DEF TypeOK, FanOutDone, SIZE_PREFERENCE_LIST
<1>5. Left(d) = 4 - it[n]
  BY <1>1, <1>2, <1>3 DEF Left
<1>6. PICK t \in Nodes : t = Target(n) /\ t # n
  <2>1. PICK k \in Keys : k = cur[n].pkt.key /\ Coordinator(k) = n
    BY <1>2 DEF Packet, ForCoordinator
  <2>2. PICK i \in 2 .. SIZE_PREFERENCE_LIST : i = it[n]
    BY <1>4 DEF SIZE_PREFERENCE_LIST
  <2>. QED
    BY <2>1, <2>2, ReplicaFacts DEF Target
<1>7. \A x \in Nodes : /\ open[x] \in Nat /\ Len(backlog[x]) \in Nat
                       /\ open'[x] = IF x = n THEN open[x] + 1 ELSE open[x]
                       /\ it[x] \in Nat
  <2>1. open \in [Procs -> Nat] /\ Nodes \subseteq Procs
    BY <1>1 DEF OpenTypeOK, Procs
  <2>2. \A x \in Nodes : Len(backlog[x]) \in Nat /\ it[x] \in Nat
    <3>1. backlog \in [Nodes -> Seq(Connection)]
      BY <1>1 DEF TypeOK
    <3>2. \A x \in Nodes : Len(backlog[x]) \in Nat
      BY <3>1
    <3>3. \A x \in Nodes : it[x] \in Nat
      BY <1>4
    <3>. QED
      BY <3>2, <3>3
  <2>. QED
    BY <1>1, <2>1, <2>2
<1>8. CASE Exit(n) /\ UNCHANGED <<backlog, it>>
  <2>1. \A c \in Clients : Left(c)' <= Left(c)
    <3>1. \A x \in Nodes : \A c : Serves(x, c)' => Serves(x, c) /\ it'[x] >= it[x]
      BY <1>1, <1>7, <1>8 DEF Serves
    <3>2. up' \subseteq up /\ backlog' = backlog /\ call' = call
      BY <1>1, <1>8 DEF Exit
    <3>. QED
      BY <1>1, <3>1, <3>2, LeftKept
  <2>2. Left(d)' = 0
    BY <1>1, <1>2, <1>3, <1>8 DEF Left, Exit
  <2>3. Left(d)' < Left(d)
    BY <1>4, <1>5, <2>2
  <2>4. \A x \in Nodes : open'[x] + Len(backlog'[x]) <= open[x] + Len(backlog[x]) + 1
    BY <1>7, <1>8
  <2>. QED
    BY <1>1, <1>2, <2>1, <2>3, <2>4, BudgetSpent
<1>9. CASE ~(Exit(n) /\ UNCHANGED <<backlog, it>>)
  <2>. DEFINE m == IF pc[n] = "writing" THEN cur[n].pkt ELSE [cur[n].pkt EXCEPT !.size = 0]
  <2>1. Enqueue(n, t, m) /\ up' = up /\ it' = [it EXCEPT ![n] = @ + 1]
    BY <1>1, <1>6, <1>9 DEF ContactReplica
  <2>2. m \in Packet
    BY <1>2 DEF Packet
  <2>. HIDE DEF m
  <2>3. /\ Len(backlog'[t]) = Len(backlog[t]) + 1
        /\ \A x \in Nodes \ {t} : backlog'[x] = backlog[x]
        /\ \A x \in Nodes : \A c \in Clients :
             Queues(backlog'[x], c) => Queues(backlog[x], c)
    BY <1>1, <2>1, <2>2, EnqueueLength
  <2>4. it'[n] = it[n] + 1 /\ \A x \in Nodes : it'[x] >= it[x]
    <3>1. DOMAIN it = Nodes
      BY <1>1 DEF TypeOK
    <3>. QED
      BY <1>4, <2>1, <3>1
  <2>5. \A c \in Clients : Left(c)' <= Left(c)
    BY <1>1, <2>1, <2>3, <2>4, LeftKept DEF Serves
  <2>6. Left(d)' = 4 - it'[n]
    BY <1>1, <1>2, <1>3, <2>1, <2>3 DEF Left, Serves
  <2>7. Left(d)' < Left(d)
    BY <1>4, <1>5, <2>4, <2>6
  <2>8. \A x \in Nodes : open'[x] + Len(backlog'[x]) <= open[x] + Len(backlog[x]) + 1
    <3>. SUFFICES ASSUME NEW x \in Nodes
                  PROVE  open'[x] + Len(backlog'[x]) <= open[x] + Len(backlog[x]) + 1
      OBVIOUS
    <3>1. /\ open[x] \in Nat /\ Len(backlog[x]) \in Nat
          /\ open'[x] = IF x = n THEN open[x] + 1 ELSE open[x]
      BY <1>7
    <3>2. CASE x = t
      BY <1>6, <2>3, <3>1, <3>2
    <3>3. CASE x # t
      <4>1. Len(backlog'[x]) = Len(backlog[x])
        BY <2>3, <3>3
      <4>. QED
        BY <3>1, <4>1
    <3>. QED
      BY <3>2, <3>3
  <2>. QED
    BY <1>1, <1>2, <2>5, <2>7, <2>8, BudgetSpent
<1>. QED
  BY <1>8, <1>9

LEMMA NextBudget ==
  ASSUME OpenInv, OpenInv', Budget, [OpenNext]_allVars
  PROVE  Budget'
<1>1. TypeOK
  BY DEF OpenInv, LinearInv, IInv, Protocol
<1>2. ASSUME NEW c \in Clients,
             StartCall(c) \/ CallRefused(c) \/ OpenBroken(c) \/ OpenClientStep(c)
      PROVE  Budget'
  <2>1. CASE OpenBroken(c) \/ ContactRefused(c) \/ CallDone(c)
    <3>1. /\ UNCHANGED <<backlog, open, it, calls, cur>> /\ up' \subseteq up
          /\ \A d \in Clients : call'[d] \in {call[d], None}
      BY <1>1, <2>1
      DEF OpenBroken, LookupBroken, ContactRefused, CallDone, LookupLost, Return,
          ReturnLost, Exit, nodeVars, clientVars, descVars, TypeOK
    <3>. QED
      BY <3>1, SilentBudget DEF Serves
  <2>. QED
    BY <1>2, <2>1, StartCallBudget, CallRefusedBudget, OpenContactBudget
    DEF OpenClientStep
<1>3. ASSUME NEW n \in Nodes, OpenNodeStep(n)
      PROVE  Budget'
  <2>1. CASE FutureDone(n)
    <3>1. UNCHANGED <<backlog, open, it, calls, call, up>>
      BY <2>1 DEF FutureDone, ReplicaReply, ReplicaLost, descVars, clientVars
    <3>2. \A x \in Nodes : \A c \in Clients : Serves(x, c)' => Serves(x, c)
      <4>1. CoordinatorOK(n) /\ (pc[n] # "accept" => cur[n] \in Connection)
        BY <1>1 DEF OpenInv, LinearInv, IInv, Protocol, Messages, CoordinatorOK, TypeOK
      <4>2. \A x \in Nodes : \/ cur'[x] = cur[x]
                             \/ cur[x] \in Connection /\ cur'[x].from = cur[x].from
        BY <1>1, <2>1, <4>1
        DEF FutureDone, ReplicaReply, ReplicaLost, Coordinates, TypeOK, Connection
      <4>. QED
        BY <4>2, NoneAssumption DEF Serves
    <3>. QED
      BY <3>1, <3>2, SilentBudget
  <2>2. CASE AnswerClient(n)
    <3>1. UNCHANGED <<backlog, open, it, calls, call>> /\ up' \subseteq up
      BY <2>2 DEF AnswerClient, Respond, SendBack, Exit, clientVars
    <3>2. \A x \in Nodes : cur'[x] \in {cur[x], None}
      BY <1>1, <2>2 DEF AnswerClient, Respond, TypeOK
    <3>. QED
      BY <3>1, <3>2, SilentBudget DEF Serves
  <2>3. CASE AcceptFails(n) \/ SocketFails(n)
    <3>1. UNCHANGED <<backlog, open, it, calls, call, cur>> /\ up' \subseteq up
      BY <2>3 DEF AcceptFails, SocketFails, Exit, nodeVars, clientVars, descVars
    <3>. QED
      BY <3>1, SilentBudget DEF Serves
  <2>. QED
    BY <1>3, <2>1, <2>2, <2>3, ServeBudget, OpenReplicaBudget DEF OpenNodeStep
<1>4. CASE (\E p \in Procs : OpenKill(p)) \/ UNCHANGED allVars
  <2>1. UNCHANGED <<backlog, open, it, calls, call, cur>> /\ up' \subseteq up
    BY <1>4 DEF OpenKill, Kill, Exit, nodeVars, clientVars, descVars, allVars, vars
  <2>. QED
    BY <2>1, SilentBudget DEF Serves
<1>. QED
  BY <1>2, <1>3, <1>4 DEF OpenNext

(***************************************************************************)
(* Four descriptors of a storage node per call, whatever is queued, served *)
(* or abandoned when: every descriptor that is open, every connection that *)
(* is queued and every socket a coordinator has yet to open is paid for.   *)
(***************************************************************************)
THEOREM DescriptorsLast ==
  ASSUME CleanData
  PROVE  OpenSpec => []FourPerCall
<1>1. OpenInit => Budget
  <2>. SUFFICES ASSUME OpenInit PROVE Budget
    OBVIOUS
  <2>1. Units(Lefts, 3) = {}
    BY DEF OpenInit, Init, Units, Lefts, Left
  <2>2. \A n \in Nodes : open[n] = 0 /\ Len(backlog[n]) = 0
    BY DEF OpenInit, Init, Procs
  <2>3. Cardinality(Units(calls, MaxCalls)) \in Nat
    BY UnitsFinite, ProcsAssumption
  <2>4. Cardinality(Units(Lefts, 3)) = 0
    BY <2>1, FS_EmptySet
  <2>. QED
    BY <2>2, <2>3, <2>4 DEF Budget
<1>2. OpenInv /\ OpenInv' /\ Budget /\ [OpenNext]_allVars => Budget'
  BY NextBudget
<1>3. OpenInv /\ Budget => FourPerCall
  <2>. SUFFICES ASSUME OpenInv, Budget, NEW n \in Nodes
                PROVE  open[n] <= 4 * Cardinality(CallsMade)
    BY DEF FourPerCall
  <2>1. CallsMade = Units(calls, MaxCalls)
    BY DEF CallsMade, Units
  <2>2. /\ open[n] \in Nat /\ Len(backlog[n]) \in Nat
        /\ Cardinality(Units(Lefts, 3)) \in Nat
        /\ Cardinality(Units(calls, MaxCalls)) \in Nat
    BY UnitsFinite, ProcsAssumption
    DEF OpenInv, LinearInv, IInv, Protocol, TypeOK, OpenTypeOK, Procs
  <2>3. open[n] + Len(backlog[n]) + Cardinality(Units(Lefts, 3))
          <= 4 * Cardinality(Units(calls, MaxCalls))
    BY DEF Budget
  <2>. QED
    BY <2>1, <2>2, <2>3
<1>. QED
  BY <1>1, <1>2, <1>3, OpenHolds, PTL DEF OpenSpec
=============================================================================

-------------------------- MODULE DiscoveryProofs ---------------------------
(***************************************************************************)
(* StartupInv is an invariant of Discovery for any number of storage       *)
(* nodes, clients, sessions, calls and kills.                              *)
(***************************************************************************)
EXTENDS Discovery, TLAPS

LEMMA ConstantFacts ==
  /\ Nodes \subseteq Procs /\ Clients \subseteq Procs
  /\ Nodes \subseteq Servers /\ Mgr \in Servers /\ Mgr \notin Procs
  /\ Mgr \notin Nodes /\ Mgr # None /\ None \notin Servers
  /\ None \notin Procs /\ None \notin Seq(Names) /\ Nodes \subseteq Names
  /\ \A c \in Clients : c \notin Nodes
  /\ NodeList \in Seq(Nodes) /\ NodeList # <<>>
  /\ NodeList \in Seq(Names) /\ NodeList # None
  /\ \A k \in Keys : Owner[k] \in Nodes
  /\ \A n \in Nodes : Readings(n) \subseteq Names
BY ProcessAssumption, ListAssumption DEF Procs, Servers, Names, Readings

(* Lists of names a message may carry.                                     *)
LEMMA MessageFacts ==
  /\ \A n \in Names : <<n>> \in Seq(Names) /\ <<n>> # None /\ <<n>>[1] = n
  /\ <<>> \in Seq(Names) /\ <<>> # None
<1>1. /\ \A n \in Names : <<n>> \in Seq(Names) /\ <<n>>[1] = n
      /\ <<>> \in Seq(Names)
  OBVIOUS
<1>2. None \notin Seq(Names)
  BY ConstantFacts
<1>. QED
  BY <1>1, <1>2

-----------------------------------------------------------------------------
(* Accept queues.                                                          *)

LEMMA AppendQueue ==
  ASSUME NEW q \in Seq(Connection), NEW m \in Connection
  PROVE  /\ \A p : Queues(Append(q, m), p) <=> Queues(q, p) \/ m.from = p
         /\ Once(q) /\ ~Queues(q, m.from) => Once(Append(q, m))
         /\ \A i \in 1 .. Len(Append(q, m)) :
              \/ Append(q, m)[i] = m
              \/ \E j \in 1 .. Len(q) : Append(q, m)[i] = q[j]
<1>1. /\ Len(Append(q, m)) = Len(q) + 1 /\ Len(q) \in Nat
      /\ \A i \in 1 .. Len(q) : Append(q, m)[i] = q[i]
      /\ Append(q, m)[Len(q) + 1] = m
  OBVIOUS
<1>. QED
  BY <1>1 DEF Queues, Once

LEMMA TailQueue ==
  ASSUME NEW q \in Seq(Connection), q # <<>>, Once(q)
  PROVE  /\ Once(Tail(q))
         /\ Queues(q, Head(q).from) /\ ~Queues(Tail(q), Head(q).from)
         /\ \A p : p # Head(q).from => (Queues(Tail(q), p) <=> Queues(q, p))
         /\ \A i \in 1 .. Len(Tail(q)) :
              \E j \in 1 .. Len(q) : Tail(q)[i] = q[j]
<1>1. /\ Len(Tail(q)) = Len(q) - 1 /\ Len(q) \in Nat \ {0} /\ Head(q) = q[1]
      /\ \A i \in 1 .. Len(q) - 1 : Tail(q)[i] = q[i + 1]
  OBVIOUS
<1>2. \A i \in 1 .. Len(q) : i = 1 \/ (i - 1 \in 1 .. Len(q) - 1 /\ q[i] = Tail(q)[i - 1])
  BY <1>1
<1>3. \A i \in 1 .. Len(q) - 1 : i + 1 \in 1 .. Len(q) /\ i + 1 # 1
  BY <1>1
<1>4. Once(Tail(q))
  BY <1>1, <1>3 DEF Once
<1>5. ~Queues(Tail(q), q[1].from)
  BY <1>1, <1>3 DEF Once, Queues
<1>6. \A p : p # q[1].from => (Queues(Tail(q), p) <=> Queues(q, p))
  BY <1>1, <1>2, <1>3 DEF Queues
<1>. QED
  BY <1>1, <1>3, <1>4, <1>5, <1>6 DEF Queues

(* A request joins a queue in which its sender has none.                   *)
LEMMA EnqueueEffect ==
  ASSUME TypeOK, NEW s \in Servers, NEW m \in Connection,
         backlog' = [backlog EXCEPT ![s] = Append(@, m)], ~Queues(backlog[s], m.from)
  PROVE  /\ backlog' \in [Servers -> Seq(Connection)]
         /\ \A t \in Servers \ {s} : backlog'[t] = backlog[t]
         /\ \A x : Queues(backlog'[s], x) <=> Queues(backlog[s], x) \/ x = m.from
         /\ Once(backlog[s]) => Once(backlog'[s])
         /\ \A i \in 1 .. Len(backlog'[s]) :
              \/ backlog'[s][i] = m
              \/ \E j \in 1 .. Len(backlog[s]) : backlog'[s][i] = backlog[s][j]
<1>1. backlog[s] \in Seq(Connection)
  BY DEF TypeOK
<1>2. backlog' = [backlog EXCEPT ![s] = Append(backlog[s], m)]
  OBVIOUS
<1>3. /\ backlog'[s] = Append(backlog[s], m)
      /\ \A t \in Servers \ {s} : backlog'[t] = backlog[t]
      /\ Append(backlog[s], m) \in Seq(Connection)
      /\ backlog' \in [Servers -> Seq(Connection)]
  BY <1>1, <1>2 DEF TypeOK
<1>4. /\ \A x : Queues(Append(backlog[s], m), x)
                  <=> Queues(backlog[s], x) \/ m.from = x
      /\ Once(backlog[s]) => Once(Append(backlog[s], m))
      /\ \A i \in 1 .. Len(Append(backlog[s], m)) :
           \/ Append(backlog[s], m)[i] = m
           \/ \E j \in 1 .. Len(backlog[s]) :
                Append(backlog[s], m)[i] = backlog[s][j]
  BY <1>1, AppendQueue
<1>. QED
  BY <1>3, <1>4

(* The head of a queue leaves it.                                          *)
LEMMA DequeueEffect ==
  ASSUME TypeOK, NEW s \in Servers, backlog[s] # <<>>, Once(backlog[s]),
         backlog' = [backlog EXCEPT ![s] = Tail(@)]
  PROVE  /\ backlog' \in [Servers -> Seq(Connection)]
         /\ \A t \in Servers \ {s} : backlog'[t] = backlog[t]
         /\ Head(backlog[s]) \in Connection
         /\ Head(backlog[s]) = backlog[s][1] /\ 1 \in 1 .. Len(backlog[s])
         /\ Queues(backlog[s], Head(backlog[s]).from)
         /\ ~Queues(backlog'[s], Head(backlog[s]).from)
         /\ \A x : x # Head(backlog[s]).from
                     => (Queues(backlog'[s], x) <=> Queues(backlog[s], x))
         /\ Once(backlog'[s])
         /\ \A i \in 1 .. Len(backlog'[s]) :
              \E j \in 1 .. Len(backlog[s]) : backlog'[s][i] = backlog[s][j]
<1>1. backlog[s] \in Seq(Connection)
  BY DEF TypeOK
<1>2. /\ backlog'[s] = Tail(backlog[s])
      /\ \A t \in Servers \ {s} : backlog'[t] = backlog[t]
      /\ backlog' = [backlog EXCEPT ![s] = Tail(backlog[s])]
  BY DEF TypeOK
<1>3. /\ Tail(backlog[s]) \in Seq(Connection) /\ Head(backlog[s]) \in Connection
      /\ Head(backlog[s]) = backlog[s][1] /\ 1 \in 1 .. Len(backlog[s])
  BY <1>1
<1>4. backlog' \in [Servers -> Seq(Connection)]
  BY <1>2, <1>3 DEF TypeOK
<1>. QED
  BY <1>1, <1>2, <1>3, <1>4, TailQueue

LEMMA QueuedConnection ==
  ASSUME TypeOK, NEW s \in Servers, NEW i \in 1 .. Len(backlog[s])
  PROVE  /\ backlog[s][i] \in Connection /\ backlog[s][i].from \in Procs
         /\ Queues(backlog[s], backlog[s][i].from)
<1>. DEFINE q == backlog[s]
<1>1. q \in Seq(Connection)
  BY DEF TypeOK
<1>. HIDE DEF q
<1>2. q[i] \in Connection
  BY <1>1 DEF q
<1>. QED
  BY <1>2 DEF Connection, Queues, q

(* A node's queue holds the lookups and requests clients wait for.         *)
LEMMA QueuedRequest ==
  ASSUME TypeOK, RolesOK, NEW n \in Nodes, QueueOK(n), NEW i \in 1 .. Len(backlog[n])
  PROVE  LET m == backlog[n][i]
         IN  /\ m.from \in Clients /\ m.type = pc[m.from]
             /\ pc[m.from] \in {"lookup", "request"}
             /\ m.key \in Keys /\ m.key = call[m.from].key
<1>1. backlog[n][i] \in Connection /\ ConnectionOK(backlog[n][i])
  BY QueuedConnection, ConstantFacts DEF QueueOK
<1>2. backlog[n][i].from \in Clients
      /\ pc[backlog[n][i].from] \in {"lookup", "request"}
  BY <1>1, ConstantFacts DEF ConnectionOK, Connection, RolesOK
<1>. QED
  BY <1>1, <1>2 DEF ConnectionOK, RolesOK, TypeOK

LEMMA HeadQueued ==
  ASSUME TypeOK, NEW s \in Servers, backlog[s] # <<>>
  PROVE  Queues(backlog[s], Head(backlog[s]).from)
<1>1. backlog[s] \in Seq(Connection)
  BY DEF TypeOK
<1>2. 1 \in 1 .. Len(backlog[s]) /\ Head(backlog[s]) = backlog[s][1]
  BY <1>1
<1>. QED
  BY <1>2 DEF Queues

LEMMA HeadRequest ==
  ASSUME TypeOK, RolesOK, NEW n \in Nodes, QueueOK(n), backlog[n] # <<>>
  PROVE  LET m == Head(backlog[n])
         IN  /\ m.from \in Clients /\ m.type = pc[m.from]
             /\ pc[m.from] \in {"lookup", "request"}
             /\ m.key \in Keys /\ m.key = call[m.from].key
<1>1. backlog[n] \in Seq(Connection)
  BY ConstantFacts DEF TypeOK
<1>2. 1 \in 1 .. Len(backlog[n]) /\ Head(backlog[n]) = backlog[n][1]
  BY <1>1
<1>. QED
  BY <1>2, QueuedRequest

-----------------------------------------------------------------------------
(* Type correctness.  What is sent is a list of names, and the name a      *)
(* client contacts is a storage node's.                                    *)

LEMMA InitTypeOK == Init => TypeOK
BY ConstantFacts, ListAssumption, BoundsAssumption
DEF Init, TypeOK, Phases

LEMMA SendBackType ==
  ASSUME TypeOK, NEW s, NEW p \in Procs, NEW m \in Seq(Names), SendBack(s, p, m)
  PROVE  /\ up' \subseteq Procs \cup {Mgr}
         /\ reply' \in [Procs -> Seq(Names) \cup {None}]
BY DEF TypeOK, SendBack, Exit

LEMMA BusyType ==
  ASSUME TypeOK, NEW s \in Servers, NEW p \in Procs \cup {None}, Busy(s, p)
  PROVE  /\ busy' \in [Servers -> Procs \cup {None}] /\ busy'[s] = p
         /\ \A t \in Servers \ {s} : busy'[t] = busy[t]
BY DEF TypeOK, Busy

LEMMA NoteType ==
  ASSUME TypeOK, NEW p \in Procs,
         \/ UNCHANGED mishaps
         \/ \E kind \in Mishaps : Note(kind, p)
         \/ \E s : NoteRefusal(p, s)
  PROVE  mishaps' \subseteq Mishaps \X Procs
BY DEF TypeOK, NoteRefusal, Note, Mishaps

LEMMA ManagerTypeOK ==
  ASSUME TypeOK, AnsweredOnce, ManagerStep
  PROVE  TypeOK'
<1>1. CASE ManagerListen
  BY <1>1, ConstantFacts DEF ManagerListen, TypeOK
<1>2. CASE ReceiveMessage
  <2>1. Mgr \in Servers /\ backlog[Mgr] # <<>> /\ Once(backlog[Mgr])
        /\ backlog' = [backlog EXCEPT ![Mgr] = Tail(@)]
    BY <1>2, ConstantFacts DEF ReceiveMessage, AnsweredOnce
  <2>2. Head(backlog[Mgr]).from \in Procs /\ backlog' \in [Servers -> Seq(Connection)]
    BY <2>1, DequeueEffect DEF Connection
  <2>3. busy' \in [Servers -> Procs \cup {None}]
    BY <1>2, <2>1, <2>2, BusyType DEF ReceiveMessage
  <2>. QED
    BY <1>2, <2>2, <2>3 DEF ReceiveMessage, TypeOK
<1>3. CASE RequestHandler
  <2>1. busy[Mgr] \in Procs
    BY <1>3, ConstantFacts DEF RequestHandler, TypeOK
  <2>2. up' \subseteq Procs \cup {Mgr} /\ reply' \in [Procs -> Seq(Names) \cup {None}]
    BY <1>3, <2>1, ConstantFacts, SendBackType DEF RequestHandler, SendList
  <2>3. busy' \in [Servers -> Procs \cup {None}]
    BY <1>3, BusyType, ConstantFacts DEF RequestHandler, AcceptNext
  <2>. QED
    BY <1>3, <2>2, <2>3 DEF RequestHandler, TypeOK
<1>. QED
  BY <1>1, <1>2, <1>3 DEF ManagerStep

(* A storage node blocked in its fan-out answers after all.                *)
LEMMA UnblockTypeOK ==
  ASSUME TypeOK, NEW n \in Nodes, Unblock(n)
  PROVE  TypeOK'
<1>1. n \in Servers /\ busy[n] \in Procs
  BY ConstantFacts DEF Unblock, TypeOK
<1>2. up' \subseteq Procs \cup {Mgr} /\ reply' \in [Procs -> Seq(Names) \cup {None}]
  BY <1>1, MessageFacts, SendBackType DEF Unblock
<1>3. busy' \in [Servers -> Procs \cup {None}]
  BY <1>1, BusyType DEF Unblock
<1>. QED
  BY <1>2, <1>3 DEF Unblock, TypeOK

LEMMA EnqueueType ==
  ASSUME TypeOK, NEW p \in Procs, NEW s \in Servers,
         NEW type \in {"list", "lookup", "request"}, NEW k \in Keys \cup {None},
         Enqueue(p, s, type, k)
  PROVE  backlog' \in [Servers -> Seq(Connection)]
<1>1. [from |-> p, type |-> type, key |-> k] \in Connection
  BY DEF Connection
<1>. QED
  BY <1>1 DEF TypeOK, Enqueue

LEMMA AskManagerTypeOK ==
  ASSUME TypeOK, NEW p \in Procs, AskManager(p)
  PROVE  TypeOK'
<1>1. sessions' \in [Clients -> 0 .. MaxSessions]
  BY BoundsAssumption DEF AskManager, MayInit, CountSession, TypeOK
<1>2. /\ backlog' \in [Servers -> Seq(Connection)]
      /\ pc' \in [Procs -> Phases]
  BY EnqueueType, ConstantFacts DEF AskManager, TypeOK, Step, AfterInit, Phases
<1>3. mishaps' \subseteq Mishaps \X Procs
  BY NoteType DEF AskManager
<1>. QED
  BY <1>1, <1>2, <1>3 DEF AskManager, TypeOK

LEMMA PeerFacts ==
  ASSUME TypeOK, NEW c \in Procs
  PROVE  Peers(c) \subseteq Nodes
<1>1. known[c] \in {<<>>, NodeList}
  BY DEF TypeOK
<1>2. <<>> \in Seq(Nodes)
  OBVIOUS
<1>3. \A list \in Seq(Nodes) : {list[i] : i \in 1 .. Len(list)} \subseteq Nodes
  OBVIOUS
<1>. QED
  BY <1>1, <1>2, <1>3, ConstantFacts DEF Peers

LEMMA LocateTypeOK ==
  ASSUME TypeOK, NEW c \in Clients, NEW k \in Keys, Locate(c, k)
  PROVE  TypeOK'
<1>1. calls' \in [Clients -> 0 .. MaxCalls]
  BY BoundsAssumption DEF Locate, TypeOK
<1>2. PICK t \in Peers(c) :
       \/ /\ Enqueue(c, t, "lookup", k)
          /\ Step(c, "lookup")
          /\ call' = [call EXCEPT ![c] = [key |-> k, peer |-> t]]
          /\ UNCHANGED mishaps
       \/ NoteRefusal(c, t) /\ UNCHANGED <<backlog, pc, call>>
  BY DEF Locate
<1>3. t \in Nodes /\ c \in Procs
  BY PeerFacts, ConstantFacts
<1>4. backlog' \in [Servers -> Seq(Connection)]
  BY <1>2, <1>3, EnqueueType, ConstantFacts DEF TypeOK
<1>5. pc' \in [Procs -> Phases] /\ mishaps' \subseteq Mishaps \X Procs
  BY <1>2, <1>3, NoteType DEF TypeOK, Step, Phases
<1>6. [key |-> k, peer |-> t] \in [key : Keys, peer : Nodes]
  BY <1>3
<1>7. call' \in [Clients -> [key : Keys, peer : Nodes] \cup {None}]
  BY <1>2, <1>6 DEF TypeOK
<1>. QED
  BY <1>1, <1>4, <1>5, <1>7 DEF Locate, TypeOK

LEMMA ContactTypeOK ==
  ASSUME TypeOK, RolesOK, NEW c \in Clients, Contact(c)
  PROVE  TypeOK'
<1>. DEFINE name == reply[c][1]
<1>1. c \in Procs /\ call[c] \in [key : Keys, peer : Nodes]
  BY ConstantFacts DEF Contact, RolesOK, TypeOK
<1>2. CASE /\ name \in Nodes /\ Connectable(name)
           /\ Enqueue(c, name, "request", call[c].key)
           /\ Take(c)
           /\ Step(c, "request")
           /\ call' = [call EXCEPT ![c].peer = name]
           /\ UNCHANGED <<up, mishaps>>
  <2>1. backlog' \in [Servers -> Seq(Connection)]
    BY <1>1, <1>2, EnqueueType, ConstantFacts
  <2>2. /\ pc' \in [Procs -> Phases]
        /\ reply' \in [Procs -> Seq(Names) \cup {None}]
        /\ call' \in [Clients -> [key : Keys, peer : Nodes] \cup {None}]
    BY <1>1, <1>2 DEF TypeOK, Step, Take, Phases
  <2>. QED
    BY <1>2, <2>1, <2>2 DEF Contact, TypeOK
<1>3. CASE /\ IF name \in Nodes THEN NoteRefusal(c, name) ELSE UNCHANGED mishaps
           /\ Exit(c)
           /\ UNCHANGED <<backlog, reply, pc, call>>
  <2>1. mishaps' \subseteq Mishaps \X Procs
    BY <1>1, <1>3, NoteType
  <2>. QED
    BY <1>3, <2>1 DEF Contact, TypeOK, Exit
<1>. QED
  BY <1>2, <1>3 DEF Contact

LEMMA NodeServesTypeOK ==
  ASSUME TypeOK, AnsweredOnce, NEW n \in Nodes, ClientCoordinator(n) \/ ClientHandler(n),
         \A i \in 1 .. Len(backlog[n]) : backlog[n][i].key \in Keys
  PROVE  TypeOK'
<1>1. n \in Servers /\ n \in up /\ backlog[n] # <<>> /\ Once(backlog[n])
      /\ backlog' = [backlog EXCEPT ![n] = Tail(@)]
  BY ConstantFacts DEF ClientCoordinator, ClientHandler, Accepts, AnsweredOnce
<1>2. /\ backlog' \in [Servers -> Seq(Connection)]
      /\ Head(backlog[n]).from \in Procs /\ Head(backlog[n]).key \in Keys
  BY <1>1, DequeueEffect DEF Connection
<1>3. /\ <<Nobody>> \in Seq(Names) /\ <<>> \in Seq(Names)
      /\ \A k \in Keys : \A name \in Readings(FoundName(n, k)) : <<name>> \in Seq(Names)
      /\ n \in Procs
  BY MessageFacts, ConstantFacts, ListAssumption DEF Names, FoundName
<1>4. CASE ClientCoordinator(n)
  <2>1. /\ up' \subseteq Procs \cup {Mgr}
        /\ reply' \in [Procs -> Seq(Names) \cup {None}]
    BY <1>2, <1>3, <1>4, SendBackType DEF ClientCoordinator, TypeOK, Exit
  <2>2. mishaps' \subseteq Mishaps \X Procs
    BY <1>2, <1>4, NoteType DEF ClientCoordinator, Mishaps
  <2>. QED
    BY <1>2, <1>4, <2>1, <2>2 DEF ClientCoordinator, TypeOK
<1>5. CASE ClientHandler(n)
  <2>1. /\ up' \subseteq Procs \cup {Mgr}
        /\ reply' \in [Procs -> Seq(Names) \cup {None}]
    BY <1>2, <1>3, <1>5, SendBackType DEF ClientHandler, TypeOK, Exit
  <2>2. mishaps' \subseteq Mishaps \X Procs
    BY <1>3, <1>5, NoteType DEF ClientHandler, Mishaps
  <2>3. busy' \in [Servers -> Procs \cup {None}]
    BY <1>1, <1>2, <1>5, BusyType DEF ClientHandler, TypeOK
  <2>. QED
    BY <1>2, <1>5, <2>1, <2>2, <2>3 DEF ClientHandler, TypeOK
<1>. QED
  BY <1>4, <1>5

LEMMA OwnStepTypeOK ==
  ASSUME TypeOK, NEW p \in Procs, AnswerOK(p),
         \/ Broken(p) \/ InitStep(p) \/ (p \in Nodes /\ Listen(p))
         \/ p \in Clients /\ (LookupLost(p) \/ Return(p) \/ LocateNowhere(p) \/ Finalize(p))
  PROVE  TypeOK'
<1>1. CASE Broken(p)
  BY <1>1 DEF Broken, TypeOK, Exit
<1>2. CASE ReceiveList(p)
  <2>1. reply[p] = NodeList
    BY <1>2 DEF ReceiveList, AnswerOK
  <2>. QED
    BY <1>2, <2>1 DEF ReceiveList, TypeOK, Take, Step, AfterInit, Phases
<1>3. CASE ListLost(p)
  BY <1>3 DEF ListLost, TypeOK, Step, AfterInit, Phases
<1>4. CASE p \in Nodes /\ Listen(p)
  BY <1>4, ConstantFacts DEF Listen, TypeOK, Step, Phases
<1>5. CASE p \in Clients /\ LookupLost(p)
  BY <1>5 DEF LookupLost, TypeOK, Exit
<1>6. CASE p \in Clients /\ Return(p)
  BY <1>6 DEF Return, TypeOK, Take, Step, Phases
<1>7. CASE p \in Clients /\ LocateNowhere(p)
  <2>1. mishaps' \subseteq Mishaps \X Procs
    BY <1>7, NoteType DEF LocateNowhere, Mishaps
  <2>. QED
    BY <1>7, <2>1, BoundsAssumption DEF LocateNowhere, TypeOK, Exit
<1>8. CASE p \in Clients /\ Finalize(p)
  BY <1>8 DEF Finalize, TypeOK, Step, Phases
<1>. QED
  BY <1>1, <1>2, <1>3, <1>4, <1>5, <1>6, <1>7, <1>8 DEF InitStep

LEMMA NextTypeOK ==
  ASSUME StartupInv, [Next]_vars
  PROVE  TypeOK'
<1>. USE DEF StartupInv
<1>1. CASE UNCHANGED vars
  BY <1>1 DEF vars, TypeOK
<1>2. CASE ManagerStep
  BY <1>2, ManagerTypeOK
<1>3. ASSUME NEW p \in Procs, AskManager(p)
      PROVE  TypeOK'
  BY <1>3, AskManagerTypeOK
<1>4. ASSUME NEW p \in Procs, Broken(p) \/ InitStep(p)
      PROVE  TypeOK'
  BY <1>4, OwnStepTypeOK
<1>5. ASSUME NEW n \in Nodes, NodeStep(n) \/ Unblock(n)
      PROVE  TypeOK'
  <2>1. n \in Procs
    BY ConstantFacts
  <2>2. CASE InitStep(n) \/ Listen(n)
    BY <2>1, <2>2, OwnStepTypeOK
  <2>3. CASE ClientCoordinator(n) \/ ClientHandler(n)
    <3>1. n \in Servers /\ QueueOK(n)
      BY <2>3, ConstantFacts DEF ClientCoordinator, ClientHandler, Accepts
    <3>2. \A i \in 1 .. Len(backlog[n]) : backlog[n][i].key \in Keys
      BY <3>1, QueuedRequest
    <3>. QED
      BY <2>3, <3>2, NodeServesTypeOK
  <2>. QED
    BY <1>5, <2>2, <2>3, UnblockTypeOK DEF NodeStep
<1>6. ASSUME NEW c \in Clients, ClientStep(c) \/ ClientCall(c)
      PROVE  TypeOK'
  <2>1. c \in Procs
    BY ConstantFacts
  <2>2. CASE InitStep(c) \/ LookupLost(c) \/ Return(c) \/ LocateNowhere(c) \/ Finalize(c)
    BY <2>1, <2>2, OwnStepTypeOK
  <2>3. CASE Contact(c)
    BY <2>3, ContactTypeOK
  <2>4. ASSUME NEW k \in Keys, Locate(c, k)
        PROVE  TypeOK'
    BY <2>4, LocateTypeOK
  <2>. QED
    BY <1>6, <2>2, <2>3, <2>4 DEF ClientStep, ClientCall
<1>7. ASSUME NEW p \in Procs \cup {Mgr}, Kill(p)
      PROVE  TypeOK'
  BY <1>7, BoundsAssumption DEF Kill, TypeOK, Exit
<1>. QED
  BY <1>1, <1>2, <1>3, <1>4, <1>5, <1>6, <1>7 DEF Next

-----------------------------------------------------------------------------
(* Who waits for whom.                                                     *)

LEMMA CalleeFacts ==
  ASSUME TypeOK, RolesOK, NEW p \in Procs
  PROVE  /\ pc[p] \notin {"waiting", "lookup", "request"} => Callee(p) = None
         /\ pc[p] = "waiting" => Callee(p) = Mgr
         /\ pc[p] \in {"lookup", "request"} =>
              /\ p \in Clients /\ call[p] \in [key : Keys, peer : Nodes]
              /\ Callee(p) = call[p].peer /\ call[p].peer \in Nodes
         /\ Callee(p) = None \/ Callee(p) \in Servers
         /\ Callee(p) = None <=> pc[p] \notin {"waiting", "lookup", "request"}
         /\ Callee(p) = Mgr <=> pc[p] = "waiting"
         /\ Callee(p) \in Nodes <=> pc[p] \in {"lookup", "request"}
<1>1. pc[p] \in {"lookup", "request"} =>
        p \in Clients /\ call[p] \in [key : Keys, peer : Nodes]
  BY DEF RolesOK, TypeOK, Procs
<1>2. call[p] \in [key : Keys, peer : Nodes] => call[p].peer \in Nodes
  OBVIOUS
<1>. QED
  BY <1>1, <1>2, ConstantFacts DEF Callee

(* A process is queued or held by the running server it waits for only.    *)
LEMMA QueuedCallee ==
  ASSUME AnsweredOnce, NEW p \in Procs, NEW s \in Servers, s \in up
  PROVE  Queues(backlog[s], p) \/ Holds(s, p) => Callee(p) = s /\ ~Answered(s, p)
BY DEF AnsweredOnce, OnePlace

(* Nothing that matters to AnsweredOnce changes, or some processes die.    *)
LEMMA SilentOnce ==
  ASSUME AnsweredOnce, up' \subseteq up, UNCHANGED <<backlog, busy, pc, reply, call>>
  PROVE  AnsweredOnce'
BY DEF AnsweredOnce, OnePlace, Callee, Queues, Once, Holds, Answered

(* p stops waiting.                                                        *)
LEMMA MoveOnce ==
  ASSUME AnsweredOnce, up' \subseteq up, UNCHANGED <<backlog, busy>>,
         NEW p \in Procs, Callee(p)' = None, reply'[p] = None,
         \A s \in Servers \cap up : ~Queues(backlog[s], p) /\ ~Holds(s, p),
         \A q \in Procs \ {p} : Callee(q)' = Callee(q) /\ reply'[q] = reply[q]
  PROVE  AnsweredOnce'
<1>1. \A q \in Procs : Callee(q)' = None => reply'[q] = None
  BY DEF AnsweredOnce
<1>2. ASSUME NEW s \in Servers, s \in up'
      PROVE  Once(backlog'[s]) /\ \A q \in Procs : OnePlace(s, q)'
  <2>1. s \in up /\ Once(backlog[s]) /\ \A q \in Procs : OnePlace(s, q)
    BY <1>2 DEF AnsweredOnce
  <2>2. s # None
    BY <1>2, ConstantFacts
  <2>3. OnePlace(s, p)'
    BY <2>1, <2>2 DEF OnePlace, Queues, Holds, Answered
  <2>4. ASSUME NEW q \in Procs \ {p}
        PROVE  OnePlace(s, q)'
    BY <2>1, <2>4 DEF OnePlace, Queues, Holds, Answered
  <2>. QED
    BY <2>1, <2>3, <2>4
<1>. QED
  BY <1>1, <1>2 DEF AnsweredOnce

(* p sends a request to the server s.                                      *)
LEMMA AskOnce ==
  ASSUME TypeOK, AnsweredOnce, UNCHANGED <<up, busy>>,
         NEW p \in Procs, NEW s \in Servers, s \in up,
         NEW m \in Connection, m.from = p,
         backlog' = [backlog EXCEPT ![s] = Append(@, m)], Callee(p)' = s, reply'[p] = None,
         \A t \in Servers \cap up : ~Queues(backlog[t], p) /\ ~Holds(t, p),
         \A q \in Procs \ {p} : Callee(q)' = Callee(q) /\ reply'[q] = reply[q]
  PROVE  AnsweredOnce'
<1>1. s # None
  BY ConstantFacts
<1>2. \A q \in Procs : Callee(q)' = None => reply'[q] = None
  BY <1>1 DEF AnsweredOnce
<1>3. /\ \A t \in Servers \ {s} : backlog'[t] = backlog[t]
      /\ \A x : Queues(backlog'[s], x) <=> Queues(backlog[s], x) \/ x = p
      /\ Once(backlog[s]) => Once(backlog'[s])
  <2>1. ~Queues(backlog[s], p)
    OBVIOUS
  <2>. QED
    BY <2>1, EnqueueEffect, ZenonT(60)
<1>4. ASSUME NEW t \in Servers, t \in up'
      PROVE  Once(backlog'[t]) /\ \A q \in Procs : OnePlace(t, q)'
  <2>1. t \in up /\ Once(backlog[t]) /\ \A q \in Procs : OnePlace(t, q)
    BY <1>4 DEF AnsweredOnce
  <2>2. OnePlace(t, p)'
    BY <1>3, <2>1 DEF OnePlace, Holds, Answered
  <2>3. ASSUME NEW q \in Procs \ {p}
        PROVE  OnePlace(t, q)'
    BY <1>3, <2>1, <2>3 DEF OnePlace, Holds, Answered
  <2>. QED
    BY <1>3, <2>1, <2>2, <2>3
<1>. QED
  BY <1>2, <1>4 DEF AnsweredOnce

(* A server answers the request in its hands, or dies of it.               *)
LEMMA AnswerHeldOnce ==
  ASSUME TypeOK, AnsweredOnce, NEW s \in Servers, s \in up, busy[s] # None,
         Busy(s, None), UNCHANGED <<backlog, pc, call>>,
         NEW m, m # None, SendBack(s, busy[s], m)
  PROVE  AnsweredOnce'
<1>1. PICK p \in Procs : p = busy[s]
  BY DEF TypeOK
<1>2. /\ \A q : Callee(q)' = Callee(q)
      /\ \A q \in Procs : Holds(s, q) <=> q = p
      /\ \A q \in Procs : ~Holds(s, q)'
      /\ \A t \in Servers \ {s} : \A q : Holds(t, q)' <=> Holds(t, q)
  BY <1>1, BusyType, ConstantFacts DEF Callee, Holds
<1>3. Callee(p) = s /\ s # None
  BY <1>1, QueuedCallee, ConstantFacts DEF Holds
<1>4. CASE Exit(s) /\ UNCHANGED reply
  <2>1. ASSUME NEW t \in Servers, t \in up'
        PROVE  Once(backlog'[t]) /\ \A q \in Procs : OnePlace(t, q)'
    <3>1. t \in up /\ t # s
      BY <1>4, <2>1 DEF Exit
    <3>. QED
      BY <1>2, <1>4, <3>1 DEF AnsweredOnce, OnePlace, Answered
  <2>. QED
    BY <1>2, <1>4, <2>1 DEF AnsweredOnce
<1>5. CASE reply' = [reply EXCEPT ![p] = m] /\ UNCHANGED up
  <2>1. reply'[p] = m /\ \A q \in Procs \ {p} : reply'[q] = reply[q]
    BY <1>5 DEF TypeOK
  <2>2. ASSUME NEW t \in Servers, t \in up'
        PROVE  Once(backlog'[t]) /\ \A q \in Procs : OnePlace(t, q)'
    <3>1. t \in up /\ Once(backlog[t]) /\ \A q \in Procs : OnePlace(t, q)
      BY <1>5, <2>2 DEF AnsweredOnce
    <3>2. OnePlace(t, p)'
      BY <1>2, <1>3, <2>1, <3>1 DEF OnePlace, Answered
    <3>3. ASSUME NEW q \in Procs \ {p}
          PROVE  OnePlace(t, q)'
      BY <1>2, <2>1, <3>1, <3>3 DEF OnePlace, Answered
    <3>. QED
      BY <3>1, <3>2, <3>3
  <2>. QED
    BY <1>2, <1>3, <2>1, <2>2 DEF AnsweredOnce
<1>. QED
  BY <1>1, <1>4, <1>5 DEF SendBack

(* A server takes a request from its queue and answers it, keeps it in its *)
(* hands or dies.                                                          *)
LEMMA ServeOnce ==
  ASSUME TypeOK, AnsweredOnce, NEW n \in Servers, n \in up, backlog[n] # <<>>,
         backlog' = [backlog EXCEPT ![n] = Tail(@)], UNCHANGED <<pc, call>>,
         busy[n] = None, NEW m, m # None,
         \/ SendBack(n, Head(backlog[n]).from, m) /\ UNCHANGED busy
         \/ Exit(n) /\ UNCHANGED <<reply, busy>>
         \/ Busy(n, Head(backlog[n]).from) /\ UNCHANGED <<up, reply>>
  PROVE  AnsweredOnce'
<1>1. Once(backlog[n]) /\ n # None
  BY ConstantFacts DEF AnsweredOnce
<1>0. PICK p \in Procs : p = Head(backlog[n]).from
  BY <1>1, DequeueEffect DEF Connection
<1>2. /\ Queues(backlog[n], p) /\ ~Queues(backlog'[n], p)
      /\ \A x : x # p => (Queues(backlog'[n], x) <=> Queues(backlog[n], x))
      /\ Once(backlog'[n])
      /\ \A t \in Servers \ {n} : backlog'[t] = backlog[t]
  BY <1>0, <1>1, DequeueEffect
<1>3. \A q : Callee(q)' = Callee(q)
  BY DEF Callee
<1>4. /\ Callee(p) = n /\ Callee(p) # None /\ \A t \in Servers : Callee(p) = t => t = n
      /\ \A q \in Procs : ~Holds(n, q)
  BY <1>1, <1>2, QueuedCallee, ConstantFacts DEF Holds
<1>5. CASE Exit(n) /\ UNCHANGED <<reply, busy>>
  <2>1. ASSUME NEW t \in Servers, t \in up'
        PROVE  Once(backlog'[t]) /\ \A q \in Procs : OnePlace(t, q)'
    <3>1. t \in up /\ t # n
      BY <1>5, <2>1 DEF Exit
    <3>2. backlog'[t] = backlog[t]
      BY <1>2, <3>1
    <3>3. Once(backlog'[t])
      BY <3>1, <3>2 DEF AnsweredOnce
    <3>4. ASSUME NEW q \in Procs
          PROVE  OnePlace(t, q)'
      BY <1>3, <1>5, <3>1, <3>2 DEF AnsweredOnce, OnePlace, Holds, Answered
    <3>. QED
      BY <3>3, <3>4
  <2>. QED
    BY <1>3, <1>5, <2>1 DEF AnsweredOnce
<1>6. ASSUME UNCHANGED up, \A q \in Procs \ {p} : reply'[q] = reply[q],
             \A t \in Servers \ {n} : busy'[t] = busy[t],
             \A q \in Procs \ {p} : ~Holds(n, q)',
             reply'[p] # None <=> ~Holds(n, p)'
      PROVE  AnsweredOnce'
  <2>1. \A q \in Procs : Callee(q)' = None => reply'[q] = None
    BY <1>3, <1>4, <1>6 DEF AnsweredOnce
  <2>2. ASSUME NEW t \in Servers, t \in up'
        PROVE  Once(backlog'[t]) /\ \A q \in Procs : OnePlace(t, q)'
    <3>1. t \in up /\ Once(backlog[t]) /\ \A q \in Procs : OnePlace(t, q)
      BY <1>6, <2>2 DEF AnsweredOnce
    <3>2. t # n => backlog'[t] = backlog[t] /\ \A q : Holds(t, q)' <=> Holds(t, q)
      BY <1>2, <1>6 DEF Holds
    <3>3. OnePlace(t, p)'
      BY <1>2, <1>3, <1>4, <1>6, <3>1, <3>2 DEF OnePlace, Answered
    <3>4. ASSUME NEW q \in Procs \ {p}
          PROVE  OnePlace(t, q)'
      BY <1>2, <1>3, <1>4, <1>6, <3>1, <3>2, <3>4 DEF OnePlace, Answered
    <3>5. Once(backlog'[t])
      BY <1>2, <3>1, <3>2
    <3>. QED
      BY <3>3, <3>4, <3>5
  <2>. QED
    BY <2>1, <2>2 DEF AnsweredOnce
<1>7. CASE reply' = [reply EXCEPT ![p] = m] /\ UNCHANGED <<up, busy>>
  <2>1. reply'[p] = m /\ \A q \in Procs \ {p} : reply'[q] = reply[q]
    BY <1>7 DEF TypeOK
  <2>. QED
    BY <1>4, <1>6, <1>7, <2>1 DEF Holds
<1>8. CASE Busy(n, p) /\ UNCHANGED <<up, reply>>
  <2>1. busy'[n] = p /\ \A t \in Servers \ {n} : busy'[t] = busy[t]
    BY <1>8, BusyType
  <2>2. n \in up /\ reply[p] = None
    BY <1>2, <1>4, QueuedCallee DEF Answered
  <2>. QED
    BY <1>6, <1>8, <2>1, <2>2 DEF Holds
<1>. QED
  BY <1>0, <1>5, <1>7, <1>8 DEF SendBack

(* Whoever waits for nobody, has an answer or lost its server is in no     *)
(* running server's hands.                                                 *)
LEMMA NotServed ==
  ASSUME AnsweredOnce, NEW p \in Procs,
         Callee(p) = None \/ reply[p] # None \/ Callee(p) \notin up
  PROVE  /\ \A s \in Servers \cap up : ~Queues(backlog[s], p) /\ ~Holds(s, p)
         /\ Callee(p) = None => reply[p] = None
BY QueuedCallee, ConstantFacts DEF AnsweredOnce, Answered

LEMMA SameCallee ==
  ASSUME TypeOK, RolesOK, NEW p \in Procs,
         pc'[p] = pc[p], p \in Clients => call'[p] = call[p]
  PROVE  Callee(p)' = Callee(p)
BY CalleeFacts DEF Callee

(* What init does to the requests.                                         *)
LEMMA InitOnce ==
  ASSUME TypeOK, AnsweredOnce, RolesOK, NEW p \in Procs,
         AskManager(p) \/ InitStep(p)
  PROVE  AnsweredOnce'
<1>1. /\ \A q \in Procs \ {p} : pc'[q] = pc[q] /\ reply'[q] = reply[q]
      /\ UNCHANGED <<call, busy, up>>
  BY DEF AskManager, InitStep, ReceiveList, ListLost, Take, Step, TypeOK
<1>2. \A q \in Procs \ {p} : Callee(q)' = Callee(q) /\ reply'[q] = reply[q]
  BY <1>1, SameCallee
<1>3. CASE AskManager(p)
  <2>1. Callee(p) = None /\ reply' = reply
    BY <1>3, CalleeFacts DEF AskManager, MayInit
  <2>2. /\ reply'[p] = None
        /\ \A s \in Servers \cap up : ~Queues(backlog[s], p) /\ ~Holds(s, p)
    BY <2>1, NotServed
  <2>3. CASE Connectable(Mgr) /\ Enqueue(p, Mgr, "list", None) /\ Step(p, "waiting")
    <3>. DEFINE m == [from |-> p, type |-> "list", key |-> None]
    <3>1. m \in Connection /\ m.from = p
      BY DEF Connection
    <3>2. backlog' = [backlog EXCEPT ![Mgr] = Append(@, m)] /\ Mgr \in up
      BY <2>3 DEF Enqueue, Connectable
    <3>3. Callee(p)' = Mgr
      BY <2>3 DEF Step, Callee, TypeOK
    <3>. HIDE DEF m
    <3>. QED
      BY <1>1, <1>2, <2>2, <3>1, <3>2, <3>3, AskOnce, ConstantFacts
  <2>4. CASE Step(p, AfterInit(p)) /\ UNCHANGED backlog
    <3>1. Callee(p)' = None
      BY <2>4 DEF Step, AfterInit, Callee, TypeOK
    <3>. QED
      BY <1>1, <1>2, <2>2, <2>4, <3>1, MoveOnce
  <2>. QED
    BY <1>3, <2>3, <2>4 DEF AskManager
<1>4. CASE InitStep(p)
  <2>1. /\ Callee(p) = Mgr /\ (reply[p] # None \/ Callee(p) \notin up)
        /\ reply'[p] = None /\ UNCHANGED backlog
    BY <1>4, CalleeFacts DEF InitStep, ReceiveList, ListLost, Take, TypeOK
  <2>2. Callee(p)' = None
    BY <1>4 DEF InitStep, ReceiveList, ListLost, Step, AfterInit, Callee, TypeOK
  <2>. QED
    BY <1>1, <1>2, <2>1, <2>2, NotServed, MoveOnce
<1>. QED
  BY <1>3, <1>4

LEMMA ListenOnce ==
  ASSUME TypeOK, AnsweredOnce, RolesOK, NEW n \in Nodes, Listen(n)
  PROVE  AnsweredOnce'
<1>1. n \in Procs /\ UNCHANGED <<backlog, busy, call, reply, up>>
  BY ConstantFacts DEF Listen
<1>2. \A q \in Procs \ {n} : pc'[q] = pc[q]
  BY DEF Listen, Step, TypeOK
<1>3. \A q \in Procs \ {n} : Callee(q)' = Callee(q) /\ reply'[q] = reply[q]
  BY <1>1, <1>2, SameCallee
<1>4. Callee(n) = None /\ Callee(n)' = None
  BY <1>1, CalleeFacts DEF Listen, Step, Callee, TypeOK
<1>. QED
  BY <1>1, <1>3, <1>4, NotServed, MoveOnce

(* What a client's calls do to the requests.                               *)
LEMMA ClientOnce ==
  ASSUME TypeOK, AnsweredOnce, RolesOK, NEW c \in Clients,
         Contact(c) \/ Return(c) \/ Finalize(c) \/ \E k \in Keys : Locate(c, k)
  PROVE  AnsweredOnce'
<1>1. c \in Procs
  BY ConstantFacts
<1>2. /\ \A q \in Procs \ {c} : /\ pc'[q] = pc[q] /\ reply'[q] = reply[q]
                                /\ q \in Clients => call'[q] = call[q]
      /\ UNCHANGED busy /\ up' \subseteq up
  BY <1>1 DEF Contact, Return, Finalize, Locate, Take, Step, Exit, TypeOK
<1>3. \A q \in Procs \ {c} : Callee(q)' = Callee(q) /\ reply'[q] = reply[q]
  BY <1>2, SameCallee
<1>4. CASE Contact(c)
  <2>. DEFINE name == reply[c][1]
  <2>1. \A s \in Servers \cap up : ~Queues(backlog[s], c) /\ ~Holds(s, c)
    BY <1>1, <1>4, NotServed DEF Contact
  <2>2. CASE UNCHANGED <<backlog, reply, pc, call>>
    BY <1>2, <1>4, <2>2, SilentOnce DEF Contact
  <2>3. CASE /\ name \in Nodes /\ Connectable(name)
             /\ Enqueue(c, name, "request", call[c].key)
             /\ Take(c) /\ Step(c, "request")
             /\ call' = [call EXCEPT ![c].peer = name]
             /\ UNCHANGED up
    <3>1. PICK t \in Nodes : t = name
      BY <2>3
    <3>. DEFINE m == [from |-> c, type |-> "request", key |-> call[c].key]
    <3>2. call[c] \in [key : Keys, peer : Nodes]
      BY <1>1, <1>4, CalleeFacts DEF Contact
    <3>3. m \in Connection /\ m.from = c
      BY <1>1, <3>2 DEF Connection
    <3>4. backlog' = [backlog EXCEPT ![t] = Append(@, m)] /\ t \in up /\ t \in Servers
      BY <2>3, <3>1, ConstantFacts DEF Enqueue, Connectable
    <3>5. reply'[c] = None /\ Callee(c)' = t
      BY <1>1, <2>3, <3>1, <3>2 DEF Take, Step, Callee, TypeOK
    <3>. HIDE DEF m
    <3>. QED
      BY <1>1, <1>2, <1>3, <2>1, <2>3, <3>3, <3>4, <3>5, AskOnce
  <2>. QED
    BY <1>4, <2>2, <2>3 DEF Contact
<1>5. CASE Return(c)
  <2>1. /\ reply[c] # None \/ Callee(c) \notin up
        /\ reply'[c] = None /\ UNCHANGED backlog
    BY <1>1, <1>5, CalleeFacts DEF Return, PeerGone, Take, TypeOK
  <2>2. Callee(c)' = None
    BY <1>1, <1>5 DEF Return, Step, Callee, TypeOK
  <2>. QED
    BY <1>1, <1>2, <1>3, <2>1, <2>2, NotServed, MoveOnce
<1>6. CASE Finalize(c)
  <2>1. Callee(c) = None /\ UNCHANGED <<backlog, reply>>
    BY <1>1, <1>6, CalleeFacts DEF Finalize
  <2>2. Callee(c)' = None
    BY <1>1, <1>6 DEF Finalize, Step, Callee, TypeOK
  <2>. QED
    BY <1>1, <1>2, <1>3, <2>1, <2>2, NotServed, MoveOnce
<1>7. ASSUME NEW k \in Keys, Locate(c, k)
      PROVE  AnsweredOnce'
  <2>1. Callee(c) = None /\ reply' = reply /\ UNCHANGED up
    BY <1>1, <1>7, CalleeFacts DEF Locate
  <2>2. /\ reply'[c] = None
        /\ \A s \in Servers \cap up : ~Queues(backlog[s], c) /\ ~Holds(s, c)
    BY <1>1, <2>1, NotServed
  <2>3. CASE UNCHANGED <<backlog, pc, call>>
    BY <1>2, <2>1, <2>3, SilentOnce
  <2>4. ASSUME NEW t \in Peers(c), Connectable(t), Enqueue(c, t, "lookup", k),
               Step(c, "lookup"), call' = [call EXCEPT ![c] = [key |-> k, peer |-> t]]
        PROVE  AnsweredOnce'
    <3>. DEFINE m == [from |-> c, type |-> "lookup", key |-> k]
    <3>1. t \in Servers /\ t \in up
      BY <1>1, <2>4, PeerFacts, ConstantFacts DEF Connectable
    <3>2. m \in Connection /\ m.from = c
      BY <1>1, <1>7 DEF Connection
    <3>3. backlog' = [backlog EXCEPT ![t] = Append(@, m)]
      BY <2>4 DEF Enqueue
    <3>4. pc'[c] = "lookup" /\ call'[c] = [key |-> k, peer |-> t]
      BY <1>1, <2>4 DEF Step, TypeOK
    <3>5. Callee(c)' = t
      BY <3>4 DEF Callee
    <3>. HIDE DEF m
    <3>. QED
      BY <1>1, <1>2, <1>3, <2>1, <2>2, <3>1, <3>2, <3>3, <3>5, AskOnce
  <2>. QED
    BY <1>7, <2>3, <2>4 DEF Locate
<1>. QED
  BY <1>4, <1>5, <1>6, <1>7

(* The manager's turn of its loop.                                         *)
LEMMA ManagerOnce ==
  ASSUME TypeOK, AnsweredOnce, ManagerStep
  PROVE  AnsweredOnce'
<1>1. Mgr \in Servers /\ UNCHANGED <<pc, call>> /\ \A q : Callee(q)' = Callee(q)
  BY ConstantFacts DEF ManagerStep, ManagerListen, ReceiveMessage, RequestHandler, Callee
<1>2. CASE ManagerListen
  BY <1>2, SilentOnce DEF ManagerListen
<1>3. CASE ReceiveMessage
  BY <1>1, <1>3, ServeOnce, MessageFacts DEF ReceiveMessage
<1>4. CASE RequestHandler
  BY <1>1, <1>4, AnswerHeldOnce, ConstantFacts DEF RequestHandler, SendList, AcceptNext
<1>. QED
  BY <1>2, <1>3, <1>4 DEF ManagerStep

LEMMA NextOnce ==
  ASSUME StartupInv, [Next]_vars
  PROVE  AnsweredOnce'
<1>. USE DEF StartupInv
<1>1. CASE UNCHANGED vars
  BY <1>1, SilentOnce DEF vars
<1>2. CASE ManagerStep
  BY <1>2, ManagerOnce
<1>3. ASSUME NEW p \in Procs, AskManager(p) \/ Broken(p)
      PROVE  AnsweredOnce'
  BY <1>3, InitOnce, SilentOnce DEF Broken, Exit
<1>4. ASSUME NEW n \in Nodes, NodeStep(n) \/ Unblock(n)
      PROVE  AnsweredOnce'
  <2>1. n \in Procs
    BY ConstantFacts
  <2>2. ASSUME ClientCoordinator(n) \/ ClientHandler(n)
        PROVE  AnsweredOnce'
    <3>1. /\ n \in up /\ busy[n] = None /\ backlog[n] # <<>> /\ UNCHANGED <<pc, call>>
          /\ backlog' = [backlog EXCEPT ![n] = Tail(@)] /\ n \in Servers
      BY <2>2, ConstantFacts DEF ClientCoordinator, ClientHandler, Accepts
    <3>2. PICK m : /\ m # None
                   /\ \/ SendBack(n, Head(backlog[n]).from, m) /\ UNCHANGED busy
                      \/ Exit(n) /\ UNCHANGED <<reply, busy>>
                      \/ /\ Busy(n, Head(backlog[n]).from)
                         /\ UNCHANGED <<up, reply>>
      <4>1. CASE ClientHandler(n)
        BY <4>1, MessageFacts DEF ClientHandler
      <4>2. CASE ClientCoordinator(n)
        <5>1. Readings(Owner[Head(backlog[n]).key]) \subseteq Names
          BY <3>1, HeadRequest, ConstantFacts
        <5>. QED
          BY <4>2, <5>1, MessageFacts DEF ClientCoordinator, FoundName, Names
      <4>. QED
        BY <2>2, <4>1, <4>2
    <3>. QED
      BY <3>1, <3>2, ServeOnce
  <2>3. Unblock(n) => AnsweredOnce'
    BY AnswerHeldOnce, MessageFacts, ConstantFacts DEF Unblock
  <2>. QED
    BY <1>4, <2>1, <2>2, <2>3, InitOnce, ListenOnce DEF NodeStep
<1>5. ASSUME NEW c \in Clients, ClientStep(c) \/ ClientCall(c)
      PROVE  AnsweredOnce'
  <2>1. c \in Procs
    BY ConstantFacts
  <2>2. CASE LookupLost(c) \/ LocateNowhere(c)
    BY <2>2, SilentOnce DEF LookupLost, LocateNowhere, Exit
  <2>. QED
    BY <1>5, <2>1, <2>2, InitOnce, ClientOnce DEF ClientStep, ClientCall
<1>6. ASSUME NEW p \in Procs \cup {Mgr}, Kill(p)
      PROVE  AnsweredOnce'
  BY <1>6, SilentOnce DEF Kill, Exit
<1>. QED
  BY <1>1, <1>2, <1>3, <1>4, <1>5, <1>6 DEF Next

-----------------------------------------------------------------------------
(* Phases.                                                                 *)

LEMMA SilentPhases ==
  ASSUME RolesOK, UNCHANGED <<pc, call>>,
         listening' = listening \/ listening' = listening \cup {Mgr}
  PROVE  RolesOK'
BY ConstantFacts DEF RolesOK

(* p goes to another phase.                                                *)
LEMMA StepPhases ==
  ASSUME TypeOK, RolesOK, NEW p \in Procs, NEW phase, Step(p, phase),
         \A q \in Clients \ {p} : call'[q] = call[q],
         \A n \in Nodes \ {p} : n \in listening' <=> n \in listening,
         p \in Nodes => /\ phase \in {"idle", "waiting", "ready", "serving", "spinning"}
                        /\ p \in listening' <=> phase = "serving",
         p \in Clients =>
           /\ phase \in {"idle", "waiting", "session", "lookup", "request", "spinning"}
           /\ phase \in {"lookup", "request"} => call'[p] # None
  PROVE  RolesOK'
<1>1. pc'[p] = phase /\ \A q \in Procs \ {p} : pc'[q] = pc[q]
  BY DEF Step, TypeOK
<1>. QED
  BY <1>1, ConstantFacts DEF RolesOK

LEMMA NextPhases ==
  ASSUME StartupInv, [Next]_vars
  PROVE  RolesOK'
<1>. USE DEF StartupInv
<1>1. CASE UNCHANGED vars
  BY <1>1, SilentPhases DEF vars
<1>2. CASE ManagerStep
  BY <1>2, SilentPhases DEF ManagerStep, ManagerListen, ReceiveMessage, RequestHandler
<1>3. ASSUME NEW p \in Procs, AskManager(p)
      PROVE  RolesOK'
  <2>1. PICK phase \in {"waiting", AfterInit(p)} : Step(p, phase)
    BY <1>3 DEF AskManager
  <2>2. pc[p] = "idle" /\ UNCHANGED <<listening, call>>
    BY <1>3 DEF AskManager, MayInit
  <2>3. p \in Nodes => p \notin listening
    BY <2>2 DEF RolesOK
  <2>. QED
    BY <2>1, <2>2, <2>3, StepPhases, ConstantFacts DEF AfterInit
<1>4. ASSUME NEW p \in Procs, InitStep(p)
      PROVE  RolesOK'
  <2>1. PICK phase \in {"spinning", AfterInit(p)} : Step(p, phase)
    BY <1>4 DEF InitStep, ReceiveList, ListLost
  <2>2. pc[p] = "waiting" /\ UNCHANGED <<listening, call>>
    BY <1>4 DEF InitStep, ReceiveList, ListLost
  <2>3. p \in Nodes => p \notin listening
    BY <2>2 DEF RolesOK
  <2>. QED
    BY <2>1, <2>2, <2>3, StepPhases, ConstantFacts DEF AfterInit
<1>5. ASSUME NEW p \in Procs, Broken(p)
      PROVE  RolesOK'
  BY <1>5, SilentPhases DEF Broken, Exit
<1>6. ASSUME NEW n \in Nodes, Listen(n)
      PROVE  RolesOK'
  <2>1. /\ Step(n, "serving") /\ listening' = listening \cup {n} /\ n \in Procs
        /\ UNCHANGED call
    BY <1>6, ConstantFacts DEF Listen
  <2>2. /\ \A m \in Nodes \ {n} : m \in listening' <=> m \in listening
        /\ \A q \in Clients \ {n} : call'[q] = call[q]
        /\ n \in listening' /\ n \notin Clients
    BY <2>1, ConstantFacts
  <2>. QED
    BY <2>1, <2>2, StepPhases
<1>7. ASSUME NEW n \in Nodes, ClientCoordinator(n) \/ ClientHandler(n) \/ Unblock(n)
      PROVE  RolesOK'
  BY <1>7, SilentPhases DEF ClientCoordinator, ClientHandler, Unblock
<1>8. ASSUME NEW c \in Clients, LookupLost(c) \/ LocateNowhere(c)
      PROVE  RolesOK'
  BY <1>8, SilentPhases, ConstantFacts DEF LookupLost, LocateNowhere, Exit
<1>9. ASSUME NEW c \in Clients, Return(c) \/ Finalize(c)
      PROVE  RolesOK'
  <2>1. PICK phase \in {"session", "idle"} : Step(c, phase)
    BY <1>9 DEF Return, Finalize
  <2>2. \A q \in Clients \ {c} : call'[q] = call[q]
    BY <1>9 DEF Return, Finalize, TypeOK
  <2>3. UNCHANGED listening
    BY <1>9 DEF Return, Finalize
  <2>. QED
    BY <2>1, <2>2, <2>3, StepPhases, ConstantFacts
<1>10. ASSUME NEW c \in Clients, Contact(c)
       PROVE  RolesOK'
  <2>1. UNCHANGED listening /\ c \in Procs
    BY <1>10, ConstantFacts DEF Contact
  <2>2. CASE Exit(c) /\ UNCHANGED <<pc, call>>
    BY <2>1, <2>2, SilentPhases DEF Exit
  <2>3. ASSUME NEW t \in Nodes, call' = [call EXCEPT ![c].peer = t],
               Step(c, "request"), UNCHANGED up
        PROVE  RolesOK'
    <3>1. call[c] \in [key : Keys, peer : Nodes]
      BY <1>10, <2>1, CalleeFacts DEF Contact
    <3>2. call'[c] \in [key : Keys, peer : Nodes]
          /\ \A q \in Clients \ {c} : call'[q] = call[q]
      BY <2>3, <3>1 DEF TypeOK
    <3>3. call'[c] # None
      BY <3>2, ProcessAssumption
    <3>. QED
      BY <2>1, <2>3, <3>2, <3>3, StepPhases, ConstantFacts
  <2>. QED
    BY <1>10, <2>2, <2>3 DEF Contact
<1>11. ASSUME NEW c \in Clients, NEW k \in Keys, Locate(c, k)
       PROVE  RolesOK'
  <2>1. UNCHANGED listening /\ c \in Procs
    BY <1>11, ConstantFacts DEF Locate
  <2>2. CASE UNCHANGED <<pc, call>>
    BY <2>1, <2>2, SilentPhases
  <2>3. ASSUME NEW t \in Peers(c), Step(c, "lookup"),
               call' = [call EXCEPT ![c] = [key |-> k, peer |-> t]]
        PROVE  RolesOK'
    <3>1. [key |-> k, peer |-> t] \in [key : Keys, peer : Nodes]
      BY <2>1, <2>3, PeerFacts
    <3>2. [key |-> k, peer |-> t] # None
      BY <3>1, ProcessAssumption
    <3>3. call'[c] # None /\ \A q \in Clients \ {c} : call'[q] = call[q]
      BY <2>3, <3>2 DEF TypeOK
    <3>. QED
      BY <2>1, <2>3, <3>3, StepPhases, ConstantFacts
  <2>. QED
    BY <1>11, <2>2, <2>3 DEF Locate
<1>12. ASSUME NEW p \in Procs \cup {Mgr}, Kill(p)
       PROVE  RolesOK'
  BY <1>12, SilentPhases DEF Kill, Exit
<1>13. ASSUME NEW n \in Nodes, NodeStep(n) \/ Unblock(n)
       PROVE  RolesOK'
  BY <1>4, <1>6, <1>7, <1>13, ConstantFacts DEF NodeStep
<1>14. ASSUME NEW c \in Clients, ClientStep(c) \/ ClientCall(c)
       PROVE  RolesOK'
  BY <1>4, <1>8, <1>9, <1>10, <1>11, <1>14, ConstantFacts DEF ClientStep, ClientCall
<1>. QED
  BY <1>1, <1>2, <1>3, <1>5, <1>12, <1>13, <1>14 DEF Next

-----------------------------------------------------------------------------
(* What is queued and what is answered.                                    *)

LEMMA NextDisturbs ==
  ASSUME TypeOK, [Next]_vars
  PROVE  /\ kills \in Nat /\ kills' \in {kills, kills + 1}
         /\ mishaps \subseteq mishaps'
         /\ ~Undisturbed => ~Undisturbed'
<1>1. kills \in Nat
  BY BoundsAssumption DEF TypeOK
<1>2. \A kind, p : Note(kind, p) => mishaps \subseteq mishaps'
  BY DEF Note
<1>3. \A s, p : NoteRefusal(p, s) => mishaps \subseteq mishaps'
  BY <1>2 DEF NoteRefusal
<1>4. ManagerStep \/ UNCHANGED vars => UNCHANGED <<kills, mishaps>>
  BY DEF ManagerStep, ManagerListen, ReceiveMessage, RequestHandler, vars
<1>5. ASSUME NEW p, AskManager(p) \/ Broken(p) \/ InitStep(p)
      PROVE  UNCHANGED kills /\ mishaps \subseteq mishaps'
  BY <1>3, <1>5 DEF AskManager, Broken, InitStep, ReceiveList, ListLost
<1>6. ASSUME NEW n, Listen(n) \/ ClientCoordinator(n) \/ ClientHandler(n) \/ Unblock(n)
      PROVE  UNCHANGED kills /\ mishaps \subseteq mishaps'
  <2>1. ClientCoordinator(n) => UNCHANGED kills /\ mishaps \subseteq mishaps'
    BY <1>2 DEF ClientCoordinator
  <2>2. ClientHandler(n) => UNCHANGED kills /\ mishaps \subseteq mishaps'
    BY <1>2 DEF ClientHandler
  <2>. QED
    BY <1>6, <2>1, <2>2 DEF Listen, Unblock
<1>7. ASSUME NEW c, Contact(c) \/ LookupLost(c) \/ Return(c) \/ ClientCall(c)
      PROVE  UNCHANGED kills /\ mishaps \subseteq mishaps'
  <2>1. \A k : Locate(c, k) => UNCHANGED kills /\ mishaps \subseteq mishaps'
    BY <1>3 DEF Locate
  <2>2. LocateNowhere(c) => UNCHANGED kills /\ mishaps \subseteq mishaps'
    BY <1>2 DEF LocateNowhere
  <2>3. Contact(c) => UNCHANGED kills /\ mishaps \subseteq mishaps'
    BY <1>3 DEF Contact
  <2>. QED
    BY <1>7, <2>1, <2>2, <2>3 DEF LookupLost, Return, ClientCall, Finalize
<1>8. \A p : Kill(p) => kills' = kills + 1 /\ UNCHANGED mishaps
  BY DEF Kill
<1>9. kills' \in {kills, kills + 1} /\ mishaps \subseteq mishaps'
  BY <1>4, <1>5, <1>6, <1>7, <1>8 DEF Next, NodeStep, ClientStep
<1>. QED
  BY <1>1, <1>9 DEF Undisturbed

(* p may change its phase, call and answer; the queues of the running      *)
(* nodes lose entries or gain one that is right.                           *)
LEMMA MessagesFrame ==
  ASSUME TypeOK, RolesOK, up' \subseteq up, ~Undisturbed => ~Undisturbed',
         mishaps \subseteq mishaps',
         \A n \in Nodes \cap up : QueueOK(n), \A q \in Procs : AnswerOK(q),
         NEW p \in Procs, AnswerOK(p)',
         \A q \in Procs \ {p} : /\ pc'[q] = pc[q] /\ reply'[q] = reply[q]
                                /\ q \in Clients => call'[q] = call[q],
         \/ pc' = pc /\ call' = call
         \/ \A n \in Nodes \cap up : ~Queues(backlog[n], p) /\ ~Holds(n, p),
         \A n \in Nodes : n \in up' =>
           \/ busy'[n] = busy[n]
           \/ busy'[n] # None => pc'[busy'[n]] = "request",
         \A n \in Nodes : n \in up' =>
           \A i \in 1 .. Len(backlog'[n]) :
              \/ ConnectionOK(backlog[n][i])'
              \/ \E j \in 1 .. Len(backlog[n]) : backlog'[n][i] = backlog[n][j]
  PROVE  /\ \A n \in Nodes : n \in up' => QueueOK(n)'
         /\ \A q \in Procs : AnswerOK(q)'
<1>1. ASSUME NEW n \in Nodes, n \in up', NEW i \in 1 .. Len(backlog'[n]),
             NEW j \in 1 .. Len(backlog[n]), backlog'[n][i] = backlog[n][j]
      PROVE  ConnectionOK(backlog[n][i])'
  <2>1. n \in up /\ n \in Servers /\ QueueOK(n)
    BY <1>1, ConstantFacts
  <2>2. /\ backlog[n][j].from \in Procs
        /\ Queues(backlog[n], backlog[n][j].from) /\ ConnectionOK(backlog[n][j])
    BY <2>1, QueuedConnection DEF QueueOK
  <2>3. /\ pc'[backlog[n][j].from] = pc[backlog[n][j].from]
        /\ call'[backlog[n][j].from] = call[backlog[n][j].from]
    BY <2>1, <2>2 DEF ConnectionOK
  <2>. QED
    BY <1>1, <2>2, <2>3 DEF ConnectionOK
<1>2. \A n \in Nodes : n \in up' => QueueOK(n)'
  <2>1. ASSUME NEW n \in Nodes, n \in up', busy'[n] # None
        PROVE  pc'[busy'[n]] = "request"
    <3>1. CASE busy'[n] = busy[n]
      <4>1. n \in up /\ pc[busy[n]] = "request" /\ busy[n] \in Procs
        BY <2>1, <3>1, ConstantFacts DEF QueueOK, TypeOK
      <4>. QED
        BY <3>1, <4>1 DEF Holds
    <3>. QED
      BY <2>1, <3>1
  <2>. QED
    BY <1>1, <2>1 DEF QueueOK
<1>3. ASSUME NEW q \in Procs \ {p}
      PROVE  AnswerOK(q)'
  <2>1. AnswerOK(q) /\ pc'[q] = pc[q] /\ reply'[q] = reply[q]
        /\ pc[q] = "lookup" => call'[q] = call[q]
    BY <1>3, CalleeFacts
  <2>. QED
    BY <2>1 DEF AnswerOK, Misread
<1>. QED
  BY <1>2, <1>3

(* Only answers and entries may disappear.                                 *)
LEMMA SilentMessages ==
  ASSUME StartupInv, ~Undisturbed => ~Undisturbed', mishaps \subseteq mishaps',
         up' \subseteq up,
         UNCHANGED <<backlog, busy, pc, reply, call>>
  PROVE  /\ \A n \in Nodes : n \in up' => QueueOK(n)'
         /\ \A q \in Procs : AnswerOK(q)'
BY DEF StartupInv, QueueOK, ConnectionOK, AnswerOK, Misread

LEMMA InitMessages ==
  ASSUME StartupInv, [Next]_vars, NEW p \in Procs,
         AskManager(p) \/ InitStep(p) \/ (p \in Nodes /\ Listen(p))
  PROVE  /\ \A n \in Nodes : n \in up' => QueueOK(n)'
         /\ \A q \in Procs : AnswerOK(q)'
<1>. USE DEF StartupInv
<1>1. (~Undisturbed => ~Undisturbed') /\ mishaps \subseteq mishaps'
  BY NextDisturbs
<1>2. /\ \A q \in Procs \ {p} : pc'[q] = pc[q] /\ reply'[q] = reply[q]
      /\ UNCHANGED <<call, up, busy>>
  BY DEF AskManager, InitStep, ReceiveList, ListLost, Listen, Take, Step, TypeOK
<1>3. \/ Callee(p) = None
      \/ Callee(p) = Mgr /\ (reply[p] # None \/ Callee(p) \notin up)
  BY CalleeFacts DEF AskManager, MayInit, InitStep, ReceiveList, ListLost, Listen
<1>4. \A n \in Nodes \cap up : ~Queues(backlog[n], p) /\ ~Holds(n, p)
  BY <1>3, NotServed, ConstantFacts
<1>5. \A n \in Nodes : backlog'[n] = backlog[n]
  BY ConstantFacts
  DEF AskManager, InitStep, ReceiveList, ListLost, Listen, Enqueue, TypeOK
<1>6. reply'[p] = None
  <2>1. CASE InitStep(p)
    BY <2>1 DEF InitStep, ReceiveList, ListLost, Take, TypeOK
  <2>2. CASE AskManager(p) \/ Listen(p)
    <3>1. reply' = reply /\ Callee(p) = None
      BY <2>2, CalleeFacts DEF AskManager, MayInit, Listen
    <3>. QED
      BY <3>1, NotServed
  <2>. QED
    BY <2>1, <2>2
<1>7. AnswerOK(p)'
  BY <1>6 DEF AnswerOK
<1>. QED
  BY <1>1, <1>2, <1>4, <1>5, <1>7, MessagesFrame

LEMMA ClientMessages ==
  ASSUME StartupInv, [Next]_vars, NEW c \in Clients,
         Contact(c) \/ Return(c) \/ Finalize(c) \/ \E k \in Keys : Locate(c, k)
  PROVE  /\ \A n \in Nodes : n \in up' => QueueOK(n)'
         /\ \A q \in Procs : AnswerOK(q)'
<1>. USE DEF StartupInv
<1>1. (~Undisturbed => ~Undisturbed') /\ mishaps \subseteq mishaps'
  BY NextDisturbs
<1>2. /\ c \in Procs /\ up' \subseteq up /\ UNCHANGED busy
      /\ \A q \in Procs \ {c} : /\ pc'[q] = pc[q] /\ reply'[q] = reply[q]
                                /\ q \in Clients => call'[q] = call[q]
  BY ConstantFacts DEF Contact, Return, Finalize, Locate, Take, Step, Exit, TypeOK
<1>3. Callee(c) = None \/ reply[c] # None \/ Callee(c) \notin up
  BY <1>2, CalleeFacts DEF Contact, Return, Finalize, Locate, PeerGone
<1>4. \A n \in Nodes \cap up : ~Queues(backlog[n], c) /\ ~Holds(n, c)
  BY <1>2, <1>3, NotServed, ConstantFacts
<1>5. Callee(c) = None => reply[c] = None
  BY <1>2, NotServed
<1>6. CASE UNCHANGED <<backlog, pc, reply, call>>
  BY <1>1, <1>2, <1>6, SilentMessages
<1>7. ASSUME NEW t \in Nodes, NEW type, NEW k, Enqueue(c, t, type, k),
             pc'[c] = type, call'[c].key = k, reply'[c] = None
      PROVE  /\ \A n \in Nodes : n \in up' => QueueOK(n)'
             /\ \A q \in Procs : AnswerOK(q)'
  <2>. DEFINE m == [from |-> c, type |-> type, key |-> k]
  <2>1. backlog[t] \in Seq(Connection)
    BY ConstantFacts DEF TypeOK
  <2>2. backlog' = [backlog EXCEPT ![t] = Append(@, m)]
    BY <1>7 DEF Enqueue
  <2>3. /\ backlog'[t] = Append(backlog[t], m)
        /\ \A n \in Nodes \ {t} : backlog'[n] = backlog[n]
    BY <2>2, ConstantFacts DEF TypeOK
  <2>4. m.from = c /\ m.type = type /\ m.key = k
    OBVIOUS
  <2>. HIDE DEF m
  <2>5. \A i \in 1 .. Len(backlog'[t]) :
           \/ backlog'[t][i] = m
           \/ \E j \in 1 .. Len(backlog[t]) : backlog'[t][i] = backlog[t][j]
    <3>1. /\ Len(Append(backlog[t], m)) = Len(backlog[t]) + 1
          /\ Len(backlog[t]) \in Nat
          /\ Append(backlog[t], m)[Len(backlog[t]) + 1] = m
          /\ \A i \in 1 .. Len(backlog[t]) : Append(backlog[t], m)[i] = backlog[t][i]
      BY <2>1
    <3>. QED
      BY <2>3, <3>1
  <2>6. ASSUME NEW n \in Nodes, NEW i \in 1 .. Len(backlog'[n])
        PROVE  \/ ConnectionOK(backlog[n][i])'
               \/ \E j \in 1 .. Len(backlog[n]) : backlog'[n][i] = backlog[n][j]
    BY <1>7, <2>3, <2>4, <2>5, <2>6 DEF ConnectionOK
  <2>7. AnswerOK(c)'
    BY <1>7 DEF AnswerOK
  <2>. QED
    BY <1>1, <1>2, <1>4, <2>6, <2>7, MessagesFrame
<1>8. CASE Contact(c)
  <2>. DEFINE name == reply[c][1]
  <2>1. ASSUME name \in Nodes, Enqueue(c, name, "request", call[c].key),
               Take(c), Step(c, "request"), call' = [call EXCEPT ![c].peer = name]
        PROVE  /\ \A n \in Nodes : n \in up' => QueueOK(n)'
               /\ \A q \in Procs : AnswerOK(q)'
    <3>1. call[c] \in [key : Keys, peer : Nodes]
      BY <1>2, <1>8, CalleeFacts DEF Contact
    <3>2. pc'[c] = "request" /\ call'[c].key = call[c].key /\ reply'[c] = None
      BY <1>2, <2>1, <3>1 DEF Take, Step, TypeOK
    <3>. QED
      BY <1>7, <2>1, <3>2
  <2>. QED
    BY <1>6, <1>8, <2>1 DEF Contact
<1>9. ASSUME NEW k \in Keys, Locate(c, k)
      PROVE  /\ \A n \in Nodes : n \in up' => QueueOK(n)'
             /\ \A q \in Procs : AnswerOK(q)'
  <2>1. reply' = reply /\ Callee(c) = None
    BY <1>2, <1>9, CalleeFacts DEF Locate
  <2>2. ASSUME NEW t \in Peers(c), Enqueue(c, t, "lookup", k), Step(c, "lookup"),
               call' = [call EXCEPT ![c] = [key |-> k, peer |-> t]]
        PROVE  /\ \A n \in Nodes : n \in up' => QueueOK(n)'
               /\ \A q \in Procs : AnswerOK(q)'
    <3>1. t \in Nodes
      BY <1>2, <2>2, PeerFacts
    <3>2. pc'[c] = "lookup" /\ call'[c].key = k /\ reply'[c] = None
      BY <1>2, <1>5, <2>1, <2>2 DEF Step, TypeOK
    <3>. QED
      BY <1>7, <2>2, <3>1, <3>2
  <2>. QED
    BY <1>6, <1>9, <2>1, <2>2 DEF Locate
<1>10. CASE Return(c) \/ Finalize(c)
  <2>1. UNCHANGED backlog /\ AnswerOK(c)'
    BY <1>2, <1>10 DEF Return, Finalize, Take, Step, AnswerOK, TypeOK
  <2>. QED
    BY <1>1, <1>2, <1>4, <2>1, MessagesFrame
<1>. QED
  BY <1>8, <1>9, <1>10

LEMMA ManagerMessages ==
  ASSUME StartupInv, [Next]_vars, ManagerStep
  PROVE  /\ \A n \in Nodes : n \in up' => QueueOK(n)'
         /\ \A q \in Procs : AnswerOK(q)'
<1>. USE DEF StartupInv
<1>0. \A n \in Nodes : busy'[n] = busy[n]
  BY ConstantFacts, BusyType
  DEF ManagerStep, ManagerListen, ReceiveMessage, RequestHandler, AcceptNext, Busy, TypeOK
<1>1. (~Undisturbed => ~Undisturbed') /\ mishaps \subseteq mishaps'
  BY NextDisturbs
<1>2. /\ UNCHANGED <<pc, call>> /\ up' \subseteq up
      /\ \A n \in Nodes : backlog'[n] = backlog[n]
  BY ConstantFacts DEF ManagerStep, ManagerListen, ReceiveMessage, RequestHandler,
                       SendList, SendBack, Exit, TypeOK
<1>3. \A n \in Nodes : n \in up' => QueueOK(n)'
  BY <1>0, <1>2 DEF QueueOK, ConnectionOK
<1>4. ASSUME NEW p \in Procs
      PROVE  AnswerOK(p)'
  <2>1. CASE reply'[p] = reply[p]
    BY <1>1, <1>2, <2>1 DEF AnswerOK, Misread
  <2>2. CASE reply'[p] # reply[p]
    <3>1. RequestHandler /\ busy[Mgr] = p /\ reply'[p] = NodeList
      BY <2>2 DEF ManagerStep, ManagerListen, ReceiveMessage, RequestHandler,
                  SendList, SendBack, TypeOK
    <3>2. Callee(p) = Mgr
      BY <3>1, QueuedCallee, ConstantFacts DEF RequestHandler, Holds
    <3>3. pc'[p] = "waiting"
      BY <1>2, <3>2, CalleeFacts
    <3>. QED
      BY <3>1, <3>3 DEF AnswerOK
  <2>. QED
    BY <2>1, <2>2
<1>. QED
  BY <1>3, <1>4

LEMMA UnblockMessages ==
  ASSUME StartupInv, [Next]_vars, NEW n \in Nodes, Unblock(n)
  PROVE  /\ \A m \in Nodes : m \in up' => QueueOK(m)'
         /\ \A q \in Procs : AnswerOK(q)'
<1>. USE DEF StartupInv
<1>1. (~Undisturbed => ~Undisturbed') /\ mishaps \subseteq mishaps'
  BY NextDisturbs
<1>2. PICK p \in Procs : p = busy[n]
  BY ConstantFacts DEF Unblock, TypeOK
<1>3. /\ UNCHANGED <<backlog, pc, call>> /\ up' \subseteq up
      /\ \A q \in Procs \ {p} : reply'[q] = reply[q]
      /\ \A m \in Nodes : busy'[m] = busy[m] \/ busy'[m] = None
  BY <1>2, BusyType, ConstantFacts DEF Unblock, SendBack, Exit, TypeOK
<1>4. pc'[p] = "request"
  BY <1>2, <1>3 DEF Unblock, QueueOK
<1>5. AnswerOK(p)'
  BY <1>4 DEF AnswerOK
<1>. QED
  BY <1>1, <1>3, <1>5, MessagesFrame

LEMMA ServeMessages ==
  ASSUME StartupInv, [Next]_vars, NEW n \in Nodes,
         ClientCoordinator(n) \/ ClientHandler(n)
  PROVE  /\ \A m \in Nodes : m \in up' => QueueOK(m)'
         /\ \A q \in Procs : AnswerOK(q)'
<1>. USE DEF StartupInv
<1>1. (~Undisturbed => ~Undisturbed') /\ mishaps \subseteq mishaps'
  BY NextDisturbs
<1>2. /\ n \in up /\ backlog[n] # <<>> /\ UNCHANGED <<pc, call>> /\ n \in Servers
      /\ backlog' = [backlog EXCEPT ![n] = Tail(@)]
      /\ up' \subseteq up /\ n \in Procs /\ Once(backlog[n])
  BY ConstantFacts
  DEF ClientCoordinator, ClientHandler, Accepts, SendBack, Exit, AnsweredOnce
<1>3. PICK p \in Clients : p = Head(backlog[n]).from
  BY <1>2, HeadRequest
<1>4. /\ pc[p] = Head(backlog[n]).type /\ Head(backlog[n]).key = call[p].key
      /\ p \in Procs /\ Head(backlog[n]).key \in Keys
  BY <1>2, <1>3, HeadRequest, ConstantFacts
<1>5. \A q \in Procs \ {p} : reply'[q] = reply[q]
  BY <1>3, <1>4 DEF ClientCoordinator, ClientHandler, SendBack, TypeOK
<1>6. /\ \A m \in Nodes \ {n} : backlog'[m] = backlog[m]
      /\ \A i \in 1 .. Len(backlog'[n]) :
           \E j \in 1 .. Len(backlog[n]) : backlog'[n][i] = backlog[n][j]
  <2>1. /\ \A m \in Servers \ {n} : backlog'[m] = backlog[m]
        /\ \A i \in 1 .. Len(backlog'[n]) :
             \E j \in 1 .. Len(backlog[n]) : backlog'[n][i] = backlog[n][j]
    BY <1>2, DequeueEffect, ZenonT(60)
  <2>2. Nodes \subseteq Servers
    BY ConstantFacts
  <2>. QED
    BY <2>1, <2>2
<1>7. AnswerOK(p)'
  <2>1. CASE reply' = reply
    BY <1>1, <1>2, <1>4, <2>1 DEF AnswerOK, Misread
  <2>2. CASE ClientHandler(n)
    <3>1. pc'[p] = "request"
      BY <1>2, <1>4, <2>2 DEF ClientHandler, Accepts
    <3>. QED
      BY <3>1 DEF AnswerOK
  <2>3. CASE ClientCoordinator(n) /\ reply' # reply
    <3>1. pc'[p] = "lookup" /\ call'[p].key = Head(backlog[n]).key
      BY <1>2, <1>4, <2>3 DEF ClientCoordinator, Accepts
    <3>2. CASE reply' = [reply EXCEPT ![p] = <<Owner[Head(backlog[n]).key]>>]
      BY <1>4, <3>1, <3>2 DEF AnswerOK, TypeOK
    <3>3. CASE reply' = [reply EXCEPT ![p] = <<Nobody>>] /\ ~Undisturbed'
      BY <1>4, <3>1, <3>3 DEF AnswerOK, TypeOK
    <3>4. known[n] = <<>> => ~Undisturbed
      <4>1. pc[n] = "serving"
        BY <2>3 DEF ClientCoordinator, Accepts
      <4>. QED
        BY <1>2, <4>1, ConstantFacts DEF StartupComplete, Listed, Undisturbed
    <3>5. CASE known[n] = <<>>
      <4>1. reply' = [reply EXCEPT ![p] = <<Nobody>>]
        BY <1>3, <2>3, <3>5 DEF ClientCoordinator, SendBack
      <4>. QED
        BY <1>1, <3>3, <3>4, <3>5, <4>1
    <3>6. CASE known[n] # <<>>
      <4>. DEFINE owner == Owner[Head(backlog[n]).key]
      <4>1. PICK read \in Readings(owner) :
              /\ reply' = [reply EXCEPT ![p] = <<read>>]
              /\ read = owner \/ Note("name", p)
        BY <1>3, <2>3, <3>6 DEF ClientCoordinator, SendBack, FoundName
      <4>2. read # owner =>
              /\ owner \in LongNames /\ <<"name", p>> \in mishaps'
              /\ read \in Alike[owner] \cup {Nobody}
        BY <4>1 DEF Readings, Note
      <4>3. CASE read = owner
        BY <3>2, <4>1, <4>3
      <4>4. CASE read # owner /\ read = Nobody
        BY <3>3, <4>1, <4>2, <4>4 DEF Undisturbed
      <4>5. CASE read # owner /\ read # Nobody
        <5>1. reply'[p] = <<read>>
          BY <1>4, <4>1 DEF TypeOK
        <5>2. Misread(p)'
          BY <3>1, <4>2, <4>5, <5>1 DEF Misread
        <5>. QED
          BY <3>1, <5>2 DEF AnswerOK
      <4>. QED
        BY <4>3, <4>4, <4>5
    <3>. QED
      BY <3>5, <3>6
  <2>. QED
    BY <2>1, <2>2, <2>3
<1>8. \A m \in Nodes : m \in up' =>
        \A i \in 1 .. Len(backlog'[m]) :
           \E j \in 1 .. Len(backlog[m]) : backlog'[m][i] = backlog[m][j]
  BY <1>6
<1>9. \A m \in Nodes : busy'[m] = busy[m] \/ (busy'[m] # None => pc'[busy'[m]] = "request")
  <2>1. CASE UNCHANGED busy
    BY <2>1
  <2>2. CASE ClientHandler(n) /\ Busy(n, p)
    <3>1. pc[p] = "request"
      BY <1>4, <2>2 DEF ClientHandler, Accepts
    <3>. QED
      BY <1>2, <1>4, <2>2, <3>1, BusyType, ConstantFacts
  <2>. QED
    BY <1>3, <2>1, <2>2 DEF ClientCoordinator, ClientHandler
<1>. QED
  BY <1>1, <1>2, <1>4, <1>5, <1>7, <1>8, <1>9, MessagesFrame

LEMMA NextMessages ==
  ASSUME StartupInv, [Next]_vars
  PROVE  /\ \A n \in Nodes : n \in up' => QueueOK(n)'
         /\ \A q \in Procs : AnswerOK(q)'
<1>1. (~Undisturbed => ~Undisturbed') /\ mishaps \subseteq mishaps'
  BY NextDisturbs DEF StartupInv
<1>2. CASE up' \subseteq up /\ UNCHANGED <<backlog, busy, pc, reply, call>>
  BY <1>1, <1>2, SilentMessages
<1>3. CASE UNCHANGED vars
  BY <1>2, <1>3 DEF vars
<1>4. CASE ManagerStep
  BY <1>4, ManagerMessages
<1>5. ASSUME NEW p \in Procs, AskManager(p) \/ Broken(p)
      PROVE  /\ \A n \in Nodes : n \in up' => QueueOK(n)'
             /\ \A q \in Procs : AnswerOK(q)'
  BY <1>2, <1>5, InitMessages DEF Broken, Exit
<1>6. ASSUME NEW n \in Nodes, NodeStep(n) \/ Unblock(n)
      PROVE  /\ \A m \in Nodes : m \in up' => QueueOK(m)'
             /\ \A q \in Procs : AnswerOK(q)'
  BY <1>6, InitMessages, ServeMessages, UnblockMessages, ConstantFacts DEF NodeStep
<1>7. ASSUME NEW c \in Clients, ClientStep(c) \/ ClientCall(c)
      PROVE  /\ \A n \in Nodes : n \in up' => QueueOK(n)'
             /\ \A q \in Procs : AnswerOK(q)'
  <2>1. CASE LookupLost(c) \/ LocateNowhere(c)
    BY <1>2, <2>1 DEF LookupLost, LocateNowhere, Exit
  <2>. QED
    BY <1>7, <2>1, InitMessages, ClientMessages, ConstantFacts
    DEF ClientStep, ClientCall
<1>8. ASSUME NEW p \in Procs \cup {Mgr}, Kill(p)
      PROVE  /\ \A n \in Nodes : n \in up' => QueueOK(n)'
             /\ \A q \in Procs : AnswerOK(q)'
  BY <1>2, <1>8 DEF Kill, Exit
<1>. QED
  BY <1>3, <1>4, <1>5, <1>6, <1>7, <1>8 DEF Next

-----------------------------------------------------------------------------
(* Requests reach coordinators, and an undisturbed start is complete.      *)

LEMMA NextContacts ==
  ASSUME StartupInv, [Next]_vars
  PROVE  ContactsCoordinator'
<1>. USE DEF StartupInv
<1>1. SUFFICES ASSUME NEW c \in Clients, pc'[c] = "request"
               PROVE  LET owner == Owner[call'[c].key]
                      IN  \/ call'[c].peer = owner
                          \/ /\ owner \in LongNames /\ call'[c].peer \in Alike[owner]
                             /\ <<"name", c>> \in mishaps'
  BY DEF ContactsCoordinator
<1>2. c \in Procs
  BY ConstantFacts
<1>3. CASE Contact(c)
  <2>1. /\ reply[c] # None /\ pc[c] = "lookup" /\ call[c] \in [key : Keys, peer : Nodes]
        /\ \/ reply[c] = <<Owner[call[c].key]>> \/ reply[c] = <<Nobody>>
           \/ Misread(c)
    BY <1>2, <1>3, CalleeFacts DEF Contact, AnswerOK
  <2>2. reply[c][1] \in Nodes =>
          LET owner == Owner[call[c].key]
          IN  \/ reply[c][1] = owner
              \/ /\ owner \in LongNames /\ reply[c][1] \in Alike[owner]
                 /\ <<"name", c>> \in mishaps
    <3>1. \A n : <<n>>[1] = n
      OBVIOUS
    <3>. QED
      BY <2>1, <3>1, ProcessAssumption DEF Misread
  <2>3. /\ reply[c][1] \in Nodes /\ call' = [call EXCEPT ![c].peer = reply[c][1]]
    BY <1>1, <1>3, <2>1 DEF Contact
  <2>4. call'[c].peer = reply[c][1] /\ call'[c].key = call[c].key
    BY <2>1, <2>3 DEF TypeOK
  <2>5. mishaps \subseteq mishaps'
    BY NextDisturbs
  <2>. QED
    BY <2>2, <2>3, <2>4, <2>5
<1>4. CASE pc[c] = "request" /\ call'[c] = call[c]
  <2>1. mishaps \subseteq mishaps'
    BY NextDisturbs
  <2>. QED
    BY <1>4, <2>1 DEF ContactsCoordinator
<1>5. ~Contact(c) => pc[c] = "request" /\ call'[c] = call[c]
  <2>1. ASSUME NEW p \in Procs, AskManager(p) \/ Broken(p) \/ InitStep(p)
        PROVE  pc[c] = "request" /\ call'[c] = call[c]
    BY <1>1, <1>2, <2>1
    DEF AskManager, Broken, InitStep, ReceiveList, ListLost, Step, AfterInit, TypeOK
  <2>2. ASSUME NEW n \in Nodes,
               Listen(n) \/ ClientCoordinator(n) \/ ClientHandler(n) \/ Unblock(n)
        PROVE  pc[c] = "request" /\ call'[c] = call[c]
    BY <1>1, <1>2, <2>2, ConstantFacts
    DEF Listen, ClientCoordinator, ClientHandler, Unblock, Step, TypeOK
  <2>3. ASSUME NEW d \in Clients, LookupLost(d) \/ Return(d) \/ ClientCall(d)
        PROVE  pc[c] = "request" /\ call'[c] = call[c]
    BY <1>1, <1>2, <2>3, ConstantFacts
    DEF LookupLost, Return, ClientCall, LocateNowhere, Finalize, Locate, Step, TypeOK
  <2>4. ASSUME NEW d \in Clients \ {c}, Contact(d)
        PROVE  pc[c] = "request" /\ call'[c] = call[c]
    BY <1>1, <1>2, <2>4, ConstantFacts DEF Contact, Step, TypeOK
  <2>5. ManagerStep \/ UNCHANGED vars => pc[c] = "request" /\ call'[c] = call[c]
    BY <1>1 DEF ManagerStep, ManagerListen, ReceiveMessage, RequestHandler, vars
  <2>6. ASSUME NEW p \in Procs \cup {Mgr}, Kill(p)
        PROVE  pc[c] = "request" /\ call'[c] = call[c]
    BY <1>1, <2>6 DEF Kill
  <2>. QED
    BY <2>1, <2>2, <2>3, <2>4, <2>5, <2>6, ConstantFacts DEF Next, NodeStep, ClientStep
<1>. QED
  BY <1>3, <1>4, <1>5

(* No process dies in an undisturbed step.                                 *)
LEMMA NextRunning ==
  ASSUME StartupInv, [Next]_vars
  PROVE  Undisturbed' => up' = Procs \cup {Mgr}
<1>. USE DEF StartupInv
<1>1. SUFFICES ASSUME Undisturbed' PROVE up' = up
  BY NextDisturbs DEF StartupComplete
<1>2. /\ Undisturbed /\ kills' = kills /\ mishaps' = {} /\ mishaps = {}
      /\ up = Procs \cup {Mgr}
      /\ \A p \in Procs : pc[p] \notin {"idle", "waiting"} => known[p] = NodeList
      /\ \A s \in Servers : s \in up
  BY <1>1, NextDisturbs, ConstantFacts
  DEF StartupComplete, Listed, Undisturbed, Servers
<1>3. \A kind, p : ~Note(kind, p)
  BY <1>2 DEF Note
<1>4. \A s \in Servers : \A p : ~(Refuses(s) /\ NoteRefusal(p, s))
  BY <1>2, <1>3 DEF Refuses, NoteRefusal
<1>5. \A s, p, m : p \in Procs /\ SendBack(s, p, m) => up' = up
  BY <1>2 DEF SendBack
<1>6. CASE ManagerStep \/ UNCHANGED vars
  BY <1>5, <1>6, ConstantFacts
  DEF ManagerStep, ManagerListen, ReceiveMessage, RequestHandler, SendList, TypeOK, vars
<1>7. ASSUME NEW p \in Procs
      PROVE  ~Broken(p)
  BY <1>2, PeerFacts, ConstantFacts DEF Broken
<1>8. ASSUME NEW p \in Procs, AskManager(p) \/ InitStep(p) \/ Listen(p)
      PROVE  up' = up
  BY <1>8 DEF AskManager, InitStep, ReceiveList, ListLost, Listen
<1>9. ASSUME NEW n \in Nodes, ClientCoordinator(n) \/ ClientHandler(n)
      PROVE  up' = up
  <2>1. /\ n \in up /\ n \in Servers /\ n \in Procs
        /\ pc[n] = "serving" /\ backlog[n] # <<>>
    BY <1>2, <1>9, ConstantFacts DEF ClientCoordinator, ClientHandler, Accepts
  <2>2. known[n] # <<>>
    BY <1>2, <2>1, ConstantFacts
  <2>3. PICK p \in Clients : p = Head(backlog[n]).from
    BY <2>1, HeadRequest
  <2>4. /\ p \in Procs /\ Head(backlog[n]).key = call[p].key /\ call[p].key \in Keys
        /\ Replicas[call[p].key] \subseteq Nodes /\ pc[p] = Head(backlog[n]).type
    BY <2>1, <2>3, HeadRequest, ConstantFacts, ListAssumption
  <2>5. CASE ClientCoordinator(n)
    BY <1>5, <2>2, <2>3, <2>4, <2>5 DEF ClientCoordinator
  <2>6. CASE ClientHandler(n)
    <3>. DEFINE absent == {r \in Contacted(n, call[p].key) : Refuses(r)}
    <3>1. absent = {}
      <4>1. absent \subseteq listening
        BY <1>3, <2>2, <2>3, <2>4, <2>6 DEF ClientHandler
      <4>. QED
        BY <1>2, <2>4, <4>1, ConstantFacts DEF Refuses, Contacted
    <3>2. n = Owner[call[p].key]
      <4>1. Callee(p) = n
        BY <2>1, <2>3, <2>4, QueuedCallee, HeadQueued
      <4>2. pc[p] = "request"
        BY <2>3, <2>4, <2>6 DEF ClientHandler, Accepts
      <4>. QED
        BY <1>2, <2>3, <2>4, <4>1, <4>2, CalleeFacts DEF ContactsCoordinator
    <3>3. ~TooFew(n, call[p].key)
      BY <2>4, <3>2, QuorumAssumption DEF TooFew, Contacted
    <3>. QED
      BY <1>5, <2>2, <2>3, <2>4, <2>6, <3>1, <3>2, <3>3 DEF ClientHandler
  <2>. QED
    BY <1>9, <2>5, <2>6
<1>10. ASSUME NEW n \in Nodes, Unblock(n)
       PROVE  up' = up
  BY <1>5, <1>10, ConstantFacts DEF Unblock, TypeOK
<1>11. ASSUME NEW c \in Clients, Contact(c)
       PROVE  up' = up
  <2>1. /\ c \in Procs /\ pc[c] = "lookup" /\ call[c] \in [key : Keys, peer : Nodes]
        /\ reply[c] = <<Owner[call[c].key]>>
    BY <1>2, <1>11, CalleeFacts, ConstantFacts DEF Contact, AnswerOK, Misread
  <2>2. reply[c][1] \in Nodes /\ reply[c][1] \in Servers
    BY <2>1, ListAssumption, ConstantFacts
  <2>. QED
    BY <1>4, <1>11, <2>2 DEF Contact
<1>12. ASSUME NEW c \in Clients
       PROVE  ~LookupLost(c) /\ ~LocateNowhere(c)
  <2>1. c \in Procs
    BY ConstantFacts
  <2>2. ~LookupLost(c)
    BY <1>2, <2>1, CalleeFacts, ConstantFacts DEF LookupLost, PeerGone
  <2>3. ~LocateNowhere(c)
    BY <1>2, <1>3, <2>1, ConstantFacts DEF LocateNowhere
  <2>. QED
    BY <2>2, <2>3
<1>13. ASSUME NEW c \in Clients, Return(c) \/ Finalize(c) \/ \E k \in Keys : Locate(c, k)
       PROVE  up' = up
  BY <1>13 DEF Return, Finalize, Locate
<1>14. ASSUME NEW p \in Procs \cup {Mgr}
       PROVE  ~Kill(p)
  BY <1>2, NextDisturbs DEF Kill
<1>15. ASSUME NEW n \in Nodes, NodeStep(n) \/ Unblock(n)
       PROVE  up' = up
  BY <1>8, <1>9, <1>10, <1>15, ConstantFacts DEF NodeStep
<1>16. ASSUME NEW c \in Clients, ClientStep(c) \/ ClientCall(c)
       PROVE  up' = up
  BY <1>8, <1>11, <1>12, <1>13, <1>16, ConstantFacts DEF ClientStep, ClientCall
<1>. QED
  BY <1>6, <1>7, <1>8, <1>14, <1>15, <1>16 DEF Next

(* Whoever goes on without the list asked a manager that did not listen,   *)
(* or the manager is gone.                                                 *)
LEMMA NextListed ==
  ASSUME StartupInv, [Next]_vars, NEW p \in Procs
  PROVE  Listed(p)'
<1>. USE DEF StartupInv
<1>1. /\ mishaps \subseteq mishaps' /\ Listed(p) /\ p # Mgr
  BY NextDisturbs, ConstantFacts DEF StartupComplete
<1>2. Mgr \notin up => Mgr \notin up'
  BY ConstantFacts
  DEF Next, vars, ManagerStep, ManagerListen, ReceiveMessage, RequestHandler,
      AskManager, Broken, NodeStep, InitStep, ReceiveList, ListLost, Listen,
      ClientCoordinator, ClientHandler, ClientStep, Contact, LookupLost, Return,
      ClientCall, LocateNowhere, Finalize, Locate, Kill, Unblock, SendBack, Exit,
      SendList
<1>3. CASE known'[p] = known[p] /\ (pc'[p] = pc[p] \/ pc[p] \notin {"idle", "waiting"})
  BY <1>1, <1>2, <1>3 DEF Listed
<1>4. CASE AskManager(p)
  <2>1. CASE Step(p, "waiting")
    BY <2>1 DEF Step, TypeOK, Listed
  <2>2. CASE Refuses(Mgr) /\ NoteRefusal(p, Mgr)
    <3>1. Mgr \notin up \/ <<"nolist", p>> \in mishaps'
      BY <2>2 DEF Refuses, NoteRefusal, Note
    <3>. QED
      BY <1>2, <3>1 DEF Listed
  <2>. QED
    BY <1>4, <2>1, <2>2 DEF AskManager
<1>5. CASE ReceiveList(p)
  <2>1. known'[p] = NodeList
    BY <1>5 DEF ReceiveList, AnswerOK, TypeOK
  <2>. QED
    BY <2>1 DEF Listed
<1>6. CASE ListLost(p)
  BY <1>2, <1>6 DEF ListLost, Listed
<1>7. CASE p \in Clients /\ Finalize(p)
  BY <1>7 DEF Finalize, Step, TypeOK, Listed
<1>8. ASSUME NEW q \in Procs \ {p},
             AskManager(q) \/ InitStep(q) \/ Listen(q) \/ (q \in Clients /\ Finalize(q))
      PROVE  known'[p] = known[p] /\ pc'[p] = pc[p]
  BY <1>8 DEF AskManager, InitStep, ReceiveList, ListLost, Listen, Finalize, Step, TypeOK
<1>9. Listen(p) => known'[p] = known[p] /\ pc[p] \notin {"idle", "waiting"}
  BY DEF Listen
<1>10. ASSUME NEW c \in Clients,
              Contact(c) \/ Return(c) \/ \E k \in Keys : Locate(c, k)
       PROVE  /\ known'[p] = known[p]
              /\ pc'[p] = pc[p] \/ pc[p] \notin {"idle", "waiting"}
  BY <1>10, ConstantFacts DEF Contact, Return, Locate, Step, TypeOK
<1>11. \/ ManagerStep \/ UNCHANGED vars \/ \E q \in Procs : Broken(q)
       \/ \E n \in Nodes : ClientCoordinator(n) \/ ClientHandler(n) \/ Unblock(n)
       \/ \E c \in Clients : LookupLost(c) \/ LocateNowhere(c)
       \/ \E q \in Procs \cup {Mgr} : Kill(q)
       => known' = known /\ pc' = pc
  BY DEF ManagerStep, ManagerListen, ReceiveMessage, RequestHandler, vars, Broken,
         ClientCoordinator, ClientHandler, Unblock, LookupLost, LocateNowhere, Kill
<1>12. \A q \in Procs : AskManager(q) => Listed(p)'
  BY <1>3, <1>4, <1>8
<1>13. ASSUME NEW n \in Nodes, NodeStep(n) \/ Unblock(n)
       PROVE  Listed(p)'
  BY <1>3, <1>5, <1>6, <1>8, <1>9, <1>11, <1>13, ConstantFacts DEF NodeStep, InitStep
<1>14. ASSUME NEW c \in Clients, ClientStep(c) \/ ClientCall(c)
       PROVE  Listed(p)'
  BY <1>3, <1>5, <1>6, <1>7, <1>8, <1>10, <1>11, <1>14, ConstantFacts
  DEF ClientStep, ClientCall, InitStep
<1>. QED
  BY <1>3, <1>11, <1>12, <1>13, <1>14 DEF Next

LEMMA NextComplete ==
  ASSUME StartupInv, [Next]_vars
  PROVE  StartupComplete'
BY NextRunning, NextListed DEF StartupComplete

-----------------------------------------------------------------------------
LEMMA InitStartup == Init => StartupInv
<1>. SUFFICES ASSUME Init PROVE StartupInv
  OBVIOUS
<1>1. TypeOK
  BY InitTypeOK
<1>2. /\ \A s \in Servers : backlog[s] = <<>>
      /\ \A p \in Procs : pc[p] = "idle" /\ reply[p] = None /\ Callee(p) = None
  BY DEF Init, Callee
<1>3. AnsweredOnce
  <2>1. \A s \in Servers, p \in Procs : OnePlace(s, p)
    BY <1>2, ConstantFacts DEF OnePlace, Queues, Holds, Answered, Init
  <2>2. \A s \in Servers : Once(backlog[s])
    BY <1>2 DEF Once
  <2>. QED
    BY <1>2, <2>1, <2>2 DEF AnsweredOnce
<1>4. ContactsCoordinator
  BY <1>2, ConstantFacts DEF ContactsCoordinator
<1>5. StartupComplete /\ RolesOK
  BY <1>2, ConstantFacts DEF StartupComplete, Listed, RolesOK, Init
<1>6. /\ \A n \in Nodes \cap up : QueueOK(n)
      /\ \A p \in Procs : AnswerOK(p)
  BY <1>2, ConstantFacts DEF QueueOK, AnswerOK, Init
<1>. QED
  BY <1>1, <1>3, <1>4, <1>5, <1>6 DEF StartupInv

LEMMA NextStartup == StartupInv /\ [Next]_vars => StartupInv'
<1>. SUFFICES ASSUME StartupInv, [Next]_vars PROVE StartupInv'
  OBVIOUS
<1>. QED
  BY NextTypeOK, NextOnce, NextPhases, NextMessages, NextContacts, NextComplete
  DEF StartupInv

(***************************************************************************)
(* The inductive invariant of start-up: lists, queues and answers fit what *)
(* every process is about, whoever is early, killed or misled              *)
(* (test_gt_store.cpp forks the processes and waits for none).             *)
(***************************************************************************)
THEOREM StartupHolds == Spec => []StartupInv
BY InitStartup, NextStartup, PTL DEF Spec

(***************************************************************************)
(* A put or get goes to its key's coordinator, or, if the coordinator's    *)
(* name has 8 or more characters and its copy in the reply was cut, to a   *)
(* node whose name begins alike; with short names to the coordinator only. *)
(***************************************************************************)
THEOREM RequestsReachCoordinator == Spec => []ContactsCoordinator
<1>1. StartupInv => ContactsCoordinator
  BY DEF StartupInv
<1>. QED
  BY <1>1, StartupHolds, PTL

(***************************************************************************)
(* The manager and the nodes answer every request once, and nobody who is  *)
(* not waiting has an answer in its socket.                                *)
(***************************************************************************)
THEOREM RequestsAnsweredOnce == Spec => []AnsweredOnce
<1>1. StartupInv => AnsweredOnce
  BY DEF StartupInv
<1>. QED
  BY <1>1, StartupHolds, PTL

(***************************************************************************)
(* Every process past init has the whole list unless it asked a manager    *)
(* that did not listen yet or the manager died; all processes are running  *)
(* unless one was killed, came too early, called outside a session or read *)
(* a wrong name.                                                           *)
(***************************************************************************)
THEOREM UndisturbedStartIsComplete == Spec => []StartupComplete
<1>1. StartupInv => StartupComplete
  BY DEF StartupInv
<1>. QED
  BY <1>1, StartupHolds, PTL
=============================================================================

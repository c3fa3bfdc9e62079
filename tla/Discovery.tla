----------------------------- MODULE Discovery ------------------------------
(***************************************************************************)
(* How the processes of GTStore find each other.  Every storage node and   *)
(* every client session asks the manager for the list of storage nodes     *)
(* (init); a storage node builds its ring from it and only then listens    *)
(* (run).  Nothing makes them wait for the manager, nothing makes clients  *)
(* wait for the storage nodes, and nobody looks at what init returned: a   *)
(* process that came too early goes on with an empty list.                 *)
(*                                                                         *)
(* A put or get is followed through its two connections, up to the answer  *)
(* of the coordinator; what the coordinator does for it is one step here   *)
(* and is the subject of GTStore, which begins where every list is there.  *)
(***************************************************************************)
EXTENDS Naturals, Sequences, FiniteSets

CONSTANTS
  Nodes,        \* storage nodes
  Clients,      \* client processes
  Mgr,          \* the manager process
  NodeList,     \* Manager::nodes: their names, in the order they were added
  Keys,         \* object keys
  Owner,        \* [Keys -> Nodes]: coordinators on the ring of all nodes
  Replicas,     \* [Keys -> SUBSET Nodes]: the rest of the preference list
  LongNames,    \* storage nodes whose names have more than 7 characters
  Alike,        \* [Nodes -> SUBSET Nodes]: those whose names begin with the
                \*   first 8 characters of a long name
  Quorum,       \* QUORUM_W and QUORUM_R: answers a coordinator waits for
  Nobody,       \* a name that is no storage node's, the empty one included
  ListenQueue,  \* connections the kernel queues on a listening socket
  MaxSessions,  \* bound: sessions each client opens with init
  MaxCalls,     \* bound: calls each client makes
  MaxKills,     \* bound: processes the environment kills
  None          \* no message, no process, no call

Procs   == Nodes \cup Clients
Servers == Nodes \cup {Mgr}
Names   == Nodes \cup {Nobody}
Mishaps == {"nolist", "early", "closed", "name"}

ASSUME ProcessAssumption ==
  /\ Nodes \cap Clients = {}
  /\ Mgr \notin Procs
  /\ Nobody \notin Nodes
  /\ None \notin Procs \cup {Mgr} \cup Seq(Names) \cup [key : Keys, peer : Nodes]

ASSUME ListAssumption ==
  /\ NodeList \in Seq(Nodes) /\ NodeList # <<>>
  /\ \A n \in Nodes : \E i \in 1 .. Len(NodeList) : NodeList[i] = n
  /\ Owner \in [Keys -> Nodes]
  /\ Replicas \in [Keys -> SUBSET Nodes]
  /\ LongNames \subseteq Nodes /\ Alike \in [Nodes -> SUBSET Nodes]

ASSUME QuorumAssumption ==
  \A k \in Keys : ~(Cardinality(Replicas[k] \ {Owner[k]}) < Quorum)

ASSUME BoundsAssumption ==
  /\ ListenQueue \in Nat \ {0}
  /\ MaxSessions \in Nat /\ MaxCalls \in Nat /\ MaxKills \in Nat

VARIABLES
  up,        \* processes that are running
  listening, \* servers that have called listen
  backlog,   \* server -> queue of connections not yet accepted
  busy,      \* server -> the process whose request it has read and not
             \*   answered; a storage node keeps one only in a recv on
             \*   something that is not the socket of a replica
  pc,        \* process -> where it is, see Phases
  known,     \* process -> the list it works with: the nodes on a storage
             \*   node's ring, a client's env.nodeIDs
  reply,     \* process -> the message in its socket: the names it carries
  call,      \* client -> key and callee of its put or get
  sessions,  \* client -> number of sessions opened
  calls,     \* client -> number of calls made
  kills,     \* number of processes the environment killed
  mishaps    \* history, with the process each happened to: "nolist", it
             \*   asked a manager that did not listen yet; "early", it
             \*   connected to a storage node that did not listen yet;
             \*   "closed", it called put or get outside a session; "name",
             \*   it read another name than the coordinator's

vars == <<up, listening, backlog, busy, pc, known, reply, call,
          sessions, calls, kills, mishaps>>

(* A storage node: before init, in the recv of init, before run, in run.   *)
(* A client: before init or after finalize, in the recv of init, between   *)
(* calls, in the first and in the second recv of put or get.               *)
Phases == {"idle", "waiting", "ready", "serving",
           "session", "lookup", "request", "spinning"}

Connection == [from : Procs, type : {"list", "lookup", "request"},
               key : Keys \cup {None}]

Init ==
  /\ up = Procs \cup {Mgr}
  /\ listening = {}
  /\ backlog = [s \in Servers |-> <<>>]
  /\ busy = [s \in Servers |-> None]
  /\ pc = [p \in Procs |-> "idle"]
  /\ known = [p \in Procs |-> <<>>]
  /\ reply = [p \in Procs |-> None]
  /\ call = [c \in Clients |-> None]
  /\ sessions = [c \in Clients |-> 0]
  /\ calls = [c \in Clients |-> 0]
  /\ kills = 0
  /\ mishaps = {}

-----------------------------------------------------------------------------
(* Sockets.                                                                *)

Connectable(s) ==
  s \in up /\ s \in listening /\ Len(backlog[s]) < ListenQueue

Refuses(s) == s \notin up \/ s \notin listening

Note(kind, p) == mishaps' = mishaps \cup {<<kind, p>>}

(* What a refused connect of p is recorded as.                             *)
NoteRefusal(p, s) ==
  IF s \in listening THEN UNCHANGED mishaps
  ELSE Note(IF s = Mgr THEN "nolist" ELSE "early", p)

Enqueue(p, s, type, k) ==
  backlog' = [backlog EXCEPT ![s] =
                Append(@, [from |-> p, type |-> type, key |-> k])]

Exit(p) == up' = up \ {p}

Step(p, phase) == pc' = [pc EXCEPT ![p] = phase]

(* send() on an accepted connection: SIGPIPE kills s when p is gone.       *)
SendBack(s, p, m) ==
  IF p \in up
  THEN reply' = [reply EXCEPT ![p] = m] /\ UNCHANGED up
  ELSE Exit(s) /\ UNCHANGED reply

Busy(s, p) == busy' = [busy EXCEPT ![s] = p]

Take(p) == reply' = [reply EXCEPT ![p] = None]

-----------------------------------------------------------------------------
(* The manager: run creates the listening socket, then accepts one         *)
(* connection at a time, reads a request type and ignores it.              *)

ManagerListen ==
  /\ Mgr \in up \ listening
  /\ listening' = listening \cup {Mgr}
  /\ UNCHANGED <<up, backlog, busy, pc, known, reply, call, sessions, calls,
                 kills, mishaps>>

ReceiveMessage ==
  /\ Mgr \in up /\ busy[Mgr] = None /\ backlog[Mgr] # <<>>
  /\ Busy(Mgr, Head(backlog[Mgr]).from)
  /\ backlog' = [backlog EXCEPT ![Mgr] = Tail(@)]
  /\ UNCHANGED <<up, listening, pc, known, reply, call, sessions, calls,
                 kills, mishaps>>

(* (fault) the list is sent to storage nodes only.                         *)
AnswerNodesOnly(p) ==
  IF p \in Nodes THEN SendBack(Mgr, p, NodeList) ELSE UNCHANGED <<up, reply>>

(* (fault) a client's type of request is answered with an empty list.      *)
EmptyForClients(p) ==
  SendBack(Mgr, p, IF p \in Nodes THEN NodeList ELSE <<>>)

SendList(p) == SendBack(Mgr, p, NodeList)

StayBusy == UNCHANGED busy    \* (fault) the same connection is served again
AcceptNext == Busy(Mgr, None)

RequestHandler ==
  /\ Mgr \in up /\ busy[Mgr] # None
  /\ SendList(busy[Mgr])
  /\ AcceptNext
  /\ UNCHANGED <<listening, backlog, pc, known, call, sessions, calls, kills,
                 mishaps>>

-----------------------------------------------------------------------------
(* StorageNode::init, and Client::init with getNodeInfos.                  *)

(* Where a process goes on after init, whatever init returned.             *)
AfterInit(p) == IF p \in Nodes THEN "ready" ELSE "session"

MayInit(p) ==
  p \in up /\ pc[p] = "idle" /\ (p \in Clients => sessions[p] < MaxSessions)

CountSession(p) ==
  sessions' = IF p \in Clients THEN [sessions EXCEPT ![p] = @ + 1] ELSE sessions

AskManager(p) ==
  /\ MayInit(p)
  /\ CountSession(p)
  /\ \/ /\ Connectable(Mgr)
        /\ Enqueue(p, Mgr, "list", None)
        /\ Step(p, "waiting")
        /\ UNCHANGED mishaps
     \/ /\ Refuses(Mgr)
        /\ NoteRefusal(p, Mgr)
        /\ Step(p, AfterInit(p))
        /\ UNCHANGED backlog
  /\ UNCHANGED <<up, listening, busy, known, reply, call, calls, kills>>

(* The nodes a client with a list may ask.                                 *)
Peers(c) == {known[c][i] : i \in 1 .. Len(known[c])}

(* The server dies between connect and send: SIGPIPE ends the caller.      *)
Broken(p) ==
  /\ \/ MayInit(p) /\ Mgr \in listening \ up
     \/ /\ p \in up /\ pc[p] = "session" /\ calls[p] < MaxCalls
        /\ \E t \in Peers(p) : t \in listening \ up
  /\ Exit(p)
  /\ UNCHANGED <<listening, backlog, busy, pc, known, reply, call, sessions,
                 calls, kills, mishaps>>

(* The list arrives: addNodesToRing, or nodeIDs.                           *)
ReceiveList(p) ==
  /\ p \in up /\ pc[p] = "waiting" /\ reply[p] # None
  /\ known' = [known EXCEPT ![p] = reply[p]]
  /\ Take(p)
  /\ Step(p, AfterInit(p))
  /\ UNCHANGED <<up, listening, backlog, busy, call, sessions, calls, kills,
                 mishaps>>

(* The manager died without an answer.  If it had read the request, recv   *)
(* returns 0 and is repeated for ever; if not, the connection is reset,    *)
(* recv returns -1 and the loop ends with no list.                         *)
AtEndOfFile(p) == busy[Mgr] = p

ListLost(p) ==
  /\ p \in up /\ pc[p] = "waiting" /\ reply[p] = None
  /\ Mgr \notin up
  /\ Step(p, IF AtEndOfFile(p) THEN "spinning" ELSE AfterInit(p))
  /\ UNCHANGED <<up, listening, backlog, busy, known, reply, call, sessions,
                 calls, kills, mishaps>>

-----------------------------------------------------------------------------
(* The client: put asks the last node of its list, get any of them.        *)

Locate(c, k) ==
  /\ c \in up /\ pc[c] = "session" /\ calls[c] < MaxCalls
  /\ calls' = [calls EXCEPT ![c] = @ + 1]
  /\ \E t \in Peers(c) :
       \/ /\ Connectable(t)
          /\ Enqueue(c, t, "lookup", k)
          /\ Step(c, "lookup")
          /\ call' = [call EXCEPT ![c] = [key |-> k, peer |-> t]]
          /\ UNCHANGED mishaps
       \/ /\ Refuses(t)                              \* returns false
          /\ NoteRefusal(c, t)
          /\ UNCHANGED <<backlog, pc, call>>
  /\ UNCHANGED <<up, listening, busy, known, reply, sessions, kills>>

(* A call of a session without a list, or of no session (finalize leaves   *)
(* none): back() of an empty vector, or a remainder of a division by 0.    *)
(* The process ends, or takes some memory for a name nobody has.           *)
LocateNowhere(c) ==
  /\ c \in up /\ pc[c] \in {"idle", "session"} /\ calls[c] < MaxCalls
  /\ known[c] = <<>>
  /\ calls' = [calls EXCEPT ![c] = @ + 1]
  /\ Exit(c) \/ UNCHANGED up
  /\ IF pc[c] = "idle" THEN Note("closed", c) ELSE UNCHANGED mishaps
  /\ UNCHANGED <<listening, backlog, busy, pc, known, reply, call, sessions,
                 kills>>

(* The second connect, to the name in the reply; the client exits if it    *)
(* fails.                                                                  *)
Contact(c) ==
  /\ c \in up /\ pc[c] = "lookup" /\ reply[c] # None
  /\ LET name == reply[c][1]
     IN  \/ /\ name \in Nodes /\ Connectable(name)
            /\ Enqueue(c, name, "request", call[c].key)
            /\ Take(c)
            /\ Step(c, "request")
            /\ call' = [call EXCEPT ![c].peer = name]
            /\ UNCHANGED <<up, mishaps>>
         \/ /\ name \in Nodes => Refuses(name)
            /\ IF name \in Nodes THEN NoteRefusal(c, name) ELSE UNCHANGED mishaps
            /\ Exit(c)
            /\ UNCHANGED <<backlog, reply, pc, call>>
  /\ UNCHANGED <<listening, busy, known, sessions, calls, kills>>

NeverGone(c) == FALSE              \* (fault) wait for a dead node for ever
PeerGone(c) == call[c].peer \notin up

(* No reply to the lookup: the name stays empty and the connect fails.     *)
LookupLost(c) ==
  /\ c \in up /\ pc[c] = "lookup" /\ reply[c] = None
  /\ PeerGone(c)
  /\ Exit(c)
  /\ UNCHANGED <<listening, backlog, busy, pc, known, reply, call, sessions,
                 calls, kills, mishaps>>

(* put and get return true with an answer and without one.                 *)
Return(c) ==
  /\ c \in up /\ pc[c] = "request"
  /\ reply[c] # None \/ PeerGone(c)
  /\ Take(c)
  /\ Step(c, "session")
  /\ call' = [call EXCEPT ![c] = None]
  /\ UNCHANGED <<up, listening, backlog, busy, known, sessions, calls, kills,
                 mishaps>>

Finalize(c) ==
  /\ c \in up /\ pc[c] = "session"
  /\ known' = [known EXCEPT ![c] = <<>>]
  /\ Step(c, "idle")
  /\ UNCHANGED <<up, listening, backlog, busy, reply, call, sessions, calls,
                 kills, mishaps>>

-----------------------------------------------------------------------------
(* The storage node: run.                                                  *)

Listen(n) ==
  /\ n \in up /\ pc[n] = "ready"
  /\ Step(n, "serving")
  /\ listening' = listening \cup {n}
  /\ UNCHANGED <<up, backlog, busy, known, reply, call, sessions, calls, kills,
                 mishaps>>

Accepts(n, type) ==
  /\ n \in up /\ pc[n] = "serving" /\ busy[n] = None /\ backlog[n] # <<>>
  /\ Head(backlog[n]).type = type
  /\ backlog' = [backlog EXCEPT ![n] = Tail(@)]

OwnName(n, k) == n                 \* (fault) answers with its own name
FoundName(n, k) == Owner[k]

(* The length of a pointer is copied: of a long name the client reads the  *)
(* first 8 characters and whatever its buffer holds behind them.           *)
Readings(n) == IF n \in LongNames THEN Alike[n] \cup {n, Nobody} ELSE {n}

(* clientCoordinator.  On an empty ring find returns end(), whose element  *)
(* has an empty name or ends the process.                                  *)
ClientCoordinator(n) ==
  /\ Accepts(n, "lookup")
  /\ LET m == Head(backlog[n])
         name == FoundName(n, m.key)
     IN  IF known[n] = <<>>
         THEN /\ \/ SendBack(n, m.from, <<Nobody>>)
                 \/ Exit(n) /\ UNCHANGED reply
              /\ UNCHANGED mishaps
         ELSE \E read \in Readings(name) :
                /\ SendBack(n, m.from, <<read>>)
                /\ IF read = name THEN UNCHANGED mishaps ELSE Note("name", m.from)
  /\ UNCHANGED <<listening, busy, pc, known, call, sessions, calls, kills>>

(* Whom clientHandler contacts: the first entry of the list is erased,     *)
(* whoever it is, and the node itself is skipped.  With fewer than Quorum, *)
(* nodesfd is read beyond its end.                                         *)
Contacted(n, k) == Replicas[k] \ {n}
TooFew(n, k)   == Cardinality(Contacted(n, k)) < Quorum

(* clientHandler.  It ends the process if a replica does not accept        *)
(* connections, if the list is empty, and maybe if an index is out of      *)
(* range: of nodesfd, or, on another node than the coordinator, of vnodes. *)
(* What lies behind nodesfd may also be a descriptor on which recv blocks. *)
ClientHandler(n) ==
  /\ Accepts(n, "request")
  /\ LET m == Head(backlog[n])
         absent == {r \in Contacted(n, m.key) : Refuses(r)}
         fails == known[n] = <<>> \/ absent # {}
     IN  /\ IF known[n] # <<>> /\ ~(absent \subseteq listening)
            THEN Note("early", n) ELSE UNCHANGED mishaps
         /\ \/ /\ fails \/ n # Owner[m.key] \/ TooFew(n, m.key)
               /\ Exit(n) /\ UNCHANGED <<reply, busy>>
            \/ ~fails /\ SendBack(n, m.from, <<>>) /\ UNCHANGED busy
            \/ /\ ~fails /\ TooFew(n, m.key)
               /\ Busy(n, m.from) /\ UNCHANGED <<up, reply>>
  /\ UNCHANGED <<listening, pc, known, call, sessions, calls, kills>>

(* The other end of that descriptor closed or died: recv returns.          *)
Unblock(n) ==
  /\ n \in up /\ busy[n] # None
  /\ SendBack(n, busy[n], <<>>)
  /\ Busy(n, None)
  /\ UNCHANGED <<listening, backlog, pc, known, call, sessions, calls, kills,
                 mishaps>>

-----------------------------------------------------------------------------
(* The environment kills a process.                                        *)
Kill(p) ==
  /\ p \in up /\ kills < MaxKills
  /\ kills' = kills + 1
  /\ Exit(p)
  /\ UNCHANGED <<listening, backlog, busy, pc, known, reply, call, sessions,
                 calls, mishaps>>

ManagerStep == ManagerListen \/ ReceiveMessage \/ RequestHandler

InitStep(p) == ReceiveList(p) \/ ListLost(p)

NodeStep(n) == InitStep(n) \/ Listen(n) \/ ClientCoordinator(n) \/ ClientHandler(n)

ClientStep(c) == InitStep(c) \/ Contact(c) \/ LookupLost(c) \/ Return(c)

ClientCall(c) ==
  LocateNowhere(c) \/ Finalize(c) \/ \E k \in Keys : Locate(c, k)

Next ==
  \/ ManagerStep
  \/ \E p \in Procs : AskManager(p) \/ Broken(p)
  \/ \E n \in Nodes : NodeStep(n) \/ Unblock(n)
  \/ \E c \in Clients : ClientStep(c) \/ ClientCall(c)
  \/ \E p \in Procs \cup {Mgr} : Kill(p)

Spec == Init /\ [][Next]_vars

(* A running process keeps executing.  The environment decides when a      *)
(* process is started, what a client calls and who is killed.              *)
Fairness ==
  /\ WF_vars(ManagerStep)
  /\ \A n \in Nodes : WF_vars(NodeStep(n))
  /\ \A c \in Clients : WF_vars(ClientStep(c))

FairSpec == Spec /\ Fairness

-----------------------------------------------------------------------------
(* The types; a list is the manager's or empty.                            *)
TypeOK ==
  /\ up \subseteq Procs \cup {Mgr}
  /\ listening \subseteq Servers
  /\ backlog \in [Servers -> Seq(Connection)]
  /\ busy \in [Servers -> Procs \cup {None}]
  /\ pc \in [Procs -> Phases]
  /\ known \in [Procs -> {<<>>, NodeList}]
  /\ reply \in [Procs -> Seq(Names) \cup {None}]
  /\ call \in [Clients -> [key : Keys, peer : Nodes] \cup {None}]
  /\ sessions \in [Clients -> 0 .. MaxSessions]
  /\ calls \in [Clients -> 0 .. MaxCalls]
  /\ kills \in 0 .. MaxKills
  /\ mishaps \subseteq Mishaps \X Procs

(***************************************************************************)
(* Every request to a running server is queued, being answered or answered *)
(* exactly once, as long as the caller waits for it and no longer: over    *)
(* sessions, calls and deaths no answer is lost, doubled or left over.     *)
(***************************************************************************)
Callee(p) ==
  IF pc[p] = "waiting" THEN Mgr
  ELSE IF pc[p] \in {"lookup", "request"} THEN call[p].peer ELSE None

Queues(q, p)   == \E i \in 1 .. Len(q) : q[i].from = p
Once(q)       == \A i, j \in 1 .. Len(q) : q[i].from = q[j].from => i = j
Holds(s, p)   == busy[s] = p
Answered(s, p) == Callee(p) = s /\ reply[p] # None

OnePlace(s, p) ==
  /\ Callee(p) = s <=> Queues(backlog[s], p) \/ Holds(s, p) \/ Answered(s, p)
  /\ Queues(backlog[s], p) => ~Holds(s, p) /\ ~Answered(s, p)
  /\ Holds(s, p) => ~Answered(s, p)

AnsweredOnce ==
  /\ \A p \in Procs : Callee(p) = None => reply[p] = None
  /\ \A s \in Servers \cap up :
       Once(backlog[s]) /\ \A p \in Procs : OnePlace(s, p)

(***************************************************************************)
(* A client sends a put or get to the coordinator of its key, whichever    *)
(* process came too early or died.  The exception is a reply in which a    *)
(* name of 8 or more characters was cut: it leads to any node whose name   *)
(* begins like the coordinator's.  With short names GTStore may assume it  *)
(* of every lookup.                                                        *)
(***************************************************************************)
ContactsCoordinator ==
  \A c \in Clients :
    pc[c] = "request" =>
      LET owner == Owner[call[c].key]
      IN  \/ call[c].peer = owner
          \/ /\ owner \in LongNames /\ call[c].peer \in Alike[owner]
             /\ <<"name", c>> \in mishaps

(***************************************************************************)
(* A process past init works with the whole list unless it itself asked a  *)
(* manager that did not listen yet, or the manager died; and unless        *)
(* somebody was killed, met a server that did not listen yet, called       *)
(* outside a session or read a wrong name, all processes are running.      *)
(* GTStore starts from the state in which nothing of this happened.        *)
(***************************************************************************)
Undisturbed == kills = 0 /\ mishaps = {}

Listed(p) ==
  pc[p] \notin {"idle", "waiting"} =>
    known[p] = NodeList \/ <<"nolist", p>> \in mishaps \/ Mgr \notin up

StartupComplete ==
  /\ Undisturbed => up = Procs \cup {Mgr}
  /\ \A p \in Procs : Listed(p)

(***************************************************************************)
(* What makes these inductive: phases belong to roles, and a queued        *)
(* connection and an answer belong to what their process is about.         *)
(***************************************************************************)
RolesOK ==
  /\ \A n \in Nodes :
       /\ pc[n] \in {"idle", "waiting", "ready", "serving", "spinning"}
       /\ n \in listening <=> pc[n] = "serving"
  /\ \A c \in Clients :
       /\ pc[c] \in {"idle", "waiting", "session", "lookup", "request", "spinning"}
       /\ pc[c] \in {"lookup", "request"} => call[c] # None

ConnectionOK(m) ==
  m.from \in Clients /\ m.type = pc[m.from] /\ m.key = call[m.from].key

QueueOK(n) ==
  /\ \A i \in 1 .. Len(backlog[n]) : ConnectionOK(backlog[n][i])
  /\ busy[n] # None => pc[busy[n]] = "request"

Misread(p) ==
  LET owner == Owner[call[p].key]
  IN  /\ owner \in LongNames /\ <<"name", p>> \in mishaps
      /\ \E n \in Alike[owner] : reply[p] = <<n>>

AnswerOK(p) ==
  reply[p] # None =>
    /\ pc[p] = "waiting" => reply[p] = NodeList
    /\ pc[p] = "lookup" => \/ reply[p] = <<Owner[call[p].key]>>
                           \/ reply[p] = <<Nobody>> /\ ~Undisturbed
                           \/ Misread(p)

StartupInv ==
  /\ TypeOK /\ AnsweredOnce /\ ContactsCoordinator /\ StartupComplete
  /\ RolesOK
  /\ \A n \in Nodes \cap up : QueueOK(n)
  /\ \A p \in Procs : AnswerOK(p)

(***************************************************************************)
(* recv in init ends: the process goes on with or without a list, or dies, *)
(* or the manager died with its request in hand and the loop never blocks  *)
(* again (spinning).                                                       *)
(***************************************************************************)
InitReturns ==
  \A p \in Procs : pc[p] = "waiting" ~> (pc[p] # "waiting" \/ p \notin up)

(***************************************************************************)
(* Every put or get comes back to its client or ends it, whatever the      *)
(* storage nodes know and whoever is missing, unless a storage node waits  *)
(* for something that is not the answer of a replica.                      *)
(***************************************************************************)
CallEnds ==
  \A c \in Clients :
    pc[c] \in {"lookup", "request"}
      ~> \/ pc[c] = "session" \/ c \notin up
         \/ \E n \in Nodes : busy[n] # None
=============================================================================

---------------------------- MODULE Descriptors ----------------------------
(***************************************************************************)
(* The data path with a limited number of file descriptors.  A storage     *)
(* node closes neither the connections it accepts nor its sockets to       *)
(* replicas, and a client closes neither of the two sockets of a call.  A  *)
(* process that has none left goes on: connect on descriptor -1 fails, and *)
(* a node whose accept fails handles its local variable p once more, with  *)
(* what the last request left in it.                                       *)
(***************************************************************************)
EXTENDS GTStoreInvariant

CONSTANTS MaxOpen,  \* process -> descriptors it has left once initialised
          OwnName   \* the key a node finds in p when its name is copied there

ASSUME DescriptorAssumption ==
  /\ MaxOpen \in [Procs -> Nat \ {0}]
  /\ OwnName \notin Keys

ASSUME FiniteClients == IsFiniteSet(Clients)

(* Buffers are zeroed: what an uninitialised one does to a get is the      *)
(* subject of GTStore.                                                     *)
ASSUME CleanStack == Stack = {EmptyValue}

VARIABLES
  open,  \* process -> descriptors it has opened since
  last   \* node -> p as the handler of the last request left it

descVars == <<open, last>>
allVars  == <<vars, descVars>>

HasRoomInclusive(p) == open[p] <= MaxOpen[p]   \* (fault) one too many

HasRoom(p) == open[p] < MaxOpen[p]
Opens(p)   == HasRoom(p) /\ open' = [open EXCEPT ![p] = @ + 1]

OpenInit == /\ Init
            /\ open = [p \in Procs |-> 0]
            /\ last = [n \in Nodes |-> None]

-----------------------------------------------------------------------------
(* The client library.                                                     *)

StartCall(c) == (Put(c) \/ Get(c)) /\ Opens(c) /\ UNCHANGED last

(* socket fails, so connect does: put and get return false.                *)
CallRefused(c) ==
  /\ c \in up /\ call[c] = None /\ calls[c] < MaxCalls /\ ~HasRoom(c)
  /\ calls' = [calls EXCEPT ![c] = @ + 1]
  /\ UNCHANGED <<up, backlog, inbox, nodeVars, store, call, versions, value,
                 kills, descVars>>

OpenContact(c) == ContactCoordinator(c) /\ Opens(c) /\ UNCHANGED last

(* The same for the coordinator's socket: exit.                            *)
ContactRefused(c) ==
  /\ c \in up /\ call[c] # None /\ call[c].pc = "lookup" /\ ~HasRoom(c)
  /\ inbox[c][call[c].peer] # None
  /\ Exit(c)
  /\ UNCHANGED <<backlog, inbox, nodeVars, store, clientVars, kills, descVars>>

CallDone(c) ==
  (LookupLost(c) \/ Return(c) \/ ReturnLost(c)) /\ UNCHANGED descVars

-----------------------------------------------------------------------------
(* The storage node.                                                       *)

(* p when a handler is done with it, its value cut to head.size: the bytes *)
(* a write of p would take.  writeBackPack sets the size to 0 and copies   *)
(* the node's name over the key, which no virtual node has.                *)
Renamed(p) == [p EXCEPT !.size = 0, !.key = OwnName]

Filled(n, p) ==
  LET cell == store[n][p.rank][p.key]
  IN  IF RankOK(n, p.rank) /\ cell # Absent
      THEN [p EXCEPT !.size = Length[cell.val], !.timpStamp = cell.ver,
                     !.value = cell.val]
      ELSE p

Handled(n, p) == IF p.type # "node" \/ p.key = OwnName THEN p
                 ELSE IF p.size # 0 THEN Renamed(p) ELSE Filled(n, p)

Serve(n) ==
  /\ ClientCoordinator(n) \/ NodeHandlerWrite(n) \/ NodeHandlerRead(n)
     \/ ClientHandler(n)
  /\ Opens(n)
  /\ last' = [last EXCEPT ![n] = Handled(n, Head(backlog[n]).pkt)]

(* (fault) a second socket for the replica's answer.                       *)
OpenReplicaTwice(n) ==
  /\ ContactReplica(n) /\ HasRoom(n)
  /\ open' = [open EXCEPT ![n] = @ + 2]
  /\ UNCHANGED last

OpenReplica(n) == ContactReplica(n) /\ Opens(n) /\ UNCHANGED last

(* (fault) the coordinator goes on to the next replica.                    *)
SkipReplica(n) ==
  /\ Coordinates(n) /\ ~FanOutDone(n) /\ ~HasRoom(n)
  /\ it' = [it EXCEPT ![n] = @ + 1]
  /\ UNCHANGED <<up, backlog, inbox, pc, cur, fds, store, clientVars, kills,
                 descVars>>

(* connect on descriptor -1: the coordinator exits.                        *)
SocketFails(n) ==
  /\ Coordinates(n) /\ ~FanOutDone(n) /\ ~HasRoom(n)
  /\ Exit(n)
  /\ UNCHANGED <<backlog, inbox, nodeVars, store, clientVars, kills, descVars>>

(* (fault) a dead replica is waited for.                                   *)
RepliesOnly(n) == (\E r \in Nodes : ReplicaReply(n, r)) /\ UNCHANGED descVars

FutureDone(n) ==
  (\E r \in Nodes : ReplicaReply(n, r) \/ ReplicaLost(n, r)) /\ UNCHANGED descVars

(* (fault) the packet stays the client's, as if its type were not set to 1 *)
(* for the replicas.                                                       *)
AnsweredAsClient(n) ==
  [IF pc[n] = "writing" THEN Renamed(cur[n].pkt) ELSE cur[n].pkt
   EXCEPT !.type = "client"]

(* p when clientHandler is done with it: a node packet since the fan-out.  *)
AnsweredPacket(n) ==
  IF pc[n] = "writing" THEN Renamed(cur[n].pkt) ELSE cur[n].pkt

AnswerClient(n) ==
  /\ Respond(n)
  /\ UNCHANGED open
  /\ last' = [last EXCEPT ![n] = AnsweredPacket(n)]

(***************************************************************************)
(* accept fails at once, whether or not somebody is queued, receiveMessage *)
(* returns false and leaves p alone, run ignores that, and the handler of  *)
(* p's type runs with descriptor -1: it reads or writes, its send fails.   *)
(* A client packet would be coordinated, up to the first socket.           *)
(***************************************************************************)
AcceptFails(n) ==
  /\ n \in up /\ pc[n] = "accept" /\ ~HasRoom(n)
  /\ LET p == last[n]
     IN  /\ IF p.type # "lookup" /\ p.size # 0
            THEN Write(n, IF p.type = "client" THEN Stamped(p) ELSE p)
            ELSE UNCHANGED store
         /\ IF p.type = "client" THEN Exit(n) ELSE UNCHANGED up
         /\ last' = [last EXCEPT ![n] = Handled(n, p)]
  /\ UNCHANGED <<backlog, inbox, nodeVars, clientVars, kills, open>>

-----------------------------------------------------------------------------
OpenKill(p) == Kill(p) /\ UNCHANGED descVars

OpenBroken(c) == LookupBroken(c) /\ UNCHANGED descVars

OpenClientStep(c) == OpenContact(c) \/ ContactRefused(c) \/ CallDone(c)

OpenNodeStep(n) ==
  \/ Serve(n) \/ AcceptFails(n) \/ OpenReplica(n) \/ SocketFails(n)
  \/ FutureDone(n) \/ AnswerClient(n)

OpenNext ==
  \/ \E c \in Clients :
       StartCall(c) \/ CallRefused(c) \/ OpenBroken(c) \/ OpenClientStep(c)
  \/ \E n \in Nodes : OpenNodeStep(n)
  \/ \E p \in Procs : OpenKill(p)

OpenSpec == OpenInit /\ [][OpenNext]_allVars

OpenFairSpec ==
  /\ OpenSpec
  /\ \A c \in Clients : WF_allVars(OpenClientStep(c))
  /\ \A n \in Nodes : WF_allVars(OpenNodeStep(n))

-----------------------------------------------------------------------------
(* The types of the counters and of what is left in p.                     *)
LeftPacket == [type : {"node", "client", "lookup"},
               timpStamp : Versions, size : Nat, rank : Ranks,
               key : Keys \cup {OwnName}, value : Text]

OpenTypeOK == /\ open \in [Procs -> Nat]
              /\ \A p \in Procs : open[p] <= MaxOpen[p]
              /\ last \in [Nodes -> LeftPacket \cup {None}]

(***************************************************************************)
(* A node's data changes only when a request leaves its accept queue: that *)
(* a node without descriptors handles the packet of its last request again *)
(* and again, the answer to a get as a write among them, stores nothing it *)
(* does not hold already.                                                  *)
(***************************************************************************)
StoredOnlyByRequests ==
  [][\A n \in Nodes : store'[n] # store[n]
                        => Len(backlog'[n]) < Len(backlog[n])]_allVars

(***************************************************************************)
(* How long the descriptors last: a call costs a node four of them at most *)
(* (one for the lookup, three to coordinate), whichever way calls and      *)
(* deaths interleave.                                                      *)
(***************************************************************************)
CallsMade == {u \in Clients \X (1 .. MaxCalls) : u[2] <= calls[u[1]]}

FourPerCall == \A n \in Nodes : open[n] <= 4 * Cardinality(CallsMade)

(***************************************************************************)
(* Only a process that has used up its descriptors keeps a call waiting:   *)
(* while every process has some left, every call returns or its client     *)
(* exits.                                                                  *)
(***************************************************************************)
ReturnsWhileRoom ==
  \A c \in Clients :
    (c \in up /\ call[c] # None)
      ~> (c \notin up \/ call[c] = None \/ \E n \in Nodes : ~HasRoom(n))
=============================================================================

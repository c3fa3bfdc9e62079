# A formal model of GTStore

GTStore is a replicated key-value store in about 1900 lines of C++: a manager
that knows the storage nodes, storage nodes that hold the data and replicate it
along a consistent-hash ring, and a client library. Every process is
single-threaded apart from the futures a coordinator waits for, and all of them
talk over Unix stream sockets. This directory holds TLA+ modules that model it,
configurations that check them with TLC, and proofs checked with TLAPS.

Run `tlc -config X.cfg M` for a run and `tlapm M.tla` for a proof module.

## The system

| component | code | state | operations |
|---|---|---|---|
| client library | `gt_client.cpp`, `gt_client.h` | node names, version map, sockets | `init`, `put`, `get`, `finalize` |
| storage node | `gt_storage_node.cpp` | listening socket, ring, virtual nodes | `init`, `run`: `receiveMessage`, `clientCoordinator` (lookup), `clientHandler` (coordinate a put or get), `nodeHandler` (replica); `writeToNodes`, `readFromNodes` |
| virtual node | `gt_storage_node.cpp` 22-72 | a value map and a version map | read and write of each |
| ring | `consistent_hash_ring.h` | ordered map from hash to virtual node | `insert`, `erase` (two), `find`, `computeNumKeysPerNode` |
| manager | `gt_manager.h`, `gt_manager.cpp` | node list, ring, statistics | `addStorageNode`, `getPreferenceList`, `computeStats`, `run` (answers every request with the node list) |
| wire formats | `gt_object.h` | | `Packet`, `NodeInfoPacket` |
| quorum constants | `gt_object.h` 57-60 | | list of 3, W = R = 2, N = 3 |
| tests | `test_*.cpp` | | `test_gt_store.cpp` forks a client, a manager and four nodes |

How they interact. At start every storage node and client asks the manager for
the node list, and every storage node builds its own ring from it. A client
call has two halves, each on a connection of its own: ask some node for the
coordinator of the key (the last node of the list for a put, a random one for a
get), then send the request to the coordinator and block in `recv`. The
coordinator handles it inside its accept loop: write or read its own virtual
node, connect to the two other nodes of the preference list one after the
other, wait for both answers, answer the client, accept the next connection.

What is hard in it:

* *Blocking.* A coordinator accepts nothing while it waits, and it may wait for
  a coordinator. `connect` waits too when an accept queue is full.
* *Death.* A failed `connect` to a node makes the caller `exit`; sending to a
  dead peer is a SIGPIPE nobody handles; a dead peer ends a `recv`. One death
  spreads in both directions, and none of the return values is looked at.
* *Order.* Requests for a key from several clients meet at its coordinator,
  their copies meet those of other coordinators in the replicas' queues, and
  versions come from what a client last read.
* *Boundaries.* Wrap-around on the ring, colliding hashes, repeated nodes on the
  walk to a preference list, versions modulo 2^32, values of length 0, nodes
  with different numbers of virtual nodes.
* *Startup.* Nothing waits for the manager to listen, nothing waits for the
  storage nodes, and nobody looks at what `init` returned.
* *Resources.* No connection is ever closed. When a process has no descriptor
  left, calls fail whose results are dropped, and a storage node goes on with the
  packet of an earlier request.

What makes each component correct: the *ring* sends a key to the nearest entry
clockwise and moves no other keys when it changes; *preference lists* name the
nearest distinct nodes, the same on every process; the *data path* is
linearizable, keeps running replicas equal, acknowledges a put only when every
running node of the list has it, loses and repeats no request, and lets every
call return; *discovery* answers everybody once, gives the whole list to everybody
who found the manager, and leads requests to their coordinator as long as names
are short; *exhaustion* stops
calls and corrupts nothing; the *statistics* count what their loop says, which is
not what each node coordinates.

## Modules

| module | what it is |
|---|---|
| `GTStore` | the data path: clients, storage nodes, sockets, process deaths |
| `AtomicStore` | what GTStore promises its clients: an atomic map of versioned values |
| `GTStoreRefinement` | the refinement mapping from `GTStore` to `AtomicStore` |
| `GTStoreInvariant` | the inductive invariant `IInv` of `GTStore` |
| `GTStoreProofs` | its proof, type correctness, request bookkeeping, replica convergence, what a deadlock consists of |
| `GTStoreLinearProofs` | the proof that `GTStore` implements `AtomicStore` |
| `MCGTStore` | small clusters for TLC |
| `Descriptors` | the data path with a limited number of descriptors (extends `GTStore`, composes its actions with the counters) |
| `DescriptorsProofs` | the theorems of the data path for every limit, and the budget of descriptors |
| `MCDescriptors` | limits for TLC |
| `Discovery` | the manager's server, `init` of nodes and clients, and the way of a call to its coordinator |
| `DiscoveryProofs` | its inductive invariant and three properties |
| `MCDiscovery` | two nodes with names that begin alike for TLC |
| `HashRing` | `ConsistentHashRing` |
| `HashRingProofs` | proofs about it |
| `Manager` | the manager's and storage nodes' rings, preference lists, statistics (extends `HashRing`) |
| `ManagerProofs` | proofs about it: preference lists, joins, statistics |
| `MCManager` | three nodes with four virtual nodes for TLC |

`GTStore` takes the preference lists as a constant, `PrefList`, and assumes
about them (`PrefListAssumption`) three distinct nodes with ranks they have.
`ListsSuitRequests` of `ManagerProofs` proves that the code's lists are such on
every ring of three nodes or more, and `Agreement` that all processes compute the
same ones. It begins when
every list and ring is there; `StartupComplete` of `Discovery` says when that is
so. `GTStore` also assumes node names of at most 7 characters, as "node1" to
"node4" of `test_gt_store.cpp` are: then every lookup answered with a node's name
leads to the coordinator (`ContactsCoordinator`). With longer names it need not,
and `GTStore` says nothing of such clusters.

### GTStore and the code

A step of the model is what one process does between two points where it can
block. `backlog[n]` is the accept queue of node `n`: a connection and the one
packet the caller sends on it, in the order of the `connect` calls. `inbox[p][n]`
is the reply waiting in the socket of `p` to `n`. `pc`, `cur`, `it` and `fds` are
the coordinator's place in its handler: the packet `p` it works on, the loop
iterator over the preference list, and the futures still waiting. `store` holds
the virtual nodes' two maps as one function (they are only ever written
together). `call`, `versions` and `value` are the client's: the call in progress,
`Client::versions`, and what the last `get` assigned.

| action | code |
|---|---|
| `Put`, `Get` (via `Begin`) | first half of `put` and `get`: connect and send the lookup, or return false |
| `LookupBroken` | the node dies between `connect` and `send`: SIGPIPE |
| `ContactCoordinator`, `LookupLost` | lookup reply, or none; connect to the coordinator and send, or `exit(0)` |
| `Return`, `ReturnLost` | the reply, or none: `put` and `get` return true in both cases |
| `ClientCoordinator` | `clientCoordinator` |
| `NodeHandlerWrite`, `NodeHandlerRead` | the two branches of `nodeHandler` |
| `ClientHandler` | `clientHandler` up to the fan-out |
| `ContactReplica` | one iteration of the loops of `writeToNodes` and `readFromNodes`: connect (wait while the queue is full) and send, or `exit(0)` |
| `ReplicaReply`, `ReplicaLost` | a future's `recv` returns with or without a packet |
| `Respond` | all futures done: the answer to the client |
| `Kill` | the environment ends a process |

A death between `connect` and `send`, or inside a handler, is the same for
everybody else as one before it, since nothing survives a process; the one
exception is `LookupBroken`. Sockets of a dead process answer as the kernel makes
them: no `connect`, end of file on `recv`, SIGPIPE on `send`.

A value is a member of `Values` with a length. `Garbled` stands for every C
string nobody put, and `Overlay` is the `memcpy` of a value over a longer string.
`Stack` is what an uninitialised buffer may hold, a string with zeros behind it;
`Stack = {EmptyValue}` says that the buffer is zeroed. Of a write
reply's key, overwritten with the node's name, nothing is modelled: nobody reads it.
Where a replica does not have the rank it is sent, `vnodes[rank]` is out of range:
`NodeHandlerWrite` lets the process end there or go on. A node uses its own rank
when it coordinates, so `ClientHandler` never meets that case.

Definitions marked `(fault)` are wrong on purpose: they replace the definition
after them when the sensitivity of a property is tested, and nothing else uses
them.

### Descriptors and the code

`open[p]` counts the descriptors a process has opened since it was initialised;
nothing decreases it, as nothing in the code closes one (`shutdown` does not).
`MaxOpen[p]` is the limit less the five a process has by then: the standard three
and two sockets. `last[n]` is the local `p` of `run` as the last handler left it:
`Packet p;` is declared inside the loop, without an initialiser, so it has the
same place in every iteration, and a `receiveMessage` that fails leaves it alone.

| action | code |
|---|---|
| `StartCall`, `OpenContact`, `CallDone` | the client actions of `GTStore`; each socket takes a descriptor |
| `CallRefused` | `socket` fails, `connect` on -1 fails, `put` or `get` returns false |
| `ContactRefused` | the same for the coordinator's socket: `exit(0)` |
| `Serve` | `accept`, and the handler of `GTStore` up to where it blocks |
| `OpenReplica`, `SocketFails` | `socket` for a replica, or its failure and `exit(0)` |
| `FutureDone`, `AnswerClient` | as in `GTStore` |
| `AcceptFails` | `accept` fails whether or not somebody is queued, `recv` on -1 fails, the result is dropped, `p` is handled once more; its `send` fails on -1 |

What `p` holds then decides everything: after a coordinated get it is the answer,
with the size of a value and so a write; after a write its key is the node's name
(`Renamed`); and because `clientHandler` sets `type = 1` before it fans out, it is
never coordinated again. `StoredOnlyByRequests` says that this suffices, and its
mutant, in which the type stays the client's, shows that it is needed.

### Discovery and the code

`pc` is where a process is in `main`: before `init` (`idle`), in its `recv`
(`waiting`), between `init` and `run` (`ready`), in the accept loop (`serving`); a
client is in a `session` between `init` and `finalize`, in its `lookup` or its
`request`. `listening` are the servers that have called `listen`, `known` is the
list a process works with, `busy` whom a server has read from and not yet
answered, `reply[p]` the message in the socket of `p`. `mishaps` is a history
variable: which process asked a manager that did not listen yet (`nolist`),
connected to a storage node that did not (`early`), called `put` or `get` outside
a session (`closed`), or read another name than the coordinator's (`name`).

`LongNames` are the nodes whose names have more than 7 characters. Of such a name
8 characters arrive, without an end, in front of what the client's uninitialised
buffer holds (`gt_storage_node.cpp:365`). What it reads may be the right name, no
node's, or that of any node whose name begins with these 8 characters: `Alike` has
these nodes, and `Readings` is the choice. A node that is asked to coordinate a
key it does not own indexes its `vnodes` with a rank that is another's and erases the
owner from its list. Where it is itself a replica it skips itself, contacts fewer
nodes than it waits for, and reads `nodesfd` beyond its end: `ClientHandler` lets
it end there, answer, or block in `recv` on whatever descriptor it found, from
which `Unblock` may release it, and need not. With an empty fan-out the read is a
null dereference, so there the model has outcomes besides the real one.

| action | code |
|---|---|
| `ManagerListen` | `createListenSocket` of the manager |
| `ReceiveMessage`, `RequestHandler` | the two halves of its loop: accept and read, answer with the list |
| `AskManager` | `StorageNode::init` and `Client::init` up to `recv`, or without a list when `connect` fails |
| `ReceiveList`, `ListLost` | the list arrives, or the manager died: end of file is read for ever, a reset is not |
| `Broken` | a server dies between `connect` and `send` |
| `Locate`, `LocateNowhere` | first half of `put` and `get`, with a list and without, also after `finalize` |
| `Contact`, `LookupLost`, `Return` | second half |
| `Finalize` | `finalize` |
| `Listen` | `run` up to its loop |
| `ClientCoordinator` | the lookup, on a whole ring and on an empty one, with the name cut |
| `ClientHandler` | the request: its outcome for the client, in one step |
| `Unblock` | the end of a `recv` on a descriptor that is no replica's |
| `Kill` | the environment ends a process |

### Rings and preference lists

`HashRing` fixes an arbitrary hash function in its initial state, so one run
covers all of them, colliding ones too. `Manager` adds nodes in every order.
`Walk` is the order in which the two loops of `getPreferenceList` pass the
entries, from the one `find` returns to the end and then from the beginning;
`ListAfter` is what the loops leave in the list, as a function of the number of
entries passed, so that proofs can speak of every iteration. `AddVirtualNodes` and
`RingOf` are written in the same way. `KeysAdded` is what one call of
`computeNumKeyPerStorageNode` adds to each node's count, its error included, and
`ComputeStats` adds it modulo the range of `unsigned long`.

## Runs

All pass unless marked. Sizes are those of the `.cfg` files.

| run | question | result |
|---|---|---|
| `contended_key` | Is one key, used by two clients in three calls each, linearizable when versions wrap at 3 and one replica lacks the coordinator's rank? | `ImplementsAtomicStore`, `RequestInOnePlace`, `TypeOK`; 320 000 states |
| `two_clients_kill` | What does one death anywhere do, with two keys whose coordinators replicate for each other and accept queues of one place? | `ReplicasAgree`, `RequestInOnePlace`, `IInv`, `LinearInv`, `DeadlockCrosses`, `AckedWriteReplicated`, `ImplementsAtomicStore`; 129 000 states |
| `chain_live` | Two coordinators, of which one replicates the other's key, one death, accept queues of one place, and empty values among those put: does every call return? | `NoDeadlock`, `CallsReturn`; 116 000 states |
| `descriptors` | What happens when nodes and clients use up their descriptors, with one death besides? | `OpenTypeOK`, `ReplicasAgree`, `StoredOnlyByRequests`, `ReturnsWhileRoom`, `ImplementsAtomicStore`; 78 000 states |
| `startup` | Manager, two nodes with alike long names and a client start in any order, two sessions, two calls, two deaths: who gets what, where do requests go, and does everybody go on? | `StartupInv`, `AnsweredOnce`, `ContactsCoordinator`, `StartupComplete`, `InitReturns`, `CallEnds`; 258 000 states |
| `hash_ring` | Are lookups, counts and key movement right for every hash of 4 virtual nodes into 8 values, insertions and removals in any order? | `FindIsNearest`, `KeysCounted`, `OnlyNeighboursMove`; 54 000 states |
| `manager_lists` | Are preference lists right, equal everywhere and stable under joins, for every hash of 4 virtual nodes of 3 nodes into 5 values? What do two calls of `computeStats` add up? | `ListIsNearestNodes`, `CoordinatorsAgree`, `JoinKeepsOrder`, `StatsCountAgain`; 28 000 states up to exchanging two nodes |
| `v_deadlock` | Do coordinators ever wait for each other? | **violated**: two do, without any failure |
| `v_put_unanswered` | Is a put that returns true on a write quorum? | **violated** when the coordinator dies |
| `v_garbled_get` | Does `get` deliver what somebody put? | **violated**: uninitialised buffer |
| `v_uneven` | Do replicas agree when nodes have different numbers of virtual nodes? | **violated**: refused and acknowledged |
| `v_descriptors` | Does every call return when nobody fails and no queue is full? | **violated**: a node without descriptors never reaches the caller in its queue |

What the violations say of the code, with the line each contradicts, is listed
under `findings` in `PROJECT.json`. Other disagreements met on the way, which no
run states:

* `gt_storage_node.h:77` says that the preference list leaves the coordinator out;
  it has it as its first entry, and `clientHandler` removes it.
* A put carries the version its client last read (`gt_client.cpp:118`) plus one
  (`gt_storage_node.cpp:326`), so two puts may have the same version and a later
  one a lower version.
* `init` returns false when the manager does not listen yet
  (`gt_storage_node.cpp:127`), `main` ignores it (`test_gt_store.cpp:65`), and
  such a node answers lookups from an empty ring with an empty name
  (`README.md:46` promises the position from "any storage node"). `CallEnds` says
  what such a reply cannot do, and `ContactsCoordinator` that it sends nobody's
  request astray.
* A coordinator whose replicas both died acknowledges a put it alone has
  (`gt_storage_node.cpp:331` drops the result of `writeToNodes`).
* A put of the empty string has size 0, so `clientHandler` handles it as a read
  (`gt_storage_node.cpp:325`), every replica keeps the old value and `put` returns
  true; `README.md:57` says that the coordinator writes.
* Of a coordinator's name of more than 7 characters the client may read another
  node's (`gt_storage_node.cpp:365`), and sends its request there; `README.md:49`
  says that the coordinator is found. `ContactsCoordinator` says how far astray.
* The loop of `computeNumKeyPerStorageNode` does not advance `pre`
  (`gt_manager.h:121`), so on a ring of three entries or more a node is credited
  with keys it does not coordinate, although `gt_manager.h:92` announces the
  "number of keys per storage node". `StatsCountAgain` says what is counted.

The runs that pass say what holds *despite* these: linearizability and replica
convergence do not depend on versions growing, because every put and get of a
key goes through its one coordinator, which waits for both replicas; the
deadlock, the deaths and the exhaustion of descriptors stop calls but corrupt
nothing. `ReturnsWhileRoom` is what remains of `CallsReturn` in `descriptors`,
where `v_descriptors` shows that its exception does happen.

Bounds and why they suffice. Four nodes are one more than a preference list, as
in `test_gt_store.cpp`, so a key has a node outside its list and two keys can
cross. Two clients give all pairs of concurrent calls; a third adds only a longer
queue at a coordinator, where requests are served one at a time. An accept queue
of one place (`ListenQueue`; 10 in the code) makes `connect` block with two
callers; `v_deadlock` and the other violations use 10 to show that the queue is
not their cause. `VersionLimit` 2 or 3 (2^32 in the code) makes versions wrap
within the calls made. `MaxCalls` bounds each client's calls: 3 in
`contended_key`, so that a put, a get and another put of one client overlap those
of the other; 1 where deaths and two keys multiply the states. `MaxKills` bounds
what the environment kills; the deaths that follow from a kill are not bounded.
The ring needs 4 entries for two neighbours that are neither the first nor the
last, and a hash range larger (8) or barely larger (5) than their number for gaps
and collisions. In `descriptors` a node has 6 descriptors, a client 2: one request
coordinated uses 3 and one call 2, so nodes run out in the middle of a fan-out, at
an accept with and without a queue, and clients between two calls (with 2 calls
allowed) and, where a call was refused half-way, inside one; a limit of 1000
differs in how long it takes. `v_descriptors` gives one request (3) to a node and
4 to a client, no kill, one client. In `chain_live` the coordinator of `k1` waits
for that of `k2`, in `recv` and in `connect`, while the latter waits for two nodes
that coordinate nothing.

`startup` has the two storage nodes of the smallest cluster in which a coordinator
has a replica to wait for (`Quorum` 1), so that each may be late, dead or without a
ring, and so that a request meant for `n2` may reach `n1`, whose name begins alike
and which then has nobody to contact; two sessions, so that a second `init` follows
a `finalize` and a call follows both; two kills, so that the manager and a
peer, or the client it answers, may both die. `MaxStats` is 2: the second call of
`computeStats` adds to the counts of the first, with or without a join in
between. `manager_lists` exchanges the two nodes with one virtual node each
(`SYMMETRY`): nothing in the model or its properties tells them apart. `FourPerCall`
is proved and in no run: a limit that a small run exhausts implies it.

Deadlock checking is off in the configurations because the modelled system may
really stop: every client is done or dead, or every node is added. What may not
stop is stated by `NoDeadlock` and `CallsReturn` instead.

Fairness (`FairSpec` in `chain_live` and `startup`, `OpenFairSpec` in
`descriptors` and `v_descriptors`): weak fairness of each process's own steps,
`ClientStep`, `NodeStep`, `ManagerStep` and their counterparts with descriptors: a
process that can run, because the system call it is in can return, is eventually
scheduled by the kernel. Starting a process, a session or a call and being killed
are not forced, and neither is `Unblock`: nothing in the program closes the
descriptor a node may hang on, so `CallEnds` excepts a cluster with such a node.
`CallsReturn` counts a call from its first connection on: a client still blocked
in its first `connect` is not one in progress. `connect` to a full queue is a disabled step until there is room.
`AcceptFails` is a step of the node like the others: it is always enabled once the
descriptors are gone, so fairness to the node does not bring anybody an answer.

## Proofs

TLAPS checks, for all values of the constants that satisfy the named assumptions
of `GTStore` (disjoint sets of processes, lists of three distinct nodes with
ranks they have, one empty value), `GTStoreRefinement` (`None` is no call),
`Descriptors` (positive limits, clean buffers, a finite set of clients),
`Discovery` (disjoint processes, a list that names every node), `HashRing` (a
non-empty hash range) and `Manager` (each node's virtual nodes are numbered from
0, as its constructor does). Every invariant and every action property of a
passing run is the conclusion of one of these theorems; the few with hypotheses
of their own name them:

| theorem | what it says |
|---|---|
| `TypeCorrect` | `Spec => []TypeOK` |
| `RequestsInOnePlace` | `Spec => []RequestInOnePlace` |
| `ProtocolHolds` | `Spec => []Protocol`, the invariant behind these two |
| `InvariantHolds` | with `SameRanks`, `Spec => []IInv` |
| `ReplicasConverge` | with `SameRanks`, `Spec => []ReplicasAgree` |
| `AcknowledgedWrites` | with `SameRanks`, `Spec => AckedWriteReplicated` |
| `DeadlocksCross` | `Spec => []DeadlockCrosses` |
| `LoneClientNeverBlocks` | with a single client, `Spec => []NoDeadlock` |
| `LinearHolds` | with `CleanData`, `Spec => []LinearInv` |
| `Linearizable` | with `CleanData`, `Spec => ImplementsAtomicStore` |
| `OpenHolds` | with `CleanData`, `OpenSpec => []OpenInv` |
| `NothingStoredTwice` | with `CleanData`, `OpenSpec => StoredOnlyByRequests` |
| `ReplicasConvergeFull` | with `CleanData`, `OpenSpec => []ReplicasAgree` |
| `LinearizableFull` | with `CleanData`, `OpenSpec => ImplementsAtomicStore` |
| `OpenTypeCorrect` | with `CleanData`, `OpenSpec => []OpenTypeOK` |
| `DescriptorsLast` | with `CleanData`, `OpenSpec => []FourPerCall` |
| `StartupHolds` | `Spec => []StartupInv` of `Discovery` |
| `RequestsAnsweredOnce`, `RequestsReachCoordinator`, `UndisturbedStartIsComplete` | `AnsweredOnce`, `ContactsCoordinator`, `StartupComplete`, from it |
| `FindCorrect` | `RingSpec => []FindIsNearest` |
| `ConsistentHashing` | `RingSpec => OnlyNeighboursMove` |
| `CountsCorrect` | `RingSpec => []KeysCounted` |
| `ListsCorrect` | `ManagerSpec => []ListIsNearestNodes` |
| `Agreement` | `ManagerSpec => []CoordinatorsAgree` |
| `JoinsKeepOrder` | `ManagerSpec => JoinKeepsOrder` |
| `StatsCounted` | `ManagerSpec => StatsCountAgain` |
| `ListsSuitRequests` | `ManagerSpec => []WholeLists`: on a ring of at least as many nodes as a list is to have, the list is what `PrefListAssumption` asks for |

The argument for the data path. None of these invariants is inductive alone.
`TypeOK` needs that a reply a client takes for a coordinator's name is the reply
to a lookup, hence that every reply in a socket answers the call in progress;
`RequestInOnePlace` says that the reply can be of no other call, and needs in
turn that a queued packet carries what its sender is about (`QueueOK`), that a
coordinator is the coordinator of its key and has its client waiting
(`CoordinatorOK`), and that replies match (`ReplyOK`). Together they are
`Messages`, and `Protocol == TypeOK /\ Messages` is inductive with no further
assumption: it holds through every death. `ReplicasAgree` needs `FanOutOK`: while
a write is under way, the coordinator holds it, and so does each running replica
that the loop has passed and whose queue no longer contains the request. When the
last future is done no queue contains it, so the two replicas that are running
agree with the coordinator. That a replica's cell is written by nobody else
follows from `NodeConnectionOK`: the packet has the key and rank of the
coordinator of that key. `SameRanks` (coordinator and replicas have the rank;
true when all nodes have the same number of virtual nodes, as in all test
programs) is needed, as `v_uneven` shows without it.

An acknowledgement is read off `FanOutOK`: at the last future the loop has passed
every replica and no queue holds the request, so `AcknowledgedWrites` follows.

Deadlock. `v_deadlock` shows that coordinators may wait for each other when two
nodes replicate for each other, and on most rings some do, so no theorem can
exclude it. What can be proved is what it takes. By `CoordinatorOK` a
node waits, for a place in an accept queue or for a reply, only for a replica of
the key of the client's request it coordinates (`WaitsForReplica`); and by
`RequestInOnePlace` two running nodes never serve the same client
(`ServesOneClient`). So a group that blocks itself has as many clients' calls in
progress as members, and each member replicates its key on another
(`DeadlocksCross`, for any ring, queue length and deaths). One client alone never
gets there (`LoneClientNeverBlocks`), which is why no test program of the
repository meets the deadlock: each starts one client.

Linearizability. The coordinator's own copy is the atomic store's, and a call
takes effect in `ClientHandler`. For a put the step is `ApplyPut` because the
packet is what the client called with (`RequestsAsCalled`; with clean buffers
nothing else travels in it) and `PutCalls` keeps the empty value out. For a get
the value read is the one delivered because the copies a read sends and the
answers it gets have the version the coordinator holds (`ReadsCurrent`, which
needs `ReplicasAgree` at every read and hence `SameRanks`), so the merge never
replaces it. The other steps: `Begin` is `Begin`, `Return` is `Return`,
`ReturnLost` is `Abandon`, a death is `Fail`, and whatever else happens stutters.
`CleanData` names what is excluded: ranks (`v_uneven`), buffers (`v_garbled_get`)
and puts of the empty value.

Descriptors. Every step is a step of `GTStore` or quiet: it changes no data and
lets at most its own process exit. That a node handling `p` again is quiet needs
two facts about what is left in `p`: it is no client's packet, and what it would
write its node holds already (`LeftoverOK`), which in turn needs that an answer to
a get under way has what the coordinator holds (`ReadingOK`). With them `LinearInv`
and the simulation carry over. `FourPerCall` is not inductive, since descriptors
are opened long after the call that causes it: `Budget` adds to the open
descriptors of a node the connections in its queue and what all calls in progress
may still make some node open (`Left`: three while the coordinator's name is not
known, two for the replicas while the request is queued, then one for each replica
not yet contacted). This sum grows only when a call begins, by no more than four.

Discovery. `AnsweredOnce` is inductive only with what the queues hold: a queued
connection is what its client is about (`QueueOK`), an answer in a socket is the
list, the coordinator's name or, once the `name` mishap is noted, a name that
begins like it (`AnswerOK`), nodes never wait at nodes (`RolesOK`), and the client
whose request a node holds while it hangs is in its `request` (`QueueOK`).
`UndisturbedStartIsComplete` speaks of each process by itself: who has no list
asked too early or outlived the manager, whatever else went wrong elsewhere.

The proofs of the data path have one lemma per action for each of its parts, over lemmas on
queues (`AppendQueue`, `TailQueue`, `EnqueueEffect`, `DequeueEffect`) and on the
update of nested functions.

The argument for the ring: every entry sits at its own hash, so `Find` is the
smallest of the entries from the key on, or of all (`SmallestExists`, from the
well-foundedness of the naturals); clockwise distance from a key is injective
(`ClockwiseInjective`), which gives a single nearest entry before and after each
change.

The key counts follow from the same picture: the keys of an entry are the
interval after the entry before it (`KeysOfEntry`), or for the first entry the two
intervals that meet at the wrap.

The argument for the manager. The loops are recursive functions over the number
of entries or nodes passed. A recursive function has the values its equation
gives (`LoopExists`), and a fact holds after every iteration because otherwise
there would be a first at which it fails (`LoopInduction`). `ManagerInv` says that
the ring holds each entry at its hash and is the ring a storage node rebuilds from
the list; the latter is inductive because `RingOf` of a list with a node appended
is that node's virtual nodes added to `RingOf` of the list (`RingOfAppend`), so a
collision has the same winner on both sides. `Walk` visits the entries in
ascending clockwise distance from the key (`WalkOrder`), so after every iteration
the list is that of the nodes nearest to the key among the entries passed
(`Nearest`, `NearestStep`). At the end these are all entries (`NearestList`), which
is `ListIsNearestNodes`, and a list is determined by being nearest. The manager's
loop starts from the list that the storage node's has after one iteration, so the
two agree (`SameLists`). A join leaves all entries of the others where they are
(`RingStays`), and the nearest nodes with one more among them are the old ones with
that one put in at one place or not at all (`JoinedList`). For the statistics,
the keys counted for an entry are those of the interval from the first entry to
it, or, for the first, of the two intervals that meet at the wrap (`EntryCount`);
summed over a node's entries (`Sums`) they are the pairs of a key and an entry it
is counted for (`NodeCount`). `StatsCountAgain` states this sum in the arithmetic
of the unsigned counter, so it says neither too much nor too little of a count
that has wrapped.

Only model-checked: `CallsReturn`, `ReturnsWhileRoom`, `InitReturns` and
`CallEnds`. They are liveness properties under fairness, out of the prover's reach.

## Not modelled

* *Event-loop errors* other than those for want of descriptors: partial `recv`,
  the uninitialised `bytecount` of `run` (if it happens to be -1 the node leaves
  its loop at a message, which is a death to everybody else, as `Kill` is), a
  caller that closes without sending (no caller of this code does).
* *The manager's descriptors* (it closes no connection either: it stops answering
  after about a thousand `init` calls) and the buffers nobody frees.
* *Wire formats*: keys that are not 20 bytes, values of more than 1024, node
  names of more than 19, more than 100 nodes.
* *Functions that end without a `return`* on some path, which is undefined.
* *Data on preference lists shorter than three*: with fewer than three nodes the
  coordinator reads past its socket vector. `Discovery` has what can become of
  the call (for a misdirected request); what is stored then is in no model.
* *An empty ring in `computeStats`* (dereferencing `end()`). The look-ups on an
  empty ring are in `Discovery`.
* Output, the test programs, the build tree.

## What is left

* The composition of `Discovery` and `GTStore` in one state space: nodes without
  a ring beside nodes with one, while data is written. `Discovery` follows a call
  to its answer but keeps no data, and `GTStore` starts from complete lists.
* Lists of one and two nodes in `GTStore`, with the out-of-range `recv` as a
  nondeterministic outcome.

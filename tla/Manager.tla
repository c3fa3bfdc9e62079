------------------------------ MODULE Manager -------------------------------
(***************************************************************************)
(* The manager's storage nodes and ring, the rings that storage nodes      *)
(* build from its answer, and the preference lists both derive: for a key, *)
(* the first virtual nodes clockwise that belong to different nodes.       *)
(***************************************************************************)
EXTENDS HashRing, Sequences, FiniteSetsExt

CONSTANTS
  Nodes,      \* storage nodes that may be added
  NumVNodes,  \* [Nodes -> Nat], their numbers of virtual nodes
  MaxStats    \* bound: calls of computeStats

ASSUME ManagerAssumption ==
  /\ NumVNodes \in [Nodes -> Nat]
  /\ VNodes = UNION {{[node |-> n, rank |-> i - 1] : i \in 1 .. NumVNodes[n]} :
                       n \in Nodes}
  /\ MaxStats \in Nat

VARIABLES
  nodes,    \* Manager::nodes, in the order they were added
  numKeys,  \* Manager::numKeys, 0 when absent
  stats     \* number of calls of computeStats

managerVars == <<ringVars, nodes, numKeys, stats>>

Added == {nodes[i] : i \in 1 .. Len(nodes)}

(* StorageNode's constructor numbers its virtual nodes from 0.             *)
AddVirtualNodes(r, n) ==
  LET after[i \in 0 .. NumVNodes[n]] ==
        IF i = 0 THEN r ELSE Insert(after[i - 1], [node |-> n, rank |-> i - 1])
  IN  after[NumVNodes[n]]

(* addNodesToRing: the ring a storage node builds from the manager's list. *)
RingOf(ns) ==
  LET after[i \in 0 .. Len(ns)] ==
        IF i = 0 THEN EmptyRing ELSE AddVirtualNodes(after[i - 1], ns[i])
  IN  after[Len(ns)]

NodeRing == RingOf(nodes)

-----------------------------------------------------------------------------
(* Preference lists.                                                       *)

(* The entries in the order of the two loops: from find to end(), then     *)
(* from begin() to find.                                                   *)
Ascending(S) ==
  [i \in 1 .. Cardinality(S) |->
     CHOOSE h \in S : Cardinality({g \in S : g < h}) = i - 1]

(* (fault) the second loop is missing.                                     *)
WalkToEnd(r, key) ==
  LET hs == Ascending(Taken(r))
      i  == CHOOSE j \in 1 .. Len(hs) : hs[j] = Find(r, key)
  IN  SubSeq(hs, i, Len(hs))

Walk(r, key) ==
  LET hs == Ascending(Taken(r))
      i  == CHOOSE j \in 1 .. Len(hs) : hs[j] = Find(r, key)
  IN  SubSeq(hs, i, Len(hs)) \o SubSeq(hs, 1, i - 1)

(* One iteration: skip a storage node that the list has already.           *)
AddEntry(list, v, size) ==
  IF Len(list) < size /\ \A i \in 1 .. Len(list) : list[i].node # v.node
  THEN Append(list, v) ELSE list

(* The loops over the entries w, on a list that starts as first.           *)
ListAfter(r, w, first, size) ==
  LET list[i \in 0 .. Len(w)] ==
        IF i = 0 THEN first ELSE AddEntry(list[i - 1], r[w[i]], size)
  IN  list[Len(w)]

(* StorageNode::getPreferenceList                                          *)
PreferenceList(r, key, size) == ListAfter(r, Walk(r, key), <<>>, size)

(* (fault) the search goes on from begin() instead of from find.           *)
ListFromBegin(r, key, size) ==
  ListAfter(r, Ascending(Taken(r)), <<Owner(r, key)>>, size)

(* Manager::getPreferenceList, which puts the first entry in beforehand.   *)
ManagerPreferenceList(r, key, size) ==
  ListAfter(r, Tail(Walk(r, key)), <<Owner(r, key)>>, size)

FindCoordinator(r, key) == Owner(r, key)

-----------------------------------------------------------------------------
(* computeNumKeyPerStorageNode: the first entry counts from the last one   *)
(* round the end; every later one counts from the first, because pre is    *)
(* never advanced.                                                         *)
KeysAddedShort(n) ==                     \* (fault) the + 1 is missing
  LET first == Smallest(Taken(ring))
      last  == Largest(Taken(ring))
      diff(h) == IF h = first THEN (maxKey - last) + first ELSE h - first
  IN  MapThenSumSet(diff, {h \in Taken(ring) : ring[h].node = n})

KeysAdded(n) ==
  LET first == Smallest(Taken(ring))
      last  == Largest(Taken(ring))
      diff(h) == IF h = first THEN (maxKey - last) + first + 1 ELSE h - first
  IN  MapThenSumSet(diff, {h \in Taken(ring) : ring[h].node = n})

ManagerInit ==
  /\ RingInit
  /\ nodes = <<>>
  /\ numKeys = [n \in Nodes |-> 0]
  /\ stats = 0

AddStorageNode(n) ==
  /\ n \notin Added
  /\ nodes' = Append(nodes, n)
  /\ ring' = AddVirtualNodes(ring, n)
  /\ UNCHANGED <<hash, numKeys, stats>>

(* On an empty ring the code decrements the end of an empty map.           *)
ComputeStats ==
  /\ stats < MaxStats /\ Taken(ring) # {}
  /\ stats' = stats + 1
  /\ numKeys' = [n \in Nodes |-> (numKeys[n] + KeysAdded(n)) % HashSpace]
  /\ UNCHANGED <<ringVars, nodes>>

ManagerNext == ComputeStats \/ \E n \in Nodes : AddStorageNode(n)

ManagerSpec == ManagerInit /\ [][ManagerNext]_managerVars

-----------------------------------------------------------------------------
Sizes == 1 .. 3
OnRing(r) == {r[h].node : h \in Taken(r)}

(***************************************************************************)
(* A preference list names the storage nodes nearest to the key, nearest   *)
(* first, each once and with the rank of its nearest virtual node; it is   *)
(* shorter than asked only when the ring has too few nodes.  GTStore       *)
(* assumes no more than this of PrefList.                                  *)
(***************************************************************************)
Distance(r, key, n) ==
  Smallest({Clockwise(key, h) : h \in {g \in Taken(r) : r[g].node = n}})

ListIsNearestNodes ==
  \A key \in Hashes, size \in Sizes :
    Taken(ring) # {} =>
      LET list == PreferenceList(ring, key, size)
          there == {list[i].node : i \in 1 .. Len(list)}
      IN  /\ Len(list) = Smallest({size, Cardinality(OnRing(ring))})
          /\ \A i, j \in 1 .. Len(list) :
               i < j => Distance(ring, key, list[i].node)
                          < Distance(ring, key, list[j].node)
          /\ \A n \in there, m \in OnRing(ring) \ there :
               Distance(ring, key, n) < Distance(ring, key, m)
          /\ \A i \in 1 .. Len(list) :
               /\ list[i].rank < NumVNodes[list[i].node]
               /\ Clockwise(key, hash[list[i]]) = Distance(ring, key, list[i].node)

(***************************************************************************)
(* Everybody agrees: the ring a storage node rebuilds from the manager's   *)
(* list is the manager's, hash collisions included, and on it the manager  *)
(* and the node derive the same list, with the coordinator in front.       *)
(***************************************************************************)
CoordinatorsAgree ==
  /\ NodeRing = ring
  /\ \A key \in Hashes, size \in Sizes :
       Taken(ring) # {} =>
         LET list == ManagerPreferenceList(ring, key, size)
         IN  /\ PreferenceList(ring, key, size) = list
             /\ FindCoordinator(ring, key) = list[1]

(***************************************************************************)
(* A storage node that joins enters the preference lists of some keys and  *)
(* changes them in no other way: the new list is the old one with the      *)
(* newcomer at one place, if at all, and the entries from there on moved   *)
(* by one, the last one out when the list was full.                        *)
(***************************************************************************)
JoinKeepsOrder ==
  [][\A n \in Nodes, key \in Hashes, size \in Sizes :
       nodes' = Append(nodes, n) /\ Taken(ring) # {}
       => LET before == PreferenceList(ring, key, size)
              after  == PreferenceList(ring', key, size)
          IN  \E at \in 1 .. Len(after) + 1 : \A i \in 1 .. Len(after) :
                /\ i < at => i <= Len(before) /\ after[i] = before[i]
                /\ i = at => after[i].node = n
                /\ i > at => i - 1 <= Len(before) /\ after[i] = before[i - 1]]_managerVars

(***************************************************************************)
(* What computeStats adds up: every key once for the entry that owns it,   *)
(* and once more for every entry behind that one, unless the owner is the  *)
(* first entry; on top of the counts of earlier calls, modulo the range of *)
(* the unsigned counters.                                                  *)
(***************************************************************************)
CountedFor(key, h) ==
  LET owner == Find(ring, key)
  IN  owner = h \/ (Smallest(Taken(ring)) < owner /\ owner < h)

Credits(n) ==
  Cardinality({kh \in Hashes \X Taken(ring) :
                 ring[kh[2]].node = n /\ CountedFor(kh[1], kh[2])})

StatsCountAgain ==
  [][stats' # stats =>
       \A n \in Nodes :
         numKeys'[n] = (numKeys[n] + Credits(n)) % HashSpace]_managerVars
=============================================================================

------------------------------ MODULE HashRing ------------------------------
(***************************************************************************)
(* ConsistentHashRing: an ordered map from hashes to the virtual nodes     *)
(* placed there.  A key belongs to the first virtual node clockwise from   *)
(* its own hash.  The hash function is arbitrary but fixed.                *)
(***************************************************************************)
EXTENDS Naturals, FiniteSets

CONSTANTS
  VNodes,     \* what the ring holds, its template argument T
  HashSpace   \* 2^64 in the code: the number of values of std::size_t

ASSUME HashSpaceAssumption == HashSpace \in Nat \ {0}

Hashes == 0 .. (HashSpace - 1)
maxKey == HashSpace - 1

VARIABLES
  hash,   \* the Hasher: [VNodes -> Hashes]
  ring    \* the map nodes: a function on the hashes that are taken

ringVars == <<hash, ring>>

EmptyRing == [h \in {} |-> {}]
Taken(r)  == DOMAIN r

Smallest(S) == CHOOSE h \in S : \A g \in S : h <= g
Largest(S)  == CHOOSE h \in S : \A g \in S : g <= h

(* (fault) an entry that is there already is replaced.                     *)
Replace(r, v) ==
  [h \in Taken(r) \cup {hash[v]} |-> IF h = hash[v] THEN v ELSE r[h]]

(* std::map::insert: an entry that is there already stays.                 *)
Insert(r, v) ==
  [h \in Taken(r) \cup {hash[v]} |-> IF h \in Taken(r) THEN r[h] ELSE v]

EraseAt(r, h) == [g \in Taken(r) \ {h} |-> r[g]]

UpperBound(r, key) == {h \in Taken(r) : h > key}   \* (fault)

(* Where a key is looked up: lower_bound, or begin() past the last entry.  *)
LowerBound(r, key) == {h \in Taken(r) : h >= key}

Find(r, key) ==
  IF LowerBound(r, key) # {} THEN Smallest(LowerBound(r, key))
                             ELSE Smallest(Taken(r))

Owner(r, key) == r[Find(r, key)]

(* computeNumKeysPerNode: the count it prints for the entry at h, in the   *)
(* arithmetic of an unsigned type.                                         *)
Previous(r, h) ==
  LET below == {g \in Taken(r) : g < h}
  IN  IF below # {} THEN Largest(below) ELSE Largest(Taken(r))

(* (fault) one key short when the range wraps.                             *)
NumKeysShort(r, h) ==
  LET pre == Previous(r, h)
  IN  (IF h > pre THEN h - pre ELSE (maxKey - pre) + h) % HashSpace

NumKeysAt(r, h) ==
  LET pre == Previous(r, h)
  IN  (IF h > pre THEN h - pre ELSE (maxKey - pre) + h + 1) % HashSpace

-----------------------------------------------------------------------------
RingInit ==
  /\ hash \in [VNodes -> Hashes]
  /\ ring = EmptyRing

RingInsert(v) == ring' = Insert(ring, v) /\ UNCHANGED hash

(* erase(iterator)                                                         *)
RingEraseAt(h) == h \in Taken(ring) /\ ring' = EraseAt(ring, h) /\ UNCHANGED hash

(* erase(node): whatever is at the hash of the node goes.                  *)
RingErase(v) == ring' = EraseAt(ring, hash[v]) /\ UNCHANGED hash

RingNext ==
  \/ \E v \in VNodes : RingInsert(v) \/ RingErase(v)
  \/ \E h \in Hashes : RingEraseAt(h)

RingSpec == RingInit /\ [][RingNext]_ringVars

-----------------------------------------------------------------------------
(* The map's keys are hashes and each entry sits at its own hash.          *)
RingTypeOK ==
  /\ hash \in [VNodes -> Hashes]
  /\ Taken(ring) \subseteq Hashes
  /\ \A h \in Taken(ring) : ring[h] \in VNodes /\ hash[ring[h]] = h

(***************************************************************************)
(* find returns the entry nearest to the key going clockwise, also when it *)
(* has to wrap past the largest hash.                                      *)
(***************************************************************************)
Clockwise(key, h) == IF h >= key THEN h - key ELSE (h + HashSpace) - key

FindIsNearest ==
  Taken(ring) # {} =>
    \A key \in Hashes :
      /\ Find(ring, key) \in Taken(ring)
      /\ \A h \in Taken(ring) :
           Clockwise(key, Find(ring, key)) <= Clockwise(key, h)

(***************************************************************************)
(* The keys per node that computeNumKeysPerNode prints are the numbers of  *)
(* keys that find sends there, modulo the unsigned type's range.           *)
(***************************************************************************)
KeysCounted ==
  \A h \in Taken(ring) :
    NumKeysAt(ring, h)
      = Cardinality({key \in Hashes : Find(ring, key) = h}) % HashSpace

(***************************************************************************)
(* Consistent hashing: a key changes owner only to move to a place that    *)
(* was free, or because its owner's place was given up.  Nobody else's     *)
(* keys move.                                                              *)
(***************************************************************************)
OnlyNeighboursMove ==
  [][\A key \in Hashes :
       Taken(ring) # {} /\ Taken(ring') # {}
         /\ Owner(ring', key) # Owner(ring, key)
       => \/ Find(ring, key) \notin Taken(ring')
          \/ Find(ring', key) \notin Taken(ring)]_ringVars
=============================================================================

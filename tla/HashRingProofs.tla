--------------------------- MODULE HashRingProofs ---------------------------
(***************************************************************************)
(* Proofs that lookups on the ring find the nearest entry, and that a ring *)
(* that changes moves only the keys it has to, for every hash function,    *)
(* every number of virtual nodes and every hash space.                     *)
(***************************************************************************)
EXTENDS HashRing, FiniteSetTheorems, TLAPS

(* A set of hashes that is not empty has a least element.                  *)
LEMMA SmallestExists ==
  ASSUME NEW S \in SUBSET Nat, S # {}
  PROVE  Smallest(S) \in S /\ \A g \in S : Smallest(S) <= g
<1>1. PICK h \in S : \A g \in S : ~(<<g, h>> \in OpToRel(<, Nat))
  BY NatLessThanWellFounded, WFMin
<1>2. ASSUME NEW g \in S
      PROVE  h <= g
  <2>1. <<g, h>> \in Nat \X Nat /\ ~(<<g, h>> \in OpToRel(<, Nat))
    BY <1>1
  <2>2. ~(g < h)
    BY <2>1 DEF OpToRel
  <2>. QED
    BY <2>2
<1>. QED
  BY <1>2 DEF Smallest

(* One that has an upper bound has a greatest.                             *)
LEMMA LargestExists ==
  ASSUME NEW S \in SUBSET Nat, S # {}, NEW b \in Nat, \A g \in S : g <= b
  PROVE  Largest(S) \in S /\ \A g \in S : g <= Largest(S)
<1>. DEFINE D == {d \in Nat : d <= b /\ b - d \in S}
<1>1. D \in SUBSET Nat /\ \A g \in S : b - g \in D
  <2>1. ASSUME NEW g \in S PROVE b - g \in D
    <3>1. g \in Nat /\ g <= b
      OBVIOUS
    <3>2. b - g \in Nat /\ b - g <= b /\ b - (b - g) = g
      BY <3>1
    <3>. QED
      BY <3>2
  <2>. QED
    BY <2>1
<1>2. Smallest(D) \in D /\ \A d \in D : Smallest(D) <= d
  BY <1>1, SmallestExists
<1>. DEFINE h == b - Smallest(D)
<1>3. h \in S
  BY <1>2
<1>4. ASSUME NEW g \in S
      PROVE  g <= h
  <2>1. Smallest(D) <= b - g /\ Smallest(D) \in Nat /\ g \in Nat
    BY <1>1, <1>2
  <2>. QED
    BY <2>1
<1>. QED
  BY <1>3, <1>4 DEF Largest

LEMMA RingInvariant == RingSpec => []RingTypeOK
<1>1. RingInit => RingTypeOK
  BY DEF RingInit, RingTypeOK, EmptyRing, Taken
<1>2. RingTypeOK /\ [RingNext]_ringVars => RingTypeOK'
  <2>. SUFFICES ASSUME RingTypeOK, [RingNext]_ringVars
                PROVE  RingTypeOK'
    OBVIOUS
  <2>1. ASSUME NEW v \in VNodes, RingInsert(v)
        PROVE  RingTypeOK'
    BY <2>1 DEF RingInsert, Insert, RingTypeOK, Taken
  <2>2. ASSUME NEW h, ring' = EraseAt(ring, h), hash' = hash
        PROVE  RingTypeOK'
    BY <2>2 DEF EraseAt, RingTypeOK, Taken
  <2>. QED
    BY <2>1, <2>2 DEF RingNext, RingErase, RingEraseAt, ringVars, RingTypeOK, Taken
<1>. QED
  BY <1>1, <1>2, PTL DEF RingSpec

(* The entry find returns is the nearest going clockwise.                  *)
LEMMA FindNearest ==
  ASSUME NEW r, Taken(r) \subseteq Hashes, Taken(r) # {}, NEW key \in Hashes
  PROVE  /\ Find(r, key) \in Taken(r)
         /\ \A h \in Taken(r) : Clockwise(key, Find(r, key)) <= Clockwise(key, h)
<1>. DEFINE T == Taken(r)
            B == LowerBound(r, key)
<1>0. HashSpace \in Nat /\ T \in SUBSET Nat /\ B \subseteq T /\ key \in Nat
  BY HashSpaceAssumption DEF Hashes, LowerBound
<1>1. CASE B # {}
  <2>1. /\ Smallest(B) \in B /\ \A g \in B : Smallest(B) <= g
        /\ Find(r, key) = Smallest(B)
    BY <1>0, <1>1, SmallestExists DEF Find
  <2>2. \A h \in T : h \in Nat /\ h < HashSpace
    BY <1>0, HashSpaceAssumption DEF Hashes
  <2>3. /\ Find(r, key) \in T /\ Find(r, key) >= key
        /\ \A h \in T : h >= key => Find(r, key) <= h
    BY <2>1 DEF LowerBound
  <2>4. key < HashSpace
    BY HashSpaceAssumption DEF Hashes
  <2>5. /\ Clockwise(key, Find(r, key)) = Find(r, key) - key
        /\ \A h \in T : Clockwise(key, h) = IF h >= key THEN h - key
                                                        ELSE (h + HashSpace) - key
    BY <2>3 DEF Clockwise
  <2>. QED
    BY <1>0, <2>2, <2>3, <2>4, <2>5
<1>2. CASE B = {}
  <2>1. /\ Smallest(T) \in T /\ \A g \in T : Smallest(T) <= g
        /\ Find(r, key) = Smallest(T)
    BY <1>0, <1>2, SmallestExists DEF Find
  <2>2. \A h \in T : ~(h >= key)
    BY <1>2 DEF LowerBound
  <2>3. \A h \in T : Clockwise(key, h) = (h + HashSpace) - key /\ h \in Nat
    BY <1>0, <2>2 DEF Clockwise
  <2>. QED
    BY <1>0, <2>1, <2>3
<1>. QED
  BY <1>1, <1>2

(* No two hashes are equally far from a key.                               *)
LEMMA ClockwiseInjective ==
  ASSUME NEW key \in Hashes, NEW g \in Hashes, NEW h \in Hashes,
         Clockwise(key, g) = Clockwise(key, h)
  PROVE  g = h
BY HashSpaceAssumption DEF Hashes, Clockwise

(***************************************************************************)
(* find returns the nearest entry in every ring that can be built.         *)
(***************************************************************************)
THEOREM FindCorrect == RingSpec => []FindIsNearest
<1>1. RingTypeOK => FindIsNearest
  BY FindNearest DEF RingTypeOK, FindIsNearest
<1>. QED
  BY <1>1, RingInvariant, PTL

(***************************************************************************)
(* Consistent hashing: only the keys of the entry that leaves, or of the   *)
(* entry the newcomer is placed before, change owner.                      *)
(***************************************************************************)
THEOREM ConsistentHashing == RingSpec => OnlyNeighboursMove
<1>. DEFINE Move(key) ==
       Taken(ring) # {} /\ Taken(ring') # {}
         /\ Owner(ring', key) # Owner(ring, key)
       => \/ Find(ring, key) \notin Taken(ring')
          \/ Find(ring', key) \notin Taken(ring)
<1>1. ASSUME RingTypeOK, RingTypeOK', [RingNext]_ringVars, NEW key \in Hashes
      PROVE  Move(key)
  <2>. SUFFICES ASSUME Taken(ring) # {}, Taken(ring') # {},
                       Find(ring, key) \in Taken(ring'),
                       Find(ring', key) \in Taken(ring)
                PROVE  Owner(ring', key) = Owner(ring, key)
    OBVIOUS
  <2>. DEFINE f == Find(ring, key)
              g == Find(ring', key)
  <2>1. Taken(ring) \subseteq Hashes /\ Taken(ring') \subseteq Hashes
    BY <1>1 DEF RingTypeOK, Taken
  <2>2. /\ f \in Taken(ring) /\ g \in Taken(ring')
        /\ Clockwise(key, f) <= Clockwise(key, g)
        /\ Clockwise(key, g) <= Clockwise(key, f)
    BY <1>1, <2>1, FindNearest
  <2>3. f = g
    <3>1. Clockwise(key, f) \in Int /\ Clockwise(key, g) \in Int
      BY <2>1, <2>2, HashSpaceAssumption DEF Clockwise, Hashes
    <3>. QED
      BY <2>1, <2>2, <3>1, ClockwiseInjective
  <2>4. \A h \in Taken(ring) \cap Taken(ring') : ring'[h] = ring[h]
    BY <1>1 DEF RingNext, RingInsert, RingErase, RingEraseAt, Insert, EraseAt,
                Taken, ringVars
  <2>. QED
    BY <2>2, <2>3, <2>4 DEF Owner
<1>2. RingTypeOK /\ RingTypeOK' /\ [RingNext]_ringVars
        => [\A key \in Hashes : Move(key)]_ringVars
  BY <1>1
<1>. QED
  BY <1>2, RingInvariant, PTL DEF RingSpec, OnlyNeighboursMove

(* The keys that find sends to an entry are those after the previous one.  *)
LEMMA KeysBetween ==
  ASSUME NEW r, Taken(r) \subseteq Hashes, NEW h \in Taken(r),
         {g \in Taken(r) : g < h} # {}
  PROVE  /\ Previous(r, h) \in Hashes /\ Previous(r, h) < h
         /\ {key \in Hashes : Find(r, key) = h} = (Previous(r, h) + 1) .. h
<1>. DEFINE T == Taken(r)
            below == {g \in T : g < h}
            pre == Previous(r, h)
<1>0. HashSpace \in Nat \ {0} /\ T \in SUBSET Nat /\ \A g \in T : g <= HashSpace - 1
  BY HashSpaceAssumption DEF Hashes
<1>1. pre \in below /\ \A g \in below : g <= pre
  <2>1. Largest(below) \in below /\ \A g \in below : g <= Largest(below)
    <3>1. /\ below \in SUBSET Nat /\ below # {} /\ HashSpace - 1 \in Nat
          /\ \A g \in below : g <= HashSpace - 1
      BY <1>0
    <3>. HIDE DEF below
    <3>. QED
      BY <3>1, LargestExists
  <2>2. pre = Largest(below)
    BY DEF Previous
  <2>. QED
    BY <2>1, <2>2
<1>2. ASSUME NEW key \in Hashes
      PROVE  Find(r, key) = h <=> key \in (pre + 1) .. h
  <2>1. key \in Nat /\ h \in Nat /\ pre \in Nat /\ pre < h /\ pre \in T
    BY <1>0, <1>1 DEF Hashes
  <2>2. /\ Find(r, key) \in T
        /\ LowerBound(r, key) # {} =>
             Find(r, key) >= key /\ \A g \in T : g >= key => Find(r, key) <= g
        /\ LowerBound(r, key) = {} => \A g \in T : Find(r, key) <= g /\ g < key
    <3>1. CASE LowerBound(r, key) # {}
      <4>1. LowerBound(r, key) \in SUBSET Nat
        BY <1>0 DEF LowerBound
      <4>. QED
        BY <3>1, <4>1, SmallestExists DEF Find, LowerBound
    <3>2. CASE LowerBound(r, key) = {}
      <4>1. \A g \in T : g < key
        BY <1>0, <2>1, <3>2 DEF LowerBound
      <4>2. Smallest(T) \in T /\ \A g \in T : Smallest(T) <= g
        BY <1>0, SmallestExists
      <4>. QED
        BY <3>2, <4>1, <4>2 DEF Find
    <3>. QED
      BY <3>1, <3>2
  <2>3. ASSUME key \in (pre + 1) .. h PROVE Find(r, key) = h
    <3>1. LowerBound(r, key) # {}
      BY <2>1, <2>3 DEF LowerBound
    <3>2. Find(r, key) \in T /\ Find(r, key) >= key /\ Find(r, key) <= h
      BY <2>1, <2>2, <2>3, <3>1
    <3>3. ~(Find(r, key) < h)
      <4>1. SUFFICES ASSUME Find(r, key) < h PROVE FALSE
        OBVIOUS
      <4>2. Find(r, key) <= pre /\ Find(r, key) \in Nat
        BY <1>0, <1>1, <3>2, <4>1
      <4>. QED
        BY <2>1, <2>3, <3>2, <4>2
    <3>. QED
      BY <1>0, <2>1, <3>2, <3>3
  <2>4. ASSUME Find(r, key) = h PROVE key \in (pre + 1) .. h
    <3>1. LowerBound(r, key) # {}
      BY <2>1, <2>2, <2>4
    <3>2. key <= h /\ ~(key <= pre)
      BY <2>1, <2>2, <2>4, <3>1
    <3>. QED
      BY <2>1, <3>2
  <2>. QED
    BY <2>3, <2>4
<1>3. (pre + 1) .. h \subseteq Hashes
  BY <1>0, <1>1 DEF Hashes
<1>. QED
  BY <1>0, <1>1, <1>2, <1>3

(* The first entry also gets the keys after the last one.                  *)
LEMMA KeysRound ==
  ASSUME NEW r, Taken(r) \subseteq Hashes, NEW h \in Taken(r),
         {g \in Taken(r) : g < h} = {}
  PROVE  /\ Previous(r, h) \in Hashes /\ h <= Previous(r, h)
         /\ {key \in Hashes : Find(r, key) = h}
              = (0 .. h) \cup ((Previous(r, h) + 1) .. maxKey)
<1>. DEFINE T == Taken(r)
            pre == Previous(r, h)
<1>0. HashSpace \in Nat \ {0} /\ T \in SUBSET Nat /\ \A g \in T : g <= HashSpace - 1
  BY HashSpaceAssumption DEF Hashes
<1>1. pre \in T /\ \A g \in T : g <= pre /\ h <= g
  <2>1. Largest(T) \in T /\ \A g \in T : g <= Largest(T)
    BY <1>0, LargestExists
  <2>2. \A g \in T : h <= g
    BY <1>0
  <2>. QED
    BY <2>1, <2>2 DEF Previous
<1>2. ASSUME NEW key \in Hashes
      PROVE  Find(r, key) = h <=> key <= h \/ key > pre
  <2>1. key \in Nat /\ h \in Nat /\ pre \in Nat
    BY <1>0, <1>1 DEF Hashes
  <2>2. CASE LowerBound(r, key) # {}
    <3>1. /\ Find(r, key) \in T /\ Find(r, key) >= key
          /\ \A g \in T : g >= key => Find(r, key) <= g
      <4>1. LowerBound(r, key) \in SUBSET Nat
        BY <1>0 DEF LowerBound
      <4>. QED
        BY <2>2, <4>1, SmallestExists DEF Find, LowerBound
    <3>2. Find(r, key) \in Nat /\ h <= Find(r, key) /\ Find(r, key) <= pre
      BY <1>0, <1>1, <3>1
    <3>. QED
      BY <2>1, <3>1, <3>2
  <2>3. CASE LowerBound(r, key) = {}
    <3>1. Smallest(T) \in T /\ \A g \in T : Smallest(T) <= g
      BY <1>0, SmallestExists
    <3>2. Find(r, key) = h
      BY <1>0, <1>1, <2>1, <2>3, <3>1 DEF Find
    <3>3. ~(pre >= key)
      BY <1>1, <2>3 DEF LowerBound
    <3>. QED
      BY <2>1, <3>2, <3>3
  <2>. QED
    BY <2>2, <2>3
<1>3. ASSUME NEW key
      PROVE  key \in Hashes /\ (key <= h \/ key > pre)
               <=> key \in (0 .. h) \cup ((pre + 1) .. maxKey)
  BY <1>0, <1>1 DEF Hashes, maxKey
<1>. QED
  BY <1>1, <1>2, <1>3

(* So many keys find sends to an entry.                                    *)
LEMMA KeysOfEntry ==
  ASSUME RingTypeOK, NEW h \in Taken(ring)
  PROVE  Cardinality({key \in Hashes : Find(ring, key) = h})
           = IF h > Previous(ring, h) THEN h - Previous(ring, h)
             ELSE (maxKey - Previous(ring, h)) + h + 1
<1>. DEFINE pre == Previous(ring, h)
            K == {key \in Hashes : Find(ring, key) = h}
<1>1. /\ Taken(ring) \subseteq Hashes /\ h \in Nat
      /\ maxKey \in Nat /\ h <= maxKey /\ HashSpace \in Nat
  BY HashSpaceAssumption DEF RingTypeOK, Hashes, maxKey
<1>2. CASE {g \in Taken(ring) : g < h} # {}
  <2>1. pre \in Nat /\ pre < h /\ K = (pre + 1) .. h
    BY <1>1, <1>2, KeysBetween DEF Hashes
  <2>. HIDE DEF pre, K
  <2>2. Cardinality(K) = h - pre
    <3>1. pre + 1 \in Int /\ h \in Int /\ ~(pre + 1 > h) /\ h - (pre + 1) + 1 = h - pre
      BY <1>1, <2>1
    <3>2. Cardinality((pre + 1) .. h) = h - (pre + 1) + 1
      BY <3>1, FS_Interval, Zenon
    <3>. QED
      BY <2>1, <3>1, <3>2
  <2>3. h > pre
    BY <1>1, <2>1
  <2>. QED
    BY <2>2, <2>3 DEF K, pre
<1>3. CASE {g \in Taken(ring) : g < h} = {}
  <2>1. /\ pre \in Nat /\ h <= pre /\ pre <= maxKey
        /\ K = (0 .. h) \cup ((pre + 1) .. maxKey)
    BY <1>1, <1>3, KeysRound, HashSpaceAssumption DEF Hashes, maxKey
  <2>. HIDE DEF pre, K
  <2>2. IsFiniteSet(0 .. h) /\ Cardinality(0 .. h) = h + 1
    <3>1. 0 \in Int /\ h \in Int /\ ~(0 > h) /\ h - 0 + 1 = h + 1
      BY <1>1
    <3>. QED
      BY <3>1, FS_Interval, Zenon
  <2>3. /\ IsFiniteSet((pre + 1) .. maxKey)
        /\ Cardinality((pre + 1) .. maxKey) = maxKey - pre
    <3>1. pre + 1 \in Int /\ maxKey \in Int /\ maxKey - (pre + 1) + 1 = maxKey - pre
      BY <1>1, <2>1
    <3>2. IsFiniteSet((pre + 1) .. maxKey)
          /\ Cardinality((pre + 1) .. maxKey)
               = IF pre + 1 > maxKey THEN 0 ELSE maxKey - (pre + 1) + 1
      BY <3>1, FS_Interval, Zenon
    <3>3. pre + 1 > maxKey => maxKey - pre = 0
      BY <1>1, <2>1
    <3>. QED
      BY <3>1, <3>2, <3>3
  <2>4. (0 .. h) \cap ((pre + 1) .. maxKey) = {}
    BY <1>1, <2>1
  <2>5. Cardinality(K) = (h + 1) + (maxKey - pre)
    <3>1. Cardinality(K) = Cardinality(0 .. h) + Cardinality((pre + 1) .. maxKey)
                             - Cardinality((0 .. h) \cap ((pre + 1) .. maxKey))
      BY <2>1, <2>2, <2>3, FS_Union, Zenon
    <3>2. Cardinality((0 .. h) \cap ((pre + 1) .. maxKey)) = 0
      BY <2>4, FS_EmptySet
    <3>. QED
      BY <1>1, <2>1, <2>2, <2>3, <3>1, <3>2
  <2>6. ~(h > pre)
    BY <1>1, <2>1
  <2>7. (maxKey - pre) + h + 1 = (h + 1) + (maxKey - pre)
    BY <1>1, <2>1
  <2>. QED
    BY <2>5, <2>6, <2>7 DEF K, pre
<1>. QED
  BY <1>2, <1>3

(***************************************************************************)
(* What computeNumKeysPerNode prints for an entry is the number of keys    *)
(* that find sends there, for every ring and hash space, the ranges that   *)
(* wrap around the largest hash included.                                  *)
(***************************************************************************)
THEOREM CountsCorrect == RingSpec => []KeysCounted
<1>1. RingTypeOK => KeysCounted
  BY KeysOfEntry DEF KeysCounted, NumKeysAt
<1>. QED
  BY <1>1, RingInvariant, PTL
=============================================================================

---------------------------- MODULE ManagerProofs ----------------------------
(***************************************************************************)
(* Proofs about the rings and preference lists of the manager and of the   *)
(* storage nodes, for every hash function, collisions included, every      *)
(* number of storage nodes and of virtual nodes, and every list size.      *)
(***************************************************************************)
EXTENDS Manager, HashRingProofs, SequenceTheorems

(* What holds before a loop and is kept by its iterations holds throughout.*)
LEMMA LoopInduction ==
  ASSUME NEW N \in Nat, NEW Good, 0 \in Good,
         \A i \in 1 .. N : i - 1 \in Good => i \in Good
  PROVE  \A i \in 0 .. N : i \in Good
<1>. DEFINE Bad == {i \in 0 .. N : i \notin Good}
            n == Smallest(Bad)
<1>. SUFFICES ASSUME Bad # {} PROVE FALSE
  OBVIOUS
<1>1. n \in Bad /\ \A m \in Bad : n <= m
  <2>1. Bad \in SUBSET Nat
    OBVIOUS
  <2>. HIDE DEF Bad
  <2>. QED
    BY <2>1, SmallestExists
<1>. HIDE DEF n
<1>2. n \in 1 .. N /\ n \notin Good
  BY <1>1
<1>3. n - 1 \in Good
  BY <1>1, <1>2
<1>. QED
  BY <1>2, <1>3

(* What a loop of N iterations from first holds after each of them, when   *)
(* step gives what iteration i makes of the value before it.               *)
Steps(X, N) == [X \X (1 .. N) -> X]

Values(X, first, N, step) ==
  {f \in [0 .. N -> X] :
     f[0] = first /\ \A i \in 1 .. N : f[i] = step[<<f[i - 1], i>>]}

(* Every loop has its values.                                              *)
LEMMA LoopExists ==
  ASSUME NEW X, NEW first \in X, NEW N \in Nat, NEW step \in Steps(X, N)
  PROVE  \E f : f \in Values(X, first, N, step)
<1>. USE DEF Steps
<1>. DEFINE Upto(n) == \E f \in [0 .. n -> X] :
              f[0] = first /\ \A i \in 1 .. n : f[i] = step[<<f[i - 1], i>>]
            Good == {n \in 0 .. N : Upto(n)}
<1>1. Upto(0)
  <2>. DEFINE g == [i \in 0 .. 0 |-> first]
  <2>1. g \in [0 .. 0 -> X] /\ g[0] = first /\ \A i \in 1 .. 0 : g[i] = step[<<g[i - 1], i>>]
    OBVIOUS
  <2>. HIDE DEF g
  <2>. QED
    BY <2>1
<1>2. ASSUME NEW m \in 1 .. N, Upto(m - 1)
      PROVE  Upto(m)
  <2>1. PICK n \in Nat : n = m - 1 /\ m = n + 1 /\ n \in 0 .. N
    OBVIOUS
  <2>2. PICK f \in [0 .. n -> X] :
          f[0] = first /\ \A i \in 1 .. n : f[i] = step[<<f[i - 1], i>>]
    BY <1>2, <2>1
  <2>. DEFINE g == [i \in 0 .. m |-> IF i = m THEN step[<<f[n], m>>] ELSE f[i]]
  <2>3. step[<<f[n], m>>] \in X
    <3>1. f[n] \in X
      BY <2>1, <2>2
    <3>. QED
      BY <3>1
  <2>4. g \in [0 .. m -> X]
    BY <2>1, <2>2, <2>3
  <2>5. g[0] = first /\ \A i \in 1 .. m : g[i] = step[<<g[i - 1], i>>]
    <3>1. \A i \in 0 .. n : g[i] = f[i] /\ i # m
      BY <2>1
    <3>2. g[m] = step[<<f[n], m>>]
      OBVIOUS
    <3>. HIDE DEF g
    <3>3. ASSUME NEW i \in 1 .. m PROVE g[i] = step[<<g[i - 1], i>>]
      <4>1. CASE i = m
        BY <2>1, <3>1, <3>2, <4>1, SMTT(30)
      <4>2. CASE i # m
        BY <2>1, <2>2, <3>1, <4>2
      <4>. QED
        BY <4>1, <4>2
    <3>. QED
      BY <2>1, <2>2, <3>1, <3>3
  <2>. QED
    BY <2>4, <2>5
<1>. HIDE DEF Upto
<1>3. 0 \in Good /\ \A i \in 1 .. N : i - 1 \in Good => i \in Good
  BY <1>1, <1>2
<1>4. N \in Good
  <2>. HIDE DEF Good
  <2>1. \A i \in 0 .. N : i \in Good
    BY <1>3, LoopInduction
  <2>. QED
    BY <2>1
<1>5. Upto(N)
  BY <1>4
<1>. QED
  BY <1>5 DEF Upto, Values

-----------------------------------------------------------------------------
(* The rings.                                                              *)

Rings == UNION {[D -> VNodes] : D \in SUBSET Hashes}

(* A ring each of whose entries is at its own hash.                        *)
RingOK(r) == r \in Rings /\ \A h \in Taken(r) : hash[r[h]] = h

LEMMA RingFacts ==
  ASSUME NEW r \in Rings
  PROVE  /\ Taken(r) \in SUBSET Hashes
         /\ \A h \in Taken(r) : r[h] \in VNodes
<1>1. PICK D \in SUBSET Hashes : r \in [D -> VNodes]
  BY DEF Rings
<1>. QED
  BY <1>1 DEF Taken

VNode(n, i) == [node |-> n, rank |-> i - 1]

LEMMA VNodeFacts ==
  /\ \A n \in Nodes : \A i \in 1 .. NumVNodes[n] : VNode(n, i) \in VNodes
  /\ \A v \in VNodes : v.node \in Nodes /\ v.rank < NumVNodes[v.node]
  /\ \A n \in Nodes : NumVNodes[n] \in Nat
<1>1. NumVNodes \in [Nodes -> Nat]
  BY ManagerAssumption
<1>2. VNodes = UNION {{[node |-> n, rank |-> i - 1] : i \in 1 .. NumVNodes[n]} : n \in Nodes}
  BY ManagerAssumption
<1>3. ASSUME NEW v \in VNodes PROVE v.node \in Nodes /\ v.rank < NumVNodes[v.node]
  <2>1. PICK n \in Nodes : \E i \in 1 .. NumVNodes[n] : v = [node |-> n, rank |-> i - 1]
    BY <1>2
  <2>2. PICK i \in 1 .. NumVNodes[n] : v = [node |-> n, rank |-> i - 1]
    BY <2>1
  <2>. QED
    BY <1>1, <2>2
<1>. QED
  BY <1>1, <1>2, <1>3 DEF VNode

LEMMA InsertRing ==
  ASSUME hash \in [VNodes -> Hashes], NEW r \in Rings, NEW v \in VNodes
  PROVE  /\ Insert(r, v) \in Rings
         /\ Taken(Insert(r, v)) = Taken(r) \cup {hash[v]}
         /\ \A h \in Taken(r) : Insert(r, v)[h] = r[h]
         /\ hash[v] \notin Taken(r) => Insert(r, v)[hash[v]] = v
<1>1. PICK D \in SUBSET Hashes : r \in [D -> VNodes]
  BY DEF Rings
<1>2. hash[v] \in Hashes /\ Taken(r) = D
  BY <1>1 DEF Taken
<1>3. Insert(r, v) \in [D \cup {hash[v]} -> VNodes]
  BY <1>1, <1>2 DEF Insert, Taken
<1>4. D \cup {hash[v]} \in SUBSET Hashes
  BY <1>2
<1>. QED
  BY <1>1, <1>2, <1>3, <1>4 DEF Insert, Rings, Taken

(* The loop of addVirtualNodes.                                            *)
LEMMA AddLoop ==
  ASSUME hash \in [VNodes -> Hashes], NEW r \in Rings, NEW n \in Nodes
  PROVE  \E f \in [0 .. NumVNodes[n] -> Rings] :
           /\ f[0] = r
           /\ \A i \in 1 .. NumVNodes[n] : f[i] = Insert(f[i - 1], VNode(n, i))
           /\ AddVirtualNodes(r, n) = f[NumVNodes[n]]
<1>. DEFINE N == NumVNodes[n]
            step == [p \in Rings \X (1 .. N) |-> Insert(p[1], VNode(n, p[2]))]
<1>1. N \in Nat /\ \A x \in Rings : \A i \in 1 .. N : step[<<x, i>>] = Insert(x, VNode(n, i))
  BY VNodeFacts
<1>2. step \in Steps(Rings, N)
  <2>1. ASSUME NEW x \in Rings, NEW i \in 1 .. N PROVE Insert(x, VNode(n, i)) \in Rings
    <3>1. VNode(n, i) \in VNodes
      BY VNodeFacts
    <3>. QED
      BY <3>1, InsertRing
  <2>. QED
    BY <2>1 DEF Steps
<1>. HIDE DEF step, N
<1>3. PICK f : f \in Values(Rings, r, N, step)
  BY <1>1, <1>2, LoopExists
<1>3a. /\ f \in [0 .. N -> Rings]
      /\ f[0] = r /\ \A i \in 1 .. N : f[i] = step[<<f[i - 1], i>>]
  BY <1>3 DEF Values
<1>4. \A i \in 1 .. N : f[i] = Insert(f[i - 1], VNode(n, i))
  <2>1. \A i \in 1 .. N : f[i - 1] \in Rings
    BY <1>1, <1>3a
  <2>. QED
    BY <1>1, <1>3a, <2>1
<1>. DEFINE Loop(g) == g = [i \in 0 .. N |-> IF i = 0 THEN r
                              ELSE Insert(g[i - 1], [node |-> n, rank |-> i - 1])]
            g == CHOOSE g : Loop(g)
<1>5. Loop(f)
  BY <1>1, <1>3a, <1>4 DEF VNode
<1>6. Loop(g)
  <2>. HIDE DEF Loop
  <2>. QED
    BY <1>5
<1>7. AddVirtualNodes(r, n) = g[N]
  BY DEF AddVirtualNodes, N
<1>. HIDE DEF g
<1>8. \A i \in 0 .. N : g[i] = f[i]
  <2>. DEFINE Same == {i \in 0 .. N : g[i] = f[i]}
  <2>1. 0 \in Same
    BY <1>1, <1>3a, <1>6
  <2>2. \A i \in 1 .. N : i - 1 \in Same => i \in Same
    BY <1>1, <1>4, <1>6 DEF VNode
  <2>. HIDE DEF Same
  <2>3. \A i \in 0 .. N : i \in Same
    BY <1>1, <2>1, <2>2, LoopInduction
  <2>. QED
    BY <2>3 DEF Same
<1>. QED
  BY <1>1, <1>3a, <1>4, <1>7, <1>8 DEF N

(* What addVirtualNodes does to a ring.                                    *)
LEMMA AddRing ==
  ASSUME hash \in [VNodes -> Hashes], NEW r, RingOK(r), NEW n \in Nodes,
         NEW s, s = AddVirtualNodes(r, n)
  PROVE  /\ RingOK(s)
         /\ Taken(r) \subseteq Taken(s)
         /\ \A h \in Taken(r) : s[h] = r[h]
         /\ \A h \in Taken(s) \ Taken(r) : s[h].node = n
<1>. DEFINE N == NumVNodes[n]
            Kept(s1) == /\ RingOK(s1)
                        /\ Taken(r) \subseteq Taken(s1)
                        /\ \A h \in Taken(r) : s1[h] = r[h]
                        /\ \A h \in Taken(s1) \ Taken(r) : s1[h].node = n
<1>1. r \in Rings /\ N \in Nat
  BY VNodeFacts DEF RingOK
<1>2. PICK f \in [0 .. N -> Rings] :
        /\ f[0] = r
        /\ \A i \in 1 .. N : f[i] = Insert(f[i - 1], VNode(n, i))
        /\ s = f[N]
  BY <1>1, AddLoop
<1>. DEFINE Good == {i \in 0 .. N : Kept(f[i])}
<1>3. 0 \in Good
  BY <1>1, <1>2
<1>4. ASSUME NEW i \in 1 .. N, i - 1 \in Good
      PROVE  i \in Good
  <2>1. VNode(n, i) \in VNodes /\ VNode(n, i).node = n
    BY VNodeFacts DEF VNode
  <2>2. PICK q : q = f[i - 1]
    OBVIOUS
  <2>3. PICK t : t = f[i]
    OBVIOUS
  <2>4. PICK v \in VNodes : v = VNode(n, i)
    BY <2>1
  <2>5. q \in Rings /\ Kept(q) /\ t = Insert(q, v) /\ v.node = n
    BY <1>2, <1>4, <2>1, <2>2, <2>3, <2>4 DEF RingOK
  <2>6. /\ t \in Rings /\ Taken(t) = Taken(q) \cup {hash[v]}
        /\ \A h \in Taken(q) : t[h] = q[h]
        /\ hash[v] \notin Taken(q) => t[hash[v]] = v
    BY <2>5, InsertRing
  <2>7. RingOK(t)
    BY <2>5, <2>6 DEF RingOK
  <2>8. Kept(t)
    BY <2>5, <2>6, <2>7
  <2>. QED
    BY <2>3, <2>8
<1>. HIDE DEF Good, N
<1>5. N \in Good
  <2>1. \A i \in 0 .. N : i \in Good
    BY <1>1, <1>3, <1>4, LoopInduction
  <2>. QED
    BY <1>1, <2>1
<1>. QED
  BY <1>2, <1>5 DEF Good

(* The loop of addNodesToRing.                                             *)
LEMMA RingLoop ==
  ASSUME hash \in [VNodes -> Hashes], NEW ns \in Seq(Nodes)
  PROVE  \E f \in [0 .. Len(ns) -> Rings] :
           /\ f[0] = EmptyRing
           /\ \A i \in 1 .. Len(ns) : f[i] = AddVirtualNodes(f[i - 1], ns[i])
           /\ RingOf(ns) = f[Len(ns)]
<1>. DEFINE N == Len(ns)
            step == [p \in Rings \X (1 .. N) |-> AddVirtualNodes(p[1], ns[p[2]])]
<1>1. /\ N \in Nat /\ EmptyRing \in Rings
      /\ \A x \in Rings : \A i \in 1 .. N : step[<<x, i>>] = AddVirtualNodes(x, ns[i])
  <2>1. EmptyRing \in [{} -> VNodes] /\ {} \in SUBSET Hashes
    BY DEF EmptyRing
  <2>2. EmptyRing \in Rings
    BY <2>1, Zenon DEF Rings
  <2>. QED
    BY <2>2
<1>2. step \in Steps(Rings, N)
  <2>1. ASSUME NEW x \in Rings, NEW i \in 1 .. N PROVE AddVirtualNodes(x, ns[i]) \in Rings
    <3>1. ns[i] \in Nodes
      OBVIOUS
    <3>2. NumVNodes[ns[i]] \in Nat
      BY <3>1, VNodeFacts
    <3>. QED
      BY <3>1, <3>2, AddLoop
  <2>. QED
    BY <2>1 DEF Steps
<1>. HIDE DEF step, N
<1>3. PICK f : f \in Values(Rings, EmptyRing, N, step)
  BY <1>1, <1>2, LoopExists
<1>4. /\ f \in [0 .. N -> Rings] /\ f[0] = EmptyRing
      /\ \A i \in 1 .. N : f[i] = step[<<f[i - 1], i>>]
  BY <1>3 DEF Values
<1>5. \A i \in 1 .. N : f[i] = AddVirtualNodes(f[i - 1], ns[i])
  <2>1. \A i \in 1 .. N : f[i - 1] \in Rings
    BY <1>1, <1>4
  <2>. QED
    BY <1>1, <1>4, <2>1
<1>. DEFINE Loop(g) == g = [i \in 0 .. N |-> IF i = 0 THEN EmptyRing
                              ELSE AddVirtualNodes(g[i - 1], ns[i])]
            g == CHOOSE g : Loop(g)
<1>6. Loop(f)
  BY <1>1, <1>4, <1>5
<1>7. Loop(g)
  <2>. HIDE DEF Loop
  <2>. QED
    BY <1>6
<1>8. RingOf(ns) = g[N]
  BY DEF RingOf, N
<1>. HIDE DEF g
<1>9. \A i \in 0 .. N : g[i] = f[i]
  <2>. DEFINE Same == {i \in 0 .. N : g[i] = f[i]}
  <2>1. 0 \in Same
    BY <1>1, <1>4, <1>7
  <2>2. \A i \in 1 .. N : i - 1 \in Same => i \in Same
    BY <1>1, <1>5, <1>7
  <2>. HIDE DEF Same
  <2>3. \A i \in 0 .. N : i \in Same
    BY <1>1, <2>1, <2>2, LoopInduction
  <2>. QED
    BY <2>3 DEF Same
<1>. QED
  BY <1>1, <1>4, <1>5, <1>8, <1>9 DEF N

(* A node that rebuilds the ring after a join adds the newcomer to the     *)
(* ring it had.                                                            *)
LEMMA RingOfAppend ==
  ASSUME hash \in [VNodes -> Hashes], NEW ns \in Seq(Nodes), NEW n \in Nodes
  PROVE  RingOf(Append(ns, n)) = AddVirtualNodes(RingOf(ns), n)
<1>. DEFINE N == Len(ns)
<1>1. PICK f \in [0 .. N -> Rings] :
        /\ f[0] = EmptyRing
        /\ \A i \in 1 .. N : f[i] = AddVirtualNodes(f[i - 1], ns[i])
        /\ RingOf(ns) = f[N]
  BY RingLoop
<1>2. PICK ms \in Seq(Nodes) : /\ ms = Append(ns, n) /\ Len(ms) = N + 1 /\ ms[N + 1] = n
                               /\ \A i \in 1 .. N : ms[i] = ns[i]
  <2>1. PICK ms : ms = Append(ns, n)
    OBVIOUS
  <2>2. /\ ms \in Seq(Nodes) /\ Len(ms) = N + 1 /\ ms[N + 1] = n
        /\ \A i \in 1 .. N : ms[i] = ns[i]
    BY <2>1
  <2>. QED
    BY <2>1, <2>2
<1>3. PICK g \in [0 .. N + 1 -> Rings] :
        /\ g[0] = EmptyRing
        /\ \A i \in 1 .. N + 1 : g[i] = AddVirtualNodes(g[i - 1], ms[i])
        /\ RingOf(ms) = g[N + 1]
  BY <1>2, RingLoop
<1>. DEFINE Same == {i \in 0 .. N : g[i] = f[i]}
<1>4. N \in Nat
  OBVIOUS
<1>. HIDE DEF N
<1>5. 0 \in Same /\ \A i \in 1 .. N : i - 1 \in Same => i \in Same
  BY <1>1, <1>2, <1>3, <1>4
<1>6. g[N] = f[N]
  <2>. HIDE DEF Same
  <2>1. \A i \in 0 .. N : i \in Same
    BY <1>4, <1>5, LoopInduction
  <2>. QED
    BY <1>4, <2>1 DEF Same
<1>7. g[N + 1] = AddVirtualNodes(g[(N + 1) - 1], ms[N + 1]) /\ (N + 1) - 1 = N
  BY <1>3, <1>4
<1>. QED
  BY <1>1, <1>2, <1>3, <1>6, <1>7

-----------------------------------------------------------------------------
(* The order of the loops.                                                 *)

(* The hashes of a finite set in ascending order.                          *)
LEMMA AscendingOrder ==
  ASSUME NEW S \in SUBSET Nat, IsFiniteSet(S), NEW a, a = Ascending(S)
  PROVE  /\ a \in Seq(S) /\ Len(a) = Cardinality(S)
         /\ \A i, j \in 1 .. Len(a) : i < j => a[i] < a[j]
         /\ \A h \in S : \E i \in 1 .. Len(a) : a[i] = h
<1>. DEFINE Below(h) == {g \in S : g < h}
            Rank(h) == Cardinality(Below(h))
            N == Cardinality(S)
<1>1. N \in Nat
  BY FS_CardinalityType
<1>2. \A h \in S : Rank(h) \in Nat
  <2>1. ASSUME NEW h \in S PROVE Rank(h) \in Nat
    <3>1. Below(h) \in SUBSET S
      OBVIOUS
    <3>. HIDE DEF Below
    <3>. QED
      BY <3>1, FS_Subset, FS_CardinalityType
  <2>. QED
    BY <2>1
<1>3. ASSUME NEW h, NEW U, IsFiniteSet(U), h \in U, NEW V \in SUBSET U, h \notin V
      PROVE  Cardinality(V) < Cardinality(U)
  <2>1. IsFiniteSet(V) /\ Cardinality(V) <= Cardinality(U) /\ Cardinality(U) # Cardinality(V)
    BY <1>3, FS_Subset
  <2>2. Cardinality(V) \in Nat /\ Cardinality(U) \in Nat
    BY <1>3, <2>1, FS_CardinalityType
  <2>. QED
    BY <2>1, <2>2
<1>4. \A h \in S : Rank(h) < N
  BY <1>3
<1>5. ASSUME NEW g \in S, NEW h \in S, g < h PROVE Rank(g) < Rank(h)
  <2>1. Below(h) \in SUBSET S
    OBVIOUS
  <2>2. IsFiniteSet(Below(h))
    <3>. HIDE DEF Below
    <3>. QED
      BY <2>1, FS_Subset
  <2>3. g \in Below(h) /\ g \notin Below(g)
    BY <1>5
  <2>4. Below(g) \in SUBSET Below(h)
    <3>1. \A k \in S : k < g => k < h
      BY <1>5
    <3>. QED
      BY <3>1
  <2>. HIDE DEF Below
  <2>. QED
    BY <1>3, <2>2, <2>3, <2>4
<1>. HIDE DEF Below
<1>6. \A g, h \in S : Rank(g) = Rank(h) => g = h
  <2>1. ASSUME NEW g \in S, NEW h \in S, Rank(g) = Rank(h), g # h PROVE FALSE
    <3>1. g < h \/ h < g
      BY <2>1
    <3>2. Rank(g) < Rank(h) \/ Rank(h) < Rank(g)
      BY <1>5, <3>1
    <3>. QED
      BY <1>2, <2>1, <3>2
  <2>. QED
    BY <2>1
<1>7. \A i \in 1 .. N : \E h \in S : Rank(h) = i - 1
  <2>. DEFINE place == [h \in S |-> Rank(h) + 1]
  <2>1. place \in [S -> 1 .. N]
    <3>1. \A h \in S : Rank(h) + 1 \in 1 .. N
      BY <1>1, <1>2, <1>4
    <3>. HIDE DEF Rank
    <3>. QED
      BY <3>1
  <2>2. \A g, h \in S : place[g] = place[h] => g = h
    <3>. HIDE DEF Rank
    <3>. QED
      BY <1>2, <1>6
  <2>3. place \in Injection(S, 1 .. N)
    <3>. HIDE DEF place
    <3>. QED
      BY <2>1, <2>2 DEF Injection, IsInjective
  <2>4. IsFiniteSet(1 .. N) /\ Cardinality(1 .. N) = N
    <3>1. 1 \in Int /\ N \in Int /\ (1 > N => N = 0) /\ N - 1 + 1 = N
      BY <1>1
    <3>. HIDE DEF N
    <3>. QED
      BY <3>1, FS_Interval
  <2>5. place \in Surjection(S, 1 .. N)
    <3>. HIDE DEF place
    <3>. QED
      BY <2>3, <2>4, FS_Injection
  <2>6. \A i \in 1 .. N : \E h \in S : place[h] = i
    <3>. HIDE DEF place
    <3>. QED
      BY <2>5 DEF Surjection
  <2>7. \A i \in 1 .. N : \A h \in S : place[h] = i => Rank(h) = i - 1
    <3>. HIDE DEF Rank, N
    <3>. QED
      BY <1>1, <1>2
  <2>. HIDE DEF Rank, N, place
  <2>. QED
    BY <2>6, <2>7
<1>8. a = [i \in 1 .. N |-> CHOOSE h \in S : Rank(h) = i - 1]
  BY DEF Ascending, Below
<1>. HIDE DEF Rank, N
<1>9. \A i \in 1 .. N : a[i] \in S /\ Rank(a[i]) = i - 1
  BY <1>7, <1>8
<1>10. a \in [1 .. N -> S]
  BY <1>8, <1>9
<1>11. a \in Seq(S) /\ Len(a) = N
  BY <1>1, <1>10
<1>12. ASSUME NEW i \in 1 .. N, NEW j \in 1 .. N, i < j PROVE a[i] < a[j]
  <2>1. PICK g \in S : g = a[i] /\ Rank(g) = i - 1
    BY <1>9
  <2>2. PICK h \in S : h = a[j] /\ Rank(h) = j - 1
    BY <1>9
  <2>3. ~(h < g) /\ h # g
    <3>1. ~(Rank(h) < Rank(g)) /\ Rank(h) # Rank(g)
      BY <1>1, <1>12, <2>1, <2>2
    <3>. QED
      BY <1>5, <3>1
  <2>. QED
    BY <2>1, <2>2, <2>3
<1>13. ASSUME NEW h \in S PROVE \E i \in 1 .. N : a[i] = h
  <2>1. Rank(h) + 1 \in 1 .. N /\ (Rank(h) + 1) - 1 = Rank(h)
    BY <1>1, <1>2, <1>4
  <2>2. Rank(a[Rank(h) + 1]) = Rank(h) /\ a[Rank(h) + 1] \in S
    BY <1>9, <2>1
  <2>. QED
    BY <1>6, <2>1, <2>2
<1>. QED
  BY <1>11, <1>12, <1>13 DEF N

(* The two loops see every entry once, ever farther from the key, starting *)
(* with the one that find returns.                                         *)
Outwards(w, r, key) ==
  /\ w \in Seq(Taken(r)) /\ Len(w) >= 1 /\ w[1] = Find(r, key)
  /\ \A i, j \in 1 .. Len(w) :
       i < j => Clockwise(key, w[i]) < Clockwise(key, w[j])
  /\ \A h \in Taken(r) : \E i \in 1 .. Len(w) : w[i] = h

LEMMA WalkOrder ==
  ASSUME NEW r \in Rings, Taken(r) # {}, NEW key \in Hashes,
         NEW w, w = Walk(r, key)
  PROVE  Outwards(w, r, key)
<1>0. Taken(r) \subseteq Hashes
  BY RingFacts
<1>. DEFINE T == Taken(r)
            f == Find(r, key)
<1>1. /\ HashSpace \in Nat \ {0} /\ key \in Nat /\ key < HashSpace
      /\ T \in SUBSET Nat /\ \A h \in T : h < HashSpace
  BY <1>0, HashSpaceAssumption DEF Hashes
<1>2. IsFiniteSet(T)
  <2>1. HashSpace - 1 \in Nat /\ \A h \in T : h <= HashSpace - 1
    BY <1>1
  <2>. HIDE DEF T
  <2>. QED
    BY <1>1, <2>1, FS_BoundedSetOfNaturals
<1>3. f \in T /\ \A h \in T : Clockwise(key, f) <= Clockwise(key, h)
  BY <1>0, FindNearest
<1>4. PICK hs : hs = Ascending(T)
  OBVIOUS
<1>. HIDE DEF f, T
<1>5. /\ hs \in Seq(T)
      /\ \A i, j \in 1 .. Len(hs) : i < j => hs[i] < hs[j]
      /\ \A h \in T : \E i \in 1 .. Len(hs) : hs[i] = h
  BY <1>1, <1>2, <1>4, AscendingOrder
<1>6. PICK n \in Nat : n = Len(hs) /\ hs \in [1 .. n -> T]
  BY <1>5
<1>7. PICK s \in 1 .. n : /\ hs[s] = f
                          /\ w = SubSeq(hs, s, n) \o SubSeq(hs, 1, s - 1)
  <2>1. \E j \in 1 .. n : hs[j] = f
    BY <1>3, <1>5, <1>6
  <2>2. PICK s : s = CHOOSE j \in 1 .. n : hs[j] = f
    OBVIOUS
  <2>3. s \in 1 .. n /\ hs[s] = f
    BY <2>1, <2>2
  <2>4. w = SubSeq(hs, s, n) \o SubSeq(hs, 1, s - 1)
    BY <1>4, <1>6, <2>2 DEF Walk, T, f
  <2>. QED
    BY <2>3, <2>4
<1>8. /\ w \in Seq(T) /\ Len(w) = n
      /\ \A i \in 1 .. n : w[i] = IF i <= n - s + 1 THEN hs[s + i - 1]
                                                    ELSE hs[i - (n - s + 1)]
  <2>1. PICK u, v : u = SubSeq(hs, s, n) /\ v = SubSeq(hs, 1, s - 1)
    OBVIOUS
  <2>2. /\ u \in Seq(T) /\ Len(u) = n - s + 1
        /\ \A i \in 1 .. n - s + 1 : u[i] = hs[s + i - 1]
    <3>1. s \in Int /\ n \in Int /\ s <= n /\ \A i \in s .. n : hs[i] \in T
      BY <1>6
    <3>. QED
      BY <2>1, <3>1, SubSeqProperties
  <2>3. /\ v \in Seq(T) /\ Len(v) = s - 1
        /\ \A i \in 1 .. s - 1 : v[i] = hs[i]
    <3>1. 1 \in Int /\ s - 1 \in Int /\ \A i \in 1 .. s - 1 : hs[i] \in T
      BY <1>6
    <3>2. /\ v \in Seq(T)
          /\ Len(v) = IF 1 <= s - 1 THEN (s - 1) - 1 + 1 ELSE 0
          /\ \A i \in 1 .. (s - 1) - 1 + 1 : v[i] = hs[1 + i - 1]
      BY <2>1, <3>1, SubSeqProperties
    <3>3. s - 1 \in Nat /\ (s - 1) - 1 + 1 = s - 1
      OBVIOUS
    <3>4. \A i \in 1 .. s - 1 : 1 + i - 1 = i
      OBVIOUS
    <3>5. Len(v) = s - 1
      BY <3>2, <3>3
    <3>. QED
      BY <3>2, <3>3, <3>4, <3>5
  <2>4. w = u \o v
    BY <1>7, <2>1
  <2>5. /\ w \in Seq(T) /\ Len(w) = (n - s + 1) + (s - 1)
        /\ \A i \in 1 .. (n - s + 1) + (s - 1) :
             w[i] = IF i <= n - s + 1 THEN u[i] ELSE v[i - (n - s + 1)]
    BY <2>2, <2>3, <2>4, ConcatProperties
  <2>6. (n - s + 1) + (s - 1) = n
    OBVIOUS
  <2>7. ASSUME NEW i \in 1 .. n
        PROVE  w[i] = IF i <= n - s + 1 THEN hs[s + i - 1] ELSE hs[i - (n - s + 1)]
    <3>1. w[i] = IF i <= n - s + 1 THEN u[i] ELSE v[i - (n - s + 1)]
      BY <2>5, <2>6
    <3>2. CASE i <= n - s + 1
      <4>1. i \in 1 .. n - s + 1
        BY <3>2
      <4>. QED
        BY <2>2, <3>1, <3>2, <4>1
    <3>3. CASE ~(i <= n - s + 1)
      <4>1. i - (n - s + 1) \in 1 .. s - 1
        BY <3>3
      <4>. QED
        BY <2>3, <3>1, <3>3, <4>1
    <3>. QED
      BY <3>2, <3>3
  <2>. QED
    BY <2>5, <2>6, <2>7
<1>9. \/ \A i \in 1 .. n : hs[i] >= key <=> i >= s
      \/ s = 1 /\ \A i \in 1 .. n : ~(hs[i] >= key)
  <2>1. \A i \in 1 .. n : hs[i] \in T /\ hs[i] \in Nat /\ hs[i] < HashSpace
    BY <1>1, <1>6
  <2>2. \A h \in T : Clockwise(key, h) = IF h >= key THEN h - key ELSE (h + HashSpace) - key
    BY DEF Clockwise
  <2>3. CASE f >= key
    <3>1. \A h \in T : h >= key => f <= h
      BY <1>1, <1>3, <2>2, <2>3
    <3>2. ASSUME NEW i \in 1 .. n PROVE hs[i] >= key <=> i >= s
      <4>1. CASE i < s
        BY <1>1, <1>5, <1>6, <1>7, <2>1, <3>1, <4>1
      <4>2. CASE i >= s
        <5>1. hs[i] >= f
          BY <1>1, <1>3, <1>5, <1>6, <1>7, <2>1, <4>2
        <5>. QED
          BY <1>1, <1>3, <2>1, <2>3, <4>2, <5>1
      <4>. QED
        BY <4>1, <4>2
    <3>. QED
      BY <3>2
  <2>4. CASE ~(f >= key)
    <3>1. \A h \in T : ~(h >= key) /\ f <= h
      BY <1>1, <1>3, <2>2, <2>4
    <3>2. ~(1 < s)
      BY <1>1, <1>5, <1>6, <1>7, <2>1, <3>1
    <3>. QED
      BY <1>6, <2>1, <3>1, <3>2
  <2>. QED
    BY <2>3, <2>4
<1>10. ASSUME NEW i \in 1 .. n, NEW j \in 1 .. n, i < j
       PROVE  Clockwise(key, w[i]) < Clockwise(key, w[j])
  <2>1. PICK p \in 1 .. n : /\ w[i] = hs[p]
                            /\ IF i <= n - s + 1 THEN p = s + i - 1
                                                 ELSE p = i - (n - s + 1)
    BY <1>8
  <2>2. PICK q \in 1 .. n : /\ w[j] = hs[q]
                            /\ IF j <= n - s + 1 THEN q = s + j - 1
                                                 ELSE q = j - (n - s + 1)
    BY <1>8
  <2>3. PICK g \in Nat, h \in Nat : /\ g = hs[p] /\ h = hs[q]
                                    /\ g < HashSpace /\ h < HashSpace
    BY <1>1, <1>6
  <2>4. p < q => g < h
    BY <1>5, <1>6, <2>3
  <2>5. (p < s /\ q < s /\ p < q) \/ (s <= p /\ s <= q /\ p < q) \/ (s <= p /\ q < s)
    BY <1>10, <2>1, <2>2
  <2>6. \/ (g >= key <=> p >= s) /\ (h >= key <=> q >= s)
        \/ s = 1 /\ ~(g >= key) /\ ~(h >= key)
    BY <1>9, <2>3
  <2>. QED
    BY <1>1, <2>1, <2>2, <2>3, <2>4, <2>5, <2>6 DEF Clockwise
<1>11. ASSUME NEW h \in T
       PROVE  \E i \in 1 .. n : w[i] = h
  <2>1. PICK p \in 1 .. n : hs[p] = h
    BY <1>5, <1>6
  <2>2. CASE p >= s
    <3>1. p - s + 1 \in 1 .. n /\ p - s + 1 <= n - s + 1 /\ s + (p - s + 1) - 1 = p
      BY <2>2
    <3>. QED
      BY <1>8, <2>1, <3>1
  <2>3. CASE p < s
    <3>1. /\ p + (n - s + 1) \in 1 .. n /\ ~(p + (n - s + 1) <= n - s + 1)
          /\ (p + (n - s + 1)) - (n - s + 1) = p
      BY <2>3
    <3>. QED
      BY <1>8, <2>1, <3>1
  <2>. QED
    BY <2>2, <2>3
<1>12. w[1] = f
  <2>1. 1 \in 1 .. n /\ 1 <= n - s + 1 /\ s + 1 - 1 = s
    OBVIOUS
  <2>. QED
    BY <1>7, <1>8, <2>1
<1>. QED
  BY <1>8, <1>10, <1>11, <1>12 DEF Outwards, T, f

-----------------------------------------------------------------------------
(* The lists.                                                              *)

(* The lists that the loop over the entries of a ring holds.               *)
Lists(r, w, first, size) ==
  {f \in [0 .. Len(w) -> Seq(VNodes)] :
     /\ f[0] = first
     /\ \A i \in 1 .. Len(w) : f[i] = AddEntry(f[i - 1], r[w[i]], size)}

LEMMA ListLoop ==
  ASSUME NEW r \in Rings, NEW w \in Seq(Taken(r)), NEW first \in Seq(VNodes), NEW size
  PROVE  \E f : f \in Lists(r, w, first, size) /\ ListAfter(r, w, first, size) = f[Len(w)]
<1>. DEFINE N == Len(w)
            X == Seq(VNodes)
            step == [p \in X \X (1 .. N) |-> AddEntry(p[1], r[w[p[2]]], size)]
<1>1. N \in Nat /\ \A i \in 1 .. N : w[i] \in Taken(r)
  OBVIOUS
<1>2. \A h \in Taken(r) : r[h] \in VNodes
  BY RingFacts
<1>3. step \in Steps(X, N)
  <2>1. ASSUME NEW x \in X, NEW i \in 1 .. N PROVE AddEntry(x, r[w[i]], size) \in X
    <3>1. r[w[i]] \in VNodes
      BY <1>1, <1>2
    <3>. QED
      BY <3>1 DEF AddEntry
  <2>. HIDE DEF X, N
  <2>. QED
    BY <2>1 DEF Steps
<1>4. \A x \in X : \A i \in 1 .. N : step[<<x, i>>] = AddEntry(x, r[w[i]], size)
  <2>. HIDE DEF X, N
  <2>. QED
    OBVIOUS
<1>. HIDE DEF step, N, X
<1>5. PICK f : f \in Values(X, first, N, step)
  <2>1. first \in X
    BY DEF X
  <2>. QED
    BY <1>1, <1>3, <2>1, LoopExists
<1>6. /\ f \in [0 .. N -> X] /\ f[0] = first
      /\ \A i \in 1 .. N : f[i] = step[<<f[i - 1], i>>]
  BY <1>5 DEF Values
<1>7. \A i \in 1 .. N : f[i] = AddEntry(f[i - 1], r[w[i]], size)
  <2>1. \A i \in 1 .. N : f[i - 1] \in X
    BY <1>1, <1>6
  <2>. QED
    BY <1>4, <1>6, <2>1
<1>. DEFINE Loop(g) == g = [i \in 0 .. N |-> IF i = 0 THEN first
                              ELSE AddEntry(g[i - 1], r[w[i]], size)]
            g == CHOOSE g : Loop(g)
<1>8. Loop(f)
  BY <1>1, <1>6, <1>7
<1>9. Loop(g)
  <2>. HIDE DEF Loop
  <2>. QED
    BY <1>8
<1>10. ListAfter(r, w, first, size) = g[N]
  BY DEF ListAfter, N
<1>. HIDE DEF g
<1>11. \A i \in 0 .. N : g[i] = f[i]
  <2>. DEFINE Same == {i \in 0 .. N : g[i] = f[i]}
  <2>1. 0 \in Same
    BY <1>1, <1>6, <1>9
  <2>2. \A i \in 1 .. N : i - 1 \in Same => i \in Same
    BY <1>1, <1>7, <1>9
  <2>. HIDE DEF Same
  <2>3. \A i \in 0 .. N : i \in Same
    BY <1>1, <2>1, <2>2, LoopInduction
  <2>. QED
    BY <2>3 DEF Same
<1>. QED
  BY <1>1, <1>6, <1>7, <1>10, <1>11 DEF N, X, Lists

(* What a list says of the entries S that the loop has seen: it names the  *)
(* nodes nearest to the key, in order, each by its nearest entry, and any  *)
(* node it does not name is farther than all of a list that is full.       *)
Nearest(L, r, key, size, S) ==
  /\ L \in Seq(VNodes) /\ Len(L) <= size
  /\ \A i \in 1 .. Len(L) : hash[L[i]] \in S /\ r[hash[L[i]]] = L[i]
  /\ \A i, j \in 1 .. Len(L) :
       i < j => Clockwise(key, hash[L[i]]) < Clockwise(key, hash[L[j]])
  /\ \A h \in S, i \in 1 .. Len(L) :
       r[h].node = L[i].node => Clockwise(key, hash[L[i]]) <= Clockwise(key, h)
  /\ \A h \in S :
       \/ \E i \in 1 .. Len(L) : L[i].node = r[h].node
       \/ /\ Len(L) = size
          /\ \A i \in 1 .. Len(L) : Clockwise(key, hash[L[i]]) < Clockwise(key, h)

LEMMA NearestStep ==
  ASSUME hash \in [VNodes -> Hashes], NEW r, RingOK(r), NEW key \in Hashes,
         NEW size \in Nat, NEW S \in SUBSET Taken(r), NEW h \in Taken(r),
         \A g \in S : Clockwise(key, g) < Clockwise(key, h),
         NEW L, Nearest(L, r, key, size, S),
         NEW M, M = AddEntry(L, r[h], size)
  PROVE  Nearest(M, r, key, size, S \cup {h})
<1>. DEFINE D(g) == Clockwise(key, g)
<1>1. PICK v \in VNodes : v = r[h] /\ hash[v] = h
  BY RingFacts DEF RingOK
<1>2. \A g \in Taken(r) : D(g) \in Int
  <2>1. \A g \in Taken(r) : g \in Nat
    BY RingFacts DEF RingOK, Hashes
  <2>. QED
    BY <2>1, HashSpaceAssumption DEF Hashes, Clockwise
<1>. HIDE DEF D
<1>3. /\ L \in Seq(VNodes) /\ Len(L) \in Nat /\ Len(L) <= size
      /\ \A i \in 1 .. Len(L) : hash[L[i]] \in S /\ r[hash[L[i]]] = L[i]
      /\ \A i, j \in 1 .. Len(L) : i < j => D(hash[L[i]]) < D(hash[L[j]])
      /\ \A g \in S, i \in 1 .. Len(L) : r[g].node = L[i].node => D(hash[L[i]]) <= D(g)
      /\ \A g \in S : \/ \E i \in 1 .. Len(L) : L[i].node = r[g].node
                      \/ Len(L) = size /\ \A i \in 1 .. Len(L) : D(hash[L[i]]) < D(g)
  <2>1. L \in Seq(VNodes)
    BY DEF Nearest
  <2>2. Len(L) \in Nat
    BY <2>1
  <2>. QED
    BY <2>1, <2>2, Zenon DEF Nearest, D
<1>4. \A i \in 1 .. Len(L) : D(hash[L[i]]) < D(h)
  BY <1>3 DEF D
<1>5. SUFFICES
        /\ M \in Seq(VNodes) /\ Len(M) <= size
        /\ \A i \in 1 .. Len(M) : hash[M[i]] \in S \cup {h} /\ r[hash[M[i]]] = M[i]
        /\ \A i, j \in 1 .. Len(M) : i < j => D(hash[M[i]]) < D(hash[M[j]])
        /\ \A g \in S \cup {h}, i \in 1 .. Len(M) :
             r[g].node = M[i].node => D(hash[M[i]]) <= D(g)
        /\ \A g \in S \cup {h} :
             \/ \E i \in 1 .. Len(M) : M[i].node = r[g].node
             \/ Len(M) = size /\ \A i \in 1 .. Len(M) : D(hash[M[i]]) < D(g)
  BY DEF Nearest, D
<1>6. CASE Len(L) < size /\ \A i \in 1 .. Len(L) : L[i].node # v.node
  <2>1. /\ M \in Seq(VNodes) /\ Len(M) = Len(L) + 1
        /\ \A i \in 1 .. Len(L) : M[i] = L[i]
        /\ M[Len(L) + 1] = v
    BY <1>1, <1>3, <1>6 DEF AddEntry
  <2>2. PICK n \in Nat : /\ n = Len(L) /\ Len(M) = n + 1 /\ M[n + 1] = v /\ n < size
                         /\ \A i \in 1 .. n : M[i] = L[i] /\ i \in 1 .. n + 1
                         /\ \A i \in 1 .. n + 1 : i \in 1 .. n \/ i = n + 1
    BY <1>3, <1>6, <2>1
  <2>3. \A i \in 1 .. n + 1 : hash[M[i]] \in S \cup {h} /\ r[hash[M[i]]] = M[i]
    BY <1>1, <1>3, <2>2
  <2>4. \A i, j \in 1 .. n + 1 : i < j => D(hash[M[i]]) < D(hash[M[j]])
    BY <1>1, <1>3, <1>4, <2>2
  <2>5. \A g \in S \cup {h}, i \in 1 .. n + 1 :
          r[g].node = M[i].node => D(hash[M[i]]) <= D(g)
    <3>1. ASSUME NEW g \in S, NEW i \in 1 .. n, r[g].node = M[i].node
          PROVE  D(hash[M[i]]) <= D(g)
      BY <1>3, <2>2, <3>1
    <3>2. ASSUME NEW g \in S PROVE r[g].node # v.node
      BY <1>3, <1>6
    <3>3. \A i \in 1 .. n : M[i].node # r[h].node
      BY <1>1, <1>6, <2>2
    <3>4. D(hash[M[n + 1]]) <= D(h)
      BY <1>1, <1>2, <2>2
    <3>. QED
      BY <2>2, <3>1, <3>2, <3>3, <3>4
  <2>6. \A g \in S \cup {h} : \E i \in 1 .. n + 1 : M[i].node = r[g].node
    <3>1. M[n + 1].node = r[h].node /\ n + 1 \in 1 .. n + 1
      BY <1>1, <2>2
    <3>2. ASSUME NEW g \in S PROVE \E i \in 1 .. n + 1 : M[i].node = r[g].node
      <4>1. PICK i \in 1 .. n : L[i].node = r[g].node
        BY <1>3, <1>6, <2>2
      <4>. QED
        BY <2>2, <4>1
    <3>. QED
      BY <3>1, <3>2
  <2>. QED
    BY <2>1, <2>2, <2>3, <2>4, <2>5, <2>6
<1>7. CASE ~(Len(L) < size /\ \A i \in 1 .. Len(L) : L[i].node # v.node)
  <2>1. M = L
    BY <1>1, <1>7 DEF AddEntry
  <2>2. \/ Len(L) = size
        \/ \E i \in 1 .. Len(L) : L[i].node = v.node
    BY <1>3, <1>7
  <2>. QED
    BY <1>1, <1>2, <1>3, <1>4, <2>1, <2>2
<1>. QED
  BY <1>6, <1>7

(* The list of a node names the nodes nearest to the key on the ring.      *)
LEMMA NearestList ==
  ASSUME hash \in [VNodes -> Hashes], NEW r, RingOK(r), Taken(r) # {},
         NEW key \in Hashes, NEW size \in Nat,
         NEW L, L = PreferenceList(r, key, size)
  PROVE  Nearest(L, r, key, size, Taken(r))
<1>1. r \in Rings
  BY DEF RingOK
<1>2. PICK w : w = Walk(r, key)
  OBVIOUS
<1>3. Outwards(w, r, key)
  BY <1>1, <1>2, WalkOrder
<1>4. w \in Seq(Taken(r)) /\ <<>> \in Seq(VNodes) /\ Len(<<>>) = 0
  BY <1>3 DEF Outwards
<1>5. PICK f : f \in Lists(r, w, <<>>, size) /\ ListAfter(r, w, <<>>, size) = f[Len(w)]
  BY <1>1, <1>4, ListLoop
<1>6. PICK N \in Nat : N = Len(w) /\ \A i \in 1 .. N : w[i] \in Taken(r)
  BY <1>4
<1>. DEFINE Seen(i) == {w[j] : j \in 1 .. i}
            Good == {i \in 0 .. N : Nearest(f[i], r, key, size, Seen(i))}
<1>7. 0 \in Good
  <2>1. Seen(0) = {} /\ f[0] = <<>>
    BY <1>5 DEF Lists
  <2>. HIDE DEF Seen
  <2>2. Nearest(<<>>, r, key, size, {})
    BY <1>4 DEF Nearest
  <2>3. Nearest(f[0], r, key, size, Seen(0))
    BY <2>1, <2>2
  <2>. QED
    BY <2>3
<1>8. ASSUME NEW i \in 1 .. N, i - 1 \in Good
      PROVE  i \in Good
  <2>1. Nearest(f[i - 1], r, key, size, Seen(i - 1))
    BY <1>8
  <2>2. /\ Seen(i - 1) \in SUBSET Taken(r) /\ w[i] \in Taken(r)
        /\ Seen(i) = Seen(i - 1) \cup {w[i]}
    BY <1>6
  <2>3. \A g \in Seen(i - 1) : Clockwise(key, g) < Clockwise(key, w[i])
    BY <1>3, <1>6 DEF Outwards
  <2>. HIDE DEF Seen
  <2>4. f[i] = AddEntry(f[i - 1], r[w[i]], size)
    BY <1>5, <1>6 DEF Lists
  <2>5. Nearest(f[i], r, key, size, Seen(i - 1) \cup {w[i]})
    BY <2>1, <2>2, <2>3, <2>4, NearestStep
  <2>6. Nearest(f[i], r, key, size, Seen(i)) /\ i \in 0 .. N
    BY <2>2, <2>5
  <2>. QED
    BY <2>6
<1>9. Seen(N) = Taken(r)
  BY <1>3, <1>6 DEF Outwards
<1>. HIDE DEF Good, Seen
<1>10. N \in Good
  <2>1. \A i \in 0 .. N : i \in Good
    BY <1>7, <1>8, LoopInduction
  <2>. QED
    BY <2>1
<1>11. L = f[N]
  BY <1>2, <1>5, <1>6 DEF PreferenceList
<1>. QED
  BY <1>9, <1>10, <1>11 DEF Good

-----------------------------------------------------------------------------
(* The invariant: the ring is what a storage node builds from the list of  *)
(* nodes, and holds entries of these nodes only.                           *)

ManagerInv ==
  /\ hash \in [VNodes -> Hashes]
  /\ nodes \in Seq(Nodes)
  /\ RingOK(ring)
  /\ RingOf(nodes) = ring
  /\ \A h \in Taken(ring) : ring[h].node \in Added

LEMMA RingStays ==
  ASSUME hash' = hash
  PROVE  /\ RingOf(nodes)' = RingOf(nodes')
         /\ RingOK(ring)' <=> RingOK(ring')
<1>1. RingOf(nodes)' = RingOf(nodes')
  BY SMT DEF RingOf, AddVirtualNodes, Insert, Taken
<1>2. RingOK(ring)' <=> RingOK(ring')
  BY DEF RingOK, Taken
<1>. QED
  BY <1>1, <1>2

LEMMA ManagerInvariant == ManagerSpec => []ManagerInv
<1>1. ManagerInit => ManagerInv
  <2>. SUFFICES ASSUME ManagerInit PROVE ManagerInv
    OBVIOUS
  <2>1. hash \in [VNodes -> Hashes] /\ nodes = <<>> /\ ring = EmptyRing
    BY DEF ManagerInit, RingInit
  <2>2. nodes \in Seq(Nodes) /\ Len(nodes) = 0
    BY <2>1
  <2>3. PICK f \in [0 .. Len(nodes) -> Rings] : f[0] = EmptyRing /\ RingOf(nodes) = f[Len(nodes)]
    BY <2>1, <2>2, RingLoop
  <2>4. ring \in Rings /\ RingOf(nodes) = ring
    BY <2>1, <2>2, <2>3
  <2>5. Taken(ring) = {}
    BY <2>1 DEF EmptyRing, Taken
  <2>. QED
    BY <2>1, <2>2, <2>4, <2>5 DEF ManagerInv, RingOK
<1>2. ManagerInv /\ [ManagerNext]_managerVars => ManagerInv'
  <2>. SUFFICES ASSUME ManagerInv, [ManagerNext]_managerVars
                PROVE  ManagerInv'
    OBVIOUS
  <2>1. ASSUME NEW n \in Nodes, AddStorageNode(n)
        PROVE  ManagerInv'
    <3>1. /\ hash \in [VNodes -> Hashes] /\ nodes \in Seq(Nodes)
          /\ RingOK(ring) /\ RingOf(nodes) = ring
          /\ \A h \in Taken(ring) : ring[h].node \in Added
      BY DEF ManagerInv
    <3>2. nodes' = Append(nodes, n) /\ ring' = AddVirtualNodes(ring, n) /\ hash' = hash
      BY <2>1 DEF AddStorageNode
    <3>3. PICK r, s : r = ring /\ s = ring'
      OBVIOUS
    <3>4. RingOK(r) /\ s = AddVirtualNodes(r, n)
      BY <3>1, <3>2, <3>3
    <3>5. /\ RingOK(s) /\ Taken(r) \subseteq Taken(s)
          /\ \A h \in Taken(r) : s[h] = r[h]
          /\ \A h \in Taken(s) \ Taken(r) : s[h].node = n
      BY <3>1, <3>4, AddRing
    <3>6. nodes' \in Seq(Nodes)
      BY <3>1, <3>2
    <3>7. \A h \in Taken(ring') : ring'[h].node \in Added'
      <4>1. Added \subseteq Added' /\ n \in Added'
        BY <3>1, <3>2 DEF Added
      <4>. QED
        BY <3>1, <3>3, <3>5, <4>1
    <3>8. RingOf(nodes') = ring'
      BY <3>1, <3>2, RingOfAppend
    <3>9. RingOK(ring)' /\ RingOf(nodes)' = ring'
      BY <3>2, <3>3, <3>5, <3>8, RingStays
    <3>. QED
      BY <3>1, <3>2, <3>6, <3>7, <3>9 DEF ManagerInv, Taken
  <2>2. ASSUME UNCHANGED <<hash, nodes, ring>>
        PROVE  ManagerInv'
    <3>1. RingOK(ring)' /\ RingOf(nodes)' = ring'
      BY <2>2, RingStays DEF ManagerInv
    <3>. QED
      BY <2>2, <3>1 DEF ManagerInv, Added, Taken
  <2>. QED
    BY <2>1, <2>2 DEF ManagerNext, ComputeStats, managerVars, ringVars
<1>. QED
  BY <1>1, <1>2, PTL DEF ManagerSpec

-----------------------------------------------------------------------------
(* The manager puts the first entry in beforehand and searches on from the *)
(* second; a storage node searches from the first.                         *)
LEMMA SameLists ==
  ASSUME NEW r \in Rings, Taken(r) # {}, NEW key \in Hashes, NEW size \in Nat, size >= 1
  PROVE  PreferenceList(r, key, size) = ManagerPreferenceList(r, key, size)
<1>1. PICK w : w = Walk(r, key)
  OBVIOUS
<1>2. Outwards(w, r, key)
  BY <1>1, WalkOrder
<1>3. PICK n \in Nat : n + 1 = Len(w)
  <2>1. Len(w) \in Nat /\ Len(w) >= 1
    BY <1>2 DEF Outwards
  <2>2. Len(w) - 1 \in Nat /\ (Len(w) - 1) + 1 = Len(w)
    BY <2>1
  <2>. QED
    BY <2>2
<1>4. PICK t : t = Tail(w)
  OBVIOUS
<1>5. /\ t \in Seq(Taken(r)) /\ Len(t) = n
      /\ \A i \in 1 .. n : t[i] = w[i + 1]
  <2>1. w \in Seq(Taken(r)) /\ w # <<>>
    BY <1>2, <1>3 DEF Outwards
  <2>2. /\ t \in Seq(Taken(r)) /\ Len(t) = Len(w) - 1
        /\ \A i \in 1 .. Len(t) : t[i] = w[i + 1]
    BY <1>4, <2>1, HeadTailProperties
  <2>. QED
    BY <1>3, <2>2
<1>6. PICK v \in VNodes : v = r[w[1]] /\ v = Owner(r, key)
  <2>1. w[1] \in Taken(r) /\ w[1] = Find(r, key)
    BY <1>2, <1>3 DEF Outwards
  <2>. QED
    BY <2>1, RingFacts DEF Owner
<1>7. /\ <<>> \in Seq(VNodes) /\ <<v>> \in Seq(VNodes)
      /\ Len(<<>>) = 0 /\ Append(<<>>, v) = <<v>>
      /\ w \in Seq(Taken(r))
  BY <1>2 DEF Outwards
<1>8. PICK f : f \in Lists(r, w, <<>>, size) /\ ListAfter(r, w, <<>>, size) = f[Len(w)]
  BY <1>3, <1>7, ListLoop
<1>9. PICK g : g \in Lists(r, t, <<v>>, size) /\ ListAfter(r, t, <<v>>, size) = g[Len(t)]
  BY <1>5, <1>7, ListLoop, ZenonT(60)
<1>10. /\ f[0] = <<>>
       /\ \A i \in 1 .. n + 1 : f[i] = AddEntry(f[i - 1], r[w[i]], size)
  <2>1. /\ f[0] = <<>>
        /\ \A i \in 1 .. Len(w) : f[i] = AddEntry(f[i - 1], r[w[i]], size)
    BY <1>8, Zenon DEF Lists
  <2>. QED
    BY <1>3, <2>1
<1>11. /\ g[0] = <<v>>
       /\ \A i \in 1 .. n : g[i] = AddEntry(g[i - 1], r[t[i]], size)
  <2>1. /\ g[0] = <<v>>
        /\ \A i \in 1 .. Len(t) : g[i] = AddEntry(g[i - 1], r[t[i]], size)
    BY <1>9, Zenon DEF Lists
  <2>. QED
    BY <1>5, <2>1
<1>12. AddEntry(<<>>, v, size) = <<v>>
  BY <1>7 DEF AddEntry
<1>. DEFINE Same == {i \in 0 .. n : g[i] = f[i + 1]}
<1>13. 0 \in Same
  <2>1. 1 \in 1 .. n + 1 /\ 1 - 1 = 0 /\ 0 + 1 = 1
    OBVIOUS
  <2>2. f[1] = <<v>>
    BY <1>6, <1>10, <1>12, <2>1
  <2>. QED
    BY <1>11, <2>1, <2>2
<1>14. ASSUME NEW i \in 1 .. n, i - 1 \in Same PROVE i \in Same
  <2>1. i + 1 \in 1 .. n + 1 /\ (i + 1) - 1 = i /\ (i - 1) + 1 = i
    OBVIOUS
  <2>2. f[i + 1] = AddEntry(f[i], r[w[i + 1]], size)
    BY <1>10, <2>1
  <2>3. g[i - 1] = f[i]
    BY <1>14, <2>1
  <2>. QED
    BY <1>5, <1>11, <2>2, <2>3
<1>. HIDE DEF Same
<1>15. g[n] = f[n + 1]
  <2>1. \A i \in 0 .. n : i \in Same
    BY <1>13, <1>14, LoopInduction
  <2>. QED
    BY <2>1 DEF Same
<1>. QED
  BY <1>1, <1>3, <1>4, <1>5, <1>6, <1>8, <1>9, <1>15 DEF PreferenceList, ManagerPreferenceList

(* The coordinator, which find returns, is the first of every list.        *)
LEMMA CoordinatorFirst ==
  ASSUME hash \in [VNodes -> Hashes], NEW r, RingOK(r), Taken(r) # {},
         NEW key \in Hashes, NEW size \in Nat, size >= 1,
         NEW L, L = PreferenceList(r, key, size)
  PROVE  Len(L) >= 1 /\ L[1] = Owner(r, key)
<1>. DEFINE D(h) == Clockwise(key, h)
            f == Find(r, key)
<1>1. /\ r \in Rings /\ Taken(r) \in SUBSET Hashes
      /\ \A h \in Taken(r) : r[h] \in VNodes /\ hash[r[h]] = h
  BY RingFacts DEF RingOK
<1>2. f \in Taken(r) /\ \A h \in Taken(r) : D(f) <= D(h)
  BY <1>1, FindNearest
<1>3. Nearest(L, r, key, size, Taken(r))
  BY NearestList
<1>4. \A h \in Taken(r) : D(h) \in Int
  BY <1>1, HashSpaceAssumption DEF Clockwise, Hashes
<1>. HIDE DEF D, f
<1>5. L \in Seq(VNodes) /\ Len(L) \in Nat
  <2>1. L \in Seq(VNodes)
    BY <1>3 DEF Nearest
  <2>. QED
    BY <2>1
<1>6. /\ \A i \in 1 .. Len(L) : hash[L[i]] \in Taken(r) /\ r[hash[L[i]]] = L[i]
      /\ \A i, j \in 1 .. Len(L) : i < j => D(hash[L[i]]) < D(hash[L[j]])
      /\ \A i \in 1 .. Len(L) : L[i].node = r[f].node => D(hash[L[i]]) <= D(f)
      /\ \/ \E i \in 1 .. Len(L) : L[i].node = r[f].node
         \/ Len(L) = size /\ \A i \in 1 .. Len(L) : D(hash[L[i]]) < D(f)
  BY <1>2, <1>3, Zenon DEF Nearest, D
<1>7. Len(L) >= 1
  BY <1>5, <1>6
<1>8. D(hash[L[1]]) <= D(f)
  <2>1. CASE \E i \in 1 .. Len(L) : L[i].node = r[f].node
    <3>1. PICK i \in 1 .. Len(L) : L[i].node = r[f].node
      BY <2>1
    <3>2. D(hash[L[i]]) <= D(f) /\ D(hash[L[i]]) \in Int /\ D(hash[L[1]]) \in Int
      BY <1>4, <1>5, <1>6, <1>7, <3>1
    <3>3. i = 1 \/ D(hash[L[1]]) < D(hash[L[i]])
      BY <1>5, <1>6, <1>7
    <3>. QED
      BY <1>2, <1>4, <3>2, <3>3
  <2>2. CASE \A i \in 1 .. Len(L) : D(hash[L[i]]) < D(f)
    BY <1>2, <1>4, <1>5, <1>6, <1>7, <2>2
  <2>. QED
    BY <1>6, <2>1, <2>2
<1>9. PICK h \in Taken(r) : h = hash[L[1]] /\ r[h] = L[1]
  BY <1>5, <1>6, <1>7
<1>10. D(h) = D(f)
  BY <1>2, <1>4, <1>8, <1>9
<1>11. h = f
  BY <1>1, <1>2, <1>10, ClockwiseInjective DEF D
<1>. QED
  BY <1>7, <1>9, <1>11 DEF Owner, f

(***************************************************************************)
(* The manager and every storage node agree on the ring, on the preference *)
(* list of every key and on its coordinator, whatever the order and number *)
(* of the nodes and wherever their virtual nodes collide.                  *)
(***************************************************************************)
THEOREM Agreement == ManagerSpec => []CoordinatorsAgree
<1>1. ManagerInv => CoordinatorsAgree
  <2>. SUFFICES ASSUME ManagerInv PROVE CoordinatorsAgree
    OBVIOUS
  <2>1. NodeRing = ring
    BY DEF ManagerInv, NodeRing
  <2>2. ASSUME NEW key \in Hashes, NEW size \in Sizes, Taken(ring) # {}
        PROVE  /\ PreferenceList(ring, key, size) = ManagerPreferenceList(ring, key, size)
               /\ FindCoordinator(ring, key) = ManagerPreferenceList(ring, key, size)[1]
    <3>1. size \in Nat /\ size >= 1
      BY DEF Sizes
    <3>2. PICK r : r = ring
      OBVIOUS
    <3>3. hash \in [VNodes -> Hashes] /\ RingOK(r) /\ r \in Rings /\ Taken(r) # {}
      BY <2>2, <3>2 DEF ManagerInv, RingOK
    <3>4. PreferenceList(r, key, size) = ManagerPreferenceList(r, key, size)
      BY <3>1, <3>3, SameLists
    <3>5. PreferenceList(r, key, size)[1] = Owner(r, key)
      BY <3>1, <3>3, CoordinatorFirst
    <3>. QED
      BY <3>2, <3>4, <3>5 DEF FindCoordinator
  <2>. QED
    BY <2>1, <2>2 DEF CoordinatorsAgree
<1>. QED
  BY <1>1, ManagerInvariant, PTL

(* What a list of the nearest nodes gives directly.                        *)
LEMMA NearestFacts ==
  ASSUME hash \in [VNodes -> Hashes], NEW r, RingOK(r), NEW key \in Hashes,
         NEW size \in Nat, NEW L, Nearest(L, r, key, size, Taken(r))
  PROVE  /\ L \in Seq(VNodes) /\ Len(L) \in Nat /\ Len(L) <= size
         /\ \A i \in 1 .. Len(L) : hash[L[i]] \in Taken(r) /\ r[hash[L[i]]] = L[i]
         /\ \A h \in Taken(r) : Clockwise(key, h) \in Nat
         /\ \A i, j \in 1 .. Len(L) : L[i].node = L[j].node => i = j
<1>. DEFINE D(h) == Clockwise(key, h)
<1>1. /\ L \in Seq(VNodes) /\ Len(L) <= size
      /\ \A i \in 1 .. Len(L) : hash[L[i]] \in Taken(r) /\ r[hash[L[i]]] = L[i]
  BY Zenon DEF Nearest
<1>2. Len(L) \in Nat
  BY <1>1
<1>3. \A h \in Taken(r) : D(h) \in Nat
  <2>1. \A h \in Taken(r) : h \in Hashes
    BY RingFacts DEF RingOK
  <2>. QED
    BY <2>1, HashSpaceAssumption DEF Clockwise, Hashes
<1>. HIDE DEF D
<1>4. /\ \A i, j \in 1 .. Len(L) : i < j => D(hash[L[i]]) < D(hash[L[j]])
      /\ \A h \in Taken(r), i \in 1 .. Len(L) :
           r[h].node = L[i].node => D(hash[L[i]]) <= D(h)
  BY Zenon DEF Nearest, D
<1>5. ASSUME NEW i \in 1 .. Len(L), NEW j \in 1 .. Len(L), L[i].node = L[j].node
      PROVE  i = j
  <2>1. /\ D(hash[L[i]]) <= D(hash[L[j]]) /\ D(hash[L[j]]) <= D(hash[L[i]])
        /\ D(hash[L[i]]) \in Nat /\ D(hash[L[j]]) \in Nat
    BY <1>1, <1>3, <1>4, <1>5
  <2>2. ~(i < j) /\ ~(j < i)
    BY <1>4, <2>1
  <2>. QED
    BY <2>2
<1>. QED
  BY <1>1, <1>2, <1>3, <1>5 DEF D

(* How far a node's nearest entry is.                                      *)
LEMMA DistanceFacts ==
  ASSUME NEW r \in Rings, NEW key \in Hashes
  PROVE  /\ \A n \in OnRing(r) :
              \E h \in Taken(r) : r[h].node = n /\ Distance(r, key, n) = Clockwise(key, h)
         /\ \A h \in Taken(r) : Distance(r, key, r[h].node) <= Clockwise(key, h)
<1>. DEFINE Ds(n) == {Clockwise(key, h) : h \in {g \in Taken(r) : r[g].node = n}}
<1>1. ASSUME NEW h0 \in Taken(r), NEW n, n = r[h0].node
      PROVE  /\ \E h \in Taken(r) : r[h].node = n /\ Distance(r, key, n) = Clockwise(key, h)
             /\ Distance(r, key, n) <= Clockwise(key, h0)
  <2>1. \A h \in Taken(r) : Clockwise(key, h) \in Nat
    <3>1. \A h \in Taken(r) : h \in Hashes
      BY RingFacts
    <3>. QED
      BY <3>1, HashSpaceAssumption DEF Clockwise, Hashes
  <2>2. Ds(n) \in SUBSET Nat /\ Clockwise(key, h0) \in Ds(n)
    BY <1>1, <2>1
  <2>3. Distance(r, key, n) = Smallest(Ds(n))
    BY DEF Distance
  <2>4. Smallest(Ds(n)) \in Ds(n) /\ \A d \in Ds(n) : Smallest(Ds(n)) <= d
    <3>. HIDE DEF Ds
    <3>. QED
      BY <2>2, SmallestExists
  <2>. QED
    BY <2>2, <2>3, <2>4
<1>2. ASSUME NEW n \in OnRing(r)
      PROVE  \E h \in Taken(r) : r[h].node = n /\ Distance(r, key, n) = Clockwise(key, h)
  <2>1. PICK h \in Taken(r) : r[h].node = n
    BY DEF OnRing
  <2>. QED
    BY <1>1, <2>1
<1>. QED
  BY <1>1, <1>2

(* A list has as many entries as there are nodes to put on it.             *)
LEMMA ListLength ==
  ASSUME hash \in [VNodes -> Hashes], NEW r, RingOK(r), NEW key \in Hashes,
         NEW size \in Nat, NEW L, Nearest(L, r, key, size, Taken(r))
  PROVE  Len(L) = Smallest({size, Cardinality(OnRing(r))})
<1>. DEFINE there == {L[i].node : i \in 1 .. Len(L)}
<1>1. /\ L \in Seq(VNodes) /\ Len(L) \in Nat /\ Len(L) <= size
      /\ \A i \in 1 .. Len(L) : hash[L[i]] \in Taken(r) /\ r[hash[L[i]]] = L[i]
      /\ \A i, j \in 1 .. Len(L) : L[i].node = L[j].node => i = j
  BY NearestFacts
<1>2. IsFiniteSet(Taken(r))
  <2>1. Taken(r) \in SUBSET Hashes
    BY RingFacts DEF RingOK
  <2>2. Taken(r) \in SUBSET Nat /\ HashSpace - 1 \in Nat /\ \A h \in Taken(r) : h <= HashSpace - 1
    BY <2>1, HashSpaceAssumption DEF Hashes
  <2>. QED
    BY <2>2, FS_BoundedSetOfNaturals
<1>3. IsFiniteSet(OnRing(r)) /\ Cardinality(OnRing(r)) \in Nat
  <2>. DEFINE f == [h \in Taken(r) |-> r[h].node]
  <2>1. f \in Surjection(Taken(r), OnRing(r))
    BY DEF Surjection, OnRing
  <2>. HIDE DEF f
  <2>2. IsFiniteSet(OnRing(r))
    BY <1>2, <2>1, FS_Surjection
  <2>. QED
    BY <2>2, FS_CardinalityType
<1>4. there \in SUBSET OnRing(r)
  <2>1. ASSUME NEW i \in 1 .. Len(L) PROVE L[i].node \in OnRing(r)
    BY <1>1 DEF OnRing
  <2>. QED
    BY <2>1
<1>5. Cardinality(there) = Len(L)
  <2>. DEFINE f == [i \in 1 .. Len(L) |-> L[i].node]
  <2>1. f \in Surjection(1 .. Len(L), there)
    BY DEF Surjection
  <2>2. f \in Injection(1 .. Len(L), there)
    <3>1. f \in [1 .. Len(L) -> there]
      OBVIOUS
    <3>2. \A i, j \in 1 .. Len(L) : f[i] = f[j] => i = j
      BY <1>1
    <3>. HIDE DEF f, there
    <3>. QED
      BY <3>1, <3>2 DEF Injection, IsInjective
  <2>3. IsFiniteSet(1 .. Len(L)) /\ Cardinality(1 .. Len(L)) = Len(L)
    <3>1. 1 \in Int /\ Len(L) \in Int /\ (1 > Len(L) => Len(L) = 0) /\ Len(L) - 1 + 1 = Len(L)
      BY <1>1
    <3>. QED
      BY <3>1, FS_Interval
  <2>. HIDE DEF f, there
  <2>. QED
    BY <2>1, <2>2, <2>3, FS_Surjection
<1>6. Len(L) <= Cardinality(OnRing(r))
  <2>. HIDE DEF there
  <2>. QED
    BY <1>3, <1>4, <1>5, FS_Subset
<1>7. Len(L) = size \/ Len(L) = Cardinality(OnRing(r))
  <2>. SUFFICES ASSUME Len(L) # size PROVE OnRing(r) = there
    BY <1>5
  <2>1. \A h \in Taken(r) : \E i \in 1 .. Len(L) : L[i].node = r[h].node
    BY Zenon DEF Nearest
  <2>2. \A n \in OnRing(r) : n \in there
    BY <2>1 DEF OnRing
  <2>. HIDE DEF there
  <2>. QED
    BY <1>4, <2>2
<1>8. PICK c \in Nat : c = Cardinality(OnRing(r))
  BY <1>3
<1>9. Smallest({size, c}) \in {size, c} /\ \A x \in {size, c} : Smallest({size, c}) <= x
  <2>1. {size, c} \in SUBSET Nat /\ {size, c} # {}
    OBVIOUS
  <2>. QED
    BY <2>1, SmallestExists
<1>. QED
  BY <1>1, <1>6, <1>7, <1>8, <1>9

(***************************************************************************)
(* Every preference list names the nodes nearest to its key, nearest       *)
(* first, each once and with the rank of its nearest virtual node, and is  *)
(* as long as the ring allows.                                             *)
(***************************************************************************)
THEOREM ListsCorrect == ManagerSpec => []ListIsNearestNodes
<1>1. ManagerInv => ListIsNearestNodes
  <2>. SUFFICES ASSUME ManagerInv, NEW key \in Hashes, NEW size \in Sizes, Taken(ring) # {},
                       NEW L, L = PreferenceList(ring, key, size)
                PROVE  LET there == {L[i].node : i \in 1 .. Len(L)}
                       IN  /\ Len(L) = Smallest({size, Cardinality(OnRing(ring))})
                           /\ \A i, j \in 1 .. Len(L) :
                                i < j => Distance(ring, key, L[i].node)
                                           < Distance(ring, key, L[j].node)
                           /\ \A n \in there, m \in OnRing(ring) \ there :
                                Distance(ring, key, n) < Distance(ring, key, m)
                           /\ \A i \in 1 .. Len(L) :
                                /\ L[i].rank < NumVNodes[L[i].node]
                                /\ Clockwise(key, hash[L[i]]) = Distance(ring, key, L[i].node)
    BY DEF ListIsNearestNodes
  <2>. DEFINE there == {L[i].node : i \in 1 .. Len(L)}
              D(h) == Clockwise(key, h)
              Far(n) == Distance(ring, key, n)
  <2>1. PICK r : r = ring
    OBVIOUS
  <2>2. /\ hash \in [VNodes -> Hashes] /\ RingOK(r) /\ r \in Rings
        /\ Taken(r) # {} /\ size \in Nat /\ L = PreferenceList(r, key, size)
    BY <2>1 DEF ManagerInv, RingOK, Sizes
  <2>3. Nearest(L, r, key, size, Taken(r))
    BY <2>2, NearestList
  <2>4. Len(L) = Smallest({size, Cardinality(OnRing(r))})
    BY <2>2, <2>3, ListLength
  <2>5. /\ L \in Seq(VNodes)
        /\ \A i \in 1 .. Len(L) : hash[L[i]] \in Taken(r) /\ r[hash[L[i]]] = L[i]
        /\ \A h \in Taken(r) : D(h) \in Nat
    BY <2>2, <2>3, NearestFacts
  <2>6. /\ \A n \in OnRing(r) : \E h \in Taken(r) : r[h].node = n /\ Far(n) = D(h)
        /\ \A h \in Taken(r) : Far(r[h].node) <= D(h)
    BY <2>1, <2>2, DistanceFacts
  <2>. HIDE DEF D, Far
  <2>7. /\ \A i, j \in 1 .. Len(L) : i < j => D(hash[L[i]]) < D(hash[L[j]])
        /\ \A h \in Taken(r), i \in 1 .. Len(L) :
             r[h].node = L[i].node => D(hash[L[i]]) <= D(h)
        /\ \A h \in Taken(r) :
             \/ \E i \in 1 .. Len(L) : L[i].node = r[h].node
             \/ \A i \in 1 .. Len(L) : D(hash[L[i]]) < D(h)
    BY <2>3, Zenon DEF Nearest, D
  <2>8. ASSUME NEW i \in 1 .. Len(L)
        PROVE  D(hash[L[i]]) = Far(L[i].node) /\ L[i].rank < NumVNodes[L[i].node]
    <3>1. L[i].node \in OnRing(r)
      BY <2>5 DEF OnRing
    <3>2. PICK h \in Taken(r) : r[h].node = L[i].node /\ Far(L[i].node) = D(h)
      BY <2>6, <3>1
    <3>3. D(hash[L[i]]) <= D(h) /\ D(h) <= D(hash[L[i]])
      BY <2>5, <2>6, <2>7, <3>2
    <3>4. D(hash[L[i]]) \in Nat /\ D(h) \in Nat
      BY <2>5
    <3>5. L[i] \in VNodes
      BY <2>5
    <3>. QED
      BY <3>2, <3>3, <3>4, <3>5, VNodeFacts
  <2>9. ASSUME NEW i \in 1 .. Len(L), NEW m \in OnRing(r) \ there
        PROVE  Far(L[i].node) < Far(m)
    <3>1. PICK h \in Taken(r) : r[h].node = m /\ Far(m) = D(h)
      BY <2>6
    <3>2. D(hash[L[i]]) < D(h)
      BY <2>7, <3>1
    <3>. QED
      BY <2>8, <3>1, <3>2
  <2>10. \A i, j \in 1 .. Len(L) : i < j => Far(L[i].node) < Far(L[j].node)
    BY <2>7, <2>8
  <2>. QED
    BY <2>1, <2>4, <2>8, <2>9, <2>10 DEF D, Far
<1>. QED
  BY <1>1, ManagerInvariant, PTL

-----------------------------------------------------------------------------
(* A newcomer n brings the entries that the ring s has and r has not.      *)
Joined(r, s, n) ==
  /\ RingOK(r) /\ RingOK(s) /\ Taken(r) \subseteq Taken(s)
  /\ \A h \in Taken(r) : s[h] = r[h] /\ r[h].node # n
  /\ \A h \in Taken(s) \ Taken(r) : s[h].node = n

(* The list A after the join is the list B before it, the newcomer put in. *)
PutIn(A, B, n) ==
  \E at \in 1 .. Len(A) + 1 : \A i \in 1 .. Len(A) :
    /\ i < at => i <= Len(B) /\ A[i] = B[i]
    /\ i = at => A[i].node = n
    /\ i > at => i - 1 <= Len(B) /\ A[i] = B[i - 1]

LEMMA JoinedList ==
  ASSUME hash \in [VNodes -> Hashes], NEW r, NEW s, NEW n, Joined(r, s, n),
         NEW key \in Hashes, NEW size \in Nat,
         NEW B, Nearest(B, r, key, size, Taken(r)),
         NEW A, Nearest(A, s, key, size, Taken(s))
  PROVE  PutIn(A, B, n)
<1>. DEFINE D(h) == Clockwise(key, h)
<1>1. /\ RingOK(r) /\ RingOK(s) /\ Taken(r) \subseteq Taken(s)
      /\ \A h \in Taken(r) : s[h] = r[h] /\ r[h].node # n
      /\ \A h \in Taken(s) \ Taken(r) : s[h].node = n
  BY DEF Joined
<1>2. PICK b \in Nat : b = Len(B)
  BY <1>1, NearestFacts
<1>3. PICK a \in Nat : a = Len(A)
  BY <1>1, NearestFacts
<1>4. /\ B \in Seq(VNodes) /\ b <= size
      /\ \A i \in 1 .. b : hash[B[i]] \in Taken(r) /\ r[hash[B[i]]] = B[i]
      /\ \A h \in Taken(r) : D(h) \in Nat
      /\ \A i, j \in 1 .. b : B[i].node = B[j].node => i = j
  <2>1. /\ B \in Seq(VNodes) /\ Len(B) <= size
        /\ \A i \in 1 .. Len(B) : hash[B[i]] \in Taken(r) /\ r[hash[B[i]]] = B[i]
        /\ \A h \in Taken(r) : Clockwise(key, h) \in Nat
        /\ \A i, j \in 1 .. Len(B) : B[i].node = B[j].node => i = j
    BY <1>1, NearestFacts
  <2>. QED
    BY <1>2, <2>1
<1>5. /\ A \in Seq(VNodes) /\ a <= size
      /\ \A i \in 1 .. a : hash[A[i]] \in Taken(s) /\ s[hash[A[i]]] = A[i]
      /\ \A h \in Taken(s) : D(h) \in Nat
      /\ \A i, j \in 1 .. a : A[i].node = A[j].node => i = j
  <2>1. /\ A \in Seq(VNodes) /\ Len(A) <= size
        /\ \A i \in 1 .. Len(A) : hash[A[i]] \in Taken(s) /\ s[hash[A[i]]] = A[i]
        /\ \A h \in Taken(s) : Clockwise(key, h) \in Nat
        /\ \A i, j \in 1 .. Len(A) : A[i].node = A[j].node => i = j
    BY <1>1, NearestFacts
  <2>. QED
    BY <1>3, <2>1
<1>6. \A g, h \in Taken(s) : D(g) = D(h) => g = h
  <2>1. Taken(s) \in SUBSET Hashes
    BY <1>1, RingFacts DEF RingOK
  <2>. QED
    BY <2>1, ClockwiseInjective
<1>. HIDE DEF D
<1>7. /\ \A i, j \in 1 .. Len(B) : i < j => D(hash[B[i]]) < D(hash[B[j]])
      /\ \A h \in Taken(r), i \in 1 .. Len(B) :
           r[h].node = B[i].node => D(hash[B[i]]) <= D(h)
      /\ \A h \in Taken(r) :
           \/ \E i \in 1 .. Len(B) : B[i].node = r[h].node
           \/ Len(B) = size /\ \A i \in 1 .. Len(B) : D(hash[B[i]]) < D(h)
  BY Zenon DEF Nearest, D
<1>8. /\ \A i, j \in 1 .. Len(A) : i < j => D(hash[A[i]]) < D(hash[A[j]])
      /\ \A h \in Taken(s), i \in 1 .. Len(A) :
           s[h].node = A[i].node => D(hash[A[i]]) <= D(h)
      /\ \A h \in Taken(s) :
           \/ \E i \in 1 .. Len(A) : A[i].node = s[h].node
           \/ Len(A) = size /\ \A i \in 1 .. Len(A) : D(hash[A[i]]) < D(h)
  BY Zenon DEF Nearest, D
<1>9. PICK at \in 1 .. a + 1 :
        /\ \A i \in 1 .. a : A[i].node = n <=> i = at
  <2>1. CASE \E i \in 1 .. a : A[i].node = n
    <3>1. PICK i \in 1 .. a : A[i].node = n
      BY <2>1
    <3>2. i \in 1 .. a + 1 /\ \A j \in 1 .. a : A[j].node = n <=> j = i
      BY <1>5, <3>1
    <3>. QED
      BY <3>2
  <2>2. CASE \A i \in 1 .. a : A[i].node # n
    <3>1. a + 1 \in 1 .. a + 1 /\ \A j \in 1 .. a : A[j].node = n <=> j = a + 1
      BY <2>2
    <3>. QED
      BY <3>1
  <2>. QED
    BY <2>1, <2>2
<1>. DEFINE To(i) == IF i < at THEN i ELSE i - 1
            Moved(i) == To(i) <= b /\ A[i] = B[To(i)]
            Good == {i \in 0 .. a : \A j \in 1 .. i : j # at => Moved(j)}
<1>10. 0 \in Good
  OBVIOUS
<1>11. ASSUME NEW i \in 1 .. a, i - 1 \in Good, i # at
       PROVE  Moved(i)
  <2>1. PICK k \in 1 .. a : k = To(i) /\ k <= i
    BY <1>11
  <2>2. \A j \in 1 .. i : j < i /\ j # at => j \in 1 .. a /\ To(j) <= b /\ A[j] = B[To(j)]
    BY <1>11
  <2>3. \A c \in 1 .. k : c < k => \E j \in 1 .. i : j < i /\ j # at /\ To(j) = c
    <3>1. ASSUME NEW c \in 1 .. k, c < k
          PROVE  \E j \in 1 .. i : j < i /\ j # at /\ To(j) = c
      <4>1. CASE c < at
        <5>1. c \in 1 .. i /\ c < i /\ c # at /\ To(c) = c
          BY <2>1, <3>1, <4>1
        <5>. QED
          BY <5>1
      <4>2. CASE ~(c < at)
        <5>1. c + 1 \in 1 .. i /\ c + 1 < i /\ c + 1 # at /\ To(c + 1) = c
          BY <1>11, <2>1, <3>1, <4>2
        <5>. QED
          BY <5>1
      <4>. QED
        BY <4>1, <4>2
    <3>. QED
      BY <3>1
  <2>4. \A c \in 1 .. k : c < k => \E j \in 1 .. a : j < i /\ j # at /\ A[j] = B[c] /\ c <= b
    BY <2>2, <2>3
  <2>5. \A j \in 1 .. a : j < i /\ j # at => \E c \in 1 .. k : c < k /\ A[j] = B[c]
    <3>1. ASSUME NEW j \in 1 .. a, j < i, j # at
          PROVE  \E c \in 1 .. k : c < k /\ A[j] = B[c]
      <4>1. To(j) \in 1 .. k /\ To(j) < k
        BY <1>11, <2>1, <3>1
      <4>2. A[j] = B[To(j)]
        BY <2>2, <3>1
      <4>. QED
        BY <4>1, <4>2
    <3>. QED
      BY <3>1
  <2>. HIDE DEF To
  <2>6. PICK h : h = hash[A[i]]
    OBVIOUS
  <2>7. h \in Taken(r) /\ r[h] = A[i] /\ s[h] = A[i]
    <3>1. h \in Taken(s) /\ s[h] = A[i]
      BY <1>5, <2>6
    <3>2. A[i].node # n
      BY <1>9, <1>11
    <3>. QED
      BY <1>1, <3>1, <3>2
  <2>8. \A c \in 1 .. b : B[c].node = A[i].node => c >= k
    <3>1. ASSUME NEW c \in 1 .. b, B[c].node = A[i].node, c < k PROVE FALSE
      <4>1. PICK j \in 1 .. a : j < i /\ j # at /\ A[j] = B[c]
        BY <2>1, <2>4, <3>1
      <4>. QED
        BY <1>5, <3>1, <4>1
    <3>. QED
      BY <3>1
  <2>9. k \in 1 .. b
    <3>1. CASE \E c \in 1 .. b : B[c].node = r[h].node
      BY <2>7, <2>8, <3>1
    <3>2. CASE b = size
      BY <1>5, <3>2
    <3>. QED
      BY <1>2, <1>7, <2>7, <3>1, <3>2
  <2>10. PICK g : g = hash[B[k]]
    OBVIOUS
  <2>11. g \in Taken(r) /\ g \in Taken(s) /\ r[g] = B[k] /\ s[g] = B[k] /\ B[k].node # n
    BY <1>1, <1>4, <2>9, <2>10
  <2>12. D(g) <= D(h)
    <3>1. CASE \E c \in 1 .. b : B[c].node = r[h].node
      <4>1. PICK c \in 1 .. b : B[c].node = r[h].node
        BY <3>1
      <4>2. D(hash[B[c]]) <= D(h) /\ D(hash[B[c]]) \in Nat
        BY <1>2, <1>4, <1>7, <2>7, <4>1
      <4>3. c = k \/ D(g) < D(hash[B[c]])
        BY <1>2, <1>7, <2>7, <2>8, <2>9, <2>10, <4>1
      <4>. QED
        BY <1>4, <2>7, <2>10, <2>11, <4>2, <4>3
    <3>2. CASE \A c \in 1 .. b : D(hash[B[c]]) < D(h)
      BY <1>4, <2>7, <2>9, <2>10, <2>11, <3>2
    <3>. QED
      BY <1>2, <1>7, <2>7, <3>1, <3>2
  <2>13. \A c \in 1 .. a : A[c].node = B[k].node => c >= i
    <3>1. ASSUME NEW c \in 1 .. a, A[c].node = B[k].node, c < i PROVE FALSE
      <4>1. c # at
        BY <1>9, <2>11, <3>1
      <4>2. PICK j \in 1 .. k : j < k /\ A[c] = B[j]
        BY <2>5, <3>1, <4>1
      <4>. QED
        BY <1>4, <2>9, <3>1, <4>2
    <3>. QED
      BY <3>1
  <2>14. D(h) <= D(g)
    <3>1. CASE \E c \in 1 .. a : A[c].node = s[g].node
      <4>1. PICK c \in 1 .. a : A[c].node = s[g].node
        BY <3>1
      <4>2. D(hash[A[c]]) <= D(g) /\ D(hash[A[c]]) \in Nat
        BY <1>3, <1>5, <1>8, <2>11, <4>1
      <4>3. c = i \/ D(h) < D(hash[A[c]])
        BY <1>3, <1>8, <2>6, <2>11, <2>13, <4>1
      <4>. QED
        BY <1>4, <2>6, <2>7, <2>11, <4>2, <4>3
    <3>2. CASE \A c \in 1 .. a : D(hash[A[c]]) < D(g)
      BY <1>4, <2>6, <2>7, <2>11, <3>2
    <3>. QED
      BY <1>3, <1>8, <2>11, <3>1, <3>2
  <2>15. g = h
    <3>1. D(g) \in Nat /\ D(h) \in Nat
      BY <1>4, <2>7, <2>11
    <3>. QED
      BY <1>1, <1>6, <2>7, <2>11, <2>12, <2>14, <3>1
  <2>. QED
    BY <2>1, <2>7, <2>9, <2>11, <2>15
<1>12. \A i \in 1 .. a : i - 1 \in Good => i \in Good
  <2>. HIDE DEF Moved
  <2>1. ASSUME NEW i \in 1 .. a, i - 1 \in Good PROVE i \in Good
    <3>1. i # at => Moved(i)
      BY <1>11, <2>1
    <3>2. \A j \in 1 .. i : j = i \/ j \in 1 .. i - 1
      OBVIOUS
    <3>. QED
      BY <2>1, <3>1, <3>2
  <2>. QED
    BY <2>1
<1>. HIDE DEF Good
<1>13. a \in Good
  <2>1. \A i \in 0 .. a : i \in Good
    BY <1>10, <1>12, LoopInduction
  <2>. QED
    BY <2>1
<1>14. \A i \in 1 .. a : i # at => Moved(i)
  BY <1>13 DEF Good
<1>. QED
  BY <1>2, <1>3, <1>9, <1>14 DEF PutIn

(***************************************************************************)
(* A storage node that joins changes the preference lists in no other way  *)
(* than by entering some of them.                                          *)
(***************************************************************************)
THEOREM JoinsKeepOrder == ManagerSpec => JoinKeepsOrder
<1>. DEFINE Entered(n, key, size) ==
       nodes' = Append(nodes, n) /\ Taken(ring) # {}
       => LET before == PreferenceList(ring, key, size)
              after  == PreferenceList(ring', key, size)
          IN  \E at \in 1 .. Len(after) + 1 : \A i \in 1 .. Len(after) :
                /\ i < at => i <= Len(before) /\ after[i] = before[i]
                /\ i = at => after[i].node = n
                /\ i > at => i - 1 <= Len(before) /\ after[i] = before[i - 1]
<1>1. ASSUME ManagerInv, [ManagerNext]_managerVars,
             NEW n \in Nodes, NEW key \in Hashes, NEW size \in Sizes
      PROVE  Entered(n, key, size)
  <2>. SUFFICES ASSUME nodes' = Append(nodes, n), Taken(ring) # {},
                       NEW B, B = PreferenceList(ring, key, size),
                       NEW A, A = PreferenceList(ring', key, size)
                PROVE  PutIn(A, B, n)
    BY DEF PutIn
  <2>1. /\ hash \in [VNodes -> Hashes] /\ nodes \in Seq(Nodes) /\ RingOK(ring)
        /\ \A h \in Taken(ring) : ring[h].node \in Added
    BY <1>1 DEF ManagerInv
  <2>2. PICK m \in Nodes : AddStorageNode(m)
    <3>1. nodes' # nodes
      BY <2>1
    <3>. QED
      BY <1>1, <3>1 DEF ManagerNext, ComputeStats, managerVars
  <2>3. m = n /\ n \notin Added
    <3>1. nodes' = Append(nodes, m) /\ m \notin Added
      BY <2>2 DEF AddStorageNode
    <3>2. Append(nodes, m)[Len(nodes) + 1] = m /\ Append(nodes, n)[Len(nodes) + 1] = n
      BY <2>1
    <3>. QED
      BY <3>1, <3>2
  <2>4. PICK r, s : r = ring /\ s = ring'
    OBVIOUS
  <2>5. RingOK(r) /\ s = AddVirtualNodes(r, n) /\ Taken(r) # {}
    BY <2>1, <2>2, <2>3, <2>4 DEF AddStorageNode
  <2>6. Joined(r, s, n)
    <3>1. /\ RingOK(s) /\ Taken(r) \subseteq Taken(s)
          /\ \A h \in Taken(r) : s[h] = r[h]
          /\ \A h \in Taken(s) \ Taken(r) : s[h].node = n
      BY <2>1, <2>5, AddRing
    <3>2. \A h \in Taken(r) : r[h].node # n
      BY <2>1, <2>3, <2>4
    <3>. QED
      BY <2>5, <3>1, <3>2 DEF Joined
  <2>7. size \in Nat
    BY DEF Sizes
  <2>8. Nearest(B, r, key, size, Taken(r))
    BY <2>1, <2>4, <2>5, <2>7, NearestList
  <2>9. Nearest(A, s, key, size, Taken(s))
    <3>1. RingOK(s) /\ Taken(s) # {} /\ A = PreferenceList(s, key, size)
      BY <2>4, <2>5, <2>6 DEF Joined
    <3>. QED
      BY <2>1, <2>7, <3>1, NearestList
  <2>. QED
    BY <2>1, <2>6, <2>7, <2>8, <2>9, JoinedList
<1>2. ManagerInv /\ [ManagerNext]_managerVars
        => [\A n \in Nodes, key \in Hashes, size \in Sizes : Entered(n, key, size)]_managerVars
  BY <1>1
<1>. QED
  BY <1>2, ManagerInvariant, PTL DEF ManagerSpec, JoinKeepsOrder

-----------------------------------------------------------------------------
(* The statistics.                                                         *)

(* Sums of d over the subsets of C, taken one element c[s] at a time.      *)
Sums(C, d, c) ==
  {g \in [SUBSET C -> Nat] :
     \A s \in SUBSET C : g[s] = IF s = {} THEN 0 ELSE d[c[s]] + g[s \ {c[s]}]}

LEMMA SumsExist ==
  ASSUME NEW C, IsFiniteSet(C), NEW d \in [C -> Nat],
         NEW c, \A s \in SUBSET C : s # {} => c[s] \in s
  PROVE  \E g : g \in Sums(C, d, c)
<1>. DEFINE N == Cardinality(C)
            Small(m) == {s \in SUBSET C : Cardinality(s) <= m}
            Upto(m) == \E f \in [Small(m) -> Nat] : \A s \in Small(m) :
                         f[s] = IF s = {} THEN 0 ELSE d[c[s]] + f[s \ {c[s]}]
            Good == {m \in 0 .. N : Upto(m)}
<1>1. N \in Nat /\ \A s \in SUBSET C : Cardinality(s) \in Nat /\ Cardinality(s) <= N
  <2>1. \A s \in SUBSET C : IsFiniteSet(s) /\ Cardinality(s) <= N
    BY FS_Subset
  <2>. QED
    BY <2>1, FS_CardinalityType
<1>2. \A s \in SUBSET C : s # {} => /\ Cardinality(s) >= 1
                                    /\ s \ {c[s]} \in SUBSET C
                                    /\ Cardinality(s \ {c[s]}) = Cardinality(s) - 1
  <2>1. ASSUME NEW s \in SUBSET C, s # {}
        PROVE  /\ Cardinality(s) >= 1
               /\ s \ {c[s]} \in SUBSET C
               /\ Cardinality(s \ {c[s]}) = Cardinality(s) - 1
    <3>1. IsFiniteSet(s) /\ c[s] \in s
      BY <2>1, FS_Subset
    <3>2. Cardinality(s \ {c[s]}) = Cardinality(s) - 1
      BY <3>1, FS_RemoveElement
    <3>3. Cardinality(s) # 0
      BY <2>1, <3>1, FS_EmptySet
    <3>. QED
      BY <1>1, <3>2, <3>3
  <2>. QED
    BY <2>1
<1>3. 0 \in Good
  <2>1. \A s \in Small(0) : s = {}
    <3>1. ASSUME NEW s \in SUBSET C, Cardinality(s) <= 0, s # {} PROVE FALSE
      <4>1. Cardinality(s) >= 1 /\ Cardinality(s) \in Nat
        BY <1>1, <1>2, <3>1
      <4>. QED
        BY <3>1, <4>1
    <3>. QED
      BY <3>1
  <2>. DEFINE f == [s \in Small(0) |-> 0]
  <2>2. f \in [Small(0) -> Nat] /\ \A s \in Small(0) : f[s] = 0
    OBVIOUS
  <2>. HIDE DEF f, Small
  <2>3. Upto(0)
    BY <2>1, <2>2
  <2>. HIDE DEF Upto, N
  <2>. QED
    BY <1>1, <2>3
<1>4. ASSUME NEW m \in 1 .. N, m - 1 \in Good PROVE m \in Good
  <2>1. PICK k \in Nat : k = m - 1 /\ Upto(k)
    <3>. HIDE DEF Upto, N
    <3>. QED
      BY <1>4
  <2>2. PICK f \in [Small(k) -> Nat] : \A s \in Small(k) :
               f[s] = IF s = {} THEN 0 ELSE d[c[s]] + f[s \ {c[s]}]
    BY <2>1
  <2>3. \A s \in Small(m) : s # {} => c[s] \in C /\ s \ {c[s]} \in Small(k)
    BY <1>1, <1>2, <2>1
  <2>4. \A s \in Small(k) : s \in Small(m)
    BY <1>1, <2>1
  <2>. HIDE DEF Small
  <2>. DEFINE g == [s \in Small(m) |-> IF s = {} THEN 0 ELSE d[c[s]] + f[s \ {c[s]}]]
  <2>5. g \in [Small(m) -> Nat]
    <3>1. ASSUME NEW s \in Small(m), s # {} PROVE d[c[s]] + f[s \ {c[s]}] \in Nat
      <4>1. d[c[s]] \in Nat /\ f[s \ {c[s]}] \in Nat
        BY <2>2, <2>3, <3>1
      <4>. QED
        BY <4>1
    <3>. QED
      BY <3>1
  <2>6. \A s \in Small(m) : g[s] = IF s = {} THEN 0 ELSE d[c[s]] + f[s \ {c[s]}]
    OBVIOUS
  <2>. HIDE DEF g
  <2>7. \A s \in Small(k) : g[s] = f[s]
    BY <2>2, <2>4, <2>6
  <2>8. \A s \in Small(m) : g[s] = IF s = {} THEN 0 ELSE d[c[s]] + g[s \ {c[s]}]
    BY <2>3, <2>6, <2>7
  <2>9. Upto(m)
    BY <2>5, <2>8
  <2>. HIDE DEF Upto, N
  <2>. QED
    BY <1>1, <2>9
<1>. HIDE DEF Good
<1>5. N \in Good
  <2>1. \A i \in 0 .. N : i \in Good
    BY <1>1, <1>3, <1>4, LoopInduction
  <2>. QED
    BY <1>1, <2>1
<1>6. Upto(N) /\ Small(N) = SUBSET C
  BY <1>1, <1>5 DEF Good
<1>. HIDE DEF Small
<1>. QED
  BY <1>6 DEF Sums

(* What computeNumKeyPerStorageNode counts for one entry.                  *)
Counted(h) ==
  IF h = Smallest(Taken(ring)) THEN (maxKey - Largest(Taken(ring))) + Smallest(Taken(ring)) + 1
  ELSE h - Smallest(Taken(ring))

Entries(n) == {h \in Taken(ring) : ring[h].node = n}

LEMMA TakenFacts ==
  ASSUME RingTypeOK, Taken(ring) # {}
  PROVE  /\ Taken(ring) \in SUBSET Hashes /\ IsFiniteSet(Taken(ring))
         /\ maxKey \in Nat /\ Hashes = 0 .. maxKey
         /\ Smallest(Taken(ring)) \in Taken(ring) /\ Largest(Taken(ring)) \in Taken(ring)
         /\ \A h \in Taken(ring) : /\ h \in Nat /\ h <= maxKey
                                   /\ Smallest(Taken(ring)) <= h
                                   /\ h <= Largest(Taken(ring))
         /\ \A h \in Taken(ring) : Counted(h) \in Nat
<1>. DEFINE T == Taken(ring)
<1>1. T \in SUBSET Hashes /\ maxKey \in Nat /\ Hashes = 0 .. maxKey
  BY HashSpaceAssumption DEF RingTypeOK, Hashes, maxKey
<1>2. T \in SUBSET Nat /\ \A h \in T : h <= maxKey
  BY <1>1
<1>3. IsFiniteSet(T)
  <2>. HIDE DEF T
  <2>. QED
    BY <1>1, <1>2, FS_BoundedSetOfNaturals
<1>4. /\ Smallest(T) \in T /\ \A h \in T : Smallest(T) <= h
      /\ Largest(T) \in T /\ \A h \in T : h <= Largest(T)
  BY <1>1, <1>2, SmallestExists, LargestExists
<1>5. \A h \in T : Counted(h) \in Nat
  BY <1>1, <1>2, <1>4 DEF Counted
<1>. QED
  BY <1>1, <1>2, <1>3, <1>4, <1>5

(* What it adds for a storage node is the sum over the node's entries.     *)
LEMMA KeysAddedIsSum ==
  ASSUME RingTypeOK, Taken(ring) # {}, NEW n, NEW C, C = Entries(n)
  PROVE  \E sum :
           /\ sum[{}] = 0
           /\ \A s \in SUBSET C : s # {} =>
                \E x \in s : sum[s] = Counted(x) + sum[s \ {x}]
           /\ KeysAdded(n) = sum[C]
<1>. DEFINE Chosen(s) == CHOOSE x \in s : TRUE
            Loop(g) == g = [s \in SUBSET C |-> IF s = {} THEN 0
                              ELSE Counted(Chosen(s)) + g[s \ {Chosen(s)}]]
            sum == CHOOSE sum : Loop(sum)
            d == [x \in C |-> Counted(x)]
            c == [s \in SUBSET C |-> Chosen(s)]
<1>1. KeysAdded(n) = sum[C]
  BY DEF KeysAdded, MapThenSumSet, MapThenFoldSet, Entries, Counted
<1>2. IsFiniteSet(C) /\ \A x \in C : Counted(x) \in Nat
  <2>1. C \in SUBSET Taken(ring)
    BY DEF Entries
  <2>. QED
    BY <2>1, TakenFacts, FS_Subset
<1>3. /\ d \in [C -> Nat] /\ \A x \in C : d[x] = Counted(x)
      /\ \A s \in SUBSET C : c[s] = Chosen(s)
  BY <1>2
<1>4. \A s \in SUBSET C : s # {} => Chosen(s) \in s
  OBVIOUS
<1>. HIDE DEF d, c, Chosen
<1>5. PICK f : f \in Sums(C, d, c)
  BY <1>2, <1>3, <1>4, SumsExist
<1>6. /\ f \in [SUBSET C -> Nat]
      /\ \A s \in SUBSET C : f[s] = IF s = {} THEN 0 ELSE d[c[s]] + f[s \ {c[s]}]
  BY <1>5 DEF Sums
<1>7. \A s \in SUBSET C : f[s] = IF s = {} THEN 0 ELSE Counted(Chosen(s)) + f[s \ {Chosen(s)}]
  <2>1. ASSUME NEW s \in SUBSET C, s # {}
        PROVE  f[s] = Counted(Chosen(s)) + f[s \ {Chosen(s)}]
    <3>1. c[s] = Chosen(s) /\ Chosen(s) \in C
      BY <1>3, <1>4, <2>1
    <3>2. f[s] = d[c[s]] + f[s \ {c[s]}]
      BY <1>6, <2>1
    <3>3. d[c[s]] = Counted(Chosen(s))
      BY <1>3, <3>1
    <3>. QED
      BY <3>1, <3>2, <3>3
  <2>2. f[{}] = 0
    BY <1>6
  <2>. QED
    BY <2>1, <2>2
<1>8. Loop(f)
  BY <1>6, <1>7
<1>9. Loop(sum)
  <2>. HIDE DEF Loop
  <2>. QED
    BY <1>8
<1>. HIDE DEF sum
<1>10. \A s \in SUBSET C :
          sum[s] = IF s = {} THEN 0 ELSE Counted(Chosen(s)) + sum[s \ {Chosen(s)}]
  BY <1>9
<1>11. sum[{}] = 0
  BY <1>10
<1>12. \A s \in SUBSET C : s # {} => \E x \in s : sum[s] = Counted(x) + sum[s \ {x}]
  BY <1>4, <1>10
<1>. QED
  BY <1>1, <1>11, <1>12

(* The count for an entry is the number of keys counted for it.            *)
LEMMA EntryCount ==
  ASSUME RingTypeOK, NEW h \in Taken(ring),
         NEW K, K = {key \in Hashes : CountedFor(key, h)}
  PROVE  IsFiniteSet(K) /\ Cardinality(K) = Counted(h)
<1>. DEFINE first == Smallest(Taken(ring))
            last == Largest(Taken(ring))
<1>1. /\ Taken(ring) \in SUBSET Hashes /\ IsFiniteSet(Taken(ring))
      /\ maxKey \in Nat /\ Hashes = 0 .. maxKey
      /\ first \in Taken(ring) /\ last \in Taken(ring)
      /\ \A g \in Taken(ring) : g \in Nat /\ g <= maxKey /\ first <= g /\ g <= last
  BY TakenFacts
<1>2. IsFiniteSet(K)
  <2>1. IsFiniteSet(Hashes)
    BY <1>1, FS_Interval
  <2>. QED
    BY <2>1, FS_Subset
<1>3. CASE h = first
  <2> DEFINE below == {g \in Taken(ring) : g < h}
             pre == Previous(ring, h)
  <2>1. below = {}
    BY <1>1, <1>3
  <2>2. pre = last
    BY <2>1 DEF Previous
  <2>3. \A key \in Hashes : Find(ring, key) \in Nat
    BY <1>1, FindNearest
  <2>4. K = {key \in Hashes : Find(ring, key) = h}
    <3>1. ASSUME NEW key \in Hashes
          PROVE  CountedFor(key, h) <=> Find(ring, key) = h
      <4> DEFINE o == Find(ring, key)
      <4>1. CountedFor(key, h) <=> o = h \/ (h < o /\ o < h)
        BY <1>3 DEF CountedFor
      <4>2. o \in Nat /\ h \in Nat
        BY <1>1, <2>3
      <4> HIDE DEF o
      <4>3. ~(h < o /\ o < h)
        BY <4>2
      <4>4. CountedFor(key, h) <=> o = h
        BY <4>1, <4>3
      <4>. QED
        BY <4>4 DEF o
    <3>. QED
      BY <3>1
  <2>5. Cardinality(K) = IF h > pre THEN h - pre ELSE (maxKey - pre) + h + 1
    BY <2>4, KeysOfEntry
  <2>6. Counted(h) = (maxKey - last) + first + 1
    BY <1>3 DEF Counted
  <2>. HIDE DEF first, last, pre
  <2>7. ~(h > pre)
    BY <1>1, <2>2
  <2>. QED
    BY <1>2, <1>3, <2>2, <2>5, <2>6, <2>7
<1>4. CASE h # first
  <2>1. first \in Nat /\ h \in Nat /\ first < h /\ h <= maxKey
    BY <1>1, <1>4
  <2>2. ASSUME NEW key \in Hashes
        PROVE  CountedFor(key, h) <=> first < key /\ key <= h
    <3> DEFINE B == LowerBound(ring, key)
               owner == Find(ring, key)
    <3>1. key \in Nat /\ B \in SUBSET Nat /\ B \subseteq Taken(ring)
          /\ \A g \in Taken(ring) : g \in B <=> g >= key
      BY <1>1 DEF LowerBound
    <3>2. CountedFor(key, h) <=> owner = h \/ (first < owner /\ owner < h)
      BY DEF CountedFor
    <3>3. B # {} => owner \in B /\ owner = Smallest(B) /\ \A g \in B : owner <= g
      BY <3>1, SmallestExists DEF Find
    <3>4. B = {} => owner = first
      BY DEF Find
    <3>. HIDE DEF B, owner, first
    <3>5. CASE key <= first
      <4>1. first \in B
        BY <1>1, <3>1, <3>5, <2>1
      <4>2. owner <= first /\ owner \in Nat /\ first <= owner
        BY <1>1, <3>1, <3>3, <4>1
      <4>3. owner = first
        BY <2>1, <4>2
      <4>. QED
        BY <2>1, <3>1, <3>2, <3>5, <4>3
    <3>6. CASE first < key /\ key <= h
      <4>1. h \in B
        BY <3>1, <3>6, <2>1
      <4>2. owner \in Nat /\ owner <= h /\ owner >= key
        BY <3>1, <3>3, <4>1
      <4>. QED
        BY <2>1, <3>1, <3>2, <3>6, <4>2
    <3>7. CASE h < key
      <4>1. CASE B = {}
        BY <2>1, <3>1, <3>2, <3>4, <3>7, <4>1
      <4>2. CASE B # {}
        <5>1. owner \in Nat /\ owner >= key
          BY <3>1, <3>3, <4>2
        <5>. QED
          BY <2>1, <3>1, <3>2, <3>7, <5>1
      <4>. QED
        BY <4>1, <4>2
    <3>. QED
      BY <2>1, <3>1, <3>5, <3>6, <3>7
  <2>. HIDE DEF first
  <2>3. K = (first + 1) .. h
    <3>1. \A key \in Hashes : key \in K <=> first < key /\ key <= h
      BY <2>2
    <3>2. K \subseteq Hashes /\ Hashes = 0 .. maxKey /\ maxKey \in Nat
      BY <1>1
    <3>3. \A key : key \in K <=> key \in (first + 1) .. h
      BY <2>1, <3>1, <3>2
    <3>. QED
      BY <3>3
  <2>4. Cardinality(K) = h - first
    <3>1. Cardinality((first + 1) .. h)
            = IF first + 1 > h THEN 0 ELSE h - (first + 1) + 1
      BY <2>1, FS_Interval
    <3>2. ~(first + 1 > h) /\ h - (first + 1) + 1 = h - first
      BY <2>1
    <3>3. Cardinality((first + 1) .. h) = h - first
      BY <3>1, <3>2
    <3>. QED
      BY <2>3, <3>3, Zenon
  <2>5. Counted(h) = h - first
    BY <1>4 DEF Counted, first
  <2>. QED
    BY <1>2, <2>4, <2>5
<1>. QED
  BY <1>3, <1>4

(* Summed over the entries of a storage node.                              *)
LEMMA NodeCount ==
  ASSUME RingTypeOK, Taken(ring) # {}, NEW n
  PROVE  KeysAdded(n) = Credits(n)
<1>. DEFINE Pairs(s) == {kh \in Hashes \X s : CountedFor(kh[1], kh[2])}
<1>1. PICK C : C = Entries(n)
  OBVIOUS
<1>2. PICK sum : /\ sum[{}] = 0
                 /\ \A s \in SUBSET C : s # {} =>
                      \E x \in s : sum[s] = Counted(x) + sum[s \ {x}]
                 /\ KeysAdded(n) = sum[C]
  BY <1>1, KeysAddedIsSum, ZenonT(60)
<1>3. C \in SUBSET Taken(ring) /\ IsFiniteSet(C) /\ Cardinality(C) \in Nat
  <2>1. C \in SUBSET Taken(ring)
    BY <1>1 DEF Entries
  <2>2. IsFiniteSet(C)
    BY <2>1, TakenFacts, FS_Subset
  <2>. QED
    BY <2>1, <2>2, FS_CardinalityType
<1>4. \A x \in C : Counted(x) \in Nat
  BY <1>3, TakenFacts
<1>. DEFINE Counts(s) == IsFiniteSet(Pairs(s)) /\ Cardinality(Pairs(s)) = sum[s]
            N == Cardinality(C)
            Good == {m \in 0 .. N : \A s \in SUBSET C : Cardinality(s) = m => Counts(s)}
<1>5. \A s \in SUBSET C : IsFiniteSet(s)
  BY <1>3, FS_Subset
<1>6. 0 \in Good
  <2>1. \A s \in SUBSET C : Cardinality(s) = 0 => s = {}
    BY <1>5, FS_EmptySet
  <2>2. Pairs({}) = {}
    OBVIOUS
  <2>3. Counts({})
    <3>1. IsFiniteSet(Pairs({})) /\ Cardinality(Pairs({})) = 0
      BY <2>2, FS_EmptySet
    <3>. HIDE DEF Pairs
    <3>. QED
      BY <1>2, <3>1
  <2>. HIDE DEF Counts, N
  <2>. QED
    BY <1>3, <2>1, <2>3 DEF N
<1>7. ASSUME NEW m \in 1 .. N, m - 1 \in Good PROVE m \in Good
  <2>1. ASSUME NEW s \in SUBSET C, Cardinality(s) = m PROVE Counts(s)
    <3>1. s # {}
      BY <1>5, <2>1, FS_EmptySet
    <3>2. PICK x \in s : sum[s] = Counted(x) + sum[s \ {x}]
      BY <1>2, <3>1
    <3>3. PICK t \in SUBSET C : t = s \ {x}
      OBVIOUS
    <3>4. Cardinality(t) = m - 1
      <4>1. Cardinality(s \ {x}) = Cardinality(s) - 1
        BY <1>5, FS_RemoveElement
      <4>. QED
        BY <2>1, <3>3, <4>1
    <3>5. IsFiniteSet(Pairs(t)) /\ Cardinality(Pairs(t)) = sum[t]
          /\ Cardinality(Pairs(t)) \in Nat
      <4>1. Counts(t)
        <5>. HIDE DEF Counts, N
        <5>. QED
          BY <1>7, <3>4
      <4>. HIDE DEF Pairs
      <4>. QED
        BY <4>1, FS_CardinalityType
    <3>6. x \in Taken(ring) /\ Counted(x) \in Nat
      BY <1>3, <1>4
    <3>7. PICK K : K = {key \in Hashes : CountedFor(key, x)}
      OBVIOUS
    <3>8. IsFiniteSet(K) /\ Cardinality(K) = Counted(x)
      BY <3>6, <3>7, EntryCount
    <3>9. PICK P : P = {<<key, x>> : key \in K}
      OBVIOUS
    <3>10. IsFiniteSet(P) /\ Cardinality(P) = Counted(x)
      <4>1. PICK f : f = [key \in K |-> <<key, x>>]
        OBVIOUS
      <4>2. f \in Bijection(K, P)
        BY <3>9, <4>1 DEF Bijection, Injection, Surjection, IsInjective
      <4>3. ExistsBijection(K, P)
        BY <4>2 DEF ExistsBijection
      <4>. QED
        BY <3>8, <4>3, FS_Bijection
    <3>11. Pairs(s) = Pairs(t) \cup P /\ Pairs(t) \cap P = {}
      <4>1. ASSUME NEW e PROVE e \in Pairs(s) <=> e \in Pairs(t) \/ e \in P
        BY <3>3, <3>7, <3>9
      <4>2. ASSUME NEW e \in Pairs(t), e \in P PROVE FALSE
        BY <3>3, <3>9, <4>2
      <4>. HIDE DEF Pairs
      <4>. QED
        BY <4>1, <4>2
    <3>. HIDE DEF Pairs
    <3>12. /\ IsFiniteSet(Pairs(s))
           /\ Cardinality(Pairs(s)) = Cardinality(Pairs(t)) + Counted(x)
      <4>1. Cardinality(Pairs(t) \cap P) = 0
        BY <3>11, FS_EmptySet
      <4>2. /\ IsFiniteSet(Pairs(t) \cup P)
            /\ Cardinality(Pairs(t) \cup P)
                 = Cardinality(Pairs(t)) + Cardinality(P) - Cardinality(Pairs(t) \cap P)
        BY <3>5, <3>10, FS_Union
      <4>. QED
        BY <3>5, <3>6, <3>10, <3>11, <4>1, <4>2
    <3>13. sum[s] = Counted(x) + sum[t]
      BY <3>2, <3>3
    <3>. QED
      BY <3>5, <3>6, <3>12, <3>13
  <2>. HIDE DEF Counts, N
  <2>. QED
    BY <1>3, <2>1 DEF N
<1>8. Counts(C)
  <2>. HIDE DEF Good
  <2>1. \A i \in 0 .. N : i \in Good
    BY <1>3, <1>6, <1>7, LoopInduction
  <2>2. N \in Good
    BY <1>3, <2>1
  <2>. HIDE DEF Counts
  <2>. QED
    BY <2>2 DEF Good
<1>9. Credits(n) = Cardinality(Pairs(C))
  <2>1. {kh \in Hashes \X Taken(ring) : ring[kh[2]].node = n /\ CountedFor(kh[1], kh[2])}
          = Pairs(C)
    BY <1>1 DEF Entries
  <2>. QED
    BY <2>1 DEF Credits
<1>. QED
  BY <1>2, <1>8, <1>9

(***************************************************************************)
(* On every ring, every call of computeStats counts each key once for the  *)
(* entry that owns it and once more for each entry behind, on top of the   *)
(* earlier calls and modulo the range of the counters.                     *)
(***************************************************************************)
THEOREM StatsCounted == ManagerSpec => StatsCountAgain
<1>. DEFINE A == stats' # stats =>
                   \A n \in Nodes :
                     numKeys'[n] = (numKeys[n] + Credits(n)) % HashSpace
<1>1. ManagerInv /\ [ManagerNext]_managerVars => A
  <2>. SUFFICES ASSUME ManagerInv, [ManagerNext]_managerVars,
                       stats' # stats, NEW n \in Nodes
                PROVE  numKeys'[n] = (numKeys[n] + Credits(n)) % HashSpace
    OBVIOUS
  <2>1. ComputeStats
    BY DEF ManagerNext, AddStorageNode, managerVars
  <2>2. RingTypeOK /\ Taken(ring) # {}
    BY <2>1, RingFacts DEF ManagerInv, RingOK, RingTypeOK, ComputeStats
  <2>3. KeysAdded(n) = Credits(n)
    BY <2>2, NodeCount
  <2>4. numKeys'[n] = (numKeys[n] + KeysAdded(n)) % HashSpace
    BY <2>1 DEF ComputeStats
  <2>. QED
    BY <2>3, <2>4
<1>2. ManagerInv /\ [ManagerNext]_managerVars => [A]_managerVars
  BY <1>1
<1>. QED
  BY <1>2, ManagerInvariant, PTL DEF ManagerSpec, StatsCountAgain

-----------------------------------------------------------------------------
(***************************************************************************)
(* On a ring of at least size storage nodes, the list that a request is    *)
(* replicated along has size entries of different nodes, of ranks these    *)
(* have, the coordinator's first: what GTStore assumes of its lists.       *)
(***************************************************************************)
WholeLists ==
  \A key \in Hashes, size \in Nat \ {0} :
    Taken(ring) # {} /\ Cardinality(OnRing(ring)) >= size =>
      LET list == PreferenceList(ring, key, size)
      IN  /\ list \in [1 .. size -> VNodes]
          /\ \A i, j \in 1 .. size : list[i].node = list[j].node => i = j
          /\ \A i \in 1 .. size : list[i].rank < NumVNodes[list[i].node]
          /\ list[1] = FindCoordinator(ring, key)

(* Requests get whole lists, in whatever order nodes were added.           *)
THEOREM ListsSuitRequests == ManagerSpec => []WholeLists
<1>1. ManagerInv => WholeLists
  <2>. SUFFICES ASSUME ManagerInv, NEW key \in Hashes, NEW size \in Nat \ {0},
                       Taken(ring) # {}, Cardinality(OnRing(ring)) >= size,
                       NEW L, L = PreferenceList(ring, key, size)
                PROVE  /\ L \in [1 .. size -> VNodes]
                       /\ \A i, j \in 1 .. size : L[i].node = L[j].node => i = j
                       /\ \A i \in 1 .. size : L[i].rank < NumVNodes[L[i].node]
                       /\ L[1] = FindCoordinator(ring, key)
    BY DEF WholeLists
  <2>1. PICK r : r = ring
    OBVIOUS
  <2>2. /\ hash \in [VNodes -> Hashes] /\ RingOK(r)
        /\ Taken(r) # {} /\ size \in Nat /\ size >= 1 /\ L = PreferenceList(r, key, size)
    BY <2>1 DEF ManagerInv
  <2>3. Nearest(L, r, key, size, Taken(r))
    BY <2>2, NearestList
  <2>4. /\ L \in Seq(VNodes) /\ Len(L) \in Nat /\ Len(L) <= size
        /\ \A i, j \in 1 .. Len(L) : L[i].node = L[j].node => i = j
    BY <2>2, <2>3, NearestFacts
  <2>5. Len(L) = Smallest({size, Cardinality(OnRing(r))})
    BY <2>2, <2>3, ListLength
  <2>6. Len(L) = size
    <3>1. Smallest({size, Cardinality(OnRing(r))}) \in {size, Cardinality(OnRing(r))}
      <4>1. \A g \in {size, Cardinality(OnRing(r))} : size <= g
        BY <2>1
      <4>. QED
        BY <4>1 DEF Smallest
    <3>. QED
      BY <2>1, <2>4, <2>5, <3>1
  <2>7. L[1] = Owner(r, key)
    BY <2>2, CoordinatorFirst
  <2>8. L \in [1 .. size -> VNodes]
    BY <2>4, <2>6
  <2>. QED
    BY <2>1, <2>4, <2>6, <2>7, <2>8, VNodeFacts DEF FindCoordinator
<1>. QED
  BY <1>1, ManagerInvariant, PTL
=============================================================================

----------------------------- MODULE ScanProofs ------------------------------
(***************************************************************************)
(* Proofs about the walk of a directory, for every tree, with any links in *)
(* it: it goes no deeper than the links a path may have and the height of  *)
(* the tree allow, and it returns the songs, all of them, in order.        *)
(*                                                                         *)
(* ScanInv: a call has the place to which the kernel resolves its path,    *)
(* and a song that is still to be found lies below a call that is still to *)
(* be made.  The depth is bounded because each directory on a path is      *)
(* lower in the tree than the one before, or uses up a link.               *)
(***************************************************************************)
EXTENDS DirectoryScan, DataProofs, FiniteSetTheorems, FunctionTheorems

\* Paths are in a strict order.
LEMMA BeforeIsOrder ==
  ASSUME NEW p \in Seq(Nat), NEW q \in Seq(Nat), NEW r \in Seq(Nat)
  PROVE  /\ ~Before(p, p)
         /\ Before(p, q) /\ Before(q, r) => Before(p, r)
         /\ p = q \/ Before(p, q) \/ Before(q, p)
  <1>1. ~Before(p, p)
    BY DEF Before
  <1>2. ASSUME Before(p, q), Before(q, r) PROVE Before(p, r)
    <2>1. PICK k \in 1..Len(q) : /\ Len(p) >= k - 1 /\ \A i \in 1..(k - 1) : p[i] = q[i]
                                 /\ Len(p) = k - 1 \/ p[k] < q[k]
      BY <1>2 DEF Before
    <2>2. PICK l \in 1..Len(r) : /\ Len(q) >= l - 1 /\ \A i \in 1..(l - 1) : q[i] = r[i]
                                 /\ Len(q) = l - 1 \/ q[l] < r[l]
      BY <1>2 DEF Before
    <2>3. CASE k < l
      <3>1. k \in 1..Len(r) /\ q[k] = r[k] /\ \A i \in 1..(k - 1) : p[i] = r[i]
        BY <2>1, <2>2, <2>3
      <3>. QED
        BY <2>1, <3>1 DEF Before
    <2>4. CASE k = l
      <3>1. q[l] < r[l] /\ \A i \in 1..(l - 1) : p[i] = r[i]
        BY <2>1, <2>2, <2>4
      <3>2. Len(p) = l - 1 \/ p[l] < r[l]
        <4>1. CASE Len(p) = l - 1
          BY <4>1
        <4>2. CASE Len(p) # l - 1
          <5>1. l \in 1..Len(p) /\ l \in 1..Len(q) /\ p[l] < q[l]
            BY <2>1, <2>4, <4>2
          <5>2. p[l] \in Nat /\ q[l] \in Nat /\ r[l] \in Nat
            BY <5>1
          <5>. QED
            BY <3>1, <5>1, <5>2
        <4>. QED
          BY <4>1, <4>2
      <3>. QED
        BY <2>1, <2>4, <3>1, <3>2 DEF Before
    <2>5. CASE k > l
      <3>1. p[l] = q[l] /\ q[l] < r[l] /\ \A i \in 1..(l - 1) : p[i] = r[i]
        BY <2>1, <2>2, <2>5
      <3>2. Len(p) >= l - 1
        BY <2>1, <2>5
      <3>. QED
        BY <3>1, <3>2 DEF Before
    <2>. QED
      BY <2>3, <2>4, <2>5
  <1>3. ASSUME p # q PROVE Before(p, q) \/ Before(q, p)
    <2>. DEFINE Differ == {k \in Nat \ {0} : k > Len(p) \/ k > Len(q) \/ p[k] # q[k]}
    <2>1. Differ # {}
      <3>1. Len(p) + 1 \in Differ
        OBVIOUS
      <3>. QED
        BY <3>1
    <2>2. PICK n \in Differ : \A m \in Differ : n <= m
      <3>1. Differ \in SUBSET Nat
        OBVIOUS
      <3>. HIDE DEF Differ
      <3>. QED
        BY <2>1, <3>1, LeastElement
    <2>3. \A i \in 1..(n - 1) : i <= Len(p) /\ i <= Len(q) /\ p[i] = q[i]
      <3>1. ASSUME NEW i \in 1..(n - 1) PROVE i \notin Differ
        BY <2>2, n \in Nat
      <3>. QED
        BY <3>1, n \in Nat
    <2>4. n \in Nat \ {0} /\ Len(p) >= n - 1 /\ Len(q) >= n - 1
      <3>1. n \in Nat \ {0}
        OBVIOUS
      <3>2. n - 1 \in 1..(n - 1) \/ n - 1 = 0
        BY <3>1
      <3>. QED
        BY <2>3, <3>1, <3>2
    <2>5. CASE n > Len(p) /\ n > Len(q)
      <3>1. Len(p) = n - 1 /\ Len(q) = n - 1
        BY <2>4, <2>5
      <3>2. p = q
        BY <2>3, <3>1
      <3>. QED
        BY <1>3, <3>2
    <2>6. CASE n > Len(p) /\ n <= Len(q)
      BY <2>3, <2>4, <2>6 DEF Before
    <2>7. CASE n <= Len(p) /\ n > Len(q)
      BY <2>3, <2>4, <2>7 DEF Before
    <2>8. CASE n <= Len(p) /\ n <= Len(q)
      <3>1. p[n] # q[n] /\ p[n] \in Nat /\ q[n] \in Nat
        BY <2>4, <2>8
      <3>2. p[n] < q[n] \/ q[n] < p[n]
        BY <3>1
      <3>. QED
        BY <2>3, <2>4, <2>8, <3>2 DEF Before
    <2>. QED
      BY <2>4, <2>5, <2>6, <2>7, <2>8
  <1>. QED
    BY <1>1, <1>2, <1>3

\* files.sort() gives the paths in order, each once.
LEMMA SortedIsSorted ==
  ASSUME NEW P, IsFiniteSet(P), P \subseteq Seq(Nat)
  PROVE  /\ Sorted(P) \in Seq(P) /\ ToSet(Sorted(P)) = P
         /\ \A i \in 2..Len(Sorted(P)) : Before(Sorted(P)[i - 1], Sorted(P)[i])
  <1>. DEFINE n == Cardinality(P)
              Ahead(p) == {q \in P : Before(q, p)}
              rank == [p \in P |-> Cardinality(Ahead(p))]
              f == Sorted(P)
  <1>1. n \in Nat
    BY FS_CardinalityType
  <1>2. ASSUME NEW p \in P
        PROVE  IsFiniteSet(Ahead(p)) /\ rank[p] \in 0..(n - 1)
    <2>1. IsFiniteSet(Ahead(p)) /\ Cardinality(Ahead(p)) \in Nat
      BY FS_Subset, FS_CardinalityType
    <2>2. p \notin Ahead(p)
      BY BeforeIsOrder
    <2>3. Cardinality(Ahead(p)) <= n /\ (n = Cardinality(Ahead(p)) => P = Ahead(p))
      <3>1. Ahead(p) \in SUBSET P
        OBVIOUS
      <3>. HIDE DEF Ahead
      <3>. QED
        BY <3>1, FS_Subset
    <2>. HIDE DEF Ahead
    <2>. QED
      BY <1>1, <2>1, <2>2, <2>3
  <1>3. ASSUME NEW p \in P, NEW q \in P, Before(p, q)
        PROVE  rank[p] < rank[q]
    <2>1. Ahead(p) \subseteq Ahead(q) /\ p \in Ahead(q) /\ p \notin Ahead(p)
      BY <1>3, BeforeIsOrder
    <2>2. IsFiniteSet(Ahead(q)) /\ Cardinality(Ahead(q)) \in Nat
          /\ Cardinality(Ahead(p)) \in Nat
      <3>1. IsFiniteSet(Ahead(q)) /\ IsFiniteSet(Ahead(p))
        BY <1>2
      <3>. HIDE DEF Ahead
      <3>. QED
        BY <3>1, FS_CardinalityType
    <2>. HIDE DEF Ahead
    <2>3. Cardinality(Ahead(p)) <= Cardinality(Ahead(q))
          /\ (Cardinality(Ahead(q)) = Cardinality(Ahead(p)) => Ahead(q) = Ahead(p))
      BY <2>1, <2>2, FS_Subset
    <2>. QED
      BY <2>1, <2>2, <2>3
  <1>4. ASSUME NEW p \in P, NEW q \in P, rank[p] = rank[q]
        PROVE  p = q
    <2>1. ~Before(p, q) /\ ~Before(q, p)
      <3>1. rank[p] \in Int /\ rank[q] \in Int
        <4>. HIDE DEF rank, Ahead, n
        <4>. QED
          BY <1>1, <1>2
      <3>. HIDE DEF rank
      <3>. QED
        BY <1>3, <1>4, <3>1
    <2>. QED
      BY <2>1, BeforeIsOrder
  <1>5. \A k \in 1..n : \E p \in P : rank[p] = k - 1
    <2>1. rank \in [P -> 0..(n - 1)]
      <3>1. rank = [p \in P |-> rank[p]]
        OBVIOUS
      <3>. HIDE DEF rank
      <3>. QED
        BY <1>2, <3>1
    <2>. HIDE DEF rank
    <2>2. rank \in Injection(P, 0..(n - 1))
      BY <1>4, <2>1 DEF Injection, IsInjective
    <2>3. IsFiniteSet(0..(n - 1)) /\ Cardinality(0..(n - 1)) = n
      <3>1. 0 \in Int /\ n - 1 \in Int
        BY <1>1
      <3>2. Cardinality(0..(n - 1)) = IF 0 > n - 1 THEN 0 ELSE (n - 1) - 0 + 1
        BY <3>1, FS_Interval
      <3>. HIDE DEF n
      <3>. QED
        BY <1>1, <3>1, <3>2, FS_Interval
    <2>4. rank \in Surjection(P, 0..(n - 1))
      BY <2>2, <2>3, FS_Injection
    <2>5. \A k \in 1..n : k - 1 \in 0..(n - 1)
      <3>. HIDE DEF n
      <3>. QED
        BY <1>1
    <2>. QED
      BY <2>4, <2>5 DEF Surjection
  <1>6. ASSUME NEW k \in 1..n
        PROVE  f[k] \in P /\ rank[f[k]] = k - 1
    <2>1. \E p \in P : Cardinality(Ahead(p)) = k - 1
      BY <1>5
    <2>2. f[k] = CHOOSE p \in P : Cardinality(Ahead(p)) = k - 1
      BY DEF Sorted
    <2>3. f[k] \in P /\ Cardinality(Ahead(f[k])) = k - 1
      <3>. HIDE DEF f, Ahead, n
      <3>. QED
        BY <2>1, <2>2
    <2>. HIDE DEF f, Ahead
    <2>. QED
      BY <2>3
  <1>7. f \in Seq(P) /\ Len(f) = n /\ DOMAIN f = 1..n
    <2>. DEFINE At(k) == CHOOSE p \in P : Cardinality(Ahead(p)) = k - 1
                g == [k \in 1..n |-> At(k)]
    <2>1. f = g
      BY DEF Sorted
    <2>2. g = [k \in 1..n |-> g[k]]
      <3>. HIDE DEF At, n
      <3>. QED
        OBVIOUS
    <2>3. \A k \in 1..n : f[k] \in P
      <3>. HIDE DEF f, n, rank, g
      <3>. QED
        BY <1>6
    <2>. HIDE DEF f, n, rank, g
    <2>. QED
      BY <1>1, <2>1, <2>2, <2>3
  <1>8. ASSUME NEW p \in P
        PROVE  \E k \in 1..n : f[k] = p
    <2>1. rank[p] \in 0..(n - 1)
      BY <1>2
    <2>. HIDE DEF f, n, rank
    <2>2. rank[p] + 1 \in 1..n /\ (rank[p] + 1) - 1 = rank[p]
      BY <1>1, <2>1
    <2>3. f[rank[p] + 1] \in P /\ rank[f[rank[p] + 1]] = rank[p]
      BY <1>6, <2>2
    <2>. QED
      BY <1>4, <2>2, <2>3
  <1>9. ASSUME NEW i \in 2..n
        PROVE  Before(f[i - 1], f[i])
    <2>. HIDE DEF f, n, rank
    <2>1. i \in 1..n /\ i - 1 \in 1..n
      BY <1>1
    <2>2. /\ f[i] \in P /\ f[i - 1] \in P
          /\ rank[f[i]] = i - 1 /\ rank[f[i - 1]] = (i - 1) - 1
      BY <1>6, <2>1
    <2>3. ~(rank[f[i]] < rank[f[i - 1]]) /\ rank[f[i]] # rank[f[i - 1]]
      BY <2>1, <2>2
    <2>4. f[i] # f[i - 1] /\ ~Before(f[i], f[i - 1])
      BY <1>3, <2>2, <2>3
    <2>. QED
      BY <2>2, <2>4, BeforeIsOrder
  <1>. HIDE DEF f, n, rank
  <1>10. ToSet(f) = P
    <2>1. ToSet(f) = {f[k] : k \in 1..n}
      BY <1>7 DEF ToSet
    <2>2. \A k \in 1..n : f[k] \in P
      BY <1>6
    <2>. QED
      BY <1>8, <2>1, <2>2
  <1>. QED
    BY <1>7, <1>9, <1>10 DEF f
-----------------------------------------------------------------------------
(***************************************************************************)
(* What the reference says of a path.                                      *)
(***************************************************************************)
\* Where a path can lead in a tree
Places(t) ==
  [dir : {Root, "nowhere"} \cup {t[d][name].to : d \in DOMAIN t, name \in Names},
   links : Nat]

\* One name further is a place again.
LEMMA FollowType ==
  ASSUME NEW t \in Trees, NEW here \in Places(t), NEW name \in Names
  PROVE  Follow(t, here, name) \in Places(t)
  <1>1. Nowhere \in Places(t)
    BY DEF Nowhere, Places
  <1>. DEFINE entry == t[here.dir][name]
              links == here.links + (IF entry.kind = "link" THEN 1 ELSE 0)
  <1>2. ASSUME name \in Entries(t, here.dir)
        PROVE  [dir |-> entry.to, links |-> links] \in Places(t)
    <2>1. here.dir \in DOMAIN t
      BY <1>2 DEF Entries
    <2>2. links \in Nat
      BY DEF Places
    <2>. QED
      BY <2>1, <2>2 DEF Places
  <1>. QED
    BY <1>1, <1>2 DEF Follow

\* Resolve satisfies its recursion.
LEMMA Resolves ==
  ASSUME NEW t \in Trees, NEW path \in Seq(Names)
  PROVE  /\ Resolve(t, path)[0] = [dir |-> Root, links |-> 0]
         /\ \A k \in 0..Len(path) : Resolve(t, path)[k] \in Places(t)
         /\ \A k \in 1..Len(path) :
              Resolve(t, path)[k] = Follow(t, Resolve(t, path)[k - 1], path[k])
  <1>. DEFINE first == [dir |-> Root, links |-> 0]
              size  == Len(path)
              Defines(e) == e = [k \in 0..size |->
                                   IF k = 0 THEN first ELSE Follow(t, e[k - 1], path[k])]
  <1>0. first \in Places(t) /\ size \in Nat /\ \A k \in 1..size : path[k] \in Names
    BY DEF Places
  <1>1. \E e : Defines(e)
    <2>. DEFINE advance == [n \in Nat |-> [w \in Places(t) |->
                              IF n < size THEN Follow(t, w, path[n + 1]) ELSE w]]
    <2>1. advance \in [Nat -> [Places(t) -> Places(t)]]
      <3>1. ASSUME NEW n \in Nat, NEW w \in Places(t)
            PROVE  (IF n < size THEN Follow(t, w, path[n + 1]) ELSE w) \in Places(t)
        <4>1. n < size => n + 1 \in 1..size
          BY <1>0
        <4>2. n < size => path[n + 1] \in Names
          BY <1>0, <4>1
        <4>. HIDE DEF size
        <4>. QED
          BY <4>2, FollowType
      <3>. QED
        BY <3>1
    <2>2. PICK g : Iterates(g, Places(t), first, advance)
      <3>. HIDE DEF advance, first
      <3>. QED
        BY <1>0, <2>1, RecursionExists
    <2>3. \A n \in Nat : n < size => g[n + 1] = Follow(t, g[n], path[n + 1])
      <3>. HIDE DEF size
      <3>. QED
        BY <2>2 DEF Iterates
    <2>. DEFINE e == [k \in 0..size |-> g[k]]
    <2>4. ASSUME NEW k \in 0..size
          PROVE  e[k] = IF k = 0 THEN first ELSE Follow(t, e[k - 1], path[k])
      <3>. HIDE DEF size, first
      <3>1. CASE k = 0
        BY <1>0, <2>2, <3>1 DEF Iterates
      <3>2. CASE k # 0
        <4>1. k - 1 \in Nat /\ k - 1 < size /\ (k - 1) + 1 = k /\ k - 1 \in 0..size
          BY <1>0, <3>2
        <4>2. g[k] = Follow(t, g[k - 1], path[k])
          BY <2>3, <4>1
        <4>. QED
          BY <3>2, <4>1, <4>2
      <3>. QED
        BY <3>1, <3>2
    <2>5. Defines(e)
      <3>1. e = [k \in 0..size |-> IF k = 0 THEN first ELSE Follow(t, e[k - 1], path[k])]
        <4>1. e = [k \in 0..size |-> e[k]]
          OBVIOUS
        <4>. HIDE DEF e, size, first
        <4>. QED
          BY <4>1, <2>4
      <3>. QED
        BY <3>1
    <2>. HIDE DEF Defines, e
    <2>. QED
      BY <2>5
  <1>2. Defines(Resolve(t, path))
    <2>. HIDE DEF Defines
    <2>1. Defines(CHOOSE e : Defines(e))
      BY <1>1
    <2>. QED
      BY <2>1 DEF Resolve, Defines
  <1>. DEFINE at == Resolve(t, path)
  <1>3. \A k \in 0..size : at[k] = IF k = 0 THEN first ELSE Follow(t, at[k - 1], path[k])
    <2>. HIDE DEF size, first
    <2>. QED
      BY <1>2
  <1>. HIDE DEF at, first, size
  <1>4. at[0] = first
    BY <1>0, <1>3
  <1>5. \A k \in 1..size : at[k] = Follow(t, at[k - 1], path[k])
    <2>1. \A k \in 1..size : k \in 0..size /\ k # 0
      BY <1>0
    <2>. QED
      BY <1>3, <2>1
  <1>. DEFINE Typed == {n \in Nat : n <= size => at[n] \in Places(t)}
  <1>6. \A n \in Nat : n \in Typed
    <2>1. 0 \in Typed
      BY <1>0, <1>4
    <2>2. ASSUME NEW n \in Nat, n \in Typed, n + 1 <= size
          PROVE  at[n + 1] \in Places(t)
      <3>1. n + 1 \in 1..size /\ (n + 1) - 1 = n /\ at[n] \in Places(t)
        BY <1>0, <2>2
      <3>2. path[n + 1] \in Names
        BY <1>0, <3>1
      <3>. QED
        BY <1>5, <3>1, <3>2, FollowType
    <2>3. \A n \in Nat : n \in Typed => n + 1 \in Typed
      BY <2>2
    <2>. HIDE DEF Typed
    <2>. QED
      BY <2>1, <2>3, SetInduction
  <1>7. \A k \in 0..size : at[k] \in Places(t)
    BY <1>0, <1>6
  <1>. QED
    BY <1>4, <1>5, <1>7 DEF at, first, size

\* Two paths lead to the same place for as long as they agree.
LEMMA SamePlace ==
  ASSUME NEW t \in Trees, NEW p \in Seq(Names), NEW q \in Seq(Names), NEW n \in Nat,
         n <= Len(p), n <= Len(q), \A i \in 1..n : p[i] = q[i]
  PROVE  \A k \in 0..n : Resolve(t, p)[k] = Resolve(t, q)[k]
  <1>. DEFINE Same == {k \in Nat : k <= n => Resolve(t, p)[k] = Resolve(t, q)[k]}
  <1>1. 0 \in Same
    BY Resolves
  <1>2. ASSUME NEW k \in Nat, k \in Same, k + 1 <= n
        PROVE  Resolve(t, p)[k + 1] = Resolve(t, q)[k + 1]
    <2>1. /\ k + 1 \in 1..Len(p) /\ k + 1 \in 1..Len(q) /\ k + 1 \in 1..n
          /\ (k + 1) - 1 = k
      BY <1>2
    <2>2. Resolve(t, p)[k] = Resolve(t, q)[k] /\ p[k + 1] = q[k + 1]
      BY <1>2, <2>1
    <2>. QED
      BY <2>1, <2>2, Resolves
  <1>3. \A k \in Nat : k \in Same => k + 1 \in Same
    BY <1>2
  <1>4. \A k \in Nat : k \in Same
    <2>. HIDE DEF Same
    <2>. QED
      BY <1>1, <1>3, SetInduction
  <1>. QED
    BY <1>4

\* Whoever gets to a directory came through directories.
LEMMA WayThere ==
  ASSUME NEW t \in Trees, NEW path \in Seq(Names), NEW n \in 0..Len(path),
         Resolve(t, path)[n].dir \in DOMAIN t
  PROVE  \A k \in 0..n : Resolve(t, path)[k].dir \in DOMAIN t
  <1>. DEFINE at == Resolve(t, path)
              Through == {k \in Nat : k <= n => at[n - k].dir \in DOMAIN t}
  <1>1. 0 \in Through
    <2>1. n - 0 = n
      OBVIOUS
    <2>. QED
      BY <2>1
  <1>2. ASSUME NEW k \in Nat, k \in Through, k + 1 <= n
        PROVE  at[n - (k + 1)].dir \in DOMAIN t
    <2>1. n - k \in 1..Len(path) /\ (n - k) - 1 = n - (k + 1)
      BY <1>2
    <2>2. at[n - k].dir \in DOMAIN t
      BY <1>2
    <2>3. at[n - k] = Follow(t, at[n - (k + 1)], path[n - k])
      BY <2>1, Resolves
    <2>. HIDE DEF at
    <2>4. at[n - k] # Nowhere
      BY <2>2, ScanAssumption DEF Nowhere
    <2>. QED
      BY <2>3, <2>4 DEF Follow, Entries
  <1>3. \A k \in Nat : k \in Through => k + 1 \in Through
    BY <1>2
  <1>4. \A k \in Nat : k \in Through
    <2>. HIDE DEF Through
    <2>. QED
      BY <1>1, <1>3, SetInduction
  <1>. HIDE DEF at
  <1>5. ASSUME NEW k \in 0..n PROVE at[k].dir \in DOMAIN t
    <2>1. n - k \in Nat /\ n - k <= n /\ n - (n - k) = k
      OBVIOUS
    <2>. QED
      BY <1>4, <2>1
  <1>. QED
    BY <1>5 DEF at

\* A directory is no further away than the links and the height of the tree
\* allow.
LEMMA DirectoryDepth ==
  ASSUME NEW t \in Trees, NEW path \in Seq(Names), NEW n \in 0..Len(path),
         Resolve(t, path)[n].dir \in DOMAIN t
  PROVE  n < (MaxLinks + 1) * Cardinality(DOMAIN t)
  <1>. DEFINE at == Resolve(t, path)
              size == Cardinality(DOMAIN t)
  <1>1. size \in Nat \ {0}
    BY ScanAssumption, FS_CardinalityType, FS_EmptySet
  <1>2. PICK height \in [DOMAIN t -> 0..(size - 1)] :
          \A d \in DOMAIN t : \A name \in DOMAIN t[d] :
            t[d][name].kind = "dir" /\ t[d][name].to \in DOMAIN t
              => height[t[d][name].to] < height[d]
    BY ScanAssumption DEF IsTree
  <1>. HIDE DEF size
  <1>. DEFINE Near(k) == /\ at[k].links \in 0..MaxLinks
                         /\ k + height[at[k].dir] <= at[k].links * size + (size - 1)
              Shown == {k \in Nat : k <= n => Near(k)}
  <1>3. \A k \in 0..n : at[k].dir \in DOMAIN t
    BY WayThere
  <1>4. 0 \in Shown
    <2>1. at[0] = [dir |-> Root, links |-> 0]
      BY Resolves
    <2>2. height[Root] \in 0..(size - 1)
      BY ScanAssumption
    <2>. HIDE DEF at
    <2>3. at[0].links = 0 /\ at[0].dir = Root /\ 0 * size = 0
      BY <1>1, <2>1
    <2>4. Near(0)
      <3>1. 0 + height[at[0].dir] <= 0 + (size - 1)
        BY <1>1, <2>2, <2>3
      <3>. QED
        BY <2>3, <3>1, ScanAssumption
    <2>. HIDE DEF Near
    <2>. QED
      BY <2>4
  <1>5. ASSUME NEW k \in Nat, k \in Shown, k + 1 <= n
        PROVE  Near(k + 1)
    <2>. DEFINE d == at[k].dir
                links == at[k].links
                name == path[k + 1]
                entry == t[d][name]
    <2>1. k \in 0..n /\ k + 1 \in 0..n /\ k + 1 \in 1..Len(path) /\ (k + 1) - 1 = k
      BY <1>5
    <2>2. d \in DOMAIN t /\ at[k + 1].dir \in DOMAIN t
      BY <1>3, <2>1
    <2>3. at[k + 1] = Follow(t, at[k], name)
      BY <2>1, Resolves
    <2>4. links \in 0..MaxLinks /\ k + height[d] <= links * size + (size - 1)
      BY <1>5, <2>1
    <2>. HIDE DEF at
    <2>5. at[k + 1] # Nowhere
      BY <2>2, ScanAssumption DEF Nowhere
    <2>6. /\ name \in DOMAIN t[d] /\ entry.kind \in {"dir", "link"}
          /\ at[k + 1].dir = entry.to
          /\ at[k + 1].links = links + (IF entry.kind = "link" THEN 1 ELSE 0)
          /\ at[k + 1].links <= MaxLinks
      BY <2>2, <2>3, <2>5 DEF Follow, Entries
    <2>7. height[d] \in 0..(size - 1) /\ height[entry.to] \in 0..(size - 1)
      BY <1>2, <2>2, <2>6
    <2>. HIDE DEF d, links, name, entry
    <2>8. CASE entry.kind = "dir"
      <3>1. at[k + 1].links = links
        BY <2>4, <2>6, <2>8
      <3>2. height[entry.to] < height[d]
        BY <1>2, <2>2, <2>6, <2>8 DEF entry
      <3>3. links * size \in Int
        BY <1>1, <2>4
      <3>4. (k + 1) + height[entry.to] <= links * size + (size - 1)
        BY <1>1, <2>4, <2>7, <3>2, <3>3
      <3>. QED
        BY <2>4, <2>6, <3>1, <3>4
    <2>9. CASE entry.kind = "link"
      <3>1. at[k + 1].links = links + 1
        BY <2>6, <2>9
      <3>2. links * size \in Int /\ (links + 1) * size = links * size + size
        BY <1>1, <2>4
      <3>3. (k + 1) + height[entry.to] <= (links * size + size) + (size - 1)
        <4>. DEFINE earlier == links * size
        <4>1. earlier \in Int /\ k + height[d] <= earlier + (size - 1)
          BY <2>4, <3>2
        <4>. HIDE DEF earlier
        <4>2. (k + 1) + height[entry.to] <= (earlier + size) + (size - 1)
          BY <1>1, <2>7, <4>1
        <4>. QED
          BY <4>2 DEF earlier
      <3>4. links + 1 \in 0..MaxLinks
        BY <2>4, <2>6, <3>1, ScanAssumption
      <3>. QED
        BY <2>6, <3>1, <3>2, <3>3, <3>4
    <2>. QED
      BY <2>6, <2>8, <2>9
  <1>6. \A k \in Nat : k \in Shown => k + 1 \in Shown
    <2>. HIDE DEF Near
    <2>. QED
      BY <1>5
  <1>7. n \in Shown
    <2>1. \A k \in Nat : k \in Shown
      <3>. HIDE DEF Shown
      <3>. QED
        BY <1>4, <1>6, SetInduction
    <2>. HIDE DEF Near
    <2>. QED
      BY <2>1
  <1>. HIDE DEF at
  <1>8. Near(n) /\ height[at[n].dir] \in Nat
    <2>1. at[n].dir \in DOMAIN t
      BY DEF at
    <2>2. height[at[n].dir] \in 0..(size - 1)
      BY <1>2, <2>1
    <2>. QED
      BY <1>7, <2>2
  <1>. DEFINE links == at[n].links
  <1>9. links \in 0..MaxLinks /\ n <= links * size + (size - 1)
    <2>1. links \in 0..MaxLinks /\ links * size \in Int
      BY <1>1, <1>8
    <2>. QED
      BY <1>1, <1>8, <2>1
  <1>. HIDE DEF links
  <1>10. links * size <= MaxLinks * size /\ (MaxLinks + 1) * size = MaxLinks * size + size
    BY <1>1, <1>9, ScanAssumption
  <1>11. links * size \in Int /\ MaxLinks * size \in Int
    BY <1>1, <1>9, ScanAssumption
  <1>12. n < (MaxLinks + 1) * size
    BY <1>1, <1>9, <1>10, <1>11
  <1>. QED
    BY <1>12 DEF size
-----------------------------------------------------------------------------
\* A song the walk has to return
Wanted(path) == path # <<>> /\ NamesSong(tree, path) /\ (recursive \/ Len(path) = 1)

\* A call is where the kernel gets to on its path, below a directory.
CallRight(call) ==
  /\ call.path \in Seq(Names) /\ call.links \in 0..MaxLinks
  /\ Resolve(tree, call.path)[Len(call.path)] = [dir |-> call.dir, links |-> call.links]
  /\ call.path # <<>> => /\ recursive
                        /\ Resolve(tree, call.path)[Len(call.path) - 1].dir \in DOMAIN tree

\* A call that has still to be made leads to the path.
Leads(call, path) ==
  Len(call.path) < Len(path) /\ \A i \in 1..Len(call.path) : call.path[i] = path[i]

ScanInv ==
  /\ tree \in Trees
  /\ \A call \in calls : CallRight(call)
  /\ IsFiniteSet(pushed) /\ \A path \in pushed : path \in Seq(Names) /\ Wanted(path)
  /\ \A path \in Seq(Names) : Wanted(path) =>
       path \in pushed \/ \E call \in calls : Leads(call, path)
  /\ returned => calls = {} /\ files = Sorted(pushed)

\* The first call leads to every path.
LEMMA ScanInitInv == ScanInit => ScanInv
  <1>. SUFFICES ASSUME ScanInit PROVE ScanInv
    OBVIOUS
  <1>. DEFINE first == [dir |-> Root, path |-> <<>>, links |-> 0]
  <1>1. tree \in Trees /\ calls = {first} /\ pushed = {} /\ ~returned
    BY DEF ScanInit
  <1>2. CallRight(first)
    <2>1. <<>> \in Seq(Names) /\ Len(<<>>) = 0
      OBVIOUS
    <2>2. Resolve(tree, <<>>)[0] = [dir |-> Root, links |-> 0]
      BY <1>1, <2>1, Resolves
    <2>. QED
      BY <2>1, <2>2, ScanAssumption DEF CallRight
  <1>3. ASSUME NEW path \in Seq(Names), path # <<>> PROVE Leads(first, path)
    BY <1>3 DEF Leads
  <1>4. IsFiniteSet(pushed)
    BY <1>1, FS_EmptySet
  <1>. HIDE DEF first
  <1>. QED
    BY <1>1, <1>2, <1>3, <1>4 DEF ScanInv, Wanted

\* A call pushes its songs and hands each path that led to it on to one of the
\* calls it makes.
LEMMA CallStep ==
  ASSUME ScanInv, NEW call \in calls, ScanDirectory(call)
  PROVE  ScanInv'
  <1>. DEFINE here == [dir |-> call.dir, links |-> call.links]
              entry(name) == tree[call.dir][name]
              below == {name \in Entries(tree, call.dir) :
                          recursive /\ IsDir(entry(name), call.links)}
              songs == {name \in Entries(tree, call.dir) \ below : IsSong(entry(name))}
              n == Len(call.path)
              longer(name) == Append(call.path, name)
  <1>1. /\ calls' = (calls \ {call}) \cup {CallBelow(call, name) : name \in below}
        /\ pushed' = pushed \cup {longer(name) : name \in songs}
        /\ UNCHANGED <<tree, recursive, files, returned>>
    BY DEF ScanDirectory
  <1>2. tree \in Trees /\ CallRight(call) /\ ~returned
    BY DEF ScanInv
  <1>3. Entries(tree, call.dir) \subseteq Names
        /\ (Entries(tree, call.dir) # {} => call.dir \in DOMAIN tree)
    BY <1>2, ScanAssumption DEF Entries
  <1>4. n \in Nat /\ call.path \in Seq(Names) /\ Resolve(tree, call.path)[n] = here
    BY <1>2 DEF CallRight
  \* what is known of the path of an entry
  <1>5. ASSUME NEW name \in Names
        PROVE  /\ longer(name) \in Seq(Names) /\ Len(longer(name)) = n + 1
               /\ longer(name)[n + 1] = name /\ longer(name) # <<>>
               /\ \A i \in 1..n : longer(name)[i] = call.path[i]
               /\ Resolve(tree, longer(name))[n] = here
               /\ Resolve(tree, longer(name))[n + 1] = Follow(tree, here, name)
    <2>1. /\ longer(name) \in Seq(Names) /\ Len(longer(name)) = n + 1
          /\ longer(name)[n + 1] = name /\ longer(name) # <<>>
          /\ \A i \in 1..n : longer(name)[i] = call.path[i]
      BY <1>4
    <2>. HIDE DEF longer, n, here
    <2>2. Resolve(tree, longer(name))[n] = here
      <3>1. \A k \in 0..n : Resolve(tree, longer(name))[k] = Resolve(tree, call.path)[k]
        <4>1. n <= Len(call.path)
          BY <1>4 DEF n
        <4>2. n <= Len(longer(name))
          BY <1>4, <2>1
        <4>. QED
          BY <1>2, <1>4, <2>1, <4>1, <4>2, SamePlace
      <3>. QED
        BY <1>4, <3>1
    <2>3. Resolve(tree, longer(name))[n + 1] = Follow(tree, here, name)
      <3>1. n + 1 \in 1..Len(longer(name)) /\ (n + 1) - 1 = n
        BY <1>4, <2>1
      <3>. QED
        BY <1>2, <2>1, <2>2, <3>1, Resolves
    <2>. QED
      BY <2>1, <2>2, <2>3
  \* the calls it makes
  <1>6. ASSUME NEW name \in below, NEW c, c = CallBelow(call, name)
        PROVE  CallRight(c)
    <2>1. name \in Names /\ name \in Entries(tree, call.dir) /\ recursive
          /\ entry(name).kind \in {"dir", "link"}
          /\ LinksIn(entry(name), call.links) <= MaxLinks
      BY <1>3 DEF IsDir
    <2>2. c.path = longer(name) /\ c.dir = entry(name).to
          /\ c.links = LinksIn(entry(name), call.links)
      BY <1>6 DEF CallBelow
    <2>3. call.links \in 0..MaxLinks
      BY <1>2 DEF CallRight
    <2>4. c.links \in 0..MaxLinks
          /\ c.links = call.links + (IF entry(name).kind = "link" THEN 1 ELSE 0)
      BY <2>1, <2>2, <2>3, ScanAssumption DEF LinksIn
    <2>5. Follow(tree, here, name) = [dir |-> c.dir, links |-> c.links]
      BY <2>1, <2>2, <2>4 DEF Follow
    <2>. HIDE DEF longer, n, here, entry
    <2>6. /\ c.path \in Seq(Names) /\ Len(c.path) = n + 1
          /\ Resolve(tree, c.path)[Len(c.path)] = [dir |-> c.dir, links |-> c.links]
          /\ Resolve(tree, c.path)[Len(c.path) - 1] = here
      BY <1>4, <1>5, <2>1, <2>2, <2>5
    <2>7. here.dir \in DOMAIN tree
      BY <1>3, <2>1 DEF here
    <2>. QED
      BY <2>1, <2>4, <2>6, <2>7 DEF CallRight
  \* what it pushes
  <1>7. ASSUME NEW name \in songs
        PROVE  longer(name) \in Seq(Names) /\ Wanted(longer(name))
    <2>1. name \in Names /\ name \in Entries(tree, call.dir) /\ entry(name).kind = "song"
      BY <1>3 DEF IsSong
    <2>2. call.path # <<>> => recursive
      BY <1>2 DEF CallRight
    <2>3. recursive \/ n = 0
      BY <1>4, <2>2
    <2>. HIDE DEF longer, n
    <2>4. (n + 1) - 1 = n /\ (recursive \/ n + 1 = 1)
      BY <1>4, <2>3
    <2>5. NamesSong(tree, longer(name))
      <3>1. Resolve(tree, longer(name))[Len(longer(name)) - 1].dir = call.dir
        BY <1>5, <2>1, <2>4
      <3>2. longer(name)[Len(longer(name))] = name
        BY <1>5, <2>1
      <3>. QED
        BY <2>1, <3>1, <3>2 DEF NamesSong
    <2>. QED
      BY <1>5, <2>1, <2>4, <2>5 DEF Wanted
  <1>8. IsFiniteSet(pushed')
    <2>. DEFINE new == {longer(name) : name \in songs}
                f == [name \in songs |-> longer(name)]
    <2>1. IsFiniteSet(songs)
      <3>1. songs \in SUBSET Names
        BY <1>3
      <3>. HIDE DEF songs
      <3>. QED
        BY <3>1, ScanAssumption, FS_Subset
    <2>2. f \in Surjection(songs, new)
      <3>. HIDE DEF songs, longer
      <3>. QED
        BY DEF Surjection
    <2>3. IsFiniteSet(new)
      <3>. HIDE DEF songs, new, f
      <3>. QED
        BY <2>1, <2>2, FS_Surjection
    <2>. HIDE DEF new
    <2>. QED
      BY <1>1, <2>3, FS_Union DEF ScanInv, new
  \* what the call led to is pushed, or one of its calls leads there
  <1>9. ASSUME NEW path \in Seq(Names), Wanted(path), Leads(call, path)
        PROVE  \/ path \in pushed'
               \/ \E c \in calls' : Leads(c, path)
    <2>. DEFINE name == path[n + 1]
                last == Len(path) - 1
    <2>1. /\ n + 1 \in 1..Len(path) /\ name \in Names /\ last \in Nat /\ n <= last
          /\ \A i \in 1..n : call.path[i] = path[i]
      BY <1>4, <1>9 DEF Leads
    <2>2. Resolve(tree, path)[n] = here
      <3>1. \A k \in 0..n : Resolve(tree, path)[k] = Resolve(tree, call.path)[k]
        <4>1. n <= Len(call.path) /\ n <= Len(path)
          BY <1>4, <2>1
        <4>. HIDE DEF n
        <4>. QED
          BY <1>2, <1>4, <2>1, <4>1, SamePlace
      <3>. HIDE DEF n, here
      <3>. QED
        BY <1>4, <3>1
    <2>. HIDE DEF n
    <2>3. /\ path[Len(path)] \in Entries(tree, Resolve(tree, path)[last].dir)
          /\ tree[Resolve(tree, path)[last].dir][path[Len(path)]].kind = "song"
      BY <1>9 DEF Wanted, NamesSong
    <2>4. \A k \in 0..last : Resolve(tree, path)[k].dir \in DOMAIN tree
      <3>1. Resolve(tree, path)[last].dir \in DOMAIN tree
        BY <2>3 DEF Entries
      <3>2. last \in 0..Len(path)
        BY <2>1
      <3>. HIDE DEF last
      <3>. QED
        BY <1>2, <3>1, <3>2, WayThere
    <2>5. CASE n = last
      <3>1. name = path[Len(path)] /\ Len(path) = n + 1
        BY <1>4, <2>5
      <3>. HIDE DEF last
      <3>2. name \in Entries(tree, call.dir) /\ entry(name).kind = "song"
        BY <2>2, <2>3, <2>5, <3>1
      <3>3. name \in songs
        BY <3>2 DEF IsSong, IsDir
      <3>4. path = longer(name)
        <4>1. /\ longer(name) \in Seq(Names) /\ Len(longer(name)) = n + 1
              /\ longer(name)[n + 1] = name
              /\ \A i \in 1..n : longer(name)[i] = call.path[i]
          BY <1>5, <2>1
        <4>. HIDE DEF longer
        <4>2. \A i \in 1..Len(path) : path[i] = longer(name)[i]
          BY <1>4, <2>1, <3>1, <4>1
        <4>. QED
          BY <3>1, <4>1, <4>2
      <3>. HIDE DEF name, songs, longer
      <3>. QED
        BY <1>1, <3>3, <3>4
    <2>6. CASE n # last
      <3>1. n + 1 \in 0..last /\ (n + 1) - 1 = n /\ Len(path) # 1 /\ n + 1 < Len(path)
        <4>1. Len(path) = last + 1 /\ last \in Nat /\ n < last
          BY <1>4, <2>1, <2>6
        <4>. HIDE DEF last
        <4>. QED
          BY <1>4, <4>1
      <3>. HIDE DEF last
      <3>2. recursive
        BY <1>9, <3>1 DEF Wanted
      <3>3. Resolve(tree, path)[n + 1] = Follow(tree, here, name)
        <4>. HIDE DEF here
        <4>. QED
          BY <1>2, <2>1, <2>2, <3>1, Resolves
      <3>4. Follow(tree, here, name) # Nowhere
        <4>. HIDE DEF here
        <4>. QED
          BY <1>2, <2>4, <3>1, <3>3, ScanAssumption DEF Nowhere
      <3>. HIDE DEF name
      <3>5. /\ name \in Entries(tree, call.dir)
            /\ entry(name).kind \in {"dir", "link"}
            /\ call.links + (IF entry(name).kind = "link" THEN 1 ELSE 0) <= MaxLinks
        BY <3>4 DEF Follow
      <3>6. name \in below
        <4>1. LinksIn(entry(name), call.links) <= MaxLinks
          BY <1>2, <3>5 DEF LinksIn, CallRight
        <4>. QED
          BY <3>2, <3>5, <4>1 DEF IsDir
      <3>. DEFINE c == CallBelow(call, name)
      <3>7. c \in calls' /\ c.path = longer(name)
        BY <1>1, <3>6 DEF CallBelow
      <3>8. /\ Len(longer(name)) = n + 1 /\ longer(name)[n + 1] = name
            /\ \A i \in 1..n : longer(name)[i] = call.path[i]
        BY <1>5, <2>1 DEF name
      <3>. HIDE DEF c, longer
      <3>9. \A i \in 1..(n + 1) : longer(name)[i] = path[i]
        BY <1>4, <2>1, <3>8 DEF name
      <3>10. Leads(c, path)
        BY <3>1, <3>7, <3>8, <3>9 DEF Leads
      <3>. QED
        BY <3>7, <3>10
    <2>. QED
      BY <2>5, <2>6
  <1>. HIDE DEF below, songs, longer, n, here
  <1>10. \A c \in calls' : CallRight(c)'
    <2>1. \A c \in calls' : CallRight(c)
      BY <1>1, <1>6 DEF ScanInv
    <2>2. \A c : CallRight(c)' <=> CallRight(c)
      BY <1>1 DEF CallRight
    <2>. QED
      BY <2>1, <2>2
  <1>11. \A path : Wanted(path)' <=> Wanted(path)
    BY <1>1 DEF Wanted
  <1>12. \A path \in pushed' : path \in Seq(Names) /\ Wanted(path)
    BY <1>1, <1>7 DEF ScanInv
  <1>13. ASSUME NEW path \in Seq(Names), Wanted(path)
         PROVE  path \in pushed' \/ \E c \in calls' : Leads(c, path)
    <2>1. path \in pushed \/ \E c \in calls : Leads(c, path)
      BY <1>13 DEF ScanInv
    <2>2. CASE path \in pushed
      BY <1>1, <2>2
    <2>3. ASSUME NEW c \in calls, Leads(c, path), c # call
          PROVE  \E d \in calls' : Leads(d, path)
      BY <1>1, <2>3
    <2>. QED
      BY <1>9, <1>13, <2>1, <2>2, <2>3
  <1>. QED
    BY <1>1, <1>2, <1>8, <1>10, <1>11, <1>12, <1>13 DEF ScanInv, Leads

\* Returning changes nothing the invariant is about but the files.
LEMMA ScanNextInv == ScanInv /\ [ScanNext]_scanVars => ScanInv'
  <1>. SUFFICES ASSUME ScanInv, [ScanNext]_scanVars PROVE ScanInv'
    OBVIOUS
  <1>1. CASE Return
    <2>1. /\ UNCHANGED <<tree, recursive, calls, pushed>>
          /\ calls = {} /\ files' = Sorted(pushed)
      BY <1>1 DEF Return
    <2>2. /\ \A call : CallRight(call)' <=> CallRight(call)
          /\ \A path : Wanted(path)' <=> Wanted(path)
          /\ \A call, path : Leads(call, path)' <=> Leads(call, path)
      BY <2>1 DEF CallRight, Wanted, Leads
    <2>. QED
      BY <2>1, <2>2 DEF ScanInv
  <1>2. CASE UNCHANGED scanVars
    <2>1. UNCHANGED <<tree, recursive, calls, pushed, files, returned>>
      BY <1>2 DEF scanVars
    <2>2. /\ \A call : CallRight(call)' <=> CallRight(call)
          /\ \A path : Wanted(path)' <=> Wanted(path)
          /\ \A call, path : Leads(call, path)' <=> Leads(call, path)
      BY <2>1 DEF CallRight, Wanted, Leads
    <2>. QED
      BY <2>1, <2>2 DEF ScanInv
  <1>. QED
    BY <1>1, <1>2, CallStep DEF ScanNext

\* ScanInv holds throughout the walk.
THEOREM ScanInvariant == ScanSpec => []ScanInv
  BY ScanInitInv, ScanNextInv, PTL DEF ScanSpec

\* The bound is a number, at least 1 for the directory itself.
LEMMA LongestIsNat == tree \in Trees => Longest \in Nat \ {0}
  <1>. SUFFICES ASSUME tree \in Trees PROVE Longest \in Nat \ {0}
    OBVIOUS
  <1>1. Cardinality(DOMAIN tree) \in Nat \ {0}
    BY ScanAssumption, FS_CardinalityType, FS_EmptySet
  <1>. DEFINE size == Cardinality(DOMAIN tree)
  <1>. HIDE DEF size
  <1>2. (MaxLinks + 1) * size = MaxLinks * size + size /\ MaxLinks * size \in Nat
    BY <1>1, ScanAssumption DEF size
  <1>. QED
    BY <1>1, <1>2 DEF Longest, size

\* The walk goes as deep as links and directories allow, and no deeper: it
\* ends even where a link leads back to a parent.
THEOREM WalkIsBounded == ScanSpec => []WalkBounded
  <1>1. ScanInv => WalkBounded
    <2>. SUFFICES ASSUME ScanInv, NEW call \in calls PROVE Len(call.path) <= Longest
      BY DEF WalkBounded
    <2>1. tree \in Trees /\ CallRight(call)
      BY DEF ScanInv
    <2>2. Longest \in Nat \ {0} /\ call.path \in Seq(Names) /\ Len(call.path) \in Nat
      BY <2>1, LongestIsNat DEF CallRight
    <2>3. CASE call.path = <<>>
      BY <2>2, <2>3
    <2>4. CASE call.path # <<>>
      <3>. DEFINE n == Len(call.path) - 1
      <3>1. n \in 0..Len(call.path) /\ Resolve(tree, call.path)[n].dir \in DOMAIN tree
        BY <2>1, <2>2, <2>4 DEF CallRight
      <3>. HIDE DEF n
      <3>2. n < Longest
        BY <2>1, <2>2, <3>1, DirectoryDepth DEF Longest
      <3>. QED
        BY <2>2, <3>1, <3>2 DEF n
    <2>. QED
      BY <2>3, <2>4
  <1>. QED
    BY <1>1, ScanInvariant, PTL

\* Every song the kernel would open below the directory is returned, nothing
\* else is, and in the order of the paths.
THEOREM WalkFindsTheSongs == ScanSpec => []ScanComplete
  <1>1. ScanInv => ScanComplete
    <2>. SUFFICES ASSUME ScanInv, returned
                  PROVE  /\ ToSet(files) =
                              {path \in UNION {[1..k -> Names] : k \in 1..Longest} :
                                 NamesSong(tree, path) /\ (recursive \/ Len(path) = 1)}
                         /\ \A i \in 2..Len(files) : Before(files[i - 1], files[i])
      BY DEF ScanComplete
    <2>1. tree \in Trees /\ calls = {} /\ files = Sorted(pushed) /\ IsFiniteSet(pushed)
      BY DEF ScanInv
    <2>2. pushed \subseteq Seq(Nat)
      <3>1. ASSUME NEW path \in pushed PROVE path \in Seq(Nat)
        <4>1. path \in Seq(Names)
          BY DEF ScanInv
        <4>2. \A i \in 1..Len(path) : path[i] \in Nat
          <5>1. \A i \in 1..Len(path) : path[i] \in Names
            BY <4>1
          <5>. QED
            BY <5>1, ScanAssumption
        <4>. QED
          BY <4>1, <4>2
      <3>. QED
        BY <3>1
    <2>3. /\ ToSet(files) = pushed
          /\ \A i \in 2..Len(files) : Before(files[i - 1], files[i])
      BY <2>1, <2>2, SortedIsSorted
    <2>4. ASSUME NEW path \in pushed
          PROVE  /\ path \in UNION {[1..k -> Names] : k \in 1..Longest}
                 /\ NamesSong(tree, path) /\ (recursive \/ Len(path) = 1)
      <3>1. path \in Seq(Names) /\ Wanted(path)
        BY DEF ScanInv
      <3>. DEFINE n == Len(path) - 1
      <3>2. n \in 0..Len(path) /\ Resolve(tree, path)[n].dir \in DOMAIN tree
        <4>1. n \in 0..Len(path)
          BY <3>1 DEF Wanted
        <4>. QED
          BY <3>1, <4>1 DEF Wanted, NamesSong, Entries
      <3>3. n < Longest
        <4>. HIDE DEF n
        <4>. QED
          BY <2>1, <3>1, <3>2, DirectoryDepth DEF Longest
      <3>4. Len(path) \in 1..Longest
        BY <2>1, <3>1, <3>2, <3>3, LongestIsNat
      <3>5. path \in [1..Len(path) -> Names]
        BY <3>1
      <3>. QED
        BY <3>1, <3>4, <3>5 DEF Wanted
    <2>5. ASSUME NEW k \in 1..Longest, NEW path \in [1..k -> Names],
                 NamesSong(tree, path), recursive \/ Len(path) = 1
          PROVE  path \in pushed
      <3>1. path \in Seq(Names) /\ path # <<>>
        BY <2>1, LongestIsNat
      <3>. QED
        BY <2>1, <2>5, <3>1 DEF ScanInv, Wanted
    <2>. QED
      BY <2>3, <2>4, <2>5
  <1>. QED
    BY <1>1, ScanInvariant, PTL
=============================================================================

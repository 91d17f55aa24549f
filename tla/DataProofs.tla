----------------------------- MODULE DataProofs -----------------------------
(***************************************************************************)
(* Facts about data that the proofs about the components rest on.          *)
(*                                                                         *)
(* Induction over the natural numbers is stated about sets: what is true   *)
(* of every number is said of the set of numbers it is true of, so that    *)
(* the facts can be cited for any such set.  With it, a function defined   *)
(* by recursion on a number is shown to exist and to satisfy its           *)
(* definition.                                                             *)
(*                                                                         *)
(* Of each operation of TrackQueue.tla the lemmas say what it does to the  *)
(* tracks of a queue: which ids it holds, how long it is, and that no id   *)
(* appears twice.                                                          *)
(***************************************************************************)
EXTENDS TrackQueue, SequenceTheorems, WellFoundedInduction, TLAPS

\* The numbers and < are well-founded, as a set of pairs.
LEMMA LessIsWellFounded == IsWellFoundedOn({p \in Nat \X Nat : p[1] < p[2]}, Nat)
  BY NatLessThanWellFounded DEF OpToRel

\* A set of natural numbers that is not empty has a least element.
LEMMA LeastElement ==
  ASSUME NEW T \in SUBSET Nat, T # {}
  PROVE  \E n \in T : \A m \in T : n <= m
  <1>. DEFINE Less == {p \in Nat \X Nat : p[1] < p[2]}
  <1>1. PICK n \in T : \A m \in T : <<m, n>> \notin Less
    <2>. HIDE DEF Less
    <2>. QED
      BY LessIsWellFounded, WFMin DEF Less
  <1>2. ASSUME NEW m \in T PROVE n <= m
    <2>1. m \in Nat /\ n \in Nat
      OBVIOUS
    <2>2. m < n => <<m, n>> \in Less
      BY <2>1
    <2>. HIDE DEF Less
    <2>. QED
      BY <1>1, <2>1, <2>2
  <1>. QED
    BY <1>2

\* A set with 0, and with each number its successor, has them all.
LEMMA SetInduction ==
  ASSUME NEW S, 0 \in S, \A n \in Nat : n \in S => n + 1 \in S
  PROVE  \A n \in Nat : n \in S
  <1>1. SUFFICES ASSUME Nat \ S # {} PROVE FALSE
    OBVIOUS
  <1>2. PICK n \in Nat \ S : \A m \in Nat \ S : n <= m
    BY <1>1, LeastElement
  <1>3. n # 0 /\ n - 1 \in Nat
    BY <1>2
  <1>4. n - 1 \in S
    BY <1>2, <1>3
  <1>. QED
    BY <1>2, <1>3, <1>4

\* g starts with v0, and each of its values gives the next.
Iterates(g, V, v0, next) ==
  /\ g \in [Nat -> V] /\ g[0] = v0
  /\ \A n \in Nat : g[n + 1] = next[n][g[n]]

\* A value for 0 and a step from each value to the next make a function.
LEMMA RecursionExists ==
  ASSUME NEW V, NEW v0 \in V, NEW next \in [Nat -> [V -> V]]
  PROVE  \E g : Iterates(g, V, v0, next)
  <1>. DEFINE Starts(h, n) == /\ h \in [0..n -> V] /\ h[0] = v0
                              /\ \A i \in 0..(n - 1) : h[i + 1] = next[i][h[i]]
              Defined == {n \in Nat : \E h : Starts(h, n)}
  <1>1. \A n \in Nat : n \in Defined
    <2>1. 0 \in Defined
      <3>1. Starts([i \in 0..0 |-> v0], 0)
        OBVIOUS
      <3>. QED
        BY <3>1
    <2>2. ASSUME NEW n \in Nat, n \in Defined
          PROVE  n + 1 \in Defined
      <3>1. PICK h : Starts(h, n)
        BY <2>2
      <3>. DEFINE k == [i \in 0..(n + 1) |-> IF i = n + 1 THEN next[n][h[n]] ELSE h[i]]
      <3>2. k \in [0..(n + 1) -> V] /\ k[0] = v0
        BY <3>1
      <3>3. ASSUME NEW i \in 0..n
            PROVE  k[i + 1] = next[i][k[i]]
        <4>1. CASE i = n
          BY <4>1, <3>1
        <4>2. CASE i # n
          <5>1. i \in 0..(n - 1) /\ i + 1 \in 0..n /\ i + 1 # n + 1
            BY <4>2
          <5>2. k[i] = h[i] /\ k[i + 1] = h[i + 1]
            BY <5>1
          <5>. QED
            BY <5>1, <5>2, <3>1
        <4>. QED
          BY <4>1, <4>2
      <3>4. Starts(k, n + 1)
        <4>1. 0..((n + 1) - 1) = 0..n
          OBVIOUS
        <4>. HIDE DEF k
        <4>. QED
          BY <3>2, <3>3, <4>1
      <3>. HIDE DEF Starts, k
      <3>. QED
        BY <3>4
    <2>. HIDE DEF Defined
    <2>. QED
      BY <2>1, <2>2, SetInduction
  <1>2. ASSUME NEW m \in Nat, NEW n \in Nat, NEW h, NEW k, Starts(h, m), Starts(k, n)
        PROVE  \A i \in Nat : i <= m /\ i <= n => h[i] = k[i]
    <2>. DEFINE Agree == {i \in Nat : i <= m /\ i <= n => h[i] = k[i]}
    <2>1. 0 \in Agree
      BY <1>2
    <2>2. ASSUME NEW i \in Nat, i \in Agree
          PROVE  i + 1 \in Agree
      <3>1. SUFFICES ASSUME i + 1 <= m, i + 1 <= n
                     PROVE  h[i + 1] = k[i + 1]
        OBVIOUS
      <3>2. i \in 0..(m - 1) /\ i \in 0..(n - 1) /\ h[i] = k[i]
        BY <3>1, <2>2
      <3>. QED
        BY <3>2, <1>2
    <2>3. \A i \in Nat : i \in Agree
      <3>. HIDE DEF Agree
      <3>. QED
        BY <2>1, <2>2, SetInduction
    <2>. QED
      BY <2>3
  <1>. DEFINE H == [n \in Nat |-> CHOOSE h : Starts(h, n)]
              g == [n \in Nat |-> H[n][n]]
  <1>3. ASSUME NEW n \in Nat PROVE Starts(H[n], n)
    <2>1. \E h : Starts(h, n)
      BY <1>1
    <2>. HIDE DEF Starts
    <2>. QED
      BY <2>1
  <1>4. g \in [Nat -> V] /\ g[0] = v0
    <2>1. ASSUME NEW n \in Nat PROVE H[n][n] \in V
      <3>1. H[n] \in [0..n -> V]
        BY <1>3
      <3>. HIDE DEF H
      <3>. QED
        BY <3>1
    <2>2. H[0][0] = v0
      BY <1>3
    <2>. HIDE DEF H
    <2>. QED
      BY <2>1, <2>2
  <1>5. ASSUME NEW n \in Nat PROVE g[n + 1] = next[n][g[n]]
    <2>1. Starts(H[n], n) /\ Starts(H[n + 1], n + 1)
      <3>1. n + 1 \in Nat
        OBVIOUS
      <3>. HIDE DEF Starts, H
      <3>. QED
        BY <1>3, <3>1
    <2>. HIDE DEF H
    <2>2. H[n + 1][n] = H[n][n]
      <3>. HIDE DEF Starts
      <3>. QED
        BY <2>1, <1>2
    <2>3. H[n + 1][n + 1] = next[n][H[n + 1][n]]
      <3>1. n \in 0..((n + 1) - 1)
        OBVIOUS
      <3>. QED
        BY <2>1, <3>1
    <2>. QED
      BY <2>2, <2>3
  <1>6. Iterates(g, V, v0, next)
    <2>. HIDE DEF g
    <2>. QED
      BY <1>4, <1>5 DEF Iterates
  <1>. HIDE DEF g
  <1>. QED
    BY <1>6
-----------------------------------------------------------------------------
\* An id that is queued has a position.
LEMMA PositionFinds ==
  ASSUME NEW S, NEW q \in Seq(S), IsInjective(q), NEW id \in ToSet(q)
  PROVE  Position(q, id) \in 1..Len(q) /\ q[Position(q, id)] = id
<1>1. PICK i \in DOMAIN q : q[i] = id
  BY DEF ToSet
<1>2. \A j \in DOMAIN q : q[j] = id => i <= j
  BY <1>1 DEF IsInjective
<1> QED
  BY <1>1, <1>2 DEF Position

\* Queue::push_back adds its track and keeps the others once each.
LEMMA PushBackAdds ==
  ASSUME NEW S, NEW q \in Seq(S), NEW t \in S
  PROVE  /\ PushBack(q, t) \in Seq(S)
         /\ Len(PushBack(q, t)) = Len(q) + 1
         /\ ToSet(PushBack(q, t)) = ToSet(q) \cup {t}
         /\ IsInjective(q) /\ t \notin ToSet(q) => IsInjective(PushBack(q, t))
<1> DEFINE r == PushBack(q, t)
<1>1. r \in Seq(S) /\ Len(r) = Len(q) + 1 /\ DOMAIN r = 1..(Len(q) + 1)
  BY DEF PushBack
<1>2. \A i \in DOMAIN r : r[i] = IF i = Len(q) + 1 THEN t ELSE q[i]
  BY DEF PushBack
<1>3. DOMAIN q = 1..Len(q)
  OBVIOUS
<1>4. ToSet(r) = ToSet(q) \cup {t}
  BY <1>1, <1>2, <1>3 DEF ToSet
<1>5. IsInjective(q) /\ t \notin ToSet(q) => IsInjective(r)
  BY <1>1, <1>2, <1>3 DEF ToSet, IsInjective
<1> QED
  BY <1>1, <1>4, <1>5

\* Queue::push_front likewise.
LEMMA PushFrontAdds ==
  ASSUME NEW S, NEW q \in Seq(S), NEW t \in S
  PROVE  /\ PushFront(q, t) \in Seq(S)
         /\ Len(PushFront(q, t)) = Len(q) + 1
         /\ ToSet(PushFront(q, t)) = ToSet(q) \cup {t}
         /\ IsInjective(q) /\ t \notin ToSet(q) => IsInjective(PushFront(q, t))
<1> DEFINE r == PushFront(q, t)
<1>1. r \in Seq(S) /\ Len(r) = Len(q) + 1 /\ DOMAIN r = 1..(Len(q) + 1)
  BY DEF PushFront
<1>2. \A i \in DOMAIN r : r[i] = IF i = 1 THEN t ELSE q[i - 1]
  BY DEF PushFront
<1>3. DOMAIN q = 1..Len(q)
  OBVIOUS
<1>4. ToSet(r) = ToSet(q) \cup {t}
  <2>1. ASSUME NEW i \in DOMAIN q
        PROVE  q[i] \in ToSet(r)
    BY <1>1, <1>2, <1>3, i + 1 \in DOMAIN r, (i + 1) - 1 = i DEF ToSet
  <2>2. t \in ToSet(r)
    BY <1>1, <1>2, 1 \in DOMAIN r DEF ToSet
  <2>3. ToSet(r) \subseteq ToSet(q) \cup {t}
    BY <1>1, <1>2, <1>3 DEF ToSet
  <2> QED
    BY <2>1, <2>2, <2>3 DEF ToSet
<1>5. IsInjective(q) /\ t \notin ToSet(q) => IsInjective(r)
  BY <1>1, <1>2, <1>3 DEF ToSet, IsInjective
<1> QED
  BY <1>1, <1>4, <1>5

\* Queue::pop_front takes the head and nothing else.
LEMMA PopFrontTakes ==
  ASSUME NEW S, NEW q \in Seq(S), q # <<>>
  PROVE  /\ Head(q) \in S /\ Head(q) \in ToSet(q)
         /\ Tail(q) \in Seq(S) /\ Len(Tail(q)) = Len(q) - 1
         /\ ToSet(Tail(q)) \subseteq ToSet(q)
         /\ IsInjective(q) => IsInjective(Tail(q)) /\ Head(q) \notin ToSet(Tail(q))
<1> DEFINE r == Tail(q)
<1>1. r \in Seq(S) /\ Len(r) = Len(q) - 1 /\ DOMAIN r = 1..(Len(q) - 1)
  OBVIOUS
<1>2. \A i \in DOMAIN r : r[i] = q[i + 1]
  OBVIOUS
<1>3. DOMAIN q = 1..Len(q) /\ Len(q) \in Nat \ {0} /\ Head(q) = q[1]
  OBVIOUS
<1>4. Head(q) \in S /\ Head(q) \in ToSet(q)
  BY <1>3 DEF ToSet
<1>5. ToSet(r) \subseteq ToSet(q)
  BY <1>1, <1>2, <1>3 DEF ToSet
<1>6. ASSUME IsInjective(q)
      PROVE  IsInjective(r) /\ q[1] \notin ToSet(r)
  BY <1>1, <1>2, <1>3, <1>6 DEF ToSet, IsInjective
<1> QED
  BY <1>1, <1>3, <1>4, <1>5, <1>6

\* VecDeque::remove(i) takes the i-th track and keeps the others.
LEMMA RemoveAtTakes ==
  ASSUME NEW S, NEW q \in Seq(S), NEW i \in 1..Len(q)
  PROVE  /\ RemoveAt(q, i) \in Seq(S) /\ Len(RemoveAt(q, i)) = Len(q) - 1
         /\ \A j \in 1..(Len(q) - 1) :
              RemoveAt(q, i)[j] = IF j < i THEN q[j] ELSE q[j + 1]
<1> DEFINE a == SubSeq(q, 1, i - 1)
           b == SubSeq(q, i + 1, Len(q))
           m == i - 1
           n == Len(q) - i
           r == a \o b
<1>1. a \in Seq(S) /\ Len(a) = m /\ \A j \in 1..m : a[j] = q[j]
  OBVIOUS
<1>2. b \in Seq(S) /\ Len(b) = n /\ \A j \in 1..n : b[j] = q[i + j]
  OBVIOUS
<1>3. RemoveAt(q, i) = r
  BY DEF RemoveAt
<1>4. m \in Nat /\ n \in Nat /\ m = i - 1 /\ m + n = Len(q) - 1 /\ i \in Nat
  OBVIOUS
<1> HIDE DEF a, b, m, n
<1>5. /\ r \in Seq(S) /\ Len(r) = m + n
      /\ \A j \in 1..m : r[j] = a[j]
      /\ \A j \in 1..n : r[m + j] = b[j]
  BY <1>1, <1>2, <1>4
<1> HIDE DEF r
<1>6. ASSUME NEW j \in 1..(Len(q) - 1)
      PROVE  r[j] = IF j < i THEN q[j] ELSE q[j + 1]
  <2>1. CASE j < i
    BY <1>1, <1>4, <1>5, <2>1
  <2>2. CASE ~(j < i)
    <3>1. j - m \in 1..n /\ m + (j - m) = j /\ i + (j - m) = j + 1
      BY <1>4, <2>2
    <3> QED
      BY <1>2, <1>5, <2>2, <3>1
  <2> QED
    BY <2>1, <2>2
<1> QED
  BY <1>3, <1>4, <1>5, <1>6

\* Queue::remove takes the track out, and the others stay once each.
LEMMA RemoveIdTakes ==
  ASSUME NEW S, NEW q \in Seq(S), IsInjective(q), NEW id \in ToSet(q)
  PROVE  /\ RemoveId(q, id) \in Seq(S)
         /\ Len(RemoveId(q, id)) = Len(q) - 1
         /\ ToSet(RemoveId(q, id)) = ToSet(q) \ {id}
         /\ IsInjective(RemoveId(q, id))
<1> DEFINE i == Position(q, id)
           r == RemoveId(q, id)
<1>1. i \in 1..Len(q) /\ q[i] = id
  BY PositionFinds
<1> HIDE DEF i
<1>2. r \in Seq(S) /\ Len(r) = Len(q) - 1
      /\ \A j \in 1..(Len(q) - 1) : r[j] = IF j < i THEN q[j] ELSE q[j + 1]
  BY <1>1, RemoveAtTakes DEF RemoveId, i
<1> HIDE DEF r
<1>3. DOMAIN r = 1..(Len(q) - 1) /\ DOMAIN q = 1..Len(q) /\ Len(q) \in Nat
  BY <1>2
<1>4. IsInjective(r)
  <2>1. ASSUME NEW j \in DOMAIN r, NEW k \in DOMAIN r, r[j] = r[k]
        PROVE  j = k
    <3> DEFINE at(x) == IF x < i THEN x ELSE x + 1
    <3>1. at(j) \in DOMAIN q /\ at(k) \in DOMAIN q
      BY <1>1, <1>3
    <3>2. r[j] = q[at(j)] /\ r[k] = q[at(k)]
      BY <1>2, <1>3
    <3>3. at(j) = at(k)
      BY <2>1, <3>1, <3>2 DEF IsInjective
    <3> QED
      BY <1>1, <1>3, <3>3
  <2> QED
    BY <2>1 DEF IsInjective
<1>5. ToSet(r) = ToSet(q) \ {id}
  <2>1. ASSUME NEW j \in DOMAIN r
        PROVE  r[j] \in ToSet(q) \ {id}
    <3> DEFINE at == IF j < i THEN j ELSE j + 1
    <3>1. at \in DOMAIN q /\ at # i /\ r[j] = q[at]
      BY <1>1, <1>2, <1>3
    <3>2. q[at] # q[i]
      BY <1>1, <1>3, <3>1 DEF IsInjective
    <3> QED
      BY <1>1, <3>1, <3>2 DEF ToSet
  <2>2. ASSUME NEW k \in DOMAIN q, q[k] # id
        PROVE  q[k] \in ToSet(r)
    <3>1. CASE k < i
      BY <1>1, <1>2, <1>3, <3>1, k \in DOMAIN r DEF ToSet
    <3>2. CASE k > i
      BY <1>1, <1>2, <1>3, <3>2, k - 1 \in DOMAIN r, (k - 1) + 1 = k DEF ToSet
    <3> QED
      BY <1>1, <1>3, <2>2, <3>1, <3>2
  <2> QED
    BY <2>1, <2>2 DEF ToSet
<1> QED
  BY <1>2, <1>4, <1>5 DEF r

\* VecDeque::insert puts one more track between the others.
LEMMA InsertAtAdds ==
  ASSUME NEW S, NEW q \in Seq(S), NEW i \in 1..(Len(q) + 1), NEW t \in S
  PROVE  /\ InsertAt(q, i, t) \in Seq(S)
         /\ Len(InsertAt(q, i, t)) = Len(q) + 1
         /\ ToSet(InsertAt(q, i, t)) = ToSet(q) \cup {t}
         /\ IsInjective(q) /\ t \notin ToSet(q) => IsInjective(InsertAt(q, i, t))
<1> DEFINE a == SubSeq(q, 1, i - 1)
           b == SubSeq(q, i, Len(q))
           c == a \o <<t>>
           r == c \o b
           m == i - 1
           n == Len(q) - i + 1
<1>1. a \in Seq(S) /\ Len(a) = m /\ \A j \in 1..m : a[j] = q[j]
  OBVIOUS
<1>2. b \in Seq(S) /\ Len(b) = n /\ \A j \in 1..n : b[j] = q[i + j - 1]
  OBVIOUS
<1>3. InsertAt(q, i, t) = r
  BY DEF InsertAt
<1>4. /\ m \in Nat /\ n \in Nat /\ m + 1 = i /\ i + n = Len(q) + 1 /\ i \in Nat
      /\ Len(q) \in Nat
  OBVIOUS
<1> HIDE DEF a, b, m, n
<1>5. /\ c \in Seq(S) /\ Len(c) = i
      /\ \A j \in 1..m : c[j] = q[j]
      /\ c[i] = t
  <2>1. <<t>> \in Seq(S) /\ Len(<<t>>) = 1 /\ <<t>>[1] = t
    OBVIOUS
  <2>2. /\ c \in Seq(S) /\ Len(c) = m + 1
        /\ \A j \in 1..m : c[j] = a[j]
        /\ c[m + 1] = <<t>>[1]
    BY <1>1, <1>4, <2>1
  <2> QED
    BY <1>1, <1>4, <2>1, <2>2
<1> HIDE DEF c
<1>6. ASSUME NEW j \in 1..(Len(q) + 1)
      PROVE  r[j] = IF j < i THEN q[j] ELSE IF j = i THEN t ELSE q[j - 1]
  <2>1. /\ \A k \in 1..i : r[k] = c[k]
        /\ \A k \in 1..n : r[i + k] = b[k]
    <3>1. /\ c \in Seq(S) /\ Len(c) = i
          /\ b \in Seq(S) /\ Len(b) = n
      BY <1>2, <1>5
    <3>2. ASSUME NEW k \in 1..i PROVE r[k] = c[k]
      BY <1>4, <3>1
    <3>3. ASSUME NEW k \in 1..n PROVE r[i + k] = b[k]
      BY <1>4, <3>1
    <3> QED
      BY <3>2, <3>3
  <2> HIDE DEF r
  <2>2. CASE j < i
    BY <1>4, <1>5, <2>1, <2>2
  <2>3. CASE j = i
    BY <1>4, <1>5, <2>1, <2>3
  <2>4. CASE j > i
    <3>1. j - i \in 1..n /\ i + (j - i) = j /\ i + (j - i) - 1 = j - 1
      BY <1>4, <2>4
    <3>2. r[j] = q[j - 1]
      <4>1. r[i + (j - i)] = b[j - i]
        BY <2>1, <3>1
      <4>2. b[j - i] = q[i + (j - i) - 1]
        BY <1>2, <3>1
      <4> QED
        BY <3>1, <4>1, <4>2
    <3> QED
      BY <1>4, <2>4, <3>2
  <2> QED
    BY <1>4, <2>2, <2>3, <2>4
<1>5a. r \in Seq(S) /\ Len(r) = Len(q) + 1 /\ DOMAIN r = 1..(Len(q) + 1)
  BY <1>2, <1>4, <1>5
<1> HIDE DEF r
<1>7. DOMAIN q = 1..Len(q) /\ Len(q) \in Nat
  OBVIOUS
<1>8. ToSet(r) = ToSet(q) \cup {t}
  <2>1. ASSUME NEW j \in 1..(Len(q) + 1)
        PROVE  r[j] \in ToSet(q) \cup {t}
    <3>1. CASE j < i
      BY <1>6, <1>7, <3>1 DEF ToSet
    <3>2. CASE j > i
      BY <1>6, <1>7, <3>2, j - 1 \in DOMAIN q DEF ToSet
    <3> QED
      BY <1>6, <1>7, <3>1, <3>2
  <2>2. t \in ToSet(r)
    BY <1>5a, <1>6, i \in DOMAIN r DEF ToSet
  <2>3. ASSUME NEW k \in DOMAIN q
        PROVE  q[k] \in ToSet(r)
    <3>1. CASE k < i
      BY <1>5a, <1>6, <1>7, <3>1, k \in DOMAIN r DEF ToSet
    <3>2. CASE k >= i
      BY <1>5a, <1>6, <1>7, <3>2, k + 1 \in DOMAIN r, (k + 1) - 1 = k DEF ToSet
    <3> QED
      BY <1>7, <3>1, <3>2
  <2> QED
    BY <1>5a, <2>1, <2>2, <2>3 DEF ToSet
<1>9. ASSUME IsInjective(q), t \notin ToSet(q)
      PROVE  IsInjective(r)
  <2>1. \A k \in 1..Len(q) : q[k] # t
    BY <1>7, <1>9 DEF ToSet
  <2>2. \A k, l \in 1..Len(q) : q[k] = q[l] => k = l
    BY <1>7, <1>9 DEF IsInjective
  <2>3. ASSUME NEW k \in 1..(Len(q) + 1), NEW l \in 1..(Len(q) + 1), r[k] = r[l]
        PROVE  k = l
    BY <1>6, <1>7, <2>1, <2>2, <2>3
  <2> QED
    BY <1>5a, <2>3 DEF IsInjective
<1> QED
  BY <1>3, <1>5a, <1>8, <1>9

\* Queue::move_track, whatever the position: the same tracks, once each.
LEMMA MoveToKeeps ==
  ASSUME NEW S, NEW q \in Seq(S), IsInjective(q), NEW id \in ToSet(q),
         NEW position \in Nat
  PROVE  /\ MoveTo(q, id, position) \in Seq(S)
         /\ Len(MoveTo(q, id, position)) = Len(q)
         /\ ToSet(MoveTo(q, id, position)) = ToSet(q)
         /\ IsInjective(MoveTo(q, id, position))
<1> DEFINE rest == RemoveId(q, id)
           clamped == IF position <= Len(rest) THEN position ELSE Len(rest)
<1>1. /\ rest \in Seq(S) /\ Len(rest) = Len(q) - 1
      /\ ToSet(rest) = ToSet(q) \ {id} /\ IsInjective(rest)
  BY RemoveIdTakes
<1>2. id \in S
  BY DEF ToSet
<1>3. MoveTo(q, id, position) = InsertAt(rest, clamped + 1, id)
  BY DEF MoveTo
<1> HIDE DEF rest
<1>4. clamped + 1 \in 1..(Len(rest) + 1)
  BY <1>1
<1> DEFINE at == clamped + 1
           r == InsertAt(rest, at, id)
<1> HIDE DEF clamped
<1>5. at \in 1..(Len(rest) + 1)
  BY <1>4
<1> HIDE DEF at
<1>6. /\ r \in Seq(S) /\ Len(r) = Len(rest) + 1
      /\ ToSet(r) = ToSet(rest) \cup {id}
      /\ IsInjective(rest) /\ id \notin ToSet(rest) => IsInjective(r)
  BY <1>1, <1>2, <1>5, InsertAtAdds
<1> HIDE DEF r
<1>7. /\ r \in Seq(S) /\ Len(r) = Len(q) /\ ToSet(r) = ToSet(q) /\ IsInjective(r)
  BY <1>1, <1>6
<1> QED
  BY <1>3, <1>7 DEF r, at

\* Queue::shuffle, whatever the generator draws: the same tracks, once each.
LEMMA ShuffleKeeps ==
  ASSUME NEW S, NEW q \in Seq(S), NEW r \in Shuffles(q)
  PROVE  /\ r \in Seq(S) /\ Len(r) = Len(q) /\ ToSet(r) = ToSet(q)
         /\ IsInjective(q) => IsInjective(r)
<1>1. PICK p \in Bijection(DOMAIN q, DOMAIN q) : r = [i \in DOMAIN q |-> q[p[i]]]
  BY DEF Shuffles
<1>2. /\ p \in [DOMAIN q -> DOMAIN q] /\ IsInjective(p)
      /\ \A i \in DOMAIN q : \E j \in DOMAIN q : p[j] = i
  BY DEF Bijection, Injection, Surjection
<1>3. DOMAIN q = 1..Len(q) /\ Len(q) \in Nat
  OBVIOUS
<1>4. r \in Seq(S) /\ Len(r) = Len(q) /\ DOMAIN r = DOMAIN q
  BY <1>1, <1>2, <1>3
<1>5. ToSet(r) = ToSet(q)
  <2>1. ToSet(r) \subseteq ToSet(q)
    BY <1>1, <1>2, <1>4 DEF ToSet
  <2>2. ToSet(q) \subseteq ToSet(r)
    BY <1>1, <1>2, <1>4 DEF ToSet
  <2> QED
    BY <2>1, <2>2
<1>6. IsInjective(q) => IsInjective(r)
  BY <1>1, <1>2, <1>4 DEF IsInjective
<1> QED
  BY <1>4, <1>5, <1>6
=============================================================================

----------------------------- MODULE NodeProofs -----------------------------
(***************************************************************************)
(* What a node keeps in its process: the event hub's promises to those who *)
(* publish and subscribe, the order of start and stop by which nothing is  *)
(* decided over a closed store, and the ring it builds of the members it   *)
(* was given; for any number of handlers and streams, any buffer, a        *)
(* process that starts, fails or stops at any moment, and rings of any     *)
(* size and hashing.                                                       *)
(***************************************************************************)
EXTENDS Process, Ring, FiniteSetTheorems, TLAPS

(* The ring.  First the order of RingOrder: it gives every key one owner,  *)
(* and a change of membership moves only the keys of the node that joined  *)
(* or left.                                                                *)

(* Every set of naturals that is not empty has a least element.            *)
LEMMA LeastNat ==
    ASSUME NEW T, T \subseteq Nat, T # {}
    PROVE  \E x \in T : \A y \in T : x <= y
  <1>1. PICK x \in T : \A y \in T : <<y, x>> \notin OpToRel(<, Nat)
    BY Zenon, NatLessThanWellFounded, WFMin
  <1>2. \A y \in T : ~(y < x)
    BY Zenon, <1>1 DEF OpToRel
  <1> QED BY <1>2

(* A point is a member and a number, and has a hash.                       *)
LEMMA PointParts ==
    ASSUME NEW h \in Hashing, NEW p \in Node \X Place
    PROVE  /\ h[p] \in Nat /\ p[1] \in Nat /\ p[2] \in Nat
           /\ p = <<p[1], p[2]>>
  <1>1. p[1] \in Node /\ p[2] \in Place /\ p = <<p[1], p[2]>>
    OBVIOUS
  <1>2. h[p] \in Hashes
    BY Zenon DEF Hashing
  <1>3. Node \subseteq Nat /\ Place \subseteq Nat /\ Hashes \subseteq Nat
    BY RingAssumption DEF Place, Hashes
  <1> QED BY Zenon, <1>1, <1>2, <1>3

(* A ring with a member has a point.                                       *)
LEMMA HasPoint ==
    ASSUME NEW ms \in SUBSET Node, ms # {}
    PROVE  /\ Points(ms) # {}
           /\ Points(ms) \subseteq Node \X Place
  <1>1. PICK n \in ms : TRUE
    BY Zenon
  <1>2. 0 \in Place
    BY RingAssumption DEF Place
  <1>3. <<n, 0>> \in Points(ms)
    BY Zenon, <1>1, <1>2 DEF Points
  <1>4. Points(ms) \subseteq Node \X Place
    BY Zenon DEF Points
  <1> QED BY Zenon, <1>3, <1>4

(* Before orders the points of a ring completely.                          *)
LEMMA BeforeTotal ==
    ASSUME NEW h \in Hashing, NEW p \in Node \X Place, NEW q \in Node \X Place
    PROVE  /\ p = q \/ Before(h, p, q) \/ Before(h, q, p)
           /\ ~(Before(h, p, q) /\ Before(h, q, p))
           /\ ~Before(h, p, p)
  <1>1. h[p] \in Nat /\ p[1] \in Nat /\ p[2] \in Nat /\ p = <<p[1], p[2]>>
    BY Zenon, PointParts
  <1>2. h[q] \in Nat /\ q[1] \in Nat /\ q[2] \in Nat /\ q = <<q[1], q[2]>>
    BY Zenon, PointParts
  <1> QED BY <1>1, <1>2 DEF Before

(* Any points that are not none have a first, and only one.                *)
LEMMA FirstExists ==
    ASSUME NEW h \in Hashing, NEW S \in SUBSET (Node \X Place), S # {}
    PROVE  /\ First(h, S) \in S
           /\ \A q \in S : First(h, S) = q \/ Before(h, First(h, S), q)
  <1> DEFINE H == {h[p] : p \in S}
  <1>1. \A p \in S : h[p] \in Nat /\ p[1] \in Nat /\ p[2] \in Nat
    BY Zenon, PointParts
  <1>2. PICK a \in S : \A q \in S : h[a] <= h[q]
    <2>1. H \subseteq Nat /\ H # {}
      BY Zenon, <1>1
    <2>2. PICK x \in H : \A y \in H : x <= y
      BY Zenon, <2>1, LeastNat
    <2> QED BY Zenon, <2>2
  <1> DEFINE S2 == {p \in S : h[p] = h[a]}
  <1>3. PICK b \in S2 : \A q \in S2 : b[1] <= q[1]
    <2> DEFINE I == {p[1] : p \in S2}
    <2>1. I \subseteq Nat /\ I # {}
      BY Zenon, <1>1, a \in S2
    <2>2. PICK x \in I : \A y \in I : x <= y
      BY Zenon, <2>1, LeastNat
    <2> QED BY Zenon, <2>2
  <1> DEFINE S3 == {p \in S2 : p[1] = b[1]}
  <1>4. PICK c \in S3 : \A q \in S3 : c[2] <= q[2]
    <2> DEFINE J == {p[2] : p \in S3}
    <2>1. J \subseteq Nat /\ J # {}
      BY Zenon, <1>1, b \in S3
    <2>2. PICK x \in J : \A y \in J : x <= y
      BY Zenon, <2>1, LeastNat
    <2> QED BY Zenon, <2>2
  <1>5. ASSUME NEW q \in S
        PROVE  c = q \/ Before(h, c, q)
    <2>1. h[c] = h[a] /\ c[1] = b[1] /\ c \in S
      BY Zenon, <1>4
    <2>2. c = <<c[1], c[2]>> /\ q = <<q[1], q[2]>>
      BY <2>1
    <2>3. CASE h[q] # h[a]
      BY <2>3, <2>1, <1>1, <1>2 DEF Before
    <2>4. CASE h[q] = h[a] /\ q[1] # b[1]
      <3>1. b[1] <= q[1]
        BY Zenon, <2>4, <1>3
      <3> QED BY <3>1, <2>4, <2>1, <1>1, <1>3 DEF Before
    <2>5. CASE h[q] = h[a] /\ q[1] = b[1]
      <3>1. c[2] <= q[2]
        BY Zenon, <2>5, <1>4
      <3> QED BY <3>1, <2>5, <2>1, <2>2, <1>1 DEF Before
    <2> QED BY Zenon, <2>3, <2>4, <2>5
  <1>6. c \in S
    BY Zenon, <1>4
  <1> QED BY Zenon, <1>5, <1>6 DEF First

(* A first point of a set is the first of every part of it that has it.    *)
LEMMA FirstOfPart ==
    ASSUME NEW h \in Hashing, NEW S \in SUBSET (Node \X Place),
           NEW T \in SUBSET S, First(h, S) \in T
    PROVE  First(h, T) = First(h, S)
  <1>1. T # {} /\ S # {}
    BY Zenon
  <1>2. First(h, T) \in T /\ \A q \in T : First(h, T) = q \/ Before(h, First(h, T), q)
    BY Zenon, <1>1, FirstExists
  <1>3. \A q \in S : First(h, S) = q \/ Before(h, First(h, S), q)
    BY Zenon, <1>1, FirstExists
  <1>4. First(h, T) = First(h, S) \/ (Before(h, First(h, T), First(h, S))
                                      /\ Before(h, First(h, S), First(h, T)))
    BY Zenon, <1>2, <1>3
  <1> QED BY Zenon, <1>2, <1>4, BeforeTotal

(* The same of the first point at or after a hash, going round.            *)
LEMMA NextOfPart ==
    ASSUME NEW h \in Hashing, NEW S \in SUBSET (Node \X Place),
           NEW T \in SUBSET S, NEW k \in Hashes, NextPoint(h, S, k) \in T
    PROVE  NextPoint(h, T, k) = NextPoint(h, S, k)
  <1> DEFINE aS == {p \in S : h[p] >= k}
             aT == {p \in T : h[p] >= k}
  <1>1. CASE aS = {}
    <2>1. aT = {}
      BY Zenon, <1>1
    <2>2. NextPoint(h, S, k) = First(h, S) /\ NextPoint(h, T, k) = First(h, T)
      BY Zenon, <1>1, <2>1 DEF NextPoint
    <2> QED BY <2>2, FirstOfPart
  <1>2. CASE aS # {}
    <2>1. NextPoint(h, S, k) = First(h, aS)
      BY Zenon, <1>2 DEF NextPoint
    <2>2. aS \in SUBSET (Node \X Place) /\ aT \in SUBSET aS
      BY Zenon
    <2>3. First(h, aS) \in aS
      BY Zenon, <1>2, <2>2, FirstExists
    <2>4. First(h, aS) \in aT
      BY Zenon, <2>1, <2>3
    <2>5. NextPoint(h, T, k) = First(h, aT)
      BY Zenon, <2>4 DEF NextPoint
    <2> HIDE DEF aS, aT
    <2> QED BY Zenon, <2>1, <2>2, <2>4, <2>5, FirstOfPart
  <1> QED BY Zenon, <1>1, <1>2

(* The next point is one of the points.                                    *)
LEMMA NextIsPoint ==
    ASSUME NEW h \in Hashing, NEW S \in SUBSET (Node \X Place), S # {}, NEW k \in Hashes
    PROVE  NextPoint(h, S, k) \in S
  <1> DEFINE ahead == {p \in S : h[p] >= k}
  <1>1. ahead \in SUBSET (Node \X Place) /\ ahead \in SUBSET S
    BY Zenon
  <1>2. CASE ahead = {}
    BY Zenon, <1>2, FirstExists DEF NextPoint
  <1>3. CASE ahead # {}
    <2>1. NextPoint(h, S, k) = First(h, ahead)
      BY Zenon, <1>3 DEF NextPoint
    <2> HIDE DEF ahead
    <2>2. First(h, ahead) \in ahead
      BY Zenon, <1>1, <1>3, FirstExists
    <2> QED BY Zenon, <2>1, <2>2, <1>1
  <1> QED BY Zenon, <1>2, <1>3

(* Every key has an owner, and it is a member.                             *)
THEOREM OwnerIsMember ==
    ASSUME NEW h \in Hashing, NEW ms \in SUBSET Node, ms # {}, NEW k \in Hashes
    PROVE  Nearest(h, ms, k) \in ms
  <1>1. Points(ms) # {} /\ Points(ms) \in SUBSET (Node \X Place)
    BY Zenon, HasPoint
  <1>2. NextPoint(h, Points(ms), k) \in Points(ms)
    BY Zenon, <1>1, NextIsPoint
  <1> QED BY Zenon, <1>2 DEF Nearest, Points

(* Whoever owns a key still owns it when other members leave: a departure  *)
(* moves only the keys of the node that left.  Read from the smaller ring  *)
(* to the larger, a node that joins takes keys and moves none between the  *)
(* others.                                                                 *)
THEOREM OthersKeepTheirKeys ==
    ASSUME NEW h \in Hashing, NEW ms \in SUBSET Node, NEW rest \in SUBSET ms,
           NEW k \in Hashes, ms # {}, Nearest(h, ms, k) \in rest
    PROVE  Nearest(h, rest, k) = Nearest(h, ms, k)
  <1> DEFINE p == NextPoint(h, Points(ms), k)
  <1>1. Points(ms) \in SUBSET (Node \X Place) /\ Points(rest) \in SUBSET Points(ms)
    BY Zenon DEF Points
  <1>2. p \in Points(ms)
    BY Zenon, HasPoint, <1>1, NextIsPoint
  <1>3. p[1] \in rest
    BY Zenon DEF Nearest
  <1>4. p \in Points(rest)
    BY Zenon, <1>2, <1>3 DEF Points
  <1>5. NextPoint(h, Points(rest), k) = p
    BY Zenon, <1>1, <1>4, NextOfPart
  <1> QED BY Zenon, <1>5 DEF Nearest

-----------------------------------------------------------------------------
(* The array.  Elements that are all comparable have every rank.           *)
Below(n, R, i) == {m \in 1..n : <<m, i>> \in R}
Ordering(n, R) ==
    /\ \A i \in 1..n : <<i, i>> \notin R
    /\ \A i, j, k \in 1..n : <<i, j>> \in R /\ <<j, k>> \in R => <<i, k>> \in R
    /\ \A i, j \in 1..n : i = j \/ <<i, j>> \in R \/ <<j, i>> \in R

LEMMA RankGrows ==
    ASSUME NEW n \in Nat, NEW R, Ordering(n, R), NEW i \in 1..n, NEW k \in 1..n
    PROVE  /\ Cardinality(Below(n, R, i)) \in 0..(n - 1)
           /\ <<i, k>> \in R => Cardinality(Below(n, R, i)) < Cardinality(Below(n, R, k))
  <1>1. IsFiniteSet(1..n) /\ Cardinality(1..n) = n
    BY FS_Interval
  <1>2. \A j \in 1..n : Below(n, R, j) \subseteq 1..n /\ j \notin Below(n, R, j)
    BY Zenon DEF Below, Ordering
  <1>3. \A j \in 1..n : /\ IsFiniteSet(Below(n, R, j)) /\ Cardinality(Below(n, R, j)) \in Nat
                        /\ Cardinality(Below(n, R, j)) <= n /\ Cardinality(Below(n, R, j)) # n
    BY <1>1, <1>2, FS_Subset, FS_CardinalityType
  <1>4. Cardinality(Below(n, R, i)) \in 0..(n - 1)
    BY <1>3
  <1>5. ASSUME <<i, k>> \in R
        PROVE  Cardinality(Below(n, R, i)) < Cardinality(Below(n, R, k))
    <2>1. Below(n, R, i) \subseteq Below(n, R, k)
      BY Zenon, <1>5 DEF Below, Ordering
    <2>2. i \in Below(n, R, k) /\ i \notin Below(n, R, i)
      BY Zenon, <1>2, <1>5 DEF Below
    <2>3. Cardinality(Below(n, R, i)) <= Cardinality(Below(n, R, k))
          /\ Cardinality(Below(n, R, i)) # Cardinality(Below(n, R, k))
      BY Zenon, <1>3, <2>1, <2>2, FS_Subset
    <2> QED BY <1>3, <2>3
  <1> QED BY Zenon, <1>4, <1>5

LEMMA EveryRank ==
    ASSUME NEW n \in Nat, NEW R, Ordering(n, R), NEW j \in 1..n
    PROVE  \E i \in 1..n : Cardinality(Below(n, R, i)) + 1 = j
  <1> DEFINE f == [i \in 1..n |-> Cardinality(Below(n, R, i)) + 1]
  <1>1. \A i \in 1..n : Cardinality(Below(n, R, i)) \in 0..(n - 1)
    BY Zenon, RankGrows
  <1>2. f \in [1..n -> 1..n]
    BY <1>1
  <1>3. ASSUME NEW i \in 1..n, NEW k \in 1..n, i # k PROVE f[i] # f[k]
    <2>1. CASE <<i, k>> \in R
      BY <1>1, <2>1, RankGrows
    <2>2. CASE <<k, i>> \in R
      BY <1>1, <2>2, RankGrows
    <2> QED BY Zenon, <1>3, <2>1, <2>2 DEF Ordering
  <1> HIDE DEF f
  <1>4. f \in Injection(1..n, 1..n)
    BY Zenon, <1>2, <1>3 DEF Injection, IsInjective
  <1>5. f \in Surjection(1..n, 1..n)
    BY <1>4, FS_Interval, FS_Injection
  <1>6. PICK i \in 1..n : f[i] = j
    BY Zenon, <1>5 DEF Surjection
  <1> QED BY Zenon, <1>6 DEF f

(* An array with every element at its rank has the elements it was made    *)
(* of, in order.                                                           *)
Ranked(n, R, s, r) ==
    \A j \in 1..n : \E i \in 1..n : r[j] = s[i] /\ Cardinality(Below(n, R, i)) + 1 = j

Apart(n, R, s, r, j, k) ==
    \E i, m \in 1..n : r[j] = s[i] /\ r[k] = s[m] /\ <<i, m>> \in R
InOrder(n, R, s, r) ==
    /\ \A i \in 1..n : \E j \in 1..n : r[j] = s[i]
    /\ \A j, k \in 1..n : j < k => Apart(n, R, s, r, j, k)

LEMMA RankedArray ==
    ASSUME NEW n \in Nat, NEW R, Ordering(n, R), NEW s, NEW r, Ranked(n, R, s, r)
    PROVE  InOrder(n, R, s, r)
  <1>1. \A i \in 1..n : Cardinality(Below(n, R, i)) \in 0..(n - 1)
    BY Zenon, RankGrows
  <1>2. ASSUME NEW i \in 1..n, NEW m \in 1..n,
               Cardinality(Below(n, R, i)) <= Cardinality(Below(n, R, m))
        PROVE  i = m \/ <<i, m>> \in R
    <2>1. CASE <<m, i>> \in R
      BY <1>1, <1>2, <2>1, RankGrows
    <2> QED BY Zenon, <2>1 DEF Ordering
  <1>3. ASSUME NEW i \in 1..n PROVE \E j \in 1..n : r[j] = s[i]
    <2> DEFINE j == Cardinality(Below(n, R, i)) + 1
    <2>1. j \in 1..n
      BY <1>1
    <2> HIDE DEF j
    <2>2. PICK m \in 1..n : r[j] = s[m] /\ Cardinality(Below(n, R, m)) + 1 = j
      BY Zenon, <2>1 DEF Ranked
    <2>3. Cardinality(Below(n, R, m)) = Cardinality(Below(n, R, i))
      BY <1>1, <2>2 DEF j
    <2>4. m = i
      <3>1. m = i \/ (<<i, m>> \in R /\ <<m, i>> \in R)
        BY <1>1, <1>2, <2>3
      <3> QED BY Zenon, <3>1 DEF Ordering
    <2> QED BY Zenon, <2>1, <2>2, <2>4
  <1>4. ASSUME NEW j \in 1..n, NEW k \in 1..n, j < k
        PROVE  Apart(n, R, s, r, j, k)
    <2>1. PICK i \in 1..n : r[j] = s[i] /\ Cardinality(Below(n, R, i)) + 1 = j
      BY Zenon DEF Ranked
    <2>2. PICK m \in 1..n : r[k] = s[m] /\ Cardinality(Below(n, R, m)) + 1 = k
      BY Zenon DEF Ranked
    <2>3. Cardinality(Below(n, R, i)) <= Cardinality(Below(n, R, m)) /\ i # m
      BY <1>1, <1>4, <2>1, <2>2
    <2> QED BY Zenon, <1>2, <2>1, <2>2, <2>3 DEF Apart
  <1> QED BY Zenon, <1>3, <1>4 DEF InOrder

PlacedOf(n, R, s) == {<<Cardinality(Below(n, R, i)) + 1, s[i]>> : i \in 1..n}
ReadFrom(n, P, r) == \A j \in 1..n : r[j] = (CHOOSE x \in P : x[1] = j)[2]

LEMMA PlacedByRank ==
    ASSUME NEW n \in Nat, NEW R, Ordering(n, R), NEW s, NEW r,
           ReadFrom(n, PlacedOf(n, R, s), r)
    PROVE  Ranked(n, R, s, r)
  <1> DEFINE P == PlacedOf(n, R, s)
  <1>a. \A i \in 1..n : <<Cardinality(Below(n, R, i)) + 1, s[i]>> \in P
    BY Zenon DEF PlacedOf
  <1>b. \A x \in P : \E i \in 1..n : x = <<Cardinality(Below(n, R, i)) + 1, s[i]>>
    BY Zenon DEF PlacedOf
  <1>c. \A j \in 1..n : r[j] = (CHOOSE x \in P : x[1] = j)[2]
    BY Zenon DEF ReadFrom
  <1> HIDE DEF P
  <1> SUFFICES ASSUME NEW j \in 1..n
               PROVE  \E i \in 1..n : r[j] = s[i] /\ Cardinality(Below(n, R, i)) + 1 = j
    BY Zenon DEF Ranked
  <1>1. r[j] = (CHOOSE x \in P : x[1] = j)[2]
    BY Zenon, <1>c
  <1>2. PICK m \in 1..n : Cardinality(Below(n, R, m)) + 1 = j
    BY Zenon, EveryRank
  <1>3. \E x \in P : x[1] = j
    BY Zenon, <1>a, <1>2
  <1> DEFINE y == CHOOSE x \in P : x[1] = j
  <1>4. y \in P /\ y[1] = j
    BY Zenon, <1>3
  <1>5. PICK i \in 1..n : y = <<Cardinality(Below(n, R, i)) + 1, s[i]>>
    BY Zenon, <1>b, <1>4
  <1> HIDE DEF y
  <1>6. y[2] = s[i] /\ Cardinality(Below(n, R, i)) + 1 = j
    BY Zenon, <1>4, <1>5
  <1> QED BY Zenon, <1>1, <1>6 DEF y

(* Any strict total order of the elements, with equal ones in the order    *)
(* they stand, orders an array's indices.                                  *)
Strict(S, L) ==
    /\ \A x \in S : <<x, x>> \notin L
    /\ \A x, y, z \in S : <<x, y>> \in L /\ <<y, z>> \in L => <<x, z>> \in L
    /\ \A x, y \in S : x = y \/ <<x, y>> \in L \/ <<y, x>> \in L
Stable(n, s, L) ==
    {x \in (1..n) \X (1..n) : \/ <<s[x[1]], s[x[2]]>> \in L
                              \/ (<<s[x[2]], s[x[1]]>> \notin L /\ x[1] < x[2])}

LEMMA StableOrders ==
    ASSUME NEW n \in Nat, NEW S, NEW s \in [1..n -> S], NEW L, Strict(S, L)
    PROVE  /\ Ordering(n, Stable(n, s, L))
           /\ \A i, j \in 1..n : <<i, j>> \in Stable(n, s, L) =>
                s[i] = s[j] \/ <<s[i], s[j]>> \in L
  <1> DEFINE less(i, j) == <<s[i], s[j]>> \in L
             R == Stable(n, s, L)
  <1>1. \A i, j \in 1..n : <<i, j>> \in R <=> less(i, j) \/ (~less(j, i) /\ i < j)
    BY Zenon DEF Stable
  <1>2. /\ \A i \in 1..n : ~less(i, i)
        /\ \A i, j, k \in 1..n : less(i, j) /\ less(j, k) => less(i, k)
        /\ \A i, j \in 1..n : s[i] = s[j] \/ less(i, j) \/ less(j, i)
    BY Zenon DEF Strict
  <1>3. \A i, j, k \in 1..n : s[i] = s[j] => (less(i, k) <=> less(j, k)) /\ (less(k, i) <=> less(k, j))
    BY Zenon
  <1> HIDE DEF less, R
  <1>4. \A i \in 1..n : <<i, i>> \notin R
    BY <1>1, <1>2
  <1>5. \A i, j \in 1..n : i = j \/ <<i, j>> \in R \/ <<j, i>> \in R
    <2> SUFFICES ASSUME NEW i \in 1..n, NEW j \in 1..n, i # j
                 PROVE  <<i, j>> \in R \/ <<j, i>> \in R
      BY Zenon
    <2>1. i < j \/ j < i
      OBVIOUS
    <2> QED BY <1>1, <2>1, Zenon
  <1>6. \A i, j \in 1..n : <<i, j>> \in R => less(i, j) \/ (s[i] = s[j] /\ i < j)
    BY Zenon, <1>1, <1>2
  <1>7. ASSUME NEW i \in 1..n, NEW j \in 1..n, NEW k \in 1..n, <<i, j>> \in R, <<j, k>> \in R
        PROVE  <<i, k>> \in R
    <2>1. less(i, j) \/ (s[i] = s[j] /\ i < j)
      BY Zenon, <1>6, <1>7
    <2>2. less(j, k) \/ (s[j] = s[k] /\ j < k)
      BY Zenon, <1>6, <1>7
    <2>3. CASE less(i, k)
      BY Zenon, <1>1, <2>3
    <2>4. CASE s[i] = s[j] /\ i < j /\ s[j] = s[k] /\ j < k
      <3>1. i < k /\ ~less(k, i)
        BY <1>2, <1>3, <2>4
      <3> QED BY Zenon, <1>1, <3>1
    <2> QED BY Zenon, <1>2, <1>3, <2>1, <2>2, <2>3, <2>4
  <1> QED BY Zenon, <1>4, <1>5, <1>6, <1>7 DEF Ordering, less, R

LEMMA ArrayIsSeq ==
    ASSUME NEW S, NEW n \in Nat, NEW s \in [1..n -> S], NEW T, NEW r \in [1..n -> T],
           \A j \in 1..n : \E i \in 1..n : r[j] = s[i]
    PROVE  r \in Seq(S) /\ Len(r) = n
  <1>1. r \in [1..n -> S]
    BY Zenon
  <1> QED BY <1>1

(* What sort.Slice returns, for any order of the elements: the elements it *)
(* was given, in order.                                                    *)
InOrderOf(S, s, L, r) ==
    /\ r \in Seq(S) /\ Len(r) = Len(s) /\ Members(r) = Members(s)
    /\ \A j, k \in DOMAIN r : j < k => r[j] = r[k] \/ <<r[j], r[k]>> \in L

LEMMA SortedArray ==
    ASSUME NEW S, NEW s \in Seq(S), NEW L, Strict(S, L), NEW T, NEW r \in [DOMAIN s -> T],
           Ranked(Len(s), Stable(Len(s), s, L), s, r)
    PROVE  InOrderOf(S, s, L, r)
  <1> DEFINE n == Len(s)
             R == Stable(n, s, L)
  <1>1. /\ n \in Nat /\ DOMAIN s = 1..n /\ s \in [1..n -> S] /\ DOMAIN r = 1..n
        /\ r \in [1..n -> T]
    OBVIOUS
  <1>2. Ordering(n, R) /\ \A i, j \in 1..n : <<i, j>> \in R => s[i] = s[j] \/ <<s[i], s[j]>> \in L
    BY Zenon, <1>1, StableOrders
  <1>3. Ranked(n, R, s, r)
    BY Zenon
  <1> HIDE DEF R, n
  <1>4. \A j \in 1..n : \E i \in 1..n : r[j] = s[i]
    BY Zenon, <1>3 DEF Ranked
  <1>5. InOrder(n, R, s, r)
    BY Zenon, <1>1, <1>2, <1>3, RankedArray
  <1>6. Members(r) = Members(s)
    <2>1. Members(r) = {r[j] : j \in 1..n} /\ Members(s) = {s[i] : i \in 1..n}
      BY Zenon, <1>1 DEF Members
    <2>2. \A i \in 1..n : \E j \in 1..n : r[j] = s[i]
      BY Zenon, <1>5 DEF InOrder
    <2>3. {r[j] : j \in 1..n} \subseteq {s[i] : i \in 1..n}
      BY Zenon, <1>4
    <2>4. {s[i] : i \in 1..n} \subseteq {r[j] : j \in 1..n}
      BY Zenon, <2>2
    <2> QED BY Zenon, <2>1, <2>3, <2>4
  <1>7. ASSUME NEW j \in 1..n, NEW k \in 1..n, j < k PROVE r[j] = r[k] \/ <<r[j], r[k]>> \in L
    <2>1. PICK i, m \in 1..n : r[j] = s[i] /\ r[k] = s[m] /\ <<i, m>> \in R
      <3>1. Apart(n, R, s, r, j, k)
        BY <1>5, <1>7, Zenon DEF InOrder
      <3> QED BY <3>1, Zenon DEF Apart
    <2> QED BY Zenon, <1>2, <2>1
  <1>8. r \in Seq(S) /\ Len(r) = n
    BY <1>1, <1>4, ArrayIsSeq
  <1> QED BY Zenon, <1>1, <1>6, <1>7, <1>8 DEF n, InOrderOf

(* Members ids order themselves; the points of a ring do by Before.        *)
IdLess == {x \in Node \X Node : x[1] < x[2]}
PointLess(h) == {x \in (Node \X Place) \X (Node \X Place) : Before(h, x[1], x[2])}

LEMMA IdsStrict == Strict(Node, IdLess)
  <1>1. Node \subseteq Nat
    BY Zenon, RingAssumption
  <1>2. \A x, y \in Node : <<x, y>> \in IdLess <=> x < y
    BY Zenon DEF IdLess
  <1> QED BY <1>1, <1>2 DEF Strict

LEMMA BeforeTransitive ==
    ASSUME NEW h \in Hashing, NEW p \in Node \X Place, NEW q \in Node \X Place,
           NEW u \in Node \X Place, Before(h, p, q), Before(h, q, u)
    PROVE  Before(h, p, u)
  <1>1. h[p] \in Nat /\ p[1] \in Nat /\ p[2] \in Nat
    BY Zenon, PointParts
  <1>2. h[q] \in Nat /\ q[1] \in Nat /\ q[2] \in Nat
    BY Zenon, PointParts
  <1>3. h[u] \in Nat /\ u[1] \in Nat /\ u[2] \in Nat
    BY Zenon, PointParts
  <1> QED BY <1>1, <1>2, <1>3 DEF Before

LEMMA PointsStrict ==
    ASSUME NEW h \in Hashing
    PROVE  Strict(Node \X Place, PointLess(h))
  <1> DEFINE S == Node \X Place
  <1>1. \A x, y \in S : <<x, y>> \in PointLess(h) <=> Before(h, x, y)
    BY Zenon DEF PointLess
  <1> HIDE DEF S
  <1>2. \A x \in S : <<x, x>> \notin PointLess(h)
    BY Zenon, <1>1, BeforeTotal DEF S
  <1>3. \A x, y, z \in S : <<x, y>> \in PointLess(h) /\ <<y, z>> \in PointLess(h)
                           => <<x, z>> \in PointLess(h)
    BY Zenon, <1>1, BeforeTransitive DEF S
  <1>4. \A x, y \in S : x = y \/ <<x, y>> \in PointLess(h) \/ <<y, x>> \in PointLess(h)
    BY Zenon, <1>1, BeforeTotal DEF S
  <1> QED BY Zenon, <1>2, <1>3, <1>4 DEF Strict, S

LEMMA SortedIds ==
    ASSUME NEW s \in Seq(Node)
    PROVE  InOrderOf(Node, s, IdLess, Sorted(s, <))
  <1> DEFINE n == Len(s)
             R == Stable(n, s, IdLess)
             B(i) == {m \in DOMAIN s : s[m] < s[i] \/ (~(s[i] < s[m]) /\ m < i)}
             P == {<<Cardinality(B(i)) + 1, s[i]>> : i \in DOMAIN s}
             r == Sorted(s, <)
             T == {r[j] : j \in DOMAIN s}
  <1>1. n \in Nat /\ DOMAIN s = 1..n /\ s \in [1..n -> Node]
    OBVIOUS
  <1>2. r = [j \in DOMAIN s |-> (CHOOSE x \in P : x[1] = j)[2]]
    BY Zenon DEF Sorted
  <1>3. \A i \in 1..n : B(i) = Below(n, R, i)
    <2>1. \A x, y \in Node : <<x, y>> \in IdLess <=> x < y
      BY Zenon DEF IdLess
    <2>2. \A i, m \in 1..n : <<m, i>> \in R <=> s[m] < s[i] \/ (~(s[i] < s[m]) /\ m < i)
      BY Zenon, <1>1, <2>1 DEF Stable
    <2> HIDE DEF R, n
    <2> QED BY Zenon, <1>1, <2>2 DEF Below
  <1>4. Ordering(n, R)
    BY Zenon, <1>1, IdsStrict, StableOrders
  <1> HIDE DEF B, n, R
  <1>5. P = PlacedOf(n, R, s)
    BY Zenon, <1>1, <1>3 DEF PlacedOf
  <1> HIDE DEF P, r
  <1>6. ReadFrom(n, P, r)
    BY Zenon, <1>1, <1>2 DEF ReadFrom
  <1>7. Ranked(n, R, s, r)
    BY Zenon, <1>1, <1>4, <1>5, <1>6, PlacedByRank
  <1>8. r \in [DOMAIN s -> T]
    BY Zenon, <1>2
  <1> HIDE DEF T
  <1>9. Ranked(Len(s), Stable(Len(s), s, IdLess), s, r)
    BY Zenon, <1>7 DEF n, R
  <1>10. InOrderOf(Node, s, IdLess, r)
    BY Zenon, <1>8, <1>9, IdsStrict, SortedArray
  <1> QED BY Zenon, <1>10 DEF r

LEMMA SortedPoints ==
    ASSUME NEW h \in Hashing, NEW s \in Seq(Node \X Place)
    PROVE  InOrderOf(Node \X Place, s, PointLess(h), Sorted(s, LAMBDA p, q : Before(h, p, q)))
  <1> DEFINE n == Len(s)
             R == Stable(n, s, PointLess(h))
             B(i) == {m \in DOMAIN s : \/ Before(h, s[m], s[i])
                                       \/ (~Before(h, s[i], s[m]) /\ m < i)}
             P == {<<Cardinality(B(i)) + 1, s[i]>> : i \in DOMAIN s}
             r == Sorted(s, LAMBDA p, q : Before(h, p, q))
             T == {r[j] : j \in DOMAIN s}
  <1>1. n \in Nat /\ DOMAIN s = 1..n /\ s \in [1..n -> Node \X Place]
    OBVIOUS
  <1>2. r = [j \in DOMAIN s |-> (CHOOSE x \in P : x[1] = j)[2]]
    BY Zenon DEF Sorted
  <1>3. \A i \in 1..n : B(i) = Below(n, R, i)
    <2>1. \A x, y \in Node \X Place : <<x, y>> \in PointLess(h) <=> Before(h, x, y)
      BY Zenon DEF PointLess
    <2>2. \A i, m \in 1..n : <<m, i>> \in R <=> \/ Before(h, s[m], s[i])
                                                \/ (~Before(h, s[i], s[m]) /\ m < i)
      BY Zenon, <1>1, <2>1 DEF Stable
    <2> HIDE DEF R, n
    <2> QED BY Zenon, <1>1, <2>2 DEF Below
  <1>4. Ordering(n, R)
    BY Zenon, <1>1, PointsStrict, StableOrders
  <1> HIDE DEF B, n, R
  <1>5. P = PlacedOf(n, R, s)
    BY <1>1, <1>3 DEF PlacedOf
  <1> HIDE DEF P, r
  <1>6. ReadFrom(n, P, r)
    BY Zenon, <1>1, <1>2 DEF ReadFrom
  <1>7. Ranked(n, R, s, r)
    BY Zenon, <1>1, <1>4, <1>5, <1>6, PlacedByRank
  <1>8. r \in [DOMAIN s -> T]
    BY Zenon, <1>2
  <1> HIDE DEF T
  <1>9. Ranked(Len(s), Stable(Len(s), s, PointLess(h)), s, r)
    BY Zenon, <1>7 DEF n, R
  <1>10. InOrderOf(Node \X Place, s, PointLess(h), r)
    <2>1. Strict(Node \X Place, PointLess(h))
      BY Zenon, PointsStrict
    <2> QED BY Zenon, <1>8, <1>9, <2>1, SortedArray
  <1> QED BY Zenon, <1>10 DEF r

(* The points of a list of nodes: all of theirs and no other.              *)
LEMMA Division ==
    ASSUME NEW V \in Nat \ {0}, NEW n \in Nat, NEW j \in 1..(n * V)
    PROVE  ((j - 1) \div V) + 1 \in 1..n /\ (j - 1) % V \in 0..(V - 1)
  <1> DEFINE d == (j - 1) \div V
             m == (j - 1) % V
  <1>1. d \in Nat /\ m \in 0..(V - 1) /\ j - 1 = d * V + m
    OBVIOUS
  <1> HIDE DEF d, m
  <1>2. d * V <= n * V - 1
    BY <1>1
  <1>3. d < n
    <2> SUFFICES ASSUME d >= n PROVE FALSE
      BY <1>1
    <2>1. PICK e \in Nat : d = n + e
      <3>1. d - n \in Nat /\ d = n + (d - n)
        BY <1>1
      <3> QED BY Zenon, <3>1
    <2>2. d * V = n * V + e * V /\ e * V \in Nat
      BY <2>1
    <2> QED BY <1>2, <2>2
  <1> QED BY <1>1, <1>3 DEF d, m

PlacedAt(V, n, i, v, j) ==
    j \in 1..(n * V) /\ ((j - 1) \div V) + 1 = i /\ (j - 1) % V = v

LEMMA Placing ==
    ASSUME NEW V \in Nat \ {0}, NEW n \in Nat, NEW i \in 1..n, NEW v \in 0..(V - 1)
    PROVE  PlacedAt(V, n, i, v, (i - 1) * V + v + 1)
  <1> DEFINE a == i - 1
  <1>1. a \in Nat /\ i = a + 1 /\ a * V \in Nat
    OBVIOUS
  <1>2. PICK e \in Nat : n = a + 1 + e
    <2>1. n - i \in Nat /\ n = a + 1 + (n - i)
      OBVIOUS
    <2> QED BY Zenon, <2>1
  <1>3. n * V = a * V + V + e * V /\ e * V \in Nat
    BY <1>1, <1>2
  <1> HIDE DEF a
  <1>4. (a * V + v) \div V = a /\ (a * V + v) % V = v
    BY <1>1
  <1>5. a * V + v + 1 \in 1..(n * V) /\ (a * V + v + 1) - 1 = a * V + v
    BY <1>1, <1>3
  <1> QED BY Zenon, <1>1, <1>4, <1>5 DEF a, PlacedAt

LEMMA PointsOfNodes ==
    ASSUME NEW ids \in Seq(Node)
    PROVE  /\ PointsOf(ids) \in Seq(Node \X Place)
           /\ Members(PointsOf(ids)) = Points(Members(ids))
  <1> DEFINE n == Len(ids)
             N == n * VNodes
             node(j) == ids[((j - 1) \div VNodes) + 1]
             place(j) == (j - 1) % VNodes
             r == PointsOf(ids)
  <1>1. VNodes \in Nat \ {0} /\ n \in Nat /\ N \in Nat /\ Place = 0..(VNodes - 1)
    BY RingAssumption DEF Place
  <1>2. DOMAIN ids = 1..n /\ ids \in [1..n -> Node]
    OBVIOUS
  <1>3. r = [j \in 1..N |-> <<node(j), place(j)>>]
    BY Zenon DEF PointsOf
  <1>4. \A j \in 1..N : /\ ((j - 1) \div VNodes) + 1 \in 1..n
                        /\ place(j) \in 0..(VNodes - 1)
    BY Zenon, <1>1, Division
  <1>5. \A i \in 1..n, v \in 0..(VNodes - 1) : \E j \in 1..N : node(j) = ids[i] /\ place(j) = v
    <2> TAKE i \in 1..n, v \in 0..(VNodes - 1)
    <2> DEFINE j == (i - 1) * VNodes + v + 1
    <2>1. j \in 1..N /\ ((j - 1) \div VNodes) + 1 = i /\ place(j) = v
      <3>1. VNodes \in Nat \ {0} /\ n \in Nat
        BY Zenon, <1>1
      <3> HIDE DEF n
      <3>2. PlacedAt(VNodes, n, i, v, j)
        BY <3>1, Placing, Zenon
      <3> HIDE DEF j
      <3> QED BY Zenon, <3>2 DEF PlacedAt
    <2> HIDE DEF j
    <2> QED BY Zenon, <2>1
  <1>6. \A j \in 1..N : node(j) \in Members(ids) /\ node(j) \in Node /\ place(j) \in Place
    BY Zenon, <1>1, <1>2, <1>4 DEF Members
  <1> HIDE DEF n, N, node, place, r
  <1>7. r \in [1..N -> Node \X Place]
    BY Zenon, <1>3, <1>6
  <1>8. r \in Seq(Node \X Place) /\ DOMAIN r = 1..N
    BY <1>1, <1>7
  <1>9. Members(r) \subseteq Points(Members(ids))
    BY <1>3, <1>6, <1>8 DEF Points, Members
  <1>10. ASSUME NEW p \in Points(Members(ids)) PROVE p \in Members(r)
    <2>1. PICK a \in Members(ids), v \in Place : p = <<a, v>>
      BY DEF Points
    <2>2. PICK i \in 1..n : a = ids[i]
      BY Zenon, <1>2 DEF Members
    <2>3. PICK j \in 1..N : node(j) = ids[i] /\ place(j) = v
      BY Zenon, <1>1, <1>5
    <2>4. r[j] = p
      BY Zenon, <1>3, <2>1, <2>2, <2>3
    <2> QED BY Zenon, <1>8, <2>4 DEF Members
  <1> QED BY Zenon, <1>8, <1>9, <1>10 DEF r

(* New lays out the points of its members in the circle's order, whatever  *)
(* the order they were given in.                                           *)
LaidOut(h, ms, r) ==
    /\ r \in Seq(Node \X Place)
    /\ Members(r) = Points(ms)
    /\ \A j, k \in DOMAIN r : j < k => r[j] = r[k] \/ Before(h, r[j], r[k])

LEMMA NewLaysOut ==
    ASSUME NEW h \in Hashing, NEW l \in Seq(Node)
    PROVE  LaidOut(h, Members(l), New(h, l))
  <1> DEFINE ids == Sorted(l, <)
             ps == PointsOf(ids)
             r == Sorted(ps, LAMBDA p, q : Before(h, p, q))
  <1>1. InOrderOf(Node, l, IdLess, ids)
    BY Zenon, SortedIds
  <1> HIDE DEF ids
  <1>2. ids \in Seq(Node) /\ Members(ids) = Members(l)
    BY Zenon, <1>1 DEF InOrderOf
  <1>3. ps \in Seq(Node \X Place) /\ Members(ps) = Points(Members(l))
    BY Zenon, <1>2, PointsOfNodes
  <1> HIDE DEF ps
  <1>4. InOrderOf(Node \X Place, ps, PointLess(h), r)
    BY Zenon, <1>3, SortedPoints
  <1> HIDE DEF r
  <1>5. \A x, y : <<x, y>> \in PointLess(h) => Before(h, x, y)
    BY Zenon DEF PointLess
  <1>6. LaidOut(h, Members(l), r)
    BY Zenon, <1>3, <1>4, <1>5 DEF LaidOut, InOrderOf
  <1> QED BY Zenon, <1>6 DEF r, ps, ids, New

(* A point before all the others of a set is its first.                    *)
LEMMA FirstIs ==
    ASSUME NEW h \in Hashing, NEW S \in SUBSET (Node \X Place), NEW p \in S,
           \A q \in S : p = q \/ Before(h, p, q)
    PROVE  First(h, S) = p
  <1>1. First(h, S) \in S /\ \A q \in S : First(h, S) = q \/ Before(h, First(h, S), q)
    BY Zenon, FirstExists
  <1>2. First(h, S) = p \/ (Before(h, First(h, S), p) /\ Before(h, p, First(h, S)))
    BY Zenon, <1>1
  <1> QED BY Zenon, <1>1, <1>2, BeforeTotal

(* search finds the next point, past the last one included.                *)
LEMMA SearchFinds ==
    ASSUME NEW h \in Hashing, NEW ms \in SUBSET Node, ms # {}, NEW r, LaidOut(h, ms, r),
           NEW k \in Hashes
    PROVE  r[Search(h, r, k)] = NextPoint(h, Points(ms), k)
  <1> DEFINE S == Points(ms)
             n == Len(r)
             at == {i \in DOMAIN r : h[r[i]] >= k}
             ahead == {p \in S : h[p] >= k}
  <1>1. S # {} /\ S \in SUBSET (Node \X Place)
    BY Zenon, HasPoint
  <1>2. /\ n \in Nat /\ DOMAIN r = 1..n /\ r \in [1..n -> Node \X Place]
        /\ S = {r[i] : i \in 1..n}
        /\ \A i, j \in 1..n : i < j => r[i] = r[j] \/ Before(h, r[i], r[j])
    BY DEF LaidOut, Members
  <1> HIDE DEF S, n
  <1>3. \A i, j \in 1..n : i <= j => r[i] = r[j] \/ Before(h, r[i], r[j])
    BY <1>2
  <1>4. \A i \in 1..n : r[i] \in S
    BY Zenon, <1>2
  <1>5. \A p \in S : \E i \in 1..n : p = r[i]
    BY Zenon, <1>2
  <1>6. CASE at = {}
    <2>1. Search(h, r, k) = 1
      BY Zenon, <1>6 DEF Search
    <2>2. ahead = {}
      BY Zenon, <1>2, <1>5, <1>6
    <2>3. NextPoint(h, S, k) = First(h, S)
      BY Zenon, <2>2 DEF NextPoint
    <2>4. 1 \in 1..n
      BY <1>1, <1>2, <1>5
    <2>5. r[1] \in S /\ \A q \in S : r[1] = q \/ Before(h, r[1], q)
      <3>1. \A j \in 1..n : 1 <= j
        BY <1>2
      <3> QED BY <1>3, <1>4, <1>5, <2>4, <3>1, Zenon
    <2>6. First(h, S) = r[1]
      BY Zenon, <1>1, <2>5, FirstIs
    <2> QED BY Zenon, <2>1, <2>3, <2>6 DEF S
  <1>7. CASE at # {}
    <2> DEFINE i == CHOOSE i \in at : \A j \in at : i <= j
    <2>1. Search(h, r, k) = i
      BY Zenon, <1>7 DEF Search
    <2>2. at \subseteq 1..n /\ at \subseteq Nat
      BY <1>2
    <2>3. i \in at /\ \A j \in at : i <= j
      BY Zenon, <1>7, <2>2, LeastNat
    <2> HIDE DEF i
    <2>4. i \in 1..n /\ h[r[i]] >= k /\ \A j \in 1..n : h[r[j]] >= k => i <= j
      BY Zenon, <1>2, <2>2, <2>3
    <2>5. r[i] \in ahead
      BY Zenon, <1>4, <2>4
    <2>6. \A q \in ahead : r[i] = q \/ Before(h, r[i], q)
      BY Zenon, <1>3, <1>5, <2>4
    <2>7. NextPoint(h, S, k) = First(h, ahead)
      BY Zenon, <2>5 DEF NextPoint
    <2>8. ahead \in SUBSET (Node \X Place)
      BY Zenon, <1>1
    <2> HIDE DEF ahead, at
    <2>9. First(h, ahead) = r[i]
      BY Zenon, <2>5, <2>6, <2>8, FirstIs
    <2> QED BY Zenon, <2>1, <2>7, <2>9 DEF S
  <1> QED BY Zenon, <1>6, <1>7

(* So the owner by the array is the owner by the circle.                   *)
LEMMA OwnerByArray ==
    ASSUME NEW h \in Hashing, NEW l \in Seq(Node), l # <<>>, NEW k \in Hashes
    PROVE  /\ Owner(h, New(h, l), k) = Nearest(h, Members(l), k)
           /\ Members(l) \in SUBSET Node /\ Members(l) # {}
  <1> DEFINE ms == Members(l)
             r == New(h, l)
  <1>1. ms \in SUBSET Node /\ ms # {}
    <2>1. 1 \in DOMAIN l
      OBVIOUS
    <2> QED BY <2>1 DEF Members
  <1>2. LaidOut(h, ms, r)
    BY Zenon, NewLaysOut
  <1> HIDE DEF ms, r
  <1>3. r[Search(h, r, k)] = NextPoint(h, Points(ms), k)
    BY Zenon, <1>1, <1>2, SearchFinds
  <1>4. Owner(h, r, k) = Nearest(h, ms, k)
    BY Zenon, <1>3 DEF Owner, Nearest
  <1> QED BY Zenon, <1>1, <1>4 DEF ms, r

-----------------------------------------------------------------------------
(* The inductive invariant: the ring is the one New makes of its members.  *)
RingInv ==
    /\ hash \in Hashing
    /\ listed \in Seq(Node) /\ listed # <<>>
    /\ ring = New(hash, listed)

LEMMA RestOf ==
    ASSUME NEW S, NEW l \in Seq(S), NEW i \in 0..Len(l)
    PROVE  LET b == SubSeq(l, i + 1, Len(l))
           IN  /\ b \in Seq(S) /\ Len(b) = Len(l) - i
               /\ \A j \in 1..(Len(l) - i) : b[j] = l[i + j]
  <1> DEFINE n == Len(l)
             m == i + 1
             b == SubSeq(l, m, n)
  <1>1. n \in Nat /\ m \in Int /\ n \in Int /\ i \in Nat /\ i <= n
    OBVIOUS
  <1>2. \A j \in m..n : l[j] \in S
    OBVIOUS
  <1> HIDE DEF n, m
  <1>3. /\ b \in Seq(S) /\ Len(b) = IF m <= n THEN n - m + 1 ELSE 0
        /\ \A j \in 1..(n - m + 1) : b[j] = l[m + j - 1]
    BY <1>1, <1>2
  <1> HIDE DEF b
  <1>4. Len(b) = n - i
    BY <1>1, <1>3 DEF m
  <1>5. ASSUME NEW j \in 1..(n - i) PROVE b[j] = l[i + j]
    <2>1. j \in 1..(n - m + 1) /\ m + j - 1 = i + j
      BY <1>1 DEF m
    <2> QED BY Zenon, <1>3, <2>1
  <1> QED BY Zenon, <1>3, <1>4, <1>5 DEF b, m, n

TogetherAre(S, a, b, x, y, m) ==
    /\ m \in Seq(S) /\ Len(m) = x + y /\ DOMAIN m = 1..(x + y)
    /\ \A j \in 1..x : m[j] = a[j]
    /\ \A j \in 1..y : m[x + j] = b[j]

LEMMA Together ==
    ASSUME NEW S, NEW a \in Seq(S), NEW b \in Seq(S)
    PROVE  TogetherAre(S, a, b, Len(a), Len(b), a \o b)
  <1>1. Len(a) \in Nat /\ Len(b) \in Nat
    OBVIOUS
  <1>2. ASSUME NEW j \in 1..Len(b) PROVE (a \o b)[Len(a) + j] = b[j]
    <2>1. Len(a) + j \in 1..(Len(a) + Len(b)) /\ ~(Len(a) + j <= Len(a))
          /\ (Len(a) + j) - Len(a) = j
      BY <1>1
    <2> QED BY <2>1
  <1>3. ASSUME NEW j \in 1..Len(a) PROVE (a \o b)[j] = a[j]
    <2>1. j \in 1..(Len(a) + Len(b)) /\ j <= Len(a)
      BY <1>1
    <2> QED BY <2>1
  <1>4. a \o b \in Seq(S) /\ Len(a \o b) = Len(a) + Len(b)
    OBVIOUS
  <1> HIDE DEF TogetherAre
  <1>5. DOMAIN (a \o b) = 1..(Len(a) + Len(b))
    BY <1>4
  <1> QED BY <1>2, <1>3, <1>4, <1>5, Zenon DEF TogetherAre

LEMMA Inserted ==
    ASSUME NEW S, NEW l \in Seq(S), NEW x \in S, NEW i \in 0..Len(l)
    PROVE  LET m == SubSeq(l, 1, i) \o <<x>> \o SubSeq(l, i + 1, Len(l))
           IN  m \in Seq(S) /\ m # <<>> /\ Members(l) \subseteq Members(m)
  <1> DEFINE n == Len(l)
             a == SubSeq(l, 1, i)
             b == SubSeq(l, i + 1, n)
             m == a \o <<x>> \o b
  <1>1. n \in Nat /\ i \in Nat /\ i <= n /\ DOMAIN l = 1..n
    OBVIOUS
  <1>2. a \in Seq(S) /\ Len(a) = i /\ \A j \in 1..i : a[j] = l[j]
    BY <1>1
  <1>3. b \in Seq(S) /\ Len(b) = n - i /\ \A j \in 1..(n - i) : b[j] = l[i + j]
    BY Zenon, RestOf
  <1> HIDE DEF a, b, n
  <1>4. /\ m \in Seq(S) /\ Len(m) = n + 1 /\ DOMAIN m = 1..(n + 1)
        /\ \A j \in 1..i : m[j] = a[j]
        /\ \A j \in 1..(n - i) : m[i + 1 + j] = b[j]
    <2> DEFINE c == a \o <<x>>
    <2>1. <<x>> \in Seq(S) /\ Len(<<x>>) = 1
      OBVIOUS
    <2>2. TogetherAre(S, a, <<x>>, i, 1, c)
      BY Zenon, <1>2, <2>1, Together
    <2>3. c \in Seq(S) /\ Len(c) = i + 1 /\ \A j \in 1..i : c[j] = a[j]
      BY <2>2, Zenon DEF TogetherAre
    <2> HIDE DEF c
    <2>4. TogetherAre(S, c, b, i + 1, n - i, c \o b)
      BY Zenon, <1>3, <2>3, Together
    <2>5. m = c \o b
      BY Zenon DEF c
    <2> HIDE DEF m
    <2>6. /\ m \in Seq(S) /\ Len(m) = (i + 1) + (n - i) /\ DOMAIN m = 1..((i + 1) + (n - i))
          /\ \A j \in 1..(i + 1) : m[j] = c[j]
          /\ \A j \in 1..(n - i) : m[i + 1 + j] = b[j]
      BY <2>4, <2>5, Zenon DEF TogetherAre
    <2>7. (i + 1) + (n - i) = n + 1 /\ \A j \in 1..i : j \in 1..(i + 1)
      BY <1>1
    <2> QED BY <2>3, <2>6, <2>7, Zenon
  <1> HIDE DEF m
  <1>5. ASSUME NEW j \in 1..n PROVE \E u \in 1..(n + 1) : m[u] = l[j]
    <2>1. CASE j <= i
      <3>1. j \in 1..i /\ j \in 1..(n + 1)
        BY <1>1, <2>1
      <3> QED BY Zenon, <1>2, <1>4, <3>1
    <2>2. CASE j > i
      <3>1. j - i \in 1..(n - i) /\ i + (j - i) = j /\ i + 1 + (j - i) = j + 1
            /\ j + 1 \in 1..(n + 1)
        BY <1>1, <2>2
      <3>2. m[i + 1 + (j - i)] = b[j - i] /\ b[j - i] = l[i + (j - i)]
        BY Zenon, <1>3, <1>4, <3>1
      <3> QED BY Zenon, <3>1, <3>2
    <2> QED BY <1>1, <2>1, <2>2
  <1>6. Members(l) \subseteq Members(m)
    <2>1. DOMAIN m = 1..(n + 1) /\ DOMAIN l = 1..n
      BY Zenon, <1>1, <1>4
    <2>2. ASSUME NEW j \in DOMAIN l PROVE l[j] \in Members(m)
      <3>1. PICK u \in DOMAIN m : m[u] = l[j]
        BY Zenon, <1>5, <2>1
      <3> QED BY Zenon, <3>1 DEF Members
    <2> QED BY Zenon, <2>2 DEF Members
  <1>7. m # <<>>
    BY <1>1, <1>4
  <1> QED BY Zenon, <1>4, <1>6, <1>7 DEF m, a, b, n

LEMMA Removed ==
    ASSUME NEW S, NEW l \in Seq(S), Len(l) > 1, NEW i \in 1..Len(l)
    PROVE  LET m == SubSeq(l, 1, i - 1) \o SubSeq(l, i + 1, Len(l))
           IN  m \in Seq(S) /\ m # <<>> /\ Members(m) \subseteq Members(l)
  <1> DEFINE n == Len(l)
             a == SubSeq(l, 1, i - 1)
             b == SubSeq(l, i + 1, n)
             m == a \o b
  <1>1. n \in Nat /\ n > 1 /\ i \in 1..n /\ DOMAIN l = 1..n
    OBVIOUS
  <1>2. a \in Seq(S) /\ Len(a) = i - 1 /\ \A j \in 1..(i - 1) : a[j] = l[j]
    BY <1>1
  <1>3. b \in Seq(S) /\ Len(b) = n - i /\ \A j \in 1..(n - i) : b[j] = l[i + j]
    BY RestOf
  <1> HIDE DEF a, b, n
  <1>4. /\ m \in Seq(S) /\ Len(m) = n - 1 /\ DOMAIN m = 1..(n - 1)
        /\ \A j \in 1..(i - 1) : m[j] = a[j]
        /\ \A j \in 1..(n - i) : m[i - 1 + j] = b[j]
    <2>1. TogetherAre(S, a, b, i - 1, n - i, m)
      BY Zenon, <1>2, <1>3, Together
    <2> HIDE DEF m
    <2>2. (i - 1) + (n - i) = n - 1
      BY <1>1
    <2> QED BY <2>1, <2>2, Zenon DEF TogetherAre
  <1> HIDE DEF m
  <1>5. ASSUME NEW u \in 1..(n - 1) PROVE \E j \in 1..n : m[u] = l[j]
    <2>1. CASE u <= i - 1
      <3>1. u \in 1..(i - 1) /\ u \in 1..n
        BY <1>1, <2>1
      <3> QED BY Zenon, <1>2, <1>4, <3>1
    <2>2. CASE u > i - 1
      <3>1. u - (i - 1) \in 1..(n - i) /\ i - 1 + (u - (i - 1)) = u
            /\ i + (u - (i - 1)) \in 1..n
        BY <1>1, <2>2
      <3>2. m[i - 1 + (u - (i - 1))] = b[u - (i - 1)]
            /\ b[u - (i - 1)] = l[i + (u - (i - 1))]
        BY Zenon, <1>3, <1>4, <3>1
      <3> QED BY Zenon, <3>1, <3>2
    <2> QED BY <1>1, <2>1, <2>2
  <1>6. Members(m) \subseteq Members(l)
    <2>1. DOMAIN m = 1..(n - 1) /\ DOMAIN l = 1..n
      BY Zenon, <1>1, <1>4
    <2>2. ASSUME NEW u \in DOMAIN m PROVE m[u] \in Members(l)
      <3>1. PICK j \in DOMAIN l : m[u] = l[j]
        BY Zenon, <1>5, <2>1
      <3> QED BY Zenon, <3>1 DEF Members
    <2> QED BY Zenon, <2>2 DEF Members
  <1>7. m # <<>>
    BY <1>1, <1>4
  <1> QED BY Zenon, <1>4, <1>6, <1>7 DEF m, a, b, n

(* A change keeps the hashes, builds the ring of the new members, and only *)
(* adds members or only removes them.                                      *)
LEMMA ChangeOf ==
    ASSUME RingInv, Change
    PROVE  /\ RingInv' /\ hash' = hash
           /\ \/ Members(listed) \subseteq Members(listed')
              \/ Members(listed') \subseteq Members(listed)
  <1>1. PICK n \in Node : Joins(n) \/ Leaves(n)
    BY Zenon DEF Change
  <1>2. hash' = hash /\ ring' = New(hash, listed')
    BY Zenon, <1>1 DEF Joins, Leaves
  <1>3. /\ listed' \in Seq(Node) /\ listed' # <<>>
        /\ \/ Members(listed) \subseteq Members(listed')
           \/ Members(listed') \subseteq Members(listed)
    <2>0. listed \in Seq(Node)
      BY Zenon DEF RingInv
    <2>1. CASE Joins(n)
      <3>1. PICK i \in 0..Len(listed) :
              listed' = SubSeq(listed, 1, i) \o <<n>> \o SubSeq(listed, i + 1, Len(listed))
        BY Zenon, <2>1 DEF Joins
      <3> QED BY Zenon, <2>0, <3>1, Inserted
    <2>2. CASE Leaves(n)
      <3>1. PICK i \in DOMAIN listed :
              listed' = SubSeq(listed, 1, i - 1) \o SubSeq(listed, i + 1, Len(listed))
        BY Zenon, <2>2 DEF Leaves
      <3>2. Len(listed) > 1 /\ i \in 1..Len(listed)
        BY <2>0, <2>2 DEF Leaves
      <3> QED BY Zenon, <2>0, <3>1, <3>2, Removed
    <2> QED BY Zenon, <1>1, <2>1, <2>2
  <1>4. hash \in Hashing
    BY Zenon DEF RingInv
  <1> QED BY Zenon, <1>2, <1>3, <1>4 DEF RingInv

LEMMA RingIsNew == RingSpec => []RingInv
  <1>1. RingInit => RingInv
    <2> SUFFICES ASSUME RingInit PROVE RingInv
      BY Zenon
    <2>1. PICK n \in Node : listed = <<n>>
      BY Zenon DEF RingInit
    <2>2. listed \in Seq(Node) /\ listed # <<>>
      BY <2>1
    <2> QED BY Zenon, <2>2 DEF RingInit, RingInv
  <1>2. RingInv /\ [Change]_ringVars => RingInv'
    <2>1. RingInv /\ Change => RingInv'
      BY Zenon, ChangeOf
    <2>2. RingInv /\ UNCHANGED ringVars => RingInv'
      BY Zenon DEF RingInv, ringVars
    <2> QED BY Zenon, <2>1, <2>2
  <1> QED BY <1>1, <1>2, PTL DEF RingSpec

(* OwnerIsNearest, for every number of nodes, of points and of hashes and  *)
(* every placement of them: the sorted array and its search give each key  *)
(* the owner the circle gives it, so processes that list the same members  *)
(* in different orders agree.                                              *)
THEOREM ArrayFindsTheOwner == RingSpec => []OwnerIsNearest
  <1>1. RingInv => OwnerIsNearest
    BY Zenon, OwnerByArray DEF RingInv, OwnerIsNearest
  <1> QED BY <1>1, RingIsNew, PTL

(* MovesOnlyWhatItMust: rebuilding the array when a member joins or leaves *)
(* moves a key only to the one that joined or from the one that left.      *)
THEOREM RebuildingMovesOnlyWhatItMust == RingSpec => MovesOnlyWhatItMust
  <1> DEFINE Moves == \A k \in Hashes :
                LET was == Owner(hash, ring, k)
                    is == Owner(hash, ring', k)
                IN  was # is => \/ is \notin Members(listed)
                                \/ was \notin Members(listed')
  <1>1. ASSUME RingInv, Change PROVE Moves
    <2> SUFFICES ASSUME NEW k \in Hashes,
                        Owner(hash, ring, k) # Owner(hash, ring', k),
                        Owner(hash, ring', k) \in Members(listed),
                        Owner(hash, ring, k) \in Members(listed')
                 PROVE  FALSE
      BY Zenon
    <2> DEFINE ms == Members(listed)
               next == Members(listed')
    <2>1. /\ RingInv' /\ hash' = hash
          /\ ms \subseteq next \/ next \subseteq ms
      BY Zenon, <1>1, ChangeOf
    <2>2. hash \in Hashing /\ listed \in Seq(Node) /\ listed # <<>> /\ ring = New(hash, listed)
      BY Zenon, <1>1 DEF RingInv
    <2>3. listed' \in Seq(Node) /\ listed' # <<>> /\ ring' = New(hash, listed')
      BY Zenon, <2>1 DEF RingInv
    <2>4. Owner(hash, ring, k) = Nearest(hash, ms, k) /\ ms \in SUBSET Node /\ ms # {}
      BY Zenon, <2>2, OwnerByArray
    <2>5. Owner(hash, ring', k) = Nearest(hash, next, k) /\ next \in SUBSET Node /\ next # {}
      BY Zenon, <2>2, <2>3, OwnerByArray
    <2> HIDE DEF ms, next
    <2>6. Nearest(hash, ms, k) \in next /\ Nearest(hash, next, k) \in ms
          /\ Nearest(hash, ms, k) # Nearest(hash, next, k)
      BY Zenon, <2>4, <2>5 DEF ms, next
    <2>7. CASE ms \subseteq next
      BY Zenon, <2>2, <2>5, <2>6, <2>7, OthersKeepTheirKeys
    <2>8. CASE next \subseteq ms
      BY Zenon, <2>2, <2>4, <2>6, <2>8, OthersKeepTheirKeys
    <2> QED BY Zenon, <2>1, <2>7, <2>8
  <1>2. RingInv /\ [Change]_ringVars => [Moves]_ringVars
    BY Zenon, <1>1
  <1> QED BY <1>2, RingIsNew, PTL DEF RingSpec, MovesOnlyWhatItMust

-----------------------------------------------------------------------------
(* The event hub and the process.                                          *)

SubState == [listed : BOOLEAN, chan : Seq(Handler), stop : {"no", "deleted", "closed"},
             loop : {"none", "reading", "leaving", "gone"}, cancelled : BOOLEAN]
PubState == [holds : BOOLEAN, todo : SUBSET Stream, audience : SUBSET Stream,
             told : SUBSET Stream]

HubType == sub \in [Stream -> SubState] /\ pub \in [Handler -> PubState]

(* What makes the two invariants inductive: the read lock is held while    *)
(* anyone is left to reach, whoever is left is listed, and what is listed  *)
(* has not been stopped.                                                   *)
HubInv ==
    /\ HubType
    /\ \A h \in Handler : pub[h].todo # {} => pub[h].holds
    /\ \A h \in Handler : \A s \in pub[h].todo : sub[s].listed
    /\ \A s \in Stream : sub[s].listed => sub[s].stop = "no"
    /\ \A s \in Stream : sub[s].loop = "none" => sub[s].stop = "no"
    /\ \A h \in Handler : pub[h].audience \subseteq pub[h].told \cup pub[h].todo

LEMMA NothingType == NoSub \in SubState /\ NoPub \in PubState
  BY DEF NoSub, NoPub, SubState, PubState

LEMMA HubStarts == HubInit => HubInv
  BY NothingType DEF HubInit, HubInv, HubType, NoSub, NoPub

-----------------------------------------------------------------------------
(* One lemma per operation of the hub.                                     *)
LEMMA PublishKeeps ==
    ASSUME NEW h \in Handler, HubInv, Publish(h)
    PROVE  HubInv'
  <1> DEFINE reach == {s \in Stream : sub[s].listed /\ Matches(s, h)}
             p == [NoPub EXCEPT !.holds = TRUE, !.todo = reach, !.audience = reach]
  <1>1. p \in PubState /\ p.holds /\ p.todo = reach /\ p.audience = reach /\ p.told = {}
    BY Zenon DEF NoPub, PubState
  <1> HIDE DEF p
  <1>2. pub' = [pub EXCEPT ![h] = p] /\ sub' = sub
    BY Zenon DEF Publish, p
  <1> QED BY Zenon, <1>1, <1>2 DEF HubInv, HubType

LEMMA PublishToKeeps ==
    ASSUME NEW h \in Handler, NEW s \in Stream, HubInv, PublishTo(h, s)
    PROVE  HubInv'
  <1>1. \A g \in Handler : /\ pub'[g] \in PubState /\ pub'[g].holds = pub[g].holds
                           /\ pub'[g].todo \subseteq pub[g].todo
                           /\ pub'[g].audience = pub[g].audience
                           /\ pub'[g].told \cup pub'[g].todo = pub[g].told \cup pub[g].todo
    BY ZenonT(40) DEF PublishTo, Told, HubInv, HubType, PubState
  <1>2. pub' \in [Handler -> PubState]
    BY Zenon, <1>1 DEF PublishTo, Told, HubInv, HubType
  <1>3. \A r \in Stream : /\ sub'[r] \in SubState /\ sub'[r].listed = sub[r].listed
                          /\ sub'[r].stop = sub[r].stop /\ sub'[r].loop = sub[r].loop
    <2> DEFINE x == [sub[s] EXCEPT !.chan = Append(@, h)]
    <2>1. sub[s] \in SubState /\ Append(sub[s].chan, h) \in Seq(Handler)
      BY DEF HubInv, HubType, SubState
    <2>2. /\ x \in SubState /\ x.listed = sub[s].listed
          /\ x.stop = sub[s].stop /\ x.loop = sub[s].loop
      BY Zenon, <2>1 DEF SubState
    <2>3. sub' = sub \/ sub' = [sub EXCEPT ![s] = x]
      BY Zenon DEF PublishTo, Send
    <2> HIDE DEF x
    <2> QED BY Zenon, <2>2, <2>3 DEF HubInv, HubType
  <1>4. sub' \in [Stream -> SubState]
    BY Zenon, <1>3 DEF PublishTo, Send, HubInv, HubType
  <1>5. /\ \A g \in Handler : pub'[g].todo # {} => pub'[g].holds
        /\ \A g \in Handler : pub'[g].audience \subseteq pub'[g].told \cup pub'[g].todo
    BY Zenon, <1>1 DEF HubInv
  <1>6. \A g \in Handler : \A r \in pub'[g].todo : sub'[r].listed
    <2> TAKE g \in Handler
    <2> TAKE r \in pub'[g].todo
    <2>1. r \in pub[g].todo /\ r \in Stream
      BY Zenon, <1>1 DEF HubInv, HubType, PubState
    <2> QED BY Zenon, <2>1, <1>3 DEF HubInv
  <1>7. /\ \A r \in Stream : sub'[r].listed => sub'[r].stop = "no"
        /\ \A r \in Stream : sub'[r].loop = "none" => sub'[r].stop = "no"
    BY Zenon, <1>3 DEF HubInv
  <1> QED BY Zenon, <1>2, <1>4, <1>5, <1>6, <1>7 DEF HubInv, HubType

LEMMA PublishEndKeeps ==
    ASSUME NEW h \in Handler, HubInv, PublishEnd(h)
    PROVE  HubInv'
  <1>1. NoPub.todo = {} /\ NoPub.audience = {}
    BY Zenon DEF NoPub
  <1> QED BY Zenon, NothingType, <1>1 DEF PublishEnd, HubInv, HubType

(* A step of a stream leaves the publishers alone.                         *)
LEMMA StreamKeeps ==
    ASSUME NEW s \in Stream, HubInv, UNCHANGED pub,
           NEW x \in SubState, sub' = [sub EXCEPT ![s] = x],
           x.listed => x.stop = "no", x.loop = "none" => x.stop = "no",
           Unlocked \/ (sub[s].listed => x.listed)
    PROVE  HubInv'
  <1>1. sub' \in [Stream -> SubState] /\ pub' \in [Handler -> PubState]
    BY Zenon DEF HubInv, HubType
  <1>2. \A h \in Handler : \A r \in pub[h].todo : sub'[r].listed
    BY Zenon DEF HubInv, HubType, Unlocked, PubState
  <1> QED BY Zenon, <1>1, <1>2 DEF HubInv, HubType

LEMMA SubscribeKeeps ==
    ASSUME NEW s \in Stream, HubInv, Subscribe(s)
    PROVE  HubInv'
  <1> DEFINE x == [sub[s] EXCEPT !.listed = TRUE, !.loop = "reading"]
  <1>1. sub[s] \in SubState
    BY Zenon DEF HubInv, HubType
  <1>2. x \in SubState /\ x.listed /\ x.loop = "reading" /\ x.stop = sub[s].stop
    BY Zenon, <1>1 DEF SubState
  <1>3. sub' = [sub EXCEPT ![s] = x]
    BY Zenon DEF Subscribe
  <1>4. sub[s].stop = "no"
    BY Zenon DEF Subscribe, HubInv
  <1> HIDE DEF x
  <1> QED BY Zenon, <1>2, <1>3, <1>4, StreamKeeps DEF Subscribe

LEMMA ReadingKeeps ==
    ASSUME NEW s \in Stream, HubInv, Receive(s) \/ Leave(s)
    PROVE  HubInv'
  <1> DEFINE take(next) == [sub[s] EXCEPT !.chan = Tail(@), !.loop = next]
             leave == [sub[s] EXCEPT !.loop = "leaving"]
             Same(x) == /\ x \in SubState /\ x.listed = sub[s].listed
                        /\ x.stop = sub[s].stop /\ x.loop \in {"reading", "leaving"}
  <1>1. sub[s] \in SubState /\ UNCHANGED pub /\ sub[s].loop = "reading"
    BY Zenon DEF HubInv, HubType, Receive, Leave
  <1>2. CASE Receive(s)
    <2>1. PICK next \in {"reading", "leaving"} : sub' = [sub EXCEPT ![s] = take(next)]
      BY Zenon, <1>2 DEF Receive
    <2>2. Tail(sub[s].chan) \in Seq(Handler)
      BY <1>1, <1>2 DEF Receive, SubState
    <2>3. Same(take(next))
      BY Zenon, <1>1, <2>2 DEF SubState
    <2> HIDE DEF take
    <2> QED BY Zenon, <1>1, <2>1, <2>3, StreamKeeps DEF HubInv
  <1>3. CASE Leave(s)
    <2>1. sub' = [sub EXCEPT ![s] = leave] /\ Same(leave)
      BY Zenon, <1>1, <1>3 DEF Leave, SubState
    <2> HIDE DEF leave
    <2> QED BY Zenon, <1>1, <2>1, StreamKeeps DEF HubInv
  <1> QED BY Zenon, <1>2, <1>3

LEMMA StoppingKeeps ==
    ASSUME NEW s \in Stream, HubInv, StopDelete(s) \/ StopClose(s)
    PROVE  HubInv'
  <1>1. CASE StopDelete(s)
    <2> DEFINE x == [sub[s] EXCEPT !.listed = FALSE, !.stop = "deleted"]
    <2>1. x \in SubState /\ ~x.listed /\ x.loop = sub[s].loop
      BY Zenon DEF HubInv, HubType, SubState
    <2>2. sub' = [sub EXCEPT ![s] = x] /\ UNCHANGED pub /\ Unlocked /\ x.loop # "none"
      BY Zenon, <1>1, <2>1 DEF StopDelete
    <2> HIDE DEF x
    <2> QED BY Zenon, <2>1, <2>2, StreamKeeps
  <1>2. CASE StopClose(s)
    <2> DEFINE x == [sub[s] EXCEPT !.stop = "closed"]
    <2>1. x \in SubState /\ x.listed = sub[s].listed /\ x.loop = sub[s].loop
      BY DEF HubInv, HubType, SubState
    <2>2. sub' = [sub EXCEPT ![s] = x] /\ UNCHANGED pub /\ sub[s].stop = "deleted"
      BY Zenon, <1>2 DEF StopClose
    <2>3. ~sub[s].listed /\ sub[s].loop # "none"
      BY Zenon, <2>2 DEF HubInv
    <2> HIDE DEF x
    <2> QED BY Zenon, <2>1, <2>2, <2>3, StreamKeeps
  <1> QED BY Zenon, <1>1, <1>2

(* The subscription was closed, so it is not listed.                       *)
LEMMA ReturnKeeps ==
    ASSUME NEW s \in Stream, HubInv, Return(s)
    PROVE  HubInv'
  <1> DEFINE x == [NoSub EXCEPT !.loop = "gone"]
  <1>0. ~NoSub.listed /\ NoSub.stop = "no"
    BY Zenon DEF NoSub
  <1>1. x \in SubState /\ ~x.listed /\ x.stop = "no"
    BY Zenon, <1>0, NothingType DEF SubState
  <1>2. sub' = [sub EXCEPT ![s] = x] /\ UNCHANGED pub
    BY Zenon DEF Return
  <1>3. ~sub[s].listed
    BY Zenon DEF Return, HubInv
  <1> HIDE DEF x
  <1> QED BY Zenon, <1>1, <1>2, <1>3, StreamKeeps

LEMMA CancelKeeps ==
    ASSUME NEW S, HubInv, Cancel(S)
    PROVE  HubInv'
  <1>1. \A r \in Stream : /\ sub'[r].listed = sub[r].listed
                          /\ sub'[r].stop = sub[r].stop /\ sub'[r].loop = sub[r].loop
                          /\ sub'[r] \in SubState
    <2> TAKE r \in Stream
    <2>1. sub'[r] = [sub[r] EXCEPT !.cancelled = @ \/ r \in S] /\ sub[r] \in SubState
      BY Zenon DEF Cancel, HubInv, HubType
    <2>2. (sub[r].cancelled \/ r \in S) \in BOOLEAN
      BY Zenon
    <2> QED BY Zenon, <2>1, <2>2 DEF SubState
  <1>2. sub' \in [Stream -> SubState]
    BY Zenon, <1>1 DEF Cancel
  <1>3. pub' = pub
    BY Zenon DEF Cancel
  <1>4. \A h \in Handler : \A r \in pub[h].todo : sub'[r].listed
    BY Zenon, <1>1 DEF HubInv, HubType, PubState
  <1>5. /\ \A r \in Stream : sub'[r].listed => sub'[r].stop = "no"
        /\ \A r \in Stream : sub'[r].loop = "none" => sub'[r].stop = "no"
    BY Zenon, <1>1 DEF HubInv
  <1> QED BY Zenon, <1>2, <1>3, <1>4, <1>5 DEF HubInv, HubType

-----------------------------------------------------------------------------
LEMMA HubStep == HubInv /\ [Next]_vars => HubInv'
  <1> SUFFICES ASSUME HubInv, [Next]_vars PROVE HubInv'
    BY Zenon
  <1>1. CASE sub' = sub /\ pub' = pub
    BY Zenon, <1>1 DEF HubInv, HubType
  <1>2. CASE HubInit'
    BY Zenon, <1>2, NothingType DEF HubInit, HubInv, HubType, NoSub, NoPub
  <1>3. CASE \E h \in Handler : Decided(h) \/ TellOne(h) \/ Answer(h)
    BY Zenon, <1>3, PublishKeeps, PublishToKeeps, PublishEndKeeps DEF Decided, TellOne, Answer
  <1>4. CASE \E s \in Stream : Open(s) \/ ClientLeaves(s) \/ Read(s) \/ StreamStep(s)
    BY Zenon, <1>4, SubscribeKeeps, CancelKeeps, ReadingKeeps, StoppingKeeps, ReturnKeeps
       DEF Open, ClientLeaves, Read, StreamStep
  <1>5. CASE StopGRPC
    BY Zenon, <1>5, CancelKeeps DEF StopGRPC
  <1>6. CASE Unwind
    <2>1. HubInit' \/ (sub' = sub /\ pub' = pub)
      BY Zenon, <1>6 DEF Unwind, Gone, HubInit
    <2> QED BY Zenon, <2>1, <1>1, <1>2
  <1>7. CASE MainStep /\ ~StopGRPC /\ ~Unwind
    <2>1. sub' = sub /\ pub' = pub
      BY <1>7 DEF MainStep, BuildPolicySource, BuildBackend, BuildRing, StartConsensus,
                  BuildStoreGuard, ServeGRPC, ServeHTTP, ListenAndServe, Select, DrainHTTP,
                  Build, Fail
    <2> QED BY Zenon, <2>1, <1>1
  <1>8. CASE Signal \/ \E h \in Handler, server \in {"http", "grpc"} : Arrive(h, server)
    <2>1. sub' = sub /\ pub' = pub
      BY Zenon, <1>8 DEF Signal, Arrive
    <2> QED BY Zenon, <2>1, <1>1
  <1>9. CASE UNCHANGED vars
    BY Zenon, <1>9, <1>1 DEF vars
  <1> QED BY Zenon, <1>3, <1>4, <1>5, <1>6, <1>7, <1>8, <1>9 DEF Next

(* No publisher ever meets a channel that a stop beside it has closed, in  *)
(* Publish and Subscribe of hub.go: it would be a panic of the process.    *)
THEOREM SendsNeverPanic == Spec => []NeverSendsOnClosed
  <1>1. Init => HubInv
    BY Zenon, HubStarts DEF Init
  <1>2. HubInv => NeverSendsOnClosed
    BY Zenon DEF HubInv, HubType, PubState, NeverSendsOnClosed
  <1> QED BY <1>1, <1>2, HubStep, PTL DEF Spec

(* Every subscriber a Publish found is sent the decision or has it counted *)
(* as dropped by the time Publish ends, whatever the others' channels.     *)
THEOREM DropsAreForOneAlone == Spec => []DroppedForItAlone
  <1>1. Init => HubInv
    BY Zenon, HubStarts DEF Init
  <1>2. HubInv => DroppedForItAlone
    BY Zenon DEF HubInv, DroppedForItAlone
  <1> QED BY <1>1, <1>2, HubStep, PTL DEF Spec

-----------------------------------------------------------------------------
(* The process around the hub.                                             *)

Working(h) == work[h] \in {"deciding", "telling"}
Ready == Needs(cfg) \subseteq built

(* What run has built by the time it comes to a step.                      *)
BuiltSoFar ==
    /\ pc \in {"backend", "ring", "consensus", "guard", "grpc"} => "policies" \in built
    /\ pc \in {"ring", "consensus", "guard", "grpc"} => "backend" \in built
    /\ pc \in {"consensus", "guard", "grpc"} /\ cfg.ring => "forwarder" \in built
    /\ pc \in {"guard", "grpc"} /\ cfg.raft => "consensus" \in built
    /\ pc = "grpc" /\ Guarded(cfg) => "guard" \in built
    /\ pc \in {"http", "select", "drain", "stopGRPC"} => Ready

(* The HTTP server takes requests only while run waits; the gRPC server is *)
(* the last call deferred for as long as it takes any, so that nothing is  *)
(* closed under it.                                                        *)
Calls == {"stop", "redis", "forwarder", "consensus", "grpc"}
ServersOpen ==
    /\ defers \in Seq(Calls)
    /\ "http" \in servers => pc = "select" /\ listen = "up"
    /\ "grpc" \in servers => Ready /\ pc \in {"http", "select", "drain", "unwind"}
    /\ "grpc" \in servers => defers # <<>> /\ defers[Len(defers)] = "grpc"
    /\ \A i \in DOMAIN defers : defers[i] = "grpc" => i = Len(defers) /\ "grpc" \in servers

(* Who is at work was called by a server that still takes requests or that *)
(* is being waited for, unless a grace period ran out.                     *)
WorkersKnown ==
    /\ work \in [Handler -> {"none", "deciding", "telling", "done"}]
    /\ via \in [Handler -> {"none", "http", "grpc"}]
    /\ \A h \in Handler : Working(h) => via[h] # "none"
    /\ ~forced => \A h \in Handler : Working(h) =>
         /\ via[h] = "http" => pc \in {"select", "drain"} /\ listen = "up"
         /\ via[h] = "grpc" => "grpc" \in servers \/ pc = "stopGRPC"

ProcessInv == BuiltSoFar /\ ServersOpen /\ WorkersKnown

LEMMA ProcessStarts == Init => ProcessInv
  <1> SUFFICES ASSUME Init PROVE ProcessInv
    BY Zenon
  <1>1. BuiltSoFar
    BY Zenon DEF Init, BuiltSoFar
  <1>2. ServersOpen
    <2>1. <<"stop">> \in Seq(Calls) /\ DOMAIN <<"stop">> = {1}
      BY DEF Calls
    <2> QED BY <2>1 DEF Init, ServersOpen
  <1>3. WorkersKnown
    BY Zenon DEF Init, WorkersKnown, Working
  <1> QED BY Zenon, <1>1, <1>2, <1>3 DEF ProcessInv

LEMMA ReadyFrom ==
    ASSUME {"policies", "backend"} \subseteq built, cfg.ring => "forwarder" \in built,
           cfg.raft => "consensus" \in built, Guarded(cfg) => "guard" \in built
    PROVE  Ready
  BY Zenon DEF Ready, Needs

(* While run starts up no server takes requests, and nobody is at work.    *)
Early == {"policy", "backend", "ring", "consensus", "guard", "grpc"}

NoServer == servers = {} /\ \A i \in DOMAIN defers : defers[i] # "grpc"

Deferred == {<<>>, <<"redis">>, <<"forwarder">>, <<"consensus">>}

LEMMA Appended ==
    ASSUME NEW d \in Seq(Calls), NEW e \in Deferred,
           \A i \in DOMAIN d : d[i] # "grpc"
    PROVE  d \o e \in Seq(Calls) /\ \A i \in DOMAIN (d \o e) : (d \o e)[i] # "grpc"
  <1>1. e \in Seq(Calls) /\ \A i \in DOMAIN e : e[i] # "grpc"
    <2>1. CASE e = <<>>
      BY <2>1
    <2>2. ASSUME NEW c \in Calls \ {"grpc"}, e = <<c>>
          PROVE  e \in Seq(Calls) /\ \A i \in DOMAIN e : e[i] # "grpc"
      BY <2>2 DEF Calls
    <2> QED BY Zenon, <2>1, <2>2 DEF Deferred, Calls
  <1>2. d \o e \in Seq(Calls)
    BY <1>1
  <1>3. ASSUME NEW i \in DOMAIN (d \o e) PROVE (d \o e)[i] # "grpc"
    BY <1>1
  <1> QED BY Zenon, <1>2, <1>3

LEMMA EarlyHas ==
    ASSUME ProcessInv, pc \in Early
    PROVE  /\ "http" \notin servers /\ "grpc" \notin servers
           /\ \A i \in DOMAIN defers : defers[i] # "grpc"
           /\ ~forced => \A h \in Handler : ~Working(h)
  <1>1. "http" \notin servers /\ "grpc" \notin servers
    BY Zenon DEF ProcessInv, ServersOpen, Early
  <1> QED BY Zenon, <1>1 DEF ProcessInv, ServersOpen, WorkersKnown, Early

(* A step of run during start-up, or its failure.                          *)
LEMMA EarlyKeeps ==
    ASSUME ProcessInv, pc \in Early, NEW e \in Deferred, defers' = defers \o e,
           UNCHANGED <<servers, listen, forced, via, work>>
    PROVE  ServersOpen' /\ WorkersKnown'
  <1>1. /\ "http" \notin servers /\ "grpc" \notin servers
        /\ \A i \in DOMAIN defers : defers[i] # "grpc"
        /\ ~forced => \A h \in Handler : ~Working(h)
    BY Zenon, EarlyHas
  <1>2. defers' \in Seq(Calls) /\ \A i \in DOMAIN defers' : defers'[i] # "grpc"
    BY Zenon, <1>1, Appended DEF ProcessInv, ServersOpen
  <1>3. ServersOpen'
    BY Zenon, <1>1, <1>2 DEF ServersOpen
  <1>4. WorkersKnown'
    BY Zenon, <1>1 DEF ProcessInv, WorkersKnown, Working
  <1> QED BY Zenon, <1>3, <1>4

LEMMA FailKeeps ==
    ASSUME ProcessInv, NEW step \in Early, NEW e \in Deferred, Fail(step, e)
    PROVE  ProcessInv'
  <1>1. ServersOpen' /\ WorkersKnown'
    BY Zenon, EarlyKeeps DEF Fail
  <1>2. BuiltSoFar'
    BY Zenon DEF Fail, BuiltSoFar
  <1> QED BY Zenon, <1>1, <1>2 DEF ProcessInv

LEMMA BuildKeeps ==
    ASSUME ProcessInv, NEW step \in Early, NEW next, NEW new, NEW e \in Deferred,
           Build(step, next, new, e), BuiltSoFar'
    PROVE  ProcessInv'
  <1>1. ServersOpen' /\ WorkersKnown'
    BY Zenon, EarlyKeeps DEF Build
  <1> QED BY Zenon, <1>1 DEF ProcessInv

LEMMA StartUpKeeps ==
    ASSUME ProcessInv, BuildPolicySource \/ BuildBackend \/ BuildRing \/ StartConsensus
                       \/ BuildStoreGuard
    PROVE  ProcessInv'
  <1>0. BuiltSoFar /\ Early = {"policy", "backend", "ring", "consensus", "guard", "grpc"}
        /\ Deferred = {<<>>, <<"redis">>, <<"forwarder">>, <<"consensus">>}
    BY Zenon DEF ProcessInv, Early, Deferred
  <1>1. CASE BuildPolicySource
    <2>1. CASE Fail("policy", <<>>)
      BY Zenon, <1>0, <2>1, FailKeeps
    <2>2. CASE Build("policy", "backend", {"policies"}, <<>>)
      <3>1. BuiltSoFar'
        BY Zenon, <2>2 DEF Build, BuiltSoFar
      <3> QED BY Zenon, <1>0, <2>2, <3>1, BuildKeeps
    <2> QED BY Zenon, <1>1, <2>1, <2>2 DEF BuildPolicySource
  <1>2. CASE BuildBackend
    <2>1. CASE Fail("backend", <<"redis">>)
      BY Zenon, <1>0, <2>1, FailKeeps
    <2>2. ASSUME NEW e \in Deferred, Build("backend", "ring", {"backend"}, e)
          PROVE  ProcessInv'
      <3>1. BuiltSoFar'
        BY Zenon, <1>0, <2>2 DEF Build, BuiltSoFar
      <3> QED BY Zenon, <1>0, <2>2, <3>1, BuildKeeps
    <2> QED BY Zenon, <1>0, <1>2, <2>1, <2>2 DEF BuildBackend
  <1>3. CASE BuildRing
    <2>1. CASE Fail("ring", <<>>)
      BY Zenon, <1>0, <2>1, FailKeeps
    <2>2. ASSUME NEW e \in Deferred, Build("ring", "consensus", Only(cfg.ring, {"forwarder"}), e)
          PROVE  ProcessInv'
      <3>1. BuiltSoFar'
        BY Zenon, <1>0, <2>2 DEF Build, BuiltSoFar, Only
      <3> QED BY Zenon, <1>0, <2>2, <3>1, BuildKeeps
    <2>3. OnlySeq(cfg.ring, <<"forwarder">>) \in Deferred
      BY Zenon, <1>0 DEF OnlySeq
    <2> QED BY Zenon, <1>3, <2>1, <2>2, <2>3 DEF BuildRing
  <1>4. CASE StartConsensus
    <2>1. CASE Fail("consensus", <<>>)
      BY Zenon, <1>0, <2>1, FailKeeps
    <2>2. ASSUME NEW e \in Deferred, Build("consensus", "guard", Only(cfg.raft, {"consensus"}), e)
          PROVE  ProcessInv'
      <3>1. BuiltSoFar'
        BY Zenon, <1>0, <2>2 DEF Build, BuiltSoFar, Only
      <3> QED BY Zenon, <1>0, <2>2, <3>1, BuildKeeps
    <2>3. OnlySeq(cfg.raft, <<"consensus">>) \in Deferred
      BY Zenon, <1>0 DEF OnlySeq
    <2> QED BY Zenon, <1>4, <2>1, <2>2, <2>3 DEF StartConsensus
  <1>5. CASE BuildStoreGuard
    <2>1. BuiltSoFar'
      BY Zenon, <1>0, <1>5 DEF BuildStoreGuard, Build, BuiltSoFar, Only, Guarded
    <2> QED BY Zenon, <1>0, <1>5, <2>1, BuildKeeps DEF BuildStoreGuard
  <1> QED BY Zenon, <1>1, <1>2, <1>3, <1>4, <1>5

(* The gRPC server is deferred last, over all of what it needs.            *)
LEMMA ServeGRPCKeeps ==
    ASSUME ProcessInv, ServeGRPC
    PROVE  ProcessInv'
  <1>0. "grpc" \in Early /\ <<>> \in Deferred
    BY Zenon DEF Early, Deferred
  <1>1. CASE Fail("grpc", <<>>)
    BY Zenon, <1>0, <1>1, FailKeeps
  <1>2. pc = "grpc" => Ready
    BY Zenon, ReadyFrom DEF ProcessInv, BuiltSoFar
  <1>3. CASE Build("grpc", "http", {}, <<>>)
    <2>1. BuiltSoFar'
      BY Zenon, <1>2, <1>3 DEF Build, BuiltSoFar, Ready
    <2> QED BY Zenon, <1>0, <1>3, <2>1, BuildKeeps
  <1>4. CASE /\ pc = "grpc" /\ pc' = "http" /\ servers' = servers \cup {"grpc"}
             /\ defers' = Append(defers, "grpc")
             /\ UNCHANGED <<cfg, built, done, listen, forced, via, work, sub, pub>>
    <2>1. /\ "http" \notin servers /\ "grpc" \notin servers
          /\ \A i \in DOMAIN defers : defers[i] # "grpc"
          /\ ~forced => \A h \in Handler : ~Working(h)
      BY Zenon, <1>0, <1>4, EarlyHas
    <2>2. BuiltSoFar'
      BY Zenon, <1>2, <1>4 DEF BuiltSoFar, Ready
    <2>3. /\ defers' \in Seq(Calls) /\ Len(defers') = Len(defers) + 1
          /\ \A i \in DOMAIN defers' : defers'[i] = "grpc" <=> i = Len(defers')
      <3>1. defers \in Seq(Calls) /\ "grpc" \in Calls
        BY Zenon DEF ProcessInv, ServersOpen, Calls
      <3> QED BY <1>4, <2>1, <3>1
    <2>4. ServersOpen'
      BY <1>2, <1>4, <2>1, <2>3 DEF ServersOpen, Ready
    <2>5. WorkersKnown'
      BY Zenon, <1>4, <2>1 DEF ProcessInv, WorkersKnown, Working
    <2> QED BY Zenon, <2>2, <2>4, <2>5 DEF ProcessInv
  <1> QED BY Zenon, <1>1, <1>3, <1>4 DEF ServeGRPC

LEMMA ServeHTTPKeeps ==
    ASSUME ProcessInv, ServeHTTP \/ ListenAndServe
    PROVE  ProcessInv'
  <1>1. BuiltSoFar'
    BY Zenon DEF ProcessInv, BuiltSoFar, ServeHTTP, ListenAndServe, Ready
  <1>2. ServersOpen'
    BY Zenon DEF ProcessInv, ServersOpen, ServeHTTP, ListenAndServe, Ready
  <1>3. WorkersKnown'
    BY Zenon DEF ProcessInv, WorkersKnown, ServeHTTP, ListenAndServe, Working
  <1> QED BY Zenon, <1>1, <1>2, <1>3 DEF ProcessInv

(* Nobody was called by an HTTP server that did not get its port, and a    *)
(* drained one has nobody at work unless its grace period ran out.         *)
LEMMA ShutKeeps ==
    ASSUME ProcessInv, Select \/ DrainHTTP
    PROVE  ProcessInv'
  <1>1. BuiltSoFar'
    BY Zenon DEF ProcessInv, BuiltSoFar, Select, DrainHTTP, Ready
  <1>2. ServersOpen'
    BY Zenon DEF ProcessInv, ServersOpen, Select, DrainHTTP, Ready
  <1>3. WorkersKnown'
    BY Zenon DEF ProcessInv, WorkersKnown, Select, DrainHTTP, Working, Busy
  <1> QED BY Zenon, <1>1, <1>2, <1>3 DEF ProcessInv

LEMMA StopGRPCKeeps ==
    ASSUME ProcessInv, StopGRPC
    PROVE  ProcessInv'
  <1>1. BuiltSoFar'
    BY Zenon DEF ProcessInv, BuiltSoFar, StopGRPC, Ready
  <1>2. ServersOpen'
    BY Zenon DEF ProcessInv, ServersOpen, StopGRPC, Ready
  <1>3. WorkersKnown'
    BY Zenon DEF ProcessInv, WorkersKnown, StopGRPC, Working, Busy
  <1> QED BY Zenon, <1>1, <1>2, <1>3 DEF ProcessInv

LEMMA FrontOf ==
    ASSUME NEW d \in Seq(Calls), d # <<>>, NEW f, f = SubSeq(d, 1, Len(d) - 1)
    PROVE  /\ f \in Seq(Calls) /\ Len(f) = Len(d) - 1
           /\ \A i \in DOMAIN f : i \in DOMAIN d /\ i # Len(d) /\ f[i] = d[i]
  <1> DEFINE n == Len(d) - 1
  <1>1. Len(d) \in Nat \ {0}
    OBVIOUS
  <1>2. n \in Int /\ DOMAIN d = 1..Len(d) /\ \A i \in 1..n : d[i] \in Calls
    BY <1>1
  <1>3. f = SubSeq(d, 1, n)
    BY Zenon
  <1> HIDE DEF n
  <1>4. /\ f \in Seq(Calls) /\ Len(f) = IF 1 <= n THEN n - 1 + 1 ELSE 0
        /\ \A i \in 1..(n - 1 + 1) : f[i] = d[1 + i - 1]
    BY <1>2, <1>3
  <1>5. Len(f) = n /\ DOMAIN f = 1..n
    BY <1>1, <1>2, <1>4 DEF n
  <1>6. \A i \in 1..n : f[i] = d[i]
    BY <1>2, <1>4
  <1>7. \A i \in DOMAIN f : i \in DOMAIN d /\ i # Len(d) /\ f[i] = d[i]
    BY <1>1, <1>2, <1>5, <1>6 DEF n
  <1> QED BY Zenon, <1>4, <1>5, <1>7 DEF n

(* The deferred calls: the gRPC server goes before anything it needs, and  *)
(* by then the HTTP server is drained.                                     *)
LEMMA UnwindKeeps ==
    ASSUME ProcessInv, Unwind
    PROVE  ProcessInv'
  <1>0. BuiltSoFar'
    <2>1. pc' = "stopGRPC" => Ready'
      <3> SUFFICES ASSUME pc' = "stopGRPC" PROVE Ready'
        BY Zenon
      <3>1. defers # <<>> /\ defers[Len(defers)] = "grpc" /\ built' = built \ {"grpc"}
        BY Zenon DEF Unwind, NextDefer
      <3>2. "grpc" \in servers
        BY <3>1, FrontOf DEF ProcessInv, ServersOpen
      <3>3. Ready /\ "grpc" \notin Needs(cfg)
        BY Zenon, <3>2 DEF ProcessInv, ServersOpen, Needs
      <3> QED BY Zenon, <3>1, <3>3 DEF Ready, Unwind
    <2>2. pc' \in {"exited", "stopGRPC", "unwind"}
      BY Zenon DEF Unwind
    <2> QED BY Zenon, <2>1, <2>2 DEF BuiltSoFar
  <1>1. CASE defers = <<>>
    <2>1. "http" \notin servers /\ "grpc" \notin servers
      BY Zenon, <1>1 DEF ProcessInv, ServersOpen, Unwind
    <2>2. ServersOpen'
      BY Zenon, <1>1, <2>1 DEF ProcessInv, ServersOpen, Unwind
    <2>3. WorkersKnown'
      BY Zenon, <1>1 DEF WorkersKnown, Unwind, Gone, Working
    <2> QED BY Zenon, <1>0, <2>2, <2>3 DEF ProcessInv
  <1>2. CASE defers # <<>>
    <2>1. /\ defers' = SubSeq(defers, 1, Len(defers) - 1) /\ servers' = servers \ {defers[Len(defers)]}
          /\ pc = "unwind" /\ pc' = IF defers[Len(defers)] = "grpc" THEN "stopGRPC" ELSE pc
          /\ UNCHANGED <<cfg, listen, forced, via, work>>
      BY Zenon, <1>2 DEF Unwind, NextDefer
    <2>2. /\ defers' \in Seq(Calls)
          /\ \A i \in DOMAIN defers' : i \in DOMAIN defers /\ i # Len(defers) /\ defers'[i] = defers[i]
      BY <1>2, <2>1, FrontOf DEF ProcessInv, ServersOpen
    <2>3. "http" \notin servers' /\ "grpc" \notin servers'
      BY Zenon, <1>2, <2>1, <2>2 DEF ProcessInv, ServersOpen
    <2>4. ServersOpen'
      BY Zenon, <2>2, <2>3 DEF ProcessInv, ServersOpen
    <2>5. "grpc" \in servers => pc' = "stopGRPC"
      BY Zenon, <2>1, <2>2 DEF ProcessInv, ServersOpen
    <2>6. WorkersKnown'
      BY Zenon, <2>1, <2>5 DEF ProcessInv, WorkersKnown, Working
    <2> QED BY Zenon, <1>0, <2>4, <2>6 DEF ProcessInv
  <1> QED BY Zenon, <1>1, <1>2

(* A handler's or a stream's step, or a signal.                            *)
LEMMA RequestKeeps ==
    ASSUME ProcessInv, NEW h \in Handler,
           \/ \E server \in {"http", "grpc"} : Arrive(h, server)
           \/ Decided(h) \/ Answer(h)
    PROVE  ProcessInv'
  <1>1. UNCHANGED main
    BY Zenon DEF Arrive, Decided, Answer
  <1>2. BuiltSoFar' /\ ServersOpen'
    BY Zenon, <1>1 DEF main, ProcessInv, BuiltSoFar, ServersOpen, Ready
  <1>3. WorkersKnown'
    <2>1. CASE \E server \in {"http", "grpc"} : Arrive(h, server)
      BY <1>1, <2>1 DEF main, ProcessInv, WorkersKnown, ServersOpen, Working, Arrive
    <2>2. CASE Decided(h)
      BY <1>1, <2>2 DEF main, ProcessInv, WorkersKnown, Working, Decided
    <2>3. CASE Answer(h)
      BY <1>1, <2>3 DEF main, ProcessInv, WorkersKnown, Working, Answer
    <2> QED BY Zenon, <2>1, <2>2, <2>3
  <1> QED BY Zenon, <1>2, <1>3 DEF ProcessInv

LEMMA IdleKeeps ==
    ASSUME ProcessInv, UNCHANGED <<cfg, pc, defers, built, servers, listen, forced, via, work>>
    PROVE  ProcessInv'
  BY Zenon DEF ProcessInv, BuiltSoFar, ServersOpen, WorkersKnown, Ready, Working

LEMMA ProcessStep == ProcessInv /\ [Next]_vars => ProcessInv'
  <1> SUFFICES ASSUME ProcessInv, [Next]_vars PROVE ProcessInv'
    BY Zenon
  <1>1. CASE MainStep
    BY Zenon, <1>1, StartUpKeeps, ServeGRPCKeeps, ServeHTTPKeeps, ShutKeeps, UnwindKeeps, StopGRPCKeeps
       DEF MainStep
  <1>2. CASE Signal \/ UNCHANGED vars
    BY Zenon, <1>2, IdleKeeps DEF Signal, vars, main
  <1>3. CASE \E h \in Handler, server \in {"http", "grpc"} : Arrive(h, server)
    BY Zenon, <1>3, RequestKeeps
  <1>4. CASE \E h \in Handler : Decided(h) \/ TellOne(h) \/ Answer(h)
    BY Zenon, <1>4, RequestKeeps, IdleKeeps DEF TellOne, main
  <1>5. CASE \E s \in Stream : Open(s) \/ ClientLeaves(s) \/ Read(s) \/ StreamStep(s)
    BY Zenon, <1>5, IdleKeeps DEF Open, ClientLeaves, Read, StreamStep, main
  <1> QED BY Zenon, <1>1, <1>2, <1>3, <1>4, <1>5 DEF Next

(* The order of run in main.go and of its deferred calls: from the first   *)
(* request to the last, a handler that decides has every store, the ring,  *)
(* the log and the guard it was given, whatever step of start-up failed    *)
(* and whenever the signal came, unless a grace period ran out over it.    *)
THEOREM StoresOutliveTheServers == Spec => []DecidesOverOpenStores
  <1>1. ProcessInv => DecidesOverOpenStores
    BY Zenon DEF ProcessInv, BuiltSoFar, ServersOpen, WorkersKnown, Working, Ready,
           DecidesOverOpenStores
  <1> QED BY <1>1, ProcessStarts, ProcessStep, PTL DEF Spec
=============================================================================

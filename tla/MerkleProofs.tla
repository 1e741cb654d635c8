---------------------------- MODULE MerkleProofs ----------------------------
(***************************************************************************)
(* The proofs of module Merkle are sound and complete, for trees of every  *)
(* size.                                                                   *)
(***************************************************************************)
EXTENDS Merkle, NaturalsInduction, WellFoundedInduction, SequenceTheorems, TLAPS

\* Every set of naturals has a least element.  Induction over naturals is done
\* with this fact, on the set of the counterexamples.
LEMMA LeastNatural ==
  ASSUME NEW T, T \subseteq Nat, T # {}
  PROVE  \E x \in T : \A y \in T : x <= y
<1> DEFINE R == {ss \in Nat \X Nat : ss[1] < ss[2]}
<1>1. IsWellFoundedOn(R, Nat)
  BY NatLessThanWellFounded, Zenon DEF OpToRel
<1>2. \A x, y \in Nat : x < y => <<x, y>> \in R
  OBVIOUS
<1> HIDE DEF R
<1>3. PICK x \in T : \A y \in T : ~(<<y, x>> \in R)
  BY <1>1, WFMin
<1>4. ASSUME NEW y \in T, y < x PROVE FALSE
  <2>1. x \in Nat /\ y \in Nat
    OBVIOUS
  <2>2. <<y, x>> \in R
    BY <1>2, <1>4, <2>1
  <2> QED BY <1>3, <2>2
<1>5. \A y \in T : x <= y
  BY <1>4
<1> QED BY <1>5

-----------------------------------------------------------------------------
(***************************************************************************)
(* Recursive functions.  The functions of module Merkle differ in how they *)
(* put a value together from those at smaller arguments; all of their ways *)
(* are in Combine, so one theorem has the existence of each.               *)
(***************************************************************************)

Combine(kind, val, a, b) ==
  CASE kind = "tree"   -> NodeHash(a, b)
    [] kind = "left"   -> NodeHash(a, val)
    [] kind = "right"  -> NodeHash(val, a)
    [] kind = "new"    -> <<a[1], NodeHash(a[2], val)>>
    [] kind = "both"   -> <<NodeHash(val, a[1]), NodeHash(val, a[2])>>
    [] kind = "append" -> Append(a, val)
    [] kind = "twice"  -> 2 * a

\* f[x] is val[x], or is put together from f[lc[x]] and f[rc[x]].
IsRecursive(f, D, kind, val, lc, rc) ==
  f = [x \in D |-> IF kind[x] = "base" THEN val[x]
                   ELSE Combine(kind[x], val[x], f[lc[x]], f[rc[x]])]

\* A function that is defined by recursion along a rank exists.
LEMMA Recursion ==
  ASSUME NEW D, NEW rank \in [D -> Nat], NEW kind, NEW val,
         NEW lc \in [D -> D], NEW rc \in [D -> D],
         \A x \in D : kind[x] # "base" => rank[lc[x]] < rank[x] /\ rank[rc[x]] < rank[x]
  PROVE  \E f : IsRecursive(f, D, kind, val, lc, rc)
<1> DEFINE
      Body(f, x) == IF kind[x] = "base" THEN val[x]
                    ELSE Combine(kind[x], val[x], f[lc[x]], f[rc[x]])
      Below(n) == {x \in D : rank[x] < n}
      Approx(f, n) == f = [x \in Below(n) |-> Body(f, x)]
<1>1. \A f, g : \A x \in D :
        (kind[x] # "base" => f[lc[x]] = g[lc[x]] /\ f[rc[x]] = g[rc[x]]) => Body(f, x) = Body(g, x)
  OBVIOUS
<1>2. \A x \in D : lc[x] \in D /\ rc[x] \in D /\ rank[x] \in Nat
  OBVIOUS
<1> HIDE DEF Body
<1>3. ASSUME NEW m \in Nat, NEW n \in Nat, NEW f, NEW g, Approx(f, m), Approx(g, n)
      PROVE  \A x \in D : rank[x] < m /\ rank[x] < n => f[x] = g[x]
  <2> DEFINE Bad == {r \in Nat : \E x \in D : rank[x] = r /\ r < m /\ r < n /\ f[x] # g[x]}
  <2>1. SUFFICES ASSUME Bad # {} PROVE FALSE
    BY <1>2
  <2>2. PICK r \in Bad : \A s \in Bad : r <= s
    BY <2>1, LeastNatural
  <2>3. PICK x \in D : rank[x] = r /\ r < m /\ r < n /\ f[x] # g[x]
    OBVIOUS
  <2>4. f[x] = Body(f, x) /\ g[x] = Body(g, x)
    BY <1>3, <2>3
  <2>5. \A y \in D : rank[y] < r => f[y] = g[y]
    BY <2>2, <2>3, <1>2
  <2> QED BY <1>1, <1>2, <2>3, <2>4, <2>5
<1>4. \A n \in Nat : \E f : Approx(f, n)
  <2> DEFINE Bad == {n \in Nat : ~ \E f : Approx(f, n)}
  <2>1. SUFFICES ASSUME Bad # {} PROVE FALSE
    OBVIOUS
  <2>2. PICK n \in Bad : \A m \in Bad : n <= m
    BY <2>1, LeastNatural
  <2>3. n # 0
    <3>1. Approx([x \in Below(0) |-> 0], 0)
      BY <1>2
    <3> HIDE DEF Approx
    <3>2. 0 \notin Bad
      BY <3>1
    <3> QED BY <3>2
  <2>4. PICK f : Approx(f, n - 1)
    <3> HIDE DEF Approx
    <3>1. n - 1 \in Nat /\ n - 1 \notin Bad
      BY <2>2, <2>3
    <3> QED BY <3>1
  <2> DEFINE g == [x \in Below(n) |-> Body(f, x)]
  <2>5. \A x \in D : rank[x] < n - 1 => f[x] = Body(f, x) /\ g[x] = Body(f, x)
    BY <2>4, <1>2, <2>3
  <2>6. \A x \in Below(n) : Body(f, x) = Body(g, x)
    <3> HIDE DEF g
    <3> QED BY <1>1, <1>2, <2>3, <2>5
  <2>7. Approx(g, n)
    BY <2>6
  <2> QED BY <2>2, <2>7
<1> DEFINE App(n) == CHOOSE f : Approx(f, n)
           h == [x \in D |-> App(rank[x] + 1)[x]]
<1>5. \A n \in Nat : Approx(App(n), n)
  BY <1>4
<1> HIDE DEF App
<1>6. ASSUME NEW x \in D PROVE h[x] = Body(h, x)
  <2>1. h[x] = Body(App(rank[x] + 1), x)
    <3>1. rank[x] + 1 \in Nat /\ x \in Below(rank[x] + 1)
      BY <1>2
    <3>2. Approx(App(rank[x] + 1), rank[x] + 1)
      BY <3>1, <1>5
    <3> HIDE DEF Below
    <3>3. App(rank[x] + 1)[x] = Body(App(rank[x] + 1), x)
      BY <3>1, <3>2
    <3> QED BY <3>3
  <2>2. ASSUME NEW y \in D, rank[y] < rank[x] PROVE App(rank[x] + 1)[y] = h[y]
    <3>1. rank[x] + 1 \in Nat /\ rank[y] + 1 \in Nat /\ rank[y] < rank[x] + 1 /\ rank[y] < rank[y] + 1
      BY <1>2, <2>2
    <3>2. Approx(App(rank[x] + 1), rank[x] + 1) /\ Approx(App(rank[y] + 1), rank[y] + 1)
      BY <3>1, <1>5
    <3> HIDE DEF Approx
    <3>3. App(rank[x] + 1)[y] = App(rank[y] + 1)[y]
      BY <1>3, <3>1, <3>2
    <3> QED BY <3>3
  <2> HIDE DEF h
  <2> QED BY <1>1, <1>2, <2>1, <2>2
<1>7. h = [x \in D |-> Body(h, x)]
  BY <1>6
<1> QED BY <1>7 DEF Body, IsRecursive

-----------------------------------------------------------------------------
\* Splitting.

\* There is a power of two to split a tree of more than one leaf at.
LEMMA SplitExists ==
  ASSUME NEW n \in Nat, n > 1
  PROVE  \E k \in 1..(n - 1) : n <= 2 * k /\ IsPowerOfTwo(k)
<1> DEFINE Good(m) == \E k \in 1..(m - 1) : m <= 2 * k /\ IsPowerOfTwo(k)
           Bad == {m \in Nat : m > 1 /\ ~Good(m)}
<1>1. SUFFICES ASSUME Bad # {} PROVE FALSE
  BY DEF Good
<1>2. PICK m \in Bad : \A b \in Bad : m <= b
  BY <1>1, LeastNatural
<1>3. m # 2
  <2>1. IsPowerOfTwo(1)
    BY DEF IsPowerOfTwo
  <2> QED BY <1>2, <2>1
<1>4. PICK k \in 1..(m - 2) : m - 1 <= 2 * k /\ IsPowerOfTwo(k)
  <2>1. m - 1 \in Nat /\ m - 1 > 1 /\ m - 1 \notin Bad
    BY <1>2, <1>3
  <2> QED BY <2>1
<1>5. m > 2 * k
  BY <1>2, <1>4
<1>6. IsPowerOfTwo(2 * k)
  <2>1. SUFFICES ASSUME NEW d \in 2..(2 * k), (2 * k) % d = 0, d % 2 = 1 PROVE FALSE
    BY DEF IsPowerOfTwo
  <2>2. PICK q \in Nat : 2 * k = d * q
    BY <2>1
  <2>3. PICK a \in Nat : d = 2 * a + 1
    BY <2>1
  <2>4. PICK c \in Nat : q = 2 * c
    <3>1. PICK p \in Nat : p = a * q
      OBVIOUS
    <3>2. 2 * k = 2 * p + q
      BY <2>2, <2>3, <3>1
    <3> HIDE <2>2
    <3>3. q = 2 * (k - p) /\ k - p \in Nat
      BY <3>2
    <3> QED BY <3>3
  <2>5. k = d * c
    BY <2>2, <2>4
  <2>6. d <= k /\ k % d = 0
    BY <2>5
  <2>7. d \in 2..k
    BY <2>6
  <2>8. d % 2 = 0
    <3> HIDE <2>1
    <3> QED BY <2>6, <2>7, <1>4 DEF IsPowerOfTwo
  <2> QED BY <2>1, <2>8
<1> QED BY <1>2, <1>4, <1>5, <1>6

LEMMA SplitRange ==
  ASSUME NEW n \in Nat, n > 1
  PROVE  Split(n) \in 1..(n - 1) /\ n <= 2 * Split(n) /\ IsPowerOfTwo(Split(n))
BY SplitExists DEF Split

\* A power of two other than 1 is twice a power of two.
LEMMA PowerHalves ==
  ASSUME NEW c \in Positive, c # 1, IsPowerOfTwo(c)
  PROVE  \E h \in Positive : c = 2 * h /\ h < c /\ IsPowerOfTwo(h)
<1>1. c \in 2..c /\ c % c = 0
  BY DEF Positive
<1>2. c % 2 = 0
  BY <1>1 DEF IsPowerOfTwo
<1>3. PICK h \in Positive : c = 2 * h
  BY <1>2 DEF Positive
<1>4. ASSUME NEW d \in 2..h, h % d = 0 PROVE d % 2 = 0
  <2>1. PICK q \in Nat : h = d * q
    BY <1>4 DEF Positive
  <2>2. c = d * (2 * q)
    BY <2>1, <1>3
  <2>3. c % d = 0
    <3>1. d \in Nat /\ d > 0 /\ 2 * q \in Nat
      OBVIOUS
    <3>2. \A e, r \in Nat : e > 0 => (e * r) % e = 0
      OBVIOUS
    <3> QED BY <2>2, <3>1, <3>2
  <2>4. d \in 2..c
    BY <1>3 DEF Positive
  <2> QED BY <2>3, <2>4 DEF IsPowerOfTwo
<1>5. IsPowerOfTwo(h)
  BY <1>4 DEF IsPowerOfTwo
<1>6. h < c
  BY <1>3 DEF Positive
<1> QED BY <1>3, <1>5, <1>6

\* Powers of two are at least a factor of two apart.
LEMMA PowersApart ==
  ASSUME NEW k \in Positive, NEW j \in Positive, IsPowerOfTwo(k), IsPowerOfTwo(j),
         k < 2 * j, j < 2 * k
  PROVE  j = k
<1> DEFINE Near(a, b) == IsPowerOfTwo(a) /\ IsPowerOfTwo(b) /\ a < 2 * b /\ b < 2 * a
           Bad == {a \in Positive : \E b \in Positive : Near(a, b) /\ a # b}
<1>1. SUFFICES ASSUME Bad # {} PROVE FALSE
  OBVIOUS
<1>2. PICK a \in Bad : \A c \in Bad : a <= c
  BY <1>1, LeastNatural DEF Positive
<1>3. PICK b \in Positive : Near(a, b) /\ a # b
  OBVIOUS
<1>4. \A c \in Positive : c # 1 /\ IsPowerOfTwo(c) =>
        \E h \in Positive : c = 2 * h /\ h < c /\ IsPowerOfTwo(h)
  BY PowerHalves
<1>5. a # 1 /\ b # 1
  BY <1>3 DEF Positive
<1>6. PICK g \in Positive : a = 2 * g /\ g < a /\ IsPowerOfTwo(g)
  BY <1>3, <1>4, <1>5
<1>7. PICK h \in Positive : b = 2 * h /\ h < b /\ IsPowerOfTwo(h)
  BY <1>3, <1>4, <1>5
<1>8. Near(g, h) /\ g # h
  BY <1>3, <1>6, <1>7 DEF Positive
<1> QED BY <1>2, <1>6, <1>8 DEF Positive

\* Two trees split at the same place if the smaller one reaches beyond it.
LEMMA SplitAgrees ==
  ASSUME NEW m \in Nat, NEW n \in Nat, 1 < m, m <= n, Split(n) < m
  PROVE  Split(m) = Split(n)
<1>1. Split(m) \in 1..(m - 1) /\ m <= 2 * Split(m) /\ IsPowerOfTwo(Split(m))
  BY SplitRange
<1>2. Split(n) \in 1..(n - 1) /\ n <= 2 * Split(n) /\ IsPowerOfTwo(Split(n))
  BY SplitRange
<1> QED BY <1>1, <1>2, PowersApart DEF Positive

\* The defining equation of TwoTo.
LEMMA TwoToUnfold ==
  ASSUME NEW h \in Nat
  PROVE  TwoTo[h] \in Positive /\ TwoTo[0] = 1 /\ (h # 0 => TwoTo[h] = 2 * TwoTo[h - 1])
<1> DEFINE Is(f) == f = [x \in Nat |-> IF x = 0 THEN 1 ELSE 2 * f[x - 1]]
           rank == [x \in Nat |-> x]
           kind == [x \in Nat |-> IF x = 0 THEN "base" ELSE "twice"]
           val == [x \in Nat |-> 1]
           lc == [x \in Nat |-> IF x = 0 THEN 0 ELSE x - 1]
<1>1. rank \in [Nat -> Nat] /\ lc \in [Nat -> Nat]
  OBVIOUS
<1>2. \A x \in Nat : kind[x] # "base" => rank[lc[x]] < rank[x]
  OBVIOUS
<1> HIDE DEF rank, kind, val, lc
<1>3. PICK f : IsRecursive(f, Nat, kind, val, lc, lc)
  BY <1>1, <1>2, Recursion
<1>4. Is(f)
  BY <1>3 DEF IsRecursive, kind, val, lc, Combine
<1>5. TwoTo = CHOOSE g : Is(g)
  BY DEF TwoTo
<1>6. Is(TwoTo)
  <2> HIDE DEF Is
  <2> QED BY <1>4, <1>5
<1>7. TwoTo[0] = 1 /\ \A x \in Nat : x # 0 => TwoTo[x] = 2 * TwoTo[x - 1]
  BY <1>6
<1> DEFINE Bad == {x \in Nat : TwoTo[x] \notin Positive}
<1>8. Bad = {}
  <2>1. SUFFICES ASSUME Bad # {} PROVE FALSE
    OBVIOUS
  <2>2. PICK x \in Bad : \A y \in Bad : x <= y
    BY <2>1, LeastNatural
  <2>3. x # 0
    BY <1>7 DEF Positive
  <2>4. x - 1 \in Nat /\ TwoTo[x - 1] \in Positive
    BY <2>2, <2>3
  <2> QED BY <1>7, <2>3, <2>4 DEF Positive
<1> QED BY <1>7, <1>8

\* A power of two below 2^h is at most half of it.
LEMMA PowerBelow ==
  ASSUME NEW k0 \in Positive, IsPowerOfTwo(k0), NEW h0 \in Nat, k0 < TwoTo[h0]
  PROVE  h0 # 0 /\ 2 * k0 <= TwoTo[h0]
<1> DEFINE Claim(k, h) == h # 0 /\ 2 * k <= TwoTo[h]
           In(k, h) == IsPowerOfTwo(k) /\ k < TwoTo[h]
           Bad == {h \in Nat : \E k \in Positive : In(k, h) /\ ~Claim(k, h)}
<1>1. SUFFICES ASSUME Bad # {} PROVE FALSE
  OBVIOUS
<1>2. PICK h \in Bad : \A b \in Bad : h <= b
  BY <1>1, LeastNatural
<1>3. PICK k \in Positive : In(k, h) /\ ~Claim(k, h)
  OBVIOUS
<1>4. TwoTo[h] \in Positive /\ TwoTo[0] = 1 /\ (h # 0 => TwoTo[h] = 2 * TwoTo[h - 1])
  BY TwoToUnfold
<1>5. h # 0
  BY <1>3, <1>4 DEF Positive
<1>6. h - 1 \in Nat /\ TwoTo[h - 1] \in Positive
  BY <1>5, TwoToUnfold
<1>7. k # 1
  BY <1>3, <1>4, <1>5, <1>6 DEF Positive
<1>8. PICK g \in Positive : k = 2 * g /\ IsPowerOfTwo(g)
  BY <1>3, <1>7, PowerHalves
<1>9. In(g, h - 1)
  BY <1>3, <1>4, <1>5, <1>6, <1>8 DEF Positive
<1>10. Claim(g, h - 1)
  BY <1>2, <1>6, <1>9
<1> QED BY <1>3, <1>4, <1>5, <1>6, <1>8, <1>10 DEF Positive

\* Both parts of a tree of at most 2^h leaves have at most half of that.
LEMMA SplitHalves ==
  ASSUME NEW n \in Positive, n # 1, NEW h \in Nat, n <= TwoTo[h]
  PROVE  h - 1 \in Nat /\ Split(n) <= TwoTo[h - 1] /\ n - Split(n) <= TwoTo[h - 1]
<1>1. Split(n) \in Positive /\ Split(n) < n /\ n <= 2 * Split(n) /\ IsPowerOfTwo(Split(n))
  BY SplitRange DEF Positive
<1>2. TwoTo[h] \in Positive /\ (h # 0 => TwoTo[h] = 2 * TwoTo[h - 1])
  BY TwoToUnfold
<1>3. h # 0 /\ 2 * Split(n) <= TwoTo[h]
  BY <1>1, <1>2, PowerBelow DEF Positive
<1>4. h - 1 \in Nat /\ TwoTo[h - 1] \in Positive
  BY <1>3, TwoToUnfold
<1> QED BY <1>1, <1>2, <1>3, <1>4 DEF Positive

-----------------------------------------------------------------------------
\* The hashes of subtrees.

\* The defining equation of SubtreeHashes.
LEMMA SubtreeUnfold ==
  ASSUME NEW leaves, NEW lo \in Nat, NEW n \in Positive
  PROVE  SubtreeHashes(leaves)[<<lo, n>>] =
           IF n = 1 THEN LeafHash(leaves[lo + 1])
           ELSE NodeHash(SubtreeHashes(leaves)[<<lo, Split(n)>>],
                         SubtreeHashes(leaves)[<<lo + Split(n), n - Split(n)>>])
<1> DEFINE
      D == Nat \X Positive
      Is(f) == f = [run \in D |->
                     IF run[2] = 1 THEN LeafHash(leaves[run[1] + 1])
                     ELSE NodeHash(f[<<run[1], Split(run[2])>>],
                                   f[<<run[1] + Split(run[2]), run[2] - Split(run[2])>>])]
      rank == [run \in D |-> run[2]]
      kind == [run \in D |-> IF run[2] = 1 THEN "base" ELSE "tree"]
      val == [run \in D |-> LeafHash(leaves[run[1] + 1])]
      lc == [run \in D |-> IF run[2] = 1 THEN run ELSE <<run[1], Split(run[2])>>]
      rc == [run \in D |-> IF run[2] = 1 THEN run
                            ELSE <<run[1] + Split(run[2]), run[2] - Split(run[2])>>]
<1>1. \A m \in Positive : m # 1 => Split(m) \in Positive /\ Split(m) < m /\ m - Split(m) \in Positive
                                   /\ m - Split(m) < m
  BY SplitRange DEF Positive
<1>2. rank \in [D -> Nat] /\ lc \in [D -> D] /\ rc \in [D -> D]
  BY <1>1 DEF Positive
<1>3. \A x \in D : kind[x] # "base" => rank[lc[x]] < rank[x] /\ rank[rc[x]] < rank[x]
  BY <1>1, <1>2
<1> HIDE DEF D, rank, kind, val, lc, rc
<1>4. PICK f : IsRecursive(f, D, kind, val, lc, rc)
  BY <1>2, <1>3, Recursion
<1>5. Is(f)
  BY <1>4 DEF IsRecursive, D, rank, kind, val, lc, rc, Combine
<1>6. SubtreeHashes(leaves) = CHOOSE g : Is(g)
  BY DEF SubtreeHashes, D
<1>7. Is(SubtreeHashes(leaves))
  <2> HIDE DEF Is
  <2> QED BY <1>5, <1>6
<1> QED BY <1>7 DEF D

LEMMA SubtreeLeaf ==
  ASSUME NEW leaves, NEW lo \in Nat
  PROVE  SubtreeHashes(leaves)[<<lo, 1>>] = LeafHash(leaves[lo + 1])
<1>1. 1 \in Positive
  BY DEF Positive
<1> QED BY <1>1, SubtreeUnfold

LEMMA SubtreeNode ==
  ASSUME NEW leaves, NEW lo \in Nat, NEW n \in Positive, n # 1
  PROVE  SubtreeHashes(leaves)[<<lo, n>>] =
           NodeHash(SubtreeHashes(leaves)[<<lo, Split(n)>>],
                    SubtreeHashes(leaves)[<<lo + Split(n), n - Split(n)>>])
BY SubtreeUnfold

\* Splitting a run of leaves gives two shorter ones.
LEMMA SplitParts ==
  ASSUME NEW n \in Positive, n # 1
  PROVE  /\ Split(n) \in Positive /\ Split(n) < n
         /\ n - Split(n) \in Positive /\ n - Split(n) < n
BY SplitRange DEF Positive

\* A hash says what it was made of; the prefixes of RFC 6962 keep the ways to
\* make one apart.
LEMMA LeafInjective ==
  ASSUME NEW a, NEW b, LeafHash(a) = LeafHash(b)
  PROVE  a = b
BY DEF LeafHash

LEMMA NodeInjective ==
  ASSUME NEW a, NEW b, NEW c, NEW d, NodeHash(a, b) = NodeHash(c, d)
  PROVE  a = c /\ b = d
BY DEF NodeHash

\* No subtree has the hash that stands for a failed recomputation.
LEMMA SubtreeNotBad ==
  ASSUME NEW leaves, NEW lo \in Nat, NEW n \in Positive
  PROVE  SubtreeHashes(leaves)[<<lo, n>>] # BadHash
<1>1. CASE n = 1
  BY <1>1, SubtreeLeaf DEF LeafHash, BadHash
<1>2. CASE n # 1
  <2>1. SubtreeHashes(leaves)[<<lo, n>>] =
          NodeHash(SubtreeHashes(leaves)[<<lo, Split(n)>>],
                   SubtreeHashes(leaves)[<<lo + Split(n), n - Split(n)>>])
    BY <1>2, SubtreeNode
  <2> QED BY <2>1 DEF NodeHash, BadHash
<1> QED BY <1>1, <1>2

\* Runs of one length with the same hash have the same leaves.
LEMMA SubtreesInjective ==
  ASSUME NEW s, NEW t, NEW lo \in Nat, NEW n \in Positive,
         SubtreeHashes(s)[<<lo, n>>] = SubtreeHashes(t)[<<lo, n>>]
  PROVE  \A i \in 1..n : s[lo + i] = t[lo + i]
<1> DEFINE
      Same(l, m) == SubtreeHashes(s)[<<l, m>>] = SubtreeHashes(t)[<<l, m>>]
      Agree(l, m) == \A i \in 1..m : s[l + i] = t[l + i]
      Bad == {m \in Positive : \E l \in Nat : Same(l, m) /\ ~Agree(l, m)}
<1>1. SUFFICES ASSUME Bad # {} PROVE FALSE
  OBVIOUS
<1>2. PICK m \in Bad : \A b \in Bad : m <= b
  BY <1>1, LeastNatural DEF Positive
<1>3. PICK l \in Nat : Same(l, m) /\ ~Agree(l, m)
  OBVIOUS
<1>4. m # 1
  <2>1. SUFFICES ASSUME m = 1 PROVE s[l + 1] = t[l + 1]
    BY <1>3
  <2>2. LeafHash(s[l + 1]) = LeafHash(t[l + 1])
    BY <1>3, <2>1, SubtreeLeaf
  <2> QED BY <2>2, LeafInjective
<1>5. PICK k \in Positive : k = Split(m) /\ k < m /\ m - k \in Positive /\ m - k < m
  BY <1>4, SplitParts
<1>6. Same(l, k) /\ Same(l + k, m - k)
  BY <1>3, <1>4, <1>5, SubtreeNode, NodeInjective
<1> HIDE DEF Same
<1>7. \A j \in Positive, p \in Nat : j < m /\ Same(p, j) => Agree(p, j)
  BY <1>2 DEF Positive
<1>8. Agree(l, k) /\ Agree(l + k, m - k)
  BY <1>5, <1>6, <1>7 DEF Positive
<1>9. Agree(l, m)
  <2>1. SUFFICES ASSUME NEW i \in 1..m PROVE s[l + i] = t[l + i]
    OBVIOUS
  <2>2. CASE i <= k
    BY <2>2, <1>8, <1>5 DEF Positive
  <2>3. CASE i > k
    <3>1. i - k \in 1..(m - k) /\ (l + k) + (i - k) = l + i
      BY <2>3, <1>5 DEF Positive
    <3> QED BY <3>1, <1>8
  <2> QED BY <2>2, <2>3, <1>5 DEF Positive
<1> QED BY <1>3, <1>9

\* Trees of one size with the same root are the same.
LEMMA RootInjective ==
  ASSUME NEW S, NEW s \in Seq(S), NEW t \in Seq(S), Root(s) = Root(t)
  PROVE  s = t
<1>1. Len(s) = Len(t) /\ TreeHash(s) = TreeHash(t)
  BY DEF Root
<1>2. CASE Len(s) = 0
  <2>1. \A i \in 1..Len(s) : s[i] = t[i]
    BY <1>2
  <2> QED BY <1>1, <2>1, SeqEqual
<1>3. CASE Len(s) # 0
  <2>1. Len(s) \in Positive /\ s # << >> /\ t # << >>
    BY <1>1, <1>3 DEF Positive
  <2>2. SubtreeHashes(s)[<<0, Len(s)>>] = SubtreeHashes(t)[<<0, Len(s)>>]
    BY <1>1, <2>1 DEF TreeHash
  <2>3. \A i \in 1..Len(s) : s[0 + i] = t[0 + i]
    BY <2>1, <2>2, SubtreesInjective
  <2> QED BY <1>1, <2>3, SeqEqual
<1> QED BY <1>2, <1>3

-----------------------------------------------------------------------------
\* Inclusion.

\* The defining equation of PathHashes, case by case.
LEMMA PathUnfold ==
  ASSUME NEW h, NEW path, NEW x \in Nat, NEW m \in Positive, NEW used \in Nat
  PROVE  LET P == PathHashes(h, path) IN
         /\ m = 1 /\ used = 0 => P[<<x, m, used>>] = h
         /\ m = 1 /\ used # 0 => P[<<x, m, used>>] = BadHash
         /\ m # 1 /\ used = 0 => P[<<x, m, used>>] = BadHash
         /\ m # 1 /\ used # 0 /\ x < Split(m) =>
              P[<<x, m, used>>] = NodeHash(P[<<x, Split(m), used - 1>>], path[used])
         /\ m # 1 /\ used # 0 /\ ~(x < Split(m)) =>
              P[<<x, m, used>>] =
                NodeHash(path[used], P[<<x - Split(m), m - Split(m), used - 1>>])
<1> DEFINE
      D == Nat \X Positive \X Nat
      Stops(at) == at[2] = 1 \/ at[3] = 0
      Is(f) == f = [at \in D |->
        IF at[2] = 1 THEN (IF at[3] = 0 THEN h ELSE BadHash)
        ELSE IF at[3] = 0 THEN BadHash
        ELSE IF at[1] < Split(at[2])
        THEN NodeHash(f[<<at[1], Split(at[2]), at[3] - 1>>], path[at[3]])
        ELSE NodeHash(path[at[3]], f[<<at[1] - Split(at[2]), at[2] - Split(at[2]), at[3] - 1>>])]
      rank == [at \in D |-> at[2]]
      kind == [at \in D |-> IF Stops(at) THEN "base"
                             ELSE IF at[1] < Split(at[2]) THEN "left" ELSE "right"]
      val == [at \in D |-> IF Stops(at) THEN (IF at[2] = 1 /\ at[3] = 0 THEN h ELSE BadHash)
                            ELSE path[at[3]]]
      lc == [at \in D |-> IF Stops(at) THEN at
                           ELSE IF at[1] < Split(at[2]) THEN <<at[1], Split(at[2]), at[3] - 1>>
                           ELSE <<at[1] - Split(at[2]), at[2] - Split(at[2]), at[3] - 1>>]
<1>1. \A n \in Positive : n # 1 => Split(n) \in Positive /\ Split(n) < n
                                   /\ n - Split(n) \in Positive /\ n - Split(n) < n
  BY SplitParts
<1>2. rank \in [D -> Nat] /\ lc \in [D -> D]
  BY <1>1 DEF Positive
<1>3. \A y \in D : kind[y] # "base" => rank[lc[y]] < rank[y]
  BY <1>1, <1>2
<1> HIDE DEF D, rank, kind, val, lc
<1>4. PICK f : IsRecursive(f, D, kind, val, lc, lc)
  BY <1>2, <1>3, Recursion
<1>5. Is(f)
  BY <1>4 DEF IsRecursive, D, rank, kind, val, lc, Combine
<1>6. PathHashes(h, path) = CHOOSE g : Is(g)
  BY DEF PathHashes, D
<1>7. Is(PathHashes(h, path))
  <2> HIDE DEF Is
  <2> QED BY <1>5, <1>6
<1> QED BY <1>7 DEF D

(***************************************************************************)
(* verify_inclusion on the root of a tree: whatever the proof is, it       *)
(* accepts a leaf only at an index where the tree has it.                  *)
(***************************************************************************)
THEOREM InclusionProofsSound ==
  ASSUME NEW S, NEW t \in Seq(S), NEW d, NEW i \in Nat, NEW path, Len(path) \in Nat,
         VerifyInclusionRaw(Root(t), d, i, path)
  PROVE  i < Len(t) /\ t[i + 1] = d
<1> DEFINE
      P == PathHashes(LeafHash(d), path)
      T == SubtreeHashes(t)
      Meets(x, m, used, lo) == x < m /\ P[<<x, m, used>>] = T[<<lo, m>>]
      Bad == {m \in Positive : \E x, used, lo \in Nat :
                Meets(x, m, used, lo) /\ t[lo + x + 1] # d}
<1>p. \A x, used \in Nat, m \in Positive :
         /\ m = 1 /\ used = 0 => P[<<x, m, used>>] = LeafHash(d)
         /\ m = 1 /\ used # 0 => P[<<x, m, used>>] = BadHash
         /\ m # 1 /\ used = 0 => P[<<x, m, used>>] = BadHash
         /\ m # 1 /\ used # 0 /\ x < Split(m) =>
              P[<<x, m, used>>] = NodeHash(P[<<x, Split(m), used - 1>>], path[used])
         /\ m # 1 /\ used # 0 /\ ~(x < Split(m)) =>
              P[<<x, m, used>>] =
                NodeHash(path[used], P[<<x - Split(m), m - Split(m), used - 1>>])
  BY PathUnfold
<1>t. \A lo \in Nat, m \in Positive :
         /\ T[<<lo, m>>] # BadHash
         /\ m = 1 => T[<<lo, m>>] = LeafHash(t[lo + 1])
         /\ m # 1 => T[<<lo, m>>] = NodeHash(T[<<lo, Split(m)>>], T[<<lo + Split(m), m - Split(m)>>])
  BY SubtreeNotBad, SubtreeLeaf, SubtreeNode
<1> HIDE DEF P, T
<1>1. Bad = {}
  <2>1. SUFFICES ASSUME Bad # {} PROVE FALSE
    OBVIOUS
  <2>2. PICK m \in Bad : \A b \in Bad : m <= b
    BY <2>1, LeastNatural DEF Positive
  <2>3. PICK x, used, lo \in Nat : Meets(x, m, used, lo) /\ t[lo + x + 1] # d
    OBVIOUS
  <2>4. \A j \in Positive, y, u, l \in Nat : j < m /\ Meets(y, j, u, l) => t[l + y + 1] = d
    <3> HIDE DEF Meets
    <3>1. \A j \in Positive : j < m => j \notin Bad
      BY <2>2 DEF Positive
    <3> QED BY <3>1
  <2>5. m \in Positive
    OBVIOUS
  <2> HIDE DEF Bad
  <2>6. T[<<lo, m>>] # BadHash
    BY <2>5, <1>t
  <2>7. CASE m = 1
    <3>1. x = 0 /\ used = 0 /\ P[<<x, m, used>>] = LeafHash(d)
      <4>1. used = 0 => P[<<x, m, used>>] = LeafHash(d)
        BY <2>5, <2>7, <1>p
      <4>2. used # 0 => P[<<x, m, used>>] = BadHash
        BY <2>5, <2>7, <1>p
      <4> QED BY <2>3, <2>6, <2>7, <4>1, <4>2
    <3>2. T[<<lo, m>>] = LeafHash(t[lo + 1])
      BY <2>5, <2>7, <1>t
    <3> QED BY <2>3, <3>1, <3>2, LeafInjective
  <2>8. CASE m # 1
    <3>1. PICK k \in Positive : k = Split(m) /\ k < m /\ m - k \in Positive /\ m - k < m
      BY <2>5, <2>8, SplitParts
    <3>2. used # 0
      <4>1. used = 0 => P[<<x, m, used>>] = BadHash
        BY <2>5, <2>8, <1>p
      <4> QED BY <2>3, <2>6, <4>1
    <3>3. T[<<lo, m>>] = NodeHash(T[<<lo, k>>], T[<<lo + k, m - k>>])
      BY <2>5, <2>8, <3>1, <1>t
    <3>4. CASE x < k
      <4>1. P[<<x, m, used>>] = NodeHash(P[<<x, k, used - 1>>], path[used])
        <5>1. m # 1 /\ used # 0 /\ x < Split(m) =>
                P[<<x, m, used>>] = NodeHash(P[<<x, Split(m), used - 1>>], path[used])
          BY <2>5, <1>p
        <5> QED BY <2>8, <3>1, <3>2, <3>4, <5>1, Zenon
      <4>2. Meets(x, k, used - 1, lo)
        BY <2>3, <3>3, <3>4, <4>1, NodeInjective
      <4> HIDE DEF Meets
      <4> QED BY <2>3, <2>4, <3>1, <3>2, <4>2
    <3>5. CASE ~(x < k)
      <4>1. P[<<x, m, used>>] = NodeHash(path[used], P[<<x - k, m - k, used - 1>>])
        <5>1. m # 1 /\ used # 0 /\ ~(x < Split(m)) =>
                P[<<x, m, used>>] =
                  NodeHash(path[used], P[<<x - Split(m), m - Split(m), used - 1>>])
          BY <2>5, <1>p
        <5> QED BY <2>8, <3>1, <3>2, <3>5, <5>1, Zenon
      <4>2. x - k \in Nat /\ lo + k \in Nat /\ used - 1 \in Nat /\ x - k < m - k
        <5>1. x < m
          BY <2>3
        <5> HIDE DEF Meets
        <5> QED BY <2>5, <3>1, <3>2, <3>5, <5>1 DEF Positive
      <4>3. Meets(x - k, m - k, used - 1, lo + k)
        BY <2>3, <3>3, <4>1, <4>2, NodeInjective
      <4> HIDE DEF Meets
      <4>4. t[(lo + k) + (x - k) + 1] = d
        BY <2>4, <3>1, <4>2, <4>3
      <4>5. (lo + k) + (x - k) + 1 = lo + x + 1
        BY <2>5, <3>1 DEF Positive
      <4> QED BY <2>3, <4>4, <4>5
    <3> QED BY <3>4, <3>5
  <2> QED BY <2>7, <2>8
<1>2. i < Len(t) /\ P[<<i, Len(t), Len(path)>>] = TreeHash(t)
  BY DEF VerifyInclusionRaw, Root, RootFromPath, P
<1>3. Len(t) \in Positive /\ t # << >>
  BY <1>2 DEF Positive
<1>4. Meets(i, Len(t), Len(path), 0)
  BY <1>2, <1>3 DEF TreeHash, T
<1>5. t[0 + i + 1] = d
  <2> HIDE DEF Meets
  <2> QED BY <1>1, <1>3, <1>4
<1> QED BY <1>2, <1>5

\* What the defining equation of InclusionPaths says.
InclusionStep(leaves, i, lo, n) ==
  LET Up == InclusionPaths(leaves, i)
      T == SubtreeHashes(leaves)
      k == Split(n)
  IN /\ n = 1 => Up[<<lo, n>>] = << >>
     /\ n # 1 /\ i < lo + k => Up[<<lo, n>>] = Append(Up[<<lo, k>>], T[<<lo + k, n - k>>])
     /\ n # 1 /\ ~(i < lo + k) => Up[<<lo, n>>] = Append(Up[<<lo + k, n - k>>], T[<<lo, k>>])

LEMMA InclusionUnfold ==
  ASSUME NEW leaves, NEW i, NEW lo \in Nat, NEW n \in Positive
  PROVE  InclusionStep(leaves, i, lo, n)
<1> DEFINE
      D == Nat \X Positive
      T == SubtreeHashes(leaves)
      Left(run) == i < run[1] + Split(run[2])
      Is(f) == f = [run \in D |->
        IF run[2] = 1 THEN << >>
        ELSE IF i < run[1] + Split(run[2])
        THEN Append(f[<<run[1], Split(run[2])>>],
                    SubtreeHashes(leaves)[<<run[1] + Split(run[2]), run[2] - Split(run[2])>>])
        ELSE Append(f[<<run[1] + Split(run[2]), run[2] - Split(run[2])>>],
                    SubtreeHashes(leaves)[<<run[1], Split(run[2])>>])]
      rank == [run \in D |-> run[2]]
      kind == [run \in D |-> IF run[2] = 1 THEN "base" ELSE "append"]
      val == [run \in D |-> IF run[2] = 1 THEN << >>
                             ELSE IF i < run[1] + Split(run[2])
                             THEN SubtreeHashes(leaves)[<<run[1] + Split(run[2]), run[2] - Split(run[2])>>]
                             ELSE SubtreeHashes(leaves)[<<run[1], Split(run[2])>>]]
      lc == [run \in D |-> IF run[2] = 1 THEN run
                            ELSE IF i < run[1] + Split(run[2]) THEN <<run[1], Split(run[2])>>
                            ELSE <<run[1] + Split(run[2]), run[2] - Split(run[2])>>]
<1>1. \A m \in Positive : m # 1 => Split(m) \in Positive /\ Split(m) < m
                                   /\ m - Split(m) \in Positive /\ m - Split(m) < m
  BY SplitParts
<1>2. rank \in [D -> Nat] /\ lc \in [D -> D]
  BY <1>1 DEF Positive
<1>3. \A x \in D : kind[x] # "base" => rank[lc[x]] < rank[x]
  BY <1>1, <1>2
<1> HIDE DEF D, rank, kind, val, lc
<1>4. PICK f : IsRecursive(f, D, kind, val, lc, lc)
  BY <1>2, <1>3, Recursion
<1>5. Is(f)
  BY <1>4 DEF IsRecursive, D, rank, kind, val, lc, Combine
<1>6. InclusionPaths(leaves, i) = CHOOSE g : Is(g)
  BY DEF InclusionPaths, D
<1>7. Is(InclusionPaths(leaves, i))
  <2> HIDE DEF Is
  <2> QED BY <1>5, <1>6
<1> QED BY <1>7 DEF D, InclusionStep

\* The hashes of the subtrees of a tree.
NodesOf(leaves) == {SubtreeHashes(leaves)[run] : run \in Nat \X Positive}

LEMMA NodesOfHas ==
  ASSUME NEW leaves, NEW lo \in Nat, NEW n \in Positive
  PROVE  SubtreeHashes(leaves)[<<lo, n>>] \in NodesOf(leaves)
BY DEF NodesOf

\* Inclusion paths are sequences of hashes of subtrees.
LEMMA InclusionPathsType ==
  ASSUME NEW leaves, NEW i, NEW lo0 \in Nat, NEW n0 \in Positive
  PROVE  InclusionPaths(leaves, i)[<<lo0, n0>>] \in Seq(NodesOf(leaves))
<1> DEFINE
      Up(lo, n) == InclusionPaths(leaves, i)[<<lo, n>>]
      T(lo, n) == SubtreeHashes(leaves)[<<lo, n>>]
      H == NodesOf(leaves)
      Bad == {n \in Positive : \E lo \in Nat : Up(lo, n) \notin Seq(H)}
<1>1. ASSUME NEW lo \in Nat, NEW n \in Positive
      PROVE  /\ n = 1 => Up(lo, n) = << >>
             /\ n # 1 => \/ Up(lo, n) = Append(Up(lo, Split(n)), T(lo + Split(n), n - Split(n)))
                        \/ Up(lo, n) = Append(Up(lo + Split(n), n - Split(n)), T(lo, Split(n)))
  <2>1. InclusionStep(leaves, i, lo, n)
    BY InclusionUnfold
  <2> QED BY <2>1 DEF InclusionStep
<1>2. \A lo \in Nat, n \in Positive : T(lo, n) \in H
  BY NodesOfHas
<1> HIDE DEF Up, T, H
<1>3. SUFFICES ASSUME Bad # {} PROVE FALSE
  BY DEF Up, H
<1>4. PICK n \in Bad : \A b \in Bad : n <= b
  BY <1>3, LeastNatural DEF Positive
<1>5. PICK lo \in Nat : Up(lo, n) \notin Seq(H)
  OBVIOUS
<1>6. n \in Positive
  OBVIOUS
<1>7. \A m \in Positive, l \in Nat : m < n => Up(l, m) \in Seq(H)
  BY <1>4, <1>6 DEF Positive
<1> HIDE DEF Bad
<1>8. n # 1
  <2>1. n = 1 => Up(lo, n) = << >>
    BY <1>1, <1>6
  <2>2. << >> \in Seq(H)
    BY EmptySeq
  <2> QED BY <1>5, <2>1, <2>2
<1>9. PICK k \in Positive : k = Split(n) /\ k < n /\ n - k \in Positive /\ n - k < n
  BY <1>6, <1>8, SplitParts
<1>10. lo + k \in Nat
  BY DEF Positive
<1>11. Up(lo, k) \in Seq(H) /\ Up(lo + k, n - k) \in Seq(H)
  BY <1>7, <1>9, <1>10
<1>12. T(lo, k) \in H /\ T(lo + k, n - k) \in H
  BY <1>2, <1>9, <1>10
<1>13. \/ Up(lo, n) = Append(Up(lo, k), T(lo + k, n - k))
       \/ Up(lo, n) = Append(Up(lo + k, n - k), T(lo, k))
  BY <1>1, <1>6, <1>8, <1>9
<1>14. \A s \in Seq(H), e \in H : Append(s, e) \in Seq(H)
  BY AppendProperties
<1> HIDE DEF Up, T, H
<1> QED BY <1>5, <1>11, <1>12, <1>13, <1>14, Zenon

\* A path starts with the sequence s.
StartsWith(path, s) == \A j \in 1..Len(s) : path[j] = s[j]

LEMMA StartsWithAppend ==
  ASSUME NEW path, NEW H, NEW s \in Seq(H), NEW e \in H, StartsWith(path, Append(s, e))
  PROVE  /\ StartsWith(path, s) /\ Len(Append(s, e)) = Len(s) + 1 /\ Len(s) \in Nat
         /\ path[Len(s) + 1] = e
<1>1. /\ Len(Append(s, e)) = Len(s) + 1 /\ Len(s) \in Nat
      /\ \A j \in 1..Len(s) : Append(s, e)[j] = s[j]
      /\ Append(s, e)[Len(s) + 1] = e
  BY AppendProperties, LenProperties
<1> QED BY <1>1 DEF StartsWith

\* The path of leaf i in a run leads from its hash to that of the run.
PathLeads(leaves, i, path, lo, n) ==
  PathHashes(LeafHash(leaves[i + 1]), path)
      [<<i - lo, n, Len(InclusionPaths(leaves, i)[<<lo, n>>])>>]
    = SubtreeHashes(leaves)[<<lo, n>>]

\* The path of a leaf leads from its hash to the hash of every run around it.
LEMMA InclusionPathLeads ==
  ASSUME NEW leaves, NEW i \in Nat, NEW path,
         NEW lo0 \in Nat, NEW n0 \in Positive, lo0 <= i, i < lo0 + n0,
         StartsWith(path, InclusionPaths(leaves, i)[<<lo0, n0>>])
  PROVE  PathLeads(leaves, i, path, lo0, n0)
<1> DEFINE
      Up(lo, n) == InclusionPaths(leaves, i)[<<lo, n>>]
      T(lo, n) == SubtreeHashes(leaves)[<<lo, n>>]
      H == NodesOf(leaves)
      P(x, n, used) == PathHashes(LeafHash(leaves[i + 1]), path)[<<x, n, used>>]
      In(lo, n) == lo <= i /\ i < lo + n /\ StartsWith(path, Up(lo, n))
      Leads(lo, n) == P(i - lo, n, Len(Up(lo, n))) = T(lo, n)
      Bad == {n \in Positive : \E lo \in Nat : In(lo, n) /\ ~Leads(lo, n)}
<1>1. ASSUME NEW lo \in Nat, NEW n \in Positive
      PROVE  /\ n = 1 => Up(lo, n) = << >>
             /\ n # 1 /\ i < lo + Split(n) =>
                  Up(lo, n) = Append(Up(lo, Split(n)), T(lo + Split(n), n - Split(n)))
             /\ n # 1 /\ ~(i < lo + Split(n)) =>
                  Up(lo, n) = Append(Up(lo + Split(n), n - Split(n)), T(lo, Split(n)))
  <2>1. InclusionStep(leaves, i, lo, n)
    BY InclusionUnfold
  <2> QED BY <2>1 DEF InclusionStep
<1>2. \A lo \in Nat, n \in Positive : T(lo, n) \in H /\ Up(lo, n) \in Seq(H)
  BY NodesOfHas, InclusionPathsType
<1>3. \A x, used \in Nat, m \in Positive :
        /\ m = 1 /\ used = 0 => P(x, m, used) = LeafHash(leaves[i + 1])
        /\ m # 1 /\ used # 0 /\ x < Split(m) =>
             P(x, m, used) = NodeHash(P(x, Split(m), used - 1), path[used])
        /\ m # 1 /\ used # 0 /\ ~(x < Split(m)) =>
             P(x, m, used) = NodeHash(path[used], P(x - Split(m), m - Split(m), used - 1))
  BY PathUnfold
<1>4. ASSUME NEW lo \in Nat, NEW m \in Positive
      PROVE  /\ m = 1 => T(lo, m) = LeafHash(leaves[lo + 1])
             /\ m # 1 => T(lo, m) = NodeHash(T(lo, Split(m)), T(lo + Split(m), m - Split(m)))
  BY SubtreeLeaf, SubtreeNode
<1> HIDE DEF Up, T, H, P
<1>5. Bad = {}
  <2>1. SUFFICES ASSUME Bad # {} PROVE FALSE
    OBVIOUS
  <2>2. PICK n \in Bad : \A b \in Bad : n <= b
    BY <2>1, LeastNatural DEF Positive
  <2>3. PICK lo \in Nat : In(lo, n) /\ ~Leads(lo, n)
    OBVIOUS
  <2>4. \A m \in Positive, l \in Nat : m < n /\ In(l, m) => Leads(l, m)
    <3> HIDE DEF In, Leads
    <3>1. \A m \in Positive : m < n => m \notin Bad
      BY <2>2 DEF Positive
    <3> QED BY <3>1
  <2>5. n \in Positive
    OBVIOUS
  <2> HIDE DEF Bad
  <2>6. n # 1
    <3>1. SUFFICES ASSUME n = 1 PROVE FALSE
      OBVIOUS
    <3>2. Len(Up(lo, n)) = 0 /\ i - lo = 0 /\ i = lo
      BY <1>1, <2>3, <2>5, <3>1
    <3>3. T(lo, n) = LeafHash(leaves[i + 1])
      BY <1>4, <2>5, <3>1, <3>2
    <3> QED BY <1>3, <2>3, <2>5, <3>1, <3>2, <3>3
  <2>7. PICK k \in Positive : k = Split(n) /\ k < n /\ n - k \in Positive /\ n - k < n
    BY <2>5, <2>6, SplitParts
  <2>8. T(lo, n) = NodeHash(T(lo, k), T(lo + k, n - k))
    BY <1>4, <2>5, <2>6, <2>7
  <2>9. lo + k \in Nat /\ i - lo \in Nat
    BY <2>3, <2>7 DEF Positive
  <2>10. ASSUME NEW s \in Seq(H), NEW e \in H, Up(lo, n) = Append(s, e)
         PROVE  /\ StartsWith(path, s) /\ Len(Up(lo, n)) = Len(s) + 1 /\ Len(s) \in Nat
                /\ path[Len(s) + 1] = e
    <3>1. StartsWith(path, Append(s, e))
      BY <2>3, <2>10
    <3>2. /\ StartsWith(path, s) /\ Len(Append(s, e)) = Len(s) + 1 /\ Len(s) \in Nat
          /\ path[Len(s) + 1] = e
      BY <3>1, StartsWithAppend
    <3> QED BY <2>10, <3>2
  <2>11. CASE i < lo + k
    <3>1. Up(lo, n) = Append(Up(lo, k), T(lo + k, n - k))
      BY <1>1, <2>5, <2>6, <2>7, <2>11
    <3>2. /\ StartsWith(path, Up(lo, k)) /\ Len(Up(lo, n)) = Len(Up(lo, k)) + 1
          /\ Len(Up(lo, k)) \in Nat /\ path[Len(Up(lo, k)) + 1] = T(lo + k, n - k)
      BY <1>2, <2>7, <2>9, <2>10, <3>1
    <3>3. Leads(lo, k)
      BY <2>3, <2>4, <2>7, <2>11, <3>2
    <3>4. P(i - lo, n, Len(Up(lo, k)) + 1) = NodeHash(P(i - lo, k, Len(Up(lo, k))), T(lo + k, n - k))
      <4>1. i - lo < k /\ Len(Up(lo, k)) + 1 \in Nat /\ Len(Up(lo, k)) + 1 # 0
            /\ (Len(Up(lo, k)) + 1) - 1 = Len(Up(lo, k))
        BY <2>9, <2>11, <3>2, <2>7 DEF Positive
      <4> QED BY <1>3, <2>5, <2>6, <2>7, <2>9, <3>2, <4>1
    <3> QED BY <2>3, <2>8, <3>2, <3>3, <3>4
  <2>12. CASE ~(i < lo + k)
    <3>1. Up(lo, n) = Append(Up(lo + k, n - k), T(lo, k))
      BY <1>1, <2>5, <2>6, <2>7, <2>12
    <3> DEFINE u == Len(Up(lo + k, n - k))
    <3>2. /\ StartsWith(path, Up(lo + k, n - k)) /\ Len(Up(lo, n)) = u + 1
          /\ u \in Nat /\ path[u + 1] = T(lo, k)
      BY <1>2, <2>7, <2>9, <2>10, <3>1
    <3>3. lo + k <= i /\ i < (lo + k) + (n - k) /\ i - (lo + k) = (i - lo) - k
      <4>1. lo <= i /\ i < lo + n
        BY <2>3
      <4> HIDE DEF In, Leads
      <4> QED BY <2>5, <2>7, <2>12, <4>1 DEF Positive
    <3>4. Leads(lo + k, n - k)
      BY <2>4, <2>7, <2>9, <3>2, <3>3
    <3>5. P(i - lo, n, u + 1) = NodeHash(T(lo, k), P((i - lo) - k, n - k, u))
      <4>1. ~(i - lo < k) /\ u + 1 \in Nat /\ u + 1 # 0 /\ (u + 1) - 1 = u
        BY <2>9, <2>12, <3>2, <2>7 DEF Positive
      <4> HIDE DEF u
      <4>2. n # 1 /\ u + 1 # 0 /\ ~(i - lo < Split(n)) =>
              P(i - lo, n, u + 1) =
                NodeHash(path[u + 1], P((i - lo) - Split(n), n - Split(n), (u + 1) - 1))
        BY <1>3, <2>5, <2>9, <4>1
      <4>3. path[u + 1] = T(lo, k)
        BY <3>2
      <4> QED BY <2>6, <2>7, <4>1, <4>2, <4>3, Zenon
    <3> QED BY <2>3, <2>8, <3>2, <3>3, <3>4, <3>5
  <2> QED BY <2>11, <2>12
<1>6. Leads(lo0, n0)
  <2>1. In(lo0, n0)
    BY DEF Up
  <2> HIDE DEF In, Leads
  <2> QED BY <1>5, <2>1
<1> QED BY <1>6 DEF Up, T, P, PathLeads

(***************************************************************************)
(* prove_inclusion and verify_inclusion: the proof of a leaf that is in    *)
(* the tree is accepted.                                                   *)
(***************************************************************************)
THEOREM InclusionProofsComplete ==
  ASSUME NEW S, NEW t \in Seq(S), NEW i \in Nat, i < Len(t)
  PROVE  VerifyInclusionRaw(Root(t), t[i + 1], i, InclusionPath(t, i))
<1> DEFINE path == InclusionPath(t, i)
<1>1. Len(t) \in Positive /\ t # << >>
  BY DEF Positive
<1>2. path = InclusionPaths(t, i)[<<0, Len(t)>>]
  BY DEF InclusionPath
<1>3. StartsWith(path, InclusionPaths(t, i)[<<0, Len(t)>>])
  BY <1>2 DEF StartsWith
<1>4. 0 \in Nat /\ 0 <= i /\ i < 0 + Len(t) /\ i - 0 = i
  OBVIOUS
<1>5. PathLeads(t, i, path, 0, Len(t))
  BY <1>1, <1>3, <1>4, InclusionPathLeads
<1>6. PathHashes(LeafHash(t[i + 1]), path)[<<i, Len(t), Len(path)>>]
        = SubtreeHashes(t)[<<0, Len(t)>>]
  BY <1>2, <1>4, <1>5 DEF PathLeads
<1> QED BY <1>1, <1>6 DEF VerifyInclusionRaw, RootFromPath, Root, TreeHash

-----------------------------------------------------------------------------
\* Consistency.

LEMMA OldInNewPoint ==
  ASSUME NEW m \in Positive, NEW n \in Positive, m <= n, NEW of \in {"whole", "part"}, NEW pos \in Nat
  PROVE  <<m, n, of, pos>> \in OldInNew
BY DEF OldInNew

OldHash(h, proof, m, n, of, used) == ProofHashes(h, proof)[<<m, n, of, used>>][1]
NewHash(h, proof, m, n, of, used) == ProofHashes(h, proof)[<<m, n, of, used>>][2]

\* What the defining equation of ProofHashes says, case by case.
ProofStep(h, proof, m, n, of, used) ==
  /\ ProofHashes(h, proof)[<<m, n, of, used>>] =
       <<OldHash(h, proof, m, n, of, used), NewHash(h, proof, m, n, of, used)>>
  /\ m = n => OldHash(h, proof, m, n, of, used) = NewHash(h, proof, m, n, of, used)
  /\ m = n /\ of = "whole" /\ used = 0 => OldHash(h, proof, m, n, of, used) = h
  /\ m = n /\ of = "part" /\ used = 1 => OldHash(h, proof, m, n, of, used) = proof[1]
  /\ m # n /\ used = 0 => OldHash(h, proof, m, n, of, used) = BadHash
  /\ m # n /\ used # 0 /\ m <= Split(n) =>
       /\ OldHash(h, proof, m, n, of, used) = OldHash(h, proof, m, Split(n), of, used - 1)
       /\ NewHash(h, proof, m, n, of, used) =
            NodeHash(NewHash(h, proof, m, Split(n), of, used - 1), proof[used])
  /\ m # n /\ used # 0 /\ ~(m <= Split(n)) =>
       /\ OldHash(h, proof, m, n, of, used) =
            NodeHash(proof[used], OldHash(h, proof, m - Split(n), n - Split(n), "part", used - 1))
       /\ NewHash(h, proof, m, n, of, used) =
            NodeHash(proof[used], NewHash(h, proof, m - Split(n), n - Split(n), "part", used - 1))

LEMMA ProofUnfold ==
  ASSUME NEW h, NEW proof, NEW m \in Positive, NEW n \in Positive, m <= n,
         NEW of \in {"whole", "part"}, NEW used \in Nat
  PROVE  ProofStep(h, proof, m, n, of, used)
<1> DEFINE
      D == OldInNew
      Stops(at) == at[1] = at[2] \/ at[4] = 0
      L(at) == <<at[1], Split(at[2]), at[3], at[4] - 1>>
      R(at) == <<at[1] - Split(at[2]), at[2] - Split(at[2]), "part", at[4] - 1>>
      Base(at) == IF at[1] = at[2] /\ at[3] = "whole" /\ at[4] = 0 THEN <<h, h>>
                  ELSE IF at[1] = at[2] /\ at[3] = "part" /\ at[4] = 1 THEN <<proof[1], proof[1]>>
                  ELSE <<BadHash, BadHash>>
      Value(f, at) ==
        IF at[1] = at[2]
        THEN IF at[3] = "whole" /\ at[4] = 0 THEN <<h, h>>
             ELSE IF at[3] = "part" /\ at[4] = 1 THEN <<proof[1], proof[1]>>
             ELSE <<BadHash, BadHash>>
        ELSE IF at[4] = 0 THEN <<BadHash, BadHash>>
        ELSE IF at[1] <= Split(at[2])
        THEN <<f[L(at)][1], NodeHash(f[L(at)][2], proof[at[4]])>>
        ELSE <<NodeHash(proof[at[4]], f[R(at)][1]), NodeHash(proof[at[4]], f[R(at)][2])>>
      Is(f) == f = [at \in D |-> Value(f, at)]
      rank == [at \in D |-> at[4]]
      kind == [at \in D |-> IF Stops(at) THEN "base"
                             ELSE IF at[1] <= Split(at[2]) THEN "new" ELSE "both"]
      val == [at \in D |-> IF Stops(at) THEN Base(at) ELSE proof[at[4]]]
      lc == [at \in D |-> IF Stops(at) THEN at
                           ELSE IF at[1] <= Split(at[2]) THEN L(at) ELSE R(at)]
<1>1. \A at \in D : ~Stops(at) =>
        /\ at[1] <= Split(at[2]) => L(at) \in D
        /\ ~(at[1] <= Split(at[2])) => R(at) \in D
  <2> SUFFICES ASSUME NEW at \in D, ~Stops(at)
               PROVE  /\ at[1] <= Split(at[2]) => L(at) \in D
                      /\ ~(at[1] <= Split(at[2])) => R(at) \in D
    OBVIOUS
  <2>1. /\ at[1] \in Positive /\ at[2] \in Positive /\ at[3] \in {"whole", "part"}
        /\ at[4] \in Nat /\ at[4] # 0 /\ at[1] <= at[2] /\ at[1] # at[2]
    BY DEF OldInNew
  <2>2. at[2] # 1
    BY <2>1 DEF Positive
  <2>3. /\ Split(at[2]) \in Positive /\ Split(at[2]) < at[2]
        /\ at[2] - Split(at[2]) \in Positive
    BY <2>1, <2>2, SplitParts
  <2>4. at[4] - 1 \in Nat
    BY <2>1
  <2>5. at[1] <= Split(at[2]) => L(at) \in D
    BY <2>1, <2>3, <2>4, OldInNewPoint
  <2>6. ASSUME ~(at[1] <= Split(at[2])) PROVE R(at) \in D
    <3>1. at[1] - Split(at[2]) \in Positive /\ at[1] - Split(at[2]) <= at[2] - Split(at[2])
      BY <2>1, <2>3, <2>6 DEF Positive
    <3> QED BY <2>3, <2>4, <3>1, OldInNewPoint
  <2> QED BY <2>5, <2>6
<1>2. rank \in [D -> Nat] /\ lc \in [D -> D]
  <2>1. \A at \in D : at[4] \in Nat
    BY DEF OldInNew
  <2> QED BY <1>1, <2>1
<1>3. \A y \in D : kind[y] # "base" => rank[lc[y]] < rank[y]
  <2>1. \A at \in D : at[4] \in Nat
    BY DEF OldInNew
  <2>2. \A at \in D : L(at)[4] = at[4] - 1 /\ R(at)[4] = at[4] - 1
    OBVIOUS
  <2> HIDE DEF D, L, R
  <2> QED BY <1>1, <2>1, <2>2
<1> HIDE DEF D, rank, kind, val, lc
<1>4. PICK f : IsRecursive(f, D, kind, val, lc, lc)
  BY <1>2, <1>3, Recursion
<1>5. Is(f)
  <2>1. ASSUME NEW at \in D
        PROVE  Value(f, at) = IF kind[at] = "base" THEN val[at]
                              ELSE Combine(kind[at], val[at], f[lc[at]], f[lc[at]])
    <3> HIDE DEF L, R
    <3>1. CASE Stops(at)
      BY <3>1 DEF kind, val
    <3>2. CASE ~Stops(at) /\ at[1] <= Split(at[2])
      <4>1. kind[at] = "new" /\ val[at] = proof[at[4]] /\ lc[at] = L(at)
        BY <3>2 DEF kind, val, lc
      <4> QED BY <3>2, <4>1 DEF Combine
    <3>3. CASE ~Stops(at) /\ ~(at[1] <= Split(at[2]))
      <4>1. kind[at] = "both" /\ val[at] = proof[at[4]] /\ lc[at] = R(at)
        BY <3>3 DEF kind, val, lc
      <4> QED BY <3>3, <4>1 DEF Combine
    <3> QED BY <3>1, <3>2, <3>3
  <2> HIDE DEF Value
  <2> QED BY <1>4, <2>1 DEF IsRecursive
<1>6. ProofHashes(h, proof) = CHOOSE g : Is(g)
  BY DEF ProofHashes, D
<1>7. Is(ProofHashes(h, proof))
  <2> HIDE DEF Is
  <2> QED BY <1>5, <1>6
<1>8. <<m, n, of, used>> \in D
  BY DEF D, OldInNew
<1> DEFINE P == ProofHashes(h, proof)
<1>9. /\ m = n /\ of = "whole" /\ used = 0 => P[<<m, n, of, used>>] = <<h, h>>
      /\ m = n /\ of = "part" /\ used = 1 => P[<<m, n, of, used>>] = <<proof[1], proof[1]>>
      /\ m = n /\ ~(of = "whole" /\ used = 0) /\ ~(of = "part" /\ used = 1) =>
           P[<<m, n, of, used>>] = <<BadHash, BadHash>>
      /\ m # n /\ used = 0 => P[<<m, n, of, used>>] = <<BadHash, BadHash>>
      /\ m # n /\ used # 0 /\ m <= Split(n) =>
           P[<<m, n, of, used>>] =
             <<P[<<m, Split(n), of, used - 1>>][1],
               NodeHash(P[<<m, Split(n), of, used - 1>>][2], proof[used])>>
      /\ m # n /\ used # 0 /\ ~(m <= Split(n)) =>
           P[<<m, n, of, used>>] =
             <<NodeHash(proof[used], P[<<m - Split(n), n - Split(n), "part", used - 1>>][1]),
               NodeHash(proof[used], P[<<m - Split(n), n - Split(n), "part", used - 1>>][2])>>
  BY <1>7, <1>8
<1> HIDE DEF P
<1>10. \A a, b, c, d : /\ OldHash(h, proof, a, b, c, d) = P[<<a, b, c, d>>][1]
                       /\ NewHash(h, proof, a, b, c, d) = P[<<a, b, c, d>>][2]
  BY DEF OldHash, NewHash, P
<1>11. P[<<m, n, of, used>>] =
         <<OldHash(h, proof, m, n, of, used), NewHash(h, proof, m, n, of, used)>>
  <2>1. \E a, b : P[<<m, n, of, used>>] = <<a, b>>
    BY <1>9
  <2> QED BY <1>10, <2>1
<1>12. ProofHashes(h, proof) = P
  BY DEF P
<1> QED BY <1>9, <1>10, <1>11, <1>12 DEF ProofStep

\* A proof, from some place in it, leads to the hashes that two trees have at lo.
Meets(old, new, h, proof, m, n, of, used, lo) ==
  /\ m <= n
  /\ OldHash(h, proof, m, n, of, used) = SubtreeHashes(old)[<<lo, m>>]
  /\ NewHash(h, proof, m, n, of, used) = SubtreeHashes(new)[<<lo, n>>]

\* Two trees have the same m leaves after the first lo.
Agree(old, new, lo, m) == \A i \in 1..m : old[lo + i] = new[lo + i]

LEMMA ProofMeets ==
  ASSUME NEW old, NEW new, NEW h, NEW proof,
         NEW m0 \in Positive, NEW n0 \in Positive, NEW of0 \in {"whole", "part"},
         NEW used0 \in Nat, NEW lo0 \in Nat,
         Meets(old, new, h, proof, m0, n0, of0, used0, lo0)
  PROVE  Agree(old, new, lo0, m0)
<1> DEFINE
      Old(m, n, of, used) == OldHash(h, proof, m, n, of, used)
      New(m, n, of, used) == NewHash(h, proof, m, n, of, used)
      O(lo, m) == SubtreeHashes(old)[<<lo, m>>]
      N(lo, m) == SubtreeHashes(new)[<<lo, m>>]
      M(m, n, of, used, lo) == Meets(old, new, h, proof, m, n, of, used, lo)
      A(lo, m) == Agree(old, new, lo, m)
      Bad == {n \in Positive : \E m \in Positive, of \in {"whole", "part"}, used, lo \in Nat :
                M(m, n, of, used, lo) /\ ~A(lo, m)}
<1>1. ASSUME NEW m \in Positive, NEW n \in Positive, NEW of \in {"whole", "part"}, NEW used \in Nat, m <= n
      PROVE  /\ m = n => Old(m, n, of, used) = New(m, n, of, used)
             /\ m # n /\ used = 0 => Old(m, n, of, used) = BadHash
             /\ m # n /\ used # 0 /\ m <= Split(n) =>
                  /\ Old(m, n, of, used) = Old(m, Split(n), of, used - 1)
                  /\ New(m, n, of, used) =
                       NodeHash(New(m, Split(n), of, used - 1), proof[used])
             /\ m # n /\ used # 0 /\ ~(m <= Split(n)) =>
                  /\ Old(m, n, of, used) =
                       NodeHash(proof[used], Old(m - Split(n), n - Split(n), "part", used - 1))
                  /\ New(m, n, of, used) =
                       NodeHash(proof[used], New(m - Split(n), n - Split(n), "part", used - 1))
  <2>1. ProofStep(h, proof, m, n, of, used)
    BY <1>1, ProofUnfold
  <2> QED BY <2>1 DEF ProofStep
<1>2. ASSUME NEW lo \in Nat, NEW m \in Positive
      PROVE  /\ O(lo, m) # BadHash
             /\ m # 1 => /\ O(lo, m) = NodeHash(O(lo, Split(m)), O(lo + Split(m), m - Split(m)))
                         /\ N(lo, m) = NodeHash(N(lo, Split(m)), N(lo + Split(m), m - Split(m)))
             /\ O(lo, m) = N(lo, m) => A(lo, m)
  <2>1. O(lo, m) # BadHash
    BY SubtreeNotBad
  <2>2. m # 1 => O(lo, m) = NodeHash(O(lo, Split(m)), O(lo + Split(m), m - Split(m)))
    BY SubtreeNode
  <2>3. m # 1 => N(lo, m) = NodeHash(N(lo, Split(m)), N(lo + Split(m), m - Split(m)))
    BY SubtreeNode
  <2>4. O(lo, m) = N(lo, m) => A(lo, m)
    BY SubtreesInjective DEF A, Agree
  <2> QED BY <2>1, <2>2, <2>3, <2>4
<1>3. \A m, n, of, used, lo : M(m, n, of, used, lo) <=>
        m <= n /\ Old(m, n, of, used) = O(lo, m) /\ New(m, n, of, used) = N(lo, n)
  BY DEF Meets
<1> HIDE DEF Old, New, O, N, M, A
<1>4. Bad = {}
  <2>1. SUFFICES ASSUME Bad # {} PROVE FALSE
    OBVIOUS
  <2>2. PICK n \in Bad : \A b \in Bad : n <= b
    BY <2>1, LeastNatural DEF Positive
  <2>3. PICK m \in Positive, of \in {"whole", "part"}, used \in Nat, lo \in Nat :
          M(m, n, of, used, lo) /\ ~A(lo, m)
    OBVIOUS
  <2>4. \A j, p \in Positive, w \in {"whole", "part"}, u, l \in Nat :
          j < n /\ M(p, j, w, u, l) => A(l, p)
    <3>1. \A j \in Positive : j < n => j \notin Bad
      BY <2>2 DEF Positive
    <3> QED BY <3>1
  <2>5. n \in Positive
    OBVIOUS
  <2> HIDE DEF Bad
  <2>6. m # n
    BY <1>1, <1>2, <2>3, <1>3, <2>5
  <2>7. used # 0
    BY <1>1, <1>2, <2>3, <1>3, <2>5, <2>6
  <2>8. n # 1
    BY <2>3, <1>3, <2>5, <2>6 DEF Positive
  <2>9. PICK k \in Positive : k = Split(n) /\ k < n /\ n - k \in Positive /\ n - k < n
    BY <2>5, <2>8, SplitParts
  <2>10. N(lo, n) = NodeHash(N(lo, k), N(lo + k, n - k))
    BY <1>2, <2>5, <2>8, <2>9
  <2>11. used - 1 \in Nat
    BY <2>7
  <2>12. CASE m <= k
    <3>1. /\ Old(m, n, of, used) = Old(m, k, of, used - 1)
          /\ New(m, n, of, used) =
               NodeHash(New(m, k, of, used - 1), proof[used])
      BY <1>1, <2>3, <1>3, <2>5, <2>6, <2>7, <2>9, <2>12
    <3>2. New(m, k, of, used - 1) = N(lo, k)
      BY <2>3, <1>3, <2>10, <3>1, NodeInjective
    <3>3. M(m, k, of, used - 1, lo)
      BY <2>3, <1>3, <2>12, <3>1, <3>2
    <3> QED BY <2>3, <1>3, <2>4, <2>9, <2>11, <3>3
  <2>13. CASE ~(m <= k)
    <3>1. m # 1 /\ Split(m) = k
      <4>1. m \in Nat /\ n \in Nat /\ 1 < m /\ m <= n /\ k < m
        BY <2>3, <1>3, <2>5, <2>9, <2>13 DEF Positive
      <4> QED BY <2>9, <4>1, SplitAgrees
    <3>2. /\ Old(m, n, of, used) =
               NodeHash(proof[used], Old(m - k, n - k, "part", used - 1))
          /\ New(m, n, of, used) =
               NodeHash(proof[used], New(m - k, n - k, "part", used - 1))
      BY <1>1, <2>3, <1>3, <2>5, <2>6, <2>7, <2>9, <2>13
    <3>3. O(lo, m) = NodeHash(O(lo, k), O(lo + k, m - k))
      BY <1>2, <3>1
    <3>4. /\ proof[used] = O(lo, k) /\ proof[used] = N(lo, k)
          /\ Old(m - k, n - k, "part", used - 1) = O(lo + k, m - k)
          /\ New(m - k, n - k, "part", used - 1) = N(lo + k, n - k)
      <4>1. proof[used] = O(lo, k) /\ Old(m - k, n - k, "part", used - 1) = O(lo + k, m - k)
        <5>1. NodeHash(proof[used], Old(m - k, n - k, "part", used - 1)) =
                NodeHash(O(lo, k), O(lo + k, m - k))
          BY <2>3, <1>3, <3>2, <3>3
        <5> QED BY <5>1, NodeInjective
      <4>2. proof[used] = N(lo, k) /\ New(m - k, n - k, "part", used - 1) = N(lo + k, n - k)
        BY <2>3, <1>3, <2>10, <3>2, NodeInjective
      <4> QED BY <4>1, <4>2
    <3>5. /\ m - k \in Positive /\ m - k <= n - k /\ lo + k \in Nat
      BY <2>3, <1>3, <2>5, <2>9, <2>13 DEF Positive
    <3>6. M(m - k, n - k, "part", used - 1, lo + k)
      BY <3>4, <3>5, <1>3
    <3>7. A(lo + k, m - k)
      BY <2>4, <2>9, <2>11, <3>5, <3>6
    <3>8. A(lo, k)
      BY <1>2, <3>4
    <3>9. A(lo, m)
      <4>1. SUFFICES ASSUME NEW i \in 1..m PROVE old[lo + i] = new[lo + i]
        BY DEF A, Agree
      <4>2. CASE i <= k
        BY <4>2, <3>8, <2>9 DEF A, Agree, Positive
      <4>3. CASE i > k
        <5>1. i - k \in 1..(m - k) /\ (lo + k) + (i - k) = lo + i
          BY <4>3, <2>9 DEF Positive
        <5> QED BY <5>1, <3>7 DEF A, Agree
      <4> QED BY <4>2, <4>3, <2>9 DEF Positive
    <3> QED BY <2>3, <1>3, <3>9
  <2> QED BY <2>12, <2>13
<1> QED
  <2>1. M(m0, n0, of0, used0, lo0)
    BY DEF M
  <2>2. A(lo0, m0)
    BY <1>4, <2>1
  <2> QED BY <2>2 DEF A

(***************************************************************************)
(* verify_consistency on the roots of two trees: whatever the proof is, it *)
(* is accepted only if the old tree is a prefix of the new one, and not    *)
(* empty.                                                                  *)
(***************************************************************************)
THEOREM ConsistencyProofsSound ==
  ASSUME NEW S, NEW old \in Seq(S), NEW new \in Seq(S), NEW proof, Len(proof) \in Nat,
         VerifyConsistency(Root(old), Root(new), proof)
  PROVE  /\ Len(old) # 0 /\ Len(old) <= Len(new)
         /\ \A i \in 1..Len(old) : old[i] = new[i]
<1> DEFINE O == OldHash(TreeHash(old), proof, Len(old), Len(new), "whole", Len(proof))
           N == NewHash(TreeHash(old), proof, Len(old), Len(new), "whole", Len(proof))
<1>1. /\ Len(old) # 0 /\ Len(old) <= Len(new)
      /\ O = TreeHash(old) /\ N = TreeHash(new)
  <2>1. /\ Root(old).hash = TreeHash(old) /\ Root(old).num_leaves = Len(old)
        /\ Root(new).hash = TreeHash(new) /\ Root(new).num_leaves = Len(new)
    BY DEF Root
  <2>2. /\ Len(old) # 0 /\ Len(old) <= Len(new)
        /\ RootsFromProof(TreeHash(old), Len(old), Len(new), proof) = <<TreeHash(old), TreeHash(new)>>
    <3> HIDE DEF Root
    <3> QED BY <2>1 DEF VerifyConsistency
  <2> QED BY <2>2 DEF RootsFromProof, OldHash, NewHash
<1>2. Len(old) \in Positive /\ Len(new) \in Positive /\ old # << >> /\ new # << >>
  BY <1>1 DEF Positive
<1>3. O = SubtreeHashes(old)[<<0, Len(old)>>] /\ N = SubtreeHashes(new)[<<0, Len(new)>>]
  BY <1>1, <1>2 DEF TreeHash
<1>4. \A i \in 1..Len(old) : old[0 + i] = new[0 + i]
  <2>1. Meets(old, new, TreeHash(old), proof, Len(old), Len(new), "whole", Len(proof), 0)
    BY <1>1, <1>3 DEF Meets
  <2>2. Agree(old, new, 0, Len(old))
    BY <1>2, <2>1, ProofMeets
  <2> QED BY <2>2 DEF Agree
<1> QED BY <1>1, <1>4

\* What the defining equation of ConsistencyPaths says.
ConsistencyStep(leaves, m, n, of, lo) ==
  LET C == ConsistencyPaths(leaves)
      T == SubtreeHashes(leaves)
      k == Split(n)
  IN /\ m = n /\ of = "whole" => C[<<m, n, of, lo>>] = << >>
     /\ m = n /\ of = "part" => C[<<m, n, of, lo>>] = <<T[<<lo, n>>]>>
     /\ m # n /\ m <= k =>
          C[<<m, n, of, lo>>] = Append(C[<<m, k, of, lo>>], T[<<lo + k, n - k>>])
     /\ m # n /\ ~(m <= k) =>
          C[<<m, n, of, lo>>] = Append(C[<<m - k, n - k, "part", lo + k>>], T[<<lo, k>>])

LEMMA ConsistencyUnfold ==
  ASSUME NEW leaves, NEW m \in Positive, NEW n \in Positive, m <= n,
         NEW of \in {"whole", "part"}, NEW lo \in Nat
  PROVE  ConsistencyStep(leaves, m, n, of, lo)
<1> DEFINE
      D == OldInNew
      T == SubtreeHashes(leaves)
      L(at) == <<at[1], Split(at[2]), at[3], at[4]>>
      R(at) == <<at[1] - Split(at[2]), at[2] - Split(at[2]), "part", at[4] + Split(at[2])>>
      Is(f) == f = [at \in D |->
        IF at[1] = at[2]
        THEN IF at[3] = "whole" THEN << >> ELSE <<T[<<at[4], at[2]>>]>>
        ELSE IF at[1] <= Split(at[2])
        THEN Append(f[L(at)], T[<<at[4] + Split(at[2]), at[2] - Split(at[2])>>])
        ELSE Append(f[R(at)], T[<<at[4], Split(at[2])>>])]
      rank == [at \in D |-> at[2]]
      kind == [at \in D |-> IF at[1] = at[2] THEN "base" ELSE "append"]
      val == [at \in D |-> IF at[1] = at[2]
                            THEN IF at[3] = "whole" THEN << >> ELSE <<T[<<at[4], at[2]>>]>>
                            ELSE IF at[1] <= Split(at[2])
                            THEN T[<<at[4] + Split(at[2]), at[2] - Split(at[2])>>]
                            ELSE T[<<at[4], Split(at[2])>>]]
      lc == [at \in D |-> IF at[1] = at[2] THEN at
                           ELSE IF at[1] <= Split(at[2]) THEN L(at) ELSE R(at)]
<1>1. \A at \in D : at[1] # at[2] =>
        /\ at[1] <= Split(at[2]) => L(at) \in D /\ L(at)[2] < at[2]
        /\ ~(at[1] <= Split(at[2])) => R(at) \in D /\ R(at)[2] < at[2]
  <2> SUFFICES ASSUME NEW at \in D, at[1] # at[2]
               PROVE  /\ at[1] <= Split(at[2]) => L(at) \in D /\ L(at)[2] < at[2]
                      /\ ~(at[1] <= Split(at[2])) => R(at) \in D /\ R(at)[2] < at[2]
    OBVIOUS
  <2>1. /\ at[1] \in Positive /\ at[2] \in Positive /\ at[3] \in {"whole", "part"}
        /\ at[4] \in Nat /\ at[1] <= at[2] /\ at[1] # at[2]
    BY DEF OldInNew
  <2>2. at[2] # 1
    BY <2>1 DEF Positive
  <2>3. /\ Split(at[2]) \in Positive /\ Split(at[2]) < at[2]
        /\ at[2] - Split(at[2]) \in Positive /\ at[2] - Split(at[2]) < at[2]
    BY <2>1, <2>2, SplitParts
  <2>4. at[4] + Split(at[2]) \in Nat
    BY <2>1, <2>3 DEF Positive
  <2>5. at[1] <= Split(at[2]) => L(at) \in D
    BY <2>1, <2>3, OldInNewPoint
  <2>6. ASSUME ~(at[1] <= Split(at[2])) PROVE R(at) \in D
    <3>1. at[1] - Split(at[2]) \in Positive /\ at[1] - Split(at[2]) <= at[2] - Split(at[2])
      BY <2>1, <2>3, <2>6 DEF Positive
    <3> QED BY <2>3, <2>4, <3>1, OldInNewPoint
  <2> QED BY <2>3, <2>5, <2>6
<1>2. \A at \in D : at[2] \in Nat
  BY DEF OldInNew, Positive
<1>3. rank \in [D -> Nat] /\ lc \in [D -> D]
  BY <1>1, <1>2
<1>4. \A y \in D : kind[y] # "base" => rank[lc[y]] < rank[y]
  <2> HIDE DEF D, L, R
  <2> QED BY <1>1
<1> HIDE DEF D, T, rank, kind, val, lc
<1>5. PICK f : IsRecursive(f, D, kind, val, lc, lc)
  BY <1>3, <1>4, Recursion
<1>6. Is(f)
  BY <1>5 DEF IsRecursive, rank, kind, val, lc, Combine
<1>7. ConsistencyPaths(leaves) = CHOOSE g : Is(g)
  BY DEF ConsistencyPaths, D, T
<1>8. Is(ConsistencyPaths(leaves))
  <2> HIDE DEF Is
  <2> QED BY <1>6, <1>7
<1>9. <<m, n, of, lo>> \in D
  BY OldInNewPoint DEF D
<1> QED BY <1>8, <1>9 DEF ConsistencyStep, T

\* Consistency paths are sequences of hashes of subtrees.
LEMMA ConsistencyPathsType ==
  ASSUME NEW leaves, NEW m0 \in Positive, NEW n0 \in Positive, m0 <= n0,
         NEW of0 \in {"whole", "part"}, NEW lo0 \in Nat
  PROVE  ConsistencyPaths(leaves)[<<m0, n0, of0, lo0>>] \in Seq(NodesOf(leaves))
<1> DEFINE
      C(m, n, of, lo) == ConsistencyPaths(leaves)[<<m, n, of, lo>>]
      T(lo, n) == SubtreeHashes(leaves)[<<lo, n>>]
      H == NodesOf(leaves)
      Bad == {n \in Positive : \E m \in Positive, of \in {"whole", "part"}, lo \in Nat :
                m <= n /\ C(m, n, of, lo) \notin Seq(H)}
<1>1. ASSUME NEW m \in Positive, NEW n \in Positive, m <= n, NEW of \in {"whole", "part"}, NEW lo \in Nat
      PROVE  /\ m = n => C(m, n, of, lo) = << >> \/ C(m, n, of, lo) = <<T(lo, n)>>
             /\ m # n /\ m <= Split(n) =>
                  C(m, n, of, lo) = Append(C(m, Split(n), of, lo), T(lo + Split(n), n - Split(n)))
             /\ m # n /\ ~(m <= Split(n)) =>
                  C(m, n, of, lo) =
                    Append(C(m - Split(n), n - Split(n), "part", lo + Split(n)), T(lo, Split(n)))
  <2>1. ConsistencyStep(leaves, m, n, of, lo)
    BY <1>1, ConsistencyUnfold
  <2> QED BY <2>1 DEF ConsistencyStep
<1>2. \A lo \in Nat, n \in Positive : T(lo, n) \in H
  BY NodesOfHas
<1> HIDE DEF C, T, H
<1>3. SUFFICES ASSUME Bad # {} PROVE FALSE
  BY DEF C, H
<1>4. PICK n \in Bad : \A b \in Bad : n <= b
  BY <1>3, LeastNatural DEF Positive
<1>5. PICK m \in Positive, of \in {"whole", "part"}, lo \in Nat :
        m <= n /\ C(m, n, of, lo) \notin Seq(H)
  OBVIOUS
<1>6. n \in Positive
  OBVIOUS
<1>7. \A j, p \in Positive, w \in {"whole", "part"}, l \in Nat :
        j < n /\ p <= j => C(p, j, w, l) \in Seq(H)
  <2>1. \A j \in Positive : j < n => j \notin Bad
    <3> HIDE DEF Bad
    <3> QED BY <1>4, <1>6 DEF Positive
  <2> QED BY <2>1
<1> HIDE DEF Bad
<1>8. m # n
  <2>1. << >> \in Seq(H)
    BY EmptySeq
  <2>2. T(lo, n) \in H
    BY <1>2, <1>6
  <2>3. <<T(lo, n)>> \in Seq(H)
    BY <2>2
  <2>4. m = n => C(m, n, of, lo) = << >> \/ C(m, n, of, lo) = <<T(lo, n)>>
    BY <1>1, <1>5, <1>6
  <2> QED BY <1>5, <2>1, <2>3, <2>4
<1>9. n # 1
  BY <1>5, <1>6, <1>8 DEF Positive
<1>10. PICK k \in Positive : k = Split(n) /\ k < n /\ n - k \in Positive /\ n - k < n
  BY <1>6, <1>9, SplitParts
<1>11. lo + k \in Nat
  BY DEF Positive
<1>12. T(lo, k) \in H /\ T(lo + k, n - k) \in H
  BY <1>2, <1>10, <1>11
<1>13. CASE m <= k
  <2>1. C(m, n, of, lo) = Append(C(m, k, of, lo), T(lo + k, n - k))
    BY <1>1, <1>5, <1>6, <1>8, <1>10, <1>13
  <2>2. C(m, k, of, lo) \in Seq(H)
    BY <1>7, <1>10, <1>13
  <2> QED BY <1>5, <1>12, <2>1, <2>2
<1>14. CASE ~(m <= k)
  <2>1. C(m, n, of, lo) = Append(C(m - k, n - k, "part", lo + k), T(lo, k))
    BY <1>1, <1>5, <1>6, <1>8, <1>10, <1>14
  <2>2. m - k \in Positive /\ m - k <= n - k
    BY <1>5, <1>6, <1>10, <1>14 DEF Positive
  <2>3. C(m - k, n - k, "part", lo + k) \in Seq(H)
    BY <1>7, <1>10, <1>11, <2>2
  <2> QED BY <1>5, <1>12, <2>1, <2>3
<1> QED BY <1>13, <1>14

\* Runs with the same leaves have the same hash.
LEMMA SubtreesAgree ==
  ASSUME NEW s, NEW t, NEW lo0 \in Nat, NEW n0 \in Positive, Agree(s, t, lo0, n0)
  PROVE  SubtreeHashes(s)[<<lo0, n0>>] = SubtreeHashes(t)[<<lo0, n0>>]
<1> DEFINE
      A(lo, n) == SubtreeHashes(s)[<<lo, n>>]
      B(lo, n) == SubtreeHashes(t)[<<lo, n>>]
      Bad == {n \in Positive : \E lo \in Nat : Agree(s, t, lo, n) /\ A(lo, n) # B(lo, n)}
<1>1. ASSUME NEW lo \in Nat, NEW n \in Positive
      PROVE  /\ n = 1 => A(lo, n) = LeafHash(s[lo + 1]) /\ B(lo, n) = LeafHash(t[lo + 1])
             /\ n # 1 => /\ A(lo, n) = NodeHash(A(lo, Split(n)), A(lo + Split(n), n - Split(n)))
                         /\ B(lo, n) = NodeHash(B(lo, Split(n)), B(lo + Split(n), n - Split(n)))
  BY SubtreeLeaf, SubtreeNode
<1> HIDE DEF A, B
<1>2. SUFFICES ASSUME Bad # {} PROVE FALSE
  BY DEF A, B
<1>3. PICK n \in Bad : \A b \in Bad : n <= b
  BY <1>2, LeastNatural DEF Positive
<1>4. PICK lo \in Nat : Agree(s, t, lo, n) /\ A(lo, n) # B(lo, n)
  OBVIOUS
<1>5. n \in Positive
  OBVIOUS
<1>6. \A m \in Positive, l \in Nat : m < n /\ Agree(s, t, l, m) => A(l, m) = B(l, m)
  BY <1>3, <1>5 DEF Positive
<1> HIDE DEF Bad
<1>7. n # 1
  <2>1. n = 1 => s[lo + 1] = t[lo + 1]
    BY <1>4 DEF Agree
  <2> QED BY <1>1, <1>4, <1>5, <2>1
<1>8. PICK k \in Positive : k = Split(n) /\ k < n /\ n - k \in Positive /\ n - k < n
  BY <1>5, <1>7, SplitParts
<1>9. lo + k \in Nat
  BY DEF Positive
<1>10. Agree(s, t, lo, k)
  BY <1>4, <1>5, <1>8 DEF Agree, Positive
<1>11. Agree(s, t, lo + k, n - k)
  <2>1. SUFFICES ASSUME NEW i \in 1..(n - k) PROVE s[(lo + k) + i] = t[(lo + k) + i]
    BY DEF Agree
  <2>2. k + i \in 1..n /\ (lo + k) + i = lo + (k + i)
    BY <1>5, <1>8 DEF Positive
  <2> QED BY <1>4, <2>2 DEF Agree
<1>12. A(lo, k) = B(lo, k) /\ A(lo + k, n - k) = B(lo + k, n - k)
  BY <1>6, <1>8, <1>9, <1>10, <1>11
<1> QED BY <1>1, <1>4, <1>5, <1>7, <1>8, <1>12

\* The consistency path of m leaves in a run of n leads to the hashes of both.
ProofLeads(leaves, h, proof, m, n, of, lo) ==
  LET used == Len(ConsistencyPaths(leaves)[<<m, n, of, lo>>]) IN
  /\ OldHash(h, proof, m, n, of, used) = SubtreeHashes(leaves)[<<lo, m>>]
  /\ NewHash(h, proof, m, n, of, used) = SubtreeHashes(leaves)[<<lo, n>>]

LEMMA ConsistencyPathLeads ==
  ASSUME NEW leaves, NEW h, NEW proof, NEW m0 \in Positive, NEW n0 \in Positive, m0 <= n0,
         NEW of0 \in {"whole", "part"}, NEW lo0 \in Nat,
         of0 = "whole" => h = SubtreeHashes(leaves)[<<lo0, m0>>],
         StartsWith(proof, ConsistencyPaths(leaves)[<<m0, n0, of0, lo0>>])
  PROVE  ProofLeads(leaves, h, proof, m0, n0, of0, lo0)
<1> DEFINE
      C(m, n, of, lo) == ConsistencyPaths(leaves)[<<m, n, of, lo>>]
      T(lo, n) == SubtreeHashes(leaves)[<<lo, n>>]
      H == NodesOf(leaves)
      Old(m, n, of, used) == OldHash(h, proof, m, n, of, used)
      New(m, n, of, used) == NewHash(h, proof, m, n, of, used)
      In(m, n, of, lo) ==
        m <= n /\ (of = "whole" => h = T(lo, m)) /\ StartsWith(proof, C(m, n, of, lo))
      Leads(m, n, of, lo) == /\ Old(m, n, of, Len(C(m, n, of, lo))) = T(lo, m)
                             /\ New(m, n, of, Len(C(m, n, of, lo))) = T(lo, n)
      Bad == {n \in Positive : \E m \in Positive, of \in {"whole", "part"}, lo \in Nat :
                In(m, n, of, lo) /\ ~Leads(m, n, of, lo)}
<1>1. ASSUME NEW m \in Positive, NEW n \in Positive, m <= n, NEW of \in {"whole", "part"}, NEW lo \in Nat
      PROVE  /\ m = n /\ of = "whole" => C(m, n, of, lo) = << >>
             /\ m = n /\ of = "part" => C(m, n, of, lo) = <<T(lo, n)>>
             /\ m # n /\ m <= Split(n) =>
                  C(m, n, of, lo) = Append(C(m, Split(n), of, lo), T(lo + Split(n), n - Split(n)))
             /\ m # n /\ ~(m <= Split(n)) =>
                  C(m, n, of, lo) =
                    Append(C(m - Split(n), n - Split(n), "part", lo + Split(n)), T(lo, Split(n)))
  <2>1. ConsistencyStep(leaves, m, n, of, lo)
    BY <1>1, ConsistencyUnfold
  <2> QED BY <2>1 DEF ConsistencyStep
<1>2. \A lo \in Nat, n \in Positive : T(lo, n) \in H
  BY NodesOfHas
<1>3. ASSUME NEW m \in Positive, NEW n \in Positive, m <= n, NEW of \in {"whole", "part"}, NEW lo \in Nat
      PROVE  C(m, n, of, lo) \in Seq(H)
  BY <1>3, ConsistencyPathsType
<1>4. ASSUME NEW m \in Positive, NEW n \in Positive, m <= n,
             NEW of \in {"whole", "part"}, NEW used \in Nat
      PROVE  /\ m = n => Old(m, n, of, used) = New(m, n, of, used)
             /\ m = n /\ of = "whole" /\ used = 0 => Old(m, n, of, used) = h
             /\ m = n /\ of = "part" /\ used = 1 => Old(m, n, of, used) = proof[1]
             /\ m # n /\ used # 0 /\ m <= Split(n) =>
                  /\ Old(m, n, of, used) = Old(m, Split(n), of, used - 1)
                  /\ New(m, n, of, used) = NodeHash(New(m, Split(n), of, used - 1), proof[used])
             /\ m # n /\ used # 0 /\ ~(m <= Split(n)) =>
                  /\ Old(m, n, of, used) =
                       NodeHash(proof[used], Old(m - Split(n), n - Split(n), "part", used - 1))
                  /\ New(m, n, of, used) =
                       NodeHash(proof[used], New(m - Split(n), n - Split(n), "part", used - 1))
  <2>1. ProofStep(h, proof, m, n, of, used)
    BY <1>4, ProofUnfold
  <2> QED BY <2>1 DEF ProofStep
<1>5. ASSUME NEW lo \in Nat, NEW m \in Positive, m # 1
      PROVE  T(lo, m) = NodeHash(T(lo, Split(m)), T(lo + Split(m), m - Split(m)))
  BY <1>5, SubtreeNode
<1> HIDE DEF C, T, H, Old, New
<1>6. Bad = {}
  <2>1. SUFFICES ASSUME Bad # {} PROVE FALSE
    OBVIOUS
  <2>2. PICK n \in Bad : \A b \in Bad : n <= b
    BY <2>1, LeastNatural DEF Positive
  <2>3. PICK m \in Positive, of \in {"whole", "part"}, lo \in Nat :
          In(m, n, of, lo) /\ ~Leads(m, n, of, lo)
    <3> HIDE DEF In, Leads
    <3> QED OBVIOUS
  <2>4. \A j, p \in Positive, w \in {"whole", "part"}, l \in Nat :
          j < n /\ In(p, j, w, l) => Leads(p, j, w, l)
    <3> HIDE DEF In, Leads
    <3>1. \A j \in Positive : j < n => j \notin Bad
      <4> HIDE DEF Bad
      <4>1. n \in Positive
        BY DEF Bad
      <4> QED BY <2>2, <4>1 DEF Positive
    <3> QED BY <3>1
  <2>5. n \in Positive
    OBVIOUS
  <2> HIDE DEF Bad
  <2>6. m <= n
    BY <2>3
  <2>7. m # n
    <3>1. SUFFICES ASSUME m = n PROVE Leads(m, n, of, lo)
      BY <2>3
    <3>2. CASE of = "whole"
      <4>1. Len(C(m, n, of, lo)) = 0
        BY <1>1, <2>5, <2>6, <3>1, <3>2
      <4> QED BY <1>4, <2>3, <2>5, <2>6, <3>1, <3>2, <4>1
    <3>3. CASE of = "part"
      <4>1. C(m, n, of, lo) = <<T(lo, n)>>
        BY <1>1, <2>5, <2>6, <3>1, <3>3
      <4>2. Len(C(m, n, of, lo)) = 1 /\ C(m, n, of, lo)[1] = T(lo, n)
        BY <4>1
      <4>3. proof[1] = T(lo, n)
        BY <2>3, <4>2 DEF StartsWith
      <4>4. Old(m, n, of, 1) = proof[1] /\ New(m, n, of, 1) = proof[1]
        BY <1>4, <2>5, <2>6, <3>1, <3>3
      <4> QED BY <3>1, <4>2, <4>3, <4>4
    <3> QED BY <3>2, <3>3
  <2>8. n # 1
    BY <2>5, <2>6, <2>7 DEF Positive
  <2>9. PICK k \in Positive : k = Split(n) /\ k < n /\ n - k \in Positive /\ n - k < n
    BY <2>5, <2>8, SplitParts
  <2>10. T(lo, n) = NodeHash(T(lo, k), T(lo + k, n - k))
    BY <1>5, <2>5, <2>8, <2>9
  <2>11. lo + k \in Nat
    BY DEF Positive
  <2>12. ASSUME NEW s \in Seq(H), NEW e \in H, C(m, n, of, lo) = Append(s, e)
         PROVE  /\ StartsWith(proof, s) /\ Len(C(m, n, of, lo)) = Len(s) + 1 /\ Len(s) \in Nat
                /\ proof[Len(s) + 1] = e
    <3>1. StartsWith(proof, Append(s, e))
      BY <2>3, <2>12
    <3>2. /\ StartsWith(proof, s) /\ Len(Append(s, e)) = Len(s) + 1 /\ Len(s) \in Nat
          /\ proof[Len(s) + 1] = e
      BY <3>1, StartsWithAppend
    <3> QED BY <2>12, <3>2
  <2>13. CASE m <= k
    <3> DEFINE u == Len(C(m, k, of, lo))
    <3>1. C(m, n, of, lo) = Append(C(m, k, of, lo), T(lo + k, n - k))
      <4>1. m # n /\ m <= Split(n) =>
              C(m, n, of, lo) = Append(C(m, Split(n), of, lo), T(lo + Split(n), n - Split(n)))
        BY <1>1, <2>5, <2>6
      <4> QED BY <2>7, <2>9, <2>13, <4>1, Zenon
    <3>2. C(m, k, of, lo) \in Seq(H) /\ T(lo + k, n - k) \in H
      BY <1>2, <1>3, <2>9, <2>11, <2>13
    <3>3. /\ StartsWith(proof, C(m, k, of, lo)) /\ Len(C(m, n, of, lo)) = u + 1
          /\ u \in Nat /\ proof[u + 1] = T(lo + k, n - k)
      BY <2>12, <3>1, <3>2
    <3>4. Leads(m, k, of, lo)
      <4>1. In(m, k, of, lo)
        BY <2>3, <2>13, <3>3
      <4> HIDE DEF In, Leads
      <4> QED BY <2>4, <2>9, <4>1
    <3>5. Old(m, k, of, u) = T(lo, m) /\ New(m, k, of, u) = T(lo, k)
      BY <3>4
    <3> HIDE DEF u
    <3>6. u + 1 \in Nat /\ u + 1 # 0 /\ (u + 1) - 1 = u
      BY <3>3
    <3>7. /\ Old(m, n, of, u + 1) = Old(m, k, of, u)
          /\ New(m, n, of, u + 1) = NodeHash(New(m, k, of, u), T(lo + k, n - k))
      BY <1>4, <2>5, <2>6, <2>7, <2>9, <2>13, <3>3, <3>6
    <3> QED BY <2>3, <2>10, <3>3, <3>5, <3>7
  <2>14. CASE ~(m <= k)
    <3> DEFINE u == Len(C(m - k, n - k, "part", lo + k))
    <3>1. m - k \in Positive /\ m - k <= n - k /\ m # 1
      BY <2>5, <2>6, <2>9, <2>14 DEF Positive
    <3>2. C(m, n, of, lo) = Append(C(m - k, n - k, "part", lo + k), T(lo, k))
      <4>1. m # n /\ ~(m <= Split(n)) =>
              C(m, n, of, lo) =
                Append(C(m - Split(n), n - Split(n), "part", lo + Split(n)), T(lo, Split(n)))
        BY <1>1, <2>5, <2>6
      <4> QED BY <2>7, <2>9, <2>14, <4>1, Zenon
    <3>3. C(m - k, n - k, "part", lo + k) \in Seq(H) /\ T(lo, k) \in H
      BY <1>2, <1>3, <2>9, <2>11, <3>1
    <3>4. /\ StartsWith(proof, C(m - k, n - k, "part", lo + k))
          /\ Len(C(m, n, of, lo)) = u + 1
          /\ u \in Nat /\ proof[u + 1] = T(lo, k)
      BY <2>12, <3>2, <3>3
    <3>5. Leads(m - k, n - k, "part", lo + k)
      <4>1. In(m - k, n - k, "part", lo + k)
        BY <3>1, <3>4
      <4> HIDE DEF In, Leads
      <4> QED BY <2>4, <2>9, <2>11, <3>1, <4>1
    <3>6. Old(m - k, n - k, "part", u) = T(lo + k, m - k) /\ New(m - k, n - k, "part", u) = T(lo + k, n - k)
      BY <3>5
    <3> HIDE DEF u
    <3>7. u + 1 \in Nat /\ u + 1 # 0 /\ (u + 1) - 1 = u
      BY <3>4
    <3>8. /\ Old(m, n, of, u + 1) = NodeHash(T(lo, k), Old(m - k, n - k, "part", u))
          /\ New(m, n, of, u + 1) = NodeHash(T(lo, k), New(m - k, n - k, "part", u))
      BY <1>4, <2>5, <2>6, <2>7, <2>9, <2>14, <3>4, <3>7
    <3>9. Split(m) = k
      BY <2>5, <2>6, <2>9, <2>14, <3>1, SplitAgrees DEF Positive
    <3>10. T(lo, m) = NodeHash(T(lo, k), T(lo + k, m - k))
      BY <1>5, <3>1, <3>9
    <3> QED BY <2>3, <2>10, <3>4, <3>6, <3>8, <3>10
  <2> QED BY <2>13, <2>14
<1>7. Leads(m0, n0, of0, lo0)
  <2>1. In(m0, n0, of0, lo0)
    BY DEF C, T
  <2> HIDE DEF In, Leads
  <2> QED BY <1>6, <2>1
<1> QED BY <1>7 DEF C, T, Old, New, ProofLeads

(***************************************************************************)
(* prove_consistency and verify_consistency: the proof for an old tree     *)
(* that is a prefix of the new one, and not empty, is accepted.            *)
(***************************************************************************)
THEOREM ConsistencyProofsComplete ==
  ASSUME NEW S, NEW old \in Seq(S), NEW new \in Seq(S), Len(old) # 0, Len(old) <= Len(new),
         \A i \in 1..Len(old) : old[i] = new[i]
  PROVE  VerifyConsistency(Root(old), Root(new), ConsistencyPath(new, Len(old)))
<1> DEFINE proof == ConsistencyPath(new, Len(old))
           h == TreeHash(old)
           O == OldHash(h, proof, Len(old), Len(new), "whole", Len(proof))
           N == NewHash(h, proof, Len(old), Len(new), "whole", Len(proof))
<1>1. Len(old) \in Positive /\ Len(new) \in Positive /\ old # << >> /\ new # << >>
  BY DEF Positive
<1>2. proof = ConsistencyPaths(new)[<<Len(old), Len(new), "whole", 0>>]
  BY DEF ConsistencyPath
<1>3. StartsWith(proof, ConsistencyPaths(new)[<<Len(old), Len(new), "whole", 0>>])
  BY <1>2 DEF StartsWith
<1>4. h = SubtreeHashes(old)[<<0, Len(old)>>]
  BY <1>1 DEF TreeHash
<1>5. Agree(old, new, 0, Len(old))
  BY DEF Agree
<1>6. h = SubtreeHashes(new)[<<0, Len(old)>>]
  BY <1>1, <1>4, <1>5, SubtreesAgree
<1>7. ProofLeads(new, h, proof, Len(old), Len(new), "whole", 0)
  <2> HIDE DEF proof, h
  <2> QED BY <1>1, <1>3, <1>6, ConsistencyPathLeads
<1>8. O = TreeHash(old) /\ N = TreeHash(new)
  <2>1. O = SubtreeHashes(new)[<<0, Len(old)>>] /\ N = SubtreeHashes(new)[<<0, Len(new)>>]
    BY <1>2, <1>7 DEF ProofLeads
  <2> QED BY <1>1, <1>6, <2>1 DEF TreeHash
<1>9. RootsFromProof(h, Len(old), Len(new), proof) = <<O, N>>
  <2>1. proof \in Seq(NodesOf(new))
    BY <1>1, <1>2, ConsistencyPathsType
  <2>2. Len(proof) \in Nat
    BY <2>1
  <2> HIDE DEF h, proof
  <2>3. ProofStep(h, proof, Len(old), Len(new), "whole", Len(proof))
    BY <1>1, <2>2, ProofUnfold
  <2> QED BY <2>3 DEF ProofStep, RootsFromProof
<1> QED BY <1>8, <1>9 DEF VerifyConsistency, Root

-----------------------------------------------------------------------------
\* The length of proofs.

LEMMA InclusionPathShort ==
  ASSUME NEW leaves, NEW i, NEW lo0 \in Nat, NEW n0 \in Positive, NEW h0 \in Nat, n0 <= TwoTo[h0]
  PROVE  Len(InclusionPaths(leaves, i)[<<lo0, n0>>]) <= h0
<1> DEFINE
      Up(lo, n) == InclusionPaths(leaves, i)[<<lo, n>>]
      T(lo, n) == SubtreeHashes(leaves)[<<lo, n>>]
      H == NodesOf(leaves)
      Short(lo, n, h) == Len(Up(lo, n)) <= h
      Bad == {n \in Positive : \E lo, h \in Nat : n <= TwoTo[h] /\ ~Short(lo, n, h)}
<1>1. ASSUME NEW lo \in Nat, NEW n \in Positive
      PROVE  /\ n = 1 => Up(lo, n) = << >>
             /\ n # 1 => \/ Up(lo, n) = Append(Up(lo, Split(n)), T(lo + Split(n), n - Split(n)))
                         \/ Up(lo, n) = Append(Up(lo + Split(n), n - Split(n)), T(lo, Split(n)))
  <2>1. InclusionStep(leaves, i, lo, n)
    BY InclusionUnfold
  <2> QED BY <2>1 DEF InclusionStep
<1>2. \A lo \in Nat, n \in Positive : T(lo, n) \in H /\ Up(lo, n) \in Seq(H)
  BY NodesOfHas, InclusionPathsType
<1> HIDE DEF Up, T, H
<1>3. SUFFICES ASSUME Bad # {} PROVE FALSE
  BY DEF Up
<1>4. PICK n \in Bad : \A b \in Bad : n <= b
  BY <1>3, LeastNatural DEF Positive
<1>5. PICK lo \in Nat, h \in Nat : n <= TwoTo[h] /\ ~Short(lo, n, h)
  OBVIOUS
<1>6. n \in Positive
  OBVIOUS
<1>7. \A m \in Positive, l, g \in Nat : m < n /\ m <= TwoTo[g] => Short(l, m, g)
  <2> HIDE DEF Short
  <2>1. \A m \in Positive : m < n => m \notin Bad
    <3> HIDE DEF Bad
    <3> QED BY <1>4, <1>6 DEF Positive
  <2> QED BY <2>1
<1> HIDE DEF Bad
<1>8. n # 1
  <2>1. n = 1 => Len(Up(lo, n)) = 0
    BY <1>1, <1>6
  <2> QED BY <1>5, <2>1
<1>9. PICK k \in Positive : k = Split(n) /\ k < n /\ n - k \in Positive /\ n - k < n
  BY <1>6, <1>8, SplitParts
<1>10. h - 1 \in Nat /\ k <= TwoTo[h - 1] /\ n - k <= TwoTo[h - 1]
  BY <1>5, <1>6, <1>8, <1>9, SplitHalves
<1>11. lo + k \in Nat
  BY DEF Positive
<1>12. Short(lo, k, h - 1) /\ Short(lo + k, n - k, h - 1)
  <2> HIDE DEF Short
  <2> QED BY <1>7, <1>9, <1>10, <1>11
<1>13. ASSUME NEW s \in Seq(H), NEW e \in H, Len(s) <= h - 1, Up(lo, n) = Append(s, e)
       PROVE  Len(Up(lo, n)) <= h
  BY <1>13, <1>10
<1>14. \/ Up(lo, n) = Append(Up(lo, k), T(lo + k, n - k))
       \/ Up(lo, n) = Append(Up(lo + k, n - k), T(lo, k))
  BY <1>1, <1>6, <1>8, <1>9
<1>15. /\ Up(lo, k) \in Seq(H) /\ Up(lo + k, n - k) \in Seq(H)
       /\ T(lo, k) \in H /\ T(lo + k, n - k) \in H
  BY <1>2, <1>9, <1>11
<1> QED BY <1>5, <1>12, <1>13, <1>14, <1>15

(***************************************************************************)
(* The comment at MAX_INCLUSION_HASHES: an inclusion path in a tree of at  *)
(* most 2^h leaves has at most h nodes.                                    *)
(***************************************************************************)
THEOREM InclusionPathLength ==
  ASSUME NEW S, NEW t \in Seq(S), NEW i \in Nat, i < Len(t), NEW h \in Nat, Len(t) <= TwoTo[h]
  PROVE  Len(InclusionPath(t, i)) <= h
<1>1. Len(t) \in Positive
  BY DEF Positive
<1> QED BY <1>1, InclusionPathShort DEF InclusionPath

LEMMA ConsistencyPathShort ==
  ASSUME NEW leaves, NEW m0 \in Positive, NEW n0 \in Positive, m0 <= n0,
         NEW of0 \in {"whole", "part"}, NEW lo0 \in Nat, NEW h0 \in Nat, n0 <= TwoTo[h0]
  PROVE  Len(ConsistencyPaths(leaves)[<<m0, n0, of0, lo0>>]) <= h0 + 1
<1> DEFINE
      C(m, n, of, lo) == ConsistencyPaths(leaves)[<<m, n, of, lo>>]
      T(lo, n) == SubtreeHashes(leaves)[<<lo, n>>]
      H == NodesOf(leaves)
      Short(m, n, of, lo, h) == Len(C(m, n, of, lo)) <= h + 1
      Bad == {n \in Positive : \E m \in Positive, of \in {"whole", "part"}, lo, h \in Nat :
                m <= n /\ n <= TwoTo[h] /\ ~Short(m, n, of, lo, h)}
<1>1. ASSUME NEW m \in Positive, NEW n \in Positive, m <= n, NEW of \in {"whole", "part"}, NEW lo \in Nat
      PROVE  /\ m = n => C(m, n, of, lo) = << >> \/ C(m, n, of, lo) = <<T(lo, n)>>
             /\ m # n /\ m <= Split(n) =>
                  C(m, n, of, lo) = Append(C(m, Split(n), of, lo), T(lo + Split(n), n - Split(n)))
             /\ m # n /\ ~(m <= Split(n)) =>
                  C(m, n, of, lo) =
                    Append(C(m - Split(n), n - Split(n), "part", lo + Split(n)), T(lo, Split(n)))
  <2>1. ConsistencyStep(leaves, m, n, of, lo)
    BY <1>1, ConsistencyUnfold
  <2> QED BY <2>1 DEF ConsistencyStep
<1>2. \A lo \in Nat, n \in Positive : T(lo, n) \in H
  BY NodesOfHas
<1>3. ASSUME NEW m \in Positive, NEW n \in Positive, m <= n, NEW of \in {"whole", "part"}, NEW lo \in Nat
      PROVE  C(m, n, of, lo) \in Seq(H)
  BY <1>3, ConsistencyPathsType
<1> HIDE DEF C, T, H
<1>4. SUFFICES ASSUME Bad # {} PROVE FALSE
  BY DEF C
<1>5. PICK n \in Bad : \A b \in Bad : n <= b
  BY <1>4, LeastNatural DEF Positive
<1>6. PICK m \in Positive, of \in {"whole", "part"}, lo \in Nat, h \in Nat :
        m <= n /\ n <= TwoTo[h] /\ ~Short(m, n, of, lo, h)
  OBVIOUS
<1>7. n \in Positive
  OBVIOUS
<1>8. \A j, p \in Positive, w \in {"whole", "part"}, l, g \in Nat :
        j < n /\ p <= j /\ j <= TwoTo[g] => Short(p, j, w, l, g)
  <2> HIDE DEF Short
  <2>1. \A j \in Positive : j < n => j \notin Bad
    <3> HIDE DEF Bad
    <3> QED BY <1>5, <1>7 DEF Positive
  <2> QED BY <2>1
<1> HIDE DEF Bad
<1>9. m # n
  <2>1. m = n => C(m, n, of, lo) = << >> \/ C(m, n, of, lo) = <<T(lo, n)>>
    BY <1>1, <1>6, <1>7
  <2>2. Len(<< >>) = 0 /\ Len(<<T(lo, n)>>) = 1
    OBVIOUS
  <2>3. m = n => Len(C(m, n, of, lo)) = 0 \/ Len(C(m, n, of, lo)) = 1
    BY <2>1, <2>2
  <2>4. 0 <= h + 1 /\ 1 <= h + 1
    OBVIOUS
  <2>5. \A x : (x = 0 \/ x = 1) => x <= h + 1
    BY <2>4
  <2>6. m = n => Short(m, n, of, lo, h)
    BY <2>3, <2>5
  <2> HIDE DEF Short
  <2> QED BY <1>6, <2>6
<1>10. n # 1
  BY <1>6, <1>7, <1>9 DEF Positive
<1>11. PICK k \in Positive : k = Split(n) /\ k < n /\ n - k \in Positive /\ n - k < n
  BY <1>7, <1>10, SplitParts
<1>12. h - 1 \in Nat /\ k <= TwoTo[h - 1] /\ n - k <= TwoTo[h - 1] /\ (h - 1) + 1 = h
  BY <1>6, <1>7, <1>10, <1>11, SplitHalves
<1>13. lo + k \in Nat
  BY DEF Positive
<1>14. ASSUME NEW s \in Seq(H), NEW e \in H, Len(s) <= h, C(m, n, of, lo) = Append(s, e)
       PROVE  FALSE
  BY <1>6, <1>14
<1>15. CASE m <= k
  <2>1. C(m, n, of, lo) = Append(C(m, k, of, lo), T(lo + k, n - k))
    BY <1>1, <1>6, <1>7, <1>9, <1>11, <1>15
  <2>2. C(m, k, of, lo) \in Seq(H) /\ T(lo + k, n - k) \in H
    BY <1>2, <1>3, <1>11, <1>13, <1>15
  <2>3. Short(m, k, of, lo, h - 1)
    <3> HIDE DEF Short
    <3> QED BY <1>8, <1>11, <1>12, <1>15
  <2> QED BY <1>12, <1>14, <2>1, <2>2, <2>3
<1>16. CASE ~(m <= k)
  <2>1. C(m, n, of, lo) = Append(C(m - k, n - k, "part", lo + k), T(lo, k))
    BY <1>1, <1>6, <1>7, <1>9, <1>11, <1>16
  <2>2. m - k \in Positive /\ m - k <= n - k
    BY <1>6, <1>7, <1>11, <1>16 DEF Positive
  <2>3. C(m - k, n - k, "part", lo + k) \in Seq(H) /\ T(lo, k) \in H
    BY <1>2, <1>3, <1>11, <1>13, <2>2
  <2>4. Short(m - k, n - k, "part", lo + k, h - 1)
    <3> HIDE DEF Short
    <3> QED BY <1>8, <1>11, <1>12, <1>13, <2>2
  <2> QED BY <1>12, <1>14, <2>1, <2>3, <2>4
<1> QED BY <1>15, <1>16

(***************************************************************************)
(* A consistency proof for a tree of at most 2^h leaves has at most h + 1  *)
(* nodes, half of what the comment at MAX_CONSISTENCY_HASHES allows for.   *)
(***************************************************************************)
THEOREM ConsistencyPathLength ==
  ASSUME NEW S, NEW t \in Seq(S), NEW m \in Nat, m # 0, m <= Len(t),
         NEW h \in Nat, Len(t) <= TwoTo[h]
  PROVE  Len(ConsistencyPath(t, m)) <= h + 1
<1>1. Len(t) \in Positive /\ m \in Positive
  BY DEF Positive
<1>2. "whole" \in {"whole", "part"} /\ 0 \in Nat
  OBVIOUS
<1>3. Len(ConsistencyPaths(t)[<<m, Len(t), "whole", 0>>]) <= h + 1
  BY <1>1, <1>2, ConsistencyPathShort
<1> QED BY <1>3 DEF ConsistencyPath

=============================================================================

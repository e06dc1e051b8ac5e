-------------------------- MODULE RadixTree_proofs --------------------------
(***************************************************************************)
(* The trie of RadixTree stays one radix trie and its counters exact, for  *)
(* every slab size, address width, set of keys and of timestamps; it       *)
(* implements the map of RouteMap, and one sweep leaves nothing to reclaim *)
(* and less than two nodes for a route.  Every call ends, after a number   *)
(* of steps that depends on the length of an address alone, or on the      *)
(* number of nodes for a sweep.                                            *)
(*                                                                         *)
(* What is read off it is right too: a lookup walks one path of it and     *)
(* finds the longest match among all its nodes; whoever copies the slots   *)
(* reported to the dirty callback misses no change; and between calls no   *)
(* node's timestamp is below a child's, while timestamps arrive in order.  *)
(*                                                                         *)
(* The first part is about the order of prefixes, and about what insert    *)
(* and sweep_tombstones do to the shape of the trie, apart from the call   *)
(* that does it.  Covers is defined through CommonPrefixLen, a maximum;    *)
(* from CommonPrefixAgrees on nothing looks at the maximum or at single    *)
(* bits again.  A shape is a set of nodes L with their prefixes P and      *)
(* child pointers K, and an entry e.  Three rewirings are shown to keep it *)
(* one trie: hanging a leaf on an empty slot, putting a node above         *)
(* another, and replacing a node by its only child.                        *)
(***************************************************************************)
EXTENDS RadixLookup, RadixHistory, WellFoundedInduction, FiniteSetTheorems,
        SequenceTheorems, TLAPS

-----------------------------------------------------------------------------
\* Prefixes.

LEMMA NaturalMinimum ==
  ASSUME NEW S \in SUBSET Nat, S # {}
  PROVE  \E x \in S : \A y \in S : x <= y
<1> DEFINE R == {ss \in Nat \X Nat : ss[1] < ss[2]}
<1>1. R = OpToRel(<, Nat)
  BY Zenon DEF OpToRel
<1>2. IsWellFoundedOn(R, Nat)
  BY <1>1, NatLessThanWellFounded, Zenon
<1>3. ASSUME NEW x \in Nat, NEW y \in Nat, <<y, x>> \notin R
      PROVE  x <= y
  BY <1>3
<1> HIDE DEF R
<1>4. \E x \in S : \A y \in S : <<y, x>> \notin R
  BY <1>2, WFMin
<1> QED
  BY <1>3, <1>4

LEMMA MaxProperties ==
  ASSUME NEW m \in Nat, NEW S \in SUBSET (0 .. m), S # {}
  PROVE  Max(S) \in S /\ \A y \in S : y <= Max(S)
<1> DEFINE T == {m - y : y \in S}
<1>1. T \in SUBSET Nat /\ T # {}
  <2>1. \A y \in S : m - y \in Nat
    OBVIOUS
  <2> QED
    BY <2>1
<1>2. PICK t \in T : \A u \in T : t <= u
  BY <1>1, NaturalMinimum
<1>3. PICK x \in S : t = m - x
  OBVIOUS
<1>4. ASSUME NEW y \in S
      PROVE  x >= y
  <2>1. t <= m - y
    BY <1>2
  <2> QED
    BY <1>3, <2>1
<1> QED
  BY <1>4 DEF Max

LEMMA PrefixShape ==
  ASSUME NEW p \in Prefix
  PROVE  /\ Len(p) \in 0 .. MaxLen
         /\ p \in [1 .. Len(p) -> Bit]
         /\ \A k \in 1 .. Len(p) : p[k] \in Bit
<1>1. PICK n \in 0 .. MaxLen : p \in [1 .. n -> Bit]
  BY DEF Prefix
<1>2. p \in Seq(Bit) /\ Len(p) = n
  BY <1>1, MaxLenAssumption
<1> QED
  BY <1>1, <1>2

LEMMA PrefixEqual ==
  ASSUME NEW p \in Prefix, NEW q \in Prefix,
         Len(p) = Len(q), \A k \in 1 .. Len(p) : p[k] = q[k]
  PROVE  p = q
BY PrefixShape

\* The common length is the greatest up to which the two agree.
LEMMA CommonPrefixAgrees ==
  ASSUME NEW p \in Prefix, NEW q \in Prefix
  PROVE  LET c == CommonPrefixLen(p, q)
         IN  /\ c \in 0 .. MaxLen
             /\ AgreeOn(p, q, c)
             /\ \A n \in 0 .. MaxLen : AgreeOn(p, q, n) => n <= c
<1> DEFINE S == {n \in 0 .. MaxLen : AgreeOn(p, q, n)}
<1>1. S \in SUBSET (0 .. MaxLen) /\ 0 \in S
  BY PrefixShape, MaxLenAssumption DEF AgreeOn
<1>2. Max(S) \in S /\ \A y \in S : y <= Max(S)
  BY <1>1, MaxProperties, MaxLenAssumption
<1> QED
  BY <1>2 DEF CommonPrefixLen

LEMMA CommonPrefixBounds ==
  ASSUME NEW p \in Prefix, NEW q \in Prefix
  PROVE  /\ CommonPrefixLen(p, q) \in 0 .. MaxLen
         /\ CommonPrefixLen(p, q) <= Len(p)
         /\ CommonPrefixLen(p, q) <= Len(q)
         /\ Len(p) \in 0 .. MaxLen
         /\ Len(q) \in 0 .. MaxLen
BY CommonPrefixAgrees, PrefixShape DEF AgreeOn

\* Where neither prefix ends, the two have different bits after the common ones.
LEMMA CommonPrefixParts ==
  ASSUME NEW p \in Prefix, NEW q \in Prefix,
         CommonPrefixLen(p, q) < Len(p), CommonPrefixLen(p, q) < Len(q)
  PROVE  BitAt(p, CommonPrefixLen(p, q)) # BitAt(q, CommonPrefixLen(p, q))
<1> DEFINE c == CommonPrefixLen(p, q)
<1>1. /\ c \in 0 .. MaxLen
      /\ AgreeOn(p, q, c)
      /\ \A n \in 0 .. MaxLen : AgreeOn(p, q, n) => n <= c
      /\ Len(p) \in 0 .. MaxLen
      /\ c < Len(p)
      /\ c < Len(q)
  BY CommonPrefixAgrees, CommonPrefixBounds
<1> HIDE DEF c
<1>2. c + 1 \in 0 .. MaxLen /\ ~ AgreeOn(p, q, c + 1)
  BY <1>1, MaxLenAssumption
<1>3. p[c + 1] # q[c + 1]
  BY <1>1, <1>2, CommonPrefixBounds DEF AgreeOn
<1> QED
  BY <1>3 DEF BitAt, c

\* Covers without the maximum: p is the beginning of q.
LEMMA CoversBits ==
  ASSUME NEW p \in Prefix, NEW q \in Prefix
  PROVE  Covers(p, q) <=> Len(p) <= Len(q) /\ \A k \in 1 .. Len(p) : p[k] = q[k]
<1> DEFINE c == CommonPrefixLen(p, q)
<1>1. /\ c \in 0 .. MaxLen
      /\ AgreeOn(p, q, c)
      /\ \A n \in 0 .. MaxLen : AgreeOn(p, q, n) => n <= c
      /\ Len(p) \in 0 .. MaxLen
      /\ c <= Len(p)
      /\ Covers(p, q) <=> c = Len(p)
  BY CommonPrefixAgrees, CommonPrefixBounds DEF Covers
<1> HIDE DEF c
<1>2. AgreeOn(p, q, Len(p)) => Len(p) <= c
  BY <1>1
<1>3. AgreeOn(p, q, Len(p)) <=> Covers(p, q)
  BY <1>1, <1>2, MaxLenAssumption
<1> QED
  BY <1>3, <1>1 DEF AgreeOn

-----------------------------------------------------------------------------
\* Covers is a partial order in which what lies above a prefix is a chain.

LEMMA CoversReflexive ==
  ASSUME NEW p \in Prefix
  PROVE  Covers(p, p)
BY CoversBits, PrefixShape

LEMMA CoversTransitive ==
  ASSUME NEW p \in Prefix, NEW q \in Prefix, NEW r \in Prefix,
         Covers(p, q), Covers(q, r)
  PROVE  Covers(p, r)
<1> USE PrefixShape
<1>1. Len(p) <= Len(q) /\ \A k \in 1 .. Len(p) : p[k] = q[k]
  BY CoversBits
<1>2. Len(q) <= Len(r) /\ \A k \in 1 .. Len(q) : q[k] = r[k]
  BY CoversBits
<1>3. Len(p) <= Len(r) /\ \A k \in 1 .. Len(p) : p[k] = r[k]
  BY <1>1, <1>2
<1> QED
  BY <1>3, CoversBits

LEMMA CoversAntisymmetric ==
  ASSUME NEW p \in Prefix, NEW q \in Prefix, Covers(p, q), Covers(q, p)
  PROVE  p = q
<1>1. Len(p) = Len(q)
  BY CoversBits, PrefixShape
<1> QED
  BY <1>1, CoversBits, PrefixEqual

LEMMA CoversChain ==
  ASSUME NEW p \in Prefix, NEW q \in Prefix, NEW r \in Prefix,
         Covers(p, r), Covers(q, r)
  PROVE  Covers(p, q) \/ Covers(q, p)
<1>1. /\ Len(p) <= Len(r) /\ \A k \in 1 .. Len(p) : p[k] = r[k]
      /\ Len(q) <= Len(r) /\ \A k \in 1 .. Len(q) : q[k] = r[k]
      /\ Len(p) \in Nat /\ Len(q) \in Nat
  BY CoversBits, PrefixShape
<1>2. CASE Len(p) <= Len(q)
  <2>1. \A k \in 1 .. Len(p) : p[k] = q[k]
    BY <1>1, <1>2
  <2> QED
    BY <1>2, <2>1, CoversBits
<1>3. CASE Len(q) <= Len(p)
  <2>1. \A k \in 1 .. Len(q) : q[k] = p[k]
    BY <1>1, <1>3
  <2> QED
    BY <1>3, <2>1, CoversBits
<1> QED
  BY <1>1, <1>2, <1>3

\* What lies strictly below a prefix is longer, on the side of its next bit.
LEMMA StrictlyLonger ==
  ASSUME NEW p \in Prefix, NEW q \in Prefix, StrictlyCovers(p, q)
  PROVE  Len(p) < Len(q) /\ BitAt(q, Len(p)) \in Bit
<1>1. /\ Len(p) <= Len(q) /\ \A k \in 1 .. Len(p) : p[k] = q[k]
      /\ Len(p) \in Nat /\ Len(q) \in Nat
  BY CoversBits, PrefixShape DEF StrictlyCovers
<1>2. Len(p) # Len(q)
  BY <1>1, PrefixEqual DEF StrictlyCovers
<1>3. Len(p) + 1 \in 1 .. Len(q)
  BY <1>1, <1>2
<1> QED
  BY <1>1, <1>2, <1>3, PrefixShape DEF BitAt

LEMMA SameSide ==
  ASSUME NEW p \in Prefix, NEW q \in Prefix, NEW r \in Prefix,
         StrictlyCovers(p, q), Covers(q, r)
  PROVE  StrictlyCovers(p, r) /\ BitAt(r, Len(p)) = BitAt(q, Len(p))
<1>1. Len(p) < Len(q) /\ Len(p) \in Nat /\ Len(q) \in Nat
  BY StrictlyLonger, PrefixShape
<1>2. Len(q) <= Len(r) /\ \A k \in 1 .. Len(q) : q[k] = r[k]
  BY CoversBits
<1>3. Covers(p, r)
  BY CoversTransitive DEF StrictlyCovers
<1>4. p # r
  BY CoversAntisymmetric DEF StrictlyCovers
<1>5. Len(p) + 1 \in 1 .. Len(q)
  BY <1>1
<1> QED
  BY <1>2, <1>3, <1>4, <1>5 DEF StrictlyCovers, BitAt

\* Strictly above something above.
LEMMA StrictlyAbove ==
  ASSUME NEW p \in Prefix, NEW q \in Prefix, NEW r \in Prefix,
         Covers(p, q), StrictlyCovers(q, r)
  PROVE  StrictlyCovers(p, r)
BY CoversTransitive, CoversAntisymmetric DEF StrictlyCovers

-----------------------------------------------------------------------------
\* Where the key of a call lies relative to the prefix of a node.

\* The key is the shorter of the two, and covers the node's prefix.
LEMMA KeyAbove ==
  ASSUME NEW p \in Prefix, NEW q \in Prefix, p # q, CommonPrefixLen(q, p) = Len(q)
  PROVE  StrictlyCovers(q, p)
BY DEF Covers, StrictlyCovers

\* The node's prefix is the shorter of the two, and covers the key.
LEMMA KeyBelow ==
  ASSUME NEW p \in Prefix, NEW q \in Prefix, p # q, CommonPrefixLen(q, p) = Len(p)
  PROVE  StrictlyCovers(p, q)
<1>1. Len(p) <= Len(q) /\ AgreeOn(q, p, Len(p))
  BY CommonPrefixAgrees, CommonPrefixBounds
<1> QED
  BY <1>1, CoversBits, PrefixShape DEF AgreeOn, StrictlyCovers

\* Neither covers the other: both are strictly below their common part, and on
\* different sides of it.
LEMMA KeyApart ==
  ASSUME NEW p \in Prefix, NEW q \in Prefix,
         CommonPrefixLen(q, p) # Len(p), CommonPrefixLen(q, p) # Len(q)
  PROVE  LET c == CommonPrefixLen(q, p)
             m == Masked(q, c)
         IN  /\ m \in Prefix
             /\ Len(m) = c
             /\ StrictlyCovers(m, p)
             /\ StrictlyCovers(m, q)
             /\ BitAt(q, c) # BitAt(p, c)
<1> DEFINE c == CommonPrefixLen(q, p)
           m == Masked(q, c)
<1>1. /\ c \in 0 .. MaxLen
      /\ Len(p) \in 0 .. MaxLen /\ Len(q) \in 0 .. MaxLen
      /\ c < Len(p) /\ c < Len(q)
      /\ \A k \in 1 .. c : q[k] = p[k]
      /\ BitAt(q, c) # BitAt(p, c)
  BY CommonPrefixBounds, CommonPrefixAgrees, CommonPrefixParts DEF AgreeOn
<1> HIDE DEF c
<1>2. \A k \in 1 .. c : m[k] = q[k] /\ q[k] \in Bit
  BY <1>1, PrefixShape DEF Masked
<1>3. m \in [1 .. c -> Bit]
  BY <1>2 DEF Masked
<1>4. m \in Prefix /\ Len(m) = c
  <2>1. m \in Seq(Bit) /\ Len(m) = c
    BY <1>1, <1>3
  <2> QED
    BY <1>1, <1>3, <2>1 DEF Prefix
<1>5. Covers(m, p) /\ Covers(m, q)
  BY <1>1, <1>2, <1>4, CoversBits
<1>6. m # p /\ m # q
  BY <1>1, <1>4
<1> QED
  BY <1>1, <1>4, <1>5, <1>6 DEF StrictlyCovers, c

\* What is strictly above both of them, with both on the same side, is strictly
\* above their common part.
LEMMA AboveCommon ==
  ASSUME NEW p \in Prefix, NEW q \in Prefix, NEW r \in Prefix, NEW m \in Prefix,
         m = Masked(q, CommonPrefixLen(q, p)),
         Len(m) = CommonPrefixLen(q, p),
         StrictlyCovers(r, p), StrictlyCovers(r, q),
         BitAt(p, Len(r)) = BitAt(q, Len(r))
  PROVE  StrictlyCovers(r, m)
<1>1. /\ Len(r) < Len(p) /\ Len(r) < Len(q)
      /\ Len(r) \in 0 .. MaxLen /\ Len(p) \in 0 .. MaxLen /\ Len(q) \in 0 .. MaxLen
      /\ \A k \in 1 .. Len(r) : r[k] = p[k] /\ r[k] = q[k]
      /\ p[Len(r) + 1] = q[Len(r) + 1]
  BY StrictlyLonger, PrefixShape, CoversBits DEF StrictlyCovers, BitAt
<1>2. AgreeOn(q, p, Len(r) + 1) /\ Len(r) + 1 \in 0 .. MaxLen
  BY <1>1, MaxLenAssumption DEF AgreeOn
<1>3. Len(r) < Len(m) /\ Len(m) \in 0 .. MaxLen
  BY <1>1, <1>2, CommonPrefixAgrees
<1>4. \A k \in 1 .. Len(m) : m[k] = q[k]
  BY <1>3 DEF Masked
<1>5. \A k \in 1 .. Len(r) : r[k] = m[k]
  BY <1>1, <1>3, <1>4
<1>6. Covers(r, m) /\ r # m
  BY <1>1, <1>3, <1>5, CoversBits
<1> QED
  BY <1>6 DEF StrictlyCovers

-----------------------------------------------------------------------------
\* Shapes.

Kids(L) == [L -> [Bit -> Idx \cup {None}]]

KidToward(P, K, i, p) == K[i][BitAt(p, Len(P[i]))]

\* The four parts of TrieOK, of a shape.
EntryAbove(L, P, e) ==
  IF e = None THEN L = {} ELSE e \in L /\ \A i \in L : Covers(P[e], P[i])

EdgesDown(L, P, K) ==
  \A i \in L, b \in Bit :
    K[i][b] # None =>
      /\ K[i][b] \in L
      /\ StrictlyCovers(P[i], P[K[i][b]])
      /\ BitAt(P[K[i][b]], Len(P[i])) = b

PathsWhole(L, P, K) ==
  \A i, j \in L :
    StrictlyCovers(P[i], P[j]) =>
      /\ KidToward(P, K, i, P[j]) # None
      /\ Covers(P[KidToward(P, K, i, P[j])], P[j])

NoTwins(L, P) == \A i, j \in L : P[i] = P[j] => i = j

Shape(L, P, K, e) ==
  /\ L \subseteq Idx
  /\ P \in [L -> Prefix]
  /\ K \in Kids(L)
  /\ e \in Idx \cup {None}
  /\ EntryAbove(L, P, e)
  /\ EdgesDown(L, P, K)
  /\ PathsWhole(L, P, K)
  /\ NoTwins(L, P)

\* PathsWhole with what it implies of the child on the path.
LEMMA PathChild ==
  ASSUME NEW L, NEW P, NEW K, NEW e, Shape(L, P, K, e),
         NEW i \in L, NEW j \in L, StrictlyCovers(P[i], P[j])
  PROVE  LET b == BitAt(P[j], Len(P[i]))
         IN  /\ b \in Bit
             /\ K[i][b] \in L
             /\ StrictlyCovers(P[i], P[K[i][b]])
             /\ Covers(P[K[i][b]], P[j])
<1>1. P[i] \in Prefix /\ P[j] \in Prefix
  BY DEF Shape
<1>2. BitAt(P[j], Len(P[i])) \in Bit
  BY <1>1, StrictlyLonger
<1> QED
  BY <1>2 DEF Shape, PathsWhole, KidToward, EdgesDown

\* No node has two parents, and the entry has none.
LEMMA OneParent ==
  ASSUME NEW L, NEW P, NEW K, NEW e, Shape(L, P, K, e),
         NEW i \in L, NEW b \in Bit, K[i][b] # None
  PROVE  /\ K[i][b] # e
         /\ \A j \in L, c \in Bit : K[j][c] = K[i][b] => j = i /\ c = b
<1> DEFINE k == K[i][b]
<1>1. /\ k \in L
      /\ StrictlyCovers(P[i], P[k])
      /\ BitAt(P[k], Len(P[i])) = b
  BY DEF Shape, EdgesDown
<1>2. \A x \in L : P[x] \in Prefix
  BY DEF Shape
<1>3. k # e
  <2> SUFFICES ASSUME k = e PROVE FALSE
    OBVIOUS
  <2>1. Covers(P[k], P[i])
    BY <1>1, TreeAssumption DEF Shape, EntryAbove
  <2> QED
    BY <1>1, <1>2, <2>1, CoversAntisymmetric DEF StrictlyCovers
<1>4. ASSUME NEW x \in L, NEW y \in L, NEW c \in Bit, NEW d \in Bit,
             K[x][c] = k, K[y][d] = k, StrictlyCovers(P[x], P[y])
      PROVE  FALSE
  <2>1. /\ StrictlyCovers(P[y], P[k])
        /\ BitAt(P[k], Len(P[x])) = c
    BY <1>1, <1>4 DEF Shape, EdgesDown
  <2>2. BitAt(P[y], Len(P[x])) = c
    BY <1>1, <1>2, <1>4, <2>1, SameSide DEF StrictlyCovers
  <2>3. Covers(P[k], P[y])
    BY <1>4, <2>2, PathChild
  <2> QED
    BY <1>1, <1>2, <2>1, <2>3, CoversAntisymmetric DEF StrictlyCovers
<1>5. ASSUME NEW j \in L, NEW c \in Bit, K[j][c] = k
      PROVE  j = i /\ c = b
  <2>1. /\ StrictlyCovers(P[j], P[k])
        /\ BitAt(P[k], Len(P[j])) = c
    BY <1>1, <1>5 DEF Shape, EdgesDown
  <2>2. Covers(P[i], P[j]) \/ Covers(P[j], P[i])
    BY <1>1, <1>2, <2>1, CoversChain DEF StrictlyCovers
  <2>3. P[i] = P[j]
    BY <1>4, <1>5, <2>2 DEF StrictlyCovers
  <2>4. i = j
    BY <2>3 DEF Shape, NoTwins
  <2> QED
    BY <1>1, <2>1, <2>4
<1> QED
  BY <1>3, <1>5

\* Every node but the entry has a parent: the deepest node above it.
LEMMA Parent ==
  ASSUME NEW L, NEW P, NEW K, NEW e, Shape(L, P, K, e),
         NEW i \in L, i # e
  PROVE  \E j \in L, b \in Bit : K[j][b] = i
<1> DEFINE Lengths == {Len(P[j]) : j \in {x \in L : StrictlyCovers(P[x], P[i])}}
<1>1. \A x \in L : P[x] \in Prefix /\ Len(P[x]) \in 0 .. MaxLen
  BY PrefixShape DEF Shape
<1>2. e \in L /\ StrictlyCovers(P[e], P[i])
  BY TreeAssumption DEF Shape, EntryAbove, NoTwins, StrictlyCovers
<1>3. Lengths \in SUBSET (0 .. MaxLen) /\ Lengths # {}
  BY <1>1, <1>2
<1>4. PICK m \in Lengths : \A n \in Lengths : n <= m
  BY <1>3, MaxProperties, MaxLenAssumption
<1>5. PICK j \in L : StrictlyCovers(P[j], P[i]) /\ Len(P[j]) = m
  BY <1>4
<1> DEFINE b == BitAt(P[i], Len(P[j]))
           k == K[j][b]
<1>6. /\ b \in Bit
      /\ k \in L
      /\ StrictlyCovers(P[j], P[k])
      /\ Covers(P[k], P[i])
  BY <1>5, PathChild
<1>7. CASE k = i
  BY <1>6, <1>7
<1>8. CASE k # i
  <2>1. StrictlyCovers(P[k], P[i])
    BY <1>6, <1>8 DEF Shape, NoTwins, StrictlyCovers
  <2>2. Len(P[k]) <= m
    BY <1>4, <1>6, <2>1
  <2>3. Len(P[j]) < Len(P[k])
    BY <1>1, <1>6, StrictlyLonger
  <2> QED
    BY <1>1, <1>5, <1>6, <2>2, <2>3
<1> QED
  BY <1>7, <1>8

-----------------------------------------------------------------------------
\* A leaf on an empty slot (insert_recursive's graft, and the leaf of a split).

Grafted(K, i, b, leaf) ==
  [j \in DOMAIN K \cup {leaf} |->
     IF j = leaf THEN Childless
     ELSE IF j = i THEN [K[i] EXCEPT ![b] = leaf] ELSE K[j]]

LEMMA GraftShape ==
  ASSUME NEW L, NEW P, NEW K, NEW e, Shape(L, P, K, e),
         NEW i \in L, NEW leaf \in Idx \ L, NEW p \in Prefix,
         StrictlyCovers(P[i], p), K[i][BitAt(p, Len(P[i]))] = None
  PROVE  Shape(L \cup {leaf}, Extended(P, leaf, p),
               Grafted(K, i, BitAt(p, Len(P[i])), leaf), e)
<1> DEFINE b  == BitAt(p, Len(P[i]))
           L2 == L \cup {leaf}
           P2 == Extended(P, leaf, p)
           K2 == Grafted(K, i, b, leaf)
<1>1. /\ L \subseteq Idx
      /\ P \in [L -> Prefix]
      /\ K \in Kids(L)
      /\ e \in Idx \cup {None}
      /\ \A x \in L : P[x] \in Prefix
  BY DEF Shape
<1>2. b \in Bit
  BY <1>1, StrictlyLonger
<1>3. /\ P2 \in [L2 -> Prefix]
      /\ P2[leaf] = p
      /\ \A x \in L : P2[x] = P[x]
  BY <1>1 DEF Extended
<1>4. /\ K2 \in Kids(L2)
      /\ K2[leaf] = Childless
      /\ K2[i][b] = leaf
      /\ \A x \in L, c \in Bit : ~(x = i /\ c = b) => K2[x][c] = K[x][c]
  BY <1>1, <1>2 DEF Grafted, Kids, Childless
<1> HIDE DEF b, P2, K2
<1>5. \A c \in Bit : K2[leaf][c] = None
  BY <1>4 DEF Childless
<1>6. K[i][b] = None /\ StrictlyCovers(P[i], p) /\ BitAt(p, Len(P[i])) = b
  BY DEF b
\* Nothing lies below the leaf's place.
<1>7. ASSUME NEW j \in L, StrictlyCovers(P[i], P[j]), BitAt(P[j], Len(P[i])) = b
      PROVE  FALSE
  BY <1>6, <1>7, PathChild, TreeAssumption DEF Shape
<1>8. ASSUME NEW j \in L, Covers(p, P[j])
      PROVE  FALSE
  BY <1>1, <1>6, <1>7, <1>8, SameSide
<1>9. EntryAbove(L2, P2, e)
  <2>1. e \in L /\ \A x \in L : Covers(P[e], P[x])
    BY DEF Shape, EntryAbove
  <2>2. Covers(P[e], p)
    BY <1>1, <1>6, <2>1, CoversTransitive DEF StrictlyCovers
  <2> QED
    BY <1>1, <1>3, <2>1, <2>2, TreeAssumption DEF EntryAbove
<1>10. EdgesDown(L2, P2, K2)
  <2> SUFFICES ASSUME NEW x \in L2, NEW c \in Bit, K2[x][c] # None
               PROVE  /\ K2[x][c] \in L2
                      /\ StrictlyCovers(P2[x], P2[K2[x][c]])
                      /\ BitAt(P2[K2[x][c]], Len(P2[x])) = c
    BY DEF EdgesDown
  <2>1. x \in L
    BY <1>5
  <2>2. CASE x = i /\ c = b
    BY <1>3, <1>4, <1>6, <2>2
  <2>3. CASE ~(x = i /\ c = b)
    BY <1>3, <1>4, <2>1, <2>3 DEF Shape, EdgesDown
  <2> QED
    BY <2>2, <2>3
<1>11. PathsWhole(L2, P2, K2)
  <2> SUFFICES ASSUME NEW x \in L2, NEW y \in L2, StrictlyCovers(P2[x], P2[y])
               PROVE  /\ KidToward(P2, K2, x, P2[y]) # None
                      /\ Covers(P2[KidToward(P2, K2, x, P2[y])], P2[y])
    BY DEF PathsWhole
  <2> DEFINE c == BitAt(P2[y], Len(P2[x]))
  <2> SUFFICES K2[x][c] \in L2 /\ Covers(P2[K2[x][c]], P2[y])
    BY <1>1, TreeAssumption DEF KidToward
  <2>1. CASE x \in L /\ y \in L
    <3>1. /\ c = BitAt(P[y], Len(P[x]))
          /\ c \in Bit
          /\ K[x][c] \in L
          /\ Covers(P[K[x][c]], P[y])
      BY <1>3, <2>1, PathChild
    <3>2. ~(x = i /\ c = b)
      BY <1>1, <1>6, <3>1, TreeAssumption
    <3> QED
      BY <1>3, <1>4, <2>1, <3>1, <3>2
  <2>2. CASE x \in L /\ y = leaf
    <3>1. StrictlyCovers(P[x], p) /\ c = BitAt(p, Len(P[x]))
      BY <1>3, <2>2
    <3>2. CASE x = i
      <4>1. c = b
        BY <1>6, <3>1, <3>2
      <4> QED
        BY <1>3, <1>4, <2>2, <3>2, <4>1, CoversReflexive
    <3>3. CASE x # i
      <4>1. P[x] # P[i]
        BY <2>2, <3>3 DEF Shape, NoTwins
      <4>2. ~ StrictlyCovers(P[i], P[x])
        BY <1>1, <1>6, <1>7, <2>2, <3>1, SameSide DEF StrictlyCovers
      <4>3. StrictlyCovers(P[x], P[i])
        BY <1>1, <1>6, <2>2, <3>1, <4>1, <4>2, CoversChain DEF StrictlyCovers
      <4>4. c = BitAt(P[i], Len(P[x]))
        BY <1>1, <1>6, <2>2, <3>1, <4>3, SameSide DEF StrictlyCovers
      <4>5. c \in Bit /\ K[x][c] \in L /\ Covers(P[K[x][c]], P[i])
        BY <2>2, <4>3, <4>4, PathChild
      <4>6. Covers(P[K[x][c]], p)
        BY <1>1, <1>6, <4>5, CoversTransitive DEF StrictlyCovers
      <4> QED
        BY <1>3, <1>4, <2>2, <3>3, <4>5, <4>6
    <3> QED
      BY <3>2, <3>3
  <2>3. CASE x = leaf
    BY <1>3, <1>8, <2>3 DEF StrictlyCovers
  <2> QED
    BY <2>1, <2>2, <2>3
<1>12. NoTwins(L2, P2)
  <2>1. \A j \in L : P[j] # p
    BY <1>8, CoversReflexive
  <2> QED
    BY <1>3, <2>1 DEF Shape, NoTwins
<1> QED
  BY <1>1, <1>3, <1>4, <1>9, <1>10, <1>11, <1>12 DEF Shape, b, P2, K2

-----------------------------------------------------------------------------
\* A node put above another (insert_recursive's splice, and the fork of a split).

Spliced(K, i, b, new) ==
  [j \in DOMAIN K \cup {new} |->
     IF j = new THEN [Childless EXCEPT ![b] = i]
     ELSE [c \in Bit |-> IF K[j][c] = i THEN new ELSE K[j][c]]]

LEMMA SpliceShape ==
  ASSUME NEW L, NEW P, NEW K, NEW e, Shape(L, P, K, e),
         NEW i \in L, NEW new \in Idx \ L, NEW m \in Prefix,
         StrictlyCovers(m, P[i]),
         \A j \in L, c \in Bit : K[j][c] = i => StrictlyCovers(P[j], m)
  PROVE  Shape(L \cup {new}, Extended(P, new, m),
               Spliced(K, i, BitAt(P[i], Len(m)), new), IF e = i THEN new ELSE e)
<1> DEFINE b  == BitAt(P[i], Len(m))
           L2 == L \cup {new}
           P2 == Extended(P, new, m)
           K2 == Spliced(K, i, b, new)
           e2 == IF e = i THEN new ELSE e
<1>1. /\ L \subseteq Idx
      /\ P \in [L -> Prefix]
      /\ K \in Kids(L)
      /\ e \in Idx \cup {None}
      /\ \A x \in L : P[x] \in Prefix
  BY DEF Shape
<1>2. b \in Bit /\ e \in L /\ i # None /\ new # None
  BY <1>1, StrictlyLonger, TreeAssumption DEF Shape, EntryAbove
<1>3. /\ P2 \in [L2 -> Prefix]
      /\ P2[new] = m
      /\ \A x \in L : P2[x] = P[x]
  BY <1>1 DEF Extended
<1>4. /\ K2 \in Kids(L2)
      /\ K2[new][b] = i
      /\ \A c \in Bit : c # b => K2[new][c] = None
      /\ \A x \in L, c \in Bit : K2[x][c] = IF K[x][c] = i THEN new ELSE K[x][c]
  BY <1>1, <1>2 DEF Spliced, Kids, Childless
<1>5. BitAt(P[i], Len(m)) = b
  OBVIOUS
<1>6. /\ e2 \in Idx \cup {None}
      /\ e2 = IF e = i THEN new ELSE e
  BY <1>1
<1> HIDE DEF b, P2, K2, e2
\* Where i has a parent, the new prefix lies on the edge between the two.
<1>7. ASSUME i # e
      PROVE  \E q \in L, d \in Bit :
               /\ K[q][d] = i
               /\ StrictlyCovers(P[q], m)
               /\ BitAt(m, Len(P[q])) = d
  <2>1. PICK q \in L, d \in Bit : K[q][d] = i
    BY <1>7, Parent
  <2>2. StrictlyCovers(P[q], m)
    BY <2>1
  <2>3. BitAt(P[i], Len(P[q])) = d
    BY <1>2, <2>1 DEF Shape, EdgesDown
  <2> QED
    BY <1>1, <2>1, <2>2, <2>3, SameSide DEF StrictlyCovers
\* Whatever lies below the new prefix lies below i.
<1>8. ASSUME NEW y \in L, Covers(m, P[y])
      PROVE  Covers(P[i], P[y])
  <2>1. CASE i = e
    BY <1>2, <2>1 DEF Shape, EntryAbove
  <2>2. CASE i # e
    <3>1. PICK q \in L, d \in Bit :
            /\ K[q][d] = i
            /\ StrictlyCovers(P[q], m)
            /\ BitAt(m, Len(P[q])) = d
      BY <1>7, <2>2
    <3>2. StrictlyCovers(P[q], P[y]) /\ BitAt(P[y], Len(P[q])) = d
      BY <1>1, <1>8, <3>1, SameSide
    <3> QED
      BY <3>1, <3>2, PathChild
  <2> QED
    BY <2>1, <2>2
<1>9. EntryAbove(L2, P2, e2)
  <2>1. \A x \in L : Covers(P[e], P[x])
    BY <1>2, TreeAssumption DEF Shape, EntryAbove
  <2>2. CASE e = i
    <3>1. \A x \in L : Covers(m, P[x])
      BY <1>1, <2>1, <2>2, CoversTransitive DEF StrictlyCovers
    <3> QED
      BY <1>2, <1>3, <1>6, <2>2, <3>1, CoversReflexive DEF EntryAbove
  <2>3. CASE e # i
    <3>1. PICK q \in L : StrictlyCovers(P[q], m)
      BY <1>7, <2>3
    <3>2. Covers(P[e], m)
      BY <1>1, <1>2, <2>1, <3>1, CoversTransitive DEF StrictlyCovers
    <3>3. e # None
      BY <1>1, <1>2, TreeAssumption
    <3> QED
      BY <1>2, <1>3, <1>6, <2>1, <2>3, <3>2, <3>3 DEF EntryAbove
  <2> QED
    BY <2>2, <2>3
<1>10. EdgesDown(L2, P2, K2)
  <2> SUFFICES ASSUME NEW x \in L2, NEW c \in Bit, K2[x][c] # None
               PROVE  /\ K2[x][c] \in L2
                      /\ StrictlyCovers(P2[x], P2[K2[x][c]])
                      /\ BitAt(P2[K2[x][c]], Len(P2[x])) = c
    BY DEF EdgesDown
  <2>1. CASE x = new
    BY <1>3, <1>4, <1>5, <2>1
  <2>2. CASE x \in L /\ K[x][c] # i
    BY <1>3, <1>4, <2>2 DEF Shape, EdgesDown
  <2>3. CASE x \in L /\ K[x][c] = i
    <3>1. StrictlyCovers(P[x], m)
      BY <2>3
    <3>2. BitAt(P[i], Len(P[x])) = c
      BY <1>2, <2>3 DEF Shape, EdgesDown
    <3>3. BitAt(m, Len(P[x])) = c
      BY <1>1, <2>3, <3>1, <3>2, SameSide DEF StrictlyCovers
    <3> QED
      BY <1>3, <1>4, <2>3, <3>1, <3>3
  <2> QED
    BY <2>1, <2>2, <2>3
<1>11. PathsWhole(L2, P2, K2)
  <2> SUFFICES ASSUME NEW x \in L2, NEW y \in L2, StrictlyCovers(P2[x], P2[y])
               PROVE  /\ KidToward(P2, K2, x, P2[y]) # None
                      /\ Covers(P2[KidToward(P2, K2, x, P2[y])], P2[y])
    BY DEF PathsWhole
  <2> DEFINE c == BitAt(P2[y], Len(P2[x]))
  <2> SUFFICES K2[x][c] \in L2 /\ Covers(P2[K2[x][c]], P2[y])
    BY <1>1, TreeAssumption DEF KidToward
  <2>1. CASE x \in L /\ y \in L
    <3>1. /\ c = BitAt(P[y], Len(P[x]))
          /\ c \in Bit
          /\ K[x][c] \in L
          /\ Covers(P[K[x][c]], P[y])
      BY <1>3, <2>1, PathChild
    <3>2. CASE K[x][c] # i
      BY <1>3, <1>4, <2>1, <3>1, <3>2
    <3>3. CASE K[x][c] = i
      <4>1. Covers(m, P[y])
        BY <1>1, <2>1, <3>1, <3>3, CoversTransitive DEF StrictlyCovers
      <4> QED
        BY <1>3, <1>4, <2>1, <3>1, <3>3, <4>1
    <3> QED
      BY <3>2, <3>3
  <2>2. CASE x = new /\ y \in L
    <3>1. Covers(P[i], P[y])
      BY <1>3, <1>8, <2>2 DEF StrictlyCovers
    <3>2. c = b
      BY <1>1, <1>3, <1>5, <2>2, <3>1, SameSide
    <3> QED
      BY <1>3, <1>4, <2>2, <3>1, <3>2
  <2>3. CASE x \in L /\ y = new
    <3>1. StrictlyCovers(P[x], m) /\ c = BitAt(m, Len(P[x]))
      BY <1>3, <2>3
    <3>2. StrictlyCovers(P[x], P[i]) /\ BitAt(P[i], Len(P[x])) = c
      BY <1>1, <2>3, <3>1, SameSide DEF StrictlyCovers
    <3>3. /\ c \in Bit
          /\ K[x][c] \in L
          /\ StrictlyCovers(P[x], P[K[x][c]])
          /\ Covers(P[K[x][c]], P[i])
      BY <2>3, <3>2, PathChild
    <3>4. CASE K[x][c] = i
      BY <1>3, <1>4, <2>3, <3>3, <3>4, CoversReflexive
    <3>5. CASE K[x][c] # i
      <4> DEFINE k == K[x][c]
      <4>1. StrictlyCovers(P[k], P[i])
        BY <3>3, <3>5 DEF Shape, NoTwins, StrictlyCovers
      <4>2. ~ Covers(m, P[k])
        BY <1>1, <1>8, <3>3, <4>1, CoversAntisymmetric DEF StrictlyCovers
      <4>3. Covers(P[k], m)
        BY <1>1, <3>3, <4>2, CoversChain DEF StrictlyCovers
      <4> QED
        BY <1>3, <1>4, <2>3, <3>3, <3>5, <4>3
    <3> QED
      BY <3>4, <3>5
  <2>4. CASE x = new /\ y = new
    BY <2>4 DEF StrictlyCovers
  <2> QED
    BY <2>1, <2>2, <2>3, <2>4
<1>12. NoTwins(L2, P2)
  <2>1. \A j \in L : P[j] # m
    BY <1>1, <1>8, CoversReflexive, CoversAntisymmetric DEF StrictlyCovers
  <2> QED
    BY <1>3, <2>1 DEF Shape, NoTwins
<1> QED
  BY <1>1, <1>3, <1>4, <1>6, <1>9, <1>10, <1>11, <1>12 DEF Shape, b, P2, K2, e2

-----------------------------------------------------------------------------
\* A node replaced by its only child, or by nothing (sweep_recursive).

Collapsed(K, i, k) ==
  [j \in DOMAIN K \ {i} |-> [c \in Bit |-> IF K[j][c] = i THEN k ELSE K[j][c]]]

LEMMA CollapseShape ==
  ASSUME NEW L, NEW P, NEW K, NEW e, Shape(L, P, K, e),
         NEW i \in L, NEW b \in Bit, \A c \in Bit : c # b => K[i][c] = None
  PROVE  Shape(L \ {i}, Without(P, i), Collapsed(K, i, K[i][b]),
               IF e = i THEN K[i][b] ELSE e)
<1> DEFINE k  == K[i][b]
           L2 == L \ {i}
           P2 == Without(P, i)
           K2 == Collapsed(K, i, k)
           e2 == IF e = i THEN k ELSE e
<1>1. /\ L \subseteq Idx
      /\ P \in [L -> Prefix]
      /\ K \in Kids(L)
      /\ e \in L
      /\ k \in Idx \cup {None}
      /\ i # None
      /\ \A x \in L : P[x] \in Prefix /\ x # None
  BY TreeAssumption DEF Shape, EntryAbove, Kids
<1>2. /\ P2 \in [L2 -> Prefix]
      /\ \A x \in L2 : P2[x] = P[x]
  BY <1>1 DEF Without
<1>3. /\ K2 \in Kids(L2)
      /\ \A x \in L2, c \in Bit : K2[x][c] = IF K[x][c] = i THEN k ELSE K[x][c]
  BY <1>1 DEF Collapsed, Kids
<1>4. e2 \in Idx \cup {None} /\ e2 = IF e = i THEN k ELSE e
  BY <1>1
<1>5. k # None => /\ k \in L2
                  /\ StrictlyCovers(P[i], P[k])
                  /\ BitAt(P[k], Len(P[i])) = b
  BY DEF Shape, EdgesDown, StrictlyCovers
<1>6. ASSUME NEW y \in L, StrictlyCovers(P[i], P[y])
      PROVE  k \in L2 /\ Covers(P[k], P[y])
  <2> DEFINE d == BitAt(P[y], Len(P[i]))
  <2>1. d \in Bit /\ K[i][d] \in L /\ Covers(P[K[i][d]], P[y])
    BY <1>6, PathChild
  <2>2. d = b
    BY <1>1, <2>1
  <2> QED
    BY <1>1, <1>5, <2>1, <2>2
<1> HIDE DEF k, P2, K2, e2
<1>7. \A x \in L : Covers(P[e], P[x])
  BY <1>1 DEF Shape, EntryAbove
<1>8. EntryAbove(L2, P2, e2)
  <2>1. CASE e # i
    BY <1>1, <1>2, <1>4, <1>7, <2>1 DEF EntryAbove
  <2>2. CASE e = i
    <3>1. \A x \in L2 : StrictlyCovers(P[i], P[x])
      BY <1>7, <2>2 DEF Shape, NoTwins, StrictlyCovers
    <3>2. \A x \in L2 : k \in L2 /\ Covers(P[k], P[x])
      BY <1>6, <3>1
    <3> QED
      BY <1>1, <1>2, <1>4, <1>5, <2>2, <3>2 DEF EntryAbove
  <2> QED
    BY <2>1, <2>2
<1>9. EdgesDown(L2, P2, K2)
  <2> SUFFICES ASSUME NEW x \in L2, NEW c \in Bit, K2[x][c] # None
               PROVE  /\ K2[x][c] \in L2
                      /\ StrictlyCovers(P2[x], P2[K2[x][c]])
                      /\ BitAt(P2[K2[x][c]], Len(P2[x])) = c
    BY DEF EdgesDown
  <2>1. K[x][c] # None
    BY <1>1, <1>3
  <2>2. /\ K[x][c] \in L
        /\ StrictlyCovers(P[x], P[K[x][c]])
        /\ BitAt(P[K[x][c]], Len(P[x])) = c
    BY <2>1 DEF Shape, EdgesDown
  <2>3. CASE K[x][c] # i
    BY <1>2, <1>3, <2>2, <2>3
  <2>4. CASE K[x][c] = i
    <3>1. K2[x][c] = k /\ k # None
      BY <1>3, <2>4
    <3>2. k \in L2 /\ StrictlyCovers(P[i], P[k])
      BY <1>5, <3>1
    <3>3. StrictlyCovers(P[x], P[k]) /\ BitAt(P[k], Len(P[x])) = c
      BY <1>1, <2>2, <2>4, <3>2, SameSide DEF StrictlyCovers
    <3> QED
      BY <1>2, <3>1, <3>2, <3>3
  <2> QED
    BY <2>3, <2>4
<1>10. PathsWhole(L2, P2, K2)
  <2> SUFFICES ASSUME NEW x \in L2, NEW y \in L2, StrictlyCovers(P2[x], P2[y])
               PROVE  /\ KidToward(P2, K2, x, P2[y]) # None
                      /\ Covers(P2[KidToward(P2, K2, x, P2[y])], P2[y])
    BY DEF PathsWhole
  <2> DEFINE c == BitAt(P2[y], Len(P2[x]))
  <2> SUFFICES K2[x][c] \in L2 /\ Covers(P2[K2[x][c]], P2[y])
    BY <1>1 DEF KidToward
  <2>1. /\ c = BitAt(P[y], Len(P[x]))
        /\ c \in Bit
        /\ K[x][c] \in L
        /\ Covers(P[K[x][c]], P[y])
    BY <1>2, PathChild
  <2>2. CASE K[x][c] # i
    BY <1>2, <1>3, <2>1, <2>2
  <2>3. CASE K[x][c] = i
    <3>1. StrictlyCovers(P[i], P[y])
      BY <2>1, <2>3 DEF Shape, NoTwins, StrictlyCovers
    <3> QED
      BY <1>2, <1>3, <1>6, <2>1, <2>3, <3>1
  <2> QED
    BY <2>2, <2>3
<1>11. NoTwins(L2, P2)
  BY <1>2 DEF Shape, NoTwins
<1> QED
  BY <1>1, <1>2, <1>3, <1>4, <1>8, <1>9, <1>10, <1>11 DEF Shape, k, P2, K2, e2

-----------------------------------------------------------------------------
\* The trie of the tree's variables, and its invariant.

Pfx == [i \in Live |-> node[i].prefix]

KidMap == [i \in Live |-> [b \in Bit |-> Kid(i, b)]]

ShapeOK == Shape(Live, Pfx, KidMap, Entry)

Announced == {i \in Live : node[i].announced}

\* The frames of the call in progress are nodes on one path down from the root;
\* each but the last is in the child slot that leads to the next.
PathOK ==
  /\ \A k \in 1 .. Len(stack) : stack[k].at \in Live
  /\ stack # <<>> => stack[1].at = root
  /\ \A k \in 1 .. Len(stack) - 1 :
       /\ stack[k].slot \in Bit
       /\ node[stack[k].at].children[stack[k].slot] = stack[k + 1].at
  /\ \A k, l \in 1 .. Len(stack) :
       k < l => Len(node[stack[k].at].prefix) < Len(node[stack[l].at].prefix)

\* On its way down insert only passes nodes strictly above its key, and on its
\* way up every frame has a slot to rewire.
DescentOK ==
  /\ pc = "insert" =>
       \A k \in 1 .. Len(stack) - 1 :
         /\ StrictlyCovers(node[stack[k].at].prefix, key)
         /\ stack[k].slot = BitAt(key, Len(node[stack[k].at].prefix))
  /\ pc = "insert" /\ stack = <<>> => root = None
  /\ pc = "inserted" =>
       /\ \A k \in 1 .. Len(stack) : stack[k].slot \in Bit
       /\ ret.subroot \in Live
  /\ pc \in {"idle", "swept"} => stack = <<>>

\* The inductive invariant.
TrieInv ==
  /\ TypeOK
  /\ CountExact
  /\ InsertAnswer
  /\ pc # "poisoned" => ShapeOK /\ PathOK /\ DescentOK

-----------------------------------------------------------------------------
\* Sequences.

LEMMA FrontProperties ==
  ASSUME NEW S, NEW s \in Seq(S), s # <<>>
  PROVE  /\ Len(s) \in Nat \ {0}
         /\ s[Len(s)] \in S
         /\ SubSeq(s, 1, Len(s) - 1) \in Seq(S)
         /\ Len(SubSeq(s, 1, Len(s) - 1)) = Len(s) - 1
         /\ \A k \in 1 .. Len(s) - 1 : SubSeq(s, 1, Len(s) - 1)[k] = s[k]
<1>1. Len(s) \in Nat \ {0} /\ s[Len(s)] \in S
  OBVIOUS
<1> DEFINE n == Len(s) - 1
<1>2. /\ n \in Nat
      /\ Len(s) - 1 = n
      /\ \A i \in 1 .. n : s[i] \in S
  BY <1>1
<1> HIDE DEF n
<1>3. /\ SubSeq(s, 1, n) \in Seq(S)
      /\ Len(SubSeq(s, 1, n)) = IF 1 <= n THEN n - 1 + 1 ELSE 0
      /\ \A i \in 1 .. n - 1 + 1 : SubSeq(s, 1, n)[i] = s[1 + i - 1]
  BY <1>2, SubSeqProperties
<1>4. /\ Len(SubSeq(s, 1, n)) = n
      /\ \A i \in 1 .. n : SubSeq(s, 1, n)[i] = s[i]
  BY <1>2, <1>3
<1> QED
  BY <1>1, <1>2, <1>3, <1>4

LEMMA AppendProperties2 ==
  ASSUME NEW S, NEW s \in Seq(S), NEW x \in S
  PROVE  /\ Append(s, x) \in Seq(S)
         /\ s \o <<x>> = Append(s, x)
         /\ Append(s, x) # <<>>
         /\ Len(Append(s, x)) = Len(s) + 1
         /\ Append(s, x)[Len(s) + 1] = x
         /\ \A k \in 1 .. Len(s) : Append(s, x)[k] = s[k]
<1>1. /\ Append(s, x) \in Seq(S)
      /\ Len(Append(s, x)) = Len(s) + 1
      /\ Append(s, x)[Len(s) + 1] = x
      /\ \A k \in 1 .. Len(s) : Append(s, x)[k] = s[k]
  OBVIOUS
<1>2. s \o <<x>> = Append(s, x)
  BY AppendIsConcat
<1>3. Append(s, x) # <<>>
  BY <1>1
<1> QED
  BY <1>1, <1>2, <1>3

-----------------------------------------------------------------------------
\* What holds while a frame runs.

LEMMA Running ==
  ASSUME TrieInv, pc # "poisoned", stack # <<>>
  PROVE  /\ Len(stack) \in Nat \ {0}
         /\ Top \in Frame
         /\ Top.at \in Live
         /\ Top.at \in Idx
         /\ Here \in Node
         /\ Here.prefix \in Prefix
         /\ Here.ts \in Nat
         /\ Pop \in Seq(Frame)
         /\ Len(Pop) = Len(stack) - 1
         /\ \A k \in 1 .. Len(stack) - 1 : Pop[k] = stack[k]
<1>1. /\ Len(stack) \in Nat \ {0}
      /\ Top \in Frame
      /\ Pop \in Seq(Frame)
      /\ Len(Pop) = Len(stack) - 1
      /\ \A k \in 1 .. Len(stack) - 1 : Pop[k] = stack[k]
  BY FrontProperties DEF TrieInv, TypeOK, Top, Pop
<1>2. Top.at \in Live
  BY <1>1 DEF TrieInv, PathOK, Top
<1>3. Here \in Node /\ Top.at \in Idx
  BY <1>2 DEF TrieInv, TypeOK, Here, Live
<1>4. Here.prefix \in Prefix /\ Here.ts \in Nat
  BY <1>3 DEF Node
<1> QED
  BY <1>1, <1>2, <1>3, <1>4

LEMMA FiniteLive ==
  ASSUME TypeOK
  PROVE  /\ IsFiniteSet(Live)
         /\ IsFiniteSet(Announced)
<1>1. IsFiniteSet(Live)
  BY TreeAssumption, FS_Subset DEF TypeOK
<1> QED
  BY <1>1, FS_Subset DEF Announced

\* TrieOK and NoLeak are what the shape says of the state.
LEMMA ShapeMeansTrie ==
  ASSUME TypeOK, ShapeOK
  PROVE  TrieOK /\ NoLeak
<1>1. /\ \A i \in Live : Pfx[i] = node[i].prefix
      /\ \A i \in Live, b \in Bit : KidMap[i][b] = Kid(i, b)
  BY DEF Pfx, KidMap
<1>2. \A i \in Live : node[i].prefix \in Prefix
  BY DEF TypeOK, Node, Live
<1>3. RootCovers
  BY <1>1 DEF ShapeOK, Shape, EntryAbove, RootCovers
<1>4. KidsBelow
  BY <1>1 DEF ShapeOK, Shape, EdgesDown, KidsBelow
<1>5. PathsComplete
  <2> SUFFICES ASSUME NEW i \in Live, NEW j \in Live,
                      StrictlyCovers(node[i].prefix, node[j].prefix)
               PROVE  LET kid == Kid(i, BitAt(node[j].prefix, Len(node[i].prefix)))
                      IN  kid # None /\ Covers(node[kid].prefix, node[j].prefix)
    BY DEF PathsComplete
  <2> DEFINE b == BitAt(node[j].prefix, Len(node[i].prefix))
  <2>1. b \in Bit /\ KidMap[i][b] \in Live /\ Covers(Pfx[KidMap[i][b]], Pfx[j])
    BY <1>1, PathChild DEF ShapeOK
  <2>2. Kid(i, b) = KidMap[i][b]
    BY <1>1, <2>1
  <2>3. Kid(i, b) # None
    BY <2>1, <2>2, TreeAssumption DEF TypeOK
  <2> QED
    BY <1>1, <2>1, <2>2, <2>3
<1>6. PrefixesUnique
  BY <1>1 DEF ShapeOK, Shape, NoTwins, PrefixesUnique
<1>7. ASSUME NEW i \in Live
      PROVE  Attached(i)
  <2>1. CASE i = Entry
    BY <2>1 DEF Attached
  <2>2. CASE i # Entry
    <3>1. PICK j \in Live, b \in Bit : KidMap[j][b] = i
      BY <2>2, Parent DEF ShapeOK
    <3> QED
      BY <1>1, <3>1 DEF Attached
  <2> QED
    BY <2>1, <2>2
<1> QED
  BY <1>3, <1>4, <1>5, <1>6, <1>7 DEF TrieOK, NoLeak

-----------------------------------------------------------------------------
\* Steps that leave the shape as it is.

LEMMA SameShape ==
  ASSUME ShapeOK, Live' = Live, Pfx' = Pfx, KidMap' = KidMap, Entry' = Entry
  PROVE  ShapeOK'
BY DEF ShapeOK

\* Except while insert unwinds, the pointers are those the nodes hold.
LEMMA Settled ==
  ASSUME TypeOK, pc # "inserted"
  PROVE  /\ Entry = root
         /\ KidMap = [i \in Live |-> node[i].children]
<1>1. \A i \in Live, b \in Bit : Kid(i, b) = node[i].children[b]
  BY DEF Kid, Calling
<1>2. \A i \in Live : node[i].children \in [Bit -> Idx \cup {None}]
  BY DEF TypeOK, Node, Live
<1>3. \A i \in Live : [b \in Bit |-> Kid(i, b)] = node[i].children
  BY <1>1, <1>2
<1> QED
  BY <1>3 DEF Entry, KidMap

LEMMA SettledNext ==
  ASSUME TypeOK', pc' # "inserted"
  PROVE  /\ Entry' = root'
         /\ KidMap' = [i \in Live' |-> node'[i].children]
<1>1. \A i \in Live', b \in Bit : Kid(i, b)' = node'[i].children[b]
  BY DEF Kid, Calling
<1>2. \A i \in Live' : node'[i].children \in [Bit -> Idx \cup {None}]
  BY DEF TypeOK, Node, Live
<1>3. \A i \in Live' : [b \in Bit |-> Kid(i, b)'] = node'[i].children
  BY <1>1, <1>2
<1> QED
  BY <1>3 DEF Entry, KidMap

\* A step of such a state to another that leaves the nodes alone.
LEMMA SettledShape ==
  ASSUME TypeOK, TypeOK', pc # "inserted", pc' # "inserted", ShapeOK,
         UNCHANGED <<node, root>>
  PROVE  ShapeOK'
<1>1. Live' = Live /\ Pfx' = Pfx
  BY DEF Live, Pfx
<1>2. KidMap' = KidMap /\ Entry' = Entry
  BY <1>1, Settled, SettledNext
<1> QED
  BY <1>1, <1>2, SameShape

\* A call starts at the root.
LEMMA StartsAtRoot ==
  ASSUME TrieInv, pc = "idle", UNCHANGED <<node, root, announcedCount, ret, dirty>>,
         pc' \in {"insert", "withdraw", "sweep"},
         key' \in Prefix, now' \in Nat,
         stack' = IF root = None THEN <<>> ELSE Enter(root)
  PROVE  TrieInv'
<1>1. root # None => root \in Live
  BY Settled DEF TrieInv, ShapeOK, Shape, EntryAbove
<1>2. /\ stack' \in Seq(Frame)
      /\ stack' # <<>> => stack' = <<[at |-> root, slot |-> 0]>> /\ root \in Live
  <2>1. CASE root = None
    BY <2>1
  <2>2. CASE root # None
    <3>1. [at |-> root, slot |-> 0] \in Frame
      BY <1>1, <2>2 DEF Frame, TrieInv, TypeOK
    <3> QED
      BY <1>1, <2>2, <3>1 DEF Enter
  <2> QED
    BY <2>1, <2>2
<1>3. TypeOK'
  BY <1>2 DEF TrieInv, TypeOK, Live
<1>4. CountExact'
  BY DEF TrieInv, CountExact, Live
<1>5. ShapeOK'
  BY <1>3, SettledShape DEF TrieInv
<1>6. PathOK'
  <2>1. CASE stack' = <<>>
    BY <2>1 DEF PathOK
  <2>2. CASE stack' = <<[at |-> root, slot |-> 0]>> /\ root \in Live
    <3>1. /\ Len(stack') = 1
          /\ \A k \in 1 .. Len(stack') : k = 1 /\ stack'[k].at = root
      BY <2>2
    <3> QED
      BY <2>2, <3>1 DEF PathOK, Live
  <2> QED
    BY <1>2, <2>1, <2>2
<1>7. DescentOK'
  <2>1. CASE stack' = <<>>
    <3>1. root' = None
      <4>1. Len(Enter(root)) = 1
        BY DEF Enter
      <4>2. Enter(root) # <<>>
        BY <4>1
      <4> QED
        BY <2>1, <4>2
    <3> QED
      BY <2>1, <3>1 DEF DescentOK
  <2>2. CASE stack' = <<[at |-> root, slot |-> 0]>>
    <3>1. Len(stack') = 1 /\ stack' # <<>>
      <4>1. /\ Len(<<[at |-> root, slot |-> 0]>>) = 1
            /\ <<[at |-> root, slot |-> 0]>> # <<>>
        OBVIOUS
      <4> QED
        BY ONLY <2>2, <4>1
    <3>2. \A k \in 1 .. Len(stack') - 1 : FALSE
      BY ONLY <3>1
    <3> QED
      BY <3>1, <3>2 DEF DescentOK
  <2> QED
    BY <1>2, <2>1, <2>2
<1> QED
  BY <1>3, <1>4, <1>5, <1>6, <1>7 DEF TrieInv, InsertAnswer

-----------------------------------------------------------------------------
\* Frames.

LEMMA FrameEqual ==
  ASSUME NEW f \in Frame, NEW i, NEW b
  PROVE  f = [at |-> i, slot |-> b] <=> f.at = i /\ f.slot = b
BY DEF Frame

\* The node of the running frame is in no other frame.
LEMMA LowerFrames ==
  ASSUME TrieInv, pc # "poisoned", stack # <<>>
  PROVE  \A k \in 1 .. Len(stack) - 1 :
           /\ stack[k] \in Frame
           /\ stack[k].at \in Live
           /\ stack[k].at # Top.at
           /\ stack[k].slot \in Bit
<1>1. Len(stack) \in Nat \ {0}
  BY Running
<1>2. ASSUME NEW k \in 1 .. Len(stack) - 1
      PROVE  /\ stack[k] \in Frame
             /\ stack[k].at \in Live
             /\ stack[k].at # Top.at
             /\ stack[k].slot \in Bit
  <2>1. k \in 1 .. Len(stack) /\ Len(stack) \in 1 .. Len(stack) /\ k < Len(stack)
    BY <1>1
  <2>2. /\ stack[k] \in Frame
        /\ node[stack[k].at].prefix \in Prefix
        /\ stack[k].at \in Live
    BY <1>1, <2>1 DEF TrieInv, TypeOK, PathOK, Node, Live
  <2>3. Len(node[stack[k].at].prefix) < Len(node[Top.at].prefix)
    BY <2>1 DEF TrieInv, PathOK, Top
  <2>4. Len(node[stack[k].at].prefix) \in Nat
    BY <2>2, PrefixShape
  <2> QED
    BY <2>1, <2>2, <2>3, <2>4 DEF TrieInv, PathOK
<1> QED
  BY <1>2

\* Leaving the running frame; the frames above keep their nodes and slots.
LEMMA PathPopped ==
  ASSUME TrieInv, pc # "poisoned", stack # <<>>,
         stack' = Pop, root' = root, Live \subseteq Live',
         \A i \in Live : node'[i].prefix = node[i].prefix,
         \A i \in Live \ {Top.at} : node'[i].children = node[i].children
  PROVE  PathOK'
<1>1. /\ Len(stack) \in Nat \ {0}
      /\ Len(stack') = Len(stack) - 1
      /\ \A k \in 1 .. Len(stack) - 1 : stack'[k] = stack[k]
      /\ stack' \in Seq(Frame)
  BY Running
<1>2. \A k \in 1 .. Len(stack') : k \in 1 .. Len(stack) /\ k \in 1 .. Len(stack) - 1
  BY <1>1
<1>3. \A k \in 1 .. Len(stack') : stack'[k].at \in Live /\ stack'[k].at # Top.at
  BY <1>1, <1>2, LowerFrames
<1>4. stack' # <<>> => stack'[1].at = root'
  BY <1>1, <1>2 DEF TrieInv, PathOK
<1>5. ASSUME NEW k \in 1 .. Len(stack') - 1
      PROVE  /\ stack'[k].slot \in Bit
             /\ node'[stack'[k].at].children[stack'[k].slot] = stack'[k + 1].at
  <2>1. /\ k \in 1 .. Len(stack') /\ k \in 1 .. Len(stack) - 1
        /\ k + 1 \in 1 .. Len(stack')
    BY <1>1
  <2>2. stack'[k] = stack[k] /\ stack'[k + 1] = stack[k + 1]
    BY <1>1, <1>2, <2>1
  <2>3. node'[stack'[k].at].children = node[stack[k].at].children
    BY <1>3, <2>1, <2>2
  <2> QED
    BY <2>1, <2>2, <2>3 DEF TrieInv, PathOK
<1>6. ASSUME NEW k \in 1 .. Len(stack'), NEW l \in 1 .. Len(stack'), k < l
      PROVE  Len(node'[stack'[k].at].prefix) < Len(node'[stack'[l].at].prefix)
  <2>1. stack'[k] = stack[k] /\ stack'[l] = stack[l]
    BY <1>1, <1>2
  <2>2. /\ node'[stack'[k].at].prefix = node[stack[k].at].prefix
        /\ node'[stack'[l].at].prefix = node[stack[l].at].prefix
    BY <1>3, <2>1
  <2> QED
    BY <1>2, <1>6, <2>2 DEF TrieInv, PathOK
<1> QED
  BY <1>3, <1>4, <1>5, <1>6 DEF PathOK

-----------------------------------------------------------------------------
\* Counting.

LEMMA CountUp ==
  ASSUME TypeOK, CountExact, NEW x, x \notin Announced,
         Announced' = Announced \cup {x}, announcedCount' = announcedCount + 1
  PROVE  CountExact' /\ announcedCount' \in Nat
<1>1. Cardinality(Announced') = Cardinality(Announced) + 1
  BY FiniteLive, FS_AddElement
<1> QED
  BY <1>1 DEF CountExact, Announced, TypeOK

LEMMA CountDown ==
  ASSUME TypeOK, CountExact, NEW x \in Announced,
         Announced' = Announced \ {x}, announcedCount' = announcedCount - 1
  PROVE  CountExact' /\ announcedCount' \in Nat
<1>1. /\ Cardinality(Announced') = Cardinality(Announced) - 1
      /\ IsFiniteSet(Announced')
  BY FiniteLive, FS_RemoveElement
<1>2. Cardinality(Announced') \in Nat
  BY <1>1, FS_CardinalityType
<1> QED
  BY <1>1, <1>2 DEF CountExact, Announced

LEMMA CountSame ==
  ASSUME TypeOK, CountExact,
         Announced' = Announced, announcedCount' = announcedCount
  PROVE  CountExact' /\ announcedCount' \in Nat
BY DEF CountExact, Announced, TypeOK

-----------------------------------------------------------------------------
\* The outcome of the frame that ran stands for the pointer to its node.

LEMMA KidsReturned ==
  ASSUME TrieInv, pc = "insert", stack # <<>>, Live \subseteq Live',
         pc' = "inserted", stack' = Pop, root' = root
  PROVE  /\ Entry' = IF root = Top.at THEN ret'.subroot ELSE root
         /\ \A i \in Live, b \in Bit :
              Kid(i, b)' = IF node[i].children[b] = Top.at
                             THEN ret'.subroot ELSE node'[i].children[b]
         /\ \A i \in Live' \ Live, b \in Bit : Kid(i, b)' = node'[i].children[b]
<1> DEFINE n == Len(stack)
<1>1. /\ n \in Nat \ {0}
      /\ Len(stack') = n - 1
      /\ \A k \in 1 .. n - 1 : stack'[k] = stack[k]
      /\ Top.at \in Live
      /\ Top.at # None
      /\ stack' \in Seq(Frame)
      /\ Top = stack[n]
  BY Running, TreeAssumption DEF Top
<1>2. KidMap = [i \in Live |-> node[i].children] /\ Entry = root
  BY Settled DEF TrieInv
<1>3. \A i \in Live, b \in Bit : node[i].children[b] = Top.at =>
        /\ Top.at # root
        /\ \A j \in Live, c \in Bit :
             node[j].children[c] = Top.at => j = i /\ c = b
  BY <1>1, <1>2, OneParent DEF TrieInv, ShapeOK
<1>4. CASE n = 1
  <2>1. stack' = <<>>
    BY <1>1, <1>4
  <2>2. root = Top.at
    BY <1>1, <1>4 DEF TrieInv, PathOK
  <2> QED
    BY <1>3, <2>1, <2>2 DEF Kid, Entry, Calling
<1>5. CASE n > 1
  <2> DEFINE a == stack[n - 1]
  <2>1. /\ n - 1 \in 1 .. n - 1
        /\ n - 1 + 1 = n
        /\ stack' # <<>>
    BY <1>1, <1>5
  <2>2. Top' = a
    BY <1>1, <2>1 DEF Top
  <2>3. /\ a \in Frame
        /\ a.at \in Live
        /\ a.slot \in Bit
        /\ node[a.at].children[a.slot] = Top.at
    BY <1>1, <2>1, LowerFrames DEF TrieInv, PathOK, Top
  <2>4. root # Top.at
    BY <1>3, <2>3
  <2> HIDE DEF a
  <2>5. \A i, b : Kid(i, b)' = IF i = a.at /\ b = a.slot
                                THEN ret'.subroot ELSE node'[i].children[b]
    BY <2>1, <2>2, <2>3, FrameEqual DEF Kid, Calling
  <2> QED
    BY <1>3, <2>1, <2>3, <2>4, <2>5 DEF Entry
<1> QED
  BY <1>1, <1>4, <1>5

-----------------------------------------------------------------------------
\* insert, action by action.

LEMMA InsertFirstStep == TrieInv /\ InsertFirst => TrieInv'
<1> SUFFICES ASSUME TrieInv, InsertFirst
             PROVE  TrieInv'
  OBVIOUS
<1>1. PICK leaf \in Idx \ Live :
        /\ node' = Extended(node, leaf, Leaf)
        /\ dirty' = <<leaf>>
        /\ ret' = [subroot |-> leaf, target |-> leaf, advanced |-> TRUE, found |-> TRUE]
  BY DEF InsertFirst
<1>2. /\ pc = "insert" /\ pc' = "inserted"
      /\ stack = <<>> /\ stack' = <<>>
      /\ announcedCount' = announcedCount + 1
      /\ UNCHANGED <<root, key, now>>
  BY DEF InsertFirst
<1>3. Live = {}
  BY <1>2, Settled DEF TrieInv, DescentOK, ShapeOK, Shape, EntryAbove
<1>4. Leaf \in Node /\ Leaf.prefix = key /\ Leaf.announced = TRUE /\ Leaf.children = Childless
  BY DEF TrieInv, TypeOK, Leaf, Node, Childless
<1>5. /\ Live' = {leaf}
      /\ node' \in [Live' -> Node]
      /\ node'[leaf] = Leaf
  BY <1>1, <1>3, <1>4 DEF Live, Extended
<1>6. CountExact' /\ announcedCount' \in Nat
  <2>1. Announced = {} /\ Announced' = {leaf}
    BY <1>3, <1>4, <1>5 DEF Announced
  <2> QED
    BY <1>2, <2>1, CountUp DEF TrieInv
<1>7. TypeOK'
  BY <1>1, <1>2, <1>5, <1>6 DEF TrieInv, TypeOK, Outcome
<1>8. ShapeOK'
  <2>1. Entry' = leaf /\ leaf # None
    BY <1>1, <1>2, TreeAssumption DEF Entry
  <2>2. Pfx' = [i \in {leaf} |-> key] /\ key \in Prefix
    BY <1>4, <1>5 DEF Pfx, TrieInv, TypeOK
  <2>3. KidMap' = [i \in {leaf} |-> [b \in Bit |-> None]]
    <3>1. \A b \in Bit : Kid(leaf, b)' = None
      BY <1>2, <1>4, <1>5 DEF Kid, Calling, Childless
    <3> QED
      BY <1>5, <3>1 DEF KidMap
  <2> DEFINE K == [i \in {leaf} |-> [b \in Bit |-> None]]
             P == [i \in {leaf} |-> key]
  <2>4. K \in Kids({leaf}) /\ P \in [{leaf} -> Prefix]
    BY <2>2 DEF Kids
  <2>5. EntryAbove({leaf}, P, leaf)
    BY <2>1, <2>2, CoversReflexive DEF EntryAbove
  <2>6. EdgesDown({leaf}, P, K)
    BY DEF EdgesDown
  <2>7. PathsWhole({leaf}, P, K)
    BY DEF PathsWhole, StrictlyCovers
  <2>8. NoTwins({leaf}, P)
    BY DEF NoTwins
  <2> HIDE DEF K, P
  <2>9. Shape({leaf}, P, K, leaf)
    BY <1>1, <2>4, <2>5, <2>6, <2>7, <2>8 DEF Shape
  <2> QED
    BY <1>5, <2>1, <2>2, <2>3, <2>9 DEF ShapeOK, K, P
<1>9. PathOK' /\ DescentOK'
  BY <1>1, <1>2, <1>5 DEF PathOK, DescentOK
<1>10. InsertAnswer'
  BY <1>1, <1>2, <1>4, <1>5 DEF InsertAnswer
<1> QED
  BY <1>6, <1>7, <1>8, <1>9, <1>10 DEF TrieInv

\* The frame that ran is gone; what is left to show is the shape.
LEMMA FrameReturned ==
  ASSUME TrieInv, stack # <<>>, Live \subseteq Live', TypeOK', CountExact', ShapeOK',
         pc \in {"insert", "inserted"}, pc' = "inserted", stack' = Pop, root' = root,
         ret'.subroot \in Live', InsertAnswer',
         \A i \in Live : node'[i].prefix = node[i].prefix,
         \A i \in Live \ {Top.at} : node'[i].children = node[i].children
  PROVE  TrieInv'
<1>1. PathOK'
  BY PathPopped
<1>2. \A k \in 1 .. Len(stack') : stack'[k].slot \in Bit
  BY Running, LowerFrames
<1> QED
  BY <1>1, <1>2 DEF TrieInv, DescentOK

LEMMA InsertReannounceStep == TrieInv /\ InsertReannounce => TrieInv'
<1> SUFFICES ASSUME TrieInv, InsertReannounce
             PROVE  TrieInv'
  OBVIOUS
<1> DEFINE t == Top.at
<1>1. /\ pc = "insert" /\ stack # <<>> /\ pc' = "inserted" /\ stack' = Pop
      /\ node' = [node EXCEPT ![t].announced = TRUE, ![t].ts = now]
      /\ announcedCount' = IF Here.announced THEN announcedCount ELSE announcedCount + 1
      /\ dirty' = Append(dirty, t)
      /\ ret' = [subroot |-> t, target |-> t, advanced |-> now > Here.ts, found |-> TRUE]
      /\ UNCHANGED <<root, key, now>>
      /\ Here.prefix = key
  BY DEF InsertReannounce, Calling, Return, Exact
<1>2. /\ t \in Live /\ t \in Idx
      /\ Here \in Node /\ Here = node[t]
      /\ Pop \in Seq(Frame)
  BY <1>1, Running DEF Here
<1> HIDE DEF t
<1>3. /\ Live' = Live
      /\ node' \in [Live -> Node]
      /\ \A i \in Live : /\ node'[i].prefix = node[i].prefix
                         /\ node'[i].children = node[i].children
      /\ \A i \in Live \ {t} : node'[i] = node[i]
      /\ node'[t].announced = TRUE
  BY <1>1, <1>2 DEF TrieInv, TypeOK, Live, Node
<1>4. CountExact' /\ announcedCount' \in Nat
  <2>1. CASE Here.announced
    <3>1. Announced' = Announced
      BY <1>2, <1>3, <2>1 DEF Announced
    <3> QED
      BY <1>1, <2>1, <3>1, CountSame DEF TrieInv
  <2>2. CASE ~ Here.announced
    <3>1. Announced' = Announced \cup {t} /\ t \notin Announced
      BY <1>2, <1>3, <2>2 DEF Announced
    <3> QED
      BY <1>1, <2>2, <3>1, CountUp DEF TrieInv
  <2> QED
    BY <2>1, <2>2
<1>5. TypeOK'
  BY <1>1, <1>2, <1>3, <1>4 DEF TrieInv, TypeOK, Outcome, Live
<1>6. ShapeOK'
  <2>1. Pfx' = Pfx
    BY <1>3 DEF Pfx
  <2>2. \A i \in Live, b \in Bit : Kid(i, b)' = node[i].children[b]
    BY <1>1, <1>3, KidsReturned DEF t
  <2>3. KidMap' = KidMap
    <3>1. \A i \in Live, b \in Bit : Kid(i, b) = node[i].children[b]
      BY <1>1 DEF Kid, Calling
    <3> QED
      BY <1>3, <2>2, <3>1 DEF KidMap
  <2>4. Entry' = Entry
    BY <1>1, <1>3, KidsReturned, Settled DEF t, TrieInv
  <2> QED
    BY <1>3, <2>1, <2>3, <2>4, <1>1, SameShape DEF TrieInv
<1>7. InsertAnswer'
  BY <1>1, <1>2, <1>3 DEF InsertAnswer
<1> QED
  BY <1>1, <1>2, <1>3, <1>4, <1>5, <1>6, <1>7, FrameReturned DEF t

\* Going down: the running frame is suspended in slot b and a frame of the child
\* in it runs.
LEMMA PathPushed ==
  ASSUME TrieInv, pc \notin {"poisoned", "inserted"}, stack # <<>>,
         UNCHANGED <<node, root>>,
         NEW b \in Bit, Here.children[b] # None,
         Len(stack') = Len(stack) + 1,
         \A k \in 1 .. Len(stack) - 1 : stack'[k] = stack[k],
         stack'[Len(stack)].at = Top.at, stack'[Len(stack)].slot = b,
         stack'[Len(stack) + 1].at = Here.children[b]
  PROVE  PathOK'
<1> DEFINE n == Len(stack)
           child == Here.children[b]
<1>1. /\ n \in Nat \ {0}
      /\ Top = stack[n]
      /\ Top.at \in Live
      /\ Here = node[Top.at]
      /\ \A k \in 1 .. n : k \in 1 .. n - 1 \/ k = n
  BY Running DEF Top, Here
<1>2. /\ \A i \in Live : Pfx[i] = node[i].prefix /\ node[i].prefix \in Prefix
      /\ KidMap = [i \in Live |-> node[i].children]
  BY Settled DEF TrieInv, TypeOK, Node, Live, Pfx
<1>3. child \in Live /\ StrictlyCovers(node[Top.at].prefix, node[child].prefix)
  BY <1>1, <1>2 DEF TrieInv, ShapeOK, Shape, EdgesDown
<1>4. Len(node[Top.at].prefix) < Len(node[child].prefix)
  BY <1>1, <1>2, <1>3, StrictlyLonger
<1>5. \A k \in 1 .. n : stack'[k].at = stack[k].at
  BY <1>1
<1>6. /\ \A k \in 1 .. Len(stack') : k \in 1 .. n \/ k = n + 1
      /\ \A k \in 1 .. Len(stack') - 1 : k \in 1 .. n - 1 \/ k = n
  <2>1. n \in Nat \ {0} /\ Len(stack') = n + 1
    BY <1>1
  <2> HIDE DEF n
  <2> QED
    BY ONLY <2>1
<1>7. \A k \in 1 .. n :
        /\ stack[k].at \in Live
        /\ Len(node[stack[k].at].prefix) < Len(node[child].prefix)
        /\ Len(node[stack[k].at].prefix) \in Nat
  <2> SUFFICES ASSUME NEW k \in 1 .. n
               PROVE  /\ stack[k].at \in Live
                      /\ Len(node[stack[k].at].prefix) < Len(node[child].prefix)
                      /\ Len(node[stack[k].at].prefix) \in Nat
    OBVIOUS
  <2>1. stack[k].at \in Live
    BY DEF TrieInv, PathOK
  <2>2. /\ Len(node[stack[k].at].prefix) \in Nat
        /\ Len(node[Top.at].prefix) \in Nat
        /\ Len(node[child].prefix) \in Nat
    <3>1. \A i \in Live : Len(node[i].prefix) \in Nat
      BY <1>2, PrefixShape
    <3> HIDE DEF child
    <3> QED
      BY <1>1, <1>3, <2>1, <3>1
  <2>3. CASE k = n
    BY <1>1, <1>4, <2>1, <2>2, <2>3
  <2>4. CASE k # n
    <3>1. Len(node[stack[k].at].prefix) < Len(node[Top.at].prefix)
      BY <1>1, <2>4 DEF TrieInv, PathOK
    <3>2. \A x, y, z \in Nat : x < y /\ y < z => x < z
      OBVIOUS
    <3> HIDE DEF child
    <3> QED
      BY <1>4, <2>1, <2>2, <3>1, <3>2
  <2> QED
    BY <2>3, <2>4
<1> HIDE DEF n, child
<1>8. stack'[n + 1].at = child /\ child \in Live /\ Len(stack') = n + 1
  BY <1>3 DEF n, child
<1>9. \A k \in 1 .. Len(stack') : stack'[k].at \in Live'
  BY <1>5, <1>6, <1>7, <1>8 DEF Live
<1>10. stack' # <<>> => stack'[1].at = root'
  BY <1>1, <1>5 DEF TrieInv, PathOK, n
<1>11. ASSUME NEW k \in 1 .. Len(stack') - 1
       PROVE  /\ stack'[k].slot \in Bit
              /\ node'[stack'[k].at].children[stack'[k].slot] = stack'[k + 1].at
  <2>1. CASE k = n
    BY <1>1, <1>8, <2>1 DEF n, child
  <2>2. CASE k \in 1 .. n - 1
    <3>1. /\ stack'[k] = stack[k]
          /\ k + 1 \in 1 .. n
      BY <1>1, <2>2 DEF n
    <3>2. stack'[k + 1].at = stack[k + 1].at
      BY <1>5, <3>1
    <3> QED
      BY <2>2, <3>1, <3>2 DEF TrieInv, PathOK, n
  <2> QED
    BY <1>6, <2>1, <2>2
<1>12. ASSUME NEW k \in 1 .. Len(stack'), NEW l \in 1 .. Len(stack'), k < l
       PROVE  Len(node'[stack'[k].at].prefix) < Len(node'[stack'[l].at].prefix)
  <2>1. k \in 1 .. n
    BY <1>1, <1>6, <1>12, <1>8
  <2>2. CASE l = n + 1
    BY <1>5, <1>7, <1>8, <2>1, <2>2
  <2>3. CASE l \in 1 .. n
    BY <1>5, <1>12, <2>1, <2>3 DEF TrieInv, PathOK, n
  <2> QED
    BY <1>6, <2>2, <2>3
<1> QED
  BY <1>9, <1>10, <1>11, <1>12 DEF PathOK

\* The stack that insert and withdraw go down with.
LEMMA Pushed ==
  ASSUME TrieInv, pc # "poisoned", stack # <<>>, NEW b \in Bit, NEW child \in Idx,
         stack' = Append(Pop, [Top EXCEPT !.slot = b]) \o Enter(child)
  PROVE  /\ stack' \in Seq(Frame)
         /\ stack' # <<>>
         /\ Len(stack') = Len(stack) + 1
         /\ \A k \in 1 .. Len(stack) - 1 : stack'[k] = stack[k]
         /\ stack'[Len(stack)].at = Top.at
         /\ stack'[Len(stack)].slot = b
         /\ stack'[Len(stack) + 1].at = child
<1> DEFINE f == [Top EXCEPT !.slot = b]
           g == [at |-> child, slot |-> 0]
           s == Append(Pop, f)
<1>1. /\ Pop \in Seq(Frame)
      /\ Len(Pop) = Len(stack) - 1
      /\ Len(stack) \in Nat \ {0}
      /\ \A k \in 1 .. Len(stack) - 1 : Pop[k] = stack[k]
  BY Running
<1>2. f \in Frame /\ g \in Frame /\ f.at = Top.at /\ f.slot = b /\ g.at = child
  <2>1. Top \in Frame /\ b \in 0 .. 2
    BY Running DEF Bit
  <2> HIDE DEF Top
  <2> QED
    BY <2>1 DEF Frame
<1> HIDE DEF f, g
<1>3. /\ s \in Seq(Frame)
      /\ Len(s) = Len(Pop) + 1
      /\ s[Len(Pop) + 1] = f
      /\ \A k \in 1 .. Len(Pop) : s[k] = Pop[k]
  BY <1>1, <1>2, AppendProperties2
<1> HIDE DEF s
<1>4. stack' = s \o <<g>>
  BY DEF Enter, s, f, g
<1>5. /\ stack' \in Seq(Frame)
      /\ stack' # <<>>
      /\ Len(stack') = Len(s) + 1
      /\ stack'[Len(s) + 1] = g
      /\ \A k \in 1 .. Len(s) : stack'[k] = s[k]
  <2> DEFINE a == Append(s, g)
  <2>1. /\ a \in Seq(Frame)
        /\ a # <<>>
        /\ Len(a) = Len(s) + 1
        /\ a[Len(s) + 1] = g
        /\ \A k \in 1 .. Len(s) : a[k] = s[k]
        /\ s \o <<g>> = a
    BY <1>2, <1>3, AppendProperties2
  <2> HIDE DEF a
  <2> QED
    BY <1>4, <2>1
<1>6. Len(s) = Len(stack) /\ Len(Pop) + 1 = Len(stack)
  BY <1>1, <1>3
<1>7. /\ \A k \in 1 .. Len(stack) - 1 : k \in 1 .. Len(s) /\ k \in 1 .. Len(Pop)
      /\ Len(stack) \in 1 .. Len(s)
  BY <1>1, <1>6
<1> QED
  BY <1>1, <1>2, <1>3, <1>5, <1>6, <1>7

\* Where the key of an insert lies relative to the running frame's node.
LEMMA KeyPosition ==
  ASSUME TrieInv, pc \notin {"poisoned", "inserted"}, stack # <<>>
  PROVE  /\ key \in Prefix
         /\ Below => StrictlyCovers(Here.prefix, key) /\ Toward \in Bit
         /\ Above => StrictlyCovers(key, Here.prefix)
         /\ pc = "insert" =>
              \A j \in Live, c \in Bit :
                node[j].children[c] = Top.at =>
                  /\ StrictlyCovers(node[j].prefix, key)
                  /\ c = BitAt(key, Len(node[j].prefix))
<1> DEFINE n == Len(stack)
<1>1. /\ key \in Prefix /\ Here.prefix \in Prefix
      /\ n \in Nat \ {0}
      /\ Top = stack[n] /\ Top.at \in Live /\ Top.at # None
  BY Running, TreeAssumption DEF TrieInv, TypeOK, Top
<1>2. Below => StrictlyCovers(Here.prefix, key) /\ Toward \in Bit
  BY <1>1, KeyBelow, StrictlyLonger DEF Below, Exact, Toward
<1>3. Above => StrictlyCovers(key, Here.prefix)
  BY <1>1, KeyAbove DEF Above, Exact
<1>4. ASSUME pc = "insert", NEW j \in Live, NEW c \in Bit, node[j].children[c] = Top.at
      PROVE  /\ StrictlyCovers(node[j].prefix, key)
             /\ c = BitAt(key, Len(node[j].prefix))
  <2>1. Entry = root /\ KidMap = [i \in Live |-> node[i].children]
    BY Settled DEF TrieInv
  <2>2. /\ Top.at # root
        /\ \A i \in Live, b \in Bit :
             node[i].children[b] = Top.at => i = j /\ b = c
    BY <1>1, <1>4, <2>1, OneParent DEF TrieInv, ShapeOK
  <2>3. n # 1
    BY <1>1, <2>2 DEF TrieInv, PathOK
  <2>4. n - 1 \in 1 .. n - 1 /\ n - 1 + 1 = n
    <3>1. n \in Nat \ {0}
      BY <1>1
    <3> HIDE DEF n
    <3> QED
      BY ONLY <2>3, <3>1
  <2>5. /\ stack[n - 1].at \in Live
        /\ stack[n - 1].slot \in Bit
        /\ node[stack[n - 1].at].children[stack[n - 1].slot] = Top.at
    BY <1>1, <2>4, LowerFrames DEF TrieInv, PathOK
  <2>6. stack[n - 1].at = j /\ stack[n - 1].slot = c
    BY <2>2, <2>5
  <2> QED
    BY <1>4, <2>4, <2>6 DEF TrieInv, DescentOK
<1> QED
  BY <1>1, <1>2, <1>3, <1>4

LEMMA InsertDescendStep == TrieInv /\ InsertDescend => TrieInv'
<1> SUFFICES ASSUME TrieInv, InsertDescend
             PROVE  TrieInv'
  OBVIOUS
<1> DEFINE n == Len(stack)
           b == Toward
           child == Here.children[b]
<1>1. /\ pc = "insert" /\ pc' = "insert" /\ stack # <<>>
      /\ stack' = Append(Pop, [Top EXCEPT !.slot = b]) \o Enter(child)
      /\ UNCHANGED <<node, root, announcedCount, key, now, ret, dirty>>
      /\ Below
      /\ child # None
  BY DEF InsertDescend, Calling
<1>2. /\ StrictlyCovers(Here.prefix, key)
      /\ b \in Bit
      /\ Here \in Node
      /\ n \in Nat \ {0}
  BY <1>1, KeyPosition, Running
<1>3. child \in Idx
  BY <1>1, <1>2 DEF Node
<1>4. /\ stack' \in Seq(Frame)
      /\ stack' # <<>>
      /\ Len(stack') = n + 1
      /\ \A k \in 1 .. n - 1 : stack'[k] = stack[k]
      /\ stack'[n].at = Top.at
      /\ stack'[n].slot = b
      /\ stack'[n + 1].at = child
  BY <1>1, <1>2, <1>3, Pushed
<1>5. TypeOK'
  BY <1>1, <1>4 DEF TrieInv, TypeOK, Live
<1>6. CountExact' /\ InsertAnswer'
  BY <1>1 DEF TrieInv, CountExact, InsertAnswer, Live
<1>7. ShapeOK'
  BY <1>1, <1>5, SettledShape DEF TrieInv
<1>8. PathOK'
  BY <1>1, <1>2, <1>4, PathPushed
<1>9. DescentOK'
  <2> SUFFICES ASSUME NEW k \in 1 .. Len(stack') - 1
               PROVE  /\ StrictlyCovers(node[stack'[k].at].prefix, key)
                      /\ stack'[k].slot = BitAt(key, Len(node[stack'[k].at].prefix))
    BY <1>1, <1>4 DEF DescentOK
  <2>1. CASE k = n
    BY <1>2, <1>4, <2>1 DEF Here, Toward
  <2>2. CASE k \in 1 .. n - 1
    BY <1>1, <1>4, <2>2 DEF TrieInv, DescentOK
  <2>3. k = n \/ k \in 1 .. n - 1
    BY <1>2, <1>4
  <2> QED
    BY <2>1, <2>2, <2>3
<1> QED
  BY <1>5, <1>6, <1>7, <1>8, <1>9 DEF TrieInv

\* A new leaf for the key counts as one more announced node.
LEMMA LeafIsNode ==
  ASSUME TypeOK
  PROVE  /\ Leaf \in Node
         /\ Leaf.prefix = key
         /\ Leaf.announced = TRUE
         /\ Leaf.children = Childless
BY DEF TypeOK, Leaf, Node, Childless

LEMMA LaterType ==
  ASSUME NEW x \in Nat, NEW y \in Nat
  PROVE  Later(x, y) \in Nat
BY DEF Later

\* A node with a rewired slot and a new timestamp.
Edited(n, b, x, t) == [n EXCEPT !.children[b] = x, !.ts = t]

LEMMA EditedNode ==
  ASSUME NEW n \in Node, NEW b \in Bit, NEW x \in Idx \cup {None}, NEW t \in Nat
  PROVE  /\ Edited(n, b, x, t) \in Node
         /\ Edited(n, b, x, t).children = [n.children EXCEPT ![b] = x]
         /\ Edited(n, b, x, t).prefix = n.prefix
         /\ Edited(n, b, x, t).announced = n.announced
<1> DEFINE r == Edited(n, b, x, t)
<1>1. r = [n EXCEPT !.children[b] = x, !.ts = t]
  BY DEF Edited
<1> HIDE DEF r
<1>2. /\ r.children = [n.children EXCEPT ![b] = x]
      /\ r.prefix = n.prefix
      /\ r.announced = n.announced
  BY <1>1 DEF Node
<1>3. r \in Node
  BY <1>1 DEF Node
<1> QED
  BY <1>2, <1>3 DEF r

LEMMA InsertGraftStep == TrieInv /\ InsertGraft => TrieInv'
<1> SUFFICES ASSUME TrieInv, InsertGraft
             PROVE  TrieInv'
  OBVIOUS
<1> DEFINE t == Top.at
           b == Toward
<1>1. PICK leaf \in Idx \ Live :
        /\ node' = Extended([node EXCEPT ![t].children[b] = leaf,
                                         ![t].ts = Later(@, now)], leaf, Leaf)
        /\ dirty' = dirty \o <<leaf, t>>
        /\ Return("inserted", [subroot |-> t, target |-> leaf,
                               advanced |-> now > Here.ts, found |-> TRUE])
  BY DEF InsertGraft
<1>2. /\ pc = "insert" /\ stack # <<>> /\ pc' = "inserted" /\ stack' = Pop
      /\ ret' = [subroot |-> t, target |-> leaf,
                 advanced |-> now > Here.ts, found |-> TRUE]
      /\ announcedCount' = announcedCount + 1
      /\ UNCHANGED <<root, key, now>>
      /\ Below
      /\ Here.children[b] = None
  BY <1>1 DEF InsertGraft, Calling, Return
<1>3. /\ t \in Live /\ t \in Idx
      /\ Here \in Node /\ Here = node[t]
      /\ Pop \in Seq(Frame)
      /\ b \in Bit
      /\ StrictlyCovers(node[t].prefix, key)
      /\ key \in Prefix
      /\ leaf # t
  BY <1>1, <1>2, Running, KeyPosition DEF Here
<1>4. Here.children[b] = None /\ b = BitAt(key, Len(node[t].prefix))
  BY <1>2, <1>3 DEF Toward
<1> HIDE DEF t, b
<1>5. /\ Live' = Live \cup {leaf}
      /\ node'[leaf] = Leaf
      /\ \A i \in Live \ {t} : node'[i] = node[i]
      /\ node'[t] = Edited(node[t], b, leaf, Later(node[t].ts, now))
  BY <1>1, <1>3 DEF Extended, Live, Edited
<1>6. /\ node[t] \in Node
      /\ now \in Nat
      /\ Later(node[t].ts, now) \in Nat
  BY <1>3, LaterType DEF TrieInv, TypeOK, Node
<1>7. /\ node'[t].children = [node[t].children EXCEPT ![b] = leaf]
      /\ node'[t].prefix = node[t].prefix
      /\ node'[t].announced = node[t].announced
      /\ node'[t] \in Node
  <2>1. leaf \in Idx \cup {None}
    BY <1>1
  <2> QED
    BY <1>3, <1>5, <1>6, <2>1, EditedNode
<1>8. /\ node' \in [Live' -> Node]
      /\ \A i \in Live : node'[i].prefix = node[i].prefix
      /\ \A i \in Live : node'[i].announced = node[i].announced
  <2>1. Leaf \in Node
    BY LeafIsNode DEF TrieInv
  <2>2. DOMAIN node' = Live' /\ node' = [i \in Live' |-> node'[i]]
    BY <1>1 DEF Live, Extended
  <2>3. \A i \in Live' : node'[i] \in Node
    BY <1>5, <1>7, <2>1 DEF TrieInv, TypeOK
  <2> QED
    BY <1>5, <1>7, <2>2, <2>3
<1>9. CountExact' /\ announcedCount' \in Nat
  <2>1. node'[leaf].announced = TRUE
    BY <1>5, LeafIsNode DEF TrieInv
  <2>2. Announced' = Announced \cup {leaf} /\ leaf \notin Announced
    BY <1>1, <1>5, <1>8, <2>1, Zenon DEF Announced
  <2> QED
    BY <1>2, <2>2, CountUp DEF TrieInv
<1>10. TypeOK'
  <2>1. <<leaf, t>> \in Seq(Idx)
    BY <1>1, <1>3
  <2>2. dirty' \in Seq(Idx)
    BY <1>1, <2>1 DEF TrieInv, TypeOK, t
  <2>3. ret' \in Outcome
    BY <1>1, <1>2, <1>3 DEF Outcome
  <2>4. Live' \subseteq Idx
    BY <1>5 DEF TrieInv, TypeOK
  <2> QED
    BY <1>2, <1>3, <1>8, <1>9, <2>2, <2>3, <2>4 DEF TrieInv, TypeOK, Live
<1>11. ShapeOK'
  <2>1. Pfx' = Extended(Pfx, leaf, key)
    <3>1. \A i \in Live \cup {leaf} :
            node'[i].prefix = IF i = leaf THEN key ELSE node[i].prefix
      BY <1>5, <1>8, LeafIsNode DEF TrieInv
    <3> QED
      BY <1>5, <3>1 DEF Pfx, Extended
  <2>2. Entry' = Entry
    BY <1>2, <1>5, KidsReturned, Settled DEF TrieInv, t
  <2>3. KidMap = [i \in Live |-> node[i].children]
    BY <1>2, Settled DEF TrieInv
  <2>4. KidMap' = Grafted(KidMap, t, b, leaf)
    <3>1. \A c \in Bit : Kid(leaf, c)' = None
      <4>1. leaf \in Live' \ Live
        BY <1>1, <1>5
      <4> QED
        BY <1>2, <1>5, <4>1, KidsReturned, LeafIsNode DEF Childless, TrieInv
    <3>2. ASSUME NEW i \in Live, NEW c \in Bit
          PROVE  Kid(i, c)' = IF i = t /\ c = b THEN leaf ELSE node[i].children[c]
      <4>1. Kid(i, c)' = IF node[i].children[c] = t THEN t ELSE node'[i].children[c]
        BY <1>2, <1>5, KidsReturned DEF t
      <4>2. CASE i = t
        <5>1. node[t].children \in [Bit -> Idx \cup {None}]
          BY <1>6 DEF Node
        <5>2. node[t].children[c] # t
          <6>1. \A x \in Live, d \in Bit : KidMap[x][d] # None =>
                  StrictlyCovers(Pfx[x], Pfx[KidMap[x][d]])
            BY <1>2 DEF TrieInv, ShapeOK, Shape, EdgesDown
          <6>2. t # None
            BY <1>3, TreeAssumption
          <6> QED
            BY <1>3, <2>3, <6>1, <6>2 DEF StrictlyCovers
        <5> QED
          BY <1>3, <1>7, <4>1, <4>2, <5>1, <5>2
      <4>3. CASE i # t
        BY <1>5, <4>1, <4>3
      <4> QED
        BY <4>2, <4>3
    <3>3. \A i \in Live : node[i].children \in [Bit -> Idx \cup {None}]
      BY DEF TrieInv, TypeOK, Node
    <3>4. /\ DOMAIN KidMap = Live
          /\ \A i \in Live : KidMap[i] = node[i].children
      BY <2>3
    <3>5. \A i \in Live \cup {leaf} :
            [c \in Bit |-> Kid(i, c)'] = IF i = leaf THEN Childless
                                        ELSE IF i = t THEN [KidMap[t] EXCEPT ![b] = leaf]
                                        ELSE KidMap[i]
      <4> SUFFICES ASSUME NEW i \in Live \cup {leaf}
                   PROVE  [c \in Bit |-> Kid(i, c)'] =
                            IF i = leaf THEN Childless
                            ELSE IF i = t THEN [KidMap[t] EXCEPT ![b] = leaf]
                            ELSE KidMap[i]
        OBVIOUS
      <4>1. CASE i = leaf
        BY <3>1, <4>1 DEF Childless
      <4>2. CASE i = t
        BY <1>1, <1>3, <3>2, <3>3, <3>4, <4>2
      <4>3. CASE i # leaf /\ i # t
        <5>1. \A c \in Bit : Kid(i, c)' = node[i].children[c]
          BY <3>2, <4>3
        <5>2. [c \in Bit |-> Kid(i, c)'] = node[i].children
          BY <3>3, <4>3, <5>1
        <5> QED
          BY <3>4, <4>3, <5>2
      <4> QED
        BY <4>1, <4>2, <4>3
    <3> QED
      BY <1>5, <3>4, <3>5 DEF KidMap, Grafted
  <2>5. Pfx[t] = node[t].prefix /\ KidMap[t] = node[t].children
    BY <1>3, <2>3 DEF Pfx
  <2>6. Shape(Live \cup {leaf}, Extended(Pfx, leaf, key), Grafted(KidMap, t, b, leaf), Entry)
    BY <1>1, <1>2, <1>3, <1>4, <2>5, GraftShape DEF TrieInv, ShapeOK
  <2> QED
    BY <1>5, <2>1, <2>2, <2>4, <2>6 DEF ShapeOK
<1>12. InsertAnswer'
  BY <1>2, <1>5, LeafIsNode DEF InsertAnswer, TrieInv
<1> QED
  BY <1>2, <1>3, <1>5, <1>8, <1>9, <1>10, <1>11, <1>12, FrameReturned DEF t

\* The pointer to the running frame's node now leads to a new node above it.
LEMMA KidsSpliced ==
  ASSUME TrieInv, pc = "insert", stack # <<>>,
         NEW new \in Idx \ Live, Live \cup {new} \subseteq Live',
         pc' = "inserted", stack' = Pop, root' = root, ret'.subroot = new,
         \A i \in Live : node'[i].children = node[i].children
  PROVE  /\ Entry' = IF Entry = Top.at THEN new ELSE Entry
         /\ \A i \in Live :
              [c \in Bit |-> Kid(i, c)'] =
              [c \in Bit |-> IF KidMap[i][c] = Top.at THEN new ELSE KidMap[i][c]]
<1>1. Entry = root /\ KidMap = [i \in Live |-> node[i].children]
  BY Settled DEF TrieInv
<1>2. \A i \in Live, c \in Bit :
        Kid(i, c)' = IF KidMap[i][c] = Top.at THEN new ELSE KidMap[i][c]
  BY <1>1, KidsReturned
<1>3. Entry' = IF Entry = Top.at THEN new ELSE Entry
  BY <1>1, KidsReturned
<1> QED
  BY <1>2, <1>3

LEMMA InsertSpliceStep == TrieInv /\ InsertSplice => TrieInv'
<1> SUFFICES ASSUME TrieInv, InsertSplice
             PROVE  TrieInv'
  OBVIOUS
<1> DEFINE t == Top.at
           b == BitAt(Here.prefix, Len(key))
           made == Edited(Leaf, b, t, Later(now, Here.ts))
<1>1. PICK new \in Idx \ Live :
        /\ node' = Extended(node, new, made)
        /\ dirty' = Append(dirty, new)
        /\ Return("inserted", [subroot |-> new, target |-> new,
                               advanced |-> now > Here.ts, found |-> TRUE])
  BY DEF InsertSplice, Edited
<1>2. /\ pc = "insert" /\ stack # <<>> /\ pc' = "inserted" /\ stack' = Pop
      /\ ret' = [subroot |-> new, target |-> new,
                 advanced |-> now > Here.ts, found |-> TRUE]
      /\ announcedCount' = announcedCount + 1
      /\ UNCHANGED <<root, key, now>>
      /\ Above
  BY <1>1 DEF InsertSplice, Calling, Return
<1>3. /\ t \in Live /\ t \in Idx
      /\ Here \in Node /\ Here = node[t]
      /\ Pop \in Seq(Frame)
      /\ StrictlyCovers(key, Here.prefix)
      /\ key \in Prefix /\ Here.prefix \in Prefix
      /\ Here.ts \in Nat /\ now \in Nat
      /\ new # t
  BY <1>1, <1>2, Running, KeyPosition DEF Here, TrieInv, TypeOK
<1>4. b \in Bit
  BY <1>3, StrictlyLonger
<1>5. /\ made \in Node
      /\ made.children = [Childless EXCEPT ![b] = t]
      /\ made.prefix = key
      /\ made.announced = TRUE
  <2> DEFINE ts == Later(now, Here.ts)
  <2>1. ts \in Nat /\ t \in Idx \cup {None}
    BY <1>3, LaterType
  <2>2. /\ Leaf \in Node /\ Leaf.prefix = key
        /\ Leaf.announced = TRUE /\ Leaf.children = Childless
    BY LeafIsNode DEF TrieInv
  <2> HIDE DEF b, t, ts
  <2>3. /\ Edited(Leaf, b, t, ts) \in Node
        /\ Edited(Leaf, b, t, ts).children = [Leaf.children EXCEPT ![b] = t]
        /\ Edited(Leaf, b, t, ts).prefix = Leaf.prefix
        /\ Edited(Leaf, b, t, ts).announced = Leaf.announced
    BY <1>4, <2>1, <2>2, EditedNode
  <2> QED
    BY <2>2, <2>3 DEF ts
<1> HIDE DEF t, b, made
<1>6. /\ Live' = Live \cup {new}
      /\ node'[new] = made
      /\ \A i \in Live : node'[i] = node[i]
      /\ node' \in [Live' -> Node]
  BY <1>1, <1>5 DEF Extended, Live, TrieInv, TypeOK
<1>7. CountExact' /\ announcedCount' \in Nat
  <2>1. Announced' = Announced \cup {new} /\ new \notin Announced
    BY <1>1, <1>5, <1>6, Zenon DEF Announced
  <2> QED
    BY <1>2, <2>1, CountUp DEF TrieInv
<1>8. TypeOK'
  <2>1. dirty' \in Seq(Idx)
    BY <1>1 DEF TrieInv, TypeOK
  <2>2. ret' \in Outcome
    BY <1>1, <1>2, <1>3 DEF Outcome
  <2>3. Live' \subseteq Idx
    BY <1>6 DEF TrieInv, TypeOK
  <2> QED
    BY <1>2, <1>3, <1>6, <1>7, <2>1, <2>2, <2>3 DEF TrieInv, TypeOK, Live
<1>9. ShapeOK'
  <2>1. Pfx' = Extended(Pfx, new, key)
    <3>1. \A i \in Live \cup {new} :
            node'[i].prefix = IF i = new THEN key ELSE node[i].prefix
      BY <1>1, <1>5, <1>6
    <3> QED
      BY <1>6, <3>1 DEF Pfx, Extended
  <2>2. KidMap = [i \in Live |-> node[i].children] /\ Pfx[t] = Here.prefix
    BY <1>2, <1>3, Settled DEF TrieInv, Pfx
  <2>3. /\ Entry' = IF Entry = t THEN new ELSE Entry
        /\ \A i \in Live :
             [c \in Bit |-> Kid(i, c)'] =
             [c \in Bit |-> IF KidMap[i][c] = t THEN new ELSE KidMap[i][c]]
    BY <1>2, <1>6, KidsSpliced DEF t
  <2>4. KidMap' = Spliced(KidMap, t, b, new)
    <3>1. [c \in Bit |-> Kid(new, c)'] = [Childless EXCEPT ![b] = t]
      <4>1. new \in Live' \ Live
        BY <1>1, <1>6
      <4>2. \A c \in Bit : Kid(new, c)' = node'[new].children[c]
        BY <1>2, <1>6, <4>1, KidsReturned
      <4> QED
        BY <1>5, <1>6, <4>2 DEF Childless
    <3>2. DOMAIN KidMap = Live
      BY <2>2
    <3>3. KidMap' = [i \in Live \cup {new} |-> [c \in Bit |-> Kid(i, c)']]
      BY <1>6 DEF KidMap
    <3> QED
      BY <1>1, <2>3, <3>1, <3>2, <3>3, Zenon DEF Spliced
  <2>5. \A j \in Live, c \in Bit : KidMap[j][c] = t => StrictlyCovers(Pfx[j], key)
    BY <1>2, <2>2, KeyPosition DEF Pfx, t
  <2>6. StrictlyCovers(key, Pfx[t]) /\ b = BitAt(Pfx[t], Len(key))
    BY <1>3, <2>2 DEF b
  <2>7. Shape(Live, Pfx, KidMap, Entry)
    BY <1>2 DEF TrieInv, ShapeOK
  <2>8. Shape(Live \cup {new}, Extended(Pfx, new, key), Spliced(KidMap, t, b, new),
              IF Entry = t THEN new ELSE Entry)
    BY <1>1, <1>3, <2>5, <2>6, <2>7, SpliceShape
  <2> QED
    BY <1>6, <2>1, <2>3, <2>4, <2>8 DEF ShapeOK
<1>10. InsertAnswer'
  BY <1>2, <1>5, <1>6 DEF InsertAnswer
<1> QED
  BY <1>1, <1>2, <1>3, <1>6, <1>7, <1>8, <1>9, <1>10, FrameReturned

\* A fork is put above the running frame's node, and a leaf hung on it.
LEMMA InsertSplitStep == TrieInv /\ InsertSplit => TrieInv'
<1> SUFFICES ASSUME TrieInv, InsertSplit
             PROVE  TrieInv'
  OBVIOUS
<1> DEFINE t == Top.at
           common == CommonPrefixLen(key, Here.prefix)
           m  == Masked(key, common)
           bk == BitAt(key, common)
           bh == BitAt(Here.prefix, common)
<1>1. PICK leaf \in Idx \ Live, split \in Idx \ Live :
        /\ leaf # split
        /\ node' = Extended(Extended(node, leaf, Leaf), split, Fork(leaf))
        /\ dirty' = dirty \o <<split, leaf>>
        /\ Return("inserted", [subroot |-> split, target |-> leaf,
                               advanced |-> now > Here.ts, found |-> TRUE])
  BY DEF InsertSplit
<1>2. /\ pc = "insert" /\ stack # <<>> /\ pc' = "inserted" /\ stack' = Pop
      /\ ret' = [subroot |-> split, target |-> leaf,
                 advanced |-> now > Here.ts, found |-> TRUE]
      /\ announcedCount' = announcedCount + 1
      /\ UNCHANGED <<root, key, now>>
      /\ Apart
  BY <1>1 DEF InsertSplit, Calling, Return
<1>3. /\ t \in Live /\ t \in Idx
      /\ Here \in Node /\ Here = node[t]
      /\ Pop \in Seq(Frame)
      /\ key \in Prefix /\ Here.prefix \in Prefix
      /\ Here.ts \in Nat /\ now \in Nat
  BY <1>1, <1>2, Running, KeyPosition DEF Here, TrieInv, TypeOK
<1>4. common # Len(Here.prefix) /\ common # Len(key)
  BY <1>2 DEF Apart, Below, Above
<1>5. /\ m \in Prefix /\ Len(m) = common
      /\ StrictlyCovers(m, Here.prefix) /\ StrictlyCovers(m, key)
      /\ bk # bh
  BY <1>3, <1>4, KeyApart
<1>6. bk \in Bit /\ bh \in Bit
  BY <1>3, <1>5, StrictlyLonger
<1>7. /\ Fork(leaf) \in Node
      /\ Fork(leaf).prefix = m
      /\ Fork(leaf).announced = FALSE
      /\ \A c \in Bit : Fork(leaf).children[c] = IF c = bk THEN leaf ELSE t
  <2> DEFINE kids == [Childless EXCEPT ![bk] = leaf, ![bh] = t]
             ts == Later(Here.ts, now)
  <2>1. Fork(leaf) = [children |-> kids, prefix |-> m, announced |-> FALSE, ts |-> ts]
    BY DEF Fork
  <2>2. ts \in Nat
    BY <1>3, LaterType
  <2>3. kids \in [Bit -> Idx \cup {None}]
    BY <1>1, <1>3 DEF Childless
  <2>4. \A c \in Bit : kids[c] = IF c = bk THEN leaf ELSE t
    <3>1. \A c \in Bit : c = bk \/ c = bh
      BY <1>5, <1>6 DEF Bit
    <3> HIDE DEF bk, bh
    <3> QED
      BY <1>5, <1>6, <3>1 DEF Childless
  <2> HIDE DEF kids, ts, m, bk
  <2> QED
    BY <1>5, <2>1, <2>2, <2>3, <2>4 DEF Node
<1> HIDE DEF t, common, m, bk, bh
<1>8. /\ Live' = Live \cup {split} \cup {leaf}
      /\ node'[split] = Fork(leaf)
      /\ node'[leaf] = Leaf
      /\ \A i \in Live : node'[i] = node[i]
      /\ node' \in [Live' -> Node]
  <2>1. Leaf \in Node
    BY LeafIsNode DEF TrieInv
  <2> QED
    BY <1>1, <1>7, <2>1 DEF Extended, Live, TrieInv, TypeOK
<1>9. CountExact' /\ announcedCount' \in Nat
  <2>1. /\ node'[leaf].announced
        /\ ~ node'[split].announced
        /\ \A i \in Live : node'[i].announced = node[i].announced
    BY <1>7, <1>8, LeafIsNode DEF TrieInv
  <2>2. Announced' = Announced \cup {leaf} /\ leaf \notin Announced
    BY <1>1, <1>8, <2>1, Zenon DEF Announced
  <2> QED
    BY <1>2, <2>2, CountUp DEF TrieInv
<1>10. TypeOK'
  <2>1. <<split, leaf>> \in Seq(Idx)
    BY <1>1
  <2>2. dirty' \in Seq(Idx)
    BY <1>1, <2>1 DEF TrieInv, TypeOK
  <2>3. ret' \in Outcome
    BY <1>1, <1>2, <1>3 DEF Outcome
  <2>4. Live' \subseteq Idx
    BY <1>8 DEF TrieInv, TypeOK
  <2> QED
    BY <1>2, <1>3, <1>8, <1>9, <2>2, <2>3, <2>4 DEF TrieInv, TypeOK, Live
<1>11. ShapeOK'
  <2> DEFINE P2 == Extended(Pfx, split, m)
             K2 == Spliced(KidMap, t, bh, split)
             e2 == IF Entry = t THEN split ELSE Entry
  <2>1. /\ KidMap = [i \in Live |-> node[i].children]
        /\ Pfx[t] = Here.prefix
        /\ DOMAIN Pfx = Live
    BY <1>2, <1>3, Settled DEF TrieInv, Pfx
  <2>2. \A j \in Live, c \in Bit : KidMap[j][c] = t => StrictlyCovers(Pfx[j], m)
    <3> SUFFICES ASSUME NEW j \in Live, NEW c \in Bit, KidMap[j][c] = t
                 PROVE  StrictlyCovers(Pfx[j], m)
      OBVIOUS
    <3>1. node[j].children[c] = t /\ Pfx[j] = node[j].prefix /\ Pfx[j] \in Prefix
      BY <2>1 DEF Pfx, TrieInv, TypeOK, Node
    <3>2. StrictlyCovers(Pfx[j], key) /\ c = BitAt(key, Len(Pfx[j]))
      BY <1>2, <3>1, KeyPosition DEF t
    <3>3. StrictlyCovers(Pfx[j], Here.prefix) /\ c = BitAt(Here.prefix, Len(Pfx[j]))
      <4>1. Shape(Live, Pfx, KidMap, Entry)
        BY <1>2 DEF TrieInv, ShapeOK
      <4> QED
        BY <1>3, <2>1, <4>1, TreeAssumption DEF Shape, EdgesDown
    <3> QED
      BY <1>3, <1>5, <3>1, <3>2, <3>3, AboveCommon DEF m, common
  <2>3. Shape(Live \cup {split}, P2, K2, e2)
    <3>1. Shape(Live, Pfx, KidMap, Entry)
      BY <1>2 DEF TrieInv, ShapeOK
    <3>2. StrictlyCovers(m, Pfx[t]) /\ bh = BitAt(Pfx[t], Len(m))
      BY <1>5, <2>1 DEF bh
    <3> QED
      BY <1>1, <1>3, <1>5, <2>2, <3>1, <3>2, SpliceShape
  <2>4. /\ P2[split] = m
        /\ DOMAIN K2 = Live \cup {split}
        /\ K2[split] = [Childless EXCEPT ![bh] = t]
        /\ \A i \in Live : K2[i] = [c \in Bit |-> IF KidMap[i][c] = t THEN split
                                                ELSE KidMap[i][c]]
    BY <1>1, <2>1 DEF Extended, Spliced
  <2>5. Shape(Live \cup {split} \cup {leaf}, Extended(P2, leaf, key),
              Grafted(K2, split, bk, leaf), e2)
    <3>1. bk = BitAt(key, Len(P2[split])) /\ K2[split][bk] = None
      BY <1>5, <1>6, <2>4 DEF Childless, bk
    <3>2. StrictlyCovers(P2[split], key)
      BY <1>5, <2>4
    <3>3. leaf \in Idx \ (Live \cup {split})
      BY <1>1
    <3> HIDE DEF P2, K2, e2
    <3> QED
      BY <1>3, <2>3, <3>1, <3>2, <3>3, GraftShape
  <2>6. Pfx' = Extended(P2, leaf, key)
    <3>1. \A i \in Live' :
            node'[i].prefix = IF i = leaf THEN key
                              ELSE IF i = split THEN m ELSE node[i].prefix
      BY <1>1, <1>7, <1>8, LeafIsNode DEF TrieInv
    <3> QED
      BY <1>8, <2>1, <3>1 DEF Pfx, Extended
  <2>7. /\ Entry' = e2
        /\ \A i \in Live :
             [c \in Bit |-> Kid(i, c)'] =
             [c \in Bit |-> IF KidMap[i][c] = t THEN split ELSE KidMap[i][c]]
    BY <1>1, <1>2, <1>8, KidsSpliced DEF t
  <2>8. KidMap' = Grafted(K2, split, bk, leaf)
    <3>1. \A i \in {leaf, split}, c \in Bit : Kid(i, c)' = node'[i].children[c]
      <4>1. leaf \in Live' \ Live /\ split \in Live' \ Live /\ Live \subseteq Live'
        BY <1>1, <1>8
      <4> QED
        BY <1>2, <4>1, KidsReturned
    <3>2. [c \in Bit |-> Kid(leaf, c)'] = Childless
      BY <1>8, <3>1, LeafIsNode DEF Childless, TrieInv
    <3>3. [c \in Bit |-> Kid(split, c)'] = [K2[split] EXCEPT ![bk] = leaf]
      <4>1. \A c \in Bit : Kid(split, c)' = IF c = bk THEN leaf ELSE t
        BY <1>7, <1>8, <3>1
      <4>2. \A c \in Bit : c # bk => c = bh
        BY <1>5, <1>6 DEF Bit
      <4> QED
        BY <1>5, <1>6, <2>4, <4>1, <4>2 DEF Childless
    <3>4. \A i \in Live : [c \in Bit |-> Kid(i, c)'] = K2[i]
      BY <2>4, <2>7
    <3>5. KidMap' = [i \in Live \cup {split} \cup {leaf} |-> [c \in Bit |-> Kid(i, c)']]
      BY <1>8 DEF KidMap
    <3> HIDE DEF K2
    <3> QED
      BY <1>1, <2>4, <3>2, <3>3, <3>4, <3>5, ZenonT(60) DEF Grafted
  <2> QED
    BY <1>8, <2>5, <2>6, <2>7, <2>8 DEF ShapeOK
<1>12. InsertAnswer'
  BY <1>2, <1>8, LeafIsNode DEF InsertAnswer, TrieInv
<1> QED
  BY <1>1, <1>2, <1>3, <1>8, <1>9, <1>10, <1>11, <1>12, FrameReturned

LEMMA InsertFullStep == TrieInv /\ InsertFull => TrieInv'
BY DEF TrieInv, InsertFull, TypeOK, CountExact, InsertAnswer, Live

LEMMA InsertSplitFullStep == TrieInv /\ InsertSplitFull => TrieInv'
<1> SUFFICES ASSUME TrieInv, InsertSplitFull
             PROVE  TrieInv'
  OBVIOUS
<1>1. PICK leaf \in Idx \ Live : node' = Extended(node, leaf, Leaf)
  BY DEF InsertSplitFull
<1>2. /\ pc' = "poisoned"
      /\ announcedCount' = announcedCount + 1
      /\ UNCHANGED <<root, key, now, stack, ret, dirty>>
  BY DEF InsertSplitFull
<1>3. Leaf \in Node /\ Leaf.announced = TRUE
  BY LeafIsNode DEF TrieInv
<1>4. /\ Live' = Live \cup {leaf}
      /\ node'[leaf] = Leaf
      /\ \A i \in Live : node'[i] = node[i]
      /\ node' \in [Live' -> Node]
  BY <1>1, <1>3 DEF Extended, Live, TrieInv, TypeOK
<1>5. CountExact' /\ announcedCount' \in Nat
  <2>1. Announced' = Announced \cup {leaf} /\ leaf \notin Announced
    BY <1>1, <1>3, <1>4, Zenon DEF Announced
  <2> QED
    BY <1>2, <2>1, CountUp DEF TrieInv
<1>6. TypeOK'
  BY <1>2, <1>4, <1>5 DEF TrieInv, TypeOK, Live
<1> QED
  BY <1>2, <1>5, <1>6 DEF TrieInv, InsertAnswer

LEMMA UnwoundNodes ==
  ASSUME TrieInv, InsertUnwind
  PROVE  /\ Top.at \in Live /\ Live' = Live
         /\ Top.slot \in Bit
         /\ \A i \in Live \ {Top.at} : node'[i] = node[i]
         /\ node'[Top.at].prefix = Here.prefix
         /\ node'[Top.at].announced = Here.announced
         /\ node'[Top.at].ts = IF ret.advanced THEN Later(Here.ts, now) ELSE Here.ts
         /\ node'[Top.at].children = [Here.children EXCEPT ![Top.slot] = ret.subroot]
<1> DEFINE t == Top.at
           b == Top.slot
           ts == IF ret.advanced THEN Later(Here.ts, now) ELSE Here.ts
           s == ret.subroot
<1>1. /\ pc = "inserted" /\ stack # <<>>
      /\ node' = [node EXCEPT ![t].children[b] = s,
                             ![t].ts = IF ret.advanced THEN Later(@, now) ELSE @]
  BY DEF InsertUnwind, Calling
<1>2. t \in Live /\ Here = node[t] /\ node[t] \in Node
  BY <1>1, Running DEF Here
<1>3. b \in Bit
  <2>1. Len(stack) \in 1 .. Len(stack)
    BY <1>1, Running
  <2> QED
    BY <1>1, <2>1 DEF TrieInv, DescentOK, Top
<1>4. node' = [node EXCEPT ![t].children[b] = s, ![t].ts = ts]
  BY <1>1, <1>2
<1> HIDE DEF t, b, ts, s
<1>5. /\ Live' = Live
      /\ \A i \in Live \ {t} : node'[i] = node[i]
      /\ node'[t] = [node[t] EXCEPT !.children[b] = s, !.ts = ts]
  BY <1>2, <1>4 DEF Live
<1>6. /\ node'[t].prefix = node[t].prefix
      /\ node'[t].announced = node[t].announced
      /\ node'[t].ts = ts
      /\ node'[t].children = [node[t].children EXCEPT ![b] = s]
  BY <1>2, <1>5 DEF Node
<1> QED
  BY <1>2, <1>3, <1>5, <1>6 DEF t, b, ts, s

\* What the pointers were about to be they are now.
LEMMA KidsUnwound ==
  ASSUME TrieInv, InsertUnwind
  PROVE  /\ \A i \in Live, c \in Bit : Kid(i, c)' = Kid(i, c)
         /\ Entry' = Entry
<1> DEFINE t == Top.at
           b == Top.slot
           n == Len(stack)
<1>1. /\ pc = "inserted" /\ stack # <<>> /\ pc' = "inserted" /\ stack' = Pop
      /\ root' = root
  BY DEF InsertUnwind, Calling, Return
<1>2. /\ n \in Nat \ {0}
      /\ Top \in Frame /\ Top = stack[n]
      /\ t \in Live /\ Here = node[t]
      /\ Len(Pop) = n - 1
      /\ \A k \in 1 .. n - 1 : Pop[k] = stack[k]
  BY <1>1, Running DEF Here, Top
<1>3. /\ Live' = Live /\ b \in Bit
      /\ \A i \in Live \ {t} : node'[i] = node[i]
      /\ node'[t].children = [node[t].children EXCEPT ![b] = ret.subroot]
  BY <1>2, UnwoundNodes
<1>4. ret'.subroot = t
  BY DEF InsertUnwind, Return, TrieInv, TypeOK, Outcome
<1> HIDE DEF t, b
<1>5. \A i \in Live, c \in Bit :
         Kid(i, c) = IF i = t /\ c = b THEN ret.subroot ELSE node[i].children[c]
  <2>1. Top \in Frame
    BY <1>2
  <2>2. \A i, c : Top = [at |-> i, slot |-> c] <=> Top.at = i /\ Top.slot = c
    BY ONLY <2>1, FrameEqual
  <2> QED
    BY <1>1, <2>2 DEF Kid, Calling, t, b
<1>6. \A i \in Live, c \in Bit : Kid(i, c) = node'[i].children[c]
  <2>1. \A i \in Live : node[i].children \in [Bit -> Idx \cup {None}]
    BY DEF TrieInv, TypeOK, Node
  <2> QED
    BY <1>2, <1>3, <1>5, <2>1
<1> QED
  <2>1. CASE n = 1
    <3>1. stack' = <<>>
      BY <1>1, <1>2, <2>1
    <3>2. root = t
      BY <1>1, <1>2, <2>1 DEF TrieInv, PathOK, t
    <3> QED
      BY <1>1, <1>4, <1>6, <3>1, <3>2 DEF Kid, Calling, Entry
  <2>2. CASE n > 1
    <3> DEFINE a == stack[n - 1]
    <3>1. /\ n - 1 \in 1 .. n - 1
          /\ n - 1 + 1 = n
          /\ stack' # <<>>
      BY <1>1, <1>2, <2>2
    <3>2. Top' = a
      BY <1>1, <1>2, <3>1 DEF Top
    <3>3. /\ a \in Frame
          /\ a.at \in Live
          /\ a.at # t
          /\ a.slot \in Bit
          /\ node[a.at].children[a.slot] = t
      BY <1>1, <1>2, <3>1, LowerFrames DEF TrieInv, PathOK, t
    <3> HIDE DEF a
    <3>4. \A i, c : Kid(i, c)' = IF i = a.at /\ c = a.slot
                                 THEN t ELSE node'[i].children[c]
      BY <1>1, <1>4, <3>1, <3>2, <3>3, FrameEqual, SMTT(40) DEF Kid, Calling
    <3>5. node'[a.at].children[a.slot] = t
      BY <1>3, <3>3
    <3> QED
      BY <1>1, <1>6, <3>1, <3>4, <3>5 DEF Entry
  <2> QED
    BY <1>2, <2>1, <2>2

LEMMA InsertUnwindStep == TrieInv /\ InsertUnwind => TrieInv'
<1> SUFFICES ASSUME TrieInv, InsertUnwind
             PROVE  TrieInv'
  OBVIOUS
<1> DEFINE t == Top.at
           b == Top.slot
           advanced == ret.advanced /\ now > Here.ts
           ts == IF ret.advanced THEN Later(Here.ts, now) ELSE Here.ts
           n == Len(stack)
<1>1. /\ pc = "inserted" /\ stack # <<>> /\ pc' = "inserted" /\ stack' = Pop
      /\ node' = [node EXCEPT ![t].children[b] = ret.subroot,
                             ![t].ts = IF ret.advanced THEN Later(@, now) ELSE @]
      /\ dirty' = dirty \o Unwound(ret.subroot # Here.children[b], advanced)
      /\ ret' = [ret EXCEPT !.subroot = t, !.advanced = advanced]
      /\ UNCHANGED <<root, announcedCount, key, now>>
  BY DEF InsertUnwind, Calling, Return
<1>2. /\ n \in Nat \ {0}
      /\ Top \in Frame /\ Top = stack[n]
      /\ t \in Live /\ t \in Idx
      /\ Here \in Node /\ Here = node[t]
      /\ Here.ts \in Nat /\ now \in Nat
      /\ Pop \in Seq(Frame)
      /\ Len(Pop) = n - 1
      /\ \A k \in 1 .. n - 1 : Pop[k] = stack[k]
  BY <1>1, Running DEF Here, Top, TrieInv, TypeOK
<1>3. /\ b \in Bit
      /\ ret.subroot \in Live
      /\ ret \in Outcome
  <2>1. n \in 1 .. n
    BY <1>2
  <2> QED
    BY <1>1, <1>2, <2>1 DEF TrieInv, DescentOK, TypeOK
<1>4. ts \in Nat
  BY <1>2, LaterType
<1> HIDE DEF t, b, ts, advanced
<1>5. /\ Live' = Live
      /\ \A i \in Live \ {t} : node'[i] = node[i]
      /\ node'[t] = Edited(node[t], b, ret.subroot, ts)
  BY <1>1, <1>2 DEF Live, Edited, ts
<1>6. /\ node'[t] \in Node
      /\ node'[t].children = [node[t].children EXCEPT ![b] = ret.subroot]
      /\ node'[t].prefix = node[t].prefix
      /\ node'[t].announced = node[t].announced
  <2>1. node[t] \in Node /\ ret.subroot \in Idx \cup {None}
    BY <1>2, <1>3 DEF TrieInv, TypeOK
  <2> QED
    BY <1>3, <1>4, <1>5, <2>1, EditedNode
<1>7. /\ node' \in [Live' -> Node]
      /\ \A i \in Live : node'[i].prefix = node[i].prefix
      /\ \A i \in Live : node'[i].announced = node[i].announced
  <2>1. node' = [i \in Live' |-> node'[i]]
    BY <1>1 DEF Live, TrieInv, TypeOK
  <2>2. \A i \in Live' : node'[i] \in Node
    BY <1>5, <1>6 DEF TrieInv, TypeOK
  <2> QED
    BY <1>5, <1>6, <2>1, <2>2
<1>8. CountExact' /\ announcedCount' \in Nat
  <2>1. Announced' = Announced
    BY <1>5, <1>7 DEF Announced
  <2> QED
    BY <1>1, <2>1, CountSame DEF TrieInv
<1>9. TypeOK'
  <2>1. dirty' \in Seq(Idx)
    <3>1. Unwound(ret.subroot # Here.children[b], advanced) \in Seq(Idx)
      BY <1>2 DEF Unwound, t
    <3> QED
      BY <1>1, <3>1 DEF TrieInv, TypeOK
  <2>2. ret' \in Outcome
    BY <1>1, <1>2, <1>3 DEF Outcome, advanced
  <2> QED
    BY <1>1, <1>2, <1>5, <1>7, <1>8, <2>1, <2>2 DEF TrieInv, TypeOK, Live
<1>10. ret'.subroot = t /\ ret'.target = ret.target
  BY <1>1, <1>3 DEF Outcome
<1>13. /\ \A i \in Live, c \in Bit : Kid(i, c)' = Kid(i, c)
       /\ Entry' = Entry
  BY <1>1, KidsUnwound
<1>14. ShapeOK'
  <2>1. Pfx' = Pfx
    BY <1>5, <1>7 DEF Pfx
  <2>2. KidMap' = KidMap
    BY <1>5, <1>13 DEF KidMap
  <2> QED
    BY <1>1, <1>5, <1>13, <2>1, <2>2, SameShape DEF TrieInv
<1>15. InsertAnswer'
  BY <1>1, <1>5, <1>7, <1>10 DEF TrieInv, InsertAnswer
<1>16. \A i \in Live \ {Top.at} : node'[i].children = node[i].children
  BY <1>5 DEF t
<1> QED
  BY <1>1, <1>2, <1>5, <1>7, <1>8, <1>9, <1>10, <1>14, <1>15, <1>16, FrameReturned

LEMMA ForgetTypes ==
  ASSUME TypeOK, Forget
  PROVE  /\ pc' = "idle"
         /\ key' \in Prefix
         /\ now' \in Nat
         /\ ret' \in Outcome
         /\ dirty' \in Seq(Idx)
<1>1. <<>> \in Prefix
  <2>1. <<>> \in [1 .. 0 -> Bit] /\ 0 \in 0 .. MaxLen
    BY MaxLenAssumption
  <2> QED
    BY <2>1 DEF Prefix
<1> QED
  BY <1>1 DEF Forget, Pending, Outcome

LEMMA InsertReturnStep == TrieInv /\ InsertReturn => TrieInv'
<1> SUFFICES ASSUME TrieInv, InsertReturn
             PROVE  TrieInv'
  OBVIOUS
<1>1. /\ pc = "inserted" /\ stack = <<>> /\ stack' = <<>>
      /\ root' = ret.subroot
      /\ UNCHANGED <<node, announcedCount>>
      /\ pc' = "idle"
      /\ ret.subroot \in Live
  BY DEF InsertReturn, Forget, TrieInv, DescentOK
<1>2. TypeOK'
  BY <1>1, ForgetTypes DEF InsertReturn, TrieInv, TypeOK, Live
<1>3. CountExact' /\ InsertAnswer'
  BY <1>1 DEF TrieInv, CountExact, InsertAnswer, Live
<1>4. ShapeOK'
  <2>1. Live' = Live /\ Pfx' = Pfx
    BY <1>1 DEF Live, Pfx
  <2>2. \A i \in Live, c \in Bit : Kid(i, c)' = Kid(i, c)
    BY <1>1 DEF Kid, Calling
  <2>3. KidMap' = KidMap
    BY <2>1, <2>2 DEF KidMap
  <2>4. Entry' = Entry
    BY <1>1 DEF Entry
  <2> QED
    BY <1>1, <2>1, <2>3, <2>4, SameShape DEF TrieInv
<1>5. PathOK' /\ DescentOK'
  BY <1>1 DEF PathOK, DescentOK
<1> QED
  BY <1>2, <1>3, <1>4, <1>5 DEF TrieInv

-----------------------------------------------------------------------------
\* withdraw, action by action.  It changes flags and timestamps, never the shape.

\* A step that leaves the prefixes and the pointers alone.
LEMMA PointersKept ==
  ASSUME TypeOK, TypeOK', ShapeOK, pc # "inserted", pc' # "inserted",
         Live' = Live, root' = root,
         \A i \in Live : /\ node'[i].prefix = node[i].prefix
                        /\ node'[i].children = node[i].children
  PROVE  ShapeOK'
<1>1. Pfx' = Pfx
  BY DEF Pfx
<1>2. KidMap' = KidMap /\ Entry' = Entry
  BY Settled, SettledNext
<1> QED
  BY <1>1, <1>2, SameShape

LEMMA WithdrawDescendStep == TrieInv /\ WithdrawDescend => TrieInv'
<1> SUFFICES ASSUME TrieInv, WithdrawDescend
             PROVE  TrieInv'
  OBVIOUS
<1> DEFINE n == Len(stack)
           b == Toward
           child == Here.children[b]
<1>1. /\ pc = "withdraw" /\ pc' = "withdraw" /\ stack # <<>>
      /\ stack' = Append(Pop, [Top EXCEPT !.slot = b]) \o Enter(child)
      /\ UNCHANGED <<node, root, announcedCount, key, now, ret, dirty>>
      /\ Below
      /\ child # None
  BY DEF WithdrawDescend, Calling
<1>2. /\ b \in Bit
      /\ Here \in Node
  BY <1>1, KeyPosition, Running
<1>3. child \in Idx
  BY <1>1, <1>2 DEF Node
<1>4. /\ stack' \in Seq(Frame)
      /\ stack' # <<>>
      /\ Len(stack') = n + 1
      /\ \A k \in 1 .. n - 1 : stack'[k] = stack[k]
      /\ stack'[n].at = Top.at
      /\ stack'[n].slot = b
      /\ stack'[n + 1].at = child
  BY <1>1, <1>2, <1>3, Pushed
<1>5. TypeOK'
  BY <1>1, <1>4 DEF TrieInv, TypeOK, Live
<1>6. CountExact' /\ InsertAnswer'
  BY <1>1 DEF TrieInv, CountExact, InsertAnswer, Live
<1>7. ShapeOK'
  BY <1>1, <1>5, SettledShape DEF TrieInv
<1>8. PathOK'
  BY <1>1, <1>2, <1>4, PathPushed
<1>9. DescentOK'
  BY <1>1 DEF DescentOK
<1> QED
  BY <1>5, <1>6, <1>7, <1>8, <1>9 DEF TrieInv

LEMMA WithdrawHitStep == TrieInv /\ WithdrawHit => TrieInv'
<1> SUFFICES ASSUME TrieInv, WithdrawHit
             PROVE  TrieInv'
  OBVIOUS
<1> DEFINE t == Top.at
<1>1. /\ pc = "withdraw" /\ stack # <<>> /\ pc' = "withdrawn" /\ stack' = Pop
      /\ node' = [node EXCEPT ![t].announced = FALSE, ![t].ts = now]
      /\ announcedCount' = announcedCount - 1
      /\ dirty' = Append(dirty, t)
      /\ ret' = [Pending EXCEPT !.advanced = now > Here.ts, !.found = TRUE]
      /\ UNCHANGED <<root, key, now>>
      /\ Here.announced
  BY DEF WithdrawHit, Calling, Return
<1>2. /\ t \in Live /\ t \in Idx
      /\ Here \in Node /\ Here = node[t]
      /\ Pop \in Seq(Frame)
  BY <1>1, Running DEF Here
<1> HIDE DEF t
<1>3. /\ Live' = Live
      /\ node' \in [Live -> Node]
      /\ \A i \in Live : /\ node'[i].prefix = node[i].prefix
                         /\ node'[i].children = node[i].children
      /\ \A i \in Live \ {t} : node'[i] = node[i]
      /\ node'[t].announced = FALSE
  BY <1>1, <1>2 DEF TrieInv, TypeOK, Live, Node
<1>4. CountExact' /\ announcedCount' \in Nat
  <2>1. Announced' = Announced \ {t} /\ t \in Announced
    BY <1>1, <1>2, <1>3 DEF Announced
  <2> QED
    BY <1>1, <2>1, CountDown DEF TrieInv
<1>5. TypeOK'
  <2>1. (now > Here.ts) \in BOOLEAN
    OBVIOUS
  <2>2. Pending \in Outcome
    BY DEF Pending, Outcome
  <2> DEFINE a == now > Here.ts
  <2>3. [Pending EXCEPT !.advanced = a, !.found = TRUE] \in Outcome
    <3> HIDE DEF a
    <3> QED
      BY <2>1, <2>2 DEF Outcome, a
  <2>4. dirty' \in Seq(Idx)
    BY <1>1, <1>2 DEF TrieInv, TypeOK
  <2> QED
    BY <1>1, <1>2, <1>3, <1>4, <2>3, <2>4 DEF TrieInv, TypeOK, Live
<1>6. ShapeOK'
  BY <1>1, <1>3, <1>5, PointersKept DEF TrieInv
<1>7. PathOK'
  BY <1>1, <1>3, PathPopped
<1> QED
  BY <1>1, <1>4, <1>5, <1>6, <1>7 DEF TrieInv, InsertAnswer, DescentOK

LEMMA WithdrawMissStep == TrieInv /\ WithdrawMiss => TrieInv'
<1> SUFFICES ASSUME TrieInv, WithdrawMiss
             PROVE  TrieInv'
  OBVIOUS
<1>1. /\ pc = "withdraw" /\ pc' = "withdrawn" /\ stack' = <<>>
      /\ ret' = Pending
      /\ UNCHANGED <<node, root, announcedCount, key, now, dirty>>
  BY DEF WithdrawMiss
<1>2. TypeOK'
  BY <1>1 DEF TrieInv, TypeOK, Live, Outcome, Pending
<1>3. CountExact' /\ InsertAnswer'
  BY <1>1 DEF TrieInv, CountExact, InsertAnswer, Live
<1>4. ShapeOK'
  BY <1>1, <1>2, SettledShape DEF TrieInv
<1>5. PathOK' /\ DescentOK'
  BY <1>1 DEF PathOK, DescentOK
<1> QED
  BY <1>2, <1>3, <1>4, <1>5 DEF TrieInv

LEMMA WithdrawUnwindStep == TrieInv /\ WithdrawUnwind => TrieInv'
<1> SUFFICES ASSUME TrieInv, WithdrawUnwind
             PROVE  TrieInv'
  OBVIOUS
<1> DEFINE t == Top.at
           advanced == ret.advanced /\ now > Here.ts
           ts == IF ret.advanced THEN Later(Here.ts, now) ELSE Here.ts
<1>1. /\ pc = "withdrawn" /\ stack # <<>> /\ pc' = "withdrawn" /\ stack' = Pop
      /\ node' = [node EXCEPT ![t].ts = IF ret.advanced THEN Later(@, now) ELSE @]
      /\ dirty' = dirty \o Unwound(FALSE, advanced)
      /\ ret' = [ret EXCEPT !.advanced = advanced]
      /\ UNCHANGED <<root, announcedCount, key, now>>
  BY DEF WithdrawUnwind, Calling, Return
<1>2. /\ t \in Live /\ t \in Idx
      /\ Here \in Node /\ Here = node[t]
      /\ Here.ts \in Nat /\ now \in Nat
      /\ Pop \in Seq(Frame)
  BY <1>1, Running DEF Here, TrieInv, TypeOK
<1>3. ts \in Nat
  BY <1>2, LaterType
<1>4. node' = [node EXCEPT ![t].ts = ts]
  BY <1>1, <1>2
<1> HIDE DEF t, ts
<1>5. /\ Live' = Live
      /\ node' \in [Live -> Node]
      /\ \A i \in Live : /\ node'[i].prefix = node[i].prefix
                         /\ node'[i].children = node[i].children
                         /\ node'[i].announced = node[i].announced
  BY <1>2, <1>3, <1>4 DEF TrieInv, TypeOK, Live, Node
<1>6. CountExact' /\ announcedCount' \in Nat
  <2>1. Announced' = Announced
    BY <1>5 DEF Announced
  <2> QED
    BY <1>1, <2>1, CountSame DEF TrieInv
<1>7. TypeOK'
  <2> DEFINE reported == Unwound(FALSE, advanced)
  <2>1. reported \in Seq(Idx)
    BY <1>2 DEF Unwound, t
  <2> HIDE DEF reported
  <2>2. dirty' \in Seq(Idx)
    <3>1. dirty' = dirty \o reported
      BY <1>1 DEF reported
    <3> QED
      BY <2>1, <3>1 DEF TrieInv, TypeOK
  <2>3. ret' \in Outcome
    BY <1>1 DEF TrieInv, TypeOK, Outcome
  <2> QED
    BY <1>1, <1>2, <1>5, <1>6, <2>2, <2>3 DEF TrieInv, TypeOK, Live
<1>8. ShapeOK'
  BY <1>1, <1>5, <1>7, PointersKept DEF TrieInv
<1>9. PathOK'
  BY <1>1, <1>5, PathPopped
<1> QED
  BY <1>1, <1>6, <1>7, <1>8, <1>9 DEF TrieInv, InsertAnswer, DescentOK

LEMMA WithdrawReturnStep == TrieInv /\ WithdrawReturn => TrieInv'
<1> SUFFICES ASSUME TrieInv, WithdrawReturn
             PROVE  TrieInv'
  OBVIOUS
<1>1. /\ pc = "withdrawn" /\ stack = <<>> /\ stack' = <<>>
      /\ UNCHANGED <<node, root, announcedCount>>
      /\ pc' = "idle"
  BY DEF WithdrawReturn, Forget
<1>2. TypeOK'
  BY <1>1, ForgetTypes DEF WithdrawReturn, TrieInv, TypeOK, Live
<1>3. CountExact' /\ InsertAnswer'
  BY <1>1 DEF TrieInv, CountExact, InsertAnswer, Live
<1>4. ShapeOK'
  BY <1>1, <1>2, SettledShape DEF TrieInv
<1>5. PathOK' /\ DescentOK'
  BY <1>1 DEF PathOK, DescentOK
<1> QED
  BY <1>2, <1>3, <1>4, <1>5 DEF TrieInv

-----------------------------------------------------------------------------
\* sweep_tombstones, action by action.

\* A stack that is a beginning of the old one; the slot of its last frame may
\* have moved on.
LEMMA PathKept ==
  ASSUME TrieInv, pc # "poisoned", stack' \in Seq(Frame), Len(stack') <= Len(stack),
         stack' # <<>> => root' = root,
         \A k \in 1 .. Len(stack') :
           /\ stack'[k].at = stack[k].at
           /\ stack[k].at \in Live'
           /\ node'[stack[k].at].prefix = node[stack[k].at].prefix,
         \A k \in 1 .. Len(stack') - 1 :
           /\ stack'[k].slot = stack[k].slot
           /\ node'[stack[k].at].children = node[stack[k].at].children
  PROVE  PathOK'
<1>1. Len(stack) \in Nat /\ Len(stack') \in Nat
  BY DEF TrieInv, TypeOK
<1>2. /\ \A k \in 1 .. Len(stack') : k \in 1 .. Len(stack)
      /\ \A k \in 1 .. Len(stack') - 1 :
           /\ k \in 1 .. Len(stack) - 1
           /\ k \in 1 .. Len(stack')
           /\ k + 1 \in 1 .. Len(stack')
  BY <1>1
<1>3. stack' # <<>> => stack'[1].at = root'
  <2> SUFFICES ASSUME stack' # <<>>
               PROVE  stack'[1].at = root'
    OBVIOUS
  <2>1. 1 \in 1 .. Len(stack') /\ Len(stack') # 0
    BY <1>1
  <2>2. stack # <<>>
    <3>1. Len(stack) # 0
      BY <1>1, <2>1
    <3> QED
      BY <3>1
  <2> QED
    BY <2>1, <2>2 DEF TrieInv, PathOK
<1>4. \A k \in 1 .. Len(stack') : stack'[k].at \in Live'
  OBVIOUS
<1>5. \A k \in 1 .. Len(stack') - 1 :
        /\ stack'[k].slot \in Bit
        /\ node'[stack'[k].at].children[stack'[k].slot] = stack'[k + 1].at
  BY <1>2 DEF TrieInv, PathOK
<1>6. \A k, l \in 1 .. Len(stack') :
        k < l => Len(node'[stack'[k].at].prefix) < Len(node'[stack'[l].at].prefix)
  BY <1>2 DEF TrieInv, PathOK
<1> QED
  BY <1>3, <1>4, <1>5, <1>6 DEF PathOK

\* The running frame looks at its next slot, or is gone and the one above does.
LEMMA Advanced ==
  ASSUME TrieInv, pc # "poisoned", stack # <<>>, Top.slot < 2,
         stack' = Append(Pop, [Top EXCEPT !.slot = @ + 1])
  PROVE  /\ stack' \in Seq(Frame)
         /\ stack' # <<>>
         /\ Len(stack') = Len(stack)
         /\ \A k \in 1 .. Len(stack') : stack'[k].at = stack[k].at
         /\ \A k \in 1 .. Len(stack') - 1 : stack'[k] = stack[k]
         /\ stack'[Len(stack)].slot = Top.slot + 1
<1> DEFINE f == [Top EXCEPT !.slot = @ + 1]
           a == Append(Pop, f)
           n == Len(stack)
<1>1. /\ Pop \in Seq(Frame)
      /\ Len(Pop) = n - 1
      /\ n \in Nat \ {0}
      /\ \A k \in 1 .. n - 1 : Pop[k] = stack[k]
      /\ Top = stack[n]
  BY Running DEF Top
<1>2. f \in Frame /\ f.at = Top.at /\ f.slot = Top.slot + 1
  BY Running DEF Frame
<1> HIDE DEF f
<1>3. /\ a \in Seq(Frame)
      /\ a # <<>>
      /\ Len(a) = Len(Pop) + 1
      /\ a[Len(Pop) + 1] = f
      /\ \A k \in 1 .. Len(Pop) : a[k] = Pop[k]
  BY <1>1, <1>2, AppendProperties2
<1>4. stack' = a
  BY DEF f
<1> HIDE DEF a, n
<1>5. /\ Len(a) = n
      /\ a[n] = f
      /\ \A k \in 1 .. n - 1 : a[k] = stack[k]
      /\ \A k \in 1 .. n : k \in 1 .. n - 1 \/ k = n
  BY <1>1, <1>3
<1> QED
  BY <1>1, <1>2, <1>3, <1>4, <1>5 DEF n

LEMMA WentUp ==
  ASSUME TrieInv, pc # "poisoned", stack # <<>>, SweepUp
  PROVE  /\ stack' \in Seq(Frame)
         /\ Len(stack') = Len(stack) - 1
         /\ \A k \in 1 .. Len(stack') : stack'[k].at = stack[k].at
         /\ \A k \in 1 .. Len(stack') - 1 : stack'[k] = stack[k]
         /\ stack' # <<>> => /\ Len(stack) - 1 \in 1 .. Len(stack) - 1
                            /\ stack'[Len(stack) - 1].slot = stack[Len(stack) - 1].slot + 1
<1> DEFINE n == Len(stack)
<1>1. /\ Pop \in Seq(Frame)
      /\ Len(Pop) = n - 1
      /\ n \in Nat \ {0}
      /\ \A k \in 1 .. n - 1 : Pop[k] = stack[k]
  BY Running
<1>2. CASE n = 1
  BY <1>1, <1>2 DEF SweepUp
<1>3. CASE n # 1
  <2> DEFINE f == stack[n - 1]
  <2>1. n - 1 \in 1 .. n - 1
    BY <1>1, <1>3
  <2>2. f \in Frame /\ f.slot \in Bit
    BY <2>1, LowerFrames
  <2>3. stack' = [Pop EXCEPT ![n - 1] = [f EXCEPT !.slot = f.slot + 1]]
    BY <1>1, <1>3, <2>1 DEF SweepUp
  <2> DEFINE g == [f EXCEPT !.slot = f.slot + 1]
  <2>4. g \in Frame /\ g.at = f.at /\ g.slot = f.slot + 1
    BY <2>2 DEF Frame, Bit
  <2>5. stack' = [Pop EXCEPT ![n - 1] = g]
    BY <2>3
  <2> HIDE DEF g, f
  <2>6. /\ stack' \in Seq(Frame)
        /\ Len(stack') = n - 1
        /\ stack'[n - 1] = g
        /\ \A k \in 1 .. n - 1 : k # n - 1 => stack'[k] = Pop[k]
    <3> HIDE DEF n
    <3> QED
      BY <1>1, <2>1, <2>4, <2>5
  <2>7. \A k \in 1 .. n - 1 - 1 : k \in 1 .. n - 1 /\ k # n - 1
    <3>1. n \in Nat
      BY <1>1
    <3> HIDE DEF n
    <3> QED
      BY ONLY <3>1
  <2> QED
    BY <1>1, <2>1, <2>4, <2>6, <2>7 DEF f
<1> QED
  BY <1>2, <1>3

LEMMA SweepVisitStep == TrieInv /\ SweepVisit => TrieInv'
<1> SUFFICES ASSUME TrieInv, SweepVisit
             PROVE  TrieInv'
  OBVIOUS
<1> DEFINE n == Len(stack)
           b == Top.slot
           child == Here.children[b]
<1>1. /\ pc = "sweep" /\ pc' = "sweep" /\ stack # <<>> /\ Top.slot < 2
      /\ stack' = IF child # None THEN stack \o Enter(child)
                  ELSE Append(Pop, [Top EXCEPT !.slot = @ + 1])
      /\ UNCHANGED <<node, root, announcedCount, key, now, ret, dirty>>
  BY DEF SweepVisit, Calling
<1>2. /\ b \in Bit
      /\ Here \in Node
      /\ n \in Nat \ {0}
      /\ Top \in Frame /\ Top = stack[n]
  BY <1>1, Running DEF Frame, Bit, Top
<1>3. stack' \in Seq(Frame) /\ PathOK'
  <2>1. CASE child # None
    <3> DEFINE g == [at |-> child, slot |-> 0]
    <3>1. g \in Frame /\ g.at = child
      BY <1>2, <2>1 DEF Node, Frame
    <3>2. stack' = stack \o <<g>>
      BY <1>1, <2>1 DEF Enter
    <3> HIDE DEF g
    <3>3. stack \in Seq(Frame)
      BY DEF TrieInv, TypeOK
    <3>4. /\ stack' \in Seq(Frame)
          /\ Len(stack') = n + 1
          /\ stack'[n + 1] = g
          /\ \A k \in 1 .. n : stack'[k] = stack[k]
      <4> DEFINE a == Append(stack, g)
      <4>1. /\ a \in Seq(Frame)
            /\ Len(a) = n + 1
            /\ a[n + 1] = g
            /\ \A k \in 1 .. n : a[k] = stack[k]
            /\ stack \o <<g>> = a
        BY <3>1, <3>3, AppendProperties2
      <4> HIDE DEF a
      <4> QED
        BY <3>2, <4>1
    <3>5. /\ \A k \in 1 .. n - 1 : stack'[k] = stack[k]
          /\ stack'[n].at = Top.at /\ stack'[n].slot = b
          /\ stack'[n + 1].at = child
      BY <1>2, <3>1, <3>4
    <3> QED
      BY <1>1, <1>2, <2>1, <3>4, <3>5, PathPushed
  <2>2. CASE child = None
    <3>1. /\ stack' \in Seq(Frame)
          /\ Len(stack') = n
          /\ \A k \in 1 .. Len(stack') : stack'[k].at = stack[k].at
          /\ \A k \in 1 .. Len(stack') - 1 : stack'[k] = stack[k]
      BY <1>1, <2>2, Advanced
    <3>2. \A k \in 1 .. Len(stack') : stack[k].at \in Live'
      BY <1>1, <3>1 DEF TrieInv, PathOK, Live
    <3> QED
      BY <1>1, <1>2, <3>1, <3>2, PathKept
  <2> QED
    BY <2>1, <2>2
<1>4. TypeOK'
  BY <1>1, <1>3 DEF TrieInv, TypeOK, Live
<1>5. CountExact' /\ InsertAnswer'
  BY <1>1 DEF TrieInv, CountExact, InsertAnswer, Live
<1>6. ShapeOK'
  BY <1>1, <1>4, SettledShape DEF TrieInv
<1> QED
  BY <1>1, <1>3, <1>4, <1>5, <1>6 DEF TrieInv, DescentOK

LEMMA SweepKeepStep == TrieInv /\ SweepKeep => TrieInv'
<1> SUFFICES ASSUME TrieInv, SweepKeep
             PROVE  TrieInv'
  OBVIOUS
<1>1. /\ pc = "sweep" /\ pc' = "sweep" /\ stack # <<>> /\ SweepUp
      /\ UNCHANGED <<node, root, announcedCount, key, now, ret, dirty>>
  BY DEF SweepKeep, Calling
<1>2. /\ stack' \in Seq(Frame)
      /\ Len(stack') = Len(stack) - 1
      /\ \A k \in 1 .. Len(stack') : stack'[k].at = stack[k].at
      /\ \A k \in 1 .. Len(stack') - 1 : stack'[k] = stack[k]
  BY <1>1, WentUp
<1>3. Len(stack) \in Nat
  BY <1>1, Running
<1>4. \A k \in 1 .. Len(stack') : stack[k].at \in Live'
  <2>1. \A k \in 1 .. Len(stack') : k \in 1 .. Len(stack)
    BY <1>2, <1>3
  <2> QED
    BY <1>1, <2>1 DEF TrieInv, PathOK, Live
<1>5. PathOK'
  BY <1>1, <1>2, <1>3, <1>4, PathKept
<1>6. TypeOK'
  BY <1>1, <1>2 DEF TrieInv, TypeOK, Live
<1>7. CountExact' /\ InsertAnswer'
  BY <1>1 DEF TrieInv, CountExact, InsertAnswer, Live
<1>8. ShapeOK'
  BY <1>1, <1>6, SettledShape DEF TrieInv
<1> QED
  BY <1>1, <1>5, <1>6, <1>7, <1>8 DEF TrieInv, DescentOK

Rewired(n, b, x) == [n EXCEPT !.children[b] = x]

LEMMA RewiredNode ==
  ASSUME NEW n \in Node, NEW b \in Bit, NEW x \in Idx \cup {None}
  PROVE  /\ Rewired(n, b, x) \in Node
         /\ Rewired(n, b, x).children = [n.children EXCEPT ![b] = x]
         /\ Rewired(n, b, x).prefix = n.prefix
         /\ Rewired(n, b, x).announced = n.announced
<1> DEFINE r == Rewired(n, b, x)
<1>1. r = [n EXCEPT !.children[b] = x]
  BY DEF Rewired
<1> HIDE DEF r
<1>2. /\ r.children = [n.children EXCEPT ![b] = x]
      /\ r.prefix = n.prefix
      /\ r.announced = n.announced
  BY <1>1 DEF Node
<1>3. r \in Node
  BY <1>1 DEF Node
<1> QED
  BY <1>2, <1>3 DEF r

\* What a collapse leaves: every other node as it was, but for the pointer that
\* led to the collapsed one.
LEMMA Reclaimed ==
  ASSUME TrieInv, SweepCollapse
  PROVE  LET t == Top.at
             child == OnlyChild(Here)
         IN  /\ Live' = Live \ {t}
             /\ node' \in [Live' -> Node]
             /\ root' = IF root = t THEN child ELSE root
             /\ \A i \in Live' :
                  /\ node'[i].prefix = node[i].prefix
                  /\ node'[i].announced = node[i].announced
                  /\ \A c \in Bit : node'[i].children[c] =
                       IF node[i].children[c] = t THEN child ELSE node[i].children[c]
             /\ \A k \in 1 .. Len(stack) - 1 - 1 :
                  node'[stack[k].at].children = node[stack[k].at].children
             /\ stack' # <<>> => root' = root
             /\ dirty' \in Seq(Idx)
<1> DEFINE t == Top.at
           child == OnlyChild(Here)
           n == Len(stack)
           a == stack[n - 1]
<1>1. /\ pc = "sweep" /\ stack # <<>> /\ SweepUp
      /\ IF n = 1
           THEN root' = child /\ node' = Without(node, t) /\ UNCHANGED dirty
           ELSE /\ node' = Without([node EXCEPT ![a.at].children[a.slot] = child], t)
                /\ dirty' = Append(dirty, a.at)
                /\ UNCHANGED root
  BY DEF SweepCollapse, Calling
<1>2. /\ n \in Nat \ {0}
      /\ Top = stack[n]
      /\ t \in Live /\ t # None
      /\ Here \in Node
  BY <1>1, Running, TreeAssumption DEF Top
<1>3. child \in Idx \cup {None}
  BY <1>2 DEF OnlyChild, Node, Bit
<1>4. Entry = root /\ KidMap = [i \in Live |-> node[i].children]
  BY <1>1, Settled DEF TrieInv
<1>5. \A i \in Live, c \in Bit : node[i].children[c] = t =>
        /\ t # root
        /\ \A j \in Live, d \in Bit : node[j].children[d] = t => j = i /\ d = c
  BY <1>1, <1>2, <1>4, OneParent DEF TrieInv, ShapeOK
<1> HIDE DEF t, child
<1>6. CASE n = 1
  <2>1. root = t
    BY <1>1, <1>2, <1>6 DEF TrieInv, PathOK, t
  <2>2. /\ Live' = Live \ {t}
        /\ node' \in [Live' -> Node]
        /\ \A i \in Live' : node'[i] = node[i]
    BY <1>1, <1>6 DEF Without, Live, TrieInv, TypeOK
  <2>3. \A k \in 1 .. Len(stack) - 1 - 1 : FALSE
    <3> HIDE DEF n
    <3>1. \A k \in 1 .. n - 1 - 1 : FALSE
      BY ONLY <1>6
    <3> QED
      BY <3>1 DEF n
  <2>4. stack' = <<>>
    BY <1>1, <1>6 DEF SweepUp
  <2>5. dirty' \in Seq(Idx)
    BY <1>1, <1>6 DEF TrieInv, TypeOK
  <2> QED
    BY <1>1, <1>5, <1>6, <2>1, <2>2, <2>3, <2>4, <2>5 DEF t, child
<1>7. CASE n # 1
  <2>1. n - 1 \in 1 .. n - 1 /\ n - 1 + 1 = n
    <3>1. n \in Nat \ {0}
      BY <1>2
    <3> HIDE DEF n
    <3> QED
      BY ONLY <1>7, <3>1
  <2>2. /\ a.at \in Live /\ a.at # t /\ a.slot \in Bit
        /\ node[a.at].children[a.slot] = t
    BY <1>1, <1>2, <2>1, LowerFrames DEF TrieInv, PathOK, t
  <2> DEFINE at == a.at
             slot == a.slot
  <2> HIDE DEF a
  <2>3. /\ Live' = Live \ {t}
        /\ node'[at] = Rewired(node[at], slot, child)
        /\ \A i \in Live' \ {at} : node'[i] = node[i]
        /\ node' = [i \in Live' |-> node'[i]]
    BY <1>1, <1>7, <2>2 DEF Without, Live, Rewired
  <2>4. /\ node'[at] \in Node
        /\ node'[at].children = [node[at].children EXCEPT ![slot] = child]
        /\ node'[at].prefix = node[at].prefix
        /\ node'[at].announced = node[at].announced
    <3>1. node[at] \in Node
      BY <2>2 DEF TrieInv, TypeOK
    <3> HIDE DEF at, slot
    <3>2. slot \in Bit
      BY <2>2 DEF slot
    <3> QED
      BY <1>3, <2>3, <3>1, <3>2, RewiredNode
  <2>5. node[at].children \in [Bit -> Idx \cup {None}]
    BY <2>2 DEF TrieInv, TypeOK, Node
  <2> HIDE DEF at, slot
  <2>6. /\ at \in Live /\ at # t /\ slot \in Bit /\ node[at].children[slot] = t
    BY <2>2 DEF at, slot
  <2>7. node' \in [Live' -> Node]
    <3>1. \A i \in Live' : node'[i] \in Node
      BY <2>3, <2>4 DEF TrieInv, TypeOK
    <3> QED
      BY <2>3, <3>1
  <2>8. \A i \in Live' :
          /\ node'[i].prefix = node[i].prefix
          /\ node'[i].announced = node[i].announced
          /\ \A c \in Bit : node'[i].children[c] =
               IF node[i].children[c] = t THEN child ELSE node[i].children[c]
    <3> SUFFICES ASSUME NEW i \in Live'
                 PROVE  /\ node'[i].prefix = node[i].prefix
                        /\ node'[i].announced = node[i].announced
                        /\ \A c \in Bit : node'[i].children[c] =
                             IF node[i].children[c] = t THEN child
                             ELSE node[i].children[c]
      OBVIOUS
    <3>1. CASE i = at
      BY <1>5, <2>4, <2>5, <2>6, <3>1
    <3>2. CASE i # at
      <4>1. i \in Live /\ node'[i] = node[i]
        BY <2>3, <3>2
      <4>2. \A c \in Bit : node[i].children[c] # t
        BY <1>5, <2>6, <3>2, <4>1
      <4> QED
        BY <4>1, <4>2
    <3> QED
      BY <3>1, <3>2
  <2>9. \A k \in 1 .. Len(stack) - 1 - 1 :
          node'[stack[k].at].children = node[stack[k].at].children
    <3> SUFFICES ASSUME NEW k \in 1 .. n - 1 - 1
                 PROVE  node'[stack[k].at].children = node[stack[k].at].children
      OBVIOUS
    <3>1. k \in 1 .. n - 1 /\ k \in 1 .. n /\ n - 1 \in 1 .. n /\ k < n - 1
      BY <1>2
    <3>2. stack[k].at \in Live /\ stack[k].at # t
      BY <1>1, <3>1, LowerFrames DEF t
    <3>3. stack[k].at # at
      <4>1. Len(node[stack[k].at].prefix) < Len(node[at].prefix)
        BY <1>1, <3>1 DEF TrieInv, PathOK, at, a
      <4>2. Len(node[at].prefix) \in Nat
        <5>1. node[at].prefix \in Prefix
          BY <2>6 DEF TrieInv, TypeOK, Node
        <5> QED
          BY <5>1, PrefixShape
      <4> QED
        BY <4>1, <4>2
    <3> QED
      BY <2>3, <3>2, <3>3
  <2>10. dirty' \in Seq(Idx)
    <3>1. dirty' = Append(dirty, at)
      BY <1>1, <1>7 DEF at
    <3>2. at \in Idx /\ dirty \in Seq(Idx)
      BY <2>6 DEF TrieInv, TypeOK
    <3> QED
      BY <3>1, <3>2
  <2>11. root # t /\ root' = root
    BY <1>1, <1>5, <1>7, <2>6
  <2> QED
    BY <2>3, <2>7, <2>8, <2>9, <2>10, <2>11 DEF t, child
<1> QED
  BY <1>6, <1>7

LEMMA SweepCollapseStep == TrieInv /\ SweepCollapse => TrieInv'
<1> SUFFICES ASSUME TrieInv, SweepCollapse
             PROVE  TrieInv'
  OBVIOUS
<1> DEFINE t == Top.at
           child == OnlyChild(Here)
           b == IF Here.children[0] # None THEN 0 ELSE 1
<1>1. /\ pc = "sweep" /\ pc' = "sweep" /\ stack # <<>> /\ SweepUp
      /\ Redundant(Here)
      /\ UNCHANGED <<announcedCount, key, now, ret>>
  BY DEF SweepCollapse, Calling
<1>2. /\ t \in Live
      /\ Here = node[t]
      /\ b \in Bit
      /\ child = Here.children[b]
      /\ \A c \in Bit : c # b => Here.children[c] = None
      /\ ~ Here.announced
  BY <1>1, Running DEF Redundant, OnlyChild, Bit, Here
<1>3. Len(stack) \in Nat \ {0}
  BY <1>1, Running
<1> HIDE DEF t, child, b
<1>4. /\ Live' = Live \ {t}
      /\ node' \in [Live' -> Node]
      /\ root' = IF root = t THEN child ELSE root
      /\ \A i \in Live' :
           /\ node'[i].prefix = node[i].prefix
           /\ node'[i].announced = node[i].announced
           /\ \A c \in Bit : node'[i].children[c] =
                IF node[i].children[c] = t THEN child ELSE node[i].children[c]
      /\ \A k \in 1 .. Len(stack) - 1 - 1 :
           node'[stack[k].at].children = node[stack[k].at].children
      /\ stack' # <<>> => root' = root
      /\ dirty' \in Seq(Idx)
  BY Reclaimed DEF t, child
<1>5. /\ stack' \in Seq(Frame)
      /\ Len(stack') = Len(stack) - 1
      /\ \A k \in 1 .. Len(stack') : stack'[k].at = stack[k].at
      /\ \A k \in 1 .. Len(stack') - 1 : stack'[k] = stack[k]
  BY <1>1, WentUp
<1>6. PathOK'
  <2>1. \A k \in 1 .. Len(stack') : stack[k].at \in Live'
    BY <1>1, <1>4, <1>5, LowerFrames DEF t
  <2> QED
    BY <1>1, <1>3, <1>4, <1>5, <2>1, PathKept
<1>7. CountExact' /\ announcedCount' \in Nat
  <2>1. Announced' = Announced
    BY <1>2, <1>4 DEF Announced
  <2> QED
    BY <1>1, <2>1, CountSame DEF TrieInv
<1>8. TypeOK'
  <2>1. root' \in Idx \cup {None}
    BY <1>1, <1>2, <1>4, Running DEF TrieInv, TypeOK, Node
  <2> QED
    BY <1>1, <1>4, <1>5, <1>7, <2>1 DEF TrieInv, TypeOK, Live
<1>9. ShapeOK'
  <2>1. Entry = root /\ KidMap = [i \in Live |-> node[i].children]
    BY <1>1, Settled DEF TrieInv
  <2>2. Entry' = root' /\ KidMap' = [i \in Live' |-> node'[i].children]
    BY <1>1, <1>8, SettledNext
  <2>3. Pfx' = Without(Pfx, t)
    BY <1>4 DEF Pfx, Without
  <2>4. KidMap' = Collapsed(KidMap, t, child)
    <3>1. \A i \in Live' : node'[i].children \in [Bit -> Idx \cup {None}]
      BY <1>4 DEF Node
    <3>2. \A i \in Live' :
            node'[i].children =
            [c \in Bit |-> IF node[i].children[c] = t THEN child ELSE node[i].children[c]]
      BY <1>4, <3>1
    <3> QED
      BY <1>4, <2>1, <2>2, <3>2 DEF Collapsed
  <2>5. KidMap[t][b] = child /\ \A c \in Bit : c # b => KidMap[t][c] = None
    BY <1>2, <2>1
  <2>6. Shape(Live, Pfx, KidMap, Entry)
    BY <1>1 DEF TrieInv, ShapeOK
  <2>7. Shape(Live \ {t}, Without(Pfx, t), Collapsed(KidMap, t, KidMap[t][b]),
              IF Entry = t THEN KidMap[t][b] ELSE Entry)
    BY <1>2, <2>5, <2>6, CollapseShape
  <2>8. Entry' = IF Entry = t THEN KidMap[t][b] ELSE Entry
    BY <1>4, <2>1, <2>2, <2>5
  <2> QED
    BY <1>4, <2>3, <2>4, <2>5, <2>7, <2>8 DEF ShapeOK
<1> QED
  BY <1>1, <1>6, <1>7, <1>8, <1>9 DEF TrieInv, InsertAnswer, DescentOK

LEMMA SweepDoneStep == TrieInv /\ SweepDone => TrieInv'
<1> SUFFICES ASSUME TrieInv, SweepDone
             PROVE  TrieInv'
  OBVIOUS
<1>1. /\ pc = "sweep" /\ pc' = "swept" /\ stack = <<>>
      /\ UNCHANGED <<node, root, announcedCount, key, now, stack, ret, dirty>>
  BY DEF SweepDone
<1>2. TypeOK' /\ CountExact' /\ InsertAnswer'
  BY <1>1 DEF TrieInv, TypeOK, CountExact, InsertAnswer, Live
<1>3. ShapeOK'
  BY <1>1, <1>2, SettledShape DEF TrieInv
<1> QED
  BY <1>1, <1>2, <1>3 DEF TrieInv, PathOK, DescentOK

LEMMA SweepReturnStep == TrieInv /\ SweepReturn => TrieInv'
<1> SUFFICES ASSUME TrieInv, SweepReturn
             PROVE  TrieInv'
  OBVIOUS
<1>1. /\ pc = "swept" /\ pc' = "idle" /\ stack = <<>> /\ stack' = <<>>
      /\ UNCHANGED <<node, root, announcedCount>>
  BY DEF SweepReturn, Forget, TrieInv, DescentOK
<1>2. TypeOK'
  BY <1>1, ForgetTypes DEF SweepReturn, TrieInv, TypeOK, Live
<1>3. CountExact' /\ InsertAnswer'
  BY <1>1 DEF TrieInv, CountExact, InsertAnswer, Live
<1>4. ShapeOK'
  BY <1>1, <1>2, SettledShape DEF TrieInv
<1>5. PathOK' /\ DescentOK'
  BY <1>1 DEF PathOK, DescentOK
<1> QED
  BY <1>2, <1>3, <1>4, <1>5 DEF TrieInv

-----------------------------------------------------------------------------

LEMMA InitTrieInv == Init => TrieInv
<1> SUFFICES ASSUME Init
             PROVE  TrieInv
  OBVIOUS
<1>1. /\ Live = {} /\ root = None /\ pc = "idle" /\ stack = <<>>
      /\ announcedCount = 0
      /\ node \in [Live -> Node]
  BY DEF Init, Live
<1>2. TypeOK
  <2>1. <<>> \in Prefix
    <3>1. <<>> \in [1 .. 0 -> Bit] /\ 0 \in 0 .. MaxLen
      BY MaxLenAssumption
    <3> QED
      BY <3>1 DEF Prefix
  <2>2. Pending \in Outcome
    BY DEF Pending, Outcome
  <2> QED
    BY <1>1, <2>1, <2>2 DEF Init, TypeOK
<1>3. CountExact
  <2>1. Announced = {}
    BY <1>1 DEF Announced
  <2> QED
    BY <1>1, <2>1, FS_EmptySet DEF CountExact, Announced
<1>4. ShapeOK
  <2>1. Entry = None /\ Pfx \in [{} -> Prefix] /\ KidMap \in [{} -> [Bit -> Idx \cup {None}]]
    BY <1>1 DEF Entry, Pfx, KidMap
  <2> QED
    BY <1>1, <2>1
    DEF ShapeOK, Shape, Kids, EntryAbove, EdgesDown, PathsWhole, NoTwins
<1>5. PathOK /\ DescentOK /\ InsertAnswer
  BY <1>1 DEF PathOK, DescentOK, InsertAnswer
<1> QED
  BY <1>2, <1>3, <1>4, <1>5 DEF TrieInv

LEMMA CallStep == TrieInv /\ Call => TrieInv'
<1> SUFFICES ASSUME TrieInv, Call
             PROVE  TrieInv'
  OBVIOUS
<1>1. ASSUME NEW p \in Keys, NEW t \in Timestamps, InsertCall(p, t) \/ WithdrawCall(p, t)
      PROVE  TrieInv'
  <2>1. p \in Prefix /\ t \in Nat
    BY TreeAssumption
  <2> QED
    BY <1>1, <2>1, StartsAtRoot DEF InsertCall, WithdrawCall
<1>2. CASE SweepCall
  BY <1>2, StartsAtRoot DEF SweepCall, TrieInv, TypeOK
<1> QED
  BY <1>1, <1>2 DEF Call

LEMMA StepTrieInv == TrieInv /\ [Next]_vars => TrieInv'
<1> SUFFICES ASSUME TrieInv, [Next]_vars
             PROVE  TrieInv'
  OBVIOUS
<1>1. CASE Call
  BY <1>1, CallStep
<1>2. CASE Step
  BY <1>2, InsertFirstStep, InsertReannounceStep, InsertDescendStep, InsertGraftStep,
     InsertSpliceStep, InsertSplitStep, InsertFullStep, InsertSplitFullStep,
     InsertUnwindStep, InsertReturnStep, WithdrawDescendStep, WithdrawHitStep,
     WithdrawMissStep, WithdrawUnwindStep, WithdrawReturnStep, SweepVisitStep,
     SweepKeepStep, SweepCollapseStep, SweepDoneStep, SweepReturnStep DEF Step
<1>3. CASE UNCHANGED vars
  BY <1>3 DEF vars, TrieInv, TypeOK, CountExact, InsertAnswer, ShapeOK, PathOK, DescentOK,
     Live, Pfx, KidMap, Kid, Entry, Calling, Top
<1> QED
  BY <1>1, <1>2, <1>3 DEF Next

\* The invariant everything below is read off from: the shape, the path of frames
\* the call in progress keeps to, and the count.
THEOREM TrieInvariant == Spec => []TrieInv
BY InitTrieInv, StepTrieInv, PTL DEF Spec

\* The variables keep their types: in particular announced_count never goes below
\* zero and every index a frame or an outcome holds is one of the slab's.
THEOREM TypeCorrect == Spec => []TypeOK
<1>1. TrieInv => TypeOK
  BY DEF TrieInv
<1> QED
  BY <1>1, TrieInvariant, PTL

\* insert, withdraw and sweep_tombstones keep the slab one radix trie after every
\* frame of every call, unless a call found the slab full.
THEOREM AlwaysOneTrie == Spec => []TrieOK
<1>1. TrieInv => TrieOK
  BY ShapeMeansTrie DEF TrieInv, TrieOK
<1> QED
  BY <1>1, TrieInvariant, PTL

\* Every slot the slab counts is reached from the root (no node is leaked by a
\* collapse or a restructuring), unless a call found the slab full.
THEOREM NothingLeaks == Spec => []NoLeak
<1>1. TrieInv => NoLeak
  BY ShapeMeansTrie DEF TrieInv, NoLeak
<1> QED
  BY <1>1, TrieInvariant, PTL

\* announced_count is the number of announced nodes (insert_recursive's three
\* increments and withdraw_recursive's decrement are each made exactly once).
THEOREM CountIsExact == Spec => []CountExact
<1>1. TrieInv => CountExact
  BY DEF TrieInv
<1> QED
  BY <1>1, TrieInvariant, PTL

\* insert hands back the announced node of its key.
THEOREM AnswerIsRight == Spec => []InsertAnswer
<1>1. TrieInv => InsertAnswer
  BY DEF TrieInv
<1> QED
  BY <1>1, TrieInvariant, PTL

-----------------------------------------------------------------------------
\* What the actions that touch nodes do to them.

LEMMA ReannouncedNodes ==
  ASSUME TrieInv, InsertReannounce
  PROVE  /\ Top.at \in Live /\ Live' = Live
         /\ \A i \in Live : node'[i].prefix = node[i].prefix
                         /\ node'[i].children = node[i].children
         /\ \A i \in Live \ {Top.at} : node'[i] = node[i]
         /\ node'[Top.at].announced = TRUE
         /\ node'[Top.at].ts = now
<1> DEFINE t == Top.at
<1>1. /\ pc = "insert" /\ stack # <<>>
      /\ node' = [node EXCEPT ![t].announced = TRUE, ![t].ts = now]
  BY DEF InsertReannounce, Calling
<1>2. t \in Live
  BY <1>1, Running
<1> HIDE DEF t
<1> QED
  BY <1>1, <1>2 DEF TrieInv, TypeOK, Live, Node, t

LEMMA GraftedNodes ==
  ASSUME TrieInv, NEW leaf \in Idx \ Live, Calling("insert"), Below,
         node' = Extended([node EXCEPT ![Top.at].children[Toward] = leaf,
                                       ![Top.at].ts = Later(@, now)], leaf, Leaf)
  PROVE  /\ Top.at \in Live /\ Live' = Live \cup {leaf}
         /\ node'[leaf] = Leaf
         /\ \A i \in Live \ {Top.at} : node'[i] = node[i]
         /\ node'[Top.at].prefix = Here.prefix
         /\ node'[Top.at].announced = Here.announced
         /\ node'[Top.at].ts = Later(Here.ts, now)
         /\ node'[Top.at].children = [Here.children EXCEPT ![Toward] = leaf]
<1> DEFINE t == Top.at
           b == Toward
<1>1. pc = "insert" /\ stack # <<>>
  BY DEF Calling
<1>2. t \in Live /\ t # leaf /\ Here = node[t] /\ node[t] \in Node
  BY <1>1, Running DEF Here
<1>3. node' = Extended([node EXCEPT ![t].children[b] = leaf,
                                    ![t].ts = Later(@, now)], leaf, Leaf)
  OBVIOUS
<1> HIDE DEF t, b
<1>4. /\ Live' = Live \cup {leaf}
      /\ node'[leaf] = Leaf
      /\ \A i \in Live \ {t} : node'[i] = node[i]
      /\ node'[t] = [node[t] EXCEPT !.children[b] = leaf, !.ts = Later(node[t].ts, now)]
  BY <1>2, <1>3 DEF Extended, Live
<1>5. /\ node'[t].prefix = node[t].prefix
      /\ node'[t].announced = node[t].announced
      /\ node'[t].ts = Later(node[t].ts, now)
      /\ node'[t].children = [node[t].children EXCEPT ![b] = leaf]
  <2> DEFINE old == node[t]
  <2>1. old \in Node
    BY <1>2
  <2> HIDE DEF old
  <2> DEFINE ts == Later(old.ts, now)
             new == [old EXCEPT !.children[b] = leaf, !.ts = ts]
  <2>2. node'[t] = new
    BY <1>4 DEF old
  <2> HIDE DEF ts
  <2>3. /\ new.prefix = old.prefix /\ new.announced = old.announced
        /\ new.ts = ts /\ new.children = [old.children EXCEPT ![b] = leaf]
    BY <2>1 DEF Node
  <2> QED
    BY <2>2, <2>3 DEF old, ts
<1> QED
  BY <1>2, <1>4, <1>5 DEF t, b

LEMMA SplicedNodes ==
  ASSUME TrieInv, NEW new \in Idx \ Live, Calling("insert"), Above,
         node' = Extended(node, new,
            [Leaf EXCEPT !.children[BitAt(Here.prefix, Len(key))] = Top.at,
                         !.ts = Later(now, Here.ts)])
  PROVE  /\ Top.at \in Live /\ Live' = Live \cup {new}
         /\ \A i \in Live : node'[i] = node[i]
         /\ node'[new].prefix = key
         /\ node'[new].announced = TRUE
         /\ node'[new].ts = Later(now, Here.ts)
         /\ \A c \in Bit : node'[new].children[c] =
              IF c = BitAt(Here.prefix, Len(key)) THEN Top.at ELSE None
<1> DEFINE t == Top.at
           b == BitAt(Here.prefix, Len(key))
           ts == Later(now, Here.ts)
           n == [Leaf EXCEPT !.children[b] = t, !.ts = ts]
<1>1. pc = "insert" /\ stack # <<>>
  BY DEF Calling
<1>2. t \in Live
  BY <1>1, Running
<1>3. node' = Extended(node, new, n)
  OBVIOUS
<1>4. Leaf = [children |-> Childless, prefix |-> key, announced |-> TRUE, ts |-> now]
  BY DEF Leaf
<1> HIDE DEF t, b, ts
<1>5. /\ n.prefix = key /\ n.announced = TRUE /\ n.ts = ts
      /\ n.children = [Childless EXCEPT ![b] = t]
  BY <1>4
<1>6. \A c \in Bit : n.children[c] = IF c = b THEN t ELSE None
  BY <1>5 DEF Childless
<1> HIDE DEF n
<1>7. Live' = Live \cup {new} /\ node'[new] = n /\ \A i \in Live : node'[i] = node[i]
  BY <1>3 DEF Extended, Live
<1>8. /\ node'[new].prefix = key /\ node'[new].announced = TRUE /\ node'[new].ts = ts
      /\ \A c \in Bit : node'[new].children[c] = IF c = b THEN t ELSE None
  BY <1>5, <1>6, <1>7
<1> QED
  BY <1>2, <1>7, <1>8 DEF t, b, ts

LEMMA SplitNodes ==
  ASSUME TrieInv, NEW leaf \in Idx \ Live, NEW split \in Idx \ Live, leaf # split,
         Calling("insert"), Apart,
         node' = Extended(Extended(node, leaf, Leaf), split, Fork(leaf))
  PROVE  /\ Top.at \in Live /\ Live' = Live \cup {leaf, split}
         /\ \A i \in Live : node'[i] = node[i]
         /\ node'[leaf] = Leaf
         /\ node'[split].announced = FALSE
         /\ node'[split].ts = Later(Here.ts, now)
         /\ \A c \in Bit : node'[split].children[c] \in {leaf, Top.at}
<1> DEFINE t == Top.at
           common == CommonPrefixLen(key, Here.prefix)
           bk == BitAt(key, common)
           bh == BitAt(Here.prefix, common)
<1>1. pc = "insert" /\ stack # <<>>
  BY DEF Calling
<1>2. t \in Live /\ key \in Prefix /\ Here.prefix \in Prefix
  BY <1>1, Running, KeyPosition
<1>3. common # Len(Here.prefix) /\ common # Len(key)
  BY DEF Apart, Below, Above
<1>4. bk # bh /\ bk \in Bit /\ bh \in Bit
  <2>1. /\ bk # bh
        /\ StrictlyCovers(Masked(key, common), Here.prefix)
        /\ StrictlyCovers(Masked(key, common), key)
        /\ Masked(key, common) \in Prefix /\ Len(Masked(key, common)) = common
    BY <1>2, <1>3, KeyApart
  <2> QED
    BY <1>2, <2>1, StrictlyLonger
<1> DEFINE kids == [Childless EXCEPT ![bk] = leaf, ![bh] = t]
           ts == Later(Here.ts, now)
           m == Masked(key, common)
<1>5. Fork(leaf) = [children |-> kids, prefix |-> m, announced |-> FALSE, ts |-> ts]
  BY DEF Fork
<1> HIDE DEF t, common, bk, bh, m, ts
<1>6. \A c \in Bit : kids[c] \in {leaf, t}
  <2>1. \A c \in Bit : c = bk \/ c = bh
    BY <1>4 DEF Bit
  <2> QED
    BY <1>4, <2>1 DEF Childless
<1> HIDE DEF kids
<1>7. /\ Live' = Live \cup {leaf, split}
      /\ \A i \in Live : node'[i] = node[i]
      /\ node'[leaf] = Leaf /\ node'[split] = Fork(leaf)
  BY DEF Extended, Live
<1>8. /\ Fork(leaf).announced = FALSE
      /\ Fork(leaf).ts = ts
      /\ Fork(leaf).children = kids
  BY ONLY <1>5
<1>9. \A c \in Bit : node'[split].children[c] \in {leaf, Top.at}
  BY <1>6, <1>7, <1>8 DEF t
<1>10. node'[split].announced = FALSE /\ node'[split].ts = Later(Here.ts, now)
  BY <1>7, <1>8 DEF ts
<1> QED
  BY <1>2, <1>7, <1>9, <1>10 DEF t

LEMMA HitNodes ==
  ASSUME TrieInv, WithdrawHit
  PROVE  /\ Top.at \in Live /\ Live' = Live
         /\ \A i \in Live : node'[i].prefix = node[i].prefix
                         /\ node'[i].children = node[i].children
         /\ \A i \in Live \ {Top.at} : node'[i] = node[i]
         /\ node'[Top.at].announced = FALSE
         /\ node'[Top.at].ts = now
<1> DEFINE t == Top.at
<1>1. /\ pc = "withdraw" /\ stack # <<>>
      /\ node' = [node EXCEPT ![t].announced = FALSE, ![t].ts = now]
  BY DEF WithdrawHit, Calling
<1>2. t \in Live
  BY <1>1, Running
<1> HIDE DEF t
<1> QED
  BY <1>1, <1>2 DEF TrieInv, TypeOK, Live, Node, t

LEMMA TouchedNodes ==
  ASSUME TrieInv, WithdrawUnwind
  PROVE  /\ Top.at \in Live /\ Live' = Live
         /\ \A i \in Live : node'[i].prefix = node[i].prefix
                         /\ node'[i].children = node[i].children
                         /\ node'[i].announced = node[i].announced
         /\ \A i \in Live \ {Top.at} : node'[i] = node[i]
         /\ node'[Top.at].ts = IF ret.advanced THEN Later(Here.ts, now) ELSE Here.ts
<1> DEFINE t == Top.at
           ts == IF ret.advanced THEN Later(Here.ts, now) ELSE Here.ts
<1>1. /\ pc = "withdrawn" /\ stack # <<>>
      /\ node' = [node EXCEPT ![t].ts = IF ret.advanced THEN Later(@, now) ELSE @]
  BY DEF WithdrawUnwind, Calling
<1>2. t \in Live /\ Here = node[t]
  BY <1>1, Running DEF Here
<1>3. node' = [node EXCEPT ![t].ts = ts]
  BY <1>1, <1>2
<1> HIDE DEF t, ts
<1>4. /\ Live' = Live
      /\ \A i \in Live \ {t} : node'[i] = node[i]
      /\ node'[t] = [node[t] EXCEPT !.ts = ts]
  BY <1>2, <1>3 DEF Live
<1>5. \A i \in Live : node[i] \in Node
  BY DEF TrieInv, TypeOK
<1> QED
  BY <1>2, <1>4, <1>5 DEF Node, t, ts

\* Except while insert unwinds, the nodes and their pointers are the shape.
LEMMA AtRest ==
  ASSUME TrieInv, pc \notin {"poisoned", "inserted"}
  PROVE  /\ Shape(Live, Pfx, [i \in Live |-> node[i].children], root)
         /\ \A i \in Live : /\ node[i] \in Node
                            /\ node[i].prefix \in Prefix
                            /\ Len(node[i].prefix) \in 0 .. MaxLen
                            /\ Pfx[i] = node[i].prefix
<1>1. TypeOK /\ ShapeOK
  BY DEF TrieInv
<1>2. \A i \in Live : /\ node[i] \in Node
                      /\ node[i].prefix \in Prefix
                      /\ Pfx[i] = node[i].prefix
  BY <1>1 DEF TypeOK, Node, Live, Pfx
<1> QED
  BY <1>1, <1>2, Settled, PrefixShape DEF ShapeOK

\* A node strictly below another one is at or below its child on that side.
LEMMA BelowChild ==
  ASSUME TrieInv, pc \notin {"poisoned", "inserted"},
         NEW i \in Live, NEW j \in Live, StrictlyCovers(node[i].prefix, node[j].prefix)
  PROVE  LET b == BitAt(node[j].prefix, Len(node[i].prefix))
         IN  /\ b \in Bit
             /\ node[i].children[b] \in Live
             /\ Covers(node[node[i].children[b]].prefix, node[j].prefix)
<1> DEFINE b == BitAt(node[j].prefix, Len(node[i].prefix))
           K == [x \in Live |-> node[x].children]
<1>1. /\ Shape(Live, Pfx, K, root)
      /\ \A x \in Live : Pfx[x] = node[x].prefix
  BY AtRest
<1>2. Pfx[i] = node[i].prefix /\ Pfx[j] = node[j].prefix
  BY <1>1
<1>3. b = BitAt(Pfx[j], Len(Pfx[i])) /\ StrictlyCovers(Pfx[i], Pfx[j])
  BY <1>2
<1> HIDE DEF b, K
<1>4. b \in Bit /\ K[i][b] \in Live /\ Covers(Pfx[K[i][b]], Pfx[j])
  BY <1>1, <1>3, PathChild
<1> QED
  BY <1>1, <1>4 DEF b, K

-----------------------------------------------------------------------------
(***************************************************************************)
(* insert_recursive and withdraw_recursive read the prefix and children of *)
(* their node before they recurse (tree.rs:243) and use them afterwards;   *)
(* sweep_recursive does so with its second child (tree.rs:502).  The model *)
(* reads the node again instead, which is the same as long as no frame     *)
(* changes that of one above it, or in a sweep the child yet to be seen.   *)
(***************************************************************************)

SuspendedKept ==
  \A k \in 1 .. Len(stack) - 1 :
    LET i == stack[k].at
    IN  /\ pc \in {"insert", "inserted", "withdraw", "withdrawn"} => node'[i] = node[i]
        /\ pc = "sweep" =>
             \A b \in Bit : b > stack[k].slot => node'[i].children[b] = node[i].children[b]

LEMMA OthersKept ==
  ASSUME TrieInv, Next, pc \in {"insert", "inserted", "withdraw", "withdrawn"}, stack # <<>>
  PROVE  \A i \in Live \ {Top.at} : node'[i] = node[i]
<1>1. CASE UNCHANGED node
  BY <1>1
<1>2. CASE InsertReannounce
  BY <1>2, ReannouncedNodes
<1>3. CASE InsertGraft
  <2>1. PICK leaf \in Idx \ Live :
          node' = Extended([node EXCEPT ![Top.at].children[Toward] = leaf,
                                        ![Top.at].ts = Later(@, now)], leaf, Leaf)
    BY <1>3 DEF InsertGraft
  <2> QED
    BY <1>3, <2>1, GraftedNodes DEF InsertGraft
<1>4. CASE InsertSplice \/ InsertSplit \/ InsertSplitFull
  BY <1>4 DEF InsertSplice, InsertSplit, InsertSplitFull, Extended, Live
<1>5. CASE InsertUnwind
  BY <1>5, UnwoundNodes
<1>6. CASE WithdrawHit
  BY <1>6, HitNodes
<1>7. CASE WithdrawUnwind
  BY <1>7, TouchedNodes
<1> QED
  BY <1>1, <1>2, <1>3, <1>4, <1>5, <1>6, <1>7 DEF Next, Call, Step, InsertCall, WithdrawCall,
     SweepCall, InsertFirst, InsertDescend, InsertFull, InsertReturn, WithdrawDescend,
     WithdrawMiss, WithdrawReturn, SweepVisit, SweepKeep, SweepCollapse, SweepDone,
     SweepReturn, Calling

\* A collapse changes the frame above, on the side that was swept.
LEMMA SiblingsKept ==
  ASSUME TrieInv, Next, pc = "sweep", NEW k \in 1 .. Len(stack) - 1, NEW b \in Bit,
         b > stack[k].slot
  PROVE  node'[stack[k].at].children[b] = node[stack[k].at].children[b]
<1> DEFINE n == Len(stack)
           i == stack[k].at
           above == stack[n - 1]
<1>1. CASE UNCHANGED node
  BY <1>1
<1>2. CASE SweepCollapse
  <2>1. stack # <<>> /\ pc # "poisoned"
    BY <1>2 DEF SweepCollapse, Calling
  <2>2. n \in Nat \ {0}
    BY <2>1, Running
  <2>3. /\ n - 1 \in 1 .. n - 1 /\ n # 1
        /\ i \in Live /\ i # Top.at
        /\ above.at \in Live /\ above.slot \in Bit
    BY <2>1, <2>2, LowerFrames
  <2>4. PICK child : node' = Without([node EXCEPT ![above.at].children[above.slot] = child],
                                     Top.at)
    BY <1>2, <2>3 DEF SweepCollapse
  <2>5. i = above.at => stack[k].slot = above.slot
    <3>1. CASE k = n - 1
      BY <3>1
    <3>2. CASE k # n - 1
      <4>1. k \in 1 .. n /\ n - 1 \in 1 .. n /\ k < n - 1
        BY <2>2, <2>3, <3>2
      <4>2. Len(node[i].prefix) < Len(node[above.at].prefix)
        BY <2>1, <4>1 DEF TrieInv, PathOK
      <4>3. node[i].prefix \in Prefix
        BY <2>3 DEF TrieInv, TypeOK, Node, Live
      <4>4. Len(node[i].prefix) \in Nat
        BY <4>3, PrefixShape
      <4> QED
        BY <4>2, <4>4
    <3> QED
      BY <3>1, <3>2
  <2>6. above.slot \in 0 .. 1 /\ b \in 0 .. 1
    BY <2>3 DEF Bit
  <2>7. node[i] \in Node /\ node[i].children \in [Bit -> Idx \cup {None}]
    BY <2>3 DEF TrieInv, TypeOK, Node, Live
  <2> HIDE DEF i, above, n
  <2>8. CASE i = above.at
    <3>1. above.slot # b
      BY <2>5, <2>6, <2>8 DEF i
    <3>2. node'[i] = [node[i] EXCEPT !.children[above.slot] = child]
      BY <2>3, <2>4, <2>8 DEF Without, Live
    <3>3. node'[i].children = [node[i].children EXCEPT ![above.slot] = child]
      BY <2>7, <3>2 DEF Node
    <3> QED
      BY <2>7, <3>1, <3>3 DEF i
  <2>9. CASE i # above.at
    BY <2>3, <2>4, <2>9 DEF Without, Live, i
  <2> QED
    BY <2>8, <2>9
<1> QED
  BY <1>1, <1>2 DEF Next, Call, Step, InsertCall, WithdrawCall, SweepCall, InsertFirst,
     InsertReannounce, InsertDescend, InsertGraft, InsertSplice, InsertSplit, InsertFull,
     InsertSplitFull, InsertUnwind, InsertReturn, WithdrawDescend, WithdrawHit, WithdrawMiss,
     WithdrawUnwind, WithdrawReturn, SweepVisit, SweepKeep, SweepDone, SweepReturn, Calling

\* What a frame copied of its node before it recursed is still so when it goes on: no
\* step below it changes that node, or in a sweep the child that is to be seen next.
THEOREM CopiesStayTrue == Spec => [][SuspendedKept]_vars
<1>1. TrieInv /\ [Next]_vars => [SuspendedKept]_vars
  <2> SUFFICES ASSUME TrieInv, Next, NEW k \in 1 .. Len(stack) - 1
               PROVE  LET i == stack[k].at
                      IN  /\ pc \in {"insert", "inserted", "withdraw", "withdrawn"} =>
                               node'[i] = node[i]
                          /\ pc = "sweep" =>
                               \A b \in Bit : b > stack[k].slot =>
                                 node'[i].children[b] = node[i].children[b]
    BY DEF SuspendedKept
  <2>1. stack # <<>>
    BY DEF TrieInv, TypeOK
  <2>2. pc \in {"insert", "inserted", "withdraw", "withdrawn"} =>
          node'[stack[k].at] = node[stack[k].at]
    BY <2>1, LowerFrames, OthersKept
  <2> QED
    BY <2>2, SiblingsKept
<1> QED
  BY <1>1, TrieInvariant, PTL DEF Spec

-----------------------------------------------------------------------------
(***************************************************************************)
(* The trie implements the map of RouteMap.  What the map's steps need     *)
(* beyond TrieInv is that withdraw, when it gives up, has looked where its *)
(* key would be: any node that holds the key lies below the running frame. *)
(***************************************************************************)

Sound == TrieInv /\ pc # "poisoned"

AskInv ==
  /\ pc \in {"idle", "sweep", "swept"} => key = <<>>
  /\ pc = "withdraw" =>
       IF stack = <<>> THEN root = None
       ELSE \A i \in Live : node[i].prefix = key => Covers(Here.prefix, key)

Held == {node[i].prefix : i \in Announced}

RoutesAreHeld == Routes = Held

LEMMA RoutesHeld == Sound => RoutesAreHeld
<1> SUFFICES ASSUME Sound
             PROVE  Routes = Held
  BY DEF RoutesAreHeld
<1>1. \A i \in Live : Attached(i)
  BY ShapeMeansTrie DEF Sound, TrieInv, NoLeak
<1> QED
  BY <1>1 DEF Routes, Held, Announced

LEMMA RoutesHeldNext == Sound' => RoutesAreHeld'
BY RoutesHeld, PTL

\* The step announces no node and takes none away, but for the node x.
SameBut(x) ==
  /\ \A i \in Live \ {x} : node[i].announced =>
       i \in Live' /\ node'[i].announced /\ node'[i].prefix = node[i].prefix
  /\ \A i \in Live' \ {x} : node'[i].announced => i \in Live /\ node[i].announced

LEMMA HeldSame ==
  ASSUME NEW x, SameBut(x), x \notin Announced, x \notin Announced'
  PROVE  Held' = Held
<1>1. Announced' = Announced
  BY DEF Announced, SameBut
<1>2. \A i \in Announced : node'[i].prefix = node[i].prefix
  BY DEF Announced, SameBut
<1> QED
  BY <1>1, <1>2 DEF Held

\* After the step x is announced at the key; where it was announced before, there too.
LEMMA HeldMore ==
  ASSUME NEW x, SameBut(x), x \in Live', node'[x].announced, node'[x].prefix = key,
         x \in Live => node[x].prefix = key
  PROVE  Held' = Held \cup {key}
<1>1. Announced' = Announced \cup {x}
  BY DEF Announced, SameBut
<1>2. \A i \in Announced : node'[i].prefix = node[i].prefix
  BY DEF Announced, SameBut
<1> QED
  BY <1>1, <1>2 DEF Held

\* What the map sees of a step of the trie that serves no call.
LEMMA Unseen ==
  ASSUME Sound, Sound', Held' = Held, Phase' = Phase, key' = key, ret'.found = ret.found
  PROVE  UNCHANGED Map!mapVars
<1>1. Routes' = Routes
  BY RoutesHeld, RoutesHeldNext DEF RoutesAreHeld
<1> QED
  BY <1>1 DEF Map!mapVars

LEMMA AnnounceServed ==
  ASSUME Sound, Sound', pc = "insert", pc' = "inserted",
         Held' = Held \cup {key}, key' = key, ret'.found = TRUE
  PROVE  Map!Announce
<1>1. Routes' = Routes \cup {key}
  BY RoutesHeld, RoutesHeldNext DEF RoutesAreHeld
<1> QED
  BY <1>1 DEF Map!Announce, Phase

LEMMA WithdrawServed ==
  ASSUME Sound, Sound', pc = "withdraw", pc' = "withdrawn",
         Held' = Held \ {key}, key' = key, ret'.found = (key \in Held)
  PROVE  Map!Withdraw
<1>1. Routes = Held /\ Routes' = Routes \ {key}
  BY RoutesHeld, RoutesHeldNext DEF RoutesAreHeld
<1> QED
  BY <1>1 DEF Map!Withdraw, Phase

LEMMA Replied ==
  ASSUME Sound, Sound', pc \in {"inserted", "withdrawn", "swept"}, Forget, node' = node
  PROVE  Map!Reply
<1>1. Held' = Held
  BY DEF Held, Announced, Live
<1>2. Routes' = Routes
  BY <1>1, RoutesHeld, RoutesHeldNext DEF RoutesAreHeld
<1>3. Phase = "served" /\ Phase' = "idle" /\ key' = <<>> /\ ret'.found = FALSE
  BY DEF Forget, Phase, Pending
<1> QED
  BY <1>2, <1>3 DEF Map!Reply

LEMMA InsertServed ==
  ASSUME Sound, Sound',
         InsertFirst \/ InsertReannounce \/ InsertGraft \/ InsertSplice \/ InsertSplit
  PROVE  Map!Announce
<1>1. TrieInv /\ TypeOK
  BY DEF Sound, TrieInv
<1>2. Leaf.announced = TRUE /\ Leaf.prefix = key
  BY <1>1, LeafIsNode
<1>3. CASE InsertFirst
  <2>1. PICK leaf \in Idx \ Live : node' = Extended(node, leaf, Leaf)
    BY <1>3 DEF InsertFirst
  <2>2. Live' = Live \cup {leaf} /\ node'[leaf] = Leaf /\ \A i \in Live : node'[i] = node[i]
    BY <2>1 DEF Extended, Live
  <2>3. Held' = Held \cup {key}
    <3>1. SameBut(leaf)
      BY <2>2 DEF SameBut
    <3> QED
      BY <1>2, <2>2, <3>1, HeldMore
  <2> QED
    BY <1>3, <2>3, AnnounceServed DEF InsertFirst
<1>4. CASE InsertReannounce
  <2>1. Here.prefix = key /\ Here = node[Top.at]
    BY <1>4 DEF InsertReannounce, Exact, Here
  <2>2. Held' = Held \cup {key}
    <3>1. SameBut(Top.at)
      BY <1>1, <1>4, ReannouncedNodes DEF SameBut
    <3> QED
      BY <1>1, <1>4, <2>1, <3>1, ReannouncedNodes, HeldMore
  <2> QED
    BY <1>4, <2>2, AnnounceServed DEF InsertReannounce, Return, Calling
<1>5. CASE InsertGraft
  <2>1. PICK leaf \in Idx \ Live :
          /\ node' = Extended([node EXCEPT ![Top.at].children[Toward] = leaf,
                                           ![Top.at].ts = Later(@, now)], leaf, Leaf)
          /\ Return("inserted", [subroot |-> Top.at, target |-> leaf,
                                 advanced |-> now > Here.ts, found |-> TRUE])
    BY <1>5 DEF InsertGraft
  <2>2. /\ Top.at \in Live /\ Live' = Live \cup {leaf}
        /\ node'[leaf] = Leaf
        /\ \A i \in Live \ {Top.at} : node'[i] = node[i]
        /\ node'[Top.at].prefix = node[Top.at].prefix
        /\ node'[Top.at].announced = node[Top.at].announced
    BY <1>1, <1>5, <2>1, GraftedNodes DEF InsertGraft, Here
  <2>3. Held' = Held \cup {key}
    <3>1. SameBut(leaf)
      BY <2>2 DEF SameBut
    <3> QED
      BY <1>2, <2>2, <3>1, HeldMore
  <2> QED
    BY <1>5, <2>1, <2>3, AnnounceServed DEF InsertGraft, Return, Calling
<1>6. CASE InsertSplice
  <2>1. PICK new \in Idx \ Live :
          /\ node' = Extended(node, new,
                [Leaf EXCEPT !.children[BitAt(Here.prefix, Len(key))] = Top.at,
                             !.ts = Later(now, Here.ts)])
          /\ Return("inserted", [subroot |-> new, target |-> new,
                                 advanced |-> now > Here.ts, found |-> TRUE])
    BY <1>6 DEF InsertSplice
  <2>2. /\ Live' = Live \cup {new}
        /\ \A i \in Live : node'[i] = node[i]
        /\ node'[new].prefix = key /\ node'[new].announced = TRUE
    BY <1>1, <1>6, <2>1, SplicedNodes DEF InsertSplice
  <2>3. Held' = Held \cup {key}
    <3>1. SameBut(new)
      BY <2>2 DEF SameBut
    <3> QED
      BY <2>2, <3>1, HeldMore
  <2> QED
    BY <1>6, <2>1, <2>3, AnnounceServed DEF InsertSplice, Return, Calling
<1>7. CASE InsertSplit
  <2>1. PICK leaf \in Idx \ Live, split \in Idx \ Live :
          /\ leaf # split
          /\ node' = Extended(Extended(node, leaf, Leaf), split, Fork(leaf))
          /\ Return("inserted", [subroot |-> split, target |-> leaf,
                                 advanced |-> now > Here.ts, found |-> TRUE])
    BY <1>7 DEF InsertSplit
  <2>2. /\ Live' = Live \cup {leaf, split}
        /\ \A i \in Live : node'[i] = node[i]
        /\ node'[leaf] = Leaf /\ node'[split].announced = FALSE
    BY <1>1, <1>7, <2>1, SplitNodes DEF InsertSplit
  <2>3. Held' = Held \cup {key}
    <3>1. SameBut(leaf)
      BY <2>2 DEF SameBut
    <3> QED
      BY <1>2, <2>2, <3>1, HeldMore
  <2> QED
    BY <1>7, <2>1, <2>3, AnnounceServed DEF InsertSplit, Return, Calling
<1> QED
  BY <1>3, <1>4, <1>5, <1>6, <1>7

\* The slab is full: the leaf a split has already allocated is in no one's reach.
LEMMA InsertPanics ==
  ASSUME Sound, InsertFull \/ InsertSplitFull
  PROVE  Map!Panic
<1>1. pc = "insert" /\ pc' = "poisoned" /\ UNCHANGED <<root, key, ret, stack>>
  BY DEF InsertFull, InsertSplitFull, Calling
<1>2. TrieInv /\ TypeOK /\ ShapeOK
  BY DEF Sound, TrieInv
<1>3. Entry = root /\ Entry' = root
  BY <1>1 DEF Entry
<1>4. \A i, c : Kid(i, c) = node[i].children[c] /\ Kid(i, c)' = node'[i].children[c]
  BY <1>1 DEF Kid, Calling
<1>5. Routes' = Routes
  <2>1. CASE InsertFull
    <3>1. node' = node
      BY <2>1 DEF InsertFull
    <3> QED
      BY <1>3, <1>4, <3>1 DEF Routes, Attached, Live
  <2>2. CASE InsertSplitFull
    <3>1. PICK leaf \in Idx \ Live : node' = Extended(node, leaf, Leaf)
      BY <2>2 DEF InsertSplitFull
    <3>2. /\ Live' = Live \cup {leaf}
          /\ \A i \in Live : node'[i] = node[i]
          /\ node'[leaf].children = Childless
      BY <1>2, <3>1, LeafIsNode DEF Extended, Live
    <3>3. \A j \in Live, c \in Bit : node[j].children[c] # leaf
      <4>1. KidMap = [i \in Live |-> node[i].children]
        BY <1>1, <1>2, Settled
      <4>2. \A j \in Live, c \in Bit : node[j].children[c] # None => node[j].children[c] \in Live
        BY <1>2, <4>1 DEF ShapeOK, Shape, EdgesDown
      <4> QED
        BY <4>2, TreeAssumption
    <3>4. \A c \in Bit : node'[leaf].children[c] \notin Live'
      BY <3>2, TreeAssumption DEF Childless, TrieInv, TypeOK, Sound
    <3>5. root # leaf
      BY <1>2, <1>3, TreeAssumption DEF ShapeOK, Shape, EntryAbove
    <3>6. ~Attached(leaf)'
      BY <1>3, <1>4, <3>2, <3>3, <3>4, <3>5 DEF Attached
    <3>7. \A i \in Live : Attached(i)' <=> Attached(i)
      BY <1>3, <1>4, <3>2, <3>4 DEF Attached
    <3> DEFINE R  == {i \in Live : node[i].announced /\ Attached(i)}
               R2 == {i \in Live' : node'[i].announced /\ Attached(i)'}
    <3>8. R2 = R
      BY <3>2, <3>6, <3>7
    <3>9. \A i \in R : node'[i].prefix = node[i].prefix
      BY <3>2
    <3>10. Routes = {node[i].prefix : i \in R} /\ Routes' = {node'[i].prefix : i \in R2}
      BY DEF Routes
    <3> HIDE DEF R, R2
    <3> QED
      BY <3>8, <3>9, <3>10
  <2> QED
    BY <2>1, <2>2
<1> QED
  BY <1>1, <1>5 DEF Map!Panic, Phase

\* Withdraw gives up where the key is not announced.
LEMMA WithdrawMisses ==
  ASSUME Sound, Sound', AskInv, WithdrawMiss
  PROVE  Map!Withdraw
<1>1. /\ pc = "withdraw" /\ pc' = "withdrawn" /\ node' = node /\ key' = key
      /\ ret'.found = FALSE
      /\ TrieInv
  BY DEF WithdrawMiss, Pending, Sound
<1>2. key \notin Held
  <2> SUFFICES ASSUME NEW i \in Live, node[i].announced, node[i].prefix = key
               PROVE  FALSE
    BY DEF Held, Announced
  <2>1. stack # <<>>
    BY <1>1, AtRest DEF AskInv, Shape, EntryAbove
  <2>2. /\ Top.at \in Live /\ Here = node[Top.at] /\ Here.prefix \in Prefix
        /\ key \in Prefix /\ Covers(Here.prefix, key)
    BY <1>1, <2>1, Running, KeyPosition DEF AskInv, Here
  <2>3. CASE Exact
    <3>1. i = Top.at
      BY <1>1, <2>2, <2>3, AtRest DEF Exact, Shape, NoTwins
    <3>2. Here.announced
      BY <2>2, <3>1
    <3> QED
      BY <2>1, <2>3, <3>2 DEF WithdrawMiss, Above, Apart, Below
  <2>4. CASE ~Exact
    <3>1. StrictlyCovers(Here.prefix, key)
      BY <2>2, <2>4 DEF Exact, StrictlyCovers
    <3>2. Below
      <4>1. CommonPrefixLen(key, Here.prefix) = Len(Here.prefix)
        <5>1. Len(Here.prefix) <= Len(key) /\ \A k \in 1 .. Len(Here.prefix) : Here.prefix[k] = key[k]
          BY <2>2, CoversBits
        <5>2. Len(Here.prefix) \in 0 .. MaxLen
          BY <2>2, PrefixShape
        <5>3. AgreeOn(key, Here.prefix, Len(Here.prefix))
          BY <5>1, <5>2 DEF AgreeOn
        <5> QED
          BY <2>2, <5>2, <5>3, CommonPrefixAgrees, CommonPrefixBounds
      <4> QED
        BY <2>4, <4>1 DEF Below
    <3>3. Here.children[Toward] \in Live
      BY <1>1, <2>2, <3>1, BelowChild DEF Toward
    <3>4. Here.children[Toward] # None
      BY <3>3, TreeAssumption DEF Sound, TrieInv, TypeOK
    <3> QED
      BY <2>1, <2>4, <3>2, <3>4 DEF WithdrawMiss, Above, Apart
  <2> QED
    BY <2>3, <2>4
<1>3. Held' = Held
  BY <1>1 DEF Held, Announced, Live
<1>4. Held' = Held \ {key}
  BY <1>2, <1>3
<1>5. ret'.found = (key \in Held)
  <2>1. (key \in Held) = FALSE
    BY <1>2
  <2> QED
    BY <1>1, <2>1
<1> QED
  BY <1>1, <1>4, <1>5, WithdrawServed

LEMMA WithdrawHits ==
  ASSUME Sound, Sound', WithdrawHit
  PROVE  Map!Withdraw
<1>1. /\ pc = "withdraw" /\ pc' = "withdrawn" /\ key' = key /\ stack # <<>>
      /\ ret'.found = TRUE
      /\ Here.prefix = key /\ Here.announced /\ Here = node[Top.at]
      /\ TrieInv
  BY DEF WithdrawHit, Calling, Return, Pending, Exact, Here, Sound
<1> DEFINE t == Top.at
<1>2. /\ t \in Live /\ Live' = Live
      /\ \A i \in Live : node'[i].prefix = node[i].prefix
      /\ \A i \in Live \ {t} : node'[i] = node[i]
      /\ node'[t].announced = FALSE
  BY <1>1, HitNodes
<1>3. t \in Announced /\ node[t].prefix = key /\ Announced' = Announced \ {t}
  BY <1>1, <1>2 DEF Announced
<1> HIDE DEF t
<1>4. \A i \in Announced \ {t} : node[i].prefix # key
  BY <1>1, <1>2, <1>3, AtRest DEF Shape, NoTwins, Announced
<1>5. \A i \in Announced : node'[i].prefix = node[i].prefix
  BY <1>2 DEF Announced
<1>6. Held' = Held \ {key} /\ key \in Held
  BY <1>3, <1>4, <1>5 DEF Held
<1> QED
  BY <1>1, <1>6, WithdrawServed

\* Descending, unwinding and sweeping leave the announced nodes as they are.
LEMMA StepUnseen ==
  ASSUME Sound, Sound',
         \/ InsertDescend \/ WithdrawDescend \/ InsertUnwind \/ WithdrawUnwind
         \/ SweepVisit \/ SweepKeep \/ SweepCollapse \/ UNCHANGED vars
  PROVE  UNCHANGED Map!mapVars
<1>1. TrieInv
  BY DEF Sound
<1>2. CASE \/ InsertDescend \/ WithdrawDescend \/ SweepVisit \/ SweepKeep \/ UNCHANGED vars
  <2>1. UNCHANGED <<node, pc, key, ret>>
    BY <1>2 DEF InsertDescend, WithdrawDescend, SweepVisit, SweepKeep, vars
  <2>2. Held' = Held /\ Phase' = Phase
    BY <2>1 DEF Held, Announced, Live, Phase
  <2> QED
    BY <2>1, <2>2, Unseen
<1>3. CASE InsertUnwind
  <2>1. pc' = pc /\ key' = key /\ ret'.found = ret.found
    BY <1>1, <1>3 DEF InsertUnwind, Calling, Return, TrieInv, TypeOK, Outcome
  <2>2. SameBut(None) /\ None \notin Announced /\ None \notin Announced'
    BY <1>1, <1>3, UnwoundNodes, TreeAssumption
    DEF SameBut, Announced, Here, TrieInv, TypeOK
  <2>3. Held' = Held /\ Phase' = Phase
    BY <2>1, <2>2, HeldSame DEF Phase
  <2> QED
    BY <2>1, <2>3, Unseen
<1>4. CASE WithdrawUnwind
  <2>1. pc' = pc /\ key' = key /\ ret'.found = ret.found
    BY <1>1, <1>4 DEF WithdrawUnwind, Calling, Return, TrieInv, TypeOK, Outcome
  <2>2. SameBut(None) /\ None \notin Announced /\ None \notin Announced'
    BY <1>1, <1>4, TouchedNodes, TreeAssumption DEF SameBut, Announced, TrieInv, TypeOK
  <2>3. Held' = Held /\ Phase' = Phase
    BY <2>1, <2>2, HeldSame DEF Phase
  <2> QED
    BY <2>1, <2>3, Unseen
<1>5. CASE SweepCollapse
  <2>1. pc' = pc /\ key' = key /\ ret' = ret /\ ~Here.announced /\ Here = node[Top.at]
    BY <1>5 DEF SweepCollapse, Redundant, Here
  <2>2. SameBut(Top.at) /\ Top.at \notin Announced /\ Top.at \notin Announced'
    BY <1>1, <1>5, <2>1, Reclaimed DEF SameBut, Announced
  <2>3. Held' = Held /\ Phase' = Phase
    BY <2>1, <2>2, HeldSame DEF Phase
  <2> QED
    BY <2>1, <2>3, Unseen
<1> QED
  BY <1>2, <1>3, <1>4, <1>5

LEMMA CallAsked ==
  ASSUME Sound, Sound', AskInv, Call
  PROVE  Map!MapNext
<1>1. pc = "idle" /\ UNCHANGED <<node, ret>> /\ key = <<>>
  BY DEF Call, InsertCall, WithdrawCall, SweepCall, AskInv
<1>2. Held' = Held
  BY <1>1 DEF Held, Announced, Live
<1>3. Routes' = Routes
  BY <1>2, RoutesHeld, RoutesHeldNext DEF RoutesAreHeld
<1>4. Phase = "idle"
  BY <1>1 DEF Phase
<1>5. ASSUME NEW p \in Keys, NEW t \in Timestamps, InsertCall(p, t)
      PROVE  Map!Ask("announce", p)
  BY <1>1, <1>3, <1>4, <1>5 DEF InsertCall, Phase, Map!Ask
<1>6. ASSUME NEW p \in Keys, NEW t \in Timestamps, WithdrawCall(p, t)
      PROVE  Map!Ask("withdraw", p)
  BY <1>1, <1>3, <1>4, <1>6 DEF WithdrawCall, Phase, Map!Ask
<1>7. CASE SweepCall
  <2>1. Map!Ask("sweep", <<>>)
    BY <1>1, <1>3, <1>4, <1>7 DEF SweepCall, Phase, Map!Ask
  <2> QED
    BY <2>1 DEF Map!MapNext
<1> QED
  BY <1>5, <1>6, <1>7 DEF Call, Map!MapNext

LEMMA InitAsk == Init => AskInv
BY DEF Init, AskInv

\* Going down, withdraw keeps the nodes that may hold its key below it.
LEMMA AskKept == Sound /\ AskInv /\ [Next]_vars => AskInv'
<1> SUFFICES ASSUME Sound, AskInv, [Next]_vars
             PROVE  AskInv'
  OBVIOUS
<1>1. TrieInv
  BY DEF Sound
<1>2. ASSUME NEW p \in Keys, NEW t \in Timestamps, WithdrawCall(p, t)
      PROVE  AskInv'
  <2>1. pc = "idle" /\ pc' = "withdraw" /\ UNCHANGED <<node, root>>
        /\ stack' = IF root = None THEN <<>> ELSE Enter(root)
    BY <1>2 DEF WithdrawCall
  <2>2. CASE root = None
    BY <2>1, <2>2 DEF AskInv
  <2>3. CASE root # None
    <3>1. stack' # <<>> /\ Top'.at = root
      <4>1. stack' = <<[at |-> root, slot |-> 0]>>
        BY <2>1, <2>3 DEF Enter
      <4>2. Len(stack') = 1 /\ stack'[1] = [at |-> root, slot |-> 0]
        BY <4>1
      <4> QED
        BY <4>2 DEF Top
    <3>2. \A i \in Live : Covers(node[root].prefix, node[i].prefix)
      BY <1>1, <2>1, <2>3, AtRest DEF Shape, EntryAbove
    <3>3. Live' = Live /\ Here' = node[root]
      BY <2>1, <3>1 DEF Live, Here
    <3> QED
      BY <2>1, <3>1, <3>2, <3>3 DEF AskInv
  <2> QED
    BY <2>2, <2>3
<1>3. CASE WithdrawDescend
  <2> DEFINE b == Toward
             child == Here.children[b]
             n == Len(stack)
  <2>1. /\ pc = "withdraw" /\ pc' = "withdraw" /\ stack # <<>>
        /\ UNCHANGED <<node, root, key>>
        /\ stack' = Append(Pop, [Top EXCEPT !.slot = b]) \o Enter(child)
        /\ Below /\ child # None
    BY <1>3 DEF WithdrawDescend, Calling
  <2>2. /\ Top.at \in Live /\ Here = node[Top.at] /\ Here \in Node
        /\ b \in Bit /\ StrictlyCovers(Here.prefix, key) /\ n \in Nat \ {0}
    BY <1>1, <2>1, Running, KeyPosition DEF Here
  <2>3. child \in Idx
    BY <2>1, <2>2 DEF Node
  <2>4. stack' # <<>> /\ Len(stack') = n + 1 /\ stack'[n + 1].at = child
    BY <1>1, <2>1, <2>2, <2>3, Pushed
  <2>5. Here' = node[child] /\ Live' = Live
    BY <2>1, <2>4 DEF Here, Top, Live
  <2>6. ASSUME NEW i \in Live, node[i].prefix = key
        PROVE  Covers(node[child].prefix, key)
    BY <1>1, <2>1, <2>2, <2>6, BelowChild DEF Toward
  <2> QED
    BY <2>1, <2>4, <2>5, <2>6 DEF AskInv
<1>4. ASSUME Forget
      PROVE  AskInv'
  BY <1>4 DEF Forget, AskInv
<1>5. ASSUME pc' \in {"insert", "inserted", "withdrawn", "poisoned"}
      PROVE  AskInv'
  BY <1>5 DEF AskInv
<1>6. ASSUME pc \in {"idle", "sweep"}, pc' \in {"sweep", "swept"}, key' = key
      PROVE  AskInv'
  BY <1>6 DEF AskInv
<1>7. CASE Call
  BY <1>2, <1>5, <1>6, <1>7 DEF Call, InsertCall, SweepCall
<1>8. CASE \/ InsertFirst \/ InsertReannounce \/ InsertDescend \/ InsertGraft
           \/ InsertSplice \/ InsertSplit \/ InsertFull \/ InsertSplitFull
           \/ InsertUnwind \/ WithdrawHit \/ WithdrawMiss \/ WithdrawUnwind
  <2>1. pc' \in {"insert", "inserted", "withdrawn", "poisoned"}
    BY <1>8 DEF InsertFirst, InsertReannounce, InsertDescend, InsertGraft, InsertSplice,
       InsertSplit, InsertFull, InsertSplitFull, InsertUnwind, WithdrawHit, WithdrawMiss,
       WithdrawUnwind, Return, Calling
  <2> QED
    BY <1>5, <2>1
<1>9. CASE InsertReturn \/ WithdrawReturn \/ SweepReturn
  BY <1>4, <1>9 DEF InsertReturn, WithdrawReturn, SweepReturn
<1>10. CASE SweepVisit \/ SweepKeep \/ SweepCollapse \/ SweepDone
  <2>1. pc = "sweep" /\ pc' \in {"sweep", "swept"} /\ key' = key
    BY <1>10 DEF SweepVisit, SweepKeep, SweepCollapse, SweepDone, Calling
  <2> QED
    BY <1>6, <2>1
<1>11. CASE UNCHANGED vars
  BY <1>11 DEF vars, AskInv, Here, Top, Live
<1> QED
  BY <1>3, <1>7, <1>8, <1>9, <1>10, <1>11 DEF Next, Step

\* No call is made of a poisoned trie, and only a full slab poisons it.
LEMMA PanicEnds ==
  ASSUME [Next]_vars, pc = "poisoned"
  PROVE  UNCHANGED vars
BY DEF Next, Call, InsertCall, WithdrawCall, SweepCall, Step, Calling,
   InsertFirst, InsertReannounce, InsertDescend, InsertGraft, InsertSplice,
   InsertSplit, InsertFull, InsertSplitFull, InsertUnwind, InsertReturn,
   WithdrawDescend, WithdrawHit, WithdrawMiss, WithdrawUnwind, WithdrawReturn,
   SweepVisit, SweepKeep, SweepCollapse, SweepDone, SweepReturn

LEMMA OnlyFullPanics ==
  ASSUME [Next]_vars, pc # "poisoned", ~(InsertFull \/ InsertSplitFull)
  PROVE  pc' # "poisoned"
BY DEF Next, Call, InsertCall, WithdrawCall, SweepCall, Step, Calling, Return,
   InsertFirst, InsertReannounce, InsertDescend, InsertGraft, InsertSplice,
   InsertSplit, InsertUnwind, InsertReturn,
   WithdrawDescend, WithdrawHit, WithdrawMiss, WithdrawUnwind, WithdrawReturn,
   SweepVisit, SweepKeep, SweepCollapse, SweepDone, SweepReturn, Forget, vars

\* Every step of the trie is a step of the map, or none.
LEMMA StepOfMap ==
  TrieInv /\ TrieInv' /\ AskInv /\ [Next]_vars => [Map!MapNext]_(Map!mapVars)
<1> SUFFICES ASSUME TrieInv, TrieInv', AskInv, [Next]_vars
             PROVE  Map!MapNext \/ UNCHANGED Map!mapVars
  OBVIOUS
<1>1. CASE pc = "poisoned"
  <2>1. UNCHANGED vars
    BY <1>1, PanicEnds
  <2> QED
    BY <2>1 DEF vars, Map!mapVars, Routes, Attached, Entry, Kid, Calling, Top, Live, Phase
<1>2. CASE pc # "poisoned"
  <2>1. Sound
    BY <1>2 DEF Sound
  <2>2. CASE InsertFull \/ InsertSplitFull
    BY <2>1, <2>2, InsertPanics DEF Map!MapNext
  <2>3. CASE ~(InsertFull \/ InsertSplitFull)
    <3>1. Sound'
      BY <1>2, <2>3, OnlyFullPanics DEF Sound
    <3>2. CASE Call
      BY <2>1, <3>1, <3>2, CallAsked
    <3>3. CASE InsertFirst \/ InsertReannounce \/ InsertGraft \/ InsertSplice \/ InsertSplit
      BY <2>1, <3>1, <3>3, InsertServed DEF Map!MapNext
    <3>4. CASE WithdrawHit \/ WithdrawMiss
      BY <2>1, <3>1, <3>4, WithdrawHits, WithdrawMisses DEF Map!MapNext
    <3>5. CASE SweepDone
      <4>1. pc = "sweep" /\ pc' = "swept" /\ UNCHANGED <<node, key, ret>>
        BY <3>5 DEF SweepDone
      <4>2. Held' = Held
        BY <4>1 DEF Held, Announced, Live
      <4>3. Routes' = Routes
        BY <2>1, <3>1, <4>2, RoutesHeld, RoutesHeldNext DEF RoutesAreHeld
      <4> QED
        BY <4>1, <4>3 DEF Map!MapNext, Map!Sweep, Phase
    <3>6. CASE InsertReturn \/ WithdrawReturn \/ SweepReturn
      <4>1. pc \in {"inserted", "withdrawn", "swept"} /\ Forget /\ node' = node
        BY <3>6 DEF InsertReturn, WithdrawReturn, SweepReturn
      <4> QED
        BY <2>1, <3>1, <4>1, Replied DEF Map!MapNext
    <3>7. CASE \/ InsertDescend \/ WithdrawDescend \/ InsertUnwind \/ WithdrawUnwind
               \/ SweepVisit \/ SweepKeep \/ SweepCollapse \/ UNCHANGED vars
      BY <2>1, <3>1, <3>7, StepUnseen
    <3> QED
      BY <2>3, <3>2, <3>3, <3>4, <3>5, <3>6, <3>7 DEF Next, Step
  <2> QED
    BY <2>2, <2>3
<1> QED
  BY <1>1, <1>2

LEMMA StartOfMap == Init => Map!MapInit
<1> SUFFICES ASSUME Init
             PROVE  Map!MapInit
  OBVIOUS
<1>1. Live = {} /\ pc = "idle" /\ key = <<>> /\ ret.found = FALSE
  BY DEF Init, Live, Pending
<1>2. Routes = {}
  BY <1>1 DEF Routes
<1> QED
  BY <1>1, <1>2 DEF Map!MapInit, Phase

\* The trie implements a set of announced prefixes: through every restructuring,
\* each call of insert and withdraw takes effect on its own prefix, once, and
\* answers what it should, and sweep_tombstones changes no route.
THEOREM TrieIsRouteMap == Spec => ImplementsRouteMap
<1>1. AskInv /\ UNCHANGED vars => AskInv'
  BY DEF vars, AskInv, Here, Top, Live
<1>2. TrieInv /\ AskInv /\ [Next]_vars => AskInv'
  <2> SUFFICES ASSUME TrieInv, AskInv, [Next]_vars
               PROVE  AskInv'
    OBVIOUS
  <2>1. CASE pc = "poisoned"
    BY <1>1, <2>1, PanicEnds
  <2>2. CASE pc # "poisoned"
    BY <2>2, AskKept DEF Sound
  <2> QED
    BY <2>1, <2>2
<1>3. Spec => []AskInv
  BY <1>2, InitAsk, TrieInvariant, PTL DEF Spec
<1>4. Spec => Map!MapSpec
  BY <1>3, StartOfMap, StepOfMap, TrieInvariant, PTL DEF Spec, Map!MapSpec
<1> QED
  BY <1>4 DEF ImplementsRouteMap

-----------------------------------------------------------------------------
(***************************************************************************)
(* A sweep leaves nothing to reclaim.  While it runs, a node it may still  *)
(* have to reclaim is suspended, or lies on a side of a suspended node     *)
(* that its frame has yet to visit; the frames that wait for the one above *)
(* them to return have begun with the side they are in.                    *)
(***************************************************************************)

Side(i, j) == BitAt(node[j].prefix, Len(node[i].prefix))

\* The frame k of the stack has the node j ahead of it.
AheadOf(k, j) ==
  /\ StrictlyCovers(node[stack[k].at].prefix, node[j].prefix)
  /\ \/ Side(stack[k].at, j) > stack[k].slot
     \/ k = Len(stack) /\ Side(stack[k].at, j) = stack[k].slot

Unswept(j) == \E k \in 1 .. Len(stack) : stack[k].at = j \/ AheadOf(k, j)

SweepInv ==
  pc \in {"sweep", "swept"} => \A j \in Live : Redundant(node[j]) => Unswept(j)

\* The root has every node ahead of it.
LEMMA SweepBegins ==
  ASSUME TrieInv, SweepCall
  PROVE  SweepInv'
<1>1. /\ pc = "idle" /\ UNCHANGED <<node, root>> /\ Live' = Live
      /\ stack' = IF root = None THEN <<>> ELSE Enter(root)
  BY DEF SweepCall, Live
<1>2. CASE root = None
  BY <1>1, <1>2, AtRest DEF SweepInv, Shape, EntryAbove
<1>3. CASE root # None
  <2>1. Len(stack') = 1 /\ stack'[1].at = root /\ stack'[1].slot = 0
    <3>1. stack' = <<[at |-> root, slot |-> 0]>>
      BY <1>1, <1>3 DEF Enter
    <3> QED
      BY <3>1
  <2>2. root \in Live /\ \A j \in Live : Covers(node[root].prefix, node[j].prefix)
    BY <1>1, <1>3, AtRest DEF Shape, EntryAbove
  <2>3. ASSUME NEW j \in Live, j # root
        PROVE  AheadOf(1, j)'
    <3>1. node[root].prefix # node[j].prefix
      BY <1>1, <2>2, <2>3, AtRest DEF Shape, NoTwins
    <3>2. StrictlyCovers(node[root].prefix, node[j].prefix)
      BY <2>2, <3>1 DEF StrictlyCovers
    <3>3. Side(root, j) \in Bit
      BY <1>1, <2>2, <3>2, BelowChild DEF Side
    <3>4. Side(root, j) > 0 \/ Side(root, j) = 0
      BY <3>3 DEF Bit
    <3> QED
      BY <1>1, <2>1, <3>2, <3>4 DEF AheadOf, Side
  <2>4. 1 \in 1 .. Len(stack')
    BY <2>1
  <2> QED
    BY <1>1, <2>1, <2>3, <2>4 DEF SweepInv, Unswept
<1> QED
  BY <1>2, <1>3

\* A frame for the child in the running frame's slot.
LEMMA Entered ==
  ASSUME TrieInv, SweepVisit, Here.children[Top.slot] # None
  PROVE  LET n == Len(stack)
             b == Top.slot
             child == Here.children[b]
         IN  /\ pc = "sweep" /\ stack # <<>>
             /\ node' = node /\ Live' = Live
             /\ b \in Bit /\ n \in Nat \ {0}
             /\ Top = stack[n] /\ Top.at \in Live /\ Here = node[Top.at]
             /\ Len(stack') = n + 1
             /\ stack'[n + 1].at = child /\ stack'[n + 1].slot = 0
             /\ \A k \in 1 .. n : stack'[k] = stack[k]
<1> DEFINE n == Len(stack)
           b == Top.slot
           child == Here.children[b]
<1>1. /\ pc = "sweep" /\ stack # <<>> /\ b < 2
      /\ stack' = stack \o Enter(child)
      /\ node' = node /\ Live' = Live
  BY DEF SweepVisit, Calling, Live
<1>2. /\ b \in Bit /\ n \in Nat \ {0}
      /\ Top = stack[n] /\ Top.at \in Live /\ Here = node[Top.at]
  <2>1. pc = "sweep" /\ stack # <<>> /\ b < 2
    BY <1>1
  <2> QED
    BY <2>1, Running DEF Frame, Bit, Top, Here
<1>3. child \in Idx
  <2>1. Here \in Node
    BY <1>1, Running
  <2> QED
    BY <1>2, <2>1 DEF Node
<1>4. /\ Len(stack') = n + 1
      /\ stack'[n + 1].at = child /\ stack'[n + 1].slot = 0
      /\ \A k \in 1 .. n : stack'[k] = stack[k]
  <2> DEFINE g == [at |-> child, slot |-> 0]
             a == Append(stack, g)
  <2>1. g \in Frame /\ g.at = child /\ g.slot = 0
    BY <1>3 DEF Frame
  <2>2. stack' = stack \o <<g>> /\ stack \in Seq(Frame)
    BY <1>1 DEF Enter, TrieInv, TypeOK
  <2> HIDE DEF g
  <2>3. /\ Len(a) = n + 1 /\ a[n + 1] = g
        /\ \A k \in 1 .. n : a[k] = stack[k]
        /\ stack' = a
    BY <2>1, <2>2, AppendProperties2
  <2> HIDE DEF a
  <2> QED
    BY <2>1, <2>3
<1> QED
  BY <1>1, <1>2, <1>4

\* Into a child: what was ahead on its side is that child or ahead of it.
LEMMA SweepEnters ==
  ASSUME TrieInv, SweepInv, SweepVisit, Here.children[Top.slot] # None
  PROVE  SweepInv'
<1> DEFINE n == Len(stack)
           b == Top.slot
           child == Here.children[b]
<1>1. pc = "sweep" /\ stack # <<>> /\ node' = node /\ Live' = Live
  BY Entered
<1>2. /\ b \in Bit /\ n \in Nat \ {0}
      /\ Top = stack[n] /\ Top.at \in Live /\ Here = node[Top.at]
  BY Entered
<1>3. /\ Len(stack') = n + 1
      /\ stack'[n + 1].at = child /\ stack'[n + 1].slot = 0
      /\ \A k \in 1 .. n : stack'[k] = stack[k]
  BY Entered
<1> HIDE DEF child, b, n
<1>4. ASSUME NEW j \in Live, Redundant(node[j])
      PROVE  Unswept(j)'
  <2>1. PICK k \in 1 .. n : stack[k].at = j \/ AheadOf(k, j)
    BY <1>1, <1>4 DEF SweepInv, Unswept, n
  <2>2. k \in 1 .. Len(stack') /\ stack'[k] = stack[k]
    BY <1>2, <1>3
  <2> PICK m \in 1 .. Len(stack') : m = n + 1
    BY <1>2, <1>3
  <2>3. CASE stack[k].at = j
    BY <2>2, <2>3 DEF Unswept
  <2>4. CASE AheadOf(k, j) /\ Side(stack[k].at, j) > stack[k].slot
    BY <1>1, <2>2, <2>4 DEF Unswept, AheadOf, Side
  <2>5. CASE AheadOf(k, j) /\ k = n /\ Side(stack[k].at, j) = stack[k].slot
    <3>1. /\ StrictlyCovers(node[Top.at].prefix, node[j].prefix)
          /\ BitAt(node[j].prefix, Len(node[Top.at].prefix)) = b
      BY <1>2, <2>5 DEF AheadOf, Side, b
    <3>2. child \in Live /\ Covers(node[child].prefix, node[j].prefix)
      BY <1>1, <1>2, <3>1, BelowChild DEF child
    <3>3. CASE j = child
      BY <1>3, <3>3 DEF Unswept
    <3>4. CASE j # child
      <4>1. StrictlyCovers(node[child].prefix, node[j].prefix)
        BY <1>1, <3>2, <3>4, AtRest DEF Shape, NoTwins, StrictlyCovers
      <4>2. Side(child, j) \in Bit
        BY <1>1, <3>2, <4>1, BelowChild DEF Side
      <4>3. Side(child, j) > 0 \/ Side(child, j) = 0
        BY <4>2 DEF Bit
      <4>4. AheadOf(m, j)'
        BY <1>1, <1>3, <4>1, <4>3 DEF AheadOf, Side
      <4> QED
        BY <4>4 DEF Unswept
    <3> QED
      BY <3>3, <3>4
  <2> QED
    BY <2>1, <2>3, <2>4, <2>5 DEF AheadOf, n
<1> QED
  BY <1>1, <1>4 DEF SweepInv

\* Past an empty slot, on whose side no node lies.
LEMMA SweepPasses ==
  ASSUME TrieInv, SweepInv, SweepVisit, Here.children[Top.slot] = None
  PROVE  SweepInv'
<1> DEFINE n == Len(stack)
           b == Top.slot
<1>1. /\ pc = "sweep" /\ stack # <<>> /\ b < 2
      /\ stack' = Append(Pop, [Top EXCEPT !.slot = @ + 1])
      /\ node' = node /\ Live' = Live
  BY DEF SweepVisit, Calling, Live
<1>2. /\ b \in Bit /\ n \in Nat \ {0}
      /\ Top = stack[n] /\ Top.at \in Live /\ Here = node[Top.at]
  BY <1>1, Running DEF Frame, Bit, Top, Here
<1>3. /\ Len(stack') = n
      /\ \A k \in 1 .. n : stack'[k].at = stack[k].at
      /\ \A k \in 1 .. n - 1 : stack'[k] = stack[k]
      /\ stack'[n].slot = b + 1
  BY <1>1, Advanced
<1>4. ASSUME NEW j \in Live, Redundant(node[j])
      PROVE  Unswept(j)'
  <2>1. PICK k \in 1 .. n : stack[k].at = j \/ AheadOf(k, j)
    BY <1>1, <1>4 DEF SweepInv, Unswept
  <2>2. k \in 1 .. Len(stack') /\ stack'[k].at = stack[k].at
    BY <1>3
  <2>3. CASE stack[k].at = j
    BY <2>2, <2>3 DEF Unswept
  <2>4. CASE AheadOf(k, j)
    <3>1. StrictlyCovers(node[stack[k].at].prefix, node[j].prefix)
      BY <2>4 DEF AheadOf
    <3>2. CASE k = n
      <4>1. /\ Side(Top.at, j) \in Bit
            /\ Here.children[Side(Top.at, j)] \in Live
        BY <1>1, <1>2, <3>1, <3>2, BelowChild DEF Side
      <4>2. Side(Top.at, j) # b
        BY <4>1, TreeAssumption DEF TrieInv, TypeOK
      <4>3. Side(Top.at, j) > b
        BY <1>2, <2>4, <3>2, <4>2 DEF AheadOf
      <4>4. Side(Top.at, j) > b + 1 \/ Side(Top.at, j) = b + 1
        BY <1>2, <4>1, <4>3 DEF Bit
      <4>5. AheadOf(k, j)'
        BY <1>1, <1>2, <1>3, <2>2, <3>1, <3>2, <4>4 DEF AheadOf, Side
      <4> QED
        BY <2>2, <4>5 DEF Unswept
    <3>3. CASE k # n
      <4>1. stack'[k] = stack[k]
        BY <1>2, <1>3, <3>3
      <4>2. AheadOf(k, j)'
        BY <1>1, <1>3, <2>4, <3>3, <4>1 DEF AheadOf, Side
      <4> QED
        BY <2>2, <4>2 DEF Unswept
    <3> QED
      BY <3>2, <3>3
  <2> QED
    BY <2>1, <2>3, <2>4
<1> QED
  BY <1>1, <1>4 DEF SweepInv

\* The running frame has visited both sides and leaves; all it had under it is done.
LEMMA SweepLeaves ==
  ASSUME TrieInv, SweepInv, pc = "sweep", pc' = "sweep", stack # <<>>, Top.slot = 2, SweepUp,
         Live' \subseteq Live,
         \A j \in Live' :
           /\ node'[j].prefix = node[j].prefix
           /\ Redundant(node'[j]) =>
                \/ Redundant(node[j]) /\ j # Top.at
                \/ \E k \in 1 .. Len(stack) - 1 : stack[k].at = j,
         \A k \in 1 .. Len(stack) - 1 : stack[k].at \in Live'
  PROVE  SweepInv'
<1> DEFINE n == Len(stack)
<1>1. n \in Nat \ {0} /\ Top = stack[n] /\ Top.at \in Live
  BY Running DEF Top
<1>2. /\ Len(stack') = n - 1
      /\ \A k \in 1 .. Len(stack') : stack'[k].at = stack[k].at
      /\ \A k \in 1 .. Len(stack') - 1 : stack'[k] = stack[k]
      /\ stack' # <<>> => stack'[n - 1].slot = stack[n - 1].slot + 1
  BY WentUp
<1> HIDE DEF n
<1>3. ASSUME NEW j \in Live', Redundant(node'[j])
      PROVE  Unswept(j)'
  <2>1. CASE \E k \in 1 .. n - 1 : stack[k].at = j
    BY <1>2, <2>1 DEF Unswept
  <2>2. CASE Redundant(node[j]) /\ j # Top.at
    <3>1. PICK k \in 1 .. n : stack[k].at = j \/ AheadOf(k, j)
      BY <2>2 DEF SweepInv, Unswept, n
    <3>2. CASE stack[k].at = j
      <4>1. k \in 1 .. n - 1
        BY <1>1, <2>2, <3>2
      <4> QED
        BY <2>1, <3>2, <4>1
    <3>3. CASE AheadOf(k, j)
      <4>1. /\ StrictlyCovers(node[stack[k].at].prefix, node[j].prefix)
            /\ Side(stack[k].at, j) >= stack[k].slot
            /\ stack[k].at \in Live
            /\ stack[k] \in Frame
        <5>1. stack[k].at \in Live /\ stack[k] \in Frame
          BY DEF TrieInv, PathOK, TypeOK, n
        <5>2. StrictlyCovers(node[stack[k].at].prefix, node[j].prefix)
          BY <3>3 DEF AheadOf
        <5>3. Side(stack[k].at, j) \in Bit
          BY <5>1, <5>2, BelowChild DEF Side
        <5> QED
          BY <3>3, <5>1, <5>2, <5>3 DEF AheadOf, Frame, Bit
      <4>2. Side(stack[k].at, j) \in Bit
        BY <4>1, BelowChild DEF Side
      <4>3. k # n
        BY <1>1, <4>1, <4>2 DEF Bit
      <4>4. /\ k \in 1 .. n - 1 /\ stack' # <<>>
            /\ Side(stack[k].at, j) > stack[k].slot
            /\ stack[k].slot \in 0 .. 2
        BY <1>1, <1>2, <3>3, <4>1, <4>3 DEF AheadOf, Frame, n
      <4>5. /\ stack'[k].at = stack[k].at /\ stack[k].at \in Live'
            /\ node'[stack[k].at].prefix = node[stack[k].at].prefix
            /\ node'[j].prefix = node[j].prefix
        BY <1>2, <4>4 DEF n
      <4>6. AheadOf(k, j)'
        <5>1. CASE k = n - 1
          <6>1. \/ Side(stack[k].at, j) > stack[k].slot + 1
                \/ Side(stack[k].at, j) = stack[k].slot + 1
            BY <4>2, <4>4 DEF Bit
          <6> QED
            BY <1>2, <4>1, <4>4, <4>5, <5>1, <6>1 DEF AheadOf, Side
        <5>2. CASE k # n - 1
          <6>1. stack'[k] = stack[k]
            BY <1>1, <1>2, <4>4, <5>2
          <6> QED
            BY <4>1, <4>4, <4>5, <6>1 DEF AheadOf, Side
        <5> QED
          BY <5>1, <5>2
      <4> QED
        BY <1>2, <4>4, <4>6 DEF Unswept
    <3> QED
      BY <3>1, <3>2, <3>3
  <2> QED
    BY <1>3, <2>1, <2>2 DEF n
<1> QED
  BY <1>3 DEF SweepInv

LEMMA SweepKept == TrieInv /\ SweepInv /\ [Next]_vars => SweepInv'
<1> SUFFICES ASSUME TrieInv, SweepInv, [Next]_vars
             PROVE  SweepInv'
  OBVIOUS
<1>1. CASE SweepCall
  BY <1>1, SweepBegins
<1>2. CASE SweepVisit
  BY <1>2, SweepEnters, SweepPasses
<1>3. CASE SweepKeep
  <2>1. /\ pc = "sweep" /\ pc' = "sweep" /\ stack # <<>> /\ Top.slot = 2 /\ SweepUp
        /\ ~Redundant(node[Top.at])
        /\ node' = node /\ Live' = Live
    BY <1>3 DEF SweepKeep, Calling, Here, Live
  <2>2. \A k \in 1 .. Len(stack) - 1 : stack[k].at \in Live
    BY <2>1, LowerFrames
  <2> QED
    BY <2>1, <2>2, SweepLeaves
<1>4. CASE SweepCollapse
  <2> DEFINE t == Top.at
             child == OnlyChild(Here)
             n == Len(stack)
  <2>1. /\ pc = "sweep" /\ pc' = "sweep" /\ stack # <<>> /\ Top.slot = 2 /\ SweepUp
    BY <1>4 DEF SweepCollapse, Calling
  <2>2. /\ t \in Live /\ t # None /\ n \in Nat \ {0} /\ Top = stack[n]
        /\ Entry = root /\ KidMap = [i \in Live |-> node[i].children]
    BY <2>1, Running, Settled, TreeAssumption DEF Top, TrieInv
  <2>3. /\ Live' = Live \ {t}
        /\ \A i \in Live' :
             /\ node'[i].prefix = node[i].prefix
             /\ node'[i].announced = node[i].announced
             /\ \A c \in Bit : node'[i].children[c] =
                  IF node[i].children[c] = t THEN child ELSE node[i].children[c]
    BY <1>4, Reclaimed
  <2> HIDE DEF t, child, n
  <2>4. \A k \in 1 .. n - 1 : stack[k].at \in Live /\ stack[k].at # t
    BY <2>1, LowerFrames DEF n, t
  <2>5. ASSUME NEW i \in Live', NEW c \in Bit, node[i].children[c] = t
        PROVE  \E k \in 1 .. n - 1 : stack[k].at = i
    <3>1. /\ root # t
          /\ \A x \in Live, d \in Bit : node[x].children[d] = t => x = i /\ d = c
      <4>1. i \in Live /\ KidMap[i][c] = t /\ Shape(Live, Pfx, KidMap, root)
        BY <2>1, <2>2, <2>3, <2>5 DEF TrieInv, ShapeOK
      <4>2. root # t /\ \A x \in Live, d \in Bit : KidMap[x][d] = t => x = i /\ d = c
        BY <2>2, <4>1, OneParent
      <4> QED
        BY <2>2, <4>2
    <3>2. n # 1
      BY <2>1, <2>2, <3>1 DEF TrieInv, PathOK, t
    <3>3. n - 1 \in 1 .. n - 1 /\ n - 1 + 1 = n
      BY <2>2, <3>2
    <3>4. /\ stack[n - 1].at \in Live
          /\ stack[n - 1].slot \in Bit
          /\ node[stack[n - 1].at].children[stack[n - 1].slot] = t
      BY <2>1, <2>2, <3>3, LowerFrames DEF TrieInv, PathOK, n, t
    <3> QED
      BY <3>1, <3>3, <3>4
  <2>6. ASSUME NEW j \in Live', Redundant(node'[j])
        PROVE  \/ Redundant(node[j]) /\ j # t
               \/ \E k \in 1 .. n - 1 : stack[k].at = j
    BY <2>3, <2>5, <2>6 DEF Redundant
  <2> QED
    BY <2>1, <2>3, <2>4, <2>6, SweepLeaves DEF t, n
<1>5. CASE SweepDone
  BY <1>5 DEF SweepDone, SweepInv, Unswept, AheadOf, Side, Live
<1>6. CASE UNCHANGED vars
  BY <1>6 DEF vars, SweepInv, Unswept, AheadOf, Side, Live
<1>7. CASE ~(SweepCall \/ SweepVisit \/ SweepKeep \/ SweepCollapse \/ SweepDone \/ UNCHANGED vars)
  <2>1. pc' \notin {"sweep", "swept"}
    BY <1>7 DEF Next, Call, InsertCall, WithdrawCall, Step, Calling, Return, Forget,
       InsertFirst, InsertReannounce, InsertDescend, InsertGraft, InsertSplice,
       InsertSplit, InsertFull, InsertSplitFull, InsertUnwind, InsertReturn,
       WithdrawDescend, WithdrawHit, WithdrawMiss, WithdrawUnwind, WithdrawReturn,
       SweepReturn
  <2> QED
    BY <2>1 DEF SweepInv
<1> QED
  BY <1>1, <1>2, <1>3, <1>4, <1>5, <1>6, <1>7

\* One pass of sweep_tombstones leaves nothing to reclaim, also where a fork became
\* redundant only because the pass collapsed a node below it.
THEOREM SweepIsThorough == Spec => []SweptClean
<1>1. Init => SweepInv
  BY DEF Init, SweepInv
<1>2. TrieInv /\ SweepInv => SweptClean
  <2> SUFFICES ASSUME TrieInv, SweepInv, pc = "swept"
               PROVE  \A i \in Live : ~Redundant(node[i])
    BY DEF SweptClean
  <2>1. stack = <<>>
    BY DEF TrieInv, DescentOK
  <2> QED
    BY <2>1 DEF SweepInv, Unswept
<1> QED
  BY <1>1, <1>2, SweepKept, TrieInvariant, PTL DEF Spec

-----------------------------------------------------------------------------
\* What a sweep leaves takes room in proportion to the routes.

SweptSmall ==
  pc = "swept" =>
    IF announcedCount = 0 THEN Live = {}
    ELSE Cardinality(Live) <= 2 * announcedCount - 1

\* Each node that is a fork and not a route has two children, no node is the child
\* of two, and the root is the child of none.
LEMMA FewForks ==
  ASSUME TrieInv, pc = "swept", SweptClean, Live # {}
  PROVE  /\ root \in Live
         /\ 2 * Cardinality(Live \ Announced) <= Cardinality(Live \ {root})
<1> DEFINE Forks == Live \ Announced
           kidOf == [x \in Forks \X Bit |-> KidMap[x[1]][x[2]]]
<1>1. TypeOK /\ ShapeOK
  BY DEF TrieInv
<1>2. Entry = root /\ \A i \in Live : KidMap[i] = node[i].children
  BY <1>1, Settled
<1>3. Shape(Live, Pfx, KidMap, root)
  BY <1>1, <1>2 DEF ShapeOK
<1>4. root \in Live
  BY <1>3 DEF Shape, EntryAbove
<1>5. ASSUME NEW i \in Forks, NEW b \in Bit
      PROVE  /\ KidMap[i][b] # None
             /\ KidMap[i][b] \in Live \ {root}
  <2>1. KidMap[i][b] # None
    BY <1>2 DEF SweptClean, Redundant, Announced
  <2>2. KidMap[i][b] \in Live
    BY <1>3, <2>1 DEF Shape, EdgesDown
  <2> QED
    BY <1>3, <2>1, <2>2, OneParent
<1>6. kidOf \in Injection(Forks \X Bit, Live \ {root})
  <2>1. kidOf \in [Forks \X Bit -> Live \ {root}]
    BY <1>5
  <2>2. ASSUME NEW x \in Forks \X Bit, NEW y \in Forks \X Bit, kidOf[x] = kidOf[y]
        PROVE  x = y
    <3>1. PICK i \in Forks, b \in Bit : x = <<i, b>>
      OBVIOUS
    <3>2. PICK j \in Forks, c \in Bit : y = <<j, c>>
      OBVIOUS
    <3>3. KidMap[i][b] = KidMap[j][c] /\ KidMap[i][b] # None
      BY <1>5, <2>2, <3>1, <3>2
    <3>4. i \in Live /\ j \in Live
      OBVIOUS
    <3>5. j = i /\ c = b
      BY <1>3, <3>3, <3>4, OneParent
    <3> QED
      BY <3>1, <3>2, <3>5
  <2> QED
    BY <2>1, <2>2 DEF Injection, IsInjective
<1>7. IsFiniteSet(Forks) /\ IsFiniteSet(Live \ {root})
  BY <1>1, FiniteLive, FS_Difference
<1>8. IsFiniteSet(Bit) /\ Cardinality(Bit) = 2
  <2>1. Bit = {0} \cup {1}
    BY DEF Bit
  <2>2. IsFiniteSet({0}) /\ Cardinality({0}) = 1
    BY FS_Singleton, Zenon
  <2>3. /\ IsFiniteSet({0} \cup {1})
        /\ Cardinality({0} \cup {1}) =
             IF 1 \in {0} THEN Cardinality({0}) ELSE Cardinality({0}) + 1
    BY ONLY <2>2, FS_AddElement
  <2> QED
    BY <2>1, <2>2, <2>3
<1> HIDE DEF Forks, kidOf
<1>9. Cardinality(Forks \X Bit) = 2 * Cardinality(Forks)
  <2>1. Cardinality(Forks \X Bit) = Cardinality(Forks) * 2
    BY <1>7, <1>8, FS_Product
  <2> QED
    BY <1>7, <2>1, FS_CardinalityType
<1>10. Cardinality(Forks \X Bit) <= Cardinality(Live \ {root})
  BY <1>6, <1>7, FS_Injection
<1> QED
  BY <1>4, <1>9, <1>10 DEF Forks

\* After sweep_tombstones the slab holds less than two nodes for each announced
\* route, however many routes came and went before: node_count, against
\* announced_count, is bounded by the routes of now and not by their history.
THEOREM SweepBoundsSlab == Spec => []SweptSmall
<1>1. TrieInv /\ SweptClean => SweptSmall
  <2> SUFFICES ASSUME TrieInv, SweptClean, pc = "swept", Live # {}
               PROVE  announcedCount # 0 /\ Cardinality(Live) <= 2 * announcedCount - 1
    <3>1. TrieInv => announcedCount = Cardinality(Announced)
      BY DEF TrieInv, CountExact, Announced
    <3>2. Live = {} => Announced = {}
      BY DEF Announced
    <3>3. Cardinality({}) = 0
      BY FS_EmptySet
    <3> QED
      BY <3>1, <3>2, <3>3 DEF SweptSmall
  <2>1. IsFiniteSet(Live) /\ IsFiniteSet(Announced) /\ IsFiniteSet(Live \ Announced)
    BY FiniteLive, FS_Difference DEF TrieInv
  <2>2. /\ Cardinality(Live) \in Nat
        /\ Cardinality(Announced) \in Nat
        /\ Cardinality(Live \ Announced) \in Nat
    BY <2>1, FS_CardinalityType
  <2>3. announcedCount = Cardinality(Announced)
    BY DEF TrieInv, CountExact, Announced
  <2>4. Cardinality(Live \ {root}) = Cardinality(Live) - 1
    BY <2>1, FewForks, FS_RemoveElement
  <2>5. Cardinality(Live \ Announced) = Cardinality(Live) - Cardinality(Announced)
    <3>1. Live \cap Announced = Announced
      BY DEF Announced
    <3> QED
      BY <2>1, <3>1, FS_Difference
  <2>6. 2 * Cardinality(Live \ Announced) <= Cardinality(Live \ {root})
    BY FewForks
  <2> QED
    BY <2>2, <2>3, <2>4, <2>5, <2>6
<1> QED
  BY <1>1, SweepIsThorough, TrieInvariant, PTL

-----------------------------------------------------------------------------
(***************************************************************************)
(* How long calls take.  The recursion is no deeper than an address has    *)
(* bits, and one node.  Every step of a call shortens what is left of it:  *)
(* of insert and withdraw, the way down and back up; of a sweep, what it   *)
(* still has to do at each node, which is to enter it (3), to see to the   *)
(* sides 0 and 1, and to leave it (2).                                     *)
(***************************************************************************)

DepthBounded == pc # "poisoned" => Len(stack) \in 0 .. MaxLen + 1

OnStack(i) == \E k \in 1 .. Len(stack) : stack[k].at = i

Todo ==
  {w \in Live \X (0 .. 3) :
     \E k \in 1 .. Len(stack) :
       \/ stack[k].at = w[1] /\ w[2] \in stack[k].slot .. 2
       \/ AheadOf(k, w[1]) /\ ~OnStack(w[1])}

StepsLeft ==
  CASE pc \in {"insert", "withdraw"}     -> 2 * MaxLen + 4 - Len(stack)
    [] pc \in {"inserted", "withdrawn"} -> Len(stack) + 1
    [] pc = "sweep"                     -> Cardinality(Todo) + 2
    [] pc = "swept"                     -> 1
    [] OTHER                            -> 0

WorkBounded ==
  StepsLeft \in 0 .. (IF pc = "sweep" THEN 4 * Cardinality(Live) + 2 ELSE 2 * MaxLen + 4)

Shortened == StepsLeft \in Nat /\ StepsLeft' \in Nat /\ StepsLeft' < StepsLeft

\* The prefixes on the stack have different lengths.
LEMMA Depth == TrieInv => DepthBounded
<1> SUFFICES ASSUME TrieInv, pc # "poisoned"
             PROVE  Len(stack) \in 0 .. MaxLen + 1
  BY DEF DepthBounded
<1> DEFINE n == Len(stack)
           f == [k \in 1 .. n |-> Len(node[stack[k].at].prefix)]
<1>1. n \in Nat /\ MaxLen \in Nat
  BY MaxLenAssumption DEF TrieInv, TypeOK
<1>2. \A k \in 1 .. n : Len(node[stack[k].at].prefix) \in 0 .. MaxLen
  <2> TAKE k \in 1 .. n
  <2>1. stack[k].at \in Live
    BY DEF TrieInv, PathOK
  <2>2. node[stack[k].at].prefix \in Prefix
    BY <2>1 DEF TrieInv, TypeOK, Node, Live
  <2> QED
    BY <2>2, PrefixShape
<1>3. \A k, l \in 1 .. n : k < l => f[k] < f[l]
  BY DEF TrieInv, PathOK
<1>4. f \in [1 .. n -> 0 .. MaxLen]
  BY <1>2
<1> HIDE DEF f, n
<1>5. \A k, l \in 1 .. n : f[k] = f[l] => k = l
  <2> TAKE k, l \in 1 .. n
  <2>1. k < l \/ l < k \/ k = l
    BY <1>1
  <2>2. f[k] \in 0 .. MaxLen /\ f[l] \in 0 .. MaxLen
    BY <1>4
  <2> QED
    BY <1>3, <2>1, <2>2
<1>6. f \in Injection(1 .. n, 0 .. MaxLen)
  BY <1>4, <1>5 DEF Injection, IsInjective
<1>7. /\ Cardinality(1 .. n) = IF 1 > n THEN 0 ELSE n - 1 + 1
      /\ IsFiniteSet(0 .. MaxLen)
      /\ Cardinality(0 .. MaxLen) = IF 0 > MaxLen THEN 0 ELSE MaxLen - 0 + 1
  BY <1>1, FS_Interval
<1>8. Cardinality(1 .. n) <= Cardinality(0 .. MaxLen)
  BY <1>6, <1>7, FS_Injection
<1> QED
  BY <1>1, <1>7, <1>8 DEF n

LEMMA DepthNext == TrieInv' => DepthBounded'
BY Depth, PTL

\* insert, withdraw and sweep_tombstones recurse at most 33 or 129 frames deep,
\* whatever is announced and withdrawn in whatever order.
THEOREM DepthIsBounded == Spec => []DepthBounded
BY Depth, TrieInvariant, PTL

\* What a call to insert or withdraw does to its stack.
LEMMA WentDown ==
  ASSUME TrieInv, pc \in {"insert", "withdraw"}, stack # <<>>, Below,
         Here.children[Toward] # None,
         stack' = Append(Pop, [Top EXCEPT !.slot = Toward]) \o Enter(Here.children[Toward])
  PROVE  Len(stack') = Len(stack) + 1
<1>1. Toward \in Bit /\ Here \in Node
  BY KeyPosition, Running
<1>2. Here.children[Toward] \in Idx
  BY <1>1 DEF Node
<1> QED
  BY <1>1, <1>2, Pushed

LEMMA CallShortens ==
  ASSUME TrieInv, TrieInv',
         \/ InsertFirst \/ InsertReannounce \/ InsertDescend \/ InsertGraft
         \/ InsertSplice \/ InsertSplit \/ InsertFull \/ InsertSplitFull
         \/ InsertUnwind \/ InsertReturn
         \/ WithdrawDescend \/ WithdrawHit \/ WithdrawMiss
         \/ WithdrawUnwind \/ WithdrawReturn
  PROVE  Shortened
<1> DEFINE Downward == {"insert", "withdraw"}
           Upward == {"inserted", "withdrawn"}
<1>1. /\ MaxLen \in Nat
      /\ pc # "poisoned" => Len(stack) \in 0 .. MaxLen + 1
      /\ pc' # "poisoned" => Len(stack') \in 0 .. MaxLen + 1
  BY Depth, DepthNext, MaxLenAssumption DEF DepthBounded
<1>2. CASE InsertDescend \/ WithdrawDescend
  <2>1. pc \in Downward /\ pc' = pc /\ Len(stack') = Len(stack) + 1
    BY <1>2, WentDown DEF InsertDescend, WithdrawDescend, Calling
  <2> QED
    BY <1>1, <2>1 DEF Shortened, StepsLeft
<1>3. CASE \/ InsertFirst \/ InsertReannounce \/ InsertGraft \/ InsertSplice \/ InsertSplit
           \/ WithdrawHit \/ WithdrawMiss
  <2>1. pc \in Downward /\ pc' \in Upward /\ Len(stack') <= Len(stack)
    <3>1. pc \in Downward /\ pc' \in Upward /\ ((stack' = Pop /\ stack # <<>>) \/ stack' = <<>>)
      BY <1>3 DEF InsertFirst, InsertReannounce, InsertGraft, InsertSplice,
         InsertSplit, WithdrawHit, WithdrawMiss, Calling, Return
    <3>2. stack # <<>> => Len(stack) \in Nat /\ Len(Pop) = Len(stack) - 1
      BY <3>1, Running
    <3>3. Len(stack) \in Nat /\ Len(<<>>) = 0
      BY <1>1, <3>1
    <3> QED
      BY <3>1, <3>2, <3>3
  <2> QED
    BY <1>1, <2>1 DEF Shortened, StepsLeft
<1>4. CASE InsertFull \/ InsertSplitFull
  <2>1. pc \in Downward /\ pc' = "poisoned"
    BY <1>4 DEF InsertFull, InsertSplitFull, Calling
  <2>2. StepsLeft' = 0
    BY <2>1 DEF StepsLeft
  <2>3. StepsLeft \in Nat \ {0}
    BY <1>1, <2>1 DEF StepsLeft
  <2> QED
    BY <2>2, <2>3 DEF Shortened
<1>5. CASE InsertUnwind \/ WithdrawUnwind
  <2>1. pc \in Upward /\ pc' = pc /\ stack # <<>> /\ stack' = Pop
    BY <1>5 DEF InsertUnwind, WithdrawUnwind, Calling, Return
  <2>2. Len(stack') = Len(stack) - 1
    BY <2>1, Running
  <2> QED
    BY <1>1, <2>1, <2>2 DEF Shortened, StepsLeft
<1>6. CASE InsertReturn \/ WithdrawReturn
  <2>1. pc \in Upward /\ pc' = "idle"
    BY <1>6 DEF InsertReturn, WithdrawReturn, Forget
  <2> QED
    BY <1>1, <2>1 DEF Shortened, StepsLeft
<1> QED
  BY <1>2, <1>3, <1>4, <1>5, <1>6

\* Along the stack, each node is below the one above it, on the side of its slot.
LEMMA PathDown ==
  ASSUME TrieInv, pc \notin {"poisoned", "inserted"},
         NEW k \in 1 .. Len(stack), NEW l \in 1 .. Len(stack), k < l
  PROVE  /\ stack[k].at \in Live /\ stack[l].at \in Live
         /\ StrictlyCovers(node[stack[k].at].prefix, node[stack[l].at].prefix)
         /\ Side(stack[k].at, stack[l].at) = stack[k].slot
<1> DEFINE P(m) == node[stack[m].at].prefix
           Bad == {m \in k + 1 .. Len(stack) : ~Covers(P(k + 1), P(m))}
<1>1. Len(stack) \in Nat /\ k + 1 \in 1 .. Len(stack)
  BY DEF TrieInv, TypeOK
<1>2. \A m \in 1 .. Len(stack) : stack[m].at \in Live /\ P(m) \in Prefix
  BY AtRest DEF TrieInv, PathOK
<1>3. ASSUME NEW m \in 1 .. Len(stack), NEW o \in 1 .. Len(stack), o = m + 1
      PROVE  StrictlyCovers(P(m), P(o)) /\ BitAt(P(o), Len(P(m))) = stack[m].slot
  <2> DEFINE K == [i \in Live |-> node[i].children]
  <2>1. m \in 1 .. Len(stack) - 1
    BY <1>1, <1>3
  <2>2. stack[m].slot \in Bit /\ K[stack[m].at][stack[m].slot] = stack[o].at
    BY <1>2, <1>3, <2>1 DEF TrieInv, PathOK
  <2>3. stack[o].at # None
    BY <1>2, TreeAssumption DEF TrieInv, TypeOK
  <2>4. Shape(Live, Pfx, K, root)
    BY AtRest
  <2>5. Pfx[stack[m].at] = P(m) /\ Pfx[stack[o].at] = P(o)
    BY <1>2, AtRest
  <2> HIDE DEF K, P
  <2> QED
    BY <1>2, <2>2, <2>3, <2>4, <2>5 DEF Shape, EdgesDown
<1> HIDE DEF P
<1>4. Bad = {}
  <2> SUFFICES ASSUME Bad # {} PROVE FALSE
    OBVIOUS
  <2>1. Bad \in SUBSET Nat
    BY <1>1
  <2>2. PICK m \in Bad : \A y \in Bad : m <= y
    BY <2>1, NaturalMinimum
  <2>3. m # k + 1
    BY <1>1, <1>2, <2>2, CoversReflexive
  <2>4. PICK o \in k + 1 .. Len(stack) : m = o + 1
    BY <1>1, <2>2, <2>3
  <2>5. Covers(P(k + 1), P(o))
    BY <1>1, <2>2, <2>4
  <2>6. o \in 1 .. Len(stack) /\ m \in 1 .. Len(stack)
    BY <1>1, <2>2
  <2>7. Covers(P(o), P(m))
    BY <1>3, <2>4, <2>6 DEF StrictlyCovers
  <2>8. Covers(P(k + 1), P(m))
    BY <1>1, <1>2, <2>5, <2>6, <2>7, CoversTransitive
  <2> QED
    BY <2>2, <2>8
<1>5. Covers(P(k + 1), P(l))
  BY <1>1, <1>4
<1>6. StrictlyCovers(P(k), P(k + 1)) /\ BitAt(P(k + 1), Len(P(k))) = stack[k].slot
  BY <1>1, <1>3
<1>7. StrictlyCovers(P(k), P(l)) /\ BitAt(P(l), Len(P(k))) = stack[k].slot
  BY <1>1, <1>2, <1>5, <1>6, SameSide
<1> QED
  BY <1>2, <1>7 DEF Side, P

LEMMA FewerToDo ==
  ASSUME TrieInv, TrieInv', pc = "sweep", pc' = "sweep",
         Todo' \subseteq Todo, NEW w \in Todo, w \notin Todo'
  PROVE  Shortened
<1>1. IsFiniteSet(Live)
  BY FiniteLive DEF TrieInv
<1>2. IsFiniteSet(Live \X (0 .. 3))
  <2>1. 0 \in Int /\ 3 \in Int
    OBVIOUS
  <2>2. IsFiniteSet(0 .. 3)
    BY ONLY <2>1, FS_Interval
  <2> QED
    BY <1>1, <2>2, FS_Product
<1>3. IsFiniteSet(Todo)
  BY <1>2, FS_Subset DEF Todo
<1>4. IsFiniteSet(Todo') /\ Cardinality(Todo') <= Cardinality(Todo)
  BY <1>3, FS_Subset
<1>5. Cardinality(Todo') # Cardinality(Todo)
  BY <1>3, FS_Subset
<1>6. Cardinality(Todo) \in Nat /\ Cardinality(Todo') \in Nat
  BY <1>3, <1>4, FS_CardinalityType
<1>7. StepsLeft = Cardinality(Todo) + 2 /\ StepsLeft' = Cardinality(Todo') + 2
  BY DEF StepsLeft
<1> QED
  BY <1>4, <1>5, <1>6, <1>7 DEF Shortened

\* Entering a child is done; what is ahead of the child was ahead of its parent.
LEMMA EnterShortens ==
  ASSUME TrieInv, TrieInv', SweepVisit, Here.children[Top.slot] # None
  PROVE  Shortened
<1> DEFINE n == Len(stack)
           b == Top.slot
           child == Here.children[b]
<1>1. pc = "sweep" /\ stack # <<>> /\ node' = node /\ Live' = Live /\ pc' = "sweep"
  BY Entered DEF SweepVisit
<1>2. /\ b \in Bit /\ n \in Nat \ {0}
      /\ Top = stack[n] /\ Top.at \in Live /\ Here = node[Top.at]
  BY Entered
<1>3. /\ Len(stack') = n + 1
      /\ stack'[n + 1].at = child /\ stack'[n + 1].slot = 0
      /\ \A k \in 1 .. n : stack'[k] = stack[k]
  BY Entered
<1>4. /\ child \in Live
      /\ StrictlyCovers(node[Top.at].prefix, node[child].prefix)
      /\ Side(Top.at, child) = b
  <2> DEFINE K == [i \in Live |-> node[i].children]
  <2>1. Shape(Live, Pfx, K, root) /\ K[Top.at][b] = child
    BY <1>1, <1>2, AtRest
  <2> HIDE DEF K
  <2>2. /\ child \in Live
        /\ StrictlyCovers(Pfx[Top.at], Pfx[child])
        /\ BitAt(Pfx[child], Len(Pfx[Top.at])) = b
    BY <1>2, <2>1 DEF Shape, EdgesDown
  <2> QED
    BY <1>1, <1>2, <2>2, AtRest DEF Side
<1> HIDE DEF child, b, n
<1>5. ~OnStack(child)
  <2> SUFFICES ASSUME NEW k \in 1 .. n, stack[k].at = child
               PROVE  FALSE
    BY DEF OnStack, n
  <2>1. Len(node[Top.at].prefix) < Len(node[child].prefix)
    BY <1>1, <1>2, <1>4, AtRest, StrictlyLonger
  <2>2. k = n \/ (k < n /\ n \in 1 .. n)
    BY <1>2
  <2>3. CASE k = n
    BY <1>1, <1>2, <1>4, <2>1, <2>3, AtRest
  <2>4. CASE k < n /\ n \in 1 .. n
    <3>1. Len(node[stack[k].at].prefix) < Len(node[stack[n].at].prefix)
      BY <1>1, <2>4 DEF TrieInv, PathOK, n
    <3> QED
      BY <1>1, <1>2, <1>4, <2>1, <3>1, AtRest
  <2> QED
    BY <2>2, <2>3, <2>4
<1>6. n \in 1 .. n /\ n + 1 \in 1 .. n + 1 /\ \A k \in 1 .. n + 1 : k \in 1 .. n \/ k = n + 1
  BY <1>2
<1>7. AheadOf(n, child)
  BY <1>2, <1>4 DEF AheadOf, b, n
<1>8. ASSUME NEW w \in Todo'
      PROVE  w \in Todo
  <2>1. w \in Live \X (0 .. 3) /\ w[1] \in Live /\ w[2] \in 0 .. 3
    BY <1>1 DEF Todo
  <2>2. PICK m \in 1 .. n + 1 :
          \/ stack'[m].at = w[1] /\ w[2] \in stack'[m].slot .. 2
          \/ AheadOf(m, w[1])' /\ ~OnStack(w[1])'
    BY <1>3 DEF Todo
  <2>3. ~OnStack(w[1])' => ~OnStack(w[1])
    BY <1>3, <1>6 DEF OnStack, n
  <2>4. CASE m \in 1 .. n
    <3>1. m # n + 1 /\ stack'[m] = stack[m]
      BY <1>2, <1>3, <2>4
    <3>2. AheadOf(m, w[1])' => AheadOf(m, w[1])
      BY <1>1, <1>3, <3>1 DEF AheadOf, Side
    <3> QED
      BY <2>1, <2>2, <2>3, <2>4, <3>1, <3>2 DEF Todo, n
  <2>5. CASE m = n + 1 /\ stack'[m].at = w[1]
    BY <1>3, <1>5, <1>6, <1>7, <2>1, <2>5 DEF Todo, n
  <2>6. CASE m = n + 1 /\ AheadOf(m, w[1])' /\ ~OnStack(w[1])'
    <3>1. StrictlyCovers(node[child].prefix, node[w[1]].prefix)
      BY <1>1, <1>3, <2>6 DEF AheadOf
    <3>2. /\ StrictlyCovers(node[Top.at].prefix, node[w[1]].prefix)
          /\ Side(Top.at, w[1]) = b
      <4>1. /\ node[Top.at].prefix \in Prefix /\ node[child].prefix \in Prefix
            /\ node[w[1]].prefix \in Prefix
        BY <1>1, <1>2, <1>4, <2>1, AtRest
      <4>2. Covers(node[child].prefix, node[w[1]].prefix)
        BY <3>1 DEF StrictlyCovers
      <4> QED
        BY <1>4, <4>1, <4>2, SameSide DEF Side
    <3>3. AheadOf(n, w[1])
      BY <1>2, <3>2 DEF AheadOf, b, n
    <3> QED
      BY <1>6, <2>1, <2>3, <2>6, <3>3 DEF Todo, n
  <2> QED
    BY <1>6, <2>2, <2>4, <2>5, <2>6
<1>9. PICK c \in Live : c = child
  BY <1>4
<1>10. <<c, 3>> \in Todo /\ <<c, 3>> \notin Todo'
  <2>1. <<c, 3>> \in Todo
    <3>1. n \in 1 .. Len(stack) /\ <<c, 3>> \in Live \X (0 .. 3)
      BY <1>6 DEF n
    <3> QED
      BY <1>5, <1>7, <1>9, <3>1 DEF Todo
  <2>2. OnStack(c)'
    BY <1>3, <1>6, <1>9 DEF OnStack
  <2>3. ASSUME NEW k \in 1 .. Len(stack')
        PROVE  3 \notin stack'[k].slot .. 2
    <3>1. stack' \in Seq(Frame)
      BY DEF TrieInv, TypeOK
    <3>2. stack'[k] \in Frame
      BY <3>1
    <3> QED
      BY <3>2 DEF Frame
  <2>4. <<c, 3>> \notin Todo'
    <3>1. \A k \in 1 .. Len(stack') :
            ~(\/ stack'[k].at = c /\ 3 \in stack'[k].slot .. 2
              \/ AheadOf(k, c)' /\ ~OnStack(c)')
      BY <2>2, <2>3
    <3> QED
      BY <3>1 DEF Todo
  <2> QED
    BY <2>1, <2>4
<1> QED
  BY <1>1, <1>8, <1>10, FewerToDo

\* Past an empty slot, which is seen to.
LEMMA PassShortens ==
  ASSUME TrieInv, TrieInv', SweepVisit, Here.children[Top.slot] = None
  PROVE  Shortened
<1> DEFINE n == Len(stack)
           b == Top.slot
<1>1. /\ pc = "sweep" /\ pc' = "sweep" /\ stack # <<>> /\ b < 2
      /\ stack' = Append(Pop, [Top EXCEPT !.slot = @ + 1])
      /\ node' = node /\ Live' = Live
  BY DEF SweepVisit, Calling, Live
<1>2. /\ b \in Bit /\ n \in Nat \ {0}
      /\ Top = stack[n] /\ Top.at \in Live
  BY <1>1, Running DEF Frame, Bit, Top
<1>3. /\ Len(stack') = n
      /\ \A k \in 1 .. n : stack'[k].at = stack[k].at
      /\ \A k \in 1 .. n - 1 : stack'[k] = stack[k]
      /\ stack'[n].slot = b + 1
  BY <1>1, Advanced
<1>4. PICK t \in Live, s \in Bit : t = Top.at /\ s = b
  BY <1>2
<1> HIDE DEF b, n
<1>5. n \in 1 .. n /\ \A k \in 1 .. n : k \in 1 .. n - 1 \/ k = n
  BY <1>2
<1>6. \A i : OnStack(i)' <=> OnStack(i)
  BY <1>3 DEF OnStack, n
<1>7. ASSUME NEW w \in Todo'
      PROVE  w \in Todo
  <2>1. w \in Live \X (0 .. 3) /\ w[1] \in Live
    BY <1>1 DEF Todo
  <2>2. PICK m \in 1 .. n :
          \/ stack'[m].at = w[1] /\ w[2] \in stack'[m].slot .. 2
          \/ AheadOf(m, w[1])' /\ ~OnStack(w[1])'
    BY <1>3 DEF Todo
  <2>3. CASE m \in 1 .. n - 1
    <3>1. stack'[m] = stack[m] /\ m # n
      BY <1>2, <1>3, <2>3
    <3>2. AheadOf(m, w[1])' => AheadOf(m, w[1])
      BY <1>1, <1>3, <3>1 DEF AheadOf, Side
    <3> QED
      BY <1>6, <2>1, <2>2, <3>1, <3>2 DEF Todo, n
  <2>4. CASE m = n
    <3>1. ASSUME w[2] \in stack'[n].slot .. 2
          PROVE  w[2] \in stack[n].slot .. 2
      <4>1. w[2] \in s + 1 .. 2
        BY <1>3, <1>4, <3>1
      <4>2. w[2] \in s .. 2
        BY <1>4, <4>1 DEF Bit
      <4> QED
        BY <1>2, <1>4, <4>2 DEF b
    <3>2. ASSUME AheadOf(m, w[1])'
          PROVE  AheadOf(m, w[1])
      <4>1. /\ StrictlyCovers(node[t].prefix, node[w[1]].prefix)
            /\ Side(t, w[1]) > s + 1 \/ Side(t, w[1]) = s + 1
        BY <1>1, <1>2, <1>3, <1>4, <1>5, <2>4, <3>2 DEF AheadOf, Side
      <4>2. Side(t, w[1]) \in Bit
        BY <1>1, <2>1, <4>1, BelowChild DEF Side
      <4>3. Side(t, w[1]) > s
        BY <1>4, <4>1, <4>2 DEF Bit
      <4> QED
        BY <1>2, <1>4, <2>4, <4>1, <4>3 DEF AheadOf, b
    <3> QED
      BY <1>3, <1>5, <1>6, <2>1, <2>2, <2>4, <3>1, <3>2 DEF Todo, n
  <2> QED
    BY <1>5, <2>2, <2>3, <2>4
<1>8. <<t, s>> \in Todo /\ <<t, s>> \notin Todo'
  <2>1. <<t, s>> \in Live \X (0 .. 3) /\ s \in s .. 2
    BY <1>4 DEF Bit
  <2>2. stack[n].at = t /\ stack[n].slot = s
    BY <1>2, <1>4 DEF b
  <2>3. <<t, s>> \in Todo
    BY <1>5, <2>1, <2>2 DEF Todo, n
  <2>4. OnStack(t)
    BY <1>5, <2>2 DEF OnStack, n
  <2>5. ASSUME NEW k \in 1 .. n, stack'[k].at = t
        PROVE  s \notin stack'[k].slot .. 2
    <3>1. k = n
      BY <1>1, <1>3, <1>4, <1>5, <2>5, LowerFrames DEF n
    <3>2. stack'[k].slot = s + 1
      BY <1>3, <1>4, <3>1
    <3>3. s \notin s + 1 .. 2
      BY <1>4 DEF Bit
    <3> QED
      BY <3>2, <3>3
  <2>6. \A k \in 1 .. Len(stack') :
          ~(\/ stack'[k].at = t /\ s \in stack'[k].slot .. 2
            \/ AheadOf(k, t)' /\ ~OnStack(t)')
    BY <1>3, <1>6, <2>4, <2>5
  <2> QED
    BY <2>3, <2>6 DEF Todo
<1> QED
  BY <1>1, <1>7, <1>8, FewerToDo

\* Leaving a node is done; the frame above waited on its side and moves on.
LEMMA LeaveShortens ==
  ASSUME TrieInv, TrieInv', pc = "sweep", pc' = "sweep",
         stack # <<>>, Top.slot = 2, SweepUp, Live' \subseteq Live,
         \A j \in Live' : node'[j].prefix = node[j].prefix,
         \A k \in 1 .. Len(stack) - 1 : stack[k].at \in Live'
  PROVE  Shortened
<1> DEFINE n == Len(stack)
<1>1. n \in Nat \ {0} /\ Top = stack[n] /\ Top.at \in Live
  BY Running DEF Top
<1>2. /\ Len(stack') = n - 1
      /\ \A k \in 1 .. Len(stack') : stack'[k].at = stack[k].at
      /\ \A k \in 1 .. Len(stack') - 1 : stack'[k] = stack[k]
      /\ stack' # <<>> => stack'[n - 1].slot = stack[n - 1].slot + 1
  BY WentUp
<1>3. PICK t \in Live : t = Top.at
  BY <1>1
<1> HIDE DEF n
<1>4. n \in 1 .. n /\ \A k \in 1 .. n - 1 : k \in 1 .. n /\ k < n
  BY <1>1
<1>5. ASSUME NEW m \in 1 .. n - 1
      PROVE  /\ stack'[m].at = stack[m].at
             /\ stack[m].at \in Live /\ stack[m].at \in Live'
             /\ stack[m].slot \in Bit
             /\ stack'[m].slot \in {stack[m].slot, stack[m].slot + 1}
             /\ m = n - 1 => stack'[m].slot = stack[m].slot + 1
  <2>1. stack'[m].at = stack[m].at
    BY <1>2
  <2>2. stack[m].at \in Live /\ stack[m].slot \in Bit
    BY LowerFrames DEF n
  <2>3. CASE m = n - 1
    <3>1. Len(stack') # 0
      BY <1>1, <1>2, <2>3
    <3>2. stack' # <<>>
      BY <3>1
    <3> QED
      BY <1>2, <2>1, <2>2, <2>3, <3>2 DEF n
  <2>4. CASE m # n - 1
    <3>1. m \in 1 .. Len(stack') - 1
      BY <1>1, <1>2, <2>4
    <3> QED
      BY <1>2, <2>1, <2>2, <2>4, <3>1 DEF n
  <2> QED
    BY <2>3, <2>4
<1>6. ASSUME NEW m \in 1 .. n - 1, NEW j \in Live', AheadOf(m, j)'
      PROVE  AheadOf(m, j) /\ Side(stack[m].at, j) > stack[m].slot
  <2>1. /\ StrictlyCovers(node[stack[m].at].prefix, node[j].prefix)
        /\ \/ Side(stack[m].at, j) > stack'[m].slot
           \/ m = n - 1 /\ Side(stack[m].at, j) = stack'[m].slot
    BY <1>2, <1>5, <1>6 DEF AheadOf, Side
  <2>2. Side(stack[m].at, j) \in Bit
    BY <1>5, <2>1, BelowChild DEF Side
  <2>3. Side(stack[m].at, j) > stack[m].slot
    BY <1>5, <2>1, <2>2 DEF Bit
  <2> QED
    BY <2>1, <2>3 DEF AheadOf
<1>7. ASSUME NEW m \in 1 .. n - 1
      PROVE  ~(AheadOf(m, t)' /\ t \in Live')
  <2>1. Side(stack[m].at, t) = stack[m].slot
    BY <1>1, <1>3, <1>4, PathDown DEF n
  <2> QED
    BY <1>5, <1>6, <2>1 DEF Bit
<1>8. ASSUME NEW w \in Todo'
      PROVE  w \in Todo
  <2>1. w \in Live' \X (0 .. 3) /\ w \in Live \X (0 .. 3) /\ w[1] \in Live' /\ w[2] \in 0 .. 3
    BY DEF Todo
  <2>2. PICK m \in 1 .. n - 1 :
          \/ stack'[m].at = w[1] /\ w[2] \in stack'[m].slot .. 2
          \/ AheadOf(m, w[1])' /\ ~OnStack(w[1])'
    BY <1>2 DEF Todo
  <2>3. m \in 1 .. Len(stack)
    BY <1>4 DEF n
  <2>4. CASE stack'[m].at = w[1] /\ w[2] \in stack'[m].slot .. 2
    <3>1. stack[m].at = w[1]
      BY <1>5, <2>4
    <3>2. w[2] \in stack[m].slot .. 2
      BY <1>5, <2>4 DEF Bit
    <3> QED
      BY <2>1, <2>3, <3>1, <3>2 DEF Todo
  <2>5. CASE AheadOf(m, w[1])' /\ ~OnStack(w[1])'
    <3>1. AheadOf(m, w[1])
      BY <1>6, <2>1, <2>5
    <3>2. w[1] # t
      BY <1>7, <2>1, <2>5
    <3>3. ~OnStack(w[1])
      <4> SUFFICES ASSUME NEW k \in 1 .. n, stack[k].at = w[1]
                   PROVE  FALSE
        BY DEF OnStack, n
      <4>1. k # n
        BY <1>1, <1>3, <3>2
      <4>2. k \in 1 .. n - 1
        BY <1>1, <4>1
      <4>3. stack'[k].at = w[1] /\ k \in 1 .. Len(stack')
        BY <1>2, <1>5, <4>2
      <4> QED
        BY <2>5, <4>3 DEF OnStack
    <3> QED
      BY <2>1, <2>3, <3>1, <3>3 DEF Todo
  <2> QED
    BY <2>2, <2>4, <2>5
<1>9. <<t, 2>> \in Todo /\ <<t, 2>> \notin Todo'
  <2>1. stack[n].at = t /\ stack[n].slot = 2 /\ 2 \in 2 .. 2
    BY <1>1, <1>3
  <2>2. <<t, 2>> \in Todo
    BY <1>4, <2>1 DEF Todo, n
  <2>3. ASSUME NEW k \in 1 .. n - 1
        PROVE  stack'[k].at # t
    BY <1>3, <1>5, LowerFrames DEF n
  <2>4. t \in Live' =>
          \A k \in 1 .. Len(stack') :
            ~(\/ stack'[k].at = t /\ 2 \in stack'[k].slot .. 2
              \/ AheadOf(k, t)' /\ ~OnStack(t)')
    BY <1>2, <1>7, <2>3
  <2> QED
    BY <2>2, <2>4 DEF Todo
<1> QED
  BY <1>8, <1>9, FewerToDo

LEMMA WorkKnown == TrieInv => WorkBounded
<1> SUFFICES ASSUME TrieInv
             PROVE  WorkBounded
  OBVIOUS
<1>1. CASE pc = "sweep"
  <2>1. IsFiniteSet(Live) /\ Cardinality(Live) \in Nat
    BY FiniteLive, FS_CardinalityType DEF TrieInv
  <2>2. IsFiniteSet(0 .. 3) /\ Cardinality(0 .. 3) = 4
    <3>1. 0 \in Int /\ 3 \in Int
      OBVIOUS
    <3>2. IsFiniteSet(0 .. 3) /\ Cardinality(0 .. 3) = IF 0 > 3 THEN 0 ELSE 3 - 0 + 1
      BY ONLY <3>1, FS_Interval
    <3> QED
      BY <3>2
  <2>3. /\ IsFiniteSet(Live \X (0 .. 3))
        /\ Cardinality(Live \X (0 .. 3)) = Cardinality(Live) * Cardinality(0 .. 3)
    BY <2>1, <2>2, FS_Product
  <2>4. IsFiniteSet(Todo) /\ Cardinality(Todo) <= Cardinality(Live \X (0 .. 3))
    BY <2>3, FS_Subset DEF Todo
  <2>5. Cardinality(Todo) \in Nat
    BY <2>4, FS_CardinalityType
  <2> QED
    BY <1>1, <2>1, <2>2, <2>3, <2>4, <2>5 DEF WorkBounded, StepsLeft
<1>2. CASE pc # "sweep"
  <2>1. MaxLen \in Nat /\ (pc # "poisoned" => Len(stack) \in 0 .. MaxLen + 1)
    BY Depth, MaxLenAssumption DEF DepthBounded
  <2> QED
    BY <1>2, <2>1 DEF WorkBounded, StepsLeft
<1> QED
  BY <1>1, <1>2

\* Every step of a call shortens what is left of it, which is never more than
\* 2 * MaxLen + 4 steps for insert and withdraw, however large the trie, and four
\* for each node, and two, for a sweep.  Fairness alone makes every call return.
THEOREM CallsAreBounded == Spec => []WorkBounded /\ [][Step => Shortened]_vars
<1>1. TrieInv /\ TrieInv' /\ Step => Shortened
  <2> SUFFICES ASSUME TrieInv, TrieInv', Step
               PROVE  Shortened
    OBVIOUS
  <2>1. CASE SweepVisit
    BY <2>1, EnterShortens, PassShortens
  <2>2. CASE SweepKeep
    <3>1. /\ pc = "sweep" /\ pc' = "sweep" /\ stack # <<>> /\ Top.slot = 2 /\ SweepUp
          /\ node' = node /\ Live' = Live
      BY <2>2 DEF SweepKeep, Calling, Live
    <3>2. \A k \in 1 .. Len(stack) - 1 : stack[k].at \in Live'
      BY <3>1, LowerFrames
    <3> QED
      BY <3>1, <3>2, LeaveShortens
  <2>3. CASE SweepCollapse
    <3>1. pc = "sweep" /\ pc' = "sweep" /\ stack # <<>> /\ Top.slot = 2 /\ SweepUp
      BY <2>3 DEF SweepCollapse, Calling
    <3>2. Live' = Live \ {Top.at} /\ \A j \in Live' : node'[j].prefix = node[j].prefix
      BY <2>3, Reclaimed
    <3>3. \A k \in 1 .. Len(stack) - 1 : stack[k].at \in Live'
      BY <3>1, <3>2, LowerFrames
    <3> QED
      BY <3>1, <3>2, <3>3, LeaveShortens
  <2>4. CASE SweepDone
    <3>1. pc = "sweep" /\ pc' = "swept" /\ stack = <<>>
      BY <2>4 DEF SweepDone
    <3>2. Todo = {}
      BY <3>1 DEF Todo
    <3>3. Cardinality(Todo) = 0
      BY <3>2, FS_EmptySet
    <3> QED
      BY <3>1, <3>3 DEF Shortened, StepsLeft
  <2>5. CASE SweepReturn
    <3>1. pc = "swept" /\ pc' = "idle"
      BY <2>5 DEF SweepReturn, Forget
    <3> QED
      BY <3>1 DEF Shortened, StepsLeft
  <2> QED
    BY <2>1, <2>2, <2>3, <2>4, <2>5, CallShortens DEF Step
<1>2. TrieInv /\ TrieInv' /\ [Next]_vars => [Step => Shortened]_vars
  BY <1>1
<1> QED
  BY <1>2, WorkKnown, TrieInvariant, PTL DEF Spec

-----------------------------------------------------------------------------
\* Lookups.

Matches(i) == Covers(node[i].prefix, addr) /\ Qualifies(node[i])

\* Nothing that may still be found is longer than the answer, unless it lies in
\* the subtrie the walk is about to enter; and there everything is longer.
Ahead ==
  \A i \in Live :
    Matches(i) =>
      \/ Covers(node[cur].prefix, node[i].prefix)
      \/ ans # None /\ Len(node[i].prefix) <= Len(node[ans].prefix)

Behind ==
  ans # None =>
    ans \in Live /\ Matches(ans) /\ Len(node[ans].prefix) < Len(node[cur].prefix)

WalkInv ==
  /\ LookupTypeOK
  /\ walk # "idle" => pc = "idle"
  /\ walk = "walking" => Ahead /\ Behind
  /\ LongestMatch

LookupInv == TrieInv /\ WalkInv

\* An address is the longest of prefixes.
LEMMA AddressIsPrefix ==
  ASSUME NEW a \in Address
  PROVE  a \in Prefix /\ Len(a) = MaxLen
<1>1. a \in [1 .. MaxLen -> Bit] /\ MaxLen \in 0 .. MaxLen
  BY MaxLenAssumption DEF Address
<1>2. a \in Prefix
  BY <1>1 DEF Prefix
<1> QED
  BY <1>1, <1>2, MaxLenAssumption

LEMMA NoAddressYet == Zeros \in Address /\ 0 \in 0 .. MaxLen + 1
BY MaxLenAssumption DEF Zeros, Address, Bit

\* Of the nodes strictly below the current one, those that cover the address are
\* all below the child the walk goes on to.
LEMMA OnlyOnward ==
  ASSUME TrieInv, pc = "idle", cur \in Live, addr \in Address,
         NEW i \in Live, StrictlyCovers(node[cur].prefix, node[i].prefix),
         Covers(node[i].prefix, addr)
  PROVE  /\ Onward \in Live
         /\ Covers(node[Onward].prefix, node[i].prefix)
<1> DEFINE K == [x \in Live |-> node[x].children]
           c == node[cur].prefix
           b == BitAt(node[i].prefix, Len(c))
<1>1. /\ Shape(Live, Pfx, K, root)
      /\ c \in Prefix /\ node[i].prefix \in Prefix
      /\ Pfx[cur] = c /\ Pfx[i] = node[i].prefix
  BY AtRest
<1>2. addr \in Prefix /\ Len(addr) = MaxLen
  BY AddressIsPrefix
<1>3. BitAt(addr, Len(c)) = b
  BY <1>1, <1>2, SameSide
<1>4. Len(c) # MaxLen
  BY <1>1, StrictlyLonger, PrefixShape
<1>5. K[cur][b] \in Live /\ Covers(Pfx[K[cur][b]], Pfx[i])
  BY <1>1, PathChild, Zenon
<1>6. Onward = K[cur][b]
  BY <1>3, <1>4 DEF Onward
<1>7. Pfx[Onward] = node[Onward].prefix
  BY <1>5, <1>6, AtRest
<1> QED
  BY <1>1, <1>5, <1>6, <1>7

\* The child it goes on to is a longer prefix.
LEMMA OnwardLonger ==
  ASSUME TrieInv, pc = "idle", cur \in Live, addr \in Address, Onward # None
  PROVE  /\ Onward \in Live
         /\ StrictlyCovers(node[cur].prefix, node[Onward].prefix)
         /\ Len(node[cur].prefix) < Len(node[Onward].prefix)
<1> DEFINE K == [x \in Live |-> node[x].children]
           b == BitAt(addr, Len(node[cur].prefix))
<1>1. /\ Shape(Live, Pfx, K, root)
      /\ node[cur].prefix \in Prefix
      /\ Pfx[cur] = node[cur].prefix
      /\ Len(node[cur].prefix) \in 0 .. MaxLen
  BY AtRest
<1>2. Len(node[cur].prefix) # MaxLen /\ Onward = K[cur][b]
  BY DEF Onward
<1>3. b \in Bit
  <2>1. Len(node[cur].prefix) + 1 \in 1 .. MaxLen
    BY <1>1, <1>2, MaxLenAssumption
  <2> QED
    BY <2>1 DEF BitAt, Address
<1>4. Onward \in Live /\ StrictlyCovers(Pfx[cur], Pfx[Onward])
  BY <1>1, <1>2, <1>3, Zenon DEF Shape, EdgesDown
<1>5. node[Onward].prefix \in Prefix /\ Pfx[Onward] = node[Onward].prefix
  BY <1>4, AtRest
<1> QED
  BY <1>1, <1>4, <1>5, StrictlyLonger

LEMMA LookupCallStep ==
  ASSUME LookupInv, NEW a \in Address, NEW f \in 0 .. MaxLen + 1, LookupCall(a, f)
  PROVE  WalkInv'
<1>1. /\ pc = "idle" /\ pc' = "idle" /\ node' = node /\ Live' = Live
      /\ walk' = Begin /\ addr' = a /\ floor' = f /\ cur' = root /\ ans' = None
  BY DEF LookupCall, vars, Live
<1>2. /\ root = None => Live = {}
      /\ root # None => root \in Live /\ \A i \in Live : Covers(node[root].prefix, node[i].prefix)
  BY <1>1, AtRest DEF LookupInv, Shape, EntryAbove
<1>3. root \in Idx \cup {None}
  BY DEF LookupInv, TrieInv, TypeOK
<1>4. LookupTypeOK'
  BY <1>1, <1>2, <1>3 DEF LookupTypeOK, Begin
<1>5. walk' = "walking" => Ahead' /\ Behind'
  BY <1>1, <1>2 DEF Begin, Ahead, Behind
<1>6. LongestMatch'
  BY <1>1, <1>2 DEF LongestMatch, Begin, Candidates
<1> QED
  BY <1>1, <1>4, <1>5, <1>6 DEF WalkInv

LEMMA LookupLeaveStep ==
  ASSUME LookupInv, LookupLeave
  PROVE  WalkInv'
<1>1. /\ walk = "walking" /\ walk' = "done" /\ pc = "idle" /\ pc' = "idle"
      /\ node' = node /\ Live' = Live
      /\ UNCHANGED <<addr, floor, cur, ans>>
      /\ cur \in Live /\ addr \in Address
      /\ ~Covers(node[cur].prefix, addr)
  BY DEF LookupInv, WalkInv, LookupTypeOK, LookupLeave, vars, Live
<1>2. LookupTypeOK'
  BY <1>1 DEF LookupInv, WalkInv, LookupTypeOK
<1>3. ASSUME NEW i \in Live, Matches(i)
      PROVE  ans # None /\ Len(node[i].prefix) <= Len(node[ans].prefix)
  <2>1. /\ node[cur].prefix \in Prefix /\ node[i].prefix \in Prefix /\ addr \in Prefix
        /\ Covers(node[i].prefix, addr)
    BY <1>1, <1>3, AtRest, AddressIsPrefix DEF LookupInv, Matches
  <2>2. ~Covers(node[cur].prefix, node[i].prefix)
    BY <1>1, <2>1, CoversTransitive
  <2> QED
    BY <1>1, <1>3, <2>2 DEF LookupInv, WalkInv, Ahead
<1>4. ans # None => ans \in Live /\ Matches(ans)
  BY <1>1 DEF LookupInv, WalkInv, Behind
<1>5. Candidates = {i \in Live : Matches(i)} /\ Candidates' = Candidates
  BY <1>1 DEF Candidates, Matches, Qualifies
<1>6. LongestMatch'
  BY <1>1, <1>3, <1>4, <1>5 DEF LongestMatch
<1> QED
  BY <1>1, <1>2, <1>6 DEF WalkInv

LEMMA LookupVisitStep ==
  ASSUME LookupInv, LookupVisit
  PROVE  WalkInv'
<1>1. /\ walk = "walking" /\ pc = "idle" /\ pc' = "idle"
      /\ node' = node /\ Live' = Live
      /\ UNCHANGED <<addr, floor>>
      /\ cur \in Live /\ addr \in Address
      /\ Covers(node[cur].prefix, addr)
      /\ ans' = Best
      /\ walk' = IF Onward = None THEN "done" ELSE "walking"
      /\ cur' = IF Onward = None THEN cur ELSE Onward
  BY DEF LookupInv, WalkInv, LookupTypeOK, LookupVisit, vars, Live
<1>2. TrieInv /\ Ahead /\ Behind
  BY <1>1 DEF LookupInv, WalkInv
<1>3. /\ \A i \in Live : node[i].prefix \in Prefix /\ Len(node[i].prefix) \in 0 .. MaxLen
      /\ Live \subseteq Idx
  BY <1>1, <1>2, AtRest DEF TrieInv, TypeOK
<1>4. Onward # None =>
        /\ Onward \in Live
        /\ StrictlyCovers(node[cur].prefix, node[Onward].prefix)
        /\ Len(node[cur].prefix) < Len(node[Onward].prefix)
  BY <1>1, <1>2, OnwardLonger
\* The answer is a match no longer than the node just considered.
<1>5. Best # None =>
        /\ Best \in Live
        /\ Matches(Best)
        /\ Len(node[Best].prefix) <= Len(node[cur].prefix)
  <2>1. CASE Qualifies(node[cur])
    BY <1>1, <1>3, <2>1 DEF Best, Matches
  <2>2. CASE ~Qualifies(node[cur])
    BY <1>1, <1>2, <1>3, <2>2 DEF Best, Behind
  <2> QED
    BY <2>1, <2>2
\* What it does not beat lies strictly below that node.
<1>6. ASSUME NEW i \in Live, Matches(i)
      PROVE  \/ StrictlyCovers(node[cur].prefix, node[i].prefix)
             \/ Best # None /\ Len(node[i].prefix) <= Len(node[Best].prefix)
  <2>1. CASE Qualifies(node[cur])
    <3>1. Best = cur /\ cur # None
      BY <1>1, <1>3, <2>1, TreeAssumption DEF Best
    <3>2. CASE Covers(node[cur].prefix, node[i].prefix)
      BY <1>1, <1>3, <3>1, <3>2 DEF StrictlyCovers
    <3>3. CASE ans # None /\ Len(node[i].prefix) <= Len(node[ans].prefix)
      BY <1>1, <1>2, <1>3, <3>1, <3>3 DEF Behind
    <3> QED
      BY <1>2, <1>6, <3>2, <3>3 DEF Ahead
  <2>2. CASE ~Qualifies(node[cur])
    <3>1. Best = ans
      BY <2>2 DEF Best
    <3>2. node[i].prefix # node[cur].prefix
      <4>1. SUFFICES ASSUME node[i].prefix = node[cur].prefix PROVE FALSE
        OBVIOUS
      <4>2. i = cur
        BY <1>1, <1>2, <4>1, AtRest DEF Shape, NoTwins
      <4> QED
        BY <1>6, <2>2, <4>2 DEF Matches
    <3> QED
      BY <1>2, <1>6, <3>1, <3>2 DEF Ahead, StrictlyCovers
  <2> QED
    BY <2>1, <2>2
<1>7. \A i \in Live : Matches(i)' = Matches(i)
  BY <1>1 DEF Matches, Qualifies
<1>8. LookupTypeOK'
  BY <1>1, <1>3, <1>4, <1>5 DEF LookupInv, WalkInv, LookupTypeOK
<1>9. ASSUME Onward # None
      PROVE  Ahead' /\ Behind'
  <2>1. cur' = Onward /\ Onward \in Live
    BY <1>1, <1>4, <1>9
  <2>2. ASSUME NEW i \in Live, Matches(i)
        PROVE  \/ Covers(node[Onward].prefix, node[i].prefix)
               \/ Best # None /\ Len(node[i].prefix) <= Len(node[Best].prefix)
    BY <1>1, <1>2, <1>6, <2>2, OnlyOnward DEF Matches
  <2>3. Best # None => Len(node[Best].prefix) < Len(node[Onward].prefix)
    BY <1>1, <1>3, <1>4, <1>5, <1>9
  <2> QED
    BY <1>1, <1>5, <1>7, <2>1, <2>2, <2>3 DEF Ahead, Behind
<1>10. ASSUME Onward = None
       PROVE  LongestMatch'
  <2>1. ASSUME NEW i \in Live, Matches(i)
        PROVE  Best # None /\ Len(node[i].prefix) <= Len(node[Best].prefix)
    <3>1. ~StrictlyCovers(node[cur].prefix, node[i].prefix)
      BY <1>1, <1>2, <1>3, <1>10, <2>1, OnlyOnward, TreeAssumption DEF Matches
    <3> QED
      BY <1>6, <2>1, <3>1
  <2>2. Candidates' = {i \in Live : Matches(i)}
    BY <1>1, <1>7 DEF Candidates, Matches
  <2> QED
    BY <1>1, <1>5, <2>1, <2>2 DEF LongestMatch
<1>11. CASE Onward = None
  <2>1. walk' = "done"
    BY <1>1, <1>11
  <2> QED
    BY <1>1, <1>8, <1>10, <1>11, <2>1 DEF WalkInv
<1>12. CASE Onward # None
  <2>1. walk' = "walking"
    BY <1>1, <1>12
  <2>2. LongestMatch'
    BY <2>1 DEF LongestMatch
  <2> QED
    BY <1>1, <1>8, <1>9, <1>12, <2>1, <2>2 DEF WalkInv
<1> QED
  BY <1>11, <1>12

\* Lookups leave the trie alone, and calls are made while no lookup walks it.
LEMMA LookupInvStep == LookupInv /\ [LookupNext]_<<vars, lookupVars>> => LookupInv'
<1> SUFFICES ASSUME LookupInv, [LookupNext]_<<vars, lookupVars>>
             PROVE  LookupInv'
  OBVIOUS
<1> USE DEF LookupInv
<1>1. [Next]_vars
  BY DEF LookupNext, LookupCall, Walk, LookupLeave, LookupVisit, LookupReturn, Mutate, vars
<1>2. TrieInv'
  BY <1>1, StepTrieInv
<1>3. ASSUME NEW a \in Address, NEW f \in 0 .. MaxLen + 1, LookupCall(a, f)
      PROVE  LookupInv'
  BY <1>2, <1>3, LookupCallStep
<1>4. CASE LookupLeave
  BY <1>2, <1>4, LookupLeaveStep
<1>5. CASE LookupVisit
  BY <1>2, <1>5, LookupVisitStep
<1>6. CASE LookupReturn
  BY <1>2, <1>6, NoAddressYet DEF LookupReturn, WalkInv, LookupTypeOK, LongestMatch
<1>7. CASE Mutate
  <2>1. walk = "idle" /\ walk' = "idle" /\ UNCHANGED <<addr, floor, cur, ans>>
    BY <1>7 DEF Mutate, lookupVars
  <2> QED
    BY <1>2, <2>1 DEF WalkInv, LookupTypeOK, LongestMatch
<1>8. CASE UNCHANGED <<vars, lookupVars>>
  BY <1>2, <1>8 DEF vars, lookupVars, WalkInv, LookupTypeOK, LongestMatch, Ahead, Behind, Matches,
     Candidates, Qualifies, Live
<1> QED
  BY <1>3, <1>4, <1>5, <1>6, <1>7, <1>8 DEF LookupNext, Walk

LEMMA LookupInvStart == LookupInit => LookupInv
<1> SUFFICES ASSUME LookupInit
             PROVE  LookupInv
  OBVIOUS
<1>1. TrieInv
  BY InitTrieInv DEF LookupInit
<1>2. WalkInv
  BY NoAddressYet DEF LookupInit, WalkInv, LookupTypeOK, LongestMatch
<1> QED
  BY <1>1, <1>2 DEF LookupInv

\* While a lookup walks, every match it has not seen lies in the subtrie it is
\* about to enter (lookup and limited_lookup in core/src/tree.rs).
THEOREM LookupInvariant == LookupSpec => []LookupInv
BY LookupInvStart, LookupInvStep, PTL DEF LookupSpec

\* A lookup finds the longest announced prefix that covers the address, a limited
\* lookup the longest that is announced or has count_all_below bits or more.
THEOREM LookupFindsLongest == LookupSpec => []LongestMatch
<1>1. LookupInv => LongestMatch
  BY DEF LookupInv, WalkInv
<1> QED
  BY <1>1, LookupInvariant, PTL

\* What a lookup finds is the longest match in the set of announced routes.
LEMMA LongestIsRoute == LookupInv => LookupMatchesRoutes
<1> SUFFICES ASSUME LookupInv, walk = "done", floor > MaxLen
             PROVE  LET matches == {p \in Routes : Covers(p, addr)}
                    IN  IF ans = None THEN matches = {}
                        ELSE /\ node[ans].prefix \in matches
                             /\ \A p \in matches : Covers(p, node[ans].prefix)
  BY DEF LookupMatchesRoutes
<1> DEFINE matches == {p \in Routes : Covers(p, addr)}
<1>1. /\ pc = "idle" /\ addr \in Prefix /\ floor \in Nat /\ MaxLen \in Nat
      /\ TrieInv /\ LongestMatch
  BY AddressIsPrefix, MaxLenAssumption DEF LookupInv, WalkInv, LookupTypeOK
<1>2. \A i \in Live : node[i].prefix \in Prefix /\ Len(node[i].prefix) \in 0 .. MaxLen
  BY <1>1, AtRest
<1>3. \A i \in Live : Qualifies(node[i]) => node[i].announced
  BY <1>1, <1>2 DEF Qualifies
<1>4. \A i \in Live : Attached(i)
  BY <1>1, ShapeMeansTrie DEF TrieInv, NoLeak
<1>5. \A i \in Live : i \in Candidates <=> node[i].announced /\ Covers(node[i].prefix, addr)
  BY <1>3 DEF Candidates, Qualifies
<1>6. ASSUME NEW p \in matches
      PROVE  \E i \in Candidates : node[i].prefix = p
  <2>1. PICK i \in Live : node[i].announced /\ node[i].prefix = p
    BY DEF Routes
  <2> QED
    BY <1>5, <2>1
<1>7. CASE ans = None
  BY <1>1, <1>6, <1>7 DEF LongestMatch
<1>8. CASE ans # None
  <2>1. /\ ans \in Candidates /\ ans \in Live
        /\ \A i \in Candidates : Len(node[i].prefix) <= Len(node[ans].prefix)
    BY <1>1, <1>8 DEF LongestMatch, Candidates
  <2>2. node[ans].prefix \in matches
    BY <1>4, <1>5, <2>1 DEF Routes
  <2>3. ASSUME NEW p \in matches
        PROVE  Covers(p, node[ans].prefix)
    <3>1. PICK i \in Candidates : node[i].prefix = p
      BY <1>6
    <3> DEFINE q == node[ans].prefix
    <3>2. /\ p \in Prefix /\ q \in Prefix /\ Covers(p, addr) /\ Covers(q, addr)
          /\ Len(p) <= Len(q) /\ Len(p) \in Nat /\ Len(q) \in Nat
      BY <1>2, <2>1, <2>2, <3>1 DEF Candidates
    <3> HIDE DEF q
    <3>3. CASE Covers(p, q)
      BY <3>3 DEF q
    <3>4. CASE ~Covers(p, q)
      <4>1. Covers(q, p)
        BY <1>1, <3>2, <3>4, CoversChain
      <4>2. q # p
        BY <3>2, <3>4, CoversReflexive
      <4> QED
        BY <3>2, <4>1, <4>2, StrictlyLonger DEF StrictlyCovers
    <3> QED
      BY <3>3, <3>4
  <2> QED
    BY <1>8, <2>2, <2>3
<1> QED
  BY <1>7, <1>8

\* However the trie has been restructured, swept and reused since its routes were
\* announced, lookup is the longest match in the set of announced routes.
THEOREM LookupIsLongestRoute == LookupSpec => []LookupMatchesRoutes
BY LongestIsRoute, LookupInvariant, PTL

\* How far a lookup still is from its return: each iteration goes to a longer prefix.
IterationsLeft ==
  CASE walk = "walking" -> MaxLen + 2 - Len(node[cur].prefix)
    [] walk = "done"    -> 1
    [] OTHER            -> 0

Onwards ==
  /\ IterationsLeft \in 0 .. MaxLen + 2
  /\ IterationsLeft' \in 0 .. MaxLen + 2
  /\ IterationsLeft' < IterationsLeft

\* The loop of lookup and limited_lookup goes round at most MaxLen + 1 times, however
\* large the trie, and returns under fairness alone.
THEOREM LookupsAreBounded == LookupSpec => [][Walk => Onwards]_<<vars, lookupVars>>
<1>1. LookupInv /\ Walk => Onwards
  <2> SUFFICES ASSUME LookupInv, Walk
               PROVE  Onwards
    OBVIOUS
  <2>1. CASE LookupLeave \/ LookupVisit
    <3>1. /\ TrieInv /\ MaxLen \in Nat
          /\ walk = "walking" /\ pc = "idle" /\ cur \in Live /\ addr \in Address
          /\ node' = node
      BY <2>1, MaxLenAssumption DEF LookupInv, WalkInv, LookupTypeOK, LookupLeave, LookupVisit, vars
    <3>2. Len(node[cur].prefix) \in 0 .. MaxLen
      BY <3>1, AtRest
    <3>3. CASE walk' = "done"
      BY <3>1, <3>2, <3>3 DEF Onwards, IterationsLeft
    <3>4. CASE walk' # "done"
      <4>1. Onward # None /\ walk' = "walking" /\ cur' = Onward
        BY <2>1, <3>4 DEF LookupLeave, LookupVisit
      <4>2. /\ Onward \in Live
            /\ Len(node[cur].prefix) < Len(node[Onward].prefix)
        BY <3>1, <4>1, OnwardLonger
      <4>3. Len(node[Onward].prefix) \in 0 .. MaxLen
        BY <3>1, <4>2, AtRest
      <4>4. /\ IterationsLeft = MaxLen + 2 - Len(node[cur].prefix)
            /\ IterationsLeft' = MaxLen + 2 - Len(node[Onward].prefix)
        BY <3>1, <4>1 DEF IterationsLeft
      <4>5. \A a, b \in 0 .. MaxLen :
              a < b => /\ MaxLen + 2 - a \in 0 .. MaxLen + 2
                       /\ MaxLen + 2 - b \in 0 .. MaxLen + 2
                       /\ MaxLen + 2 - b < MaxLen + 2 - a
        BY <3>1
      <4> QED
        BY <3>2, <4>2, <4>3, <4>4, <4>5 DEF Onwards
    <3> QED
      BY <3>3, <3>4
  <2>2. CASE LookupReturn
    BY <2>2, MaxLenAssumption DEF LookupReturn, Onwards, IterationsLeft
  <2> QED
    BY <2>1, <2>2 DEF Walk
<1>2. LookupInv /\ [LookupNext]_<<vars, lookupVars>> => [Walk => Onwards]_<<vars, lookupVars>>
  BY <1>1
<1> QED
  BY <1>2, LookupInvariant, PTL DEF LookupSpec

-----------------------------------------------------------------------------
\* The dirty reports.

ReportInv ==
  /\ pc \in {"insert", "withdraw"} => node = before
  /\ pc \notin {"idle", "poisoned"} => Changed \subseteq Reported

ReportNow == TrieInv /\ ReportInv

\* The elements of a sequence.
Named(s) == {s[k] : k \in 1 .. Len(s)}

LEMMA NamedOne ==
  ASSUME NEW x
  PROVE  Named(<<x>>) = {x}
<1>1. Len(<<x>>) = 1 /\ <<x>>[1] = x
  OBVIOUS
<1>2. 1 .. 1 = {1}
  OBVIOUS
<1> QED
  BY <1>1, <1>2 DEF Named

LEMMA NamedTwo ==
  ASSUME NEW x, NEW y
  PROVE  Named(<<x, y>>) = {x, y}
<1>1. Len(<<x, y>>) = 2 /\ <<x, y>>[1] = x /\ <<x, y>>[2] = y
  OBVIOUS
<1>2. 1 .. 2 = {1, 2}
  OBVIOUS
<1> QED
  BY <1>1, <1>2 DEF Named

LEMMA NamedJoin ==
  ASSUME NEW S, NEW s \in Seq(S), NEW t \in Seq(S)
  PROVE  Named(s \o t) = Named(s) \cup Named(t)
<1> DEFINE j == s \o t
<1>1. /\ Len(s) \in Nat /\ Len(t) \in Nat
      /\ Len(j) = Len(s) + Len(t)
      /\ \A k \in 1 .. Len(j) : j[k] = IF k <= Len(s) THEN s[k] ELSE t[k - Len(s)]
  OBVIOUS
<1> HIDE DEF j
<1>2. ASSUME NEW k \in 1 .. Len(j)
      PROVE  j[k] \in Named(s) \cup Named(t)
  <2>1. k \in 1 .. Len(s) \/ k - Len(s) \in 1 .. Len(t)
    BY <1>1
  <2> QED
    BY <1>1, <2>1 DEF Named
<1>3. ASSUME NEW k \in 1 .. Len(s)
      PROVE  s[k] \in Named(j)
  <2>1. k \in 1 .. Len(j) /\ j[k] = s[k]
    BY <1>1
  <2> QED
    BY <2>1 DEF Named
<1>4. ASSUME NEW k \in 1 .. Len(t)
      PROVE  t[k] \in Named(j)
  <2>1. Len(s) + k \in 1 .. Len(j) /\ j[Len(s) + k] = t[k]
    BY <1>1
  <2> QED
    BY <2>1 DEF Named
<1> QED
  BY <1>2, <1>3, <1>4 DEF Named, j

\* Reporting xs as well.
LEMMA ReportedMore ==
  ASSUME TypeOK, NEW xs \in Seq(Idx), dirty' = dirty \o xs
  PROVE  Reported' = Reported \cup Named(xs)
<1>1. Named(dirty \o xs) = Named(dirty) \cup Named(xs)
  BY NamedJoin DEF TypeOK
<1> QED
  BY <1>1 DEF Reported, Named

LEMMA ReportedOne ==
  ASSUME TypeOK, NEW x \in Idx, dirty' = Append(dirty, x)
  PROVE  Reported' = Reported \cup {x}
<1>1. dirty' = dirty \o <<x>> /\ <<x>> \in Seq(Idx)
  BY AppendProperties2 DEF TypeOK
<1> QED
  BY <1>1, ReportedMore, NamedOne

\* A step that changes the slots X only, and has them reported.
LEMMA ChangesReported ==
  ASSUME Changed \subseteq Reported, before' = before, NEW X,
         \A i \in Live' \ X : i \in Live /\ node'[i] = node[i],
         X \subseteq Reported', Reported \subseteq Reported'
  PROVE  Changed' \subseteq Reported'
BY DEF Changed

LEMMA InsertReports ==
  ASSUME ReportNow, before' = before,
         InsertFirst \/ InsertReannounce \/ InsertGraft \/ InsertSplice \/ InsertSplit
  PROVE  ReportInv'
<1>1. TrieInv /\ TypeOK /\ Changed \subseteq Reported /\ pc = "insert" /\ pc' = "inserted"
  BY DEF ReportNow, ReportInv, TrieInv, InsertFirst, InsertReannounce, InsertGraft,
     InsertSplice, InsertSplit, Calling, Return
<1>2. CASE InsertFirst
  <2>1. PICK leaf \in Idx \ Live : node' = Extended(node, leaf, Leaf) /\ dirty' = <<leaf>>
    BY <1>2 DEF InsertFirst
  <2>2. \A i \in Live' \ {leaf} : i \in Live /\ node'[i] = node[i]
    BY <2>1 DEF Extended, Live
  <2>3. Reported' = {leaf}
    BY <2>1, NamedOne DEF Reported, Named
  <2>4. node = before
    BY <1>1 DEF ReportNow, ReportInv
  <2>5. Changed' \subseteq {leaf}
    BY <2>2, <2>4 DEF Changed, Live
  <2> QED
    BY <1>1, <2>3, <2>5 DEF ReportInv
<1>3. CASE InsertReannounce
  <2>1. Top.at \in Idx /\ dirty' = Append(dirty, Top.at)
    BY <1>1, <1>3, Running DEF InsertReannounce, Calling
  <2>2. \A i \in Live' \ {Top.at} : i \in Live /\ node'[i] = node[i]
    BY <1>1, <1>3, ReannouncedNodes
  <2>3. Changed' \subseteq Reported'
    BY <1>1, <2>1, <2>2, ReportedOne, ChangesReported
  <2> QED
    BY <1>1, <2>3 DEF ReportInv
<1>4. CASE InsertGraft
  <2>1. PICK leaf \in Idx \ Live :
          /\ node' = Extended([node EXCEPT ![Top.at].children[Toward] = leaf,
                                           ![Top.at].ts = Later(@, now)], leaf, Leaf)
          /\ dirty' = dirty \o <<leaf, Top.at>>
    BY <1>4 DEF InsertGraft
  <2>2. Top.at \in Idx
    BY <1>1, <1>4, Running DEF InsertGraft, Calling
  <2>3. <<leaf, Top.at>> \in Seq(Idx)
    BY <2>2
  <2>4. \A i \in Live' \ {leaf, Top.at} : i \in Live /\ node'[i] = node[i]
    <3>1. Live' = Live \cup {leaf} /\ \A i \in Live \ {Top.at} : node'[i] = node[i]
      BY <1>1, <1>4, <2>1, GraftedNodes DEF InsertGraft
    <3> QED
      BY <3>1
  <2>5. Reported' = Reported \cup {leaf, Top.at}
    BY <1>1, <2>1, <2>3, ReportedMore, NamedTwo
  <2>6. Changed' \subseteq Reported'
    BY <1>1, <2>4, <2>5, ChangesReported
  <2> QED
    BY <1>1, <2>6 DEF ReportInv
<1>5. CASE InsertSplice
  <2>1. PICK new \in Idx \ Live :
          /\ node' = Extended(node, new,
                [Leaf EXCEPT !.children[BitAt(Here.prefix, Len(key))] = Top.at,
                             !.ts = Later(now, Here.ts)])
          /\ dirty' = Append(dirty, new)
    BY <1>5 DEF InsertSplice
  <2>2. \A i \in Live' \ {new} : i \in Live /\ node'[i] = node[i]
    BY <2>1 DEF Extended, Live
  <2>3. Changed' \subseteq Reported'
    BY <1>1, <2>1, <2>2, ReportedOne, ChangesReported
  <2> QED
    BY <1>1, <2>3 DEF ReportInv
<1>6. CASE InsertSplit
  <2>1. PICK leaf \in Idx \ Live, split \in Idx \ Live :
          /\ node' = Extended(Extended(node, leaf, Leaf), split, Fork(leaf))
          /\ dirty' = dirty \o <<split, leaf>>
    BY <1>6 DEF InsertSplit
  <2>2. <<split, leaf>> \in Seq(Idx)
    OBVIOUS
  <2>3. \A i \in Live' \ {split, leaf} : i \in Live /\ node'[i] = node[i]
    BY <2>1 DEF Extended, Live
  <2>4. Reported' = Reported \cup {split, leaf}
    BY <1>1, <2>1, <2>2, ReportedMore, NamedTwo
  <2>5. Changed' \subseteq Reported'
    BY <1>1, <2>3, <2>4, ChangesReported
  <2> QED
    BY <1>1, <2>5 DEF ReportInv
<1> QED
  BY <1>2, <1>3, <1>4, <1>5, <1>6

\* A frame that takes the outcome of the one below it and does not report its node
\* has not changed it: neither the pointer moved nor the timestamp.
LEMMA UnwindReports ==
  ASSUME ReportNow, TrieInv', before' = before, InsertUnwind \/ WithdrawUnwind
  PROVE  ReportInv'
<1> DEFINE t == Top.at
           advanced == ret.advanced /\ now > Here.ts
           ts == IF ret.advanced THEN Later(Here.ts, now) ELSE Here.ts
<1>1. /\ TrieInv /\ TypeOK /\ Changed \subseteq Reported /\ stack # <<>>
      /\ pc \in {"inserted", "withdrawn"} /\ pc' = pc
  BY DEF ReportNow, ReportInv, TrieInv, InsertUnwind, WithdrawUnwind, Calling, Return
<1>2. /\ t \in Live /\ t \in Idx /\ Here = node[t] /\ node[t] \in Node
      /\ Here.ts \in Nat /\ now \in Nat
  BY <1>1, Running DEF Here, TypeOK
<1>3. ~advanced => ts = Here.ts
  BY <1>2 DEF Later
<1>4. Live' = Live /\ \A i \in Live' \ {t} : i \in Live /\ node'[i] = node[i]
  BY <1>1, UnwoundNodes, TouchedNodes
<1> HIDE DEF t, advanced, ts
<1>5. node'[t] \in Node
  BY <1>2, <1>4 DEF TrieInv, TypeOK, Live
<1>6. ASSUME NEW moved, moved => dirty' = dirty \o <<t>>,
             ~moved => dirty' = dirty \o <<>> /\ node'[t] = node[t]
      PROVE  Changed' \subseteq Reported'
  <2>1. CASE moved
    <3>1. <<t>> \in Seq(Idx)
      BY <1>2
    <3>2. Reported' = Reported \cup {t}
      BY <1>1, <1>6, <2>1, <3>1, ReportedMore, NamedOne
    <3> QED
      BY <1>1, <1>4, <3>2, ChangesReported
  <2>2. CASE ~moved
    <3>1. dirty' = dirty
      BY <1>1, <1>6, <2>2 DEF TypeOK
    <3>2. Reported' = Reported
      BY <3>1 DEF Reported
    <3>3. \A i \in Live' \ {} : i \in Live /\ node'[i] = node[i]
      BY <1>4, <1>6, <2>2
    <3> QED
      BY <1>1, <3>2, <3>3, ChangesReported
  <2> QED
    BY <2>1, <2>2
<1>7. CASE InsertUnwind
  <2> DEFINE moved == ret.subroot # Here.children[Top.slot]
  <2>1. dirty' = dirty \o Unwound(moved, advanced)
    BY <1>7 DEF InsertUnwind, advanced
  <2>2. /\ Top.slot \in Bit
        /\ node'[t].prefix = node[t].prefix
        /\ node'[t].announced = node[t].announced
        /\ node'[t].ts = ts
        /\ node'[t].children = [node[t].children EXCEPT ![Top.slot] = ret.subroot]
    BY <1>1, <1>2, <1>7, UnwoundNodes DEF t, ts
  <2>3. ASSUME ~(moved \/ advanced)
        PROVE  node'[t] = node[t]
    <3>1. node'[t].ts = node[t].ts
      BY <1>2, <1>3, <2>2, <2>3
    <3>2. node'[t].children = node[t].children
      BY <1>2, <2>2, <2>3 DEF Node
    <3> QED
      BY <1>2, <1>5, <2>2, <3>1, <3>2 DEF Node
  <2> HIDE DEF moved
  <2>4. Changed' \subseteq Reported'
    BY <1>6, <2>1, <2>3 DEF Unwound, t
  <2> QED
    BY <1>1, <1>7, <2>4 DEF ReportInv
<1>8. CASE WithdrawUnwind
  <2>1. dirty' = dirty \o Unwound(FALSE, advanced)
    BY <1>8 DEF WithdrawUnwind, advanced
  <2>2. /\ node'[t].prefix = node[t].prefix
        /\ node'[t].announced = node[t].announced
        /\ node'[t].ts = ts
        /\ node'[t].children = node[t].children
    BY <1>1, <1>2, <1>8, TouchedNodes DEF t, ts
  <2>3. ASSUME ~advanced
        PROVE  node'[t] = node[t]
    BY <1>2, <1>3, <1>5, <2>2, <2>3 DEF Node
  <2>4. Changed' \subseteq Reported'
    BY <1>6, <2>1, <2>3 DEF Unwound, t
  <2> QED
    BY <1>1, <1>8, <2>4 DEF ReportInv
<1> QED
  BY <1>7, <1>8

\* The one node a collapse rewires is that of the frame above.
LEMMA CollapseReports ==
  ASSUME ReportNow, before' = before, SweepCollapse
  PROVE  ReportInv'
<1> DEFINE t == Top.at
           n == Len(stack)
           a == stack[n - 1]
           child == OnlyChild(Here)
<1>1. /\ TrieInv /\ TypeOK /\ Changed \subseteq Reported
      /\ pc = "sweep" /\ pc' = "sweep" /\ stack # <<>>
  BY DEF ReportNow, ReportInv, TrieInv, SweepCollapse, Calling
<1>2. n \in Nat \ {0}
  BY <1>1, Running
<1>3. CASE n = 1
  <2>1. node' = Without(node, t) /\ dirty' = dirty
    BY <1>3 DEF SweepCollapse
  <2>2. \A i \in Live' \ {} : i \in Live /\ node'[i] = node[i]
    BY <2>1 DEF Without, Live
  <2>3. Reported' = Reported
    BY <2>1 DEF Reported
  <2>4. Changed' \subseteq Reported'
    BY <1>1, <2>2, <2>3, ChangesReported
  <2> QED
    BY <1>1, <2>4 DEF ReportInv
<1>4. CASE n # 1
  <2>1. /\ node' = Without([node EXCEPT ![a.at].children[a.slot] = child], t)
        /\ dirty' = Append(dirty, a.at)
    BY <1>4 DEF SweepCollapse
  <2>2. a.at \in Idx
    <3>1. n - 1 \in 1 .. n
      BY <1>2, <1>4
    <3>2. stack \in Seq(Frame)
      BY <1>1 DEF TypeOK
    <3>3. a \in Frame
      BY <3>1, <3>2
    <3> QED
      BY <3>3 DEF Frame
  <2>3. \A i \in Live' \ {a.at} : i \in Live /\ node'[i] = node[i]
    BY <2>1 DEF Without, Live
  <2> HIDE DEF a, n
  <2>4. Changed' \subseteq Reported'
    BY <1>1, <2>1, <2>2, <2>3, ReportedOne, ChangesReported
  <2> QED
    BY <1>1, <2>4 DEF ReportInv
<1> QED
  BY <1>3, <1>4

LEMMA HitReports ==
  ASSUME ReportNow, before' = before, WithdrawHit
  PROVE  ReportInv'
<1>1. /\ TrieInv /\ TypeOK /\ Changed \subseteq Reported
      /\ pc = "withdraw" /\ pc' = "withdrawn" /\ stack # <<>> /\ dirty' = Append(dirty, Top.at)
  BY DEF ReportNow, ReportInv, TrieInv, WithdrawHit, Calling, Return
<1>2. Top.at \in Idx
  BY <1>1, Running
<1>3. \A i \in Live' \ {Top.at} : i \in Live /\ node'[i] = node[i]
  BY <1>1, HitNodes
<1>4. Changed' \subseteq Reported'
  BY <1>1, <1>2, <1>3, ReportedOne, ChangesReported
<1> QED
  BY <1>1, <1>4 DEF ReportInv

LEMMA ReportKept ==
  TrieInv /\ TrieInv' /\ ReportInv /\ [HistoryNext]_<<vars, historyVars>> => ReportInv'
<1> SUFFICES ASSUME TrieInv, TrieInv', ReportInv, [HistoryNext]_<<vars, historyVars>>
             PROVE  ReportInv'
  OBVIOUS
<1>1. ReportNow
  BY DEF ReportNow
<1>2. CASE HistoryCall
  <2>1. node' = node /\ before' = node
    BY <1>2 DEF HistoryCall, InsertCall, WithdrawCall, SweepCall, Arrive
  <2>2. Changed' = {}
    BY <2>1 DEF Changed, Live
  <2> QED
    BY <2>1, <2>2 DEF ReportInv
<1>3. CASE UNCHANGED <<vars, historyVars>>
  BY <1>3 DEF vars, historyVars, ReportInv, Changed, Reported, Live
<1>4. CASE HistoryStep
  <2>1. CASE pc' \in {"idle", "poisoned"}
    BY <2>1 DEF ReportInv
  <2>2. CASE pc' \notin {"idle", "poisoned"}
    <3>1. before' = before
      BY <1>4, <2>2 DEF HistoryStep
    <3>2. CASE InsertFirst \/ InsertReannounce \/ InsertGraft \/ InsertSplice \/ InsertSplit
      BY <1>1, <3>1, <3>2, InsertReports
    <3>3. CASE InsertUnwind \/ WithdrawUnwind
      BY <1>1, <3>1, <3>3, UnwindReports
    <3>4. CASE WithdrawHit
      BY <1>1, <3>1, <3>4, HitReports
    <3>5. CASE SweepCollapse
      BY <1>1, <3>1, <3>5, CollapseReports
    <3>6. CASE \/ InsertDescend \/ WithdrawDescend \/ WithdrawMiss
               \/ SweepVisit \/ SweepKeep \/ SweepDone
      <4>1. /\ node' = node /\ dirty' = dirty /\ pc \notin {"idle", "poisoned"}
            /\ pc' \in {"insert", "withdraw"} => pc \in {"insert", "withdraw"}
        BY <3>6 DEF InsertDescend, WithdrawDescend, WithdrawMiss, SweepVisit, SweepKeep,
           SweepDone, Calling
      <4>2. Changed' = Changed /\ Reported' = Reported
        BY <3>1, <4>1 DEF Changed, Reported, Live
      <4> QED
        BY <3>1, <4>1, <4>2 DEF ReportInv
    <3>7. ~(InsertFull \/ InsertSplitFull \/ InsertReturn \/ WithdrawReturn \/ SweepReturn)
      BY <2>2 DEF InsertFull, InsertSplitFull, InsertReturn, WithdrawReturn, SweepReturn, Forget
    <3> QED
      BY <1>4, <3>2, <3>3, <3>4, <3>5, <3>6, <3>7 DEF HistoryStep, Step
  <2> QED
    BY <2>1, <2>2
<1> QED
  BY <1>2, <1>3, <1>4 DEF HistoryNext

\* The history adds to the trie and takes nothing from it.
LEMMA HistoryRunsTrie == [HistoryNext]_<<vars, historyVars>> => [Next]_vars
BY DEF HistoryNext, HistoryCall, HistoryStep, Next, Call

LEMMA HistoryTrieInv == HistorySpec => []TrieInv
<1>1. HistoryInit => TrieInv
  BY InitTrieInv DEF HistoryInit
<1> QED
  BY <1>1, HistoryRunsTrie, StepTrieInv, PTL DEF HistorySpec

\* When a call finishes, every slot whose bytes it changed and that the trie still
\* uses has been reported to the dirty callback, through however many frames.
THEOREM AllChangesReported == HistorySpec => []EveryChangeReported
<1>1. HistoryInit => ReportInv
  BY DEF HistoryInit, Init, ReportInv
<1>2. ReportInv => EveryChangeReported
  BY DEF ReportInv, EveryChangeReported, Finished
<1> QED
  BY <1>1, <1>2, ReportKept, HistoryTrieInv, PTL DEF HistorySpec

-----------------------------------------------------------------------------
(***************************************************************************)
(* The timestamps.  While a call unwinds, the one edge on which a child    *)
(* may be later than its parent is that of the running frame, and only     *)
(* while the outcome it took says that the timestamp still advances.       *)
(***************************************************************************)

Rising(i, b) ==
  /\ pc \in {"inserted", "withdrawn"}
  /\ stack # <<>>
  /\ ret.advanced
  /\ Top = [at |-> i, slot |-> b]

Heap ==
  \A i \in Live, b \in Bit :
    Kid(i, b) # None => Rising(i, b) \/ node[Kid(i, b)].ts <= node[i].ts

Timely == \A i \in Live : node[i].ts <= latest

\* While timestamps are handed out in order, that of the call in progress is
\* the latest there is.
OnTime ==
  /\ Timely
  /\ pc \in {"insert", "inserted", "withdraw", "withdrawn"} => now = latest
  /\ Heap

HeapInv == latest \in Nat /\ (ordered /\ pc # "poisoned" => OnTime)

\* The pointers of every node but the running frame's are those it holds.
LEMMA OthersKids ==
  ASSUME TrieInv, pc # "poisoned", stack # <<>>, NEW i \in Live \ {Top.at}, NEW b \in Bit
  PROVE  /\ Kid(i, b) = node[i].children[b]
         /\ ~Rising(i, b)
         /\ KidMap[i][b] = Kid(i, b)
         /\ Kid(i, b) # None => Kid(i, b) \in Live
<1>1. Top \in Frame
  BY Running
<1>2. Top # [at |-> i, slot |-> b]
  BY <1>1, FrameEqual
<1>3. KidMap[i][b] = Kid(i, b)
  BY DEF KidMap
<1>4. KidMap[i][b] # None => KidMap[i][b] \in Live
  BY DEF TrieInv, ShapeOK, Shape, EdgesDown
<1> QED
  BY <1>2, <1>3, <1>4 DEF Kid, Rising

\* The frame above the running one is at the slot that leads to it.
LEMMA ParentFrame ==
  ASSUME TrieInv, pc # "poisoned", stack # <<>>, stack' = Pop,
         NEW i \in Live \ {Top.at}, NEW b \in Bit, node[i].children[b] = Top.at
  PROVE  stack' # <<>> /\ Top' = [at |-> i, slot |-> b]
<1> DEFINE n == Len(stack)
           a == stack[n - 1]
<1>1. /\ n \in Nat \ {0}
      /\ Len(stack') = n - 1
      /\ \A k \in 1 .. n - 1 : stack'[k] = stack[k]
      /\ Top.at \in Live
      /\ Top.at # None
      /\ Top = stack[n]
  BY Running, TreeAssumption DEF Top
<1>2. KidMap[i][b] = Top.at
  BY OthersKids
<1>3. /\ Top.at # Entry
      /\ \A j \in Live, c \in Bit : KidMap[j][c] = Top.at => j = i /\ c = b
  BY <1>1, <1>2, OneParent DEF TrieInv, ShapeOK
<1>4. n # 1
  <2>1. Entry = root
    BY DEF Entry
  <2> QED
    BY <1>1, <1>3, <2>1 DEF TrieInv, PathOK
<1>5. /\ n - 1 \in 1 .. n - 1
      /\ n - 1 + 1 = n
      /\ stack' # <<>>
  BY <1>1, <1>4
<1>6. Top' = a
  BY <1>1, <1>5 DEF Top
<1>7. /\ a \in Frame
      /\ a.at \in Live \ {Top.at}
      /\ a.slot \in Bit
      /\ node[a.at].children[a.slot] = Top.at
  BY <1>1, <1>5, LowerFrames DEF TrieInv, PathOK
<1> HIDE DEF a
<1>8. KidMap[a.at][a.slot] = Top.at
  BY <1>7, OthersKids
<1>9. a.at = i /\ a.slot = b
  BY <1>3, <1>7, <1>8
<1> QED
  BY <1>5, <1>6, <1>7, <1>9, FrameEqual

\* A frame returns.  What it allocates or touches is as late as can be, or its
\* node is just as it was; and the frame above it is left with a child that is no
\* later than before, or is told that it advances.
Returned ==
  /\ \A i \in Live \ {Top.at} : node'[i].ts = node[i].ts
  /\ \A i \in Live' \ Live : node'[i].ts = latest
  /\ \/ node'[Top.at].ts = latest
     \/ /\ node'[Top.at].ts = Here.ts
        /\ \A i \in {Top.at}, b \in Bit : Kid(i, b)' = Kid(i, b) /\ ~Rising(i, b)
  /\ \A i \in Live \ {Top.at}, b \in Bit :
       node[i].children[b] # Top.at => Kid(i, b)' = node[i].children[b]
  /\ \A i \in Live \ {Top.at}, b \in Bit :
       node[i].children[b] = Top.at =>
         ret'.advanced \/ node'[Kid(i, b)'].ts <= Here.ts

LEMMA KidsLive ==
  ASSUME TrieInv, pc # "poisoned", NEW i \in Live, NEW b \in Bit, Kid(i, b) # None
  PROVE  Kid(i, b) \in Live
<1>1. KidMap[i][b] = Kid(i, b)
  BY DEF KidMap
<1>2. KidMap[i][b] # None => KidMap[i][b] \in Live
  BY DEF TrieInv, ShapeOK, Shape, EdgesDown
<1> QED
  BY <1>1, <1>2

LEMMA KidsLiveNext ==
  ASSUME TrieInv', pc' # "poisoned", NEW i \in Live', NEW b \in Bit, Kid(i, b)' # None
  PROVE  Kid(i, b)' \in Live'
<1>1. KidMap'[i][b] = Kid(i, b)'
  BY DEF KidMap
<1>2. KidMap'[i][b] # None => KidMap'[i][b] \in Live'
  BY DEF TrieInv, ShapeOK, Shape, EdgesDown
<1> QED
  BY <1>1, <1>2

LEMMA HeapReturned ==
  ASSUME TrieInv, TrieInv', OnTime, stack # <<>>, stack' = Pop, Live \subseteq Live',
         pc \in {"insert", "inserted", "withdraw", "withdrawn"}, latest \in Nat,
         pc' \in {"inserted", "withdrawn"}, now' = now, latest' = latest, Returned
  PROVE  OnTime'
<1> DEFINE t == Top.at
<1>1. t \in Live /\ pc # "poisoned" /\ Here = node[t] /\ Here.ts \in Nat
  BY Running DEF Here
<1>2. /\ \A i \in Live : node[i].ts \in Nat /\ node[i].ts <= latest
      /\ \A i \in Live' : node'[i].ts \in Nat
  BY DEF TrieInv, TypeOK, Node, OnTime, Timely
<1>3. now' = latest'
  BY DEF OnTime
<1>4. \A i \in Live' : node'[i].ts <= latest
  <2>1. ASSUME NEW i \in Live'
        PROVE  node'[i].ts <= latest
    <3>1. i \in Live \ {t} \/ i = t \/ i \in Live' \ Live
      OBVIOUS
    <3> QED
      BY <1>1, <1>2, <3>1 DEF Returned
  <2> QED
    BY <2>1
<1>5. ASSUME NEW i \in Live', NEW b \in Bit, Kid(i, b)' # None
      PROVE  Rising(i, b)' \/ node'[Kid(i, b)'].ts <= node'[i].ts
  <2>1. Kid(i, b)' \in Live'
    BY <1>5, KidsLiveNext
  <2>2. CASE node'[i].ts = latest
    BY <1>4, <2>1, <2>2
  <2>3. CASE i = t /\ node'[i].ts # latest
    <3>1. i \in Live /\ node'[i].ts = node[i].ts /\ Kid(i, b)' = Kid(i, b) /\ ~Rising(i, b)
      BY <1>1, <2>3 DEF Returned
    <3>2. Kid(i, b) \in Live /\ node[Kid(i, b)].ts <= node[i].ts
      BY <1>1, <1>5, <3>1, KidsLive DEF OnTime, Heap
    <3>3. CASE Kid(i, b) = i
      BY <1>2, <3>1, <3>3
    <3>4. CASE Kid(i, b) # i
      <4>1. node'[Kid(i, b)].ts = node[Kid(i, b)].ts
        BY <2>3, <3>2, <3>4 DEF Returned
      <4> QED
        BY <3>1, <3>2, <4>1
    <3> QED
      BY <3>3, <3>4
  <2>4. CASE i \in Live \ {t}
    <3>1. /\ Kid(i, b) = node[i].children[b]
          /\ Kid(i, b) # None => /\ Kid(i, b) \in Live
                                 /\ node[Kid(i, b)].ts <= node[i].ts
      <4>1. /\ Kid(i, b) = node[i].children[b] /\ ~Rising(i, b)
            /\ Kid(i, b) # None => Kid(i, b) \in Live
        BY <1>1, <2>4, OthersKids
      <4> QED
        BY <2>4, <4>1 DEF OnTime, Heap
    <3>2. node'[i].ts = node[i].ts
      BY <2>4 DEF Returned
    <3>3. CASE node[i].children[b] = t
      <4>1. Top' = [at |-> i, slot |-> b] /\ stack' # <<>>
        BY <1>1, <2>4, <3>3, ParentFrame
      <4>2. ret'.advanced \/ node'[Kid(i, b)'].ts <= Here.ts
        BY <2>4, <3>3 DEF Returned
      <4>3. Here.ts <= node[i].ts
        BY <1>1, <3>1, <3>3, TreeAssumption DEF TrieInv, TypeOK
      <4>4. CASE ret'.advanced
        BY <4>1, <4>4 DEF Rising
      <4>5. CASE node'[Kid(i, b)'].ts <= Here.ts
        BY <1>1, <1>2, <1>5, <2>1, <2>4, <3>2, <4>3, <4>5
      <4> QED
        BY <4>2, <4>4, <4>5
    <3>4. CASE node[i].children[b] # t
      <4>1. Kid(i, b)' = node[i].children[b]
        BY <2>4, <3>4 DEF Returned
      <4>2. node[i].children[b] \in Live \ {t} /\ node[node[i].children[b]].ts <= node[i].ts
        BY <1>5, <3>1, <3>4, <4>1
      <4>3. node'[node[i].children[b]].ts = node[node[i].children[b]].ts
        BY <4>2 DEF Returned
      <4> QED
        BY <3>2, <4>1, <4>2, <4>3
    <3> QED
      BY <3>3, <3>4
  <2>5. i \in Live' \ Live => node'[i].ts = latest
    BY DEF Returned
  <2> QED
    BY <1>5, <2>2, <2>3, <2>4, <2>5
<1>6. Heap'
  BY <1>5 DEF Heap
<1>7. Timely'
  BY <1>4 DEF Timely
<1> QED
  BY <1>3, <1>6, <1>7 DEF OnTime

\* A node stamped with the call's timestamp is the latest there is.
LEMMA StampLatest ==
  ASSUME TrieInv, OnTime, stack # <<>>, latest \in Nat,
         pc \in {"insert", "inserted", "withdraw", "withdrawn"}
  PROVE  /\ now = latest /\ Here.ts \in Nat /\ Here.ts <= latest
         /\ Later(Here.ts, now) = latest /\ Later(now, Here.ts) = latest
         /\ ~(now > Here.ts) => Here.ts = latest
<1>1. now = latest /\ Here.ts \in Nat /\ Here.ts <= latest
  BY Running DEF OnTime, Timely, Here
<1> QED
  BY <1>1 DEF Later

LEMMA InsertReturned ==
  ASSUME TrieInv, OnTime, latest \in Nat,
         InsertReannounce \/ InsertGraft \/ InsertSplice \/ InsertSplit
  PROVE  /\ stack # <<>> /\ stack' = Pop /\ Live \subseteq Live'
         /\ pc = "insert" /\ pc' = "inserted" /\ now' = now
         /\ Returned
<1> DEFINE t == Top.at
<1>1. /\ pc = "insert" /\ stack # <<>> /\ stack' = Pop /\ pc' = "inserted"
      /\ now' = now /\ root' = root
  BY DEF InsertReannounce, InsertGraft, InsertSplice, InsertSplit, Calling, Return
<1> DEFINE rises == now > Here.ts
<1>2. rises => ret'.advanced
  <2> HIDE DEF rises
  <2>1. PICK s, l : ret' = [subroot |-> s, target |-> l, advanced |-> rises, found |-> TRUE]
    BY Zenon DEF InsertReannounce, InsertGraft, InsertSplice, InsertSplit, Return, rises
  <2> QED
    BY <2>1
<1>3. /\ now = latest /\ Later(Here.ts, now) = latest /\ Later(now, Here.ts) = latest
      /\ ~(now > Here.ts) => Here.ts = latest
      /\ Leaf.ts = now
  BY <1>1, StampLatest DEF Leaf
<1>4. t \in Live /\ Here = node[t]
  BY <1>1, Running DEF Here
<1>5. \A i, b : ~Rising(i, b)
  BY <1>1 DEF Rising
<1> HIDE DEF t
<1>6. ASSUME NEW s, ret'.subroot = s, node'[s].ts = latest, Live \subseteq Live',
             \A i \in Live \ {t} : node'[i] = node[i],
             \A i \in Live' \ Live : node'[i].ts = latest,
             \/ node'[t].ts = latest
             \/ /\ node'[t] = node[t]
                /\ \A b \in Bit : node[t].children[b] # t
      PROVE  Returned
  <2>1. \A i \in Live, b \in Bit :
          Kid(i, b)' = IF node[i].children[b] = t THEN s ELSE node'[i].children[b]
    BY <1>1, <1>6, KidsReturned DEF t
  <2>2. \A i \in Live, b \in Bit : Kid(i, b) = node[i].children[b]
    BY <1>1 DEF Kid, Calling
  <2>3. \A i \in Live \ {t} : node'[i].ts = node[i].ts
    BY <1>6
  <2>4. \/ node'[t].ts = latest
        \/ /\ node'[t].ts = Here.ts
           /\ \A i \in {t}, b \in Bit : Kid(i, b)' = Kid(i, b) /\ ~Rising(i, b)
    <3>1. CASE node'[t].ts = latest
      BY <3>1
    <3>2. CASE node'[t] = node[t] /\ \A b \in Bit : node[t].children[b] # t
      <4>1. ASSUME NEW i \in {t}, NEW b \in Bit
            PROVE  Kid(i, b)' = Kid(i, b) /\ ~Rising(i, b)
        <5>1. i \in Live /\ node'[i] = node[i] /\ node[i].children[b] # t
          BY <1>4, <3>2
        <5> QED
          BY <1>5, <2>1, <2>2, <5>1
      <4> QED
        BY <1>4, <3>2, <4>1
    <3> QED
      BY <1>6, <3>1, <3>2
  <2>5. \A i \in Live \ {t}, b \in Bit :
          node[i].children[b] # t => Kid(i, b)' = node[i].children[b]
    BY <1>6, <2>1
  <2>6. ret'.advanced \/ node'[s].ts <= Here.ts
    BY <1>3, <1>2, <1>6
  <2>7. \A i \in Live \ {t}, b \in Bit :
          node[i].children[b] = t => ret'.advanced \/ node'[Kid(i, b)'].ts <= Here.ts
    BY <2>1, <2>6
  <2> QED
    BY <1>6, <2>3, <2>4, <2>5, <2>7 DEF Returned, t
<1>7. \A b \in Bit : node[t].children[b] # t
  <2>1. \A b \in Bit : KidMap[t][b] = node[t].children[b] /\ Pfx[t] \in Prefix
    BY <1>1, <1>4 DEF KidMap, Kid, Calling, TrieInv, ShapeOK, Shape
  <2>2. \A b \in Bit : KidMap[t][b] = t => StrictlyCovers(Pfx[t], Pfx[t])
    BY <1>1, <1>4, TreeAssumption DEF TrieInv, TypeOK, ShapeOK, Shape, EdgesDown
  <2> QED
    BY <2>1, <2>2 DEF StrictlyCovers
<1>8. CASE InsertReannounce
  <2>1. ret'.subroot = t
    BY <1>8 DEF InsertReannounce, Return, t
  <2>2. /\ Live' = Live /\ \A i \in Live \ {t} : node'[i] = node[i]
        /\ node'[t].ts = latest
    BY <1>3, <1>8, ReannouncedNodes DEF t
  <2> QED
    BY <1>1, <1>6, <2>1, <2>2
<1>9. CASE InsertGraft
  <2>1. PICK leaf \in Idx \ Live :
          /\ node' = Extended([node EXCEPT ![Top.at].children[Toward] = leaf,
                                           ![Top.at].ts = Later(@, now)], leaf, Leaf)
          /\ ret' = [subroot |-> Top.at, target |-> leaf,
                     advanced |-> now > Here.ts, found |-> TRUE]
    BY <1>9 DEF InsertGraft, Return
  <2>2. /\ Live' = Live \cup {leaf} /\ \A i \in Live \ {t} : node'[i] = node[i]
        /\ node'[leaf] = Leaf /\ node'[t].ts = latest
    BY <1>3, <1>9, <2>1, GraftedNodes DEF InsertGraft, t
  <2>3. ret'.subroot = t
    BY <2>1 DEF t
  <2> QED
    BY <1>1, <1>3, <1>6, <2>2, <2>3
<1>10. CASE InsertSplice
  <2>1. PICK new \in Idx \ Live :
          /\ node' = Extended(node, new,
                [Leaf EXCEPT !.children[BitAt(Here.prefix, Len(key))] = Top.at,
                             !.ts = Later(now, Here.ts)])
          /\ ret'.subroot = new
    BY <1>10 DEF InsertSplice, Return
  <2>2. /\ Live' = Live \cup {new} /\ \A i \in Live : node'[i] = node[i]
        /\ node'[new].ts = latest
    BY <1>3, <1>10, <2>1, SplicedNodes DEF InsertSplice
  <2> QED
    BY <1>1, <1>4, <1>6, <1>7, <2>1, <2>2
<1>11. CASE InsertSplit
  <2>1. PICK leaf \in Idx \ Live, split \in Idx \ Live :
          /\ leaf # split
          /\ node' = Extended(Extended(node, leaf, Leaf), split, Fork(leaf))
          /\ ret'.subroot = split
    BY <1>11 DEF InsertSplit, Return
  <2>2. /\ Live' = Live \cup {leaf, split} /\ \A i \in Live : node'[i] = node[i]
        /\ node'[leaf] = Leaf /\ node'[split].ts = latest
    BY <1>3, <1>11, <2>1, SplitNodes DEF InsertSplit
  <2> QED
    BY <1>1, <1>3, <1>4, <1>6, <1>7, <2>1, <2>2
<1>12. Live \subseteq Live'
  BY DEF InsertReannounce, InsertGraft, InsertSplice, InsertSplit, Extended, Live
<1> QED
  BY <1>1, <1>8, <1>9, <1>10, <1>11, <1>12

\* An ancestor takes the timestamp if that advances it, and passes on whether.
LEMMA UnwindReturned ==
  ASSUME TrieInv, TrieInv', OnTime, latest \in Nat, InsertUnwind \/ WithdrawUnwind
  PROVE  /\ stack # <<>> /\ stack' = Pop /\ Live' = Live
         /\ pc \in {"inserted", "withdrawn"} /\ pc' = pc /\ now' = now
         /\ Returned
<1> DEFINE t == Top.at
           rises == ret.advanced /\ now > Here.ts
           ts == IF ret.advanced THEN Later(Here.ts, now) ELSE Here.ts
<1>1. /\ pc \in {"inserted", "withdrawn"} /\ stack # <<>> /\ stack' = Pop /\ pc' = pc
      /\ now' = now /\ root' = root
  BY DEF InsertUnwind, WithdrawUnwind, Calling, Return
<1>2. rises => ret'.advanced
  <2>1. ret \in Outcome
    BY DEF TrieInv, TypeOK
  <2> HIDE DEF rises
  <2>2. CASE InsertUnwind
    <3>1. ret' = [ret EXCEPT !.subroot = Top.at, !.advanced = rises]
      BY <2>2, Zenon DEF InsertUnwind, Return, rises
    <3> QED
      BY <2>1, <3>1 DEF Outcome
  <2>3. CASE WithdrawUnwind
    <3>1. ret' = [ret EXCEPT !.advanced = rises]
      BY <2>3, Zenon DEF WithdrawUnwind, Return, rises
    <3> QED
      BY <2>1, <3>1 DEF Outcome
  <2> QED
    BY <2>2, <2>3
<1>3. /\ Here.ts \in Nat /\ Here.ts <= latest
      /\ ret.advanced => ts = latest
      /\ ~ret.advanced => ts = Here.ts
      /\ ~rises => ts = Here.ts
  BY <1>1, StampLatest
<1>4. t \in Live /\ Here = node[t]
  BY <1>1, Running DEF Here
<1>5. /\ Live' = Live /\ \A i \in Live \ {t} : node'[i] = node[i]
      /\ node'[t].ts = ts
  BY UnwoundNodes, TouchedNodes
<1> HIDE DEF t, ts, rises
<1>6. \A i \in Live, b \in Bit : Kid(i, b)' = Kid(i, b)
  <2>1. CASE InsertUnwind
    BY <2>1, KidsUnwound
  <2>2. CASE WithdrawUnwind
    <3>1. pc = "withdrawn" /\ pc' = "withdrawn"
      BY <2>2 DEF WithdrawUnwind, Calling, Return
    <3>2. \A i \in Live : node'[i].children = node[i].children
      BY <2>2, TouchedNodes
    <3> QED
      BY <3>1, <3>2 DEF Kid, Calling
  <2> QED
    BY <2>1, <2>2
<1>7. \A i \in Live \ {t}, b \in Bit : Kid(i, b)' = node[i].children[b]
  <2>1. \A i \in Live \ {t}, b \in Bit : Kid(i, b) = node[i].children[b]
    BY <1>1, OthersKids DEF t
  <2> QED
    BY <1>6, <2>1
<1>8. \/ node'[t].ts = latest
      \/ /\ node'[t].ts = Here.ts
         /\ \A i \in {t}, b \in Bit : Kid(i, b)' = Kid(i, b) /\ ~Rising(i, b)
  <2>1. CASE ret.advanced
    BY <1>3, <1>5, <2>1
  <2>2. CASE ~ret.advanced
    <3>1. \A i, b : ~Rising(i, b)
      BY <2>2 DEF Rising
    <3> QED
      BY <1>3, <1>4, <1>5, <1>6, <2>2, <3>1
  <2> QED
    BY <2>1, <2>2
<1>9. ASSUME NEW i \in Live \ {t}, NEW b \in Bit, node[i].children[b] = t
      PROVE  ret'.advanced \/ node'[Kid(i, b)'].ts <= Here.ts
  <2>1. Kid(i, b)' = t
    BY <1>7, <1>9
  <2>2. ~rises => node'[t].ts <= Here.ts
    BY <1>3, <1>5
  <2> QED
    BY <1>2, <2>1, <2>2
<1> QED
  BY <1>1, <1>5, <1>7, <1>8, <1>9 DEF Returned, t

LEMMA HitReturned ==
  ASSUME TrieInv, TrieInv', OnTime, latest \in Nat, WithdrawHit
  PROVE  /\ stack # <<>> /\ stack' = Pop /\ Live' = Live
         /\ pc = "withdraw" /\ pc' = "withdrawn" /\ now' = now
         /\ Returned
<1> DEFINE t == Top.at
           rises == now > Here.ts
<1>1. /\ pc = "withdraw" /\ stack # <<>> /\ stack' = Pop /\ pc' = "withdrawn"
      /\ now' = now
  BY DEF WithdrawHit, Calling, Return
<1>2. rises => ret'.advanced
  <2> HIDE DEF rises
  <2>1. ret' = [Pending EXCEPT !.advanced = rises, !.found = TRUE]
    BY Zenon DEF WithdrawHit, Return, rises
  <2> QED
    BY <2>1 DEF Pending
<1>3. now = latest /\ (~rises => Here.ts = latest) /\ latest <= latest
  BY <1>1, StampLatest
<1>4. /\ Live' = Live /\ \A i \in Live \ {t} : node'[i] = node[i]
      /\ \A i \in Live : node'[i].children = node[i].children
      /\ node'[t].ts = latest
  BY <1>3, HitNodes
<1> HIDE DEF t, rises
<1>5. \A i, b : Kid(i, b)' = node'[i].children[b]
  BY <1>1 DEF Kid, Calling
<1>6. ASSUME NEW i \in Live \ {t}, NEW b \in Bit, node[i].children[b] = t
      PROVE  ret'.advanced \/ node'[Kid(i, b)'].ts <= Here.ts
  BY <1>2, <1>3, <1>4, <1>5, <1>6
<1> QED
  BY <1>1, <1>4, <1>5, <1>6 DEF Returned, t

LEMMA FirstOnTime ==
  ASSUME TrieInv, OnTime, latest \in Nat, latest' = latest, InsertFirst
  PROVE  OnTime'
<1>1. /\ pc = "insert" /\ stack = <<>> /\ stack' = <<>> /\ pc' = "inserted" /\ now' = now
      /\ now = latest
  BY DEF InsertFirst, OnTime
<1>2. Live = {}
  BY <1>1, ShapeMeansTrie DEF TrieInv, DescentOK, TrieOK, RootCovers, Entry
<1>3. PICK leaf \in Idx : node' = Extended(node, leaf, Leaf)
  BY DEF InsertFirst
<1>4. /\ Live' = {leaf} /\ node'[leaf].ts = now
      /\ \A b \in Bit : node'[leaf].children[b] = None
  BY <1>2, <1>3 DEF Extended, Live, Leaf, Childless
<1>5. \A i, b : Kid(i, b)' = node'[i].children[b]
  BY <1>1 DEF Kid, Calling
<1> QED
  BY <1>1, <1>4, <1>5 DEF OnTime, Timely, Heap

\* A collapse joins two edges on which timestamps fall.
LEMMA CollapseOnTime ==
  ASSUME TrieInv, TrieInv', OnTime, latest \in Nat, latest' = latest, SweepCollapse
  PROVE  OnTime'
<1> DEFINE t == Top.at
           child == OnlyChild(Here)
           n == Len(stack)
           a == stack[n - 1]
<1>1. pc = "sweep" /\ pc' = "sweep" /\ stack # <<>>
  BY DEF SweepCollapse, Calling
<1>2. t \in Live /\ Here = node[t]
  BY <1>1, Running DEF Here
<1>3. child = node[t].children[0] \/ child = node[t].children[1]
  BY <1>2 DEF OnlyChild
<1>4. /\ Live' = Live \ {t}
      /\ \A i \in Live', b \in Bit : node'[i].children[b] =
           IF node[i].children[b] = t THEN child ELSE node[i].children[b]
  BY Reclaimed
<1>5. \A i \in Live' : node'[i].ts = node[i].ts
  <2>1. \/ node' = Without(node, t)
        \/ node' = Without([node EXCEPT ![a.at].children[a.slot] = child], t)
    BY DEF SweepCollapse
  <2> HIDE DEF t, child, n, a
  <2>2. \A i \in Live : node[i] \in Node
    BY DEF TrieInv, TypeOK
  <2> DEFINE spliced == [node EXCEPT ![a.at].children[a.slot] = child]
  <2>3. DOMAIN spliced = Live /\ \A i \in Live : spliced[i].ts = node[i].ts
    BY <2>2 DEF Live, Node
  <2> HIDE DEF spliced
  <2>4. CASE node' = Without(node, t)
    BY <1>4, <2>4 DEF Without, Live
  <2>5. CASE node' = Without(spliced, t)
    BY <1>4, <2>3, <2>5 DEF Without
  <2> QED
    BY <2>1, <2>4, <2>5 DEF spliced
<1> HIDE DEF t, child
<1>6. /\ \A i \in Live : node[i].ts \in Nat /\ node[i].ts <= latest
  BY DEF OnTime, Timely, TrieInv, TypeOK, Node
<1>7. ASSUME NEW i \in Live, NEW b \in Bit, node[i].children[b] # None
      PROVE  /\ node[i].children[b] \in Live
             /\ node[node[i].children[b]].ts <= node[i].ts
  <2>1. Kid(i, b) = node[i].children[b] /\ ~Rising(i, b)
    BY <1>1 DEF Kid, Calling, Rising
  <2> QED
    BY <1>1, <1>7, <2>1, KidsLive DEF OnTime, Heap
<1>8. child # None => child \in Live /\ node[child].ts <= node[t].ts
  <2>1. 0 \in Bit /\ 1 \in Bit
    BY DEF Bit
  <2> QED
    BY <1>2, <1>3, <1>7, <2>1
<1>9. ASSUME NEW i \in Live', NEW b \in Bit, Kid(i, b)' # None
      PROVE  node'[Kid(i, b)'].ts <= node'[i].ts
  <2>1. Kid(i, b)' = node'[i].children[b] /\ Kid(i, b)' \in Live'
    BY <1>1, <1>9, KidsLiveNext DEF Kid, Calling
  <2>2. i \in Live /\ node'[i].ts = node[i].ts /\ node'[Kid(i, b)'].ts = node[Kid(i, b)'].ts
    BY <1>4, <1>5, <2>1
  <2>3. CASE node[i].children[b] = t
    <3>1. Kid(i, b)' = child
      BY <1>4, <2>1, <2>3
    <3>2. t # None
      BY <1>2, TreeAssumption DEF TrieInv, TypeOK
    <3>3. node[t].ts <= node[i].ts
      BY <1>7, <2>2, <2>3, <3>2
    <3>4. node[child].ts <= node[t].ts /\ child \in Live
      BY <1>8, <1>9, <3>1
    <3> QED
      BY <1>2, <1>6, <2>2, <3>1, <3>3, <3>4
  <2>4. CASE node[i].children[b] # t
    <3>1. Kid(i, b)' = node[i].children[b]
      BY <1>4, <2>1, <2>4
    <3> QED
      BY <1>7, <1>9, <2>2, <3>1
  <2> QED
    BY <2>3, <2>4
<1>10. Heap'
  BY <1>9 DEF Heap
<1>11. Timely'
  BY <1>4, <1>5, <1>6 DEF Timely
<1> QED
  BY <1>1, <1>10, <1>11 DEF OnTime

\* Steps that leave the nodes alone, with no edge rising before or after.
LEMMA StillOnTime ==
  ASSUME TrieInv, OnTime, latest \in Nat, latest' \in Nat, latest <= latest', node' = node,
         pc \notin {"inserted", "withdrawn"} \/ stack = <<>>,
         pc' \notin {"inserted", "withdrawn"} \/ stack' = <<>>,
         pc' \in {"insert", "inserted", "withdraw", "withdrawn"} => now' = latest'
  PROVE  OnTime'
<1>1. \A i, b : /\ ~Rising(i, b) /\ ~Rising(i, b)'
                /\ Kid(i, b)' = node[i].children[b] /\ Kid(i, b) = node[i].children[b]
  BY DEF Rising, Kid, Calling
<1>2. Live' = Live /\ \A i \in Live : node[i].ts \in Nat
  BY DEF Live, TrieInv, TypeOK, Node
<1>3. Heap'
  BY <1>1, <1>2 DEF OnTime, Heap
<1>4. Timely'
  BY <1>2 DEF OnTime, Timely
<1> QED
  BY <1>3, <1>4 DEF OnTime

LEMMA HeapStep ==
  ASSUME TrieInv, TrieInv', OnTime, latest \in Nat, latest' = latest, Step,
         pc' # "poisoned"
  PROVE  OnTime'
<1>1. CASE InsertReannounce \/ InsertGraft \/ InsertSplice \/ InsertSplit
  BY <1>1, InsertReturned, HeapReturned
<1>2. CASE InsertUnwind \/ WithdrawUnwind
  BY <1>2, UnwindReturned, HeapReturned
<1>3. CASE WithdrawHit
  BY <1>3, HitReturned, HeapReturned
<1>4. CASE InsertFirst
  BY <1>4, FirstOnTime
<1>5. CASE SweepCollapse
  BY <1>5, CollapseOnTime
<1>6. CASE \/ InsertDescend \/ WithdrawDescend \/ WithdrawMiss
           \/ SweepVisit \/ SweepKeep \/ SweepDone
           \/ InsertReturn \/ WithdrawReturn \/ SweepReturn
  <2>1. /\ node' = node
        /\ pc \notin {"inserted", "withdrawn"} \/ stack = <<>>
        /\ pc' \notin {"inserted", "withdrawn"} \/ stack' = <<>>
        /\ pc' \in {"insert", "inserted", "withdraw", "withdrawn"} =>
             now' = now /\ pc \in {"insert", "inserted", "withdraw", "withdrawn"}
    BY <1>6 DEF InsertDescend, WithdrawDescend, WithdrawMiss, SweepVisit, SweepKeep,
       SweepDone, InsertReturn, WithdrawReturn, SweepReturn, Forget, Calling
  <2>2. pc' \in {"insert", "inserted", "withdraw", "withdrawn"} => now' = latest'
    BY <2>1 DEF OnTime
  <2> QED
    BY <2>1, <2>2, StillOnTime
<1>7. ~(InsertFull \/ InsertSplitFull)
  BY DEF InsertFull, InsertSplitFull
<1> QED
  BY <1>1, <1>2, <1>3, <1>4, <1>5, <1>6, <1>7 DEF Step

\* A call in order has the latest timestamp; one out of order ends the promise.
LEMMA HeapCalled ==
  ASSUME TrieInv, HeapInv, HistoryCall
  PROVE  HeapInv'
<1>1. CASE \E p \in Keys, t \in Timestamps :
             (InsertCall(p, t) \/ WithdrawCall(p, t)) /\ Arrive(t)
  <2>1. PICK p \in Keys, t \in Timestamps :
          (InsertCall(p, t) \/ WithdrawCall(p, t)) /\ Arrive(t)
    BY <1>1
  <2>2. /\ pc = "idle" /\ pc' \in {"insert", "withdraw"} /\ node' = node /\ now' = t
        /\ latest' = Later(t, latest) /\ ordered' = (ordered /\ t >= latest)
    BY <2>1 DEF InsertCall, WithdrawCall, Arrive
  <2>3. t \in Nat /\ latest \in Nat
    BY TreeAssumption DEF HeapInv
  <2>4. latest' \in Nat /\ (t >= latest => latest' = t)
    BY <2>2, <2>3 DEF Later
  <2>5. CASE ordered /\ t >= latest
    <3>1. OnTime /\ latest <= latest' /\ now' = latest'
      BY <2>2, <2>3, <2>4, <2>5 DEF HeapInv
    <3>2. OnTime'
      BY <2>2, <2>3, <2>4, <3>1, StillOnTime
    <3> QED
      BY <2>4, <3>2 DEF HeapInv
  <2>6. CASE ~(ordered /\ t >= latest)
    <3>1. ~ordered'
      BY <2>2, <2>6
    <3> QED
      BY <2>4, <3>1 DEF HeapInv
  <2> QED
    BY <2>5, <2>6
<1>2. CASE SweepCall /\ UNCHANGED <<latest, ordered>>
  <2>1. /\ pc = "idle" /\ pc' = "sweep" /\ node' = node
        /\ latest' = latest /\ ordered' = ordered
    BY <1>2 DEF SweepCall
  <2>2. latest \in Nat /\ latest <= latest'
    BY <2>1 DEF HeapInv
  <2>3. ordered => OnTime'
    BY <2>1, <2>2, StillOnTime DEF HeapInv
  <2> QED
    BY <2>1, <2>2, <2>3 DEF HeapInv
<1> QED
  BY <1>1, <1>2 DEF HistoryCall

LEMMA HeapKept ==
  TrieInv /\ TrieInv' /\ HeapInv /\ [HistoryNext]_<<vars, historyVars>> => HeapInv'
<1> SUFFICES ASSUME TrieInv, TrieInv', HeapInv, [HistoryNext]_<<vars, historyVars>>
             PROVE  HeapInv'
  OBVIOUS
<1>1. CASE HistoryCall
  BY <1>1, HeapCalled
<1>2. CASE HistoryStep
  <2>1. Step /\ latest' = latest /\ ordered' = ordered
    BY <1>2 DEF HistoryStep
  <2>2. pc # "poisoned"
    BY <2>1 DEF Step, InsertFirst, InsertReannounce, InsertDescend, InsertGraft,
       InsertSplice, InsertSplit, InsertFull, InsertSplitFull, InsertUnwind, InsertReturn,
       WithdrawDescend, WithdrawHit, WithdrawMiss, WithdrawUnwind, WithdrawReturn,
       SweepVisit, SweepKeep, SweepCollapse, SweepDone, SweepReturn, Calling
  <2> QED
    BY <2>1, <2>2, HeapStep DEF HeapInv
<1>3. CASE UNCHANGED <<vars, historyVars>>
  BY <1>3 DEF vars, historyVars, HeapInv, OnTime, Timely, Heap, Kid, Rising, Calling, Top,
     Live
<1> QED
  BY <1>1, <1>2, <1>3 DEF HistoryNext

\* As long as timestamps arrive in order, between calls no node's timestamp is
\* below one of its children's, although propagation stops at the first ancestor
\* that does not advance.
THEOREM AncestorsAreLatest == HistorySpec => []MaxToRootInOrder
<1>1. HistoryInit => HeapInv
  BY DEF HistoryInit, Init, HeapInv, OnTime, Timely, Heap, Live
<1>2. TrieInv /\ HeapInv => MaxToRootInOrder
  <2> SUFFICES ASSUME TrieInv, HeapInv, ordered, pc = "idle",
                      NEW i \in Live, NEW b \in Bit, node[i].children[b] # None
               PROVE  node[i].ts >= node[node[i].children[b]].ts
    BY DEF MaxToRootInOrder, MaxToRoot
  <2>1. Kid(i, b) = node[i].children[b] /\ ~Rising(i, b)
    BY DEF Kid, Rising, Calling
  <2>2. node[node[i].children[b]].ts <= node[i].ts
    BY <2>1 DEF HeapInv, OnTime, Heap
  <2>3. node[i].children[b] \in Live
    BY <2>1, KidsLive
  <2> QED
    BY <2>2, <2>3 DEF TrieInv, TypeOK, Node
<1> QED
  BY <1>1, <1>2, HeapKept, HistoryTrieInv, PTL DEF HistorySpec

=============================================================================

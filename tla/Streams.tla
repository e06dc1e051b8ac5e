------------------------------ MODULE Streams ------------------------------
(***************************************************************************)
(* What the stream combinators of the code (filter, filter_map, flatten)   *)
(* do with the items they are given, as functions defined by recursion,    *)
(* and the laws they obey.  Those rest on induction and recursion over an  *)
(* interval of numbers, stated for sets and functions.                     *)
(***************************************************************************)
EXTENDS WellFoundedInduction, SequenceTheorems, TLAPS

\* The items of s that are in T, in their order.
Keep(s, T) ==
  LET upTo[k \in 0 .. Len(s)] ==
        IF k = 0 THEN <<>>
        ELSE IF s[k] \in T THEN Append(upTo[k - 1], s[k])
        ELSE upTo[k - 1]
  IN  upTo[Len(s)]

\* The items of the items of s.
Flatten(s) ==
  LET upTo[k \in 0 .. Len(s)] == IF k = 0 THEN <<>> ELSE upTo[k - 1] \o s[k]
  IN  upTo[Len(s)]

-----------------------------------------------------------------------------
\* Induction and recursion.

\* A set of natural numbers that is not empty has a least element.
LEMMA NaturalMinimum ==
  ASSUME NEW S \in SUBSET Nat, S # {}
  PROVE  \E x \in S : \A y \in S : x <= y
<1> DEFINE R == {ss \in Nat \X Nat : ss[1] < ss[2]}
<1>1. R = OpToRel(<, Nat)
  BY Zenon DEF OpToRel
<1>2. IsWellFoundedOn(R, Nat)
  BY <1>1, NatLessThanWellFounded, Zenon
<1>3. ASSUME NEW x \in Nat, NEW y \in Nat, <<y, x>> \notin R
      PROVE  x <= y
  BY <1>3
<1> HIDE DEF R
<1>4. \E x \in S : \A y \in S : <<y, x>> \notin R
  BY <1>2, WFMin
<1> QED
  BY <1>3, <1>4

\* Induction up to n: what holds of 0 and of k when it holds of k - 1.
LEMMA IntervalInduction ==
  ASSUME NEW n \in Nat, NEW D \in SUBSET (0 .. n), 0 \in D,
         \A k \in 1 .. n : k - 1 \in D => k \in D
  PROVE  D = 0 .. n
<1> DEFINE C == (0 .. n) \ D
<1>1. SUFFICES ASSUME C # {} PROVE FALSE
  OBVIOUS
<1>2. PICK x \in C : \A y \in C : x <= y
  <2>1. C \in SUBSET Nat
    OBVIOUS
  <2> HIDE DEF C
  <2> QED
    BY <1>1, <2>1, NaturalMinimum
<1>3. x \in 1 .. n /\ x - 1 \in 0 .. n
  BY <1>2
<1>4. x - 1 \in D
  BY <1>2, <1>3
<1> QED
  BY <1>2, <1>3, <1>4

\* g starts at b and goes on by F.
Follows(g, n, b, F) == g[0] = b /\ \A k \in 1 .. n : g[k] = F[k][g[k - 1]]

\* Recursion up to n: there is a function with a first value and a step.
LEMMA IntervalRecursion ==
  ASSUME NEW S, NEW n, NEW b, NEW F, n \in Nat, b \in S, F \in [1 .. n -> [S -> S]]
  PROVE  \E g \in [0 .. n -> S] : Follows(g, n, b, F)
<1> USE DEF Follows
<1> DEFINE OK(m, g) == g[0] = b /\ \A k \in 1 .. m : g[k] = F[k][g[k - 1]]
           D == {m \in 0 .. n : \E g \in [0 .. m -> S] : OK(m, g)}
<1>1. 0 \in D
  <2> DEFINE h == [k \in 0 .. 0 |-> b]
  <2>1. h \in [0 .. 0 -> S] /\ OK(0, h) /\ 0 \in 0 .. n
    OBVIOUS
  <2> HIDE DEF h, OK
  <2> QED
    BY <2>1
<1>2. ASSUME NEW m \in 1 .. n, m - 1 \in D
      PROVE  m \in D
  <2>1. PICK g \in [0 .. m - 1 -> S] : OK(m - 1, g)
    BY <1>2
  <2> DEFINE h == [k \in 0 .. m |-> IF k = m THEN F[m][g[m - 1]] ELSE g[k]]
  <2>2. g[m - 1] \in S /\ F[m][g[m - 1]] \in S
    OBVIOUS
  <2>3. h \in [0 .. m -> S]
    BY <2>2
  <2>4. h[0] = b
    BY <2>1
  <2>5. ASSUME NEW k \in 1 .. m
        PROVE  h[k] = F[k][h[k - 1]]
    <3>1. CASE k = m
      <4>1. m \in 0 .. m /\ m - 1 \in 0 .. m /\ m - 1 # m
        OBVIOUS
      <4>2. h[m] = F[m][g[m - 1]] /\ h[m - 1] = g[m - 1]
        BY <4>1
      <4> QED
        BY <3>1, <4>2
    <3>2. CASE k # m
      <4>1. k \in 1 .. m - 1 /\ k - 1 # m /\ k \in 0 .. m /\ k - 1 \in 0 .. m
        BY <3>2
      <4> QED
        BY <2>1, <3>2, <4>1
    <3> QED
      BY <3>1, <3>2
  <2>6. OK(m, h)
    BY <2>4, <2>5
  <2> HIDE DEF h, OK
  <2> QED
    BY <2>3, <2>6
<1> HIDE DEF D
<1>3. D = 0 .. n
  <2>1. D \in SUBSET (0 .. n)
    BY DEF D
  <2> QED
    BY <1>1, <1>2, <2>1, IntervalInduction
<1> QED
  BY <1>3 DEF D

-----------------------------------------------------------------------------
\* Prefixes of sequences.

LEMMA Initial ==
  ASSUME NEW S, NEW s \in Seq(S), NEW k \in 0 .. Len(s)
  PROVE  /\ SubSeq(s, 1, k) \in Seq(S)
         /\ Len(SubSeq(s, 1, k)) = k
         /\ \A j \in 1 .. k : SubSeq(s, 1, k)[j] = s[j]
         /\ k = 0 => SubSeq(s, 1, k) = <<>>
         /\ k = Len(s) => SubSeq(s, 1, k) = s
         /\ k > 0 => SubSeq(s, 1, k) = Append(SubSeq(s, 1, k - 1), s[k])
  OBVIOUS

\* Induction over sequences: what holds of the empty one and of s with one more
\* item when it holds of s.
LEMMA SequenceInduction ==
  ASSUME NEW S, NEW D, <<>> \in D,
         \A s \in Seq(S), x \in S : s \in D => Append(s, x) \in D
  PROVE  Seq(S) \subseteq D
<1> SUFFICES ASSUME NEW s \in Seq(S) PROVE s \in D
  OBVIOUS
<1> DEFINE E == {k \in 0 .. Len(s) : SubSeq(s, 1, k) \in D}
<1>1. 0 \in E
  <2>1. 0 \in 0 .. Len(s) /\ SubSeq(s, 1, 0) = <<>>
    BY SubSeqEmpty
  <2> QED
    BY <2>1
<1>2. ASSUME NEW k \in 1 .. Len(s), k - 1 \in E
      PROVE  k \in E
  <2>1. s[k] \in S /\ k - 1 \in 0 .. Len(s) /\ k \in 0 .. Len(s) /\ k > 0
    OBVIOUS
  <2>2. PICK v \in Seq(S) : v = SubSeq(s, 1, k - 1) /\ SubSeq(s, 1, k) = Append(v, s[k])
    BY <2>1, Initial
  <2>3. v \in D
    BY <1>2, <2>2
  <2> QED
    BY <2>1, <2>2, <2>3
<1>3. E = 0 .. Len(s)
  <2>1. E \in SUBSET (0 .. Len(s)) /\ Len(s) \in Nat
    OBVIOUS
  <2> HIDE DEF E
  <2> QED
    BY <1>1, <1>2, <2>1, IntervalInduction
<1>4. Len(s) \in E
  <2>1. Len(s) \in 0 .. Len(s)
    OBVIOUS
  <2> QED
    BY <1>3, <2>1
<1>5. SubSeq(s, 1, Len(s)) \in D
  BY <1>4
<1> QED
  BY <1>5, SubSeqFull

\* Concatenation and Append as names: a prover takes the operators apart, and then
\* does not see an instance of a law about them.
Join(s, t) == s \o t
Snoc(s, x) == Append(s, x)

LEMMA JoinTypes ==
  ASSUME NEW S, NEW s \in Seq(S), NEW t \in Seq(S), NEW x \in S
  PROVE  Join(s, t) \in Seq(S) /\ Snoc(s, x) \in Seq(S)
  BY DEF Join, Snoc

LEMMA JoinEmpty ==
  ASSUME NEW S, NEW s \in Seq(S)
  PROVE  Join(s, <<>>) = s /\ Join(<<>>, s) = s
  BY DEF Join

LEMMA JoinSnoc ==
  ASSUME NEW S, NEW s \in Seq(S), NEW t \in Seq(S), NEW x \in S
  PROVE  Join(s, Snoc(t, x)) = Snoc(Join(s, t), x)
  BY DEF Join, Snoc

LEMMA JoinAssociative ==
  ASSUME NEW S, NEW s \in Seq(S), NEW t \in Seq(S), NEW u \in Seq(S)
  PROVE  Join(Join(s, t), u) = Join(s, Join(t, u))
  BY DEF Join

LEMMA SnocInduction ==
  ASSUME NEW S, NEW D, <<>> \in D,
         \A s \in Seq(S), x \in S : s \in D => Snoc(s, x) \in D
  PROVE  Seq(S) \subseteq D
  BY SequenceInduction DEF Snoc

LEMMA HeadFirst ==
  ASSUME NEW S, NEW s \in Seq(S), s # <<>>
  PROVE  s = <<Head(s)>> \o Tail(s)
<1>1. /\ <<Head(s)>> \in Seq(S) /\ Tail(s) \in Seq(S)
      /\ Len(<<Head(s)>>) = 1 /\ <<Head(s)>>[1] = s[1]
      /\ Len(Tail(s)) = Len(s) - 1 /\ \A i \in 1 .. Len(Tail(s)) : Tail(s)[i] = s[i + 1]
  OBVIOUS
<1> DEFINE t == <<Head(s)>> \o Tail(s)
<1>2. t \in Seq(S) /\ Len(t) = Len(s) /\ Len(s) \in Nat
  BY <1>1, ConcatProperties
<1>3. ASSUME NEW i \in 1 .. Len(s)
      PROVE  s[i] = t[i]
  BY <1>1, ConcatProperties
<1> HIDE DEF t
<1>4. s = t
  BY <1>2, <1>3, SeqEqual
<1> QED
  BY <1>4 DEF t

-----------------------------------------------------------------------------
\* The items that are kept.

\* g holds what Keep has of s so far.
Keeps(g, s, T) ==
  /\ g[0] = <<>>
  /\ \A k \in 1 .. Len(s) : g[k] = IF s[k] \in T THEN Append(g[k - 1], s[k]) ELSE g[k - 1]

LEMMA KeepUnfolds ==
  ASSUME NEW S, NEW s \in Seq(S), NEW T
  PROVE  \E g \in [0 .. Len(s) -> Seq(S \cap T)] : Keeps(g, s, T) /\ Keep(s, T) = g[Len(s)]
<1> DEFINE Q == Seq(S \cap T)
           F == [k \in 1 .. Len(s) |-> [t \in Q |-> IF s[k] \in T THEN Append(t, s[k]) ELSE t]]
           UpTo(g) == [k \in 0 .. Len(s) |->
                         IF k = 0 THEN <<>>
                         ELSE IF s[k] \in T THEN Append(g[k - 1], s[k])
                         ELSE g[k - 1]]
<1>1. F \in [1 .. Len(s) -> [Q -> Q]]
  OBVIOUS
<1>2. PICK g \in [0 .. Len(s) -> Q] :
        g[0] = <<>> /\ \A k \in 1 .. Len(s) : g[k] = F[k][g[k - 1]]
  <2> DEFINE b == <<>>
             n == Len(s)
  <2>1. b \in Q /\ n \in Nat /\ F \in [1 .. n -> [Q -> Q]]
    BY <1>1
  <2> HIDE DEF F, Q, b, n
  <2>2. \E g \in [0 .. n -> Q] : Follows(g, n, b, F)
    BY <2>1, IntervalRecursion
  <2> QED
    BY <2>2 DEF Follows, b, n
<1>3. ASSUME NEW k \in 1 .. Len(s)
      PROVE  g[k] = IF s[k] \in T THEN Append(g[k - 1], s[k]) ELSE g[k - 1]
  <2>1. k - 1 \in 0 .. Len(s)
    OBVIOUS
  <2>2. g[k - 1] \in Q
    BY <1>2, <2>1
  <2> QED
    BY <1>2, <2>2
<1>4. g = UpTo(g)
  <2>1. ASSUME NEW k \in 0 .. Len(s)
        PROVE  g[k] = IF k = 0 THEN <<>>
                      ELSE IF s[k] \in T THEN Append(g[k - 1], s[k])
                      ELSE g[k - 1]
    <3>1. CASE k = 0
      BY <1>2, <3>1
    <3>2. CASE k # 0
      <4>1. k \in 1 .. Len(s)
        BY <3>2
      <4> QED
        BY <1>3, <3>2, <4>1
    <3> QED
      BY <3>1, <3>2
  <2> QED
    BY <1>2, <2>1
<1> DEFINE c == CHOOSE f : f = UpTo(f)
<1>5. c = UpTo(c)
  <2> HIDE DEF UpTo
  <2> QED
    BY <1>4
<1>6. Keep(s, T) = c[Len(s)]
  BY DEF Keep
<1> HIDE DEF c
<1>7. c[0] = <<>>
  BY <1>5
<1>8. ASSUME NEW k \in 1 .. Len(s)
      PROVE  c[k] = IF s[k] \in T THEN Append(c[k - 1], s[k]) ELSE c[k - 1]
  <2>1. k \in 0 .. Len(s) /\ k # 0
    OBVIOUS
  <2>2. UpTo(c)[k] = IF s[k] \in T THEN Append(c[k - 1], s[k]) ELSE c[k - 1]
    BY <2>1
  <2> QED
    BY <1>5, <2>2
<1>9. \A k \in 0 .. Len(s) : g[k] = c[k]
  <2> DEFINE D == {k \in 0 .. Len(s) : g[k] = c[k]}
  <2>1. 0 \in D
    BY <1>2, <1>7
  <2>2. \A k \in 1 .. Len(s) : k - 1 \in D => k \in D
    BY <1>3, <1>8
  <2> HIDE DEF D
  <2>3. D = 0 .. Len(s)
    <3>1. D \in SUBSET (0 .. Len(s))
      BY DEF D
    <3> QED
      BY <2>1, <2>2, <3>1, IntervalInduction
  <2> QED
    BY <2>3 DEF D
<1> QED
  BY <1>2, <1>3, <1>6, <1>9 DEF Keeps

LEMMA KeepType ==
  ASSUME NEW S, NEW s \in Seq(S), NEW T
  PROVE  Keep(s, T) \in Seq(S \cap T) /\ Keep(s, T) \in Seq(S)
<1>1. Keep(s, T) \in Seq(S \cap T)
  BY KeepUnfolds
<1> QED
  BY <1>1

LEMMA KeepEmpty ==
  ASSUME NEW T
  PROVE  Keep(<<>>, T) = <<>>
<1> DEFINE e == <<>>
<1>1. e \in Seq({}) /\ Len(e) = 0
  OBVIOUS
<1> HIDE DEF e
<1>2. PICK g \in [0 .. Len(e) -> Seq({} \cap T)] : Keeps(g, e, T) /\ Keep(e, T) = g[Len(e)]
  BY <1>1, KeepUnfolds
<1> QED
  BY <1>1, <1>2 DEF Keeps, e

LEMMA KeepAppend ==
  ASSUME NEW S, NEW s \in Seq(S), NEW x \in S, NEW T
  PROVE  Keep(Append(s, x), T) = IF x \in T THEN Append(Keep(s, T), x) ELSE Keep(s, T)
<1> DEFINE z == Append(s, x)
           n == Len(s)
           D(g, h) == {k \in 0 .. n : g[k] = h[k]}
<1>1. /\ z \in Seq(S) /\ Len(z) = n + 1 /\ z[n + 1] = x /\ n \in Nat
      /\ \A k \in 1 .. n : z[k] = s[k]
  OBVIOUS
<1> HIDE DEF z, n
<1>2. PICK g \in [0 .. Len(s) -> Seq(S \cap T)] : Keeps(g, s, T) /\ Keep(s, T) = g[Len(s)]
  BY KeepUnfolds
<1>3. PICK h \in [0 .. Len(z) -> Seq(S \cap T)] : Keeps(h, z, T) /\ Keep(z, T) = h[Len(z)]
  BY <1>1, KeepUnfolds
<1>4. 0 \in D(g, h)
  BY <1>1, <1>2, <1>3 DEF Keeps
<1>5. ASSUME NEW k \in 1 .. n, k - 1 \in D(g, h)
      PROVE  k \in D(g, h)
  <2>1. k \in 1 .. n + 1 /\ g[k - 1] = h[k - 1] /\ z[k] = s[k]
    BY <1>1, <1>5
  <2>2. g[k] = IF s[k] \in T THEN Append(g[k - 1], s[k]) ELSE g[k - 1]
    BY <1>2 DEF Keeps, n
  <2>3. h[k] = IF z[k] \in T THEN Append(h[k - 1], z[k]) ELSE h[k - 1]
    BY <1>1, <1>3, <2>1 DEF Keeps
  <2> QED
    BY <2>1, <2>2, <2>3
<1>6. D(g, h) = 0 .. n
  <2>1. D(g, h) \in SUBSET (0 .. n)
    OBVIOUS
  <2> HIDE DEF D
  <2> QED
    BY <1>1, <1>4, <1>5, <2>1, IntervalInduction
<1>7. g[n] = h[n]
  <2>1. n \in 0 .. n
    BY <1>1
  <2>2. n \in D(g, h)
    BY <1>6, <2>1
  <2> QED
    BY <2>2
<1>8. Keep(z, T) = IF x \in T THEN Append(h[n], x) ELSE h[n]
  <2>1. n + 1 \in 1 .. Len(z) /\ (n + 1) - 1 = n
    <3>1. n \in Nat /\ Len(z) = n + 1
      BY <1>1
    <3> QED
      BY ONLY <3>1
  <2> QED
    BY <1>1, <1>3, <2>1 DEF Keeps
<1> QED
  BY <1>2, <1>7, <1>8 DEF z, n

LEMMA KeepSnoc ==
  ASSUME NEW S, NEW s \in Seq(S), NEW x \in S, NEW T
  PROVE  Keep(Snoc(s, x), T) = IF x \in T THEN Snoc(Keep(s, T), x) ELSE Keep(s, T)
  BY KeepAppend DEF Snoc

LEMMA KeepJoin ==
  ASSUME NEW S, NEW s \in Seq(S), NEW t \in Seq(S), NEW T
  PROVE  Keep(Join(s, t), T) = Join(Keep(s, T), Keep(t, T))
<1> DEFINE D == {u \in Seq(S) : Keep(Join(s, u), T) = Join(Keep(s, T), Keep(u, T))}
<1>1. <<>> \in D
  <2>1. <<>> \in Seq(S)
    OBVIOUS
  <2>2. Keep(s, T) \in Seq(S) /\ Keep(<<>>, T) = <<>>
    BY KeepType, KeepEmpty
  <2>3. Join(s, <<>>) = s /\ Join(Keep(s, T), <<>>) = Keep(s, T)
    BY <2>2, JoinEmpty
  <2>4. Keep(Join(s, <<>>), T) = Join(Keep(s, T), Keep(<<>>, T))
    BY <2>2, <2>3
  <2> QED
    BY <2>1, <2>4
<1>2. ASSUME NEW u \in Seq(S), NEW x \in S, u \in D
      PROVE  Snoc(u, x) \in D
  <2>1. Join(s, Snoc(u, x)) = Snoc(Join(s, u), x) /\ Snoc(u, x) \in Seq(S) /\ Join(s, u) \in Seq(S)
    BY JoinSnoc, JoinTypes
  <2>2. /\ Keep(Snoc(Join(s, u), x), T) =
             IF x \in T THEN Snoc(Keep(Join(s, u), T), x) ELSE Keep(Join(s, u), T)
        /\ Keep(Snoc(u, x), T) = IF x \in T THEN Snoc(Keep(u, T), x) ELSE Keep(u, T)
    BY <2>1, KeepSnoc
  <2>3. Keep(Join(s, u), T) = Join(Keep(s, T), Keep(u, T))
    BY <1>2
  <2>4. Join(Keep(s, T), Snoc(Keep(u, T), x)) = Snoc(Join(Keep(s, T), Keep(u, T)), x)
    <3>1. Keep(s, T) \in Seq(S) /\ Keep(u, T) \in Seq(S)
      BY KeepType
    <3> QED
      BY <3>1, JoinSnoc
  <2> QED
    BY <2>1, <2>2, <2>3, <2>4
<1> HIDE DEF D
<1>3. Seq(S) \subseteq D
  BY <1>1, <1>2, SnocInduction
<1> QED
  BY <1>3 DEF D

LEMMA KeepConcat ==
  ASSUME NEW S, NEW s \in Seq(S), NEW t \in Seq(S), NEW T
  PROVE  Keep(s \o t, T) = Keep(s, T) \o Keep(t, T)
  BY KeepJoin DEF Join

LEMMA KeepHead ==
  ASSUME NEW S, NEW s \in Seq(S), s # <<>>, NEW T
  PROVE  Keep(s, T) = IF Head(s) \in T THEN <<Head(s)>> \o Keep(Tail(s), T) ELSE Keep(Tail(s), T)
<1> DEFINE x == Head(s)
           e == <<>>
<1>1. /\ x \in S /\ e \in Seq(S) /\ <<x>> \in Seq(S) /\ Tail(s) \in Seq(S)
      /\ <<x>> = Append(e, x)
  OBVIOUS
<1>2. Keep(s, T) = Keep(<<x>>, T) \o Keep(Tail(s), T)
  <2> DEFINE y == <<x>>
             r == Tail(s)
  <2>1. s = y \o r
    BY HeadFirst
  <2>2. y \in Seq(S) /\ r \in Seq(S)
    BY <1>1
  <2> HIDE DEF y, r
  <2>3. Keep(y \o r, T) = Keep(y, T) \o Keep(r, T)
    BY <2>2, KeepConcat
  <2> QED
    BY <2>1, <2>3 DEF y, r
<1>3. Keep(Append(e, x), T) = IF x \in T THEN Append(e, x) ELSE e
  <2>1. Keep(e, T) = e
    BY KeepEmpty
  <2> HIDE DEF x, e
  <2> QED
    BY <1>1, <2>1, KeepAppend
<1>4. Keep(<<Head(s)>>, T) = IF Head(s) \in T THEN <<Head(s)>> ELSE <<>>
  BY <1>1, <1>3
<1>5. <<>> \o Keep(Tail(s), T) = Keep(Tail(s), T)
  BY <1>1, KeepType
<1> QED
  BY <1>2, <1>4, <1>5

LEMMA KeepAll ==
  ASSUME NEW S, NEW s \in Seq(S)
  PROVE  Keep(s, S) = s
<1> DEFINE D == {u \in Seq(S) : Keep(u, S) = u}
<1>1. <<>> \in D
  <2>1. <<>> \in Seq(S)
    OBVIOUS
  <2> QED
    BY <2>1, KeepEmpty
<1>2. ASSUME NEW u \in Seq(S), NEW x \in S, u \in D
      PROVE  Snoc(u, x) \in D
  <2>1. Keep(Snoc(u, x), S) = Snoc(Keep(u, S), x)
    BY KeepSnoc
  <2> QED
    BY <1>2, <2>1, JoinTypes
<1> HIDE DEF D
<1>3. Seq(S) \subseteq D
  BY <1>1, <1>2, SnocInduction
<1> QED
  BY <1>3 DEF D

-----------------------------------------------------------------------------
\* The items of the items.

\* g holds what Flatten has of s so far.
Flattens(g, s) == g[0] = <<>> /\ \A k \in 1 .. Len(s) : g[k] = Join(g[k - 1], s[k])

LEMMA FlattenUnfolds ==
  ASSUME NEW S, NEW s \in Seq(Seq(S))
  PROVE  \E g \in [0 .. Len(s) -> Seq(S)] : Flattens(g, s) /\ Flatten(s) = g[Len(s)]
<1> DEFINE Q == Seq(S)
           F == [k \in 1 .. Len(s) |-> [t \in Q |-> t \o s[k]]]
           UpTo(g) == [k \in 0 .. Len(s) |-> IF k = 0 THEN <<>> ELSE g[k - 1] \o s[k]]
<1>1. F \in [1 .. Len(s) -> [Q -> Q]]
  OBVIOUS
<1>2. PICK g \in [0 .. Len(s) -> Q] :
        g[0] = <<>> /\ \A k \in 1 .. Len(s) : g[k] = F[k][g[k - 1]]
  <2> DEFINE b == <<>>
             n == Len(s)
  <2>1. b \in Q /\ n \in Nat /\ F \in [1 .. n -> [Q -> Q]]
    BY <1>1
  <2> HIDE DEF F, Q, b, n
  <2>2. \E g \in [0 .. n -> Q] : Follows(g, n, b, F)
    BY <2>1, IntervalRecursion
  <2> QED
    BY <2>2 DEF Follows, b, n
<1>3. ASSUME NEW k \in 1 .. Len(s)
      PROVE  g[k] = Join(g[k - 1], s[k])
  <2>1. k - 1 \in 0 .. Len(s)
    OBVIOUS
  <2>2. g[k - 1] \in Q
    BY <1>2, <2>1
  <2> QED
    BY <1>2, <2>2 DEF Join
<1>4. g = UpTo(g)
  <2>1. ASSUME NEW k \in 0 .. Len(s)
        PROVE  g[k] = IF k = 0 THEN <<>> ELSE g[k - 1] \o s[k]
    <3>1. CASE k = 0
      BY <1>2, <3>1
    <3>2. CASE k # 0
      <4>1. k \in 1 .. Len(s)
        BY <3>2
      <4> QED
        BY <1>3, <3>2, <4>1 DEF Join
    <3> QED
      BY <3>1, <3>2
  <2> QED
    BY <1>2, <2>1
<1> DEFINE c == CHOOSE f : f = UpTo(f)
<1>5. c = UpTo(c)
  <2> HIDE DEF UpTo
  <2> QED
    BY <1>4
<1>6. Flatten(s) = c[Len(s)]
  BY DEF Flatten
<1> HIDE DEF c
<1>7. c[0] = <<>>
  BY <1>5
<1>8. ASSUME NEW k \in 1 .. Len(s)
      PROVE  c[k] = Join(c[k - 1], s[k])
  <2>1. k \in 0 .. Len(s) /\ k # 0
    OBVIOUS
  <2>2. UpTo(c)[k] = c[k - 1] \o s[k]
    BY <2>1
  <2> QED
    BY <1>5, <2>2 DEF Join
<1>9. \A k \in 0 .. Len(s) : g[k] = c[k]
  <2> DEFINE D == {k \in 0 .. Len(s) : g[k] = c[k]}
  <2>1. 0 \in D
    BY <1>2, <1>7
  <2>2. \A k \in 1 .. Len(s) : k - 1 \in D => k \in D
    BY <1>3, <1>8
  <2> HIDE DEF D
  <2>3. D = 0 .. Len(s)
    <3>1. D \in SUBSET (0 .. Len(s))
      BY DEF D
    <3> QED
      BY <2>1, <2>2, <3>1, IntervalInduction
  <2> QED
    BY <2>3 DEF D
<1> QED
  BY <1>2, <1>3, <1>6, <1>9 DEF Flattens

LEMMA FlattenType ==
  ASSUME NEW S, NEW s \in Seq(Seq(S))
  PROVE  Flatten(s) \in Seq(S)
<1> DEFINE n == Len(s)
           Q == Seq(S)
<1>1. n \in 0 .. n
  OBVIOUS
<1>2. PICK g \in [0 .. n -> Q] : Flatten(s) = g[n]
  BY FlattenUnfolds
<1> HIDE DEF n, Q
<1>3. g[n] \in Q
  BY <1>1, <1>2
<1> QED
  BY <1>2, <1>3 DEF Q

LEMMA FlattenEmpty ==
  Flatten(<<>>) = <<>>
<1> DEFINE e == <<>>
<1>1. e \in Seq(Seq({})) /\ Len(e) = 0
  OBVIOUS
<1> HIDE DEF e
<1>2. PICK g \in [0 .. Len(e) -> Seq({})] : Flattens(g, e) /\ Flatten(e) = g[Len(e)]
  BY <1>1, FlattenUnfolds
<1> QED
  BY <1>1, <1>2 DEF Flattens, e

LEMMA FlattenSnoc ==
  ASSUME NEW S, NEW s \in Seq(Seq(S)), NEW x \in Seq(S)
  PROVE  Flatten(Snoc(s, x)) = Join(Flatten(s), x)
<1> DEFINE z == Append(s, x)
           n == Len(s)
           D(g, h) == {k \in 0 .. n : g[k] = h[k]}
<1>1. /\ z \in Seq(Seq(S)) /\ Len(z) = n + 1 /\ z[n + 1] = x /\ n \in Nat
      /\ \A k \in 1 .. n : z[k] = s[k]
  OBVIOUS
<1> HIDE DEF z, n
<1>2. PICK g \in [0 .. Len(s) -> Seq(S)] : Flattens(g, s) /\ Flatten(s) = g[Len(s)]
  BY FlattenUnfolds
<1>3. PICK h \in [0 .. Len(z) -> Seq(S)] : Flattens(h, z) /\ Flatten(z) = h[Len(z)]
  BY <1>1, FlattenUnfolds
<1>4. 0 \in D(g, h)
  BY <1>1, <1>2, <1>3 DEF Flattens
<1>5. ASSUME NEW k \in 1 .. n, k - 1 \in D(g, h)
      PROVE  k \in D(g, h)
  <2>1. k \in 1 .. n + 1 /\ g[k - 1] = h[k - 1] /\ z[k] = s[k]
    BY <1>1, <1>5
  <2>2. g[k] = Join(g[k - 1], s[k])
    BY <1>2 DEF Flattens, n
  <2>3. h[k] = Join(h[k - 1], z[k])
    BY <1>1, <1>3, <2>1 DEF Flattens
  <2> QED
    BY <2>1, <2>2, <2>3
<1>6. D(g, h) = 0 .. n
  <2>1. D(g, h) \in SUBSET (0 .. n)
    OBVIOUS
  <2> HIDE DEF D
  <2> QED
    BY <1>1, <1>4, <1>5, <2>1, IntervalInduction
<1>7. g[n] = h[n]
  <2>1. n \in 0 .. n
    BY <1>1
  <2>2. n \in D(g, h)
    BY <1>6, <2>1
  <2> QED
    BY <2>2
<1>8. Flatten(z) = Join(h[n], x)
  <2>1. n + 1 \in 1 .. Len(z) /\ (n + 1) - 1 = n
    <3>1. n \in Nat /\ Len(z) = n + 1
      BY <1>1
    <3> QED
      BY ONLY <3>1
  <2> QED
    BY <1>1, <1>3, <2>1 DEF Flattens
<1> QED
  BY <1>2, <1>7, <1>8 DEF z, n, Snoc

LEMMA FlattenJoin ==
  ASSUME NEW S, NEW s \in Seq(Seq(S)), NEW t \in Seq(Seq(S))
  PROVE  Flatten(Join(s, t)) = Join(Flatten(s), Flatten(t))
<1> DEFINE Q == Seq(S)
           D == {u \in Seq(Q) : Flatten(Join(s, u)) = Join(Flatten(s), Flatten(u))}
<1>1. <<>> \in D
  <2>1. <<>> \in Seq(Q)
    OBVIOUS
  <2>2. Flatten(s) \in Seq(S)
    BY FlattenType
  <2>3. Join(s, <<>>) = s /\ Join(Flatten(s), <<>>) = Flatten(s)
    BY <2>2, JoinEmpty
  <2> QED
    BY <2>1, <2>3, FlattenEmpty
<1>2. ASSUME NEW u \in Seq(Q), NEW x \in Q, u \in D
      PROVE  Snoc(u, x) \in D
  <2>1. Join(s, Snoc(u, x)) = Snoc(Join(s, u), x) /\ Snoc(u, x) \in Seq(Q) /\ Join(s, u) \in Seq(Q)
    BY JoinSnoc, JoinTypes
  <2>2. /\ Flatten(Snoc(Join(s, u), x)) = Join(Flatten(Join(s, u)), x)
        /\ Flatten(Snoc(u, x)) = Join(Flatten(u), x)
    BY <2>1, FlattenSnoc
  <2>3. Flatten(Join(s, u)) = Join(Flatten(s), Flatten(u))
    BY <1>2
  <2>4. Join(Flatten(s), Join(Flatten(u), x)) = Join(Join(Flatten(s), Flatten(u)), x)
    <3>1. Flatten(s) \in Seq(S) /\ Flatten(u) \in Seq(S)
      BY FlattenType
    <3> QED
      BY <3>1, JoinAssociative
  <2> QED
    BY <2>1, <2>2, <2>3, <2>4
<1> HIDE DEF D
<1>3. Seq(Q) \subseteq D
  BY <1>1, <1>2, SnocInduction
<1> QED
  BY <1>3 DEF D

LEMMA FlattenOne ==
  ASSUME NEW S, NEW x \in Seq(S)
  PROVE  Flatten(<<x>>) = x
<1> DEFINE e == <<>>
<1>1. e \in Seq(Seq(S)) /\ <<x>> = Snoc(e, x)
  BY DEF Snoc
<1>2. Flatten(e) = <<>>
  BY FlattenEmpty
<1> HIDE DEF e
<1>3. Flatten(Snoc(e, x)) = Join(<<>>, x)
  BY <1>1, <1>2, FlattenSnoc
<1> QED
  BY <1>1, <1>3, JoinEmpty

=============================================================================

--------------------------- MODULE VecSlab_proofs ---------------------------
(***************************************************************************)
(* VecSlab keeps its free list sound for every capacity, so that its len   *)
(* is the number of held slots, its iterator meets each of them once, and  *)
(* it implements the abstract slab.                                        *)
(***************************************************************************)
EXTENDS VecSlab, Streams, FiniteSetTheorems

\* Nothing is parked twice or out of range: inductive as it stands.
SlabInv == TypeOK /\ FreeListSound

\* Only finitely many indices are held.
LEMMA HeldFinite ==
  ASSUME TypeOK
  PROVE  IsFiniteSet(Held)
<1>1. Len(entries) \in Nat
  BY DEF TypeOK
<1>2. IsFiniteSet(1 .. Len(entries))
  BY <1>1, FS_Interval
<1> QED
  BY <1>2, FS_Subset DEF Held

LEMMA FrontProperties ==
  ASSUME NEW S, NEW s \in Seq(S), s # <<>>
  PROVE  /\ Len(s) \in Nat \ {0}
         /\ SubSeq(s, 1, Len(s) - 1) \in Seq(S)
         /\ Len(SubSeq(s, 1, Len(s) - 1)) = Len(s) - 1
         /\ \A k \in 1 .. Len(s) - 1 : SubSeq(s, 1, Len(s) - 1)[k] = s[k]
<1>1. Len(s) \in Nat \ {0}
  OBVIOUS
<1> DEFINE n == Len(s) - 1
<1>2. /\ n \in Nat
      /\ Len(s) - 1 = n
      /\ \A i \in 1 .. n : s[i] \in S
  BY <1>1
<1> HIDE DEF n
<1>3. /\ SubSeq(s, 1, n) \in Seq(S)
      /\ Len(SubSeq(s, 1, n)) = IF 1 <= n THEN n - 1 + 1 ELSE 0
      /\ \A i \in 1 .. n - 1 + 1 : SubSeq(s, 1, n)[i] = s[1 + i - 1]
  BY <1>2, SubSeqProperties
<1>4. /\ Len(SubSeq(s, 1, n)) = n
      /\ \A i \in 1 .. n : SubSeq(s, 1, n)[i] = s[i]
  BY <1>2, <1>3
<1> QED
  BY <1>1, <1>2, <1>3, <1>4

\* Popping the free list gives an index of the vector that nobody holds.
LEMMA ReuseTakesLast ==
  ASSUME SlabInv, AllocReuse
  PROVE  LET x == freeList[Len(freeList)]
         IN  /\ freeList' \in Seq(1 .. Capacity)
             /\ Len(freeList') = Len(freeList) - 1
             /\ \A k \in 1 .. Len(freeList') : freeList'[k] = freeList[k]
             /\ x \in 1 .. Len(entries)
             /\ x \in 1 .. Capacity
             /\ Free' \subseteq Free
             /\ x \notin Held
             /\ Held' = Held \cup {x}
<1> DEFINE x == freeList[Len(freeList)]
<1>1. /\ Len(freeList) \in Nat \ {0}
      /\ freeList' \in Seq(1 .. Capacity)
      /\ Len(freeList') = Len(freeList) - 1
      /\ \A k \in 1 .. Len(freeList') : freeList'[k] = freeList[k]
  BY FrontProperties DEF AllocReuse, SlabInv, TypeOK
<1>2. Free = Free' \cup {x}
  BY <1>1 DEF Free
<1>3. x \in Free /\ x \notin Free'
  BY <1>1 DEF Free, SlabInv, FreeListSound
<1>4. x \in 1 .. Len(entries) /\ x \in 1 .. Capacity
  BY <1>1, <1>3, VecSlabAssumption DEF SlabInv, TypeOK, FreeListSound
<1>5. Held' = Held \cup {x} /\ x \notin Held
  BY <1>2, <1>3, <1>4 DEF AllocReuse, Held
<1> QED
  BY <1>1, <1>2, <1>4, <1>5

LEMMA InitSlabInv == Init => SlabInv
BY VecSlabAssumption DEF Init, SlabInv, TypeOK, FreeListSound, Free

LEMMA StepSlabInv == SlabInv /\ [Next]_vars => SlabInv'
<1> SUFFICES ASSUME SlabInv, [Next]_vars
             PROVE  SlabInv'
  OBVIOUS
<1> USE VecSlabAssumption DEF SlabInv, TypeOK, FreeListSound, Free
<1>1. CASE AllocReuse
  <2>1. /\ freeList' \in Seq(1 .. Capacity)
        /\ Len(freeList') = Len(freeList) - 1
        /\ \A k \in 1 .. Len(freeList') : freeList'[k] = freeList[k]
        /\ freeList[Len(freeList)] \in 1 .. Capacity
        /\ Free' \subseteq Free
    BY <1>1, ReuseTakesLast
  <2>2. TypeOK'
    BY <1>1, <2>1 DEF AllocReuse
  <2>3. \A k \in 1 .. Len(freeList') :
          k \in 1 .. Len(freeList) /\ freeList'[k] = freeList[k]
    <3>1. Len(freeList) \in Nat
      OBVIOUS
    <3> HIDE DEF SlabInv, TypeOK, FreeListSound, Free
    <3> QED
      BY <3>1, <2>1
  <2>4. \A j, k \in 1 .. Len(freeList') : freeList'[j] = freeList'[k] => j = k
    BY <2>3
  <2> QED
    BY <1>1, <2>1, <2>2, <2>4 DEF AllocReuse
<1>2. CASE AllocGrow
  BY <1>2 DEF AllocGrow, Exhausted
<1>3. CASE AllocNone
  BY <1>3 DEF AllocNone
<1>4. ASSUME NEW i \in 1 .. Capacity, FreeSlot(i)
      PROVE  SlabInv'
  <2>1. /\ freeList' = Append(freeList, i)
        /\ i \in 1 .. Len(entries) /\ i \notin Free
        /\ entries' = entries /\ got' = got
    BY <1>4 DEF FreeSlot, Held
  <2>2. /\ freeList' \in Seq(1 .. Capacity)
        /\ Len(freeList') = Len(freeList) + 1
        /\ freeList'[Len(freeList) + 1] = i
        /\ \A k \in 1 .. Len(freeList) : freeList'[k] = freeList[k]
    BY <2>1
  <2>3. \A k \in 1 .. Len(freeList') :
          \/ k \in 1 .. Len(freeList)
          \/ k = Len(freeList) + 1
    BY <2>2
  <2>4. Free' \subseteq Free \cup {i}
    <3>1. \A k \in 1 .. Len(freeList) : freeList[k] \in Free
      OBVIOUS
    <3>2. Free' = {freeList'[k] : k \in 1 .. Len(freeList')}
      OBVIOUS
    <3> HIDE DEF SlabInv, TypeOK, FreeListSound, Free
    <3>3. \A k \in 1 .. Len(freeList') : freeList'[k] \in Free \cup {i}
      BY <2>2, <2>3, <3>1
    <3> QED
      BY <3>2, <3>3
  <2>5. \A j, k \in 1 .. Len(freeList') : freeList'[j] = freeList'[k] => j = k
    <3>1. \A j, k \in 1 .. Len(freeList) : freeList[j] = freeList[k] => j = k
      OBVIOUS
    <3>2. \A k \in 1 .. Len(freeList) : freeList[k] # i
      BY <2>1
    <3> HIDE DEF SlabInv, TypeOK, FreeListSound, Free
    <3> QED
      BY <2>2, <2>3, <3>1, <3>2
  <2> QED
    BY <2>1, <2>2, <2>4, <2>5
<1>5. ASSUME NEW i \in 1 .. Capacity, NEW v \in Values, Write(i, v)
      PROVE  SlabInv'
  BY <1>5 DEF Write, Held
<1>6. CASE UNCHANGED vars
  BY <1>6 DEF vars
<1> QED
  BY <1>1, <1>2, <1>3, <1>4, <1>5, <1>6 DEF Next

\* The free list never holds an index twice nor one outside the vector, and the
\* vector never outgrows its capacity (VecSlab::alloc, VecSlab::free).
THEOREM SlabInvariant == Spec => []SlabInv
BY InitSlabInv, StepSlabInv, PTL DEF Spec

\* The part of it the model checker looks at: alloc never has an index on its
\* free list twice, so it never hands one slot to two holders.
THEOREM FreeListNeverRepeats == Spec => []FreeListSound
<1>1. SlabInv => FreeListSound
  BY DEF SlabInv
<1> QED
  BY <1>1, SlabInvariant, PTL

-----------------------------------------------------------------------------
\* len.  Each step changes both sides by the same amount.

CountInv == SlabInv /\ LenExact

LEMMA StepCountInv == CountInv /\ [Next]_vars => CountInv'
<1> SUFFICES ASSUME CountInv, [Next]_vars
             PROVE  LenExact'
  BY StepSlabInv DEF CountInv
<1>1. /\ SlabInv
      /\ SlabInv'
      /\ len = Cardinality(Held)
      /\ IsFiniteSet(Held)
      /\ Len(entries) \in Nat
      /\ Len(freeList) \in Nat
  BY StepSlabInv, HeldFinite DEF CountInv, LenExact, SlabInv, TypeOK
<1>2. CASE AllocReuse
  <2>1. /\ Len(freeList') = Len(freeList) - 1
        /\ Held' = Held \cup {freeList[Len(freeList)]}
        /\ freeList[Len(freeList)] \notin Held
    BY <1>1, <1>2, ReuseTakesLast
  <2>2. Cardinality(Held') = Cardinality(Held) + 1
    BY <1>1, <2>1, FS_AddElement
  <2> QED
    BY <1>1, <1>2, <2>1, <2>2 DEF AllocReuse, LenExact, len
<1>3. CASE AllocGrow
  <2>1. Held' = Held \cup {Len(entries) + 1} /\ Len(entries) + 1 \notin Held
    BY <1>1, <1>3 DEF AllocGrow, Held, Free, SlabInv, TypeOK
  <2>2. Cardinality(Held') = Cardinality(Held) + 1
    BY <1>1, <2>1, FS_AddElement
  <2>3. len' = len + 1
    BY <1>1, <1>3 DEF AllocGrow, len, SlabInv, TypeOK
  <2> QED
    BY <1>1, <2>2, <2>3 DEF LenExact
<1>4. CASE AllocNone
  BY <1>1, <1>4 DEF AllocNone, LenExact, len, Held, Free
<1>5. ASSUME NEW i \in 1 .. Capacity, FreeSlot(i)
      PROVE  LenExact'
  <2>1. Held' = Held \ {i} /\ i \in Held
    BY <1>1, <1>5 DEF FreeSlot, Held, Free, SlabInv, TypeOK
  <2>2. Cardinality(Held') = Cardinality(Held) - 1
    BY <1>1, <2>1, FS_RemoveElement
  <2>3. len' = len - 1
    BY <1>1, <1>5 DEF FreeSlot, len, SlabInv, TypeOK
  <2> QED
    BY <1>1, <2>2, <2>3 DEF LenExact
<1>6. ASSUME NEW i \in 1 .. Capacity, NEW v \in Values, Write(i, v)
      PROVE  LenExact'
  <2>1. Len(entries') = Len(entries)
    BY <1>1, <1>6 DEF Write, Held, SlabInv, TypeOK
  <2> QED
    BY <1>1, <1>6, <2>1 DEF Write, LenExact, len, Held, Free
<1>7. CASE UNCHANGED vars
  BY <1>1, <1>7 DEF vars, LenExact, len, Held, Free
<1> QED
  BY <1>2, <1>3, <1>4, <1>5, <1>6, <1>7 DEF Next

LEMMA InitCountInv == Init => CountInv
<1> SUFFICES ASSUME Init PROVE LenExact
  BY InitSlabInv DEF CountInv
<1>1. Held = {}
  BY DEF Init, Held
<1>2. len = 0
  BY DEF Init, len
<1> QED
  BY <1>1, <1>2, FS_EmptySet DEF LenExact

\* len, the difference of two lengths, is the number of slots the callers hold
\* (VecSlab::len, the trie's node_count).
THEOREM LenCountsHeld == Spec => []LenExact
<1>1. CountInv => LenExact
  BY DEF CountInv
<1> QED
  BY <1>1, InitCountInv, StepCountInv, PTL DEF Spec

-----------------------------------------------------------------------------
\* Iteration.  From each position on, what is yielded is what is held there.

\* v lists the held indices from k on, in order.
Lists(v, k) ==
  /\ v \in Seq(1 .. Len(entries))
  /\ {v[j] : j \in 1 .. Len(v)} = (k .. Len(entries)) \ Free
  /\ \A i, j \in 1 .. Len(v) : i < j => v[i] < v[j]

LEMMA ListsMore ==
  ASSUME Len(entries) \in Nat, NEW k \in 1 .. Len(entries), NEW v, Lists(v, k + 1)
  PROVE  Lists(IF k \in Free THEN v ELSE <<k>> \o v, k)
<1> DEFINE n == Len(entries)
<1>1. (k .. n) = {k} \cup (k + 1 .. n) /\ k \in 1 .. n
  OBVIOUS
<1>2. CASE k \in Free
  BY <1>1, <1>2 DEF Lists
<1>3. CASE k \notin Free
  <2> DEFINE w == <<k>> \o v
             m == Len(v)
  <2>1. v \in Seq(1 .. n) /\ m \in Nat /\ \A j \in 1 .. m : v[j] \in k + 1 .. n
    BY DEF Lists
  <2>2. /\ w \in Seq(1 .. n) /\ Len(w) = m + 1 /\ w[1] = k
        /\ \A j \in 2 .. m + 1 : w[j] = v[j - 1]
    BY <1>1, <2>1
  <2> HIDE DEF w, m
  <2>3. {w[j] : j \in 1 .. m + 1} = {k} \cup {v[j] : j \in 1 .. m}
    <3>1. ASSUME NEW j \in 1 .. m + 1
          PROVE  w[j] \in {k} \cup {v[i] : i \in 1 .. m}
      <4>1. CASE j = 1
        BY <2>2, <4>1
      <4>2. CASE j # 1
        <5>1. j \in 2 .. m + 1 /\ j - 1 \in 1 .. m
          BY <2>1, <4>2
        <5> QED
          BY <2>2, <5>1
      <4> QED
        BY <4>1, <4>2
    <3>2. ASSUME NEW j \in 1 .. m
          PROVE  v[j] \in {w[i] : i \in 1 .. m + 1}
      <4>1. j + 1 \in 2 .. m + 1 /\ j + 1 \in 1 .. m + 1 /\ j + 1 - 1 = j
        BY <2>1
      <4> QED
        BY <2>2, <4>1
    <3>3. 1 \in 1 .. m + 1
      BY <2>1
    <3> QED
      BY <2>2, <3>1, <3>2, <3>3
  <2>4. {w[j] : j \in 1 .. Len(w)} = (k .. n) \ Free
    BY <1>1, <1>3, <2>2, <2>3 DEF Lists, m
  <2>5. ASSUME NEW i \in 1 .. Len(w), NEW j \in 1 .. Len(w), i < j
        PROVE  w[i] < w[j]
    <3>1. /\ j \in 2 .. m + 1 /\ j - 1 \in 1 .. m
          /\ i # 1 => i \in 2 .. m + 1 /\ i - 1 \in 1 .. m /\ i - 1 < j - 1
      BY <2>1, <2>2, <2>5
    <3>2. v[j - 1] \in k + 1 .. n /\ w[j] = v[j - 1]
      BY <2>1, <2>2, <3>1
    <3>3. CASE i = 1
      BY <2>2, <3>2, <3>3
    <3>4. CASE i # 1
      <4>1. w[i] = v[i - 1] /\ v[i - 1] < v[j - 1]
        BY <2>2, <3>1, <3>4 DEF Lists, m
      <4> QED
        BY <3>2, <4>1
    <3> QED
      BY <3>3, <3>4
  <2>6. Lists(w, k)
    BY <2>2, <2>4, <2>5 DEF Lists
  <2> QED
    BY <1>3, <2>6 DEF w
<1> QED
  BY <1>2, <1>3

LEMMA IterationLists ==
  ASSUME TypeOK
  PROVE  Lists(Iterated, 1)
<1> DEFINE n == Len(entries)
           Q == Seq(1 .. n)
           UpTo(g) == [k \in 1 .. n + 1 |->
                         IF k > n THEN <<>>
                         ELSE IF k \in Free THEN g[k + 1]
                         ELSE <<k>> \o g[k + 1]]
           F == [m \in 1 .. n |-> [t \in Q |->
                   IF n + 1 - m \in Free THEN t ELSE <<n + 1 - m>> \o t]]
<1>1. n \in Nat
  BY DEF TypeOK
<1>2. F \in [1 .. n -> [Q -> Q]]
  <2>1. ASSUME NEW m \in 1 .. n, NEW t \in Q
        PROVE  <<n + 1 - m>> \o t \in Q
    <3>1. n + 1 - m \in 1 .. n
      BY <1>1
    <3> QED
      BY <3>1
  <2> HIDE DEF Q
  <2> QED
    BY <2>1
<1>3. PICK g \in [0 .. n -> Q] :
        g[0] = <<>> /\ \A m \in 1 .. n : g[m] = F[m][g[m - 1]]
  <2> DEFINE b == <<>>
  <2>1. b \in Q
    OBVIOUS
  <2> HIDE DEF F, Q, b, n
  <2>2. \E g \in [0 .. n -> Q] : Follows(g, n, b, F)
    BY <1>1, <1>2, <2>1, IntervalRecursion
  <2> QED
    BY <2>2 DEF Follows, b
<1> DEFINE h == [k \in 1 .. n + 1 |-> g[n + 1 - k]]
<1>4. h = UpTo(h)
  <2>1. ASSUME NEW k \in 1 .. n + 1
        PROVE  h[k] = IF k > n THEN <<>>
                      ELSE IF k \in Free THEN h[k + 1]
                      ELSE <<k>> \o h[k + 1]
    <3>1. CASE k > n
      <4>1. n + 1 - k = 0
        BY <1>1, <3>1
      <4> QED
        BY <1>3, <3>1, <4>1
    <3>2. CASE ~(k > n)
      <4>1. PICK m \in 1 .. n : m = n + 1 - k
        <5>1. n + 1 - k \in 1 .. n
          BY <1>1, <3>2
        <5> HIDE DEF n
        <5> QED
          BY <5>1
      <4>2. /\ k + 1 \in 1 .. n + 1 /\ n + 1 - (k + 1) = m - 1
            /\ m - 1 \in 0 .. n /\ n + 1 - m = k
        BY <1>1, <4>1
      <4>3. h[k] = g[m] /\ h[k + 1] = g[m - 1] /\ g[m - 1] \in Q
        BY <4>1, <4>2
      <4>4. F[m][g[m - 1]] = IF k \in Free THEN g[m - 1] ELSE <<k>> \o g[m - 1]
        BY <4>2, <4>3
      <4> HIDE DEF h, F, Q, n
      <4> QED
        BY <1>3, <3>2, <4>3, <4>4
    <3> QED
      BY <3>1, <3>2
  <2> QED
    BY <2>1
<1> DEFINE c == CHOOSE f : f = UpTo(f)
<1>5. c = UpTo(c)
  <2> HIDE DEF UpTo, h
  <2> QED
    BY <1>4
<1>6. Iterated = c[1]
  BY DEF Iterated
<1> HIDE DEF c
<1>7. c[n + 1] = <<>>
  <2>1. n + 1 \in 1 .. n + 1 /\ n + 1 > n
    BY <1>1
  <2>2. UpTo(c)[n + 1] = <<>>
    BY <2>1
  <2> QED
    BY <1>5, <2>2
<1>8. ASSUME NEW k \in 1 .. n
      PROVE  c[k] = IF k \in Free THEN c[k + 1] ELSE <<k>> \o c[k + 1]
  <2>1. k \in 1 .. n + 1 /\ ~(k > n)
    BY <1>1
  <2>2. UpTo(c)[k] = IF k \in Free THEN c[k + 1] ELSE <<k>> \o c[k + 1]
    BY <2>1
  <2> QED
    BY <1>5, <2>2
<1> DEFINE D == {m \in 0 .. n : Lists(c[n + 1 - m], n + 1 - m)}
<1>9. 0 \in D
  <2>1. /\ <<>> \in Q /\ Len(<<>>) = 0
        /\ n + 1 .. n = {} /\ n + 1 - 0 = n + 1 /\ 0 \in 0 .. n
    BY <1>1
  <2>2. Lists(<<>>, n + 1)
    BY <2>1 DEF Lists
  <2> QED
    BY <1>7, <2>1, <2>2
<1>10. ASSUME NEW m \in 1 .. n, m - 1 \in D
       PROVE  m \in D
  <2>1. PICK k \in 1 .. n : k = n + 1 - m
    <3>1. n + 1 - m \in 1 .. n
      BY <1>1
    <3> HIDE DEF n
    <3> QED
      BY <3>1
  <2>2. n + 1 - (m - 1) = k + 1 /\ m \in 0 .. n
    BY <1>1, <2>1
  <2>3. Lists(c[k + 1], k + 1)
    BY <1>10, <2>2
  <2>4. Lists(c[k], k)
    BY <1>1, <1>8, <2>3, ListsMore
  <2> QED
    BY <2>1, <2>2, <2>4
<1>11. D = 0 .. n
  <2>1. D \in SUBSET (0 .. n)
    OBVIOUS
  <2> HIDE DEF D, n
  <2> QED
    BY <1>1, <1>9, <1>10, <2>1, IntervalInduction
<1>12. n \in D /\ n + 1 - n = 1
  BY <1>1, <1>11
<1> QED
  BY <1>6, <1>12

\* VecSlabIterator yields every held slot once, in index order, and no freed one,
\* wherever the freed positions lie.
THEOREM IterationMeetsHeld == Spec => []IteratesHeld
<1>1. SlabInv => IteratesHeld
  BY IterationLists DEF SlabInv, Lists, IteratesHeld, Held
<1> QED
  BY <1>1, SlabInvariant, PTL

-----------------------------------------------------------------------------
\* Refinement of the abstract slab.

LEMMA InitRefines == Init => Abstract!SlabInit
<1> SUFFICES ASSUME Init PROVE Abstract!SlabInit
  OBVIOUS
<1>1. Held = {}
  BY DEF Init, Held
<1> QED
  BY <1>1 DEF Init, Abstract!SlabInit

LEMMA StepRefines ==
  SlabInv /\ SlabInv' /\ [Next]_vars => [Abstract!SlabNext]_(Abstract!slabVars)
<1> SUFFICES ASSUME SlabInv, SlabInv', [Next]_vars
             PROVE  Abstract!SlabNext \/ UNCHANGED Abstract!slabVars
  OBVIOUS
<1> DEFINE contents == [i \in Held |-> entries[i]]
<1> USE DEF SlabInv, TypeOK
<1>1. /\ Held \subseteq 1 .. Capacity
      /\ \A i \in Held : entries[i] \in Values
  BY VecSlabAssumption DEF Held, FreeListSound
<1>2. CASE AllocReuse
  <2> DEFINE x == freeList[Len(freeList)]
  <2>1. /\ x \in 1 .. Len(entries)
        /\ x \in 1 .. Capacity
        /\ x \notin Held
        /\ Held' = Held \cup {x}
    BY <1>2, ReuseTakesLast
  <2>2. contents' = [j \in Held \cup {x} |-> IF j = x THEN entries[x] ELSE contents[j]]
    BY <1>2, <2>1 DEF AllocReuse
  <2>3. entries[x] \in Values
    BY <2>1
  <2> QED
    BY <1>2, <2>1, <2>2, <2>3 DEF AllocReuse, Abstract!SlabNext, Abstract!SlabAlloc
<1>3. CASE AllocGrow
  <2> DEFINE x == Len(entries) + 1
  <2>1. Held' = Held \cup {x} /\ x \notin Held
    BY <1>3 DEF AllocGrow, Held, Free
  <2>2. x \in 1 .. Capacity
    BY <1>3, VecSlabAssumption DEF AllocGrow, Exhausted
  <2>3. \A j \in Held \cup {x} : entries'[j] = IF j = x THEN Default ELSE entries[j]
    BY <1>3, <2>1 DEF AllocGrow, Held
  <2>4. contents' = [j \in Held \cup {x} |-> IF j = x THEN Default ELSE contents[j]]
    BY <2>1, <2>3
  <2> QED
    BY <1>3, <2>1, <2>2, <2>4, VecSlabAssumption
    DEF AllocGrow, Abstract!SlabNext, Abstract!SlabAlloc
<1>4. CASE AllocNone
  <2>1. Held = 1 .. Capacity
    BY <1>4, VecSlabAssumption DEF AllocNone, Exhausted, Held, Free, FreeListSound
  <2>2. contents' = contents
    BY <1>4 DEF AllocNone, Held, Free
  <2> QED
    BY <1>4, <2>1, <2>2 DEF AllocNone, Abstract!SlabNext, Abstract!SlabAllocNone
<1>5. ASSUME NEW i \in 1 .. Capacity, FreeSlot(i)
      PROVE  Abstract!SlabNext
  <2>1. Held' = Held \ {i} /\ i \in Held
    BY <1>5 DEF FreeSlot, Held, Free
  <2>2. contents' = [j \in Held \ {i} |-> contents[j]]
    BY <1>5, <2>1 DEF FreeSlot
  <2> QED
    BY <1>5, <2>1, <2>2 DEF FreeSlot, Abstract!SlabNext, Abstract!SlabFree
<1>6. ASSUME NEW i \in 1 .. Capacity, NEW v \in Values, Write(i, v)
      PROVE  Abstract!SlabNext
  <2>1. Held' = Held /\ i \in Held
    BY <1>6 DEF Write, Held, Free
  <2>2. \A j \in Held : entries'[j] = IF j = i THEN v ELSE entries[j]
    BY <1>6, <2>1 DEF Write, Held
  <2>3. contents' = [contents EXCEPT ![i] = v]
    BY <2>1, <2>2
  <2> QED
    BY <1>6, <2>1, <2>3 DEF Write, Abstract!SlabNext, Abstract!SlabWrite
<1>7. CASE UNCHANGED vars
  BY <1>7 DEF vars, Held, Free, Abstract!slabVars
<1> QED
  BY <1>2, <1>3, <1>4, <1>5, <1>6, <1>7 DEF Next

\* A vector and a list of freed indices implement the slab the trie relies on:
\* whatever alloc hands out is held by nobody, and a held slot keeps its contents.
THEOREM VecSlabImplementsSlab == Spec => ImplementsSlab
<1>1. Spec => [][SlabInv /\ SlabInv' /\ [Next]_vars]_vars
  BY SlabInvariant, PTL DEF Spec
<1> QED
  BY <1>1, InitRefines, StepRefines, SlabInvariant, PTL DEF Spec, ImplementsSlab, Abstract!SlabSpec

=============================================================================

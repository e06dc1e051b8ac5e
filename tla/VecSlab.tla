------------------------------ MODULE VecSlab ------------------------------
(***************************************************************************)
(* VecSlab of core/src/slab.rs: a vector that only grows and a LIFO list   *)
(* of freed indices.  `entries` leaves out the reserved slot 0, so that    *)
(* its positions are the indices; max_capacity is Capacity.                *)
(***************************************************************************)
EXTENDS Integers, Sequences, FiniteSets

CONSTANTS
  Capacity,
  Values,
  Default    \* T::default()

ASSUME VecSlabAssumption == Capacity \in Nat /\ Default \in Values

VARIABLES
  entries,
  freeList,
  got        \* what the last alloc returned; 0 is None

vars == <<entries, freeList, got>>

Free == {freeList[k] : k \in 1 .. Len(freeList)}

\* The indices the caller holds.
Held == (1 .. Len(entries)) \ Free

\* Mutant: parked slots count.
lenAll == Len(entries)

len == Len(entries) - Len(freeList)

TypeOK ==
  /\ entries \in Seq(Values)
  /\ freeList \in Seq(1 .. Capacity)
  /\ got \in 0 .. Capacity

Init == entries = <<>> /\ freeList = <<>> /\ got = 0

\* Mutant: hands out the first parked index and takes the last off the list.
AllocReuseFirst ==
  /\ freeList # <<>>
  /\ got' = freeList[1]
  /\ freeList' = SubSeq(freeList, 1, Len(freeList) - 1)
  /\ UNCHANGED entries

\* A freed slot comes back with what it last held.
AllocReuse ==
  /\ freeList # <<>>
  /\ got' = freeList[Len(freeList)]
  /\ freeList' = SubSeq(freeList, 1, Len(freeList) - 1)
  /\ UNCHANGED entries

\* next_position > max_capacity
Exhausted == Len(entries) + 1 > Capacity

AllocGrow ==
  /\ freeList = <<>>
  /\ ~Exhausted
  /\ entries' = Append(entries, Default)
  /\ got' = Len(entries) + 1
  /\ UNCHANGED freeList

AllocNone ==
  /\ freeList = <<>>
  /\ Exhausted
  /\ got' = 0
  /\ UNCHANGED <<entries, freeList>>

\* get_mut and a write through it, by the holder of the index.
Write(i, v) ==
  /\ i \in Held
  /\ entries' = [entries EXCEPT ![i] = v]
  /\ UNCHANGED <<freeList, got>>

\* Mutant: a slot may be freed twice.
FreeSlotAgain(i) ==
  /\ i \in 1 .. Len(entries)
  /\ freeList' = Append(freeList, i)
  /\ UNCHANGED <<entries, got>>

\* The caller frees what it holds.  A debug_assert looks for a second free, which a
\* release build does not: there it is the trie that must keep to this, and it does,
\* since a sweep frees the node of its running frame and no two frames have one.
FreeSlot(i) ==
  /\ i \in Held
  /\ freeList' = Append(freeList, i)
  /\ UNCHANGED <<entries, got>>

Next ==
  \/ AllocReuse
  \/ AllocGrow
  \/ AllocNone
  \/ \E i \in 1 .. Capacity : FreeSlot(i) \/ \E v \in Values : Write(i, v)

Spec == Init /\ [][Next]_vars

\* Mutant: the last slot is left out.
IteratedShort ==
  LET from[k \in 1 .. Len(entries) + 1] ==
        IF k >= Len(entries) THEN <<>>
        ELSE IF k \in Free THEN from[k + 1]
        ELSE <<k>> \o from[k + 1]
  IN  from[1]

\* What VecSlabIterator yields: it skips the freed positions one by one.
Iterated ==
  LET from[k \in 1 .. Len(entries) + 1] ==
        IF k > Len(entries) THEN <<>>
        ELSE IF k \in Free THEN from[k + 1]
        ELSE <<k>> \o from[k + 1]
  IN  from[1]

-----------------------------------------------------------------------------

\* As long as callers free what they hold, no index is on the free list twice, so
\* alloc never hands one slot to two holders; the list holds only slots that exist,
\* and with the reserved slot the vector never outgrows its capacity.
FreeListSound ==
  /\ Free \subseteq 1 .. Len(entries)
  /\ \A j, k \in 1 .. Len(freeList) : freeList[j] = freeList[k] => j = k
  /\ Len(entries) <= Capacity

\* len, computed from two lengths, counts the held slots (node_count of a trie).
LenExact == len = Cardinality(Held)

\* Iterating meets every held slot once, in index order, and no freed one.
IteratesHeld ==
  /\ {Iterated[k] : k \in 1 .. Len(Iterated)} = Held
  /\ \A j, k \in 1 .. Len(Iterated) : j < k => Iterated[j] < Iterated[k]

\* The vector and its free list implement the slab the trie relies on.
Abstract == INSTANCE Slab WITH contents <- [i \in Held |-> entries[i]]

ImplementsSlab == Abstract!SlabSpec

=============================================================================

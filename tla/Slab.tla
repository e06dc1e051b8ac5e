-------------------------------- MODULE Slab --------------------------------
(***************************************************************************)
(* What the trie relies on of its storage (traits SlabRead and Slab in     *)
(* core/src/slab.rs): alloc hands out an index nobody holds, with whatever *)
(* contents, or answers None when all are held; a held slot keeps what was *)
(* last written to it until it is freed, whatever happens to the others.   *)
(***************************************************************************)
EXTENDS Integers

CONSTANTS
  Capacity,  \* indices are 1 .. Capacity; 0 stands for None
  Values     \* contents of a slot

VARIABLES
  contents,  \* of the held slots
  got        \* what the last call of alloc returned

slabVars == <<contents, got>>

SlabInit == contents = <<>> /\ got = 0

SlabAlloc ==
  \E i \in (1 .. Capacity) \ DOMAIN contents, v \in Values :
    /\ contents' = [j \in DOMAIN contents \cup {i} |-> IF j = i THEN v ELSE contents[j]]
    /\ got' = i

SlabAllocNone ==
  /\ DOMAIN contents = 1 .. Capacity
  /\ got' = 0
  /\ UNCHANGED contents

SlabWrite(i, v) ==
  /\ i \in DOMAIN contents
  /\ contents' = [contents EXCEPT ![i] = v]
  /\ UNCHANGED got

SlabFree(i) ==
  /\ i \in DOMAIN contents
  /\ contents' = [j \in DOMAIN contents \ {i} |-> contents[j]]
  /\ UNCHANGED got

SlabNext ==
  \/ SlabAlloc
  \/ SlabAllocNone
  \/ \E i \in 1 .. Capacity : SlabFree(i) \/ \E v \in Values : SlabWrite(i, v)

SlabSpec == SlabInit /\ [][SlabNext]_slabVars

=============================================================================

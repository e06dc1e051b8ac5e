------------------------------ MODULE Prefixes ------------------------------
(***************************************************************************)
(* CIDR prefixes (core/src/prefix.rs) as bit sequences.  A prefix is the   *)
(* sequence of its `len` significant bits; the bits the code zeroes past   *)
(* `len` (Address::masked) do not exist here.  An address is a prefix of   *)
(* the full length MaxLen, MAX_PREFIX_LEN in the code.                     *)
(***************************************************************************)
EXTENDS Integers, Sequences, FiniteSetsExt

CONSTANT MaxLen

ASSUME MaxLenAssumption == MaxLen \in Nat

Bit == {0, 1}

Prefix == UNION {[1 .. n -> Bit] : n \in 0 .. MaxLen}

Address == [1 .. MaxLen -> Bit]

\* Positions count from 0 at the most significant bit.
BitAt(p, pos) == p[pos + 1]

\* Mutant: the mask is a bit too long.
MaskedLong(p, n) == [k \in 1 .. n + 1 |-> p[k]]

\* Prefix::new: keep the first n bits of p.
Masked(p, n) == [k \in 1 .. n |-> p[k]]

\* p and q have, and agree on, their first n bits.
AgreeOn(p, q, n) ==
  /\ n <= Len(p)
  /\ n <= Len(q)
  /\ \A k \in 1 .. n : p[k] = q[k]

CommonPrefixLen(p, q) == Max({n \in 0 .. MaxLen : AgreeOn(p, q, n)})

Covers(p, q) == CommonPrefixLen(p, q) = Len(p)

StrictlyCovers(p, q) == Covers(p, q) /\ p # q

=============================================================================

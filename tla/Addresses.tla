----------------------------- MODULE Addresses -----------------------------
(***************************************************************************)
(* The word-level code against what the rest of this project takes it to   *)
(* be: a walk over all addresses in numerical order and over all lengths,  *)
(* with properties of each address, and of each address and the next.      *)
(***************************************************************************)
EXTENDS Hilbert

VARIABLES
  number,  \* the address as a number
  len      \* of a prefix of it, or one too long

vars == <<number, len>>

\* n is m plus one: a carry runs through the ones up to a zero.
IsNext(n, m) ==
  \E z \in DOMAIN m :
    /\ m[z] = 0
    /\ \A k \in 0 .. z - 1 : m[k] = 1
    /\ n = [k \in DOMAIN m |-> IF k < z THEN 0 ELSE IF k = z THEN 1 ELSE m[k]]

Init ==
  /\ number = [k \in 0 .. MaxPrefixLen - 1 |-> 0]
  /\ len = 0

NextAddress == IsNext(number', number) /\ UNCHANGED len

Longer ==
  /\ len <= MaxPrefixLen
  /\ len' = len + 1
  /\ UNCHANGED number

Next == NextAddress \/ Longer

Spec == Init /\ [][Next]_vars

ip == FromNumber(number)

Bits == INSTANCE Prefixes WITH MaxLen <- MaxPrefixLen

-----------------------------------------------------------------------------

\* The address block of a CIDR: the numbers with its first bits.
SameBlock(version, m, n) ==
  \A k \in FamilyBits(version) - len .. FamilyBits(version) - 1 : m[k] = n[k]

\* A CIDR, host bits and all, becomes the prefix that covers exactly the addresses
\* of its block in its family; every CIDR of the block becomes the same one, word
\* for word, which is how the trie compares prefixes; and a length the family does
\* not have becomes none.  An IPv4 address is the low end of the number.
ParsesRight ==
  \A version \in {V4, V6} :
    LET n      == [k \in 0 .. FamilyBits(version) - 1 |-> number[k]]
        parsed == parseCidr(version, n, len)
    IN  IF len > FamilyBits(version)
          THEN parsed = LengthTooLong
          ELSE \A m \in Integer(FamilyBits(version)) :
                 /\ covers(parsed[2], Parsed(version, m)) <=> SameBlock(version, m, n)
                 /\ parseCidr(version, m, len) = parsed <=> SameBlock(version, m, n)

\* The loop over words finds the longest agreement of the first len bits with any
\* address, whatever the bits past len (covers compares with all of the other's
\* bits, the trie with prefixes of any length: the shorter bounds both).
CommonRight ==
  len <= MaxPrefixLen =>
    \A other \in Address :
      commonPrefixLen(ip, len, other, MaxPrefixLen) =
        Bits!CommonPrefixLen(BitsOf(ip, len), BitsOf(other, MaxPrefixLen))

\* What the shader looks up at a pixel is the address drawn there: the two loops,
\* one from the finest and one from the coarsest level, are inverse to each other.
RoundTrip == pointToIp(ipToPoint(ip)) = ip

AxisNumber(axis) == [k \in 0 .. Levels - 1 |-> axisBit(axis, k)]

\* At a distance of one along an axis.
Beside(axis1, axis2) ==
  LET m == AxisNumber(axis1)
      n == AxisNumber(axis2)
  IN  IsNext(m, n) \/ IsNext(n, m)

Neighbours(p, q) ==
  \/ p.x = q.x /\ Beside(p.y, q.y)
  \/ p.y = q.y /\ Beside(p.x, q.x)

\* Consecutive addresses are neighbours on the grid, also where the carry runs
\* through every word.
Adjacent ==
  [][number' # number => Neighbours(ipToPoint(ip), ipToPoint(ip'))]_vars

=============================================================================

---------------------------- MODULE AddressWords ----------------------------
(***************************************************************************)
(* Addresses as the code keeps them (core/src/prefix.rs): big-endian       *)
(* arrays of four machine words, position 0 the most significant bit of    *)
(* word 0.  An unsigned integer of n bits is the function from the weights *)
(* 0 .. n - 1 to its bits, so what a shift moves out of it is gone.  The   *)
(* operators are the code's loops over words.                              *)
(***************************************************************************)
EXTENDS Integers, Sequences, FiniteSetsExt

CONSTANTS
  WordBits,      \* 32 in the code
  V4, V6,        \* IpVersion
  LengthTooLong  \* the CidrParseError

ASSUME AddressWordsAssumption == WordBits \in Nat \ {0} /\ V4 # V6

Bit == {0, 1}

Words == 4

MaxPrefixLen == Words * WordBits

Integer(n) == [0 .. n - 1 -> Bit]

Weight == 0 .. WordBits - 1

Word == Integer(WordBits)

Zero == [k \in Weight |-> 0]

AllOnes == [k \in Weight |-> 1]

\* `^` and `&`, of bits and of words.
xor(b, c) == IF b = c THEN 0 ELSE 1

Xor(x, y) == [k \in Weight |-> xor(x[k], y[k])]

And(x, y) == [k \in Weight |-> IF x[k] = 1 /\ y[k] = 1 THEN 1 ELSE 0]

\* `<<` of a word: the distance is taken modulo its width.
ShiftLeft(x, n) ==
  LET d == n % WordBits
  IN  [k \in Weight |-> IF k < d THEN 0 ELSE x[k - d]]

Address == [0 .. Words - 1 -> Word]

\* From<u32>: an IPv4 address is the first word.
FromV4(n) == [i \in 0 .. Words - 1 |-> IF i = 0 THEN n ELSE Zero]

\* From<u128>: the words of a number, the most significant first.
FromNumber(n) ==
  [i \in 0 .. Words - 1 |-> [k \in Weight |-> n[(Words - 1 - i) * WordBits + k]]]

bitAt(a, pos) == a[pos \div WordBits][WordBits - 1 - (pos % WordBits)]

LeadingZeros(x) ==
  WordBits - Min({n \in 0 .. WordBits : \A k \in n .. WordBits - 1 : x[k] = 0})

\* Mutant: the words are counted whole.
commonPrefixLenWhole(a, aLen, b, bLen) ==
  LET maxCheck == Min({aLen, bLen})
      after[w \in 0 .. Words] ==
        IF w = 0 THEN [common |-> 0, broken |-> FALSE]
        ELSE LET s         == after[w - 1]
                 diff      == Xor(a[w - 1], b[w - 1])
                 remaining == maxCheck - s.common
             IN  IF s.broken \/ s.common >= maxCheck THEN s
                 ELSE IF diff = Zero
                   THEN [common |-> s.common + WordBits, broken |-> FALSE]
                   ELSE [common |-> s.common + Min({LeadingZeros(diff), remaining}),
                         broken |-> TRUE]
  IN  after[Words].common

\* The loop over the words, up to its break; bits past either length are ignored.
commonPrefixLen(a, aLen, b, bLen) ==
  LET maxCheck == Min({aLen, bLen})
      after[w \in 0 .. Words] ==
        IF w = 0 THEN [common |-> 0, broken |-> FALSE]
        ELSE LET s         == after[w - 1]
                 diff      == Xor(a[w - 1], b[w - 1])
                 remaining == maxCheck - s.common
             IN  IF s.broken \/ s.common >= maxCheck THEN s
                 ELSE IF diff = Zero
                   THEN [common |-> s.common + Min({WordBits, remaining}), broken |-> FALSE]
                   ELSE [common |-> s.common + Min({LeadingZeros(diff), remaining}),
                         broken |-> TRUE]
  IN  after[Words].common

\* Mutant: a length at the start of a word is taken to be inside it.
maskedAtEdge(a, len) ==
  [w \in 0 .. Words - 1 |->
     LET start == w * WordBits
     IN  CASE len < start                                  -> Zero
           [] start <= len /\ len < start + WordBits        ->
                And(a[w], ShiftLeft(AllOnes, WordBits - (len - start)))
           [] OTHER                                        -> a[w]]

masked(a, len) ==
  [w \in 0 .. Words - 1 |->
     LET start == w * WordBits
     IN  CASE len <= start                                 -> Zero
           [] start < len /\ len < start + WordBits         ->
                And(a[w], ShiftLeft(AllOnes, WordBits - (len - start)))
           [] OTHER                                        -> a[w]]

\* Prefix::new.  Its assertion on the length is the caller's to keep.
newPrefix(words, len) == [bits |-> masked(words, len), len |-> len]

covers(p, a) == commonPrefixLen(p.bits, p.len, a, MaxPrefixLen) = p.len

FamilyBits(version) == IF version = V4 THEN WordBits ELSE MaxPrefixLen

\* An address given as the number that the standard library parses it to.
Parsed(version, n) == IF version = V4 THEN FromV4(n) ELSE FromNumber(n)

\* Prefix::parse_cidr, of text that has both parts.
parseCidr(version, n, len) ==
  IF len > FamilyBits(version)
    THEN LengthTooLong
    ELSE <<version, newPrefix(Parsed(version, n), len)>>

\* The bits before a length: a prefix as module Prefixes has it.
BitsOf(a, len) == [k \in 1 .. len |-> bitAt(a, k - 1)]

=============================================================================

-------------------------- MODULE Addresses_proofs --------------------------
(***************************************************************************)
(* The word-level code of prefix.rs and hilbert.rs is right for words of   *)
(* every width: parsing, the common prefix and the two conversions of the  *)
(* curve.                                                                  *)
(*                                                                         *)
(* First, what each operator on words does to the single bits of an        *)
(* address or an axis; from SameBits and SamePositions on, two addresses   *)
(* with the same bits are the same.  Then each loop is unfolded into its   *)
(* steps, and an invariant of the steps gives what the loop computes:      *)
(* Found for the words of common_prefix_len, Below and Retraces for the    *)
(* levels of the curve, CloseAt for two walks side by side.                *)
(***************************************************************************)
EXTENDS Addresses, Streams

-----------------------------------------------------------------------------
\* Bits of an address by index, from the least significant one.

\* The word and the weight of a bit.
LEMMA Places ==
  ASSUME NEW b \in 0 .. MaxPrefixLen - 1
  PROVE  /\ WordBits \in Nat \ {0} /\ MaxPrefixLen = 4 * WordBits
         /\ \/ b < WordBits /\ b \div WordBits = 0 /\ b % WordBits = b
            \/ /\ WordBits <= b /\ b < 2 * WordBits
               /\ b \div WordBits = 1 /\ b % WordBits = b - WordBits
            \/ /\ 2 * WordBits <= b /\ b < 3 * WordBits
               /\ b \div WordBits = 2 /\ b % WordBits = b - 2 * WordBits
            \/ /\ 3 * WordBits <= b
               /\ b \div WordBits = 3 /\ b % WordBits = b - 3 * WordBits
<1>1. WordBits \in Nat /\ WordBits > 0 /\ MaxPrefixLen = 4 * WordBits
  BY AddressWordsAssumption DEF MaxPrefixLen, Words
<1> DEFINE W == WordBits
           q == b \div W
           r == b % W
<1>2. b \in Nat /\ b < 4 * W
  BY <1>1
<1>3. q \in Int /\ r \in 0 .. W - 1 /\ b = W * q + r
  BY <1>1, <1>2
<1> QED
  BY <1>1, <1>2, <1>3

LEMMA Widths ==
  /\ WordBits \in Nat /\ WordBits > 0
  /\ Weight = 0 .. WordBits - 1
  /\ MaxPrefixLen = 4 * WordBits /\ Levels = 2 * WordBits
  BY AddressWordsAssumption DEF Weight, MaxPrefixLen, Levels, Words

LEMMA WordShape ==
  /\ Word = [Weight -> Bit]
  /\ Zero \in Word /\ AllOnes \in Word
<1>1. Word = [Weight -> Bit]
  BY DEF Word, Weight, Integer
<1> QED
  BY <1>1 DEF Zero, AllOnes, Bit

LEMMA AddressShape == Address = [0 .. 3 -> Word] /\ Axis = [0 .. 1 -> Word]
  BY DEF Address, Axis, Words

\* Every bit of every word has a position.
LEMMA Placed ==
  ASSUME NEW w \in 0 .. 3, NEW k \in Weight
  PROVE  \E b \in 0 .. MaxPrefixLen - 1 : b \div WordBits = w /\ b % WordBits = k
<1> DEFINE b == w * WordBits + k
<1>1. WordBits \in Nat /\ WordBits > 0 /\ k \in 0 .. WordBits - 1 /\ MaxPrefixLen = 4 * WordBits
  BY Widths
<1>2. CASE w = 0
  <2>1. b = k /\ b \in 0 .. MaxPrefixLen - 1
    BY <1>1, <1>2
  <2> HIDE DEF b
  <2>2. b \div WordBits = 0 /\ b % WordBits = k
    BY <1>1, <2>1, Places
  <2> QED
    BY <1>2, <2>1, <2>2
<1>3. CASE w = 1
  <2>1. b = WordBits + k /\ b \in 0 .. MaxPrefixLen - 1
    BY <1>1, <1>3
  <2> HIDE DEF b
  <2>2. b \div WordBits = 1 /\ b % WordBits = k
    BY <1>1, <2>1, Places
  <2> QED
    BY <1>3, <2>1, <2>2
<1>4. CASE w = 2
  <2>1. b = 2 * WordBits + k /\ b \in 0 .. MaxPrefixLen - 1
    BY <1>1, <1>4
  <2> HIDE DEF b
  <2>2. b \div WordBits = 2 /\ b % WordBits = k
    BY <1>1, <2>1, Places
  <2> QED
    BY <1>4, <2>1, <2>2
<1>5. CASE w = 3
  <2>1. b = 3 * WordBits + k /\ b \in 0 .. MaxPrefixLen - 1
    BY <1>1, <1>5
  <2> HIDE DEF b
  <2>2. b \div WordBits = 3 /\ b % WordBits = k
    BY <1>1, <2>1, Places
  <2> QED
    BY <1>5, <2>1, <2>2
<1> QED
  BY <1>2, <1>3, <1>4, <1>5

\* Different positions are different bits.
LEMMA PlacesApart ==
  ASSUME NEW b \in 0 .. MaxPrefixLen - 1, NEW c \in 0 .. MaxPrefixLen - 1,
         b \div WordBits = c \div WordBits, b % WordBits = c % WordBits
  PROVE  b = c
<1>1. WordBits \in Nat /\ WordBits > 0
  BY Widths
<1>2. /\ b \in Int /\ c \in Int
      /\ (b \div WordBits) \in Int /\ (c \div WordBits) \in Int
      /\ (b % WordBits) \in Int /\ (c % WordBits) \in Int
  BY <1>1, Places
<1> QED
  BY <1>1, <1>2, Places

LEMMA PlaceTypes ==
  ASSUME NEW b \in 0 .. MaxPrefixLen - 1
  PROVE  b \div WordBits \in 0 .. 3 /\ b % WordBits \in Weight
<1>1. WordBits \in Nat /\ WordBits > 0 /\ Weight = 0 .. WordBits - 1 /\ MaxPrefixLen = 4 * WordBits
  BY Widths
<1> QED
  BY <1>1, Places

LEMMA IndexBitType ==
  ASSUME NEW a \in Address, NEW b \in 0 .. MaxPrefixLen - 1
  PROVE  indexBit(a, b) \in Bit
<1>1. b \div WordBits \in 0 .. 3 /\ b % WordBits \in Weight
  BY PlaceTypes
<1>2. 3 - (b \div WordBits) \in 0 .. 3
  BY <1>1
<1> QED
  BY <1>1, <1>2, AddressShape, WordShape DEF indexBit

\* An address is its bits.
LEMMA SameBits ==
  ASSUME NEW a \in Address, NEW c \in Address,
         \A b \in 0 .. MaxPrefixLen - 1 : indexBit(a, b) = indexBit(c, b)
  PROVE  a = c
<1>1. ASSUME NEW w \in 0 .. 3, NEW k \in Weight
      PROVE  a[w][k] = c[w][k]
  <2>1. 3 - w \in 0 .. 3 /\ 3 - (3 - w) = w
    OBVIOUS
  <2>2. PICK b \in 0 .. MaxPrefixLen - 1 : b \div WordBits = 3 - w /\ b % WordBits = k
    BY <2>1, Placed
  <2> QED
    BY <2>1, <2>2 DEF indexBit
<1>2. ASSUME NEW w \in 0 .. 3
      PROVE  a[w] = c[w]
  <2>1. a[w] \in [Weight -> Bit] /\ c[w] \in [Weight -> Bit]
    BY AddressShape, WordShape
  <2> QED
    BY <1>1, <2>1
<1>3. a \in [0 .. 3 -> Word] /\ c \in [0 .. 3 -> Word]
  BY AddressShape
<1> QED
  BY <1>2, <1>3

\* set_index_bit sets one bit and no other.
LEMMA SetIndexBit ==
  ASSUME NEW a \in Address, NEW b \in 0 .. MaxPrefixLen - 1
  PROVE  /\ setIndexBit(a, b) \in Address
         /\ \A c \in 0 .. MaxPrefixLen - 1 :
              indexBit(setIndexBit(a, b), c) = IF c = b THEN 1 ELSE indexBit(a, c)
<1> DEFINE w == b \div WordBits
           k == b % WordBits
<1>1. w \in 0 .. 3 /\ k \in Weight
  BY PlaceTypes
<1>2. setIndexBit(a, b) = [a EXCEPT ![3 - w][k] = 1]
  BY DEF setIndexBit
<1> HIDE DEF w, k
<1>3. setIndexBit(a, b) \in Address
  <2>1. 3 - w \in 0 .. 3 /\ a[3 - w] \in Word
    BY <1>1, AddressShape
  <2>2. [a[3 - w] EXCEPT ![k] = 1] \in Word
    BY <1>1, <2>1, WordShape DEF Bit
  <2> QED
    BY <1>2, <2>1, <2>2, AddressShape
<1>4. ASSUME NEW c \in 0 .. MaxPrefixLen - 1
      PROVE  indexBit(setIndexBit(a, b), c) = IF c = b THEN 1 ELSE indexBit(a, c)
  <2> DEFINE u == c \div WordBits
             j == c % WordBits
  <2>1. u \in 0 .. 3 /\ j \in Weight
    BY PlaceTypes
  <2>2. indexBit(setIndexBit(a, b), c) = setIndexBit(a, b)[3 - u][j] /\ indexBit(a, c) = a[3 - u][j]
    BY DEF indexBit
  <2>3. u = w /\ j = k <=> c = b
    BY PlacesApart DEF w, k
  <2> HIDE DEF u, j
  <2>4. 3 - u \in 0 .. 3 /\ 3 - w \in 0 .. 3 /\ (3 - u = 3 - w <=> u = w)
    BY <1>1, <2>1
  <2>5. setIndexBit(a, b)[3 - u][j] = IF 3 - u = 3 - w /\ j = k THEN 1 ELSE a[3 - u][j]
    BY <1>1, <1>2, <2>1, <2>4, AddressShape, WordShape
  <2> QED
    BY <2>2, <2>3, <2>4, <2>5
<1> QED
  BY <1>3, <1>4

-----------------------------------------------------------------------------
\* The bits of an axis.

LEMMA AxisPlaces ==
  ASSUME NEW b \in 0 .. Levels - 1
  PROVE  /\ b \in 0 .. MaxPrefixLen - 1
         /\ b % WordBits \in Weight
         /\ \/ b < WordBits /\ b \div WordBits = 0 /\ b % WordBits = b
            \/ /\ WordBits <= b /\ b < 2 * WordBits
               /\ b \div WordBits = 1 /\ b % WordBits = b - WordBits
<1>1. WordBits \in Nat /\ MaxPrefixLen = 4 * WordBits /\ Levels = 2 * WordBits
  BY Widths
<1>2. b \in 0 .. MaxPrefixLen - 1 /\ b < 2 * WordBits
  BY <1>1
<1> QED
  BY <1>1, <1>2, Places, PlaceTypes

LEMMA AxisBitType ==
  ASSUME NEW a \in Axis, NEW b \in 0 .. Levels - 1
  PROVE  axisBit(a, b) \in Bit
<1>1. 1 - (b \div WordBits) \in 0 .. 1 /\ b % WordBits \in Weight
  BY AxisPlaces
<1> QED
  BY <1>1, AddressShape, WordShape DEF axisBit

LEMMA AxisPlaced ==
  ASSUME NEW w \in 0 .. 1, NEW k \in Weight
  PROVE  \E b \in 0 .. Levels - 1 : b \div WordBits = w /\ b % WordBits = k
<1>1. /\ WordBits \in Nat /\ k \in 0 .. WordBits - 1
      /\ MaxPrefixLen = 4 * WordBits /\ Levels = 2 * WordBits
  BY Widths
<1>2. PICK b \in 0 .. MaxPrefixLen - 1 : b \div WordBits = w /\ b % WordBits = k
  <2>1. w \in 0 .. 3
    OBVIOUS
  <2> QED
    BY <2>1, Placed
<1>3. b < 2 * WordBits
  BY <1>2, Places
<1> QED
  BY <1>1, <1>2, <1>3

LEMMA SameAxis ==
  ASSUME NEW a \in Axis, NEW c \in Axis,
         \A b \in 0 .. Levels - 1 : axisBit(a, b) = axisBit(c, b)
  PROVE  a = c
<1>1. ASSUME NEW w \in 0 .. 1, NEW k \in Weight
      PROVE  a[w][k] = c[w][k]
  <2>1. 1 - w \in 0 .. 1 /\ 1 - (1 - w) = w
    OBVIOUS
  <2>2. PICK b \in 0 .. Levels - 1 : b \div WordBits = 1 - w /\ b % WordBits = k
    BY <2>1, AxisPlaced
  <2> QED
    BY <2>1, <2>2 DEF axisBit
<1>2. ASSUME NEW w \in 0 .. 1
      PROVE  a[w] = c[w]
  <2>1. a[w] \in [Weight -> Bit] /\ c[w] \in [Weight -> Bit]
    BY AddressShape, WordShape
  <2> QED
    BY <1>1, <2>1
<1>3. a \in [0 .. 1 -> Word] /\ c \in [0 .. 1 -> Word]
  BY AddressShape
<1> QED
  BY <1>2, <1>3

LEMMA SetAxisBit ==
  ASSUME NEW a \in Axis, NEW b \in 0 .. Levels - 1
  PROVE  /\ setAxisBit(a, b) \in Axis
         /\ \A c \in 0 .. Levels - 1 :
              axisBit(setAxisBit(a, b), c) = IF c = b THEN 1 ELSE axisBit(a, c)
<1> DEFINE w == b \div WordBits
           k == b % WordBits
<1>1. w \in 0 .. 1 /\ k \in Weight
  BY AxisPlaces
<1>2. setAxisBit(a, b) = [a EXCEPT ![1 - w][k] = 1]
  BY DEF setAxisBit
<1> HIDE DEF w, k
<1>3. setAxisBit(a, b) \in Axis
  <2>1. 1 - w \in 0 .. 1 /\ a[1 - w] \in Word
    BY <1>1, AddressShape
  <2>2. [a[1 - w] EXCEPT ![k] = 1] \in Word
    BY <1>1, <2>1, WordShape DEF Bit
  <2> QED
    BY <1>2, <2>1, <2>2, AddressShape
<1>4. ASSUME NEW c \in 0 .. Levels - 1
      PROVE  axisBit(setAxisBit(a, b), c) = IF c = b THEN 1 ELSE axisBit(a, c)
  <2> DEFINE u == c \div WordBits
             j == c % WordBits
  <2>1. u \in 0 .. 1 /\ j \in Weight
    BY AxisPlaces
  <2>2. axisBit(setAxisBit(a, b), c) = setAxisBit(a, b)[1 - u][j] /\ axisBit(a, c) = a[1 - u][j]
    BY DEF axisBit
  <2>3. u = w /\ j = k <=> c = b
    <3>1. b \in 0 .. MaxPrefixLen - 1 /\ c \in 0 .. MaxPrefixLen - 1
      BY AxisPlaces
    <3> QED
      BY <3>1, PlacesApart DEF w, k
  <2> HIDE DEF u, j
  <2>4. 1 - u \in 0 .. 1 /\ 1 - w \in 0 .. 1 /\ (1 - u = 1 - w <=> u = w)
    BY <1>1, <2>1
  <2>5. setAxisBit(a, b)[1 - u][j] = IF 1 - u = 1 - w /\ j = k THEN 1 ELSE a[1 - u][j]
    BY <1>1, <1>2, <2>1, <2>4, AddressShape, WordShape
  <2> QED
    BY <2>2, <2>3, <2>4, <2>5
<1> QED
  BY <1>3, <1>4

LEMMA XorShape ==
  ASSUME NEW x \in Word, NEW y \in Word
  PROVE  /\ Xor(x, y) \in Word
         /\ \A k \in Weight : Xor(x, y)[k] = IF x[k] = y[k] THEN 0 ELSE 1
  BY WordShape DEF Xor, xor, Bit

LEMMA ComplementBits ==
  ASSUME NEW a \in Axis
  PROVE  /\ Complement(a) \in Axis
         /\ \A c \in 0 .. Levels - 1 : axisBit(Complement(a), c) = 1 - axisBit(a, c)
<1>1. ASSUME NEW w \in 0 .. 1
      PROVE  /\ Complement(a)[w] \in Word
             /\ \A k \in Weight : Complement(a)[w][k] = 1 - a[w][k]
  <2>1. a[w] \in Word /\ AllOnes \in Word /\ Complement(a)[w] = Xor(a[w], AllOnes)
    BY AddressShape, WordShape DEF Complement
  <2>2. ASSUME NEW k \in Weight
        PROVE  Complement(a)[w][k] = 1 - a[w][k]
    <3>1. a[w][k] \in {0, 1} /\ AllOnes[k] = 1
      BY <2>1, WordShape DEF AllOnes, Bit
    <3> QED
      BY <2>1, <3>1, XorShape
  <2> QED
    BY <2>1, <2>2, XorShape
<1>2. Complement(a) \in Axis
  BY <1>1, AddressShape DEF Complement
<1>3. ASSUME NEW c \in 0 .. Levels - 1
      PROVE  axisBit(Complement(a), c) = 1 - axisBit(a, c)
  <2>1. 1 - (c \div WordBits) \in 0 .. 1 /\ c % WordBits \in Weight
    BY AxisPlaces
  <2> QED
    BY <1>1, <2>1 DEF axisBit
<1> QED
  BY <1>2, <1>3

\* Both words of an axis set, as a name: the provers take the update apart.
BothWords(a, u, v) == [a EXCEPT ![1] = u, ![0] = v]

LEMMA BothSet ==
  ASSUME NEW S, NEW a \in [0 .. 1 -> S], NEW u \in S, NEW v \in S
  PROVE  BothWords(a, u, v) = [i \in 0 .. 1 |-> IF i = 1 THEN u ELSE v]
<1> DEFINE r == [a EXCEPT ![1] = u, ![0] = v]
<1>1. r \in [0 .. 1 -> S] /\ r[1] = u /\ r[0] = v
  OBVIOUS
<1> HIDE DEF r
<1>2. \A i \in 0 .. 1 : r[i] = IF i = 1 THEN u ELSE v
  BY <1>1
<1>3. r = [i \in 0 .. 1 |-> IF i = 1 THEN u ELSE v]
  BY <1>1, <1>2
<1> QED
  BY <1>3 DEF r, BothWords

\* complement_low_axis_bits crosses from the low word into the high one.
LEMMA ComplementLowBits ==
  ASSUME NEW a \in Axis, NEW n \in 0 .. Levels
  PROVE  /\ complementLowAxisBits(a, n) \in Axis
         /\ \A c \in 0 .. Levels - 1 :
              axisBit(complementLowAxisBits(a, n), c) =
                IF c < n THEN 1 - axisBit(a, c) ELSE axisBit(a, c)
<1> DEFINE h == IF n >= WordBits THEN n - WordBits ELSE 0
           r == complementLowAxisBits(a, n)
<1>1. WordBits \in Nat /\ Weight = 0 .. WordBits - 1 /\ Levels = 2 * WordBits
  BY Widths
<1>2. Max({0, n - WordBits}) = h
  <2>1. h \in {0, n - WordBits} /\ \A y \in {0, n - WordBits} : y <= h
    BY <1>1
  <2>2. ASSUME NEW x \in {0, n - WordBits}, \A y \in {0, n - WordBits} : y <= x
        PROVE  x = h
    <3>1. x <= h /\ h <= x /\ x \in Int /\ h \in Int
      BY <1>1, <2>1, <2>2
    <3> QED
      BY <3>1
  <2> HIDE DEF h
  <2> QED
    BY <2>1, <2>2 DEF Max
<1>3. /\ a[0] \in Word /\ a[1] \in Word
      /\ DOMAIN a = 0 .. 1
  BY AddressShape
<1>4. lowBitMask(n) \in Word /\ lowBitMask(h) \in Word
  BY WordShape DEF lowBitMask, Bit
<1>5. r = [i \in 0 .. 1 |-> IF i = 1 THEN Xor(a[1], lowBitMask(n)) ELSE Xor(a[0], lowBitMask(h))]
  <2> DEFINE g == Max({0, n - WordBits})
             high == lowBitMask(g)
             low == lowBitMask(n)
  <2>1. high = lowBitMask(h)
    BY <1>2
  <2>2. r = [a EXCEPT ![1] = Xor(@, low), ![0] = Xor(@, high)]
    BY DEF complementLowAxisBits
  <2> HIDE DEF high, low, r
  <2>3. r = [i \in 0 .. 1 |-> IF i = 1 THEN Xor(a[1], low) ELSE Xor(a[0], high)]
    <3> DEFINE u == Xor(a[1], low)
               v == Xor(a[0], high)
    <3>1. a \in [0 .. 1 -> Word]
      BY AddressShape
    <3>2. r = BothWords(a, u, v)
      BY <2>2, <3>1 DEF BothWords
    <3>4. u \in Word /\ v \in Word
      BY <1>3, <1>4, <2>1, XorShape DEF low
    <3> HIDE DEF u, v
    <3>3. r = [i \in 0 .. 1 |-> IF i = 1 THEN u ELSE v]
      BY <3>1, <3>2, <3>4, BothSet
    <3> QED
      BY <3>3 DEF u, v
  <2> QED
    BY <2>1, <2>3 DEF low
<1> HIDE DEF h
<1>6. r \in Axis
  <2>1. Xor(a[1], lowBitMask(n)) \in Word /\ Xor(a[0], lowBitMask(h)) \in Word
    BY <1>3, <1>4, XorShape
  <2> HIDE DEF r
  <2> QED
    BY <1>5, <2>1, AddressShape
<1>7. ASSUME NEW x \in Word, NEW m, NEW k \in Weight
      PROVE  Xor(x, lowBitMask(m))[k] = IF k < m THEN 1 - x[k] ELSE x[k]
  <2>1. x[k] \in {0, 1}
    BY WordShape DEF Bit
  <2>2. Xor(x, lowBitMask(m))[k] = IF x[k] = lowBitMask(m)[k] THEN 0 ELSE 1
    BY DEF Xor, xor
  <2>3. lowBitMask(m)[k] = IF k < m THEN 1 ELSE 0
    BY DEF lowBitMask
  <2> QED
    BY <2>1, <2>2, <2>3
<1>8. ASSUME NEW c \in 0 .. Levels - 1
      PROVE  axisBit(r, c) = IF c < n THEN 1 - axisBit(a, c) ELSE axisBit(a, c)
  <2>1. c % WordBits \in Weight /\ n \in Nat /\ c \in Nat
    BY <1>1, AxisPlaces
  <2> HIDE DEF r
  <2>2. CASE c < WordBits
    <3>1. c \div WordBits = 0 /\ c % WordBits = c
      BY <1>1, <2>2, AxisPlaces
    <3>2. axisBit(r, c) = Xor(a[1], lowBitMask(n))[c] /\ axisBit(a, c) = a[1][c]
      BY <1>5, <3>1 DEF axisBit
    <3> QED
      BY <1>3, <1>7, <2>1, <3>1, <3>2
  <2>3. CASE ~(c < WordBits)
    <3>1. c \div WordBits = 1 /\ c % WordBits = c - WordBits
      BY <1>1, <2>1, <2>3, AxisPlaces
    <3>2. axisBit(r, c) = Xor(a[0], lowBitMask(h))[c - WordBits] /\ axisBit(a, c) = a[0][c - WordBits]
      BY <1>5, <3>1 DEF axisBit
    <3>3. c - WordBits < h <=> c < n
      BY <1>1, <2>1, <2>3 DEF h
    <3> QED
      BY <1>3, <1>7, <2>1, <3>1, <3>2, <3>3
  <2> QED
    BY <2>2, <2>3
<1> QED
  BY <1>6, <1>8

-----------------------------------------------------------------------------
\* The bits of an address by position, from the most significant one.

LEMMA WordPlaces ==
  ASSUME NEW w \in 0 .. 3
  PROVE  /\ w * WordBits \in Nat
         /\ (w + 1) * WordBits = w * WordBits + WordBits
         /\ w * WordBits + WordBits <= MaxPrefixLen
         /\ \A p \in w * WordBits .. w * WordBits + WordBits - 1 :
              /\ p \in 0 .. MaxPrefixLen - 1
              /\ p \div WordBits = w /\ p % WordBits = p - w * WordBits
<1>1. WordBits \in Nat /\ WordBits > 0 /\ MaxPrefixLen = 4 * WordBits
  BY Widths
<1> DEFINE start == w * WordBits
<1>2. \/ w = 0 /\ start = 0
      \/ w = 1 /\ start = WordBits
      \/ w = 2 /\ start = 2 * WordBits
      \/ w = 3 /\ start = 3 * WordBits
  BY <1>1
<1>3. (w + 1) * WordBits = start + WordBits
  BY <1>1, <1>2
<1>4. start \in Nat /\ start + WordBits <= MaxPrefixLen
  BY <1>1, <1>2
<1> HIDE DEF start
<1>5. ASSUME NEW p \in start .. start + WordBits - 1
      PROVE  p \in 0 .. MaxPrefixLen - 1 /\ p \div WordBits = w /\ p % WordBits = p - start
  <2>1. p \in 0 .. MaxPrefixLen - 1
    BY <1>1, <1>4
  <2> QED
    BY <1>1, <1>2, <2>1, Places
<1> QED
  BY <1>3, <1>4, <1>5 DEF start

LEMMA PositionPlaces ==
  ASSUME NEW p \in 0 .. MaxPrefixLen - 1
  PROVE  /\ p \div WordBits \in 0 .. 3
         /\ p % WordBits \in Weight
         /\ WordBits - 1 - (p % WordBits) \in Weight
         /\ p = (p \div WordBits) * WordBits + (p % WordBits)
<1>1. WordBits \in Nat /\ WordBits > 0 /\ Weight = 0 .. WordBits - 1
  BY Widths
<1>2. p \div WordBits \in 0 .. 3 /\ p % WordBits \in Weight
  BY PlaceTypes
<1>3. p = (p \div WordBits) * WordBits + (p % WordBits)
  BY <1>1, Places
<1> QED
  BY <1>1, <1>2, <1>3

LEMMA BitAtType ==
  ASSUME NEW a \in Address, NEW p \in 0 .. MaxPrefixLen - 1
  PROVE  bitAt(a, p) \in Bit
  BY PositionPlaces, AddressShape, WordShape DEF bitAt

\* A position is a bit of the index, counted from the other end.
LEMMA BitAtIndex ==
  ASSUME NEW a, NEW p \in 0 .. MaxPrefixLen - 1
  PROVE  /\ MaxPrefixLen - 1 - p \in 0 .. MaxPrefixLen - 1
         /\ bitAt(a, p) = indexBit(a, MaxPrefixLen - 1 - p)
<1> DEFINE b == MaxPrefixLen - 1 - p
<1>1. WordBits \in Nat /\ WordBits > 0 /\ MaxPrefixLen = 4 * WordBits
  BY Widths
<1>2. b \in 0 .. MaxPrefixLen - 1 /\ b = MaxPrefixLen - 1 - p
  BY <1>1
<1> HIDE DEF b
<1>3. b \div WordBits = 3 - (p \div WordBits) /\ b % WordBits = WordBits - 1 - (p % WordBits)
  BY <1>1, <1>2, Places
<1>4. p \div WordBits \in 0 .. 3
  BY PlaceTypes
<1>5. 3 - (b \div WordBits) = p \div WordBits
  BY <1>3, <1>4
<1> QED
  BY <1>2, <1>3, <1>5 DEF bitAt, indexBit, b

\* An address is its bits, by position.
LEMMA SamePositions ==
  ASSUME NEW a \in Address, NEW c \in Address,
         \A p \in 0 .. MaxPrefixLen - 1 : bitAt(a, p) = bitAt(c, p)
  PROVE  a = c
<1>1. ASSUME NEW b \in 0 .. MaxPrefixLen - 1
      PROVE  indexBit(a, b) = indexBit(c, b)
  <2> DEFINE p == MaxPrefixLen - 1 - b
  <2>1. MaxPrefixLen \in Nat
    BY Widths
  <2>2. p \in 0 .. MaxPrefixLen - 1 /\ MaxPrefixLen - 1 - p = b
    BY <2>1
  <2> QED
    BY <2>2, BitAtIndex
<1> QED
  BY <1>1, SameBits

\* The bits of a number, as an address.
LEMMA FromNumberBits ==
  ASSUME NEW n \in Integer(MaxPrefixLen)
  PROVE  /\ FromNumber(n) \in Address
         /\ \A b \in 0 .. MaxPrefixLen - 1 : indexBit(FromNumber(n), b) = n[b]
<1>1. WordBits \in Nat /\ WordBits > 0 /\ MaxPrefixLen = 4 * WordBits /\ Weight = 0 .. WordBits - 1
  BY Widths
<1>2. n \in [0 .. MaxPrefixLen - 1 -> Bit]
  BY DEF Integer
<1>3. ASSUME NEW i \in 0 .. 3, NEW k \in Weight
      PROVE  /\ (Words - 1 - i) * WordBits + k \in 0 .. MaxPrefixLen - 1
             /\ FromNumber(n)[i][k] = n[(3 - i) * WordBits + k]
  <2>1. 3 - i \in 0 .. 3 /\ Words - 1 - i = 3 - i /\ Words - 1 = 3
    BY DEF Words
  <2> DEFINE s == (3 - i) * WordBits
  <2>2. s \in Nat /\ s + WordBits <= MaxPrefixLen
    BY <2>1, WordPlaces
  <2>3. (Words - 1 - i) * WordBits = s
    BY <2>1
  <2> HIDE DEF s
  <2>4. s + k \in 0 .. MaxPrefixLen - 1
    BY <1>1, <2>2
  <2>5. FromNumber(n)[i][k] = n[(Words - 1 - i) * WordBits + k]
    BY <2>1 DEF FromNumber
  <2> QED
    BY <2>3, <2>4, <2>5 DEF s
<1>4. FromNumber(n) \in Address
  <2>1. ASSUME NEW i \in 0 .. 3
        PROVE  [k \in Weight |-> n[(Words - 1 - i) * WordBits + k]] \in Word
    BY <1>2, <1>3, WordShape
  <2> QED
    BY <2>1, AddressShape DEF FromNumber, Words
<1>5. ASSUME NEW b \in 0 .. MaxPrefixLen - 1
      PROVE  indexBit(FromNumber(n), b) = n[b]
  <2> DEFINE q == b \div WordBits
             r == b % WordBits
  <2>1. q \in 0 .. 3 /\ r \in Weight /\ b = q * WordBits + r
    BY PositionPlaces
  <2> HIDE DEF q, r
  <2>2. 3 - q \in 0 .. 3 /\ 3 - (3 - q) = q
    BY <2>1
  <2>3. FromNumber(n)[3 - q][r] = n[(3 - (3 - q)) * WordBits + r]
    BY <1>3, <2>1, <2>2
  <2> QED
    BY <2>1, <2>2, <2>3 DEF indexBit, q, r
<1> QED
  BY <1>4, <1>5

LEMMA FromV4Bits ==
  ASSUME NEW n \in Integer(WordBits)
  PROVE  /\ FromV4(n) \in Address
         /\ \A p \in 0 .. MaxPrefixLen - 1 :
              bitAt(FromV4(n), p) = IF p < WordBits THEN n[WordBits - 1 - p] ELSE 0
<1>1. WordBits \in Nat /\ WordBits > 0 /\ MaxPrefixLen = 4 * WordBits /\ Weight = 0 .. WordBits - 1
  BY Widths
<1>2. n \in Word
  BY DEF Word
<1>3. FromV4(n) \in Address
  BY <1>2, WordShape, AddressShape DEF FromV4, Words
<1>4. ASSUME NEW p \in 0 .. MaxPrefixLen - 1
      PROVE  bitAt(FromV4(n), p) = IF p < WordBits THEN n[WordBits - 1 - p] ELSE 0
  <2> DEFINE q == p \div WordBits
             r == p % WordBits
  <2>1. q \in 0 .. 3 /\ WordBits - 1 - r \in Weight
    BY PositionPlaces
  <2>2. (q = 0 <=> p < WordBits) /\ (p < WordBits => r = p)
    BY <1>1, Places
  <2>3. bitAt(FromV4(n), p) = FromV4(n)[q][WordBits - 1 - r]
    BY DEF bitAt
  <2> HIDE DEF q, r
  <2>4. FromV4(n)[q] = IF q = 0 THEN n ELSE Zero
    BY <2>1 DEF FromV4, Words
  <2> QED
    BY <2>1, <2>2, <2>3, <2>4 DEF Zero
<1> QED
  BY <1>3, <1>4

\* What the mask leaves of an address.
LEMMA MaskedBits ==
  ASSUME NEW a \in Address, NEW l \in Nat
  PROVE  /\ masked(a, l) \in Address
         /\ \A p \in 0 .. MaxPrefixLen - 1 :
              bitAt(masked(a, l), p) = IF p < l THEN bitAt(a, p) ELSE 0
<1>1. WordBits \in Nat /\ WordBits > 0 /\ MaxPrefixLen = 4 * WordBits /\ Weight = 0 .. WordBits - 1
  BY Widths
<1> DEFINE shifted(w) == And(a[w], ShiftLeft(AllOnes, WordBits - (l - w * WordBits)))
<1>2. ASSUME NEW w \in 0 .. 3
      PROVE  masked(a, l)[w] =
               IF l <= w * WordBits THEN Zero
               ELSE IF l < w * WordBits + WordBits THEN shifted(w)
               ELSE a[w]
  <2> DEFINE start == w * WordBits
  <2>1. start \in Nat
    BY WordPlaces
  <2>2. masked(a, l)[w] =
          CASE l <= start                                -> Zero
            [] start < l /\ l < start + WordBits         -> shifted(w)
            [] OTHER                                     -> a[w]
    BY DEF masked, Words
  <2> HIDE DEF shifted, start
  <2>3. CASE l <= start
    <3>1. ~(start < l /\ l < start + WordBits)
      BY <1>1, <2>1, <2>3
    <3> QED
      BY <2>2, <2>3, <3>1 DEF start
  <2>4. CASE ~(l <= start) /\ l < start + WordBits
    <3>1. start < l
      BY <2>1, <2>4
    <3> QED
      BY <2>2, <2>4, <3>1 DEF start
  <2>5. CASE ~(l <= start) /\ ~(l < start + WordBits)
    BY <2>2, <2>5 DEF start
  <2> QED
    BY <2>3, <2>4, <2>5
<1>3. ASSUME NEW w \in 0 .. 3
      PROVE  a[w] \in Word /\ shifted(w) \in Word
  BY AddressShape, WordShape DEF And, Bit
<1>4. masked(a, l) \in Address
  <2> DEFINE m == masked(a, l)
  <2>1. \A w \in 0 .. 3 : m[w] \in Word
    <3> HIDE DEF shifted, m
    <3> TAKE w \in 0 .. 3
    <3>1. m[w] = Zero \/ m[w] = shifted(w) \/ m[w] = a[w]
      BY <1>2 DEF m
    <3> QED
      BY <1>3, <3>1, WordShape
  <2>2. m = [w \in 0 .. 3 |-> m[w]]
    BY DEF masked, Words
  <2> HIDE DEF m
  <2>3. m \in [0 .. 3 -> Word]
    BY <2>1, <2>2
  <2> QED
    BY <2>3, AddressShape DEF m
<1>5. ASSUME NEW p \in 0 .. MaxPrefixLen - 1
      PROVE  bitAt(masked(a, l), p) = IF p < l THEN bitAt(a, p) ELSE 0
  <2> DEFINE w == p \div WordBits
             r == p % WordBits
             start == w * WordBits
             k == WordBits - 1 - r
  <2>1. w \in 0 .. 3 /\ r \in 0 .. WordBits - 1 /\ k \in Weight /\ p = start + r
    BY <1>1, PositionPlaces
  <2>2. start \in Nat
    BY <2>1, WordPlaces
  <2>3. bitAt(masked(a, l), p) = masked(a, l)[w][k] /\ bitAt(a, p) = a[w][k]
    BY DEF bitAt
  <2>4. k = WordBits - 1 - r /\ p \in Nat
    BY <1>1
  <2>5. masked(a, l)[w] = IF l <= start THEN Zero
                          ELSE IF l < start + WordBits THEN shifted(w)
                          ELSE a[w]
    BY <1>2, <2>1
  <2> DEFINE d == WordBits - (l - start)
  <2>6. shifted(w) = And(a[w], ShiftLeft(AllOnes, d))
    OBVIOUS
  <2> HIDE DEF shifted, w, r, k, start
  <2>7. CASE l <= start
    <3>1. ~(p < l)
      BY <2>1, <2>2, <2>4, <2>7
    <3> QED
      BY <2>1, <2>3, <2>5, <2>7, <3>1 DEF Zero
  <2>8. CASE ~(l <= start) /\ l < start + WordBits
    <3>1. d \in 1 .. WordBits - 1 /\ (k < d <=> ~(p < l))
      BY <1>1, <2>1, <2>2, <2>4, <2>8
    <3> HIDE DEF d
    <3>2. d % WordBits = d
      BY <1>1, <3>1
    <3>3. ShiftLeft(AllOnes, d)[k] = IF k < d THEN 0 ELSE AllOnes[k - d]
      BY <2>1, <3>2 DEF ShiftLeft
    <3>4. ~(k < d) => AllOnes[k - d] = 1
      <4>1. ~(k < d) => k - d \in Weight
        BY <1>1, <2>1, <3>1
      <4> QED
        BY <4>1 DEF AllOnes
    <3>5. a[w][k] \in {0, 1}
      BY <2>1, AddressShape, WordShape DEF Bit
    <3>6. shifted(w)[k] = IF a[w][k] = 1 /\ ShiftLeft(AllOnes, d)[k] = 1 THEN 1 ELSE 0
      BY <2>1, <2>6 DEF And
    <3>7. masked(a, l)[w] = shifted(w)
      BY <2>5, <2>8
    <3> QED
      BY <2>3, <3>1, <3>3, <3>4, <3>5, <3>6, <3>7
  <2>9. CASE ~(l <= start) /\ ~(l < start + WordBits)
    <3>1. p < l
      BY <1>1, <2>1, <2>2, <2>4, <2>9
    <3> QED
      BY <2>3, <2>5, <2>9, <3>1
  <2> QED
    BY <2>7, <2>8, <2>9
<1> QED
  BY <1>4, <1>5

-----------------------------------------------------------------------------
\* The common prefix of two addresses.

LEMMA MinOfTwo ==
  ASSUME NEW m \in Int, NEW n \in Int
  PROVE  Min({m, n}) = IF m <= n THEN m ELSE n
<1> DEFINE e == IF m <= n THEN m ELSE n
<1>1. e \in {m, n} /\ e \in Int /\ \A y \in {m, n} : e <= y
  OBVIOUS
<1>2. ASSUME NEW x \in {m, n}, \A y \in {m, n} : x <= y
      PROVE  x = e
  <2>1. x <= e /\ e <= x /\ x \in Int
    BY <1>1, <1>2
  <2> QED
    BY <1>1, <2>1
<1> HIDE DEF e
<1>3. Min({m, n}) = e
  BY <1>1, <1>2 DEF Min
<1> QED
  BY <1>3 DEF e

LEMMA LeastIs ==
  ASSUME NEW S \in SUBSET Nat, NEW x \in S, \A y \in S : x <= y
  PROVE  Min(S) = x
<1>1. ASSUME NEW z \in S, \A y \in S : z <= y
      PROVE  z = x
  <2>1. z <= x /\ x <= z /\ x \in Nat /\ z \in Nat
    BY <1>1
  <2> QED
    BY <2>1
<1>2. \A y \in S : x <= y
  OBVIOUS
<1> QED
  BY <1>1, <1>2 DEF Min

LEMMA GreatestIs ==
  ASSUME NEW S \in SUBSET Nat, NEW x \in S, \A y \in S : y <= x
  PROVE  Max(S) = x
<1>1. ASSUME NEW z \in S, \A y \in S : z >= y
      PROVE  z = x
  <2>1. z >= x /\ z <= x /\ x \in Nat /\ z \in Nat
    BY <1>1
  <2> QED
    BY <2>1
<1>2. \A y \in S : x >= y
  <2>1. \A y \in S : y \in Nat
    OBVIOUS
  <2> QED
    BY <2>1
<1> QED
  BY <1>1, <1>2 DEF Max

\* The leading zeros of a word: zeros, and the bit below them is a one.
LEMMA LeadingZerosCount ==
  ASSUME NEW x \in Word
  PROVE  /\ LeadingZeros(x) \in 0 .. WordBits
         /\ \A k \in Weight : k >= WordBits - LeadingZeros(x) => x[k] = 0
         /\ LeadingZeros(x) < WordBits => x[WordBits - 1 - LeadingZeros(x)] = 1
<1>1. WordBits \in Nat /\ WordBits > 0 /\ Weight = 0 .. WordBits - 1
  BY Widths
<1> DEFINE T == {n \in 0 .. WordBits : \A k \in n .. WordBits - 1 : x[k] = 0}
<1>2. WordBits \in T
  BY <1>1
<1>3. PICK n \in T : \A y \in T : n <= y
  <2>1. T \in SUBSET Nat /\ T # {}
    BY <1>2
  <2> HIDE DEF T
  <2> QED
    BY <2>1, NaturalMinimum
<1>4. LeadingZeros(x) = WordBits - n
  <2>1. T \in SUBSET Nat
    OBVIOUS
  <2>2. LeadingZeros(x) = WordBits - Min(T)
    BY DEF LeadingZeros
  <2> HIDE DEF T
  <2> QED
    BY <1>3, <2>1, <2>2, LeastIs
<1>5. n \in 0 .. WordBits /\ \A k \in n .. WordBits - 1 : x[k] = 0
  BY <1>3
<1>6. n > 0 => x[n - 1] = 1
  <2>1. SUFFICES ASSUME n > 0 PROVE x[n - 1] = 1
    OBVIOUS
  <2>2. n - 1 \in Weight /\ n - 1 \in 0 .. WordBits
    BY <1>1, <1>5, <2>1
  <2>3. n - 1 \notin T
    BY <1>3, <1>5, <2>1
  <2>4. PICK k \in n - 1 .. WordBits - 1 : x[k] # 0
    BY <2>2, <2>3
  <2>5. k = n - 1
    BY <1>1, <1>5, <2>4
  <2> QED
    BY <2>2, <2>4, <2>5, WordShape DEF Bit
<1> HIDE DEF T
<1>7. LeadingZeros(x) \in 0 .. WordBits /\ WordBits - LeadingZeros(x) = n
  BY <1>1, <1>4, <1>5
<1>8. \A k \in Weight : k >= WordBits - LeadingZeros(x) => x[k] = 0
  BY <1>1, <1>5, <1>7
<1>9. LeadingZeros(x) < WordBits => x[WordBits - 1 - LeadingZeros(x)] = 1
  <2>1. LeadingZeros(x) < WordBits => n > 0 /\ WordBits - 1 - LeadingZeros(x) = n - 1
    BY <1>1, <1>5, <1>7
  <2> QED
    BY <1>6, <2>1
<1> QED
  BY <1>7, <1>8, <1>9

\* The states of the loop over the words, and its step at one.
LoopState == [common : Nat, broken : BOOLEAN]

WordStep(a, b, m, w, s) ==
  IF s.broken \/ s.common >= m THEN s
  ELSE IF Xor(a[w - 1], b[w - 1]) = Zero
    THEN [common |-> s.common + Min({WordBits, m - s.common}), broken |-> FALSE]
    ELSE [common |-> s.common + Min({LeadingZeros(Xor(a[w - 1], b[w - 1])), m - s.common}),
          broken |-> TRUE]

LEMMA WordStepType ==
  ASSUME NEW a \in Address, NEW b \in Address, NEW m \in Nat, NEW w \in 1 .. 4, NEW s \in LoopState
  PROVE  WordStep(a, b, m, w, s) \in LoopState
<1> DEFINE x == Xor(a[w - 1], b[w - 1])
<1>1. x \in Word
  <2>1. w - 1 \in 0 .. 3
    OBVIOUS
  <2> QED
    BY <2>1, AddressShape, XorShape
<1>2. s.common \in Nat /\ WordBits \in Nat /\ LeadingZeros(x) \in Nat
  BY <1>1, LeadingZerosCount, Widths DEF LoopState
<1> DEFINE u == Min({WordBits, m - s.common})
           v == Min({LeadingZeros(x), m - s.common})
<1>3. ~(s.common >= m) => u \in Nat /\ v \in Nat
  <2> HIDE DEF x
  <2>1. m - s.common \in Int
    BY <1>2
  <2>2. /\ u = IF WordBits <= m - s.common THEN WordBits ELSE m - s.common
        /\ v = IF LeadingZeros(x) <= m - s.common THEN LeadingZeros(x) ELSE m - s.common
    BY <1>2, <2>1, MinOfTwo
  <2> QED
    BY <1>2, <2>2
<1>4. WordStep(a, b, m, w, s) =
        IF s.broken \/ s.common >= m THEN s
        ELSE IF x = Zero THEN [common |-> s.common + u, broken |-> FALSE]
        ELSE [common |-> s.common + v, broken |-> TRUE]
  BY DEF WordStep
<1> HIDE DEF u, v, x
<1>5. CASE s.broken \/ s.common >= m
  BY <1>4, <1>5
<1>6. CASE ~(s.broken \/ s.common >= m)
  <2>1. s.common + u \in Nat /\ s.common + v \in Nat
    BY <1>2, <1>3, <1>6
  <2> QED
    BY <1>4, <1>6, <2>1 DEF LoopState
<1> QED
  BY <1>5, <1>6

\* What the loop has found after w words.
Found(a, b, m, w, s) ==
  /\ s.common \in 0 .. m
  /\ \A p \in 0 .. s.common - 1 : bitAt(a, p) = bitAt(b, p)
  /\ \/ s.common = m
     \/ s.broken /\ bitAt(a, s.common) # bitAt(b, s.common)
     \/ ~s.broken /\ s.common = w * WordBits

LEMMA WordStepFinds ==
  ASSUME NEW a \in Address, NEW b \in Address, NEW m \in 0 .. MaxPrefixLen, NEW w \in 0 .. 3,
         NEW s \in LoopState, Found(a, b, m, w, s)
  PROVE  Found(a, b, m, w + 1, WordStep(a, b, m, w + 1, s))
<1> DEFINE W == WordBits
           start == w * W
           x == Xor(a[w], b[w])
           t == WordStep(a, b, m, w + 1, s)
<1>1. W \in Nat /\ W > 0 /\ Weight = 0 .. W - 1 /\ MaxPrefixLen \in Nat
  BY Widths
<1>2. /\ start \in Nat /\ (w + 1) * W = start + W
      /\ \A p \in start .. start + W - 1 : p \div W = w /\ p % W = p - start
  BY WordPlaces
<1>3. s.common \in Nat /\ s.broken \in BOOLEAN /\ m \in Nat
  BY <1>1 DEF LoopState
<1>4. CASE s.broken \/ s.common >= m
  <2>1. t = s
    BY <1>4 DEF WordStep
  <2> QED
    BY <1>3, <1>4, <2>1 DEF Found
<1>5. CASE ~(s.broken \/ s.common >= m)
  <2>1. s.common = start /\ start < m
    BY <1>3, <1>5 DEF Found
  <2>2. \A p \in 0 .. start - 1 : bitAt(a, p) = bitAt(b, p)
    BY <2>1 DEF Found
  <2>3. ASSUME NEW p \in start .. start + W - 1
        PROVE  /\ bitAt(a, p) = a[w][W - 1 - (p - start)]
               /\ bitAt(b, p) = b[w][W - 1 - (p - start)]
               /\ W - 1 - (p - start) \in Weight
    <3>1. p \div W = w /\ p % W = p - start
      BY <1>2
    <3>2. W - 1 - (p - start) \in Weight
      <4> HIDE DEF start, W
      <4> QED
        BY <1>1, <1>2
    <3> QED
      BY <3>1, <3>2 DEF bitAt
  <2>4. a[w] \in Word /\ b[w] \in Word
    BY AddressShape
  <2>5. x \in Word /\ \A k \in Weight : x[k] = 0 <=> a[w][k] = b[w][k]
    <3>1. x \in Word /\ \A k \in Weight : x[k] = IF a[w][k] = b[w][k] THEN 0 ELSE 1
      BY <2>4, XorShape
    <3> QED
      BY <3>1
  <2>6. w + 1 - 1 = w
    OBVIOUS
  <2>7. CASE x = Zero
    <3> DEFINE c == IF W <= m - start THEN start + W ELSE m
    <3>1. t = [common |-> start + Min({W, m - start}), broken |-> FALSE]
      BY <1>5, <2>1, <2>6, <2>7 DEF WordStep
    <3>2. start + Min({W, m - start}) = c
      <4> HIDE DEF start, W
      <4> QED
        BY <1>1, <1>2, <1>3, MinOfTwo
    <3>3. t.common = c /\ t.broken = FALSE
      BY <3>1, <3>2
    <3>4. c \in 0 .. m /\ c <= start + W /\ (c = m \/ c = start + W)
      <4> HIDE DEF start, W
      <4> QED
        BY <1>1, <1>2, <1>3, <2>1
    <3> HIDE DEF c, t
    <3>5. ASSUME NEW p \in 0 .. c - 1
          PROVE  bitAt(a, p) = bitAt(b, p)
      <4>1. CASE p < start
        <5> HIDE DEF start, W
        <5> QED
          BY <1>1, <1>2, <2>2, <4>1
      <4>2. CASE ~(p < start)
        <5>1. p \in start .. start + W - 1
          <6> HIDE DEF start, W
          <6> QED
            BY <1>1, <1>2, <3>4, <4>2
        <5>2. W - 1 - (p - start) \in Weight
          BY <2>3, <5>1
        <5>3. x[W - 1 - (p - start)] = 0
          BY <2>7, <5>2 DEF Zero
        <5> QED
          BY <2>3, <2>5, <5>1, <5>2, <5>3
      <4> QED
        BY <4>1, <4>2
    <3> QED
      BY <1>2, <3>3, <3>4, <3>5 DEF Found, t
  <2>8. CASE x # Zero
    <3> DEFINE z == LeadingZeros(x)
               c == IF z <= m - start THEN start + z ELSE m
    <3>1. t = [common |-> start + Min({z, m - start}), broken |-> TRUE]
      BY <1>5, <2>1, <2>6, <2>8 DEF WordStep
    <3>2. /\ z \in 0 .. W
          /\ \A k \in Weight : k >= W - z => x[k] = 0
          /\ z < W => x[W - 1 - z] = 1
      BY <2>5, LeadingZerosCount
    <3>3. z < W
      <4>1. SUFFICES ASSUME ~(z < W) PROVE FALSE
        OBVIOUS
      <4>2. \A k \in Weight : x[k] = 0
        <5> HIDE DEF z, x
        <5> QED
          BY <1>1, <3>2, <4>1
      <4>3. x \in [Weight -> Bit]
        BY <2>5, WordShape
      <4>4. x = Zero
        <5> HIDE DEF x
        <5> QED
          BY <4>2, <4>3 DEF Zero
      <4> QED
        BY <2>8, <4>4
    <3> HIDE DEF z
    <3>4. start + Min({z, m - start}) = c
      <4> HIDE DEF start, W
      <4> QED
        BY <1>1, <1>2, <1>3, <3>2, MinOfTwo
    <3>5. t.common = c /\ t.broken = TRUE
      BY <3>1, <3>4
    <3>6. c \in 0 .. m /\ c <= start + z /\ (c = m \/ c = start + z)
      <4> HIDE DEF start, W
      <4> QED
        BY <1>1, <1>2, <1>3, <2>1, <3>2
    <3> HIDE DEF c, t
    <3>7. ASSUME NEW p \in 0 .. c - 1
          PROVE  bitAt(a, p) = bitAt(b, p)
      <4>1. CASE p < start
        <5> HIDE DEF start, W
        <5> QED
          BY <1>1, <1>2, <2>2, <4>1
      <4>2. CASE ~(p < start)
        <5>1. p \in start .. start + W - 1 /\ W - 1 - (p - start) >= W - z
          <6> HIDE DEF start, W
          <6> QED
            BY <1>1, <1>2, <3>2, <3>3, <3>6, <4>2
        <5>2. W - 1 - (p - start) \in Weight
          BY <2>3, <5>1
        <5>3. x[W - 1 - (p - start)] = 0
          BY <3>2, <5>1, <5>2
        <5> QED
          BY <2>3, <2>5, <5>1, <5>2, <5>3
      <4> QED
        BY <4>1, <4>2
    <3>8. bitAt(a, start + z) # bitAt(b, start + z)
      <4> DEFINE p == start + z
      <4>1. p \in start .. start + W - 1 /\ W - 1 - (p - start) = W - 1 - z
        <5> HIDE DEF start, W
        <5> QED
          BY <1>1, <1>2, <3>2, <3>3
      <4>2. W - 1 - z \in Weight
        BY <2>3, <4>1
      <4>3. x[W - 1 - z] # 0
        BY <3>2, <3>3
      <4>4. bitAt(a, p) = a[w][W - 1 - z] /\ bitAt(b, p) = b[w][W - 1 - z]
        BY <2>3, <4>1
      <4> QED
        BY <2>5, <4>2, <4>3, <4>4
    <3>9. c = m \/ bitAt(a, c) # bitAt(b, c)
      BY <3>6, <3>8
    <3> QED
      BY <1>2, <3>5, <3>6, <3>7, <3>9 DEF Found, t
  <2> QED
    BY <2>7, <2>8
<1> QED
  BY <1>4, <1>5

\* The loop runs its step at the words in their order.
LEMMA CommonPrefixLenUnfolds ==
  ASSUME NEW a \in Address, NEW b \in Address, NEW aLen \in Nat, NEW bLen \in Nat,
         NEW m, m = Min({aLen, bLen})
  PROVE  \E g \in [0 .. 4 -> LoopState] :
           /\ g[0] = [common |-> 0, broken |-> FALSE]
           /\ \A w \in 1 .. 4 : g[w] = WordStep(a, b, m, w, g[w - 1])
           /\ commonPrefixLen(a, aLen, b, bLen) = g[4].common
<1> DEFINE zero == [common |-> 0, broken |-> FALSE]
           F == [w \in 1 .. 4 |-> [s \in LoopState |-> WordStep(a, b, m, w, s)]]
           UpTo(g) ==
             [w \in 0 .. 4 |->
                IF w = 0 THEN zero
                ELSE LET s         == g[w - 1]
                         diff      == Xor(a[w - 1], b[w - 1])
                         remaining == m - s.common
                     IN  IF s.broken \/ s.common >= m THEN s
                         ELSE IF diff = Zero
                           THEN [common |-> s.common + Min({WordBits, remaining}), broken |-> FALSE]
                           ELSE [common |-> s.common + Min({LeadingZeros(diff), remaining}),
                                 broken |-> TRUE]]
           Steps(g) == [w \in 0 .. 4 |-> IF w = 0 THEN zero ELSE WordStep(a, b, m, w, g[w - 1])]
<1>1. m \in Nat
  BY MinOfTwo
<1>2. zero \in LoopState
  BY DEF LoopState
<1>3. F \in [1 .. 4 -> [LoopState -> LoopState]]
  BY <1>1, WordStepType
<1>4. PICK g \in [0 .. 4 -> LoopState] :
        g[0] = zero /\ \A w \in 1 .. 4 : g[w] = F[w][g[w - 1]]
  <2>1. 4 \in Nat
    OBVIOUS
  <2> HIDE DEF F, zero
  <2>2. \E g \in [0 .. 4 -> LoopState] : Follows(g, 4, zero, F)
    BY <1>2, <1>3, <2>1, IntervalRecursion
  <2> QED
    BY <2>2 DEF Follows
<1> HIDE DEF zero
<1>5. ASSUME NEW w \in 1 .. 4
      PROVE  g[w] = WordStep(a, b, m, w, g[w - 1])
  <2>1. g[w - 1] \in LoopState
    BY <1>4
  <2> QED
    BY <1>4, <2>1
<1> HIDE DEF F
<1>6. ASSUME NEW h
      PROVE  UpTo(h) = Steps(h)
  BY DEF WordStep
<1>7. g = Steps(g)
  <2>1. \A w \in 0 .. 4 : g[w] = Steps(g)[w]
    BY <1>4, <1>5
  <2>2. g = [w \in 0 .. 4 |-> g[w]]
    BY <1>4
  <2> QED
    BY <2>1, <2>2
<1> DEFINE c == CHOOSE f : f = UpTo(f)
<1>8. commonPrefixLen(a, aLen, b, bLen) = c[4].common
  BY DEF commonPrefixLen, Words, zero
<1>9. c = Steps(c)
  <2> HIDE DEF UpTo, Steps
  <2>1. g = UpTo(g)
    BY <1>6, <1>7
  <2>2. c = UpTo(c)
    BY <2>1
  <2> QED
    BY <1>6, <2>2
<1> HIDE DEF c
<1>10. c[0] = zero /\ \A w \in 1 .. 4 : c[w] = WordStep(a, b, m, w, c[w - 1])
  BY <1>9
<1>11. g[4] = c[4]
  <2>1. g[0] = c[0]
    BY <1>4, <1>10
  <2>2. g[1] = c[1]
    BY <1>5, <1>10, <2>1
  <2>3. g[2] = c[2]
    BY <1>5, <1>10, <2>2
  <2>4. g[3] = c[3]
    BY <1>5, <1>10, <2>3
  <2> QED
    BY <1>5, <1>10, <2>4
<1> QED
  BY <1>4, <1>5, <1>8, <1>11 DEF zero

\* It finds the first bit that differs, or the bound.
LEMMA CommonPrefixLenFinds ==
  ASSUME NEW a \in Address, NEW b \in Address,
         NEW aLen \in 0 .. MaxPrefixLen, NEW bLen \in 0 .. MaxPrefixLen
  PROVE  LET m == Min({aLen, bLen})
             c == commonPrefixLen(a, aLen, b, bLen)
         IN  /\ c \in 0 .. m
             /\ \A p \in 0 .. c - 1 : bitAt(a, p) = bitAt(b, p)
             /\ c < m => bitAt(a, c) # bitAt(b, c)
<1> DEFINE m == Min({aLen, bLen})
           c == commonPrefixLen(a, aLen, b, bLen)
<1>1. WordBits \in Nat /\ MaxPrefixLen = 4 * WordBits
  BY Widths
<1>2. aLen \in Nat /\ bLen \in Nat /\ m \in 0 .. MaxPrefixLen
  BY <1>1, MinOfTwo
<1>3. PICK g \in [0 .. 4 -> LoopState] :
           /\ g[0] = [common |-> 0, broken |-> FALSE]
           /\ \A w \in 1 .. 4 : g[w] = WordStep(a, b, m, w, g[w - 1])
           /\ c = g[4].common
  BY <1>2, CommonPrefixLenUnfolds
<1> HIDE DEF m, c
<1>4. Found(a, b, m, 0, g[0])
  BY <1>1, <1>2, <1>3 DEF Found
<1>5. ASSUME NEW w \in 0 .. 3, Found(a, b, m, w, g[w])
      PROVE  Found(a, b, m, w + 1, g[w + 1])
  <2>1. w + 1 \in 1 .. 4 /\ w + 1 - 1 = w /\ g[w] \in LoopState
    BY <1>3
  <2> QED
    BY <1>2, <1>3, <1>5, <2>1, WordStepFinds
<1>6. Found(a, b, m, 1, g[1])
  BY <1>4, <1>5
<1>7. Found(a, b, m, 2, g[2])
  BY <1>5, <1>6
<1>8. Found(a, b, m, 3, g[3])
  BY <1>5, <1>7
<1>9. Found(a, b, m, 4, g[4])
  BY <1>5, <1>8
<1>10. c < m => bitAt(a, c) # bitAt(b, c)
  BY <1>1, <1>2, <1>3, <1>9 DEF Found
<1>11. c \in 0 .. m /\ \A p \in 0 .. c - 1 : bitAt(a, p) = bitAt(b, p)
  BY <1>3, <1>9 DEF Found
<1> QED
  BY <1>10, <1>11 DEF m, c

-----------------------------------------------------------------------------
\* The states of the walk.

Typed ==
  /\ number \in Integer(MaxPrefixLen)
  /\ len \in 0 .. MaxPrefixLen + 1

LEMMA NextTyped ==
  ASSUME NEW k \in Nat, NEW m \in Integer(k), NEW n, IsNext(n, m)
  PROVE  n \in Integer(k)
<1>1. m \in [0 .. k - 1 -> Bit]
  BY DEF Integer
<1>2. PICK z \in 0 .. k - 1 :
        n = [j \in 0 .. k - 1 |-> IF j < z THEN 0 ELSE IF j = z THEN 1 ELSE m[j]]
  BY <1>1 DEF IsNext
<1>3. \A j \in 0 .. k - 1 : (IF j < z THEN 0 ELSE IF j = z THEN 1 ELSE m[j]) \in Bit
  BY <1>1 DEF Bit
<1> QED
  BY <1>2, <1>3 DEF Integer

\* The walk stays among the numbers of an address's width, and the lengths it
\* tries end with the first that is too long.
LEMMA WalkTyped == Spec => []Typed
<1>1. MaxPrefixLen \in Nat
  BY Widths
<1>2. Init => Typed
  BY <1>1 DEF Init, Typed, Integer, Bit
<1>3. Typed /\ [Next]_vars => Typed'
  <2> SUFFICES ASSUME Typed, [Next]_vars PROVE Typed'
    OBVIOUS
  <2>1. CASE NextAddress
    BY <1>1, <2>1, NextTyped DEF Typed, NextAddress
  <2>2. CASE Longer
    BY <1>1, <2>2 DEF Typed, Longer
  <2>3. CASE UNCHANGED vars
    BY <2>3 DEF Typed, vars
  <2> QED
    BY <2>1, <2>2, <2>3 DEF Next
<1> QED
  BY <1>2, <1>3, PTL DEF Spec

-----------------------------------------------------------------------------
\* The common prefix is the one of module Prefixes.

LEMMA BitsOfShape ==
  ASSUME NEW a \in Address, NEW l \in 0 .. MaxPrefixLen
  PROVE  /\ BitsOf(a, l) \in Seq(Bit) /\ Len(BitsOf(a, l)) = l
         /\ \A k \in 1 .. l : BitsOf(a, l)[k] = bitAt(a, k - 1)
<1>1. MaxPrefixLen \in Nat /\ l \in Nat
  BY Widths
<1>2. \A k \in 1 .. l : bitAt(a, k - 1) \in Bit
  <2> TAKE k \in 1 .. l
  <2>1. k - 1 \in 0 .. MaxPrefixLen - 1
    BY <1>1
  <2> QED
    BY <2>1, BitAtType
<1>3. BitsOf(a, l) \in [1 .. l -> Bit]
  BY <1>2 DEF BitsOf
<1>4. \A k \in 1 .. l : BitsOf(a, l)[k] = bitAt(a, k - 1)
  BY DEF BitsOf
<1> HIDE DEF BitsOf
<1> QED
  BY <1>1, <1>3, <1>4

\* The loop's count is the maximum that module Prefixes defines.
LEMMA CommonBits ==
  ASSUME NEW a \in Address, NEW b \in Address,
         NEW aLen \in 0 .. MaxPrefixLen, NEW bLen \in 0 .. MaxPrefixLen
  PROVE  commonPrefixLen(a, aLen, b, bLen) =
           Bits!CommonPrefixLen(BitsOf(a, aLen), BitsOf(b, bLen))
<1> DEFINE p == BitsOf(a, aLen)
           q == BitsOf(b, bLen)
           c == commonPrefixLen(a, aLen, b, bLen)
           m == Min({aLen, bLen})
           S == {n \in 0 .. MaxPrefixLen : Bits!AgreeOn(p, q, n)}
<1>1. /\ MaxPrefixLen \in Nat /\ aLen \in Nat /\ bLen \in Nat
      /\ m \in 0 .. MaxPrefixLen /\ m <= aLen /\ m <= bLen /\ (m = aLen \/ m = bLen)
  <2>1. MaxPrefixLen \in Nat
    BY Widths
  <2> QED
    BY <2>1, MinOfTwo
<1>2. /\ c \in 0 .. m
      /\ \A k \in 0 .. c - 1 : bitAt(a, k) = bitAt(b, k)
      /\ c < m => bitAt(a, c) # bitAt(b, c)
  BY CommonPrefixLenFinds
<1>3. /\ Len(p) = aLen /\ \A k \in 1 .. aLen : p[k] = bitAt(a, k - 1)
      /\ Len(q) = bLen /\ \A k \in 1 .. bLen : q[k] = bitAt(b, k - 1)
  BY BitsOfShape
<1>4. Bits!CommonPrefixLen(p, q) = Max(S)
  BY DEF Bits!CommonPrefixLen, Bits!Max, Max
<1> HIDE DEF p, q, c, m
<1>5. c \in S
  <2>1. c \in 0 .. MaxPrefixLen /\ c <= Len(p) /\ c <= Len(q)
    BY <1>1, <1>2, <1>3
  <2>2. ASSUME NEW k \in 1 .. c
        PROVE  p[k] = q[k]
    <3>1. k - 1 \in 0 .. c - 1 /\ k \in 1 .. aLen /\ k \in 1 .. bLen
      BY <1>1, <1>2
    <3> QED
      BY <1>2, <1>3, <3>1
  <2> QED
    BY <2>1, <2>2 DEF Bits!AgreeOn
<1>6. ASSUME NEW n \in S
      PROVE  n <= c
  <2>1. n \in Nat /\ n <= aLen /\ n <= bLen /\ \A k \in 1 .. n : p[k] = q[k]
    BY <1>3 DEF Bits!AgreeOn
  <2>2. SUFFICES ASSUME n > c PROVE FALSE
    BY <1>1, <1>2, <2>1
  <2>3. PICK k \in 1 .. n : k - 1 = c
    BY <1>1, <1>2, <2>1, <2>2
  <2>4. k \in 1 .. aLen /\ k \in 1 .. bLen /\ c < m
    BY <1>1, <1>2, <2>1, <2>2, <2>3
  <2>5. p[k] = bitAt(a, k - 1) /\ q[k] = bitAt(b, k - 1)
    BY <1>3, <2>4
  <2>6. p[k] = q[k]
    BY <2>1, <2>3
  <2> QED
    BY <1>2, <2>3, <2>4, <2>5, <2>6
<1>7. Max(S) = c
  <2>1. S \in SUBSET Nat
    BY <1>1
  <2> HIDE DEF S
  <2> QED
    BY <1>5, <1>6, <2>1, GreatestIs
<1> QED
  BY <1>4, <1>7 DEF p, q, c

\* Address::common_prefix_len, word by word with its early exits, is the length
\* of the longest agreement of the bits: for words of any width, what the trie's
\* model takes it to be.
THEOREM CommonIsRight == Spec => []CommonRight
<1>1. Typed => CommonRight
  <2> SUFFICES ASSUME Typed, len <= MaxPrefixLen, NEW other \in Address
               PROVE  commonPrefixLen(ip, len, other, MaxPrefixLen) =
                        Bits!CommonPrefixLen(BitsOf(ip, len), BitsOf(other, MaxPrefixLen))
    BY DEF CommonRight
  <2>1. len \in 0 .. MaxPrefixLen /\ MaxPrefixLen \in 0 .. MaxPrefixLen
    BY Widths DEF Typed
  <2>2. ip \in Address
    BY FromNumberBits DEF Typed, ip
  <2> QED
    BY <2>1, <2>2, CommonBits
<1> QED
  BY <1>1, WalkTyped, PTL

-----------------------------------------------------------------------------
\* Parsing.

\* The bits of a parsed address: those of the number, then zeros.
LEMMA ParsedBits ==
  ASSUME NEW version \in {V4, V6}, NEW n \in Integer(FamilyBits(version))
  PROVE  /\ Parsed(version, n) \in Address
         /\ \A p \in 0 .. MaxPrefixLen - 1 :
              bitAt(Parsed(version, n), p) =
                IF p < FamilyBits(version) THEN n[FamilyBits(version) - 1 - p] ELSE 0
<1>1. CASE version = V4
  <2>1. FamilyBits(version) = WordBits /\ Parsed(version, n) = FromV4(n)
    BY <1>1 DEF FamilyBits, Parsed
  <2> QED
    BY <2>1, FromV4Bits
<1>2. CASE version # V4
  <2>1. FamilyBits(version) = MaxPrefixLen /\ Parsed(version, n) = FromNumber(n)
    BY <1>2 DEF FamilyBits, Parsed
  <2>2. FromNumber(n) \in Address
    BY <2>1, FromNumberBits
  <2>3. ASSUME NEW p \in 0 .. MaxPrefixLen - 1
        PROVE  bitAt(FromNumber(n), p) = IF p < MaxPrefixLen THEN n[MaxPrefixLen - 1 - p] ELSE 0
    <3>1. MaxPrefixLen \in Nat /\ p < MaxPrefixLen
      BY Widths
    <3> QED
      BY <2>1, <3>1, BitAtIndex, FromNumberBits
  <2> QED
    BY <2>1, <2>2, <2>3
<1> QED
  BY <1>1, <1>2

\* A prefix covers the addresses with its first bits.
LEMMA CoversBits ==
  ASSUME NEW a \in Address, NEW b \in Address, NEW l \in 0 .. MaxPrefixLen
  PROVE  covers(newPrefix(a, l), b) <=> \A p \in 0 .. l - 1 : bitAt(a, p) = bitAt(b, p)
<1> DEFINE m == masked(a, l)
           c == commonPrefixLen(m, l, b, MaxPrefixLen)
<1>1. MaxPrefixLen \in Nat /\ l \in Nat /\ MaxPrefixLen \in 0 .. MaxPrefixLen
  BY Widths
<1>2. m \in Address /\ \A p \in 0 .. l - 1 : bitAt(m, p) = bitAt(a, p)
  <2>1. \A p \in 0 .. l - 1 : p \in 0 .. MaxPrefixLen - 1 /\ p < l
    BY <1>1
  <2> QED
    BY <1>1, <2>1, MaskedBits
<1>3. /\ c \in 0 .. l
      /\ \A k \in 0 .. c - 1 : bitAt(m, k) = bitAt(b, k)
      /\ c < l => bitAt(m, c) # bitAt(b, c)
  <2>1. Min({l, MaxPrefixLen}) = l
    BY <1>1, MinOfTwo
  <2> HIDE DEF m
  <2> QED
    BY <1>1, <1>2, <2>1, CommonPrefixLenFinds
<1>4. covers(newPrefix(a, l), b) <=> c = l
  BY DEF covers, newPrefix
<1> HIDE DEF m, c
<1>5. c = l <=> \A p \in 0 .. l - 1 : bitAt(m, p) = bitAt(b, p)
  <2>1. c < l => c \in 0 .. l - 1
    BY <1>1, <1>3
  <2>2. c = l \/ c < l
    BY <1>1, <1>3
  <2> QED
    BY <1>1, <1>3, <2>1, <2>2
<1> QED
  BY <1>2, <1>4, <1>5

\* Masking forgets the host bits and nothing else.
LEMMA MaskedSame ==
  ASSUME NEW a \in Address, NEW b \in Address, NEW l \in 0 .. MaxPrefixLen
  PROVE  masked(a, l) = masked(b, l) <=> \A p \in 0 .. l - 1 : bitAt(a, p) = bitAt(b, p)
<1>1. MaxPrefixLen \in Nat /\ l \in Nat
  BY Widths
<1>2. /\ masked(a, l) \in Address /\ masked(b, l) \in Address
      /\ \A p \in 0 .. MaxPrefixLen - 1 :
           /\ bitAt(masked(a, l), p) = IF p < l THEN bitAt(a, p) ELSE 0
           /\ bitAt(masked(b, l), p) = IF p < l THEN bitAt(b, p) ELSE 0
  BY <1>1, MaskedBits
<1>3. \A p \in 0 .. MaxPrefixLen - 1 : p < l <=> p \in 0 .. l - 1
  BY <1>1
<1>4. \A p \in 0 .. l - 1 : p \in 0 .. MaxPrefixLen - 1
  BY <1>1
<1>5. ASSUME masked(a, l) = masked(b, l), NEW p \in 0 .. l - 1
      PROVE  bitAt(a, p) = bitAt(b, p)
  BY <1>2, <1>3, <1>4, <1>5
<1>6. ASSUME \A p \in 0 .. l - 1 : bitAt(a, p) = bitAt(b, p)
      PROVE  masked(a, l) = masked(b, l)
  <2>1. ASSUME NEW p \in 0 .. MaxPrefixLen - 1
        PROVE  bitAt(masked(a, l), p) = bitAt(masked(b, l), p)
    BY <1>2, <1>3, <1>6
  <2> QED
    BY <1>2, <2>1, SamePositions
<1> QED
  BY <1>5, <1>6

\* Prefix::parse_cidr and Prefix::covers: a CIDR becomes the prefix of its block
\* and of no other address, and two CIDRs the same prefix exactly when they are of
\* the same block, for words of any width.
THEOREM ParsingIsRight == Spec => []ParsesRight
<1>1. Typed => ParsesRight
  <2> SUFFICES ASSUME Typed, NEW version \in {V4, V6}
               PROVE  LET n      == [k \in 0 .. FamilyBits(version) - 1 |-> number[k]]
                          parsed == parseCidr(version, n, len)
                      IN  IF len > FamilyBits(version)
                            THEN parsed = LengthTooLong
                            ELSE \A m \in Integer(FamilyBits(version)) :
                                   /\ covers(parsed[2], Parsed(version, m)) <=>
                                        SameBlock(version, m, n)
                                   /\ parseCidr(version, m, len) = parsed <=>
                                        SameBlock(version, m, n)
    BY DEF ParsesRight
  <2> DEFINE family == FamilyBits(version)
             n == [k \in 0 .. family - 1 |-> number[k]]
             a == Parsed(version, n)
  <2>1. family \in Nat /\ family <= MaxPrefixLen /\ MaxPrefixLen \in Nat /\ len \in Nat
    BY Widths DEF FamilyBits, Typed
  <2>2. n \in Integer(family)
    <3>1. number \in [0 .. MaxPrefixLen - 1 -> Bit]
      BY DEF Typed, Integer
    <3>2. \A k \in 0 .. family - 1 : k \in 0 .. MaxPrefixLen - 1
      <4> HIDE DEF family
      <4> QED
        BY <2>1
    <3> HIDE DEF family
    <3> QED
      BY <3>1, <3>2 DEF Integer
  <2> HIDE DEF n, family
  <2>3. CASE len > family
    <3>1. parseCidr(version, n, len) = LengthTooLong
      BY <2>3 DEF parseCidr, family
    <3> QED
      BY <2>3, <3>1 DEF n, family
  <2>4. CASE ~(len > family)
    <3>1. \A m : parseCidr(version, m, len) = <<version, newPrefix(Parsed(version, m), len)>>
      BY <2>4 DEF parseCidr, family
    <3>2. len \in 0 .. MaxPrefixLen
      BY <2>1, <2>4
    <3>3. ASSUME NEW m \in Integer(family)
          PROVE  /\ covers(newPrefix(a, len), Parsed(version, m)) <=> SameBlock(version, m, n)
                 /\ parseCidr(version, m, len) = parseCidr(version, n, len) <=>
                      SameBlock(version, m, n)
      <4> DEFINE b == Parsed(version, m)
      <4>1. /\ a \in Address /\ b \in Address
            /\ \A p \in 0 .. MaxPrefixLen - 1 :
                 /\ bitAt(a, p) = IF p < family THEN n[family - 1 - p] ELSE 0
                 /\ bitAt(b, p) = IF p < family THEN m[family - 1 - p] ELSE 0
        BY <2>2, ParsedBits DEF family
      <4> HIDE DEF a, b
      <4>2. (\A p \in 0 .. len - 1 : bitAt(a, p) = bitAt(b, p)) <=> SameBlock(version, m, n)
        <5>1. \A p \in 0 .. len - 1 :
                p \in 0 .. MaxPrefixLen - 1 /\ p < family /\ family - 1 - p \in family - len .. family - 1
          BY <2>1, <2>4
        <5>2. \A k \in family - len .. family - 1 :
                family - 1 - k \in 0 .. len - 1 /\ family - 1 - (family - 1 - k) = k
          BY <2>1, <2>4
        <5>3. \A p \in 0 .. len - 1 : bitAt(a, p) = n[family - 1 - p] /\ bitAt(b, p) = m[family - 1 - p]
          BY <4>1, <5>1
        <5>4. SameBlock(version, m, n) <=> \A k \in family - len .. family - 1 : m[k] = n[k]
          BY DEF SameBlock, family
        <5>5. ASSUME SameBlock(version, m, n), NEW p \in 0 .. len - 1
              PROVE  bitAt(a, p) = bitAt(b, p)
          BY <5>1, <5>3, <5>4, <5>5
        <5>6. ASSUME \A p \in 0 .. len - 1 : bitAt(a, p) = bitAt(b, p),
                     NEW k \in family - len .. family - 1
              PROVE  m[k] = n[k]
          <6>1. bitAt(a, family - 1 - k) = n[k] /\ bitAt(b, family - 1 - k) = m[k]
            BY <5>2, <5>3
          <6> QED
            BY <5>2, <5>6, <6>1
        <5> QED
          BY <5>4, <5>5, <5>6
      <4>3. covers(newPrefix(a, len), b) <=> SameBlock(version, m, n)
        BY <3>2, <4>1, <4>2, CoversBits
      <4>4. newPrefix(b, len) = newPrefix(a, len) <=> masked(b, len) = masked(a, len)
        BY DEF newPrefix
      <4>5. parseCidr(version, m, len) = parseCidr(version, n, len) <=>
              newPrefix(b, len) = newPrefix(a, len)
        BY <3>1 DEF a, b
      <4>6. masked(b, len) = masked(a, len) <=> \A p \in 0 .. len - 1 : bitAt(a, p) = bitAt(b, p)
        BY <3>2, <4>1, MaskedSame
      <4> QED
        BY <4>2, <4>3, <4>4, <4>5, <4>6 DEF b
    <3>4. parseCidr(version, n, len)[2] = newPrefix(a, len)
      BY <3>1
    <3> QED
      BY <2>4, <3>3, <3>4 DEF n, family
  <2> QED
    BY <2>3, <2>4
<1> QED
  BY <1>1, WalkTyped, PTL

-----------------------------------------------------------------------------
\* Prefixes over words are those of module Prefixes, over bits.

\* What Prefix::new builds.
WordPrefix == {newPrefix(a, l) : a \in Address, l \in 0 .. MaxPrefixLen}

AsBits(p) == BitsOf(p.bits, p.len)

LEMMA WordPrefixShape ==
  ASSUME NEW p \in WordPrefix
  PROVE  /\ p.bits \in Address /\ p.len \in 0 .. MaxPrefixLen
         /\ p = [bits |-> p.bits, len |-> p.len]
         /\ \A k \in 0 .. MaxPrefixLen - 1 : k >= p.len => bitAt(p.bits, k) = 0
         /\ AsBits(p) \in Seq(Bit) /\ Len(AsBits(p)) = p.len
         /\ \A k \in 1 .. p.len : AsBits(p)[k] = bitAt(p.bits, k - 1)
<1>1. PICK a \in Address, l \in 0 .. MaxPrefixLen : p = newPrefix(a, l)
  BY DEF WordPrefix
<1>2. MaxPrefixLen \in Nat /\ l \in Nat
  BY Widths
<1>3. p.bits = masked(a, l) /\ p.len = l /\ p = [bits |-> p.bits, len |-> p.len]
  BY <1>1 DEF newPrefix
<1>4. p.bits \in Address
  BY <1>2, <1>3, MaskedBits
<1>5. \A k \in 0 .. MaxPrefixLen - 1 : k >= l => bitAt(p.bits, k) = 0
  <2>1. \A k \in 0 .. MaxPrefixLen - 1 : k >= l => ~(k < l)
    BY <1>2
  <2> QED
    BY <1>2, <1>3, <2>1, MaskedBits
<1>6. /\ AsBits(p) \in Seq(Bit) /\ Len(AsBits(p)) = p.len
      /\ \A k \in 1 .. p.len : AsBits(p)[k] = bitAt(p.bits, k - 1)
  BY <1>3, <1>4, BitsOfShape DEF AsBits
<1> QED
  BY <1>3, <1>4, <1>5, <1>6

LEMMA WordPrefixesSame ==
  ASSUME NEW p \in WordPrefix, NEW q \in WordPrefix, AsBits(p) = AsBits(q)
  PROVE  p = q
<1>1. p.len = q.len /\ MaxPrefixLen \in Nat /\ p.len \in Nat
  BY WordPrefixShape, Widths
<1>2. ASSUME NEW k \in 0 .. MaxPrefixLen - 1
      PROVE  bitAt(p.bits, k) = bitAt(q.bits, k)
  <2>1. CASE k < p.len
    <3>1. k + 1 \in 1 .. p.len /\ k + 1 - 1 = k
      BY <1>1, <2>1
    <3>2. AsBits(p)[k + 1] = bitAt(p.bits, k) /\ AsBits(q)[k + 1] = bitAt(q.bits, k)
      BY <1>1, <3>1, WordPrefixShape
    <3> QED
      BY <3>2
  <2>2. CASE ~(k < p.len)
    <3>1. k >= p.len /\ k >= q.len
      BY <1>1, <2>2
    <3>2. bitAt(p.bits, k) = 0 /\ bitAt(q.bits, k) = 0
      BY <3>1, WordPrefixShape
    <3> QED
      BY <3>2
  <2> QED
    BY <2>1, <2>2
<1>3. p.bits = q.bits
  BY <1>2, SamePositions, WordPrefixShape
<1> QED
  BY <1>1, <1>3, WordPrefixShape

\* Every bit sequence is a prefix over words.
LEMMA WordPrefixFor ==
  ASSUME NEW s \in Bits!Prefix
  PROVE  \E p \in WordPrefix : AsBits(p) = s
<1>1. MaxPrefixLen \in Nat
  BY Widths
<1>2. PICK l \in 0 .. MaxPrefixLen : s \in [1 .. l -> Bit]
  BY DEF Bits!Prefix, Bits!Bit, Bit
<1> DEFINE n == [k \in 0 .. MaxPrefixLen - 1 |->
                   IF MaxPrefixLen - k \in 1 .. l THEN s[MaxPrefixLen - k] ELSE 0]
           a == FromNumber(n)
           p == newPrefix(a, l)
<1>3. n \in Integer(MaxPrefixLen)
  BY <1>2 DEF Integer, Bit
<1>4. a \in Address /\ \A b \in 0 .. MaxPrefixLen - 1 : indexBit(a, b) = n[b]
  <2> HIDE DEF n
  <2> QED
    BY <1>3, FromNumberBits
<1> HIDE DEF a
<1>5. p \in WordPrefix /\ p.len = l /\ p.bits = masked(a, l)
  BY <1>4 DEF WordPrefix, newPrefix
<1> HIDE DEF p
<1>6. ASSUME NEW k \in 1 .. l
      PROVE  AsBits(p)[k] = s[k]
  <2>1. /\ k - 1 \in 0 .. MaxPrefixLen - 1 /\ k - 1 < l /\ l \in Nat
        /\ MaxPrefixLen - 1 - (k - 1) = MaxPrefixLen - k
        /\ MaxPrefixLen - k \in 0 .. MaxPrefixLen - 1
        /\ MaxPrefixLen - (MaxPrefixLen - k) = k
    BY <1>1, <1>2
  <2>2. AsBits(p)[k] = bitAt(masked(a, l), k - 1)
    BY <1>5, WordPrefixShape
  <2>3. bitAt(masked(a, l), k - 1) = bitAt(a, k - 1)
    BY <1>4, <2>1, MaskedBits
  <2>4. bitAt(a, k - 1) = n[MaxPrefixLen - k]
    <3> HIDE DEF n
    <3>1. bitAt(a, k - 1) = indexBit(a, MaxPrefixLen - 1 - (k - 1))
      BY <2>1, BitAtIndex
    <3> QED
      BY <1>4, <2>1, <3>1
  <2>5. n[MaxPrefixLen - k] = s[k]
    BY <2>1
  <2> HIDE DEF n
  <2> QED
    BY <2>2, <2>3, <2>4, <2>5
<1> HIDE DEF n
<1>7. AsBits(p) \in [1 .. l -> Bit]
  <2>1. AsBits(p) \in Seq(Bit) /\ Len(AsBits(p)) = l
    BY <1>5, WordPrefixShape
  <2> QED
    BY <2>1, LenProperties
<1>8. AsBits(p) = s
  BY <1>2, <1>6, <1>7
<1> QED
  BY <1>5, <1>8

\* The trie compares, cuts and reads prefixes only through the operations below.
\* Each gives over words what module Prefixes takes it to give over bits, and there
\* is one word prefix for each sequence of bits: the trie of RadixTree, with bit
\* sequences for prefixes, is the code's, whatever the width of a word.
THEOREM PrefixesAreBits ==
  /\ {AsBits(p) : p \in WordPrefix} = Bits!Prefix
  /\ \A p, q \in WordPrefix :
       /\ AsBits(p) = AsBits(q) <=> p = q
       /\ Len(AsBits(p)) = p.len
       /\ commonPrefixLen(p.bits, p.len, q.bits, q.len) =
            Bits!CommonPrefixLen(AsBits(p), AsBits(q))
       /\ q.len = MaxPrefixLen => (covers(p, q.bits) <=> Bits!Covers(AsBits(p), AsBits(q)))
  /\ \A p \in WordPrefix :
       /\ \A k \in 0 .. p.len - 1 : bitAt(p.bits, k) = Bits!BitAt(AsBits(p), k)
       /\ \A n \in 0 .. p.len :
            /\ newPrefix(p.bits, n) \in WordPrefix
            /\ AsBits(newPrefix(p.bits, n)) = Bits!Masked(AsBits(p), n)
<1>1. MaxPrefixLen \in Nat
  BY Widths
<1>2. ASSUME NEW p \in WordPrefix
      PROVE  AsBits(p) \in Bits!Prefix
  <2>1. AsBits(p) \in Seq(Bit) /\ Len(AsBits(p)) \in 0 .. MaxPrefixLen
    BY WordPrefixShape
  <2>2. AsBits(p) \in [1 .. Len(AsBits(p)) -> Bit]
    BY <2>1, LenProperties
  <2> QED
    BY <2>1, <2>2 DEF Bits!Prefix, Bits!Bit, Bit
<1>3. {AsBits(p) : p \in WordPrefix} = Bits!Prefix
  BY <1>2, WordPrefixFor
<1>4. ASSUME NEW p \in WordPrefix, NEW q \in WordPrefix
      PROVE  /\ AsBits(p) = AsBits(q) <=> p = q
             /\ Len(AsBits(p)) = p.len
             /\ commonPrefixLen(p.bits, p.len, q.bits, q.len) =
                  Bits!CommonPrefixLen(AsBits(p), AsBits(q))
             /\ q.len = MaxPrefixLen =>
                  (covers(p, q.bits) <=> Bits!Covers(AsBits(p), AsBits(q)))
  <2>1. commonPrefixLen(p.bits, p.len, q.bits, q.len) = Bits!CommonPrefixLen(AsBits(p), AsBits(q))
    BY CommonBits, WordPrefixShape DEF AsBits
  <2>2. Len(AsBits(p)) = p.len
    BY WordPrefixShape
  <2>3. q.len = MaxPrefixLen => (covers(p, q.bits) <=> Bits!Covers(AsBits(p), AsBits(q)))
    BY <2>1, <2>2 DEF covers, Bits!Covers
  <2> QED
    BY <2>1, <2>2, <2>3, WordPrefixesSame
<1>5. ASSUME NEW p \in WordPrefix, NEW k \in 0 .. p.len - 1
      PROVE  bitAt(p.bits, k) = Bits!BitAt(AsBits(p), k)
  <2>1. p.len \in Nat
    BY <1>1, WordPrefixShape
  <2>2. k + 1 \in 1 .. p.len /\ k + 1 - 1 = k
    BY <2>1
  <2> QED
    BY <2>2, WordPrefixShape DEF Bits!BitAt
<1>6. ASSUME NEW p \in WordPrefix, NEW n \in 0 .. p.len
      PROVE  /\ newPrefix(p.bits, n) \in WordPrefix
             /\ AsBits(newPrefix(p.bits, n)) = Bits!Masked(AsBits(p), n)
  <2> DEFINE q == newPrefix(p.bits, n)
  <2>1. p.bits \in Address /\ n \in 0 .. MaxPrefixLen /\ n \in Nat /\ p.len \in Nat /\ n <= p.len
    BY <1>1, WordPrefixShape
  <2>2. q \in WordPrefix /\ q.len = n /\ q.bits = masked(p.bits, n)
    BY <2>1 DEF WordPrefix, newPrefix
  <2> HIDE DEF q
  <2>3. AsBits(q) \in Seq(Bit) /\ Len(AsBits(q)) = n
    BY <2>2, WordPrefixShape
  <2>4. AsBits(q) \in [1 .. n -> Bit]
    BY <2>3, LenProperties
  <2>5. ASSUME NEW k \in 1 .. n
        PROVE  AsBits(q)[k] = AsBits(p)[k]
    <3>1. k - 1 \in 0 .. MaxPrefixLen - 1 /\ k - 1 < n /\ k \in 1 .. p.len
      BY <1>1, <2>1
    <3>2. AsBits(q)[k] = bitAt(masked(p.bits, n), k - 1)
      BY <2>2, WordPrefixShape
    <3>3. bitAt(masked(p.bits, n), k - 1) = bitAt(p.bits, k - 1)
      BY <2>1, <3>1, MaskedBits
    <3>4. AsBits(p)[k] = bitAt(p.bits, k - 1)
      BY <3>1, WordPrefixShape
    <3> QED
      BY <3>2, <3>3, <3>4
  <2>6. AsBits(q) = [k \in 1 .. n |-> AsBits(p)[k]]
    BY <2>4, <2>5
  <2> QED
    BY <2>2, <2>6 DEF Bits!Masked, q
<1> QED
  BY <1>3, <1>4, <1>5, <1>6

-----------------------------------------------------------------------------
\* The steps of the two loops over the levels of the curve.

LEMMA IndexPlaces ==
  ASSUME NEW l \in 0 .. Levels - 1
  PROVE  2 * l \in 0 .. MaxPrefixLen - 1 /\ 2 * l + 1 \in 0 .. MaxPrefixLen - 1
<1>1. WordBits \in Nat /\ MaxPrefixLen = 4 * WordBits /\ Levels = 2 * WordBits
  BY Widths
<1> QED
  BY <1>1

LEMMA XorBits ==
  ASSUME NEW b \in Bit, NEW c \in Bit
  PROVE  /\ xor(b, c) \in Bit
         /\ xor(c, xor(b, c)) = b
         /\ xor(b, c) = 0 <=> b = c
  BY DEF xor, Bit

\* One level of ip_to_point: the quadrant's two bits, and the point that follows p.
QuadrantX(a, l) == indexBit(a, 2 * l + 1)

QuadrantY(a, l) == xor(indexBit(a, 2 * l), indexBit(a, 2 * l + 1))

UpStep(a, l, p) ==
  LET t == Turned(p, Reflected(p, l), QuadrantX(a, l), QuadrantY(a, l))
  IN  [x |-> Marked(t.x, QuadrantX(a, l), l), y |-> Marked(t.y, QuadrantY(a, l), l)]

LEMMA QuadrantBits ==
  ASSUME NEW a \in Address, NEW l \in 0 .. Levels - 1
  PROVE  /\ QuadrantX(a, l) \in Bit /\ QuadrantY(a, l) \in Bit
         /\ indexBit(a, 2 * l) \in Bit
         /\ xor(QuadrantX(a, l), QuadrantY(a, l)) = indexBit(a, 2 * l)
<1>1. indexBit(a, 2 * l) \in Bit /\ indexBit(a, 2 * l + 1) \in Bit
  BY IndexPlaces, IndexBitType
<1> QED
  BY <1>1, XorBits DEF QuadrantX, QuadrantY

LEMMA MarkedBits ==
  ASSUME NEW u \in Axis, NEW c \in Bit, NEW l \in 0 .. Levels - 1
  PROVE  /\ Marked(u, c, l) \in Axis
         /\ \A b \in 0 .. Levels - 1 :
              axisBit(Marked(u, c, l), b) = IF b = l /\ c = 1 THEN 1 ELSE axisBit(u, b)
  BY SetAxisBit DEF Marked

\* A step turns the point one of three ways and marks the level's bits.
LEMMA UpStepAxes ==
  ASSUME NEW a \in Address, NEW l \in 0 .. Levels - 1, NEW p \in Point,
         NEW rx, NEW ry, rx = QuadrantX(a, l), ry = QuadrantY(a, l)
  PROVE  /\ UpStep(a, l, p).x =
              Marked(IF ry # 0 THEN p.x
                     ELSE IF rx = 1 THEN complementLowAxisBits(p.y, l) ELSE p.y, rx, l)
         /\ UpStep(a, l, p).y =
              Marked(IF ry # 0 THEN p.y
                     ELSE IF rx = 1 THEN complementLowAxisBits(p.x, l) ELSE p.x, ry, l)
  BY DEF UpStep, Turned, Reflected

\* The same, bit by bit.
LEMMA UpStepBits ==
  ASSUME NEW a \in Address, NEW l \in 0 .. Levels - 1, NEW p \in Point,
         NEW rx, NEW ry, rx = QuadrantX(a, l), ry = QuadrantY(a, l)
  PROVE  /\ UpStep(a, l, p) \in Point
         /\ \A b \in 0 .. Levels - 1 :
              /\ axisBit(UpStep(a, l, p).x, b) =
                   IF b = l /\ rx = 1 THEN 1
                   ELSE IF ry = 1 THEN axisBit(p.x, b)
                   ELSE IF rx = 1 /\ b < l THEN 1 - axisBit(p.y, b) ELSE axisBit(p.y, b)
              /\ axisBit(UpStep(a, l, p).y, b) =
                   IF b = l /\ ry = 1 THEN 1
                   ELSE IF ry = 1 THEN axisBit(p.y, b)
                   ELSE IF rx = 1 /\ b < l THEN 1 - axisBit(p.x, b) ELSE axisBit(p.x, b)
<1>1. rx \in {0, 1} /\ ry \in {0, 1} /\ rx \in Bit /\ ry \in Bit
  BY QuadrantBits DEF Bit
<1>2. p.x \in Axis /\ p.y \in Axis
  BY DEF Point
<1>3. l \in 0 .. Levels
  BY Widths
<1> DEFINE u == IF ry # 0 THEN p.x
                ELSE IF rx = 1 THEN complementLowAxisBits(p.y, l) ELSE p.y
           v == IF ry # 0 THEN p.y
                ELSE IF rx = 1 THEN complementLowAxisBits(p.x, l) ELSE p.x
<1>4. u \in Axis /\ v \in Axis
  BY <1>2, <1>3, ComplementLowBits
<1>5. ASSUME NEW b \in 0 .. Levels - 1
      PROVE  /\ axisBit(u, b) =
                  IF ry = 1 THEN axisBit(p.x, b)
                  ELSE IF rx = 1 /\ b < l THEN 1 - axisBit(p.y, b) ELSE axisBit(p.y, b)
             /\ axisBit(v, b) =
                  IF ry = 1 THEN axisBit(p.y, b)
                  ELSE IF rx = 1 /\ b < l THEN 1 - axisBit(p.x, b) ELSE axisBit(p.x, b)
  BY <1>1, <1>2, <1>3, ComplementLowBits
<1>6. UpStep(a, l, p).x = Marked(u, rx, l) /\ UpStep(a, l, p).y = Marked(v, ry, l)
  BY UpStepAxes
<1> HIDE DEF u, v
<1>7. UpStep(a, l, p) \in Point
  <2>1. UpStep(a, l, p) = [x |-> UpStep(a, l, p).x, y |-> UpStep(a, l, p).y]
    BY DEF UpStep
  <2>2. UpStep(a, l, p).x \in Axis /\ UpStep(a, l, p).y \in Axis
    BY <1>1, <1>4, <1>6, MarkedBits
  <2> QED
    BY <2>1, <2>2 DEF Point
<1>8. ASSUME NEW b \in 0 .. Levels - 1
      PROVE  /\ axisBit(UpStep(a, l, p).x, b) = IF b = l /\ rx = 1 THEN 1 ELSE axisBit(u, b)
             /\ axisBit(UpStep(a, l, p).y, b) = IF b = l /\ ry = 1 THEN 1 ELSE axisBit(v, b)
  BY <1>1, <1>4, <1>6, MarkedBits
<1> QED
  BY <1>5, <1>7, <1>8

LEMMA ZeroBits ==
  /\ ZeroAxis \in Axis
  /\ \A b \in 0 .. Levels - 1 : axisBit(ZeroAxis, b) = 0
<1>1. ZeroAxis \in Axis
  BY WordShape, AddressShape DEF ZeroAxis
<1>2. ASSUME NEW b \in 0 .. Levels - 1
      PROVE  axisBit(ZeroAxis, b) = 0
  <2>1. 1 - (b \div WordBits) \in 0 .. 1 /\ b % WordBits \in Weight
    BY AxisPlaces
  <2> QED
    BY <2>1 DEF axisBit, ZeroAxis, Zero
<1> QED
  BY <1>1, <1>2

ZeroPoint == [x |-> ZeroAxis, y |-> ZeroAxis]

\* h[l] is the point of the l finest levels.
Climbs(a, h) ==
  /\ h[0] = ZeroPoint
  /\ \A l \in 0 .. Levels - 1 : h[l + 1] = UpStep(a, l, h[l])

\* The loop of ip_to_point runs its step at the levels in their order.
LEMMA IpToPointUnfolds ==
  ASSUME NEW a \in Address
  PROVE  \E h \in [0 .. Levels -> Point] : Climbs(a, h) /\ ipToPoint(a) = h[Levels]
<1> DEFINE n == Levels
           F == [k \in 1 .. n |-> [p \in Point |-> UpStep(a, k - 1, p)]]
           UpTo(h) ==
             [level \in 0 .. n |->
                IF level = 0 THEN [x |-> ZeroAxis, y |-> ZeroAxis]
                ELSE LET l  == level - 1
                         rx == indexBit(a, 2 * l + 1)
                         ry == xor(indexBit(a, 2 * l), rx)
                         p  == Turned(h[l], Reflected(h[l], l), rx, ry)
                     IN  [x |-> Marked(p.x, rx, l), y |-> Marked(p.y, ry, l)]]
           Steps(h) ==
             [level \in 0 .. n |-> IF level = 0 THEN ZeroPoint ELSE UpStep(a, level - 1, h[level - 1])]
           c == CHOOSE h : h = UpTo(h)
<1>1. n \in Nat
  BY Widths
<1>2. ZeroPoint \in Point
  BY ZeroBits DEF ZeroPoint, Point
<1>3. ASSUME NEW k \in 1 .. n
      PROVE  k - 1 \in 0 .. Levels - 1 /\ k - 1 \in 0 .. n /\ k \in 0 .. n /\ k # 0
  BY <1>1
<1>4. F \in [1 .. n -> [Point -> Point]]
  BY <1>3, UpStepBits
<1>5. PICK g \in [0 .. n -> Point] : g[0] = ZeroPoint /\ \A k \in 1 .. n : g[k] = F[k][g[k - 1]]
  <2> HIDE DEF F, n
  <2>1. \E g \in [0 .. n -> Point] : Follows(g, n, ZeroPoint, F)
    BY <1>1, <1>2, <1>4, IntervalRecursion
  <2> QED
    BY <2>1 DEF Follows
<1>6. ASSUME NEW k \in 1 .. n
      PROVE  g[k] = UpStep(a, k - 1, g[k - 1])
  <2>1. g[k - 1] \in Point
    BY <1>3, <1>5
  <2> QED
    BY <1>5, <2>1
<1> HIDE DEF F
<1>7. ASSUME NEW h
      PROVE  UpTo(h) = Steps(h)
  BY DEF UpStep, ZeroPoint, QuadrantX, QuadrantY
<1>8. ipToPoint(a) = c[n]
  BY DEF ipToPoint
<1> HIDE DEF n
<1>9. g = Steps(g)
  <2>1. ASSUME NEW k \in 0 .. n
        PROVE  g[k] = Steps(g)[k]
    <3>1. k = 0 \/ k \in 1 .. n
      BY <1>1
    <3> QED
      BY <1>3, <1>5, <1>6, <3>1
  <2>2. g = [k \in 0 .. n |-> g[k]]
    BY <1>5
  <2> QED
    BY <2>1, <2>2
<1>10. c = Steps(c)
  <2> HIDE DEF UpTo, Steps
  <2>1. g = UpTo(g)
    BY <1>7, <1>9
  <2>2. c = UpTo(c)
    BY <2>1
  <2> QED
    BY <1>7, <2>2
<1> HIDE DEF c
<1>11. c[0] = ZeroPoint
  BY <1>1, <1>10
<1>12. ASSUME NEW k \in 1 .. n
       PROVE  c[k] = UpStep(a, k - 1, c[k - 1])
  BY <1>3, <1>10
<1>13. \A k \in 0 .. n : c[k] = g[k]
  <2> DEFINE D == {k \in 0 .. n : c[k] = g[k]}
  <2>1. 0 \in D
    BY <1>1, <1>5, <1>11
  <2>2. \A k \in 1 .. n : k - 1 \in D => k \in D
    BY <1>3, <1>6, <1>12
  <2>3. D \in SUBSET (0 .. n)
    OBVIOUS
  <2> HIDE DEF D
  <2>4. D = 0 .. n
    BY <1>1, <2>1, <2>2, <2>3, IntervalInduction
  <2> QED
    BY <2>4 DEF D
<1>14. Climbs(a, g)
  <2>1. ASSUME NEW l \in 0 .. n - 1
        PROVE  g[l + 1] = UpStep(a, l, g[l])
    <3>1. l + 1 \in 1 .. n /\ l + 1 - 1 = l
      BY <1>1
    <3> QED
      BY <1>6, <3>1
  <2> QED
    BY <1>5, <2>1 DEF Climbs, n
<1>15. ipToPoint(a) = g[n]
  <2>1. n \in 0 .. n
    BY <1>1
  <2> QED
    BY <1>8, <1>13, <2>1
<1> QED
  BY <1>5, <1>14, <1>15 DEF n

\* A bit at or above the level is not set yet.
Below(p, l) ==
  \A b \in 0 .. Levels - 1 : b >= l => axisBit(p.x, b) = 0 /\ axisBit(p.y, b) = 0

\* While the point is built, its bits above the level stay zero.
LEMMA ClimbsBelow ==
  ASSUME NEW a \in Address, NEW h \in [0 .. Levels -> Point], Climbs(a, h)
  PROVE  \A l \in 0 .. Levels : Below(h[l], l)
<1> DEFINE n == Levels
           D == {l \in 0 .. n : Below(h[l], l)}
<1>1. n \in Nat
  BY Widths
<1>2. 0 \in D
  <2>1. h[0].x = ZeroAxis /\ h[0].y = ZeroAxis
    BY DEF Climbs, ZeroPoint
  <2> QED
    BY <1>1, <2>1, ZeroBits DEF Below
<1>3. ASSUME NEW k \in 1 .. n, k - 1 \in D
      PROVE  k \in D
  <2> DEFINE l == k - 1
             p == h[l]
             rx == QuadrantX(a, l)
             ry == QuadrantY(a, l)
  <2>1. l \in 0 .. Levels - 1 /\ k = l + 1 /\ l \in 0 .. Levels /\ k \in 0 .. n
    BY <1>1
  <2>2. p \in Point /\ h[k] = UpStep(a, l, p) /\ Below(p, l)
    BY <1>3, <2>1 DEF Climbs
  <2> HIDE DEF l, p
  <2>3. ASSUME NEW b \in 0 .. Levels - 1, b >= k
        PROVE  axisBit(h[k].x, b) = 0 /\ axisBit(h[k].y, b) = 0
    <3>1. b # l /\ ~(b < l) /\ b >= l
      BY <1>1, <2>1, <2>3
    <3>2. axisBit(p.x, b) = 0 /\ axisBit(p.y, b) = 0
      BY <2>2, <3>1 DEF Below
    <3>3. /\ axisBit(h[k].x, b) = IF ry = 1 THEN axisBit(p.x, b) ELSE axisBit(p.y, b)
          /\ axisBit(h[k].y, b) = IF ry = 1 THEN axisBit(p.y, b) ELSE axisBit(p.x, b)
      <4> HIDE DEF rx, ry
      <4>1. rx = QuadrantX(a, l) /\ ry = QuadrantY(a, l)
        BY DEF rx, ry
      <4> QED
        BY <2>1, <2>2, <3>1, <4>1, UpStepBits
    <3> QED
      BY <3>2, <3>3
  <2> QED
    BY <2>1, <2>3 DEF Below
<1>4. D \in SUBSET (0 .. n)
  OBVIOUS
<1> HIDE DEF D, n
<1>5. D = 0 .. n
  BY <1>1, <1>2, <1>3, <1>4, IntervalInduction
<1> QED
  BY <1>5 DEF D, n

-----------------------------------------------------------------------------
\* Down the levels again.

DownState == [p : Point, ip : Address]

\* One level of point_to_ip.
DownStep(level, s) ==
  LET rx == axisBit(s.p.x, level)
      ry == axisBit(s.p.y, level)
      q  == Quadrant(rx, ry)
      lo == IF q.low = 1 THEN setIndexBit(s.ip, 2 * level) ELSE s.ip
  IN  [p  |-> Turned(s.p, [x |-> Complement(s.p.x), y |-> Complement(s.p.y)], rx, ry),
       ip |-> IF q.high = 1 THEN setIndexBit(lo, 2 * level + 1) ELSE lo]

LEMMA DownStepBits ==
  ASSUME NEW l \in 0 .. Levels - 1, NEW s \in DownState,
         NEW rx, NEW ry, rx = axisBit(s.p.x, l), ry = axisBit(s.p.y, l)
  PROVE  /\ DownStep(l, s) \in DownState
         /\ \A b \in 0 .. Levels - 1 :
              /\ axisBit(DownStep(l, s).p.x, b) =
                   IF ry = 1 THEN axisBit(s.p.x, b)
                   ELSE IF rx = 1 THEN 1 - axisBit(s.p.y, b) ELSE axisBit(s.p.y, b)
              /\ axisBit(DownStep(l, s).p.y, b) =
                   IF ry = 1 THEN axisBit(s.p.y, b)
                   ELSE IF rx = 1 THEN 1 - axisBit(s.p.x, b) ELSE axisBit(s.p.x, b)
         /\ \A c \in 0 .. MaxPrefixLen - 1 :
              indexBit(DownStep(l, s).ip, c) =
                IF c = 2 * l + 1 /\ rx = 1 THEN 1
                ELSE IF c = 2 * l /\ xor(rx, ry) = 1 THEN 1
                ELSE indexBit(s.ip, c)
<1>1. s.p \in Point /\ s.ip \in Address
  BY DEF DownState
<1>2. s.p.x \in Axis /\ s.p.y \in Axis
  BY <1>1 DEF Point
<1>3. rx \in {0, 1} /\ ry \in {0, 1}
  BY <1>2, AxisBitType DEF Bit
<1> DEFINE t == DownStep(l, s)
           lo == IF xor(rx, ry) = 1 THEN setIndexBit(s.ip, 2 * l) ELSE s.ip
           hi == IF rx = 1 THEN setIndexBit(lo, 2 * l + 1) ELSE lo
           turned == Turned(s.p, [x |-> Complement(s.p.x), y |-> Complement(s.p.y)], rx, ry)
<1>4. t = [p |-> turned, ip |-> hi]
  BY DEF DownStep, Quadrant
<1>5. /\ turned \in Point
      /\ turned.x = IF ry = 1 THEN s.p.x ELSE IF rx = 1 THEN Complement(s.p.y) ELSE s.p.y
      /\ turned.y = IF ry = 1 THEN s.p.y ELSE IF rx = 1 THEN Complement(s.p.x) ELSE s.p.x
  <2>1. Complement(s.p.x) \in Axis /\ Complement(s.p.y) \in Axis
    BY <1>2, ComplementBits
  <2>2. CASE ry = 1
    <3>1. turned = s.p
      BY <2>2 DEF Turned
    <3> QED
      BY <1>1, <2>2, <3>1
  <2>3. CASE ry = 0 /\ rx = 1
    <3>1. turned = [x |-> Complement(s.p.y), y |-> Complement(s.p.x)]
      BY <2>3 DEF Turned
    <3> QED
      BY <2>1, <2>3, <3>1 DEF Point
  <2>4. CASE ry = 0 /\ rx = 0
    <3>1. turned = [x |-> s.p.y, y |-> s.p.x]
      BY <2>4 DEF Turned
    <3> QED
      BY <1>2, <2>4, <3>1 DEF Point
  <2> QED
    BY <1>3, <2>2, <2>3, <2>4
<1>6. /\ lo \in Address
      /\ \A c \in 0 .. MaxPrefixLen - 1 :
           indexBit(lo, c) = IF c = 2 * l /\ xor(rx, ry) = 1 THEN 1 ELSE indexBit(s.ip, c)
  BY <1>1, IndexPlaces, SetIndexBit
<1>7. /\ hi \in Address
      /\ \A c \in 0 .. MaxPrefixLen - 1 :
           indexBit(hi, c) = IF c = 2 * l + 1 /\ rx = 1 THEN 1 ELSE indexBit(lo, c)
  <2> HIDE DEF lo
  <2> QED
    BY <1>6, IndexPlaces, SetIndexBit
<1> HIDE DEF lo, hi, turned
<1>8. t \in DownState /\ t.p = turned /\ t.ip = hi
  BY <1>4, <1>5, <1>7 DEF DownState
<1> HIDE DEF t
<1>9. ASSUME NEW b \in 0 .. Levels - 1
      PROVE  /\ axisBit(turned.x, b) =
                  IF ry = 1 THEN axisBit(s.p.x, b)
                  ELSE IF rx = 1 THEN 1 - axisBit(s.p.y, b) ELSE axisBit(s.p.y, b)
             /\ axisBit(turned.y, b) =
                  IF ry = 1 THEN axisBit(s.p.y, b)
                  ELSE IF rx = 1 THEN 1 - axisBit(s.p.x, b) ELSE axisBit(s.p.x, b)
  BY <1>2, <1>5, ComplementBits
<1> QED
  BY <1>6, <1>7, <1>8, <1>9 DEF t

ZeroAddress == [i \in 0 .. Words - 1 |-> Zero]

LEMMA ZeroAddressBits ==
  /\ ZeroAddress \in Address
  /\ \A b \in 0 .. MaxPrefixLen - 1 : indexBit(ZeroAddress, b) = 0
<1>1. ZeroAddress \in Address
  BY WordShape, AddressShape DEF ZeroAddress, Words
<1>2. ASSUME NEW b \in 0 .. MaxPrefixLen - 1
      PROVE  indexBit(ZeroAddress, b) = 0
  <2>1. b \div WordBits \in 0 .. 3 /\ b % WordBits \in Weight
    BY PlaceTypes
  <2>2. 3 - (b \div WordBits) \in 0 .. 3
    BY <2>1
  <2> QED
    BY <2>1, <2>2 DEF indexBit, ZeroAddress, Zero, Words
<1> QED
  BY <1>1, <1>2

\* s[k] is what point_to_ip has after the k coarsest levels.
Descends(point, s) ==
  /\ s[0] = [p |-> point, ip |-> ZeroAddress]
  /\ \A k \in 1 .. Levels : s[k] = DownStep(Levels - k, s[k - 1])

\* The loop of point_to_ip runs its step at the levels, the coarsest first.
LEMMA PointToIpUnfolds ==
  ASSUME NEW point \in Point
  PROVE  \E s \in [0 .. Levels -> DownState] :
           Descends(point, s) /\ pointToIp(point) = s[Levels].ip
<1> DEFINE n == Levels
           zero == [p |-> point, ip |-> ZeroAddress]
           F == [k \in 1 .. n |-> [s \in DownState |-> DownStep(n - k, s)]]
           UpTo(h) ==
             [k \in 0 .. n |->
                IF k = 0 THEN [p |-> point, ip |-> [i \in 0 .. Words - 1 |-> Zero]]
                ELSE LET s     == h[k - 1]
                         level == n - k
                         rx    == axisBit(s.p.x, level)
                         ry    == axisBit(s.p.y, level)
                         q     == Quadrant(rx, ry)
                         lo    == IF q.low = 1 THEN setIndexBit(s.ip, 2 * level) ELSE s.ip
                     IN  [p  |-> Turned(s.p, [x |-> Complement(s.p.x), y |-> Complement(s.p.y)], rx, ry),
                          ip |-> IF q.high = 1 THEN setIndexBit(lo, 2 * level + 1) ELSE lo]]
           Steps(h) == [k \in 0 .. n |-> IF k = 0 THEN zero ELSE DownStep(n - k, h[k - 1])]
           c == CHOOSE h : h = UpTo(h)
<1>1. n \in Nat
  BY Widths
<1>2. zero \in DownState
  BY ZeroAddressBits DEF DownState
<1>3. ASSUME NEW k \in 1 .. n
      PROVE  n - k \in 0 .. Levels - 1 /\ k - 1 \in 0 .. n /\ k \in 0 .. n /\ k # 0
  BY <1>1
<1>4. F \in [1 .. n -> [DownState -> DownState]]
  BY <1>3, DownStepBits
<1>5. PICK g \in [0 .. n -> DownState] : g[0] = zero /\ \A k \in 1 .. n : g[k] = F[k][g[k - 1]]
  <2> HIDE DEF F, n, zero
  <2>1. \E g \in [0 .. n -> DownState] : Follows(g, n, zero, F)
    BY <1>1, <1>2, <1>4, IntervalRecursion
  <2> QED
    BY <2>1 DEF Follows
<1>6. ASSUME NEW k \in 1 .. n
      PROVE  g[k] = DownStep(n - k, g[k - 1])
  <2>1. g[k - 1] \in DownState
    BY <1>3, <1>5
  <2> QED
    BY <1>5, <2>1
<1> HIDE DEF F
<1>7. ASSUME NEW h
      PROVE  UpTo(h) = Steps(h)
  BY DEF DownStep, ZeroAddress
<1>8. pointToIp(point) = c[n].ip
  BY DEF pointToIp
<1> HIDE DEF n, zero
<1>9. g = Steps(g)
  <2>1. ASSUME NEW k \in 0 .. n
        PROVE  g[k] = Steps(g)[k]
    <3>1. k = 0 \/ k \in 1 .. n
      BY <1>1
    <3> QED
      BY <1>3, <1>5, <1>6, <3>1
  <2>2. g = [k \in 0 .. n |-> g[k]]
    BY <1>5
  <2> QED
    BY <2>1, <2>2
<1>10. c = Steps(c)
  <2> HIDE DEF UpTo, Steps
  <2>1. g = UpTo(g)
    BY <1>7, <1>9
  <2>2. c = UpTo(c)
    BY <2>1
  <2> QED
    BY <1>7, <2>2
<1> HIDE DEF c
<1>11. c[0] = zero
  BY <1>1, <1>10
<1>12. ASSUME NEW k \in 1 .. n
       PROVE  c[k] = DownStep(n - k, c[k - 1])
  BY <1>3, <1>10
<1>13. \A k \in 0 .. n : c[k] = g[k]
  <2> DEFINE D == {k \in 0 .. n : c[k] = g[k]}
  <2>1. 0 \in D
    BY <1>1, <1>5, <1>11
  <2>2. \A k \in 1 .. n : k - 1 \in D => k \in D
    BY <1>3, <1>6, <1>12
  <2>3. D \in SUBSET (0 .. n)
    OBVIOUS
  <2> HIDE DEF D
  <2>4. D = 0 .. n
    BY <1>1, <2>1, <2>2, <2>3, IntervalInduction
  <2> QED
    BY <2>4 DEF D
<1>14. Descends(point, g)
  BY <1>5, <1>6 DEF Descends, n, zero
<1>15. pointToIp(point) = g[n].ip
  <2>1. n \in 0 .. n
    BY <1>1
  <2> QED
    BY <1>8, <1>13, <2>1
<1> QED
  BY <1>5, <1>14, <1>15 DEF n

-----------------------------------------------------------------------------
\* The way down undoes the way up.

\* s is on its way back to a, at the point h that a had below the level l: the
\* point's bits above the level are what the reflections have left there.
Retraces(a, p, l, s) ==
  /\ \A b \in 0 .. Levels - 1 :
       b < l => axisBit(s.p.x, b) = axisBit(p.x, b) /\ axisBit(s.p.y, b) = axisBit(p.y, b)
  /\ \A c \in 0 .. MaxPrefixLen - 1 :
       indexBit(s.ip, c) = IF c >= 2 * l THEN indexBit(a, c) ELSE 0

\* A step down undoes the step up of its level: the quadrant is read off the two
\* marked bits, and to turn twice is to stay.
LEMMA DownRetraces ==
  ASSUME NEW a \in Address, NEW l \in 0 .. Levels - 1, NEW p \in Point, Below(p, l),
         NEW s \in DownState, Retraces(a, UpStep(a, l, p), l + 1, s)
  PROVE  Retraces(a, p, l, DownStep(l, s))
<1> DEFINE rx == QuadrantX(a, l)
           ry == QuadrantY(a, l)
           u == UpStep(a, l, p)
           t == DownStep(l, s)
<1>1. /\ Levels \in Nat /\ l \in Nat /\ l < l + 1 /\ MaxPrefixLen \in Nat
      /\ p.x \in Axis /\ p.y \in Axis
  BY Widths DEF Point
<1>2. /\ rx \in {0, 1} /\ ry \in {0, 1} /\ xor(rx, ry) = indexBit(a, 2 * l)
      /\ indexBit(a, 2 * l) \in {0, 1} /\ indexBit(a, 2 * l + 1) = rx
  BY QuadrantBits DEF Bit, QuadrantX
<1>3. \A b \in 0 .. Levels - 1 :
        /\ axisBit(u.x, b) =
             IF b = l /\ rx = 1 THEN 1
             ELSE IF ry = 1 THEN axisBit(p.x, b)
             ELSE IF rx = 1 /\ b < l THEN 1 - axisBit(p.y, b) ELSE axisBit(p.y, b)
        /\ axisBit(u.y, b) =
             IF b = l /\ ry = 1 THEN 1
             ELSE IF ry = 1 THEN axisBit(p.y, b)
             ELSE IF rx = 1 /\ b < l THEN 1 - axisBit(p.x, b) ELSE axisBit(p.x, b)
  BY UpStepBits
<1> HIDE DEF u, rx, ry
<1>4. axisBit(u.x, l) = rx /\ axisBit(u.y, l) = ry
  <2>1. axisBit(p.x, l) = 0 /\ axisBit(p.y, l) = 0
    BY <1>1 DEF Below
  <2> QED
    BY <1>1, <1>2, <1>3, <2>1
<1>5. \A b \in 0 .. Levels - 1 :
        b < l + 1 => axisBit(s.p.x, b) = axisBit(u.x, b) /\ axisBit(s.p.y, b) = axisBit(u.y, b)
  BY DEF Retraces, u
<1>6. \A c \in 0 .. MaxPrefixLen - 1 :
        indexBit(s.ip, c) = IF c >= 2 * (l + 1) THEN indexBit(a, c) ELSE 0
  BY DEF Retraces
<1>7. rx = axisBit(s.p.x, l) /\ ry = axisBit(s.p.y, l)
  BY <1>1, <1>4, <1>5
<1>8. /\ \A b \in 0 .. Levels - 1 :
           /\ axisBit(t.p.x, b) =
                IF ry = 1 THEN axisBit(s.p.x, b)
                ELSE IF rx = 1 THEN 1 - axisBit(s.p.y, b) ELSE axisBit(s.p.y, b)
           /\ axisBit(t.p.y, b) =
                IF ry = 1 THEN axisBit(s.p.y, b)
                ELSE IF rx = 1 THEN 1 - axisBit(s.p.x, b) ELSE axisBit(s.p.x, b)
      /\ \A c \in 0 .. MaxPrefixLen - 1 :
           indexBit(t.ip, c) =
             IF c = 2 * l + 1 /\ rx = 1 THEN 1
             ELSE IF c = 2 * l /\ xor(rx, ry) = 1 THEN 1
             ELSE indexBit(s.ip, c)
  BY <1>7, DownStepBits
<1> HIDE DEF t
<1>9. ASSUME NEW b \in 0 .. Levels - 1, b < l
      PROVE  axisBit(t.p.x, b) = axisBit(p.x, b) /\ axisBit(t.p.y, b) = axisBit(p.y, b)
  <2>1. b # l /\ b < l + 1
    BY <1>1, <1>9
  <2>2. axisBit(p.x, b) \in {0, 1} /\ axisBit(p.y, b) \in {0, 1}
    BY <1>1, AxisBitType DEF Bit
  <2>3. axisBit(s.p.x, b) = axisBit(u.x, b) /\ axisBit(s.p.y, b) = axisBit(u.y, b)
    BY <1>5, <2>1
  <2>4. CASE ry = 1
    BY <1>3, <1>8, <2>1, <2>3, <2>4
  <2>5. CASE ry = 0 /\ rx = 1
    <3>1. axisBit(u.x, b) = 1 - axisBit(p.y, b) /\ axisBit(u.y, b) = 1 - axisBit(p.x, b)
      BY <1>3, <1>9, <2>1, <2>5
    <3>2. axisBit(t.p.x, b) = 1 - axisBit(s.p.y, b) /\ axisBit(t.p.y, b) = 1 - axisBit(s.p.x, b)
      BY <1>8, <2>5
    <3> QED
      BY <2>2, <2>3, <3>1, <3>2
  <2>6. CASE ry = 0 /\ rx = 0
    BY <1>3, <1>8, <2>1, <2>3, <2>6
  <2> QED
    BY <1>2, <2>4, <2>5, <2>6
<1>10. ASSUME NEW c \in 0 .. MaxPrefixLen - 1
       PROVE  indexBit(t.ip, c) = IF c >= 2 * l THEN indexBit(a, c) ELSE 0
  <2>1. c \in Nat
    OBVIOUS
  <2>2. CASE c = 2 * l + 1
    <3>1. ~(c >= 2 * (l + 1)) /\ c # 2 * l /\ c >= 2 * l
      BY <1>1, <2>2
    <3> QED
      BY <1>2, <1>6, <1>8, <2>2, <3>1
  <2>3. CASE c = 2 * l
    <3>1. ~(c >= 2 * (l + 1)) /\ c # 2 * l + 1 /\ c >= 2 * l
      BY <1>1, <2>3
    <3>2. indexBit(s.ip, c) = 0
      BY <1>6, <3>1
    <3>3. indexBit(t.ip, c) = IF xor(rx, ry) = 1 THEN 1 ELSE indexBit(s.ip, c)
      BY <1>8, <2>3, <3>1
    <3> QED
      BY <1>2, <2>3, <3>1, <3>2, <3>3
  <2>4. CASE c # 2 * l + 1 /\ c # 2 * l
    <3>1. c >= 2 * (l + 1) <=> c >= 2 * l
      BY <1>1, <2>1, <2>4
    <3> QED
      BY <1>6, <1>8, <2>4, <3>1
  <2> QED
    BY <2>2, <2>3, <2>4
<1> QED
  BY <1>9, <1>10 DEF Retraces, t

LEMMA ThereAndBack ==
  ASSUME NEW a \in Address
  PROVE  pointToIp(ipToPoint(a)) = a
<1> DEFINE n == Levels
<1>1. n \in Nat /\ MaxPrefixLen = 2 * n /\ MaxPrefixLen \in Nat
  BY Widths
<1>2. PICK h \in [0 .. n -> Point] : Climbs(a, h) /\ ipToPoint(a) = h[n]
  BY IpToPointUnfolds
<1>3. n \in 0 .. n /\ h[n] \in Point
  BY <1>1, <1>2
<1>4. PICK s \in [0 .. n -> DownState] : Descends(h[n], s) /\ pointToIp(h[n]) = s[n].ip
  BY <1>3, PointToIpUnfolds
<1> DEFINE D == {k \in 0 .. n : Retraces(a, h[n - k], n - k, s[k])}
<1>5. 0 \in D
  <2>1. s[0].p = h[n] /\ s[0].ip = ZeroAddress
    BY <1>4 DEF Descends
  <2>2. \A c \in 0 .. MaxPrefixLen - 1 : ~(c >= 2 * n)
    BY <1>1
  <2>3. Retraces(a, h[n], n, s[0])
    BY <2>1, <2>2, ZeroAddressBits DEF Retraces
  <2>4. n - 0 = n /\ 0 \in 0 .. n
    BY <1>1
  <2> QED
    BY <2>3, <2>4
<1>6. ASSUME NEW k \in 1 .. n, k - 1 \in D
      PROVE  k \in D
  <2> DEFINE l == n - k
  <2>1. l \in 0 .. Levels - 1 /\ l + 1 = n - (k - 1) /\ k - 1 \in 0 .. n /\ k \in 0 .. n /\ l \in 0 .. n
    BY <1>1
  <2>2. h[l] \in Point /\ s[k - 1] \in DownState /\ Below(h[l], l)
    BY <1>2, <2>1, ClimbsBelow
  <2>3. h[l + 1] = UpStep(a, l, h[l]) /\ s[k] = DownStep(l, s[k - 1])
    BY <1>2, <1>4, <2>1 DEF Climbs, Descends
  <2>4. Retraces(a, h[n - (k - 1)], n - (k - 1), s[k - 1])
    BY <1>6
  <2> HIDE DEF l, D
  <2>5. Retraces(a, UpStep(a, l, h[l]), l + 1, s[k - 1])
    BY <2>1, <2>3, <2>4
  <2>6. Retraces(a, h[l], l, s[k])
    BY <2>1, <2>2, <2>3, <2>5, DownRetraces
  <2> QED
    BY <2>1, <2>6 DEF D, l
<1>7. n \in D
  <2>1. D \in SUBSET (0 .. n)
    OBVIOUS
  <2> HIDE DEF D
  <2>2. D = 0 .. n
    BY <1>1, <1>5, <1>6, <2>1, IntervalInduction
  <2> QED
    BY <1>3, <2>2
<1>8. Retraces(a, h[0], 0, s[n])
  <2>1. n - n = 0
    BY <1>1
  <2> QED
    BY <1>7, <2>1
<1>9. \A c \in 0 .. MaxPrefixLen - 1 : indexBit(s[n].ip, c) = indexBit(a, c)
  <2>1. \A c \in 0 .. MaxPrefixLen - 1 : c >= 2 * 0
    OBVIOUS
  <2> QED
    BY <1>8, <2>1 DEF Retraces
<1>10. s[n].ip \in Address
  BY <1>3 DEF DownState
<1> QED
  BY <1>2, <1>4, <1>9, <1>10, SameBits

\* hilbert::point_to_ip gives the address back that ip_to_point took: the pixel's
\* lookup finds the block that was drawn at it, whatever the width of a word.
THEOREM RoundTripHolds == Spec => []RoundTrip
<1>1. Typed => RoundTrip
  BY FromNumberBits, ThereAndBack DEF Typed, RoundTrip, ip
<1> QED
  BY <1>1, WalkTyped, PTL

-----------------------------------------------------------------------------
\* Consecutive addresses.

\* As numbers, v is u plus one, with the carry up to bit z.
NextAxis(u, v, z) ==
  \A b \in 0 .. Levels - 1 :
    /\ b < z => axisBit(u, b) = 1 /\ axisBit(v, b) = 0
    /\ b = z => axisBit(u, b) = 0 /\ axisBit(v, b) = 1
    /\ b > z => axisBit(u, b) = axisBit(v, b)

Close(u, v, z) == NextAxis(u, v, z) \/ NextAxis(v, u, z)

\* Neighbouring points, with a carry below l.
CloseAt(p, q, z) ==
  \/ p.x = q.x /\ Close(p.y, q.y, z)
  \/ p.y = q.y /\ Close(p.x, q.x, z)

\* The carry by bits is the carry of the numbers.
LEMMA NextIsNext ==
  ASSUME NEW u \in Axis, NEW v \in Axis, NEW z \in 0 .. Levels - 1, NextAxis(u, v, z)
  PROVE  IsNext(AxisNumber(v), AxisNumber(u))
<1> DEFINE m == AxisNumber(u)
           n == AxisNumber(v)
<1>1. Levels \in Nat
  BY Widths
<1>2. DOMAIN m = 0 .. Levels - 1 /\ DOMAIN n = 0 .. Levels - 1
  BY DEF AxisNumber
<1>3. \A k \in 0 .. Levels - 1 : m[k] = axisBit(u, k) /\ n[k] = axisBit(v, k)
  BY DEF AxisNumber
<1>4. n = [k \in 0 .. Levels - 1 |-> n[k]]
  BY DEF AxisNumber
<1> HIDE DEF m, n
<1>5. m[z] = 0 /\ \A k \in 0 .. z - 1 : m[k] = 1
  BY <1>1, <1>3 DEF NextAxis
<1>6. \A k \in 0 .. Levels - 1 : n[k] = IF k < z THEN 0 ELSE IF k = z THEN 1 ELSE m[k]
  BY <1>1, <1>3 DEF NextAxis
<1>7. n = [k \in DOMAIN m |-> IF k < z THEN 0 ELSE IF k = z THEN 1 ELSE m[k]]
  BY <1>2, <1>4, <1>6
<1> QED
  BY <1>2, <1>5, <1>7 DEF IsNext, m, n

LEMMA CloseIsNeighbours ==
  ASSUME NEW p \in Point, NEW q \in Point, NEW z \in 0 .. Levels - 1, CloseAt(p, q, z)
  PROVE  Neighbours(p, q)
<1>1. p.x \in Axis /\ p.y \in Axis /\ q.x \in Axis /\ q.y \in Axis
  BY DEF Point
<1> QED
  BY <1>1, NextIsNext DEF CloseAt, Close, Neighbours, Beside

\* Complementing the bits below a level turns the order round.
LEMMA ComplementClose ==
  ASSUME NEW u \in Axis, NEW v \in Axis, NEW l \in 0 .. Levels, NEW z \in 0 .. l - 1,
         Close(u, v, z)
  PROVE  Close(complementLowAxisBits(u, l), complementLowAxisBits(v, l), z)
<1>1. Levels \in Nat /\ l \in Nat /\ z \in Nat /\ z < l
  BY Widths
<1>2. ASSUME NEW s \in Axis, NEW t \in Axis, NextAxis(s, t, z)
      PROVE  NextAxis(complementLowAxisBits(t, l), complementLowAxisBits(s, l), z)
  <2> DEFINE cs == complementLowAxisBits(s, l)
             ct == complementLowAxisBits(t, l)
  <2>1. \A b \in 0 .. Levels - 1 :
          /\ axisBit(cs, b) = IF b < l THEN 1 - axisBit(s, b) ELSE axisBit(s, b)
          /\ axisBit(ct, b) = IF b < l THEN 1 - axisBit(t, b) ELSE axisBit(t, b)
    BY ComplementLowBits
  <2> HIDE DEF cs, ct
  <2>2. ASSUME NEW b \in 0 .. Levels - 1
        PROVE  /\ b < z => axisBit(ct, b) = 1 /\ axisBit(cs, b) = 0
               /\ b = z => axisBit(ct, b) = 0 /\ axisBit(cs, b) = 1
               /\ b > z => axisBit(ct, b) = axisBit(cs, b)
    BY <1>1, <1>2, <2>1 DEF NextAxis
  <2> QED
    BY <2>2 DEF NextAxis, cs, ct
<1> QED
  BY <1>2 DEF Close

\* Marking the same bit above the carry keeps it.
LEMMA MarkedClose ==
  ASSUME NEW u \in Axis, NEW v \in Axis, NEW c \in Bit, NEW l \in 0 .. Levels - 1,
         NEW z \in 0 .. l - 1, Close(u, v, z)
  PROVE  Close(Marked(u, c, l), Marked(v, c, l), z)
<1>1. Levels \in Nat /\ l \in Nat /\ z \in Nat /\ z < l
  BY Widths
<1>2. ASSUME NEW s \in Axis, NEW t \in Axis, NextAxis(s, t, z)
      PROVE  NextAxis(Marked(s, c, l), Marked(t, c, l), z)
  <2> DEFINE ms == Marked(s, c, l)
             mt == Marked(t, c, l)
  <2>1. \A b \in 0 .. Levels - 1 :
          /\ axisBit(ms, b) = IF b = l /\ c = 1 THEN 1 ELSE axisBit(s, b)
          /\ axisBit(mt, b) = IF b = l /\ c = 1 THEN 1 ELSE axisBit(t, b)
    BY MarkedBits
  <2> HIDE DEF ms, mt
  <2>2. ASSUME NEW b \in 0 .. Levels - 1
        PROVE  /\ b < z => axisBit(ms, b) = 1 /\ axisBit(mt, b) = 0
               /\ b = z => axisBit(ms, b) = 0 /\ axisBit(mt, b) = 1
               /\ b > z => axisBit(ms, b) = axisBit(mt, b)
    BY <1>1, <1>2, <2>1 DEF NextAxis
  <2> QED
    BY <2>2 DEF NextAxis, ms, mt
<1> QED
  BY <1>2 DEF Close

\* Above the carry two consecutive addresses have the same quadrants, which keep
\* neighbours neighbours.
LEMMA UpStepClose ==
  ASSUME NEW a \in Address, NEW b \in Address, NEW l \in 0 .. Levels - 1,
         indexBit(a, 2 * l) = indexBit(b, 2 * l), indexBit(a, 2 * l + 1) = indexBit(b, 2 * l + 1),
         NEW p \in Point, NEW q \in Point, NEW z \in 0 .. l - 1, CloseAt(p, q, z)
  PROVE  CloseAt(UpStep(a, l, p), UpStep(b, l, q), z)
<1> DEFINE rx == QuadrantX(a, l)
           ry == QuadrantY(a, l)
           Turn(u, v) == IF ry # 0 THEN u ELSE IF rx = 1 THEN complementLowAxisBits(v, l) ELSE v
           s == UpStep(a, l, p)
           t == UpStep(b, l, q)
<1>1. p.x \in Axis /\ p.y \in Axis /\ q.x \in Axis /\ q.y \in Axis /\ l \in 0 .. Levels
  BY Widths DEF Point
<1>2. rx \in Bit /\ ry \in Bit
  BY QuadrantBits
<1>3. QuadrantX(b, l) = rx /\ QuadrantY(b, l) = ry
  BY DEF QuadrantX, QuadrantY
<1>4. /\ s.x = Marked(Turn(p.x, p.y), rx, l) /\ s.y = Marked(Turn(p.y, p.x), ry, l)
      /\ t.x = Marked(Turn(q.x, q.y), rx, l) /\ t.y = Marked(Turn(q.y, q.x), ry, l)
  BY <1>3, UpStepAxes
<1>5. ASSUME NEW u \in Axis, NEW v \in Axis
      PROVE  Turn(u, v) \in Axis
  BY <1>1, <1>5, ComplementLowBits
<1>6. CASE ry # 0
  <2>1. Turn(p.x, p.y) = p.x /\ Turn(p.y, p.x) = p.y /\ Turn(q.x, q.y) = q.x /\ Turn(q.y, q.x) = q.y
    BY <1>6
  <2> HIDE DEF Turn, s, t, rx, ry
  <2>2. ASSUME p.x = q.x, Close(p.y, q.y, z)
        PROVE  CloseAt(s, t, z)
    BY <1>1, <1>2, <1>4, <2>1, <2>2, MarkedClose DEF CloseAt
  <2>3. ASSUME p.y = q.y, Close(p.x, q.x, z)
        PROVE  CloseAt(s, t, z)
    BY <1>1, <1>2, <1>4, <2>1, <2>3, MarkedClose DEF CloseAt
  <2> QED
    BY <2>2, <2>3 DEF CloseAt, s, t
<1>7. CASE ry = 0
  <2>1. ASSUME NEW u \in Axis, NEW v \in Axis, NEW u2 \in Axis, NEW v2 \in Axis
        PROVE  /\ v = v2 => Turn(u, v) = Turn(u2, v2)
               /\ Close(v, v2, z) => Close(Turn(u, v), Turn(u2, v2), z)
    BY <1>1, <1>7, ComplementClose
  <2>2. /\ p.y = q.y => Turn(p.x, p.y) = Turn(q.x, q.y)
        /\ p.x = q.x => Turn(p.y, p.x) = Turn(q.y, q.x)
        /\ Close(p.y, q.y, z) => Close(Turn(p.x, p.y), Turn(q.x, q.y), z)
        /\ Close(p.x, q.x, z) => Close(Turn(p.y, p.x), Turn(q.y, q.x), z)
    <3> HIDE DEF Turn
    <3> QED
      BY <1>1, <2>1
  <2>3. /\ Turn(p.x, p.y) \in Axis /\ Turn(p.y, p.x) \in Axis
        /\ Turn(q.x, q.y) \in Axis /\ Turn(q.y, q.x) \in Axis
    BY <1>1, <1>5
  <2> HIDE DEF Turn, s, t, rx, ry
  <2>4. ASSUME p.x = q.x, Close(p.y, q.y, z)
        PROVE  CloseAt(s, t, z)
    BY <1>2, <1>4, <2>2, <2>3, <2>4, MarkedClose DEF CloseAt
  <2>5. ASSUME p.y = q.y, Close(p.x, q.x, z)
        PROVE  CloseAt(s, t, z)
    BY <1>2, <1>4, <2>2, <2>3, <2>5, MarkedClose DEF CloseAt
  <2> QED
    BY <2>4, <2>5 DEF CloseAt, s, t
<1> QED
  BY <1>6, <1>7

\* An axis whose bits below l are c.
Filled(u, l, c) == \A b \in 0 .. Levels - 1 : axisBit(u, b) = IF b < l THEN c ELSE 0

\* Up to the carry the smaller address is all threes, the larger all zeros: the
\* first ends in the corner at the far end of x, the second at the origin.
LEMMA CornerStep ==
  ASSUME NEW a \in Address, NEW b \in Address, NEW l \in 0 .. Levels - 1,
         indexBit(a, 2 * l) = 1, indexBit(a, 2 * l + 1) = 1,
         indexBit(b, 2 * l) = 0, indexBit(b, 2 * l + 1) = 0,
         NEW p \in Point, NEW q \in Point,
         Filled(p.x, l, 1), Filled(p.y, l, 0), Filled(q.x, l, 0), Filled(q.y, l, 0)
  PROVE  /\ Filled(UpStep(a, l, p).x, l + 1, 1) /\ Filled(UpStep(a, l, p).y, l + 1, 0)
         /\ Filled(UpStep(b, l, q).x, l + 1, 0) /\ Filled(UpStep(b, l, q).y, l + 1, 0)
<1>1. QuadrantX(a, l) = 1 /\ QuadrantY(a, l) = 0 /\ QuadrantX(b, l) = 0 /\ QuadrantY(b, l) = 0
  BY DEF QuadrantX, QuadrantY, xor
<1>2. Levels \in Nat /\ l \in Nat
  BY Widths
<1>3. \A i \in 0 .. Levels - 1 :
        /\ axisBit(UpStep(a, l, p).x, i) =
             IF i = l THEN 1 ELSE IF i < l THEN 1 - axisBit(p.y, i) ELSE axisBit(p.y, i)
        /\ axisBit(UpStep(a, l, p).y, i) = IF i < l THEN 1 - axisBit(p.x, i) ELSE axisBit(p.x, i)
  BY <1>1, UpStepBits
<1>4. \A i \in 0 .. Levels - 1 :
        /\ axisBit(UpStep(b, l, q).x, i) = axisBit(q.y, i)
        /\ axisBit(UpStep(b, l, q).y, i) = axisBit(q.x, i)
  BY <1>1, UpStepBits
<1> QED
  BY <1>2, <1>3, <1>4 DEF Filled

\* At the level of the carry the two corners become neighbours, in one of three
\* ways: from the first quadrant to the second, the second to the third, the third
\* to the fourth.
LEMMA CarryStep ==
  ASSUME NEW a \in Address, NEW b \in Address, NEW l \in 0 .. Levels - 1,
         \/ indexBit(a, 2 * l) = 0 /\ indexBit(b, 2 * l) = 1 /\
            indexBit(a, 2 * l + 1) = indexBit(b, 2 * l + 1)
         \/ /\ indexBit(a, 2 * l) = 1 /\ indexBit(b, 2 * l) = 0
            /\ indexBit(a, 2 * l + 1) = 0 /\ indexBit(b, 2 * l + 1) = 1,
         NEW p \in Point, NEW q \in Point,
         Filled(p.x, l, 1), Filled(p.y, l, 0), Filled(q.x, l, 0), Filled(q.y, l, 0)
  PROVE  CloseAt(UpStep(a, l, p), UpStep(b, l, q), l)
<1> DEFINE s == UpStep(a, l, p)
           t == UpStep(b, l, q)
<1>1. Levels \in Nat /\ l \in Nat
  BY Widths
<1>2. s \in Point /\ t \in Point
  BY UpStepBits
<1>3. s.x \in Axis /\ s.y \in Axis /\ t.x \in Axis /\ t.y \in Axis
  BY <1>2 DEF Point
<1>4. \A i \in 0 .. Levels - 1 :
        /\ axisBit(s.x, i) =
             IF i = l /\ QuadrantX(a, l) = 1 THEN 1
             ELSE IF QuadrantY(a, l) = 1 THEN axisBit(p.x, i)
             ELSE IF QuadrantX(a, l) = 1 /\ i < l THEN 1 - axisBit(p.y, i) ELSE axisBit(p.y, i)
        /\ axisBit(s.y, i) =
             IF i = l /\ QuadrantY(a, l) = 1 THEN 1
             ELSE IF QuadrantY(a, l) = 1 THEN axisBit(p.y, i)
             ELSE IF QuadrantX(a, l) = 1 /\ i < l THEN 1 - axisBit(p.x, i) ELSE axisBit(p.x, i)
  BY UpStepBits
<1>5. \A i \in 0 .. Levels - 1 :
        /\ axisBit(t.x, i) =
             IF i = l /\ QuadrantX(b, l) = 1 THEN 1
             ELSE IF QuadrantY(b, l) = 1 THEN axisBit(q.x, i)
             ELSE IF QuadrantX(b, l) = 1 /\ i < l THEN 1 - axisBit(q.y, i) ELSE axisBit(q.y, i)
        /\ axisBit(t.y, i) =
             IF i = l /\ QuadrantY(b, l) = 1 THEN 1
             ELSE IF QuadrantY(b, l) = 1 THEN axisBit(q.y, i)
             ELSE IF QuadrantX(b, l) = 1 /\ i < l THEN 1 - axisBit(q.x, i) ELSE axisBit(q.x, i)
  BY UpStepBits
<1> HIDE DEF s, t
<1>6. CASE /\ indexBit(a, 2 * l) = 0 /\ indexBit(b, 2 * l) = 1
           /\ indexBit(a, 2 * l + 1) = 0 /\ indexBit(b, 2 * l + 1) = 0
  <2>1. QuadrantX(a, l) = 0 /\ QuadrantY(a, l) = 0 /\ QuadrantX(b, l) = 0 /\ QuadrantY(b, l) = 1
    BY <1>6 DEF QuadrantX, QuadrantY, xor
  <2>2. \A i \in 0 .. Levels - 1 : axisBit(s.x, i) = 0 /\ axisBit(t.x, i) = 0
    BY <1>1, <1>4, <1>5, <2>1 DEF Filled
  <2>3. s.x = t.x
    BY <1>3, <2>2, SameAxis
  <2>4. NextAxis(s.y, t.y, l)
    BY <1>1, <1>4, <1>5, <2>1 DEF NextAxis, Filled
  <2> QED
    BY <2>3, <2>4 DEF CloseAt, Close, s, t
<1>7. CASE /\ indexBit(a, 2 * l) = 0 /\ indexBit(b, 2 * l) = 1
           /\ indexBit(a, 2 * l + 1) = 1 /\ indexBit(b, 2 * l + 1) = 1
  <2>1. QuadrantX(a, l) = 1 /\ QuadrantY(a, l) = 1 /\ QuadrantX(b, l) = 1 /\ QuadrantY(b, l) = 0
    BY <1>7 DEF QuadrantX, QuadrantY, xor
  <2>2. \A i \in 0 .. Levels - 1 : axisBit(s.x, i) = axisBit(t.x, i)
    BY <1>1, <1>4, <1>5, <2>1 DEF Filled
  <2>3. s.x = t.x
    BY <1>3, <2>2, SameAxis
  <2>4. NextAxis(t.y, s.y, l)
    BY <1>1, <1>4, <1>5, <2>1 DEF NextAxis, Filled
  <2> QED
    BY <2>3, <2>4 DEF CloseAt, Close, s, t
<1>8. CASE /\ indexBit(a, 2 * l) = 1 /\ indexBit(b, 2 * l) = 0
           /\ indexBit(a, 2 * l + 1) = 0 /\ indexBit(b, 2 * l + 1) = 1
  <2>1. QuadrantX(a, l) = 0 /\ QuadrantY(a, l) = 1 /\ QuadrantX(b, l) = 1 /\ QuadrantY(b, l) = 1
    BY <1>8 DEF QuadrantX, QuadrantY, xor
  <2>2. \A i \in 0 .. Levels - 1 : axisBit(s.y, i) = axisBit(t.y, i)
    BY <1>1, <1>4, <1>5, <2>1 DEF Filled
  <2>3. s.y = t.y
    BY <1>3, <2>2, SameAxis
  <2>4. NextAxis(s.x, t.x, l)
    BY <1>1, <1>4, <1>5, <2>1 DEF NextAxis, Filled
  <2> QED
    BY <2>3, <2>4 DEF CloseAt, Close, s, t
<1>9. indexBit(a, 2 * l + 1) = 0 \/ indexBit(a, 2 * l + 1) = 1
  BY IndexPlaces, IndexBitType DEF Bit
<1> QED
  BY <1>6, <1>7, <1>8, <1>9

\* Below the carry the corners, at its level neighbours, above it they stay so.
LEMMA Consecutive ==
  ASSUME NEW m \in Integer(MaxPrefixLen), NEW n, IsNext(n, m)
  PROVE  Neighbours(ipToPoint(FromNumber(m)), ipToPoint(FromNumber(n)))
<1> DEFINE a == FromNumber(m)
           b == FromNumber(n)
           N == Levels
<1>1. N \in Nat /\ MaxPrefixLen = 2 * N /\ MaxPrefixLen \in Nat
  BY Widths
<1>2. /\ m \in [0 .. MaxPrefixLen - 1 -> Bit]
      /\ n \in Integer(MaxPrefixLen)
  BY <1>1, NextTyped DEF Integer
<1>3. PICK z \in 0 .. MaxPrefixLen - 1 :
        /\ m[z] = 0
        /\ \A k \in 0 .. z - 1 : m[k] = 1
        /\ n = [k \in 0 .. MaxPrefixLen - 1 |-> IF k < z THEN 0 ELSE IF k = z THEN 1 ELSE m[k]]
  BY <1>2 DEF IsNext
<1>4. /\ a \in Address /\ b \in Address
      /\ \A c \in 0 .. MaxPrefixLen - 1 : indexBit(a, c) = m[c] /\ indexBit(b, c) = n[c]
  BY <1>2, FromNumberBits
<1> HIDE DEF a, b
<1>5. \A c \in 0 .. MaxPrefixLen - 1 :
        /\ c < z => indexBit(a, c) = 1 /\ indexBit(b, c) = 0
        /\ c = z => indexBit(a, c) = 0 /\ indexBit(b, c) = 1
        /\ c > z => indexBit(a, c) = indexBit(b, c)
  <2> TAKE c \in 0 .. MaxPrefixLen - 1
  <2>1. n[c] = IF c < z THEN 0 ELSE IF c = z THEN 1 ELSE m[c]
    BY <1>3
  <2>2. c < z => m[c] = 1
    BY <1>1, <1>3
  <2>3. c > z => ~(c < z) /\ c # z
    BY <1>1
  <2> QED
    BY <1>3, <1>4, <2>1, <2>2, <2>3
<1> DEFINE y == z \div 2
<1>6. /\ y \in 0 .. N - 1 /\ y \in Nat /\ (z = 2 * y \/ z = 2 * y + 1)
      /\ z \in Nat
  BY <1>1
<1> HIDE DEF y
<1>7. PICK h \in [0 .. N -> Point] : Climbs(a, h) /\ ipToPoint(a) = h[N]
  BY <1>4, IpToPointUnfolds
<1>8. PICK g \in [0 .. N -> Point] : Climbs(b, g) /\ ipToPoint(b) = g[N]
  BY <1>4, IpToPointUnfolds
<1>9. \A l \in 0 .. N - 1 : h[l + 1] = UpStep(a, l, h[l]) /\ g[l + 1] = UpStep(b, l, g[l])
  BY <1>7, <1>8 DEF Climbs
<1> DEFINE Corner(l) == /\ Filled(h[l].x, l, 1) /\ Filled(h[l].y, l, 0)
                        /\ Filled(g[l].x, l, 0) /\ Filled(g[l].y, l, 0)
<1>10. Corner(y)
  <2> DEFINE D == {l \in 0 .. y : Corner(l)}
  <2>1. 0 \in D
    <3>1. h[0] = ZeroPoint /\ g[0] = ZeroPoint
      BY <1>7, <1>8 DEF Climbs
    <3>2. Corner(0)
      BY <1>1, <3>1, ZeroBits DEF Filled, ZeroPoint
    <3> HIDE DEF Corner
    <3> QED
      BY <1>6, <3>2
  <2>2. ASSUME NEW k \in 1 .. y, k - 1 \in D
        PROVE  k \in D
    <3> DEFINE l == k - 1
    <3>1. l \in 0 .. N - 1 /\ l \in 0 .. N /\ k = l + 1 /\ k \in 0 .. y
      BY <1>1, <1>6
    <3>2. /\ 2 * l \in 0 .. MaxPrefixLen - 1 /\ 2 * l < z
          /\ 2 * l + 1 \in 0 .. MaxPrefixLen - 1 /\ 2 * l + 1 < z
      BY <1>1, <1>6, <3>1
    <3>3. Corner(l)
      BY <2>2
    <3> HIDE DEF l, D
    <3>4. h[l] \in Point /\ g[l] \in Point /\ h[k] = UpStep(a, l, h[l]) /\ g[k] = UpStep(b, l, g[l])
      BY <1>7, <1>8, <1>9, <3>1
    <3>5. Corner(k)
      BY <1>4, <1>5, <3>1, <3>2, <3>3, <3>4, CornerStep
    <3> HIDE DEF Corner
    <3> QED
      BY <3>1, <3>5 DEF D
  <2>3. D \in SUBSET (0 .. y)
    OBVIOUS
  <2> HIDE DEF D
  <2>4. D = 0 .. y
    BY <1>6, <2>1, <2>2, <2>3, IntervalInduction
  <2> HIDE DEF Corner
  <2>5. y \in 0 .. y
    BY <1>6
  <2> QED
    BY <2>4, <2>5 DEF D
<1>11. CloseAt(h[y + 1], g[y + 1], y)
  <2>1. /\ 2 * y \in 0 .. MaxPrefixLen - 1 /\ 2 * y + 1 \in 0 .. MaxPrefixLen - 1
        /\ y \in 0 .. N
    BY <1>1, <1>6
  <2>2. h[y] \in Point /\ g[y] \in Point
    BY <1>7, <1>8, <2>1
  <2>3. CASE z = 2 * y
    <3>1. 2 * y + 1 > z
      BY <1>6, <2>3
    <3>2. /\ indexBit(a, 2 * y) = 0 /\ indexBit(b, 2 * y) = 1
          /\ indexBit(a, 2 * y + 1) = indexBit(b, 2 * y + 1)
      BY <1>5, <2>1, <2>3, <3>1
    <3>3. CloseAt(UpStep(a, y, h[y]), UpStep(b, y, g[y]), y)
      BY <1>4, <1>6, <1>10, <2>2, <3>2, CarryStep
    <3> QED
      BY <1>6, <1>9, <3>3
  <2>4. CASE z = 2 * y + 1
    <3>1. 2 * y < z
      BY <1>6, <2>4
    <3>2. /\ indexBit(a, 2 * y) = 1 /\ indexBit(b, 2 * y) = 0
          /\ indexBit(a, 2 * y + 1) = 0 /\ indexBit(b, 2 * y + 1) = 1
      BY <1>5, <2>1, <2>4, <3>1
    <3>3. CloseAt(UpStep(a, y, h[y]), UpStep(b, y, g[y]), y)
      BY <1>4, <1>6, <1>10, <2>2, <3>2, CarryStep
    <3> QED
      BY <1>6, <1>9, <3>3
  <2> QED
    BY <1>6, <2>3, <2>4
<1> HIDE DEF Corner
<1>12. CloseAt(h[N], g[N], y)
  <2> DEFINE r == N - 1 - y
             at(k) == y + 1 + k
             D == {k \in 0 .. r : CloseAt(h[at(k)], g[at(k)], y)}
  <2>1. r \in Nat /\ at(0) = y + 1 /\ at(r) = N
    BY <1>1, <1>6
  <2>2. 0 \in D
    BY <1>11, <2>1
  <2>3. ASSUME NEW k \in 1 .. r, k - 1 \in D
        PROVE  k \in D
    <3> DEFINE l == y + k
    <3>1. /\ l \in 0 .. N - 1 /\ l \in 0 .. N /\ y \in 0 .. l - 1
          /\ at(k) = l + 1 /\ at(k - 1) = l /\ k \in 0 .. r
      BY <1>1, <1>6
    <3>2. /\ 2 * l \in 0 .. MaxPrefixLen - 1 /\ 2 * l > z
          /\ 2 * l + 1 \in 0 .. MaxPrefixLen - 1 /\ 2 * l + 1 > z
      BY <1>1, <1>6, <3>1
    <3>3. CloseAt(h[l], g[l], y)
      BY <2>3, <3>1
    <3> HIDE DEF l, at, D, r
    <3>4. h[l] \in Point /\ g[l] \in Point
      BY <1>7, <1>8, <3>1
    <3>5. h[l + 1] = UpStep(a, l, h[l]) /\ g[l + 1] = UpStep(b, l, g[l])
      BY <1>9, <3>1
    <3>6. CloseAt(h[l + 1], g[l + 1], y)
      BY <1>4, <1>5, <3>1, <3>2, <3>3, <3>4, <3>5, UpStepClose
    <3> QED
      BY <3>1, <3>6 DEF D
  <2>4. D \in SUBSET (0 .. r)
    OBVIOUS
  <2> HIDE DEF D
  <2>5. D = 0 .. r
    <3> HIDE DEF r
    <3> QED
      BY <2>1, <2>2, <2>3, <2>4, IntervalInduction
  <2>6. r \in D
    BY <2>1, <2>5
  <2>7. CloseAt(h[at(r)], g[at(r)], y)
    BY <2>6 DEF D
  <2> HIDE DEF at, r
  <2> QED
    BY <2>1, <2>7
<1>13. N \in 0 .. N
  BY <1>1
<1> HIDE DEF N
<1>14. h[N] \in Point /\ g[N] \in Point
  BY <1>13
<1>15. Neighbours(h[N], g[N])
  BY <1>6, <1>12, <1>14, CloseIsNeighbours DEF N
<1> QED
  BY <1>7, <1>8, <1>15 DEF a, b

\* The curve has no jumps: two consecutive addresses are drawn on two pixels that
\* touch, for words of any width, also where the carry goes through all of them.
THEOREM AdjacentHolds == Spec => Adjacent
<1>1. Typed /\ [Next]_vars =>
        [number' # number => Neighbours(ipToPoint(ip), ipToPoint(ip'))]_vars
  <2> SUFFICES ASSUME Typed, Next, number' # number
               PROVE  Neighbours(ipToPoint(ip), ipToPoint(ip'))
    BY DEF vars
  <2>1. NextAddress
    BY DEF Next, Longer
  <2>2. IsNext(number', number)
    BY <2>1 DEF NextAddress
  <2>3. Neighbours(ipToPoint(FromNumber(number)), ipToPoint(FromNumber(number')))
    BY <2>2, Consecutive DEF Typed
  <2> QED
    BY <2>3 DEF ip
<1> QED
  BY <1>1, WalkTyped, PTL DEF Spec, Adjacent

=============================================================================

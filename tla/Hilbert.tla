------------------------------ MODULE Hilbert ------------------------------
(***************************************************************************)
(* The Hilbert curve of core/src/hilbert.rs: an address is a distance      *)
(* along the curve, a point has two axes of two words each.  The two       *)
(* conversions are the code's loops over the levels, bit by bit.           *)
(***************************************************************************)
EXTENDS AddressWords

\* 64 in the code: one bit of each axis, two of the index.
Levels == 2 * WordBits

Axis == [0 .. 1 -> Word]

Point == [x : Axis, y : Axis]

ZeroAxis == [i \in 0 .. 1 |-> Zero]

\* Bit 0 is the least significant one of the last word.
indexBit(ip, bit) == ip[3 - (bit \div WordBits)][bit % WordBits]

setIndexBit(ip, bit) == [ip EXCEPT ![3 - (bit \div WordBits)][bit % WordBits] = 1]

axisBit(axis, bit) == axis[1 - (bit \div WordBits)][bit % WordBits]

setAxisBit(axis, bit) == [axis EXCEPT ![1 - (bit \div WordBits)][bit % WordBits] = 1]

lowBitMask(n) == [k \in Weight |-> IF k < n THEN 1 ELSE 0]

\* Mutant: the high word is left as it is.
complementLowWord(axis, bits) == [axis EXCEPT ![1] = Xor(@, lowBitMask(bits))]

\* Complement the low bits of an axis; the high word gets what exceeds a word.
complementLowAxisBits(axis, bits) ==
  [axis EXCEPT ![1] = Xor(@, lowBitMask(bits)),
               ![0] = Xor(@, lowBitMask(Max({0, bits - WordBits})))]

\* The quadrants of a level: take the reflected point, then swap the axes.
Turned(p, reflected, rx, ry) ==
  LET q == IF rx = 1 THEN reflected ELSE p
  IN  IF ry = 0 THEN [x |-> q.y, y |-> q.x] ELSE p

\* Below a level.
Reflected(p, level) ==
  [x |-> complementLowAxisBits(p.x, level), y |-> complementLowAxisBits(p.y, level)]

Marked(axis, b, level) == IF b = 1 THEN setAxisBit(axis, level) ELSE axis

\* Finest level first.
ipToPoint(ip) ==
  LET after[level \in 0 .. Levels] ==
        IF level = 0 THEN [x |-> ZeroAxis, y |-> ZeroAxis]
        ELSE LET l  == level - 1
                 rx == indexBit(ip, 2 * l + 1)
                 ry == xor(indexBit(ip, 2 * l), rx)
                 p  == Turned(after[l], Reflected(after[l], l), rx, ry)
             IN  [x |-> Marked(p.x, rx, l), y |-> Marked(p.y, ry, l)]
  IN  after[Levels]

\* Mutant: the quadrant is the two bits as they stand.
QuadrantPlain(rx, ry) == [high |-> rx, low |-> ry]

\* (3 * rx) ^ ry, a number of two bits: 3 * rx has rx in both.
Quadrant(rx, ry) == [high |-> rx, low |-> xor(rx, ry)]

\* All bits of an axis.
Complement(axis) == [i \in 0 .. 1 |-> Xor(axis[i], AllOnes)]

\* Coarsest level first; the whole axis is reflected, the bits above the level
\* are not read again.
pointToIp(point) ==
  LET after[n \in 0 .. Levels] ==
        IF n = 0 THEN [p |-> point, ip |-> [i \in 0 .. Words - 1 |-> Zero]]
        ELSE LET s     == after[n - 1]
                 level == Levels - n
                 rx    == axisBit(s.p.x, level)
                 ry    == axisBit(s.p.y, level)
                 q     == Quadrant(rx, ry)
                 lo    == IF q.low = 1 THEN setIndexBit(s.ip, 2 * level) ELSE s.ip
             IN  [p  |-> Turned(s.p, [x |-> Complement(s.p.x), y |-> Complement(s.p.y)], rx, ry),
                  ip |-> IF q.high = 1 THEN setIndexBit(lo, 2 * level + 1) ELSE lo]
  IN  after[Levels].ip

=============================================================================

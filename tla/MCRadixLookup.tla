--------------------------- MODULE MCRadixLookup ---------------------------
EXTENDS RadixLookup

CONSTANTS n1, n2, n3, n4

MCIdx == {n1, n2, n3, n4}
MCKeys == {<<>>, <<0, 0>>, <<0, 1>>, <<0, 1, 0>>}
=============================================================================

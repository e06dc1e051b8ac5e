--------------------------- MODULE MCRadixHistory ---------------------------
EXTENDS RadixHistory, TLC

CONSTANTS n1, n2, n3, n4, n5

MCIdx == {n1, n2, n3, n4, n5}
\* Prefixes equal to, above, below and apart from one another.
MCKeys == {<<>>, <<0>>, <<0, 0>>, <<0, 1, 0>>, <<0, 1, 1>>, <<1, 1>>}
MCSymmetry == Permutations(MCIdx)
=============================================================================

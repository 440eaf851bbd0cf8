------------------------------- MODULE MCAst -------------------------------
\* Values of the constants of Ast for TLC.
EXTENDS Ast, TLC

CONSTANTS chB, chX, a1, a2, a3, a4, n1

MCByte == {NUL, chB, chX}
MCAddress == {a1, a2, a3, a4}
MCNames == {n1}
Symmetry == Permutations(MCAddress)

\* One is longer than another; the empty one and the longest are refused.
MCTexts == {<<>>, <<chB>>, <<chX, chB>>, <<chX, chX, chB, chB>>}

MCBasicTypes == {qcTypeInt("QC_INT_UNSIGNED", 6)}
MCLengths == {3, 5}
=============================================================================

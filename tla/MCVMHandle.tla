---------------------------- MODULE MCVMHandle ----------------------------
\* Values of the constants of VMHandle for TLC.
EXTENDS VMHandle, TLC

CONSTANTS t1, t2, t3, s1, s2, s3, s4, v1, v2, v3

MCThread == {t1, t2, t3}
MCSlot == {s1, s2, s3, s4}
MCVM == {v1, v2, v3}
Symmetry == Permutations(MCThread) \cup Permutations(MCSlot) \cup Permutations(MCVM)
===========================================================================

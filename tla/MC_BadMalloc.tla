---------------------------- MODULE MC_BadMalloc ----------------------------
EXTENDS BadMalloc, TLC

CONSTANTS t1, t2

MCOneThread == {t1}
MCTwoThreads == {t1, t2}
MCSymmetry == Permutations(MCTwoThreads)
====

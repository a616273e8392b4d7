------------------------- MODULE MC_ConnectionPool -------------------------
(* Finite instances of ConnectionPool for TLC.                             *)
EXTENDS ConnectionPool, TLC

CONSTANTS t1, t2, t3, a1, a2

MCThreads == {t1, t2, t3}
MCConnIds == 1..3
MCDequeIds == 1..2

ThreadSymmetry == Permutations(MCThreads)
=============================================================================

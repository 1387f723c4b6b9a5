------------------------- MODULE MCCachedAllocator -------------------------
(* An instance of CachedAllocator for TLC.                                 *)
EXTENDS CachedAllocator, TLC

CONSTANTS t1, t2, m1, m2, m3

\* A size that is kept from the start, one that is kept once someone asks for
\* it, and one that is too large to be kept.
MCSizes      == {1, 2, 4}
MCInitialMax == [n \in MCSizes |-> IF n = 2 THEN 0 ELSE 1]

BlockSymmetry == Permutations(Blocks) \union Permutations(Threads)
=============================================================================

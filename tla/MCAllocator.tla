---------------------------- MODULE MCAllocator ----------------------------
(* Instances of Allocator for TLC.                                         *)
EXTENDS Allocator, TLC

CONSTANTS t1, t2

TwoThreads == {t1, t2}

\* Threads differ in nothing but their name.
ThreadSymmetry == Permutations(TwoThreads)
=============================================================================

----------------------------- MODULE MCRequests -----------------------------
(* An instance of Requests for TLC.                                        *)
EXTENDS Requests

CONSTANTS r1, r2, r3, o1, o2, o3, i1, i2

ThreeCalls   == {r1, r2, r3}
ThreeObjects == {o1, o2, o3}
TwoIds       == {i1, i2}

Symmetric == Permutations(ThreeCalls) \cup Permutations(ThreeObjects)

\* The ids share a bucket of 2, and have one each when the table has 8: the
\* second insertion fills the table and moves them.
Hash == i1 :> 5 @@ i2 :> 200
=============================================================================

---------------------------- MODULE MCConnection ----------------------------
(* Instances of Connection for TLC.                                        *)
EXTENDS Connection

CONSTANTS f1, f2, f3

\* A chunk that completes nothing and two that complete a message, of which
\* MaxFrames arrive.
ThreeFrames == {f1, f2, f3}
TwoMessages == {f2, f3}
=============================================================================

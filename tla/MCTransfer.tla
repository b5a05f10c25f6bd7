----------------------------- MODULE MCTransfer -----------------------------
(* Values of Transfer's constants for TLC.                                 *)
EXTENDS Transfer, TLC

CONSTANTS big, small, tiny

\* Five bytes are three chunks with an MTU of 3 and two with an MTU of 4; two
\* bytes are a single frame.
Lengths == [m \in Messages |-> IF m = tiny THEN 2 ELSE 5]

\* The two chunked messages have the same length.
Twins == Permutations({big, small})

OneId  == {<<0, 1>>}
ZeroId == {<<0, 0>>}
TwoIds == {<<0, 1>>, <<1, 0>>}
=============================================================================

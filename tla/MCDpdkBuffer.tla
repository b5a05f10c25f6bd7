---------------------------- MODULE MCDpdkBuffer ----------------------------
(* An instance of DpdkBuffer for TLC.                                      *)
EXTENDS DpdkBuffer

CONSTANTS x, y, z

\* Three bytes reach over a whole mbuf of two.
Writes == {<<x>>, <<x, y, z>>}
=============================================================================

---------------------------- MODULE MCLifecycle ----------------------------
(* Instances of Lifecycle for TLC.                                         *)
EXTENDS Lifecycle

CONSTANTS c1, c2, s1, p1, p2, sp, k1, k2, l1, lo

TwoClients == {c1, c2}
OneServer  == {s1}
TwoPorts   == {p1, p2}
TwoSlots   == <<k1, k2>>
OneListener == {l1}

\* Ports are drawn up to their names. One of the clients may ask twice.
Draw == c1 :> {p1} @@ c2 :> {p1, p2}
Tries == c1 :> 2 @@ c2 :> 1

\* The two client ports share a bucket.
Hash == p1 :> 0 @@ p2 :> 1 @@ sp :> 8 @@ lo :> 4
=============================================================================

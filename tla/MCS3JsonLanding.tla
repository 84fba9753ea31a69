--------------------------- MODULE MCS3JsonLanding ---------------------------
(* TLC instances of S3JsonLanding: one or two objects over a few hours. *)
EXTENDS S3JsonLanding, TLC

CONSTANTS o1, o2

OneObject == {o1}
TwoObjects == {o1, o2}

Symmetry == Permutations(TwoObjects)
=============================================================================

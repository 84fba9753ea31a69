---------------------------- MODULE MCBronzeLoader ----------------------------
(* TLC instances of BronzeLoader: two or three runs over two keys. *)
EXTENDS BronzeLoader

CONSTANTS l1, l2, k1, k2

OneLoader == {l1}
TwoLoaders == {l1, l2}
TwoKeys == {k1, k2}
TwoRuns == 1..2
ThreeRuns == 1..3
=============================================================================

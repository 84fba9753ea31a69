---------------------------- MODULE MCBronzeSchema ----------------------------
(* TLC instances of BronzeSchema: a key column and others, two types. *)
EXTENDS BronzeSchema

CONSTANTS key, a, b, decimal, bigint, super

TwoColumns == {key, a}
TwoTypes == {decimal, bigint}
OnlyA == {a}
TwoRuns == 1..2
=============================================================================

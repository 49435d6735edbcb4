----------------------------- MODULE MCNetQueue -----------------------------
(* An instance of NetQueue for TLC: one job, in a ledger that other jobs    *)
(* may fill.                                                                *)
EXTENDS NetQueue

CONSTANT k1

OneKey == {k1}
OneOrNone == {0, 1}
=============================================================================

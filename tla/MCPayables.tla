------------------------------ MODULE MCPayables ------------------------------
(* Values for the constants of Payables. *)
EXTENDS Payables, TLC

CONSTANTS b1, b2, p1, p2, n1

Symmetry == Permutations(Bills) \cup Permutations(Payments)
=============================================================================

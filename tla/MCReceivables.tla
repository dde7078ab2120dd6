---------------------------- MODULE MCReceivables ----------------------------
(* Values for the constants of Receivables. *)
EXTENDS Receivables, TLC

CONSTANTS i1, i2, p1, p2, n1, n2

Symmetry == Permutations(Invoices) \cup Permutations(Payments) \cup Permutations(Notes)
=============================================================================

--------------------------- MODULE MCPostingLedger ---------------------------
(* Values for the constants of PostingLedger: a bank account and an income    *)
(* account, two days of which the first is a period, and two postings.                *)
EXTENDS PostingLedger, TLC

CONSTANTS cash, income, feb, t1, t2

MCMoves == {[dr |-> cash, cr |-> income, amount |-> 1]}

MCFirst == [p \in Periods |-> 1]

Symmetry == Permutations(Postings)
=============================================================================

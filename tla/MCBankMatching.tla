----------------------------- MODULE MCBankMatching -----------------------------
(* Values for the constants of BankMatching: two lines on two days. *)
EXTENDS BankMatching, TLC

CONSTANTS l1, l2, j1, j2, m1, m2

OnTwoDays == (l1 :> 1) @@ (l2 :> 2)

Symmetry == Permutations(Journals) \cup Permutations(Matches)
=============================================================================

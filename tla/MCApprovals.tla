----------------------------- MODULE MCApprovals -----------------------------
(* A small instance of Approvals for TLC: two calls meet on one document. *)
EXTENDS Approvals

StampValues == {1, 2}
==============================================================================

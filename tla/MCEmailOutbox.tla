---------------------------- MODULE MCEmailOutbox ----------------------------
(* Instances of EmailOutbox for TLC. *)
EXTENDS EmailOutbox, TLC

CONSTANTS e1, e2, i1

SendAndRemind == (e1 :> "SEND") @@ (e2 :> "REMINDER")
OneInvoice == [e \in Emails |-> i1]
===============================================================================

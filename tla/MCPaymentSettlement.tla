------------------------ MODULE MCPaymentSettlement ------------------------
(* Values for the constants of PaymentSettlement: an invoice of three units,  *)
(* two checkouts of two units each, and a provider that has to send one of    *)
(* the listed sets of events.                                                 *)
EXTENDS PaymentSettlement, TLC

CONSTANTS i1, k1, k2, d1, d2, r1, r2, r3, f1, f2, w1, c1, p1, o1

MCTotal == [i \in Invoices |-> 3]
MCCheckout == [k \in Keys |-> [invoice |-> i1, amount |-> 2]]

Says(kind, key, amount, source, by) ==
    [kind |-> kind, invoice |-> i1,
     key |-> IF key \in Keys THEN key ELSE NoKey, amount |-> amount,
     source |-> source, by |-> by]

MCInfo == [e \in Events |->
    CASE e = r1 -> Says("receipt", k1, 2, NoEvent, "event")
      [] e = r2 -> Says("receipt", k2, 2, NoEvent, "event")
      [] e = r3 -> Says("receipt", NoKey, 1, NoEvent, "event")
      [] e = f1 -> Says("refund", NoKey, 1, r1, "event")
      [] e = f2 -> Says("refund", NoKey, 2, r1, "charge")
      [] e = w1 -> Says("reinstatement", NoKey, 1, f1, "event")
      [] e = c1 -> Says("cancellation", k1, 0, NoEvent, "event")
      [] e = p1 -> Says("payout", NoKey, 1, NoEvent, "event")
      [] OTHER -> Says("other", NoKey, 0, NoEvent, "event")]

Sent(once, twice) == [e \in Events |->
    IF e \in once THEN 1 ELSE IF e \in twice THEN 2 ELSE 0]

MCScenarios == {Sent({c1}, {r1}), Sent({r1}, {r3}), Sent({r1, r2}, {}),
                Sent({r1, f2}, {f1}), Sent({r1, f1, w1}, {}), Sent({o1}, {p1})}

Symmetry == Permutations(Deliveries)
=============================================================================

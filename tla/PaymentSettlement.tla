-------------------------- MODULE PaymentSettlement --------------------------
(***************************************************************************)
(* Online payments: the checkouts PaymentIntentService opens, the events a *)
(* payment provider sends to PaymentGatewayService.processWebhook, and the *)
(* invoices that receipts, refunds and reinstatements move.                *)
(*                                                                         *)
(* A delivery is one call of the webhook.  Its statements before and after *)
(* the settlement are transactions of their own, so other deliveries run   *)
(* between them; the settlement itself holds row locks on the intent, the  *)
(* original event and the invoice, and is one action.  The provider sends  *)
(* its events in any order, some twice, and repeats a call that ended with *)
(* an error or was not answered.                                           *)
(*                                                                         *)
(* The clock is abstract: an event is old once its row is five minutes of  *)
(* age.  Amounts are small naturals; credits, write-offs, gateway fees and *)
(* currencies are left out.                                                *)
(***************************************************************************)
EXTENDS Naturals, Sequences, FiniteSets, Functions

CONSTANTS
    Invoices,
    Total,        \* invoices' total_amount
    Keys,         \* idempotency keys of checkouts
    Checkout,     \* the invoice and the amount of each key
    Events,       \* provider events, by (organization, gateway, event_id)
    Info,         \* what each event says
    Scenarios,    \* how often a provider may send each event: 0, 1 or 2 times
    Amounts,      \* amounts of payments entered by hand
    Deliveries,   \* webhook calls that may run at once
    MaxManual,    \* bound: payments entered by hand
    MaxTrouble,   \* bound: faults, early answers and overlaps together
    NoKey, NoEvent

EventKinds == {"receipt", "payout", "refund", "reinstatement", "cancellation",
               "expiration", "other"}

ASSUME PaymentAssumption ==
    /\ IsFiniteSet(Invoices)
    /\ Total \in [Invoices -> Nat]
    /\ NoKey \notin Keys
    /\ NoEvent \notin Events
    /\ Checkout \in [Keys -> [invoice: Invoices, amount: Nat]]
    /\ Info \in [Events -> [kind: EventKinds, invoice: Invoices,
                            key: Keys \cup {NoKey}, amount: Nat,
                            source: Events \cup {NoEvent},
                            by: {"event", "charge"}]]
    /\ Scenarios \subseteq [Events -> Nat]
    /\ Amounts \subseteq Nat
    /\ {MaxManual, MaxTrouble} \subseteq Nat

VARIABLES
    events,    \* payment_gateway_events
    intents,   \* payment_intents in the order of created_at
    opening,   \* checkouts that have read the invoice and wait for the provider
    payments,  \* payments_received, each allocated to its invoice
    entries,   \* events with a journal of their own: GW-REV-<id>, GW-PAYOUT-<id>
    reversed,  \* of those, the ones reversePostedJournal has reversed
    paid, balance,  \* invoices' paid_amount and balance_due
    ar,        \* the general ledger's accounts receivable
    receivable,\* customers.receivables_balance
    pc, cur,   \* where each delivery stands, and its event
    owed,      \* calls the provider has still to make for each event
    manual,    \* payments entered by hand
    faults,    \* processes stopped and transient database errors
    early,     \* answers ALREADY_PROCESSED for a young event that was PROCESSING
    overlaps   \* claims of an event that another delivery holds

money == <<payments, entries, reversed, paid, balance, ar, receivable>>
bounds == <<manual, faults, early, overlaps>>
vars == <<events, intents, opening, money, pc, cur, owed, bounds>>

EventStatus == {"ABSENT", "RECEIVED", "PROCESSING", "PROCESSED", "FAILED",
                "IGNORED", "REVERSED"}
IntentStatus == {"CREATED", "SUCCEEDED", "CANCELLED", "EXPIRED"}
EventRow == [status: EventStatus, old: BOOLEAN, payment: Nat]
Intent == [key: Keys, invoice: Invoices, amount: Nat, status: IntentStatus]
Payment == [event: Events \cup {NoEvent}, intent: Nat, invoice: Invoices, amount: Nat]
PcValues == {"idle", "received", "claimed", "cancelled", "failing", "answering"}

\* The control account and the customer's balance are fixed by BooksTie below.
TypeOK ==
    /\ events \in [Events -> EventRow]
    /\ intents \in Seq(Intent)
    /\ opening \subseteq Keys
    /\ payments \in Seq(Payment)
    /\ entries \subseteq Events
    /\ reversed \subseteq Events
    /\ paid \in [Invoices -> Nat]
    /\ balance \in [Invoices -> Nat]
    /\ pc \in [Deliveries -> PcValues]
    /\ cur \in [Deliveries -> Events \cup {NoEvent}]
    /\ \A d \in Deliveries : pc[d] # "idle" => cur[d] \in Events
    /\ owed \in [Events -> Nat]
    /\ {manual, faults, early, overlaps} \subseteq Nat

\* What the events of a set move together.
AmountsOf(S) == SumFunctionOnSet([e \in Events |-> Info[e].amount], S)

\* Room for one more fault, early answer or overlap.
Room == faults + early + overlaps < MaxTrouble

Init ==
    /\ events = [e \in Events |-> [status |-> "ABSENT", old |-> FALSE, payment |-> 0]]
    /\ intents = <<>>
    /\ opening = {}
    /\ payments = <<>>
    /\ entries = {}
    /\ reversed = {}
    /\ paid = [i \in Invoices |-> 0]
    /\ balance = Total
    /\ ar = SumFunction(Total)
    /\ receivable = ar
    /\ pc = [d \in Deliveries |-> "idle"]
    /\ cur = [d \in Deliveries |-> NoEvent]
    /\ owed \in Scenarios
    /\ manual = 0 /\ faults = 0 /\ early = 0 /\ overlaps = 0

-----------------------------------------------------------------------------
(* Checkouts.                                                              *)

IntentsOf(k) == {n \in DOMAIN intents : intents[n].key = k}

\* createPaymentIntent reads the invoice without a lock and asks the provider
\* for a session.
StartCheckout(k) ==
    /\ k \notin opening
    /\ IntentsOf(k) = {}
    /\ balance[Checkout[k].invoice] > 0
    /\ Checkout[k].amount > 0
    /\ Checkout[k].amount <= balance[Checkout[k].invoice]
    /\ opening' = opening \cup {k}
    /\ UNCHANGED <<events, intents, money, pc, cur, owed, bounds>>

\* The session exists; the intent is stored without a second look at the invoice.
FinishCheckout(k) ==
    /\ k \in opening
    /\ opening' = opening \ {k}
    /\ intents' = Append(intents, [key |-> k, invoice |-> Checkout[k].invoice,
                                   amount |-> Checkout[k].amount,
                                   status |-> "CREATED"])
    /\ UNCHANGED <<events, money, pc, cur, owed, bounds>>

-----------------------------------------------------------------------------
(* Deliveries: insert the event, claim it.                                 *)

\* The provider calls the webhook, which inserts the event if it is new.  An
\* event about a checkout exists only after the checkout.
Deliver(d, e) ==
    /\ pc[d] = "idle"
    /\ Info[e].key # NoKey => IntentsOf(Info[e].key) # {}
    /\ owed[e] > 0
    /\ owed' = [owed EXCEPT ![e] = @ - 1]
    /\ pc' = [pc EXCEPT ![d] = "received"]
    /\ cur' = [cur EXCEPT ![d] = e]
    /\ events' = [events EXCEPT ![e].status = IF @ = "ABSENT" THEN "RECEIVED" ELSE @]
    /\ UNCHANGED <<intents, opening, money, bounds>>

\* Variants: an event that was posted can be claimed again; one that was left
\* PROCESSING cannot.
ClaimableTwice(row) ==
    \/ row.status \in {"RECEIVED", "FAILED", "PROCESSED"}
    \/ row.status = "PROCESSING" /\ row.old

ClaimableOnce(row) == row.status \in {"RECEIVED", "FAILED"}

Claimable(row) ==
    \/ row.status \in {"RECEIVED", "FAILED"}
    \/ row.status = "PROCESSING" /\ row.old

Holding(d, e) == cur[d] = e /\ pc[d] \in {"claimed", "cancelled", "failing"}

\* The conditional UPDATE to PROCESSING.  The row's age is not reset, so an old
\* event can be claimed again while the delivery that holds it is at work.
Claim(d) ==
    LET e == cur[d]
        held == \E other \in Deliveries : Holding(other, e)
    IN  /\ pc[d] = "received"
        /\ Claimable(events[e])
        /\ held => Room
        /\ overlaps' = IF held THEN overlaps + 1 ELSE overlaps
        /\ events' = [events EXCEPT ![e].status = "PROCESSING"]
        /\ pc' = [pc EXCEPT ![d] = "claimed"]
        /\ UNCHANGED <<intents, opening, money, cur, owed, manual, faults,
                       early>>

\* The claim matched no row: the delivery is answered ALREADY_PROCESSED (or
\* IGNORED), also when the event is only being processed.
AlreadyProcessed(d) ==
    LET row == events[cur[d]]
        premature == row.status = "PROCESSING" /\ ~row.old
    IN  /\ pc[d] = "received"
        /\ ~Claimable(row)
        /\ premature => Room
        /\ early' = IF premature THEN early + 1 ELSE early
        /\ pc' = [pc EXCEPT ![d] = "answering"]
        /\ UNCHANGED <<events, intents, opening, money, cur, owed, manual, faults,
                       overlaps>>

\* A type without a monetary movement.
Ignore(d) ==
    /\ pc[d] = "claimed"
    /\ Info[cur[d]].kind = "other"
    /\ events' = [events EXCEPT ![cur[d]] = [status |-> "IGNORED", old |-> FALSE,
                                             payment |-> events[cur[d]].payment]]
    /\ pc' = [pc EXCEPT ![d] = "answering"]
    /\ UNCHANGED <<intents, opening, money, cur, owed, bounds>>

\* A cancellation or expiration overwrites the status of the intent, whatever
\* it is.
CloseIntent(d) ==
    LET e == cur[d]
        status == IF Info[e].kind = "cancellation" THEN "CANCELLED" ELSE "EXPIRED"
    IN  /\ pc[d] = "claimed"
        /\ Info[e].kind \in {"cancellation", "expiration"}
        /\ intents' = [n \in DOMAIN intents |->
                          IF n \in IntentsOf(Info[e].key)
                          THEN [intents[n] EXCEPT !.status = status]
                          ELSE intents[n]]
        /\ pc' = [pc EXCEPT ![d] = "cancelled"]
        /\ UNCHANGED <<events, opening, money, cur, owed, bounds>>

\* The call ends with an error (500) or without an answer: it will come again.
Unanswered(d) ==
    /\ pc' = [pc EXCEPT ![d] = "idle"]
    /\ cur' = [cur EXCEPT ![d] = NoEvent]
    /\ owed' = [owed EXCEPT ![cur[d]] = @ + 1]

\* The event is then to become PROCESSED without a journal, which the check
\* constraint ck_gateway_processed_journal refuses: the call ends with an error
\* outside the try block and the row stays PROCESSING.
CloseRefused(d) ==
    /\ pc[d] = "cancelled"
    /\ Unanswered(d)
    /\ UNCHANGED <<events, intents, opening, money, bounds>>

-----------------------------------------------------------------------------
(* The settlement transaction.                                             *)

\* The intent a receipt settles: the one its reference names, else the latest
\* one of the invoice, else none (0).
IntentsFor(e) ==
    LET named == IntentsOf(Info[e].key)
        ofInvoice == {n \in DOMAIN intents : intents[n].invoice = Info[e].invoice}
    IN  IF named # {} THEN named
        ELSE IF ofInvoice # {} THEN {n \in ofInvoice : \A m \in ofInvoice : m <= n}
        ELSE {0}

\* Variant: an intent that was cancelled or paid can still be settled.
IntentOpenAnyhow(n, e) == n # 0 => Info[e].amount <= intents[n].amount

IntentOpen(n, e) ==
    n # 0 => /\ intents[n].status = "CREATED"
             /\ Info[e].amount <= intents[n].amount
             /\ intents[n].invoice = Info[e].invoice

Covered(i, amount) == amount > 0 /\ amount <= balance[i]

\* recordPayment on the locked invoice: journal, paid amount, balance, customer.
Received(i, amount) ==
    /\ paid' = [paid EXCEPT ![i] = @ + amount]
    /\ balance' = [balance EXCEPT ![i] = Total[i] - (paid[i] + amount)]
    /\ ar' = ar - amount
    /\ receivable' = IF receivable < amount THEN 0 ELSE receivable - amount

\* Variant: the customer's balance is forgotten.
ReturnedUncharged(i, amount) ==
    /\ paid' = [paid EXCEPT ![i] = @ - amount]
    /\ balance' = [balance EXCEPT ![i] = Total[i] - (paid[i] - amount)]
    /\ ar' = ar + amount
    /\ UNCHANGED receivable

\* The inverse, by a refund or chargeback.
Returned(i, amount) ==
    /\ paid' = [paid EXCEPT ![i] = @ - amount]
    /\ balance' = [balance EXCEPT ![i] = Total[i] - (paid[i] - amount)]
    /\ ar' = ar + amount
    /\ receivable' = receivable + amount

Posted(e, payment) ==
    [events EXCEPT ![e] = [status |-> "PROCESSED", old |-> FALSE, payment |-> payment]]

Settled(d) ==
    /\ pc' = [pc EXCEPT ![d] = "answering"]
    /\ UNCHANGED <<opening, cur, owed, bounds>>

\* A successful charge: a payment of the invoice, and the intent SUCCEEDED.
SettleReceipt(d) ==
    LET e == cur[d]
        i == Info[e].invoice
    IN  /\ pc[d] = "claimed"
        /\ Info[e].kind = "receipt"
        /\ \E n \in IntentsFor(e) :
              /\ IntentOpen(n, e)
              /\ payments' = Append(payments, [event |-> e, intent |-> n, invoice |-> i,
                                               amount |-> Info[e].amount])
              /\ intents' = [m \in DOMAIN intents |->
                                IF m = n THEN [intents[m] EXCEPT !.status = "SUCCEEDED"]
                                ELSE intents[m]]
        /\ Covered(i, Info[e].amount)
        /\ Received(i, Info[e].amount)
        /\ events' = Posted(e, Len(payments) + 1)
        /\ UNCHANGED <<entries, reversed>>
        /\ Settled(d)

\* postEntry refuses an entry number that exists: GW-REV-<id>, GW-PAYOUT-<id>.
Fresh(e) == e \notin entries

SettlePayout(d) ==
    LET e == cur[d]
    IN  /\ pc[d] = "claimed"
        /\ Info[e].kind = "payout"
        /\ Fresh(e)
        /\ entries' = entries \cup {e}
        /\ events' = Posted(e, 0)
        /\ UNCHANGED <<intents, payments, reversed, paid, balance, ar, receivable>>
        /\ Settled(d)

\* PROCESSED events that a reference matches: by event id one, by the charge
\* every event of the payment.
Matching(e, candidates) ==
    LET source == Info[e].source
    IN  {r \in candidates :
            /\ events[r].status = "PROCESSED"
            /\ events[r].payment # 0
            /\ \/ Info[e].by = "event" /\ r = source
               \/ /\ Info[e].by = "charge" /\ source # NoEvent
                  /\ events[r].payment = events[source].payment}

Refunds == {e \in Events : Info[e].kind = "refund"}

\* Variant: earlier refunds of the payment are not looked at.
RefundedBeforeIgnored(p) == 0

\* What PROCESSED refund events have taken back from payment p.
RefundedBefore(p) ==
    AmountsOf({r \in Refunds : events[r].status = "PROCESSED" /\ events[r].payment = p})

\* A refund or chargeback of a receipt that one row identifies.
SettleRefund(d) ==
    LET e == cur[d]
        matching == Matching(e, Events)
    IN  /\ pc[d] = "claimed"
        /\ Info[e].kind = "refund"
        /\ \E original \in matching :
              LET p == events[original].payment
                  i == payments[p].invoice
              IN  /\ matching = {original}
                  /\ Info[e].amount > 0
                  /\ Info[e].amount + RefundedBefore(p) <= payments[p].amount
                  /\ Info[e].amount <= paid[i]
                  /\ Fresh(e)
                  /\ Returned(i, Info[e].amount)
                  /\ events' = Posted(e, p)
        /\ entries' = entries \cup {e}
        /\ UNCHANGED <<intents, payments, reversed>>
        /\ Settled(d)

\* A dispute won, a refund that failed: the refund's journal is reversed and the
\* invoice gets its payment back.
SettleReinstatement(d) ==
    LET e == cur[d]
        matching == Matching(e, Refunds)
    IN  /\ pc[d] = "claimed"
        /\ Info[e].kind = "reinstatement"
        /\ \E original \in matching :
              LET p == events[original].payment
                  i == payments[p].invoice
                  posted == Posted(e, p)
              IN  /\ matching = {original}
                  /\ Info[e].amount = Info[original].amount
                  /\ paid[i] + Info[e].amount <= Total[i]
                  /\ original \in entries \ reversed
                  /\ reversed' = reversed \cup {original}
                  /\ Received(i, Info[e].amount)
                  /\ events' = [posted EXCEPT ![original].status = "REVERSED"]
        /\ UNCHANGED <<intents, payments, entries>>
        /\ Settled(d)

\* The transaction rolls back with an error that is not transient: a check above
\* fails, or one outside this model (a closed period, an inactive account).
Refuse(d) ==
    /\ pc[d] = "claimed"
    /\ Info[cur[d]].kind \in {"receipt", "payout", "refund", "reinstatement"}
    /\ pc' = [pc EXCEPT ![d] = "failing"]
    /\ UNCHANGED <<events, intents, opening, money, cur, owed, bounds>>

\* The catch block writes FAILED by event id only, whatever the row says now.
MarkFailed(d) ==
    /\ pc[d] = "failing"
    /\ events' = [events EXCEPT ![cur[d]].status = "FAILED"]
    /\ pc' = [pc EXCEPT ![d] = "answering"]
    /\ UNCHANGED <<intents, opening, money, cur, owed, bounds>>

\* The provider hears a 2xx answer, for a FAILED event too: this call is done.
Answer(d) ==
    /\ pc[d] = "answering"
    /\ pc' = [pc EXCEPT ![d] = "idle"]
    /\ cur' = [cur EXCEPT ![d] = NoEvent]
    /\ UNCHANGED <<events, intents, opening, money, owed, bounds>>

\* A transient database error, rethrown so that the provider retries; or the
\* process stops.  Either way nothing more is written, no answer is heard and the
\* provider will call again.
Fault(d) ==
    /\ pc[d] # "idle"
    /\ Room
    /\ faults' = faults + 1
    /\ Unanswered(d)
    /\ UNCHANGED <<events, intents, opening, money, manual, early, overlaps>>

\* Five minutes pass since the row was created or processed.
Age(e) ==
    /\ events[e].status \in {"RECEIVED", "PROCESSING", "FAILED"}
    /\ ~events[e].old
    /\ events' = [events EXCEPT ![e].old = TRUE]
    /\ UNCHANGED <<intents, opening, money, pc, cur, owed, bounds>>

\* A payment entered by hand, allocated to one invoice.
RecordPayment(i, amount) ==
    /\ manual < MaxManual
    /\ Covered(i, amount)
    /\ Received(i, amount)
    /\ payments' = Append(payments, [event |-> NoEvent, intent |-> 0, invoice |-> i,
                                     amount |-> amount])
    /\ manual' = manual + 1
    /\ UNCHANGED <<events, intents, opening, entries, reversed, pc, cur, owed,
                   faults, early, overlaps>>

Work(d) ==
    \/ Claim(d) \/ AlreadyProcessed(d) \/ Ignore(d) \/ CloseIntent(d)
    \/ CloseRefused(d) \/ SettleReceipt(d) \/ SettlePayout(d) \/ SettleRefund(d)
    \/ SettleReinstatement(d) \/ Refuse(d) \/ MarkFailed(d) \/ Answer(d)

Next ==
    \/ \E k \in Keys : StartCheckout(k) \/ FinishCheckout(k)
    \/ \E d \in Deliveries, e \in Events : Deliver(d, e)
    \/ \E d \in Deliveries : Work(d) \/ Fault(d)
    \/ \E e \in Events : Age(e)
    \/ \E i \in Invoices, amount \in Amounts : RecordPayment(i, amount)

Spec == Init /\ [][Next]_vars

-----------------------------------------------------------------------------
(* Properties.                                                             *)

\* Refund events whose journal is posted and has not been reversed.
Standing == (entries \ reversed) \cap Refunds

\* The books tie after any mixture of receipts, refunds, reinstatements and manual
\* payments.  Every invoice: what is paid and what is due make up its total, and what
\* is paid is the sum of the payments posted for it less the refunds that stand
\* (the settlements of processWebhook beside recordPayment).  The control account,
\* the customer's balance and the open invoices agree.
BooksTie ==
    /\ \A i \in Invoices :
          LET receipts == {n \in DOMAIN payments : payments[n].invoice = i}
              returned == {r \in Standing : payments[events[r].payment].invoice = i}
          IN  /\ paid[i] + balance[i] = Total[i]
              /\ paid[i] + AmountsOf(returned)
                    = SumFunctionOnSet([n \in DOMAIN payments |-> payments[n].amount], receipts)
    /\ ar = SumFunction(balance)
    /\ receivable = ar

\* An intent is settled by at most one payment, and one that says SUCCEEDED by
\* exactly one, whatever deliveries overlap and whatever cancellation arrives.
OneReceiptPerIntent ==
    /\ \A m, n \in DOMAIN payments :
          m # n /\ payments[m].intent # 0 => payments[m].intent # payments[n].intent
    /\ \A k \in DOMAIN intents :
          intents[k].status = "SUCCEEDED" => \E n \in DOMAIN payments : payments[n].intent = k

\* "Only one delivery may post it": an event is posted as a payment once, while
\* no old event is claimed from under a delivery.
OneReceiptPerEvent ==
    overlaps = 0 =>
        \A m, n \in DOMAIN payments :
            m # n /\ payments[m].event # NoEvent => payments[m].event # payments[n].event

\* The refunds that stand never exceed the receipt they refund, with the same
\* proviso: the check sums PROCESSED rows, and a row may lose that status only
\* to a delivery that claimed it too.
RefundsWithinReceipt ==
    overlaps = 0 =>
        \A p \in DOMAIN payments :
            AmountsOf({r \in Standing : events[r].payment = p}) <= payments[p].amount

\* getPaymentIntentStatus: a checkout is confirmed once an event that names it
\* is PROCESSED and linked to a posted payment.
Confirmed(n) ==
    \E e \in Events :
        /\ Info[e].kind = "receipt"
        /\ Info[e].key = intents[n].key
        /\ events[e].status = "PROCESSED"
        /\ events[e].payment # 0

\* What the customer portal has confirmed it does not take back: no redelivery,
\* cancellation or refund makes a confirmed checkout unconfirmed.
ConfirmationStands ==
    [][overlaps' = 0 => \A n \in DOMAIN intents : Confirmed(n) => Confirmed(n)']_vars

\* A received event is never lost on its way to rest, through stops, transient
\* errors that are rethrown for the provider to retry, and claims of events left
\* PROCESSING: as long as it is RECEIVED or PROCESSING, a delivery works on it or
\* the provider still has to call.  The one exception: a retry that comes within
\* the five minutes in which a PROCESSING event is answered ALREADY_PROCESSED.
Attended(e) ==
    \/ owed[e] > 0
    \/ \E d \in Deliveries : cur[d] = e /\ pc[d] \notin {"idle", "answering"}

AlwaysAttended ==
    early = 0 =>
        \A e \in Events :
            events[e].status \in {"RECEIVED", "PROCESSING"} => Attended(e)

=============================================================================

------------------------------ MODULE EmailOutbox ------------------------------
(***************************************************************************)
(* The e-mail outbox (EmailOutboxService): rows written in the transaction *)
(* of the business operation, and a timer that starts a processOutbox run  *)
(* every five seconds, whether or not the last one has ended.              *)
(*                                                                         *)
(* A tick is one run of processOutbox; its position is pc[t], the claims it *)
(* has not come to yet held[t], the one it works on cur[t].  No statement   *)
(* asks for lease_owner, so the model has no owners.  Times are what the    *)
(* statements compare: a lease is live or expired, next_retry_at is due or  *)
(* not.  The attachment of an invoice e-mail is part of the dispatch.       *)
(***************************************************************************)
EXTENDS Naturals, FiniteSets

CONSTANTS
    Emails,
    Invoices,
    KindOf,         \* "PLAIN", "SEND" or "REMINDER"
    InvoiceOf,      \* the invoice of a SEND or REMINDER
    Ticks,          \* runs of processOutbox that may overlap
    MaxRetries,     \* max_retries
    BatchSize,      \* batchSize
    MaxEarly,       \* bound: leases that run out while a tick works on the row
    MaxFaults,      \* bound: crashes, failed statements, unreported deliveries
    NoInvoice, NoClaim

ASSUME OutboxAssumption ==
    /\ KindOf \in [Emails -> {"PLAIN", "SEND", "REMINDER"}]
    /\ InvoiceOf \in [Emails -> Invoices \cup {NoInvoice}]
    /\ NoInvoice \notin Invoices
    /\ \A e \in Emails : KindOf[e] # "PLAIN" => InvoiceOf[e] \in Invoices
    /\ IsFiniteSet(Ticks)
    /\ MaxRetries \in Nat \ {0}
    /\ BatchSize \in Nat \ {0}
    /\ MaxEarly \in Nat
    /\ MaxFaults \in Nat
    /\ NoClaim \notin [email : Emails, retries : Nat]

VARIABLES
    rows,       \* outbox_emails
    invoices,   \* what the outbox reads of an invoice: status and balance
    revived,    \* history: voided invoices over whose status another was written
    delivered,  \* history: times the mail server accepted an e-mail
    pc, held, cur,
    early, faults

vars == <<rows, invoices, revived, delivered, pc, held, cur, early, faults>>

tickVars == <<pc, held, cur>>

Status == {"ABSENT", "PENDING", "PROCESSING", "RETRYING", "SENT", "FAILED",
           "DEAD_LETTER", "SUPPRESSED"}

Row == [status : Status, retries : Nat, lease : {"none", "live", "expired"},
        due : BOOLEAN]

Claims == [email : Emails, retries : Nat]

Busy == {"suppressing", "dispatching", "accepted", "failing"}

TypeOK ==
    /\ rows \in [Emails -> Row]
    /\ invoices \in [Invoices -> {"open", "settled", "void"}]
    /\ revived \in SUBSET Invoices
    /\ delivered \in [Emails -> Nat]
    /\ pc \in [Ticks -> {"idle", "claiming", "batch"} \cup Busy]
    /\ held \in [Ticks -> SUBSET Claims]
    /\ cur \in [Ticks -> Claims \cup {NoClaim}]
    /\ \A t \in Ticks : pc[t] \in Busy <=> cur[t] # NoClaim
    /\ early \in Nat
    /\ faults \in Nat

Init ==
    /\ rows = [e \in Emails |-> [status |-> "ABSENT", retries |-> 0,
                                 lease |-> "none", due |-> FALSE]]
    /\ invoices = [i \in Invoices |-> "open"]
    /\ revived = {}
    /\ delivered = [e \in Emails |-> 0]
    /\ pc = [t \in Ticks |-> "idle"]
    /\ held = [t \in Ticks |-> {}]
    /\ cur = [t \in Ticks |-> NoClaim]
    /\ early = 0
    /\ faults = 0

Fault == faults < MaxFaults /\ faults' = faults + 1

-----------------------------------------------------------------------------
(* What the statements select and write.                                    *)

Queued(row) == [row EXCEPT !.status = "PENDING", !.due = TRUE]

\* The rows the cleanup at the head of processOutbox takes.
Exhausted(row) ==
    row.status = "PROCESSING" /\ row.lease = "expired" /\ row.retries >= MaxRetries

\* The variant claims expired rows whatever their retries.
ClaimableAnyhow(row) ==
    \/ row.status \in {"PENDING", "RETRYING"} /\ row.due
    \/ row.status = "PROCESSING"

Claimable(row) ==
    /\ \/ row.status \in {"PENDING", "RETRYING"}
       \/ row.status = "PROCESSING" /\ row.lease = "expired"
    /\ row.due
    /\ row.retries < MaxRetries

Claimed(row) == [row EXCEPT !.status = "PROCESSING", !.lease = "live"]

\* Rows that other claims have locked are skipped, and are no longer claimable
\* when these commit.
Batches ==
    LET due == {e \in Emails : Claimable(rows[e])}
    IN {C \in SUBSET due : /\ Cardinality(C) <= BatchSize
                           /\ Cardinality(C) < BatchSize => C = due}

\* The variant forgets that an invoice may be voided after the e-mail of it was
\* queued.
UnwantedSettledOnly(e) ==
    KindOf[e] = "REMINDER" /\ invoices[InvoiceOf[e]] = "settled"

\* The invoice check before the dispatch: voided, or a reminder of a settled one.
Unwanted(e) ==
    /\ KindOf[e] # "PLAIN"
    /\ \/ invoices[InvoiceOf[e]] = "void"
       \/ KindOf[e] = "REMINDER" /\ invoices[InvoiceOf[e]] = "settled"

\* Guarded by the status, unlike the two that follow.
SuppressedRow(row) ==
    IF row.status = "PROCESSING"
    THEN [row EXCEPT !.status = "SUPPRESSED", !.lease = "none"]
    ELSE row

SentRow(row) == [row EXCEPT !.status = "SENT", !.lease = "none"]

\* Variant: the count is never raised.
AfterFailureUncounted(row, n) ==
    [row EXCEPT !.status = IF n >= MaxRetries THEN "FAILED" ELSE "RETRYING",
                !.lease = "none", !.due = FALSE]

\* handleDispatchFailure, with the count the row had when it was claimed plus 1.
AfterFailure(row, n) ==
    [row EXCEPT !.status = IF n >= MaxRetries THEN "FAILED" ELSE "RETRYING",
                !.retries = n, !.lease = "none", !.due = FALSE]

\* recoverExpiredLeases; the retry it looks ahead to is not stored.
Recovered(row) ==
    IF row.status = "PROCESSING" /\ row.lease = "expired"
    THEN [row EXCEPT !.status = IF row.retries + 1 >= MaxRetries
                                THEN "FAILED" ELSE "RETRYING",
                     !.lease = "none", !.due = TRUE]
    ELSE row

-----------------------------------------------------------------------------
(* The business operations.                                                 *)

\* enqueueEmail, in the transaction that looked at the invoice.
Enqueue(e) ==
    /\ rows[e].status = "ABSENT"
    /\ KindOf[e] = "SEND" => invoices[InvoiceOf[e]] # "void"
    /\ KindOf[e] = "REMINDER" => invoices[InvoiceOf[e]] = "open"
    /\ rows' = [rows EXCEPT ![e] = Queued(@)]
    /\ UNCHANGED <<invoices, revived, delivered, tickVars, early, faults>>

\* Payments, credits and their reversals, and the voiding of an invoice whose
\* posting stands.  applyCreditNoteToInvoice does not ask for the status: it
\* writes Paid or Partially Paid over VOIDED, and the reversal of that credit, of
\* a write-off or of an advance computes the status anew from the amounts.
ChangeInvoice(i, to) ==
    /\ <<invoices[i], to>> \in {<<"open", "settled">>, <<"settled", "open">>,
                                <<"open", "void">>, <<"void", "open">>,
                                <<"void", "settled">>}
    /\ to = "void" => i \notin revived
    /\ invoices' = [invoices EXCEPT ![i] = to]
    /\ revived' = IF invoices[i] = "void" THEN revived \cup {i} ELSE revived
    /\ UNCHANGED <<rows, delivered, tickVars, early, faults>>

RecoverExpiredLeases ==
    /\ \E e \in Emails : rows[e].status = "PROCESSING" /\ rows[e].lease = "expired"
    /\ rows' = [e \in Emails |-> Recovered(rows[e])]
    /\ UNCHANGED <<invoices, revived, delivered, tickVars, early, faults>>

-----------------------------------------------------------------------------
(* One run of processOutbox.                                                *)

Cleanup(t) ==
    /\ pc[t] = "idle"
    /\ pc' = [pc EXCEPT ![t] = "claiming"]
    /\ rows' = [e \in Emails |-> IF Exhausted(rows[e])
                                 THEN [rows[e] EXCEPT !.status = "DEAD_LETTER"]
                                 ELSE rows[e]]
    /\ UNCHANGED <<invoices, revived, delivered, held, cur, early, faults>>

Claim(t, C) ==
    /\ pc[t] = "claiming"
    /\ pc' = [pc EXCEPT ![t] = IF C = {} THEN "idle" ELSE "batch"]
    /\ held' = [held EXCEPT ![t] = {[email |-> e, retries |-> rows[e].retries] : e \in C}]
    /\ rows' = [e \in Emails |-> IF e \in C THEN Claimed(rows[e]) ELSE rows[e]]
    /\ UNCHANGED <<invoices, revived, delivered, cur, early, faults>>

\* The next row of the batch, up to the decision about its invoice.
Check(t, c) ==
    /\ pc[t] = "batch"
    /\ c \in held[t]
    /\ held' = [held EXCEPT ![t] = @ \ {c}]
    /\ cur' = [cur EXCEPT ![t] = c]
    /\ pc' = [pc EXCEPT ![t] = IF Unwanted(c.email) THEN "suppressing" ELSE "dispatching"]
    /\ UNCHANGED <<rows, invoices, revived, delivered, early, faults>>

\* The row is done with: the next one, or the end of the run.
GoOn(t) ==
    /\ cur' = [cur EXCEPT ![t] = NoClaim]
    /\ pc' = [pc EXCEPT ![t] = IF held[t] = {} THEN "idle" ELSE "batch"]
    /\ UNCHANGED held

\* The end of the row: its UPDATE is the last thing the run does for it.
Finish(t, row) ==
    /\ rows' = [rows EXCEPT ![cur[t].email] = row]
    /\ GoOn(t)
    /\ UNCHANGED <<invoices, revived, delivered, early, faults>>

Suppress(t) ==
    /\ pc[t] = "suppressing"
    /\ Finish(t, SuppressedRow(rows[cur[t].email]))

AfterDispatch(ok) == IF ok THEN "accepted" ELSE "failing"

\* The mail server takes the message, or it does not, or there is none.
Dispatch(t, ok) ==
    /\ pc[t] = "dispatching"
    /\ pc' = [pc EXCEPT ![t] = AfterDispatch(ok)]
    /\ delivered' = IF ok THEN [delivered EXCEPT ![cur[t].email] = @ + 1] ELSE delivered
    /\ UNCHANGED <<rows, invoices, revived, held, cur, early, faults>>

MarkSent(t) ==
    /\ pc[t] = "accepted"
    /\ Finish(t, SentRow(rows[cur[t].email]))

RecordFailure(t) ==
    /\ pc[t] = "failing"
    /\ Finish(t, AfterFailure(rows[cur[t].email], cur[t].retries + 1))

\* The message is taken and the connection breaks before the answer.
DispatchUnheard(t) ==
    /\ pc[t] = "dispatching"
    /\ Fault
    /\ pc' = [pc EXCEPT ![t] = "failing"]
    /\ delivered' = [delivered EXCEPT ![cur[t].email] = @ + 1]
    /\ UNCHANGED <<rows, invoices, revived, held, cur, early>>

\* A statement of the row fails, the one that marks it sent included: the
\* catch block treats it as a failed dispatch.
StatementFails(t) ==
    /\ pc[t] \in {"suppressing", "dispatching", "accepted"}
    /\ Fault
    /\ pc' = [pc EXCEPT ![t] = "failing"]
    /\ UNCHANGED <<rows, invoices, revived, delivered, held, cur, early>>

\* The process stops, or handleDispatchFailure itself fails and ends the run.
Abandon(t) ==
    /\ pc[t] # "idle"
    /\ Fault
    /\ pc' = [pc EXCEPT ![t] = "idle"]
    /\ held' = [held EXCEPT ![t] = {}]
    /\ cur' = [cur EXCEPT ![t] = NoClaim]
    /\ UNCHANGED <<rows, invoices, revived, delivered, early>>

-----------------------------------------------------------------------------
(* The clock.                                                               *)

Works(t, e) ==
    \/ \E c \in held[t] : c.email = e
    \/ pc[t] \in Busy /\ cur[t].email = e

WorkedOn(e) == \E t \in Ticks : Works(t, e)

\* A lease passes.  While a tick still works on the row this is the slow batch,
\* and bounded.
Expire(e) ==
    /\ rows[e].status = "PROCESSING"
    /\ rows[e].lease = "live"
    /\ WorkedOn(e) => early < MaxEarly
    /\ early' = IF WorkedOn(e) THEN early + 1 ELSE early
    /\ rows' = [rows EXCEPT ![e].lease = "expired"]
    /\ UNCHANGED <<invoices, revived, delivered, tickVars, faults>>

BackoffOver(e) ==
    /\ rows[e].status = "RETRYING"
    /\ ~rows[e].due
    /\ rows' = [rows EXCEPT ![e].due = TRUE]
    /\ UNCHANGED <<invoices, revived, delivered, tickVars, early, faults>>

-----------------------------------------------------------------------------
TickStep(t) ==
    \/ Cleanup(t)
    \/ \E C \in Batches : Claim(t, C)
    \/ \E c \in held[t] : Check(t, c)
    \/ Suppress(t)
    \/ \E ok \in BOOLEAN : Dispatch(t, ok)
    \/ MarkSent(t)
    \/ RecordFailure(t)

Mishap(t) == DispatchUnheard(t) \/ StatementFails(t) \/ Abandon(t)

ClockStep == \E e \in Emails : Expire(e) \/ BackoffOver(e)

Next ==
    \/ \E e \in Emails : Enqueue(e)
    \/ \E i \in Invoices, to \in {"open", "settled", "void"} : ChangeInvoice(i, to)
    \/ RecoverExpiredLeases
    \/ \E t \in Ticks : TickStep(t) \/ Mishap(t)
    \/ ClockStep

Spec == Init /\ [][Next]_vars

\* The timer starts runs for ever and the runs go on; time passes.
FairSpec ==
    /\ Spec
    /\ \A t \in Ticks : WF_vars(TickStep(t))
    /\ \A e \in Emails : WF_vars(Expire(e)) /\ WF_vars(BackoffOver(e))

-----------------------------------------------------------------------------
\* A row is leased exactly while it is PROCESSING, and a row that may still be
\* sent has retries left, whatever stale counts overlapping runs write.  Hence
\* the cleanup to DEAD_LETTER has never a row to take.
OpenRowsHaveRetries ==
    \A e \in Emails :
        /\ rows[e].lease # "none" <=> rows[e].status = "PROCESSING"
        /\ rows[e].status \in {"PENDING", "RETRYING", "PROCESSING"}
              => rows[e].retries < MaxRetries
        /\ rows[e].status # "DEAD_LETTER"

\* A row says SENT only of an e-mail the mail server has accepted.
SentIsDelivered ==
    \A e \in Emails : rows[e].status = "SENT" => delivered[e] >= 1

\* Every delivery beyond the first is paid for by a lease that ran out under a
\* running tick, a crash, a failed statement or a lost answer: overlapping runs
\* alone, and failures honestly reported, send nothing twice.
DuplicatesExplained ==
    \A e \in Emails : delivered[e] <= 1 + early + faults

\* While an invoice is void, an e-mail about it is sent only by a tick that was
\* past the check before.  Once there is none, it stays unsent through all retries
\* and overlapping runs, until a credit or a reversal writes over the status.
Withdrawn(e) ==
    /\ KindOf[e] # "PLAIN"
    /\ invoices[InvoiceOf[e]] = "void"
    /\ \A t \in Ticks : pc[t] = "dispatching" => cur[t].email # e

VoidedStaysUnsent ==
    [][\A e \in Emails :
         Withdrawn(e) =>
            /\ delivered'[e] = delivered[e]
            /\ Withdrawn(e)' \/ InvoiceOf[e] \in revived']_vars

\* Every e-mail comes to rest, sent, failed or suppressed, although the writes
\* of late runs can reopen rows that were at rest.
Settles ==
    <>[](\A e \in Emails :
           rows[e].status \in {"ABSENT", "SENT", "FAILED", "SUPPRESSED"})
===============================================================================

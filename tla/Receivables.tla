------------------------------ MODULE Receivables ------------------------------
(***************************************************************************)
(* The receivables of one customer: SalesEngine with the voids and         *)
(* reversals of FinancialDestructiveActionsService.  Invoices are posted,  *)
(* edited, voided and settled by payments, advances, credit notes and      *)
(* write-offs; each settlement is undone by a reversal of its own.         *)
(*                                                                         *)
(* Every handler is one transaction that locks the rows it reads, so each  *)
(* is one action.  What is hard here is the sequence: any handler may      *)
(* follow any other on the same document.                                  *)
(*                                                                         *)
(* Amounts are small naturals.  Left out are customers' cached balances,   *)
(* period locks, the decision of an approval (posting a SUBMITTED document *)
(* stands for a granted one), sales orders and expenses, and edit_version, *)
(* which only refuses more.  POSTED stands also for SENT, VIEWED and       *)
(* OVERDUE.                                                                *)
(***************************************************************************)
EXTENDS Integers, FiniteSets, Functions

CONSTANTS
    Invoices, Payments, Notes,
    MaxAmount,    \* bound: totals, payments and notes
    MaxRows,      \* bound: invoices, live payments and live notes together
    Approvals     \* the organization asks for approval of some invoices and payments

ASSUME ReceivablesAssumption ==
    /\ IsFiniteSet(Invoices) /\ IsFiniteSet(Payments) /\ IsFiniteSet(Notes)
    /\ {MaxAmount, MaxRows} \subseteq Nat \ {0}
    /\ Approvals \in BOOLEAN

VARIABLES
    invoices,   \* invoices with the journal that posted them
    payments,   \* payments_received with allocations, and the advance of each
    notes,      \* credit_notes with their applications and refunds
    ar,         \* ledger balance of 1100, accounts receivable
    advances    \* ledger balance of 2100, customer advances

vars == <<invoices, payments, notes, ar, advances>>

Amounts == 1..MaxAmount
Portions == [Invoices -> 0..MaxAmount]
Nothing == [i \in Invoices |-> 0]

\* PARTLY is the 'Partially Paid' of credit notes, which is not PARTIALLY_PAID.
InvoiceStatus == {"NONE", "DRAFT", "SUBMITTED", "POSTED", "PARTIALLY_PAID", "PARTLY",
                  "PAID", "WRITTEN_OFF", "VOIDED"}

\* ledger is what the posting journal debits to 1100.
Invoice == [status: InvoiceStatus, total: Nat, paid: Nat, credited: Nat, writtenOff: Nat,
            balance: Nat, journal: {"NONE", "LIVE", "REVERSED"}, ledger: Nat]

\* A payment with its unallocated part as an advance, or an advance on its own.
\* No handler uses a reversed row again, so it leaves its place to a new one: a
\* bound on the live rows only.  The same holds of notes.
Payment == [status: {"NONE", "SUBMITTED", "POSTED", "ADVANCE"}, amount: Nat,
            allocated: [Invoices -> Nat], advance: Nat, unapplied: Nat,
            applied: [Invoices -> Nat], refunded: Nat]

\* touched: the invoices with an application, of amount zero even.
Note == [status: {"NONE", "OPEN"}, total: Nat, remaining: Nat,
         applied: [Invoices -> Nat], touched: SUBSET Invoices, refunded: Nat]

NoPayment ==
    [status |-> "NONE", amount |-> 0, allocated |-> Nothing, advance |-> 0, unapplied |-> 0,
     applied |-> Nothing, refunded |-> 0]

NoNote ==
    [status |-> "NONE", total |-> 0, remaining |-> 0, applied |-> Nothing, touched |-> {},
     refunded |-> 0]

TypeOK ==
    /\ invoices \in [Invoices -> Invoice]
    /\ payments \in [Payments -> Payment]
    /\ notes \in [Notes -> Note]
    /\ ar \in Int
    /\ advances \in Int

Init ==
    /\ invoices = [i \in Invoices |->
                     [status |-> "NONE", total |-> 0, paid |-> 0, credited |-> 0,
                      writtenOff |-> 0, balance |-> 0, journal |-> "NONE", ledger |-> 0]]
    /\ payments = [p \in Payments |-> NoPayment]
    /\ notes = [n \in Notes |-> NoNote]
    /\ ar = 0
    /\ advances = 0

-----------------------------------------------------------------------------
(* What an invoice owes, and what a settlement makes of it.                *)

Positive(x) == IF x > 0 THEN x ELSE 0

Exists(i) == invoices[i].status # "NONE"

Room == Cardinality({i \in Invoices : Exists(i)})
        + Cardinality({p \in Payments : payments[p].status # "NONE"})
        + Cardinality({n \in Notes : notes[n].status # "NONE"}) < MaxRows

\* What is left of the total, whatever balance_due says.
Owed(r) == Positive(r.total - r.paid - r.credited - r.writtenOff)

\* Variant: credits and write-offs are forgotten in the balance.
ResettledPaid(r, paid, credited, writtenOff, status) ==
    [status |-> status, total |-> r.total, paid |-> paid, credited |-> credited,
     writtenOff |-> writtenOff, balance |-> Positive(r.total - paid),
     journal |-> r.journal, ledger |-> r.ledger]

\* Variant: the balance is not held at zero.
ResettledRaw(r, paid, credited, writtenOff, status) ==
    [status |-> status, total |-> r.total, paid |-> paid, credited |-> credited,
     writtenOff |-> writtenOff, balance |-> r.total - paid - credited - writtenOff,
     journal |-> r.journal, ledger |-> r.ledger]

\* Every settlement writes its amount, the balance and a status.
Resettled(r, paid, credited, writtenOff, status) ==
    [status |-> status, total |-> r.total, paid |-> paid, credited |-> credited,
     writtenOff |-> writtenOff, balance |-> Positive(r.total - paid - credited - writtenOff),
     journal |-> r.journal, ledger |-> r.ledger]

\* A receipt or an advance settles a part.
Paid(r, a) ==
    Resettled(r, r.paid + a, r.credited, r.writtenOff,
              IF Owed(r) = a THEN "PAID" ELSE "PARTIALLY_PAID")

\* ck_invoices_amounts_nonnegative refuses a reversal that leaves less than nothing.
Restorable(r, paid, credited, writtenOff) ==
    paid >= 0 /\ credited >= 0 /\ writtenOff >= 0 /\ paid + credited + writtenOff <= r.total

\* Variant: an invoice that nothing settles any more is a draft again.
RestoredDraft(r, paid, credited, writtenOff) ==
    Resettled(r, paid, credited, writtenOff,
              CASE paid + credited + writtenOff = r.total -> "PAID"
                [] paid + credited + writtenOff # r.total /\ paid > 0 -> "PARTIALLY_PAID"
                [] OTHER -> "DRAFT")

\* Every reversal recomputes the status from the amounts, of a voided invoice too.
Restored(r, paid, credited, writtenOff) ==
    Resettled(r, paid, credited, writtenOff,
              CASE paid + credited + writtenOff = r.total -> "PAID"
                [] paid + credited + writtenOff # r.total /\ paid > 0 -> "PARTIALLY_PAID"
                [] OTHER -> "POSTED")

-----------------------------------------------------------------------------
(* Invoices.                                                               *)

\* createAndPostInvoice.
CreateInvoice(i, total, status) ==
    /\ ~Exists(i) /\ Room
    /\ status \in {"DRAFT", "POSTED"} \cup (IF Approvals THEN {"SUBMITTED"} ELSE {})
    /\ invoices' = [invoices EXCEPT ![i] =
                      [status |-> status, total |-> total, paid |-> 0, credited |-> 0,
                       writtenOff |-> 0, balance |-> total,
                       journal |-> IF status = "POSTED" THEN "LIVE" ELSE "NONE",
                       ledger |-> IF status = "POSTED" THEN total ELSE 0]]
    /\ ar' = IF status = "POSTED" THEN ar + total ELSE ar
    /\ UNCHANGED <<payments, notes, advances>>

\* postInvoice and postApprovedInvoice; the balance keeps what settlements left.
PostInvoice(i) ==
    LET r == invoices[i]
    IN  /\ r.status \in {"DRAFT", "SUBMITTED"}
        /\ invoices' = [invoices EXCEPT ![i] =
                          [status |-> "POSTED", total |-> r.total, paid |-> r.paid,
                           credited |-> r.credited, writtenOff |-> r.writtenOff,
                           balance |-> r.balance, journal |-> "LIVE", ledger |-> r.total]]
        /\ ar' = ar + r.total
        /\ UNCHANGED <<payments, notes, advances>>

\* Variant: the reversal takes the invoice's total back.
UnpostedTotal(r) == r.total

\* reversePostedJournal takes back what the journal posted.
Unposted(r) == r.ledger

PostedState(r) == r.status \in {"POSTED", "PARTIALLY_PAID", "PAID"}

\* The status of an edited invoice that is in a posted state.
EditedStatus(r, total) ==
    CASE ~PostedState(r) \/ r.paid = 0 -> r.status
      [] PostedState(r) /\ r.paid > 0 /\ total <= r.paid + r.credited + r.writtenOff -> "PAID"
      [] OTHER -> "PARTIALLY_PAID"

\* updateInvoice: an edited total replaces the journal in a posted state, and is
\* compared with payments only.
EditInvoice(i, total) ==
    LET r == invoices[i]
        reposted == PostedState(r) /\ r.journal # "NONE"
    IN  /\ Exists(i)
        /\ r.status # "VOIDED"
        /\ total >= r.paid
        /\ reposted => r.journal = "LIVE"
        /\ invoices' = [invoices EXCEPT ![i] =
                          [status |-> EditedStatus(r, total), total |-> total, paid |-> r.paid,
                           credited |-> r.credited, writtenOff |-> r.writtenOff,
                           balance |-> Positive(total - r.paid - r.credited - r.writtenOff),
                           journal |-> r.journal,
                           ledger |-> IF reposted THEN total ELSE r.ledger]]
        /\ ar' = IF reposted THEN ar + total - Unposted(r) ELSE ar
        /\ UNCHANGED <<payments, notes, advances>>

\* No amount settled and no allocation of a payment that is not reversed.
Unsettled(i) ==
    /\ invoices[i].paid = 0 /\ invoices[i].credited = 0 /\ invoices[i].writtenOff = 0
    /\ \A p \in Payments : payments[p].allocated[i] = 0

\* voidInvoice.
VoidInvoice(i) ==
    LET r == invoices[i]
    IN  /\ r.status # "VOIDED"
        /\ Unsettled(i)
        /\ r.journal = "LIVE"
        /\ invoices' = [invoices EXCEPT ![i] =
                          [status |-> "VOIDED", total |-> r.total, paid |-> r.paid,
                           credited |-> r.credited, writtenOff |-> r.writtenOff, balance |-> 0,
                           journal |-> "REVERSED", ledger |-> r.ledger]]
        /\ ar' = ar - Unposted(r)
        /\ UNCHANGED <<payments, notes, advances>>

-----------------------------------------------------------------------------
(* Payments and advances.                                                  *)

\* The locked invoices must owe each portion and show it in balance_due.
Allocatable(docs, portion) ==
    \A i \in Invoices : portion[i] > 0 => /\ docs[i].status # "NONE"
                                          /\ portion[i] <= Owed(docs[i])
                                          /\ portion[i] <= docs[i].balance

Allocated(docs, portion) ==
    [i \in Invoices |-> IF portion[i] > 0 THEN Paid(docs[i], portion[i]) ELSE docs[i]]

Received(status, amount, portion) ==
    LET advance == IF status = "SUBMITTED" THEN 0 ELSE Positive(amount - SumFunction(portion))
    IN  [status |-> status, amount |-> amount, allocated |-> portion, advance |-> advance,
         unapplied |-> advance, applied |-> Nothing, refunded |-> 0]

\* recordPayment: no status of an invoice is refused.
ReceivePayment(p, amount, portion) ==
    /\ payments[p].status = "NONE" /\ Room
    /\ SumFunction(portion) <= amount
    /\ Allocatable(invoices, portion)
    /\ invoices' = Allocated(invoices, portion)
    /\ payments' = [payments EXCEPT ![p] = Received("POSTED", amount, portion)]
    /\ ar' = ar - SumFunction(portion)
    /\ advances' = advances + amount - SumFunction(portion)
    /\ UNCHANGED notes

\* recordPayment where approval is required: stored as it was sent.
SubmitPayment(p, amount, portion) ==
    /\ Approvals
    /\ payments[p].status = "NONE" /\ Room
    /\ \A i \in Invoices : portion[i] > 0 => Exists(i)
    /\ payments' = [payments EXCEPT ![p] = Received("SUBMITTED", amount, portion)]
    /\ UNCHANGED <<invoices, notes, ar, advances>>

\* postApprovedPayment: an invoice whose balance_due is less is left as it is, and
\* the journal is posted all the same; an unbalanced journal is refused.
PostSubmittedPayment(p) ==
    LET r == payments[p]
    IN  /\ r.status = "SUBMITTED"
        /\ SumFunction(r.allocated) <= r.amount
        /\ \A i \in Invoices : r.allocated[i] <= Owed(invoices[i])
        /\ invoices' = [i \in Invoices |->
                          IF r.allocated[i] > 0 /\ r.allocated[i] <= invoices[i].balance
                          THEN Paid(invoices[i], r.allocated[i]) ELSE invoices[i]]
        /\ payments' = [payments EXCEPT ![p] = Received("POSTED", r.amount, r.allocated)]
        /\ ar' = ar - SumFunction(r.allocated)
        /\ advances' = advances + r.amount - SumFunction(r.allocated)
        /\ UNCHANGED notes

\* reversePaymentReceived asks for a journal, an advance that is whole again, and
\* invoices that are not voided and still show the portions as paid.
PaymentReversible(p) ==
    LET r == payments[p]
    IN  /\ r.status = "POSTED"
        /\ r.unapplied = r.advance
        /\ \A i \in Invoices : r.allocated[i] > 0 =>
              /\ invoices[i].status # "VOIDED"
              /\ Restorable(invoices[i], invoices[i].paid - r.allocated[i],
                            invoices[i].credited, invoices[i].writtenOff)

Released(portion) ==
    [i \in Invoices |->
       IF portion[i] > 0
       THEN Restored(invoices[i], invoices[i].paid - portion[i], invoices[i].credited,
                     invoices[i].writtenOff)
       ELSE invoices[i]]

\* Variant: the advance of a reversed payment stays open.
ReversedOpen(r) == [NoPayment EXCEPT !.unapplied = r.unapplied]

\* The row of a reversed payment: nothing is left unapplied.
Reversed(r) == NoPayment

ReversePayment(p) ==
    /\ PaymentReversible(p)
    /\ invoices' = Released(payments[p].allocated)
    /\ payments' = [payments EXCEPT ![p] = Reversed(payments[p])]
    /\ ar' = ar + SumFunction(payments[p].allocated)
    /\ advances' = advances - payments[p].advance
    /\ UNCHANGED notes

\* correctCustomerPayment: reversal and replacement in one transaction.
CorrectPayment(p, amount, portion) ==
    LET docs == Released(payments[p].allocated)
    IN  /\ PaymentReversible(p)
        /\ SumFunction(portion) <= amount
        /\ Allocatable(docs, portion)
        /\ invoices' = Allocated(docs, portion)
        /\ payments' = [payments EXCEPT ![p] = Received("POSTED", amount, portion)]
        /\ ar' = ar + SumFunction(payments[p].allocated) - SumFunction(portion)
        /\ advances' = advances - payments[p].advance + amount - SumFunction(portion)
        /\ UNCHANGED notes

\* The same where the replacement asks for approval: the reversal stands alone.
CorrectSubmitted(p, amount, portion) ==
    /\ Approvals
    /\ PaymentReversible(p)
    /\ \A i \in Invoices : portion[i] > 0 => Exists(i)
    /\ invoices' = Released(payments[p].allocated)
    /\ payments' = [payments EXCEPT ![p] = Received("SUBMITTED", amount, portion)]
    /\ ar' = ar + SumFunction(payments[p].allocated)
    /\ advances' = advances - payments[p].advance
    /\ UNCHANGED notes

\* recordCustomerAdvance.
RecordAdvance(p, amount) ==
    /\ payments[p].status = "NONE" /\ Room
    /\ payments' = [payments EXCEPT ![p] = Received("ADVANCE", amount, Nothing)]
    /\ advances' = advances + amount
    /\ UNCHANGED <<invoices, notes, ar>>

\* reverseCustomerAdvance.
ReverseAdvance(p) ==
    /\ payments[p].status = "ADVANCE"
    /\ payments[p].unapplied = payments[p].advance
    /\ payments' = [payments EXCEPT ![p] = Reversed(payments[p])]
    /\ advances' = advances - payments[p].advance
    /\ UNCHANGED <<invoices, notes, ar>>

\* applyAdvanceToInvoice; bound: one live application of an advance to an invoice.
ApplyAdvance(p, i, a) ==
    /\ Exists(i)
    /\ payments[p].applied[i] = 0
    /\ a <= payments[p].unapplied
    /\ a <= Owed(invoices[i])
    /\ a <= invoices[i].balance
    /\ invoices' = [invoices EXCEPT ![i] = Paid(invoices[i], a)]
    /\ payments' = [payments EXCEPT ![p].unapplied = @ - a, ![p].applied[i] = a]
    /\ ar' = ar - a
    /\ advances' = advances - a
    /\ UNCHANGED notes

\* reverseAdvanceApplication.
ReverseApplication(p, i) ==
    LET a == payments[p].applied[i]
        r == invoices[i]
    IN  /\ a > 0
        /\ Restorable(r, r.paid - a, r.credited, r.writtenOff)
        /\ invoices' = [invoices EXCEPT ![i] =
                          Restored(r, r.paid - a, r.credited, r.writtenOff)]
        /\ payments' = [payments EXCEPT ![p].unapplied = @ + a, ![p].applied[i] = 0]
        /\ ar' = ar + a
        /\ advances' = advances + a
        /\ UNCHANGED notes

\* recordRefund of an advance; bound: one live refund of an advance.
RefundAdvance(p, a) ==
    /\ payments[p].status # "NONE"
    /\ payments[p].refunded = 0
    /\ a <= payments[p].unapplied
    /\ payments' = [payments EXCEPT ![p].unapplied = @ - a, ![p].refunded = a]
    /\ advances' = advances - a
    /\ UNCHANGED <<invoices, notes, ar>>

\* reverseCustomerRefund of an advance.
ReverseAdvanceRefund(p) ==
    LET a == payments[p].refunded
    IN  /\ a > 0
        /\ payments[p].unapplied + a <= payments[p].advance
        /\ payments' = [payments EXCEPT ![p].unapplied = @ + a, ![p].refunded = 0]
        /\ advances' = advances + a
        /\ UNCHANGED <<invoices, notes, ar>>

-----------------------------------------------------------------------------
(* Credit notes and write-offs.                                            *)

\* The note after an application to invoice i.
AppliedNote(r, i, a) ==
    [status |-> "OPEN", total |-> r.total, remaining |-> r.remaining - a,
     applied |-> [r.applied EXCEPT ![i] = @ + a], touched |-> r.touched \cup {i},
     refunded |-> r.refunded]

\* applyCreditNoteToInvoice: as much as the invoice owes, even nothing.
Credited(r, a) ==
    Resettled(r, r.paid, r.credited + a, r.writtenOff,
              IF Owed(r) = a THEN "PAID" ELSE "PARTLY")

IssuedNote(total) ==
    [status |-> "OPEN", total |-> total, remaining |-> total, applied |-> Nothing,
     touched |-> {}, refunded |-> 0]

\* createCreditNote, on its own or for an invoice that owes the total.
CreateNote(n, total) ==
    /\ notes[n].status = "NONE" /\ Room
    /\ notes' = [notes EXCEPT ![n] = IssuedNote(total)]
    /\ ar' = ar - total
    /\ UNCHANGED <<invoices, payments, advances>>

\* createCreditNote with autoApply.
CreateAppliedNote(n, total, i) ==
    /\ notes[n].status = "NONE" /\ Room
    /\ Exists(i)
    /\ total <= Owed(invoices[i])
    /\ notes' = [notes EXCEPT ![n] = AppliedNote(IssuedNote(total), i, total)]
    /\ invoices' = [invoices EXCEPT ![i] = Credited(invoices[i], total)]
    /\ ar' = ar - total
    /\ UNCHANGED <<payments, advances>>

ApplyNote(n, i, amount) ==
    LET owed == Owed(invoices[i])
        a == IF amount <= owed THEN amount ELSE owed
    IN  /\ notes[n].status = "OPEN"
        /\ Exists(i)
        /\ amount <= notes[n].remaining
        /\ notes' = [notes EXCEPT ![n] = AppliedNote(notes[n], i, a)]
        /\ invoices' = [invoices EXCEPT ![i] = Credited(invoices[i], a)]
        /\ UNCHANGED <<payments, ar, advances>>

\* reverseCreditNote takes every application back.
ReverseNote(n) ==
    LET r == notes[n]
        credited(i) == invoices[i].credited - r.applied[i]
    IN  /\ r.status = "OPEN"
        /\ r.refunded = 0
        /\ \A i \in r.touched : Restorable(invoices[i], invoices[i].paid, credited(i),
                                           invoices[i].writtenOff)
        /\ invoices' = [i \in Invoices |->
                          IF i \in r.touched
                          THEN Restored(invoices[i], invoices[i].paid, credited(i),
                                        invoices[i].writtenOff)
                          ELSE invoices[i]]
        /\ notes' = [notes EXCEPT ![n] = NoNote]
        /\ ar' = ar + r.total
        /\ UNCHANGED <<payments, advances>>

\* recordRefund of a note; bound: one live refund of a note.
RefundNote(n, a) ==
    /\ notes[n].status = "OPEN"
    /\ notes[n].refunded = 0
    /\ a <= notes[n].remaining
    /\ notes' = [notes EXCEPT ![n].remaining = @ - a, ![n].refunded = a]
    /\ ar' = ar + a
    /\ UNCHANGED <<invoices, payments, advances>>

\* reverseCustomerRefund of a note.
ReverseNoteRefund(n) ==
    LET a == notes[n].refunded
    IN  /\ a > 0
        /\ notes[n].remaining + a <= notes[n].total
        /\ notes' = [notes EXCEPT ![n].remaining = @ + a, ![n].refunded = 0]
        /\ ar' = ar - a
        /\ UNCHANGED <<invoices, payments, advances>>

\* recordWriteOff; bound: one live write-off of an invoice.
WriteOff(i, a) ==
    LET r == invoices[i]
    IN  /\ Exists(i)
        /\ r.writtenOff = 0
        /\ a <= Owed(r)
        /\ invoices' = [invoices EXCEPT ![i] =
                          Resettled(r, r.paid, r.credited, a,
                                    IF Owed(r) = a THEN "WRITTEN_OFF" ELSE r.status)]
        /\ ar' = ar - a
        /\ UNCHANGED <<payments, notes, advances>>

\* reverseWriteOff.
ReverseWriteOff(i) ==
    LET r == invoices[i]
    IN  /\ r.writtenOff > 0
        /\ Restorable(r, r.paid, r.credited, 0)
        /\ invoices' = [invoices EXCEPT ![i] = Restored(r, r.paid, r.credited, 0)]
        /\ ar' = ar + r.writtenOff
        /\ UNCHANGED <<payments, notes, advances>>

-----------------------------------------------------------------------------
Next ==
    \/ \E i \in Invoices :
          \/ \E total \in Amounts : \/ \E status \in InvoiceStatus : CreateInvoice(i, total, status)
                                    \/ EditInvoice(i, total)
          \/ PostInvoice(i) \/ VoidInvoice(i)
          \/ \E a \in Amounts : WriteOff(i, a)
          \/ ReverseWriteOff(i)
    \/ \E p \in Payments :
          \/ \E amount \in Amounts : RecordAdvance(p, amount) \/ RefundAdvance(p, amount)
          \/ \E amount \in Amounts, portion \in Portions :
                \/ ReceivePayment(p, amount, portion)
                \/ SubmitPayment(p, amount, portion)
                \/ CorrectPayment(p, amount, portion)
                \/ CorrectSubmitted(p, amount, portion)
          \/ PostSubmittedPayment(p) \/ ReversePayment(p) \/ ReverseAdvance(p)
          \/ ReverseAdvanceRefund(p)
          \/ \E i \in Invoices : \/ \E a \in Amounts : ApplyAdvance(p, i, a)
                                 \/ ReverseApplication(p, i)
    \/ \E n \in Notes :
          \/ \E total \in Amounts : CreateNote(n, total) \/ RefundNote(n, total)
          \/ \E a \in Amounts, i \in Invoices : CreateAppliedNote(n, a, i) \/ ApplyNote(n, i, a)
          \/ ReverseNote(n) \/ ReverseNoteRefund(n)

Spec == Init /\ [][Next]_vars

-----------------------------------------------------------------------------
(* Properties.                                                             *)

\* What a payment that is posted, and its advance, have settled of an invoice.
Settles(r, i) == r.applied[i] + (IF r.status = "POSTED" THEN r.allocated[i] ELSE 0)

\* balance_due is what the amounts of an invoice leave, or nothing once it is voided,
\* and payments never exceed the total, after any sequence of settlements, edits and
\* reversals.
BalanceTies ==
    \A i \in Invoices :
        LET r == invoices[i]
        IN  /\ r.balance = Owed(r) \/ (r.status = "VOIDED" /\ r.balance = 0)
            /\ r.paid <= r.total

\* No credit is spent twice: the parts of an advance and of a note add up to it, the
\* advances liability is what advances have left, credited is what notes applied, and
\* paid is covered by live allocations and applications.
CreditSpentOnce ==
    /\ \A p \in Payments :
          LET r == payments[p]
          IN  r.status \in {"POSTED", "ADVANCE"}
                => r.advance = r.unapplied + SumFunction(r.applied) + r.refunded
    /\ \A n \in Notes :
          notes[n].status = "OPEN"
            => notes[n].total
                 = notes[n].remaining + SumFunction(notes[n].applied) + notes[n].refunded
    /\ advances = SumFunction([p \in Payments |-> payments[p].unapplied])
    /\ \A i \in Invoices :
          /\ invoices[i].credited = SumFunction([n \in Notes |-> notes[n].applied[i]])
          /\ invoices[i].paid <= SumFunction([p \in Payments |-> Settles(payments[p], i)])

\* Accounts receivable hold what the live documents posted there: every void and
\* every reversal takes back exactly its document's posting.
ControlExplained ==
    ar = SumFunction([i \in Invoices |->
                        (IF invoices[i].journal = "LIVE" THEN invoices[i].ledger ELSE 0)
                          - invoices[i].writtenOff])
         - SumFunction([p \in Payments |->
                          SumFunction([i \in Invoices |-> Settles(payments[p], i)])])
         - SumFunction([n \in Notes |-> IF notes[n].status = "OPEN"
                                         THEN notes[n].total - notes[n].refunded ELSE 0])

\* AccountingIntegrityService.verifyARIntegrity: what invoices and notes say is owed
\* is the ledger balance of accounts receivable.
ARIntegrity ==
    SumFunctionOnSet([i \in Invoices |-> invoices[i].balance],
                     {i \in Invoices : invoices[i].status \notin {"NONE", "VOIDED", "DRAFT"}})
    - SumFunction([n \in Notes |-> notes[n].remaining]) = ar

\* An invoice that has no live posting and yet is settled or counted as open.
Unbacked(r) ==
    /\ r.journal # "LIVE"
    /\ \/ r.paid + r.credited + r.writtenOff > 0
       \/ r.status \notin {"NONE", "VOIDED", "DRAFT"}

\* An invoice edited outside a posted state, or below its credits and write-offs.
Misedited(r) == \/ r.journal = "LIVE" /\ r.ledger # r.total
                \/ r.paid + r.credited + r.writtenOff > r.total

\* A posted receipt that its invoice does not show.
Missed(i) ==
    invoices[i].paid # SumFunction([p \in Payments |-> Settles(payments[p], i)])

\* The integrity report balances unless an invoice was settled without a posting,
\* edited without one or below its credits, or missed by a receipt; nothing else
\* makes the customers' debts and the ledger drift apart.
DriftExplained ==
    ARIntegrity \/ \E i \in Invoices :
                      Unbacked(invoices[i]) \/ Misedited(invoices[i]) \/ Missed(i)

=============================================================================

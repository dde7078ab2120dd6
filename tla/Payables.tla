-------------------------------- MODULE Payables --------------------------------
(***************************************************************************)
(* The payables to one vendor: PurchasesEngine and the bill handler of     *)
(* FinanceController with the voids and reversals of                       *)
(* FinancialDestructiveActionsService.  Bills are posted, edited, voided,  *)
(* billed against a purchase order and settled by payments, advances,      *)
(* debit notes and write-offs; each settlement has a reversal.             *)
(*                                                                         *)
(* As in Receivables every handler is one transaction over rows that it    *)
(* locks, and any may follow any other.  What differs: an approved payment *)
(* is not compared with the bills again, an edit of a bill posts nothing,  *)
(* and a debit note that was refunded may still be reversed.               *)
(*                                                                         *)
(* Left out are vendors' cached balances, which only refuse more, period   *)
(* locks, expenses and their refunds, bank matches, and the decision of an *)
(* approval (posting a SUBMITTED document stands for a granted one).       *)
(* POSTED stands also for the 'Unpaid' of the bill handler.  Goods         *)
(* receipts only keep cancelPurchaseOrder from what an edit of the order's *)
(* status does without asking.                                             *)
(***************************************************************************)
EXTENDS Integers, FiniteSets, Functions

CONSTANTS
    Bills, Payments, Notes,
    MaxAmount,    \* bound: totals, payments and notes; the total of the order
    MaxRows,      \* bound: the order, bills, live payments and notes together
    Approvals,    \* the organization asks for approval of some bills and payments
    Templates     \* bound: the statuses that templates of recurring bills name

ASSUME PayablesAssumption ==
    /\ IsFiniteSet(Bills) /\ IsFiniteSet(Payments) /\ IsFiniteSet(Notes)
    /\ {MaxAmount, MaxRows} \subseteq Nat \ {0}
    /\ Approvals \in BOOLEAN
    /\ Templates \subseteq {"DRAFT", "SUBMITTED", "POSTED", "PARTIALLY_PAID", "PAID",
                      "WRITTEN_OFF", "VOIDED"}

VARIABLES
    bills,      \* bills with the journal that posted them
    payments,   \* payments_made with allocations, and the advance of each
    notes,      \* vendor_credits with their application and refunds
    order,      \* the purchase order some bills were converted from
    ap,         \* ledger balance of 2000, accounts payable
    advances    \* ledger balance of 1150, vendor advances

payablesVars == <<bills, payments, notes, order, ap, advances>>

Amounts == 1..MaxAmount
Portions == [Bills -> 0..MaxAmount]
Nothing == [i \in Bills |-> 0]

BillStatus == {"NONE", "DRAFT", "SUBMITTED", "POSTED", "PARTIALLY_PAID", "PAID",
               "WRITTEN_OFF", "VOIDED"}

\* ledger is what the posting journal credits to 2000; asked: a bill of the order for
\* which approval was asked.  History: prepaid is what a template said was paid,
\* drafted what a draft added to the order, returned what a void took off it.
Bill == [status: BillStatus, total: Nat, paid: Nat, debited: Nat, writtenOff: Nat,
         balance: Nat, journal: {"NONE", "LIVE", "REVERSED"}, ledger: Nat,
         ordered: BOOLEAN, asked: BOOLEAN, prepaid: Nat, drafted: Nat, returned: Nat]

\* A payment with its unallocated part as an advance, or an advance on its own.
\* No handler uses a reversed row again, so it leaves its place to a new one.
Payment == [status: {"NONE", "SUBMITTED", "POSTED", "ADVANCE"}, amount: Nat,
            allocated: [Bills -> Nat], advance: Nat, unapplied: Nat,
            applied: [Bills -> Nat], refunded: Nat]

\* A reversed note keeps its row where a refund of it can never be reversed.
Note == [status: {"NONE", "OPEN", "REVERSED"}, total: Nat, remaining: Nat,
         applied: [Bills -> Nat], refunded: Nat]

NoPayment ==
    [status |-> "NONE", amount |-> 0, allocated |-> Nothing, advance |-> 0, unapplied |-> 0,
     applied |-> Nothing, refunded |-> 0]

NoNote == [status |-> "NONE", total |-> 0, remaining |-> 0, applied |-> Nothing, refunded |-> 0]

PayablesTypeOK ==
    /\ bills \in [Bills -> Bill]
    /\ payments \in [Payments -> Payment]
    /\ notes \in [Notes -> Note]
    /\ order \in [billed: Nat, cancelled: BOOLEAN]
    /\ ap \in Int
    /\ advances \in Int

PayablesInit ==
    /\ bills = [i \in Bills |->
                  [status |-> "NONE", total |-> 0, paid |-> 0, debited |-> 0, writtenOff |-> 0,
                   balance |-> 0, journal |-> "NONE", ledger |-> 0, ordered |-> FALSE,
                   asked |-> FALSE, prepaid |-> 0, drafted |-> 0, returned |-> 0]]
    /\ payments = [p \in Payments |-> NoPayment]
    /\ notes = [n \in Notes |-> NoNote]
    /\ order = [billed |-> 0, cancelled |-> FALSE]
    /\ ap = 0
    /\ advances = 0

-----------------------------------------------------------------------------
(* What a bill owes, and what a settlement makes of it.                    *)

Positive(x) == IF x > 0 THEN x ELSE 0

Exists(i) == bills[i].status # "NONE"

\* The order is a row from the first bill it is converted to, or its cancellation.
OrderUsed == order.cancelled \/ \E i \in Bills : bills[i].ordered

Room(k) == Cardinality({i \in Bills : Exists(i)}) + (IF OrderUsed THEN 1 ELSE 0)
           + Cardinality({p \in Payments : payments[p].status # "NONE"})
           + Cardinality({n \in Notes : notes[n].status # "NONE"}) + k <= MaxRows

\* What is left of the total, whatever balance_due and status say.
Owed(r) == Positive(r.total - r.paid - r.debited - r.writtenOff)

\* Variant: the balance is not held at zero.
SettledRaw(r, paid, debited, status) ==
    [r EXCEPT !.paid = paid, !.debited = debited, !.status = status,
              !.balance = r.total - paid - debited - r.writtenOff]

\* Variant: a write-off is forgotten by the next settlement.
SettledAfresh(r, paid, debited, status) ==
    [r EXCEPT !.paid = paid, !.debited = debited, !.status = status,
              !.balance = Positive(r.total - paid - debited)]

\* A payment, an advance or a note writes its amount, the balance and a status.
Settled(r, paid, debited, status) ==
    [r EXCEPT !.paid = paid, !.debited = debited, !.status = status,
              !.balance = Positive(r.total - paid - debited - r.writtenOff)]

SettledStatus(r, a) == IF Owed(r) <= a THEN "PAID" ELSE "PARTIALLY_PAID"

Paid(r, a) == Settled(r, r.paid + a, r.debited, SettledStatus(r, a))

\* ck_bills_amounts_nonnegative refuses a reversal that leaves less than nothing.
Restorable(r, paid, debited, writtenOff) ==
    paid >= 0 /\ debited >= 0 /\ writtenOff >= 0 /\ paid + debited + writtenOff <= r.total

\* Every reversal recomputes the status from the amounts.
Restored(r, paid, debited, writtenOff) ==
    [r EXCEPT !.paid = paid, !.debited = debited, !.writtenOff = writtenOff,
              !.balance = r.total - paid - debited - writtenOff,
              !.status = CASE paid + debited + writtenOff = r.total -> "PAID"
                           [] paid + debited + writtenOff # r.total /\ paid > 0 -> "PARTIALLY_PAID"
                           [] OTHER -> "POSTED"]

-----------------------------------------------------------------------------
(* Bills and the purchase order.                                           *)

\* Every status but these two is entered with a journal of the whole total.
Posted(status) == status \notin {"DRAFT", "SUBMITTED"}

NewBill(total, paid, status, ordered) ==
    [status |-> status, total |-> total, paid |-> paid, debited |-> 0, writtenOff |-> 0,
     balance |-> total - paid, journal |-> IF Posted(status) THEN "LIVE" ELSE "NONE",
     ledger |-> IF Posted(status) THEN total ELSE 0, ordered |-> ordered,
     asked |-> ordered /\ status = "SUBMITTED", prepaid |-> paid,
     drafted |-> IF ordered /\ status = "DRAFT" THEN total ELSE 0, returned |-> 0]

\* A required approval takes the place of the posting.
InitialStatus == {"POSTED"} \cup (IF Approvals THEN {"SUBMITTED"} ELSE {})

\* Variant: a bill that waits for approval is billed to the order at once.
BilledEarly(o, total, status) == [o EXCEPT !.billed = @ + total]

\* A submitted bill is billed to the order when it is posted, any other at once.
Billed(o, total, status) ==
    IF status = "SUBMITTED" THEN o ELSE [billed |-> o.billed + total, cancelled |-> FALSE]

\* A new bill: of the order, it takes no more than the order has left.
Enter(i, r) ==
    /\ ~Exists(i)
    /\ Room(IF r.ordered /\ ~OrderUsed THEN 2 ELSE 1)
    /\ r.ordered => r.total <= MaxAmount - order.billed
    /\ bills' = [bills EXCEPT ![i] = r]
    /\ order' = IF r.ordered THEN Billed(order, r.total, r.status) ELSE order
    /\ ap' = ap + r.ledger
    /\ UNCHANGED <<payments, notes, advances>>

\* createBill of the controller, which may post to another payable account than
\* 2000; a scanned document becomes a DRAFT, which no handler posts.
CreateBill(i, total, status, elsewhere) ==
    LET r == NewBill(total, 0, status, FALSE)
    IN  /\ status \in InitialStatus \cup {"DRAFT"}
        /\ Enter(i, IF elsewhere THEN [r EXCEPT !.ledger = 0] ELSE r)

\* convertPurchaseOrderToBill.
ConvertOrder(i, total, status) ==
    /\ status \in InitialStatus
    /\ ~order.cancelled
    /\ Enter(i, NewBill(total, 0, status, TRUE))

\* createAndPostBill from the template of a recurring profile, which is any JSON: the
\* amount paid, the status and the order are taken as they are.  An order is not
\* asked whether it was cancelled.
RecurringBill(i, total, paid, status, ordered) ==
    LET entered == CASE status = "POSTED" /\ paid = total -> "PAID"
                     [] status = "POSTED" /\ 0 < paid /\ paid < total -> "PARTIALLY_PAID"
                     [] OTHER -> status
    IN  /\ paid <= total
        /\ Enter(i, NewBill(total, paid, entered, ordered))

\* postApprovedBill: neither the rest of the order nor its status is asked again.
PostSubmittedBill(i) ==
    LET r == bills[i]
        status == CASE r.balance = 0 -> "PAID"
                    [] r.balance # 0 /\ r.paid > 0 -> "PARTIALLY_PAID"
                    [] OTHER -> "POSTED"
    IN  /\ r.status = "SUBMITTED"
        /\ bills' = [bills EXCEPT ![i].status = status, ![i].journal = "LIVE",
                                  ![i].ledger = r.total]
        /\ order' = IF r.ordered THEN Billed(order, r.total, status) ELSE order
        /\ ap' = ap + r.total
        /\ UNCHANGED <<payments, notes, advances>>

\* updateBill: in any status but VOIDED, to any total, without a journal and without
\* the order.
EditBill(i, total) ==
    LET r == bills[i]
    IN  /\ Exists(i)
        /\ r.status # "VOIDED"
        /\ bills' = [bills EXCEPT ![i].total = total,
                       ![i].balance = Positive(total - r.paid - r.debited - r.writtenOff)]
        /\ UNCHANGED <<payments, notes, order, ap, advances>>

\* voidBill: allocations of payments that wait for approval are not looked at.
VoidBill(i) ==
    LET r == bills[i]
        returned == IF r.ordered THEN r.total ELSE 0
    IN  /\ r.status # "VOIDED"
        /\ r.paid = 0 /\ r.debited = 0 /\ r.writtenOff = 0
        /\ r.journal = "LIVE"
        /\ returned <= order.billed
        /\ bills' = [bills EXCEPT ![i].status = "VOIDED", ![i].balance = 0,
                                  ![i].journal = "REVERSED", ![i].returned = returned]
        /\ order' = IF r.ordered THEN [billed |-> order.billed - returned, cancelled |-> FALSE]
                                 ELSE order
        /\ ap' = ap - r.ledger
        /\ UNCHANGED <<payments, notes, advances>>

\* updatePurchaseOrder with a status of CANCELLED, and cancelPurchaseOrder, which
\* asks for more; the amounts of an order never change.
CancelOrder ==
    /\ ~order.cancelled
    /\ OrderUsed \/ Room(1)
    /\ order' = [order EXCEPT !.cancelled = TRUE]
    /\ UNCHANGED <<bills, payments, notes, ap, advances>>

-----------------------------------------------------------------------------
(* Payments and advances.                                                  *)

Allocated(portion) ==
    [i \in Bills |-> IF portion[i] > 0 THEN Paid(bills[i], portion[i]) ELSE bills[i]]

Sent(status, amount, portion) ==
    LET advance == IF status = "SUBMITTED" THEN 0 ELSE Positive(amount - SumFunction(portion))
    IN  [status |-> status, amount |-> amount, allocated |-> portion, advance |-> advance,
         unapplied |-> advance, applied |-> Nothing, refunded |-> 0]

\* recordVendorPayment: each bill must owe its portion and show it in balance_due.
SendPayment(p, amount, portion) ==
    /\ payments[p].status = "NONE" /\ Room(1)
    /\ SumFunction(portion) <= amount
    /\ \A i \in Bills : portion[i] > 0 => /\ Exists(i)
                                          /\ portion[i] <= Owed(bills[i])
                                          /\ portion[i] <= bills[i].balance
    /\ bills' = Allocated(portion)
    /\ payments' = [payments EXCEPT ![p] = Sent("POSTED", amount, portion)]
    /\ ap' = ap - SumFunction(portion)
    /\ advances' = advances + amount - SumFunction(portion)
    /\ UNCHANGED <<notes, order>>

\* recordVendorPayment where approval is required: stored as it was sent.  Bound: one
\* allocation to a bill; of two, the posting would keep the later in amount_paid.
SubmitPayment(p, amount, portion) ==
    /\ Approvals
    /\ payments[p].status = "NONE" /\ Room(1)
    /\ \A i \in Bills : portion[i] > 0 => Exists(i)
    /\ payments' = [payments EXCEPT ![p] = Sent("SUBMITTED", amount, portion)]
    /\ UNCHANGED <<bills, notes, order, ap, advances>>

\* postApprovedVendorPayment: what the bills owe by now is not compared with the
\* allocations; only an unbalanced journal is refused.
PostSubmittedPayment(p) ==
    LET r == payments[p]
    IN  /\ r.status = "SUBMITTED"
        /\ SumFunction(r.allocated) <= r.amount
        /\ bills' = Allocated(r.allocated)
        /\ payments' = [payments EXCEPT ![p] = Sent("POSTED", r.amount, r.allocated)]
        /\ ap' = ap - SumFunction(r.allocated)
        /\ advances' = advances + r.amount - SumFunction(r.allocated)
        /\ UNCHANGED <<notes, order>>

\* Variant: a payment is reversed under an advance that was used.
AdvanceAny(r) == TRUE

\* An advance is taken back whole.
AdvanceWhole(r) == r.unapplied = r.advance

\* reverseVendorPayment.
ReversePayment(p) ==
    LET r == payments[p]
        paid(i) == bills[i].paid - r.allocated[i]
    IN  /\ r.status = "POSTED"
        /\ AdvanceWhole(r)
        /\ \A i \in Bills : r.allocated[i] > 0 =>
              /\ bills[i].status # "VOIDED"
              /\ Restorable(bills[i], paid(i), bills[i].debited, bills[i].writtenOff)
        /\ bills' = [i \in Bills |->
                       IF r.allocated[i] > 0
                       THEN Restored(bills[i], paid(i), bills[i].debited, bills[i].writtenOff)
                       ELSE bills[i]]
        /\ payments' = [payments EXCEPT ![p] = NoPayment]
        /\ ap' = ap + SumFunction(r.allocated)
        /\ advances' = advances - r.advance
        /\ UNCHANGED <<notes, order>>

\* recordVendorAdvance.
RecordAdvance(p, amount) ==
    /\ payments[p].status = "NONE" /\ Room(1)
    /\ payments' = [payments EXCEPT ![p] = Sent("ADVANCE", amount, Nothing)]
    /\ advances' = advances + amount
    /\ UNCHANGED <<bills, notes, order, ap>>

\* reverseVendorAdvance.
ReverseAdvance(p) ==
    /\ payments[p].status = "ADVANCE"
    /\ AdvanceWhole(payments[p])
    /\ payments' = [payments EXCEPT ![p] = NoPayment]
    /\ advances' = advances - payments[p].advance
    /\ UNCHANGED <<bills, notes, order, ap>>

\* applyVendorAdvance, to a bill of any status; bound: one live application of an
\* advance to a bill.
ApplyAdvance(p, i, a) ==
    /\ Exists(i)
    /\ payments[p].applied[i] = 0
    /\ a <= payments[p].unapplied
    /\ a <= Owed(bills[i])
    /\ bills' = [bills EXCEPT ![i] = Paid(@, a)]
    /\ payments' = [payments EXCEPT ![p].unapplied = @ - a, ![p].applied[i] = a]
    /\ ap' = ap - a
    /\ advances' = advances - a
    /\ UNCHANGED <<notes, order>>

\* reverseAdvanceApplication.
ReverseApplication(p, i) ==
    LET a == payments[p].applied[i]
        r == bills[i]
    IN  /\ a > 0
        /\ Restorable(r, r.paid - a, r.debited, r.writtenOff)
        /\ bills' = [bills EXCEPT ![i] = Restored(r, r.paid - a, r.debited, r.writtenOff)]
        /\ payments' = [payments EXCEPT ![p].unapplied = @ + a, ![p].applied[i] = 0]
        /\ ap' = ap + a
        /\ advances' = advances + a
        /\ UNCHANGED <<notes, order>>

\* recordVendorRefund of an advance; bound: one live refund of an advance.
RefundAdvance(p, a) ==
    /\ payments[p].refunded = 0
    /\ a <= payments[p].unapplied
    /\ payments' = [payments EXCEPT ![p].unapplied = @ - a, ![p].refunded = a]
    /\ advances' = advances - a
    /\ UNCHANGED <<bills, notes, order, ap>>

\* reverseVendorRefund of an advance.
ReverseAdvanceRefund(p) ==
    LET a == payments[p].refunded
    IN  /\ a > 0
        /\ payments[p].unapplied + a <= payments[p].advance
        /\ payments' = [payments EXCEPT ![p].unapplied = @ + a, ![p].refunded = 0]
        /\ advances' = advances + a
        /\ UNCHANGED <<bills, notes, order, ap>>

-----------------------------------------------------------------------------
(* Debit notes and write-offs.                                             *)

IssuedNote(total, applied) ==
    [status |-> "OPEN", total |-> total, remaining |-> total - SumFunction(applied),
     applied |-> applied, refunded |-> 0]

\* createDebitNote, on its own.
CreateNote(n, total) ==
    /\ notes[n].status = "NONE" /\ Room(1)
    /\ notes' = [notes EXCEPT ![n] = IssuedNote(total, Nothing)]
    /\ ap' = ap - total
    /\ UNCHANGED <<bills, payments, order, advances>>

\* createDebitNote for a bill, which takes what it owes; no handler applies the rest.
CreateAppliedNote(n, total, i) ==
    LET r == bills[i]
        a == IF total <= Owed(r) THEN total ELSE Owed(r)
    IN  /\ notes[n].status = "NONE" /\ Room(1)
        /\ Exists(i)
        /\ a > 0
        /\ notes' = [notes EXCEPT ![n] = IssuedNote(total, [Nothing EXCEPT ![i] = a])]
        /\ bills' = [bills EXCEPT ![i] =
                       Settled(r, r.paid, r.debited + a, SettledStatus(r, a))]
        /\ ap' = ap - total
        /\ UNCHANGED <<payments, order, advances>>

\* reverseVendorCredit does not ask whether the note was refunded.
ReverseNote(n) ==
    LET r == notes[n]
        debited(i) == bills[i].debited - r.applied[i]
        touched == {i \in Bills : r.applied[i] > 0}
    IN  /\ r.status = "OPEN"
        /\ \A i \in touched :
              Restorable(bills[i], bills[i].paid, debited(i), bills[i].writtenOff)
        /\ bills' = [i \in Bills |->
                       IF i \in touched
                       THEN Restored(bills[i], bills[i].paid, debited(i), bills[i].writtenOff)
                       ELSE bills[i]]
        /\ notes' = [notes EXCEPT ![n] =
                       IF r.refunded = 0 THEN NoNote
                       ELSE [NoNote EXCEPT !.status = "REVERSED", !.refunded = r.refunded]]
        /\ ap' = ap + r.total
        /\ UNCHANGED <<payments, order, advances>>

\* recordVendorRefund of a note; bound: one live refund of a note.
RefundNote(n, a) ==
    /\ notes[n].refunded = 0
    /\ a <= notes[n].remaining
    /\ notes' = [notes EXCEPT ![n].remaining = @ - a, ![n].refunded = a]
    /\ ap' = ap + a
    /\ UNCHANGED <<bills, payments, order, advances>>

\* reverseVendorRefund of a note, which must not be reversed.
ReverseNoteRefund(n) ==
    LET a == notes[n].refunded
    IN  /\ a > 0
        /\ notes[n].status # "REVERSED"
        /\ notes[n].remaining + a <= notes[n].total
        /\ notes' = [notes EXCEPT ![n].remaining = @ + a, ![n].refunded = 0]
        /\ ap' = ap - a
        /\ UNCHANGED <<bills, payments, order, advances>>

\* recordAPWriteOff; bound: one live write-off of a bill.
WriteOff(i, a) ==
    LET r == bills[i]
    IN  /\ Exists(i)
        /\ r.writtenOff = 0
        /\ a <= Owed(r)
        /\ bills' = [bills EXCEPT ![i].writtenOff = a, ![i].balance = Owed(r) - a,
                       ![i].status = IF Owed(r) = a THEN "WRITTEN_OFF" ELSE @]
        /\ ap' = ap - a
        /\ UNCHANGED <<payments, notes, order, advances>>

\* reversePayableWriteOff.
ReverseWriteOff(i) ==
    LET r == bills[i]
    IN  /\ r.writtenOff > 0
        /\ Restorable(r, r.paid, r.debited, 0)
        /\ bills' = [bills EXCEPT ![i] = Restored(r, r.paid, r.debited, 0)]
        /\ ap' = ap + r.writtenOff
        /\ UNCHANGED <<payments, notes, order, advances>>

-----------------------------------------------------------------------------
PayablesNext ==
    \/ \E i \in Bills :
          \/ \E total \in Amounts :
                \/ \E status \in BillStatus :
                      \/ \E elsewhere \in BOOLEAN : CreateBill(i, total, status, elsewhere)
                      \/ ConvertOrder(i, total, status)
                \/ \E status \in Templates, paid \in 0..MaxAmount, ordered \in BOOLEAN :
                      RecurringBill(i, total, paid, status, ordered)
                \/ EditBill(i, total) \/ WriteOff(i, total)
          \/ PostSubmittedBill(i) \/ VoidBill(i) \/ ReverseWriteOff(i)
    \/ CancelOrder
    \/ \E p \in Payments :
          \/ \E amount \in Amounts : RecordAdvance(p, amount) \/ RefundAdvance(p, amount)
          \/ \E amount \in Amounts, portion \in Portions :
                SendPayment(p, amount, portion) \/ SubmitPayment(p, amount, portion)
          \/ PostSubmittedPayment(p) \/ ReversePayment(p)
          \/ ReverseAdvance(p) \/ ReverseAdvanceRefund(p)
          \/ \E i \in Bills : \/ \E a \in Amounts : ApplyAdvance(p, i, a)
                              \/ ReverseApplication(p, i)
    \/ \E n \in Notes :
          \/ \E total \in Amounts : CreateNote(n, total) \/ RefundNote(n, total)
          \/ \E total \in Amounts, i \in Bills : CreateAppliedNote(n, total, i)
          \/ ReverseNote(n) \/ ReverseNoteRefund(n)

PayablesSpec == PayablesInit /\ [][PayablesNext]_payablesVars

-----------------------------------------------------------------------------
(* Properties.                                                             *)

\* What a payment that is posted, and its advance, have settled of a bill.
Settles(r, i) == r.applied[i] + (IF r.status = "POSTED" THEN r.allocated[i] ELSE 0)

\* No money is spent twice: the parts of an advance and of a note add up to it, the
\* advances asset is what advances have left, and a bill shows as paid and as debited
\* exactly what live payments, applications and notes gave it, overpaid or not, on top
\* of what the template of a recurring bill said was paid.
CreditSpentOnce ==
    /\ \A p \in Payments :
          LET r == payments[p]
          IN  r.status # "SUBMITTED"
                => r.advance = r.unapplied + SumFunction(r.applied) + r.refunded
    /\ \A n \in Notes :
          notes[n].status = "OPEN"
            => notes[n].total
                 = notes[n].remaining + SumFunction(notes[n].applied) + notes[n].refunded
    /\ advances = SumFunction([p \in Payments |-> payments[p].unapplied])
    /\ \A i \in Bills :
          /\ bills[i].debited = SumFunction([n \in Notes |-> notes[n].applied[i]])
          /\ bills[i].paid
               = bills[i].prepaid + SumFunction([p \in Payments |-> Settles(payments[p], i)])

\* What AccountingIntegrityService.verifyAPIntegrity counts of a bill, and what the
\* ledger holds for it.
Shown(r) == IF r.status \in {"NONE", "VOIDED", "DRAFT"} THEN 0 ELSE r.balance
Held(r) == (IF r.journal = "LIVE" THEN r.ledger ELSE 0)
             - (r.paid - r.prepaid) - r.debited - r.writtenOff

\* A bill that has no live posting and yet is settled or counted as open.
Unbacked(r) ==
    /\ r.journal # "LIVE"
    /\ \/ r.paid + r.debited + r.writtenOff > 0
       \/ r.status \notin {"NONE", "VOIDED", "DRAFT"}

\* A bill whose journal says something else: it was edited since, posted to another
\* payable account, or entered by a template as paid in part or as voided.
Misposted(r) == r.journal = "LIVE" /\ \/ r.ledger # r.total
                                      \/ r.prepaid > 0
                                      \/ r.status = "VOIDED"

\* A bill settled for more than its total, by an edit below its settlements or by an
\* approved payment that came late.
Overpaid(r) == r.paid + r.debited + r.writtenOff > r.total

\* The integrity report is off by exactly what the bills of these kinds are off,
\* less the refunds of debit notes that were reversed afterwards: every void, reversal
\* and settlement of any other bill keeps vendors' balances and the ledger together.
DriftExplained ==
    SumFunction([i \in Bills |-> Shown(bills[i])])
      - SumFunction([n \in Notes |-> notes[n].remaining]) - ap
      = SumFunctionOnSet([i \in Bills |-> Shown(bills[i]) - Held(bills[i])],
                         {i \in Bills : \/ Unbacked(bills[i])
                                        \/ Misposted(bills[i])
                                        \/ Overpaid(bills[i])})
        - SumFunctionOnSet([n \in Notes |-> notes[n].refunded],
                           {n \in Notes : notes[n].status = "REVERSED"})

\* An order is billed what its bills posted, less what their voids returned, and what
\* templates entered as drafts, which nothing returns; and for more than its total only
\* through a bill that waited for approval.
OrderExplained ==
    LET ordered == {i \in Bills : bills[i].ordered}
    IN  /\ order.billed
             = SumFunctionOnSet([i \in Bills |-> bills[i].ledger - bills[i].returned
                                                   + bills[i].drafted], ordered)
        /\ order.billed > MaxAmount
             => \E i \in ordered : bills[i].asked /\ bills[i].journal # "NONE"

=============================================================================

--------------------------- MODULE ReceivablesProofs ---------------------------
(***************************************************************************)
(* Proofs about Receivables for any finite sets of invoices, payments and  *)
(* credit notes and any amounts.  The invariant says of every row that its *)
(* parts add up, and of the tables together that the two accounts are what *)
(* the rows have in them.  Each handler writes one payment, one note or    *)
(* one invoice, and the invoices it settles: the three Moves say what such *)
(* a write must do for the sums to follow, and every action makes one.     *)
(***************************************************************************)
EXTENDS Receivables, SumTheorems, TLAPS

-----------------------------------------------------------------------------
(* Receivables: what every row looks like.                                 *)

\* A posted invoice is in none of the states before posting, and not voided.
InvoiceOK(r) ==
    /\ r \in Invoice
    /\ r.balance = Owed(r) \/ (r.status = "VOIDED" /\ r.balance = 0)
    /\ r.paid <= r.total
    /\ r.journal = "LIVE" => r.status \notin {"NONE", "DRAFT", "SUBMITTED", "VOIDED"}
    /\ r.status = "NONE" => r.total = 0 /\ r.paid = 0 /\ r.credited = 0 /\ r.writtenOff = 0

\* The parts of an advance add up to it; a payment that is not posted has none.
PaymentOK(r) ==
    /\ r \in Payment
    /\ r.advance = r.unapplied + SumFunction(r.applied) + r.refunded
    /\ r.status \in {"NONE", "SUBMITTED"} => r.advance = 0

\* The parts of a note add up to it, and its applications are remembered.
NoteOK(r) ==
    /\ r \in Note
    /\ r.total = r.remaining + SumFunction(r.applied) + r.refunded
    /\ r.status = "NONE" => r.total = 0
    /\ \A i \in Invoices : i \notin r.touched => r.applied[i] = 0

InvoicesOK == invoices \in [Invoices -> Invoice] /\ \A i \in Invoices : InvoiceOK(invoices[i])
PaymentsOK == payments \in [Payments -> Payment] /\ \A p \in Payments : PaymentOK(payments[p])
NotesOK == notes \in [Notes -> Note] /\ \A n \in Notes : NoteOK(notes[n])

\* What an invoice, a payment and a note have in accounts receivable.
Billed(r) == (IF r.journal = "LIVE" THEN r.ledger ELSE 0) - r.writtenOff
Taken(r) == SumFunction([i \in Invoices |-> Settles(r, i)])
Standing(r) == IF r.status = "OPEN" THEN r.total - r.refunded ELSE 0

LiabilityTies == advances = SumFunction([p \in Payments |-> payments[p].unapplied])
CreditTies(i) == invoices[i].credited = SumFunction([n \in Notes |-> notes[n].applied[i]])
PaidCovered(i) == invoices[i].paid <= SumFunction([p \in Payments |-> Settles(payments[p], i)])
ControlTies ==
    ar = SumFunction([i \in Invoices |-> Billed(invoices[i])])
         - SumFunction([p \in Payments |-> Taken(payments[p])])
         - SumFunction([n \in Notes |-> Standing(notes[n])])

BooksTie ==
    /\ LiabilityTies
    /\ ControlTies
    /\ \A i \in Invoices : CreditTies(i) /\ PaidCovered(i)

\* The invariant that every step keeps.
ReceivablesInv == InvoicesOK /\ PaymentsOK /\ NotesOK /\ BooksTie

-----------------------------------------------------------------------------
(* Receivables: one invoice.                                               *)

LEMMA ResettledOK ==
    ASSUME NEW r, InvoiceOK(r), NEW paid \in Nat, NEW credited \in Nat, NEW writtenOff \in Nat,
           NEW status \in InvoiceStatus \ {"NONE"}, paid <= r.total,
           r.journal = "LIVE" => status \notin {"DRAFT", "SUBMITTED", "VOIDED"}
    PROVE  /\ InvoiceOK(Resettled(r, paid, credited, writtenOff, status))
           /\ Resettled(r, paid, credited, writtenOff, status).paid = paid
           /\ Resettled(r, paid, credited, writtenOff, status).credited = credited
           /\ Billed(Resettled(r, paid, credited, writtenOff, status))
                = Billed(r) + r.writtenOff - writtenOff
  <1>1. r \in Invoice
    BY DEF InvoiceOK
  <1>2. r.total - paid - credited - writtenOff \in Int
    BY <1>1 DEF Invoice
  <1> QED
    BY <1>1, <1>2 DEF InvoiceOK, Resettled, Invoice, Owed, Positive, Billed

LEMMA PaidOK ==
    ASSUME NEW r, InvoiceOK(r), NEW a \in Nat, a <= Owed(r)
    PROVE  /\ InvoiceOK(Paid(r, a))
           /\ Paid(r, a).paid = r.paid + a
           /\ Paid(r, a).credited = r.credited
           /\ Billed(Paid(r, a)) = Billed(r)
  <1>1. r \in Invoice /\ r.paid <= r.total
    BY DEF InvoiceOK
  <1>2. r.paid + a \in Nat /\ r.paid + a <= r.total
    BY <1>1 DEF Invoice, Owed, Positive
  <1>3. {"PAID", "PARTIALLY_PAID"} \subseteq InvoiceStatus \ {"NONE"}
    BY DEF InvoiceStatus
  <1>4. Billed(r) + r.writtenOff - r.writtenOff = Billed(r)
    BY <1>1 DEF Billed, Invoice
  <1>5. r.credited \in Nat /\ r.writtenOff \in Nat
    BY <1>1 DEF Invoice
  <1> DEFINE status == IF Owed(r) = a THEN "PAID" ELSE "PARTIALLY_PAID"
  <1>6. status \in InvoiceStatus \ {"NONE"} /\ status \notin {"DRAFT", "SUBMITTED", "VOIDED"}
    BY <1>3
  <1>7. Paid(r, a) = Resettled(r, r.paid + a, r.credited, r.writtenOff, status)
    BY DEF Paid
  <1> HIDE DEF status
  <1> QED
    BY <1>1, <1>2, <1>4, <1>5, <1>6, <1>7, ResettledOK

LEMMA RestoredOK ==
    ASSUME NEW r, InvoiceOK(r), NEW paid \in Int, NEW credited \in Int, NEW writtenOff \in Int,
           Restorable(r, paid, credited, writtenOff)
    PROVE  /\ InvoiceOK(Restored(r, paid, credited, writtenOff))
           /\ Restored(r, paid, credited, writtenOff).paid = paid
           /\ Restored(r, paid, credited, writtenOff).credited = credited
           /\ Billed(Restored(r, paid, credited, writtenOff)) = Billed(r) + r.writtenOff - writtenOff
  <1>1. r \in Invoice
    BY DEF InvoiceOK
  <1>2. paid \in Nat /\ credited \in Nat /\ writtenOff \in Nat /\ paid <= r.total
    BY <1>1 DEF Restorable, Invoice
  <1>3. (CASE paid + credited + writtenOff = r.total -> "PAID"
           [] paid + credited + writtenOff # r.total /\ paid > 0 -> "PARTIALLY_PAID"
           [] OTHER -> "POSTED") \in {"PAID", "PARTIALLY_PAID", "POSTED"}
    OBVIOUS
  <1>4. {"PAID", "PARTIALLY_PAID", "POSTED"} \subseteq InvoiceStatus \ {"NONE"}
    BY DEF InvoiceStatus
  <1> QED
    BY <1>2, <1>3, <1>4, ResettledOK DEF Restored

LEMMA CreditedOK ==
    ASSUME NEW r, InvoiceOK(r), NEW a \in Nat
    PROVE  /\ InvoiceOK(Credited(r, a))
           /\ Credited(r, a).paid = r.paid
           /\ Credited(r, a).credited = r.credited + a
           /\ Billed(Credited(r, a)) = Billed(r)
  <1>1. r \in Invoice /\ r.paid <= r.total
    BY DEF InvoiceOK
  <1>2. r.credited + a \in Nat
    BY <1>1 DEF Invoice
  <1>3. {"PAID", "PARTLY"} \subseteq InvoiceStatus \ {"NONE"}
    BY DEF InvoiceStatus
  <1>4. Billed(r) + r.writtenOff - r.writtenOff = Billed(r)
    BY <1>1 DEF Billed, Invoice
  <1>5. r.paid \in Nat /\ r.writtenOff \in Nat
    BY <1>1 DEF Invoice
  <1> DEFINE status == IF Owed(r) = a THEN "PAID" ELSE "PARTLY"
  <1>6. status \in InvoiceStatus \ {"NONE"} /\ status \notin {"DRAFT", "SUBMITTED", "VOIDED"}
    BY <1>3
  <1>7. Credited(r, a) = Resettled(r, r.paid, r.credited + a, r.writtenOff, status)
    BY DEF Credited
  <1> HIDE DEF status
  <1> QED
    BY <1>1, <1>2, <1>4, <1>5, <1>6, <1>7, ResettledOK

LEMMA WrittenOffOK ==
    ASSUME NEW r, InvoiceOK(r), NEW a \in Nat, r.status # "NONE"
    PROVE  LET s == Resettled(r, r.paid, r.credited, a,
                              IF Owed(r) = a THEN "WRITTEN_OFF" ELSE r.status)
           IN  /\ InvoiceOK(s) /\ s.paid = r.paid /\ s.credited = r.credited
               /\ Billed(s) = Billed(r) + r.writtenOff - a
  <1>1. /\ r \in Invoice /\ r.paid <= r.total
        /\ r.paid \in Nat /\ r.credited \in Nat /\ r.status \in InvoiceStatus
    BY DEF InvoiceOK, Invoice
  <1> DEFINE status == IF Owed(r) = a THEN "WRITTEN_OFF" ELSE r.status
  <1>2. /\ status \in InvoiceStatus \ {"NONE"}
        /\ r.journal = "LIVE" => status \notin {"DRAFT", "SUBMITTED", "VOIDED"}
    BY <1>1 DEF InvoiceOK, InvoiceStatus
  <1>3. Resettled(r, r.paid, r.credited, a, status)
          = Resettled(r, r.paid, r.credited, a, IF Owed(r) = a THEN "WRITTEN_OFF" ELSE r.status)
    OBVIOUS
  <1> HIDE DEF status
  <1>4. LET s == Resettled(r, r.paid, r.credited, a, status)
        IN  /\ InvoiceOK(s) /\ s.paid = r.paid /\ s.credited = r.credited
            /\ Billed(s) = Billed(r) + r.writtenOff - a
    BY <1>1, <1>2, ResettledOK
  <1> QED
    BY <1>3, <1>4

-----------------------------------------------------------------------------
(* Receivables: one payment and one note.                                  *)

LEMMA SumsAreInt ==
    ASSUME ReceivablesAssumption, NEW f, DOMAIN f = Invoices, \A i \in Invoices : f[i] \in Nat
    PROVE  SumFunction(f) = SumFunctionOnSet(f, Invoices) /\ SumFunction(f) \in Nat
  BY SumNat DEF SumFunction, ReceivablesAssumption

LEMMA NothingSums ==
    ASSUME ReceivablesAssumption
    PROVE  Nothing \in [Invoices -> Nat] /\ SumFunction(Nothing) = 0
  <1>1. Nothing \in [Invoices -> Nat] /\ \A i \in Invoices : Nothing[i] = 0
    BY DEF Nothing
  <1>2. SumFunctionOnSet(Nothing, Invoices) = 0
    BY <1>1, SumZero DEF ReceivablesAssumption
  <1> QED
    BY <1>1, <1>2 DEF SumFunction

LEMMA SettlesNat ==
    ASSUME ReceivablesAssumption, NEW r \in Payment
    PROVE  /\ \A i \in Invoices : Settles(r, i) \in Nat
           /\ Taken(r) = SumFunctionOnSet([i \in Invoices |-> Settles(r, i)], Invoices)
           /\ Taken(r) \in Nat
  <1>1. \A i \in Invoices : Settles(r, i) \in Nat
    BY DEF Settles, Payment
  <1>2. DOMAIN [i \in Invoices |-> Settles(r, i)] = Invoices
    OBVIOUS
  <1> QED
    BY <1>1, <1>2, SumsAreInt DEF Taken

LEMMA TakenIs ==
    ASSUME NEW r, NEW f, DOMAIN f = Invoices, f = [i \in Invoices |-> f[i]],
           \A i \in Invoices : Settles(r, i) = f[i]
    PROVE  Taken(r) = SumFunction(f)
  <1>1. [i \in Invoices |-> Settles(r, i)] = f
    OBVIOUS
  <1> QED
    BY <1>1, Zenon DEF Taken

\* A row as recordPayment writes it.
LEMMA ReceivedOK ==
    ASSUME ReceivablesAssumption, NEW status \in {"SUBMITTED", "POSTED", "ADVANCE"}, NEW amount \in Nat,
           NEW portion \in [Invoices -> Nat],
           status # "SUBMITTED" => SumFunction(portion) <= amount,
           status = "ADVANCE" => portion = Nothing
    PROVE  /\ PaymentOK(Received(status, amount, portion))
           /\ \A i \in Invoices : Settles(Received(status, amount, portion), i)
                                     = IF status = "POSTED" THEN portion[i] ELSE 0
           /\ Taken(Received(status, amount, portion))
                = IF status = "POSTED" THEN SumFunction(portion) ELSE 0
           /\ Received(status, amount, portion).unapplied
                = IF status = "SUBMITTED" THEN 0 ELSE amount - SumFunction(portion)
  <1> DEFINE advance == IF status = "SUBMITTED" THEN 0 ELSE Positive(amount - SumFunction(portion))
             r == Received(status, amount, portion)
  <1>1. SumFunction(portion) \in Nat
    BY SumsAreInt
  <1>2. advance \in Nat /\ advance = IF status = "SUBMITTED" THEN 0 ELSE amount - SumFunction(portion)
    BY <1>1 DEF Positive
  <1> HIDE DEF advance
  <1>3. r = [status |-> status, amount |-> amount, allocated |-> portion, advance |-> advance,
             unapplied |-> advance, applied |-> Nothing, refunded |-> 0]
    BY DEF Received, advance
  <1> HIDE DEF r
  <1>4. Nothing \in [Invoices -> Nat] /\ SumFunction(Nothing) = 0
    BY NothingSums
  <1>5. r \in Payment /\ r.applied = Nothing /\ r.refunded = 0 /\ r.advance = advance
          /\ r.unapplied = advance /\ r.status = status /\ r.allocated = portion
    BY <1>2, <1>3, <1>4 DEF Payment
  <1>6. PaymentOK(r)
    <2>1. SumFunction(r.applied) = 0
      BY <1>4, <1>5
    <2> QED
      BY <1>2, <1>5, <2>1 DEF PaymentOK
  <1>7. \A i \in Invoices : Settles(r, i) = IF status = "POSTED" THEN portion[i] ELSE 0
    BY <1>5 DEF Settles, Nothing
  <1>8. Taken(r) = IF status = "POSTED" THEN SumFunction(portion) ELSE 0
    <2>1. CASE status = "POSTED"
      BY <1>7, <2>1, TakenIs
    <2>2. CASE status # "POSTED"
      <3>1. \A i \in Invoices : Settles(r, i) = Nothing[i]
        BY <1>7, <2>2 DEF Nothing
      <3> QED
        BY <1>4, <2>2, <3>1, TakenIs
    <2> QED
      BY <2>1, <2>2
  <1> QED
    BY <1>2, <1>5, <1>6, <1>7, <1>8 DEF r

LEMMA NoPaymentOK ==
    ASSUME ReceivablesAssumption
    PROVE  /\ PaymentOK(NoPayment)
           /\ \A i \in Invoices : Settles(NoPayment, i) = 0
           /\ Taken(NoPayment) = 0
           /\ NoPayment.unapplied = 0
  <1>1. Nothing \in [Invoices -> Nat] /\ SumFunction(Nothing) = 0
    BY NothingSums
  <1>2. NoPayment \in Payment /\ NoPayment.applied = Nothing /\ NoPayment.refunded = 0
          /\ NoPayment.advance = 0 /\ NoPayment.unapplied = 0
    BY <1>1 DEF Payment, NoPayment
  <1>3. \A i \in Invoices : Settles(NoPayment, i) = 0 /\ Nothing[i] = 0
    BY DEF NoPayment, Settles, Nothing
  <1>4. Taken(NoPayment) = 0
    BY <1>1, <1>3, TakenIs
  <1>5. SumFunction(NoPayment.applied) = 0
    BY <1>1, <1>2
  <1> QED
    BY <1>2, <1>3, <1>4, <1>5 DEF PaymentOK

\* Nothing of an advance that is whole has been applied or refunded.
LEMMA WholeAdvance ==
    ASSUME ReceivablesAssumption, NEW r, PaymentOK(r), r.unapplied = r.advance
    PROVE  /\ \A i \in Invoices : r.applied[i] = 0
           /\ \A i \in Invoices : Settles(r, i) = IF r.status = "POSTED" THEN r.allocated[i] ELSE 0
           /\ Taken(r) = IF r.status = "POSTED" THEN SumFunction(r.allocated) ELSE 0
  <1>1. /\ r \in Payment /\ r.applied \in [Invoices -> Nat] /\ r.allocated \in [Invoices -> Nat]
        /\ r.refunded \in Nat /\ r.unapplied \in Nat
    BY DEF PaymentOK, Payment
  <1>2. SumFunction(r.applied) \in Nat /\ SumFunction(r.applied) = SumFunctionOnSet(r.applied, Invoices)
    BY <1>1, SumsAreInt
  <1>3. SumFunctionOnSet(r.applied, Invoices) = 0
    BY <1>1, <1>2 DEF PaymentOK
  <1>4. \A i \in Invoices : r.applied[i] = 0
    BY <1>1, <1>3, SumNothing DEF ReceivablesAssumption
  <1>5. \A i \in Invoices : Settles(r, i) = IF r.status = "POSTED" THEN r.allocated[i] ELSE 0
    BY <1>1, <1>4 DEF Settles
  <1>6. CASE r.status = "POSTED"
    BY <1>1, <1>4, <1>5, <1>6, TakenIs
  <1>7. CASE r.status # "POSTED"
    <2>1. \A i \in Invoices : Settles(r, i) = Nothing[i]
      BY <1>5, <1>7 DEF Nothing
    <2>2. Nothing \in [Invoices -> Nat] /\ SumFunction(Nothing) = 0
      BY NothingSums
    <2> QED
      BY <1>4, <1>5, <1>7, <2>1, <2>2, TakenIs
  <1> QED
    BY <1>6, <1>7, <1>4, <1>5

\* The row after an application, a refund of an advance or of a note, or its reversal.
WithApplied(r, i, u, b) == [r EXCEPT !.unapplied = u, !.applied[i] = b]
WithRefund(r, u, b) == [r EXCEPT !.unapplied = u, !.refunded = b]
WithNoteRefund(r, u, b) == [r EXCEPT !.remaining = u, !.refunded = b]

\* What an application of an advance or its reversal makes of the payment.
LEMMA AppliedChange ==
    ASSUME ReceivablesAssumption, NEW r, PaymentOK(r), NEW i \in Invoices, NEW b \in Nat, NEW u \in Nat,
           u + b = r.unapplied + r.applied[i]
    PROVE  /\ PaymentOK(WithApplied(r, i, u, b))
           /\ WithApplied(r, i, u, b).unapplied = u
           /\ Taken(WithApplied(r, i, u, b)) = Taken(r) + b - r.applied[i]
           /\ \A j \in Invoices : Settles(WithApplied(r, i, u, b), j)
                                     = IF j = i THEN Settles(r, j) + b - r.applied[i] ELSE Settles(r, j)
  <1> DEFINE s == WithApplied(r, i, u, b)
  <1>1. /\ r \in Payment /\ r.applied \in [Invoices -> Nat] /\ r.allocated \in [Invoices -> Nat]
        /\ r.refunded \in Nat /\ r.unapplied \in Nat /\ r.advance \in Nat
    BY DEF PaymentOK, Payment
  <1>2. /\ s \in Payment /\ s.unapplied = u /\ s.applied = [r.applied EXCEPT ![i] = b]
        /\ s.refunded = r.refunded /\ s.advance = r.advance /\ s.status = r.status
        /\ s.allocated = r.allocated
    BY <1>1 DEF Payment, WithApplied
  <1> HIDE DEF s
  <1>3. /\ s.applied \in [Invoices -> Nat] /\ s.applied[i] = b
        /\ \A j \in Invoices \ {i} : s.applied[j] = r.applied[j]
    BY <1>1, <1>2
  <1>4. SumFunctionOnSet(s.applied, Invoices)
          = SumFunctionOnSet(r.applied, Invoices) + s.applied[i] - r.applied[i]
    BY <1>1, <1>3, SumChange DEF ReceivablesAssumption
  <1>5. /\ SumFunction(s.applied) = SumFunctionOnSet(s.applied, Invoices)
        /\ SumFunction(r.applied) = SumFunctionOnSet(r.applied, Invoices)
        /\ SumFunction(r.applied) \in Nat
    BY <1>1, <1>3, SumsAreInt
  <1>6. PaymentOK(s)
    BY <1>1, <1>2, <1>3, <1>4, <1>5 DEF PaymentOK
  <1>7. \A j \in Invoices : /\ Settles(s, j) = IF j = i THEN Settles(r, j) + b - r.applied[i]
                                               ELSE Settles(r, j)
                            /\ Settles(s, j) \in Nat /\ Settles(r, j) \in Nat
    BY <1>1, <1>2, <1>3 DEF Settles
  <1>8. Taken(s) = Taken(r) + b - r.applied[i]
    <2> DEFINE f == [j \in Invoices |-> Settles(r, j)]
               g == [j \in Invoices |-> Settles(s, j)]
    <2>1. /\ \A j \in Invoices : f[j] \in Int /\ g[j] \in Int
          /\ \A j \in Invoices \ {i} : f[j] = g[j]
          /\ g[i] = f[i] + b - r.applied[i]
      BY <1>7
    <2>2. Taken(r) = SumFunctionOnSet(f, Invoices) /\ Taken(s) = SumFunctionOnSet(g, Invoices)
            /\ Taken(r) \in Nat
      BY <1>1, <1>2, SettlesNat
    <2> HIDE DEF f, g
    <2>3. SumFunctionOnSet(g, Invoices) = SumFunctionOnSet(f, Invoices) + g[i] - f[i]
      BY <2>1, SumChange DEF ReceivablesAssumption
    <2> QED
      BY <1>1, <2>1, <2>2, <2>3
  <1> QED
    BY <1>2, <1>6, <1>7, <1>8 DEF s

\* What a refund of an advance or its reversal makes of the payment.
LEMMA RefundChange ==
    ASSUME ReceivablesAssumption, NEW r, PaymentOK(r), NEW b \in Nat, NEW u \in Nat,
           u + b = r.unapplied + r.refunded
    PROVE  /\ PaymentOK(WithRefund(r, u, b))
           /\ WithRefund(r, u, b).unapplied = u
           /\ Taken(WithRefund(r, u, b)) = Taken(r)
           /\ \A j \in Invoices : Settles(WithRefund(r, u, b), j) = Settles(r, j)
  <1> DEFINE s == WithRefund(r, u, b)
  <1>1. /\ r \in Payment /\ r.applied \in [Invoices -> Nat]
        /\ r.refunded \in Nat /\ r.unapplied \in Nat /\ r.advance \in Nat
    BY DEF PaymentOK, Payment
  <1>2. /\ s \in Payment /\ s.unapplied = u /\ s.applied = r.applied
        /\ s.refunded = b /\ s.advance = r.advance /\ s.status = r.status
        /\ s.allocated = r.allocated
    BY <1>1 DEF Payment, WithRefund
  <1> HIDE DEF s
  <1>3. SumFunction(s.applied) = SumFunction(r.applied) /\ SumFunction(r.applied) \in Nat
    BY <1>1, <1>2, SumsAreInt
  <1>4. PaymentOK(s)
    BY <1>1, <1>2, <1>3 DEF PaymentOK
  <1>5. \A j \in Invoices : Settles(s, j) = Settles(r, j)
    BY <1>2 DEF Settles
  <1>6. Taken(s) = Taken(r)
    BY <1>5 DEF Taken
  <1> QED
    BY <1>2, <1>4, <1>5, <1>6 DEF s

\* What an application makes of a note.
LEMMA AppliedNoteOK ==
    ASSUME ReceivablesAssumption, NEW r, NoteOK(r), NEW i \in Invoices, NEW a \in Nat,
           a <= r.remaining, r.status = "OPEN"
    PROVE  /\ NoteOK(AppliedNote(r, i, a))
           /\ \A j \in Invoices : AppliedNote(r, i, a).applied[j]
                                     = IF j = i THEN r.applied[j] + a ELSE r.applied[j]
           /\ Standing(AppliedNote(r, i, a)) = Standing(r)
  <1> DEFINE s == AppliedNote(r, i, a)
  <1>1. /\ r \in Note /\ r.applied \in [Invoices -> Nat] /\ r.touched \subseteq Invoices
        /\ r.refunded \in Nat /\ r.remaining \in Nat /\ r.total \in Nat
    BY DEF NoteOK, Note
  <1>2. /\ s \in Note /\ s.remaining = r.remaining - a /\ s.applied = [r.applied EXCEPT ![i] = @ + a]
        /\ s.refunded = r.refunded /\ s.total = r.total /\ s.status = "OPEN"
        /\ s.touched = r.touched \cup {i}
    BY <1>1 DEF Note, AppliedNote
  <1> HIDE DEF s
  <1>3. /\ s.applied \in [Invoices -> Nat] /\ s.applied[i] = r.applied[i] + a
        /\ \A j \in Invoices \ {i} : s.applied[j] = r.applied[j]
    BY <1>1, <1>2
  <1>4. SumFunctionOnSet(s.applied, Invoices)
          = SumFunctionOnSet(r.applied, Invoices) + s.applied[i] - r.applied[i]
    BY <1>1, <1>3, SumChange DEF ReceivablesAssumption
  <1>5. /\ SumFunction(s.applied) = SumFunctionOnSet(s.applied, Invoices)
        /\ SumFunction(r.applied) = SumFunctionOnSet(r.applied, Invoices)
        /\ SumFunction(r.applied) \in Nat
    BY <1>1, <1>3, SumsAreInt
  <1>6. NoteOK(s)
    BY <1>1, <1>2, <1>3, <1>4, <1>5 DEF NoteOK
  <1> QED
    BY <1>1, <1>2, <1>3, <1>6 DEF Standing, s

LEMMA IssuedNoteOK ==
    ASSUME ReceivablesAssumption, NEW total \in Nat
    PROVE  /\ NoteOK(IssuedNote(total)) /\ IssuedNote(total).status = "OPEN"
           /\ IssuedNote(total).remaining = total
           /\ \A i \in Invoices : IssuedNote(total).applied[i] = 0
           /\ Standing(IssuedNote(total)) = total
           /\ NoteOK(NoNote) /\ NoNote.status = "NONE"
           /\ \A i \in Invoices : NoNote.applied[i] = 0
           /\ Standing(NoNote) = 0
  <1>1. Nothing \in [Invoices -> Nat] /\ SumFunction(Nothing) = 0 /\ \A i \in Invoices : Nothing[i] = 0
    BY NothingSums DEF Nothing
  <1>2. IssuedNote(total) \in Note /\ NoNote \in Note
    BY <1>1 DEF Note, IssuedNote, NoNote
  <1> QED
    BY <1>1, <1>2 DEF NoteOK, IssuedNote, NoNote, Standing

\* What a refund of a note or its reversal makes of the note.
LEMMA NoteRefundChange ==
    ASSUME ReceivablesAssumption, NEW r, NoteOK(r), NEW b \in Nat, NEW u \in Nat,
           u + b = r.remaining + r.refunded
    PROVE  /\ NoteOK(WithNoteRefund(r, u, b))
           /\ WithNoteRefund(r, u, b).applied = r.applied
           /\ r.status = "OPEN" => Standing(WithNoteRefund(r, u, b)) = Standing(r) + r.refunded - b
  <1> DEFINE s == WithNoteRefund(r, u, b)
  <1>1. /\ r \in Note /\ r.applied \in [Invoices -> Nat] /\ r.touched \subseteq Invoices
        /\ r.refunded \in Nat /\ r.remaining \in Nat /\ r.total \in Nat
    BY DEF NoteOK, Note
  <1>2. /\ s \in Note /\ s.remaining = u /\ s.applied = r.applied
        /\ s.refunded = b /\ s.total = r.total /\ s.status = r.status
        /\ s.touched = r.touched
    BY <1>1 DEF Note, WithNoteRefund
  <1> HIDE DEF s
  <1>3. SumFunction(s.applied) = SumFunction(r.applied) /\ SumFunction(r.applied) \in Nat
    BY <1>1, <1>2, SumsAreInt
  <1>4. NoteOK(s)
    BY <1>1, <1>2, <1>3 DEF NoteOK
  <1>5. r.status = "OPEN" => Standing(s) = Standing(r) + r.refunded - b
    BY <1>1, <1>2 DEF Standing
  <1> QED
    BY <1>2, <1>4, <1>5 DEF s

-----------------------------------------------------------------------------
(* Receivables: a step that writes one row and what goes with it.          *)

\* The terms of the control account are integers.
LEMMA TermsInt ==
    ASSUME ReceivablesAssumption, ReceivablesInv
    PROVE  /\ SumFunction([i \in Invoices |-> Billed(invoices[i])]) \in Int
           /\ SumFunction([p \in Payments |-> Taken(payments[p])]) \in Int
           /\ SumFunction([n \in Notes |-> Standing(notes[n])]) \in Int
  <1> DEFINE bills == [i \in Invoices |-> Billed(invoices[i])]
             takes == [p \in Payments |-> Taken(payments[p])]
             stands == [n \in Notes |-> Standing(notes[n])]
  <1>1. \A i \in Invoices : bills[i] \in Int
    BY DEF Billed, ReceivablesInv, InvoicesOK, Invoice
  <1>2. \A p \in Payments : takes[p] \in Int
    <2>1. \A p \in Payments : payments[p] \in Payment
      BY DEF ReceivablesInv, PaymentsOK
    <2>2. \A p \in Payments : Taken(payments[p]) \in Nat
      BY <2>1, SettlesNat
    <2> QED
      BY <2>2
  <1>3. \A n \in Notes : stands[n] \in Int
    BY DEF Standing, ReceivablesInv, NotesOK, Note
  <1>4. DOMAIN bills = Invoices /\ DOMAIN stands = Notes /\ DOMAIN takes = Payments
    OBVIOUS
  <1> HIDE DEF bills, takes, stands
  <1>5. SumFunction(bills) \in Int /\ SumFunction(takes) \in Int /\ SumFunction(stands) \in Int
    BY <1>1, <1>2, <1>3, <1>4, RowsInt DEF ReceivablesAssumption
  <1> QED
    BY <1>5 DEF bills, takes, stands

\* Payment p becomes r, which settles no less of an invoice than is written there.
PaymentMove(p, r) ==
    /\ PaymentOK(r)
    /\ payments' = [payments EXCEPT ![p] = r]
    /\ InvoicesOK'
    /\ \A i \in Invoices :
          /\ Billed(invoices'[i]) = Billed(invoices[i])
          /\ invoices'[i].credited = invoices[i].credited
          /\ invoices'[i].paid + Settles(payments[p], i) <= invoices[i].paid + Settles(r, i)
    /\ ar' = ar + Taken(payments[p]) - Taken(r)
    /\ advances' = advances - payments[p].unapplied + r.unapplied
    /\ UNCHANGED notes

LEMMA PaymentMoveOK ==
    ASSUME ReceivablesAssumption, ReceivablesInv, NEW p \in Payments, NEW r, PaymentMove(p, r)
    PROVE  ReceivablesInv'
  <1>0. /\ payments \in [Payments -> Payment] /\ r \in Payment /\ PaymentOK(r) /\ InvoicesOK'
        /\ IsFiniteSet(Payments) /\ IsFiniteSet(Invoices) /\ IsFiniteSet(Notes)
        /\ notes' = notes
    BY DEF ReceivablesInv, PaymentsOK, PaymentMove, PaymentOK, ReceivablesAssumption
  <1>1. /\ payments' \in [Payments -> Payment] /\ payments'[p] = r
        /\ \A q \in Payments \ {p} : payments'[q] = payments[q]
    BY <1>0 DEF PaymentMove
  <1>2. PaymentsOK'
    BY <1>0, <1>1 DEF ReceivablesInv, PaymentsOK, PaymentOK
  <1>3. NotesOK'
    BY <1>0 DEF ReceivablesInv, NotesOK, NoteOK
  <1>4. LiabilityTies'
    <2> DEFINE f == [q \in Payments |-> payments[q].unapplied]
               g == [q \in Payments |-> payments'[q].unapplied]
    <2>1. /\ \A q \in Payments : f[q] \in Int /\ g[q] \in Int
          /\ \A q \in Payments \ {p} : f[q] = g[q]
          /\ g[p] = r.unapplied /\ f[p] = payments[p].unapplied
          /\ DOMAIN f = Payments /\ DOMAIN g = Payments
      BY <1>0, <1>1 DEF Payment
    <2>2. advances = SumFunction(f)
      BY DEF ReceivablesInv, BooksTie, LiabilityTies
    <2> HIDE DEF f, g
    <2>3. SumFunction(g) = SumFunction(f) + g[p] - f[p] /\ SumFunction(f) \in Int
      BY <1>0, <2>1, RowChange
    <2>4. advances' = advances - payments[p].unapplied + r.unapplied
      BY DEF PaymentMove
    <2>5. advances' = SumFunction(g)
      BY <2>1, <2>2, <2>3, <2>4
    <2> QED
      BY <2>5 DEF LiabilityTies, g
  <1>5. ASSUME NEW i \in Invoices
        PROVE  CreditTies(i)' /\ PaidCovered(i)'
    <2>1. CreditTies(i)'
      BY <1>0 DEF ReceivablesInv, BooksTie, CreditTies, PaymentMove
    <2> DEFINE f == [q \in Payments |-> Settles(payments[q], i)]
               g == [q \in Payments |-> Settles(payments'[q], i)]
    <2>2. \A q \in Payments : f[q] \in Nat /\ g[q] \in Nat
      BY <1>0, <1>1, SettlesNat
    <2>3. /\ \A q \in Payments \ {p} : f[q] = g[q]
          /\ g[p] = Settles(r, i) /\ f[p] = Settles(payments[p], i)
          /\ DOMAIN f = Payments /\ DOMAIN g = Payments
      BY <1>1
    <2>4. invoices[i].paid <= SumFunction(f)
      BY DEF ReceivablesInv, BooksTie, PaidCovered
    <2> HIDE DEF f, g
    <2>5. SumFunction(g) = SumFunction(f) + g[p] - f[p] /\ SumFunction(f) \in Int
      BY <1>0, <2>2, <2>3, RowChange
    <2>6. invoices[i].paid \in Nat /\ invoices'[i].paid \in Nat
      BY DEF PaymentMove, ReceivablesInv, InvoicesOK, Invoice
    <2>7. invoices'[i].paid + f[p] <= invoices[i].paid + g[p]
      BY <2>3 DEF PaymentMove
    <2>8. invoices'[i].paid <= SumFunction(g)
      BY <2>2, <2>4, <2>5, <2>6, <2>7
    <2> QED
      BY <2>1, <2>8 DEF PaidCovered, g
  <1>6. ControlTies'
    <2> DEFINE f == [q \in Payments |-> Taken(payments[q])]
               g == [q \in Payments |-> Taken(payments'[q])]
               bills == [i \in Invoices |-> Billed(invoices[i])]
               bills1 == [i \in Invoices |-> Billed(invoices'[i])]
               stands == [n \in Notes |-> Standing(notes[n])]
    <2>1. \A q \in Payments : f[q] \in Nat /\ g[q] \in Nat
      BY <1>0, <1>1, SettlesNat
    <2>2. /\ \A q \in Payments \ {p} : f[q] = g[q]
          /\ g[p] = Taken(r) /\ f[p] = Taken(payments[p])
          /\ DOMAIN f = Payments /\ DOMAIN g = Payments
      BY <1>1
    <2>3. bills1 = bills
      BY DEF PaymentMove
    <2>4. SumFunction(bills) \in Int /\ SumFunction(stands) \in Int
      BY TermsInt
    <2>5. ar = SumFunction(bills) - SumFunction(f) - SumFunction(stands)
      BY DEF ReceivablesInv, BooksTie, ControlTies
    <2> HIDE DEF f, g, bills, bills1
    <2>6. SumFunction(g) = SumFunction(f) + g[p] - f[p] /\ SumFunction(f) \in Int
      BY <1>0, <2>1, <2>2, RowChange
    <2>7. ar' = ar + Taken(payments[p]) - Taken(r)
      BY DEF PaymentMove
    <2>8. ar' = SumFunction(bills) - SumFunction(g) - SumFunction(stands)
      <3> HIDE DEF stands
      <3> QED
        BY <2>1, <2>2, <2>4, <2>5, <2>6, <2>7
    <2>9. ar' = SumFunction(bills1) - SumFunction(g) - SumFunction(stands)
      BY <2>3, <2>8
    <2> QED
      BY <1>0, <2>9 DEF ControlTies, bills1, g
  <1> QED
    BY <1>0, <1>2, <1>3, <1>4, <1>5, <1>6 DEF ReceivablesInv, BooksTie

\* Note n becomes r.
NoteMove(n, r) ==
    /\ NoteOK(r)
    /\ notes' = [notes EXCEPT ![n] = r]
    /\ InvoicesOK'
    /\ \A i \in Invoices :
          /\ Billed(invoices'[i]) = Billed(invoices[i])
          /\ invoices'[i].paid = invoices[i].paid
          /\ invoices'[i].credited = invoices[i].credited + r.applied[i] - notes[n].applied[i]
    /\ ar' = ar + Standing(notes[n]) - Standing(r)
    /\ UNCHANGED <<payments, advances>>

LEMMA NoteMoveOK ==
    ASSUME ReceivablesAssumption, ReceivablesInv, NEW n \in Notes, NEW r, NoteMove(n, r)
    PROVE  ReceivablesInv'
  <1>0. /\ notes \in [Notes -> Note] /\ r \in Note /\ NoteOK(r) /\ InvoicesOK'
        /\ IsFiniteSet(Payments) /\ IsFiniteSet(Invoices) /\ IsFiniteSet(Notes)
        /\ payments' = payments /\ advances' = advances
    BY DEF ReceivablesInv, NotesOK, NoteMove, NoteOK, ReceivablesAssumption
  <1>1. /\ notes' \in [Notes -> Note] /\ notes'[n] = r
        /\ \A m \in Notes \ {n} : notes'[m] = notes[m]
    BY <1>0 DEF NoteMove
  <1>2. NotesOK'
    BY <1>0, <1>1 DEF ReceivablesInv, NotesOK, NoteOK
  <1>3. PaymentsOK'
    BY <1>0 DEF ReceivablesInv, PaymentsOK, PaymentOK
  <1>4. LiabilityTies'
    BY <1>0 DEF ReceivablesInv, BooksTie, LiabilityTies
  <1>5. ASSUME NEW i \in Invoices
        PROVE  CreditTies(i)' /\ PaidCovered(i)'
    <2>1. PaidCovered(i)'
      BY <1>0 DEF ReceivablesInv, BooksTie, PaidCovered, NoteMove
    <2> DEFINE f == [m \in Notes |-> notes[m].applied[i]]
               g == [m \in Notes |-> notes'[m].applied[i]]
    <2>2. \A m \in Notes : f[m] \in Nat /\ g[m] \in Nat
      BY <1>0, <1>1 DEF Note
    <2>3. /\ \A m \in Notes \ {n} : f[m] = g[m]
          /\ g[n] = r.applied[i] /\ f[n] = notes[n].applied[i]
          /\ DOMAIN f = Notes /\ DOMAIN g = Notes
      BY <1>1
    <2>4. invoices[i].credited = SumFunction(f)
      BY DEF ReceivablesInv, BooksTie, CreditTies
    <2> HIDE DEF f, g
    <2>5. SumFunction(g) = SumFunction(f) + g[n] - f[n] /\ SumFunction(f) \in Int
      BY <1>0, <2>2, <2>3, RowChange
    <2>6. invoices'[i].credited = invoices[i].credited + g[n] - f[n]
      BY <2>3 DEF NoteMove
    <2>7. invoices'[i].credited = SumFunction(g)
      BY <2>4, <2>5, <2>6
    <2> QED
      BY <2>1, <2>7 DEF CreditTies, g
  <1>6. ControlTies'
    <2> DEFINE f == [m \in Notes |-> Standing(notes[m])]
               g == [m \in Notes |-> Standing(notes'[m])]
               bills == [i \in Invoices |-> Billed(invoices[i])]
               bills1 == [i \in Invoices |-> Billed(invoices'[i])]
               takes == [p \in Payments |-> Taken(payments[p])]
    <2>1. \A m \in Notes : f[m] \in Int /\ g[m] \in Int
      BY <1>0, <1>1 DEF Standing, Note
    <2>2. /\ \A m \in Notes \ {n} : f[m] = g[m]
          /\ g[n] = Standing(r) /\ f[n] = Standing(notes[n])
          /\ DOMAIN f = Notes /\ DOMAIN g = Notes
      BY <1>1
    <2>3. bills1 = bills
      BY DEF NoteMove
    <2>4. SumFunction(bills) \in Int /\ SumFunction(takes) \in Int
      BY TermsInt
    <2>5. ar = SumFunction(bills) - SumFunction(takes) - SumFunction(f)
      BY DEF ReceivablesInv, BooksTie, ControlTies
    <2> HIDE DEF f, g, bills, bills1
    <2>6. SumFunction(g) = SumFunction(f) + g[n] - f[n] /\ SumFunction(f) \in Int
      BY <1>0, <2>1, <2>2, RowChange
    <2>7. ar' = ar + Standing(notes[n]) - Standing(r)
      BY DEF NoteMove
    <2>8. ar' = SumFunction(bills) - SumFunction(takes) - SumFunction(g)
      <3> HIDE DEF takes
      <3> QED
        BY <2>1, <2>2, <2>4, <2>5, <2>6, <2>7
    <2>9. ar' = SumFunction(bills1) - SumFunction(takes) - SumFunction(g)
      BY <2>3, <2>8
    <2> QED
      BY <1>0, <2>9 DEF ControlTies, bills1, g
  <1> QED
    BY <1>0, <1>2, <1>3, <1>4, <1>5, <1>6 DEF ReceivablesInv, BooksTie

\* Invoice i becomes r: no settlement is touched.
InvoiceMove(i, r) ==
    /\ InvoiceOK(r)
    /\ invoices' = [invoices EXCEPT ![i] = r]
    /\ r.paid = invoices[i].paid
    /\ r.credited = invoices[i].credited
    /\ ar' = ar + Billed(r) - Billed(invoices[i])
    /\ UNCHANGED <<payments, notes, advances>>

LEMMA InvoiceMoveOK ==
    ASSUME ReceivablesAssumption, ReceivablesInv, NEW i \in Invoices, NEW r, InvoiceMove(i, r)
    PROVE  ReceivablesInv'
  <1>0. /\ invoices \in [Invoices -> Invoice] /\ r \in Invoice /\ InvoiceOK(r)
        /\ IsFiniteSet(Payments) /\ IsFiniteSet(Invoices) /\ IsFiniteSet(Notes)
        /\ payments' = payments /\ advances' = advances /\ notes' = notes
    BY DEF ReceivablesInv, InvoicesOK, InvoiceMove, InvoiceOK, ReceivablesAssumption
  <1>1. /\ invoices' \in [Invoices -> Invoice] /\ invoices'[i] = r
        /\ \A j \in Invoices \ {i} : invoices'[j] = invoices[j]
    BY <1>0 DEF InvoiceMove
  <1>2. InvoicesOK'
    BY <1>0, <1>1 DEF ReceivablesInv, InvoicesOK, InvoiceOK, Owed
  <1>3. PaymentsOK' /\ NotesOK'
    BY <1>0 DEF ReceivablesInv, PaymentsOK, PaymentOK, NotesOK, NoteOK
  <1>4. LiabilityTies'
    BY <1>0 DEF ReceivablesInv, BooksTie, LiabilityTies
  <1>5. ASSUME NEW j \in Invoices
        PROVE  CreditTies(j)' /\ PaidCovered(j)'
    <2>1. invoices'[j].paid = invoices[j].paid /\ invoices'[j].credited = invoices[j].credited
      BY <1>1 DEF InvoiceMove
    <2> QED
      BY <1>0, <2>1 DEF ReceivablesInv, BooksTie, PaidCovered, CreditTies
  <1>6. ControlTies'
    <2> DEFINE f == [j \in Invoices |-> Billed(invoices[j])]
               g == [j \in Invoices |-> Billed(invoices'[j])]
               takes == [p \in Payments |-> Taken(payments[p])]
               stands == [n \in Notes |-> Standing(notes[n])]
    <2>1. \A j \in Invoices : f[j] \in Int /\ g[j] \in Int
      BY <1>0, <1>1 DEF Billed, Invoice
    <2>2. /\ \A j \in Invoices \ {i} : f[j] = g[j]
          /\ g[i] = Billed(r) /\ f[i] = Billed(invoices[i])
          /\ DOMAIN f = Invoices /\ DOMAIN g = Invoices
      BY <1>1
    <2>3. SumFunction(stands) \in Int /\ SumFunction(takes) \in Int
      BY TermsInt
    <2>4. ar = SumFunction(f) - SumFunction(takes) - SumFunction(stands)
      BY DEF ReceivablesInv, BooksTie, ControlTies
    <2> HIDE DEF f, g
    <2>5. SumFunction(g) = SumFunction(f) + g[i] - f[i] /\ SumFunction(f) \in Int
      BY <1>0, <2>1, <2>2, RowChange
    <2>6. ar' = ar + Billed(r) - Billed(invoices[i])
      BY DEF InvoiceMove
    <2>7. ar' = SumFunction(g) - SumFunction(takes) - SumFunction(stands)
      <3> HIDE DEF takes, stands
      <3> QED
        BY <2>1, <2>2, <2>3, <2>4, <2>5, <2>6
    <2> QED
      BY <1>0, <2>7 DEF ControlTies, g
  <1> QED
    BY <1>0, <1>2, <1>3, <1>4, <1>5, <1>6 DEF ReceivablesInv, BooksTie

LEMMA AccountsInt ==
    ASSUME ReceivablesAssumption, ReceivablesInv
    PROVE  ar \in Int /\ advances \in Int
  <1> DEFINE f == [p \in Payments |-> payments[p].unapplied]
  <1>1. DOMAIN f = Payments /\ \A p \in Payments : f[p] \in Int
    BY DEF ReceivablesInv, PaymentsOK, Payment
  <1>2. advances = SumFunction(f)
    BY DEF ReceivablesInv, BooksTie, LiabilityTies
  <1> HIDE DEF f
  <1>3. advances \in Int
    BY <1>1, <1>2, RowsInt DEF ReceivablesAssumption
  <1>4. ar = SumFunction([i \in Invoices |-> Billed(invoices[i])])
             - SumFunction([p \in Payments |-> Taken(payments[p])])
             - SumFunction([n \in Notes |-> Standing(notes[n])])
    BY DEF ReceivablesInv, BooksTie, ControlTies
  <1>5. ar \in Int
    BY <1>4, TermsInt
  <1> QED
    BY <1>3, <1>5

\* What the invariant says of single rows.
LEMMA Rows ==
    ASSUME ReceivablesInv
    PROVE  /\ DOMAIN invoices = Invoices
           /\ \A i \in Invoices : InvoiceOK(invoices[i]) /\ invoices[i] \in Invoice
           /\ DOMAIN payments = Payments
           /\ \A p \in Payments : PaymentOK(payments[p]) /\ payments[p] \in Payment
           /\ DOMAIN notes = Notes
           /\ \A n \in Notes : NoteOK(notes[n]) /\ notes[n] \in Note
  BY DEF ReceivablesInv, InvoicesOK, PaymentsOK, NotesOK

LEMMA InvoicesKept ==
    ASSUME ReceivablesInv, UNCHANGED invoices
    PROVE  InvoicesOK'
  BY DEF ReceivablesInv, InvoicesOK, InvoiceOK

LEMMA InvoicesAre ==
    ASSUME NEW docs, DOMAIN docs = Invoices, docs = [i \in Invoices |-> docs[i]],
           \A i \in Invoices : InvoiceOK(docs[i]), invoices' = docs
    PROVE  InvoicesOK'
  <1>1. \A i \in Invoices : docs[i] \in Invoice
    BY DEF InvoiceOK
  <1>2. docs \in [Invoices -> Invoice]
    BY <1>1
  <1> QED
    BY <1>2 DEF InvoicesOK, InvoiceOK

LEMMA OneInvoice ==
    ASSUME ReceivablesInv, NEW i \in Invoices, NEW r, InvoiceOK(r), invoices' = [invoices EXCEPT ![i] = r]
    PROVE  /\ InvoicesOK'
           /\ invoices'[i] = r
           /\ \A j \in Invoices : j # i => invoices'[j] = invoices[j]
  <1>1. invoices'[i] = r /\ \A j \in Invoices : j # i => invoices'[j] = invoices[j]
    BY Rows
  <1>2. DOMAIN invoices' = Invoices /\ \A j \in Invoices : InvoiceOK(invoices'[j])
    BY <1>1, Rows
  <1> QED
    BY <1>1, <1>2, InvoicesAre

-----------------------------------------------------------------------------
(* Receivables: the actions on an invoice.                                 *)

LEMMA CreateInvoiceStep ==
    ASSUME ReceivablesAssumption, ReceivablesInv, NEW i \in Invoices, NEW total \in Amounts,
           NEW status \in InvoiceStatus, CreateInvoice(i, total, status)
    PROVE  ReceivablesInv'
  <1> DEFINE new == [status |-> status, total |-> total, paid |-> 0, credited |-> 0,
                     writtenOff |-> 0, balance |-> total,
                     journal |-> IF status = "POSTED" THEN "LIVE" ELSE "NONE",
                     ledger |-> IF status = "POSTED" THEN total ELSE 0]
  <1>1. total \in Nat /\ ar \in Int
    BY AccountsInt DEF Amounts
  <1>2. status \in {"DRAFT", "SUBMITTED", "POSTED"}
    BY DEF CreateInvoice
  <1>3. new \in Invoice
    BY <1>1 DEF Invoice
  <1>4. InvoiceOK(new)
    BY <1>1, <1>2, <1>3 DEF InvoiceOK, Owed, Positive
  <1>5. Billed(new) = IF status = "POSTED" THEN total ELSE 0
    BY <1>1 DEF Billed
  <1>6. InvoiceOK(invoices[i]) /\ invoices[i] \in Invoice /\ invoices[i].status = "NONE"
    BY Rows DEF CreateInvoice, Exists
  <1>7. Billed(invoices[i]) = 0 /\ invoices[i].paid = 0 /\ invoices[i].credited = 0
    BY <1>6 DEF InvoiceOK, Billed
  <1>8. /\ invoices' = [invoices EXCEPT ![i] = new] /\ new.paid = 0 /\ new.credited = 0
        /\ ar' = IF status = "POSTED" THEN ar + total ELSE ar
        /\ UNCHANGED <<payments, notes, advances>>
    BY DEF CreateInvoice
  <1> HIDE DEF new
  <1>9. ar' = ar + Billed(new) - Billed(invoices[i])
    BY <1>1, <1>5, <1>7, <1>8
  <1>10. InvoiceMove(i, new)
    BY <1>4, <1>7, <1>8, <1>9 DEF InvoiceMove
  <1> QED
    BY <1>10, InvoiceMoveOK

LEMMA EditInvoiceStep ==
    ASSUME ReceivablesAssumption, ReceivablesInv, NEW i \in Invoices, NEW total \in Amounts,
           EditInvoice(i, total)
    PROVE  ReceivablesInv'
  <1> DEFINE r == invoices[i]
             reposted == PostedState(r) /\ r.journal # "NONE"
             new == [status |-> EditedStatus(r, total), total |-> total, paid |-> r.paid,
                     credited |-> r.credited, writtenOff |-> r.writtenOff,
                     balance |-> Positive(total - r.paid - r.credited - r.writtenOff),
                     journal |-> r.journal,
                     ledger |-> IF reposted THEN total ELSE r.ledger]
  <1>1. total \in Nat /\ ar \in Int /\ InvoiceOK(r) /\ r \in Invoice
    BY AccountsInt, Rows DEF Amounts
  <1>2. r.status # "NONE" /\ r.status # "VOIDED" /\ r.paid <= total /\ (reposted => r.journal = "LIVE")
    BY <1>1 DEF EditInvoice, Exists, Amounts, Invoice
  <1>3. EditedStatus(r, total) \in {r.status, "PAID", "PARTIALLY_PAID"}
    BY DEF EditedStatus
  <1>4. EditedStatus(r, total) \in InvoiceStatus
    BY <1>1, <1>3 DEF InvoiceStatus, Invoice
  <1>5. new \in Invoice
    BY <1>1, <1>4 DEF Invoice, Positive
  <1>6. InvoiceOK(new)
    BY <1>1, <1>2, <1>3, <1>5 DEF InvoiceOK, Owed
  <1>7. Billed(new) - Billed(r) = IF reposted THEN total - r.ledger ELSE 0
    BY <1>1, <1>2 DEF Billed, Invoice
  <1>8. r.ledger \in Nat /\ Billed(new) \in Int /\ Billed(r) \in Int
    BY <1>1, <1>5 DEF Billed, Invoice
  <1>9. /\ invoices' = [invoices EXCEPT ![i] = new] /\ new.paid = r.paid /\ new.credited = r.credited
        /\ ar' = IF reposted THEN ar + total - r.ledger ELSE ar
        /\ UNCHANGED <<payments, notes, advances>>
    BY DEF EditInvoice, Unposted
  <1> HIDE DEF new, reposted
  <1>10. ar' = ar + Billed(new) - Billed(r)
    BY <1>1, <1>7, <1>8, <1>9
  <1>11. InvoiceMove(i, new)
    BY <1>6, <1>9, <1>10 DEF InvoiceMove
  <1> QED
    BY <1>11, InvoiceMoveOK

LEMMA PostInvoiceStep ==
    ASSUME ReceivablesAssumption, ReceivablesInv, NEW i \in Invoices, PostInvoice(i)
    PROVE  ReceivablesInv'
  <1> DEFINE r == invoices[i]
             new == [status |-> "POSTED", total |-> r.total, paid |-> r.paid,
                     credited |-> r.credited, writtenOff |-> r.writtenOff,
                     balance |-> r.balance, journal |-> "LIVE", ledger |-> r.total]
  <1>1. ar \in Int /\ InvoiceOK(r) /\ r \in Invoice /\ r.status \in {"DRAFT", "SUBMITTED"}
    BY AccountsInt, Rows DEF PostInvoice
  <1>2. new \in Invoice
    BY <1>1 DEF Invoice, InvoiceStatus
  <1>3. InvoiceOK(new)
    BY <1>1, <1>2 DEF InvoiceOK, Owed
  <1>4. Billed(new) = r.total - r.writtenOff /\ Billed(r) = 0 - r.writtenOff
    BY <1>1 DEF Billed, InvoiceOK
  <1>5. r.total \in Nat /\ r.writtenOff \in Nat
    BY <1>1 DEF Invoice
  <1>6. /\ invoices' = [invoices EXCEPT ![i] = new] /\ new.paid = r.paid /\ new.credited = r.credited
        /\ ar' = ar + r.total
        /\ UNCHANGED <<payments, notes, advances>>
    BY DEF PostInvoice
  <1> HIDE DEF new
  <1>7. ar' = ar + Billed(new) - Billed(r)
    BY <1>1, <1>4, <1>5, <1>6
  <1>8. InvoiceMove(i, new)
    BY <1>3, <1>6, <1>7 DEF InvoiceMove
  <1> QED
    BY <1>8, InvoiceMoveOK

LEMMA VoidInvoiceStep ==
    ASSUME ReceivablesAssumption, ReceivablesInv, NEW i \in Invoices, VoidInvoice(i)
    PROVE  ReceivablesInv'
  <1> DEFINE r == invoices[i]
             new == [status |-> "VOIDED", total |-> r.total, paid |-> r.paid,
                     credited |-> r.credited, writtenOff |-> r.writtenOff, balance |-> 0,
                     journal |-> "REVERSED", ledger |-> r.ledger]
  <1>1. /\ ar \in Int /\ InvoiceOK(r) /\ r \in Invoice /\ r.journal = "LIVE"
        /\ r.writtenOff = 0
    BY AccountsInt, Rows DEF VoidInvoice, Unsettled
  <1>2. new \in Invoice
    BY <1>1 DEF Invoice, InvoiceStatus
  <1>3. InvoiceOK(new)
    BY <1>1, <1>2 DEF InvoiceOK
  <1>4. Billed(new) = 0 /\ Billed(r) = r.ledger /\ r.ledger \in Nat
    BY <1>1 DEF Billed, Invoice
  <1>5. /\ invoices' = [invoices EXCEPT ![i] = new] /\ new.paid = r.paid /\ new.credited = r.credited
        /\ ar' = ar - r.ledger
        /\ UNCHANGED <<payments, notes, advances>>
    BY DEF VoidInvoice, Unposted
  <1> HIDE DEF new
  <1>6. ar' = ar + Billed(new) - Billed(r)
    BY <1>1, <1>4, <1>5
  <1>7. InvoiceMove(i, new)
    BY <1>3, <1>5, <1>6 DEF InvoiceMove
  <1> QED
    BY <1>7, InvoiceMoveOK

LEMMA WriteOffStep ==
    ASSUME ReceivablesAssumption, ReceivablesInv, NEW i \in Invoices,
           (\E a \in Amounts : WriteOff(i, a)) \/ ReverseWriteOff(i)
    PROVE  ReceivablesInv'
  <1> DEFINE r == invoices[i]
  <1>1. /\ ar \in Int /\ InvoiceOK(r) /\ r \in Invoice
        /\ Billed(r) \in Int /\ r.writtenOff \in Nat /\ r.paid \in Nat /\ r.credited \in Nat
    BY AccountsInt, Rows DEF Billed, Invoice
  <1>2. ASSUME NEW a \in Amounts, WriteOff(i, a)
        PROVE  ReceivablesInv'
    <2> DEFINE new == Resettled(r, r.paid, r.credited, a,
                                IF Owed(r) = a THEN "WRITTEN_OFF" ELSE r.status)
    <2>1. a \in Nat /\ r.status # "NONE"
      BY <1>2 DEF Amounts, WriteOff, Exists
    <2>2. r.writtenOff = 0
      BY <1>2 DEF WriteOff
    <2>3. /\ invoices' = [invoices EXCEPT ![i] = new] /\ ar' = ar - a
          /\ UNCHANGED <<payments, notes, advances>>
      BY <1>2 DEF WriteOff
    <2>4. InvoiceOK(new) /\ new.paid = r.paid /\ new.credited = r.credited
            /\ Billed(new) = Billed(r) + r.writtenOff - a
      BY <1>1, <2>1, WrittenOffOK
    <2> HIDE DEF new
    <2>5. ar' = ar + Billed(new) - Billed(r)
      BY <1>1, <2>1, <2>2, <2>3, <2>4
    <2>6. InvoiceMove(i, new)
      BY <2>3, <2>4, <2>5 DEF InvoiceMove
    <2> QED
      BY <2>6, InvoiceMoveOK
  <1>3. ASSUME ReverseWriteOff(i)
        PROVE  ReceivablesInv'
    <2> DEFINE new == Restored(r, r.paid, r.credited, 0)
    <2>1. r.paid \in Int /\ r.credited \in Int /\ 0 \in Int /\ Restorable(r, r.paid, r.credited, 0)
      BY <1>1, <1>3 DEF ReverseWriteOff
    <2>2. InvoiceOK(new) /\ new.paid = r.paid /\ new.credited = r.credited
            /\ Billed(new) = Billed(r) + r.writtenOff - 0
      BY <1>1, <2>1, RestoredOK
    <2>3. invoices' = [invoices EXCEPT ![i] = new] /\ ar' = ar + r.writtenOff
            /\ UNCHANGED <<payments, notes, advances>>
      BY <1>3 DEF ReverseWriteOff
    <2> HIDE DEF new
    <2>4. ar' = ar + Billed(new) - Billed(r)
      BY <1>1, <2>2, <2>3
    <2>5. InvoiceMove(i, new)
      BY <2>2, <2>3, <2>4 DEF InvoiceMove
    <2> QED
      BY <2>5, InvoiceMoveOK
  <1> QED
    BY <1>2, <1>3

-----------------------------------------------------------------------------
(* Receivables: the actions on a payment.                                  *)

\* A payment that is not posted has settled nothing and has no advance.
LEMMA IdlePayment ==
    ASSUME ReceivablesAssumption, NEW r, PaymentOK(r), r.status \in {"NONE", "SUBMITTED"}
    PROVE  r.unapplied = 0 /\ Taken(r) = 0 /\ \A i \in Invoices : Settles(r, i) = 0
  <1>1. r.unapplied \in Nat /\ r.refunded \in Nat /\ r.applied \in [Invoices -> Nat]
    BY DEF PaymentOK, Payment
  <1>2. SumFunction(r.applied) \in Nat
    BY <1>1, SumsAreInt
  <1>3. r.unapplied = 0 /\ r.unapplied = r.advance
    BY <1>1, <1>2 DEF PaymentOK
  <1> QED
    BY <1>3, WholeAdvance

LEMMA AllocatedOK ==
    ASSUME NEW docs, DOMAIN docs = Invoices, \A i \in Invoices : InvoiceOK(docs[i]),
           NEW portion \in [Invoices -> Nat], Allocatable(docs, portion)
    PROVE  \A i \in Invoices :
             /\ InvoiceOK(Allocated(docs, portion)[i])
             /\ Billed(Allocated(docs, portion)[i]) = Billed(docs[i])
             /\ Allocated(docs, portion)[i].credited = docs[i].credited
             /\ Allocated(docs, portion)[i].paid = docs[i].paid + portion[i]
  <1> SUFFICES ASSUME NEW i \in Invoices
               PROVE  /\ InvoiceOK(Allocated(docs, portion)[i])
                      /\ Billed(Allocated(docs, portion)[i]) = Billed(docs[i])
                      /\ Allocated(docs, portion)[i].credited = docs[i].credited
                      /\ Allocated(docs, portion)[i].paid = docs[i].paid + portion[i]
    OBVIOUS
  <1>1. CASE portion[i] > 0
    <2>1. /\ Allocated(docs, portion)[i] = Paid(docs[i], portion[i])
          /\ portion[i] \in Nat /\ portion[i] <= Owed(docs[i])
      BY <1>1 DEF Allocated, Allocatable
    <2> QED
      BY <2>1, PaidOK
  <1>2. CASE ~(portion[i] > 0)
    <2>1. Allocated(docs, portion)[i] = docs[i] /\ portion[i] = 0 /\ docs[i].paid \in Nat
      BY <1>2 DEF Allocated, InvoiceOK, Invoice
    <2> QED
      BY <2>1
  <1> QED
    BY <1>1, <1>2

LEMMA ReleasedOK ==
    ASSUME ReceivablesInv, NEW p \in Payments, PaymentReversible(p)
    PROVE  LET docs == Released(payments[p].allocated)
           IN  /\ DOMAIN docs = Invoices
               /\ docs = [i \in Invoices |-> docs[i]]
               /\ \A i \in Invoices : /\ InvoiceOK(docs[i])
                                      /\ Billed(docs[i]) = Billed(invoices[i])
                                      /\ docs[i].credited = invoices[i].credited
                                      /\ docs[i].paid = invoices[i].paid - payments[p].allocated[i]
  <1> DEFINE portion == payments[p].allocated
             docs == Released(portion)
  <1>1. portion \in [Invoices -> Nat]
    BY Rows DEF Payment
  <1>2. ASSUME NEW i \in Invoices
        PROVE  /\ InvoiceOK(docs[i])
               /\ Billed(docs[i]) = Billed(invoices[i])
               /\ docs[i].credited = invoices[i].credited
               /\ docs[i].paid = invoices[i].paid - portion[i]
    <2>1. InvoiceOK(invoices[i]) /\ invoices[i] \in Invoice
      BY Rows
    <2>2. CASE portion[i] > 0
      <3>1. docs[i] = Restored(invoices[i], invoices[i].paid - portion[i], invoices[i].credited,
                               invoices[i].writtenOff)
        BY <2>2 DEF Released
      <3>2. Restorable(invoices[i], invoices[i].paid - portion[i], invoices[i].credited,
                       invoices[i].writtenOff)
        BY <2>2 DEF PaymentReversible
      <3>3. /\ invoices[i].paid - portion[i] \in Int
            /\ invoices[i].credited \in Int
            /\ invoices[i].writtenOff \in Int
            /\ Billed(invoices[i]) + invoices[i].writtenOff - invoices[i].writtenOff = Billed(invoices[i])
        BY <1>1, <2>1 DEF Invoice, Billed
      <3> QED
        BY <2>1, <3>1, <3>2, <3>3, RestoredOK
    <2>3. CASE ~(portion[i] > 0)
      <3>1. docs[i] = invoices[i] /\ portion[i] = 0 /\ invoices[i].paid \in Nat
        BY <1>1, <2>1, <2>3 DEF Released, Invoice
      <3> QED
        BY <2>1, <3>1
    <2> QED
      BY <2>2, <2>3
  <1>3. DOMAIN docs = Invoices /\ docs = [i \in Invoices |-> docs[i]]
    BY DEF Released
  <1> QED
    BY <1>2, <1>3

LEMMA ReversibleRow ==
    ASSUME ReceivablesAssumption, ReceivablesInv, NEW p \in Payments, PaymentReversible(p)
    PROVE  /\ payments[p].unapplied = payments[p].advance
           /\ Taken(payments[p]) = SumFunction(payments[p].allocated)
           /\ \A i \in Invoices : Settles(payments[p], i) = payments[p].allocated[i]
  <1>1. PaymentOK(payments[p]) /\ payments[p].unapplied = payments[p].advance
          /\ payments[p].status = "POSTED"
    BY Rows DEF PaymentReversible
  <1> QED
    BY <1>1, WholeAdvance

LEMMA PortionTypes ==
    ASSUME ReceivablesAssumption, NEW portion \in Portions
    PROVE  portion \in [Invoices -> Nat] /\ SumFunction(portion) \in Nat
  <1>1. portion \in [Invoices -> Nat]
    BY DEF Portions, ReceivablesAssumption
  <1> QED
    BY <1>1, SumsAreInt

LEMMA ReceivePaymentStep ==
    ASSUME ReceivablesAssumption, ReceivablesInv, NEW p \in Payments, NEW amount \in Amounts,
           NEW portion \in Portions, ReceivePayment(p, amount, portion)
    PROVE  ReceivablesInv'
  <1> DEFINE r == Received("POSTED", amount, portion)
             docs == Allocated(invoices, portion)
  <1>1. /\ amount \in Nat /\ ar \in Int /\ advances \in Int
        /\ portion \in [Invoices -> Nat] /\ SumFunction(portion) \in Nat
    BY AccountsInt, PortionTypes DEF Amounts
  <1>2. /\ payments[p].status = "NONE" /\ SumFunction(portion) <= amount
        /\ Allocatable(invoices, portion)
        /\ invoices' = docs
        /\ payments' = [payments EXCEPT ![p] = r]
        /\ ar' = ar - SumFunction(portion)
        /\ advances' = advances + amount - SumFunction(portion)
        /\ UNCHANGED notes
    BY DEF ReceivePayment
  <1>3. /\ PaymentOK(r) /\ Taken(r) = SumFunction(portion) /\ r.unapplied = amount - SumFunction(portion)
        /\ \A i \in Invoices : Settles(r, i) = portion[i]
    BY <1>1, <1>2, ReceivedOK
  <1>4. /\ payments[p].unapplied = 0 /\ Taken(payments[p]) = 0
        /\ \A i \in Invoices : Settles(payments[p], i) = 0
    BY <1>2, IdlePayment, Rows
  <1>5. \A i \in Invoices : /\ InvoiceOK(docs[i])
                            /\ Billed(docs[i]) = Billed(invoices[i])
                            /\ docs[i].credited = invoices[i].credited
                            /\ docs[i].paid = invoices[i].paid + portion[i]
                            /\ invoices[i].paid \in Nat
    BY <1>1, <1>2, Rows, AllocatedOK DEF Invoice
  <1>6. DOMAIN docs = Invoices /\ docs = [i \in Invoices |-> docs[i]]
    BY DEF Allocated
  <1> HIDE DEF r, docs
  <1>7. InvoicesOK'
    BY <1>2, <1>5, <1>6, InvoicesAre
  <1>8. PaymentMove(p, r)
    BY <1>1, <1>2, <1>3, <1>4, <1>5, <1>7 DEF PaymentMove
  <1> QED
    BY <1>8, PaymentMoveOK

LEMMA SubmitPaymentStep ==
    ASSUME ReceivablesAssumption, ReceivablesInv, NEW p \in Payments, NEW amount \in Amounts,
           NEW portion \in Portions, SubmitPayment(p, amount, portion)
    PROVE  ReceivablesInv'
  <1> DEFINE r == Received("SUBMITTED", amount, portion)
  <1>1. amount \in Nat /\ ar \in Int /\ advances \in Int /\ portion \in [Invoices -> Nat]
    BY AccountsInt, PortionTypes DEF Amounts
  <1>2. /\ payments[p].status = "NONE"
        /\ payments' = [payments EXCEPT ![p] = r]
        /\ UNCHANGED <<invoices, notes, ar, advances>>
    BY DEF SubmitPayment
  <1>3. /\ PaymentOK(r) /\ Taken(r) = 0 /\ r.unapplied = 0
        /\ \A i \in Invoices : Settles(r, i) = 0
    BY <1>1, ReceivedOK
  <1>4. /\ payments[p].unapplied = 0 /\ Taken(payments[p]) = 0
        /\ \A i \in Invoices : Settles(payments[p], i) = 0
    BY <1>2, IdlePayment, Rows
  <1>5. InvoicesOK' /\ \A i \in Invoices : invoices[i].paid \in Nat
    BY <1>2, Rows, InvoicesKept DEF Invoice
  <1> HIDE DEF r
  <1>6. PaymentMove(p, r)
    BY <1>1, <1>2, <1>3, <1>4, <1>5 DEF PaymentMove
  <1> QED
    BY <1>6, PaymentMoveOK

LEMMA PostSubmittedStep ==
    ASSUME ReceivablesAssumption, ReceivablesInv, NEW p \in Payments, PostSubmittedPayment(p)
    PROVE  ReceivablesInv'
  <1> DEFINE portion == payments[p].allocated
             amount == payments[p].amount
             r == Received("POSTED", amount, portion)
             docs == [i \in Invoices |->
                        IF portion[i] > 0 /\ portion[i] <= invoices[i].balance
                        THEN Paid(invoices[i], portion[i]) ELSE invoices[i]]
  <1>1. amount \in Nat /\ ar \in Int /\ advances \in Int /\ portion \in [Invoices -> Nat]
    BY AccountsInt, Rows DEF Payment
  <1>2. /\ payments[p].status = "SUBMITTED" /\ SumFunction(portion) <= amount
        /\ \A i \in Invoices : portion[i] <= Owed(invoices[i])
        /\ invoices' = docs
        /\ payments' = [payments EXCEPT ![p] = r]
        /\ ar' = ar - SumFunction(portion)
        /\ advances' = advances + amount - SumFunction(portion)
        /\ UNCHANGED notes
    BY DEF PostSubmittedPayment
  <1> HIDE DEF portion, amount
  <1>3. /\ PaymentOK(r) /\ Taken(r) = SumFunction(portion) /\ r.unapplied = amount - SumFunction(portion)
        /\ \A i \in Invoices : Settles(r, i) = portion[i]
        /\ SumFunction(portion) \in Nat
    BY <1>1, <1>2, ReceivedOK, SumsAreInt
  <1>4. /\ payments[p].unapplied = 0 /\ Taken(payments[p]) = 0
        /\ \A i \in Invoices : Settles(payments[p], i) = 0
    BY <1>2, IdlePayment, Rows
  <1>5. ASSUME NEW i \in Invoices
        PROVE  /\ InvoiceOK(docs[i])
               /\ Billed(docs[i]) = Billed(invoices[i])
               /\ docs[i].credited = invoices[i].credited
               /\ docs[i].paid <= invoices[i].paid + portion[i]
               /\ invoices[i].paid \in Nat /\ docs[i].paid \in Nat
    <2>1. InvoiceOK(invoices[i]) /\ invoices[i].paid \in Nat /\ portion[i] \in Nat
            /\ portion[i] <= Owed(invoices[i])
      BY <1>1, <1>2, Rows DEF Invoice
    <2>2. docs[i] \in {Paid(invoices[i], portion[i]), invoices[i]}
      OBVIOUS
    <2> HIDE DEF docs
    <2>3. CASE docs[i] = Paid(invoices[i], portion[i])
      BY <2>1, <2>3, PaidOK
    <2>4. CASE docs[i] = invoices[i]
      BY <2>1, <2>4
    <2> QED
      BY <2>2, <2>3, <2>4
  <1>6. DOMAIN docs = Invoices /\ docs = [i \in Invoices |-> docs[i]]
    OBVIOUS
  <1> HIDE DEF r, docs
  <1>7. InvoicesOK'
    BY <1>2, <1>5, <1>6, InvoicesAre
  <1>8. PaymentMove(p, r)
    BY <1>1, <1>2, <1>3, <1>4, <1>5, <1>7 DEF PaymentMove
  <1> QED
    BY <1>8, PaymentMoveOK

LEMMA ReversePaymentStep ==
    ASSUME ReceivablesAssumption, ReceivablesInv, NEW p \in Payments, ReversePayment(p)
    PROVE  ReceivablesInv'
  <1> DEFINE portion == payments[p].allocated
             docs == Released(portion)
  <1>1. ar \in Int /\ advances \in Int /\ portion \in [Invoices -> Nat] /\ SumFunction(portion) \in Nat
    BY AccountsInt, Rows, SumsAreInt DEF Payment
  <1>2. /\ PaymentReversible(p)
        /\ invoices' = docs
        /\ payments' = [payments EXCEPT ![p] = NoPayment]
        /\ ar' = ar + SumFunction(portion)
        /\ advances' = advances - payments[p].advance
        /\ UNCHANGED notes
    BY DEF ReversePayment, Reversed
  <1>3. /\ payments[p].unapplied = payments[p].advance
        /\ Taken(payments[p]) = SumFunction(portion)
        /\ \A i \in Invoices : Settles(payments[p], i) = portion[i]
        /\ payments[p].advance \in Nat
    BY <1>2, ReversibleRow, Rows DEF Payment
  <1>4. /\ DOMAIN docs = Invoices
        /\ docs = [i \in Invoices |-> docs[i]]
        /\ \A i \in Invoices : /\ InvoiceOK(docs[i])
                               /\ Billed(docs[i]) = Billed(invoices[i])
                               /\ docs[i].credited = invoices[i].credited
                               /\ docs[i].paid = invoices[i].paid - portion[i]
                               /\ invoices[i].paid \in Nat
    BY <1>2, ReleasedOK, Rows DEF Invoice
  <1> HIDE DEF portion, docs
  <1>5. InvoicesOK'
    BY <1>2, <1>4, InvoicesAre
  <1>6. PaymentMove(p, NoPayment)
    BY <1>1, <1>2, <1>3, <1>4, <1>5, NoPaymentOK DEF PaymentMove
  <1> QED
    BY <1>6, PaymentMoveOK

LEMMA CorrectPaymentStep ==
    ASSUME ReceivablesAssumption, ReceivablesInv, NEW p \in Payments, NEW amount \in Amounts,
           NEW portion \in Portions, CorrectPayment(p, amount, portion)
    PROVE  ReceivablesInv'
  <1> DEFINE before == payments[p].allocated
             released == Released(before)
             docs == Allocated(released, portion)
             r == Received("POSTED", amount, portion)
  <1>1. /\ amount \in Nat /\ ar \in Int /\ advances \in Int
        /\ portion \in [Invoices -> Nat] /\ SumFunction(portion) \in Nat
    BY AccountsInt, PortionTypes DEF Amounts
  <1>2. before \in [Invoices -> Nat] /\ SumFunction(before) \in Nat
    BY Rows, SumsAreInt DEF Payment
  <1>3. /\ PaymentReversible(p) /\ SumFunction(portion) <= amount
        /\ Allocatable(released, portion)
        /\ invoices' = docs
        /\ payments' = [payments EXCEPT ![p] = r]
        /\ ar' = ar + SumFunction(before) - SumFunction(portion)
        /\ advances' = advances - payments[p].advance + amount - SumFunction(portion)
        /\ UNCHANGED notes
    BY DEF CorrectPayment
  <1>4. /\ PaymentOK(r) /\ Taken(r) = SumFunction(portion) /\ r.unapplied = amount - SumFunction(portion)
        /\ \A i \in Invoices : Settles(r, i) = portion[i]
    BY <1>1, <1>3, ReceivedOK
  <1>5. /\ payments[p].unapplied = payments[p].advance
        /\ Taken(payments[p]) = SumFunction(before)
        /\ \A i \in Invoices : Settles(payments[p], i) = before[i]
        /\ payments[p].advance \in Nat
    BY <1>3, ReversibleRow, Rows DEF Payment
  <1>6. /\ DOMAIN released = Invoices
        /\ \A i \in Invoices : /\ InvoiceOK(released[i])
                               /\ Billed(released[i]) = Billed(invoices[i])
                               /\ released[i].credited = invoices[i].credited
                               /\ released[i].paid = invoices[i].paid - before[i]
                               /\ invoices[i].paid \in Nat
    BY <1>3, ReleasedOK, Rows DEF Invoice
  <1>7. DOMAIN docs = Invoices /\ docs = [i \in Invoices |-> docs[i]]
    BY DEF Allocated
  <1> HIDE DEF before, released, r
  <1>8. \A i \in Invoices : /\ InvoiceOK(docs[i])
                            /\ Billed(docs[i]) = Billed(released[i])
                            /\ docs[i].credited = released[i].credited
                            /\ docs[i].paid = released[i].paid + portion[i]
    BY <1>1, <1>3, <1>6, AllocatedOK
  <1> HIDE DEF docs
  <1>9. InvoicesOK'
    BY <1>3, <1>7, <1>8, InvoicesAre
  <1>10. /\ ar' = ar + Taken(payments[p]) - Taken(r)
         /\ advances' = advances - payments[p].unapplied + r.unapplied
    BY <1>1, <1>2, <1>3, <1>4, <1>5
  <1>11. \A i \in Invoices : /\ Billed(invoices'[i]) = Billed(invoices[i])
                             /\ invoices'[i].credited = invoices[i].credited
                             /\ invoices'[i].paid + Settles(payments[p], i)
                                  <= invoices[i].paid + Settles(r, i)
    BY <1>1, <1>2, <1>3, <1>4, <1>5, <1>6, <1>8
  <1>12. PaymentMove(p, r)
    BY <1>3, <1>4, <1>9, <1>10, <1>11 DEF PaymentMove
  <1> QED
    BY <1>12, PaymentMoveOK

LEMMA CorrectSubmittedStep ==
    ASSUME ReceivablesAssumption, ReceivablesInv, NEW p \in Payments, NEW amount \in Amounts,
           NEW portion \in Portions, CorrectSubmitted(p, amount, portion)
    PROVE  ReceivablesInv'
  <1> DEFINE before == payments[p].allocated
             docs == Released(before)
             r == Received("SUBMITTED", amount, portion)
  <1>1. amount \in Nat /\ ar \in Int /\ advances \in Int /\ portion \in [Invoices -> Nat]
    BY AccountsInt, PortionTypes DEF Amounts
  <1>2. before \in [Invoices -> Nat] /\ SumFunction(before) \in Nat
    BY Rows, SumsAreInt DEF Payment
  <1>3. /\ PaymentReversible(p)
        /\ invoices' = docs
        /\ payments' = [payments EXCEPT ![p] = r]
        /\ ar' = ar + SumFunction(before)
        /\ advances' = advances - payments[p].advance
        /\ UNCHANGED notes
    BY DEF CorrectSubmitted
  <1>4. /\ PaymentOK(r) /\ Taken(r) = 0 /\ r.unapplied = 0
        /\ \A i \in Invoices : Settles(r, i) = 0
    BY <1>1, ReceivedOK
  <1>5. /\ payments[p].unapplied = payments[p].advance
        /\ Taken(payments[p]) = SumFunction(before)
        /\ \A i \in Invoices : Settles(payments[p], i) = before[i]
        /\ payments[p].advance \in Nat
    BY <1>3, ReversibleRow, Rows DEF Payment
  <1>6. /\ DOMAIN docs = Invoices
        /\ docs = [i \in Invoices |-> docs[i]]
        /\ \A i \in Invoices : /\ InvoiceOK(docs[i])
                               /\ Billed(docs[i]) = Billed(invoices[i])
                               /\ docs[i].credited = invoices[i].credited
                               /\ docs[i].paid = invoices[i].paid - before[i]
                               /\ invoices[i].paid \in Nat
    BY <1>3, ReleasedOK, Rows DEF Invoice
  <1> HIDE DEF before, docs, r
  <1>7. InvoicesOK'
    BY <1>3, <1>6, InvoicesAre
  <1>8. PaymentMove(p, r)
    BY <1>1, <1>2, <1>3, <1>4, <1>5, <1>6, <1>7 DEF PaymentMove
  <1> QED
    BY <1>8, PaymentMoveOK

LEMMA AdvanceStep ==
    ASSUME ReceivablesAssumption, ReceivablesInv, NEW p \in Payments,
           (\E amount \in Amounts : RecordAdvance(p, amount)) \/ ReverseAdvance(p)
    PROVE  ReceivablesInv'
  <1>1. ar \in Int /\ advances \in Int /\ PaymentOK(payments[p]) /\ payments[p] \in Payment
    BY AccountsInt, Rows
  <1>2. \A i \in Invoices : invoices[i].paid \in Nat
    BY Rows DEF Invoice
  <1>3. ASSUME NEW amount \in Amounts, RecordAdvance(p, amount)
        PROVE  ReceivablesInv'
    <2> DEFINE r == Received("ADVANCE", amount, Nothing)
    <2>1. /\ amount \in Nat
          /\ payments[p].status = "NONE"
          /\ payments' = [payments EXCEPT ![p] = r]
          /\ advances' = advances + amount
          /\ UNCHANGED <<invoices, notes, ar>>
      BY <1>3 DEF RecordAdvance, Amounts
    <2>2. Nothing \in [Invoices -> Nat] /\ SumFunction(Nothing) = 0
      BY NothingSums
    <2>3. /\ PaymentOK(r) /\ Taken(r) = 0 /\ r.unapplied = amount - SumFunction(Nothing)
          /\ \A i \in Invoices : Settles(r, i) = 0
      BY <2>1, <2>2, ReceivedOK
    <2>4. /\ payments[p].unapplied = 0 /\ Taken(payments[p]) = 0
          /\ \A i \in Invoices : Settles(payments[p], i) = 0
      BY <1>1, <2>1, IdlePayment
    <2>5. InvoicesOK'
      BY <2>1, InvoicesKept
    <2> HIDE DEF r
    <2>6. PaymentMove(p, r)
      BY <1>1, <1>2, <2>1, <2>2, <2>3, <2>4, <2>5 DEF PaymentMove
    <2> QED
      BY <2>6, PaymentMoveOK
  <1>4. ASSUME ReverseAdvance(p)
        PROVE  ReceivablesInv'
    <2>1. /\ payments[p].status = "ADVANCE" /\ payments[p].unapplied = payments[p].advance
          /\ payments' = [payments EXCEPT ![p] = NoPayment]
          /\ advances' = advances - payments[p].advance
          /\ UNCHANGED <<invoices, notes, ar>>
      BY <1>4 DEF ReverseAdvance, Reversed
    <2>2. Taken(payments[p]) = 0 /\ \A i \in Invoices : Settles(payments[p], i) = 0
      BY <1>1, <2>1, WholeAdvance
    <2>3. InvoicesOK'
      BY <2>1, InvoicesKept
    <2>4. payments[p].advance \in Nat
      BY <1>1 DEF Payment
    <2>5. PaymentMove(p, NoPayment)
      BY <1>1, <1>2, <2>1, <2>2, <2>3, <2>4, NoPaymentOK DEF PaymentMove
    <2> QED
      BY <2>5, PaymentMoveOK
  <1> QED
    BY <1>3, <1>4

LEMMA ApplyAdvanceStep ==
    ASSUME ReceivablesAssumption, ReceivablesInv, NEW p \in Payments, NEW i \in Invoices,
           NEW a \in Amounts, ApplyAdvance(p, i, a)
    PROVE  ReceivablesInv'
  <1> DEFINE r == payments[p]
             s == WithApplied(r, i, r.unapplied - a, a)
             doc == Paid(invoices[i], a)
  <1>1. /\ ar \in Int /\ advances \in Int /\ PaymentOK(r) /\ r \in Payment /\ a \in Nat
        /\ \A j \in Invoices : invoices[j].paid \in Nat
    BY AccountsInt, Rows DEF Amounts, Invoice
  <1>2. /\ r.applied[i] = 0 /\ a <= r.unapplied /\ a <= Owed(invoices[i])
        /\ invoices' = [invoices EXCEPT ![i] = doc]
        /\ ar' = ar - a /\ advances' = advances - a /\ UNCHANGED notes
    BY DEF ApplyAdvance
  <1>3. payments' = [payments EXCEPT ![p] = s]
    BY Rows DEF ApplyAdvance, Payment, WithApplied
  <1>4. r.unapplied \in Nat /\ r.unapplied - a \in Nat /\ Taken(r) \in Nat
          /\ \A j \in Invoices : Settles(r, j) \in Nat
    <2>1. r.unapplied \in Nat
      BY <1>1 DEF Payment
    <2>2. Taken(r) \in Nat /\ \A j \in Invoices : Settles(r, j) \in Nat
      BY <1>1, SettlesNat
    <2> QED
      BY <1>1, <1>2, <2>1, <2>2
  <1>5. /\ PaymentOK(s)
        /\ s.unapplied = r.unapplied - a
        /\ Taken(s) = Taken(r) + a - r.applied[i]
        /\ \A j \in Invoices : Settles(s, j) = IF j = i THEN Settles(r, j) + a - r.applied[i]
                                               ELSE Settles(r, j)
    <2>1. (r.unapplied - a) + a = r.unapplied + r.applied[i]
      BY <1>1, <1>2, <1>4
    <2> HIDE DEF r
    <2> QED
      BY <1>1, <1>4, <2>1, AppliedChange
  <1>6. InvoiceOK(doc) /\ doc.paid = invoices[i].paid + a /\ doc.credited = invoices[i].credited
          /\ Billed(doc) = Billed(invoices[i])
    BY <1>1, <1>2, Rows, PaidOK
  <1> HIDE DEF doc, s
  <1>7. InvoicesOK' /\ invoices'[i] = doc /\ \A j \in Invoices : j # i => invoices'[j] = invoices[j]
    BY <1>2, <1>6, OneInvoice
  <1>8. \A j \in Invoices : /\ Billed(invoices'[j]) = Billed(invoices[j])
                            /\ invoices'[j].credited = invoices[j].credited
                            /\ invoices'[j].paid + Settles(r, j) <= invoices[j].paid + Settles(s, j)
    BY <1>1, <1>2, <1>4, <1>5, <1>6, <1>7
  <1>9. ar' = ar + Taken(r) - Taken(s) /\ advances' = advances - r.unapplied + s.unapplied
    BY <1>1, <1>2, <1>4, <1>5
  <1>10. PaymentMove(p, s)
    BY <1>2, <1>3, <1>5, <1>7, <1>8, <1>9 DEF PaymentMove
  <1> QED
    BY <1>10, PaymentMoveOK

LEMMA ReverseApplicationStep ==
    ASSUME ReceivablesAssumption, ReceivablesInv, NEW p \in Payments, NEW i \in Invoices,
           ReverseApplication(p, i)
    PROVE  ReceivablesInv'
  <1> DEFINE r == payments[p]
             a == r.applied[i]
             s == WithApplied(r, i, r.unapplied + a, 0)
             doc == Restored(invoices[i], invoices[i].paid - a, invoices[i].credited,
                             invoices[i].writtenOff)
  <1>1. /\ ar \in Int /\ advances \in Int /\ PaymentOK(r) /\ r \in Payment /\ a \in Nat
        /\ \A j \in Invoices : invoices[j].paid \in Nat
    BY AccountsInt, Rows DEF Payment, Invoice
  <1>2. /\ Restorable(invoices[i], invoices[i].paid - a, invoices[i].credited, invoices[i].writtenOff)
        /\ invoices' = [invoices EXCEPT ![i] = doc]
        /\ ar' = ar + a /\ advances' = advances + a /\ UNCHANGED notes
    BY DEF ReverseApplication
  <1>3. payments' = [payments EXCEPT ![p] = s]
    BY Rows DEF ReverseApplication, Payment, WithApplied
  <1>4. r.unapplied \in Nat /\ r.unapplied + a \in Nat /\ Taken(r) \in Nat
          /\ \A j \in Invoices : Settles(r, j) \in Nat
    <2>1. r.unapplied \in Nat
      BY <1>1 DEF Payment
    <2>2. Taken(r) \in Nat /\ \A j \in Invoices : Settles(r, j) \in Nat
      BY <1>1, SettlesNat
    <2> QED
      BY <1>1, <2>1, <2>2
  <1>5. /\ PaymentOK(s)
        /\ s.unapplied = r.unapplied + a
        /\ Taken(s) = Taken(r) + 0 - r.applied[i]
        /\ \A j \in Invoices : Settles(s, j) = IF j = i THEN Settles(r, j) + 0 - r.applied[i]
                                               ELSE Settles(r, j)
    <2>1. (r.unapplied + a) + 0 = r.unapplied + r.applied[i] /\ 0 \in Nat
      BY <1>1, <1>4
    <2> HIDE DEF r
    <2> QED
      BY <1>1, <1>4, <2>1, AppliedChange
  <1>6. InvoiceOK(doc) /\ doc.paid = invoices[i].paid - a /\ doc.credited = invoices[i].credited
          /\ Billed(doc) = Billed(invoices[i])
    <2>1. /\ InvoiceOK(invoices[i]) /\ invoices[i].paid - a \in Int
          /\ invoices[i].credited \in Int /\ invoices[i].writtenOff \in Int
          /\ Billed(invoices[i]) + invoices[i].writtenOff - invoices[i].writtenOff = Billed(invoices[i])
      BY <1>1, Rows DEF Invoice, Billed
    <2> QED
      BY <1>2, <2>1, RestoredOK
  <1> HIDE DEF doc, s
  <1>7. InvoicesOK' /\ invoices'[i] = doc /\ \A j \in Invoices : j # i => invoices'[j] = invoices[j]
    BY <1>2, <1>6, OneInvoice
  <1>8. \A j \in Invoices : /\ Billed(invoices'[j]) = Billed(invoices[j])
                            /\ invoices'[j].credited = invoices[j].credited
                            /\ invoices'[j].paid + Settles(r, j) <= invoices[j].paid + Settles(s, j)
    BY <1>1, <1>2, <1>4, <1>5, <1>6, <1>7
  <1>9. ar' = ar + Taken(r) - Taken(s) /\ advances' = advances - r.unapplied + s.unapplied
    BY <1>1, <1>2, <1>4, <1>5
  <1>10. PaymentMove(p, s)
    BY <1>2, <1>3, <1>5, <1>7, <1>8, <1>9 DEF PaymentMove
  <1> QED
    BY <1>10, PaymentMoveOK

LEMMA AdvanceRefundStep ==
    ASSUME ReceivablesAssumption, ReceivablesInv, NEW p \in Payments,
           (\E a \in Amounts : RefundAdvance(p, a)) \/ ReverseAdvanceRefund(p)
    PROVE  ReceivablesInv'
  <1> DEFINE r == payments[p]
  <1>1. /\ ar \in Int /\ advances \in Int /\ PaymentOK(r) /\ r \in Payment
        /\ r.unapplied \in Nat /\ r.refunded \in Nat /\ Taken(r) \in Nat
        /\ \A j \in Invoices : invoices[j].paid \in Nat /\ Settles(r, j) \in Nat
    BY AccountsInt, Rows, SettlesNat DEF Payment, Invoice
  <1>2. ASSUME NEW u \in Nat, NEW b \in Nat, u + b = r.unapplied + r.refunded,
               payments' = [payments EXCEPT ![p].unapplied = u, ![p].refunded = b],
               advances' = advances + u - r.unapplied,
               UNCHANGED <<invoices, notes, ar>>
        PROVE  ReceivablesInv'
    <2> DEFINE s == WithRefund(r, u, b)
    <2>1. payments' = [payments EXCEPT ![p] = s]
      BY <1>2, Rows DEF Payment, WithRefund
    <2>2. /\ PaymentOK(s) /\ s.unapplied = u /\ Taken(s) = Taken(r)
          /\ \A j \in Invoices : Settles(s, j) = Settles(r, j)
      <3> HIDE DEF r
      <3> QED
        BY <1>1, <1>2, RefundChange
    <2>3. InvoicesOK'
      BY <1>2, InvoicesKept
    <2> HIDE DEF s
    <2>4. ar' = ar + Taken(r) - Taken(s) /\ advances' = advances - r.unapplied + s.unapplied
      BY <1>1, <1>2, <2>2
    <2>5. \A i \in Invoices : /\ Billed(invoices'[i]) = Billed(invoices[i])
                              /\ invoices'[i].credited = invoices[i].credited
                              /\ invoices'[i].paid + Settles(r, i) <= invoices[i].paid + Settles(s, i)
      BY <1>1, <1>2, <2>2
    <2>6. PaymentMove(p, s)
      BY <1>2, <2>1, <2>2, <2>3, <2>4, <2>5 DEF PaymentMove
    <2> QED
      BY <2>6, PaymentMoveOK
  <1>3. ASSUME NEW a \in Amounts, RefundAdvance(p, a)
        PROVE  ReceivablesInv'
    <2>0. a \in Nat
      BY DEF Amounts
    <2>1. /\ r.refunded = 0 /\ a <= r.unapplied
          /\ payments' = [payments EXCEPT ![p].unapplied = r.unapplied - a, ![p].refunded = a]
          /\ advances' = advances - a /\ UNCHANGED <<invoices, notes, ar>>
      BY <1>3, Zenon DEF RefundAdvance
    <2>2. /\ r.unapplied - a \in Nat /\ (r.unapplied - a) + a = r.unapplied + r.refunded
          /\ advances' = advances + (r.unapplied - a) - r.unapplied
      BY <1>1, <2>0, <2>1
    <2> QED
      BY <1>2, <2>0, <2>1, <2>2
  <1>4. ASSUME ReverseAdvanceRefund(p)
        PROVE  ReceivablesInv'
    <2>1. /\ payments' = [payments EXCEPT ![p].unapplied = r.unapplied + r.refunded, ![p].refunded = 0]
          /\ advances' = advances + r.refunded /\ UNCHANGED <<invoices, notes, ar>>
      BY <1>4, Zenon DEF ReverseAdvanceRefund
    <2>2. /\ r.unapplied + r.refunded \in Nat /\ 0 \in Nat
          /\ (r.unapplied + r.refunded) + 0 = r.unapplied + r.refunded
          /\ advances' = advances + (r.unapplied + r.refunded) - r.unapplied
      BY <1>1, <2>1
    <2> QED
      BY <1>2, <2>1, <2>2
  <1> QED
    BY <1>3, <1>4

-----------------------------------------------------------------------------
(* Receivables: the actions on a credit note.                              *)

LEMMA CreateNoteStep ==
    ASSUME ReceivablesAssumption, ReceivablesInv, NEW n \in Notes, NEW total \in Amounts,
           CreateNote(n, total) \/ \E i \in Invoices : CreateAppliedNote(n, total, i)
    PROVE  ReceivablesInv'
  <1>1. /\ ar \in Int /\ total \in Nat /\ NoteOK(notes[n]) /\ notes[n] \in Note
        /\ notes[n].status = "NONE" /\ notes[n].applied \in [Invoices -> Nat]
        /\ \A j \in Invoices : invoices[j].credited \in Nat
    BY AccountsInt, Rows DEF Amounts, Invoice, Note, CreateNote, CreateAppliedNote
  <1>2. Standing(notes[n]) = 0
    BY <1>1 DEF Standing
  <1>3. \A j \in Invoices : notes[n].applied[j] = 0
    <2>1. /\ notes[n].remaining \in Nat /\ notes[n].refunded \in Nat
          /\ SumFunction(notes[n].applied) \in Nat
          /\ SumFunction(notes[n].applied) = SumFunctionOnSet(notes[n].applied, Invoices)
      BY <1>1, SumsAreInt DEF Note
    <2>2. SumFunctionOnSet(notes[n].applied, Invoices) = 0
      BY <1>1, <2>1 DEF NoteOK
    <2> QED
      BY <1>1, <2>2, SumNothing DEF ReceivablesAssumption
  <1>4. /\ NoteOK(IssuedNote(total)) /\ Standing(IssuedNote(total)) = total
        /\ IssuedNote(total).status = "OPEN" /\ IssuedNote(total).remaining = total
        /\ \A i \in Invoices : IssuedNote(total).applied[i] = 0
    BY <1>1, IssuedNoteOK
  <1>5. CASE CreateNote(n, total)
    <2> DEFINE s == IssuedNote(total)
    <2>1. /\ notes' = [notes EXCEPT ![n] = s] /\ ar' = ar - total
          /\ UNCHANGED <<invoices, payments, advances>>
      BY <1>5 DEF CreateNote
    <2>2. InvoicesOK'
      BY <2>1, InvoicesKept
    <2> HIDE DEF s
    <2>3. NoteMove(n, s)
      BY <1>1, <1>2, <1>3, <1>4, <2>1, <2>2 DEF NoteMove, s
    <2> QED
      BY <2>3, NoteMoveOK
  <1>6. ASSUME NEW i \in Invoices, CreateAppliedNote(n, total, i)
        PROVE  ReceivablesInv'
    <2> DEFINE s == AppliedNote(IssuedNote(total), i, total)
               doc == Credited(invoices[i], total)
    <2>1. /\ notes' = [notes EXCEPT ![n] = s] /\ ar' = ar - total
          /\ invoices' = [invoices EXCEPT ![i] = doc]
          /\ UNCHANGED <<payments, advances>>
      BY <1>6 DEF CreateAppliedNote
    <2>2. InvoiceOK(doc) /\ doc.paid = invoices[i].paid /\ doc.credited = invoices[i].credited + total
            /\ Billed(doc) = Billed(invoices[i])
      BY <1>1, Rows, CreditedOK
    <2>3. /\ NoteOK(s) /\ Standing(s) = total
          /\ \A j \in Invoices : s.applied[j] = IF j = i THEN total ELSE 0
      BY <1>1, <1>4, AppliedNoteOK
    <2> HIDE DEF s, doc
    <2>4. InvoicesOK' /\ invoices'[i] = doc /\ \A j \in Invoices : j # i => invoices'[j] = invoices[j]
      BY <2>1, <2>2, OneInvoice
    <2>5. \A j \in Invoices : /\ Billed(invoices'[j]) = Billed(invoices[j])
                              /\ invoices'[j].paid = invoices[j].paid
                              /\ invoices'[j].credited
                                   = invoices[j].credited + s.applied[j] - notes[n].applied[j]
      BY <1>1, <1>3, <2>2, <2>3, <2>4
    <2>6. NoteMove(n, s)
      BY <1>1, <1>2, <2>1, <2>3, <2>4, <2>5 DEF NoteMove
    <2> QED
      BY <2>6, NoteMoveOK
  <1> QED
    BY <1>5, <1>6

LEMMA ApplyNoteStep ==
    ASSUME ReceivablesAssumption, ReceivablesInv, NEW n \in Notes, NEW i \in Invoices,
           NEW amount \in Amounts, ApplyNote(n, i, amount)
    PROVE  ReceivablesInv'
  <1> DEFINE a == IF amount <= Owed(invoices[i]) THEN amount ELSE Owed(invoices[i])
             s == AppliedNote(notes[n], i, a)
             doc == Credited(invoices[i], a)
  <1>1. /\ ar \in Int /\ amount \in Nat /\ NoteOK(notes[n]) /\ notes[n] \in Note
        /\ notes[n].applied \in [Invoices -> Nat] /\ notes[n].remaining \in Nat
        /\ Standing(notes[n]) \in Int
        /\ \A j \in Invoices : invoices[j].credited \in Nat
    BY AccountsInt, Rows DEF Amounts, Invoice, Note, Standing
  <1>2. a \in Nat /\ a <= amount
    BY <1>1, Rows DEF Owed, Positive, Invoice
  <1>3. /\ notes[n].status = "OPEN" /\ amount <= notes[n].remaining
        /\ notes' = [notes EXCEPT ![n] = s]
        /\ invoices' = [invoices EXCEPT ![i] = doc]
        /\ UNCHANGED <<payments, ar, advances>>
    BY DEF ApplyNote
  <1> HIDE DEF a
  <1>4. a <= notes[n].remaining
    BY <1>1, <1>2, <1>3
  <1>5. InvoiceOK(doc) /\ doc.paid = invoices[i].paid /\ doc.credited = invoices[i].credited + a
          /\ Billed(doc) = Billed(invoices[i])
    BY <1>2, Rows, CreditedOK
  <1>6. /\ NoteOK(s) /\ Standing(s) = Standing(notes[n])
        /\ \A j \in Invoices : s.applied[j] = IF j = i THEN notes[n].applied[j] + a
                                              ELSE notes[n].applied[j]
    BY <1>1, <1>2, <1>3, <1>4, AppliedNoteOK
  <1> HIDE DEF s, doc
  <1>7. InvoicesOK' /\ invoices'[i] = doc /\ \A j \in Invoices : j # i => invoices'[j] = invoices[j]
    BY <1>3, <1>5, OneInvoice
  <1>8. \A j \in Invoices : /\ Billed(invoices'[j]) = Billed(invoices[j])
                            /\ invoices'[j].paid = invoices[j].paid
                            /\ invoices'[j].credited
                                 = invoices[j].credited + s.applied[j] - notes[n].applied[j]
    BY <1>1, <1>2, <1>5, <1>6, <1>7
  <1>9. NoteMove(n, s)
    BY <1>1, <1>3, <1>6, <1>7, <1>8 DEF NoteMove
  <1> QED
    BY <1>9, NoteMoveOK

LEMMA ReverseNoteStep ==
    ASSUME ReceivablesAssumption, ReceivablesInv, NEW n \in Notes, ReverseNote(n)
    PROVE  ReceivablesInv'
  <1> DEFINE r == notes[n]
             credited(i) == invoices[i].credited - r.applied[i]
             docs == [i \in Invoices |->
                        IF i \in r.touched
                        THEN Restored(invoices[i], invoices[i].paid, credited(i), invoices[i].writtenOff)
                        ELSE invoices[i]]
  <1>1. /\ ar \in Int /\ NoteOK(r) /\ r \in Note /\ r.applied \in [Invoices -> Nat]
        /\ r.total \in Nat
    BY AccountsInt, Rows DEF Note
  <1>2. /\ r.status = "OPEN" /\ r.refunded = 0
        /\ \A i \in r.touched : Restorable(invoices[i], invoices[i].paid, credited(i),
                                           invoices[i].writtenOff)
        /\ invoices' = docs
        /\ notes' = [notes EXCEPT ![n] = NoNote]
        /\ ar' = ar + r.total
        /\ UNCHANGED <<payments, advances>>
    BY DEF ReverseNote
  <1>3. ASSUME NEW i \in Invoices
        PROVE  /\ InvoiceOK(docs[i])
               /\ Billed(docs[i]) = Billed(invoices[i])
               /\ docs[i].paid = invoices[i].paid
               /\ docs[i].credited = invoices[i].credited - r.applied[i]
               /\ invoices[i].credited \in Nat
    <2>1. InvoiceOK(invoices[i]) /\ invoices[i] \in Invoice /\ r.applied[i] \in Nat
      BY <1>1, Rows
    <2>2. CASE i \in r.touched
      <3>1. docs[i] = Restored(invoices[i], invoices[i].paid, credited(i), invoices[i].writtenOff)
        BY <2>2
      <3>2. /\ invoices[i].paid \in Int /\ credited(i) \in Int /\ invoices[i].writtenOff \in Int
            /\ invoices[i].credited \in Nat
            /\ Billed(invoices[i]) + invoices[i].writtenOff - invoices[i].writtenOff = Billed(invoices[i])
        BY <2>1 DEF Invoice, Billed
      <3>3. Restorable(invoices[i], invoices[i].paid, credited(i), invoices[i].writtenOff)
        BY <1>2, <2>2
      <3> QED
        BY <2>1, <3>1, <3>2, <3>3, RestoredOK
    <2>3. CASE i \notin r.touched
      <3>1. docs[i] = invoices[i] /\ r.applied[i] = 0 /\ invoices[i].credited \in Nat
        BY <1>1, <2>1, <2>3 DEF NoteOK, Invoice
      <3> QED
        BY <2>1, <3>1
    <2> QED
      BY <2>2, <2>3
  <1>4. DOMAIN docs = Invoices /\ docs = [i \in Invoices |-> docs[i]]
    OBVIOUS
  <1>5. /\ NoteOK(NoNote) /\ Standing(NoNote) = 0 /\ \A i \in Invoices : NoNote.applied[i] = 0
        /\ Standing(r) = r.total
    BY <1>1, <1>2, IssuedNoteOK DEF Standing
  <1> HIDE DEF docs
  <1>6. InvoicesOK'
    BY <1>2, <1>3, <1>4, InvoicesAre
  <1>7. \A j \in Invoices : /\ Billed(invoices'[j]) = Billed(invoices[j])
                            /\ invoices'[j].paid = invoices[j].paid
                            /\ invoices'[j].credited
                                 = invoices[j].credited + NoNote.applied[j] - r.applied[j]
    BY <1>1, <1>2, <1>3, <1>5
  <1>8. NoteMove(n, NoNote)
    BY <1>1, <1>2, <1>5, <1>6, <1>7 DEF NoteMove
  <1> QED
    BY <1>8, NoteMoveOK

LEMMA NoteRefundStep ==
    ASSUME ReceivablesAssumption, ReceivablesInv, NEW n \in Notes,
           (\E a \in Amounts : RefundNote(n, a)) \/ ReverseNoteRefund(n)
    PROVE  ReceivablesInv'
  <1> DEFINE r == notes[n]
  <1>1. /\ ar \in Int /\ NoteOK(r) /\ r \in Note /\ r.applied \in [Invoices -> Nat]
        /\ r.remaining \in Nat /\ r.refunded \in Nat /\ r.total \in Nat
        /\ \A j \in Invoices : invoices[j].credited \in Nat
    BY AccountsInt, Rows DEF Note, Invoice
  <1>2. ASSUME NEW u \in Nat, NEW b \in Nat, u + b = r.remaining + r.refunded, r.status = "OPEN",
               notes' = [notes EXCEPT ![n].remaining = u, ![n].refunded = b],
               ar' = ar + b - r.refunded,
               UNCHANGED <<invoices, payments, advances>>
        PROVE  ReceivablesInv'
    <2> DEFINE s == WithNoteRefund(r, u, b)
    <2>1. notes' = [notes EXCEPT ![n] = s]
      BY <1>2, Rows DEF Note, WithNoteRefund
    <2>2. NoteOK(s) /\ s.applied = r.applied /\ Standing(s) = Standing(r) + r.refunded - b
      <3> HIDE DEF r
      <3> QED
        BY <1>1, <1>2, NoteRefundChange
    <2>3. InvoicesOK'
      BY <1>2, InvoicesKept
    <2> HIDE DEF s
    <2>4. ar' = ar + Standing(r) - Standing(s)
      <3>1. Standing(r) \in Int
        BY <1>1 DEF Standing
      <3> QED
        BY <1>1, <1>2, <2>2, <3>1
    <2>5. \A j \in Invoices : invoices[j].credited
                                = invoices[j].credited + s.applied[j] - r.applied[j]
      BY <1>1, <2>2
    <2>6. NoteMove(n, s)
      BY <1>2, <2>1, <2>2, <2>3, <2>4, <2>5 DEF NoteMove
    <2> QED
      BY <2>6, NoteMoveOK
  <1>3. ASSUME NEW a \in Amounts, RefundNote(n, a)
        PROVE  ReceivablesInv'
    <2>0. a \in Nat
      BY DEF Amounts
    <2>1. /\ r.refunded = 0 /\ a <= r.remaining /\ r.status = "OPEN"
          /\ notes' = [notes EXCEPT ![n].remaining = r.remaining - a, ![n].refunded = a]
          /\ ar' = ar + a /\ UNCHANGED <<invoices, payments, advances>>
      BY <1>3, Zenon DEF RefundNote
    <2>2. /\ r.remaining - a \in Nat /\ (r.remaining - a) + a = r.remaining + r.refunded
          /\ ar' = ar + a - r.refunded
      BY <1>1, <2>0, <2>1
    <2> QED
      BY <1>2, <2>0, <2>1, <2>2
  <1>4. ASSUME ReverseNoteRefund(n)
        PROVE  ReceivablesInv'
    <2>1. /\ r.refunded > 0
          /\ notes' = [notes EXCEPT ![n].remaining = r.remaining + r.refunded, ![n].refunded = 0]
          /\ ar' = ar - r.refunded /\ UNCHANGED <<invoices, payments, advances>>
      BY <1>4, Zenon DEF ReverseNoteRefund
    <2>2. /\ r.remaining + r.refunded \in Nat /\ 0 \in Nat
          /\ (r.remaining + r.refunded) + 0 = r.remaining + r.refunded
          /\ ar' = ar + 0 - r.refunded
      BY <1>1, <2>1
    <2>3. r.status = "OPEN"
      <3>1. SumFunction(r.applied) \in Nat
        BY <1>1, SumsAreInt
      <3> QED
        BY <1>1, <2>1, <3>1 DEF NoteOK, Note
    <2> QED
      BY <1>2, <2>1, <2>2, <2>3
  <1> QED
    BY <1>3, <1>4

-----------------------------------------------------------------------------
(* Receivables: the invariant, and what the runs check.                    *)

LEMMA ReceivablesStart ==
    ASSUME ReceivablesAssumption, Init
    PROVE  ReceivablesInv
  <1>1. /\ IsFiniteSet(Payments) /\ IsFiniteSet(Invoices) /\ IsFiniteSet(Notes)
        /\ ar = 0 /\ advances = 0
    BY DEF ReceivablesAssumption, Init
  <1>2. /\ PaymentOK(NoPayment) /\ Taken(NoPayment) = 0 /\ NoPayment.unapplied = 0
        /\ \A i \in Invoices : Settles(NoPayment, i) = 0
        /\ NoteOK(NoNote) /\ Standing(NoNote) = 0
        /\ \A i \in Invoices : NoNote.applied[i] = 0
    BY NoPaymentOK, IssuedNoteOK
  <1>3. NoPayment \in Payment /\ NoNote \in Note
    BY <1>2 DEF PaymentOK, NoteOK
  <1>4. /\ payments = [p \in Payments |-> NoPayment]
        /\ notes = [n \in Notes |-> NoNote]
    BY DEF Init
  <1>5. PaymentsOK
    BY <1>2, <1>3, <1>4 DEF PaymentsOK
  <1>6. NotesOK
    BY <1>2, <1>3, <1>4 DEF NotesOK
  <1> DEFINE blank == [status |-> "NONE", total |-> 0, paid |-> 0, credited |-> 0,
                       writtenOff |-> 0, balance |-> 0, journal |-> "NONE", ledger |-> 0]
  <1>7. blank \in Invoice
    BY DEF Invoice, InvoiceStatus
  <1>8. InvoiceOK(blank) /\ Billed(blank) = 0 /\ blank.paid = 0 /\ blank.credited = 0
    BY <1>7 DEF InvoiceOK, Owed, Positive, Billed
  <1>9. invoices = [i \in Invoices |-> blank]
    BY DEF Init
  <1> HIDE DEF blank
  <1>10. InvoicesOK /\ \A i \in Invoices : invoices[i] = blank
    BY <1>7, <1>8, <1>9 DEF InvoicesOK
  <1>11. LiabilityTies
    <2> DEFINE f == [p \in Payments |-> payments[p].unapplied]
    <2>1. DOMAIN f = Payments /\ \A p \in Payments : f[p] = 0
      BY <1>2, <1>4
    <2> HIDE DEF f
    <2>2. SumFunction(f) = 0
      BY <1>1, <2>1, EmptySums
    <2> QED
      BY <1>1, <2>2 DEF LiabilityTies, f
  <1>12. ASSUME NEW i \in Invoices
         PROVE  CreditTies(i) /\ PaidCovered(i)
    <2> DEFINE f == [n \in Notes |-> notes[n].applied[i]]
               g == [p \in Payments |-> Settles(payments[p], i)]
    <2>1. /\ DOMAIN f = Notes /\ \A n \in Notes : f[n] = 0
          /\ DOMAIN g = Payments /\ \A p \in Payments : g[p] = 0
      BY <1>2, <1>4
    <2> HIDE DEF f, g
    <2>2. SumFunction(f) = 0 /\ SumFunction(g) = 0
      BY <1>1, <2>1, EmptySums
    <2>3. invoices[i].credited = SumFunction(f) /\ invoices[i].paid <= SumFunction(g)
      BY <1>8, <1>10, <2>2
    <2> QED
      BY <2>3 DEF CreditTies, PaidCovered, f, g
  <1>13. ControlTies
    <2> DEFINE f == [i \in Invoices |-> Billed(invoices[i])]
               g == [p \in Payments |-> Taken(payments[p])]
               h == [n \in Notes |-> Standing(notes[n])]
    <2>1. /\ DOMAIN f = Invoices /\ \A i \in Invoices : f[i] = 0
          /\ DOMAIN g = Payments /\ \A p \in Payments : g[p] = 0
          /\ DOMAIN h = Notes /\ \A n \in Notes : h[n] = 0
      BY <1>2, <1>4, <1>8, <1>10
    <2> HIDE DEF f, g, h
    <2>2. SumFunction(f) = 0 /\ SumFunction(g) = 0 /\ SumFunction(h) = 0
      BY <1>1, <2>1, EmptySums
    <2>3. ar = SumFunction(f) - SumFunction(g) - SumFunction(h)
      BY <1>1, <2>2
    <2> QED
      BY <2>3 DEF ControlTies, f, g, h
  <1> QED
    BY <1>5, <1>6, <1>10, <1>11, <1>12, <1>13 DEF ReceivablesInv, BooksTie

LEMMA ReceivablesStep ==
    ASSUME ReceivablesAssumption, ReceivablesInv, [Next]_vars
    PROVE  ReceivablesInv'
  <1>1. ASSUME NEW i \in Invoices, NEW total \in Amounts, NEW status \in InvoiceStatus,
               CreateInvoice(i, total, status)
        PROVE  ReceivablesInv'
    BY <1>1, CreateInvoiceStep
  <1>2. ASSUME NEW i \in Invoices, NEW total \in Amounts, EditInvoice(i, total)
        PROVE  ReceivablesInv'
    BY <1>2, EditInvoiceStep
  <1>3. ASSUME NEW i \in Invoices,
               PostInvoice(i) \/ VoidInvoice(i) \/ (\E a \in Amounts : WriteOff(i, a)) \/ ReverseWriteOff(i)
        PROVE  ReceivablesInv'
    BY <1>3, PostInvoiceStep, VoidInvoiceStep, WriteOffStep
  <1>4. ASSUME NEW p \in Payments, NEW amount \in Amounts, NEW portion \in Portions,
               \/ ReceivePayment(p, amount, portion)
               \/ SubmitPayment(p, amount, portion)
               \/ CorrectPayment(p, amount, portion)
               \/ CorrectSubmitted(p, amount, portion)
        PROVE  ReceivablesInv'
    BY <1>4, ReceivePaymentStep, SubmitPaymentStep, CorrectPaymentStep, CorrectSubmittedStep
  <1>5. ASSUME NEW p \in Payments,
               PostSubmittedPayment(p) \/ ReversePayment(p) \/ ReverseAdvance(p) \/ ReverseAdvanceRefund(p)
        PROVE  ReceivablesInv'
    BY <1>5, PostSubmittedStep, ReversePaymentStep, AdvanceStep, AdvanceRefundStep
  <1>6. ASSUME NEW p \in Payments, NEW amount \in Amounts,
               RecordAdvance(p, amount) \/ RefundAdvance(p, amount)
        PROVE  ReceivablesInv'
    BY <1>6, AdvanceStep, AdvanceRefundStep
  <1>7. ASSUME NEW p \in Payments, NEW i \in Invoices,
               (\E a \in Amounts : ApplyAdvance(p, i, a)) \/ ReverseApplication(p, i)
        PROVE  ReceivablesInv'
    BY <1>7, ApplyAdvanceStep, ReverseApplicationStep
  <1>8. ASSUME NEW n \in Notes, NEW total \in Amounts, CreateNote(n, total) \/ RefundNote(n, total)
        PROVE  ReceivablesInv'
    BY <1>8, CreateNoteStep, NoteRefundStep
  <1>9. ASSUME NEW n \in Notes, NEW a \in Amounts, NEW i \in Invoices,
               CreateAppliedNote(n, a, i) \/ ApplyNote(n, i, a)
        PROVE  ReceivablesInv'
    BY <1>9, CreateNoteStep, ApplyNoteStep
  <1>10. ASSUME NEW n \in Notes, ReverseNote(n) \/ ReverseNoteRefund(n)
         PROVE  ReceivablesInv'
    BY <1>10, ReverseNoteStep, NoteRefundStep
  <1>11. CASE UNCHANGED vars
    BY <1>11 DEF vars, ReceivablesInv, InvoicesOK, InvoiceOK, PaymentsOK, PaymentOK, NotesOK, NoteOK,
                 BooksTie, LiabilityTies, ControlTies, CreditTies, PaidCovered
  <1> QED
    BY <1>1, <1>2, <1>3, <1>4, <1>5, <1>6, <1>7, <1>8, <1>9, <1>10, <1>11 DEF Next

\* Every reachable state satisfies the invariant.
THEOREM ReceivablesInvariant ==
    ASSUME ReceivablesAssumption
    PROVE  Spec => []ReceivablesInv
  <1>1. Init => ReceivablesInv
    BY ReceivablesStart
  <1>2. ReceivablesInv /\ [Next]_vars => ReceivablesInv'
    BY ReceivablesStep
  <1> QED
    BY <1>1, <1>2, PTL DEF Spec

\* Every row keeps its type, and the two accounts are integers.
THEOREM ReceivablesTypes ==
    ASSUME ReceivablesAssumption
    PROVE  Spec => []TypeOK
  <1>1. ReceivablesInv => TypeOK
    BY AccountsInt DEF TypeOK, ReceivablesInv, InvoicesOK, PaymentsOK, NotesOK
  <1> QED
    BY <1>1, ReceivablesInvariant, PTL

\* After any sequence of settlements, edits and reversals an invoice's balance_due is
\* what its amounts leave of its total, and it is never overpaid.
THEOREM BalancesFollowAmounts ==
    ASSUME ReceivablesAssumption
    PROVE  Spec => []BalanceTies
  <1>1. ReceivablesInv => BalanceTies
    BY DEF BalanceTies, ReceivablesInv, InvoicesOK, InvoiceOK
  <1> QED
    BY <1>1, ReceivablesInvariant, PTL

\* No part of an advance or of a credit note is spent twice, whatever is applied,
\* refunded and reversed, and the advances liability is what the advances have left.
THEOREM CreditsAreSpentOnce ==
    ASSUME ReceivablesAssumption
    PROVE  Spec => []CreditSpentOnce
  <1>1. ReceivablesInv => CreditSpentOnce
    BY DEF CreditSpentOnce, ReceivablesInv, PaymentsOK, PaymentOK, NotesOK, NoteOK, BooksTie,
           LiabilityTies, CreditTies, PaidCovered
  <1> QED
    BY <1>1, ReceivablesInvariant, PTL

\* Accounts receivable hold what the live documents posted: every void, reversal and
\* correction takes back exactly what its document had posted.
THEOREM ControlIsExplained ==
    ASSUME ReceivablesAssumption
    PROVE  Spec => []ControlExplained
  <1>1. ReceivablesInv => ControlExplained
    BY DEF ControlExplained, ReceivablesInv, BooksTie, ControlTies, Billed, Taken, Standing
  <1> QED
    BY <1>1, ReceivablesInvariant, PTL

-----------------------------------------------------------------------------
(* Receivables: why the customers' debts and the ledger can drift apart.   *)

\* What an invoice in order shows as owed is what it has in accounts receivable, less
\* what payments and notes settled.
LEMMA BackedInvoice ==
    ASSUME NEW r, InvoiceOK(r), ~Unbacked(r), ~Misedited(r)
    PROVE  /\ r.paid \in Nat /\ r.credited \in Nat /\ Billed(r) \in Int
           /\ Billed(r) - r.paid - r.credited
                = IF r.status \notin {"NONE", "VOIDED", "DRAFT"} THEN r.balance ELSE 0
  <1>1. r \in Invoice
    BY DEF InvoiceOK
  <1>2. /\ r.paid \in Nat /\ r.credited \in Nat /\ r.writtenOff \in Nat /\ r.total \in Nat
        /\ r.ledger \in Nat
    BY <1>1 DEF Invoice
  <1>3. CASE r.journal = "LIVE"
    <2>1. /\ r.ledger = r.total /\ r.paid + r.credited + r.writtenOff <= r.total
          /\ r.status \notin {"NONE", "DRAFT", "VOIDED"}
          /\ r.balance = Owed(r)
      BY <1>2, <1>3 DEF InvoiceOK, Misedited
    <2> QED
      BY <1>2, <1>3, <2>1 DEF Billed, Owed, Positive
  <1>4. CASE r.journal # "LIVE"
    <2>1. /\ ~(r.paid + r.credited + r.writtenOff > 0)
          /\ r.status \in {"NONE", "VOIDED", "DRAFT"}
      BY <1>4 DEF Unbacked
    <2> QED
      BY <1>2, <1>4, <2>1 DEF Billed
  <1> QED
    BY <1>3, <1>4

LEMMA StandingIs ==
    ASSUME ReceivablesAssumption, NEW r, NoteOK(r)
    PROVE  /\ r.remaining \in Nat /\ SumFunction(r.applied) \in Nat
           /\ Standing(r) = r.remaining + SumFunction(r.applied)
  <1>1. /\ r \in Note /\ r.status \in {"NONE", "OPEN"} /\ r.applied \in [Invoices -> Nat]
        /\ r.refunded \in Nat /\ r.remaining \in Nat /\ r.total \in Nat
    BY DEF NoteOK, Note
  <1>2. SumFunction(r.applied) \in Nat
    BY <1>1, SumsAreInt
  <1> QED
    BY <1>1, <1>2 DEF NoteOK, Standing

LEMMA DriftIsExplained ==
    ASSUME ReceivablesAssumption, ReceivablesInv,
           \A i \in Invoices : ~Unbacked(invoices[i]) /\ ~Misedited(invoices[i]) /\ ~Missed(i)
    PROVE  ARIntegrity
  <1> DEFINE counted == {i \in Invoices : invoices[i].status \notin {"NONE", "VOIDED", "DRAFT"}}
             balance == [i \in Invoices |-> invoices[i].balance]
             shown == [i \in Invoices |-> IF i \in counted THEN invoices[i].balance ELSE 0]
             paid == [i \in Invoices |-> invoices[i].paid]
             credited == [i \in Invoices |-> invoices[i].credited]
             settled == [i \in Invoices |-> invoices[i].paid + invoices[i].credited]
             billed == [i \in Invoices |-> Billed(invoices[i])]
             taken == [p \in Payments |-> Taken(payments[p])]
             standing == [n \in Notes |-> Standing(notes[n])]
             remaining == [n \in Notes |-> notes[n].remaining]
             applied == [n \in Notes |-> SumFunction(notes[n].applied)]
  <1>1. IsFiniteSet(Payments) /\ IsFiniteSet(Invoices) /\ IsFiniteSet(Notes)
    BY DEF ReceivablesAssumption
  <1>2. ar = SumFunctionOnSet(billed, Invoices) - SumFunctionOnSet(taken, Payments)
               - SumFunctionOnSet(standing, Notes)
    <2>1. DOMAIN billed = Invoices /\ DOMAIN taken = Payments /\ DOMAIN standing = Notes
      OBVIOUS
    <2>2. ar = SumFunction(billed) - SumFunction(taken) - SumFunction(standing)
      BY DEF ReceivablesInv, BooksTie, ControlTies
    <2> HIDE DEF billed, taken, standing
    <2> QED
      BY <2>1, <2>2 DEF SumFunction
  <1>3. \A i \in Invoices : /\ shown[i] \in Int /\ settled[i] \in Int /\ billed[i] = shown[i] + settled[i]
                            /\ paid[i] \in Int /\ credited[i] \in Int
                            /\ settled[i] = paid[i] + credited[i]
    <2> SUFFICES ASSUME NEW i \in Invoices
                 PROVE  /\ shown[i] \in Int /\ settled[i] \in Int /\ billed[i] = shown[i] + settled[i]
                        /\ paid[i] \in Int /\ credited[i] \in Int
                        /\ settled[i] = paid[i] + credited[i]
      OBVIOUS
    <2>1. InvoiceOK(invoices[i]) /\ ~Unbacked(invoices[i]) /\ ~Misedited(invoices[i])
            /\ invoices[i].balance \in Nat
      BY Rows DEF Invoice
    <2>2. /\ invoices[i].paid \in Nat /\ invoices[i].credited \in Nat /\ Billed(invoices[i]) \in Int
          /\ Billed(invoices[i]) - invoices[i].paid - invoices[i].credited = shown[i]
      BY <2>1, BackedInvoice
    <2>3. shown[i] \in Int
      BY <2>1
    <2> QED
      BY <2>2, <2>3
  <1>4. /\ SumFunctionOnSet(billed, Invoices)
             = SumFunctionOnSet(shown, Invoices) + SumFunctionOnSet(settled, Invoices)
        /\ SumFunctionOnSet(settled, Invoices)
             = SumFunctionOnSet(paid, Invoices) + SumFunctionOnSet(credited, Invoices)
    <2> HIDE DEF billed, shown, settled, paid, credited
    <2> QED
      BY <1>1, <1>3, SumPlus
  <1>5. SumFunctionOnSet(shown, Invoices) = SumFunctionOnSet(balance, counted)
    <2>1. /\ counted \in SUBSET Invoices /\ \A i \in Invoices \ counted : shown[i] = 0
          /\ \A i \in counted : shown[i] = balance[i]
      OBVIOUS
    <2>2. IsFiniteSet(counted)
      BY <1>1, <2>1, FS_Subset
    <2> HIDE DEF shown, counted, balance
    <2>3. SumFunctionOnSet(shown, Invoices) = SumFunctionOnSet(shown, counted)
      BY <1>1, <1>3, <2>1, SumSupport
    <2>4. SumFunctionOnSet(shown, counted) = SumFunctionOnSet(balance, counted)
      BY <2>1, <2>2, SumSame
    <2> QED
      BY <2>3, <2>4
  <1>6. SumFunctionOnSet(paid, Invoices) = SumFunctionOnSet(taken, Payments)
    <2> DEFINE F == [p \in Payments |-> [i \in Invoices |-> Settles(payments[p], i)]]
    <2>1. Matrix(F, Payments, Invoices)
      <3> SUFFICES ASSUME NEW p \in Payments, NEW i \in Invoices
                   PROVE  F[p][i] \in Int
        BY DEF Matrix
      <3>1. payments[p] \in Payment
        BY Rows
      <3>2. Settles(payments[p], i) \in Nat
        BY <3>1, SettlesNat
      <3> QED
        BY <3>2
    <2>2. AreRows(taken, F, Payments, Invoices)
      <3>1. \A p \in Payments : payments[p] \in Payment
        BY Rows
      <3>2. \A p \in Payments : Taken(payments[p])
                                  = SumFunctionOnSet([i \in Invoices |-> Settles(payments[p], i)], Invoices)
        BY <3>1, SettlesNat
      <3> QED
        BY <3>2 DEF AreRows
    <2>3. AreColumns(paid, F, Payments, Invoices)
      <3> SUFFICES ASSUME NEW i \in Invoices
                   PROVE  invoices[i].paid = SumFunctionOnSet(Column(F, Payments, i), Payments)
        BY DEF AreColumns
      <3>1. invoices[i].paid = SumFunction([p \in Payments |-> Settles(payments[p], i)])
        BY DEF Missed
      <3>2. [p \in Payments |-> Settles(payments[p], i)] = Column(F, Payments, i)
        BY DEF Column
      <3>3. invoices[i].paid = SumFunction(Column(F, Payments, i))
        BY <3>1, <3>2, Zenon
      <3>4. DOMAIN Column(F, Payments, i) = Payments
        BY DEF Column
      <3> QED
        BY <3>3, <3>4 DEF SumFunction
    <2> HIDE DEF F, paid, taken
    <2> QED
      BY <1>1, <2>1, <2>2, <2>3, RowsAndColumns
  <1>7. SumFunctionOnSet(credited, Invoices) = SumFunctionOnSet(applied, Notes)
    <2> DEFINE F == [n \in Notes |-> notes[n].applied]
    <2>1. \A n \in Notes : notes[n].applied \in [Invoices -> Nat]
      BY Rows DEF Note
    <2>2. Matrix(F, Notes, Invoices)
      BY <2>1 DEF Matrix
    <2>3. AreRows(applied, F, Notes, Invoices)
      <3> SUFFICES ASSUME NEW n \in Notes
                   PROVE  applied[n] = SumFunctionOnSet(F[n], Invoices)
        BY DEF AreRows
      <3>1. SumFunction(notes[n].applied) = SumFunctionOnSet(notes[n].applied, Invoices)
        BY <2>1, SumsAreInt
      <3> QED
        BY <3>1
    <2>4. AreColumns(credited, F, Notes, Invoices)
      <3> SUFFICES ASSUME NEW i \in Invoices
                   PROVE  invoices[i].credited = SumFunctionOnSet(Column(F, Notes, i), Notes)
        BY DEF AreColumns
      <3>1. invoices[i].credited = SumFunction([n \in Notes |-> notes[n].applied[i]])
        BY DEF ReceivablesInv, BooksTie, CreditTies
      <3>2. [n \in Notes |-> notes[n].applied[i]] = Column(F, Notes, i)
        BY DEF Column
      <3>3. invoices[i].credited = SumFunction(Column(F, Notes, i))
        BY <3>1, <3>2, Zenon
      <3>4. DOMAIN Column(F, Notes, i) = Notes
        BY DEF Column
      <3> QED
        BY <3>3, <3>4 DEF SumFunction
    <2> HIDE DEF F, credited, applied
    <2> QED
      BY <1>1, <2>2, <2>3, <2>4, RowsAndColumns
  <1>8. SumFunctionOnSet(standing, Notes)
          = SumFunctionOnSet(remaining, Notes) + SumFunctionOnSet(applied, Notes)
    <2>1. \A n \in Notes : /\ remaining[n] \in Int /\ applied[n] \in Int
                           /\ standing[n] = remaining[n] + applied[n]
      BY Rows, StandingIs
    <2> HIDE DEF standing, remaining, applied
    <2> QED
      BY <1>1, <2>1, SumPlus
  <1>9. /\ SumFunctionOnSet(shown, Invoices) \in Int
        /\ SumFunctionOnSet(paid, Invoices) \in Int
        /\ SumFunctionOnSet(credited, Invoices) \in Int
        /\ SumFunctionOnSet(remaining, Notes) \in Int
    <2>1. \A n \in Notes : remaining[n] \in Int
      BY Rows DEF Note
    <2> HIDE DEF shown, paid, credited, remaining
    <2> QED
      BY <1>1, <1>3, <2>1, SumInt
  <1>10. SumFunction(remaining) = SumFunctionOnSet(remaining, Notes)
    BY DEF SumFunction
  <1>11. SumFunctionOnSet(balance, counted) - SumFunction(remaining) = ar
    <2> HIDE DEF counted, balance, shown, paid, credited, settled, billed, taken, standing, remaining, applied
    <2> QED
      BY <1>2, <1>4, <1>5, <1>6, <1>7, <1>8, <1>9, <1>10
  <1> QED
    BY <1>11 DEF ARIntegrity

\* The receivables integrity report balances unless an invoice was settled without a
\* posting, edited without one or below its credits, or missed by a receipt.
THEOREM DriftHasACause ==
    ASSUME ReceivablesAssumption
    PROVE  Spec => []DriftExplained
  <1>1. ReceivablesInv => DriftExplained
    BY DriftIsExplained DEF DriftExplained
  <1> QED
    BY <1>1, ReceivablesInvariant, PTL

=============================================================================

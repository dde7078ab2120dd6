---------------------------- MODULE PaymentProofs ----------------------------
(***************************************************************************)
(* Proofs about PaymentSettlement for any invoices, checkouts, events and  *)
(* number of webhook calls: the tables keep their types, no intent and no  *)
(* event is paid twice, the books tie, refunds stay within what they       *)
(* refund, and a confirmed checkout stays confirmed.                       *)
(***************************************************************************)
EXTENDS PaymentSettlement, SumTheorems, SequenceTheorems, TLAPS

\* Every invoice is partly paid and partly due.
Balanced == \A i \in Invoices : paid[i] + balance[i] = Total[i]

\* An event names a payment that exists.
PaymentsExist == \A e \in Events : events[e].payment \in 0..Len(payments)

\* An intent that was paid is not open any more, and never is again.
PaidIsClosed ==
    \A p \in DOMAIN payments :
        payments[p].intent # 0 =>
            /\ payments[p].intent \in DOMAIN intents
            /\ intents[payments[p].intent].status # "CREATED"

IInv == TypeOK /\ Balanced /\ PaymentsExist /\ PaidIsClosed /\ OneReceiptPerIntent

-----------------------------------------------------------------------------
(* Sequences.                                                              *)

\* A function on the domain of a sequence is a sequence of the same length.
LEMMA Rewritten ==
    ASSUME NEW S, NEW s \in Seq(S), NEW t \in [DOMAIN s -> S]
    PROVE  t \in Seq(S) /\ DOMAIN t = DOMAIN s /\ Len(t) = Len(s)
  <1>1. Len(s) \in Nat /\ DOMAIN s = 1..Len(s)
    OBVIOUS
  <1>2. t \in [1..Len(s) -> S]
    BY <1>1
  <1> QED
    BY <1>1, <1>2

\* Appending keeps what was there and adds one element.
LEMMA Appended ==
    ASSUME NEW S, NEW s \in Seq(S), NEW x \in S
    PROVE  /\ Append(s, x) \in Seq(S)
           /\ Len(Append(s, x)) = Len(s) + 1
           /\ DOMAIN Append(s, x) = DOMAIN s \cup {Len(s) + 1}
           /\ \A n \in DOMAIN s : Append(s, x)[n] = s[n]
           /\ Append(s, x)[Len(s) + 1] = x
           /\ Len(s) + 1 \notin DOMAIN s
  OBVIOUS

\* Amounts: a receipt moves what is due to what is paid, a refund back.
LEMMA Moved ==
    ASSUME NEW t \in Nat, NEW p \in Nat, NEW b \in Nat, NEW a \in Nat, p + b = t
    PROVE  /\ a <= b => p + a \in Nat /\ t - (p + a) \in Nat
           /\ p + a <= t => p + a \in Nat /\ t - (p + a) \in Nat
           /\ a <= p => p - a \in Nat /\ t - (p - a) \in Nat
           /\ (p + a) + (t - (p + a)) = t
           /\ (p - a) + (t - (p - a)) = t
  OBVIOUS

-----------------------------------------------------------------------------
(* Invoices under receipts and refunds.                                    *)

LEMMA ReceivedKeepsBalance ==
    ASSUME IInv, PaymentAssumption, NEW i \in Invoices, NEW a \in Nat,
           \/ a <= balance[i]
           \/ paid[i] + a <= Total[i],
           Received(i, a)
    PROVE  /\ paid' \in [Invoices -> Nat]
           /\ balance' \in [Invoices -> Nat]
           /\ Balanced'
  <1>1. paid \in [Invoices -> Nat] /\ balance \in [Invoices -> Nat] /\ Total \in [Invoices -> Nat]
    BY DEF IInv, TypeOK, PaymentAssumption
  <1>2. paid[i] + balance[i] = Total[i]
    BY DEF IInv, Balanced
  <1>3. paid[i] + a \in Nat /\ Total[i] - (paid[i] + a) \in Nat
    BY <1>1, <1>2, Moved
  <1>4. /\ paid' = [paid EXCEPT ![i] = paid[i] + a]
        /\ balance' = [balance EXCEPT ![i] = Total[i] - (paid[i] + a)]
    BY DEF Received
  <1>5. paid' \in [Invoices -> Nat] /\ balance' \in [Invoices -> Nat]
    BY <1>1, <1>3, <1>4
  <1>6. ASSUME NEW j \in Invoices PROVE paid'[j] + balance'[j] = Total[j]
    <2>1. CASE j = i
      BY <2>1, <1>1, <1>2, <1>4, Moved
    <2>2. CASE j # i
      BY <2>2, <1>1, <1>4 DEF IInv, Balanced
    <2> QED
      BY <2>1, <2>2
  <1> QED
    BY <1>5, <1>6 DEF Balanced

LEMMA ReturnedKeepsBalance ==
    ASSUME IInv, PaymentAssumption, NEW i \in Invoices, NEW a \in Nat, a <= paid[i],
           Returned(i, a)
    PROVE  /\ paid' \in [Invoices -> Nat]
           /\ balance' \in [Invoices -> Nat]
           /\ Balanced'
  <1>1. paid \in [Invoices -> Nat] /\ balance \in [Invoices -> Nat] /\ Total \in [Invoices -> Nat]
    BY DEF IInv, TypeOK, PaymentAssumption
  <1>2. paid[i] + balance[i] = Total[i]
    BY DEF IInv, Balanced
  <1>3. paid[i] - a \in Nat /\ Total[i] - (paid[i] - a) \in Nat
    BY <1>1, <1>2, Moved
  <1>4. /\ paid' = [paid EXCEPT ![i] = paid[i] - a]
        /\ balance' = [balance EXCEPT ![i] = Total[i] - (paid[i] - a)]
    BY DEF Returned
  <1>5. paid' \in [Invoices -> Nat] /\ balance' \in [Invoices -> Nat]
    BY <1>1, <1>3, <1>4
  <1>6. ASSUME NEW j \in Invoices PROVE paid'[j] + balance'[j] = Total[j]
    <2>1. CASE j = i
      BY <2>1, <1>1, <1>2, <1>4, Moved
    <2>2. CASE j # i
      BY <2>2, <1>1, <1>4 DEF IInv, Balanced
    <2> QED
      BY <2>1, <2>2
  <1> QED
    BY <1>5, <1>6 DEF Balanced

\* A payment that settles no intent leaves the intents' side as it is.
LEMMA PlainPayment ==
    ASSUME IInv, NEW x \in Payment, x.intent = 0,
           payments' = Append(payments, x), UNCHANGED intents
    PROVE  /\ payments' \in Seq(Payment)
           /\ Len(payments') = Len(payments) + 1
           /\ PaidIsClosed' /\ OneReceiptPerIntent'
  <1>1. payments \in Seq(Payment)
    BY DEF IInv, TypeOK
  <1>2. /\ payments' \in Seq(Payment)
        /\ Len(payments') = Len(payments) + 1
        /\ DOMAIN payments' = DOMAIN payments \cup {Len(payments) + 1}
        /\ \A n \in DOMAIN payments : payments'[n] = payments[n]
        /\ payments'[Len(payments) + 1] = x
    BY <1>1, Appended
  <1>3. PaidIsClosed'
    BY <1>2, Zenon DEF IInv, PaidIsClosed
  <1>4. ASSUME NEW m \in DOMAIN payments', NEW n \in DOMAIN payments',
               m # n, payments'[m].intent # 0
        PROVE  payments'[m].intent # payments'[n].intent
    <2>1. m \in DOMAIN payments
      BY <1>2, <1>4
    <2>2. CASE n \in DOMAIN payments
      BY <2>1, <2>2, <1>2, <1>4 DEF IInv, OneReceiptPerIntent
    <2>3. CASE n = Len(payments) + 1
      BY <2>3, <1>2, <1>4
    <2> QED
      BY <2>2, <2>3, <1>2
  <1>5. \A k \in DOMAIN intents' :
           intents'[k].status = "SUCCEEDED" => \E n \in DOMAIN payments' : payments'[n].intent = k
    BY <1>2, Zenon DEF IInv, OneReceiptPerIntent
  <1> QED
    BY <1>2, <1>3, <1>4, <1>5, Zenon DEF OneReceiptPerIntent

-----------------------------------------------------------------------------
(* The steps of Next, one lemma each where more than the position changes.  *)

\* A row with another status, of the same payment, is still a row.
LEMMA RowsKept ==
    ASSUME IInv, NEW e \in Events, NEW row \in EventRow,
           row.payment \in 0..Len(payments),
           events' = [events EXCEPT ![e] = row], UNCHANGED payments
    PROVE  events' \in [Events -> EventRow] /\ PaymentsExist'
  <1>1. events \in [Events -> EventRow]
    BY DEF IInv, TypeOK
  <1>2. events' \in [Events -> EventRow]
    BY <1>1
  <1>3. ASSUME NEW f \in Events PROVE events'[f].payment \in 0..Len(payments')
    <2>1. CASE f = e
      BY <2>1, <1>1
    <2>2. CASE f # e
      BY <2>2, <1>1 DEF IInv, PaymentsExist
    <2> QED
      BY <2>1, <2>2
  <1> QED
    BY <1>2, <1>3 DEF PaymentsExist

\* Steps that write no payment, no intent and no invoice.
LEMMA BooksKept ==
    ASSUME IInv, UNCHANGED <<intents, payments, paid, balance>>
    PROVE  Balanced' /\ PaidIsClosed' /\ OneReceiptPerIntent'
  <1>1. Balanced'
    BY DEF IInv, Balanced
  <1>2. PaidIsClosed'
    BY DEF IInv, PaidIsClosed
  <1>3. OneReceiptPerIntent'
    BY DEF IInv, OneReceiptPerIntent
  <1> QED
    BY <1>1, <1>2, <1>3

LEMMA InitInv == ASSUME PaymentAssumption, Init PROVE IInv
  <1>1. TypeOK
    BY DEF Init, TypeOK, PaymentAssumption, EventRow, EventStatus, PcValues, Payment, Intent
  <1>2. Balanced
    BY DEF Init, Balanced, PaymentAssumption
  <1>3. PaymentsExist
    BY DEF Init, PaymentsExist
  <1>4. PaidIsClosed /\ OneReceiptPerIntent
    BY DEF Init, PaidIsClosed, OneReceiptPerIntent
  <1> QED
    BY <1>1, <1>2, <1>3, <1>4 DEF IInv

LEMMA StartCheckoutStep ==
    ASSUME IInv, PaymentAssumption, NEW k \in Keys, StartCheckout(k) PROVE IInv'
  <1>1. TypeOK'
    BY DEF IInv, TypeOK, StartCheckout, money, bounds
  <1>2. PaymentsExist'
    BY DEF IInv, PaymentsExist, StartCheckout, money
  <1>3. Balanced' /\ PaidIsClosed' /\ OneReceiptPerIntent'
    BY BooksKept DEF StartCheckout, money
  <1> QED
    BY <1>1, <1>2, <1>3 DEF IInv

LEMMA FinishCheckoutStep ==
    ASSUME IInv, PaymentAssumption, NEW k \in Keys, FinishCheckout(k) PROVE IInv'
  <1> DEFINE x == [key |-> k, invoice |-> Checkout[k].invoice,
                   amount |-> Checkout[k].amount, status |-> "CREATED"]
  <1>1. x \in Intent /\ x.status = "CREATED"
    BY DEF Intent, IntentStatus, PaymentAssumption
  <1>2. intents \in Seq(Intent) /\ intents' = Append(intents, x)
    BY DEF IInv, TypeOK, FinishCheckout
  <1> HIDE DEF x
  <1>3. /\ intents' \in Seq(Intent)
        /\ DOMAIN intents' = DOMAIN intents \cup {Len(intents) + 1}
        /\ \A n \in DOMAIN intents : intents'[n] = intents[n]
        /\ intents'[Len(intents) + 1] = x
    BY <1>1, <1>2, Appended
  <1>4. UNCHANGED <<events, payments, entries, reversed, paid, balance, pc, cur, owed,
                    manual, faults, early, overlaps>> /\ opening' \subseteq opening
    BY DEF FinishCheckout, money, bounds
  <1>5. TypeOK'
    BY <1>3, <1>4 DEF IInv, TypeOK
  <1>6. Balanced' /\ PaymentsExist'
    BY <1>4 DEF IInv, Balanced, PaymentsExist
  <1>7. PaidIsClosed'
    BY <1>3, <1>4, Zenon DEF IInv, PaidIsClosed
  <1>8. ASSUME NEW m \in DOMAIN intents', intents'[m].status = "SUCCEEDED"
        PROVE  \E n \in DOMAIN payments' : payments'[n].intent = m
    <2>1. m # Len(intents) + 1
      BY <1>1, <1>3, <1>8
    <2>2. m \in DOMAIN intents /\ intents[m].status = "SUCCEEDED"
      BY <2>1, <1>3, <1>8
    <2> QED
      BY <2>2, <1>4 DEF IInv, OneReceiptPerIntent
  <1>9. OneReceiptPerIntent'
    BY <1>4, <1>8 DEF IInv, OneReceiptPerIntent
  <1> QED
    BY <1>5, <1>6, <1>7, <1>9 DEF IInv

\* Row e with the given status and age, of the same payment.
RowWith(e, s, o) ==
    [events EXCEPT ![e] = [status |-> s, old |-> o, payment |-> events[e].payment]]

\* The delivery's own statements on its event: everything but the settlement.
LEMMA RowStep ==
    ASSUME IInv, PaymentAssumption, NEW e \in Events,
           NEW s \in EventStatus, NEW o \in BOOLEAN,
           events' = RowWith(e, s, o),
           UNCHANGED <<intents, opening, payments, entries, reversed, paid, balance>>,
           pc' \in [Deliveries -> PcValues], cur' \in [Deliveries -> Events \cup {NoEvent}],
           \A d \in Deliveries : pc'[d] # "idle" => cur'[d] \in Events,
           owed' \in [Events -> Nat],
           {manual, faults, early, overlaps}' \subseteq Nat
    PROVE  IInv'
  <1> DEFINE row == [status |-> s, old |-> o, payment |-> events[e].payment]
  <1>1. row \in EventRow /\ row.payment \in 0..Len(payments)
    BY DEF IInv, TypeOK, EventRow, PaymentsExist
  <1>2. events' = [events EXCEPT ![e] = row]
    BY DEF RowWith
  <1> HIDE DEF row
  <1>3. events' \in [Events -> EventRow] /\ PaymentsExist'
    BY <1>1, <1>2, RowsKept
  <1>4. TypeOK'
    BY <1>3 DEF IInv, TypeOK
  <1>5. Balanced' /\ PaidIsClosed' /\ OneReceiptPerIntent'
    BY BooksKept
  <1> QED
    BY <1>3, <1>4, <1>5 DEF IInv

\* Where the deliveries stand: d moves to p with event e, the others stay.
LEMMA Moves ==
    ASSUME IInv, NEW d \in Deliveries, NEW p \in PcValues, NEW e \in Events \cup {NoEvent},
           pc' = [pc EXCEPT ![d] = p], cur' = [cur EXCEPT ![d] = e],
           p # "idle" => e \in Events
    PROVE  /\ pc' \in [Deliveries -> PcValues]
           /\ cur' \in [Deliveries -> Events \cup {NoEvent}]
           /\ \A c \in Deliveries : pc'[c] # "idle" => cur'[c] \in Events
  BY DEF IInv, TypeOK

LEMMA Stays ==
    ASSUME IInv, NEW d \in Deliveries, NEW p \in PcValues, pc[d] # "idle",
           pc' = [pc EXCEPT ![d] = p], cur' = cur
    PROVE  /\ cur[d] \in Events
           /\ pc' \in [Deliveries -> PcValues]
           /\ cur' \in [Deliveries -> Events \cup {NoEvent}]
           /\ \A c \in Deliveries : pc'[c] # "idle" => cur'[c] \in Events
  BY DEF IInv, TypeOK

\* Counters.
LEMMA Counters ==
    ASSUME IInv,
           manual' = manual \/ manual' = manual + 1,
           faults' = faults \/ faults' = faults + 1,
           early' = early \/ early' = early + 1,
           overlaps' = overlaps \/ overlaps' = overlaps + 1
    PROVE  {manual, faults, early, overlaps}' \subseteq Nat
  BY DEF IInv, TypeOK

\* A record is the tuple of its fields.
LEMMA Fields ==
    ASSUME NEW row \in EventRow
    PROVE  /\ row.status \in EventStatus /\ row.old \in BOOLEAN /\ row.payment \in Nat
           /\ row = [status |-> row.status, old |-> row.old, payment |-> row.payment]
           /\ \A s : [row EXCEPT !.status = s]
                       = [status |-> s, old |-> row.old, payment |-> row.payment]
           /\ \A o : [row EXCEPT !.old = o]
                       = [status |-> row.status, old |-> o, payment |-> row.payment]
  <1>1. row.status \in EventStatus /\ row.old \in BOOLEAN /\ row.payment \in Nat
    BY DEF EventRow
  <1>2. row = [status |-> row.status, old |-> row.old, payment |-> row.payment]
    BY DEF EventRow
  <1>3. ASSUME NEW s
        PROVE  [row EXCEPT !.status = s]
                 = [status |-> s, old |-> row.old, payment |-> row.payment]
    BY <1>2
  <1>4. ASSUME NEW o
        PROVE  [row EXCEPT !.old = o]
                 = [status |-> row.status, old |-> o, payment |-> row.payment]
    BY <1>2
  <1> QED
    BY <1>1, <1>2, <1>3, <1>4

LEMMA Row ==
    ASSUME IInv, NEW e \in Events
    PROVE  /\ events[e].status \in EventStatus /\ events[e].old \in BOOLEAN
           /\ events = RowWith(e, events[e].status, events[e].old)
           /\ \A s : [events EXCEPT ![e].status = s] = RowWith(e, s, events[e].old)
           /\ \A o : [events EXCEPT ![e].old = o] = RowWith(e, events[e].status, o)
  <1>1. events \in [Events -> EventRow] /\ events[e] \in EventRow
    BY DEF IInv, TypeOK
  <1>2. events = [events EXCEPT ![e] = events[e]]
    BY <1>1
  <1>3. events[e].status \in EventStatus /\ events[e].old \in BOOLEAN
    BY <1>1, Fields
  <1>4. events = RowWith(e, events[e].status, events[e].old)
    BY <1>1, <1>2, Fields DEF RowWith
  <1>5. ASSUME NEW s PROVE [events EXCEPT ![e].status = s] = RowWith(e, s, events[e].old)
    <2>1. [events[e] EXCEPT !.status = s]
            = [status |-> s, old |-> events[e].old, payment |-> events[e].payment]
      BY <1>1, Fields
    <2> QED
      BY <2>1 DEF RowWith
  <1>6. ASSUME NEW o PROVE [events EXCEPT ![e].old = o] = RowWith(e, events[e].status, o)
    <2>1. [events[e] EXCEPT !.old = o]
            = [status |-> events[e].status, old |-> o, payment |-> events[e].payment]
      BY <1>1, Fields
    <2> QED
      BY <2>1 DEF RowWith
  <1> QED
    BY <1>3, <1>4, <1>5, <1>6

LEMMA DeliverStep ==
    ASSUME IInv, PaymentAssumption, NEW d \in Deliveries, NEW e \in Events, Deliver(d, e)
    PROVE  IInv'
  <1> DEFINE s == IF events[e].status = "ABSENT" THEN "RECEIVED" ELSE events[e].status
  <1>1. s \in EventStatus /\ events' = [events EXCEPT ![e].status = s]
    BY Row DEF Deliver, EventStatus
  <1>2. events' = RowWith(e, s, events[e].old)
    BY <1>1, Row
  <1>3. /\ pc' \in [Deliveries -> PcValues]
        /\ cur' \in [Deliveries -> Events \cup {NoEvent}]
        /\ \A c \in Deliveries : pc'[c] # "idle" => cur'[c] \in Events
    BY Moves DEF Deliver, PcValues
  <1>4. owed' \in [Events -> Nat]
    BY DEF Deliver, IInv, TypeOK
  <1>5. {manual, faults, early, overlaps}' \subseteq Nat
    BY Counters DEF Deliver, bounds
  <1>6. UNCHANGED <<intents, opening, payments, entries, reversed, paid, balance>>
    BY DEF Deliver, money
  <1> HIDE DEF s
  <1> QED
    BY <1>1, <1>2, <1>3, <1>4, <1>5, <1>6, Row, RowStep

LEMMA ClaimStep ==
    ASSUME IInv, PaymentAssumption, NEW d \in Deliveries, Claim(d) PROVE IInv'
  <1>1. /\ cur[d] \in Events
        /\ pc' \in [Deliveries -> PcValues]
        /\ cur' \in [Deliveries -> Events \cup {NoEvent}]
        /\ \A c \in Deliveries : pc'[c] # "idle" => cur'[c] \in Events
    BY Stays DEF Claim, PcValues
  <1>2. events' = RowWith(cur[d], "PROCESSING", events[cur[d]].old)
    BY <1>1, Row DEF Claim
  <1>3. {manual, faults, early, overlaps}' \subseteq Nat
    BY Counters DEF Claim
  <1>4. UNCHANGED <<intents, opening, payments, entries, reversed, paid, balance, owed>>
    BY DEF Claim, money
  <1>5. owed' \in [Events -> Nat] /\ "PROCESSING" \in EventStatus
    BY <1>4 DEF IInv, TypeOK, EventStatus
  <1> QED
    BY <1>1, <1>2, <1>3, <1>4, <1>5, Row, RowStep

\* AlreadyProcessed, CloseRefused, Refuse, Answer and Fault move the delivery and
\* leave the tables alone.
LEMMA MoveStep ==
    ASSUME IInv, PaymentAssumption, NEW d \in Deliveries,
           AlreadyProcessed(d) \/ CloseRefused(d) \/ Refuse(d) \/ Answer(d) \/ Fault(d)
    PROVE  IInv'
  <1>1. cur[d] \in Events
    BY DEF IInv, TypeOK, AlreadyProcessed, CloseRefused, Refuse, Answer, Fault
  <1>2. /\ pc' \in [Deliveries -> PcValues]
        /\ cur' \in [Deliveries -> Events \cup {NoEvent}]
        /\ \A c \in Deliveries : pc'[c] # "idle" => cur'[c] \in Events
    <2>1. CASE AlreadyProcessed(d) \/ Refuse(d)
      BY <2>1, Stays DEF AlreadyProcessed, Refuse, PcValues
    <2>2. CASE CloseRefused(d) \/ Answer(d) \/ Fault(d)
      BY <2>2, Moves DEF CloseRefused, Answer, Fault, Unanswered, PcValues
    <2> QED
      BY <2>1, <2>2
  <1>3. {manual, faults, early, overlaps}' \subseteq Nat
    BY Counters DEF AlreadyProcessed, CloseRefused, Refuse, Answer, Fault, bounds
  <1>4. UNCHANGED <<events, intents, opening, payments, entries, reversed, paid, balance>>
    BY DEF AlreadyProcessed, CloseRefused, Refuse, Answer, Fault, money
  <1>5. owed' \in [Events -> Nat]
    BY <1>1 DEF IInv, TypeOK, AlreadyProcessed, CloseRefused, Refuse, Answer, Fault, Unanswered
  <1>6. events' = RowWith(cur[d], events[cur[d]].status, events[cur[d]].old)
    BY <1>1, <1>4, Row
  <1> QED
    BY <1>1, <1>2, <1>3, <1>4, <1>5, <1>6, Row, RowStep

\* Ignore and MarkFailed write the status of the row.
LEMMA EndStep ==
    ASSUME IInv, PaymentAssumption, NEW d \in Deliveries, Ignore(d) \/ MarkFailed(d)
    PROVE  IInv'
  <1>1. /\ cur[d] \in Events
        /\ pc' \in [Deliveries -> PcValues]
        /\ cur' \in [Deliveries -> Events \cup {NoEvent}]
        /\ \A c \in Deliveries : pc'[c] # "idle" => cur'[c] \in Events
    BY Stays DEF Ignore, MarkFailed, PcValues
  <1>2. \E s \in EventStatus, o \in BOOLEAN :
           events' = RowWith(cur[d], s, o)
    <2>1. CASE Ignore(d)
      BY <2>1, <1>1 DEF Ignore, EventStatus, RowWith
    <2>2. CASE MarkFailed(d)
      <3>1. events' = RowWith(cur[d], "FAILED", events[cur[d]].old)
        BY <2>2, <1>1, Row DEF MarkFailed
      <3> QED
        BY <3>1, <1>1, Row DEF EventStatus
    <2> QED
      BY <2>1, <2>2
  <1>3. {manual, faults, early, overlaps}' \subseteq Nat
    BY Counters DEF Ignore, MarkFailed, bounds
  <1>4. UNCHANGED <<intents, opening, payments, entries, reversed, paid, balance, owed>>
    BY DEF Ignore, MarkFailed, money
  <1>5. owed' \in [Events -> Nat]
    BY <1>4 DEF IInv, TypeOK
  <1> QED
    BY <1>1, <1>2, <1>3, <1>4, <1>5, RowStep

LEMMA AgeStep ==
    ASSUME IInv, PaymentAssumption, NEW e \in Events, Age(e) PROVE IInv'
  <1>1. events' = RowWith(e, events[e].status, TRUE)
    BY Row DEF Age
  <1>2. UNCHANGED <<intents, opening, payments, entries, reversed, paid, balance,
                    pc, cur, owed, manual, faults, early, overlaps>>
    BY DEF Age, money, bounds
  <1>3. /\ pc' \in [Deliveries -> PcValues]
        /\ cur' \in [Deliveries -> Events \cup {NoEvent}]
        /\ \A c \in Deliveries : pc'[c] # "idle" => cur'[c] \in Events
        /\ owed' \in [Events -> Nat]
        /\ {manual, faults, early, overlaps}' \subseteq Nat
    BY <1>2 DEF IInv, TypeOK
  <1> QED
    BY <1>1, <1>2, <1>3, Row, RowStep

\* A cancellation rewrites the status of intents, to a status that is neither
\* CREATED nor SUCCEEDED.
LEMMA CloseIntentStep ==
    ASSUME IInv, PaymentAssumption, NEW d \in Deliveries, CloseIntent(d) PROVE IInv'
  <1> DEFINE N == IntentsOf(Info[cur[d]].key)
             closed == IF Info[cur[d]].kind = "cancellation" THEN "CANCELLED" ELSE "EXPIRED"
             t == [n \in DOMAIN intents |->
                     IF n \in N THEN [intents[n] EXCEPT !.status = closed] ELSE intents[n]]
  <1>1. intents \in Seq(Intent) /\ intents' = t
    BY DEF CloseIntent, IInv, TypeOK
  <1>2. closed \in {"CANCELLED", "EXPIRED"}
    OBVIOUS
  <1> HIDE DEF closed, N
  <1>3. \A n \in DOMAIN intents : intents[n] \in Intent
    BY <1>1
  <1>4. \A n \in DOMAIN intents : [intents[n] EXCEPT !.status = closed] \in Intent
    BY <1>2, <1>3 DEF Intent, IntentStatus
  <1>5. t \in [DOMAIN intents -> Intent]
    BY <1>3, <1>4
  <1>6. t \in Seq(Intent) /\ DOMAIN t = DOMAIN intents
    BY <1>1, <1>5, Rewritten
  <1>7. \A n \in DOMAIN intents :
           t[n].status = intents[n].status \/ t[n].status \in {"CANCELLED", "EXPIRED"}
    BY <1>2, <1>3 DEF Intent
  <1> HIDE DEF t
  <1>8. UNCHANGED <<events, opening, payments, entries, reversed, paid, balance, cur, owed,
                    manual, faults, early, overlaps>>
    BY DEF CloseIntent, money, bounds
  <1>9. /\ pc' \in [Deliveries -> PcValues]
        /\ cur' \in [Deliveries -> Events \cup {NoEvent}]
        /\ \A c \in Deliveries : pc'[c] # "idle" => cur'[c] \in Events
    BY Stays DEF CloseIntent, PcValues
  <1>10. TypeOK'
    BY <1>1, <1>6, <1>8, <1>9 DEF IInv, TypeOK
  <1>11. Balanced' /\ PaymentsExist'
    BY <1>8 DEF IInv, Balanced, PaymentsExist
  <1>12. PaidIsClosed'
    BY <1>1, <1>6, <1>7, <1>8 DEF IInv, PaidIsClosed
  <1>13. ASSUME NEW n \in DOMAIN intents', intents'[n].status = "SUCCEEDED"
         PROVE  \E p \in DOMAIN payments' : payments'[p].intent = n
    <2>1. n \in DOMAIN intents /\ intents[n].status = "SUCCEEDED"
      BY <1>1, <1>6, <1>7, <1>13
    <2> QED
      BY <2>1, <1>8 DEF IInv, OneReceiptPerIntent
  <1>14. OneReceiptPerIntent'
    BY <1>8, <1>13 DEF IInv, OneReceiptPerIntent
  <1> QED
    BY <1>10, <1>11, <1>12, <1>14 DEF IInv

\* What every settlement leaves: the delivery waits to answer.
LEMMA SettledTypes ==
    ASSUME IInv, NEW d \in Deliveries, pc[d] = "claimed", Settled(d)
    PROVE  /\ cur[d] \in Events
           /\ opening' \subseteq Keys
           /\ pc' \in [Deliveries -> PcValues]
           /\ cur' \in [Deliveries -> Events \cup {NoEvent}]
           /\ \A c \in Deliveries : pc'[c] # "idle" => cur'[c] \in Events
           /\ owed' \in [Events -> Nat]
           /\ {manual, faults, early, overlaps}' \subseteq Nat
  BY DEF IInv, TypeOK, Settled, bounds, PcValues

\* The PROCESSED row of a settlement that names payment p.
LEMMA PostedRow ==
    ASSUME IInv, NEW e \in Events, NEW p \in Nat
    PROVE  /\ Posted(e, p) \in [Events -> EventRow]
           /\ \A f \in Events : Posted(e, p)[f].payment \in {p, events[f].payment}
  <1>1. events \in [Events -> EventRow]
    BY DEF IInv, TypeOK
  <1>2. [status |-> "PROCESSED", old |-> FALSE, payment |-> p] \in EventRow
    BY DEF EventRow, EventStatus
  <1>3. Posted(e, p) \in [Events -> EventRow]
    BY <1>1, <1>2 DEF Posted
  <1>4. ASSUME NEW f \in Events PROVE Posted(e, p)[f].payment \in {p, events[f].payment}
    <2>1. CASE f = e
      BY <2>1, <1>1 DEF Posted
    <2>2. CASE f # e
      BY <2>2, <1>1 DEF Posted
    <2> QED
      BY <2>1, <2>2
  <1> QED
    BY <1>3, <1>4

\* A payment that settles intent n, which was open: n becomes SUCCEEDED and has
\* this payment and no other.
LEMMA IntentPayment ==
    ASSUME IInv, NEW n \in DOMAIN intents, intents[n].status = "CREATED",
           NEW x \in Payment, x.intent = n,
           payments' = Append(payments, x),
           intents' = [m \in DOMAIN intents |->
                          IF m = n THEN [intents[m] EXCEPT !.status = "SUCCEEDED"]
                          ELSE intents[m]]
    PROVE  /\ payments' \in Seq(Payment) /\ Len(payments') = Len(payments) + 1
           /\ intents' \in Seq(Intent)
           /\ PaidIsClosed' /\ OneReceiptPerIntent'
  <1>1. payments \in Seq(Payment) /\ intents \in Seq(Intent)
    BY DEF IInv, TypeOK
  <1>2. /\ payments' \in Seq(Payment)
        /\ Len(payments') = Len(payments) + 1
        /\ DOMAIN payments' = DOMAIN payments \cup {Len(payments) + 1}
        /\ \A m \in DOMAIN payments : payments'[m] = payments[m]
        /\ payments'[Len(payments) + 1] = x
    BY <1>1, Appended
  <1>3. \A m \in DOMAIN intents : intents[m] \in Intent
    BY <1>1
  <1>4. [intents[n] EXCEPT !.status = "SUCCEEDED"] \in Intent
    BY <1>3 DEF Intent, IntentStatus
  <1>5. intents' \in [DOMAIN intents -> Intent]
    BY <1>3, <1>4
  <1>6. intents' \in Seq(Intent) /\ DOMAIN intents' = DOMAIN intents
    BY <1>1, <1>5, Rewritten
  <1>7. /\ intents'[n].status = "SUCCEEDED"
        /\ \A m \in DOMAIN intents : m # n => intents'[m] = intents[m]
    BY <1>3 DEF Intent
  <1>8. \A m \in DOMAIN payments : payments[m].intent # n
    <2>1. n # 0
      BY <1>1
    <2> QED
      BY <2>1 DEF IInv, PaidIsClosed
  <1>9. PaidIsClosed'
    <2> SUFFICES ASSUME NEW m \in DOMAIN payments', payments'[m].intent # 0
                 PROVE  /\ payments'[m].intent \in DOMAIN intents'
                        /\ intents'[payments'[m].intent].status # "CREATED"
      BY DEF PaidIsClosed
    <2>1. CASE m \in DOMAIN payments
      BY <2>1, <1>2, <1>6, <1>7, <1>8 DEF IInv, PaidIsClosed
    <2>2. CASE m = Len(payments) + 1
      BY <2>2, <1>2, <1>6, <1>7
    <2> QED
      BY <2>1, <2>2, <1>2
  <1>10. ASSUME NEW l \in DOMAIN payments', NEW m \in DOMAIN payments', l # m,
                payments'[l].intent # 0
         PROVE  payments'[l].intent # payments'[m].intent
    <2>1. CASE l \in DOMAIN payments /\ m \in DOMAIN payments
      BY <2>1, <1>2, <1>10 DEF IInv, OneReceiptPerIntent
    <2>2. CASE l = Len(payments) + 1 /\ m \in DOMAIN payments
      BY <2>2, <1>2, <1>8
    <2>3. CASE m = Len(payments) + 1 /\ l \in DOMAIN payments
      BY <2>3, <1>2, <1>8
    <2> QED
      BY <2>1, <2>2, <2>3, <1>2, <1>10
  <1>11. ASSUME NEW k \in DOMAIN intents', intents'[k].status = "SUCCEEDED"
         PROVE  \E m \in DOMAIN payments' : payments'[m].intent = k
    <2>1. CASE k = n
      BY <2>1, <1>2
    <2>2. CASE k # n
      BY <2>2, <1>2, <1>6, <1>7, <1>11 DEF IInv, OneReceiptPerIntent
    <2> QED
      BY <2>1, <2>2
  <1>12. OneReceiptPerIntent'
    BY <1>10, <1>11, Zenon DEF OneReceiptPerIntent
  <1> QED
    BY <1>2, <1>6, <1>9, <1>12

LEMMA SettleReceiptStep ==
    ASSUME IInv, PaymentAssumption, NEW d \in Deliveries, SettleReceipt(d) PROVE IInv'
  <1> DEFINE e == cur[d]
             i == Info[e].invoice
             a == Info[e].amount
  <1>1. pc[d] = "claimed" /\ Settled(d) /\ Covered(i, a) /\ Received(i, a)
    BY DEF SettleReceipt
  <1>2. e \in Events
    BY <1>1, SettledTypes
  <1>3. i \in Invoices /\ a \in Nat
    BY <1>2 DEF PaymentAssumption
  <1>4. paid' \in [Invoices -> Nat] /\ balance' \in [Invoices -> Nat] /\ Balanced'
    BY <1>1, <1>3, ReceivedKeepsBalance DEF Covered
  <1>5. PICK n \in IntentsFor(e) :
            /\ IntentOpen(n, e)
            /\ payments' = Append(payments, [event |-> e, intent |-> n, invoice |-> i,
                                             amount |-> a])
            /\ intents' = [m \in DOMAIN intents |->
                              IF m = n THEN [intents[m] EXCEPT !.status = "SUCCEEDED"]
                              ELSE intents[m]]
    BY DEF SettleReceipt
  <1>6. intents \in Seq(Intent) /\ Len(payments) \in Nat
    BY DEF IInv, TypeOK
  <1>7. n \in DOMAIN intents \/ n = 0
    BY <1>5 DEF IntentsFor, IntentsOf
  <1>8. n \in Nat
    BY <1>6, <1>7
  <1> DEFINE x == [event |-> e, intent |-> n, invoice |-> i, amount |-> a]
  <1>9. x \in Payment /\ x.intent = n
    BY <1>2, <1>3, <1>8 DEF Payment
  <1>10. /\ payments' \in Seq(Payment) /\ Len(payments') = Len(payments) + 1
         /\ intents' \in Seq(Intent)
         /\ PaidIsClosed' /\ OneReceiptPerIntent'
    <2>1. CASE n = 0
      <3>1. 0 \notin DOMAIN intents
        BY <1>6
      <3>2. intents' = [m \in DOMAIN intents |-> intents[m]]
        BY <1>5, <2>1, <3>1
      <3>3. intents' = intents
        BY <3>2, <1>6
      <3> QED
        BY <2>1, <3>3, <1>5, <1>6, <1>9, PlainPayment
    <2>2. CASE n \in DOMAIN intents /\ n # 0
      <3>1. intents[n].status = "CREATED"
        BY <2>2, <1>5 DEF IntentOpen
      <3> QED
        BY <2>2, <3>1, <1>5, <1>9, IntentPayment
    <2> QED
      BY <2>1, <2>2, <1>7
  <1>11. events' = Posted(e, Len(payments) + 1)
    BY DEF SettleReceipt
  <1>12. events' \in [Events -> EventRow]
    BY <1>2, <1>6, <1>11, PostedRow
  <1>13. PaymentsExist'
    <2> SUFFICES ASSUME NEW f \in Events PROVE events'[f].payment \in 0..Len(payments')
      BY DEF PaymentsExist
    <2>1. events'[f].payment \in {Len(payments) + 1, events[f].payment}
      BY <1>2, <1>6, <1>11, PostedRow
    <2>2. events[f].payment \in 0..Len(payments)
      BY DEF IInv, PaymentsExist
    <2> QED
      BY <2>1, <2>2, <1>6, <1>10
  <1>14. UNCHANGED <<entries, reversed>>
    BY DEF SettleReceipt
  <1> HIDE DEF e, i, a
  <1>15. TypeOK'
    BY <1>1, <1>4, <1>10, <1>12, <1>14, SettledTypes DEF IInv, TypeOK
  <1> QED
    BY <1>4, <1>10, <1>13, <1>15 DEF IInv

LEMMA SettlePayoutStep ==
    ASSUME IInv, PaymentAssumption, NEW d \in Deliveries, SettlePayout(d) PROVE IInv'
  <1>1. pc[d] = "claimed" /\ Settled(d) /\ events' = Posted(cur[d], 0)
        /\ entries' = entries \cup {cur[d]}
        /\ UNCHANGED <<intents, payments, reversed, paid, balance>>
    BY DEF SettlePayout
  <1>2. cur[d] \in Events
    BY <1>1, SettledTypes
  <1>3. events' \in [Events -> EventRow]
        /\ \A f \in Events : events'[f].payment \in {0, events[f].payment}
    BY <1>1, <1>2, PostedRow
  <1>4. TypeOK'
    BY <1>1, <1>2, <1>3, SettledTypes DEF IInv, TypeOK
  <1>5. PaymentsExist'
    <2> SUFFICES ASSUME NEW f \in Events PROVE events'[f].payment \in 0..Len(payments')
      BY DEF PaymentsExist
    <2>1. events[f].payment \in 0..Len(payments) /\ Len(payments) \in Nat
      BY DEF IInv, PaymentsExist, TypeOK
    <2> QED
      BY <2>1, <1>1, <1>3
  <1>6. Balanced' /\ PaidIsClosed' /\ OneReceiptPerIntent'
    BY <1>1, BooksKept
  <1> QED
    BY <1>4, <1>5, <1>6 DEF IInv

\* The event that a reference matches names a payment and, by it, an invoice.
LEMMA OriginalPayment ==
    ASSUME IInv, NEW e, NEW C, C \subseteq Events, NEW original \in Matching(e, C)
    PROVE  /\ original \in Events
           /\ events[original].payment \in DOMAIN payments
           /\ payments[events[original].payment] \in Payment
           /\ payments[events[original].payment].invoice \in Invoices
  <1>1. original \in Events /\ events[original].payment # 0
    BY DEF Matching
  <1>2. payments \in Seq(Payment) /\ events[original].payment \in 0..Len(payments)
    BY <1>1 DEF IInv, TypeOK, PaymentsExist
  <1>3. events[original].payment \in DOMAIN payments
    BY <1>1, <1>2
  <1>4. payments[events[original].payment] \in Payment
    BY <1>2, <1>3
  <1>5. \A x \in Payment : x.invoice \in Invoices
    BY DEF Payment
  <1> QED
    BY <1>1, <1>3, <1>4, <1>5

LEMMA SettleRefundStep ==
    ASSUME IInv, PaymentAssumption, NEW d \in Deliveries, SettleRefund(d) PROVE IInv'
  <1>1. pc[d] = "claimed" /\ Settled(d) /\ entries' = entries \cup {cur[d]}
        /\ UNCHANGED <<intents, payments, reversed>>
    BY DEF SettleRefund
  <1>2. cur[d] \in Events /\ Info[cur[d]].amount \in Nat
    BY <1>1, SettledTypes DEF PaymentAssumption
  <1>3. PICK original \in Matching(cur[d], Events) :
            /\ Info[cur[d]].amount <= paid[payments[events[original].payment].invoice]
            /\ Returned(payments[events[original].payment].invoice, Info[cur[d]].amount)
            /\ events' = Posted(cur[d], events[original].payment)
    BY DEF SettleRefund
  <1>4. /\ events[original].payment \in DOMAIN payments
        /\ payments[events[original].payment].invoice \in Invoices
    BY <1>3, OriginalPayment
  <1>5. events[original].payment \in Nat /\ events[original].payment \in 0..Len(payments)
    BY <1>4 DEF IInv, TypeOK
  <1>6. paid' \in [Invoices -> Nat] /\ balance' \in [Invoices -> Nat] /\ Balanced'
    BY <1>2, <1>3, <1>4, ReturnedKeepsBalance
  <1>7. events' \in [Events -> EventRow]
        /\ \A f \in Events : events'[f].payment \in {events[original].payment, events[f].payment}
    BY <1>2, <1>3, <1>5, PostedRow
  <1>8. TypeOK'
    BY <1>1, <1>2, <1>6, <1>7, SettledTypes DEF IInv, TypeOK
  <1>9. PaymentsExist'
    BY <1>1, <1>5, <1>7 DEF IInv, PaymentsExist
  <1>10. PaidIsClosed' /\ OneReceiptPerIntent'
    BY <1>1 DEF IInv, PaidIsClosed, OneReceiptPerIntent
  <1> QED
    BY <1>6, <1>8, <1>9, <1>10 DEF IInv

LEMMA SettleReinstatementStep ==
    ASSUME IInv, PaymentAssumption, NEW d \in Deliveries, SettleReinstatement(d)
    PROVE  IInv'
  <1>1. pc[d] = "claimed" /\ Settled(d) /\ UNCHANGED <<intents, payments, entries>>
    BY DEF SettleReinstatement
  <1>2. cur[d] \in Events /\ Info[cur[d]].amount \in Nat
    BY <1>1, SettledTypes DEF PaymentAssumption
  <1>3. PICK original \in Matching(cur[d], Refunds) :
            LET i == payments[events[original].payment].invoice
                posted == Posted(cur[d], events[original].payment)
            IN  /\ paid[i] + Info[cur[d]].amount <= Total[i]
                /\ reversed' = reversed \cup {original}
                /\ Received(i, Info[cur[d]].amount)
                /\ events' = [posted EXCEPT ![original].status = "REVERSED"]
    BY DEF SettleReinstatement
  <1> DEFINE posted == Posted(cur[d], events[original].payment)
             p == events[original].payment
  <1>4. original \in Events /\ p \in DOMAIN payments /\ payments[p].invoice \in Invoices
    BY <1>3, OriginalPayment DEF Refunds
  <1>5. p \in Nat /\ p \in 0..Len(payments)
    BY <1>4 DEF IInv, TypeOK
  <1>6. paid' \in [Invoices -> Nat] /\ balance' \in [Invoices -> Nat] /\ Balanced'
    BY <1>2, <1>3, <1>4, ReceivedKeepsBalance
  <1>7. posted \in [Events -> EventRow]
        /\ \A f \in Events : posted[f].payment \in {p, events[f].payment}
    BY <1>2, <1>5, PostedRow
  <1>8. events' = [posted EXCEPT ![original].status = "REVERSED"]
    BY <1>3
  <1>9. reversed' \subseteq Events
    BY <1>3, <1>4 DEF IInv, TypeOK
  <1> HIDE DEF posted, p
  <1>10. events' \in [Events -> EventRow]
         /\ \A f \in Events : events'[f].payment = posted[f].payment
    <2>1. posted[original] \in EventRow
      BY <1>4, <1>7
    <2>2. [posted[original] EXCEPT !.status = "REVERSED"]
            = [status |-> "REVERSED", old |-> posted[original].old,
               payment |-> posted[original].payment]
      BY <2>1, Fields
    <2>3. events' = [posted EXCEPT ![original] = [posted[original] EXCEPT !.status = "REVERSED"]]
      BY <1>8
    <2>4. [status |-> "REVERSED", old |-> posted[original].old,
           payment |-> posted[original].payment] \in EventRow
      BY <2>1 DEF EventRow, EventStatus
    <2> QED
      BY <2>2, <2>3, <2>4, <1>4, <1>7
  <1>11. TypeOK'
    BY <1>1, <1>2, <1>6, <1>9, <1>10, SettledTypes DEF IInv, TypeOK
  <1>12. PaymentsExist'
    BY <1>1, <1>5, <1>7, <1>10 DEF IInv, PaymentsExist
  <1>13. PaidIsClosed' /\ OneReceiptPerIntent'
    BY <1>1 DEF IInv, PaidIsClosed, OneReceiptPerIntent
  <1> QED
    BY <1>6, <1>11, <1>12, <1>13 DEF IInv

LEMMA RecordPaymentStep ==
    ASSUME IInv, PaymentAssumption, NEW i \in Invoices, NEW a \in Amounts,
           RecordPayment(i, a)
    PROVE  IInv'
  <1>1. a \in Nat /\ a <= balance[i] /\ Received(i, a)
    BY DEF PaymentAssumption, RecordPayment, Covered
  <1>2. paid' \in [Invoices -> Nat] /\ balance' \in [Invoices -> Nat] /\ Balanced'
    BY <1>1, ReceivedKeepsBalance
  <1> DEFINE x == [event |-> NoEvent, intent |-> 0, invoice |-> i, amount |-> a]
  <1>3. x \in Payment /\ x.intent = 0 /\ payments' = Append(payments, x)
    BY <1>1 DEF Payment, RecordPayment
  <1> HIDE DEF x
  <1>4. UNCHANGED <<events, intents, opening, entries, reversed, pc, cur, owed,
                    faults, early, overlaps>> /\ manual' = manual + 1
    BY DEF RecordPayment
  <1>5. /\ payments' \in Seq(Payment)
        /\ Len(payments') = Len(payments) + 1
        /\ PaidIsClosed' /\ OneReceiptPerIntent'
    BY <1>3, <1>4, PlainPayment
  <1>6. TypeOK'
    <2>1. {manual, faults, early, overlaps}' \subseteq Nat
      BY <1>4, Counters
    <2> QED
      BY <2>1, <1>2, <1>4, <1>5 DEF IInv, TypeOK
  <1>7. PaymentsExist'
    <2> SUFFICES ASSUME NEW f \in Events PROVE events'[f].payment \in 0..Len(payments')
      BY DEF PaymentsExist
    <2>1. events[f].payment \in 0..Len(payments) /\ Len(payments) \in Nat
      BY DEF IInv, PaymentsExist, TypeOK
    <2> QED
      BY <2>1, <1>4, <1>5
  <1> QED
    BY <1>2, <1>5, <1>6, <1>7 DEF IInv

LEMMA NextInv == ASSUME IInv, PaymentAssumption, [Next]_vars PROVE IInv'
  <1>1. CASE \E k \in Keys : StartCheckout(k) \/ FinishCheckout(k)
    BY <1>1, StartCheckoutStep, FinishCheckoutStep
  <1>2. CASE \E d \in Deliveries, e \in Events : Deliver(d, e)
    BY <1>2, DeliverStep
  <1>3. CASE \E d \in Deliveries : Work(d) \/ Fault(d)
    BY <1>3, ClaimStep, MoveStep, EndStep, CloseIntentStep, SettleReceiptStep,
       SettlePayoutStep, SettleRefundStep, SettleReinstatementStep DEF Work
  <1>4. CASE \E e \in Events : Age(e)
    BY <1>4, AgeStep
  <1>5. CASE \E i \in Invoices, amount \in Amounts : RecordPayment(i, amount)
    BY <1>5, RecordPaymentStep
  <1>6. CASE UNCHANGED vars
    <2>1. UNCHANGED <<events, intents, opening, payments, entries, reversed, paid, balance,
                      pc, cur, owed, manual, faults, early, overlaps>>
      BY <1>6 DEF vars, money, bounds
    <2>2. TypeOK'
      BY <2>1 DEF IInv, TypeOK
    <2>3. PaymentsExist'
      BY <2>1 DEF IInv, PaymentsExist
    <2> QED
      BY <2>1, <2>2, <2>3, BooksKept DEF IInv
  <1> QED
    BY <1>1, <1>2, <1>3, <1>4, <1>5, <1>6 DEF Next

-----------------------------------------------------------------------------
(* What steps do to the events.                                            *)

\* Everything but the settlements and the payments by hand leaves the books alone
\* and posts no event.
Calm ==
    /\ UNCHANGED <<payments, entries, reversed, paid, balance, ar, receivable>>
    /\ \A e \in Events : /\ events'[e].payment = events[e].payment
                         /\ events'[e].status = "PROCESSED" => events[e].status = "PROCESSED"

LEMMA BookWriters ==
    ASSUME IInv, [Next]_vars
    PROVE  \/ Calm
           \/ \E d \in Deliveries : \/ SettleReceipt(d) \/ SettlePayout(d)
                                    \/ SettleRefund(d) \/ SettleReinstatement(d)
           \/ \E i \in Invoices, amount \in Amounts : RecordPayment(i, amount)
  <1>0. events \in [Events -> EventRow]
    BY DEF IInv, TypeOK
  <1>1. ASSUME NEW k \in Keys, StartCheckout(k) \/ FinishCheckout(k)
        PROVE  Calm
    BY <1>1 DEF StartCheckout, FinishCheckout, money, Calm
  <1>2. ASSUME NEW d \in Deliveries, NEW e \in Events, Deliver(d, e)
        PROVE  Calm
    BY <1>0, <1>2 DEF Deliver, money, Calm, EventRow
  <1>3. ASSUME NEW d \in Deliveries, Claim(d) \/ MarkFailed(d)
        PROVE  Calm
    BY <1>0, <1>3 DEF Claim, MarkFailed, money, Calm, EventRow
  <1>4. ASSUME NEW d \in Deliveries, Ignore(d)
        PROVE  Calm
    BY <1>0, <1>4 DEF Ignore, money, Calm, EventRow
  <1>5. ASSUME NEW d \in Deliveries,
               AlreadyProcessed(d) \/ CloseIntent(d) \/ CloseRefused(d) \/ Refuse(d)
                 \/ Answer(d) \/ Fault(d)
        PROVE  Calm
    BY <1>5 DEF AlreadyProcessed, CloseIntent, CloseRefused, Refuse, Answer, Fault, money, Calm
  <1>6. ASSUME NEW e \in Events, Age(e)
        PROVE  Calm
    BY <1>0, <1>6 DEF Age, money, Calm, EventRow
  <1>7. CASE UNCHANGED vars
    BY <1>7 DEF vars, money, Calm
  <1> QED
    BY <1>1, <1>2, <1>3, <1>4, <1>5, <1>6, <1>7 DEF Next, Work

\* Who writes the status or the payment of an event: its insertion, a claim, the
\* delivery that holds it, or the reinstatement of a refund.
LEMMA RowWriters ==
    ASSUME IInv, [Next]_vars, NEW e \in Events,
           events'[e].status # events[e].status \/ events'[e].payment # events[e].payment
    PROVE  \/ events[e].status = "ABSENT" /\ events'[e].payment = events[e].payment
           \/ \E d \in Deliveries : /\ Claim(d) /\ cur[d] = e
                                    /\ events'[e].payment = events[e].payment
           \/ \E d \in Deliveries : Holding(d, e) /\ pc'[d] = "answering"
           \/ /\ events[e].status = "PROCESSED"
              /\ e \in Refunds
              /\ e \in reversed'
              /\ events'[e].payment = events[e].payment
  <1>0. events \in [Events -> EventRow] /\ \A d \in Deliveries : pc' = [pc EXCEPT ![d] = "answering"] => pc'[d] = "answering"
    BY DEF IInv, TypeOK
  <1>1. ASSUME NEW d \in Deliveries, NEW f \in Events, Deliver(d, f)
        PROVE  events[e].status = "ABSENT" /\ events'[e].payment = events[e].payment
    BY <1>0, <1>1 DEF Deliver, EventRow
  <1>2. ASSUME NEW d \in Deliveries, Claim(d)
        PROVE  cur[d] = e /\ events'[e].payment = events[e].payment
    BY <1>0, <1>2 DEF Claim, EventRow
  <1>3. ASSUME NEW d \in Deliveries, Ignore(d) \/ MarkFailed(d)
        PROVE  Holding(d, e) /\ pc'[d] = "answering"
    BY <1>0, <1>3 DEF Ignore, MarkFailed, Holding
  <1>4. ASSUME NEW d \in Deliveries, SettleReceipt(d) \/ SettlePayout(d) \/ SettleRefund(d)
        PROVE  Holding(d, e) /\ pc'[d] = "answering"
    BY <1>0, <1>4 DEF SettleReceipt, SettlePayout, SettleRefund, Settled, Posted, Holding
  <1>5. ASSUME NEW d \in Deliveries, SettleReinstatement(d), cur[d] # e
        PROVE  /\ events[e].status = "PROCESSED"
               /\ e \in Refunds /\ e \in reversed'
               /\ events'[e].payment = events[e].payment
    <2>1. PICK original \in Matching(cur[d], Refunds) :
             /\ reversed' = reversed \cup {original}
             /\ events' = [Posted(cur[d], events[original].payment)
                              EXCEPT ![original].status = "REVERSED"]
      BY <1>5 DEF SettleReinstatement
    <2>2. events[original].status = "PROCESSED" /\ original \in Refunds /\ original \in Events
      BY DEF Matching, Refunds
    <2>3. Posted(cur[d], events[original].payment)[e] = events[e]
      BY <1>0, <1>5 DEF Posted
    <2>4. DOMAIN Posted(cur[d], events[original].payment) = Events
      BY <1>0 DEF Posted
    <2>5. e = original
      BY <2>1, <2>3, <2>4
    <2>6. events'[e] = [events[e] EXCEPT !.status = "REVERSED"]
      BY <2>1, <2>3, <2>4, <2>5
    <2>7. events'[e].payment = events[e].payment
      BY <1>0, <2>6 DEF EventRow
    <2> QED
      BY <2>1, <2>2, <2>5, <2>7
  <1>6. ASSUME NEW d \in Deliveries, SettleReinstatement(d), cur[d] = e
        PROVE  Holding(d, e) /\ pc'[d] = "answering"
    BY <1>0, <1>6 DEF SettleReinstatement, Settled, Holding
  <1>7. ASSUME NEW f \in Events, Age(f)
        PROVE  FALSE
    BY <1>0, <1>7 DEF Age, EventRow
  <1>8. ASSUME UNCHANGED events
        PROVE  FALSE
    BY <1>8
  <1> QED
    BY <1>1, <1>2, <1>3, <1>4, <1>5, <1>6, <1>7, <1>8 DEF Next, Work, StartCheckout, FinishCheckout,
       AlreadyProcessed, CloseIntent, CloseRefused, Refuse, Answer, Fault, RecordPayment, vars

-----------------------------------------------------------------------------
(* Who holds an event.                                                     *)

\* While no claim has overlapped another, one delivery at most works on an event,
\* which is PROCESSING meanwhile, and what was posted is still PROCESSED.
Alone == \A c, d \in Deliveries, e \in Events : Holding(c, e) /\ Holding(d, e) => c = d

AtWork == \A d \in Deliveries, e \in Events : Holding(d, e) => events[e].status = "PROCESSING"

ReceiptsPosted ==
    \A n \in DOMAIN payments :
        payments[n].event # NoEvent =>
            /\ events[payments[n].event].status = "PROCESSED"
            /\ Info[payments[n].event].kind = "receipt"

RefundsPosted == \A r \in Standing : events[r].status = "PROCESSED"

HeldOK == overlaps = 0 => Alone /\ AtWork /\ ReceiptsPosted /\ RefundsPosted

LEMMA OverlapsGrow ==
    ASSUME IInv, [Next]_vars, overlaps' = 0
    PROVE  overlaps = 0
  <1>1. overlaps \in Nat
    BY DEF IInv, TypeOK
  <1>2. overlaps' \in {overlaps, overlaps + 1}
    BY DEF Next, Work, StartCheckout, FinishCheckout, Deliver, Claim, AlreadyProcessed, Ignore,
       CloseIntent, CloseRefused, SettleReceipt, SettlePayout, SettleRefund, SettleReinstatement,
       Refuse, MarkFailed, Answer, Fault, Age, RecordPayment, Settled, vars, bounds
  <1> QED
    BY <1>1, <1>2

\* A delivery holds an event by having claimed it, alone if claims do not overlap.
LEMMA HoldingSources ==
    ASSUME IInv, [Next]_vars, overlaps' = 0, NEW d \in Deliveries, NEW e \in Events,
           Holding(d, e)'
    PROVE  \/ Holding(d, e)
           \/ /\ Claim(d) /\ cur[d] = e
              /\ \A c \in Deliveries : ~Holding(c, e)
  <1>0. /\ pc \in [Deliveries -> PcValues]
        /\ cur \in [Deliveries -> Events \cup {NoEvent}]
        /\ overlaps = 0
    BY OverlapsGrow DEF IInv, TypeOK
  <1>1. ASSUME NEW c \in Deliveries, Claim(c)
        PROVE  \/ Holding(d, e)
               \/ /\ Claim(d) /\ cur[d] = e
                  /\ \A b \in Deliveries : ~Holding(b, e)
    <2>1. /\ cur' = cur
          /\ pc' = [pc EXCEPT ![c] = "claimed"]
          /\ ~\E b \in Deliveries : Holding(b, cur[c])
      <3>1. overlaps' = IF \E b \in Deliveries : Holding(b, cur[c]) THEN overlaps + 1 ELSE overlaps
        BY <1>1 DEF Claim
      <3> QED
        BY <1>0, <1>1, <3>1 DEF Claim
    <2>2. CASE c = d
      BY <1>1, <2>1, <2>2 DEF Holding
    <2>3. CASE c # d
      BY <1>0, <2>1, <2>3 DEF Holding
    <2> QED
      BY <2>2, <2>3
  <1>2. ASSUME NEW c \in Deliveries, NEW f \in Events, Deliver(c, f)
        PROVE  Holding(d, e)
    BY <1>0, <1>2 DEF Deliver, Holding
  <1>3. ASSUME NEW c \in Deliveries, AlreadyProcessed(c) \/ Ignore(c) \/ CloseIntent(c)
                 \/ Refuse(c) \/ MarkFailed(c)
        PROVE  Holding(d, e)
    BY <1>0, <1>3 DEF AlreadyProcessed, Ignore, CloseIntent, Refuse, MarkFailed, Holding
  <1>4. ASSUME NEW c \in Deliveries, CloseRefused(c) \/ Answer(c) \/ Fault(c)
        PROVE  Holding(d, e)
    BY <1>0, <1>4 DEF CloseRefused, Answer, Fault, Unanswered, Holding
  <1>5. ASSUME NEW c \in Deliveries,
               SettleReceipt(c) \/ SettlePayout(c) \/ SettleRefund(c) \/ SettleReinstatement(c)
        PROVE  Holding(d, e)
    BY <1>0, <1>5 DEF SettleReceipt, SettlePayout, SettleRefund, SettleReinstatement, Settled, Holding
  <1>6. ASSUME UNCHANGED <<pc, cur>>
        PROVE  Holding(d, e)
    BY <1>6 DEF Holding
  <1> QED
    BY <1>1, <1>2, <1>3, <1>4, <1>5, <1>6 DEF Next, Work, StartCheckout, FinishCheckout, Age,
       RecordPayment, vars

\* What is PROCESSED stays PROCESSED, with its payment, unless it is a refund that
\* a reinstatement has reversed.
LEMMA ProcessedStays ==
    ASSUME IInv, [Next]_vars, overlaps = 0, HeldOK, NEW e \in Events,
           events[e].status = "PROCESSED"
    PROVE  /\ events'[e].payment = events[e].payment
           /\ \/ events'[e].status = "PROCESSED"
              \/ e \in Refunds /\ e \in reversed'
  <1>1. \A d \in Deliveries : ~Holding(d, e)
    BY DEF HeldOK, AtWork
  <1>2. \A d \in Deliveries : cur[d] = e => ~Claim(d)
    BY DEF Claim, Claimable
  <1> QED
    BY <1>1, <1>2, RowWriters

\* The payments and journals a step adds.
LEMMA AddedBooks ==
    ASSUME IInv, PaymentAssumption, [Next]_vars
    PROVE  /\ entries \subseteq entries' /\ reversed \subseteq reversed'
           /\ \A n \in DOMAIN payments : n \in DOMAIN payments' /\ payments'[n] = payments[n]
           /\ \A n \in DOMAIN payments' \ DOMAIN payments :
                 \/ payments'[n].event = NoEvent
                 \/ \E d \in Deliveries : SettleReceipt(d) /\ payments'[n].event = cur[d]
           /\ \A r \in entries' \ entries :
                 \E d \in Deliveries : /\ r = cur[d]
                                       /\ SettleRefund(d) \/ SettlePayout(d)
  <1>0. payments \in Seq(Payment)
    BY DEF IInv, TypeOK
  <1>1. CASE Calm
    BY <1>1 DEF Calm
  <1>2. ASSUME NEW d \in Deliveries, SettleReceipt(d)
        PROVE  /\ UNCHANGED <<entries, reversed>>
               /\ \A n \in DOMAIN payments : n \in DOMAIN payments' /\ payments'[n] = payments[n]
               /\ \A n \in DOMAIN payments' \ DOMAIN payments : payments'[n].event = cur[d]
    <2>1. PICK n \in IntentsFor(cur[d]) :
             payments' = Append(payments, [event |-> cur[d], intent |-> n,
                                           invoice |-> Info[cur[d]].invoice,
                                           amount |-> Info[cur[d]].amount])
      BY <1>2 DEF SettleReceipt
    <2> DEFINE x == [event |-> cur[d], intent |-> n, invoice |-> Info[cur[d]].invoice,
                     amount |-> Info[cur[d]].amount]
    <2>2. x.event = cur[d] /\ payments' = Append(payments, x)
      BY <2>1
    <2> HIDE DEF x
    <2>3. /\ \A m \in DOMAIN payments : m \in DOMAIN payments' /\ payments'[m] = payments[m]
          /\ \A m \in DOMAIN payments' \ DOMAIN payments : payments'[m] = x
      BY <1>0, <2>2
    <2> QED
      BY <1>2, <2>2, <2>3 DEF SettleReceipt
  <1>3. ASSUME NEW i \in Invoices, NEW a \in Amounts, RecordPayment(i, a)
        PROVE  /\ UNCHANGED <<entries, reversed>>
               /\ \A n \in DOMAIN payments : n \in DOMAIN payments' /\ payments'[n] = payments[n]
               /\ \A n \in DOMAIN payments' \ DOMAIN payments : payments'[n].event = NoEvent
    <2> DEFINE x == [event |-> NoEvent, intent |-> 0, invoice |-> i, amount |-> a]
    <2>2. x.event = NoEvent /\ payments' = Append(payments, x)
      BY <1>3 DEF RecordPayment
    <2> HIDE DEF x
    <2>3. /\ \A m \in DOMAIN payments : m \in DOMAIN payments' /\ payments'[m] = payments[m]
          /\ \A m \in DOMAIN payments' \ DOMAIN payments : payments'[m] = x
      BY <1>0, <2>2
    <2> QED
      BY <1>3, <2>2, <2>3 DEF RecordPayment
  <1>4. ASSUME NEW d \in Deliveries, SettlePayout(d) \/ SettleRefund(d)
        PROVE  /\ UNCHANGED <<payments, reversed>>
               /\ entries' = entries \cup {cur[d]}
    BY <1>4 DEF SettlePayout, SettleRefund
  <1>5. ASSUME NEW d \in Deliveries, SettleReinstatement(d)
        PROVE  /\ UNCHANGED <<payments, entries>>
               /\ reversed \subseteq reversed'
    BY <1>5 DEF SettleReinstatement
  <1> QED
    BY <1>1, <1>2, <1>3, <1>4, <1>5, BookWriters

LEMMA HeldStep ==
    ASSUME IInv, PaymentAssumption, [Next]_vars, HeldOK, reversed \subseteq entries
    PROVE  HeldOK'
  <1> SUFFICES ASSUME overlaps' = 0
               PROVE  Alone' /\ AtWork' /\ ReceiptsPosted' /\ RefundsPosted'
    BY DEF HeldOK
  <1>0. /\ overlaps = 0 /\ Alone /\ AtWork /\ ReceiptsPosted /\ RefundsPosted
        /\ events \in [Events -> EventRow]
    BY OverlapsGrow DEF HeldOK, IInv, TypeOK
  <1>1. Alone'
    <2> SUFFICES ASSUME NEW c \in Deliveries, NEW d \in Deliveries, NEW e \in Events,
                        Holding(c, e)', Holding(d, e)', c # d
                 PROVE  FALSE
      BY DEF Alone
    <2>1. ~(Claim(c) /\ Claim(d))
      BY DEF Claim, IInv, TypeOK
    <2> QED
      BY <1>0, <2>1, HoldingSources DEF Alone
  <1>2. AtWork'
    <2> SUFFICES ASSUME NEW d \in Deliveries, NEW e \in Events, Holding(d, e)'
                 PROVE  events'[e].status = "PROCESSING"
      BY DEF AtWork
    <2>1. CASE Claim(d) /\ cur[d] = e
      BY <1>0, <2>1 DEF Claim, EventRow
    <2>2. CASE Holding(d, e)
      <3>1. events[e].status = "PROCESSING"
        BY <1>0, <2>2 DEF AtWork
      <3>2. pc'[d] # "answering"
        BY DEF Holding
      <3>3. \A c \in Deliveries : Claim(c) /\ cur[c] = e => events'[e].status = "PROCESSING"
        BY <1>0 DEF Claim, EventRow
      <3> QED
        BY <1>0, <2>2, <3>1, <3>2, <3>3, RowWriters DEF Alone
    <2> QED
      BY <2>1, <2>2, HoldingSources
  <1>3. ReceiptsPosted'
    <2> SUFFICES ASSUME NEW n \in DOMAIN payments', payments'[n].event # NoEvent
                 PROVE  /\ events'[payments'[n].event].status = "PROCESSED"
                        /\ Info[payments'[n].event].kind = "receipt"
      BY DEF ReceiptsPosted
    <2>1. CASE n \in DOMAIN payments
      <3>1. payments'[n] = payments[n] /\ payments[n].event \in Events
        <4>1. payments[n] \in Payment
          BY <2>1 DEF IInv, TypeOK
        <4>2. payments'[n] = payments[n]
          BY <2>1, AddedBooks
        <4> QED
          BY <4>1, <4>2 DEF Payment
      <3>2. events[payments[n].event].status = "PROCESSED" /\ Info[payments[n].event].kind = "receipt"
        BY <1>0, <2>1, <3>1 DEF ReceiptsPosted
      <3>3. payments[n].event \notin Refunds
        BY <3>2 DEF Refunds
      <3> QED
        BY <1>0, <3>1, <3>2, <3>3, ProcessedStays
    <2>2. CASE n \notin DOMAIN payments
      <3>1. PICK d \in Deliveries : SettleReceipt(d) /\ payments'[n].event = cur[d]
        BY <2>2, AddedBooks
      <3>2. cur[d] \in Events /\ Info[cur[d]].kind = "receipt"
        BY <3>1, SettledTypes DEF SettleReceipt
      <3>3. events' = Posted(cur[d], Len(payments) + 1)
        BY <3>1 DEF SettleReceipt
      <3> QED
        BY <1>0, <3>1, <3>2, <3>3 DEF Posted
    <2> QED
      BY <2>1, <2>2
  <1>4. RefundsPosted'
    <2> SUFFICES ASSUME NEW r \in Standing'
                 PROVE  events'[r].status = "PROCESSED"
      BY DEF RefundsPosted
    <2>0. r \in entries' /\ r \notin reversed' /\ r \in Refunds /\ r \in Events
      BY DEF Standing, Refunds
    <2>1. CASE r \in entries
      <3>1. r \in Standing
        BY <2>0, <2>1, AddedBooks DEF Standing
      <3> QED
        BY <1>0, <2>0, <3>1, ProcessedStays DEF RefundsPosted
    <2>2. CASE r \notin entries
      <3>1. PICK d \in Deliveries : r = cur[d] /\ (SettleRefund(d) \/ SettlePayout(d))
        BY <2>0, <2>2, AddedBooks
      <3>2. \E p : events' = Posted(r, p)
        BY <3>1 DEF SettleRefund, SettlePayout
      <3> QED
        BY <1>0, <2>0, <3>2 DEF Posted
    <2> QED
      BY <2>1, <2>2
  <1> QED
    BY <1>1, <1>2, <1>3, <1>4

\* An event becomes one payment only, because it must be PROCESSING to become one.
LEMMA OneReceiptStep ==
    ASSUME IInv, PaymentAssumption, [Next]_vars, HeldOK, OneReceiptPerEvent
    PROVE  OneReceiptPerEvent'
  <1> SUFFICES ASSUME overlaps' = 0,
                      NEW m \in DOMAIN payments', NEW n \in DOMAIN payments',
                      m # n, payments'[m].event # NoEvent,
                      payments'[m].event = payments'[n].event
               PROVE  FALSE
    BY DEF OneReceiptPerEvent
  <1>0. overlaps = 0 /\ AtWork /\ ReceiptsPosted
    BY OverlapsGrow DEF HeldOK
  <1>1. payments \in Seq(Payment) /\ payments' \in Seq(Payment) /\ Len(payments') <= Len(payments) + 1
    <2>1. payments \in Seq(Payment)
      BY DEF IInv, TypeOK
    <2>2. payments' = payments \/ \E x : payments' = Append(payments, x)
      BY BookWriters DEF Calm, SettleReceipt, SettlePayout, SettleRefund, SettleReinstatement, RecordPayment
    <2>3. payments' \in Seq(Payment)
      BY NextInv DEF IInv, TypeOK
    <2> QED
      BY <2>1, <2>2, <2>3
  <1>2. ASSUME NEW k \in DOMAIN payments, payments[k].event # NoEvent
        PROVE  \A d \in Deliveries : ~(SettleReceipt(d) /\ cur[d] = payments[k].event)
    <2>1. events[payments[k].event].status = "PROCESSED"
      BY <1>0, <1>2 DEF ReceiptsPosted
    <2>2. payments[k].event \in Events
      <3>1. payments[k] \in Payment
        BY <1>1
      <3> QED
        BY <1>2, <3>1 DEF Payment
    <2> QED
      BY <1>0, <2>1, <2>2 DEF AtWork, Holding, SettleReceipt
  <1>3. CASE m \in DOMAIN payments /\ n \in DOMAIN payments
    BY <1>0, <1>3, AddedBooks DEF OneReceiptPerEvent
  <1>4. CASE m \notin DOMAIN payments /\ n \notin DOMAIN payments
    BY <1>1, <1>4
  <1>5. CASE m \in DOMAIN payments /\ n \notin DOMAIN payments
    BY <1>2, <1>5, AddedBooks
  <1>6. CASE m \notin DOMAIN payments /\ n \in DOMAIN payments
    BY <1>2, <1>6, AddedBooks
  <1> QED
    BY <1>3, <1>4, <1>5, <1>6

-----------------------------------------------------------------------------
(* Journals of refunds.                                                    *)

\* A refund has a journal once it is posted, which names its payment for good.
EntriesOK ==
    /\ IsFiniteSet(entries)
    /\ reversed \subseteq entries
    /\ \A r \in entries \cap Refunds : events[r].payment \in DOMAIN payments
    /\ \A r \in Refunds : events[r].status = "PROCESSED" => r \in entries

\* What the settlement of a refund does.
LEMMA RefundEffect ==
    ASSUME IInv, PaymentAssumption, NEW d \in Deliveries, SettleRefund(d)
    PROVE  /\ cur[d] \in Refunds \ entries
           /\ cur[d] \in Events
           /\ Info[cur[d]].amount \in Nat
           /\ entries' = entries \cup {cur[d]}
           /\ UNCHANGED <<payments, reversed>>
           /\ \E p \in DOMAIN payments :
                 /\ payments[p].invoice \in Invoices
                 /\ Info[cur[d]].amount + RefundedBefore(p) <= payments[p].amount
                 /\ Info[cur[d]].amount <= paid[payments[p].invoice]
                 /\ Returned(payments[p].invoice, Info[cur[d]].amount)
                 /\ events'[cur[d]].payment = p
                 /\ \A f \in Events : f # cur[d] => events'[f] = events[f]
  <1>1. cur[d] \in Events
    BY SettledTypes DEF SettleRefund
  <1>2. Info[cur[d]].amount \in Nat /\ cur[d] \in Refunds \ entries
    BY <1>1 DEF PaymentAssumption, SettleRefund, Fresh, Refunds
  <1>3. PICK original \in Matching(cur[d], Events) :
           LET p == events[original].payment
               i == payments[p].invoice
           IN  /\ Info[cur[d]].amount + RefundedBefore(p) <= payments[p].amount
               /\ Info[cur[d]].amount <= paid[i]
               /\ Returned(i, Info[cur[d]].amount)
               /\ events' = Posted(cur[d], p)
    BY DEF SettleRefund
  <1> DEFINE p == events[original].payment
  <1>4. p \in DOMAIN payments /\ payments[p].invoice \in Invoices
    BY OriginalPayment
  <1>5. events'[cur[d]].payment = p /\ \A f \in Events : f # cur[d] => events'[f] = events[f]
    BY <1>1, <1>3 DEF Posted, IInv, TypeOK
  <1> QED
    BY <1>1, <1>2, <1>3, <1>4, <1>5 DEF SettleRefund

\* What a reinstatement does.
LEMMA ReinstatementEffect ==
    ASSUME IInv, PaymentAssumption, NEW d \in Deliveries, SettleReinstatement(d)
    PROVE  /\ UNCHANGED <<payments, entries>>
           /\ \E r \in Standing :
                 LET i == payments[events[r].payment].invoice
                 IN  /\ i \in Invoices
                     /\ Info[r].amount \in Nat
                     /\ reversed' = reversed \cup {r}
                     /\ paid[i] + Info[r].amount <= Total[i]
                     /\ Received(i, Info[r].amount)
           /\ \A f \in Refunds : events'[f].payment = events[f].payment
           /\ \A f \in Refunds : events'[f].status = "PROCESSED" => events[f].status = "PROCESSED"
  <1>0. cur[d] \in Events /\ cur[d] \notin Refunds /\ events \in [Events -> EventRow]
    BY SettledTypes DEF SettleReinstatement, Refunds, IInv, TypeOK
  <1>1. PICK original \in Matching(cur[d], Refunds) :
           LET p == events[original].payment
               i == payments[p].invoice
           IN  /\ Info[cur[d]].amount = Info[original].amount
               /\ paid[i] + Info[cur[d]].amount <= Total[i]
               /\ original \in entries \ reversed
               /\ reversed' = reversed \cup {original}
               /\ Received(i, Info[cur[d]].amount)
               /\ events' = [Posted(cur[d], p) EXCEPT ![original].status = "REVERSED"]
    BY DEF SettleReinstatement
  <1>2. /\ original \in Refunds /\ original \in Events
        /\ payments[events[original].payment].invoice \in Invoices
    BY OriginalPayment DEF Refunds, Matching
  <1>3. original \in Standing /\ Info[original].amount \in Nat
    BY <1>1, <1>2 DEF Standing, PaymentAssumption
  <1>4. ASSUME NEW f \in Refunds
        PROVE  /\ events'[f].payment = events[f].payment
               /\ events'[f].status = "PROCESSED" => events[f].status = "PROCESSED"
    <2>1. f \in Events /\ f # cur[d]
      BY <1>0 DEF Refunds
    <2>2. Posted(cur[d], events[original].payment)[f] = events[f]
      BY <1>0, <2>1 DEF Posted
    <2>3. DOMAIN Posted(cur[d], events[original].payment) = Events
      BY <1>0 DEF Posted
    <2>4. events'[f] = IF f = original THEN [events[f] EXCEPT !.status = "REVERSED"] ELSE events[f]
      BY <1>1, <2>1, <2>2, <2>3
    <2>5. events[f] \in EventRow
      BY <1>0, <2>1
    <2> QED
      BY <2>4, <2>5 DEF EventRow
  <1>5. UNCHANGED <<payments, entries>>
    BY DEF SettleReinstatement
  <1> QED
    BY <1>1, <1>2, <1>3, <1>4, <1>5

\* A receipt or a payment by hand: one payment more.
NewPayment(i, a) ==
    /\ i \in Invoices /\ a \in Nat /\ a <= balance[i]
    /\ Received(i, a)
    /\ UNCHANGED <<entries, reversed>>
    /\ \E x \in Payment : x.invoice = i /\ x.amount = a /\ payments' = Append(payments, x)
    /\ \A r \in Refunds : events'[r] = events[r]

LEMMA ReceiptEffect ==
    ASSUME IInv, PaymentAssumption, NEW d \in Deliveries, SettleReceipt(d)
    PROVE  NewPayment(Info[cur[d]].invoice, Info[cur[d]].amount)
  <1> DEFINE e == cur[d]
  <1>1. e \in Events /\ e \notin Refunds
    BY SettledTypes DEF SettleReceipt, Refunds
  <1>2. Info[e].invoice \in Invoices /\ Info[e].amount \in Nat
    BY <1>1 DEF PaymentAssumption
  <1>3. PICK n \in IntentsFor(e) :
            payments' = Append(payments, [event |-> e, intent |-> n, invoice |-> Info[e].invoice,
                                          amount |-> Info[e].amount])
    BY DEF SettleReceipt
  <1>4. n \in Nat
    <2>1. n \in DOMAIN intents \/ n = 0
      BY DEF IntentsFor, IntentsOf
    <2> QED
      BY <2>1 DEF IInv, TypeOK
  <1> DEFINE x == [event |-> e, intent |-> n, invoice |-> Info[e].invoice,
                   amount |-> Info[e].amount]
  <1>5. /\ x \in Payment /\ x.invoice = Info[e].invoice /\ x.amount = Info[e].amount
        /\ payments' = Append(payments, x)
    BY <1>1, <1>2, <1>3, <1>4 DEF Payment
  <1>6. \A r \in Refunds : events'[r] = events[r]
    BY <1>1 DEF SettleReceipt, Posted, Refunds, IInv, TypeOK
  <1> HIDE DEF x
  <1> QED
    BY <1>2, <1>5, <1>6 DEF NewPayment, SettleReceipt, Covered

LEMMA ManualEffect ==
    ASSUME IInv, PaymentAssumption, NEW i \in Invoices, NEW a \in Amounts, RecordPayment(i, a)
    PROVE  NewPayment(i, a)
  <1> DEFINE x == [event |-> NoEvent, intent |-> 0, invoice |-> i, amount |-> a]
  <1>1. a \in Nat
    BY DEF PaymentAssumption
  <1>2. x \in Payment /\ x.invoice = i /\ x.amount = a /\ payments' = Append(payments, x)
    BY <1>1 DEF Payment, RecordPayment
  <1> HIDE DEF x
  <1> QED
    BY <1>1, <1>2 DEF NewPayment, RecordPayment, Covered

LEMMA PayoutEffect ==
    ASSUME IInv, PaymentAssumption, NEW d \in Deliveries, SettlePayout(d)
    PROVE  /\ cur[d] \in Events \ Refunds
           /\ entries' = entries \cup {cur[d]}
           /\ UNCHANGED <<payments, reversed, paid, balance, ar, receivable>>
           /\ \A r \in Refunds : events'[r] = events[r]
  <1>1. cur[d] \in Events /\ cur[d] \notin Refunds
    BY SettledTypes DEF SettlePayout, Refunds
  <1>2. \A r \in Refunds : events'[r] = events[r]
    BY <1>1 DEF SettlePayout, Posted, Refunds, IInv, TypeOK
  <1> QED
    BY <1>1, <1>2 DEF SettlePayout

LEMMA EntriesStep ==
    ASSUME IInv, PaymentAssumption, [Next]_vars, EntriesOK
    PROVE  EntriesOK'
  <1>0. \A n \in DOMAIN payments : n \in DOMAIN payments'
    BY AddedBooks
  <1>1. CASE Calm
    BY <1>1 DEF Calm, EntriesOK, Refunds
  <1>2. ASSUME NEW i, NEW a, NewPayment(i, a)
        PROVE  EntriesOK'
    BY <1>0, <1>2 DEF NewPayment, EntriesOK
  <1>3. ASSUME NEW d \in Deliveries, SettlePayout(d)
        PROVE  EntriesOK'
    <2>1. entries' = entries \cup {cur[d]}
      BY <1>3, PayoutEffect
    <2>2. IsFiniteSet(entries \cup {cur[d]})
      BY FS_AddElement DEF EntriesOK
    <2>3. IsFiniteSet(entries')
      BY <2>1, <2>2, Zenon
    <2> QED
      BY <1>3, <2>3, PayoutEffect DEF EntriesOK
  <1>4. ASSUME NEW d \in Deliveries, SettleRefund(d)
        PROVE  EntriesOK'
    <2>1. entries' = entries \cup {cur[d]}
      BY <1>4, RefundEffect
    <2>2. IsFiniteSet(entries \cup {cur[d]})
      BY FS_AddElement DEF EntriesOK
    <2>3. IsFiniteSet(entries')
      BY <2>1, <2>2, Zenon
    <2>4. Refunds \subseteq Events
      BY DEF Refunds
    <2> QED
      BY <1>4, <2>3, <2>4, RefundEffect DEF EntriesOK
  <1>5. ASSUME NEW d \in Deliveries, SettleReinstatement(d)
        PROVE  EntriesOK'
    BY <1>5, ReinstatementEffect DEF EntriesOK, Standing
  <1> QED
    BY <1>1, <1>2, <1>3, <1>4, <1>5, BookWriters, ReceiptEffect, ManualEffect

-----------------------------------------------------------------------------
(* Sums of amounts of events.                                              *)

LEMMA AmountsGrow ==
    ASSUME PaymentAssumption, NEW S \in SUBSET Events, IsFiniteSet(S), NEW e \in Events, e \notin S
    PROVE  AmountsOf(S \cup {e}) = AmountsOf(S) + Info[e].amount
  <1> DEFINE f == [x \in Events |-> Info[x].amount]
  <1>1. \A x \in S : f[x] \in Int
    BY DEF PaymentAssumption
  <1>2. f[e] \in Int /\ f[e] = Info[e].amount
    BY DEF PaymentAssumption
  <1> HIDE DEF f
  <1>3. SumFunctionOnSet(f, S \cup {e}) = SumFunctionOnSet(f, S) + f[e]
    BY <1>1, <1>2, SumGrow
  <1> QED
    BY <1>2, <1>3 DEF AmountsOf, f

LEMMA AmountsShrink ==
    ASSUME PaymentAssumption, NEW S \in SUBSET Events, IsFiniteSet(S), NEW e \in S
    PROVE  AmountsOf(S) = AmountsOf(S \ {e}) + Info[e].amount
  <1>1. IsFiniteSet(S \ {e}) /\ (S \ {e}) \cup {e} = S
    BY FS_Subset
  <1> QED
    BY <1>1, AmountsGrow

LEMMA AmountsNat ==
    ASSUME PaymentAssumption, NEW S \in SUBSET Events, IsFiniteSet(S)
    PROVE  AmountsOf(S) \in Nat
  <1> DEFINE f == [x \in Events |-> Info[x].amount]
  <1>1. \A x \in S : f[x] \in Nat
    BY DEF PaymentAssumption
  <1> HIDE DEF f
  <1> QED
    BY <1>1, SumNat DEF AmountsOf, f

LEMMA AmountsPart ==
    ASSUME PaymentAssumption, NEW S \in SUBSET Events, IsFiniteSet(S), NEW T \in SUBSET S
    PROVE  AmountsOf(T) <= AmountsOf(S)
  <1> DEFINE f == [x \in Events |-> Info[x].amount]
  <1>1. \A x \in S : f[x] \in Nat
    BY DEF PaymentAssumption
  <1> HIDE DEF f
  <1> QED
    BY <1>1, SumPart DEF AmountsOf, f

LEMMA StandingFinite ==
    ASSUME EntriesOK
    PROVE  /\ Standing \subseteq Events
           /\ \A S \in SUBSET Standing : IsFiniteSet(S)
  <1>1. Standing \subseteq entries /\ Standing \subseteq Events
    BY DEF Standing, Refunds
  <1> QED
    BY <1>1, FS_Subset DEF EntriesOK

-----------------------------------------------------------------------------
(* Invoices and the control account.                                       *)

Receipts(i) == {n \in DOMAIN payments : payments[n].invoice = i}
Given == [n \in DOMAIN payments |-> payments[n].amount]
GivenBack(i) == {r \in Standing : payments[events[r].payment].invoice = i}

\* What is paid on an invoice, and what it received.
InvoiceTies(i) == paid[i] + AmountsOf(GivenBack(i)) = SumFunctionOnSet(Given, Receipts(i))

ControlTies == ar = SumFunctionOnSet(balance, Invoices) /\ receivable = ar

LEMMA TieMeans ==
    ASSUME IInv
    PROVE  BooksTie <=> Balanced /\ ControlTies /\ \A i \in Invoices : InvoiceTies(i)
  <1>1. SumFunction(balance) = SumFunctionOnSet(balance, Invoices)
    BY DEF SumFunction, IInv, TypeOK
  <1> QED
    BY <1>1 DEF BooksTie, Balanced, ControlTies, InvoiceTies, GivenBack, Receipts, Given

LEMMA TieMeansNext ==
    ASSUME IInv', (Balanced /\ ControlTies /\ \A i \in Invoices : InvoiceTies(i))'
    PROVE  BooksTie'
  <1>1. SumFunction(balance)' = SumFunctionOnSet(balance, Invoices)'
    BY DEF SumFunction, IInv, TypeOK
  <1> QED
    BY <1>1 DEF BooksTie, Balanced, ControlTies, InvoiceTies, GivenBack, Receipts, Given

LEMMA ReceivedTies ==
    ASSUME IInv, PaymentAssumption, ControlTies, NEW i \in Invoices, NEW a \in Nat,
           a <= balance[i] \/ paid[i] + a <= Total[i], Received(i, a)
    PROVE  /\ ControlTies'
           /\ paid'[i] = paid[i] + a
           /\ \A j \in Invoices : j # i => paid'[j] = paid[j]
  <1>1. /\ paid \in [Invoices -> Nat] /\ balance \in [Invoices -> Nat] /\ Total[i] \in Nat
        /\ paid[i] + balance[i] = Total[i]
        /\ IsFiniteSet(Invoices)
    BY DEF IInv, TypeOK, PaymentAssumption, Balanced
  <1>2. /\ balance' \in [Invoices -> Nat]
        /\ balance'[i] = balance[i] - a
        /\ \A j \in Invoices \ {i} : balance'[j] = balance[j]
    <2>1. balance' \in [Invoices -> Nat]
      BY ReceivedKeepsBalance
    <2>2. Total[i] - (paid[i] + a) = balance[i] - a
      BY <1>1
    <2> QED
      BY <1>1, <2>1, <2>2 DEF Received
  <1>3. SumFunctionOnSet(balance', Invoices)
          = SumFunctionOnSet(balance, Invoices) + balance'[i] - balance[i]
    BY <1>1, <1>2, SumChange
  <1>4. SumFunctionOnSet(balance, Invoices) \in Nat /\ SumFunctionOnSet(balance', Invoices) \in Nat
    BY <1>1, <1>2, SumNat
  <1>5. ar \in Nat /\ receivable = ar /\ ar - a \in Nat /\ ar - a = SumFunctionOnSet(balance', Invoices)
    BY <1>1, <1>2, <1>3, <1>4 DEF ControlTies
  <1>6. ar' = ar - a /\ receivable' = IF receivable < a THEN 0 ELSE receivable - a
    BY DEF Received
  <1>7. ControlTies'
    BY <1>5, <1>6 DEF ControlTies
  <1> QED
    BY <1>1, <1>7 DEF Received

LEMMA ReturnedTies ==
    ASSUME IInv, PaymentAssumption, ControlTies, NEW i \in Invoices, NEW a \in Nat,
           a <= paid[i], Returned(i, a)
    PROVE  /\ ControlTies'
           /\ paid'[i] = paid[i] - a
           /\ \A j \in Invoices : j # i => paid'[j] = paid[j]
  <1>1. /\ paid \in [Invoices -> Nat] /\ balance \in [Invoices -> Nat] /\ Total[i] \in Nat
        /\ paid[i] + balance[i] = Total[i]
        /\ IsFiniteSet(Invoices)
    BY DEF IInv, TypeOK, PaymentAssumption, Balanced
  <1>2. /\ balance' \in [Invoices -> Nat]
        /\ balance'[i] = balance[i] + a
        /\ \A j \in Invoices \ {i} : balance'[j] = balance[j]
    <2>1. balance' \in [Invoices -> Nat]
      BY ReturnedKeepsBalance
    <2>2. Total[i] - (paid[i] - a) = balance[i] + a
      BY <1>1
    <2> QED
      BY <1>1, <2>1, <2>2 DEF Returned
  <1>3. SumFunctionOnSet(balance', Invoices)
          = SumFunctionOnSet(balance, Invoices) + balance'[i] - balance[i]
    BY <1>1, <1>2, SumChange
  <1>4. SumFunctionOnSet(balance, Invoices) \in Nat
    BY <1>1, SumNat
  <1>5. ar' = ar + a /\ receivable' = receivable + a
    BY DEF Returned
  <1>6. ControlTies'
    BY <1>1, <1>2, <1>3, <1>4, <1>5 DEF ControlTies
  <1> QED
    BY <1>1, <1>6 DEF Returned

\* A refund that stands keeps its payment, and the payment its invoice.
LEMMA StandingLinks ==
    ASSUME IInv, PaymentAssumption, EntriesOK, [Next]_vars, NEW r \in Standing
    PROVE  /\ events[r].payment \in DOMAIN payments
           /\ events'[r].payment = events[r].payment
           /\ payments'[events[r].payment] = payments[events[r].payment]
  <1>0. r \in entries /\ r \in Refunds /\ r \in Events
    BY DEF Standing, Refunds
  <1>1. events[r].payment \in DOMAIN payments
    BY <1>0 DEF EntriesOK
  <1>2. payments'[events[r].payment] = payments[events[r].payment]
    BY <1>1, AddedBooks
  <1>3. events'[r].payment = events[r].payment
    <2>1. ASSUME NEW i, NEW a, NewPayment(i, a)
          PROVE  events'[r].payment = events[r].payment
      BY <1>0, <2>1 DEF NewPayment
    <2>2. CASE Calm
      BY <1>0, <2>2 DEF Calm
    <2> QED
      BY <1>0, <2>1, <2>2, BookWriters, ReceiptEffect, ManualEffect, PayoutEffect, RefundEffect,
         ReinstatementEffect
  <1> QED
    BY <1>1, <1>2, <1>3

LEMMA InvoiceSums ==
    ASSUME IInv, EntriesOK, PaymentAssumption, NEW i \in Invoices
    PROVE  /\ GivenBack(i) \in SUBSET Events
           /\ IsFiniteSet(GivenBack(i))
           /\ AmountsOf(GivenBack(i)) \in Nat
           /\ IsFiniteSet(Receipts(i))
           /\ \A n \in Receipts(i) : Given[n] \in Int
           /\ SumFunctionOnSet(Given, Receipts(i)) \in Int
  <1>1. GivenBack(i) \in SUBSET Events /\ IsFiniteSet(GivenBack(i))
    BY StandingFinite DEF GivenBack
  <1>2. AmountsOf(GivenBack(i)) \in Nat
    BY <1>1, AmountsNat
  <1>3. payments \in Seq(Payment)
    BY DEF IInv, TypeOK
  <1>4. IsFiniteSet(DOMAIN payments)
    <2>1. DOMAIN payments = 1..Len(payments) /\ Len(payments) \in Nat
      BY <1>3
    <2>2. IsFiniteSet(1..Len(payments))
      BY <2>1, FS_Interval
    <2> QED
      BY <2>1, <2>2, Zenon
  <1>5. IsFiniteSet(Receipts(i))
    BY <1>4, FS_Subset DEF Receipts
  <1>6. \A n \in Receipts(i) : Given[n] \in Int
    <2>1. \A n \in DOMAIN payments : payments[n] \in Payment
      BY <1>3
    <2> QED
      BY <2>1 DEF Receipts, Given, Payment
  <1> QED
    BY <1>1, <1>2, <1>5, <1>6, SumInt

\* Steps without a payment: the receipts of an invoice are what they were.
LEMMA SameReceipts ==
    ASSUME payments' = payments, NEW i
    PROVE  SumFunctionOnSet(Given, Receipts(i))' = SumFunctionOnSet(Given, Receipts(i))
  BY DEF Given, Receipts

LEMMA NewPaymentTies ==
    ASSUME IInv, IInv', PaymentAssumption, EntriesOK, [Next]_vars, BooksTie, NEW i, NEW a,
           NewPayment(i, a)
    PROVE  BooksTie'
  <1>0. ControlTies /\ \A j \in Invoices : InvoiceTies(j)
    BY TieMeans
  <1>1. i \in Invoices /\ a \in Nat /\ a <= balance[i] /\ Received(i, a)
    BY DEF NewPayment
  <1>2. /\ ControlTies'
        /\ paid'[i] = paid[i] + a
        /\ \A j \in Invoices : j # i => paid'[j] = paid[j]
    BY <1>0, <1>1, ReceivedTies
  <1>3. Standing' = Standing
    BY DEF NewPayment, Standing
  <1>4. \A j : GivenBack(j)' = GivenBack(j)
    BY <1>3, StandingLinks DEF GivenBack
  <1>5. PICK x \in Payment : x.invoice = i /\ x.amount = a /\ payments' = Append(payments, x)
    BY DEF NewPayment
  <1> DEFINE n == Len(payments) + 1
  <1>6. /\ DOMAIN payments' = DOMAIN payments \cup {n}
        /\ n \notin DOMAIN payments
        /\ \A m \in DOMAIN payments : payments'[m] = payments[m]
        /\ payments'[n] = x
    BY <1>5, Appended DEF IInv, TypeOK
  <1> HIDE DEF n
  <1>7. ASSUME NEW j \in Invoices
        PROVE  InvoiceTies(j)'
    <2>1. Receipts(j)' = IF j = i THEN Receipts(j) \cup {n} ELSE Receipts(j)
      BY <1>5, <1>6 DEF Receipts
    <2>2. /\ \A m \in Receipts(j) : Given'[m] = Given[m]
          /\ Given'[n] = a
          /\ n \notin Receipts(j)
      BY <1>5, <1>6 DEF Receipts, Given
    <2>3. /\ IsFiniteSet(Receipts(j))
          /\ \A m \in Receipts(j) : Given[m] \in Int
          /\ SumFunctionOnSet(Given, Receipts(j)) \in Int
          /\ AmountsOf(GivenBack(j)) \in Nat
      BY InvoiceSums
    <2>4. CASE j = i
      <3>1. SumFunctionOnSet(Given', Receipts(j) \cup {n}) = SumFunctionOnSet(Given, Receipts(j)) + Given'[n]
        BY <1>1, <2>2, <2>3, SumGrow
      <3>2. SumFunctionOnSet(Given, Receipts(j))' = SumFunctionOnSet(Given', Receipts(j) \cup {n})
        BY <2>1, <2>4
      <3>3. paid[j] \in Nat /\ paid'[j] = paid[j] + a
        BY <1>2, <2>4 DEF IInv, TypeOK
      <3>4. AmountsOf(GivenBack(j))' = AmountsOf(GivenBack(j))
        BY <1>4 DEF AmountsOf
      <3>5. paid[j] + AmountsOf(GivenBack(j)) = SumFunctionOnSet(Given, Receipts(j))
        BY <1>0 DEF InvoiceTies
      <3>6. paid'[j] + AmountsOf(GivenBack(j))' = SumFunctionOnSet(Given, Receipts(j))'
        BY <1>1, <2>2, <2>3, <3>1, <3>2, <3>3, <3>4, <3>5
      <3> QED
        BY <3>6 DEF InvoiceTies
    <2>5. CASE j # i
      <3>1. SumFunctionOnSet(Given', Receipts(j)) = SumFunctionOnSet(Given, Receipts(j))
        BY <2>2, <2>3, SumSame
      <3>2. SumFunctionOnSet(Given, Receipts(j))' = SumFunctionOnSet(Given', Receipts(j))
        BY <2>1, <2>5
      <3>3. AmountsOf(GivenBack(j))' = AmountsOf(GivenBack(j))
        BY <1>4 DEF AmountsOf
      <3> QED
        BY <1>0, <1>2, <2>5, <3>1, <3>2, <3>3 DEF InvoiceTies
    <2> QED
      BY <2>4, <2>5
  <1>8. (Balanced /\ ControlTies /\ \A j \in Invoices : InvoiceTies(j))'
    BY <1>2, <1>7 DEF IInv
  <1> QED
    BY <1>8, TieMeansNext

LEMMA RefundTies ==
    ASSUME IInv, IInv', PaymentAssumption, EntriesOK, [Next]_vars, BooksTie,
           NEW d \in Deliveries, SettleRefund(d)
    PROVE  BooksTie'
  <1>0. ControlTies /\ \A j \in Invoices : InvoiceTies(j)
    BY TieMeans
  <1> DEFINE e == cur[d]
             a == Info[e].amount
  <1>1. PICK p \in DOMAIN payments :
           /\ payments[p].invoice \in Invoices
           /\ a <= paid[payments[p].invoice]
           /\ Returned(payments[p].invoice, a)
           /\ events'[e].payment = p
           /\ \A f \in Events : f # e => events'[f] = events[f]
    BY RefundEffect
  <1>2. /\ e \in Refunds \ entries /\ e \in Events /\ a \in Nat
        /\ entries' = entries \cup {e}
        /\ payments' = payments /\ reversed' = reversed
    BY RefundEffect
  <1> DEFINE i == payments[p].invoice
  <1> HIDE DEF e, a
  <1>3. /\ ControlTies'
        /\ paid'[i] = paid[i] - a
        /\ \A j \in Invoices : j # i => paid'[j] = paid[j]
    BY <1>0, <1>1, <1>2, ReturnedTies
  <1>4. Standing' = Standing \cup {e} /\ e \notin Standing
    BY <1>2 DEF Standing, EntriesOK
  <1>5. ASSUME NEW j
        PROVE  GivenBack(j)' = IF j = i THEN GivenBack(j) \cup {e} ELSE GivenBack(j)
    <2>1. \A r \in Standing : payments'[events'[r].payment].invoice = payments[events[r].payment].invoice
      BY StandingLinks
    <2>2. payments'[events'[e].payment].invoice = i
      BY <1>1, <1>2
    <2> QED
      BY <1>4, <2>1, <2>2 DEF GivenBack
  <1>6. ASSUME NEW j \in Invoices
        PROVE  InvoiceTies(j)'
    <2>1. /\ GivenBack(j) \in SUBSET Events
          /\ IsFiniteSet(GivenBack(j))
          /\ AmountsOf(GivenBack(j)) \in Nat
          /\ SumFunctionOnSet(Given, Receipts(j)) \in Int
      BY InvoiceSums
    <2>2. SumFunctionOnSet(Given, Receipts(j))' = SumFunctionOnSet(Given, Receipts(j))
      BY <1>2, SameReceipts
    <2>3. paid[j] \in Nat /\ paid[j] + AmountsOf(GivenBack(j)) = SumFunctionOnSet(Given, Receipts(j))
      BY <1>0 DEF InvoiceTies, IInv, TypeOK
    <2>4. e \notin GivenBack(j)
      BY <1>4 DEF GivenBack
    <2>5. CASE j = i
      <3>1. AmountsOf(GivenBack(j))' = AmountsOf(GivenBack(j) \cup {e})
        BY <1>5, <2>5 DEF AmountsOf
      <3>2. AmountsOf(GivenBack(j) \cup {e}) = AmountsOf(GivenBack(j)) + a
        BY <1>2, <2>1, <2>4, AmountsGrow DEF a
      <3>3. paid'[j] = paid[j] - a
        BY <1>3, <2>5
      <3>4. paid'[j] + AmountsOf(GivenBack(j))' = SumFunctionOnSet(Given, Receipts(j))'
        BY <1>2, <2>1, <2>2, <2>3, <3>1, <3>2, <3>3
      <3> QED
        BY <3>4 DEF InvoiceTies
    <2>6. CASE j # i
      <3>1. AmountsOf(GivenBack(j))' = AmountsOf(GivenBack(j))
        BY <1>5, <2>6 DEF AmountsOf
      <3> QED
        BY <1>3, <2>2, <2>3, <2>6, <3>1 DEF InvoiceTies
    <2> QED
      BY <2>5, <2>6
  <1>7. (Balanced /\ ControlTies /\ \A j \in Invoices : InvoiceTies(j))'
    BY <1>3, <1>6 DEF IInv
  <1> QED
    BY <1>7, TieMeansNext

LEMMA ReinstatementTies ==
    ASSUME IInv, IInv', PaymentAssumption, EntriesOK, [Next]_vars, BooksTie,
           NEW d \in Deliveries, SettleReinstatement(d)
    PROVE  BooksTie'
  <1>0. ControlTies /\ \A j \in Invoices : InvoiceTies(j)
    BY TieMeans
  <1>1. PICK e \in Standing :
           LET i == payments[events[e].payment].invoice
           IN  /\ i \in Invoices
               /\ Info[e].amount \in Nat
               /\ reversed' = reversed \cup {e}
               /\ paid[i] + Info[e].amount <= Total[i]
               /\ Received(i, Info[e].amount)
    BY ReinstatementEffect
  <1>2. payments' = payments /\ entries' = entries
    BY ReinstatementEffect
  <1> DEFINE i == payments[events[e].payment].invoice
             a == Info[e].amount
  <1>3. /\ ControlTies'
        /\ paid'[i] = paid[i] + a
        /\ \A j \in Invoices : j # i => paid'[j] = paid[j]
        /\ a \in Nat
    BY <1>0, <1>1, ReceivedTies
  <1>4. Standing' = Standing \ {e}
    BY <1>1, <1>2 DEF Standing
  <1>5. ASSUME NEW j
        PROVE  GivenBack(j)' = IF j = i THEN GivenBack(j) \ {e} ELSE GivenBack(j)
    <2>1. \A r \in Standing : payments'[events'[r].payment].invoice = payments[events[r].payment].invoice
      BY StandingLinks
    <2> QED
      BY <1>4, <2>1 DEF GivenBack
  <1>6. e \in GivenBack(i)
    BY DEF GivenBack
  <1> HIDE DEF i, a
  <1>7. ASSUME NEW j \in Invoices
        PROVE  InvoiceTies(j)'
    <2>1. /\ GivenBack(j) \in SUBSET Events
          /\ IsFiniteSet(GivenBack(j))
          /\ AmountsOf(GivenBack(j)) \in Nat
          /\ SumFunctionOnSet(Given, Receipts(j)) \in Int
      BY InvoiceSums
    <2>2. SumFunctionOnSet(Given, Receipts(j))' = SumFunctionOnSet(Given, Receipts(j))
      BY <1>2, SameReceipts
    <2>3. paid[j] \in Nat /\ paid[j] + AmountsOf(GivenBack(j)) = SumFunctionOnSet(Given, Receipts(j))
      BY <1>0 DEF InvoiceTies, IInv, TypeOK
    <2>4. CASE j = i
      <3>1. AmountsOf(GivenBack(j))' = AmountsOf(GivenBack(j) \ {e})
        BY <1>5, <2>4 DEF AmountsOf
      <3>2. AmountsOf(GivenBack(j)) = AmountsOf(GivenBack(j) \ {e}) + a
        BY <1>6, <2>1, <2>4, AmountsShrink DEF a
      <3>3. paid'[j] = paid[j] + a
        BY <1>3, <2>4
      <3>4. AmountsOf(GivenBack(j) \ {e}) \in Nat
        BY <2>1, AmountsNat, FS_Subset
      <3>5. paid'[j] + AmountsOf(GivenBack(j))' = SumFunctionOnSet(Given, Receipts(j))'
        BY <1>3, <2>1, <2>2, <2>3, <3>1, <3>2, <3>3, <3>4
      <3> QED
        BY <3>5 DEF InvoiceTies
    <2>5. CASE j # i
      <3>1. AmountsOf(GivenBack(j))' = AmountsOf(GivenBack(j))
        BY <1>5, <2>5 DEF AmountsOf
      <3> QED
        BY <1>3, <2>2, <2>3, <2>5, <3>1 DEF InvoiceTies
    <2> QED
      BY <2>4, <2>5
  <1>8. (Balanced /\ ControlTies /\ \A j \in Invoices : InvoiceTies(j))'
    BY <1>3, <1>7 DEF IInv
  <1> QED
    BY <1>8, TieMeansNext

LEMMA TieStep ==
    ASSUME IInv, PaymentAssumption, EntriesOK, [Next]_vars, BooksTie
    PROVE  BooksTie'
  <1>0. IInv' /\ Balanced' /\ ControlTies /\ \A j \in Invoices : InvoiceTies(j)
    BY NextInv, TieMeans DEF IInv
  <1>1. ASSUME UNCHANGED <<payments, reversed, paid, balance, ar, receivable>>,
               Standing' = Standing
        PROVE  BooksTie'
    <2>1. \A j : GivenBack(j)' = GivenBack(j)
      BY <1>1, StandingLinks DEF GivenBack
    <2>2. \A j : SumFunctionOnSet(Given, Receipts(j))' = SumFunctionOnSet(Given, Receipts(j))
      BY <1>1, SameReceipts
    <2>3. \A j \in Invoices : InvoiceTies(j)'
      BY <1>0, <1>1, <2>1, <2>2 DEF InvoiceTies, AmountsOf
    <2>4. ControlTies'
      BY <1>0, <1>1 DEF ControlTies
    <2>5. (Balanced /\ ControlTies /\ \A j \in Invoices : InvoiceTies(j))'
      BY <1>0, <2>3, <2>4
    <2> QED
      BY <1>0, <2>5, TieMeansNext
  <1>2. CASE Calm
    BY <1>1, <1>2 DEF Calm, Standing
  <1>3. ASSUME NEW d \in Deliveries, SettlePayout(d)
        PROVE  BooksTie'
    BY <1>1, <1>3, PayoutEffect DEF Standing
  <1> QED
    BY <1>0, <1>2, <1>3, BookWriters, ReceiptEffect, ManualEffect, NewPaymentTies, RefundTies,
       ReinstatementTies

-----------------------------------------------------------------------------
(* Refunds of a payment.                                                   *)

Against(p) == {r \in Standing : events[r].payment = p}

LEMMA RefundsStep ==
    ASSUME IInv, PaymentAssumption, EntriesOK, HeldOK, [Next]_vars, RefundsWithinReceipt
    PROVE  RefundsWithinReceipt'
  <1> SUFFICES ASSUME overlaps' = 0, NEW p \in DOMAIN payments'
               PROVE  AmountsOf(Against(p)') <= payments'[p].amount
    BY DEF RefundsWithinReceipt, Against, AmountsOf
  <1>0. overlaps = 0 /\ RefundsPosted
    BY OverlapsGrow DEF HeldOK
  <1>1. /\ Against(p) \in SUBSET Events
        /\ IsFiniteSet(Against(p))
        /\ AmountsOf(Against(p)) \in Nat
    BY StandingFinite, AmountsNat DEF Against
  <1>2. p \in DOMAIN payments => AmountsOf(Against(p)) <= payments[p].amount /\ payments'[p] = payments[p]
    BY <1>0, AddedBooks DEF RefundsWithinReceipt, Against
  <1>3. p \notin DOMAIN payments => Against(p) = {} /\ payments'[p].amount \in Nat
    <2>1. ASSUME p \notin DOMAIN payments
          PROVE  payments'[p].amount \in Nat
      <3>1. payments' \in Seq(Payment)
        BY NextInv DEF IInv, TypeOK
      <3>2. payments'[p] \in Payment
        BY <3>1
      <3> QED
        BY <3>2 DEF Payment
    <2> QED
      BY <2>1, StandingLinks DEF Against
  <1>4. ASSUME Standing' \subseteq Standing
        PROVE  AmountsOf(Against(p)') <= payments'[p].amount
    <2>1. Against(p)' \subseteq Against(p)
      BY <1>4, StandingLinks DEF Against
    <2>2. AmountsOf(Against(p)') <= AmountsOf(Against(p)) /\ AmountsOf(Against(p)') \in Nat
      BY <1>1, <2>1, AmountsPart, AmountsNat, FS_Subset
    <2>3. CASE p \in DOMAIN payments
      <3>1. payments \in Seq(Payment)
        BY DEF IInv, TypeOK
      <3>2. payments[p] \in Payment
        BY <2>3, <3>1
      <3>3. payments[p].amount \in Nat
        BY <3>2 DEF Payment
      <3> HIDE DEF Against
      <3> QED
        BY <1>1, <1>2, <2>2, <2>3, <3>3
    <2>4. CASE p \notin DOMAIN payments
      <3>1. AmountsOf({}) = 0
        BY SumEmpty DEF AmountsOf
      <3>2. Against(p)' = {}
        BY <1>3, <2>1, <2>4
      <3>3. AmountsOf(Against(p)') = AmountsOf({})
        BY <3>2, Zenon
      <3>4. payments'[p].amount \in Nat
        BY <1>3, <2>4
      <3> QED
        BY <3>1, <3>3, <3>4
    <2> QED
      BY <2>3, <2>4
  <1>5. ASSUME NEW d \in Deliveries, SettleRefund(d)
        PROVE  AmountsOf(Against(p)') <= payments'[p].amount
    <2> DEFINE e == cur[d]
               a == Info[e].amount
    <2>1. PICK q \in DOMAIN payments :
             /\ a + RefundedBefore(q) <= payments[q].amount
             /\ events'[e].payment = q
      BY <1>5, RefundEffect
    <2>2. /\ e \in Refunds \ entries /\ e \in Events /\ a \in Nat
          /\ entries' = entries \cup {e}
          /\ payments' = payments /\ reversed' = reversed
      BY <1>5, RefundEffect
    <2> HIDE DEF e, a
    <2>3. Standing' = Standing \cup {e} /\ e \notin Standing
      BY <2>2 DEF Standing, EntriesOK
    <2>4. Against(p)' = IF p = q THEN Against(p) \cup {e} ELSE Against(p)
      BY <2>1, <2>3, StandingLinks DEF Against
    <2>5. CASE p # q
      BY <1>2, <2>2, <2>4, <2>5
    <2>6. CASE p = q
      <3> DEFINE before == {r \in Refunds : events[r].status = "PROCESSED" /\ events[r].payment = p}
      <3>1. Against(p) \subseteq before
        BY <1>0 DEF Against, RefundsPosted, Standing
      <3>2. before \in SUBSET Events /\ IsFiniteSet(before)
        <4>1. before \subseteq entries
          BY DEF EntriesOK
        <4> QED
          BY <4>1, FS_Subset DEF EntriesOK, Refunds
      <3>3. AmountsOf(Against(p)) <= AmountsOf(before) /\ AmountsOf(before) \in Nat
        BY <3>1, <3>2, AmountsPart, AmountsNat
      <3>4. RefundedBefore(q) = AmountsOf(before)
        BY <2>6 DEF RefundedBefore
      <3> HIDE DEF before
      <3>5. AmountsOf(Against(p) \cup {e}) = AmountsOf(Against(p)) + a
        <4>1. e \notin Against(p)
          BY <2>3 DEF Against
        <4> QED
          BY <1>1, <2>2, <4>1, AmountsGrow DEF a
      <3>6. payments[q].amount \in Nat
        <4>1. payments[q] \in Payment
          BY DEF IInv, TypeOK
        <4> QED
          BY <4>1 DEF Payment
      <3>7. AmountsOf(Against(p)') = AmountsOf(Against(p)) + a
        BY <2>4, <2>6, <3>5
      <3>8. payments'[p].amount = payments[q].amount
        BY <2>2, <2>6
      <3> QED
        BY <1>1, <2>1, <2>2, <3>3, <3>4, <3>6, <3>7, <3>8
    <2> QED
      BY <2>5, <2>6
  <1>6. ASSUME ~\E d \in Deliveries : SettleRefund(d)
        PROVE  Standing' \subseteq Standing
    <2>1. ASSUME NEW r \in Standing', r \notin entries
          PROVE  FALSE
      <3>1. r \in Refunds /\ r \in entries' \ entries
        BY <2>1 DEF Standing
      <3>2. PICK d \in Deliveries : r = cur[d] /\ SettlePayout(d)
        BY <1>6, <3>1, AddedBooks
      <3> QED
        BY <3>1, <3>2, PayoutEffect
    <2> QED
      BY <2>1, AddedBooks DEF Standing
  <1> QED
    BY <1>4, <1>5, <1>6

-----------------------------------------------------------------------------
(* Checkouts that were confirmed.                                          *)

LEMMA IntentsKept ==
    ASSUME IInv, PaymentAssumption, [Next]_vars, NEW n \in DOMAIN intents
    PROVE  n \in DOMAIN intents' /\ intents'[n].key = intents[n].key
  <1>0. intents \in Seq(Intent) /\ intents[n] \in Intent
    BY DEF IInv, TypeOK
  <1>1. ASSUME NEW k \in Keys, FinishCheckout(k)
        PROVE  n \in DOMAIN intents' /\ intents'[n].key = intents[n].key
    <2> DEFINE x == [key |-> k, invoice |-> Checkout[k].invoice,
                     amount |-> Checkout[k].amount, status |-> "CREATED"]
    <2>1. intents' = Append(intents, x)
      BY <1>1 DEF FinishCheckout
    <2> HIDE DEF x
    <2> QED
      BY <1>0, <2>1
  <1>2. ASSUME NEW d \in Deliveries, CloseIntent(d)
        PROVE  n \in DOMAIN intents' /\ intents'[n].key = intents[n].key
    BY <1>0, <1>2 DEF CloseIntent, Intent
  <1>3. ASSUME NEW d \in Deliveries, SettleReceipt(d)
        PROVE  n \in DOMAIN intents' /\ intents'[n].key = intents[n].key
    BY <1>0, <1>3 DEF SettleReceipt, Intent
  <1>4. CASE UNCHANGED intents
    BY <1>4
  <1> QED
    BY <1>1, <1>2, <1>3, <1>4 DEF Next, Work, StartCheckout, Deliver, Claim, AlreadyProcessed, Ignore,
       CloseRefused, SettlePayout, SettleRefund, SettleReinstatement, Refuse, MarkFailed, Answer,
       Fault, Age, RecordPayment, vars

LEMMA ConfirmationStep ==
    ASSUME IInv, PaymentAssumption, HeldOK, [Next]_vars, overlaps' = 0,
           NEW n \in DOMAIN intents, Confirmed(n)
    PROVE  Confirmed(n)'
  <1>1. PICK e \in Events : /\ Info[e].kind = "receipt"
                            /\ Info[e].key = intents[n].key
                            /\ events[e].status = "PROCESSED"
                            /\ events[e].payment # 0
    BY DEF Confirmed
  <1>2. /\ e \notin Refunds
        /\ overlaps = 0
    BY <1>1, OverlapsGrow DEF Refunds
  <1>3. events'[e].status = "PROCESSED" /\ events'[e].payment = events[e].payment
    BY <1>1, <1>2, ProcessedStays
  <1> QED
    BY <1>1, <1>3, IntentsKept DEF Confirmed

-----------------------------------------------------------------------------
(* Theorems.                                                               *)

\* The invariant that every step keeps.
BooksInv == IInv /\ EntriesOK /\ HeldOK /\ OneReceiptPerEvent /\ BooksTie /\ RefundsWithinReceipt

LEMMA InitBooks == ASSUME PaymentAssumption, Init PROVE BooksInv
  <1>1. IInv
    BY InitInv
  <1>2. EntriesOK
    <2>1. entries = {} /\ reversed = {}
      BY DEF Init
    <2>2. IsFiniteSet(entries)
      BY <2>1, FS_EmptySet, Zenon
    <2>3. \A r \in Events : events[r].status = "ABSENT"
      BY DEF Init
    <2> QED
      BY <2>1, <2>2, <2>3 DEF EntriesOK, Refunds
  <1>3. HeldOK
    BY DEF Init, HeldOK, Alone, AtWork, ReceiptsPosted, RefundsPosted, Holding, Standing
  <1>4. OneReceiptPerEvent /\ RefundsWithinReceipt
    BY DEF Init, OneReceiptPerEvent, RefundsWithinReceipt
  <1>5. BooksTie
    <2>1. ControlTies
      <3>1. SumFunction(Total) = SumFunctionOnSet(Total, Invoices)
        BY DEF SumFunction, PaymentAssumption
      <3> QED
        BY <3>1 DEF Init, ControlTies
    <2>2. ASSUME NEW i \in Invoices
          PROVE  InvoiceTies(i)
      <3>1. GivenBack(i) = {} /\ Receipts(i) = {}
        BY DEF Init, GivenBack, Receipts, Standing
      <3>2. AmountsOf({}) = 0 /\ SumFunctionOnSet(Given, {}) = 0
        BY SumEmpty DEF AmountsOf
      <3> QED
        BY <3>1, <3>2 DEF InvoiceTies, Init
    <2> QED
      BY <1>1, <2>1, <2>2, TieMeans DEF IInv
  <1> QED
    BY <1>1, <1>2, <1>3, <1>4, <1>5 DEF BooksInv

LEMMA BooksStep == ASSUME PaymentAssumption, BooksInv, [Next]_vars PROVE BooksInv'
  <1>1. IInv'
    BY NextInv DEF BooksInv
  <1>2. EntriesOK'
    BY EntriesStep DEF BooksInv
  <1>3. HeldOK'
    BY HeldStep DEF BooksInv, EntriesOK
  <1>4. OneReceiptPerEvent'
    BY OneReceiptStep DEF BooksInv
  <1>5. BooksTie'
    BY TieStep DEF BooksInv
  <1>6. RefundsWithinReceipt'
    BY RefundsStep DEF BooksInv
  <1> QED
    BY <1>1, <1>2, <1>3, <1>4, <1>5, <1>6 DEF BooksInv

LEMMA BooksInvariant == Spec => []BooksInv
  <1>1. Init => BooksInv
    BY InitBooks, PaymentAssumption
  <1>2. BooksInv /\ [Next]_vars => BooksInv'
    BY BooksStep, PaymentAssumption
  <1> QED
    BY <1>1, <1>2, PTL DEF Spec

\* Invoices, refunds, the control account and the customer's balance tie after any
\* mixture of receipts, refunds, reinstatements and payments by hand, with any number
\* of invoices, events and deliveries (processWebhook, recordPayment).
THEOREM BooksAlwaysTie == Spec => []BooksTie
  <1>1. BooksInv => BooksTie
    BY DEF BooksInv
  <1> QED
    BY <1>1, BooksInvariant, PTL

\* An event is posted as a payment once, while no delivery claims an event that
\* another one holds (the conditional UPDATE to PROCESSING in processWebhook).
THEOREM EventsArePaidOnce == Spec => []OneReceiptPerEvent
  <1>1. BooksInv => OneReceiptPerEvent
    BY DEF BooksInv
  <1> QED
    BY <1>1, BooksInvariant, PTL

\* The refunds that stand never exceed the payment they take back, with the same
\* proviso (postGatewayRefundOrChargeback).
THEOREM RefundsStayWithin == Spec => []RefundsWithinReceipt
  <1>1. BooksInv => RefundsWithinReceipt
    BY DEF BooksInv
  <1> QED
    BY <1>1, BooksInvariant, PTL

\* A checkout that the portal has confirmed stays confirmed, with the same proviso
\* (getPaymentIntentStatus).
THEOREM ConfirmationsStand == Spec => ConfirmationStands
  <1>1. BooksInv /\ [Next]_vars =>
          [overlaps' = 0 => \A n \in DOMAIN intents : Confirmed(n) => Confirmed(n)']_vars
    BY ConfirmationStep, PaymentAssumption DEF BooksInv
  <1> QED
    BY <1>1, BooksInvariant, PTL DEF Spec, ConfirmationStands

\* The tables of events, intents, payments and invoices keep their types, with
\* any number of webhook calls, checkouts and events.
THEOREM TypeCorrect == Spec => []TypeOK
  <1>1. Init => IInv
    BY InitInv, PaymentAssumption
  <1>2. IInv /\ [Next]_vars => IInv'
    BY NextInv, PaymentAssumption
  <1>3. IInv => TypeOK
    BY DEF IInv
  <1> QED
    BY <1>1, <1>2, <1>3, PTL DEF Spec

\* No intent is settled by two payments, however deliveries of the provider's
\* events overlap, repeat, fail and arrive out of order.
THEOREM IntentsArePaidOnce == Spec => []OneReceiptPerIntent
  <1>1. Init => IInv
    BY InitInv, PaymentAssumption
  <1>2. IInv /\ [Next]_vars => IInv'
    BY NextInv, PaymentAssumption
  <1>3. IInv => OneReceiptPerIntent
    BY DEF IInv
  <1> QED
    BY <1>1, <1>2, <1>3, PTL DEF Spec

Open(e) == events[e].status \in {"RECEIVED", "PROCESSING"}

\* A step of one delivery leaves the events of the others attended.
LEMMA OthersAttended ==
    ASSUME TypeOK, NEW c \in Deliveries, NEW e \in Events, Attended(e),
           NEW p, NEW f, pc' = [pc EXCEPT ![c] = p], cur' = [cur EXCEPT ![c] = f],
           owed'[e] = owed[e],
           cur[c] # e \/ pc[c] \in {"idle", "answering"}
    PROVE  Attended(e)'
  <1>1. pc \in [Deliveries -> PcValues] /\ cur \in [Deliveries -> Events \cup {NoEvent}]
    BY DEF TypeOK
  <1>2. CASE owed[e] > 0
    BY <1>2 DEF Attended
  <1>3. CASE \E d \in Deliveries : cur[d] = e /\ pc[d] \notin {"idle", "answering"}
    <2>1. PICK d \in Deliveries : cur[d] = e /\ pc[d] \notin {"idle", "answering"}
      BY <1>3
    <2>2. d # c
      BY <2>1
    <2> QED
      BY <1>1, <2>1, <2>2 DEF Attended
  <1> QED
    BY <1>2, <1>3 DEF Attended

\* A step after which the delivery is still at work attends its event itself.
LEMMA SelfAttended ==
    ASSUME TypeOK, NEW c \in Deliveries, NEW e \in Events,
           NEW p \in PcValues \ {"idle", "answering"}, pc' = [pc EXCEPT ![c] = p], cur'[c] = e
    PROVE  Attended(e)'
  <1>1. pc'[c] = p
    BY DEF TypeOK
  <1> QED
    BY <1>1 DEF Attended

\* A delivery that goes without an answer leaves a call owed.
LEMMA CalledAgain ==
    ASSUME TypeOK, NEW c \in Deliveries, cur[c] \in Events, Unanswered(c)
    PROVE  /\ owed'[cur[c]] > 0
           /\ \A e \in Events \ {cur[c]} : owed'[e] = owed[e]
  <1>1. owed \in [Events -> Nat] /\ owed[cur[c]] \in Nat
    BY DEF TypeOK
  <1>2. owed' = [owed EXCEPT ![cur[c]] = owed[cur[c]] + 1]
    BY DEF Unanswered
  <1>3. owed'[cur[c]] > 0
    BY <1>1, <1>2
  <1> QED
    BY <1>1, <1>2, <1>3

LEMMA AttendedStep ==
    ASSUME IInv, AlwaysAttended, [Next]_vars
    PROVE  AlwaysAttended'
  <1> SUFFICES ASSUME early' = 0, NEW e \in Events, Open(e)'
               PROVE  Attended(e)'
    BY DEF AlwaysAttended, Open
  <1>0. /\ TypeOK
        /\ pc \in [Deliveries -> PcValues]
        /\ cur \in [Deliveries -> Events \cup {NoEvent}]
        /\ \A d \in Deliveries : pc[d] # "idle" => cur[d] \in Events
        /\ owed \in [Events -> Nat]
        /\ events \in [Events -> EventRow]
        /\ early \in Nat
    BY DEF IInv, TypeOK
  <1>1. early = 0
    <2>1. early' \in {early, early + 1}
      BY DEF Next, Work, StartCheckout, FinishCheckout, Deliver, Claim, AlreadyProcessed, Ignore,
         CloseIntent, CloseRefused, SettleReceipt, SettlePayout, SettleRefund, SettleReinstatement,
         Refuse, MarkFailed, Answer, Fault, Age, RecordPayment, Settled, vars, bounds
    <2> QED
      BY <1>0, <2>1
  <1>2. Open(e) => Attended(e)
    BY <1>1 DEF AlwaysAttended, Open
  <1>3. ASSUME UNCHANGED <<events, pc, cur, owed>>
        PROVE  Attended(e)'
    BY <1>2, <1>3 DEF Attended, Open
  <1>4. ASSUME NEW f \in Events, Age(f)
        PROVE  Attended(e)'
    <2>1. events'[e].status = events[e].status
      BY <1>0, <1>4 DEF Age, EventRow
    <2> QED
      BY <1>2, <1>4, <2>1 DEF Attended, Open, Age
  <1>5. ASSUME NEW c \in Deliveries, NEW f \in Events, Deliver(c, f)
        PROVE  Attended(e)'
    <2>1. CASE f = e
      <3>1. cur'[c] = e
        BY <1>0, <1>5, <2>1 DEF Deliver
      <3> QED
        BY <1>0, <1>5, <3>1, SelfAttended DEF Deliver, PcValues
    <2>2. CASE f # e
      <3>1. Open(e)
        BY <1>0, <1>5, <2>2 DEF Open, Deliver
      <3>2. /\ owed'[e] = owed[e]
            /\ pc' = [pc EXCEPT ![c] = "received"] /\ cur' = [cur EXCEPT ![c] = f]
            /\ pc[c] = "idle"
        BY <1>0, <1>5, <2>2 DEF Deliver
      <3> QED
        BY <1>0, <1>2, <3>1, <3>2, OthersAttended
    <2> QED
      BY <2>1, <2>2
  <1>6. ASSUME NEW c \in Deliveries, Claim(c) \/ CloseIntent(c) \/ Refuse(c)
        PROVE  Attended(e)'
    <2>1. /\ cur[c] \in Events /\ cur' = cur /\ owed' = owed
          /\ \E p \in PcValues \ {"idle", "answering"} : pc' = [pc EXCEPT ![c] = p]
          /\ \A f \in Events \ {cur[c]} : events'[f] = events[f]
      BY <1>0, <1>6 DEF Claim, CloseIntent, Refuse, PcValues
    <2>2. PICK p \in PcValues \ {"idle", "answering"} : pc' = [pc EXCEPT ![c] = p]
      BY <2>1
    <2>3. CASE cur[c] = e
      BY <1>0, <2>1, <2>2, <2>3, SelfAttended
    <2>4. CASE cur[c] # e
      <3>1. Open(e) /\ cur' = [cur EXCEPT ![c] = cur[c]]
        BY <1>0, <2>1, <2>4 DEF Open
      <3> QED
        BY <1>0, <1>2, <2>1, <2>2, <2>4, <3>1, OthersAttended
    <2> QED
      BY <2>3, <2>4
  <1>7. ASSUME NEW c \in Deliveries, CloseRefused(c) \/ Fault(c)
        PROVE  Attended(e)'
    <2>1. /\ cur[c] \in Events /\ Unanswered(c) /\ events' = events
          /\ pc' = [pc EXCEPT ![c] = "idle"] /\ cur' = [cur EXCEPT ![c] = NoEvent]
      BY <1>0, <1>7 DEF CloseRefused, Fault, Unanswered
    <2>2. CASE cur[c] = e
      BY <1>0, <2>1, <2>2, CalledAgain DEF Attended
    <2>3. CASE cur[c] # e
      <3>1. Open(e) /\ owed'[e] = owed[e]
        BY <1>0, <2>1, <2>3, CalledAgain DEF Open
      <3> QED
        BY <1>0, <1>2, <2>1, <2>3, <3>1, OthersAttended
    <2> QED
      BY <2>2, <2>3
  <1>8. ASSUME NEW c \in Deliveries, Answer(c)
        PROVE  Attended(e)'
    <2>1. /\ Open(e) /\ owed' = owed /\ pc[c] = "answering"
          /\ pc' = [pc EXCEPT ![c] = "idle"] /\ cur' = [cur EXCEPT ![c] = NoEvent]
      BY <1>8 DEF Open, Answer
    <2> QED
      BY <1>0, <1>2, <2>1, OthersAttended
  \* The call ends with an event that is at rest.
  <1>9. ASSUME NEW c \in Deliveries, cur' = cur, owed' = owed,
               pc' = [pc EXCEPT ![c] = "answering"],
               cur[c] = e => ~Open(e)',
               cur[c] # e => Open(e)
        PROVE  Attended(e)'
    <2>1. cur' = [cur EXCEPT ![c] = cur[c]] /\ cur[c] # e
      BY <1>0, <1>9
    <2> QED
      BY <1>0, <1>2, <1>9, <2>1, OthersAttended
  <1>10. ASSUME NEW c \in Deliveries, AlreadyProcessed(c)
         PROVE  Attended(e)'
    <2>1. /\ cur' = cur /\ owed' = owed /\ events' = events
          /\ pc' = [pc EXCEPT ![c] = "answering"]
          /\ ~Claimable(events[cur[c]])
          /\ ~(events[cur[c]].status = "PROCESSING" /\ ~events[cur[c]].old)
      BY <1>1, <1>10 DEF AlreadyProcessed
    <2>2. cur[c] = e => ~Open(e)
      BY <2>1 DEF Open, Claimable
    <2> QED
      BY <1>9, <2>1, <2>2 DEF Open
  <1>11. ASSUME NEW c \in Deliveries, Ignore(c) \/ MarkFailed(c)
         PROVE  Attended(e)'
    <2>1. /\ cur[c] \in Events /\ cur' = cur /\ owed' = owed
          /\ pc' = [pc EXCEPT ![c] = "answering"]
          /\ events'[cur[c]].status \in {"IGNORED", "FAILED"}
          /\ \A f \in Events \ {cur[c]} : events'[f] = events[f]
      BY <1>0, <1>11 DEF Ignore, MarkFailed, EventRow
    <2> QED
      BY <1>9, <2>1 DEF Open
  <1>12. ASSUME NEW c \in Deliveries, SettleReceipt(c) \/ SettlePayout(c) \/ SettleRefund(c)
         PROVE  Attended(e)'
    <2>1. /\ cur[c] \in Events /\ cur' = cur /\ owed' = owed
          /\ pc' = [pc EXCEPT ![c] = "answering"]
      BY <1>0, <1>12 DEF SettleReceipt, SettlePayout, SettleRefund, Settled
    <2>2. \E p : events' = Posted(cur[c], p)
      BY <1>12 DEF SettleReceipt, SettlePayout, SettleRefund
    <2>3. /\ events'[cur[c]].status = "PROCESSED"
          /\ \A f \in Events \ {cur[c]} : events'[f] = events[f]
      BY <1>0, <2>1, <2>2 DEF Posted
    <2> QED
      BY <1>9, <2>1, <2>3 DEF Open
  <1>13. ASSUME NEW c \in Deliveries, SettleReinstatement(c)
         PROVE  Attended(e)'
    <2>1. /\ cur[c] \in Events /\ cur' = cur /\ owed' = owed
          /\ pc' = [pc EXCEPT ![c] = "answering"]
      BY <1>0, <1>13 DEF SettleReinstatement, Settled
    <2>2. PICK original \in Events, p \in {events[o].payment : o \in Events} :
             events' = [Posted(cur[c], p) EXCEPT ![original].status = "REVERSED"]
      BY <1>13 DEF SettleReinstatement, Matching, Refunds
    <2>3. events'[e].status
             = IF e = original THEN "REVERSED" ELSE Posted(cur[c], p)[e].status
      BY <1>0, <2>1, <2>2 DEF Posted, EventRow
    <2>4. /\ cur[c] = e => ~Open(e)'
          /\ cur[c] # e => Open(e)
      BY <1>0, <2>1, <2>3 DEF Posted, Open
    <2> QED
      BY <1>9, <2>1, <2>4
  <1>14. ASSUME \/ \E k \in Keys : StartCheckout(k) \/ FinishCheckout(k)
                \/ \E i \in Invoices, amount \in Amounts : RecordPayment(i, amount)
                \/ UNCHANGED vars
         PROVE  Attended(e)'
    BY <1>3, <1>14 DEF StartCheckout, FinishCheckout, RecordPayment, vars
  <1> QED
    BY <1>4, <1>5, <1>6, <1>7, <1>8, <1>10, <1>11, <1>12, <1>13, <1>14 DEF Next, Work

\* No received event is lost: while it is neither posted, refused nor ignored, a
\* delivery works on it or the provider will call again, unless a retry was answered
\* too early (the rethrow of transient errors and the reclaim in processWebhook).
THEOREM EventsAreAttended == Spec => []AlwaysAttended
  <1>1. Init => IInv /\ AlwaysAttended
    BY InitInv, PaymentAssumption DEF Init, AlwaysAttended
  <1>2. IInv /\ AlwaysAttended /\ [Next]_vars => (IInv /\ AlwaysAttended)'
    BY NextInv, AttendedStep, PaymentAssumption
  <1> QED
    BY <1>1, <1>2, PTL DEF Spec
=============================================================================

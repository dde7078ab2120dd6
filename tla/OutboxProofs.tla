----------------------------- MODULE OutboxProofs -----------------------------
(***************************************************************************)
(* Proofs about EmailOutbox, for any set of e-mails, overlapping runs,      *)
(* batch sizes, retries and bounds.                                         *)
(***************************************************************************)
EXTENDS EmailOutbox, FiniteSetTheorems, TLAPS

\* Every statement writes a row of the table's type.
LEMMA RowTypes ==
    ASSUME NEW row \in Row, NEW n \in Nat
    PROVE  /\ Queued(row) \in Row
           /\ Claimed(row) \in Row
           /\ SuppressedRow(row) \in Row
           /\ SentRow(row) \in Row
           /\ AfterFailure(row, n) \in Row
           /\ Recovered(row) \in Row
           /\ [row EXCEPT !.status = "DEAD_LETTER"] \in Row
           /\ [row EXCEPT !.lease = "expired"] \in Row
           /\ [row EXCEPT !.due = TRUE] \in Row
  BY DEF Queued, Claimed, SuppressedRow, SentRow, AfterFailure, Recovered, Row, Status

\* What the statements leave in status and lease.
LEMMA RowStatus ==
    ASSUME NEW row \in Row, NEW n \in Nat
    PROVE  /\ Claimed(row).status = "PROCESSING"
           /\ Claimed(row).lease = "live"
           /\ SuppressedRow(row).status # "PROCESSING"
           /\ SentRow(row).status = "SENT"
           /\ AfterFailure(row, n).status \in {"FAILED", "RETRYING"}
  BY DEF Claimed, SuppressedRow, SentRow, AfterFailure, Row

\* The end of a row: its UPDATE, and the run goes on.
LEMMA FinishType ==
    ASSUME TypeOK, NEW t \in Ticks, cur[t] # NoClaim, NEW row \in Row, Finish(t, row)
    PROVE  TypeOK'
  <1>1. cur[t] \in Claims /\ cur[t].email \in Emails
    BY DEF TypeOK, Claims
  <1>2. rows' \in [Emails -> Row]
    BY <1>1 DEF Finish, TypeOK
  <1>3. /\ pc' \in [Ticks -> {"idle", "claiming", "batch"} \cup Busy]
        /\ cur' \in [Ticks -> Claims \cup {NoClaim}]
        /\ \A s \in Ticks : pc'[s] \in Busy <=> cur'[s] # NoClaim
    BY DEF Finish, GoOn, TypeOK, Busy
  <1>4. QED
    BY <1>2, <1>3 DEF Finish, GoOn, TypeOK

\* A move of one run from a busy place to another.
LEMMA MoveType ==
    ASSUME TypeOK, NEW t \in Ticks, NEW place \in Busy, pc[t] \in Busy,
           pc' = [pc EXCEPT ![t] = place], UNCHANGED <<held, cur>>
    PROVE  /\ pc' \in [Ticks -> {"idle", "claiming", "batch"} \cup Busy]
           /\ \A s \in Ticks : pc'[s] \in Busy <=> cur'[s] # NoClaim
  BY DEF TypeOK

LEMMA DeliveredType ==
    ASSUME TypeOK, NEW t \in Ticks, pc[t] \in Busy
    PROVE  [delivered EXCEPT ![cur[t].email] = @ + 1] \in [Emails -> Nat]
  BY DEF TypeOK, Claims

LEMMA TypeStep ==
    ASSUME TypeOK, [Next]_vars
    PROVE  TypeOK'
  <1> USE OutboxAssumption DEF Claims
  <1>1. ASSUME NEW e \in Emails, Enqueue(e)
        PROVE  TypeOK'
    <2>1. rows' \in [Emails -> Row]
      BY <1>1, RowTypes DEF Enqueue, TypeOK
    <2>2. QED
      BY <1>1, <2>1 DEF Enqueue, TypeOK, tickVars
  <1>2. ASSUME NEW i \in Invoices, NEW to \in {"open", "settled", "void"},
               ChangeInvoice(i, to)
        PROVE  TypeOK'
    BY <1>2 DEF ChangeInvoice, TypeOK, tickVars
  <1>3. ASSUME RecoverExpiredLeases
        PROVE  TypeOK'
    <2>1. rows' \in [Emails -> Row]
      BY <1>3, RowTypes DEF RecoverExpiredLeases, TypeOK
    <2>2. QED
      BY <1>3, <2>1 DEF RecoverExpiredLeases, TypeOK, tickVars
  <1>4. ASSUME NEW t \in Ticks, Cleanup(t)
        PROVE  TypeOK'
    <2>1. rows' \in [Emails -> Row]
      BY <1>4, RowTypes DEF Cleanup, TypeOK
    <2>2. QED
      BY <1>4, <2>1 DEF Cleanup, TypeOK, Busy
  <1>5. ASSUME NEW t \in Ticks, NEW C \in Batches, Claim(t, C)
        PROVE  TypeOK'
    <2>1. C \subseteq Emails
      BY DEF Batches
    <2>2. rows' \in [Emails -> Row]
      BY <1>5, RowTypes DEF Claim, TypeOK
    <2>3. {[email |-> e, retries |-> rows[e].retries] : e \in C} \in SUBSET Claims
      BY <2>1 DEF TypeOK, Row
    <2>4. held' \in [Ticks -> SUBSET Claims]
      BY <1>5, <2>3 DEF Claim, TypeOK
    <2>5. QED
      BY <1>5, <2>2, <2>4 DEF Claim, TypeOK, Busy
  <1>6. ASSUME NEW t \in Ticks, NEW c \in held[t], Check(t, c)
        PROVE  TypeOK'
    <2>1. c \in Claims /\ c # NoClaim
      BY <1>6 DEF TypeOK
    <2>2. /\ held' \in [Ticks -> SUBSET Claims]
          /\ cur' \in [Ticks -> Claims \cup {NoClaim}]
      BY <1>6, <2>1 DEF Check, TypeOK
    <2>3. /\ pc' \in [Ticks -> {"idle", "claiming", "batch"} \cup Busy]
          /\ \A s \in Ticks : pc'[s] \in Busy <=> cur'[s] # NoClaim
      BY <1>6, <2>1 DEF Check, TypeOK, Busy
    <2>4. QED
      BY <1>6, <2>2, <2>3 DEF Check, TypeOK
  <1>7. ASSUME NEW t \in Ticks, Suppress(t) \/ MarkSent(t) \/ RecordFailure(t)
        PROVE  TypeOK'
    <2>1. cur[t] # NoClaim
      BY <1>7 DEF Suppress, MarkSent, RecordFailure, TypeOK, Busy
    <2>2. rows[cur[t].email] \in Row /\ cur[t].retries + 1 \in Nat
      BY <2>1 DEF TypeOK
    <2>3. QED
      BY <1>7, <2>1, <2>2, RowTypes, FinishType DEF Suppress, MarkSent, RecordFailure
  <1>8. ASSUME NEW t \in Ticks, NEW ok \in BOOLEAN, Dispatch(t, ok)
        PROVE  TypeOK'
    <2>1. pc[t] \in Busy /\ AfterDispatch(ok) \in Busy
      BY <1>8 DEF Dispatch, AfterDispatch, Busy
    <2>2. delivered' \in [Emails -> Nat]
      BY <1>8, <2>1, DeliveredType DEF Dispatch, TypeOK
    <2>3. QED
      BY <1>8, <2>1, <2>2, MoveType DEF Dispatch, TypeOK
  <1>9. ASSUME NEW t \in Ticks, DispatchUnheard(t) \/ StatementFails(t)
        PROVE  TypeOK'
    <2>1. pc[t] \in Busy /\ "failing" \in Busy
      BY <1>9 DEF DispatchUnheard, StatementFails, Busy
    <2>2. delivered' \in [Emails -> Nat]
      BY <1>9, <2>1, DeliveredType DEF DispatchUnheard, StatementFails, TypeOK
    <2>3. /\ pc' \in [Ticks -> {"idle", "claiming", "batch"} \cup Busy]
          /\ \A s \in Ticks : pc'[s] \in Busy <=> cur'[s] # NoClaim
      BY <1>9, <2>1, MoveType DEF DispatchUnheard, StatementFails
    <2>4. QED
      BY <1>9, <2>2, <2>3 DEF DispatchUnheard, StatementFails, Fault, TypeOK
  <1>10. ASSUME NEW t \in Ticks, Abandon(t)
         PROVE  TypeOK'
    BY <1>10 DEF Abandon, Fault, TypeOK, Busy
  <1>11. ASSUME NEW e \in Emails, Expire(e) \/ BackoffOver(e)
         PROVE  TypeOK'
    <2>1. \/ rows' = [rows EXCEPT ![e] = [rows[e] EXCEPT !.lease = "expired"]]
          \/ rows' = [rows EXCEPT ![e] = [rows[e] EXCEPT !.due = TRUE]]
      BY <1>11 DEF Expire, BackoffOver
    <2>2. /\ [rows[e] EXCEPT !.lease = "expired"] \in Row
          /\ [rows[e] EXCEPT !.due = TRUE] \in Row
      <3>1. rows[e] \in Row
        BY DEF TypeOK
      <3>2. QED
        BY <3>1, RowTypes
    <2>3. rows' \in [Emails -> Row]
      BY <2>1, <2>2 DEF TypeOK
    <2>4. QED
      BY <1>11, <2>3 DEF Expire, BackoffOver, TypeOK, tickVars
  <1>12. CASE UNCHANGED vars
    BY <1>12 DEF vars, TypeOK
  <1>13. QED
    BY <1>1, <1>2, <1>3, <1>4, <1>5, <1>6, <1>7, <1>8, <1>9, <1>10, <1>11, <1>12
       DEF Next, TickStep, Mishap, ClockStep

\* Rows, invoices, claims and counters of the outbox are well typed, and a run
\* has a current claim exactly while it works on a row.
THEOREM TypeCorrect == Spec => []TypeOK
  <1>1. Init => TypeOK
    BY DEF Init, TypeOK, Row, Status, Busy
  <1>2. TypeOK /\ [Next]_vars => TypeOK'
    BY TypeStep
  <1>3. QED
    BY <1>1, <1>2, PTL DEF Spec

-----------------------------------------------------------------------------
(* The shape of rows.  It is preserved by each statement on its own: a claim *)
(* keeps the retries that made the row claimable, and a failure that leaves  *)
(* the row open writes a count below max_retries, stale or not.              *)

RowShape(row) ==
    /\ row.lease # "none" <=> row.status = "PROCESSING"
    /\ row.status \in {"PENDING", "RETRYING", "PROCESSING"} => row.retries < MaxRetries
    /\ row.status # "DEAD_LETTER"

LEMMA ShapeKept ==
    ASSUME NEW row \in Row, RowShape(row), NEW n \in Nat
    PROVE  /\ row.status = "ABSENT" /\ row.retries = 0 => RowShape(Queued(row))
           /\ ~Exhausted(row)
           /\ Claimable(row) => RowShape(Claimed(row))
           /\ RowShape(SuppressedRow(row))
           /\ RowShape(SentRow(row))
           /\ RowShape(AfterFailure(row, n))
           /\ RowShape(Recovered(row))
           /\ row.lease = "live" => RowShape([row EXCEPT !.lease = "expired"])
           /\ RowShape([row EXCEPT !.due = TRUE])
  BY OutboxAssumption
     DEF RowShape, Queued, Exhausted, Claimable, Claimed, SuppressedRow, SentRow,
         AfterFailure, Recovered, Row, Status

\* A row that is not in the table yet has no retries behind it.
Shaped ==
    /\ OpenRowsHaveRetries
    /\ \A e \in Emails : rows[e].status = "ABSENT" => rows[e].retries = 0

LEMMA ShapedRows == Shaped <=> \A e \in Emails :
                                  /\ RowShape(rows[e])
                                  /\ rows[e].status = "ABSENT" => rows[e].retries = 0
  BY DEF Shaped, OpenRowsHaveRetries, RowShape

\* One statement on one row.
LEMMA OneRowShaped ==
    ASSUME TypeOK, Shaped, NEW e \in Emails, NEW row \in Row,
           RowShape(row), row.status # "ABSENT",
           rows' = [rows EXCEPT ![e] = row]
    PROVE  Shaped'
  BY DEF Shaped, OpenRowsHaveRetries, RowShape, TypeOK

LEMMA ShapedStep ==
    ASSUME TypeOK, Shaped, [Next]_vars
    PROVE  Shaped'
  <1>0. \A e \in Emails :
           /\ rows[e] \in Row
           /\ RowShape(rows[e])
           /\ rows[e].status = "ABSENT" => rows[e].retries = 0
    BY ShapedRows DEF TypeOK
  <1>2. ASSUME UNCHANGED rows
        PROVE  Shaped'
    BY <1>2 DEF Shaped, OpenRowsHaveRetries
  <1>3. ASSUME NEW e \in Emails, Enqueue(e)
        PROVE  Shaped'
    <2>1. Queued(rows[e]) \in Row /\ Queued(rows[e]).status # "ABSENT"
      <3>1. Queued(rows[e]) \in Row
        BY <1>0, RowTypes
      <3>2. Queued(rows[e]).status # "ABSENT"
        BY <1>0 DEF Queued, Row
      <3>3. QED
        BY <3>1, <3>2
    <2>2. RowShape(Queued(rows[e]))
      BY <1>0, <1>3, ShapeKept DEF Enqueue
    <2>3. QED
      BY <1>3, <2>1, <2>2, OneRowShaped DEF Enqueue
  <1>4. CASE RecoverExpiredLeases
    <2>1. \A e \in Emails : /\ RowShape(Recovered(rows[e]))
                            /\ Recovered(rows[e]).status = "ABSENT"
                                 => Recovered(rows[e]).retries = 0
      BY <1>0, ShapeKept DEF Recovered, Row
    <2>2. rows' = [e \in Emails |-> Recovered(rows[e])]
      BY <1>4 DEF RecoverExpiredLeases
    <2>3. QED
      BY <2>1, <2>2 DEF Shaped, OpenRowsHaveRetries, RowShape
  <1>5. ASSUME NEW t \in Ticks, Cleanup(t)
        PROVE  Shaped'
    <2>1. \A e \in Emails : ~Exhausted(rows[e])
      BY <1>0, ShapeKept
    <2>2. \A e \in Emails : rows'[e] = rows[e]
      BY <1>5, <2>1 DEF Cleanup
    <2>3. QED
      BY <2>2 DEF Shaped, OpenRowsHaveRetries
  <1>6. ASSUME NEW t \in Ticks, NEW C \in Batches, Claim(t, C)
        PROVE  Shaped'
    <2>1. \A e \in C : e \in Emails /\ Claimable(rows[e])
      BY DEF Batches
    <2>2. \A e \in C : RowShape(Claimed(rows[e])) /\ Claimed(rows[e]).status # "ABSENT"
      BY <1>0, <2>1, ShapeKept DEF Claimed, Row
    <2>3. \A e \in Emails : rows'[e] = IF e \in C THEN Claimed(rows[e]) ELSE rows[e]
      BY <1>6 DEF Claim
    <2>4. \A e \in Emails : /\ RowShape(rows'[e])
                            /\ rows'[e].status = "ABSENT" => rows'[e].retries = 0
      BY <1>0, <2>2, <2>3
    <2>5. QED
      BY <2>4 DEF Shaped, OpenRowsHaveRetries, RowShape
  <1>7. ASSUME NEW t \in Ticks, Suppress(t) \/ MarkSent(t) \/ RecordFailure(t)
        PROVE  Shaped'
    <2>1. cur[t] \in Claims
      BY <1>7 DEF Suppress, MarkSent, RecordFailure, TypeOK, Busy
    <2> DEFINE e == cur[t].email
               row == rows[e]
    <2>2. e \in Emails /\ cur[t].retries + 1 \in Nat
      BY <2>1 DEF Claims
    <2>3. /\ row \in Row /\ RowShape(row)
          /\ row.status = "ABSENT" => row.retries = 0
      BY <1>0, <2>2
    <2>4. PICK new \in {SuppressedRow(row), SentRow(row), AfterFailure(row, cur[t].retries + 1)} :
             rows' = [rows EXCEPT ![e] = new]
      BY <1>7 DEF Suppress, MarkSent, RecordFailure, Finish
    <2>5. new \in Row /\ RowShape(new)
      BY <2>2, <2>3, <2>4, RowTypes, ShapeKept
    <2>6. new.status = "ABSENT" => new.retries = 0
      BY <2>3, <2>4 DEF SuppressedRow, SentRow, AfterFailure, Row
    <2> HIDE DEF e, row
    <2>7. QED
      BY <2>2, <2>4, <2>5, <2>6 DEF Shaped, OpenRowsHaveRetries, RowShape, TypeOK
  <1>8. ASSUME NEW e \in Emails, Expire(e) \/ BackoffOver(e)
        PROVE  Shaped'
    <2>1. PICK new \in {[rows[e] EXCEPT !.lease = "expired"], [rows[e] EXCEPT !.due = TRUE]} :
             /\ rows' = [rows EXCEPT ![e] = new]
             /\ rows[e].status \in {"PROCESSING", "RETRYING"}
             /\ new = [rows[e] EXCEPT !.lease = "expired"] => rows[e].lease = "live"
      <3>1. CASE Expire(e)
        BY <3>1 DEF Expire
      <3>2. CASE BackoffOver(e)
        <4>1. [rows[e] EXCEPT !.due = TRUE] # [rows[e] EXCEPT !.lease = "expired"]
          BY <1>0, <3>2 DEF BackoffOver, Row
        <4>2. QED
          BY <3>2, <4>1 DEF BackoffOver
      <3>3. QED
        BY <1>8, <3>1, <3>2
    <2>2. new \in Row /\ RowShape(new)
      BY <1>0, <2>1, RowTypes, ShapeKept
    <2>3. new.status # "ABSENT"
      BY <1>0, <2>1 DEF Row
    <2>4. QED
      BY <2>1, <2>2, <2>3, OneRowShaped
  <1>9. CASE UNCHANGED vars
    BY <1>2, <1>9 DEF vars
  <1>10. ASSUME NEW i \in Invoices, NEW to \in {"open", "settled", "void"},
                ChangeInvoice(i, to)
         PROVE  Shaped'
    BY <1>2, <1>10 DEF ChangeInvoice
  <1>11. ASSUME NEW t \in Ticks,
                \/ \E c \in held[t] : Check(t, c)
                \/ \E ok \in BOOLEAN : Dispatch(t, ok)
                \/ Mishap(t)
         PROVE  Shaped'
    BY <1>2, <1>11
       DEF Check, Dispatch, Mishap, DispatchUnheard, StatementFails, Abandon
  <1>12. QED
    BY <1>3, <1>4, <1>5, <1>6, <1>7, <1>8, <1>9, <1>10, <1>11
       DEF Next, TickStep, ClockStep

\* A row that may still be sent has retries left and is leased exactly while it
\* is PROCESSING: the DEAD_LETTER cleanup of processOutbox never finds a row.
THEOREM OpenRowsKeepRetries == Spec => []OpenRowsHaveRetries
  <1>1. Init => Shaped
    BY OutboxAssumption DEF Init, Shaped, OpenRowsHaveRetries
  <1>2. TypeOK /\ Shaped /\ [Next]_vars => Shaped'
    BY ShapedStep
  <1>3. Shaped => OpenRowsHaveRetries
    BY DEF Shaped
  <1>4. QED
    BY <1>1, <1>2, <1>3, TypeCorrect, PTL DEF Spec

-----------------------------------------------------------------------------
(* SENT is true.  A row is marked SENT by a run whose message was accepted,  *)
(* and deliveries are never taken back.                                      *)

Accepted ==
    /\ SentIsDelivered
    /\ \A t \in Ticks : pc[t] = "accepted" => delivered[cur[t].email] >= 1

LEMMA AcceptedStep ==
    ASSUME TypeOK, Accepted, [Next]_vars
    PROVE  Accepted'
  <1> USE DEF Busy
  \* Steps that deliver nothing, mark no row SENT and bring no run to "accepted".
  <1>1. ASSUME UNCHANGED delivered,
               \A e \in Emails : rows'[e].status = "SENT" => rows[e].status = "SENT",
               \A t \in Ticks : pc'[t] = "accepted" => pc[t] = "accepted" /\ cur'[t] = cur[t]
        PROVE  Accepted'
    BY <1>1 DEF Accepted, SentIsDelivered
  <1>2. ASSUME UNCHANGED <<delivered, pc, cur>>,
               \A e \in Emails : rows'[e].status = "SENT" => rows[e].status = "SENT"
        PROVE  Accepted'
    BY <1>1, <1>2
  <1>3. ASSUME NEW e \in Emails, Enqueue(e) \/ Expire(e) \/ BackoffOver(e)
        PROVE  Accepted'
    <2>1. \A f \in Emails : rows'[f].status = "SENT" => rows[f].status = "SENT"
      BY <1>3 DEF Enqueue, Queued, Expire, BackoffOver, TypeOK, Row
    <2>2. QED
      BY <1>2, <1>3, <2>1 DEF Enqueue, Expire, BackoffOver, tickVars
  <1>4. CASE RecoverExpiredLeases
    <2>1. \A e \in Emails : rows'[e].status = "SENT" => rows[e].status = "SENT"
      BY <1>4 DEF RecoverExpiredLeases, Recovered, TypeOK, Row
    <2>2. QED
      BY <1>2, <1>4, <2>1 DEF RecoverExpiredLeases, tickVars
  <1>5. ASSUME NEW i \in Invoices, NEW to \in {"open", "settled", "void"},
               ChangeInvoice(i, to)
        PROVE  Accepted'
    BY <1>2, <1>5 DEF ChangeInvoice, tickVars
  <1>6. ASSUME NEW t \in Ticks, Cleanup(t)
        PROVE  Accepted'
    <2>1. \A e \in Emails : rows'[e].status = "SENT" => rows[e].status = "SENT"
      BY <1>6 DEF Cleanup, TypeOK, Row
    <2>2. QED
      BY <1>1, <1>6, <2>1 DEF Cleanup, TypeOK
  <1>7. ASSUME NEW t \in Ticks, NEW C \in Batches, Claim(t, C)
        PROVE  Accepted'
    <2>1. \A e \in Emails : rows'[e].status = "SENT" => rows[e].status = "SENT"
      BY <1>7 DEF Claim, Claimed, TypeOK, Row
    <2>2. QED
      BY <1>1, <1>7, <2>1 DEF Claim, TypeOK
  <1>8. ASSUME NEW t \in Ticks, NEW c \in held[t], Check(t, c)
        PROVE  Accepted'
    BY <1>1, <1>8 DEF Check, TypeOK
  <1>9. ASSUME NEW t \in Ticks, Suppress(t) \/ RecordFailure(t)
        PROVE  Accepted'
    <2>1. \A e \in Emails : rows'[e].status = "SENT" => rows[e].status = "SENT"
      <3>1. PICK row :
               /\ rows' = [rows EXCEPT ![cur[t].email] = row]
               /\ \/ row = SuppressedRow(rows[cur[t].email])
                  \/ row = AfterFailure(rows[cur[t].email], cur[t].retries + 1)
        BY <1>9 DEF Suppress, RecordFailure, Finish
      <3>2. cur[t].email \in Emails
        BY <1>9 DEF Suppress, RecordFailure, TypeOK, Claims
      <3>3. rows[cur[t].email] \in Row
        BY <3>2 DEF TypeOK
      <3>4. row.status = "SENT" => rows[cur[t].email].status = "SENT"
        BY <3>1, <3>3 DEF SuppressedRow, AfterFailure, Row
      <3>5. QED
        BY <3>1, <3>2, <3>4 DEF TypeOK
    <2>2. QED
      BY <1>1, <1>9, <2>1 DEF Suppress, RecordFailure, Finish, GoOn, TypeOK
  <1>10. ASSUME NEW t \in Ticks, MarkSent(t)
         PROVE  Accepted'
    <2>1. \A e \in Emails :
             rows'[e].status = "SENT" => rows[e].status = "SENT" \/ e = cur[t].email
      BY <1>10 DEF MarkSent, Finish, TypeOK
    <2>2. delivered[cur[t].email] >= 1
      BY <1>10 DEF MarkSent, Accepted
    <2>3. QED
      BY <1>10, <2>1, <2>2
         DEF MarkSent, Finish, GoOn, Accepted, SentIsDelivered, TypeOK
  <1>11. ASSUME NEW t \in Ticks,
                \/ \E ok \in BOOLEAN : Dispatch(t, ok)
                \/ DispatchUnheard(t)
         PROVE  Accepted'
    <2>1. cur[t] \in Claims /\ cur[t].email \in Emails
      BY <1>11 DEF Dispatch, DispatchUnheard, TypeOK, Claims
    <2>2. \/ UNCHANGED delivered
          \/ delivered' = [delivered EXCEPT ![cur[t].email] = @ + 1]
      BY <1>11 DEF Dispatch, DispatchUnheard
    <2>3. \A e \in Emails : delivered'[e] \in Nat /\ delivered'[e] >= delivered[e]
      BY <2>1, <2>2 DEF TypeOK
    <2>4. pc'[t] = "accepted" => delivered'[cur[t].email] >= 1
      BY <1>11, <2>1 DEF Dispatch, DispatchUnheard, AfterDispatch, TypeOK
    <2>5. \A s \in Ticks \ {t} : pc'[s] = pc[s]
      BY <1>11 DEF Dispatch, DispatchUnheard, TypeOK
    <2>6. UNCHANGED <<rows, cur>>
      BY <1>11 DEF Dispatch, DispatchUnheard
    <2>7. SentIsDelivered'
      BY <2>3, <2>6 DEF Accepted, SentIsDelivered, TypeOK
    <2>8. ASSUME NEW s \in Ticks, pc'[s] = "accepted"
          PROVE  delivered'[cur'[s].email] >= 1
      <3>1. CASE s = t
        BY <2>4, <2>6, <2>8, <3>1
      <3>2. CASE s # t
        <4>1. pc[s] = "accepted"
          BY <2>5, <2>8, <3>2
        <4>2. delivered[cur[s].email] >= 1 /\ cur[s].email \in Emails
          BY <4>1 DEF Accepted, TypeOK, Claims
        <4>3. QED
          BY <2>3, <2>6, <4>2 DEF TypeOK
      <3>3. QED
        BY <3>1, <3>2
    <2>9. QED
      BY <2>7, <2>8 DEF Accepted
  <1>12. ASSUME NEW t \in Ticks, StatementFails(t) \/ Abandon(t)
         PROVE  Accepted'
    BY <1>1, <1>12 DEF StatementFails, Abandon, TypeOK
  <1>13. CASE UNCHANGED vars
    BY <1>2, <1>13 DEF vars
  <1>14. QED
    BY <1>3, <1>4, <1>5, <1>6, <1>7, <1>8, <1>9, <1>10, <1>11, <1>12, <1>13
       DEF Next, TickStep, Mishap, ClockStep

\* A row that says SENT stands for an e-mail the mail server has accepted,
\* whatever faults and overlapping runs came between.
THEOREM SentMeansDelivered == Spec => []SentIsDelivered
  <1>1. Init => Accepted
    BY DEF Init, Accepted, SentIsDelivered
  <1>2. TypeOK /\ Accepted /\ [Next]_vars => Accepted'
    BY AcceptedStep
  <1>3. Accepted => SentIsDelivered
    BY DEF Accepted
  <1>4. QED
    BY <1>1, <1>2, <1>3, TypeCorrect, PTL DEF Spec

-----------------------------------------------------------------------------
(* Duplicates are paid for.  A delivery needs a claim, and a claim needs a   *)
(* row that may be claimed.  So count, for an e-mail, the deliveries, the    *)
(* runs that still owe it one, and the row itself if somebody may claim it   *)
(* now or after its lease: the sum starts at one, moves from the row to a    *)
(* run and from there to a delivery or back, and grows only with a fault or  *)
(* a lease that runs out under a run.                                        *)

Owes(t, e) ==
    \/ \E c \in held[t] : c.email = e
    \/ pc[t] \in Busy \ {"accepted"} /\ cur[t].email = e

Tokens(e) == {t \in Ticks : Owes(t, e)}

AtStake(e) ==
    \/ rows[e].status \in {"ABSENT", "PENDING", "RETRYING"}
    \/ rows[e].status = "PROCESSING" /\ (rows[e].lease = "expired" \/ ~WorkedOn(e))

Stake(e) == IF AtStake(e) THEN 1 ELSE 0

Paid(e) == delivered[e] + Cardinality(Tokens(e)) + Stake(e) <= 1 + early + faults

\* The claims of one run are for different rows.
BatchShape(t) ==
    /\ pc[t] \in {"idle", "claiming"} => held[t] = {}
    /\ \A c, d \in held[t] : c.email = d.email => c = d
    /\ pc[t] \in Busy => \A c \in held[t] : c.email # cur[t].email

Balanced ==
    /\ \A t \in Ticks : BatchShape(t)
    /\ \A e \in Emails : Paid(e)

LEMMA TokenCount ==
    ASSUME NEW S \in SUBSET Ticks, NEW T \in SUBSET Ticks, NEW t \in Ticks
    PROVE  /\ Cardinality(S) \in Nat /\ Cardinality(T) \in Nat
           /\ T \subseteq S => Cardinality(T) <= Cardinality(S)
           /\ T \subseteq S \cup {t} => Cardinality(T) <= Cardinality(S) + 1
           /\ t \in S /\ T \subseteq S \ {t} => Cardinality(T) + 1 <= Cardinality(S)
  <1>1. IsFiniteSet(S) /\ IsFiniteSet(T)
    BY OutboxAssumption, FS_Subset
  <1>2. Cardinality(S) \in Nat /\ Cardinality(T) \in Nat
    BY <1>1, FS_CardinalityType
  <1>3. T \subseteq S => Cardinality(T) <= Cardinality(S)
    BY <1>1, FS_Subset
  <1>4. ASSUME T \subseteq S \cup {t}
        PROVE  Cardinality(T) <= Cardinality(S) + 1
    <2>1. /\ IsFiniteSet(S \cup {t})
          /\ Cardinality(S \cup {t}) <= Cardinality(S) + 1
      BY <1>1, <1>2, FS_AddElement
    <2>2. Cardinality(T) <= Cardinality(S \cup {t})
      BY <1>4, <2>1, FS_Subset
    <2>3. Cardinality(S \cup {t}) \in Nat
      BY <2>1, FS_CardinalityType
    <2>4. QED
      BY <1>2, <2>1, <2>2, <2>3
  <1>5. ASSUME t \in S, T \subseteq S \ {t}
        PROVE  Cardinality(T) + 1 <= Cardinality(S)
    <2>1. /\ IsFiniteSet(S \ {t})
          /\ Cardinality(S \ {t}) = Cardinality(S) - 1
      BY <1>1, <1>5, FS_RemoveElement
    <2>2. Cardinality(T) <= Cardinality(S \ {t})
      BY <1>5, <2>1, FS_Subset
    <2>3. QED
      BY <1>2, <2>1, <2>2
  <1>6. QED
    BY <1>2, <1>3, <1>4, <1>5

LEMMA BatchStep ==
    ASSUME TypeOK, \A t \in Ticks : BatchShape(t), [Next]_vars
    PROVE  \A t \in Ticks : BatchShape(t)'
  <1> USE DEF BatchShape
  <1>1. ASSUME UNCHANGED tickVars
        PROVE  \A t \in Ticks : BatchShape(t)'
    BY <1>1 DEF tickVars
  <1>2. ASSUME NEW e \in Emails, Enqueue(e) \/ Expire(e) \/ BackoffOver(e)
        PROVE  \A t \in Ticks : BatchShape(t)'
    BY <1>1, <1>2 DEF Enqueue, Expire, BackoffOver
  <1>3. ASSUME \/ \E i \in Invoices, to \in {"open", "settled", "void"} : ChangeInvoice(i, to)
               \/ RecoverExpiredLeases
        PROVE  \A t \in Ticks : BatchShape(t)'
    BY <1>1, <1>3 DEF ChangeInvoice, RecoverExpiredLeases
  <1>4. ASSUME NEW t \in Ticks, Cleanup(t)
        PROVE  \A s \in Ticks : BatchShape(s)'
    BY <1>4 DEF Cleanup, TypeOK, Busy
  <1>5. ASSUME NEW t \in Ticks, NEW C \in Batches, Claim(t, C)
        PROVE  \A s \in Ticks : BatchShape(s)'
    <2>1. \A s \in Ticks \ {t} : pc'[s] = pc[s] /\ held'[s] = held[s] /\ cur'[s] = cur[s]
      BY <1>5 DEF Claim, TypeOK
    <2>2. /\ held'[t] = {[email |-> e, retries |-> rows[e].retries] : e \in C}
          /\ pc'[t] = IF C = {} THEN "idle" ELSE "batch"
      BY <1>5 DEF Claim, TypeOK
    <2>3. BatchShape(t)'
      BY <2>2 DEF Busy
    <2>4. QED
      BY <2>1, <2>3
  <1>6. ASSUME NEW t \in Ticks, NEW c \in held[t], Check(t, c)
        PROVE  \A s \in Ticks : BatchShape(s)'
    <2>1. \A s \in Ticks \ {t} : pc'[s] = pc[s] /\ held'[s] = held[s] /\ cur'[s] = cur[s]
      BY <1>6 DEF Check, TypeOK
    <2>2. /\ held'[t] = held[t] \ {c}
          /\ cur'[t] = c
          /\ pc'[t] \in {"suppressing", "dispatching"}
      BY <1>6 DEF Check, TypeOK
    <2>3. BatchShape(t)'
      BY <2>2
    <2>4. QED
      BY <2>1, <2>3
  <1>7. ASSUME NEW t \in Ticks, Suppress(t) \/ MarkSent(t) \/ RecordFailure(t)
        PROVE  \A s \in Ticks : BatchShape(s)'
    BY <1>7 DEF Suppress, MarkSent, RecordFailure, Finish, GoOn, TypeOK, Busy
  <1>8. ASSUME NEW t \in Ticks,
               \/ \E ok \in BOOLEAN : Dispatch(t, ok)
               \/ DispatchUnheard(t) \/ StatementFails(t)
        PROVE  \A s \in Ticks : BatchShape(s)'
    <2>1. /\ UNCHANGED <<held, cur>>
          /\ pc[t] \in Busy /\ pc'[t] \in Busy
          /\ \A s \in Ticks \ {t} : pc'[s] = pc[s]
      BY <1>8 DEF Dispatch, AfterDispatch, DispatchUnheard, StatementFails, TypeOK, Busy
    <2>2. QED
      BY <2>1 DEF Busy
  <1>9. ASSUME NEW t \in Ticks, Abandon(t)
        PROVE  \A s \in Ticks : BatchShape(s)'
    BY <1>9 DEF Abandon, TypeOK, Busy
  <1>10. CASE UNCHANGED vars
    BY <1>1, <1>10 DEF vars, tickVars
  <1>11. QED
    BY <1>2, <1>3, <1>4, <1>5, <1>6, <1>7, <1>8, <1>9, <1>10
       DEF Next, TickStep, Mishap, ClockStep

\* The arithmetic of a charged step.
LEMMA ChargedSum ==
    ASSUME NEW a \in Nat, NEW a1 \in Nat, NEW b \in Nat, NEW b1 \in Nat,
           NEW c \in Nat, NEW c1 \in Nat,
           NEW p \in Nat, NEW p1 \in Nat, NEW q \in Nat, NEW q1 \in Nat,
           NEW d \in Int, NEW n \in Int, NEW m \in Int,
           a + b + c <= 1 + p + q,
           a1 = a + d, b1 <= b + n, c1 <= c + m, p1 + q1 >= p + q + d + n + m
    PROVE  a1 + b1 + c1 <= 1 + p1 + q1
  OBVIOUS

\* The books of one e-mail balance in a step that makes d deliveries, adds n
\* runs that owe one and m to the stake, and is charged for what it adds.
LEMMA Charge ==
    ASSUME TypeOK, TypeOK', NEW e \in Emails, Paid(e),
           NEW d \in Int, NEW n \in Int, NEW m \in Int,
           delivered'[e] = delivered[e] + d,
           Cardinality(Tokens(e)') <= Cardinality(Tokens(e)) + n,
           Stake(e)' <= Stake(e) + m,
           early' + faults' >= early + faults + d + n + m
    PROVE  Paid(e)'
  <1>1. delivered[e] \in Nat /\ delivered'[e] \in Nat
    BY DEF TypeOK
  <1>2. Stake(e) \in Nat /\ Stake(e)' \in Nat
    BY DEF Stake
  <1>3. /\ Cardinality(Tokens(e)) \in Nat
        /\ Cardinality(Tokens(e)') \in Nat
    <2>1. IsFiniteSet(Tokens(e)) /\ IsFiniteSet(Tokens(e)')
      BY OutboxAssumption, FS_Subset DEF Tokens
    <2>2. QED
      BY <2>1, FS_CardinalityType
  <1>4. early \in Nat /\ faults \in Nat
    BY DEF TypeOK
  <1>5. early' \in Nat /\ faults' \in Nat
    BY DEF TypeOK
  <1>6. delivered[e] + Cardinality(Tokens(e)) + Stake(e) <= 1 + early + faults
    BY DEF Paid
  <1>7. delivered'[e] + Cardinality(Tokens(e)') + Stake(e)' <= 1 + early' + faults'
    BY <1>1, <1>2, <1>3, <1>4, <1>5, <1>6, ChargedSum
  <1>8. QED
    BY <1>7 DEF Paid

\* What the runs owe, when one run t changes.
LEMMA OwedCount ==
    ASSUME NEW e \in Emails, NEW t \in Ticks,
           \A s \in Ticks \ {t} : Owes(s, e)' => Owes(s, e)
    PROVE  /\ Cardinality(Tokens(e)') <= Cardinality(Tokens(e)) + 1
           /\ (Owes(t, e)' => Owes(t, e))
                 => Cardinality(Tokens(e)') <= Cardinality(Tokens(e)) + 0
           /\ Owes(t, e) /\ ~Owes(t, e)'
                 => Cardinality(Tokens(e)') <= Cardinality(Tokens(e)) + (-1)
  <1> DEFINE S == Tokens(e)
             T == Tokens(e)'
  <1>1. S \in SUBSET Ticks /\ T \in SUBSET Ticks
    BY DEF Tokens
  <1>2. T \subseteq S \cup {t}
    BY DEF Tokens
  <1>3. (Owes(t, e)' => Owes(t, e)) => T \subseteq S
    BY DEF Tokens
  <1>4. Owes(t, e) /\ ~Owes(t, e)' => t \in S /\ T \subseteq S \ {t}
    BY DEF Tokens
  <1> HIDE DEF S, T
  <1>5. /\ Cardinality(S) \in Nat /\ Cardinality(T) \in Nat
        /\ T \subseteq S => Cardinality(T) <= Cardinality(S)
        /\ T \subseteq S \cup {t} => Cardinality(T) <= Cardinality(S) + 1
        /\ t \in S /\ T \subseteq S \ {t} => Cardinality(T) + 1 <= Cardinality(S)
    BY <1>1, TokenCount
  <1>6. /\ Cardinality(T) <= Cardinality(S) + 1
        /\ (Owes(t, e)' => Owes(t, e)) => Cardinality(T) <= Cardinality(S) + 0
        /\ Owes(t, e) /\ ~Owes(t, e)' => Cardinality(T) <= Cardinality(S) + (-1)
    BY <1>2, <1>3, <1>4, <1>5
  <1>7. QED
    BY <1>6 DEF S, T

\* The books of each e-mail balance across every step.
LEMMA PaidStep ==
    ASSUME TypeOK, TypeOK', Balanced, [Next]_vars, NEW e \in Emails
    PROVE  Paid(e)'
  <1>0. Paid(e) /\ \A t \in Ticks : BatchShape(t)
    BY DEF Balanced
  \* Steps of one run t, by what they add.
  <1>1. ASSUME NEW t \in Ticks, NEW d \in Int, NEW n \in {-1, 0, 1}, NEW m \in {-1, 0, 1},
               \A s \in Ticks \ {t} : Owes(s, e)' => Owes(s, e),
               n = 0 => (Owes(t, e)' => Owes(t, e)),
               n = -1 => Owes(t, e) /\ ~Owes(t, e)',
               m = 0 => (AtStake(e)' => AtStake(e)),
               m = -1 => AtStake(e) /\ ~AtStake(e)',
               delivered'[e] = delivered[e] + d,
               early' + faults' >= early + faults + d + n + m
        PROVE  Paid(e)'
    <2>1. Cardinality(Tokens(e)') <= Cardinality(Tokens(e)) + n
      BY <1>1, OwedCount
    <2>2. Stake(e)' <= Stake(e) + m
      BY <1>1 DEF Stake
    <2>3. QED
      BY <1>0, <1>1, <2>1, <2>2, Charge
  \* Steps of rows and invoices.
  <1>2. ASSUME UNCHANGED <<tickVars, delivered>>,
               \/ /\ AtStake(e)' => AtStake(e)
                  /\ early' + faults' >= early + faults
               \/ early' + faults' >= early + faults + 1
        PROVE  Paid(e)'
    <2>0. PICK m \in {0, 1} :
             /\ m = 0 => (AtStake(e)' => AtStake(e))
             /\ early' + faults' >= early + faults + m
      <3>1. early + faults \in Nat
        BY DEF TypeOK
      <3>2. CASE early' + faults' >= early + faults + 1
        BY <3>2
      <3>3. CASE (AtStake(e)' => AtStake(e)) /\ early' + faults' >= early + faults
        <4>1. early' + faults' >= early + faults + 0
          BY <3>1, <3>3
        <4>2. QED
          BY <3>3, <4>1
      <3>4. QED
        BY <1>2, <3>2, <3>3
    <2>1. Tokens(e)' = Tokens(e)
      BY <1>2 DEF Tokens, Owes, tickVars
    <2>2. Cardinality(Tokens(e)') <= Cardinality(Tokens(e)) + 0
      <3>1. Cardinality(Tokens(e)) \in Nat
        BY OutboxAssumption, FS_Subset, FS_CardinalityType DEF Tokens
      <3>2. QED
        BY <2>1, <3>1
    <2>3. Stake(e)' <= Stake(e) + m
      BY <2>0 DEF Stake
    <2>4. delivered'[e] = delivered[e] + 0
      BY <1>2 DEF TypeOK
    <2>5. early' + faults' >= early + faults + 0 + 0 + m
      <3>1. early' + faults' >= early + faults + m
        BY <2>0
      <3>2. early \in Nat /\ faults \in Nat
        BY DEF TypeOK
      <3>3. m \in Nat
        OBVIOUS
      <3>4. early + faults + 0 + 0 + m = early + faults + m
        BY <3>2, <3>3
      <3>5. QED
        BY <3>1, <3>4
    <2>6. m \in Int
      OBVIOUS
    <2>7. QED
      BY <1>0, <2>2, <2>3, <2>4, <2>5, <2>6, Charge
  <1>3. CASE UNCHANGED vars
    BY <1>2, <1>3 DEF vars, tickVars, AtStake, WorkedOn, Works, TypeOK
  <1>4. ASSUME \E i \in Invoices, to \in {"open", "settled", "void"} : ChangeInvoice(i, to)
        PROVE  Paid(e)'
    BY <1>2, <1>4 DEF ChangeInvoice, tickVars, AtStake, WorkedOn, Works, TypeOK
  <1>5. ASSUME NEW f \in Emails, Enqueue(f)
        PROVE  Paid(e)'
    <2>1. AtStake(e)' => AtStake(e)
      BY <1>5 DEF Enqueue, Queued, tickVars, AtStake, WorkedOn, Works, TypeOK, Row
    <2>2. QED
      BY <1>2, <1>5, <2>1 DEF Enqueue, tickVars, TypeOK
  <1>6. CASE RecoverExpiredLeases
    <2>1. AtStake(e)' => AtStake(e)
      BY <1>6
         DEF RecoverExpiredLeases, Recovered, tickVars, AtStake, WorkedOn, Works, TypeOK, Row
    <2>2. QED
      BY <1>2, <1>6, <2>1 DEF RecoverExpiredLeases, tickVars, TypeOK
  <1>7. ASSUME NEW f \in Emails, BackoffOver(f)
        PROVE  Paid(e)'
    <2>1. rows'[e].status = rows[e].status /\ rows'[e].lease = rows[e].lease
      BY <1>7 DEF BackoffOver, TypeOK, Row
    <2>2. AtStake(e)' => AtStake(e)
      BY <1>7, <2>1 DEF BackoffOver, tickVars, AtStake, WorkedOn, Works
    <2>3. QED
      BY <1>2, <1>7, <2>2 DEF BackoffOver, tickVars, TypeOK
  <1>8. ASSUME NEW f \in Emails, Expire(f)
        PROVE  Paid(e)'
    <2>1. CASE f # e \/ ~WorkedOn(e)
      <3>1. AtStake(e)' => AtStake(e)
        BY <1>8, <2>1 DEF Expire, tickVars, AtStake, WorkedOn, Works, TypeOK
      <3>2. early' + faults' >= early + faults
        BY <1>8 DEF Expire, TypeOK
      <3>3. QED
        BY <1>2, <1>8, <3>1, <3>2 DEF Expire
    <2>2. CASE f = e /\ WorkedOn(e)
      <3>1. early' + faults' >= early + faults + 1
        BY <1>8, <2>2 DEF Expire, TypeOK
      <3>2. QED
        BY <1>2, <1>8, <3>1 DEF Expire
    <2>3. QED
      BY <2>1, <2>2
  <1>9. ASSUME NEW t \in Ticks, Cleanup(t)
        PROVE  Paid(e)'
    <2>1. \A s \in Ticks : /\ Owes(s, e)' => Owes(s, e)
                           /\ Works(s, e)' <=> Works(s, e)
      BY <1>9 DEF Cleanup, Owes, Works, TypeOK, Busy
    <2>2. AtStake(e)' => AtStake(e)
      BY <1>9, <2>1 DEF Cleanup, AtStake, WorkedOn, TypeOK, Row
    <2>3. QED
      <3>1. delivered'[e] = delivered[e] + 0 /\ early' + faults' >= early + faults + 0 + 0 + 0
        BY <1>9 DEF Cleanup, TypeOK
      <3>2. QED
        BY <1>1, <2>1, <2>2, <3>1
  <1>10. ASSUME NEW t \in Ticks, NEW C \in Batches, Claim(t, C)
         PROVE  Paid(e)'
    <2>1. \A s \in Ticks \ {t} : /\ Owes(s, e)' <=> Owes(s, e)
                                 /\ Works(s, e)' <=> Works(s, e)
      BY <1>10 DEF Claim, Owes, Works, TypeOK
    <2>2. /\ ~Owes(t, e) /\ ~Works(t, e)
          /\ Owes(t, e)' <=> e \in C
          /\ Works(t, e)' <=> e \in C
      <3>1. held[t] = {} /\ pc[t] = "claiming"
        BY <1>0, <1>10 DEF Claim, BatchShape
      <3>2. /\ held'[t] = {[email |-> f, retries |-> rows[f].retries] : f \in C}
            /\ pc'[t] \in {"idle", "batch"}
        BY <1>10 DEF Claim, TypeOK
      <3>3. (\E c \in held'[t] : c.email = e) <=> e \in C
        <4>1. \A f : [email |-> f, retries |-> rows[f].retries].email = f
          OBVIOUS
        <4>2. QED
          BY <3>2, <4>1
      <3>4. QED
        BY <3>1, <3>2, <3>3 DEF Owes, Works, Busy
    <2>3. CASE e \in C
      <3>1. Claimable(rows[e])
        BY <2>3 DEF Batches
      <3>2. AtStake(e)
        BY <3>1 DEF Claimable, AtStake
      <3>3. rows'[e].status = "PROCESSING" /\ rows'[e].lease = "live"
        <4>1. rows'[e] = Claimed(rows[e]) /\ rows[e] \in Row
          BY <1>10, <2>3 DEF Claim, TypeOK
        <4>2. QED
          BY <4>1, RowStatus
      <3>4. ~AtStake(e)'
        BY <2>2, <2>3, <3>3 DEF AtStake, WorkedOn
      <3>5. QED
        BY <1>1, <1>10, <2>1, <3>2, <3>4 DEF Claim, TypeOK
    <2>4. CASE e \notin C
      <3>1. rows'[e] = rows[e]
        BY <1>10, <2>4 DEF Claim
      <3>2. AtStake(e)' => AtStake(e)
        BY <2>1, <2>2, <2>4, <3>1 DEF AtStake, WorkedOn
      <3>3. QED
        BY <1>1, <1>10, <2>1, <2>2, <2>4, <3>2 DEF Claim, TypeOK
    <2>5. QED
      BY <2>3, <2>4
  <1>11. ASSUME NEW t \in Ticks, NEW c \in held[t], Check(t, c)
         PROVE  Paid(e)'
    <2>1. \A s \in Ticks \ {t} : /\ Owes(s, e)' <=> Owes(s, e)
                                 /\ Works(s, e)' <=> Works(s, e)
      BY <1>11 DEF Check, Owes, Works, TypeOK
    <2>2. /\ Owes(t, e)' <=> Owes(t, e)
          /\ Works(t, e)' <=> Works(t, e)
      <3>1. /\ pc[t] = "batch"
            /\ pc'[t] \in {"suppressing", "dispatching"}
            /\ held'[t] = held[t] \ {c}
            /\ cur'[t] = c
        BY <1>11 DEF Check, TypeOK
      <3>2. QED
        BY <3>1 DEF Owes, Works, Busy
    <2>3. AtStake(e)' => AtStake(e)
      BY <1>11, <2>1, <2>2 DEF Check, AtStake, WorkedOn
    <2>4. QED
      BY <1>1, <1>11, <2>1, <2>2, <2>3 DEF Check, TypeOK
  \* The end of a row: the run no longer works on it, and on nothing less else.
  <1>12. ASSUME NEW t \in Ticks, NEW row \in Row, pc[t] \in Busy, Finish(t, row),
                row.status # "PROCESSING",
                row.status = "SENT" \/ pc[t] # "accepted"
         PROVE  Paid(e)'
    <2>1. cur[t].email \in Emails
      BY <1>12 DEF TypeOK, Claims
    <2>2. \A s \in Ticks \ {t} : /\ Owes(s, e)' <=> Owes(s, e)
                                 /\ Works(s, e)' <=> Works(s, e)
      BY <1>12 DEF Finish, GoOn, Owes, Works, TypeOK
    <2>3. held'[t] = held[t] /\ pc'[t] \in {"idle", "batch"}
      BY <1>12 DEF Finish, GoOn, TypeOK
    <2>4. CASE e # cur[t].email
      <3>1. /\ Owes(t, e)' <=> Owes(t, e)
            /\ Works(t, e)' <=> Works(t, e)
        BY <2>3, <2>4 DEF Owes, Works, Busy
      <3>2. rows'[e] = rows[e]
        BY <1>12, <2>4 DEF Finish, TypeOK
      <3>3. AtStake(e)' => AtStake(e)
        BY <2>2, <3>1, <3>2 DEF AtStake, WorkedOn
      <3>4. QED
        BY <1>1, <1>12, <2>2, <3>1, <3>3 DEF Finish, TypeOK
    <2>5. CASE e = cur[t].email
      <3>1. \A c \in held[t] : c.email # e
        BY <1>0, <1>12, <2>5 DEF BatchShape
      <3>2. ~Owes(t, e)'
        BY <2>3, <3>1 DEF Owes, Busy
      <3>3. rows'[e] = row
        BY <1>12, <2>1, <2>5 DEF Finish, TypeOK
      <3>4. CASE pc[t] # "accepted"
        <4>1. Owes(t, e)
          BY <1>12, <2>5, <3>4 DEF Owes
        <4>2. QED
          BY <1>1, <1>12, <2>2, <3>2, <4>1 DEF Finish, TypeOK
      <3>5. CASE row.status = "SENT"
        <4>1. ~AtStake(e)'
          BY <3>3, <3>5 DEF AtStake
        <4>2. QED
          BY <1>1, <1>12, <2>2, <3>2, <4>1 DEF Finish, TypeOK
      <3>6. QED
        BY <1>12, <3>4, <3>5
    <2>6. QED
      BY <2>4, <2>5
  <1>13. ASSUME NEW t \in Ticks, Suppress(t) \/ MarkSent(t) \/ RecordFailure(t)
         PROVE  Paid(e)'
    <2>1. pc[t] \in Busy /\ cur[t] \in Claims
      BY <1>13 DEF Suppress, MarkSent, RecordFailure, TypeOK, Busy
    <2> DEFINE row == rows[cur[t].email]
    <2>2. row \in Row /\ cur[t].retries + 1 \in Nat
      BY <2>1 DEF TypeOK, Claims
    <2>3. /\ SuppressedRow(row) \in Row /\ SuppressedRow(row).status # "PROCESSING"
          /\ SentRow(row) \in Row /\ SentRow(row).status = "SENT"
      BY <2>2, RowTypes, RowStatus
    <2>4. /\ AfterFailure(row, cur[t].retries + 1) \in Row
          /\ AfterFailure(row, cur[t].retries + 1).status # "PROCESSING"
      BY <2>2, RowTypes, RowStatus
    <2> HIDE DEF row
    <2>5. CASE Suppress(t)
      BY <1>12, <2>1, <2>3, <2>5 DEF Suppress, row
    <2>6. CASE MarkSent(t)
      BY <1>12, <2>1, <2>3, <2>6 DEF MarkSent, row
    <2>7. CASE RecordFailure(t)
      BY <1>12, <2>1, <2>4, <2>7 DEF RecordFailure, row
    <2>8. QED
      BY <1>13, <2>5, <2>6, <2>7
  \* A move of a run within its row: whom it works for stays as it is.
  <1>14. ASSUME NEW t \in Ticks,
                \/ \E ok \in BOOLEAN : Dispatch(t, ok)
                \/ DispatchUnheard(t) \/ StatementFails(t)
         PROVE  /\ \A s \in Ticks \ {t} : Owes(s, e)' <=> Owes(s, e)
                /\ AtStake(e)' <=> AtStake(e)
                /\ cur[t].email \in Emails
                /\ pc[t] \in Busy /\ pc'[t] \in Busy
                /\ UNCHANGED <<held, cur>>
                /\ cur[t].email = e => \A c \in held[t] : c.email # e
    <2>1. /\ UNCHANGED <<rows, held, cur>>
          /\ pc[t] \in Busy /\ pc'[t] \in Busy
          /\ \A s \in Ticks \ {t} : pc'[s] = pc[s]
      BY <1>14 DEF Dispatch, AfterDispatch, DispatchUnheard, StatementFails, TypeOK, Busy
    <2>2. \A s \in Ticks : Works(s, e)' <=> Works(s, e)
      BY <2>1 DEF Works
    <2>3. \A s \in Ticks \ {t} : Owes(s, e)' <=> Owes(s, e)
      BY <2>1 DEF Owes
    <2>4. cur[t].email \in Emails
      BY <2>1 DEF TypeOK, Claims
    <2>5. cur[t].email = e => \A c \in held[t] : c.email # e
      BY <1>0, <2>1 DEF BatchShape
    <2>6. AtStake(e)' <=> AtStake(e)
      BY <2>1, <2>2 DEF AtStake, WorkedOn
    <2>7. QED
      BY <2>1, <2>3, <2>4, <2>5, <2>6
  <1>15. ASSUME NEW t \in Ticks, NEW ok \in BOOLEAN, Dispatch(t, ok)
         PROVE  Paid(e)'
    <2>1. pc[t] = "dispatching" /\ pc'[t] = AfterDispatch(ok)
      BY <1>15 DEF Dispatch, TypeOK
    <2>2. CASE ok /\ cur[t].email = e
      <3>1. Owes(t, e) /\ ~Owes(t, e)'
        BY <1>14, <1>15, <2>1, <2>2 DEF Owes, AfterDispatch, Busy
      <3>2. delivered'[e] = delivered[e] + 1
        BY <1>15, <2>2 DEF Dispatch, TypeOK
      <3>3. early' + faults' >= early + faults + 1 + (-1) + 0
        BY <1>15 DEF Dispatch, TypeOK
      <3>4. QED
        BY <1>1, <1>14, <1>15, <3>1, <3>2, <3>3
    <2>3. CASE ~ok \/ cur[t].email # e
      <3>1. Owes(t, e)' => Owes(t, e)
        BY <1>14, <1>15, <2>1, <2>3 DEF Owes, AfterDispatch, Busy
      <3>2. delivered'[e] = delivered[e] + 0
        BY <1>14, <1>15, <2>3 DEF Dispatch, TypeOK
      <3>3. early' + faults' >= early + faults + 0 + 0 + 0
        BY <1>15 DEF Dispatch, TypeOK
      <3>4. QED
        BY <1>1, <1>14, <1>15, <3>1, <3>2, <3>3
    <2>4. QED
      BY <2>2, <2>3
  <1>16. ASSUME NEW t \in Ticks, DispatchUnheard(t)
         PROVE  Paid(e)'
    <2>1. Owes(t, e)' => Owes(t, e)
      BY <1>14, <1>16 DEF DispatchUnheard, Owes, TypeOK, Busy
    <2>2. PICK d \in {0, 1} : delivered'[e] = delivered[e] + d
      BY <1>14, <1>16 DEF DispatchUnheard, TypeOK
    <2>3. early' + faults' >= early + faults + d + 0 + 0
      BY <1>16 DEF DispatchUnheard, Fault, TypeOK
    <2>4. QED
      BY <1>1, <1>14, <1>16, <2>1, <2>2, <2>3
  <1>17. ASSUME NEW t \in Ticks, StatementFails(t)
         PROVE  Paid(e)'
    <2>1. delivered'[e] = delivered[e] + 0
      BY <1>17 DEF StatementFails, TypeOK
    <2>2. early' + faults' >= early + faults + 0 + 1 + 0
      BY <1>17 DEF StatementFails, Fault, TypeOK
    <2>3. QED
      BY <1>1, <1>14, <1>17, <2>1, <2>2
  <1>18. ASSUME NEW t \in Ticks, Abandon(t)
         PROVE  Paid(e)'
    <2>1. \A s \in Ticks \ {t} : Owes(s, e)' => Owes(s, e)
      BY <1>18 DEF Abandon, Owes, TypeOK
    <2>2. ~Owes(t, e)'
      BY <1>18 DEF Abandon, Owes, TypeOK, Busy
    <2>3. delivered'[e] = delivered[e] + 0
      BY <1>18 DEF Abandon, TypeOK
    <2>4. early' + faults' >= early + faults + 0 + 0 + 1
      BY <1>18 DEF Abandon, Fault, TypeOK
    <2>5. QED
      BY <1>1, <2>1, <2>2, <2>3, <2>4
  <1>19. QED
    BY <1>3, <1>4, <1>5, <1>6, <1>7, <1>8, <1>9, <1>10, <1>11, <1>13, <1>15, <1>16,
       <1>17, <1>18
       DEF Next, TickStep, Mishap, ClockStep

\* However many runs overlap, and whatever they write late, every delivery of an
\* e-mail beyond the first is paid for by a fault or by a lease that ran out
\* under a run that still worked on the row.
THEOREM DuplicatesArePaidFor == Spec => []DuplicatesExplained
  <1>1. Init => Balanced
    <2> SUFFICES ASSUME Init
                 PROVE  Balanced
      OBVIOUS
    <2>1. \A t \in Ticks : BatchShape(t)
      BY DEF Init, BatchShape, Busy
    <2>2. ASSUME NEW e \in Emails
          PROVE  Paid(e)
      <3>1. Tokens(e) = {}
        BY DEF Init, Tokens, Owes, Busy
      <3>2. Cardinality(Tokens(e)) = 0
        BY <3>1, FS_EmptySet
      <3>3. Stake(e) <= 1 /\ Stake(e) \in Nat
        BY DEF Stake
      <3>4. delivered[e] = 0 /\ early = 0 /\ faults = 0
        BY DEF Init
      <3>5. QED
        BY <3>2, <3>3, <3>4 DEF Paid
    <2>3. QED
      BY <2>1, <2>2 DEF Balanced
  <1>2. TypeOK /\ TypeOK' /\ Balanced /\ [Next]_vars => Balanced'
    BY BatchStep, PaidStep DEF Balanced
  <1>3. TypeOK /\ Balanced => DuplicatesExplained
    <2> SUFFICES ASSUME TypeOK, Balanced, NEW e \in Emails
                 PROVE  delivered[e] <= 1 + early + faults
      BY DEF DuplicatesExplained
    <2>1. delivered[e] + Cardinality(Tokens(e)) + Stake(e) <= 1 + early + faults
      BY DEF Balanced, Paid
    <2>2. Cardinality(Tokens(e)) \in Nat
      BY OutboxAssumption, FS_Subset, FS_CardinalityType DEF Tokens
    <2>3. Stake(e) \in Nat
      BY DEF Stake
    <2>4. QED
      BY <2>1, <2>2, <2>3 DEF TypeOK
  <1>4. QED
    BY <1>1, <1>2, <1>3, TypeCorrect, PTL DEF Spec

-----------------------------------------------------------------------------
\* No step moves an e-mail about a void invoice past the check or dispatches it:
\* the check sends the run the other way as long as the status says void.
LEMMA WithdrawnStep ==
    ASSUME TypeOK, [Next]_vars, NEW e \in Emails, Withdrawn(e)
    PROVE  /\ delivered'[e] = delivered[e]
           /\ Withdrawn(e)' \/ InvoiceOf[e] \in revived'
  <1>0. /\ KindOf[e] # "PLAIN"
        /\ InvoiceOf[e] \in Invoices
        /\ invoices[InvoiceOf[e]] = "void"
        /\ \A t \in Ticks : pc[t] = "dispatching" => cur[t].email # e
    BY OutboxAssumption DEF Withdrawn
  \* Steps that leave invoices and deliveries and bring no run to a dispatch.
  <1>1. ASSUME UNCHANGED <<invoices, delivered>>,
               \A t \in Ticks : pc'[t] = "dispatching"
                                   => pc[t] = "dispatching" /\ cur'[t] = cur[t]
        PROVE  Withdrawn(e)' /\ delivered'[e] = delivered[e]
    BY <1>0, <1>1 DEF Withdrawn
  <1>2. CASE UNCHANGED vars
    BY <1>1, <1>2 DEF vars
  <1>3. ASSUME NEW f \in Emails, Enqueue(f) \/ BackoffOver(f) \/ Expire(f)
        PROVE  Withdrawn(e)' /\ delivered'[e] = delivered[e]
    BY <1>1, <1>3 DEF Enqueue, BackoffOver, Expire, tickVars
  <1>4. CASE RecoverExpiredLeases
    BY <1>1, <1>4 DEF RecoverExpiredLeases, tickVars
  \* The invoice stays void, or its status is written over.
  <1>5. ASSUME NEW i \in Invoices, NEW to \in {"open", "settled", "void"},
               ChangeInvoice(i, to)
        PROVE  /\ delivered'[e] = delivered[e]
               /\ Withdrawn(e)' \/ InvoiceOf[e] \in revived'
    <2>1. UNCHANGED <<delivered, pc, cur>>
      BY <1>5 DEF ChangeInvoice, tickVars
    <2>2. CASE i = InvoiceOf[e]
      BY <1>0, <1>5, <2>1, <2>2 DEF ChangeInvoice
    <2>3. CASE i # InvoiceOf[e]
      <3>1. invoices'[InvoiceOf[e]] = "void"
        BY <1>0, <1>5, <2>3 DEF ChangeInvoice, TypeOK
      <3>2. QED
        BY <1>0, <2>1, <3>1 DEF Withdrawn
    <2>4. QED
      BY <2>2, <2>3
  <1>6. ASSUME NEW t \in Ticks
        PROVE  TickStep(t) \/ Mishap(t) => Withdrawn(e)' /\ delivered'[e] = delivered[e]
    <2>1. CASE Cleanup(t)
      BY <1>1, <2>1 DEF Cleanup, TypeOK
    <2>2. ASSUME NEW C \in Batches, Claim(t, C)
          PROVE  Withdrawn(e)' /\ delivered'[e] = delivered[e]
      BY <1>1, <2>2 DEF Claim, TypeOK
    <2>3. ASSUME NEW c \in held[t], Check(t, c)
          PROVE  Withdrawn(e)' /\ delivered'[e] = delivered[e]
      <3>1. \A s \in Ticks : pc'[s] = "dispatching" => cur'[s].email # e
        <4>1. ASSUME NEW s \in Ticks, s # t, pc'[s] = "dispatching"
              PROVE  cur'[s].email # e
          BY <1>0, <2>3, <4>1 DEF Check, TypeOK
        <4>2. ASSUME pc'[t] = "dispatching"
              PROVE  cur'[t].email # e
          <5>1. ~Unwanted(c.email) /\ cur'[t] = c
            BY <2>3, <4>2 DEF Check, TypeOK
          <5>2. Unwanted(e)
            BY <1>0 DEF Unwanted
          <5>3. QED
            BY <5>1, <5>2
        <4>3. QED
          BY <4>1, <4>2
      <3>2. UNCHANGED <<invoices, delivered>>
        BY <2>3 DEF Check
      <3>3. QED
        BY <1>0, <3>1, <3>2 DEF Withdrawn
    <2>4. CASE Suppress(t) \/ MarkSent(t) \/ RecordFailure(t)
      BY <1>1, <2>4 DEF Suppress, MarkSent, RecordFailure, Finish, GoOn, TypeOK
    <2>5. ASSUME NEW ok \in BOOLEAN, Dispatch(t, ok)
          PROVE  Withdrawn(e)' /\ delivered'[e] = delivered[e]
      <3>1. delivered'[e] = delivered[e]
        BY <1>0, <2>5 DEF Dispatch, TypeOK
      <3>2. \A s \in Ticks : pc'[s] = "dispatching" => pc[s] = "dispatching"
        BY <2>5 DEF Dispatch, AfterDispatch, TypeOK
      <3>3. QED
        BY <1>0, <2>5, <3>1, <3>2 DEF Dispatch, Withdrawn
    <2>6. CASE DispatchUnheard(t)
      <3>1. delivered'[e] = delivered[e]
        BY <1>0, <2>6 DEF DispatchUnheard, TypeOK
      <3>2. \A s \in Ticks : pc'[s] = "dispatching" => pc[s] = "dispatching"
        BY <2>6 DEF DispatchUnheard, TypeOK
      <3>3. QED
        BY <1>0, <2>6, <3>1, <3>2 DEF DispatchUnheard, Withdrawn
    <2>7. CASE StatementFails(t)
      BY <1>1, <2>7 DEF StatementFails, TypeOK
    <2>8. CASE Abandon(t)
      BY <1>1, <2>8 DEF Abandon, TypeOK
    <2>9. QED
      BY <2>1, <2>2, <2>3, <2>4, <2>5, <2>6, <2>7, <2>8 DEF TickStep, Mishap
  <1>7. QED
    BY <1>2, <1>3, <1>4, <1>5, <1>6 DEF Next, ClockStep

\* An e-mail about an invoice that was voided before the run came to its check
\* is not sent, in this attempt or in a later one, unless another status has been
\* written over the voiding.
THEOREM VoidedIsNeverSent == Spec => VoidedStaysUnsent
  <1>1. TypeOK /\ [Next]_vars
           => [\A e \in Emails :
                 Withdrawn(e) =>
                    /\ delivered'[e] = delivered[e]
                    /\ Withdrawn(e)' \/ InvoiceOf[e] \in revived']_vars
    BY WithdrawnStep
  <1>2. QED
    BY <1>1, TypeCorrect, PTL DEF Spec, VoidedStaysUnsent
===============================================================================

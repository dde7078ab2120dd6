----------------------------- MODULE PostingLedger -----------------------------
(***************************************************************************)
(* The general ledger: ServerPostingEngine with the manual journals and    *)
(* reversals that call it, the locks and closes of accounting periods, and *)
(* the completed bank reconciliations that bar postings behind them.       *)
(*                                                                         *)
(* A posting is one transaction, with one journal or several.  For each it *)
(* locks the row it is about, waits for the organization's posting lock,   *)
(* checks the date against period locks and reconciliations, and writes.   *)
(* Nobody else sees what it writes before it commits; its locks last until *)
(* then.  Period closes run beside it: they do not take the posting lock,  *)
(* bank reconciliations do.  A transaction that has not committed may roll *)
(* back at any point, which also stands for a stopped process and for a    *)
(* deadlock that PostgreSQL breaks.                                        *)
(*                                                                         *)
(* Days and amounts are small naturals.  Every journal moves one amount    *)
(* between two accounts.  Account status, projects and approvals are left  *)
(* out; a document's own posting stands for every service that calls       *)
(* postEntry.                                                              *)
(***************************************************************************)
EXTENDS Integers, Sequences, FiniteSets, Functions

CONSTANTS
    Accounts,
    DebitNormal,   \* accounts with normal balance Debit
    Banks,         \* accounts that are the ledger of a bank account
    LastDay,
    Today,         \* the date of reversals
    Periods,
    First, Last,   \* first and last day of each period
    Moves,         \* what a journal may say: [dr, cr, amount]
    Postings,      \* posting transactions that may run at once
    MaxJournals,   \* bound: rows of journal_entries
    MaxControls,   \* bound: locks, reviews, closes and reconciliations together
    Free           \* nobody holds a lock

Days == 1..LastDay

ASSUME LedgerAssumption ==
    /\ DebitNormal \subseteq Accounts
    /\ Banks \subseteq DebitNormal
    /\ LastDay \in Nat
    /\ Today \in Days
    /\ First \in [Periods -> Days]
    /\ Last \in [Periods -> Days]
    /\ Moves \subseteq [dr: Accounts, cr: Accounts, amount: Nat \ {0}]
    /\ \A m \in Moves : m.dr # m.cr
    /\ Free \notin Postings
    /\ {MaxJournals, MaxControls} \subseteq Nat

VARIABLES
    books,        \* what is committed: journal_entries and the two balances
    work,         \* the books as the holder of the posting lock sees them
    pc, job,      \* where each posting transaction stands, and what it posts now
    held,         \* the rows of journal_entries it has locked
    postingLock,  \* holder of pg_advisory_xact_lock(organization, 'financial-posting')
    movementLock, \* holder of the advisory lock of bank movements
    dateLocks,    \* period_locks entered by date, all Active
    monthLocks,   \* period_locks by period_name: the periods whose lock is Active
    closes,       \* accounting_period_closes.status
    review,       \* period_close_checklists.status
    closing,      \* closes that have checked their period and not committed
    frozen,       \* the rows that such a close has locked
    sessions,     \* completed reconciliations: day and ledger balance per bank
    controls,     \* locks, reviews, closes and reconciliations so far
    late          \* history: transactions that posted onto a day since it was barred

posting == <<pc, job, held, postingLock, movementLock>>
periods == <<dateLocks, monthLocks, closes, review, closing, frozen>>
vars == <<books, work, posting, periods, sessions, controls, late>>

Rows == 1..MaxJournals

\* Numbers of entries: of the JOURNAL sequence, which many documents take too, RV-
\* before such a number, or a source document's own.
Series == {"JV", "RV", "SRC"}

Unused == [status |-> "None"]
Journal == [status: {"Submitted", "Posted"}, day: Days, dr: Accounts, cr: Accounts,
            amount: Nat, series: Series, reversalOf: Rows \cup {0}, reversedBy: Rows \cup {0}]
Books == [journals: [Rows -> Journal \cup {Unused}], balance: [Accounts -> Int],
          bankBalance: [Banks -> Int]]

Job == [kind: {"new"}, series: {"JV", "SRC"}, day: Days, move: Moves]
       \cup [kind: {"draft", "reverse", "undo"}, row: Rows]

CloseStatus == {"NONE", "IN_REVIEW", "READY_TO_CLOSE", "CLOSED", "REOPENED"}

TypeOK ==
    /\ {books, work} \subseteq Books
    /\ pc \in [Postings -> {"idle", "started", "written"}]
    /\ DOMAIN job = Postings
    /\ \A t \in Postings : pc[t] # "idle" => job[t] \in Job
    /\ held \in [Postings -> SUBSET Rows]
    /\ {postingLock, movementLock} \subseteq Postings \cup {Free}
    /\ \A t \in Postings : pc[t] = "written" => postingLock = t
    /\ postingLock = Free => work = books
    /\ dateLocks \subseteq Days
    /\ monthLocks \subseteq Periods
    /\ closes \in [Periods -> CloseStatus]
    /\ review \in [Periods -> {"NONE", "IN_REVIEW", "READY_TO_CLOSE"}]
    /\ closing \subseteq Periods
    /\ frozen \in [Periods -> SUBSET Rows]
    /\ DOMAIN sessions = Banks
    /\ \A b \in Banks : \A s \in sessions[b] : s.day \in Days
    /\ controls \in Nat
    /\ late \in [Days -> Nat]

Init ==
    /\ books = [journals |-> [r \in Rows |-> Unused], balance |-> [a \in Accounts |-> 0],
                bankBalance |-> [b \in Banks |-> 0]]
    /\ work = books
    /\ pc = [t \in Postings |-> "idle"]
    /\ job = [t \in Postings |-> <<>>]
    /\ held = [t \in Postings |-> {}]
    /\ postingLock = Free
    /\ movementLock = Free
    /\ dateLocks = {}
    /\ monthLocks = {}
    /\ closes = [p \in Periods |-> "NONE"]
    /\ review = [p \in Periods |-> "NONE"]
    /\ closing = {}
    /\ frozen = [p \in Periods |-> {}]
    /\ sessions = [b \in Banks |-> {}]
    /\ controls = 0
    /\ late = [d \in Days |-> 0]

-----------------------------------------------------------------------------
(* What a journal does to an account, and what bars a date.                *)

\* The change of account a's balance in the direction of its normal balance.
Delta(a, j) ==
    LET net == (IF a = j.dr THEN j.amount ELSE 0) - (IF a = j.cr THEN j.amount ELSE 0)
    IN  IF a \in DebitNormal THEN net ELSE -net

InPeriod(p, day) == First[p] <= day /\ day <= Last[p]

\* Variant: the last day of a lock is open.
PeriodLockedLate(day) ==
    \/ \E d \in dateLocks : d > day
    \/ \E p \in monthLocks : Last[p] > day

\* period_locks with status Active and lock_date >= date, of any later month too.
PeriodLocked(day) ==
    \/ \E d \in dateLocks : d >= day
    \/ \E p \in monthLocks : Last[p] >= day

\* Variant: only journals that debit the bank are looked at.
CutOffDebits(j) == j.dr \in Banks /\ \E s \in sessions[j.dr] : s.day >= j.day

\* assertBankReconciliationCutoff: a completed session of a bank that the journal
\* touches ends on or after the date.
CutOff(j) == \E b \in {j.dr, j.cr} \cap Banks : \E s \in sessions[b] : s.day >= j.day

-----------------------------------------------------------------------------
(* Postings.                                                               *)

\* A transaction posts one journal, or goes on to another under the locks it
\* holds: createBulkJournals, a gateway receipt and its fee, an edit that undoes
\* a document's posting and posts it again.
Goes(t, kind) ==
    \/ pc[t] = "idle"
    \/ pc[t] = "written" /\ {job[t].kind, kind} \subseteq {"new", "undo"}

\* The rows as the transaction sees them.
Seen(t) == IF postingLock = t THEN work.journals ELSE books.journals

\* Postings lock the row they are about, a close the rows of its period.
LockedFor(t, row) ==
    \/ \E other \in Postings \ {t} : row \in held[other]
    \/ \E p \in closing : row \in frozen[p]

\* The row that the next INSERT takes.
NextRow(r) ==
    /\ work.journals[r] = Unused
    /\ \A k \in Rows : k < r => work.journals[k] # Unused

Start(t, what) ==
    /\ pc' = [pc EXCEPT ![t] = "started"]
    /\ job' = [job EXCEPT ![t] = what]
    /\ UNCHANGED <<books, work, postingLock, periods, sessions, controls, late>>

\* A new journal locks no row; its number comes from the JOURNAL sequence or from
\* the document.
StartNew(t, series, day, move) ==
    /\ Goes(t, "new")
    /\ \E r \in Rows : NextRow(r)
    /\ Start(t, [kind |-> "new", series |-> series, day |-> day, move |-> move])
    /\ UNCHANGED <<held, movementLock>>

\* createJournal where approval is required: the journal is stored as Submitted.
\* A running posting sees it, but has no use for it.
SubmitDraft(day, move) ==
    \E r \in Rows :
        LET draft == [status |-> "Submitted", day |-> day, dr |-> move.dr, cr |-> move.cr,
                      amount |-> move.amount, series |-> "JV", reversalOf |-> 0, reversedBy |-> 0]
        IN  /\ NextRow(r)
            /\ books' = [books EXCEPT !.journals[r] = draft]
            /\ work' = [work EXCEPT !.journals[r] = draft]
            /\ UNCHANGED <<posting, periods, sessions, controls, late>>

\* postApprovedJournal locks the draft.
StartDraft(t, row) ==
    /\ Goes(t, "draft")
    /\ ~LockedFor(t, row)
    /\ Seen(t)[row].status = "Submitted"
    /\ held' = [held EXCEPT ![t] = @ \cup {row}]
    /\ Start(t, [kind |-> "draft", row |-> row])
    /\ UNCHANGED movementLock

\* ManualJournalService.reverseJournal goes by the number and by reversed_by; it
\* does not look at the status.
Reversible(j) == j.series = "JV" /\ j.reversedBy = 0

\* reversePostedJournal: the callers give it the journal of a source document, of
\* whatever number, or the one that created a statement line's match.
Undoable(j) == j.status = "Posted" /\ j.reversedBy = 0 /\ j.reversalOf = 0

StartReversal(t, row) ==
    /\ Goes(t, "reverse")
    /\ ~LockedFor(t, row)
    /\ Seen(t)[row] # Unused
    /\ Reversible(Seen(t)[row])
    /\ \E r \in Rows : NextRow(r)
    /\ held' = [held EXCEPT ![t] = @ \cup {row}]
    /\ Start(t, [kind |-> "reverse", row |-> row])
    /\ UNCHANGED movementLock

\* The lock of bank movements is taken first.
StartUndo(t, row) ==
    /\ Goes(t, "undo")
    /\ movementLock \in {Free, t}
    /\ ~LockedFor(t, row)
    /\ Seen(t)[row] # Unused
    /\ Undoable(Seen(t)[row])
    /\ \E r \in Rows : NextRow(r)
    /\ movementLock' = t
    /\ held' = [held EXCEPT ![t] = @ \cup {row}]
    /\ Start(t, [kind |-> "undo", row |-> row])

\* The journal that t is about to write: what it was asked for, the draft now
\* posted, or the original turned round and dated today.
Entry(t) ==
    LET original == work.journals[job[t].row]
        turned(series) ==
            [status |-> "Posted", day |-> Today, dr |-> original.cr, cr |-> original.dr,
             amount |-> original.amount, series |-> series, reversalOf |-> job[t].row,
             reversedBy |-> 0]
    IN  CASE job[t].kind = "new" ->
                [status |-> "Posted", day |-> job[t].day, dr |-> job[t].move.dr,
                 cr |-> job[t].move.cr, amount |-> job[t].move.amount,
                 series |-> job[t].series, reversalOf |-> 0, reversedBy |-> 0]
          [] job[t].kind = "draft" -> [original EXCEPT !.status = "Posted"]
          [] job[t].kind = "reverse" -> turned("RV")
          [] job[t].kind = "undo" -> turned("JV")

Reversing(t) == job[t].kind \in {"reverse", "undo"}

\* What is asked again before the journal is written: the draft is not posted yet,
\* the number RV-<number> is free, the original is not marked.
StillRight(t) ==
    /\ job[t].kind = "draft" => work.journals[job[t].row].status # "Posted"
    /\ job[t].kind = "reverse" => ~\E r \in Rows :
          /\ work.journals[r] # Unused
          /\ work.journals[r].series = "RV"
          /\ work.journals[r].reversalOf = job[t].row
    /\ Reversing(t) => work.journals[job[t].row].reversedBy = 0

\* Variant: the draft keeps its status.
WrittenKept(t, r, new) ==
    IF job[t].kind = "draft" THEN work.journals
    ELSE IF Reversing(t) THEN [work.journals EXCEPT ![r] = new, ![job[t].row].reversedBy = r]
    ELSE [work.journals EXCEPT ![r] = new]

\* Variant: a reversed journal is not marked.
WrittenUnlinked(t, r, new) == [work.journals EXCEPT ![r] = new]

\* The rows after the posting: a reversal is linked with its original.
Written(t, r, new) ==
    IF Reversing(t) THEN [work.journals EXCEPT ![r] = new, ![job[t].row].reversedBy = r]
    ELSE [work.journals EXCEPT ![r] = new]

\* The posting lock is taken unless it is held, the checks are made under it, and
\* the journal and the balances are written.
Write(t) ==
    LET new == Entry(t)
    IN  /\ pc[t] = "started"
        /\ postingLock \in {Free, t}
        /\ StillRight(t)
        /\ ~CutOff(new)
        /\ ~PeriodLocked(new.day)
        /\ \E r \in Rows :
              /\ IF job[t].kind = "draft" THEN r = job[t].row ELSE NextRow(r)
              /\ work' = [journals |-> Written(t, r, new),
                          balance |-> [a \in Accounts |-> work.balance[a] + Delta(a, new)],
                          bankBalance |-> [b \in Banks |-> work.bankBalance[b] + Delta(b, new)]]
        /\ postingLock' = t
        /\ pc' = [pc EXCEPT ![t] = "written"]
        /\ UNCHANGED <<books, job, held, movementLock, periods, sessions, controls, late>>

\* The days on which the holder of the posting lock has posted.
FreshDays ==
    {work.journals[r].day : r \in {k \in Rows : work.journals[k].status = "Posted"
                                                /\ books.journals[k].status # "Posted"}}

\* Days that a lock or a close has barred.
Barred(day) ==
    \/ \E d \in dateLocks : day <= d
    \/ \E p \in Periods : closes[p] = "CLOSED" /\ day <= Last[p]

\* The end of a transaction releases its locks.
Finish(t) ==
    /\ pc' = [pc EXCEPT ![t] = "idle"]
    /\ job' = [job EXCEPT ![t] = <<>>]
    /\ held' = [held EXCEPT ![t] = {}]
    /\ postingLock' = IF postingLock = t THEN Free ELSE postingLock
    /\ movementLock' = IF movementLock = t THEN Free ELSE movementLock
    /\ UNCHANGED <<periods, sessions, controls>>

\* Everything the transaction wrote becomes visible at once.
Commit(t) ==
    /\ pc[t] = "written"
    /\ books' = work
    /\ UNCHANGED work
    /\ late' = [d \in Days |-> IF Barred(d) /\ d \in FreshDays THEN late[d] + 1 ELSE late[d]]
    /\ Finish(t)

\* A check fails, the process stops, a deadlock is broken.
Rollback(t) ==
    /\ pc[t] # "idle"
    /\ work' = IF postingLock = t THEN books ELSE work
    /\ Finish(t)
    /\ UNCHANGED <<books, late>>

-----------------------------------------------------------------------------
(* Periods.                                                                *)

Controlled == controls < MaxControls /\ controls' = controls + 1

\* createPeriodLock: by date, and never lifted.
LockDate(day) ==
    /\ day <= Today
    /\ day \notin dateLocks
    /\ Controlled
    /\ dateLocks' = dateLocks \cup {day}
    /\ UNCHANGED <<books, work, posting, monthLocks, closes, review, closing, frozen, sessions,
                   late>>

\* saveReview; the close row of the period is locked meanwhile, so no close runs.
SaveReview(p, status) ==
    /\ p \notin closing
    /\ closes[p] # "CLOSED"
    /\ closes[p] # status
    /\ Controlled
    /\ review' = [review EXCEPT ![p] = status]
    /\ closes' = [closes EXCEPT ![p] = status]
    /\ UNCHANGED <<books, work, posting, dateLocks, monthLocks, closing, frozen, sessions, late>>

RowsOf(p) == {r \in Rows : books.journals[r] # Unused /\ InPeriod(p, books.journals[r].day)}

\* closePeriod waits for the rows of the period and locks them, then checks them.
\* The period lock it writes is not visible before the commit.
ReadEvidence(p) ==
    /\ p \notin closing
    /\ Controlled
    /\ closes[p] # "CLOSED"
    /\ review[p] \in {"NONE", "READY_TO_CLOSE"}
    /\ \A t \in Postings : held[t] \cap RowsOf(p) = {}
    /\ closing' = closing \cup {p}
    /\ frozen' = [frozen EXCEPT ![p] = RowsOf(p)]
    /\ UNCHANGED <<books, work, posting, dateLocks, monthLocks, closes, review, sessions, late>>

\* The lock of a period that was reopened is made active again.
MonthLocks(p) == monthLocks \cup {p}

CommitClose(p) ==
    /\ p \in closing
    /\ closing' = closing \ {p}
    /\ frozen' = [frozen EXCEPT ![p] = {}]
    /\ monthLocks' = MonthLocks(p)
    /\ closes' = [closes EXCEPT ![p] = "CLOSED"]
    /\ UNCHANGED <<books, work, posting, dateLocks, review, sessions, controls, late>>

AbortClose(p) ==
    /\ p \in closing
    /\ closing' = closing \ {p}
    /\ frozen' = [frozen EXCEPT ![p] = {}]
    /\ UNCHANGED <<books, work, posting, dateLocks, monthLocks, closes, review, sessions,
                   controls, late>>

\* reopenPeriod makes the period's own lock inactive; a lock with a later date
\* still bars its days.
ReopenPeriod(p) ==
    /\ closes[p] = "CLOSED"
    /\ p \in monthLocks
    /\ monthLocks' = monthLocks \ {p}
    /\ closes' = [closes EXCEPT ![p] = "REOPENED"]
    /\ UNCHANGED <<books, work, posting, dateLocks, review, closing, frozen, sessions, controls>>
    /\ late' = [d \in Days |-> IF Barred(d)' THEN late[d] ELSE 0]

-----------------------------------------------------------------------------
(* Bank reconciliations.                                                   *)

\* The balance of a bank account at the end of a day, by the posted journals.
LedgerBalance(bk, b, day) ==
    SumFunction([r \in Rows |->
        LET j == bk.journals[r]
        IN  IF j.status = "Posted" /\ j.day <= day THEN Delta(b, j) ELSE 0])

MayComplete(b, day) ==
    /\ movementLock = Free
    /\ postingLock = Free
    /\ \A s \in sessions[b] : s.day < day

\* completeReconciliationSession, under both advisory locks, when the statement
\* agrees with the ledger.
CompleteReconciliation(b, day) ==
    /\ MayComplete(b, day)
    /\ sessions' = [sessions EXCEPT ![b] = @ \cup {[day |-> day, balance |-> LedgerBalance(books, b, day)]}]
    /\ Controlled
    /\ UNCHANGED <<books, work, posting, periods, late>>

\* reopenReconciliation of the latest session, under the lock of bank movements.
ReopenReconciliation(b) ==
    /\ movementLock = Free
    /\ \E last \in sessions[b] :
          /\ \A s \in sessions[b] : s.day <= last.day
          /\ sessions' = [sessions EXCEPT ![b] = @ \ {last}]
    /\ UNCHANGED <<books, work, posting, periods, controls, late>>

-----------------------------------------------------------------------------
Post(t) ==
    \/ \E series \in {"JV", "SRC"}, day \in Days, move \in Moves : StartNew(t, series, day, move)
    \/ \E row \in Rows : StartDraft(t, row) \/ StartReversal(t, row) \/ StartUndo(t, row)
    \/ Write(t) \/ Commit(t) \/ Rollback(t)

Next ==
    \/ \E t \in Postings : Post(t)
    \/ \E day \in Days, move \in Moves : SubmitDraft(day, move)
    \/ \E day \in Days : LockDate(day)
    \/ \E p \in Periods :
          \/ \E status \in {"IN_REVIEW", "READY_TO_CLOSE"} : SaveReview(p, status)
          \/ ReadEvidence(p) \/ CommitClose(p) \/ AbortClose(p) \/ ReopenPeriod(p)
    \/ \E b \in Banks :
          (\E day \in Days : CompleteReconciliation(b, day)) \/ ReopenReconciliation(b)

Spec == Init /\ [][Next]_vars

-----------------------------------------------------------------------------
(* Properties.                                                             *)

\* What the posted journals of some books debit, or credit, to an account.
DebitsOf(bk, a) ==
    SumFunction([r \in Rows |-> LET j == bk.journals[r]
                                IN  IF j.status = "Posted" /\ j.dr = a THEN j.amount ELSE 0])
CreditsOf(bk, a) ==
    SumFunction([r \in Rows |-> LET j == bk.journals[r]
                                IN  IF j.status = "Posted" /\ j.cr = a THEN j.amount ELSE 0])

Tied(bk) ==
    LET net(a) == DebitsOf(bk, a) - CreditsOf(bk, a)
    IN  /\ \A a \in Accounts : bk.balance[a] = IF a \in DebitNormal THEN net(a) ELSE -net(a)
        /\ \A b \in Banks : bk.bankBalance[b] = bk.balance[b]

\* The running balances of accounts and bank accounts are the posted debits less
\* the posted credits, or the reverse, whatever drafts, reversals, transactions of
\* several journals and rollbacks interleave.
BalancesTie == Tied(books)

Single(bk) ==
    LET journals == bk.journals
        reversals == {r \in Rows : journals[r] # Unused /\ journals[r].reversalOf # 0}
    IN  /\ \A r, k \in reversals : journals[r].reversalOf = journals[k].reversalOf => r = k
        /\ \A r \in reversals :
              LET original == journals[journals[r].reversalOf]
              IN  /\ original # Unused
                  /\ original.reversedBy = r
                  /\ original.dr = journals[r].cr
                  /\ original.cr = journals[r].dr
                  /\ original.amount = journals[r].amount

\* A journal is reversed at most once, by the journal it names, and that journal
\* moves the same amount back, although two endpoints reverse the same rows:
\* reverseJournal goes by the number, reversePostedJournal by the status.
ReversedOnce == Single(books)

\* Since a day was barred, by a lock of a date or the close of a period, at most
\* one transaction has posted onto it: the one that held the posting lock and had
\* read period_locks before.  However many journals it brings, no second one may.
OneStraggler == \A d \in Days : Barred(d) => late[d] <= 1

\* What the report of the concurrency tests says: no document is committed onto a
\* day after the lock of its period has been.
NoStraggler == \A d \in Days : Barred(d) => late[d] = 0

\* A completed reconciliation stays true: the ledger balance at its date is the
\* one the statement was agreed with, until it is reopened.
ReconciledStands ==
    \A b \in Banks : \A s \in sessions[b] : LedgerBalance(books, b, s.day) = s.balance
=============================================================================

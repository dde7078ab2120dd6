------------------------------ MODULE BankMatching ------------------------------
(***************************************************************************)
(* One bank account: the lines of its imported statements, the journals    *)
(* that move its ledger account, the matches between them and the sessions *)
(* that complete a reconciliation.                                         *)
(*                                                                         *)
(* Two generations of handlers write the same tables.  The canonical ones  *)
(* (BankMovementAllocationService, BankStatementEntryCreationService,      *)
(* BankStatementReviewService, the verification of legacy matches) keep    *)
(* ACTIVE allocations of a journal line and derive a statement line's      *)
(* status from their sum; the older ones of BankReconciliationService keep *)
(* LEGACY matches of a document and write the status themselves.  Both are *)
(* routed.  Every handler holds the organization's bank-movement-          *)
(* allocations lock, or a row lock on the journal it changes, to its       *)
(* commit, so each is one action; the order of the requests is free.       *)
(*                                                                         *)
(* All lines have one amount, direction and currency.  A journal has one   *)
(* line on the account's ledger account, and a document one journal, by    *)
(* which a LEGACY match names it.  A reversing journal is dated today,     *)
(* later than every cutoff.  Left out are period locks and the comparison  *)
(* of the closing balance, which only refuse more, and the statuses        *)
(* RECOGNIZED and SUGGESTED, which every handler treats as TO_REVIEW and   *)
(* as UNMATCHED.                                                           *)
(***************************************************************************)
EXTENDS Integers, FiniteSets, FiniteSetsExt, Functions

CONSTANTS
    Lines,        \* rows of bank_statement_transactions, imported or yet to come
    DayOf,        \* the transaction date of each
    LineAmount,   \* the amount of each
    LastDay,      \* bound: days of the statements
    Journals,     \* bound: journals that move the bank account
    Matches,      \* bound: rows of bank_reconciliation_matches at a time
    NoLine, NoJournal

ASSUME BankAssumption ==
    /\ {LineAmount, LastDay} \subseteq Nat \ {0}
    /\ DayOf \in [Lines -> 1..LastDay]
    /\ IsFiniteSet(Matches)
    /\ NoLine \notin Lines /\ NoJournal \notin Journals

VARIABLES
    lines,       \* statement lines with is_ignored and the target of their disposition
    journals,    \* journal_entries with their line on the bank's ledger account
    matches,     \* bank_reconciliation_matches
    completed,   \* end dates of the sessions that are COMPLETED
    overridden   \* lines whose status the removal of a match wrote last

bankVars == <<lines, journals, matches, completed, overridden>>

Days == 1..LastDay
Amounts == 1..LineAmount

LineStatus == {"ABSENT", "TO_REVIEW", "POSSIBLE_DUPLICATE", "UNMATCHED", "PARTIALLY_MATCHED",
               "MATCHED", "CATEGORIZED", "RECONCILED", "CONFIRMED_DUPLICATE", "IGNORED"}

\* A journal of a source document, of the manual series JV/, or numbered JE- by the
\* older creation from a statement; reversed through its source or by hand.
Journal == [series: {"DOCUMENT", "JV", "JE"}, day: Days, amount: Amounts,
            reversed: {"NO", "SOURCE", "HAND"}]
NoEntry == [series |-> "NONE", day |-> 0, amount |-> 0, reversed |-> "NO"]

\* The kind is what wrote the row: allocate, the creation of an entry, a match of a
\* document, or the older creation (reason CREATE_FROM_BANK).  A LEGACY row that is
\* verified becomes ACTIVE; a REVERSED one is a row whose journal was reversed with it.
Match == [state: {"LEGACY", "ACTIVE", "UNMATCHED", "REVERSED"},
          kind: {"ALLOCATED", "CREATED", "DOCUMENT", "FROM_BANK"},
          line: Lines, journal: Journals \cup {NoJournal}, amount: Amounts]
NoMatch == [state |-> "ABSENT", kind |-> "NONE", line |-> NoLine, journal |-> NoJournal,
            amount |-> 0]

BankTypeOK ==
    /\ lines \in [Lines -> [status: LineStatus, ignored: BOOLEAN, target: Lines \cup {NoLine}]]
    /\ journals \in [Journals -> Journal \cup {NoEntry}]
    /\ matches \in [Matches -> Match \cup {NoMatch}]
    /\ completed \subseteq Days
    /\ overridden \subseteq Lines

BankInit ==
    /\ lines = [l \in Lines |-> [status |-> "ABSENT", ignored |-> FALSE, target |-> NoLine]]
    /\ journals = [j \in Journals |-> NoEntry]
    /\ matches = [m \in Matches |-> NoMatch]
    /\ completed = {}
    /\ overridden = {}

-----------------------------------------------------------------------------
(* What the handlers read.                                                 *)

Status(l) == lines[l].status
Present(l) == Status(l) # "ABSENT"
Near(k, l) == DayOf[k] - DayOf[l] \in -3..3

\* reconciled_through_date, the latest end date of a completed session.
Through == IF completed = {} THEN 0 ELSE Max(completed)

\* Variant: the line of the cutoff day itself is taken for open.
OpenAtCutoff(l) == DayOf[l] >= Through

\* No completed session covers the line.
Open(l) == DayOf[l] > Through

RowsOf(l) == {m \in Matches : matches[m].line = l}
ActiveRows(l) == {m \in RowsOf(l) : matches[m].state = "ACTIVE"}
LegacyRows(l) == {m \in RowsOf(l) : matches[m].state = "LEGACY"}
LiveRows(l) == ActiveRows(l) \cup LegacyRows(l)     \* status MATCHED
ActiveOn(j) == {m \in Matches : matches[m].state = "ACTIVE" /\ matches[m].journal = j}

AmountOf(rows) == SumFunctionOnSet([m \in Matches |-> matches[m].amount], rows)
Allocated(l) == AmountOf(ActiveRows(l))

\* Variant: created and verified rows are forgotten.
UsedByAllocate(j) == AmountOf({m \in ActiveOn(j) : matches[m].kind = "ALLOCATED"})

\* What is taken of a journal, by whichever line.
Used(j) == AmountOf(ActiveOn(j))

Posted(j) == journals[j] # NoEntry
Unresolved == {l \in Lines : LegacyRows(l) # {}}   \* blocks every allocation on the account

\* The status that recomputeStatementStatus derives from the sum.
StatusFor(sum) == CASE sum = 0 -> "UNMATCHED"
                    [] sum = LineAmount -> "MATCHED"
                    [] OTHER -> "PARTIALLY_MATCHED"

\* Statuses on which no allocation and no entry is made.
UnderReview == {"ABSENT", "IGNORED", "POSSIBLE_DUPLICATE", "TO_REVIEW", "CONFIRMED_DUPLICATE"}

Allocatable(l) ==
    /\ Status(l) \notin UnderReview \cup {"RECONCILED"}
    /\ ~lines[l].ignored
    /\ lines[l].target = NoLine
    /\ Open(l)
    /\ Unresolved = {}

WithStatus(l, status) == [lines EXCEPT ![l].status = status]

\* A handler other than the removal of a match writes the line's status.
Rewritten(l) == overridden' = overridden \ {l}

Row(state, kind, l, j, a) ==
    [state |-> state, kind |-> kind, line |-> l, journal |-> j, amount |-> a]

Entry(series, day, a) == [series |-> series, day |-> day, amount |-> a, reversed |-> "NO"]

Unwritten(m) == matches[m] = NoMatch

-----------------------------------------------------------------------------
(* Statements and books.                                                   *)

\* confirmStatementImport; the rows of one file are imported one after another, and
\* a row is compared with all lines, whatever became of them.
Import(l) ==
    /\ ~Present(l) /\ Open(l)
    /\ LET alike == {k \in Lines : Present(k) /\ Near(k, l)}
       IN  lines' = WithStatus(l, IF alike = {} THEN "TO_REVIEW" ELSE "POSSIBLE_DUPLICATE")
    /\ UNCHANGED <<journals, matches, completed, overridden>>

\* importStatement, the older import, leaves out exact copies and compares no further.
ImportUnreviewed(l) ==
    /\ ~Present(l) /\ Open(l)
    /\ lines' = WithStatus(l, "UNMATCHED")
    /\ UNCHANGED <<journals, matches, completed, overridden>>

\* postEntry, for a document or a manual journal: its cutoff is the account's.
PostBook(j, series, day, a) ==
    /\ ~Posted(j)
    /\ day > Through
    /\ journals' = [journals EXCEPT ![j] = Entry(series, day, a)]
    /\ UNCHANGED <<lines, matches, completed, overridden>>

Reversed(j, how) == [journals EXCEPT ![j].reversed = how]

\* Variant: only matches that are not verified yet protect a journal.
UnboundLegacyOnly(j, except) ==
    {m \in Matches \ except : matches[m].journal = j /\ matches[m].state = "LEGACY"} = {}

\* No ACTIVE allocation but the one the reversal itself ends names the journal.
Unbound(j, except) == ActiveOn(j) \subseteq except

\* reversePostedJournal for the void of a source document.
ReverseSource(j) ==
    /\ journals[j].series = "DOCUMENT"
    /\ journals[j].reversed = "NO"
    /\ Unbound(j, {})
    /\ journals' = Reversed(j, "SOURCE")
    /\ UNCHANGED <<lines, matches, completed, overridden>>

\* ManualJournalService.reverseJournal goes by the number and asks no allocation.
ReverseByHand(j) ==
    /\ journals[j].series = "JV"
    /\ journals[j].reversed = "NO"
    /\ journals' = Reversed(j, "HAND")
    /\ UNCHANGED <<lines, matches, completed, overridden>>

-----------------------------------------------------------------------------
(* Canonical allocations.                                                  *)

\* BankMovementAllocationService.allocate.
Allocate(m, l, j, a) ==
    /\ Unwritten(m)
    /\ Allocatable(l)
    /\ Posted(j) /\ journals[j].reversed = "NO"
    /\ ActiveRows(l) \cap ActiveOn(j) = {}          \* uk_bank_stmt_active_journal_line_allocation
    /\ Allocated(l) + a <= LineAmount
    /\ Used(j) + a <= journals[j].amount
    /\ matches' = [matches EXCEPT ![m] = Row("ACTIVE", "ALLOCATED", l, j, a)]
    /\ lines' = WithStatus(l, StatusFor(Allocated(l) + a))
    /\ Rewritten(l)
    /\ UNCHANGED <<journals, completed>>

\* Variant: the status is left as it was.
WithdrawnSilently(m, state) ==
    /\ matches' = [matches EXCEPT ![m].state = state]
    /\ UNCHANGED <<lines, overridden>>

\* A row stops being live but stays as history; its line's status is recomputed.
\* Nothing reads the journal of such a row again, so the model forgets it.
Withdrawn(m, state) ==
    LET l == matches[m].line
    IN  /\ matches' = [matches EXCEPT ![m].state = state, ![m].journal = NoJournal]
        /\ lines' = WithStatus(l, StatusFor(AmountOf(ActiveRows(l) \ {m})))
        /\ Rewritten(l)

\* BankMovementAllocationService.unmatch; a created entry is reversed instead.
Unmatch(m) ==
    LET l == matches[m].line
    IN  /\ matches[m].state = "ACTIVE"
        /\ matches[m].kind \in {"ALLOCATED", "DOCUMENT"}
        /\ Status(l) # "RECONCILED" /\ Open(l)
        /\ Withdrawn(m, "UNMATCHED")
        /\ UNCHANGED <<journals, completed>>

\* Variant: rows that were unmatched or reversed still count.
RemainderOfRows(l) == LineAmount - AmountOf(RowsOf(l))

Remainder(l) == LineAmount - Allocated(l)

\* BankStatementEntryCreationService.create posts a journal for what is left of the line.
CreateEntry(m, l, j) ==
    /\ Unwritten(m) /\ ~Posted(j)
    /\ Allocatable(l)
    /\ Status(l) \notin {"MATCHED", "CATEGORIZED"}
    /\ Allocated(l) < LineAmount
    /\ Allocated(l) = 0 <=> Status(l) # "PARTIALLY_MATCHED"
    /\ journals' = [journals EXCEPT ![j] = Entry("JV", DayOf[l], Remainder(l))]
    /\ matches' = [matches EXCEPT ![m] = Row("ACTIVE", "CREATED", l, j, Remainder(l))]
    /\ lines' = WithStatus(l, StatusFor(LineAmount))
    /\ Rewritten(l)
    /\ UNCHANGED completed

\* reverseTransactionCreatedFromStatement, for either kind of created journal.
ReverseCreated(m) ==
    LET l == matches[m].line
        j == matches[m].journal
    IN  /\ \/ matches[m].kind = "CREATED" /\ matches[m].state = "ACTIVE"
           \/ matches[m].kind = "FROM_BANK" /\ matches[m].state \in {"LEGACY", "ACTIVE"}
        /\ Status(l) # "RECONCILED" /\ Open(l)
        /\ journals[j].reversed = "NO"
        /\ Unbound(j, {m})
        /\ journals' = Reversed(j, "SOURCE")
        /\ Withdrawn(m, "REVERSED")
        /\ UNCHANGED completed

\* BankLegacyAllocationVerificationService.verify makes a LEGACY row canonical.
Verify(m) ==
    LET r == matches[m]
        l == r.line
        j == r.journal
    IN  /\ r.state = "LEGACY"
        /\ Status(l) \notin {"RECONCILED", "CONFIRMED_DUPLICATE", "IGNORED"}
        /\ ~lines[l].ignored
        /\ lines[l].target = NoLine
        /\ Open(l)
        /\ journals[j].reversed = "NO" /\ journals[j].day <= DayOf[l]
        /\ AmountOf(LiveRows(l)) <= LineAmount
        /\ {n \in Matches \ {m} : matches[n].state = "LEGACY" /\ matches[n].journal = j} = {}
        /\ ActiveRows(l) \cap ActiveOn(j) = {}
        /\ Used(j) + r.amount <= journals[j].amount
        /\ matches' = [matches EXCEPT ![m].state = "ACTIVE"]
        /\ lines' = WithStatus(l, StatusFor(Allocated(l) + r.amount))
        /\ Rewritten(l)
        /\ UNCHANGED <<journals, completed>>

-----------------------------------------------------------------------------
(* The older matches, which ask neither for a review nor for a session.    *)

\* matchTransaction; uk_bank_reconciliation_active_match allows a document once.
MatchDocument(m, l, j, a) ==
    LET sum == AmountOf(LegacyRows(l)) + a
    IN  /\ Unwritten(m)
        /\ Present(l)
        /\ Status(l) \notin {"CONFIRMED_DUPLICATE", "RECONCILED"}
        /\ lines[l].target = NoLine
        /\ ActiveRows(l) = {}
        /\ Posted(j)
        /\ \A n \in LegacyRows(l) : matches[n].journal # j
        /\ sum <= LineAmount
        /\ matches' = [matches EXCEPT ![m] = Row("LEGACY", "DOCUMENT", l, j, a)]
        /\ lines' = WithStatus(l, StatusFor(sum))
        /\ Rewritten(l)
        /\ UNCHANGED <<journals, completed>>

\* unmatchTransaction deletes the row, the history of a canonical one too, and then
\* looks for any row of the line whose status is MATCHED.
DeleteMatch(m) ==
    LET l == matches[m].line
    IN  /\ matches[m].state \in {"LEGACY", "UNMATCHED", "REVERSED"}
        /\ matches[m].kind # "FROM_BANK"
        /\ matches' = [matches EXCEPT ![m] = NoMatch]
        /\ lines' = WithStatus(l, IF LiveRows(l) \ {m} = {} THEN "UNMATCHED" ELSE "MATCHED")
        /\ overridden' = overridden \cup {l}
        /\ UNCHANGED <<journals, completed>>

\* What createTransactionFromStatement and categorizeTransaction share; neither asks
\* for a disposition, a review or is_ignored.
BookWhole(m, l, j, kind, status) ==
    /\ Unwritten(m) /\ ~Posted(j)
    /\ Present(l)
    /\ Status(l) \notin {"MATCHED", "CATEGORIZED", "RECONCILED"}
    /\ ActiveRows(l) = {}
    /\ DayOf[l] > Through                           \* postEntry
    /\ journals' = [journals EXCEPT ![j] = Entry("JE", DayOf[l], LineAmount)]
    /\ matches' = [matches EXCEPT ![m] = Row("LEGACY", kind, l, j, LineAmount)]
    /\ lines' = WithStatus(l, status)
    /\ Rewritten(l)
    /\ UNCHANGED completed

\* createTransactionFromStatement wants a line without rows, history included.
CreateFromBank(m, l, j) ==
    /\ RowsOf(l) = {}
    /\ BookWhole(m, l, j, "FROM_BANK", "MATCHED")

\* categorizeTransaction books the whole amount beside LEGACY rows of the line.
Categorize(m, l, j) == BookWhole(m, l, j, "DOCUMENT", "CATEGORIZED")

\* ignoreTransaction, which also restores a line that was never ignored.
Ignore(l, ignored) ==
    /\ Present(l)
    /\ Status(l) \notin {"RECONCILED", "CONFIRMED_DUPLICATE"}
    /\ Open(l)
    /\ lines[l].target = NoLine
    /\ ActiveRows(l) = {}
    /\ lines' = [lines EXCEPT ![l].ignored = ignored,
                              ![l].status = IF ignored THEN "IGNORED" ELSE "TO_REVIEW"]
    /\ Rewritten(l)
    /\ UNCHANGED <<journals, matches, completed>>

-----------------------------------------------------------------------------
(* Review of imported lines and of possible duplicates.                    *)

\* getCandidates.
Candidates(l) ==
    {k \in Lines \ {l} :
        /\ Present(k) /\ Near(k, l)
        /\ Status(k) \notin {"IGNORED", "POSSIBLE_DUPLICATE", "CONFIRMED_DUPLICATE"}
        /\ ~lines[k].ignored
        /\ lines[k].target = NoLine}

\* What review and confirmDuplicate ask of the line.
Reviewable(l) == ~lines[l].ignored /\ Open(l) /\ LiveRows(l) = {}

ConfirmDuplicate(l, k) ==
    /\ Status(l) = "POSSIBLE_DUPLICATE"
    /\ Reviewable(l)
    /\ k \in Candidates(l)
    /\ \A n \in Lines : lines[n].target # l
    /\ lines' = [lines EXCEPT ![l].status = "CONFIRMED_DUPLICATE", ![l].target = k]
    /\ Rewritten(l)
    /\ UNCHANGED <<journals, matches, completed>>

RevokeDuplicate(l) ==
    /\ Status(l) = "CONFIRMED_DUPLICATE"
    /\ Open(l)
    /\ lines[l].target # NoLine
    /\ lines' = [lines EXCEPT ![l].status = "POSSIBLE_DUPLICATE", ![l].target = NoLine]
    /\ Rewritten(l)
    /\ UNCHANGED <<journals, matches, completed>>

\* review with the decision ACCEPT, or KEEP_AS_NEW with the candidates acknowledged.
Review(l) ==
    /\ \/ Status(l) = "TO_REVIEW"
       \/ Status(l) = "POSSIBLE_DUPLICATE" /\ Candidates(l) # {}
    /\ Reviewable(l)
    /\ lines' = WithStatus(l, "UNMATCHED")
    /\ Rewritten(l)
    /\ UNCHANGED <<journals, matches, completed>>

-----------------------------------------------------------------------------
(* Reconciliation sessions.                                                *)

\* The allocation still names money of the account on or before the cutoff.
Valid(m, cutoff) ==
    LET j == matches[m].journal
    IN  /\ journals[j].reversed = "NO"
        /\ journals[j].day <= cutoff
        /\ Used(j) <= journals[j].amount

Settled(l, cutoff) ==
    /\ ~lines[l].ignored
    /\ Status(l) \in {"MATCHED", "RECONCILED"}
    /\ Allocated(l) = LineAmount
    /\ \A m \in ActiveRows(l) : Valid(m, cutoff)

\* Variant: the original of a duplicate may lie beyond the cutoff.
ResolvedAnywhere(l, cutoff) ==
    IF Status(l) # "CONFIRMED_DUPLICATE" THEN Settled(l, cutoff)
    ELSE /\ lines[l].target # NoLine /\ ~lines[l].ignored
         /\ DayOf[lines[l].target] > cutoff \/ Settled(lines[l].target, cutoff)

\* Nothing is left to do about the line; assertConfirmedDuplicatesValid for duplicates.
Resolved(l, cutoff) ==
    IF Status(l) # "CONFIRMED_DUPLICATE" THEN Settled(l, cutoff)
    ELSE LET k == lines[l].target
         IN  /\ k # NoLine /\ ~lines[l].ignored
             /\ DayOf[k] <= cutoff /\ Near(k, l)
             /\ lines[k].target = NoLine
             /\ Settled(k, cutoff)

\* completeReconciliationSession, for a statement that ends on the cutoff.
Complete(cutoff) ==
    LET covered == {l \in Lines : Present(l) /\ DayOf[l] <= cutoff}
        matched == {l \in covered : Status(l) = "MATCHED"}
    IN  /\ cutoff > Through
        /\ covered # {}
        /\ \A l \in covered : Resolved(l, cutoff)
        /\ completed' = completed \cup {cutoff}
        /\ lines' = [l \in Lines |-> IF l \in matched
                                     THEN [lines[l] EXCEPT !.status = "RECONCILED"] ELSE lines[l]]
        /\ overridden' = overridden \ matched
        /\ UNCHANGED <<journals, matches>>

\* reopenReconciliation of the latest session.
Reopen ==
    LET earlier == completed \ {Through}
        prior == IF earlier = {} THEN 0 ELSE Max(earlier)
        affected == {l \in Lines : /\ Status(l) = "RECONCILED"
                                   /\ DayOf[l] \in (prior + 1)..Through}
        reopened(l) == IF Allocated(l) = LineAmount THEN "MATCHED" ELSE "UNMATCHED"
    IN  /\ completed # {}
        /\ completed' = earlier
        /\ lines' = [l \in Lines |-> IF l \in affected
                                     THEN [lines[l] EXCEPT !.status = reopened(l)] ELSE lines[l]]
        /\ overridden' = overridden \ affected
        /\ UNCHANGED <<journals, matches>>

BankNext ==
    \/ \E l \in Lines : \/ Import(l) \/ ImportUnreviewed(l)
                        \/ RevokeDuplicate(l) \/ Review(l)
                        \/ \E k \in Lines : ConfirmDuplicate(l, k)
                        \/ \E ignored \in BOOLEAN : Ignore(l, ignored)
    \/ \E j \in Journals : \/ \E series \in {"DOCUMENT", "JV"}, day \in Days, a \in Amounts :
                                  PostBook(j, series, day, a)
                           \/ ReverseSource(j) \/ ReverseByHand(j)
    \/ \E m \in Matches : Unmatch(m) \/ ReverseCreated(m) \/ Verify(m) \/ DeleteMatch(m)
    \/ \E m \in {n \in Matches : Unwritten(n)}, l \in Lines, j \in Journals :
          \/ \E a \in Amounts : Allocate(m, l, j, a) \/ MatchDocument(m, l, j, a)
          \/ CreateEntry(m, l, j) \/ CreateFromBank(m, l, j) \/ Categorize(m, l, j)
    \/ \E cutoff \in Days : Complete(cutoff)
    \/ Reopen

BankSpec == BankInit /\ [][BankNext]_bankVars

-----------------------------------------------------------------------------
(* What the reconciliation promises.                                       *)

\* The status of a line tells what is allocated to it, whichever handlers served it: a
\* reconciled line is allocated whole, a line that counts as matched without a verified
\* allocation has a live match, and the status tells whole allocations from partial
\* ones, unless the removal of an old match wrote it last.
StatementTies ==
    \A l \in Lines :
        /\ Status(l) = "RECONCILED" => Allocated(l) = LineAmount
        /\ Status(l) \in {"MATCHED", "PARTIALLY_MATCHED", "CATEGORIZED"} =>
               LiveRows(l) # {}
        /\ Allocated(l) > 0 /\ l \notin overridden =>
               /\ Allocated(l) = LineAmount <=> Status(l) \in {"MATCHED", "RECONCILED"}
               /\ Allocated(l) < LineAmount <=> Status(l) = "PARTIALLY_MATCHED"

\* Money is matched once: no line is allocated more than its amount and no journal more
\* than it moved, and a journal with an allocation was reversed by hand if at all.
AllocationsStand ==
    /\ \A l \in Lines : Allocated(l) <= LineAmount
    /\ \A j \in Journals :
          /\ Used(j) <= journals[j].amount
          /\ ActiveOn(j) # {} => journals[j].reversed # "SOURCE"

Closed(l) == DayOf[l] <= Through

\* What a completed session recorded of a line (bank_reconciliation_session_items).
Evidence(l) ==
    <<CASE ~Present(l) -> "ABSENT"
        [] Status(l) = "CONFIRMED_DUPLICATE" -> "CONFIRMED_DUPLICATE"
        [] OTHER -> "ALLOCATED",
      lines[l].target,
      {matches[m] : m \in ActiveRows(l)}>>

\* While a completed session covers a line, nothing changes what the session recorded
\* of it: whether it exists, of what it is a duplicate, its allocations.
CompletedStands ==
    [][\A l \in Lines : Closed(l) /\ Closed(l)' => Evidence(l)' = Evidence(l)]_bankVars

\* Everything a completed session covers stays resolved: each line is allocated whole,
\* or is a duplicate of a line that a completed session covers and that is.
CompletedResolved ==
    \A l \in Lines : Present(l) /\ Closed(l) =>
        LET k == IF Status(l) = "CONFIRMED_DUPLICATE" THEN lines[l].target ELSE l
        IN  /\ k # NoLine
            /\ Closed(k)
            /\ Status(k) \in {"MATCHED", "RECONCILED"}
            /\ Allocated(k) = LineAmount
=============================================================================

------------------------- MODULE RecurringOccurrences -------------------------
(***************************************************************************)
(* Recurring transactions: profiles with a schedule, the occurrences they  *)
(* materialise, and the runs that claim an occurrence, post the document   *)
(* of it and record success or failure.                                    *)
(*                                                                         *)
(* A run is one call of RecurringDocumentJobHandler.processDue; its three  *)
(* phases, and each claim of the third, are transactions of their own, so  *)
(* runs of several processes interleave between them.  POST /recurring/run *)
(* works through the same phases, but inside the one transaction of the    *)
(* idempotency middleware: it is one action, RunByHand.                    *)
(*                                                                         *)
(* Days are numbered; Schedule[p] is the set of days nextScheduleDate      *)
(* walks through from the profile's start.  Leases and backoffs are        *)
(* abstract clocks, as in JobScheduler.                                    *)
(***************************************************************************)
EXTENDS Naturals, FiniteSets

CONSTANTS
    Profiles,     \* recurring_transaction_profiles, by id
    LastDay,      \* bound: the last day of the calendar
    Schedule,     \* the days each profile falls on
    EndOf,        \* end_date of each profile (LastDay if it has none)
    CatchUp,      \* catch_up_policy of each profile
    MaxCatchUp,   \* max_catch_up
    Runs,         \* calls of processDue that may be under way at once
    Names,        \* lease owners
    WorkerOf,     \* the workerId of each run: 'runtime-worker' for all of them
    ManualName,   \* 'manual:<user>', the lease owner of runs by hand
    MaxAttempts,  \* retryPolicy.maxAttempts
    DelayCap,     \* the largest attemptCount retryDelaySeconds accepts
    ClaimLimit,   \* the batch of one run
    MaxClaims,    \* bound: claims of one occurrence between operator retries
    MaxEarly,     \* bound: leases that expire while a run still works on them
    MaxRetries,   \* bound: operator retries of quarantined occurrences
    MaxCrashes,   \* bound: runs that stop, statements that fail
    NoName, NoClaim

Days == 1 .. LastDay
Occurrences == Profiles \X Days
Policies == {"ALL", "LATEST", "SKIP"}

ASSUME RecurringAssumption ==
    /\ LastDay \in Nat
    /\ Schedule \in [Profiles -> SUBSET Days]
    /\ EndOf \in [Profiles -> Nat]
    /\ CatchUp \in [Profiles -> Policies]
    /\ MaxCatchUp \in Nat \ {0}
    /\ WorkerOf \in [Runs -> Names]
    /\ ManualName \in Names
    /\ NoName \notin Names
    /\ MaxAttempts \in Nat \ {0}
    /\ DelayCap \in Nat /\ DelayCap >= MaxAttempts
    /\ ClaimLimit \in Nat \ {0}
    /\ IsFiniteSet(Runs)
    /\ MaxClaims \in Nat /\ MaxEarly \in Nat /\ MaxRetries \in Nat /\ MaxCrashes \in Nat

VARIABLES
    profiles,   \* status and next_run_date
    occs,       \* recurring_transaction_occurrences
    documents,  \* documents that carry the occurrence's source_occurrence_key
    pc,         \* where each run stands
    held,       \* claims a run has still to execute
    cur,        \* the claim whose failure a run is about to record
    lapses,     \* history: leases of each occurrence that ran out
    reopened,   \* history: occurrences requeued while a run still held a claim
                \* of them
    early, retries, crashes

vars == <<profiles, occs, documents, pc, held, cur, lapses, reopened,
          early, retries, crashes>>

runVars == <<pc, held, cur>>
history == <<lapses, reopened>>
bounds == <<early, retries, crashes>>

Profile == [status: {"ABSENT", "ACTIVE", "PAUSED"}, next: 1 .. LastDay + 1]

OccStatus == {"ABSENT", "PENDING", "PROCESSING", "RETRY", "SUCCEEDED", "QUARANTINED"}

Row == [status: OccStatus, attempts: Nat, owner: Names \cup {NoName},
        lease: {"none", "live", "expired"}, due: BOOLEAN]

Claims == [occ: Occurrences, attempts: Nat]

TypeOK ==
    /\ profiles \in [Profiles -> Profile]
    /\ occs \in [Occurrences -> Row]
    /\ documents \in [Occurrences -> Nat]
    /\ pc \in [Runs -> {"idle", "claiming", "executing", "failing"}]
    /\ held \in [Runs -> SUBSET Claims]
    /\ cur \in [Runs -> Claims \cup {NoClaim}]
    /\ \A r \in Runs : pc[r] = "failing" => cur[r] \in Claims
    /\ lapses \in [Occurrences -> Nat]
    /\ reopened \subseteq Occurrences
    /\ early \in Nat /\ retries \in Nat /\ crashes \in Nat

\* The first day at or after d on which the profile falls; the day after the
\* calendar when there is none.
FirstFrom(p, d) ==
    IF \E e \in Schedule[p] : e >= d
    THEN CHOOSE e \in Schedule[p] : e >= d /\ \A f \in Schedule[p] : f >= d => e <= f
    ELSE LastDay + 1

Init ==
    /\ profiles = [p \in Profiles |-> [status |-> "ABSENT", next |-> FirstFrom(p, 1)]]
    /\ occs = [o \in Occurrences |-> [status |-> "ABSENT", attempts |-> 0,
                                      owner |-> NoName, lease |-> "none", due |-> FALSE]]
    /\ documents = [o \in Occurrences |-> 0]
    /\ pc = [r \in Runs |-> "idle"]
    /\ held = [r \in Runs |-> {}]
    /\ cur = [r \in Runs |-> NoClaim]
    /\ lapses = [o \in Occurrences |-> 0] /\ reopened = {}
    /\ early = 0 /\ retries = 0 /\ crashes = 0

-----------------------------------------------------------------------------
(* Due dates (schedule.ts).                                                  *)

DueDays(p, asOf) ==
    {d \in Schedule[p] : profiles[p].next <= d /\ d <= asOf /\ d <= EndOf[p]}

LastOf(S) == CHOOSE d \in S : \A e \in S : e <= d

OldestFew(S, n) == {d \in S : Cardinality({e \in S : e < d}) < n}

\* dueDatesForPolicy().materialize
Materialized(p, asOf) ==
    LET due == DueDays(p, asOf)
    IN CASE CatchUp[p] = "ALL" -> OldestFew(due, MaxCatchUp)
         [] CatchUp[p] = "LATEST" -> {LastOf(due)}
         [] OTHER -> {d \in {LastOf(due)} : d = asOf}

\* The variant walks to the last due day whatever max_catch_up left behind.
NextRunDateAhead(p, asOf) == FirstFrom(p, LastOf(DueDays(p, asOf)) + 1)

\* dueDatesForPolicy().nextRunDate
NextRunDate(p, asOf) ==
    LET due == DueDays(p, asOf)
        handled == IF CatchUp[p] = "ALL" THEN OldestFew(due, MaxCatchUp) ELSE due
    IN FirstFrom(p, LastOf(handled) + 1)

DueProfiles(asOf) ==
    {p \in Profiles : profiles[p].status = "ACTIVE" /\ DueDays(p, asOf) # {}}

\* The table with the occurrences of the profiles in S inserted, unless the
\* occurrence key is there already.
WithMaterialized(S, asOf) ==
    [o \in Occurrences |->
        IF /\ o[1] \in S
           /\ o[2] \in Materialized(o[1], asOf)
           /\ occs[o].status = "ABSENT"
        THEN [occs[o] EXCEPT !.status = "PENDING", !.due = TRUE]
        ELSE occs[o]]

Advanced(S, asOf) ==
    [p \in Profiles |-> IF p \in S THEN [profiles[p] EXCEPT !.next = NextRunDate(p, asOf)]
                                   ELSE profiles[p]]

-----------------------------------------------------------------------------
(* What the UPDATE statements write into an occurrence.                      *)

Claimed(row, name) ==
    [row EXCEPT !.status = "PROCESSING", !.attempts = row.attempts + 1,
                !.owner = name, !.lease = "live", !.due = FALSE]

Succeeded(row) ==
    [row EXCEPT !.status = "SUCCEEDED", !.owner = NoName, !.lease = "none"]

\* Variants: the final attempt is one too early, or one too late.
AfterFailureEarly(row, n) ==
    [row EXCEPT !.status = IF n + 1 >= MaxAttempts THEN "QUARANTINED" ELSE "RETRY",
                !.owner = NoName, !.lease = "none"]
AfterFailureLate(row, n) ==
    [row EXCEPT !.status = IF n > MaxAttempts THEN "QUARANTINED" ELSE "RETRY",
                !.owner = NoName, !.lease = "none"]

\* The row after the attempt with number n failed.
AfterFailure(row, n) ==
    [row EXCEPT !.status = IF n >= MaxAttempts THEN "QUARANTINED" ELSE "RETRY",
                !.owner = NoName, !.lease = "none"]

Requeued(row) ==
    [row EXCEPT !.status = "RETRY", !.attempts = 0, !.owner = NoName,
                !.lease = "none", !.due = TRUE]

\* Variant: the WHERE clause loses everything but the id.
OwnsAnyRow(row, name) == row.status # "ABSENT"

\* The condition under which executeClaim and recordFailure still own a row.
Owns(row, name) == row.status = "PROCESSING" /\ row.owner = name

\* The rows of a table that claimDueOccurrences may take.
Claimable(table) ==
    {o \in Occurrences :
        /\ profiles[o[1]].status = "ACTIVE"
        /\ \/ table[o].status \in {"PENDING", "RETRY"} /\ table[o].due
           \/ table[o].status = "PROCESSING" /\ table[o].lease = "expired"}

\* The batches it may take: the oldest by scheduled_for, up to the limit.
Batches(table) ==
    {C \in SUBSET Claimable(table) :
        /\ Cardinality(C) <= ClaimLimit
        /\ \A o \in Claimable(table) \ C :
              /\ Cardinality(C) = ClaimLimit
              /\ \A c \in C : c[2] <= o[2]}

\* The claims a run still has to execute, or to record the failure of.
Working(r) == held[r] \cup {c \in {cur[r]} : pc[r] = "failing"}

WorkedOn(o) == \E r \in Runs : \E c \in Working(r) : c.occ = o

-----------------------------------------------------------------------------
(* Profiles and the operator.                                                *)

CreateProfile(p) ==
    /\ profiles[p].status = "ABSENT"
    /\ profiles' = [profiles EXCEPT ![p].status = "ACTIVE"]
    /\ UNCHANGED <<occs, documents, runVars, history, bounds>>

PauseProfile(p) ==
    /\ profiles[p].status = "ACTIVE"
    /\ profiles' = [profiles EXCEPT ![p].status = "PAUSED"]
    /\ UNCHANGED <<occs, documents, runVars, history, bounds>>

ResumeProfile(p) ==
    /\ profiles[p].status = "PAUSED"
    /\ profiles' = [profiles EXCEPT ![p].status = "ACTIVE"]
    /\ UNCHANGED <<occs, documents, runVars, history, bounds>>

RetryQuarantined(o) ==
    /\ occs[o].status = "QUARANTINED"
    /\ retries < MaxRetries
    /\ retries' = retries + 1
    /\ occs' = [occs EXCEPT ![o] = Requeued(occs[o])]
    /\ reopened' = IF WorkedOn(o) THEN reopened \cup {o} ELSE reopened
    /\ UNCHANGED <<profiles, documents, runVars, lapses, early, crashes>>

-----------------------------------------------------------------------------
(* One run of processDue.                                                    *)

\* materializeDueOccurrences: profiles another transaction has locked are
\* skipped, hence any set S of the due ones.
Materialize(r, asOf, S) ==
    /\ pc[r] = "idle"
    /\ pc' = [pc EXCEPT ![r] = "claiming"]
    /\ occs' = WithMaterialized(S, asOf)
    /\ profiles' = Advanced(S, asOf)
    /\ UNCHANGED <<documents, held, cur, history, bounds>>

Claim(r, C) ==
    /\ pc[r] = "claiming"
    /\ pc' = [pc EXCEPT ![r] = IF C = {} THEN "idle" ELSE "executing"]
    /\ occs' = [o \in Occurrences |-> IF o \in C THEN Claimed(occs[o], WorkerOf[r]) ELSE occs[o]]
    /\ held' = [held EXCEPT ![r] = {[occ |-> o, attempts |-> occs[o].attempts + 1] : o \in C}]
    /\ UNCHANGED <<profiles, documents, cur, history, bounds>>

\* The run goes on with the next claim, if it has one.
GoOn(r, rest) ==
    /\ held' = [held EXCEPT ![r] = rest]
    /\ cur' = [cur EXCEPT ![r] = NoClaim]
    /\ pc' = [pc EXCEPT ![r] = IF rest = {} THEN "idle" ELSE "executing"]

\* The run's transaction for claim c found nothing to lock: RECURRING_CLAIM_LOST.
FindsClaimLost(r, c) ==
    /\ pc[r] = "executing" /\ c \in held[r]
    /\ ~(Owns(occs[c.occ], WorkerOf[r]) /\ occs[c.occ].lease = "live")
    /\ GoOn(r, held[r] \ {c})
    /\ UNCHANGED <<profiles, occs, documents, history, bounds>>

\* The row is this run's and the creator's document is the first with its key.
CanPost(o, name) ==
    /\ Owns(occs[o], name)
    /\ occs[o].lease = "live"
    /\ documents[o] = 0

PostDocument(o) ==
    /\ documents' = [documents EXCEPT ![o] = @ + 1]
    /\ occs' = [occs EXCEPT ![o] = Succeeded(occs[o])]

\* executeClaim holds the row lock from its first statement to the commit, so
\* the whole transaction is one step.
ExecuteClaim(r, c) ==
    /\ pc[r] = "executing" /\ c \in held[r]
    /\ CanPost(c.occ, WorkerOf[r])
    /\ PostDocument(c.occ)
    /\ GoOn(r, held[r] \ {c})
    /\ UNCHANGED <<profiles, history, bounds>>

\* The transaction rolls back: no creator for the kind, a creator that throws,
\* a statement that fails before the row was looked at.
ExecutionFails(r, c) ==
    /\ pc[r] = "executing" /\ c \in held[r]
    /\ pc' = [pc EXCEPT ![r] = "failing"]
    /\ cur' = [cur EXCEPT ![r] = c]
    /\ held' = [held EXCEPT ![r] = @ \ {c}]
    /\ UNCHANGED <<profiles, occs, documents, history, bounds>>

\* The commit happens but its answer is lost: the run takes it for a failure.
CommitUnacknowledged(r, c) ==
    /\ pc[r] = "executing" /\ c \in held[r]
    /\ CanPost(c.occ, WorkerOf[r])
    /\ crashes < MaxCrashes
    /\ crashes' = crashes + 1
    /\ PostDocument(c.occ)
    /\ pc' = [pc EXCEPT ![r] = "failing"]
    /\ cur' = [cur EXCEPT ![r] = c]
    /\ held' = [held EXCEPT ![r] = @ \ {c}]
    /\ UNCHANGED <<profiles, history, early, retries>>

\* recordFailure: retryDelaySeconds throws before the UPDATE when the attempt
\* count is over its cap, and the UPDATE finds no row when the claim is lost.
RecordFailure(r) ==
    /\ pc[r] = "failing"
    /\ LET o == cur[r].occ
       IN occs' = IF Owns(occs[o], WorkerOf[r]) /\ cur[r].attempts <= DelayCap
                  THEN [occs EXCEPT ![o] = AfterFailure(occs[o], cur[r].attempts)]
                  ELSE occs
    /\ GoOn(r, held[r])
    /\ UNCHANGED <<profiles, documents, history, bounds>>

\* recordFailure itself fails; processDue logs the error and goes on.
FailureUnrecorded(r) ==
    /\ pc[r] = "failing"
    /\ crashes < MaxCrashes
    /\ crashes' = crashes + 1
    /\ GoOn(r, held[r])
    /\ UNCHANGED <<profiles, occs, documents, history, early, retries>>

\* The process stops, or a statement of the first two phases fails.
Crash(r) ==
    /\ pc[r] # "idle"
    /\ crashes < MaxCrashes
    /\ crashes' = crashes + 1
    /\ GoOn(r, {})
    /\ UNCHANGED <<profiles, occs, documents, history, early, retries>>

-----------------------------------------------------------------------------
(* POST /recurring/run, one transaction.  The claims are executed one after  *)
(* the other, and the first that fails ends the run: with a status below 500 *)
(* everything so far is committed, the claims not reached included; with 500 *)
(* everything is rolled back, which leaves no trace.                         *)

RunByHand(asOf, S, C, done, failed) ==
    LET table == WithMaterialized(S, asOf)
    IN /\ \A o \in done : documents[o] = 0
       /\ Cardinality(failed) <= 1
       /\ failed = {} => done = C
       /\ \A o \in failed : table[o].attempts < DelayCap
       /\ profiles' = Advanced(S, asOf)
       /\ occs' = [o \in Occurrences |->
             CASE o \in done -> Succeeded(Claimed(table[o], ManualName))
               [] o \in failed -> AfterFailure(Claimed(table[o], ManualName), table[o].attempts + 1)
               [] o \in C \ (done \cup failed) -> Claimed(table[o], ManualName)
               [] OTHER -> table[o]]
       /\ documents' = [o \in Occurrences |-> IF o \in done THEN documents[o] + 1 ELSE documents[o]]
       /\ UNCHANGED <<runVars, history, bounds>>

-----------------------------------------------------------------------------
(* The clock.                                                                *)

\* A lease passes.  While a run still works on the claim this is an early
\* expiry, the slow-worker case, and bounded.
Expire(o) ==
    /\ occs[o].status = "PROCESSING" /\ occs[o].lease = "live"
    /\ occs[o].attempts < MaxClaims
    /\ WorkedOn(o) => early < MaxEarly
    /\ early' = IF WorkedOn(o) THEN early + 1 ELSE early
    /\ lapses' = [lapses EXCEPT ![o] = @ + 1]
    /\ occs' = [occs EXCEPT ![o].lease = "expired"]
    /\ UNCHANGED <<profiles, documents, runVars, reopened, retries, crashes>>

BackoffOver(o) ==
    /\ occs[o].status = "RETRY" /\ ~occs[o].due
    /\ occs' = [occs EXCEPT ![o].due = TRUE]
    /\ UNCHANGED <<profiles, documents, runVars, history, bounds>>

-----------------------------------------------------------------------------

ExecuteStep(r, c) ==
    FindsClaimLost(r, c) \/ ExecuteClaim(r, c) \/ ExecutionFails(r, c)

RunStep(r) ==
    \/ \E asOf \in Days : \E S \in SUBSET DueProfiles(asOf) : Materialize(r, asOf, S)
    \/ \E C \in Batches(occs) : Claim(r, C)
    \/ \E c \in held[r] : ExecuteStep(r, c)
    \/ RecordFailure(r)

Disturbance(r) ==
    \/ \E c \in held[r] : CommitUnacknowledged(r, c)
    \/ FailureUnrecorded(r)
    \/ Crash(r)

UserStep ==
    \/ \E p \in Profiles : CreateProfile(p) \/ PauseProfile(p) \/ ResumeProfile(p)
    \/ \E o \in Occurrences : RetryQuarantined(o)
    \/ \E asOf \in Days : \E S \in SUBSET DueProfiles(asOf) :
         \E C \in Batches(WithMaterialized(S, asOf)) : \E done \in SUBSET C :
            \E failed \in SUBSET (C \ done) : RunByHand(asOf, S, C, done, failed)

ClockStep == \E o \in Occurrences : Expire(o) \/ BackoffOver(o)

Next ==
    \/ \E r \in Runs : RunStep(r) \/ Disturbance(r)
    \/ UserStep
    \/ ClockStep

Spec == Init /\ [][Next]_vars

-----------------------------------------------------------------------------
(* Properties.                                                               *)

\* An occurrence is marked SUCCEEDED exactly when one document was posted for
\* it: no failure recorded late, lost answer, second claim or run by hand turns
\* it back, and none posts a second document.
PostedOnce ==
    \A o \in Occurrences :
        documents[o] = IF occs[o].status = "SUCCEEDED" THEN 1 ELSE 0

\* Under the ALL policy every day of the schedule before next_run_date has its
\* occurrence, however short max_catch_up is and whenever the profile was
\* paused; and under no policy does an occurrence lie ahead of next_run_date.
NoDaySkipped ==
    \A o \in Occurrences :
        LET p == o[1]  d == o[2]
        IN /\ occs[o].status # "ABSENT" => d < profiles[p].next
           /\ (CatchUp[p] = "ALL" /\ d \in Schedule[p] /\ d < profiles[p].next
                 /\ d <= EndOf[p]) => occs[o].status # "ABSENT"

\* An occurrence is quarantined only after it used up its attempts since it was
\* planned or requeued: a failure is backed off, the final one is not.  The one
\* way round it is an operator's retry while some run still held a claim of the
\* occurrence: that run's failure carries the number of an attempt before the
\* retry, and runs that share a name take each other's leases for their own.
QuarantineExplained ==
    \A o \in Occurrences :
        occs[o].status = "QUARANTINED" => occs[o].attempts >= MaxAttempts \/ o \in reopened

\* An occurrence is attempted at most maxAttempts times since it was planned or
\* requeued, and once more for each lease of it that ran out: only a claim that
\* ends without a recorded outcome is repeated beyond the policy.
AttemptsExplained ==
    \A o \in Occurrences : occs[o].attempts <= MaxAttempts + lapses[o]

\* The refinement: leases, attempts and runs implement the ledger's promise.
StageOf(status) ==
    CASE status = "ABSENT" -> "unplanned"
      [] status \in {"PENDING", "RETRY", "PROCESSING"} -> "open"
      [] status = "SUCCEEDED" -> "posted"
      [] OTHER -> "aside"

Ledger == INSTANCE OccurrenceLedger WITH
             stage <- [o \in Occurrences |-> StageOf(occs[o].status)]

\* Every step of profiles, runs, operator and clock is a step the ledger allows:
\* a document is posted once and for good.
LedgerSpec == Ledger!Spec
===============================================================================

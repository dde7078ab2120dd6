---------------------------- MODULE RecurringProofs ----------------------------
(***************************************************************************)
(* Theorems about RecurringOccurrences, for any number of profiles, days,  *)
(* runs and attempts.                                                      *)
(***************************************************************************)
EXTENDS RecurringOccurrences, TLAPS, FiniteSetTheorems, WellFoundedInduction

-----------------------------------------------------------------------------
(* Days of a schedule.                                                       *)

\* Of the finite sets T in a non-empty collection one has no strict subset there.
LEMMA MinimalSet ==
    ASSUME NEW S, IsFiniteSet(S), NEW T, T \subseteq SUBSET S, T # {}
    PROVE  \E x \in T : \A y \in T : ~(y \subseteq x /\ y # x)
<1>1. IsWellFoundedOn(StrictSubsetOrdering(S), SUBSET S)
  BY FS_StrictSubsetOrderingWellFounded, FS_FiniteSubsetsOfFinite
<1>2. PICK x \in T : \A y \in T : ~(<<y, x>> \in StrictSubsetOrdering(S))
  BY <1>1, WFMin
<1>3. \A y \in T : ~(y \subseteq x /\ y # x)
  <2> TAKE y \in T
  <2>1. y \subseteq x /\ y # x => <<y, x>> \in StrictSubsetOrdering(S)
    BY DEF StrictSubsetOrdering
  <2> QED
    BY <2>1, <1>2
<1> QED
  BY <1>3

LEMMA SomeDays ==
    ASSUME NEW S \in SUBSET Days
    PROVE  IsFiniteSet(S) /\ \A d \in S : d \in Nat
<1>1. Days \subseteq Nat /\ IsFiniteSet(Days)
  BY FS_Interval, RecurringAssumption DEF RecurringAssumption, Days
<1> QED
  BY <1>1, FS_Subset

\* A non-empty set of days has a first one, and a last one.
LEMMA FirstAndLast ==
    ASSUME NEW S \in SUBSET Days, S # {}
    PROVE  /\ \E m \in S : \A n \in S : m <= n
           /\ \E m \in S : \A n \in S : n <= m
<1>1. \A d \in S : d \in Nat
  BY SomeDays
<1>2. IsFiniteSet(S)
  BY SomeDays
<1>3. \E m \in S : \A n \in S : m <= n
  <2> DEFINE Before(n) == {k \in S : k < n}
             T == {Before(n) : n \in S}
  <2>1. T \subseteq SUBSET S /\ T # {}
    OBVIOUS
  <2> HIDE DEF T
  <2>2. PICK x \in T : \A y \in T : ~(y \subseteq x /\ y # x)
    BY <1>2, <2>1, MinimalSet
  <2> USE DEF T
  <2>3. PICK m \in S : x = Before(m)
    BY <2>2
  <2>4. ASSUME NEW n \in S, n < m PROVE FALSE
    <3>1. Before(n) \subseteq Before(m)
      <4>1. \A k \in S : k \in Nat /\ n \in Nat /\ m \in Nat
        BY <1>1
      <4>2. \A k \in S : k < n => k < m
        BY <4>1, <2>4
      <4> QED
        BY <4>2
    <3>2. n \in Before(m) /\ n \notin Before(n)
      BY <1>1, <2>4
    <3>3. Before(n) \in T
      OBVIOUS
    <3> QED
      BY <2>2, <2>3, <3>1, <3>2, <3>3
  <2> QED
    BY <1>1, <2>4
<1>4. \E m \in S : \A n \in S : n <= m
  <2> DEFINE After(n) == {k \in S : n < k}
             T == {After(n) : n \in S}
  <2>1. T \subseteq SUBSET S /\ T # {}
    OBVIOUS
  <2> HIDE DEF T
  <2>2. PICK x \in T : \A y \in T : ~(y \subseteq x /\ y # x)
    BY <1>2, <2>1, MinimalSet
  <2> USE DEF T
  <2>3. PICK m \in S : x = After(m)
    BY <2>2
  <2>4. ASSUME NEW n \in S, m < n PROVE FALSE
    <3>1. After(n) \subseteq After(m)
      <4>1. \A k \in S : k \in Nat /\ n \in Nat /\ m \in Nat
        BY <1>1
      <4>2. \A k \in S : n < k => m < k
        BY <4>1, <2>4
      <4> QED
        BY <4>2
    <3>2. n \in After(m) /\ n \notin After(n)
      BY <1>1, <2>4
    <3>3. After(n) \in T
      OBVIOUS
    <3> QED
      BY <2>2, <2>3, <3>1, <3>2, <3>3
  <2> QED
    BY <1>1, <2>4
<1> QED
  BY <1>3, <1>4

\* FirstFrom is the first day of the schedule not before d.
LEMMA FirstFromIsFirst ==
    ASSUME NEW p \in Profiles, NEW d \in Nat
    PROVE  /\ FirstFrom(p, d) \in 1 .. LastDay + 1
           /\ FirstFrom(p, d) \in Schedule[p] \/ FirstFrom(p, d) = LastDay + 1
           /\ d <= LastDay + 1 => d <= FirstFrom(p, d)
           /\ \A e \in Schedule[p] : e >= d => FirstFrom(p, d) <= e
<1>1. LastDay \in Nat /\ Schedule[p] \in SUBSET Days /\ Days = 1 .. LastDay
  BY RecurringAssumption DEF RecurringAssumption, Days
<1>2. CASE \E e \in Schedule[p] : e >= d
  <2> DEFINE S == {e \in Schedule[p] : e >= d}
  <2>1. S \in SUBSET Days /\ S # {}
    BY <1>1, <1>2
  <2>2. PICK m \in S : \A n \in S : m <= n
    BY <2>1, FirstAndLast
  <2>3. m \in Schedule[p] /\ m >= d /\ \A f \in Schedule[p] : f >= d => m <= f
    BY <2>2
  <2>4. FirstFrom(p, d) = CHOOSE e \in Schedule[p] : e >= d /\ \A f \in Schedule[p] : f >= d => e <= f
    BY <1>2 DEF FirstFrom
  <2>5. /\ FirstFrom(p, d) \in Schedule[p] /\ FirstFrom(p, d) >= d
        /\ \A f \in Schedule[p] : f >= d => FirstFrom(p, d) <= f
    BY <2>3, <2>4
  <2> QED
    BY <2>5, <1>1
<1>3. CASE ~\E e \in Schedule[p] : e >= d
  BY <1>1, <1>3 DEF FirstFrom
<1> QED
  BY <1>2, <1>3

LEMMA LastOfIsLast ==
    ASSUME NEW S \in SUBSET Days, S # {}
    PROVE  LastOf(S) \in S /\ \A e \in S : e <= LastOf(S)
BY FirstAndLast DEF LastOf

\* The oldest few of a set of days: some of them, and all up to the last taken.
LEMMA OldestFewIsPrefix ==
    ASSUME NEW S \in SUBSET Days, S # {}, NEW n \in Nat \ {0}
    PROVE  /\ OldestFew(S, n) \in SUBSET S
           /\ OldestFew(S, n) # {}
           /\ \A m \in OldestFew(S, n) : \A d \in S : d <= m => d \in OldestFew(S, n)
<1> DEFINE Before(d) == {e \in S : e < d}
<1>1. IsFiniteSet(S) /\ \A d \in S : d \in Nat
  BY SomeDays
<1>2. PICK m \in S : \A k \in S : m <= k
  BY FirstAndLast
<1>3. m \in OldestFew(S, n)
  <2>1. \A e \in S : ~(e < m)
    BY <1>1, <1>2
  <2>2. Before(m) = {}
    BY <2>1
  <2> QED
    BY <2>2, FS_EmptySet DEF OldestFew
<1>4. ASSUME NEW k \in OldestFew(S, n), NEW d \in S, d <= k
      PROVE  d \in OldestFew(S, n)
  <2>1. k \in S /\ Cardinality(Before(k)) < n
    BY DEF OldestFew
  <2>2. \A e \in S : e < d => e < k
    <3>1. \A e \in S : e \in Nat /\ d \in Nat /\ k \in Nat
      BY <1>1, <2>1
    <3> QED
      BY <3>1, <1>4
  <2>3. Before(d) \in SUBSET Before(k) /\ IsFiniteSet(Before(k))
    BY <2>2, <1>1, FS_Subset
  <2>4. /\ Cardinality(Before(d)) <= Cardinality(Before(k))
        /\ Cardinality(Before(d)) \in Nat /\ Cardinality(Before(k)) \in Nat
    BY <2>3, FS_Subset, FS_CardinalityType
  <2>5. Cardinality(Before(d)) < n
    BY <2>1, <2>4
  <2> QED
    BY <2>5 DEF OldestFew
<1> QED
  BY <1>3, <1>4 DEF OldestFew

\* Materialisation of a due profile: the days it inserts lie between the old and
\* the new next_run_date, and under ALL they are all its days between the two.
LEMMA Advance ==
    ASSUME NEW p \in Profiles, NEW asOf \in Days, profiles[p] \in Profile,
           DueDays(p, asOf) # {}
    PROVE  /\ NextRunDate(p, asOf) \in 1 .. LastDay + 1
           /\ profiles[p].next < NextRunDate(p, asOf)
           /\ \A d \in Materialized(p, asOf) :
                 d \in Days /\ d < NextRunDate(p, asOf)
           /\ CatchUp[p] = "ALL" =>
                 \A d \in Schedule[p] :
                    (profiles[p].next <= d /\ d < NextRunDate(p, asOf) /\ d <= EndOf[p])
                       => d \in Materialized(p, asOf)
<1> DEFINE due == DueDays(p, asOf)
           next == profiles[p].next
           handled == IF CatchUp[p] = "ALL" THEN OldestFew(due, MaxCatchUp) ELSE due
           last == LastOf(handled)
<1>1. /\ LastDay \in Nat /\ Schedule[p] \in SUBSET Days /\ Days = 1 .. LastDay
      /\ MaxCatchUp \in Nat \ {0} /\ EndOf[p] \in Nat
      /\ next \in 1 .. LastDay + 1 /\ asOf \in Nat
  BY RecurringAssumption DEF RecurringAssumption, Days, Profile
<1>2. /\ due \in SUBSET Days
      /\ \A d \in due : d \in Schedule[p] /\ next <= d /\ d <= asOf
      /\ \A d \in Schedule[p] : next <= d /\ d <= asOf /\ d <= EndOf[p] => d \in due
  BY <1>1 DEF DueDays
<1>3. handled \in SUBSET due /\ handled # {}
  BY <1>1, <1>2, OldestFewIsPrefix
<1>4. last \in handled /\ \A e \in handled : e <= last
  <2>1. handled \in SUBSET Days
    BY <1>2, <1>3
  <2> HIDE DEF handled
  <2> QED
    BY <2>1, <1>3, LastOfIsLast
<1>5. last \in 1 .. LastDay /\ next <= last /\ last <= asOf
  BY <1>1, <1>2, <1>3, <1>4
<1>6. NextRunDate(p, asOf) = FirstFrom(p, last + 1)
  BY DEF NextRunDate
<1> HIDE DEF last
<1>7. /\ NextRunDate(p, asOf) \in 1 .. LastDay + 1
      /\ last + 1 <= NextRunDate(p, asOf)
      /\ \A e \in Schedule[p] : e >= last + 1 => NextRunDate(p, asOf) <= e
  BY <1>1, <1>5, <1>6, FirstFromIsFirst
<1>8. next < NextRunDate(p, asOf)
  BY <1>1, <1>5, <1>7
<1>9. ASSUME NEW d \in Materialized(p, asOf)
      PROVE  d \in Days /\ d < NextRunDate(p, asOf)
  <2>1. d \in handled
    <3>1. CASE CatchUp[p] = "ALL"
      BY <3>1 DEF Materialized
    <3>2. CASE CatchUp[p] # "ALL"
      <4>1. d = LastOf(due)
        BY <3>2 DEF Materialized
      <4> QED
        BY <4>1, <3>2, <1>2, LastOfIsLast
    <3> QED
      BY <3>1, <3>2
  <2>2. d \in Days /\ d <= last
    BY <2>1, <1>2, <1>3, <1>4
  <2> QED
    BY <2>2, <1>1, <1>5, <1>7
<1>10. ASSUME CatchUp[p] = "ALL", NEW d \in Schedule[p],
              next <= d, d < NextRunDate(p, asOf), d <= EndOf[p]
       PROVE  d \in Materialized(p, asOf)
  <2>1. d \in Nat /\ ~(d >= last + 1)
    BY <1>10, <1>1, <1>7
  <2>2. d <= last /\ d <= asOf
    BY <2>1, <1>1, <1>5
  <2>3. d \in due
    BY <2>2, <1>10, <1>2
  <2>4. last \in OldestFew(due, MaxCatchUp)
    BY <1>4, <1>10
  <2>5. d \in OldestFew(due, MaxCatchUp)
    BY <2>2, <2>3, <2>4, <1>1, <1>2, OldestFewIsPrefix
  <2> QED
    BY <2>5, <1>10 DEF Materialized
<1> QED
  BY <1>7, <1>8, <1>9, <1>10

-----------------------------------------------------------------------------
(* The rows the statements write.                                            *)

LEMMA ClaimedRow ==
    ASSUME NEW row \in Row, NEW name \in Names
    PROVE  /\ Claimed(row, name) \in Row
           /\ Claimed(row, name).status = "PROCESSING"
           /\ Claimed(row, name).attempts = row.attempts + 1
           /\ Claimed(row, name).owner = name
           /\ Claimed(row, name).lease = "live"
<1>1. row.attempts + 1 \in Nat
  BY DEF Row
<1>2. Claimed(row, name) \in Row
  BY <1>1 DEF Claimed, Row, OccStatus
<1> QED
  BY <1>2 DEF Claimed, Row

LEMMA SucceededRow ==
    ASSUME NEW row \in Row
    PROVE  /\ Succeeded(row) \in Row
           /\ Succeeded(row).status = "SUCCEEDED"
           /\ Succeeded(row).attempts = row.attempts
           /\ Succeeded(row).owner = NoName
BY DEF Succeeded, Row, OccStatus

LEMMA FailedRow ==
    ASSUME NEW row \in Row, NEW n \in Nat
    PROVE  /\ AfterFailure(row, n) \in Row
           /\ AfterFailure(row, n).status \in {"RETRY", "QUARANTINED"}
           /\ AfterFailure(row, n).status = "QUARANTINED" => n >= MaxAttempts
           /\ AfterFailure(row, n).attempts = row.attempts
           /\ AfterFailure(row, n).owner = NoName
<1>1. CASE n >= MaxAttempts
  BY <1>1 DEF AfterFailure, Row, OccStatus
<1>2. CASE ~(n >= MaxAttempts)
  BY <1>2 DEF AfterFailure, Row, OccStatus
<1> QED
  BY <1>1, <1>2

LEMMA RequeuedRow ==
    ASSUME NEW row \in Row
    PROVE  /\ Requeued(row) \in Row
           /\ Requeued(row).status = "RETRY"
           /\ Requeued(row).owner = NoName
BY DEF Requeued, Row, OccStatus

\* An occurrence of the table as materialisation leaves it: untouched, or new.
LEMMA PlannedRow ==
    ASSUME occs \in [Occurrences -> Row], NEW S, NEW asOf, NEW o \in Occurrences
    PROVE  /\ WithMaterialized(S, asOf)[o] \in Row
           /\ WithMaterialized(S, asOf)[o].attempts = occs[o].attempts
           /\ WithMaterialized(S, asOf)[o].owner = occs[o].owner
           /\ \/ WithMaterialized(S, asOf)[o] = occs[o]
              \/ /\ occs[o].status = "ABSENT"
                 /\ WithMaterialized(S, asOf)[o].status = "PENDING"
                 /\ o[1] \in S /\ o[2] \in Materialized(o[1], asOf)
           /\ (o[1] \in S /\ o[2] \in Materialized(o[1], asOf))
                 => WithMaterialized(S, asOf)[o].status # "ABSENT"
<1> DEFINE new == [occs[o] EXCEPT !.status = "PENDING", !.due = TRUE]
<1>1. occs[o] \in Row
  OBVIOUS
<1>2. /\ new \in Row /\ new.status = "PENDING"
      /\ new.attempts = occs[o].attempts /\ new.owner = occs[o].owner
  BY <1>1 DEF Row, OccStatus
<1>3. WithMaterialized(S, asOf)[o] =
        IF /\ o[1] \in S /\ o[2] \in Materialized(o[1], asOf)
           /\ occs[o].status = "ABSENT"
        THEN new ELSE occs[o]
  BY DEF WithMaterialized
<1> HIDE DEF new
<1> QED
  BY <1>1, <1>2, <1>3

LEMMA AdvancedProfiles ==
    ASSUME profiles \in [Profiles -> Profile], NEW asOf \in Days,
           NEW S \in SUBSET DueProfiles(asOf)
    PROVE  Advanced(S, asOf) \in [Profiles -> Profile]
<1>1. ASSUME NEW p \in Profiles, p \in S
      PROVE  [profiles[p] EXCEPT !.next = NextRunDate(p, asOf)] \in Profile
  <2>1. DueDays(p, asOf) # {} /\ profiles[p] \in Profile
    BY <1>1 DEF DueProfiles
  <2>2. NextRunDate(p, asOf) \in 1 .. LastDay + 1
    BY <2>1, Advance
  <2> QED
    BY <2>1, <2>2 DEF Profile
<1> QED
  BY <1>1 DEF Advanced

-----------------------------------------------------------------------------
(* Types.                                                                    *)

LEMMA InitType == Init => TypeOK
<1> SUFFICES ASSUME Init PROVE TypeOK
  OBVIOUS
<1>1. \A p \in Profiles : FirstFrom(p, 1) \in 1 .. LastDay + 1
  BY FirstFromIsFirst
<1>2. profiles \in [Profiles -> Profile]
  BY <1>1 DEF Init, Profile
<1>3. occs \in [Occurrences -> Row]
  BY DEF Init, Row, OccStatus
<1> QED
  BY <1>2, <1>3 DEF Init, TypeOK

\* What is left of a run's claims keeps the types of its variables.
LEMMA GoOnType ==
    ASSUME TypeOK, NEW r \in Runs, NEW rest \in SUBSET Claims, GoOn(r, rest)
    PROVE  /\ held' \in [Runs -> SUBSET Claims]
           /\ cur' \in [Runs -> Claims \cup {NoClaim}]
           /\ pc' \in [Runs -> {"idle", "claiming", "executing", "failing"}]
           /\ \A s \in Runs : pc'[s] = "failing" => cur'[s] \in Claims
BY DEF TypeOK, GoOn

LEMMA ToFailingType ==
    ASSUME TypeOK, NEW r \in Runs, NEW c \in held[r],
           pc' = [pc EXCEPT ![r] = "failing"],
           cur' = [cur EXCEPT ![r] = c],
           held' = [held EXCEPT ![r] = @ \ {c}]
    PROVE  /\ held' \in [Runs -> SUBSET Claims]
           /\ cur' \in [Runs -> Claims \cup {NoClaim}]
           /\ pc' \in [Runs -> {"idle", "claiming", "executing", "failing"}]
           /\ \A s \in Runs : pc'[s] = "failing" => cur'[s] \in Claims
BY DEF TypeOK

LEMMA PostType ==
    ASSUME TypeOK, NEW o \in Occurrences, PostDocument(o)
    PROVE  occs' \in [Occurrences -> Row] /\ documents' \in [Occurrences -> Nat]
<1>1. Succeeded(occs[o]) \in Row
  BY SucceededRow DEF TypeOK
<1> QED
  BY <1>1 DEF TypeOK, PostDocument

LEMMA NextType == TypeOK /\ [Next]_vars => TypeOK'
<1> SUFFICES ASSUME TypeOK, [Next]_vars PROVE TypeOK'
  OBVIOUS
<1> USE RecurringAssumption DEF RecurringAssumption
<1>1. ASSUME NEW r \in Runs, NEW asOf \in Days, NEW S \in SUBSET DueProfiles(asOf),
             Materialize(r, asOf, S)
      PROVE  TypeOK'
  <2>1. occs' \in [Occurrences -> Row]
    <3>1. \A o \in Occurrences : WithMaterialized(S, asOf)[o] \in Row
      BY PlannedRow DEF TypeOK
    <3> QED
      BY <1>1, <3>1 DEF Materialize, WithMaterialized
  <2>2. profiles' \in [Profiles -> Profile]
    BY <1>1, AdvancedProfiles DEF TypeOK, Materialize
  <2> QED
    BY <1>1, <2>1, <2>2 DEF TypeOK, Materialize, history, bounds
<1>2. ASSUME NEW r \in Runs, NEW C \in Batches(occs), Claim(r, C)
      PROVE  TypeOK'
  <2>1. C \in SUBSET Occurrences
    BY DEF Batches, Claimable
  <2>2. \A o \in Occurrences : Claimed(occs[o], WorkerOf[r]) \in Row
    BY ClaimedRow DEF TypeOK
  <2>3. occs' \in [Occurrences -> Row]
    BY <1>2, <2>2 DEF Claim, TypeOK
  <2>4. \A o \in C : [occ |-> o, attempts |-> occs[o].attempts + 1] \in Claims
    BY <2>1 DEF TypeOK, Row, Claims
  <2> QED
    BY <1>2, <2>3, <2>4 DEF TypeOK, Claim, history, bounds
<1>3. ASSUME NEW r \in Runs, NEW c \in held[r], FindsClaimLost(r, c) PROVE TypeOK'
  <2>1. held[r] \ {c} \in SUBSET Claims
    BY DEF TypeOK
  <2> QED
    BY <1>3, <2>1, GoOnType DEF FindsClaimLost, TypeOK, history, bounds
<1>4. ASSUME NEW r \in Runs, NEW c \in held[r], ExecuteClaim(r, c) PROVE TypeOK'
  <2>1. held[r] \ {c} \in SUBSET Claims /\ c.occ \in Occurrences
    BY DEF TypeOK, Claims
  <2> QED
    BY <1>4, <2>1, GoOnType, PostType DEF ExecuteClaim, TypeOK, history, bounds
<1>5. ASSUME NEW r \in Runs, NEW c \in held[r], ExecutionFails(r, c) PROVE TypeOK'
  BY <1>5, ToFailingType DEF ExecutionFails, TypeOK, history, bounds
<1>6. ASSUME NEW r \in Runs, NEW c \in held[r], CommitUnacknowledged(r, c) PROVE TypeOK'
  <2>1. c.occ \in Occurrences
    BY DEF TypeOK, Claims
  <2> QED
    BY <1>6, <2>1, ToFailingType, PostType DEF CommitUnacknowledged, TypeOK, history
<1>7. ASSUME NEW r \in Runs, RecordFailure(r) PROVE TypeOK'
  <2>1. held[r] \in SUBSET Claims /\ cur[r] \in Claims
    BY <1>7 DEF TypeOK, RecordFailure
  <2>2. AfterFailure(occs[cur[r].occ], cur[r].attempts) \in Row
    BY <2>1, FailedRow DEF TypeOK, Claims
  <2>3. occs' \in [Occurrences -> Row]
    BY <1>7, <2>1, <2>2 DEF RecordFailure, TypeOK
  <2> QED
    BY <1>7, <2>1, <2>3, GoOnType DEF RecordFailure, TypeOK, history, bounds
<1>8. ASSUME NEW r \in Runs, FailureUnrecorded(r) \/ Crash(r) PROVE TypeOK'
  <2>1. held[r] \in SUBSET Claims /\ {} \in SUBSET Claims
    BY DEF TypeOK
  <2> QED
    BY <1>8, <2>1, GoOnType DEF FailureUnrecorded, Crash, TypeOK, history
<1>9. ASSUME NEW p \in Profiles, CreateProfile(p) \/ PauseProfile(p) \/ ResumeProfile(p)
      PROVE  TypeOK'
  <2>1. \A st \in {"ACTIVE", "PAUSED"} : [profiles[p] EXCEPT !.status = st] \in Profile
    BY DEF TypeOK, Profile
  <2>2. profiles' \in [Profiles -> Profile]
    BY <1>9, <2>1 DEF CreateProfile, PauseProfile, ResumeProfile, TypeOK
  <2> QED
    BY <1>9, <2>2 DEF CreateProfile, PauseProfile, ResumeProfile, TypeOK, runVars, history, bounds
<1>10. ASSUME NEW o \in Occurrences, RetryQuarantined(o) PROVE TypeOK'
  <2>1. Requeued(occs[o]) \in Row
    BY RequeuedRow DEF TypeOK
  <2> QED
    BY <1>10, <2>1 DEF RetryQuarantined, TypeOK, runVars
<1>11. ASSUME NEW asOf \in Days, NEW S \in SUBSET DueProfiles(asOf), NEW C, NEW done,
              NEW failed, RunByHand(asOf, S, C, done, failed)
       PROVE  TypeOK'
  <2> DEFINE table == WithMaterialized(S, asOf)
  <2>1. \A o \in Occurrences : table[o] \in Row
    BY PlannedRow DEF TypeOK
  <2> HIDE DEF table
  <2>2. \A o \in Occurrences :
          /\ Claimed(table[o], ManualName) \in Row
          /\ table[o].attempts + 1 \in Nat
    BY <2>1, ClaimedRow DEF Row
  <2>3. \A o \in Occurrences :
          /\ Succeeded(Claimed(table[o], ManualName)) \in Row
          /\ AfterFailure(Claimed(table[o], ManualName), table[o].attempts + 1) \in Row
    BY <2>2, SucceededRow, FailedRow
  <2>4. occs' \in [Occurrences -> Row]
    BY <1>11, <2>1, <2>2, <2>3 DEF RunByHand, table
  <2>5. documents' \in [Occurrences -> Nat]
    BY <1>11 DEF RunByHand, TypeOK
  <2>6. profiles' \in [Profiles -> Profile]
    BY <1>11, AdvancedProfiles DEF RunByHand, TypeOK
  <2> QED
    BY <1>11, <2>4, <2>5, <2>6 DEF RunByHand, TypeOK, runVars, history, bounds
<1>12. ASSUME NEW o \in Occurrences, Expire(o) PROVE TypeOK'
  <2>1. [occs[o] EXCEPT !.lease = "expired"] \in Row
    BY DEF TypeOK, Row
  <2>2. occs' \in [Occurrences -> Row]
    BY <1>12, <2>1 DEF Expire, TypeOK
  <2>3. early' \in Nat /\ lapses' \in [Occurrences -> Nat]
    BY <1>12 DEF Expire, TypeOK
  <2> QED
    BY <1>12, <2>2, <2>3 DEF Expire, TypeOK, runVars
<1>13. ASSUME NEW o \in Occurrences, BackoffOver(o) PROVE TypeOK'
  <2>1. [occs[o] EXCEPT !.due = TRUE] \in Row
    BY DEF TypeOK, Row
  <2>2. occs' \in [Occurrences -> Row]
    BY <1>13, <2>1 DEF BackoffOver, TypeOK
  <2> QED
    BY <1>13, <2>2 DEF BackoffOver, TypeOK, runVars, history, bounds
<1>14. CASE UNCHANGED vars
  BY <1>14 DEF vars, TypeOK, history
<1> QED
  BY <1>1, <1>2, <1>3, <1>4, <1>5, <1>6, <1>7, <1>8, <1>9, <1>10, <1>11, <1>12, <1>13,
     <1>14 DEF Next, RunStep, ExecuteStep, Disturbance, UserStep, ClockStep

\* Profiles, occurrences, documents and the claims of the runs are well typed.
THEOREM TypeCorrect == Spec => []TypeOK
BY InitType, NextType, PTL DEF Spec

-----------------------------------------------------------------------------
(* One document for each occurrence.                                         *)

Unposted == {"ABSENT", "PENDING", "RETRY", "PROCESSING"}

\* All that a step does to the status of an occurrence and to its documents.
Moves(o) ==
    \/ /\ occs'[o].status = occs[o].status
       /\ documents'[o] = documents[o]
    \/ /\ occs[o].status \in Unposted
       /\ occs'[o].status \in {"PENDING", "RETRY", "PROCESSING", "QUARANTINED"}
       /\ documents'[o] = documents[o]
    \/ /\ occs[o].status \in Unposted
       /\ occs'[o].status = "SUCCEEDED"
       /\ documents[o] = 0 /\ documents'[o] = 1
    \/ /\ occs[o].status = "QUARANTINED"
       /\ occs'[o].status = "RETRY"
       /\ documents'[o] = documents[o]

LEMMA PostMoves ==
    ASSUME TypeOK, NEW c \in Occurrences, NEW name, CanPost(c, name), PostDocument(c),
           NEW o \in Occurrences
    PROVE  Moves(o)
<1>1. occs[o] \in Row /\ documents[o] \in Nat
  BY DEF TypeOK
<1>2. CASE o = c
  <2>1. occs'[o] = Succeeded(occs[o]) /\ documents'[o] = documents[o] + 1
    BY <1>2 DEF PostDocument, TypeOK
  <2>2. occs[o].status = "PROCESSING" /\ documents[o] = 0
    BY <1>2 DEF CanPost, Owns
  <2> QED
    BY <1>1, <2>1, <2>2, SucceededRow DEF Moves, Unposted
<1>3. CASE o # c
  BY <1>3 DEF PostDocument, TypeOK, Moves
<1> QED
  BY <1>2, <1>3

\* A row of a table that may be claimed is open.
LEMMA BatchOpen ==
    ASSUME NEW table, NEW C \in Batches(table), NEW o \in C
    PROVE  o \in Occurrences /\ table[o].status \in {"PENDING", "RETRY", "PROCESSING"}
BY DEF Batches, Claimable

LEMMA NextMoves ==
    ASSUME TypeOK, [Next]_vars, NEW o \in Occurrences
    PROVE  Moves(o)
<1> USE RecurringAssumption DEF RecurringAssumption
<1>0. occs[o] \in Row
  BY DEF TypeOK
<1>1. ASSUME NEW r \in Runs, NEW asOf \in Days, NEW S \in SUBSET DueProfiles(asOf),
             Materialize(r, asOf, S)
      PROVE  Moves(o)
  BY <1>1, PlannedRow DEF Materialize, TypeOK, Moves, Unposted
<1>2. ASSUME NEW r \in Runs, NEW C \in Batches(occs), Claim(r, C)
      PROVE  Moves(o)
  <2>1. CASE o \in C
    <3>1. occs'[o] = Claimed(occs[o], WorkerOf[r]) /\ documents' = documents
      BY <1>2, <2>1 DEF Claim
    <3> QED
      BY <1>0, <2>1, <3>1, ClaimedRow, BatchOpen DEF Moves, Unposted
  <2>2. CASE o \notin C
    BY <1>2, <2>2 DEF Claim, Moves
  <2> QED
    BY <2>1, <2>2
<1>3. ASSUME NEW r \in Runs, NEW c \in held[r], ExecuteClaim(r, c) \/ CommitUnacknowledged(r, c)
      PROVE  Moves(o)
  <2>1. c.occ \in Occurrences
    BY DEF TypeOK, Claims
  <2> QED
    BY <1>3, <2>1, PostMoves DEF ExecuteClaim, CommitUnacknowledged
<1>4. ASSUME NEW r \in Runs, RecordFailure(r) PROVE Moves(o)
  <2>1. cur[r] \in Claims /\ cur[r].occ \in Occurrences /\ cur[r].attempts \in Nat
    BY <1>4 DEF RecordFailure, TypeOK, Claims
  <2>2. documents' = documents
    BY <1>4 DEF RecordFailure
  <2>3. CASE o = cur[r].occ /\ Owns(occs[o], WorkerOf[r]) /\ cur[r].attempts <= DelayCap
    <3>1. occs'[o] = AfterFailure(occs[o], cur[r].attempts)
      BY <1>4, <2>3 DEF RecordFailure, TypeOK
    <3>2. occs'[o].status \in {"RETRY", "QUARANTINED"}
      BY <1>0, <2>1, <3>1, FailedRow
    <3>3. occs[o].status = "PROCESSING"
      BY <2>3 DEF Owns
    <3> QED
      BY <2>2, <3>2, <3>3 DEF Moves, Unposted
  <2>4. CASE ~(o = cur[r].occ /\ Owns(occs[o], WorkerOf[r]) /\ cur[r].attempts <= DelayCap)
    <3>1. occs'[o] = occs[o]
      BY <1>4, <2>1, <2>4 DEF RecordFailure, TypeOK
    <3> QED
      BY <2>2, <3>1 DEF Moves
  <2> QED
    BY <2>3, <2>4
<1>5. ASSUME NEW q \in Occurrences, RetryQuarantined(q) PROVE Moves(o)
  <2>1. CASE o = q
    BY <1>0, <1>5, <2>1, RequeuedRow DEF RetryQuarantined, TypeOK, Moves
  <2>2. CASE o # q
    BY <1>5, <2>2 DEF RetryQuarantined, TypeOK, Moves
  <2> QED
    BY <2>1, <2>2
<1>6. ASSUME NEW asOf \in Days, NEW S \in SUBSET DueProfiles(asOf),
             NEW C \in Batches(WithMaterialized(S, asOf)), NEW done \in SUBSET C,
             NEW failed \in SUBSET (C \ done), RunByHand(asOf, S, C, done, failed)
      PROVE  Moves(o)
  <2> DEFINE table == WithMaterialized(S, asOf)
             taken == Claimed(table[o], ManualName)
  <2>1. /\ table[o] \in Row
        /\ table[o] = occs[o] \/ (occs[o].status = "ABSENT" /\ table[o].status = "PENDING")
    BY PlannedRow DEF TypeOK
  <2>2. o \in C => table[o].status \in {"PENDING", "RETRY", "PROCESSING"}
    BY BatchOpen
  <2> HIDE DEF table
  <2>3. taken \in Row /\ taken.status = "PROCESSING" /\ table[o].attempts + 1 \in Nat
    BY <2>1, ClaimedRow DEF Row
  <2> HIDE DEF taken
  <2>4. CASE o \in done
    <3>1. /\ occs'[o] = Succeeded(taken) /\ documents[o] = 0
          /\ documents'[o] = documents[o] + 1
      BY <1>6, <2>4 DEF RunByHand, table, taken
    <3> QED
      BY <2>1, <2>2, <2>3, <2>4, <3>1, SucceededRow DEF Moves, Unposted
  <2>5. CASE o \in failed
    <3>1. occs'[o] = AfterFailure(taken, table[o].attempts + 1) /\ documents'[o] = documents[o]
      BY <1>6, <2>5 DEF RunByHand, table, taken
    <3> QED
      BY <2>1, <2>2, <2>3, <2>5, <3>1, FailedRow DEF Moves, Unposted
  <2>6. CASE o \in C \ (done \cup failed)
    <3>1. occs'[o] = taken /\ documents'[o] = documents[o]
      BY <1>6, <2>6 DEF RunByHand, table, taken
    <3> QED
      BY <2>1, <2>2, <2>3, <2>6, <3>1 DEF Moves, Unposted
  <2>7. CASE o \notin C
    <3>1. occs'[o] = table[o] /\ documents'[o] = documents[o]
      BY <1>6, <2>7 DEF RunByHand, table
    <3> QED
      BY <2>1, <3>1 DEF Moves, Unposted
  <2> QED
    BY <2>4, <2>5, <2>6, <2>7
<1>7. ASSUME NEW q \in Occurrences, Expire(q) \/ BackoffOver(q) PROVE Moves(o)
  <2>1. CASE o = q
    <3>1. \/ occs'[o] = [occs[o] EXCEPT !.lease = "expired"]
          \/ occs'[o] = [occs[o] EXCEPT !.due = TRUE]
      BY <1>7, <2>1 DEF Expire, BackoffOver, TypeOK
    <3>2. occs'[o].status = occs[o].status
      BY <1>0, <3>1 DEF Row
    <3> QED
      BY <1>7, <3>2 DEF Expire, BackoffOver, Moves
  <2>2. CASE o # q
    BY <1>7, <2>2 DEF Expire, BackoffOver, TypeOK, Moves
  <2> QED
    BY <2>1, <2>2
<1>8. ASSUME UNCHANGED <<occs, documents>> PROVE Moves(o)
  BY <1>8 DEF Moves
<1>9. ASSUME NEW r \in Runs,
             \/ \E c \in held[r] : FindsClaimLost(r, c) \/ ExecutionFails(r, c)
             \/ FailureUnrecorded(r) \/ Crash(r)
      PROVE  UNCHANGED <<occs, documents>>
  BY <1>9 DEF FindsClaimLost, ExecutionFails, FailureUnrecorded, Crash
<1>10. ASSUME NEW p \in Profiles, CreateProfile(p) \/ PauseProfile(p) \/ ResumeProfile(p)
       PROVE  UNCHANGED <<occs, documents>>
  BY <1>10 DEF CreateProfile, PauseProfile, ResumeProfile
<1>11. UNCHANGED vars => UNCHANGED <<occs, documents>>
  BY DEF vars
<1> QED
  BY <1>1, <1>2, <1>3, <1>4, <1>5, <1>6, <1>7, <1>8, <1>9, <1>10, <1>11
     DEF Next, RunStep, ExecuteStep, Disturbance, UserStep, ClockStep

LEMMA NextPostedOnce == TypeOK /\ PostedOnce /\ [Next]_vars => PostedOnce'
<1> SUFFICES ASSUME TypeOK, PostedOnce, [Next]_vars, NEW o \in Occurrences
             PROVE  documents'[o] = IF occs'[o].status = "SUCCEEDED" THEN 1 ELSE 0
  BY DEF PostedOnce
<1>1. Moves(o)
  BY NextMoves
<1>2. documents[o] = IF occs[o].status = "SUCCEEDED" THEN 1 ELSE 0
  BY DEF PostedOnce
<1> QED
  BY <1>1, <1>2 DEF Moves, Unposted

\* A document is posted for an occurrence exactly when it is marked SUCCEEDED,
\* and then exactly one, for any number of runs under any names.
THEOREM PostsExactlyOnce == Spec => []PostedOnce
<1>1. Init => PostedOnce
  BY DEF Init, PostedOnce
<1> QED
  BY <1>1, InitType, NextType, NextPostedOnce, PTL DEF Spec

-----------------------------------------------------------------------------
(* The refinement.                                                           *)

\* Recurring transactions implement OccurrenceLedger: every step posts, opens or
\* puts aside occurrences as the ledger allows, or leaves them alone.
THEOREM ImplementsLedger == Spec => LedgerSpec
<1>1. Init => Ledger!Init
  BY DEF Init, Ledger!Init, StageOf
<1>2. TypeOK /\ TypeOK' /\ [Next]_vars => Ledger!Next
  <2> SUFFICES ASSUME TypeOK, TypeOK', [Next]_vars PROVE Ledger!Next
    OBVIOUS
  <2>1. /\ \A o \in Occurrences : occs[o].status \in OccStatus /\ occs'[o].status \in OccStatus
        /\ documents \in [Occurrences -> Nat] /\ documents' \in [Occurrences -> Nat]
    BY DEF TypeOK, Row
  <2>2. \A o \in Occurrences : StageOf(occs'[o].status) \in Ledger!Stages
    BY <2>1 DEF StageOf, Ledger!Stages, OccStatus
  <2>3. ASSUME NEW o \in Occurrences
        PROVE  Ledger!Opens(o) \/ Ledger!Posts(o) \/ Ledger!PutsAside(o) \/ Ledger!Stays(o)
    <3>1. Moves(o)
      BY NextMoves
    <3> QED
      BY <2>1, <3>1 DEF Moves, Unposted, StageOf, OccStatus, Ledger!Opens, Ledger!Posts,
         Ledger!PutsAside, Ledger!Stays
  <2> QED
    BY <2>1, <2>2, <2>3 DEF Ledger!Next
<1> QED
  BY <1>1, <1>2, TypeCorrect, PTL DEF Spec, LedgerSpec, Ledger!Spec

-----------------------------------------------------------------------------
(* No day of an ALL schedule is skipped.                                     *)

LEMMA InitNoDaySkipped == Init => NoDaySkipped
<1> SUFFICES ASSUME Init, NEW o \in Occurrences
             PROVE  ~(o[2] \in Schedule[o[1]] /\ o[2] < profiles[o[1]].next)
  BY DEF Init, NoDaySkipped
<1>1. o[1] \in Profiles /\ o[2] \in Days
  BY DEF Occurrences
<1>2. profiles[o[1]].next = FirstFrom(o[1], 1)
  BY <1>1 DEF Init
<1>3. FirstFrom(o[1], 1) \in 1 .. LastDay + 1
  BY <1>1, FirstFromIsFirst
<1>4. o[2] \in Nat /\ o[2] >= 1 /\ LastDay \in Nat
  BY <1>1, RecurringAssumption DEF RecurringAssumption, Days
<1>5. o[2] \in Schedule[o[1]] => FirstFrom(o[1], 1) <= o[2]
  BY <1>1, <1>4, FirstFromIsFirst
<1> QED
  BY <1>2, <1>3, <1>4, <1>5

\* What NoDaySkipped says of one occurrence, given its row and its profile.
DayKept(o, row, profile) ==
    /\ row.status # "ABSENT" => o[2] < profile.next
    /\ (CatchUp[o[1]] = "ALL" /\ o[2] \in Schedule[o[1]] /\ o[2] < profile.next
          /\ o[2] <= EndOf[o[1]]) => row.status # "ABSENT"

\* Materialising keeps it, for the profiles in S and the others.
LEMMA MaterializedKept ==
    ASSUME TypeOK, NoDaySkipped, NEW asOf \in Days, NEW S \in SUBSET DueProfiles(asOf),
           NEW o \in Occurrences
    PROVE  DayKept(o, WithMaterialized(S, asOf)[o], Advanced(S, asOf)[o[1]])
<1> DEFINE p == o[1]
           d == o[2]
           new == WithMaterialized(S, asOf)[o]
<1>1. p \in Profiles /\ d \in Nat /\ LastDay \in Nat /\ profiles[p] \in Profile
  BY RecurringAssumption DEF RecurringAssumption, Occurrences, Days, TypeOK
<1>2. DayKept(o, occs[o], profiles[p])
  BY DEF NoDaySkipped, DayKept
<1>3. /\ \/ new = occs[o]
         \/ /\ occs[o].status = "ABSENT" /\ new.status = "PENDING"
            /\ p \in S /\ d \in Materialized(p, asOf)
      /\ (p \in S /\ d \in Materialized(p, asOf)) => new.status # "ABSENT"
  BY PlannedRow DEF TypeOK
<1> SUFFICES DayKept(o, new, Advanced(S, asOf)[p])
  OBVIOUS
<1> HIDE DEF new
<1>4. CASE p \notin S
  BY <1>1, <1>2, <1>3, <1>4 DEF Advanced, DayKept
<1>5. CASE p \in S
  <2>1. DueDays(p, asOf) # {}
    BY <1>5 DEF DueProfiles
  <2>2. /\ NextRunDate(p, asOf) \in 1 .. LastDay + 1
        /\ profiles[p].next < NextRunDate(p, asOf)
        /\ d \in Materialized(p, asOf) => d < NextRunDate(p, asOf)
        /\ (CatchUp[p] = "ALL" /\ d \in Schedule[p] /\ profiles[p].next <= d
              /\ d < NextRunDate(p, asOf) /\ d <= EndOf[p]) => d \in Materialized(p, asOf)
    BY <1>1, <2>1, Advance
  <2>3. /\ profiles[p].next \in Nat /\ NextRunDate(p, asOf) \in Nat
        /\ Advanced(S, asOf)[p].next = NextRunDate(p, asOf)
    BY <1>1, <1>5, <2>2 DEF Advanced, Profile
  <2>4. new.status # "ABSENT" => d < NextRunDate(p, asOf)
    <3>1. CASE new = occs[o]
      <4>1. new.status # "ABSENT" => d < profiles[p].next
        BY <1>2, <3>1 DEF DayKept
      <4> QED
        BY <4>1, <1>1, <2>2, <2>3
    <3>2. CASE d \in Materialized(p, asOf)
      BY <2>2, <3>2
    <3> QED
      BY <1>3, <3>1, <3>2
  <2>5. ASSUME CatchUp[p] = "ALL", d \in Schedule[p], d < NextRunDate(p, asOf), d <= EndOf[p]
        PROVE  new.status # "ABSENT"
    <3>1. CASE d < profiles[p].next
      <4>1. occs[o].status # "ABSENT"
        BY <1>2, <2>5, <3>1 DEF DayKept
      <4> QED
        BY <4>1, <1>3
    <3>2. CASE profiles[p].next <= d
      BY <1>3, <1>5, <2>2, <2>5, <3>2
    <3> QED
      BY <1>1, <2>3, <3>1, <3>2
  <2> QED
    BY <2>3, <2>4, <2>5 DEF DayKept
<1> QED
  BY <1>4, <1>5

LEMMA NextNoDaySkipped ==
    ASSUME TypeOK, NoDaySkipped, [Next]_vars
    PROVE  NoDaySkipped'
<1> SUFFICES ASSUME NEW o \in Occurrences
             PROVE  DayKept(o, occs'[o], profiles'[o[1]])
  BY DEF NoDaySkipped, DayKept
<1>0. DayKept(o, occs[o], profiles[o[1]]) /\ o[1] \in Profiles
  BY DEF NoDaySkipped, DayKept, Occurrences
<1>1. ASSUME NEW r \in Runs, NEW asOf \in Days, NEW S \in SUBSET DueProfiles(asOf),
             Materialize(r, asOf, S)
      PROVE  DayKept(o, occs'[o], profiles'[o[1]])
  BY <1>1, MaterializedKept DEF Materialize
<1>2. ASSUME NEW asOf \in Days, NEW S \in SUBSET DueProfiles(asOf),
             NEW C \in Batches(WithMaterialized(S, asOf)), NEW done \in SUBSET C,
             NEW failed \in SUBSET (C \ done), RunByHand(asOf, S, C, done, failed)
      PROVE  DayKept(o, occs'[o], profiles'[o[1]])
  <2> DEFINE table == WithMaterialized(S, asOf)
  <2>1. DayKept(o, table[o], Advanced(S, asOf)[o[1]])
    BY MaterializedKept
  <2>2. o \in C => table[o].status # "ABSENT"
    BY BatchOpen
  <2>3. occs'[o].status # "ABSENT" <=> table[o].status # "ABSENT"
    <3>1. table[o] \in Row
      BY PlannedRow DEF TypeOK
    <3> HIDE DEF table
    <3>2. /\ Claimed(table[o], ManualName) \in Row
          /\ Claimed(table[o], ManualName).status = "PROCESSING"
          /\ table[o].attempts + 1 \in Nat
      BY <3>1, ClaimedRow, RecurringAssumption DEF RecurringAssumption, Row
    <3>3. o \in done => occs'[o].status = "SUCCEEDED"
      BY <1>2, <3>2, SucceededRow DEF RunByHand, table
    <3>4. o \in failed => occs'[o].status \in {"RETRY", "QUARANTINED"}
      BY <1>2, <3>2, FailedRow DEF RunByHand, table
    <3>5. o \in C \ (done \cup failed) => occs'[o].status = "PROCESSING"
      BY <1>2, <3>2 DEF RunByHand, table
    <3>6. o \notin C => occs'[o] = table[o]
      BY <1>2 DEF RunByHand, table
    <3> QED
      BY <2>2, <3>3, <3>4, <3>5, <3>6
  <2>4. profiles' = Advanced(S, asOf)
    BY <1>2 DEF RunByHand
  <2> HIDE DEF table
  <2> QED
    BY <2>1, <2>3, <2>4 DEF DayKept
<1>3. ASSUME NEW p \in Profiles, CreateProfile(p) \/ PauseProfile(p) \/ ResumeProfile(p)
      PROVE  DayKept(o, occs'[o], profiles'[o[1]])
  <2>1. occs' = occs
    BY <1>3 DEF CreateProfile, PauseProfile, ResumeProfile
  <2>2. profiles'[o[1]].next = profiles[o[1]].next
    BY <1>0, <1>3 DEF CreateProfile, PauseProfile, ResumeProfile, TypeOK, Profile
  <2> QED
    BY <1>0, <2>1, <2>2 DEF DayKept
<1>4. ASSUME profiles' = profiles, occs'[o].status = "ABSENT" <=> occs[o].status = "ABSENT"
      PROVE  DayKept(o, occs'[o], profiles'[o[1]])
  BY <1>0, <1>4 DEF DayKept
<1>5. CASE profiles' = profiles /\ Moves(o) /\ occs[o].status # "ABSENT"
  BY <1>4, <1>5 DEF Moves, Unposted
<1>6. ASSUME profiles' = profiles, occs[o].status = "ABSENT",
             \/ \E r \in Runs :
                  \/ \E C \in Batches(occs) : Claim(r, C)
                  \/ \E c \in held[r] : ExecuteStep(r, c) \/ CommitUnacknowledged(r, c)
                  \/ RecordFailure(r) \/ FailureUnrecorded(r) \/ Crash(r)
             \/ \E q \in Occurrences : RetryQuarantined(q) \/ Expire(q) \/ BackoffOver(q)
             \/ UNCHANGED vars
      PROVE  occs'[o] = occs[o]
  <2>1. ASSUME NEW r \in Runs, NEW C \in Batches(occs), Claim(r, C)
        PROVE  occs'[o] = occs[o]
    BY <1>6, <2>1, BatchOpen DEF Claim
  <2>2. ASSUME NEW r \in Runs, NEW c \in held[r], ExecuteStep(r, c) \/ CommitUnacknowledged(r, c)
        PROVE  occs'[o] = occs[o]
    BY <1>6, <2>2 DEF ExecuteStep, FindsClaimLost, ExecuteClaim, ExecutionFails,
       CommitUnacknowledged, CanPost, Owns, PostDocument, TypeOK
  <2>3. ASSUME NEW r \in Runs, RecordFailure(r) PROVE occs'[o] = occs[o]
    BY <1>6, <2>3 DEF RecordFailure, Owns, TypeOK
  <2>4. ASSUME NEW q \in Occurrences, RetryQuarantined(q) \/ Expire(q) \/ BackoffOver(q)
        PROVE  occs'[o] = occs[o]
    BY <1>6, <2>4 DEF RetryQuarantined, Expire, BackoffOver, TypeOK
  <2>5. ASSUME NEW r \in Runs, FailureUnrecorded(r) \/ Crash(r) PROVE occs'[o] = occs[o]
    BY <2>5 DEF FailureUnrecorded, Crash
  <2> QED
    BY <1>6, <2>1, <2>2, <2>3, <2>4, <2>5 DEF vars
<1>7. CASE \/ \E r \in Runs :
                 \/ \E C \in Batches(occs) : Claim(r, C)
                 \/ \E c \in held[r] : ExecuteStep(r, c) \/ CommitUnacknowledged(r, c)
                 \/ RecordFailure(r) \/ FailureUnrecorded(r) \/ Crash(r)
           \/ \E q \in Occurrences : RetryQuarantined(q) \/ Expire(q) \/ BackoffOver(q)
           \/ UNCHANGED vars
  <2>1. profiles' = profiles
    BY <1>7 DEF Claim, ExecuteStep, FindsClaimLost, ExecuteClaim, ExecutionFails,
       CommitUnacknowledged, RecordFailure, FailureUnrecorded, Crash, RetryQuarantined,
       Expire, BackoffOver, vars
  <2> QED
    BY <1>4, <1>5, <1>6, <1>7, <2>1, NextMoves
<1> QED
  BY <1>1, <1>2, <1>3, <1>7 DEF Next, RunStep, Disturbance, UserStep, ClockStep

\* For any schedules, end dates, catch-up policies and asOf days: an occurrence
\* never lies ahead of next_run_date, and ALL leaves no day behind it out.
THEOREM SkipsNoDay == Spec => []NoDaySkipped
BY InitNoDaySkipped, NextNoDaySkipped, InitType, NextType, PTL DEF Spec

-----------------------------------------------------------------------------
(* What a step does to one occurrence and to the claims the runs hold of it. *)

\* No run gets a claim of the occurrence.
Shrinks(o) == \A r \in Runs : \A c \in Working(r)' : c.occ = o => c \in Working(r)

\* A claim may take the row.
Free(row) ==
    \/ row.status \in {"ABSENT", "PENDING", "RETRY"}
    \/ row.status = "PROCESSING" /\ row.lease = "expired"

RowStays(o) ==
    /\ occs'[o].status = occs[o].status
    /\ occs'[o].attempts = occs[o].attempts
    /\ occs'[o].lease = occs[o].lease
    /\ lapses'[o] = lapses[o]
    /\ Shrinks(o)

RowPlanned(o) ==
    /\ occs[o].status = "ABSENT"
    /\ occs'[o].status = "PENDING"
    /\ occs'[o].attempts = occs[o].attempts
    /\ lapses'[o] = lapses[o]
    /\ Shrinks(o)

RowTaken(o) ==
    /\ Free(occs[o])
    /\ occs'[o].status = "PROCESSING" /\ occs'[o].lease = "live"
    /\ occs'[o].attempts = occs[o].attempts + 1
    /\ lapses'[o] = lapses[o]
    /\ \E r \in Runs :
          /\ \A s \in Runs \ {r} : Working(s)' = Working(s)
          /\ \A c \in Working(r)' : c.occ = o => c.attempts = occs'[o].attempts

RowByHand(o) ==
    /\ Free(occs[o])
    /\ \/ occs'[o].status = "PROCESSING" /\ occs'[o].lease = "live"
       \/ occs'[o].status = "SUCCEEDED"
       \/ occs'[o].status = "RETRY" /\ occs'[o].attempts < MaxAttempts
       \/ occs'[o].status = "QUARANTINED" /\ occs'[o].attempts >= MaxAttempts
    /\ occs'[o].attempts = occs[o].attempts + 1
    /\ lapses'[o] = lapses[o]
    /\ Shrinks(o)

RowPosted(o) ==
    /\ occs[o].status = "PROCESSING" /\ occs[o].lease = "live"
    /\ occs'[o].status = "SUCCEEDED"
    /\ occs'[o].attempts = occs[o].attempts
    /\ lapses'[o] = lapses[o]
    /\ Shrinks(o)

RowFailed(o) ==
    /\ occs[o].status = "PROCESSING"
    /\ occs'[o].attempts = occs[o].attempts
    /\ lapses'[o] = lapses[o]
    /\ Shrinks(o)
    /\ \E r \in Runs :
          /\ pc[r] = "failing" /\ cur[r].occ = o
          /\ Working(r)' = held[r]
          /\ \/ occs'[o].status = "RETRY" /\ cur[r].attempts < MaxAttempts
             \/ occs'[o].status = "QUARANTINED" /\ cur[r].attempts >= MaxAttempts

RowRequeued(o) ==
    /\ occs[o].status = "QUARANTINED"
    /\ occs'[o].status = "RETRY" /\ occs'[o].attempts = 0
    /\ lapses'[o] = lapses[o]
    /\ WorkedOn(o) => o \in reopened'
    /\ Shrinks(o)

RowLapsed(o) ==
    /\ occs[o].status = "PROCESSING" /\ occs[o].lease = "live"
    /\ occs'[o].status = "PROCESSING" /\ occs'[o].lease = "expired"
    /\ occs'[o].attempts = occs[o].attempts
    /\ lapses'[o] = lapses[o] + 1
    /\ Shrinks(o)

RowStep(o) ==
    \/ RowStays(o) \/ RowPlanned(o) \/ RowTaken(o) \/ RowByHand(o) \/ RowPosted(o)
    \/ RowFailed(o) \/ RowRequeued(o) \/ RowLapsed(o)

\* The claims of a run change only when it claims; else some may go.
LEMMA WorkingKept ==
    ASSUME TypeOK, NEW r \in Runs,
           \/ UNCHANGED runVars
           \/ \E s \in Runs : \/ \E asOf \in Days : \E S \in SUBSET DueProfiles(asOf) :
                                   Materialize(s, asOf, S)
                              \/ \E c \in held[s] : \/ ExecuteStep(s, c)
                                                    \/ CommitUnacknowledged(s, c)
                              \/ RecordFailure(s) \/ FailureUnrecorded(s) \/ Crash(s)
    PROVE  Working(r)' \subseteq Working(r)
<1>1. CASE UNCHANGED runVars
  BY <1>1 DEF runVars, Working
<1>2. ASSUME NEW s \in Runs, NEW asOf \in Days, NEW S \in SUBSET DueProfiles(asOf),
             Materialize(s, asOf, S)
      PROVE  Working(r)' \subseteq Working(r)
  BY <1>2 DEF Materialize, Working, TypeOK
<1>3. ASSUME NEW s \in Runs, NEW c \in held[s],
             FindsClaimLost(s, c) \/ ExecuteClaim(s, c)
      PROVE  Working(r)' \subseteq Working(r)
  BY <1>3 DEF FindsClaimLost, ExecuteClaim, GoOn, Working, TypeOK
<1>4. ASSUME NEW s \in Runs, NEW c \in held[s],
             ExecutionFails(s, c) \/ CommitUnacknowledged(s, c)
      PROVE  Working(r)' \subseteq Working(r)
  BY <1>4 DEF ExecutionFails, CommitUnacknowledged, Working, TypeOK
<1>5. ASSUME NEW s \in Runs, RecordFailure(s) \/ FailureUnrecorded(s) \/ Crash(s)
      PROVE  Working(r)' \subseteq Working(r)
  BY <1>5 DEF RecordFailure, FailureUnrecorded, Crash, GoOn, Working, TypeOK
<1> QED
  BY <1>1, <1>2, <1>3, <1>4, <1>5 DEF ExecuteStep

LEMMA NextRowStep ==
    ASSUME TypeOK, [Next]_vars, NEW o \in Occurrences
    PROVE  RowStep(o)
<1> USE RecurringAssumption DEF RecurringAssumption
<1>0. occs[o] \in Row /\ lapses[o] \in Nat
  BY DEF TypeOK
<1>a. ASSUME UNCHANGED runVars PROVE Shrinks(o)
  BY <1>a, WorkingKept DEF Shrinks
<1>1. ASSUME NEW r \in Runs, NEW asOf \in Days, NEW S \in SUBSET DueProfiles(asOf),
             Materialize(r, asOf, S)
      PROVE  RowStep(o)
  <2>1. Shrinks(o)
    BY <1>1, WorkingKept DEF Shrinks
  <2>2. occs'[o] = WithMaterialized(S, asOf)[o] /\ lapses' = lapses
    BY <1>1 DEF Materialize, history
  <2> QED
    BY <2>1, <2>2, PlannedRow DEF TypeOK, RowStep, RowStays, RowPlanned
<1>2. ASSUME NEW r \in Runs, NEW C \in Batches(occs), Claim(r, C)
      PROVE  RowStep(o)
  <2>1. lapses' = lapses
    BY <1>2 DEF Claim, history
  <2>2. \A s \in Runs \ {r} : Working(s)' = Working(s)
    BY <1>2 DEF Claim, Working, TypeOK
  <2>3. Working(r)' = {[occ |-> q, attempts |-> occs[q].attempts + 1] : q \in C}
    BY <1>2 DEF Claim, Working, TypeOK
  <2>4. CASE o \in C
    <3>1. occs'[o] = Claimed(occs[o], WorkerOf[r])
      BY <1>2, <2>4 DEF Claim
    <3>2. Free(occs[o])
      BY <2>4 DEF Batches, Claimable, Free
    <3>3. /\ occs'[o].status = "PROCESSING" /\ occs'[o].lease = "live"
          /\ occs'[o].attempts = occs[o].attempts + 1
      BY <1>0, <3>1, ClaimedRow
    <3>4. \A c \in Working(r)' : c.occ = o => c.attempts = occs'[o].attempts
      BY <2>3, <3>3
    <3> QED
      BY <2>1, <2>2, <3>2, <3>3, <3>4 DEF RowStep, RowTaken
  <2>5. CASE o \notin C
    <3>1. occs'[o] = occs[o]
      BY <1>2, <2>5 DEF Claim
    <3>2. Shrinks(o)
      BY <2>2, <2>3, <2>5 DEF Shrinks
    <3> QED
      BY <2>1, <3>1, <3>2 DEF RowStep, RowStays
  <2> QED
    BY <2>4, <2>5
<1>3. ASSUME NEW r \in Runs, NEW c \in held[r], ExecuteClaim(r, c) \/ CommitUnacknowledged(r, c)
      PROVE  RowStep(o)
  <2>1. Shrinks(o)
    BY <1>3, WorkingKept DEF Shrinks, ExecuteStep
  <2>2. lapses' = lapses /\ c.occ \in Occurrences /\ CanPost(c.occ, WorkerOf[r])
        /\ occs' = [occs EXCEPT ![c.occ] = Succeeded(occs[c.occ])]
    BY <1>3 DEF ExecuteClaim, CommitUnacknowledged, PostDocument, history, TypeOK, Claims
  <2>3. CASE o = c.occ
    <3>1. occs'[o] = Succeeded(occs[o])
      BY <2>2, <2>3 DEF TypeOK
    <3>2. occs[o].status = "PROCESSING" /\ occs[o].lease = "live"
      BY <2>2, <2>3 DEF CanPost, Owns
    <3> QED
      BY <1>0, <2>1, <2>2, <3>1, <3>2, SucceededRow DEF RowStep, RowPosted
  <2>4. CASE o # c.occ
    BY <2>1, <2>2, <2>4 DEF TypeOK, RowStep, RowStays
  <2> QED
    BY <2>3, <2>4
<1>4. ASSUME NEW r \in Runs, RecordFailure(r) PROVE RowStep(o)
  <2>1. cur[r] \in Claims /\ cur[r].occ \in Occurrences /\ cur[r].attempts \in Nat
    BY <1>4 DEF RecordFailure, TypeOK, Claims
  <2>2. lapses' = lapses
    BY <1>4 DEF RecordFailure, history
  <2>3. Shrinks(o)
    BY <1>4, WorkingKept DEF Shrinks
  <2>4. CASE o = cur[r].occ /\ Owns(occs[o], WorkerOf[r]) /\ cur[r].attempts <= DelayCap
    <3>1. occs'[o] = AfterFailure(occs[o], cur[r].attempts)
      BY <1>4, <2>4 DEF RecordFailure, TypeOK
    <3>2. /\ occs'[o].attempts = occs[o].attempts
          /\ \/ occs'[o].status = "RETRY" /\ cur[r].attempts < MaxAttempts
             \/ occs'[o].status = "QUARANTINED" /\ cur[r].attempts >= MaxAttempts
      <4>1. occs'[o].status = IF cur[r].attempts >= MaxAttempts THEN "QUARANTINED" ELSE "RETRY"
        BY <1>0, <3>1 DEF AfterFailure, Row
      <4>2. occs'[o].attempts = occs[o].attempts
        BY <1>0, <2>1, <3>1, FailedRow
      <4>3. cur[r].attempts < MaxAttempts \/ cur[r].attempts >= MaxAttempts
        BY <2>1
      <4>4. cur[r].attempts < MaxAttempts => ~(cur[r].attempts >= MaxAttempts)
        BY <2>1
      <4> QED
        BY <4>1, <4>2, <4>3, <4>4
    <3>3. occs[o].status = "PROCESSING"
      BY <2>4 DEF Owns
    <3>4. pc[r] = "failing" /\ Working(r)' = held[r]
      BY <1>4 DEF RecordFailure, GoOn, Working, TypeOK
    <3> QED
      BY <2>2, <2>3, <2>4, <3>2, <3>3, <3>4 DEF RowStep, RowFailed
  <2>5. CASE ~(o = cur[r].occ /\ Owns(occs[o], WorkerOf[r]) /\ cur[r].attempts <= DelayCap)
    <3>1. occs'[o] = occs[o]
      BY <1>4, <2>1, <2>5 DEF RecordFailure, TypeOK
    <3> QED
      BY <2>2, <2>3, <3>1 DEF RowStep, RowStays
  <2> QED
    BY <2>4, <2>5
<1>5. ASSUME NEW q \in Occurrences, RetryQuarantined(q) PROVE RowStep(o)
  <2>1. lapses' = lapses /\ Shrinks(o)
    BY <1>5, <1>a DEF RetryQuarantined
  <2>2. CASE o = q
    <3>1. occs'[o] = Requeued(occs[o]) /\ occs[o].status = "QUARANTINED"
      BY <1>5, <2>2 DEF RetryQuarantined, TypeOK
    <3>2. Requeued(occs[o]).status = "RETRY" /\ Requeued(occs[o]).attempts = 0
      BY <1>0 DEF Requeued, Row
    <3>3. WorkedOn(o) => o \in reopened'
      BY <1>5, <2>2 DEF RetryQuarantined
    <3> QED
      BY <2>1, <3>1, <3>2, <3>3 DEF RowStep, RowRequeued
  <2>3. CASE o # q
    BY <1>5, <2>1, <2>3 DEF RetryQuarantined, TypeOK, RowStep, RowStays
  <2> QED
    BY <2>2, <2>3
<1>6. ASSUME NEW asOf \in Days, NEW S \in SUBSET DueProfiles(asOf),
             NEW C \in Batches(WithMaterialized(S, asOf)), NEW done \in SUBSET C,
             NEW failed \in SUBSET (C \ done), RunByHand(asOf, S, C, done, failed)
      PROVE  RowStep(o)
  <2> DEFINE table == WithMaterialized(S, asOf)
             taken == Claimed(table[o], ManualName)
             n == table[o].attempts + 1
  <2>1. /\ table[o] \in Row /\ table[o].attempts = occs[o].attempts
        /\ table[o] = occs[o] \/ (occs[o].status = "ABSENT" /\ table[o].status = "PENDING")
    BY PlannedRow DEF TypeOK
  <2>2. o \in C => Free(table[o])
    BY DEF Batches, Claimable, Free
  <2> HIDE DEF table
  <2>3. /\ taken \in Row /\ taken.status = "PROCESSING" /\ taken.lease = "live"
        /\ taken.attempts = n /\ n \in Nat /\ n = occs[o].attempts + 1
    BY <2>1, ClaimedRow DEF Row
  <2> HIDE DEF taken, n
  <2>4. lapses' = lapses /\ Shrinks(o)
    BY <1>6, <1>a DEF RunByHand, history
  <2>5. o \in C => Free(occs[o])
    BY <2>1, <2>2 DEF Free
  <2>6. CASE o \in done
    <3>1. occs'[o] = Succeeded(taken)
      BY <1>6, <2>6 DEF RunByHand, table, taken
    <3> QED
      BY <2>3, <2>4, <2>5, <2>6, <3>1, SucceededRow DEF RowStep, RowByHand
  <2>7. CASE o \in failed
    <3>1. occs'[o] = AfterFailure(taken, n)
      BY <1>6, <2>7 DEF RunByHand, table, taken, n
    <3>2. occs'[o].status = IF n >= MaxAttempts THEN "QUARANTINED" ELSE "RETRY"
      BY <2>3, <3>1 DEF AfterFailure, Row
    <3>3. occs'[o].attempts = n
      BY <2>3, <3>1, FailedRow
    <3> QED
      BY <2>3, <2>4, <2>5, <2>7, <3>2, <3>3 DEF RowStep, RowByHand
  <2>8. CASE o \in C \ (done \cup failed)
    <3>1. occs'[o] = taken
      BY <1>6, <2>8 DEF RunByHand, table, taken
    <3> QED
      BY <2>3, <2>4, <2>5, <2>8, <3>1 DEF RowStep, RowByHand
  <2>9. CASE o \notin C
    <3>1. occs'[o] = table[o]
      BY <1>6, <2>9 DEF RunByHand, table
    <3> QED
      BY <2>1, <2>4, <3>1 DEF RowStep, RowStays, RowPlanned
  <2> QED
    BY <2>6, <2>7, <2>8, <2>9
<1>7. ASSUME NEW q \in Occurrences, Expire(q) PROVE RowStep(o)
  <2>1. Shrinks(o)
    BY <1>7, <1>a DEF Expire
  <2>2. CASE o = q
    <3>1. /\ occs'[o] = [occs[o] EXCEPT !.lease = "expired"]
          /\ lapses'[o] = lapses[o] + 1
          /\ occs[o].status = "PROCESSING" /\ occs[o].lease = "live"
      BY <1>7, <2>2 DEF Expire, TypeOK
    <3>2. /\ occs'[o].status = occs[o].status /\ occs'[o].lease = "expired"
          /\ occs'[o].attempts = occs[o].attempts
      BY <1>0, <3>1 DEF Row
    <3> QED
      BY <2>1, <3>1, <3>2 DEF RowStep, RowLapsed
  <2>3. CASE o # q
    BY <1>7, <2>1, <2>3 DEF Expire, TypeOK, RowStep, RowStays
  <2> QED
    BY <2>2, <2>3
<1>8. ASSUME NEW q \in Occurrences, BackoffOver(q) PROVE RowStep(o)
  <2>1. Shrinks(o) /\ lapses' = lapses
    BY <1>8, <1>a DEF BackoffOver, history
  <2>2. occs'[o] = occs[o] \/ occs'[o] = [occs[o] EXCEPT !.due = TRUE]
    BY <1>8 DEF BackoffOver, TypeOK
  <2>3. /\ occs'[o].status = occs[o].status /\ occs'[o].lease = occs[o].lease
        /\ occs'[o].attempts = occs[o].attempts
    BY <1>0, <2>2 DEF Row
  <2> QED
    BY <2>1, <2>3 DEF RowStep, RowStays
<1>9. ASSUME UNCHANGED <<occs, lapses>>, Shrinks(o) PROVE RowStep(o)
  BY <1>9 DEF RowStep, RowStays
<1>10. ASSUME NEW r \in Runs,
              \/ \E c \in held[r] : FindsClaimLost(r, c) \/ ExecutionFails(r, c)
              \/ FailureUnrecorded(r) \/ Crash(r)
       PROVE  RowStep(o)
  <2>1. Shrinks(o)
    BY <1>10, WorkingKept DEF Shrinks, ExecuteStep
  <2> QED
    BY <1>9, <1>10, <2>1 DEF FindsClaimLost, ExecutionFails, FailureUnrecorded, Crash, history
<1>11. ASSUME NEW p \in Profiles, CreateProfile(p) \/ PauseProfile(p) \/ ResumeProfile(p)
       PROVE  RowStep(o)
  BY <1>a, <1>9, <1>11 DEF CreateProfile, PauseProfile, ResumeProfile, history
<1>12. UNCHANGED vars => RowStep(o)
  BY <1>a, <1>9 DEF vars, runVars
<1> QED
  BY <1>1, <1>2, <1>3, <1>4, <1>5, <1>6, <1>7, <1>8, <1>10, <1>11, <1>12
     DEF Next, RunStep, ExecuteStep, Disturbance, UserStep, ClockStep

-----------------------------------------------------------------------------
(* Quarantine.  The number of a claim a run holds is at most the attempts of *)
(* its row, unless an operator started the count again under it.             *)

NumbersOK ==
    \A r \in Runs : \A c \in Working(r) :
        c.attempts <= occs[c.occ].attempts \/ c.occ \in reopened

LEMMA WorkingType ==
    ASSUME TypeOK, NEW r \in Runs
    PROVE  \A c \in Working(r) : c \in Claims /\ c.occ \in Occurrences /\ c.attempts \in Nat
BY DEF TypeOK, Working, Claims

LEMMA ReopenedGrows == [Next]_vars => reopened \subseteq reopened'
<1> SUFFICES ASSUME [Next]_vars PROVE reopened \subseteq reopened'
  OBVIOUS
<1>1. ASSUME NEW r \in Runs, RunStep(r) \/ Disturbance(r) PROVE reopened' = reopened
  BY <1>1 DEF RunStep, ExecuteStep, Disturbance, Materialize, Claim, FindsClaimLost,
     ExecuteClaim, ExecutionFails, CommitUnacknowledged, RecordFailure, FailureUnrecorded,
     Crash, history
<1>2. ASSUME NEW p \in Profiles, CreateProfile(p) \/ PauseProfile(p) \/ ResumeProfile(p)
      PROVE  reopened' = reopened
  BY <1>2 DEF CreateProfile, PauseProfile, ResumeProfile, history
<1>3. ASSUME NEW o \in Occurrences, RetryQuarantined(o) PROVE reopened \subseteq reopened'
  BY <1>3 DEF RetryQuarantined
<1>4. ASSUME NEW asOf \in Days, NEW S, NEW C, NEW done, NEW failed,
             RunByHand(asOf, S, C, done, failed)
      PROVE  reopened' = reopened
  BY <1>4 DEF RunByHand, history
<1>5. ASSUME NEW o \in Occurrences, Expire(o) \/ BackoffOver(o) PROVE reopened' = reopened
  BY <1>5 DEF Expire, BackoffOver, history
<1>6. UNCHANGED vars => reopened' = reopened
  BY DEF vars
<1> QED
  BY <1>1, <1>2, <1>3, <1>4, <1>5, <1>6 DEF Next, UserStep, ClockStep

LEMMA NextNumbersOK ==
    ASSUME TypeOK, TypeOK', NumbersOK, [Next]_vars
    PROVE  NumbersOK'
<1> SUFFICES ASSUME NEW r \in Runs, NEW c \in Working(r)'
             PROVE  c.attempts <= occs'[c.occ].attempts \/ c.occ \in reopened'
  BY DEF NumbersOK
<1> DEFINE o == c.occ
<1>1. o \in Occurrences /\ c.attempts \in Nat
  <2>1. (\A d \in Working(r) : d \in Claims /\ d.occ \in Occurrences /\ d.attempts \in Nat)'
    BY DEF TypeOK, Working, Claims
  <2> QED
    BY <2>1
<1>2. RowStep(o)
  BY <1>1, NextRowStep
<1>3. occs[o].attempts \in Nat /\ occs'[o].attempts \in Nat
  BY <1>1 DEF TypeOK, Row
<1>4. Shrinks(o) => c \in Working(r)
  BY DEF Shrinks
<1>5. c \in Working(r) => c.attempts <= occs[o].attempts \/ o \in reopened'
  BY ReopenedGrows DEF NumbersOK
<1>6. CASE RowTaken(o)
  <2>1. PICK s \in Runs :
             /\ \A u \in Runs \ {s} : Working(u)' = Working(u)
             /\ \A d \in Working(s)' : d.occ = o => d.attempts = occs'[o].attempts
    BY <1>6 DEF RowTaken
  <2>2. occs'[o].attempts = occs[o].attempts + 1
    BY <1>6 DEF RowTaken
  <2>3. CASE r = s
    BY <1>3, <2>1, <2>3
  <2>4. CASE r # s
    BY <1>1, <1>3, <1>5, <2>1, <2>2, <2>4
  <2> QED
    BY <2>3, <2>4
<1>7. CASE RowRequeued(o)
  <2>1. c \in Working(r)
    BY <1>4, <1>7 DEF RowRequeued
  <2> QED
    BY <1>7, <2>1 DEF RowRequeued, WorkedOn
<1>8. CASE ~RowTaken(o) /\ ~RowRequeued(o)
  <2>1. Shrinks(o) /\ occs'[o].attempts >= occs[o].attempts
    BY <1>2, <1>3, <1>8 DEF RowStep, RowStays, RowPlanned, RowByHand, RowPosted, RowFailed,
       RowLapsed
  <2> QED
    BY <1>1, <1>3, <1>4, <1>5, <2>1
<1> QED
  BY <1>6, <1>7, <1>8

LEMMA NextQuarantineExplained ==
    ASSUME TypeOK, NumbersOK, QuarantineExplained, [Next]_vars
    PROVE  QuarantineExplained'
<1> SUFFICES ASSUME NEW o \in Occurrences, occs'[o].status = "QUARANTINED"
             PROVE  occs'[o].attempts >= MaxAttempts \/ o \in reopened'
  BY DEF QuarantineExplained
<1>1. RowStep(o) /\ reopened \subseteq reopened'
  BY NextRowStep, ReopenedGrows
<1>2. occs[o].attempts \in Nat /\ MaxAttempts \in Nat
  BY RecurringAssumption DEF RecurringAssumption, TypeOK, Row
<1>3. CASE RowStays(o)
  BY <1>1, <1>3 DEF RowStays, QuarantineExplained
<1>4. CASE RowByHand(o)
  BY <1>4 DEF RowByHand
<1>5. CASE RowFailed(o)
  <2>1. PICK r \in Runs : /\ pc[r] = "failing" /\ cur[r].occ = o
                          /\ cur[r].attempts >= MaxAttempts
    BY <1>5 DEF RowFailed
  <2>2. cur[r] \in Working(r)
    BY <2>1 DEF Working
  <2>3. cur[r].attempts <= occs[o].attempts \/ o \in reopened
    BY <2>1, <2>2 DEF NumbersOK
  <2>4. cur[r].attempts \in Nat
    BY <2>2, WorkingType
  <2> QED
    BY <1>1, <1>2, <1>5, <2>1, <2>3, <2>4 DEF RowFailed
<1> QED
  BY <1>1, <1>3, <1>4, <1>5 DEF RowStep, RowPlanned, RowTaken, RowPosted, RowRequeued,
     RowLapsed

\* An occurrence is quarantined only after its last attempt, or because a run
\* that still held a claim of it when the operator retried it failed: for any
\* number of runs, under shared names as well.
THEOREM QuarantineIsExplained == Spec => []QuarantineExplained
<1>1. Init => NumbersOK /\ QuarantineExplained
  BY DEF Init, NumbersOK, QuarantineExplained, Working
<1>2. TypeOK /\ TypeOK' /\ NumbersOK /\ QuarantineExplained /\ [Next]_vars
         => NumbersOK' /\ QuarantineExplained'
  BY NextNumbersOK, NextQuarantineExplained
<1> QED
  BY <1>1, <1>2, InitType, NextType, PTL DEF Spec

-----------------------------------------------------------------------------
(* Attempts.  The runs that hold a claim of an occurrence are the one whose  *)
(* lease is live and at most one for each lease that ran out; those whose    *)
(* claim is not the last one may still put the row back to RETRY, so they    *)
(* are counted with the attempts.                                            *)

Holders(o) == {r \in Runs : \E c \in Working(r) : c.occ = o}

Early(o) == {r \in Runs : \E c \in Working(r) : c.occ = o /\ c.attempts < MaxAttempts}

OneClaimEach ==
    \A r \in Runs :
        /\ \A c, d \in Working(r) : c.occ = d.occ => c = d
        /\ pc[r] = "failing" => cur[r] \notin held[r]

\* Another run may claim, fail or be retried: no live lease stands in the way.
Released(row) ==
    row.status # "SUCCEEDED" /\ ~(row.status = "PROCESSING" /\ row.lease = "live")

LapsesOK(o) ==
    /\ Cardinality(Holders(o)) <= lapses[o] + 1
    /\ Released(occs[o]) => Cardinality(Holders(o)) <= lapses[o]
    /\ occs[o].attempts + Cardinality(Early(o)) <= MaxAttempts + lapses[o]
    /\ Free(occs[o]) => occs[o].attempts + Cardinality(Early(o)) < MaxAttempts + lapses[o]

LEMMA RunsFinite ==
    ASSUME NEW S \in SUBSET Runs
    PROVE  IsFiniteSet(S) /\ Cardinality(S) \in Nat
BY FS_Subset, FS_CardinalityType, RecurringAssumption DEF RecurringAssumption

LEMMA RunsFewer ==
    ASSUME NEW S \in SUBSET Runs, NEW T \in SUBSET S
    PROVE  Cardinality(T) <= Cardinality(S)
BY FS_Subset, RunsFinite

LEMMA RunsOneMore ==
    ASSUME NEW S \in SUBSET Runs, NEW r \in Runs, NEW T \in SUBSET (S \cup {r})
    PROVE  Cardinality(T) <= Cardinality(S) + 1
<1>1. IsFiniteSet(S) /\ Cardinality(S) \in Nat /\ Cardinality(T) \in Nat
  BY RunsFinite
<1>2. Cardinality(S \cup {r}) = IF r \in S THEN Cardinality(S) ELSE Cardinality(S) + 1
  BY <1>1, FS_AddElement
<1>3. Cardinality(T) <= Cardinality(S \cup {r})
  BY RunsFewer
<1> QED
  BY <1>1, <1>2, <1>3

LEMMA RunsOneLess ==
    ASSUME NEW S \in SUBSET Runs, NEW r \in S, NEW T \in SUBSET (S \ {r})
    PROVE  Cardinality(T) + 1 <= Cardinality(S)
<1>1. IsFiniteSet(S) /\ Cardinality(S) \in Nat /\ Cardinality(T) \in Nat
  BY RunsFinite
<1>2. Cardinality(S \ {r}) = Cardinality(S) - 1
  BY <1>1, FS_RemoveElement
<1>3. Cardinality(T) <= Cardinality(S \ {r})
  BY RunsFewer
<1> QED
  BY <1>1, <1>2, <1>3

LEMMA NextOneClaimEach ==
    ASSUME TypeOK, OneClaimEach, [Next]_vars
    PROVE  OneClaimEach'
<1> SUFFICES ASSUME NEW r \in Runs
             PROVE  /\ \A c, d \in Working(r)' : c.occ = d.occ => c = d
                    /\ pc'[r] = "failing" => cur'[r] \notin held'[r]
  BY DEF OneClaimEach
<1> DEFINE Goal == /\ \A c, d \in Working(r)' : c.occ = d.occ => c = d
                   /\ pc'[r] = "failing" => cur'[r] \notin held'[r]
<1> SUFFICES Goal
  OBVIOUS
<1>0. /\ \A c, d \in Working(r) : c.occ = d.occ => c = d
      /\ pc[r] = "failing" => cur[r] \notin held[r]
  BY DEF OneClaimEach
<1>1. Working(r)' = Working(r) /\ held'[r] = held[r] /\ cur'[r] = cur[r] /\ pc'[r] = pc[r]
         => Goal
  BY <1>0
<1>2. Working(r)' \subseteq Working(r) /\ pc'[r] # "failing" => Goal
  BY <1>0
<1>3. ASSUME NEW s \in Runs, RunStep(s) \/ Disturbance(s) PROVE Goal
  <2>1. CASE s = r
    <3>1. ASSUME NEW asOf \in Days, NEW S \in SUBSET DueProfiles(asOf), Materialize(r, asOf, S)
          PROVE  Goal
      BY <1>2, <3>1, WorkingKept DEF Materialize, TypeOK
    <3>2. ASSUME NEW c \in held[r], FindsClaimLost(r, c) \/ ExecuteClaim(r, c)
          PROVE  Goal
      <4>1. Working(r)' \subseteq Working(r)
        BY <3>2, WorkingKept DEF ExecuteStep
      <4>2. pc'[r] # "failing"
        BY <3>2 DEF FindsClaimLost, ExecuteClaim, GoOn, TypeOK
      <4> QED
        BY <1>2, <4>1, <4>2
    <3>3. ASSUME NEW c \in held[r], ExecutionFails(r, c) \/ CommitUnacknowledged(r, c)
          PROVE  Goal
      <4>1. Working(r)' \subseteq Working(r)
        BY <3>3, WorkingKept DEF ExecuteStep
      <4>2. cur'[r] = c /\ held'[r] = held[r] \ {c}
        BY <3>3 DEF ExecutionFails, CommitUnacknowledged, TypeOK
      <4> QED
        BY <1>0, <4>1, <4>2
    <3>4. CASE RecordFailure(r) \/ FailureUnrecorded(r) \/ Crash(r)
      <4>1. Working(r)' \subseteq Working(r)
        BY <3>4, WorkingKept
      <4>2. pc'[r] # "failing"
        BY <3>4 DEF RecordFailure, FailureUnrecorded, Crash, GoOn, TypeOK
      <4> QED
        BY <1>2, <4>1, <4>2
    <3>5. ASSUME NEW C \in Batches(occs), Claim(r, C) PROVE Goal
      <4>1. Working(r)' = {[occ |-> o, attempts |-> occs[o].attempts + 1] : o \in C}
        BY <3>5 DEF Claim, Working, TypeOK
      <4>2. pc'[r] # "failing"
        BY <3>5 DEF Claim, TypeOK
      <4> QED
        BY <4>1, <4>2
    <3> QED
      BY <1>3, <2>1, <3>1, <3>2, <3>3, <3>4, <3>5 DEF RunStep, ExecuteStep, Disturbance
  <2>2. CASE s # r
    <3>1. held'[r] = held[r] /\ cur'[r] = cur[r] /\ pc'[r] = pc[r]
      BY <1>3, <2>2 DEF RunStep, Disturbance, ExecuteStep, Materialize, Claim,
         FindsClaimLost, ExecuteClaim, ExecutionFails, CommitUnacknowledged,
         RecordFailure, FailureUnrecorded, Crash, GoOn, TypeOK
    <3>2. Working(r)' = Working(r)
      BY <3>1 DEF Working
    <3> QED
      BY <1>1, <3>1, <3>2
  <2> QED
    BY <2>1, <2>2
<1>4. CASE UserStep \/ ClockStep \/ UNCHANGED vars
  <2>1. held' = held /\ cur' = cur /\ pc' = pc
    BY <1>4 DEF UserStep, ClockStep, CreateProfile, PauseProfile, ResumeProfile,
       RetryQuarantined, RunByHand, Expire, BackoffOver, runVars, vars
  <2>2. Working(r)' = Working(r)
    BY <2>1 DEF Working
  <2> QED
    BY <1>1, <2>1, <2>2
<1> QED
  BY <1>3, <1>4 DEF Next

LEMMA NextLapsesOK ==
    ASSUME TypeOK, TypeOK', OneClaimEach, [Next]_vars, NEW o \in Occurrences, LapsesOK(o)
    PROVE  LapsesOK(o)'
<1> DEFINE h == Cardinality(Holders(o))
           e == Cardinality(Early(o))
           h1 == Cardinality(Holders(o)')
           e1 == Cardinality(Early(o)')
           a == occs[o].attempts
           a1 == occs'[o].attempts
           l == lapses[o]
           l1 == lapses'[o]
<1>0. MaxAttempts \in Nat \ {0}
  BY RecurringAssumption DEF RecurringAssumption
<1>1. /\ Holders(o) \in SUBSET Runs /\ Early(o) \in SUBSET Holders(o)
      /\ Holders(o)' \in SUBSET Runs /\ Early(o)' \in SUBSET Holders(o)'
  BY DEF Holders, Early
<1>2. h \in Nat /\ e \in Nat /\ h1 \in Nat /\ e1 \in Nat /\ e <= h /\ e1 <= h1
  BY <1>1, RunsFinite, RunsFewer
<1>3. a \in Nat /\ a1 \in Nat /\ l \in Nat /\ l1 \in Nat
  BY DEF TypeOK, Row
<1>4. /\ h <= l + 1
      /\ Released(occs[o]) => h <= l
      /\ a + e <= MaxAttempts + l
      /\ Free(occs[o]) => a + e < MaxAttempts + l
  BY DEF LapsesOK
<1>5. Shrinks(o) => h1 <= h /\ e1 <= e
  <2>1. Shrinks(o) => Holders(o)' \in SUBSET Holders(o) /\ Early(o)' \in SUBSET Early(o)
    BY DEF Shrinks, Holders, Early
  <2> QED
    BY <1>1, <2>1, RunsFewer
<1>6. SUFFICES /\ h1 <= l1 + 1
               /\ Released(occs'[o]) => h1 <= l1
               /\ a1 + e1 <= MaxAttempts + l1
               /\ Free(occs'[o]) => a1 + e1 < MaxAttempts + l1
  BY DEF LapsesOK, Released, Free
<1>7. Free(occs[o]) => h <= l
  BY <1>4 DEF Free, Released
<1>8. CASE RowStays(o)
  <2>1. /\ Released(occs'[o]) => Released(occs[o])
        /\ Free(occs'[o]) => Free(occs[o])
        /\ a1 = a /\ l1 = l /\ h1 <= h /\ e1 <= e
    BY <1>5, <1>8 DEF RowStays, Released, Free
  <2> HIDE DEF h, e, h1, e1, a, a1, l, l1
  <2> QED
    BY <1>0, <1>2, <1>3, <1>4, <2>1
<1>9. CASE RowPlanned(o) \/ RowByHand(o)
  <2>1. Free(occs[o]) /\ l1 = l /\ h1 <= h /\ e1 <= e /\ (a1 = a \/ a1 = a + 1)
    BY <1>5, <1>9 DEF RowPlanned, RowByHand, Free
  <2>2. Free(occs'[o]) => a1 = a \/ a1 < MaxAttempts
    BY <1>9 DEF RowPlanned, RowByHand, Free
  <2> HIDE DEF h, e, h1, e1, a, a1, l, l1
  <2> QED
    BY <1>0, <1>2, <1>3, <1>4, <1>7, <2>1, <2>2
<1>10. CASE RowTaken(o)
  <2>1. PICK r \in Runs :
             /\ \A s \in Runs \ {r} : Working(s)' = Working(s)
             /\ \A c \in Working(r)' : c.occ = o => c.attempts = a1
    BY <1>10 DEF RowTaken
  <2>2. Holders(o)' \in SUBSET (Holders(o) \cup {r})
    BY <2>1 DEF Holders
  <2>3. h1 <= h + 1
    BY <1>1, <2>2, RunsOneMore
  <2>4. e1 <= e + 1
    <3>1. Early(o)' \in SUBSET (Early(o) \cup {r})
      BY <2>1 DEF Early
    <3>2. Early(o) \in SUBSET Runs
      BY DEF Early
    <3> QED
      BY <3>1, <3>2, RunsOneMore
  <2>5. a1 >= MaxAttempts => e1 <= e
    <3>1. SUFFICES ASSUME a1 >= MaxAttempts PROVE Early(o)' \in SUBSET Early(o)
      <4>1. Early(o) \in SUBSET Runs
        BY DEF Early
      <4> QED
        BY <3>1, <4>1, RunsFewer
    <3>2. \A c \in Working(r)' : c.occ = o => ~(c.attempts < MaxAttempts)
      BY <1>0, <1>3, <2>1, <3>1
    <3> QED
      BY <2>1, <3>2 DEF Early
  <2>6. Free(occs[o]) /\ l1 = l /\ a1 = a + 1 /\ ~Released(occs'[o]) /\ ~Free(occs'[o])
    BY <1>10 DEF RowTaken, Released, Free
  <2> HIDE DEF h, e, h1, e1, a, a1, l, l1
  <2> QED
    BY <1>0, <1>2, <1>3, <1>4, <1>7, <2>3, <2>4, <2>5, <2>6
<1>11. CASE RowPosted(o)
  <2>1. l1 = l /\ a1 = a /\ ~Released(occs'[o]) /\ ~Free(occs'[o]) /\ h1 <= h /\ e1 <= e
    BY <1>5, <1>11 DEF RowPosted, Released, Free
  <2> HIDE DEF h, e, h1, e1, a, a1, l, l1
  <2> QED
    BY <1>0, <1>2, <1>3, <1>4, <2>1
<1>12. CASE RowFailed(o)
  <2>1. PICK r \in Runs :
             /\ pc[r] = "failing" /\ cur[r].occ = o
             /\ Working(r)' = held[r]
             /\ \/ occs'[o].status = "RETRY" /\ cur[r].attempts < MaxAttempts
                \/ occs'[o].status = "QUARANTINED" /\ cur[r].attempts >= MaxAttempts
    BY <1>12 DEF RowFailed
  <2>2. cur[r] \in Working(r) /\ cur[r] \notin held[r] /\ held[r] \subseteq Working(r)
    BY <2>1 DEF Working, OneClaimEach
  <2>3. \A c \in Working(r)' : c.occ # o
    BY <2>1, <2>2 DEF OneClaimEach
  <2>4. Shrinks(o) /\ l1 = l /\ a1 = a
    BY <1>12 DEF RowFailed
  <2>5. h1 + 1 <= h
    <3>1. r \in Holders(o) /\ Holders(o)' \in SUBSET (Holders(o) \ {r})
      BY <2>1, <2>2, <2>3, <2>4 DEF Holders, Shrinks
    <3> QED
      BY <1>1, <3>1, RunsOneLess
  <2>6. occs'[o].status = "RETRY" => e1 + 1 <= e
    <3>1. occs'[o].status = "RETRY" => r \in Early(o)
      BY <2>1, <2>2 DEF Early
    <3>2. Early(o)' \in SUBSET (Early(o) \ {r}) /\ Early(o) \in SUBSET Runs
      BY <2>3, <2>4 DEF Early, Shrinks
    <3> QED
      BY <3>1, <3>2, RunsOneLess
  <2>7. Free(occs'[o]) => occs'[o].status = "RETRY"
    BY <2>1 DEF Free
  <2>8. e1 <= e
    BY <1>5, <2>4
  <2> HIDE DEF h, e, h1, e1, a, a1, l, l1
  <2> QED
    BY <1>0, <1>2, <1>3, <1>4, <2>4, <2>5, <2>6, <2>7, <2>8
<1>13. CASE RowRequeued(o)
  <2>1. Released(occs[o]) /\ l1 = l /\ a1 = 0 /\ h1 <= h /\ e1 <= e
    BY <1>5, <1>13 DEF RowRequeued, Released
  <2> HIDE DEF h, e, h1, e1, a, a1, l, l1
  <2> QED
    BY <1>0, <1>2, <1>3, <1>4, <2>1
<1>14. CASE RowLapsed(o)
  <2>1. l1 = l + 1 /\ a1 = a /\ h1 <= h /\ e1 <= e
    BY <1>5, <1>14 DEF RowLapsed
  <2> HIDE DEF h, e, h1, e1, a, a1, l, l1
  <2> QED
    BY <1>0, <1>2, <1>3, <1>4, <2>1
<1> QED
  BY <1>8, <1>9, <1>10, <1>11, <1>12, <1>13, <1>14, NextRowStep DEF RowStep

\* No occurrence is attempted more often than maxAttempts and the leases of it
\* that ran out allow: for any number of runs under any names, with runs by
\* hand, crashes, lost answers and operator retries.
THEOREM AttemptsAreExplained == Spec => []AttemptsExplained
<1> DEFINE AllLapses == \A o \in Occurrences : LapsesOK(o)
<1>1. Init => OneClaimEach /\ AllLapses
  <2> SUFFICES ASSUME Init PROVE OneClaimEach /\ AllLapses
    OBVIOUS
  <2>1. \A r \in Runs : Working(r) = {}
    BY DEF Init, Working
  <2>2. \A o \in Occurrences : Holders(o) = {} /\ Early(o) = {}
    BY <2>1 DEF Holders, Early
  <2>3. Cardinality({}) = 0
    BY FS_EmptySet
  <2>4. \A o \in Occurrences : Cardinality(Holders(o)) = 0 /\ Cardinality(Early(o)) = 0
    BY <2>2, <2>3
  <2>5. \A o \in Occurrences : lapses[o] = 0 /\ occs[o].attempts = 0
    BY DEF Init
  <2>6. AllLapses
    BY <2>4, <2>5, RecurringAssumption DEF RecurringAssumption, LapsesOK
  <2> QED
    BY <2>1, <2>6 DEF OneClaimEach, Init
<1>2. TypeOK /\ TypeOK' /\ OneClaimEach /\ AllLapses /\ [Next]_vars
         => OneClaimEach' /\ AllLapses'
  <2> SUFFICES ASSUME TypeOK, TypeOK', OneClaimEach, AllLapses, [Next]_vars
               PROVE  OneClaimEach' /\ AllLapses'
    OBVIOUS
  <2>1. \A o \in Occurrences : LapsesOK(o)'
    BY NextLapsesOK
  <2> QED
    BY <2>1, NextOneClaimEach
<1>3. TypeOK /\ AllLapses => AttemptsExplained
  <2> SUFFICES ASSUME TypeOK, AllLapses, NEW o \in Occurrences
               PROVE  occs[o].attempts <= MaxAttempts + lapses[o]
    BY DEF AttemptsExplained
  <2>1. Early(o) \in SUBSET Runs
    BY DEF Early
  <2>2. Cardinality(Early(o)) \in Nat
    BY <2>1, RunsFinite
  <2>3. occs[o].attempts + Cardinality(Early(o)) <= MaxAttempts + lapses[o]
    BY DEF LapsesOK
  <2>4. occs[o].attempts \in Nat /\ lapses[o] \in Nat /\ MaxAttempts \in Nat
    BY RecurringAssumption DEF RecurringAssumption, TypeOK, Row
  <2> QED
    BY <2>2, <2>3, <2>4
<1> HIDE DEF AllLapses
<1> QED
  BY <1>1, <1>2, <1>3, InitType, NextType, PTL DEF Spec
===============================================================================

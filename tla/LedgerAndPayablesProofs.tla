------------------------ MODULE LedgerAndPayablesProofs ------------------------
(***************************************************************************)
(* Proofs about PostingLedger for any accounts, periods, moves, postings   *)
(* and bounds: the balances are the sums of the posted lines, a completed  *)
(* reconciliation stays true, a journal is reversed at most once, exactly, *)
(* and a barred day sees at most one transaction that was on its way.      *)
(*                                                                         *)
(* Then about Payables, for any number of bills, payments and notes: no    *)
(* credit is spent twice, vendors' balances and the ledger part only for   *)
(* named reasons, and the order is billed what its bills took.  The two    *)
(* share the facts about sums and nothing else.                            *)
(***************************************************************************)
EXTENDS PostingLedger, Payables, SumTheorems, TLAPS

\* A reconciliation stands in the books bk.
Stands(bk) == \A b \in Banks : \A s \in sessions[b] : LedgerBalance(bk, b, s.day) = s.balance

\* What is committed is also in the working books, and a posting that has locked a
\* row finds it there.
RowsThere ==
    /\ \A r \in Rows : books.journals[r] # Unused => work.journals[r] # Unused
    /\ \A t \in Postings :
          pc[t] = "started" /\ job[t].kind # "new" => Seen(t)[job[t].row] # Unused

\* A barred day is locked, and once a transaction has slipped onto it nobody has
\* anything for it left.
DayOK(d) ==
    /\ ~Barred(d) => late[d] = 0
    /\ Barred(d) => late[d] <= 1
    /\ late[d] = 1 => d \notin FreshDays

ClosesLock == \A p \in Periods : closes[p] = "CLOSED" => p \in monthLocks

\* Everything that is said of the committed books holds for the working books too:
\* a commit only shows what the checks were made on.
IInv ==
    /\ TypeOK
    /\ RowsThere
    /\ Tied(books) /\ Tied(work)
    /\ Single(books) /\ Single(work)
    /\ Stands(books) /\ Stands(work)
    /\ ClosesLock
    /\ \A d \in Days : DayOK(d)

-----------------------------------------------------------------------------
(* What a posting writes.                                                  *)

LEMMA UsedRow == ASSUME NEW j \in Journal PROVE j # Unused /\ j.status # "None"
  BY DEF Journal, Unused

LEMMA RowIs ==
    ASSUME NEW j \in Journal \cup {Unused}
    PROVE  /\ j # Unused <=> j \in Journal
           /\ j.status = "Posted" => j \in Journal
  BY DEF Journal, Unused

\* The row r takes the journal new, and a reversal is linked with its original.
Puts(t, r, new) ==
    /\ r \in Rows
    /\ new \in Journal /\ new.status = "Posted"
    /\ work.journals[r].status # "Posted"
    /\ \A q \in Rows \ {r} :
          work'.journals[q] = IF Reversing(t) /\ q = job[t].row
                              THEN [work.journals[q] EXCEPT !.reversedBy = r]
                              ELSE work.journals[q]
    /\ work'.journals[r] = new
    /\ work'.balance = [a \in Accounts |-> work.balance[a] + Delta(a, new)]
    /\ work'.bankBalance = [b \in Banks |-> work.bankBalance[b] + Delta(b, new)]
    /\ work' = [journals |-> work'.journals, balance |-> work'.balance,
                bankBalance |-> work'.bankBalance]
    /\ work'.journals = [q \in Rows |-> work'.journals[q]]
    /\ \/ /\ work.journals[r] = Unused
          /\ ~Reversing(t) => new.reversalOf = 0
       \/ /\ work.journals[r] \in Journal
          /\ ~Reversing(t)
          /\ new = [work.journals[r] EXCEPT !.status = "Posted"]
    /\ Reversing(t) => /\ job[t].row \in Rows
                       /\ work.journals[job[t].row] \in Journal
                       /\ work.journals[job[t].row].reversedBy = 0
                       /\ new.reversalOf = job[t].row
                       /\ new.dr = work.journals[job[t].row].cr
                       /\ new.cr = work.journals[job[t].row].dr
                       /\ new.amount = work.journals[job[t].row].amount

LEMMA WriteRows ==
    ASSUME LedgerAssumption, TypeOK, RowsThere, NEW t \in Postings, Write(t)
    PROVE  \E r \in Rows : Puts(t, r, Entry(t))
  <1> DEFINE new == Entry(t)
             row == job[t].row
             rows == work.journals
  <1>1. /\ pc[t] = "started" /\ job[t] \in Job
        /\ postingLock \in {Free, t}
        /\ rows \in [Rows -> Journal \cup {Unused}]
        /\ Today \in Days
    BY DEF Write, TypeOK, Books, LedgerAssumption
  <1>2. PICK r \in Rows :
          /\ IF job[t].kind = "draft" THEN r = row ELSE NextRow(r)
          /\ work' = [journals |-> Written(t, r, new),
                      balance |-> [a \in Accounts |-> work.balance[a] + Delta(a, new)],
                      bankBalance |-> [b \in Banks |-> work.bankBalance[b] + Delta(b, new)]]
    BY DEF Write
  <1>3. StillRight(t)
    BY DEF Write
  <1>4. job[t].kind # "new" => row \in Rows /\ rows[row] \in Journal
    <2> SUFFICES ASSUME job[t].kind # "new" PROVE row \in Rows /\ rows[row] \in Journal
      OBVIOUS
    <2>1. row \in Rows
      BY <1>1 DEF Job
    <2>2. Seen(t)[row] # Unused
      BY <1>1 DEF RowsThere
    <2>3. rows[row] # Unused
      BY <2>1, <2>2 DEF RowsThere, Seen
    <2> QED
      BY <1>1, <2>1, <2>3
  <1>5. CASE job[t].kind = "new"
    <2>1. new = [status |-> "Posted", day |-> job[t].day, dr |-> job[t].move.dr,
                 cr |-> job[t].move.cr, amount |-> job[t].move.amount,
                 series |-> job[t].series, reversalOf |-> 0, reversedBy |-> 0]
      BY <1>5 DEF Entry
    <2>2. job[t].move \in Moves /\ job[t].day \in Days /\ job[t].series \in {"JV", "SRC"}
      BY <1>1, <1>5 DEF Job
    <2>3. new \in Journal
      BY <2>1, <2>2 DEF Journal, Series, LedgerAssumption
    <2>4. ~Reversing(t)
      BY <1>5 DEF Reversing
    <2>5. work'.journals = [rows EXCEPT ![r] = new]
      BY <1>2, <2>4 DEF Written
    <2>6. rows[r] = Unused
      BY <1>2, <1>5 DEF NextRow
    <2> HIDE DEF new
    <2>7. work' = [journals |-> work'.journals, balance |-> work'.balance,
                   bankBalance |-> work'.bankBalance]
      BY <1>2
    <2>8. Puts(t, r, new)
      BY <1>1, <1>2, <2>1, <2>3, <2>4, <2>5, <2>6, <2>7 DEF Puts, Unused
    <2> QED
      BY <2>8 DEF new
  <1>6. CASE job[t].kind = "draft"
    <2>1. new = [rows[row] EXCEPT !.status = "Posted"]
      BY <1>6 DEF Entry
    <2>2. r = row /\ rows[row] \in Journal
      BY <1>2, <1>4, <1>6
    <2>3. new \in Journal /\ new.status = "Posted"
      BY <2>1, <2>2 DEF Journal
    <2>4. ~Reversing(t)
      BY <1>6 DEF Reversing
    <2>5. work'.journals = [rows EXCEPT ![r] = new]
      BY <1>2, <2>4 DEF Written
    <2>6. rows[r].status # "Posted"
      BY <1>3, <1>6, <2>2 DEF StillRight
    <2> HIDE DEF new
    <2>7. work' = [journals |-> work'.journals, balance |-> work'.balance,
                   bankBalance |-> work'.bankBalance]
      BY <1>2
    <2>8. Puts(t, r, new)
      BY <1>1, <1>2, <2>1, <2>2, <2>3, <2>4, <2>5, <2>6, <2>7 DEF Puts
    <2> QED
      BY <2>8 DEF new
  <1>7. CASE job[t].kind \in {"reverse", "undo"}
    <2>1. PICK series \in {"RV", "JV"} :
            new = [status |-> "Posted", day |-> Today, dr |-> rows[row].cr, cr |-> rows[row].dr,
                   amount |-> rows[row].amount, series |-> series, reversalOf |-> row,
                   reversedBy |-> 0]
      BY <1>7 DEF Entry
    <2>2. Reversing(t)
      BY <1>7 DEF Reversing
    <2>3. row \in Rows /\ rows[row] \in Journal
      BY <1>4, <1>7
    <2>4. new \in Journal /\ new.status = "Posted"
      BY <1>1, <2>1, <2>3 DEF Journal, Series
    <2>5. rows[r] = Unused
      BY <1>2, <1>7 DEF NextRow
    <2>6. r # row
      BY <2>3, <2>5, UsedRow
    <2>7. work'.journals = [rows EXCEPT ![r] = new, ![row].reversedBy = r]
      BY <1>2, <2>2 DEF Written
    <2>8. rows[row].reversedBy = 0
      BY <1>3, <2>2 DEF StillRight
    <2>9. /\ work'.journals[r] = new
          /\ \A q \in Rows \ {r} :
                work'.journals[q] = IF q = row THEN [rows[q] EXCEPT !.reversedBy = r] ELSE rows[q]
          /\ work'.journals = [q \in Rows |-> work'.journals[q]]
      BY <1>1, <2>3, <2>6, <2>7
    <2>10. /\ new.reversalOf = row /\ new.dr = rows[row].cr /\ new.cr = rows[row].dr
           /\ new.amount = rows[row].amount
      BY <2>1
    <2> HIDE DEF new
    <2>11. work' = [journals |-> work'.journals, balance |-> work'.balance,
                    bankBalance |-> work'.bankBalance]
      BY <1>2
    <2>12. Puts(t, r, new)
      BY <1>1, <1>2, <2>2, <2>3, <2>4, <2>5, <2>8, <2>9, <2>10, <2>11 DEF Puts, Unused
    <2> QED
      BY <2>12 DEF new
  <1> QED
    BY <1>1, <1>5, <1>6, <1>7 DEF Job

\* Every other row keeps what it says; only the mark of its reversal may come.
LEMMA PutsKeep ==
    ASSUME TypeOK, NEW t \in Postings, NEW r, NEW new, Puts(t, r, new), NEW q \in Rows \ {r}
    PROVE  /\ work'.journals[q] \in Journal \cup {Unused}
           /\ work.journals[q] = Unused <=> work'.journals[q] = Unused
           /\ work.journals[q] # Unused =>
                 /\ work'.journals[q].status = work.journals[q].status
                 /\ work'.journals[q].day = work.journals[q].day
                 /\ work'.journals[q].dr = work.journals[q].dr
                 /\ work'.journals[q].cr = work.journals[q].cr
                 /\ work'.journals[q].amount = work.journals[q].amount
                 /\ work'.journals[q].reversalOf = work.journals[q].reversalOf
                 /\ ~(Reversing(t) /\ q = job[t].row) =>
                       work'.journals[q].reversedBy = work.journals[q].reversedBy
  <1>1. work.journals[q] \in Journal \cup {Unused}
    BY DEF TypeOK, Books
  <1>2. CASE Reversing(t) /\ q = job[t].row
    <2>1. /\ work.journals[q] \in Journal
          /\ work'.journals[q] = [work.journals[q] EXCEPT !.reversedBy = r]
          /\ r \in Rows
      BY <1>2 DEF Puts
    <2>2. work'.journals[q] \in Journal
      BY <2>1 DEF Journal
    <2>3. work.journals[q] # Unused /\ work'.journals[q] # Unused
      BY <2>1, <2>2, UsedRow
    <2> QED
      BY <1>2, <2>1, <2>2, <2>3 DEF Journal
  <1>3. CASE ~(Reversing(t) /\ q = job[t].row)
    <2>1. work'.journals[q] = work.journals[q]
      BY <1>3 DEF Puts
    <2> QED
      BY <1>1, <1>3, <2>1
  <1> QED
    BY <1>2, <1>3

LEMMA PutsType ==
    ASSUME TypeOK, NEW t \in Postings, NEW r, NEW new, Puts(t, r, new)
    PROVE  work' \in Books
  <1>1. \A q \in Rows : work'.journals[q] \in Journal \cup {Unused}
    <2> SUFFICES ASSUME NEW q \in Rows PROVE work'.journals[q] \in Journal \cup {Unused}
      OBVIOUS
    <2>1. CASE q = r
      BY <2>1 DEF Puts
    <2>2. CASE q # r
      BY <2>2, PutsKeep
    <2> QED
      BY <2>1, <2>2
  <1>2. \A a : Delta(a, new) \in Int
    <2>1. new.amount \in Nat
      BY DEF Puts, Journal
    <2> QED
      BY <2>1 DEF Delta
  <1>3. work.balance \in [Accounts -> Int] /\ work.bankBalance \in [Banks -> Int]
    BY DEF TypeOK, Books
  <1>4. work'.balance \in [Accounts -> Int] /\ work'.bankBalance \in [Banks -> Int]
    <2>1. work'.balance = [a \in Accounts |-> work.balance[a] + Delta(a, new)]
      BY DEF Puts
    <2>2. work'.bankBalance = [b \in Banks |-> work.bankBalance[b] + Delta(b, new)]
      BY DEF Puts
    <2> QED
      BY <1>2, <1>3, <2>1, <2>2
  <1>6. work'.journals = [q \in Rows |-> work'.journals[q]]
    BY DEF Puts
  <1>7. work'.journals \in [Rows -> Journal \cup {Unused}]
    BY <1>1, <1>6
  <1>8. work' = [journals |-> work'.journals, balance |-> work'.balance,
                 bankBalance |-> work'.bankBalance]
    BY DEF Puts
  <1> QED
    BY <1>4, <1>7, <1>8 DEF Books

-----------------------------------------------------------------------------
(* Sums over the posted journals.                                          *)

LEMMA RowsFinite == ASSUME LedgerAssumption PROVE IsFiniteSet(Rows)
  BY FS_Interval DEF Rows, LedgerAssumption

LEMMA DeltaInt == ASSUME NEW a, NEW j \in Journal PROVE Delta(a, j) \in Int
  BY DEF Delta, Journal

DebitOf(j, a) == IF j.status = "Posted" /\ j.dr = a THEN j.amount ELSE 0
CreditOf(j, a) == IF j.status = "Posted" /\ j.cr = a THEN j.amount ELSE 0
MovedBy(j, b, day) == IF j.status = "Posted" /\ j.day <= day THEN Delta(b, j) ELSE 0

LEMMA SumsAre ==
    ASSUME NEW bk
    PROVE  /\ \A a : DebitsOf(bk, a) = SumFunction([r \in Rows |-> DebitOf(bk.journals[r], a)])
           /\ \A a : CreditsOf(bk, a) = SumFunction([r \in Rows |-> CreditOf(bk.journals[r], a)])
           /\ \A b, day : LedgerBalance(bk, b, day)
                             = SumFunction([r \in Rows |-> MovedBy(bk.journals[r], b, day)])
  BY DEF DebitsOf, CreditsOf, LedgerBalance, DebitOf, CreditOf, MovedBy

LEMMA RowSumsInt ==
    ASSUME NEW j \in Journal \cup {Unused}, NEW a, NEW day
    PROVE  DebitOf(j, a) \in Int /\ CreditOf(j, a) \in Int /\ MovedBy(j, a, day) \in Int
  <1>1. CASE j.status = "Posted"
    <2>1. j \in Journal
      BY <1>1, RowIs
    <2>2. j.amount \in Nat /\ Delta(a, j) \in Int
      BY <2>1, DeltaInt DEF Journal
    <2> QED
      BY <2>2 DEF DebitOf, CreditOf, MovedBy
  <1>2. CASE j.status # "Posted"
    BY <1>2 DEF DebitOf, CreditOf, MovedBy
  <1> QED
    BY <1>1, <1>2

\* Rows that say the same in two books count the same.
LEMMA SameRow ==
    ASSUME NEW j \in Journal \cup {Unused}, NEW k \in Journal \cup {Unused},
           \/ j.status # "Posted" /\ k.status # "Posted"
           \/ /\ j.status = k.status
              /\ j.day = k.day /\ j.dr = k.dr /\ j.cr = k.cr /\ j.amount = k.amount,
           NEW a, NEW day
    PROVE  /\ DebitOf(j, a) = DebitOf(k, a) /\ CreditOf(j, a) = CreditOf(k, a)
           /\ MovedBy(j, a, day) = MovedBy(k, a, day)
  BY DEF DebitOf, CreditOf, MovedBy, Delta

LEMMA PutsSums ==
    ASSUME LedgerAssumption, TypeOK, NEW t \in Postings, NEW r, NEW new, Puts(t, r, new),
           NEW a, NEW day
    PROVE  /\ DebitsOf(work', a) = DebitsOf(work, a) + DebitOf(new, a)
           /\ CreditsOf(work', a) = CreditsOf(work, a) + CreditOf(new, a)
           /\ LedgerBalance(work', a, day) = LedgerBalance(work, a, day) + MovedBy(new, a, day)
           /\ DebitsOf(work, a) \in Int /\ CreditsOf(work, a) \in Int
           /\ LedgerBalance(work, a, day) \in Int
  <1> DEFINE d(js) == [q \in Rows |-> DebitOf(js[q], a)]
             c(js) == [q \in Rows |-> CreditOf(js[q], a)]
             m(js) == [q \in Rows |-> MovedBy(js[q], a, day)]
             old == work.journals
             now == work'.journals
  <1>1. IsFiniteSet(Rows) /\ r \in Rows
    BY RowsFinite DEF Puts
  <1>2. ASSUME NEW q \in Rows
        PROVE  old[q] \in Journal \cup {Unused} /\ now[q] \in Journal \cup {Unused}
    BY PutsType DEF TypeOK, Books
  <1>3. \A q \in Rows : /\ d(old)[q] \in Int /\ d(now)[q] \in Int
                        /\ c(old)[q] \in Int /\ c(now)[q] \in Int
                        /\ m(old)[q] \in Int /\ m(now)[q] \in Int
    BY <1>2, RowSumsInt
  <1>4. ASSUME NEW q \in Rows \ {r}
        PROVE  d(old)[q] = d(now)[q] /\ c(old)[q] = c(now)[q] /\ m(old)[q] = m(now)[q]
    <2>1. \/ old[q].status # "Posted" /\ now[q].status # "Posted"
          \/ /\ old[q].status = now[q].status
             /\ old[q].day = now[q].day /\ old[q].dr = now[q].dr /\ old[q].cr = now[q].cr
             /\ old[q].amount = now[q].amount
      <3>1. CASE old[q] = Unused
        BY <3>1, PutsKeep DEF Unused
      <3>2. CASE old[q] # Unused
        BY <3>2, PutsKeep
      <3> QED
        BY <3>1, <3>2
    <2> HIDE DEF old, now
    <2>2. q \in Rows
      BY <1>4
    <2>3. old[q] \in Journal \cup {Unused} /\ now[q] \in Journal \cup {Unused}
      BY <1>2
    <2> QED
      BY <2>1, <2>2, <2>3, SameRow
  <1>5. old[r].status # "Posted" /\ now[r] = new
    BY DEF Puts
  <1>6. /\ d(old)[r] = 0 /\ c(old)[r] = 0 /\ m(old)[r] = 0
        /\ d(now)[r] = DebitOf(new, a) /\ c(now)[r] = CreditOf(new, a)
        /\ m(now)[r] = MovedBy(new, a, day)
    BY <1>1, <1>5 DEF DebitOf, CreditOf, MovedBy
  <1>7. DebitsOf(work, a) = SumFunction(d(old)) /\ DebitsOf(work', a) = SumFunction(d(now))
    BY SumsAre
  <1>8. CreditsOf(work, a) = SumFunction(c(old)) /\ CreditsOf(work', a) = SumFunction(c(now))
    BY SumsAre
  <1>9. /\ LedgerBalance(work, a, day) = SumFunction(m(old))
        /\ LedgerBalance(work', a, day) = SumFunction(m(now))
    BY SumsAre
  <1>10. /\ DOMAIN d(old) = Rows /\ DOMAIN d(now) = Rows
         /\ DOMAIN c(old) = Rows /\ DOMAIN c(now) = Rows
         /\ DOMAIN m(old) = Rows /\ DOMAIN m(now) = Rows
    OBVIOUS
  <1> HIDE DEF d, c, m
  <1>11. SumFunction(d(now)) = SumFunction(d(old)) + d(now)[r] - d(old)[r]
         /\ SumFunction(d(old)) \in Int
    BY <1>1, <1>3, <1>4, <1>10, RowChange
  <1>12. SumFunction(c(now)) = SumFunction(c(old)) + c(now)[r] - c(old)[r]
         /\ SumFunction(c(old)) \in Int
    BY <1>1, <1>3, <1>4, <1>10, RowChange
  <1>13. SumFunction(m(now)) = SumFunction(m(old)) + m(now)[r] - m(old)[r]
         /\ SumFunction(m(old)) \in Int
    BY <1>1, <1>3, <1>4, <1>10, RowChange
  <1>14. /\ d(now)[r] \in Int /\ c(now)[r] \in Int /\ m(now)[r] \in Int
    BY <1>1, <1>3
  <1> QED
    BY <1>6, <1>7, <1>8, <1>9, <1>11, <1>12, <1>13, <1>14

\* A posting keeps the books tied: it moves the balances by what it writes.
LEMMA PutsTied ==
    ASSUME LedgerAssumption, TypeOK, Tied(work),
           NEW t \in Postings, NEW r, NEW new, Puts(t, r, new)
    PROVE  Tied(work')
  <1>1. new \in Journal /\ new.status = "Posted"
    BY DEF Puts
  <1>2. new.amount \in Nat
    BY <1>1 DEF Journal
  <1>3. ASSUME NEW a \in Accounts
        PROVE  work'.balance[a] = IF a \in DebitNormal THEN DebitsOf(work', a) - CreditsOf(work', a)
                                  ELSE -(DebitsOf(work', a) - CreditsOf(work', a))
    <2>1. work.balance[a] = IF a \in DebitNormal THEN DebitsOf(work, a) - CreditsOf(work, a)
                            ELSE -(DebitsOf(work, a) - CreditsOf(work, a))
      BY DEF Tied
    <2>2. work'.balance[a] = work.balance[a] + Delta(a, new)
      BY DEF Puts
    <2>3. Delta(a, new) = IF a \in DebitNormal THEN DebitOf(new, a) - CreditOf(new, a)
                          ELSE -(DebitOf(new, a) - CreditOf(new, a))
      BY <1>1, <1>2 DEF Delta, DebitOf, CreditOf
    <2>4. DebitOf(new, a) \in Int /\ CreditOf(new, a) \in Int
      BY <1>1, RowSumsInt
    <2>5. /\ DebitsOf(work', a) = DebitsOf(work, a) + DebitOf(new, a)
          /\ CreditsOf(work', a) = CreditsOf(work, a) + CreditOf(new, a)
          /\ DebitsOf(work, a) \in Int /\ CreditsOf(work, a) \in Int
      BY PutsSums
    <2> QED
      BY <2>1, <2>2, <2>3, <2>4, <2>5
  <1>4. ASSUME NEW b \in Banks
        PROVE  work'.bankBalance[b] = work'.balance[b]
    <2>1. b \in Accounts
      BY DEF LedgerAssumption
    <2>2. work'.balance[b] = work.balance[b] + Delta(b, new)
      BY <2>1 DEF Puts
    <2>3. work'.bankBalance[b] = work.bankBalance[b] + Delta(b, new)
      BY DEF Puts
    <2> QED
      BY <2>2, <2>3 DEF Tied
  <1> QED
    BY <1>3, <1>4 DEF Tied

\* What is not cut off changes no balance that a reconciliation was agreed with.
LEMMA PutsStands ==
    ASSUME LedgerAssumption, TypeOK, Stands(work), UNCHANGED sessions,
           NEW t \in Postings, NEW r, NEW new, Puts(t, r, new), ~CutOff(new)
    PROVE  Stands(work)'
  <1> SUFFICES ASSUME NEW b \in Banks, NEW s \in sessions[b]
               PROVE  LedgerBalance(work', b, s.day) = s.balance
    BY DEF Stands
  <1>1. new \in Journal /\ new.day \in Days /\ s.day \in Days /\ new.amount \in Nat
    BY DEF Puts, Journal, TypeOK
  <1>2. MovedBy(new, b, s.day) = 0
    <2>1. CASE b \in {new.dr, new.cr}
      <3>1. ~(s.day >= new.day)
        BY <2>1 DEF CutOff
      <3>2. ~(new.day <= s.day)
        BY <1>1, <3>1 DEF Days
      <3> QED
        BY <3>2 DEF MovedBy
    <2>2. CASE b \notin {new.dr, new.cr}
      <3>1. Delta(b, new) = 0
        BY <2>2 DEF Delta
      <3> QED
        BY <3>1 DEF MovedBy
    <2> QED
      BY <2>1, <2>2
  <1>3. /\ LedgerBalance(work', b, s.day) = LedgerBalance(work, b, s.day) + MovedBy(new, b, s.day)
        /\ LedgerBalance(work, b, s.day) \in Int
    BY PutsSums
  <1>4. LedgerBalance(work, b, s.day) = s.balance
    BY DEF Stands
  <1> QED
    BY <1>2, <1>3, <1>4

-----------------------------------------------------------------------------
(* Reversals.                                                              *)

Reversals(bk) == {q \in Rows : bk.journals[q] # Unused /\ bk.journals[q].reversalOf # 0}

\* The journal q reverses the journal it names.
Undoes(bk, q) ==
    LET original == bk.journals[bk.journals[q].reversalOf]
    IN  /\ original # Unused
        /\ original.reversedBy = q
        /\ original.dr = bk.journals[q].cr
        /\ original.cr = bk.journals[q].dr
        /\ original.amount = bk.journals[q].amount

LEMMA SingleMeans ==
    ASSUME NEW bk
    PROVE  Single(bk) <=>
             /\ \A q, k \in Reversals(bk) :
                   bk.journals[q].reversalOf = bk.journals[k].reversalOf => q = k
             /\ \A q \in Reversals(bk) : Undoes(bk, q)
  BY DEF Single, Reversals, Undoes

\* It is enough that every reversal is marked on the original it names.
LEMMA MarksDecide ==
    ASSUME NEW bk, \A q \in Reversals(bk) : Undoes(bk, q)
    PROVE  Single(bk)
  BY SingleMeans DEF Undoes

LEMMA PutsSingle ==
    ASSUME LedgerAssumption, TypeOK, Single(work),
           NEW t \in Postings, NEW r, NEW new, Puts(t, r, new)
    PROVE  Single(work')
  <1> DEFINE old == work.journals
             now == work'.journals
             row == job[t].row
  <1>1. r \in Rows /\ new \in Journal /\ now[r] = new /\ new # Unused
    BY UsedRow DEF Puts
  <1>2. \A q \in Rows : old[q] \in Journal \cup {Unused}
    BY DEF TypeOK, Books
  <1>3. ASSUME NEW q \in Reversals(work)
        PROVE  /\ q \in Rows /\ old[q] \in Journal
               /\ old[q].reversalOf \in Rows
               /\ Undoes(work, q)
               /\ Reversing(t) => old[q].reversalOf # row
    <2>1. q \in Rows /\ old[q] # Unused /\ old[q].reversalOf # 0
      BY <1>3 DEF Reversals
    <2>2. old[q] \in Journal
      BY <1>2, <2>1
    <2>3. old[q].reversalOf \in Rows
      BY <2>1, <2>2 DEF Journal
    <2>4. Undoes(work, q)
      BY <1>3, SingleMeans
    <2>5. Reversing(t) => old[row].reversedBy = 0
      BY DEF Puts
    <2>6. q # 0
      BY <2>1 DEF Rows
    <2> QED
      BY <2>1, <2>2, <2>3, <2>4, <2>5, <2>6 DEF Undoes
  <1>4. ASSUME NEW q \in Reversals(work')
        PROVE  Undoes(work', q)
    <2>1. q \in Rows /\ now[q] # Unused /\ now[q].reversalOf # 0
      BY <1>4 DEF Reversals
    <2>2. CASE q = r /\ Reversing(t)
      <3>1. /\ row \in Rows /\ old[row] \in Journal
            /\ new.reversalOf = row /\ new.dr = old[row].cr /\ new.cr = old[row].dr
            /\ new.amount = old[row].amount
        BY <2>2 DEF Puts
      <3>2. row # r
        <4>1. old[r] = Unused
          BY <2>2 DEF Puts
        <4> QED
          BY <3>1, <4>1, UsedRow
      <3>3. now[row] = [old[row] EXCEPT !.reversedBy = r]
        BY <2>2, <3>1, <3>2 DEF Puts
      <3>4. /\ now[row].reversedBy = r /\ now[row].dr = old[row].dr
            /\ now[row].cr = old[row].cr /\ now[row].amount = old[row].amount
        BY <3>1, <3>3 DEF Journal
      <3>5. now[row] # Unused
        BY <3>1, <3>2, PutsKeep, UsedRow
      <3> QED
        BY <1>1, <2>2, <3>1, <3>4, <3>5 DEF Undoes
    <2>3. CASE ~(q = r /\ Reversing(t))
      <3>1. /\ q \in Reversals(work)
            /\ now[q].reversalOf = old[q].reversalOf
            /\ now[q].dr = old[q].dr /\ now[q].cr = old[q].cr /\ now[q].amount = old[q].amount
        <4>1. CASE q = r
          <5>1. ~Reversing(t)
            BY <2>3, <4>1
          <5>2. new.reversalOf # 0
            BY <1>1, <2>1, <4>1
          <5>3. old[r] \in Journal /\ new = [old[r] EXCEPT !.status = "Posted"]
            BY <5>1, <5>2 DEF Puts
          <5>4. /\ new.reversalOf = old[r].reversalOf /\ new.dr = old[r].dr
                /\ new.cr = old[r].cr /\ new.amount = old[r].amount
            BY <5>3 DEF Journal
          <5>5. old[r] # Unused
            BY <5>3, UsedRow
          <5> QED
            BY <1>1, <4>1, <5>2, <5>4, <5>5 DEF Reversals
        <4>2. CASE q # r
          <5>1. q \in Rows \ {r}
            BY <2>1, <4>2
          <5>2. old[q] # Unused
            BY <2>1, <5>1, PutsKeep
          <5>3. /\ now[q].reversalOf = old[q].reversalOf
                /\ now[q].dr = old[q].dr /\ now[q].cr = old[q].cr
                /\ now[q].amount = old[q].amount
            BY <5>1, <5>2, PutsKeep
          <5> QED
            BY <2>1, <5>2, <5>3 DEF Reversals
        <4> QED
          BY <4>1, <4>2
      <3> DEFINE o == old[q].reversalOf
      <3>2. o \in Rows /\ Undoes(work, q) /\ (Reversing(t) => o # row)
        BY <3>1, <1>3
      <3>3. old[o] # Unused /\ old[o].reversedBy = q
            /\ old[o].dr = old[q].cr /\ old[o].cr = old[q].dr /\ old[o].amount = old[q].amount
        BY <3>2 DEF Undoes
      <3> HIDE DEF o
      <3>4. /\ now[o] # Unused /\ now[o].reversedBy = old[o].reversedBy
            /\ now[o].dr = old[o].dr /\ now[o].cr = old[o].cr /\ now[o].amount = old[o].amount
        <4>1. CASE o = r
          <5>1. old[r] # Unused
            BY <3>3, <4>1
          <5>2. old[r] \in Journal /\ new = [old[r] EXCEPT !.status = "Posted"]
            BY <5>1 DEF Puts
          <5>3. /\ new.reversedBy = old[r].reversedBy /\ new.dr = old[r].dr
                /\ new.cr = old[r].cr /\ new.amount = old[r].amount
            BY <5>2 DEF Journal
          <5> QED
            BY <1>1, <4>1, <5>3
        <4>2. CASE o # r
          <5>1. o \in Rows \ {r} /\ ~(Reversing(t) /\ o = row)
            BY <3>2, <4>2
          <5> QED
            BY <3>3, <5>1, PutsKeep
        <4> QED
          BY <4>1, <4>2
      <3>5. now[q].reversalOf = o
        BY <3>1 DEF o
      <3> QED
        BY <3>1, <3>3, <3>4, <3>5 DEF Undoes
    <2> QED
      BY <2>2, <2>3
  <1> QED
    BY <1>4, MarksDecide

-----------------------------------------------------------------------------
(* The steps.                                                              *)

\* What a step that leaves both books alone does not touch.
LEMMA SameBooks ==
    ASSUME Tied(books), Tied(work), Single(books), Single(work), UNCHANGED <<books, work>>
    PROVE  Tied(books)' /\ Tied(work)' /\ Single(books)' /\ Single(work)'
  BY DEF Tied, Single, DebitsOf, CreditsOf

LEMMA SameStands ==
    ASSUME Stands(books), Stands(work), UNCHANGED <<books, work, sessions>>
    PROVE  Stands(books)' /\ Stands(work)'
  BY DEF Stands, LedgerBalance

LEMMA SameDays ==
    ASSUME ClosesLock, \A d \in Days : DayOK(d),
           UNCHANGED <<dateLocks, monthLocks, closes, late>>, FreshDays' = FreshDays
    PROVE  ClosesLock' /\ \A d \in Days : DayOK(d)'
  BY DEF ClosesLock, DayOK, Barred

\* A transaction begins a journal.
LEMMA StartStep ==
    ASSUME LedgerAssumption, IInv, NEW t \in Postings, NEW what \in Job, Start(t, what),
           Goes(t, what.kind),
           held' \in [Postings -> SUBSET Rows],
           movementLock' \in Postings \cup {Free},
           what.kind # "new" => Seen(t)[what.row] # Unused
    PROVE  IInv'
  <1>1. /\ UNCHANGED <<books, work, postingLock, periods, sessions, controls, late>>
        /\ pc' = [pc EXCEPT ![t] = "started"] /\ job' = [job EXCEPT ![t] = what]
    BY DEF Start
  <1>2. TypeOK'
    <2>1. /\ pc' \in [Postings -> {"idle", "started", "written"}] /\ DOMAIN job' = Postings
          /\ \A u \in Postings : pc'[u] # "idle" => job'[u] \in Job
          /\ \A u \in Postings : pc'[u] = "written" => postingLock' = u
      BY <1>1 DEF TypeOK, IInv
    <2> QED
      BY <1>1, <2>1 DEF TypeOK, IInv, periods
  <1>3. RowsThere'
    <2>1. \A u \in Postings : Seen(u)' = Seen(u)
      BY <1>1 DEF Seen
    <2>2. ASSUME NEW u \in Postings, pc'[u] = "started", job'[u].kind # "new"
          PROVE  Seen(u)'[job'[u].row] # Unused
      <3>1. CASE u = t
        BY <1>1, <2>1, <2>2, <3>1 DEF TypeOK, IInv
      <3>2. CASE u # t
        BY <1>1, <2>1, <2>2, <3>2 DEF TypeOK, IInv, RowsThere
      <3> QED
        BY <3>1, <3>2
    <2> QED
      BY <1>1, <2>2 DEF RowsThere, IInv
  <1>4. FreshDays' = FreshDays
    BY <1>1 DEF FreshDays
  <1> QED
    BY <1>1, <1>2, <1>3, <1>4, SameBooks, SameStands, SameDays DEF IInv, periods

LEMMA StartsStep ==
    ASSUME LedgerAssumption, IInv, NEW t \in Postings,
           \/ \E series \in {"JV", "SRC"}, day \in Days, move \in Moves :
                 StartNew(t, series, day, move)
           \/ \E row \in Rows : StartDraft(t, row) \/ StartReversal(t, row) \/ StartUndo(t, row)
    PROVE  IInv'
  <1>1. held \in [Postings -> SUBSET Rows] /\ movementLock \in Postings \cup {Free}
    BY DEF IInv, TypeOK
  <1>2. ASSUME NEW series \in {"JV", "SRC"}, NEW day \in Days, NEW move \in Moves,
               StartNew(t, series, day, move)
        PROVE  IInv'
    <2> DEFINE what == [kind |-> "new", series |-> series, day |-> day, move |-> move]
    <2>1. what \in Job /\ what.kind = "new"
      BY DEF Job
    <2>2. Start(t, what) /\ Goes(t, "new") /\ held' = held /\ movementLock' = movementLock
      BY <1>2 DEF StartNew
    <2> HIDE DEF what
    <2> QED
      BY <1>1, <2>1, <2>2, StartStep
  <1>3. ASSUME NEW row \in Rows, NEW kind \in {"draft", "reverse", "undo"},
               \/ kind = "draft" /\ StartDraft(t, row)
               \/ kind = "reverse" /\ StartReversal(t, row)
               \/ kind = "undo" /\ StartUndo(t, row)
        PROVE  IInv'
    <2> DEFINE what == [kind |-> kind, row |-> row]
    <2>1. what \in Job /\ what.kind = kind /\ what.row = row
      BY DEF Job
    <2>2. /\ Start(t, what) /\ Goes(t, kind)
          /\ held' = [held EXCEPT ![t] = @ \cup {row}]
          /\ movementLock' \in {movementLock, t}
      BY <1>3 DEF StartDraft, StartReversal, StartUndo
    <2>3. Seen(t)[row] # Unused
      BY <1>3 DEF StartDraft, StartReversal, StartUndo, Unused
    <2> HIDE DEF what
    <2> QED
      BY <1>1, <2>1, <2>2, <2>3, StartStep
  <1> QED
    BY <1>2, <1>3

LEMMA WriteStep ==
    ASSUME LedgerAssumption, IInv, NEW t \in Postings, Write(t)
    PROVE  IInv'
  <1> DEFINE new == Entry(t)
  <1>1. TypeOK /\ RowsThere
    BY DEF IInv
  <1>2. PICK r \in Rows : Puts(t, r, new)
    BY <1>1, WriteRows
  <1>3. /\ pc[t] = "started" /\ pc' = [pc EXCEPT ![t] = "written"]
        /\ postingLock \in {Free, t} /\ postingLock' = t
        /\ ~CutOff(new) /\ ~PeriodLocked(new.day)
        /\ UNCHANGED <<books, job, held, movementLock, periods, sessions, controls, late>>
    BY DEF Write
  <1> HIDE DEF new
  <1>4. TypeOK'
    <2>1. work' \in Books
      BY <1>1, <1>2, PutsType
    <2>2. /\ pc' \in [Postings -> {"idle", "started", "written"}]
          /\ \A u \in Postings : pc'[u] # "idle" => pc[u] # "idle"
          /\ \A u \in Postings : pc'[u] = "written" => postingLock' = u
          /\ postingLock' # Free
      BY <1>1, <1>3 DEF TypeOK, LedgerAssumption
    <2> QED
      BY <1>1, <1>3, <2>1, <2>2 DEF TypeOK, periods
  <1>5. RowsThere'
    <2>1. ASSUME NEW q \in Rows, books.journals[q] # Unused
          PROVE  work'.journals[q] # Unused
      <3>1. CASE q = r
        BY <1>2, <3>1, UsedRow DEF Puts
      <3>2. CASE q # r
        BY <1>1, <1>2, <2>1, <3>2, PutsKeep DEF RowsThere
      <3> QED
        BY <3>1, <3>2
    <2>2. ASSUME NEW u \in Postings, pc'[u] = "started", job'[u].kind # "new"
          PROVE  Seen(u)'[job'[u].row] # Unused
      <3>1. u # t /\ pc[u] = "started"
        BY <1>1, <1>3, <2>2 DEF TypeOK
      <3>2. postingLock # u /\ postingLock' # u
        BY <1>3, <3>1 DEF LedgerAssumption
      <3>3. Seen(u)' = Seen(u)
        BY <1>3, <3>2 DEF Seen
      <3> QED
        BY <1>1, <1>3, <2>2, <3>1, <3>3 DEF RowsThere
    <2> QED
      BY <1>3, <2>1, <2>2 DEF RowsThere
  <1>6. Tied(books)' /\ Single(books)' /\ Stands(books)'
    BY <1>3 DEF IInv, Tied, Single, Stands, DebitsOf, CreditsOf, LedgerBalance
  <1>7. Tied(work') /\ Single(work') /\ Stands(work)'
    BY <1>1, <1>2, <1>3, PutsTied, PutsSingle, PutsStands DEF IInv
  <1>8. Tied(work)' /\ Single(work)'
    BY <1>7 DEF Tied, Single, DebitsOf, CreditsOf
  <1>9. ClosesLock'
    BY <1>3 DEF IInv, ClosesLock, periods
  <1>10. ASSUME NEW d \in Days PROVE DayOK(d)'
    <2>1. Barred(d)' = Barred(d) /\ late' = late
      BY <1>3 DEF Barred, periods
    <2>2. Barred(d) => PeriodLocked(d)
      <3>1. \A e \in dateLocks : e \in Days
        BY <1>1 DEF TypeOK
      <3>2. \A p \in Periods : Last[p] \in Days
        BY DEF LedgerAssumption
      <3> QED
        BY <3>1, <3>2 DEF Barred, PeriodLocked, Days, IInv, ClosesLock
    <2>3. d \in FreshDays' => d \in FreshDays \/ d = new.day
      <3> SUFFICES ASSUME d \in FreshDays' PROVE d \in FreshDays \/ d = new.day
        OBVIOUS
      <3>1. PICK k \in Rows : /\ work'.journals[k].status = "Posted"
                              /\ books.journals[k].status # "Posted"
                              /\ d = work'.journals[k].day
        BY <1>3 DEF FreshDays
      <3>2. CASE k = r
        BY <1>2, <3>1, <3>2 DEF Puts
      <3>3. CASE k # r
        <4>1. work.journals[k] # Unused
          <5>1. work'.journals[k] # Unused
            BY <3>1 DEF Unused
          <5> QED
            BY <1>1, <1>2, <3>3, <5>1, PutsKeep
        <4>2. work'.journals[k].status = work.journals[k].status
              /\ work'.journals[k].day = work.journals[k].day
          BY <1>1, <1>2, <3>3, <4>1, PutsKeep
        <4> QED
          BY <3>1, <4>2 DEF FreshDays
      <3> QED
        BY <3>2, <3>3
    <2>4. late[d] = 1 => Barred(d)
      BY DEF IInv, DayOK
    <2> QED
      BY <1>3, <2>1, <2>2, <2>3, <2>4 DEF IInv, DayOK
  <1> QED
    BY <1>4, <1>5, <1>6, <1>7, <1>8, <1>9, <1>10 DEF IInv

\* The end of a transaction: what is kept of its work is decided, its locks go.
LEMMA FinishType ==
    ASSUME LedgerAssumption, TypeOK, NEW t \in Postings, pc[t] # "idle", Finish(t),
           {books', work'} \subseteq Books,
           postingLock = t => work' = books',
           postingLock # t => UNCHANGED <<books, work>>,
           late' \in [Days -> Nat]
    PROVE  TypeOK'
  <1>1. /\ pc' \in [Postings -> {"idle", "started", "written"}]
        /\ DOMAIN job' = Postings
        /\ \A u \in Postings : pc'[u] # "idle" => u # t /\ job'[u] \in Job
        /\ \A u \in Postings : pc'[u] = "written" => u # t /\ pc[u] = "written"
        /\ held' \in [Postings -> SUBSET Rows]
    BY DEF TypeOK, Finish
  <1>2. /\ {postingLock', movementLock'} \subseteq Postings \cup {Free}
        /\ \A u \in Postings : pc'[u] = "written" => postingLock' = u
        /\ postingLock' = Free => work' = books'
    BY <1>1 DEF TypeOK, Finish
  <1> QED
    BY <1>1, <1>2 DEF TypeOK, Finish, periods

LEMMA CommitStep ==
    ASSUME LedgerAssumption, IInv, NEW t \in Postings, Commit(t)
    PROVE  IInv'
  <1>1. /\ pc[t] = "written" /\ books' = work /\ work' = work /\ Finish(t)
        /\ late' = [d \in Days |-> IF Barred(d) /\ d \in FreshDays THEN late[d] + 1 ELSE late[d]]
        /\ UNCHANGED <<periods, sessions>>
    BY DEF Commit, Finish
  <1>2. TypeOK
    BY DEF IInv
  <1>3. TypeOK'
    <2>1. late' \in [Days -> Nat] /\ postingLock = t /\ {books', work'} \subseteq Books
      BY <1>1, <1>2 DEF TypeOK
    <2> QED
      BY <1>1, <1>2, <2>1, FinishType
  <1>4. RowsThere'
    <2>1. ASSUME NEW u \in Postings, pc'[u] = "started", job'[u].kind # "new"
          PROVE  Seen(u)'[job'[u].row] # Unused
      <3>1. u # t /\ pc[u] = "started" /\ job'[u] = job[u]
        BY <1>1, <1>2, <2>1 DEF TypeOK, Finish
      <3>2. job[u].row \in Rows
        BY <1>2, <2>1, <3>1 DEF TypeOK, Job
      <3>3. Seen(u)[job[u].row] # Unused
        BY <2>1, <3>1 DEF IInv, RowsThere
      <3>4. work.journals[job[u].row] # Unused
        BY <3>2, <3>3 DEF IInv, RowsThere, Seen
      <3>5. Seen(u)' = work.journals
        BY <1>1 DEF Seen
      <3> QED
        BY <3>1, <3>4, <3>5
    <2> QED
      BY <1>1, <2>1 DEF RowsThere
  <1>5. Tied(books)' /\ Tied(work)' /\ Single(books)' /\ Single(work)'
    BY <1>1 DEF IInv, Tied, Single, DebitsOf, CreditsOf
  <1>6. Stands(books)' /\ Stands(work)'
    BY <1>1 DEF IInv, Stands, LedgerBalance
  <1>7. ClosesLock'
    BY <1>1 DEF IInv, ClosesLock, periods
  <1>8. ASSUME NEW d \in Days PROVE DayOK(d)'
    <2>1. FreshDays' = {}
      BY <1>1 DEF FreshDays
    <2>2. Barred(d)' = Barred(d)
      BY <1>1 DEF Barred, periods
    <2>3. late[d] \in Nat /\ DayOK(d)
      BY <1>2 DEF TypeOK, IInv
    <2>4. late'[d] = IF Barred(d) /\ d \in FreshDays THEN late[d] + 1 ELSE late[d]
      BY <1>1
    <2> QED
      BY <2>1, <2>2, <2>3, <2>4 DEF DayOK
  <1> QED
    BY <1>3, <1>4, <1>5, <1>6, <1>7, <1>8 DEF IInv

LEMMA RollbackStep ==
    ASSUME LedgerAssumption, IInv, NEW t \in Postings, Rollback(t)
    PROVE  IInv'
  <1>1. /\ pc[t] # "idle" /\ books' = books /\ late' = late
        /\ work' = (IF postingLock = t THEN books ELSE work) /\ Finish(t)
        /\ UNCHANGED <<periods, sessions>>
    BY DEF Rollback, Finish
  <1>2. TypeOK
    BY DEF IInv
  <1>3. TypeOK'
    BY <1>1, <1>2, FinishType DEF TypeOK
  <1>4. RowsThere'
    <2>1. ASSUME NEW u \in Postings, pc'[u] = "started", job'[u].kind # "new"
          PROVE  Seen(u)'[job'[u].row] # Unused
      <3>1. u # t /\ pc[u] = "started" /\ job'[u] = job[u]
        BY <1>1, <1>2, <2>1 DEF TypeOK, Finish
      <3>2. Seen(u)' = Seen(u)
        BY <1>1, <3>1 DEF Seen, Finish, LedgerAssumption
      <3> QED
        BY <2>1, <3>1, <3>2 DEF IInv, RowsThere
    <2> QED
      BY <1>1, <2>1 DEF IInv, RowsThere
  <1>5. Tied(books)' /\ Tied(work)' /\ Single(books)' /\ Single(work)'
    BY <1>1 DEF IInv, Tied, Single, DebitsOf, CreditsOf
  <1>6. Stands(books)' /\ Stands(work)'
    BY <1>1 DEF IInv, Stands, LedgerBalance
  <1>7. ClosesLock'
    BY <1>1 DEF IInv, ClosesLock, periods
  <1>8. ASSUME NEW d \in Days PROVE DayOK(d)'
    <2>1. FreshDays' \subseteq FreshDays
      BY <1>1 DEF FreshDays
    <2>2. Barred(d)' = Barred(d)
      BY <1>1 DEF Barred, periods
    <2> QED
      BY <1>1, <2>1, <2>2 DEF IInv, DayOK
  <1> QED
    BY <1>3, <1>4, <1>5, <1>6, <1>7, <1>8 DEF IInv

\* A draft moves nothing, in the committed books or in the working ones.
LEMMA DraftMovesNothing ==
    ASSUME LedgerAssumption, NEW bk \in Books, NEW now \in Books, NEW r \in Rows,
           NEW draft \in Journal, draft.status = "Submitted", draft.reversalOf = 0,
           now = [bk EXCEPT !.journals[r] = draft], bk.journals[r] = Unused
    PROVE  /\ Tied(bk) => Tied(now)
           /\ Single(bk) => Single(now)
           /\ \A b, day : LedgerBalance(now, b, day) = LedgerBalance(bk, b, day)
  <1>1. /\ now.balance = bk.balance /\ now.bankBalance = bk.bankBalance
        /\ now.journals = [bk.journals EXCEPT ![r] = draft]
        /\ bk.journals \in [Rows -> Journal \cup {Unused}]
    BY DEF Books
  <1>2. \A q \in Rows \ {r} : now.journals[q] = bk.journals[q]
    BY <1>1
  <1>3. now.journals[r] = draft
    BY <1>1
  <1>4. ASSUME NEW a, NEW day, NEW q \in Rows
        PROVE  /\ DebitOf(now.journals[q], a) = DebitOf(bk.journals[q], a)
               /\ CreditOf(now.journals[q], a) = CreditOf(bk.journals[q], a)
               /\ MovedBy(now.journals[q], a, day) = MovedBy(bk.journals[q], a, day)
    <2>1. CASE q = r
      BY <1>3, <2>1 DEF DebitOf, CreditOf, MovedBy, Unused
    <2>2. CASE q # r
      BY <1>2, <2>2
    <2> QED
      BY <2>1, <2>2
  <1>5. ASSUME NEW a, NEW day
        PROVE  /\ DebitsOf(now, a) = DebitsOf(bk, a) /\ CreditsOf(now, a) = CreditsOf(bk, a)
               /\ LedgerBalance(now, a, day) = LedgerBalance(bk, a, day)
    <2>1. [q \in Rows |-> DebitOf(now.journals[q], a)] = [q \in Rows |-> DebitOf(bk.journals[q], a)]
      BY <1>4
    <2>2. [q \in Rows |-> CreditOf(now.journals[q], a)] = [q \in Rows |-> CreditOf(bk.journals[q], a)]
      BY <1>4
    <2>3. [q \in Rows |-> MovedBy(now.journals[q], a, day)]
            = [q \in Rows |-> MovedBy(bk.journals[q], a, day)]
      BY <1>4
    <2>5. DebitsOf(now, a) = DebitsOf(bk, a)
      <3>1. /\ DebitsOf(now, a) = SumFunction([q \in Rows |-> DebitOf(now.journals[q], a)])
            /\ DebitsOf(bk, a) = SumFunction([q \in Rows |-> DebitOf(bk.journals[q], a)])
        BY DEF DebitsOf, CreditsOf, LedgerBalance, DebitOf, CreditOf, MovedBy
      <3> QED
        BY <2>1, <3>1, Zenon
    <2>6. CreditsOf(now, a) = CreditsOf(bk, a)
      <3>1. /\ CreditsOf(now, a) = SumFunction([q \in Rows |-> CreditOf(now.journals[q], a)])
            /\ CreditsOf(bk, a) = SumFunction([q \in Rows |-> CreditOf(bk.journals[q], a)])
        BY DEF DebitsOf, CreditsOf, LedgerBalance, DebitOf, CreditOf, MovedBy
      <3> QED
        BY <2>2, <3>1, Zenon
    <2>7. LedgerBalance(now, a, day) = LedgerBalance(bk, a, day)
      <3>1. /\ LedgerBalance(now, a, day)
                = SumFunction([q \in Rows |-> MovedBy(now.journals[q], a, day)])
            /\ LedgerBalance(bk, a, day)
                = SumFunction([q \in Rows |-> MovedBy(bk.journals[q], a, day)])
        BY DEF DebitsOf, CreditsOf, LedgerBalance, DebitOf, CreditOf, MovedBy
      <3> QED
        BY <2>3, <3>1, Zenon
    <2> QED
      BY <2>5, <2>6, <2>7
  <1>6. Tied(bk) => Tied(now)
    BY <1>1, <1>5 DEF Tied
  <1>7. ASSUME Single(bk) PROVE Single(now)
    <2>1. ASSUME NEW q \in Reversals(now)
          PROVE  Undoes(now, q)
      <3>1. q \in Rows /\ now.journals[q] # Unused /\ now.journals[q].reversalOf # 0
        BY <2>1 DEF Reversals
      <3>2. q # r
        BY <1>3, <3>1
      <3>3. q \in Reversals(bk) /\ now.journals[q] = bk.journals[q]
        BY <1>2, <3>1, <3>2 DEF Reversals
      <3>4. Undoes(bk, q)
        BY <1>7, <3>3, SingleMeans
      <3>5. bk.journals[q].reversalOf \in Rows
        <4>1. bk.journals[q] \in Journal
          BY <1>1, <3>1, <3>3
        <4> QED
          BY <3>1, <3>3, <4>1 DEF Journal
      <3>6. bk.journals[q].reversalOf # r
        BY <3>4 DEF Undoes
      <3>7. now.journals[bk.journals[q].reversalOf] = bk.journals[bk.journals[q].reversalOf]
        BY <1>2, <3>5, <3>6
      <3> QED
        BY <3>3, <3>4, <3>7 DEF Undoes
    <2> QED
      BY <2>1, MarksDecide
  <1> QED
    BY <1>5, <1>6, <1>7

LEMMA SubmitStep ==
    ASSUME LedgerAssumption, IInv, NEW day \in Days, NEW move \in Moves, SubmitDraft(day, move)
    PROVE  IInv'
  <1> DEFINE draft == [status |-> "Submitted", day |-> day, dr |-> move.dr, cr |-> move.cr,
                       amount |-> move.amount, series |-> "JV", reversalOf |-> 0,
                       reversedBy |-> 0]
  <1>1. PICK r \in Rows :
          /\ work.journals[r] = Unused
          /\ books' = [books EXCEPT !.journals[r] = draft]
          /\ work' = [work EXCEPT !.journals[r] = draft]
    BY DEF SubmitDraft, NextRow
  <1>2. UNCHANGED <<posting, periods, sessions, controls, late>>
    BY DEF SubmitDraft
  <1>3. draft \in Journal /\ draft.status = "Submitted" /\ draft.reversalOf = 0
    BY DEF Journal, Series, LedgerAssumption
  <1> HIDE DEF draft
  <1>4. books \in Books /\ work \in Books /\ TypeOK /\ RowsThere
    BY DEF IInv, TypeOK
  <1>5. books.journals[r] = Unused
    BY <1>1, <1>4 DEF RowsThere
  <1>6. ASSUME NEW bk \in Books
        PROVE  /\ [bk EXCEPT !.journals[r] = draft] \in Books
               /\ [bk EXCEPT !.journals[r] = draft].journals = [bk.journals EXCEPT ![r] = draft]
               /\ DOMAIN bk.journals = Rows
    BY <1>3 DEF Books
  <1>7. /\ books' \in Books /\ work' \in Books
        /\ books'.journals = [books.journals EXCEPT ![r] = draft]
        /\ work'.journals = [work.journals EXCEPT ![r] = draft]
        /\ DOMAIN books.journals = Rows /\ DOMAIN work.journals = Rows
    BY <1>1, <1>4, <1>6
  <1>8. TypeOK'
    BY <1>1, <1>2, <1>4, <1>7 DEF TypeOK, posting, periods
  <1>9. RowsThere'
    <2>1. draft # Unused
      BY <1>3, UsedRow
    <2>2. ASSUME NEW q \in Rows, books'.journals[q] # Unused PROVE work'.journals[q] # Unused
      BY <1>4, <1>7, <2>1, <2>2 DEF RowsThere
    <2>3. ASSUME NEW u \in Postings, pc'[u] = "started", job'[u].kind # "new"
          PROVE  Seen(u)'[job'[u].row] # Unused
      <3>1. pc[u] = "started" /\ job'[u] = job[u] /\ postingLock' = postingLock
        BY <1>2, <2>3 DEF posting
      <3>2. job[u].row \in Rows
        BY <1>4, <2>3, <3>1 DEF TypeOK, Job
      <3>3. Seen(u)[job[u].row] # Unused
        BY <1>4, <2>3, <3>1 DEF RowsThere
      <3> QED
        BY <1>7, <2>1, <3>1, <3>2, <3>3 DEF Seen
    <2> QED
      BY <2>2, <2>3 DEF RowsThere
  <1>10. /\ Tied(books) => Tied(books')
         /\ Single(books) => Single(books')
         /\ \A b, d : LedgerBalance(books', b, d) = LedgerBalance(books, b, d)
    BY <1>1, <1>3, <1>4, <1>5, <1>7, DraftMovesNothing
  <1>11. /\ Tied(work) => Tied(work')
         /\ Single(work) => Single(work')
         /\ \A b, d : LedgerBalance(work', b, d) = LedgerBalance(work, b, d)
    BY <1>1, <1>3, <1>4, <1>7, DraftMovesNothing
  <1>12. Tied(books)' /\ Tied(work)' /\ Single(books)' /\ Single(work)'
    <2>1. Tied(books') /\ Tied(work') /\ Single(books') /\ Single(work')
      BY <1>10, <1>11 DEF IInv
    <2> QED
      BY <2>1 DEF Tied, Single, DebitsOf, CreditsOf
  <1>13. Stands(books)' /\ Stands(work)'
    <2>1. sessions' = sessions /\ Stands(books) /\ Stands(work)
      BY <1>2 DEF IInv
    <2>2. ASSUME NEW b \in Banks, NEW s \in sessions'[b]
          PROVE  /\ LedgerBalance(books', b, s.day) = s.balance
                 /\ LedgerBalance(work', b, s.day) = s.balance
      BY <1>10, <1>11, <2>1, <2>2 DEF Stands
    <2> QED
      BY <2>2 DEF Stands, LedgerBalance
  <1>14. FreshDays' = FreshDays
    <2>1. \A q \in Rows :
             /\ (work'.journals[q].status = "Posted") <=> (work.journals[q].status = "Posted")
             /\ (books'.journals[q].status = "Posted") <=> (books.journals[q].status = "Posted")
             /\ work.journals[q].status = "Posted" => work'.journals[q].day = work.journals[q].day
      BY <1>1, <1>3, <1>5, <1>7 DEF Unused
    <2>2. {k \in Rows : work.journals[k].status = "Posted" /\ books.journals[k].status # "Posted"}
            = {k \in Rows : work'.journals[k].status = "Posted" /\ books'.journals[k].status # "Posted"}
      BY <2>1
    <2> QED
      BY <2>1, <2>2 DEF FreshDays
  <1>15. ClosesLock' /\ \A d \in Days : DayOK(d)'
    BY <1>2, <1>14, SameDays DEF IInv, periods
  <1> QED
    BY <1>8, <1>9, <1>12, <1>13, <1>15 DEF IInv

\* What the periods do: nothing to the books or to postings.
LEMMA PeriodStep ==
    ASSUME LedgerAssumption, IInv, UNCHANGED <<books, work, posting, sessions>>,
           dateLocks' \subseteq Days, monthLocks' \subseteq Periods,
           closes' \in [Periods -> CloseStatus],
           review' \in [Periods -> {"NONE", "IN_REVIEW", "READY_TO_CLOSE"}],
           closing' \subseteq Periods, frozen' \in [Periods -> SUBSET Rows],
           controls' \in Nat, late' \in [Days -> Nat],
           ClosesLock', \A d \in Days : DayOK(d)'
    PROVE  IInv'
  <1>1. TypeOK'
    BY DEF IInv, TypeOK, posting
  <1>2. RowsThere'
    <2>1. \A u \in Postings : Seen(u)' = Seen(u)
      BY DEF Seen, posting
    <2> QED
      BY <2>1 DEF IInv, RowsThere, posting
  <1>3. Stands(books)' /\ Stands(work)' /\ Tied(books)' /\ Tied(work)' /\ Single(books)' /\ Single(work)'
    BY SameBooks, SameStands DEF IInv
  <1> QED
    BY <1>1, <1>2, <1>3 DEF IInv

LEMMA RowsOfType == ASSUME NEW p PROVE RowsOf(p) \subseteq Rows
  BY DEF RowsOf

LEMMA PeriodsStep ==
    ASSUME LedgerAssumption, IInv,
           \/ \E day \in Days : LockDate(day)
           \/ \E p \in Periods :
                 \/ \E status \in {"IN_REVIEW", "READY_TO_CLOSE"} : SaveReview(p, status)
                 \/ ReadEvidence(p) \/ CommitClose(p) \/ AbortClose(p) \/ ReopenPeriod(p)
    PROVE  IInv'
  <1>1. TypeOK /\ ClosesLock /\ \A d \in Days : DayOK(d)
    BY DEF IInv
  <1>2. /\ dateLocks \subseteq Days /\ monthLocks \subseteq Periods
        /\ closes \in [Periods -> CloseStatus]
        /\ review \in [Periods -> {"NONE", "IN_REVIEW", "READY_TO_CLOSE"}]
        /\ closing \subseteq Periods /\ frozen \in [Periods -> SUBSET Rows]
        /\ controls \in Nat /\ late \in [Days -> Nat]
    BY <1>1 DEF TypeOK
  \* Days that are newly barred have seen no late posting.
  <1>3. ASSUME UNCHANGED <<books, work, late>>, \A d \in Days : Barred(d) => Barred(d)'
        PROVE  \A d \in Days : DayOK(d)'
    <2>1. FreshDays' = FreshDays
      BY <1>3 DEF FreshDays
    <2>2. ASSUME NEW d \in Days PROVE DayOK(d)'
      <3>1. DayOK(d) /\ (Barred(d) => Barred(d)') /\ late' = late
        BY <1>1, <1>3
      <3> QED
        BY <2>1, <3>1 DEF DayOK
    <2> QED
      BY <2>2
  <1>4. ASSUME NEW day \in Days, LockDate(day)
        PROVE  IInv'
    <2>1. /\ UNCHANGED <<books, work, posting, monthLocks, closes, review, closing, frozen, sessions, late>>
          /\ dateLocks' = dateLocks \cup {day} /\ controls' = controls + 1
      BY <1>4 DEF LockDate, Controlled
    <2>2. \A d \in Days : Barred(d) => Barred(d)'
      BY <2>1 DEF Barred
    <2>3. ClosesLock'
      BY <1>1, <2>1 DEF ClosesLock
    <2>4. \A d \in Days : DayOK(d)'
      BY <1>3, <2>1, <2>2
    <2> QED
      BY <1>2, <2>1, <2>3, <2>4, PeriodStep
  <1>5. ASSUME NEW p \in Periods, NEW status \in {"IN_REVIEW", "READY_TO_CLOSE"}, SaveReview(p, status)
        PROVE  IInv'
    <2>1. /\ UNCHANGED <<books, work, posting, dateLocks, monthLocks, closing, frozen, sessions, late>>
          /\ controls' = controls + 1 /\ closes[p] # "CLOSED"
          /\ review' = [review EXCEPT ![p] = status] /\ closes' = [closes EXCEPT ![p] = status]
      BY <1>5 DEF SaveReview, Controlled
    <2>2. \A d \in Days : Barred(d) => Barred(d)'
      BY <1>2, <2>1 DEF Barred
    <2>3. ClosesLock' /\ closes' \in [Periods -> CloseStatus]
          /\ review' \in [Periods -> {"NONE", "IN_REVIEW", "READY_TO_CLOSE"}]
      BY <1>1, <1>2, <2>1 DEF ClosesLock, CloseStatus
    <2>4. \A d \in Days : DayOK(d)'
      BY <1>3, <2>1, <2>2
    <2> QED
      BY <1>2, <2>1, <2>3, <2>4, PeriodStep
  <1>6. ASSUME NEW p \in Periods, ReadEvidence(p) \/ AbortClose(p)
        PROVE  IInv'
    <2>1. /\ UNCHANGED <<books, work, posting, dateLocks, monthLocks, closes, review, sessions, late>>
          /\ controls' \in {controls, controls + 1}
          /\ closing' \in {closing \cup {p}, closing \ {p}}
          /\ frozen' \in {[frozen EXCEPT ![p] = RowsOf(p)], [frozen EXCEPT ![p] = {}]}
      BY <1>6 DEF ReadEvidence, AbortClose, Controlled
    <2>2. frozen' \in [Periods -> SUBSET Rows]
      <3>1. RowsOf(p) \in SUBSET Rows /\ {} \in SUBSET Rows
        BY RowsOfType
      <3> QED
        BY <1>2, <2>1, <3>1
    <2>6. closing' \subseteq Periods /\ controls' \in Nat
      BY <1>2, <2>1
    <2>3. \A d \in Days : Barred(d) => Barred(d)'
      BY <2>1 DEF Barred
    <2>4. ClosesLock'
      BY <1>1, <2>1 DEF ClosesLock
    <2>5. \A d \in Days : DayOK(d)'
      BY <1>3, <2>1, <2>3
    <2> QED
      BY <1>2, <2>1, <2>2, <2>4, <2>5, <2>6, PeriodStep
  <1>7. ASSUME NEW p \in Periods, CommitClose(p)
        PROVE  IInv'
    <2>1. /\ UNCHANGED <<books, work, posting, dateLocks, review, sessions, controls, late>>
          /\ closing' = closing \ {p} /\ frozen' = [frozen EXCEPT ![p] = {}]
          /\ monthLocks' = monthLocks \cup {p} /\ closes' = [closes EXCEPT ![p] = "CLOSED"]
      BY <1>7 DEF CommitClose, MonthLocks
    <2>2. /\ frozen' \in [Periods -> SUBSET Rows] /\ closes' \in [Periods -> CloseStatus]
          /\ closing' \subseteq Periods /\ monthLocks' \subseteq Periods
      BY <1>2, <2>1 DEF CloseStatus
    <2>3. \A d \in Days : Barred(d) => Barred(d)'
      BY <1>2, <2>1 DEF Barred
    <2>4. ClosesLock'
      BY <1>1, <1>2, <2>1 DEF ClosesLock
    <2>5. \A d \in Days : DayOK(d)'
      BY <1>3, <2>1, <2>3
    <2> QED
      BY <1>2, <2>1, <2>2, <2>4, <2>5, PeriodStep
  <1>8. ASSUME NEW p \in Periods, ReopenPeriod(p)
        PROVE  IInv'
    <2>1. /\ UNCHANGED <<books, work, posting, dateLocks, review, closing, frozen, sessions, controls>>
          /\ monthLocks' = monthLocks \ {p} /\ closes' = [closes EXCEPT ![p] = "REOPENED"]
          /\ late' = [d \in Days |-> IF Barred(d)' THEN late[d] ELSE 0]
      BY <1>8 DEF ReopenPeriod
    <2>2. /\ closes' \in [Periods -> CloseStatus] /\ monthLocks' \subseteq Periods
          /\ late' \in [Days -> Nat]
      BY <1>2, <2>1 DEF CloseStatus
    <2>3. ClosesLock'
      BY <1>1, <1>2, <2>1 DEF ClosesLock
    <2>4. ASSUME NEW d \in Days PROVE DayOK(d)'
      <3>1. FreshDays' = FreshDays
        BY <2>1 DEF FreshDays
      <3>2. late'[d] = IF Barred(d)' THEN late[d] ELSE 0
        BY <2>1
      <3>3. Barred(d)' => Barred(d)
        BY <1>2, <2>1 DEF Barred
      <3>4. DayOK(d) /\ late[d] \in Nat
        BY <1>1, <1>2
      <3> QED
        BY <3>1, <3>2, <3>3, <3>4 DEF DayOK
    <2> QED
      BY <1>2, <2>1, <2>2, <2>3, <2>4, PeriodStep
  <1> QED
    BY <1>4, <1>5, <1>6, <1>7, <1>8

\* Reconciliations: nobody holds the posting lock while one is completed, so the
\* committed books are the working ones.
LEMMA BankStep ==
    ASSUME LedgerAssumption, IInv, NEW b \in Banks,
           (\E day \in Days : CompleteReconciliation(b, day)) \/ ReopenReconciliation(b)
    PROVE  IInv'
  <1>1. /\ UNCHANGED <<books, work, posting, periods, late>> /\ controls' \in {controls, controls + 1}
        /\ \/ \E day \in Days :
                 /\ postingLock = Free
                 /\ sessions' = [sessions EXCEPT ![b] =
                        @ \cup {[day |-> day, balance |-> LedgerBalance(books, b, day)]}]
           \/ \E last \in sessions[b] : sessions' = [sessions EXCEPT ![b] = @ \ {last}]
    BY DEF CompleteReconciliation, ReopenReconciliation, Controlled, MayComplete
  <1>2. TypeOK
    BY DEF IInv
  <1>3. TypeOK'
    <2>1. DOMAIN sessions' = Banks /\ controls' \in Nat
      BY <1>1, <1>2 DEF TypeOK
    <2>2. \A c \in Banks : \A s \in sessions'[c] : s.day \in Days
      BY <1>1, <1>2 DEF TypeOK
    <2> QED
      BY <1>1, <1>2, <2>1, <2>2 DEF TypeOK, posting, periods
  <1>4. RowsThere'
    <2>1. \A u \in Postings : Seen(u)' = Seen(u)
      BY <1>1 DEF Seen, posting
    <2> QED
      BY <1>1, <2>1 DEF IInv, RowsThere, posting
  <1>5. Tied(books)' /\ Tied(work)' /\ Single(books)' /\ Single(work)'
    BY <1>1, SameBooks DEF IInv
  <1>6. Stands(books)' /\ Stands(work)'
    <2>1. ASSUME NEW c \in Banks, NEW s \in sessions'[c]
          PROVE  LedgerBalance(books, c, s.day) = s.balance /\ LedgerBalance(work, c, s.day) = s.balance
      <3>1. CASE s \in sessions[c]
        BY <3>1 DEF IInv, Stands
      <3>2. CASE s \notin sessions[c]
        <4>1. PICK day \in Days :
                /\ postingLock = Free
                /\ sessions' = [sessions EXCEPT ![b] =
                       @ \cup {[day |-> day, balance |-> LedgerBalance(books, b, day)]}]
          BY <1>1, <1>2, <2>1, <3>2 DEF TypeOK
        <4>2. c = b /\ s = [day |-> day, balance |-> LedgerBalance(books, b, day)]
          BY <1>2, <2>1, <3>2, <4>1 DEF TypeOK
        <4>3. work = books
          BY <1>2, <4>1 DEF TypeOK
        <4> QED
          BY <4>2, <4>3
      <3> QED
        BY <3>1, <3>2
    <2>2. books' = books /\ work' = work
      BY <1>1
    <2>3. ASSUME NEW bk, NEW c, NEW day PROVE LedgerBalance(bk, c, day)' = LedgerBalance(bk', c, day)
      BY DEF LedgerBalance
    <2> QED
      BY <2>1, <2>2 DEF Stands
  <1>7. FreshDays' = FreshDays
    BY <1>1 DEF FreshDays
  <1>8. ClosesLock' /\ \A d \in Days : DayOK(d)'
    BY <1>1, <1>7, SameDays DEF IInv, periods
  <1> QED
    BY <1>3, <1>4, <1>5, <1>6, <1>8 DEF IInv

-----------------------------------------------------------------------------
(* The theorems.                                                           *)

LEMMA InitOK == ASSUME LedgerAssumption, Init PROVE IInv
  <1>1. /\ books \in Books /\ work = books
        /\ \A r \in Rows : books.journals[r] = Unused
        /\ books.balance = [a \in Accounts |-> 0] /\ books.bankBalance = [b \in Banks |-> 0]
    BY DEF Init, Books
  <1>2. TypeOK
    BY <1>1 DEF Init, TypeOK, CloseStatus, Days, LedgerAssumption
  <1>3. RowsThere
    BY <1>1 DEF Init, RowsThere
  <1>4. ASSUME NEW a
        PROVE  DebitsOf(books, a) = 0 /\ CreditsOf(books, a) = 0
    <2>1. \A r \in Rows : books.journals[r].status # "Posted"
      BY <1>1 DEF Unused
    <2>2. /\ [r \in Rows |-> DebitOf(books.journals[r], a)] = [r \in Rows |-> 0]
          /\ [r \in Rows |-> CreditOf(books.journals[r], a)] = [r \in Rows |-> 0]
      BY <2>1 DEF DebitOf, CreditOf
    <2>3. SumFunction([r \in Rows |-> 0]) = 0
      BY RowsFinite, SumZero DEF SumFunction
    <2> QED
      BY <2>2, <2>3, SumsAre
  <1>5. Tied(books)
    <2>1. Banks \subseteq Accounts
      BY DEF LedgerAssumption
    <2> QED
      BY <1>1, <1>4, <2>1 DEF Tied
  <1>6. Single(books)
    BY <1>1 DEF Single
  <1>7. Stands(books)
    BY DEF Init, Stands
  <1>8. ClosesLock
    BY DEF Init, ClosesLock
  <1>9. \A d \in Days : DayOK(d)
    BY DEF Init, DayOK
  <1> QED
    BY <1>1, <1>2, <1>3, <1>5, <1>6, <1>7, <1>8, <1>9 DEF IInv

LEMMA Inductive == ASSUME LedgerAssumption, IInv, [Next]_vars PROVE IInv'
  <1>1. CASE UNCHANGED vars
    <2>1. /\ UNCHANGED <<books, work, posting, periods, sessions, controls, late>>
      BY <1>1 DEF vars
    <2>2. FreshDays' = FreshDays
      BY <2>1 DEF FreshDays
    <2>3. ClosesLock' /\ \A d \in Days : DayOK(d)'
      BY <2>1, <2>2, SameDays DEF IInv, periods
    <2> QED
      BY <2>1, <2>3, PeriodStep DEF IInv, TypeOK, periods
  <1>2. ASSUME NEW t \in Postings, Post(t) PROVE IInv'
    BY <1>2, StartsStep, WriteStep, CommitStep, RollbackStep DEF Post
  <1> QED
    BY <1>1, <1>2, SubmitStep, PeriodsStep, BankStep DEF Next

LEMMA Invariant == Spec => []IInv
  <1>1. Init => IInv
    BY InitOK, LedgerAssumption
  <1>2. IInv /\ [Next]_vars => IInv'
    BY Inductive, LedgerAssumption
  <1> QED
    BY <1>1, <1>2, PTL DEF Spec

\* The ledger's tables, locks and postings are well typed, and what is not
\* committed was written by the holder of the posting lock (postingEngine.ts).
THEOREM TypeCorrect == Spec => []TypeOK
  <1>1. IInv => TypeOK
    BY DEF IInv
  <1> QED
    BY <1>1, Invariant, PTL

\* A journal is reversed at most once, exactly, by either endpoint
\* (ManualJournalService.reverseJournal, reversePostedJournal).
THEOREM ReversesOnce == Spec => []ReversedOnce
  <1>1. IInv => ReversedOnce
    BY DEF IInv, ReversedOnce
  <1> QED
    BY <1>1, Invariant, PTL

\* Balances are the posted debits less the posted credits, or the reverse
\* (postEntry, postExistingDraft).
THEOREM BalancesAddUp == Spec => []BalancesTie
  <1>1. IInv => BalancesTie
    BY DEF IInv, BalancesTie
  <1> QED
    BY <1>1, Invariant, PTL

\* The balance a reconciliation was agreed with stays the ledger's
\* (completeReconciliationSession, assertBankReconciliationCutoff).
THEOREM ReconciliationsStand == Spec => []ReconciledStands
  <1>1. IInv => ReconciledStands
    BY DEF IInv, Stands, ReconciledStands
  <1> QED
    BY <1>1, Invariant, PTL

\* At most one transaction posts onto a day after it was barred (postEntry,
\* createPeriodLock, closePeriod).
THEOREM OneStragglerAtMost == Spec => []OneStraggler
  <1>1. IInv => OneStraggler
    BY DEF IInv, DayOK, OneStraggler
  <1> QED
    BY <1>1, Invariant, PTL

-----------------------------------------------------------------------------
(* Payables: what every row looks like.                                    *)

\* A posted bill is in none of the states before posting, one that was never posted has
\* credited nothing; a bill of the order that waits for approval was submitted for it.
BillOK(r) ==
    /\ r \in Bill
    /\ r.balance = Owed(r) \/ (r.status = "VOIDED" /\ r.balance = 0)
    /\ r.journal = "LIVE" => r.status \notin {"NONE", "DRAFT", "SUBMITTED"}
    /\ r.journal = "NONE" => r.ledger = 0
    /\ r.status = "NONE" => /\ r.paid = 0 /\ r.debited = 0 /\ r.writtenOff = 0
                            /\ r.prepaid = 0 /\ r.drafted = 0
    /\ r.status \in {"NONE", "SUBMITTED"} => r.journal = "NONE"
    /\ r.journal # "REVERSED" => r.returned = 0
    /\ r.status = "SUBMITTED" /\ r.ordered => r.asked

\* The parts of an advance add up to it; a payment that is not posted has none.
PaymentOK(r) ==
    /\ r \in Payment
    /\ r.advance = r.unapplied + SumFunction(r.applied) + r.refunded
    /\ r.status \in {"NONE", "SUBMITTED"} => r.advance = 0

\* The parts of an open note add up to it; of a reversed one a refund may be left.
NoteOK(r) ==
    /\ r \in Note
    /\ r.status = "OPEN" => r.total = r.remaining + SumFunction(r.applied) + r.refunded
    /\ r.status # "OPEN" => r.total = 0 /\ r.remaining = 0 /\ SumFunction(r.applied) = 0
    /\ r.status = "NONE" => r.refunded = 0

BillsOK == bills \in [Bills -> Bill] /\ \A i \in Bills : BillOK(bills[i])
PaymentsOK == payments \in [Payments -> Payment] /\ \A p \in Payments : PaymentOK(payments[p])
NotesOK == notes \in [Notes -> Note] /\ \A n \in Notes : NoteOK(notes[n])

\* What a bill, a payment and a note have in accounts payable, and what a bill has
\* billed to the order.
Live(r) == (IF r.journal = "LIVE" THEN r.ledger ELSE 0) - r.writtenOff
Taken(r) == SumFunction([i \in Bills |-> Settles(r, i)])
Standing(r) == r.total - r.refunded
OnOrder(r) == r.ordered /\ r.journal # "NONE"
Charged(r) == IF r.ordered THEN r.ledger - r.returned + r.drafted ELSE 0

AdvancesTie == advances = SumFunction([p \in Payments |-> payments[p].unapplied])
DebitTies(i) == bills[i].debited = SumFunction([n \in Notes |-> notes[n].applied[i]])
PaidTies(i) ==
    bills[i].paid = bills[i].prepaid + SumFunction([p \in Payments |-> Settles(payments[p], i)])
ControlTies ==
    ap = SumFunction([i \in Bills |-> Live(bills[i])])
         - SumFunction([p \in Payments |-> Taken(payments[p])])
         - SumFunction([n \in Notes |-> Standing(notes[n])])

PayablesTie ==
    /\ AdvancesTie
    /\ ControlTies
    /\ \A i \in Bills : DebitTies(i) /\ PaidTies(i)

\* The order is billed what its bills have billed to it.
OrderOK ==
    /\ order \in [billed: Nat, cancelled: BOOLEAN]
    /\ order.billed = SumFunction([i \in Bills |-> Charged(bills[i])])
    /\ order.billed > MaxAmount => \E i \in Bills : OnOrder(bills[i]) /\ bills[i].asked

\* The invariant that every step keeps.
PayablesInv == BillsOK /\ PaymentsOK /\ NotesOK /\ PayablesTie /\ OrderOK

-----------------------------------------------------------------------------
(* Payables: one bill.                                                     *)

\* Bill s has posted, and billed to the order, what bill r has.
SamePosting(s, r) ==
    /\ s.journal = r.journal /\ s.ledger = r.ledger
    /\ s.ordered = r.ordered /\ s.asked = r.asked /\ s.returned = r.returned
    /\ s.prepaid = r.prepaid /\ s.drafted = r.drafted

LEMMA SettledOK ==
    ASSUME NEW r, BillOK(r), NEW paid \in Nat, NEW debited \in Nat,
           NEW status \in {"PAID", "PARTIALLY_PAID"}
    PROVE  /\ BillOK(Settled(r, paid, debited, status))
           /\ Settled(r, paid, debited, status).paid = paid
           /\ Settled(r, paid, debited, status).debited = debited
           /\ Live(Settled(r, paid, debited, status)) = Live(r)
           /\ SamePosting(Settled(r, paid, debited, status), r)
  <1> DEFINE s == Settled(r, paid, debited, status)
  <1>1. r \in Bill /\ r.total \in Nat /\ r.writtenOff \in Nat
    BY DEF BillOK, Bill
  <1>2. r.total - paid - debited - r.writtenOff \in Int
    BY <1>1
  <1>3. Positive(r.total - paid - debited - r.writtenOff) \in Nat
    BY <1>2 DEF Positive
  <1>4. status \in BillStatus
    BY DEF BillStatus
  <1>5. /\ s \in Bill /\ s.paid = paid /\ s.debited = debited /\ s.status = status
        /\ s.balance = Positive(r.total - paid - debited - r.writtenOff)
        /\ s.total = r.total /\ s.writtenOff = r.writtenOff
        /\ s.journal = r.journal /\ s.ledger = r.ledger
        /\ s.ordered = r.ordered /\ s.asked = r.asked /\ s.returned = r.returned
        /\ s.prepaid = r.prepaid /\ s.drafted = r.drafted
    BY <1>1, <1>3, <1>4 DEF Settled, Bill
  <1> HIDE DEF s
  <1>6. BillOK(s)
    BY <1>5 DEF BillOK, Owed
  <1> QED
    BY <1>5, <1>6 DEF Live, SamePosting, s

LEMMA PaidOK ==
    ASSUME NEW r, BillOK(r), NEW a \in Nat
    PROVE  /\ BillOK(Paid(r, a))
           /\ Paid(r, a).paid = r.paid + a
           /\ Paid(r, a).debited = r.debited
           /\ Live(Paid(r, a)) = Live(r)
           /\ SamePosting(Paid(r, a), r)
  <1>1. r.paid + a \in Nat /\ r.debited \in Nat
    BY DEF BillOK, Bill
  <1>2. SettledStatus(r, a) \in {"PAID", "PARTIALLY_PAID"}
    BY DEF SettledStatus
  <1> QED
    BY <1>1, <1>2, SettledOK DEF Paid

\* The bill after a debit note took a off it.
Debited(r, a) == Settled(r, r.paid, r.debited + a, SettledStatus(r, a))

LEMMA DebitedOK ==
    ASSUME NEW r, BillOK(r), NEW a \in Nat
    PROVE  /\ BillOK(Debited(r, a))
           /\ Debited(r, a).paid = r.paid
           /\ Debited(r, a).debited = r.debited + a
           /\ Live(Debited(r, a)) = Live(r)
           /\ SamePosting(Debited(r, a), r)
  <1>1. r.debited + a \in Nat /\ r.paid \in Nat
    BY DEF BillOK, Bill
  <1>2. SettledStatus(r, a) \in {"PAID", "PARTIALLY_PAID"}
    BY DEF SettledStatus
  <1> QED
    BY <1>1, <1>2, SettledOK DEF Debited

LEMMA RestoredOK ==
    ASSUME NEW r, BillOK(r), NEW paid \in Int, NEW debited \in Int, NEW writtenOff \in Int,
           Restorable(r, paid, debited, writtenOff)
    PROVE  /\ BillOK(Restored(r, paid, debited, writtenOff))
           /\ Restored(r, paid, debited, writtenOff).paid = paid
           /\ Restored(r, paid, debited, writtenOff).debited = debited
           /\ Live(Restored(r, paid, debited, writtenOff)) = Live(r) + r.writtenOff - writtenOff
           /\ SamePosting(Restored(r, paid, debited, writtenOff), r)
  <1> DEFINE s == Restored(r, paid, debited, writtenOff)
             status == CASE paid + debited + writtenOff = r.total -> "PAID"
                         [] paid + debited + writtenOff # r.total /\ paid > 0 -> "PARTIALLY_PAID"
                         [] OTHER -> "POSTED"
             left == r.total - paid - debited - writtenOff
  <1>1. r \in Bill /\ r.total \in Nat /\ r.writtenOff \in Nat /\ r.ledger \in Nat
    BY DEF BillOK, Bill
  <1>2. /\ paid \in Nat /\ debited \in Nat /\ writtenOff \in Nat
        /\ left \in Nat
    BY <1>1 DEF Restorable
  <1>3. status \in {"PAID", "PARTIALLY_PAID", "POSTED"}
    OBVIOUS
  <1>4. status \in BillStatus
    BY <1>3 DEF BillStatus
  <1>5. s = [r EXCEPT !.paid = paid, !.debited = debited, !.writtenOff = writtenOff,
                      !.balance = left, !.status = status]
    BY DEF Restored
  <1>6. left = Positive(r.total - paid - debited - writtenOff)
    BY <1>2 DEF Positive
  <1> HIDE DEF status, left, s
  <1>7. /\ s \in Bill /\ s.paid = paid /\ s.debited = debited /\ s.status = status
        /\ s.balance = left /\ s.total = r.total /\ s.writtenOff = writtenOff
        /\ s.journal = r.journal /\ s.ledger = r.ledger
        /\ s.ordered = r.ordered /\ s.asked = r.asked /\ s.returned = r.returned
        /\ s.prepaid = r.prepaid /\ s.drafted = r.drafted
    BY <1>1, <1>2, <1>4, <1>5 DEF Bill
  <1>8. BillOK(s)
    BY <1>3, <1>6, <1>7 DEF BillOK, Owed
  <1>9. Live(s) = Live(r) + r.writtenOff - writtenOff
    BY <1>1, <1>2, <1>7 DEF Live
  <1> QED
    BY <1>7, <1>8, <1>9 DEF SamePosting, s

\* The bill after a write-off.
WrittenOff(r, a) ==
    [r EXCEPT !.writtenOff = a, !.balance = Owed(r) - a,
              !.status = IF Owed(r) = a THEN "WRITTEN_OFF" ELSE r.status]

LEMMA WrittenOffOK ==
    ASSUME NEW r, BillOK(r), NEW a \in Nat, a > 0, a <= Owed(r), r.writtenOff = 0, r.status # "NONE"
    PROVE  /\ BillOK(WrittenOff(r, a))
           /\ WrittenOff(r, a).paid = r.paid
           /\ WrittenOff(r, a).debited = r.debited
           /\ Live(WrittenOff(r, a)) = Live(r) - a
           /\ SamePosting(WrittenOff(r, a), r)
  <1> DEFINE s == WrittenOff(r, a)
  <1>1. /\ r \in Bill /\ r.total \in Nat /\ r.paid \in Nat /\ r.debited \in Nat /\ r.ledger \in Nat
        /\ r.status \in BillStatus
    BY DEF BillOK, Bill
  <1> DEFINE status == IF Owed(r) = a THEN "WRITTEN_OFF" ELSE r.status
  <1>2. status \in BillStatus /\ status \in {"WRITTEN_OFF", r.status}
    BY <1>1 DEF BillStatus
  <1>3. Owed(r) - a \in Nat /\ Owed(r) - a = Positive(r.total - r.paid - r.debited - a)
    BY <1>1 DEF Owed, Positive
  <1>4. s = [r EXCEPT !.writtenOff = a, !.balance = Owed(r) - a, !.status = status]
    BY DEF WrittenOff
  <1> HIDE DEF status, s
  <1>5. /\ s \in Bill /\ s.paid = r.paid /\ s.debited = r.debited /\ s.status = status
        /\ s.balance = Owed(r) - a /\ s.total = r.total /\ s.writtenOff = a
        /\ s.journal = r.journal /\ s.ledger = r.ledger
        /\ s.ordered = r.ordered /\ s.asked = r.asked /\ s.returned = r.returned
        /\ s.prepaid = r.prepaid /\ s.drafted = r.drafted
    BY <1>1, <1>2, <1>3, <1>4 DEF Bill
  <1>6. BillOK(s)
    <2>1. s.balance = Owed(s)
      BY <1>3, <1>5 DEF Owed
    <2> QED
      BY <1>2, <1>5, <2>1 DEF BillOK
  <1>7. Live(s) = Live(r) - a
    BY <1>1, <1>5 DEF Live
  <1> QED
    BY <1>5, <1>6, <1>7 DEF SamePosting, s

LEMMA EditedOK ==
    ASSUME NEW r, BillOK(r), r.status \notin {"NONE", "VOIDED"}, NEW total \in Nat,
           NEW s, s = [r EXCEPT !.total = total,
                                !.balance = Positive(total - r.paid - r.debited - r.writtenOff)]
    PROVE  /\ BillOK(s) /\ s.paid = r.paid /\ s.debited = r.debited
           /\ Live(s) = Live(r)
           /\ SamePosting(s, r)
  <1>1. r \in Bill /\ r.paid \in Nat /\ r.debited \in Nat /\ r.writtenOff \in Nat
    BY DEF BillOK, Bill
  <1> DEFINE left == Positive(total - r.paid - r.debited - r.writtenOff)
  <1>2. left \in Nat
    BY <1>1 DEF Positive
  <1>3. s = [r EXCEPT !.total = total, !.balance = left]
    OBVIOUS
  <1>4. left = Positive(total - r.paid - r.debited - r.writtenOff)
    OBVIOUS
  <1> HIDE DEF left
  <1>5. /\ s \in Bill /\ s.paid = r.paid /\ s.debited = r.debited /\ s.status = r.status
        /\ s.balance = left /\ s.total = total /\ s.writtenOff = r.writtenOff
        /\ s.journal = r.journal /\ s.ledger = r.ledger
        /\ s.ordered = r.ordered /\ s.asked = r.asked /\ s.returned = r.returned
        /\ s.prepaid = r.prepaid /\ s.drafted = r.drafted
    BY <1>1, <1>2, <1>3 DEF Bill
  <1>6. BillOK(s)
    BY <1>4, <1>5 DEF BillOK, Owed
  <1> QED
    BY <1>5, <1>6 DEF SamePosting, Live

-----------------------------------------------------------------------------
(* Payables: one payment and one note.                                     *)

LEMMA SumsAreInt ==
    ASSUME PayablesAssumption, NEW f, DOMAIN f = Bills, \A i \in Bills : f[i] \in Nat
    PROVE  SumFunction(f) = SumFunctionOnSet(f, Bills) /\ SumFunction(f) \in Nat
  BY SumNat DEF SumFunction, PayablesAssumption

LEMMA NothingSums ==
    ASSUME PayablesAssumption
    PROVE  Nothing \in [Bills -> Nat] /\ SumFunction(Nothing) = 0
  <1>1. Nothing \in [Bills -> Nat] /\ \A i \in Bills : Nothing[i] = 0
    BY DEF Nothing
  <1>2. SumFunctionOnSet(Nothing, Bills) = 0
    BY <1>1, SumZero DEF PayablesAssumption
  <1> QED
    BY <1>1, <1>2 DEF SumFunction

LEMMA SettlesNat ==
    ASSUME PayablesAssumption, NEW r \in Payment
    PROVE  /\ \A i \in Bills : Settles(r, i) \in Nat
           /\ Taken(r) = SumFunctionOnSet([i \in Bills |-> Settles(r, i)], Bills)
           /\ Taken(r) \in Nat
  <1>1. \A i \in Bills : Settles(r, i) \in Nat
    BY DEF Settles, Payment
  <1>2. DOMAIN [i \in Bills |-> Settles(r, i)] = Bills
    OBVIOUS
  <1> QED
    BY <1>1, <1>2, SumsAreInt DEF Taken

LEMMA TakenIs ==
    ASSUME NEW r, NEW f, DOMAIN f = Bills, f = [i \in Bills |-> f[i]],
           \A i \in Bills : Settles(r, i) = f[i]
    PROVE  Taken(r) = SumFunction(f)
  <1>1. [i \in Bills |-> Settles(r, i)] = f
    OBVIOUS
  <1> QED
    BY <1>1, Zenon DEF Taken

\* A row as recordVendorPayment writes it.
LEMMA SentOK ==
    ASSUME PayablesAssumption, NEW status \in {"SUBMITTED", "POSTED", "ADVANCE"}, NEW amount \in Nat,
           NEW portion \in [Bills -> Nat],
           status # "SUBMITTED" => SumFunction(portion) <= amount,
           status = "ADVANCE" => portion = Nothing
    PROVE  /\ PaymentOK(Sent(status, amount, portion))
           /\ \A i \in Bills : Settles(Sent(status, amount, portion), i)
                                     = IF status = "POSTED" THEN portion[i] ELSE 0
           /\ Taken(Sent(status, amount, portion))
                = IF status = "POSTED" THEN SumFunction(portion) ELSE 0
           /\ Sent(status, amount, portion).unapplied
                = IF status = "SUBMITTED" THEN 0 ELSE amount - SumFunction(portion)
  <1> DEFINE advance == IF status = "SUBMITTED" THEN 0 ELSE Positive(amount - SumFunction(portion))
             r == Sent(status, amount, portion)
  <1>1. SumFunction(portion) \in Nat
    BY SumsAreInt
  <1>2. advance \in Nat /\ advance = IF status = "SUBMITTED" THEN 0 ELSE amount - SumFunction(portion)
    BY <1>1 DEF Positive
  <1> HIDE DEF advance
  <1>3. r = [status |-> status, amount |-> amount, allocated |-> portion, advance |-> advance,
             unapplied |-> advance, applied |-> Nothing, refunded |-> 0]
    BY DEF Sent, advance
  <1> HIDE DEF r
  <1>4. Nothing \in [Bills -> Nat] /\ SumFunction(Nothing) = 0
    BY NothingSums
  <1>5. r \in Payment /\ r.applied = Nothing /\ r.refunded = 0 /\ r.advance = advance
          /\ r.unapplied = advance /\ r.status = status /\ r.allocated = portion
    BY <1>2, <1>3, <1>4 DEF Payment
  <1>6. PaymentOK(r)
    <2>1. SumFunction(r.applied) = 0
      BY <1>4, <1>5
    <2> QED
      BY <1>2, <1>5, <2>1 DEF PaymentOK
  <1>7. \A i \in Bills : Settles(r, i) = IF status = "POSTED" THEN portion[i] ELSE 0
    BY <1>5 DEF Settles, Nothing
  <1>8. Taken(r) = IF status = "POSTED" THEN SumFunction(portion) ELSE 0
    <2>1. CASE status = "POSTED"
      BY <1>7, <2>1, TakenIs
    <2>2. CASE status # "POSTED"
      <3>1. \A i \in Bills : Settles(r, i) = Nothing[i]
        BY <1>7, <2>2 DEF Nothing
      <3> QED
        BY <1>4, <2>2, <3>1, TakenIs
    <2> QED
      BY <2>1, <2>2
  <1> QED
    BY <1>2, <1>5, <1>6, <1>7, <1>8 DEF r

LEMMA NoPaymentOK ==
    ASSUME PayablesAssumption
    PROVE  /\ PaymentOK(NoPayment)
           /\ \A i \in Bills : Settles(NoPayment, i) = 0
           /\ Taken(NoPayment) = 0
           /\ NoPayment.unapplied = 0
  <1>1. Nothing \in [Bills -> Nat] /\ SumFunction(Nothing) = 0
    BY NothingSums
  <1>2. NoPayment \in Payment /\ NoPayment.applied = Nothing /\ NoPayment.refunded = 0
          /\ NoPayment.advance = 0 /\ NoPayment.unapplied = 0
    BY <1>1 DEF Payment, NoPayment
  <1>3. \A i \in Bills : Settles(NoPayment, i) = 0 /\ Nothing[i] = 0
    BY DEF NoPayment, Settles, Nothing
  <1>4. Taken(NoPayment) = 0
    BY <1>1, <1>3, TakenIs
  <1>5. SumFunction(NoPayment.applied) = 0
    BY <1>1, <1>2
  <1> QED
    BY <1>2, <1>3, <1>4, <1>5 DEF PaymentOK

\* Nothing of an advance that is whole has been applied or refunded.
LEMMA WholeAdvance ==
    ASSUME PayablesAssumption, NEW r, PaymentOK(r), r.unapplied = r.advance
    PROVE  /\ \A i \in Bills : r.applied[i] = 0
           /\ \A i \in Bills : Settles(r, i) = IF r.status = "POSTED" THEN r.allocated[i] ELSE 0
           /\ Taken(r) = IF r.status = "POSTED" THEN SumFunction(r.allocated) ELSE 0
  <1>1. /\ r \in Payment /\ r.applied \in [Bills -> Nat] /\ r.allocated \in [Bills -> Nat]
        /\ r.refunded \in Nat /\ r.unapplied \in Nat
    BY DEF PaymentOK, Payment
  <1>2. SumFunction(r.applied) \in Nat /\ SumFunction(r.applied) = SumFunctionOnSet(r.applied, Bills)
    BY <1>1, SumsAreInt
  <1>3. SumFunctionOnSet(r.applied, Bills) = 0
    BY <1>1, <1>2 DEF PaymentOK
  <1>4. \A i \in Bills : r.applied[i] = 0
    BY <1>1, <1>3, SumNothing DEF PayablesAssumption
  <1>5. \A i \in Bills : Settles(r, i) = IF r.status = "POSTED" THEN r.allocated[i] ELSE 0
    BY <1>1, <1>4 DEF Settles
  <1>6. CASE r.status = "POSTED"
    BY <1>1, <1>4, <1>5, <1>6, TakenIs
  <1>7. CASE r.status # "POSTED"
    <2>1. \A i \in Bills : Settles(r, i) = Nothing[i]
      BY <1>5, <1>7 DEF Nothing
    <2>2. Nothing \in [Bills -> Nat] /\ SumFunction(Nothing) = 0
      BY NothingSums
    <2> QED
      BY <1>4, <1>5, <1>7, <2>1, <2>2, TakenIs
  <1> QED
    BY <1>6, <1>7, <1>4, <1>5

\* The row after an application, a refund of an advance or of a note, or its reversal.
WithApplied(r, i, u, b) == [r EXCEPT !.unapplied = u, !.applied[i] = b]
WithRefund(r, u, b) == [r EXCEPT !.unapplied = u, !.refunded = b]
WithNoteRefund(r, u, b) == [r EXCEPT !.remaining = u, !.refunded = b]

\* What an application of an advance or its reversal makes of the payment.
LEMMA AppliedChange ==
    ASSUME PayablesAssumption, NEW r, PaymentOK(r), NEW i \in Bills, NEW b \in Nat, NEW u \in Nat,
           u + b = r.unapplied + r.applied[i]
    PROVE  /\ PaymentOK(WithApplied(r, i, u, b))
           /\ WithApplied(r, i, u, b).unapplied = u
           /\ Taken(WithApplied(r, i, u, b)) = Taken(r) + b - r.applied[i]
           /\ \A j \in Bills : Settles(WithApplied(r, i, u, b), j)
                                     = IF j = i THEN Settles(r, j) + b - r.applied[i] ELSE Settles(r, j)
  <1> DEFINE s == WithApplied(r, i, u, b)
  <1>1. /\ r \in Payment /\ r.applied \in [Bills -> Nat] /\ r.allocated \in [Bills -> Nat]
        /\ r.refunded \in Nat /\ r.unapplied \in Nat /\ r.advance \in Nat
    BY DEF PaymentOK, Payment
  <1>2. /\ s \in Payment /\ s.unapplied = u /\ s.applied = [r.applied EXCEPT ![i] = b]
        /\ s.refunded = r.refunded /\ s.advance = r.advance /\ s.status = r.status
        /\ s.allocated = r.allocated
    BY <1>1 DEF Payment, WithApplied
  <1> HIDE DEF s
  <1>3. /\ s.applied \in [Bills -> Nat] /\ s.applied[i] = b
        /\ \A j \in Bills \ {i} : s.applied[j] = r.applied[j]
    BY <1>1, <1>2
  <1>4. SumFunctionOnSet(s.applied, Bills)
          = SumFunctionOnSet(r.applied, Bills) + s.applied[i] - r.applied[i]
    BY <1>1, <1>3, SumChange DEF PayablesAssumption
  <1>5. /\ SumFunction(s.applied) = SumFunctionOnSet(s.applied, Bills)
        /\ SumFunction(r.applied) = SumFunctionOnSet(r.applied, Bills)
        /\ SumFunction(r.applied) \in Nat
    BY <1>1, <1>3, SumsAreInt
  <1>6. PaymentOK(s)
    BY <1>1, <1>2, <1>3, <1>4, <1>5 DEF PaymentOK
  <1>7. \A j \in Bills : /\ Settles(s, j) = IF j = i THEN Settles(r, j) + b - r.applied[i]
                                            ELSE Settles(r, j)
                         /\ Settles(s, j) \in Nat /\ Settles(r, j) \in Nat
    BY <1>1, <1>2, <1>3 DEF Settles
  <1>8. Taken(s) = Taken(r) + b - r.applied[i]
    <2> DEFINE f == [j \in Bills |-> Settles(r, j)]
               g == [j \in Bills |-> Settles(s, j)]
    <2>1. /\ \A j \in Bills : f[j] \in Int /\ g[j] \in Int
          /\ \A j \in Bills \ {i} : f[j] = g[j]
          /\ g[i] = f[i] + b - r.applied[i]
      BY <1>7
    <2>2. Taken(r) = SumFunctionOnSet(f, Bills) /\ Taken(s) = SumFunctionOnSet(g, Bills)
            /\ Taken(r) \in Nat
      BY <1>1, <1>2, SettlesNat
    <2> HIDE DEF f, g
    <2>3. SumFunctionOnSet(g, Bills) = SumFunctionOnSet(f, Bills) + g[i] - f[i]
      BY <2>1, SumChange DEF PayablesAssumption
    <2> QED
      BY <1>1, <2>1, <2>2, <2>3
  <1> QED
    BY <1>2, <1>6, <1>7, <1>8 DEF s

\* What a refund of an advance or its reversal makes of the payment.
LEMMA RefundChange ==
    ASSUME PayablesAssumption, NEW r, PaymentOK(r), NEW b \in Nat, NEW u \in Nat,
           u + b = r.unapplied + r.refunded
    PROVE  /\ PaymentOK(WithRefund(r, u, b))
           /\ WithRefund(r, u, b).unapplied = u
           /\ Taken(WithRefund(r, u, b)) = Taken(r)
           /\ \A j \in Bills : Settles(WithRefund(r, u, b), j) = Settles(r, j)
  <1> DEFINE s == WithRefund(r, u, b)
  <1>1. /\ r \in Payment /\ r.applied \in [Bills -> Nat]
        /\ r.refunded \in Nat /\ r.unapplied \in Nat /\ r.advance \in Nat
    BY DEF PaymentOK, Payment
  <1>2. /\ s \in Payment /\ s.unapplied = u /\ s.applied = r.applied
        /\ s.refunded = b /\ s.advance = r.advance /\ s.status = r.status
        /\ s.allocated = r.allocated
    BY <1>1 DEF Payment, WithRefund
  <1> HIDE DEF s
  <1>3. SumFunction(s.applied) = SumFunction(r.applied) /\ SumFunction(r.applied) \in Nat
    BY <1>1, <1>2, SumsAreInt
  <1>4. PaymentOK(s)
    BY <1>1, <1>2, <1>3 DEF PaymentOK
  <1>5. \A j \in Bills : Settles(s, j) = Settles(r, j)
    BY <1>2 DEF Settles
  <1>6. Taken(s) = Taken(r)
    BY <1>5 DEF Taken
  <1> QED
    BY <1>2, <1>4, <1>5, <1>6 DEF s

\* What a note gives to one bill.
LEMMA OnePortion ==
    ASSUME PayablesAssumption, NEW i \in Bills, NEW a \in Nat
    PROVE  /\ [Nothing EXCEPT ![i] = a] \in [Bills -> Nat]
           /\ \A j \in Bills : [Nothing EXCEPT ![i] = a][j] = IF j = i THEN a ELSE 0
           /\ SumFunction([Nothing EXCEPT ![i] = a]) = a
  <1> DEFINE f == [Nothing EXCEPT ![i] = a]
  <1>1. Nothing \in [Bills -> Nat] /\ SumFunction(Nothing) = 0 /\ \A j \in Bills : Nothing[j] = 0
    BY NothingSums DEF Nothing
  <1>2. /\ f \in [Bills -> Nat] /\ DOMAIN f = Bills /\ DOMAIN Nothing = Bills
        /\ \A j \in Bills : f[j] = IF j = i THEN a ELSE 0
    BY <1>1
  <1> HIDE DEF f
  <1>3. /\ \A j \in Bills : f[j] \in Int /\ Nothing[j] \in Int
        /\ \A j \in Bills \ {i} : Nothing[j] = f[j]
    BY <1>1, <1>2
  <1>4. IsFiniteSet(Bills)
    BY DEF PayablesAssumption
  <1>5. SumFunction(f) = SumFunction(Nothing) + f[i] - Nothing[i]
    BY <1>2, <1>3, <1>4, RowChange
  <1> QED
    BY <1>1, <1>2, <1>5 DEF f

LEMMA IssuedNoteOK ==
    ASSUME PayablesAssumption, NEW total \in Nat, NEW applied \in [Bills -> Nat],
           SumFunction(applied) <= total
    PROVE  /\ NoteOK(IssuedNote(total, applied))
           /\ IssuedNote(total, applied).applied = applied
           /\ Standing(IssuedNote(total, applied)) = total
  <1> DEFINE s == IssuedNote(total, applied)
             remaining == total - SumFunction(applied)
  <1>1. SumFunction(applied) \in Nat
    BY SumsAreInt
  <1>2. remaining \in Nat /\ total = remaining + SumFunction(applied) + 0
    BY <1>1
  <1> HIDE DEF remaining
  <1>3. s = [status |-> "OPEN", total |-> total, remaining |-> remaining, applied |-> applied,
             refunded |-> 0]
    BY DEF IssuedNote, remaining
  <1>4. /\ s \in Note /\ s.status = "OPEN" /\ s.total = total /\ s.remaining = remaining
        /\ s.applied = applied /\ s.refunded = 0
    BY <1>2, <1>3 DEF Note
  <1> HIDE DEF s
  <1>5. SumFunction(s.applied) = SumFunction(applied)
    BY <1>4
  <1>6. NoteOK(s)
    BY <1>2, <1>4, <1>5 DEF NoteOK
  <1>7. Standing(s) = total
    BY <1>4 DEF Standing
  <1> QED
    BY <1>4, <1>6, <1>7 DEF s

LEMMA NoNoteOK ==
    ASSUME PayablesAssumption
    PROVE  /\ NoteOK(NoNote) /\ Standing(NoNote) = 0
           /\ \A i \in Bills : NoNote.applied[i] = 0
  <1>1. Nothing \in [Bills -> Nat] /\ SumFunction(Nothing) = 0 /\ \A i \in Bills : Nothing[i] = 0
    BY NothingSums DEF Nothing
  <1>2. NoNote \in Note
    BY <1>1 DEF Note, NoNote
  <1> QED
    BY <1>1, <1>2 DEF NoteOK, NoNote, Standing

\* What the reversal of a note leaves: the refund of it, if there was one.
LeftOf(r) == IF r.refunded = 0 THEN NoNote
             ELSE [NoNote EXCEPT !.status = "REVERSED", !.refunded = r.refunded]

LEMMA LeftOK ==
    ASSUME PayablesAssumption, NEW r, NoteOK(r)
    PROVE  /\ NoteOK(LeftOf(r)) /\ Standing(LeftOf(r)) = 0 - r.refunded
           /\ \A i \in Bills : LeftOf(r).applied[i] = 0
  <1>1. r.refunded \in Nat
    BY DEF NoteOK, Note
  <1>2. CASE r.refunded = 0
    BY <1>2, NoNoteOK DEF LeftOf
  <1>3. CASE r.refunded # 0
    <2> DEFINE s == [NoNote EXCEPT !.status = "REVERSED", !.refunded = r.refunded]
    <2>1. Nothing \in [Bills -> Nat] /\ SumFunction(Nothing) = 0 /\ \A i \in Bills : Nothing[i] = 0
      BY NothingSums DEF Nothing
    <2>2. /\ s \in Note /\ s.status = "REVERSED" /\ s.total = 0 /\ s.remaining = 0
          /\ s.applied = Nothing /\ s.refunded = r.refunded
      BY <1>1, <2>1 DEF Note, NoNote
    <2> HIDE DEF s
    <2>3. SumFunction(s.applied) = 0
      BY <2>1, <2>2
    <2>4. NoteOK(s) /\ Standing(s) = 0 - r.refunded /\ \A i \in Bills : s.applied[i] = 0
      BY <2>1, <2>2, <2>3 DEF NoteOK, Standing
    <2>5. LeftOf(r) = s
      BY <1>3 DEF LeftOf, s
    <2> QED
      BY <2>4, <2>5
  <1> QED
    BY <1>2, <1>3

\* What a refund of a note or its reversal makes of the note.
LEMMA NoteRefundChange ==
    ASSUME PayablesAssumption, NEW r, NoteOK(r), NEW b \in Nat, NEW u \in Nat,
           u + b = r.remaining + r.refunded, r.status = "OPEN"
    PROVE  /\ NoteOK(WithNoteRefund(r, u, b))
           /\ WithNoteRefund(r, u, b).applied = r.applied
           /\ Standing(WithNoteRefund(r, u, b)) = Standing(r) + r.refunded - b
  <1> DEFINE s == WithNoteRefund(r, u, b)
  <1>1. /\ r \in Note /\ r.applied \in [Bills -> Nat]
        /\ r.refunded \in Nat /\ r.remaining \in Nat /\ r.total \in Nat
    BY DEF NoteOK, Note
  <1>2. /\ s \in Note /\ s.remaining = u /\ s.applied = r.applied
        /\ s.refunded = b /\ s.total = r.total /\ s.status = r.status
    BY <1>1 DEF Note, WithNoteRefund
  <1> HIDE DEF s
  <1>3. SumFunction(s.applied) = SumFunction(r.applied) /\ SumFunction(r.applied) \in Nat
    BY <1>1, <1>2, SumsAreInt
  <1>4. NoteOK(s)
    BY <1>1, <1>2, <1>3 DEF NoteOK
  <1>5. Standing(s) = Standing(r) + r.refunded - b
    BY <1>1, <1>2 DEF Standing
  <1> QED
    BY <1>2, <1>4, <1>5 DEF s

-----------------------------------------------------------------------------
(* Payables: a step that writes one row and what goes with it.             *)

\* The terms of the control account are integers.
LEMMA TermsInt ==
    ASSUME PayablesAssumption, PayablesInv
    PROVE  /\ SumFunction([i \in Bills |-> Live(bills[i])]) \in Int
           /\ SumFunction([p \in Payments |-> Taken(payments[p])]) \in Int
           /\ SumFunction([n \in Notes |-> Standing(notes[n])]) \in Int
  <1> DEFINE lives == [i \in Bills |-> Live(bills[i])]
             takes == [p \in Payments |-> Taken(payments[p])]
             stands == [n \in Notes |-> Standing(notes[n])]
  <1>1. \A i \in Bills : lives[i] \in Int
    BY DEF Live, PayablesInv, BillsOK, Bill
  <1>2. \A p \in Payments : takes[p] \in Int
    <2>1. \A p \in Payments : payments[p] \in Payment
      BY DEF PayablesInv, PaymentsOK
    <2>2. \A p \in Payments : Taken(payments[p]) \in Nat
      BY <2>1, SettlesNat
    <2> QED
      BY <2>2
  <1>3. \A n \in Notes : stands[n] \in Int
    BY DEF Standing, PayablesInv, NotesOK, Note
  <1>4. DOMAIN lives = Bills /\ DOMAIN stands = Notes /\ DOMAIN takes = Payments
    OBVIOUS
  <1> HIDE DEF lives, takes, stands
  <1>5. SumFunction(lives) \in Int /\ SumFunction(takes) \in Int /\ SumFunction(stands) \in Int
    BY <1>1, <1>2, <1>3, <1>4, RowsInt DEF PayablesAssumption
  <1> QED
    BY <1>5 DEF lives, takes, stands

\* What a row of bills has billed to the order is an integer.
LEMMA ChargedInt ==
    ASSUME NEW r, r \in Bill
    PROVE  Charged(r) \in Int
  BY DEF Charged, Bill

\* The order is billed the same where no bill posts or is voided.
LEMMA OrderKept ==
    ASSUME PayablesInv, order' = order, \A i \in Bills : SamePosting(bills'[i], bills[i])
    PROVE  OrderOK'
  <1>1. ASSUME NEW i \in Bills
        PROVE  /\ Charged(bills'[i]) = Charged(bills[i])
               /\ (OnOrder(bills[i]) /\ bills[i].asked) => (OnOrder(bills'[i]) /\ bills'[i].asked)
    BY DEF SamePosting, Charged, OnOrder
  <1>2. OrderOK
    BY DEF PayablesInv
  <1>3. [i \in Bills |-> Charged(bills'[i])] = [i \in Bills |-> Charged(bills[i])]
    BY <1>1
  <1>4. order'.billed = SumFunction([i \in Bills |-> Charged(bills'[i])])
    BY <1>2, <1>3, Zenon DEF OrderOK
  <1>5. order'.billed > MaxAmount => \E i \in Bills : OnOrder(bills'[i]) /\ bills'[i].asked
    BY <1>1, <1>2 DEF OrderOK
  <1> QED
    BY <1>2, <1>4, <1>5 DEF OrderOK

\* The order is billed what bill i has billed more or less as r, and beyond its total
\* only by a bill that waited for approval.
LEMMA OrderChange ==
    ASSUME PayablesAssumption, PayablesInv, NEW i \in Bills, NEW r, r \in Bill,
           bills' = [bills EXCEPT ![i] = r],
           order' \in [billed: Nat, cancelled: BOOLEAN],
           order'.billed = order.billed + Charged(r) - Charged(bills[i]),
           OnOrder(bills[i]) /\ bills[i].asked => OnOrder(r) /\ r.asked,
           order'.billed > MaxAmount => order.billed > MaxAmount \/ (OnOrder(r) /\ r.asked)
    PROVE  OrderOK'
  <1> DEFINE f == [j \in Bills |-> Charged(bills[j])]
             g == [j \in Bills |-> Charged(bills'[j])]
  <1>1. bills \in [Bills -> Bill] /\ IsFiniteSet(Bills) /\ OrderOK
    BY DEF PayablesInv, BillsOK, PayablesAssumption
  <1>2. /\ bills' \in [Bills -> Bill] /\ bills'[i] = r
        /\ \A j \in Bills \ {i} : bills'[j] = bills[j]
    BY <1>1
  <1>3. \A j \in Bills : f[j] \in Int /\ g[j] \in Int
    BY <1>1, <1>2, ChargedInt
  <1>4. /\ \A j \in Bills \ {i} : f[j] = g[j]
        /\ g[i] = Charged(r) /\ f[i] = Charged(bills[i])
        /\ DOMAIN f = Bills /\ DOMAIN g = Bills
    BY <1>2
  <1>5. order.billed = SumFunction(f)
    BY <1>1 DEF OrderOK
  <1> HIDE DEF f, g
  <1>6. SumFunction(g) = SumFunction(f) + g[i] - f[i] /\ SumFunction(f) \in Int
    BY <1>1, <1>3, <1>4, RowChange
  <1>7. order'.billed = SumFunction(g)
    BY <1>3, <1>4, <1>5, <1>6
  <1>8. order'.billed > MaxAmount => \E j \in Bills : OnOrder(bills'[j]) /\ bills'[j].asked
    <2> SUFFICES ASSUME order'.billed > MaxAmount
                 PROVE  \E j \in Bills : OnOrder(bills'[j]) /\ bills'[j].asked
      OBVIOUS
    <2>1. CASE OnOrder(r) /\ r.asked
      BY <1>2, <2>1
    <2>2. CASE ~(OnOrder(r) /\ r.asked)
      <3>1. order.billed > MaxAmount
        BY <2>2
      <3>2. PICK j \in Bills : OnOrder(bills[j]) /\ bills[j].asked
        BY <1>1, <3>1 DEF OrderOK
      <3>3. j # i
        BY <2>2, <3>2
      <3> QED
        BY <1>2, <3>2, <3>3
    <2> QED
      BY <2>1, <2>2
  <1> QED
    BY <1>7, <1>8 DEF OrderOK, g

\* Payment p becomes r, and every bill shows as paid what it settles more or less.
PaymentMove(p, r) ==
    /\ PaymentOK(r)
    /\ payments' = [payments EXCEPT ![p] = r]
    /\ BillsOK'
    /\ \A i \in Bills :
          /\ Live(bills'[i]) = Live(bills[i])
          /\ bills'[i].debited = bills[i].debited
          /\ bills'[i].paid = bills[i].paid + Settles(r, i) - Settles(payments[p], i)
          /\ SamePosting(bills'[i], bills[i])
    /\ ap' = ap + Taken(payments[p]) - Taken(r)
    /\ advances' = advances - payments[p].unapplied + r.unapplied
    /\ UNCHANGED <<notes, order>>

LEMMA PaymentMoveOK ==
    ASSUME PayablesAssumption, PayablesInv, NEW p \in Payments, NEW r, PaymentMove(p, r)
    PROVE  PayablesInv'
  <1>0. /\ payments \in [Payments -> Payment] /\ r \in Payment /\ PaymentOK(r) /\ BillsOK'
        /\ IsFiniteSet(Payments) /\ IsFiniteSet(Bills) /\ IsFiniteSet(Notes)
        /\ notes' = notes
    BY DEF PayablesInv, PaymentsOK, PaymentMove, PaymentOK, PayablesAssumption
  <1>1. /\ payments' \in [Payments -> Payment] /\ payments'[p] = r
        /\ \A q \in Payments \ {p} : payments'[q] = payments[q]
    BY <1>0 DEF PaymentMove
  <1>2. PaymentsOK'
    BY <1>0, <1>1 DEF PayablesInv, PaymentsOK, PaymentOK
  <1>3. NotesOK'
    BY <1>0 DEF PayablesInv, NotesOK, NoteOK
  <1>4. AdvancesTie'
    <2> DEFINE f == [q \in Payments |-> payments[q].unapplied]
               g == [q \in Payments |-> payments'[q].unapplied]
    <2>1. /\ \A q \in Payments : f[q] \in Int /\ g[q] \in Int
          /\ \A q \in Payments \ {p} : f[q] = g[q]
          /\ g[p] = r.unapplied /\ f[p] = payments[p].unapplied
          /\ DOMAIN f = Payments /\ DOMAIN g = Payments
      BY <1>0, <1>1 DEF Payment
    <2>2. advances = SumFunction(f)
      BY DEF PayablesInv, PayablesTie, AdvancesTie
    <2> HIDE DEF f, g
    <2>3. SumFunction(g) = SumFunction(f) + g[p] - f[p] /\ SumFunction(f) \in Int
      BY <1>0, <2>1, RowChange
    <2>4. advances' = advances - payments[p].unapplied + r.unapplied
      BY DEF PaymentMove
    <2>5. advances' = SumFunction(g)
      BY <2>1, <2>2, <2>3, <2>4
    <2> QED
      BY <2>5 DEF AdvancesTie, g
  <1>5. ASSUME NEW i \in Bills
        PROVE  DebitTies(i)' /\ PaidTies(i)'
    <2>1. DebitTies(i)'
      BY <1>0 DEF PayablesInv, PayablesTie, DebitTies, PaymentMove
    <2> DEFINE f == [q \in Payments |-> Settles(payments[q], i)]
               g == [q \in Payments |-> Settles(payments'[q], i)]
    <2>2. \A q \in Payments : f[q] \in Nat /\ g[q] \in Nat
      BY <1>0, <1>1, SettlesNat
    <2>3. /\ \A q \in Payments \ {p} : f[q] = g[q]
          /\ g[p] = Settles(r, i) /\ f[p] = Settles(payments[p], i)
          /\ DOMAIN f = Payments /\ DOMAIN g = Payments
      BY <1>1
    <2>4. bills[i].paid = bills[i].prepaid + SumFunction(f)
      BY DEF PayablesInv, PayablesTie, PaidTies
    <2> HIDE DEF f, g
    <2>5. SumFunction(g) = SumFunction(f) + g[p] - f[p] /\ SumFunction(f) \in Int
      BY <1>0, <2>2, <2>3, RowChange
    <2>6. bills[i].paid \in Nat /\ bills'[i].paid \in Nat /\ bills[i].prepaid \in Nat
      BY DEF PaymentMove, PayablesInv, BillsOK, Bill
    <2>7. bills'[i].paid = bills[i].paid + g[p] - f[p] /\ bills'[i].prepaid = bills[i].prepaid
      BY <2>3 DEF PaymentMove, SamePosting
    <2>8. bills'[i].paid = bills'[i].prepaid + SumFunction(g)
      BY <2>2, <2>3, <2>4, <2>5, <2>6, <2>7
    <2> QED
      BY <2>1, <2>8 DEF PaidTies, g
  <1>6. ControlTies'
    <2> DEFINE f == [q \in Payments |-> Taken(payments[q])]
               g == [q \in Payments |-> Taken(payments'[q])]
               lives == [i \in Bills |-> Live(bills[i])]
               lives1 == [i \in Bills |-> Live(bills'[i])]
               stands == [n \in Notes |-> Standing(notes[n])]
    <2>1. \A q \in Payments : f[q] \in Nat /\ g[q] \in Nat
      BY <1>0, <1>1, SettlesNat
    <2>2. /\ \A q \in Payments \ {p} : f[q] = g[q]
          /\ g[p] = Taken(r) /\ f[p] = Taken(payments[p])
          /\ DOMAIN f = Payments /\ DOMAIN g = Payments
      BY <1>1
    <2>3. lives1 = lives
      BY DEF PaymentMove
    <2>4. SumFunction(lives) \in Int /\ SumFunction(stands) \in Int
      BY TermsInt
    <2>5. ap = SumFunction(lives) - SumFunction(f) - SumFunction(stands)
      BY DEF PayablesInv, PayablesTie, ControlTies
    <2> HIDE DEF f, g, lives, lives1
    <2>6. SumFunction(g) = SumFunction(f) + g[p] - f[p] /\ SumFunction(f) \in Int
      BY <1>0, <2>1, <2>2, RowChange
    <2>7. ap' = ap + Taken(payments[p]) - Taken(r)
      BY DEF PaymentMove
    <2>8. ap' = SumFunction(lives) - SumFunction(g) - SumFunction(stands)
      <3> HIDE DEF stands
      <3> QED
        BY <2>1, <2>2, <2>4, <2>5, <2>6, <2>7
    <2>9. ap' = SumFunction(lives1) - SumFunction(g) - SumFunction(stands)
      BY <2>3, <2>8
    <2> QED
      BY <1>0, <2>9 DEF ControlTies, lives1, g
  <1>7. OrderOK'
    BY OrderKept DEF PaymentMove
  <1> QED
    BY <1>0, <1>2, <1>3, <1>4, <1>5, <1>6, <1>7 DEF PayablesInv, PayablesTie

\* Note n becomes r.
NoteMove(n, r) ==
    /\ NoteOK(r)
    /\ notes' = [notes EXCEPT ![n] = r]
    /\ BillsOK'
    /\ \A i \in Bills :
          /\ Live(bills'[i]) = Live(bills[i])
          /\ bills'[i].paid = bills[i].paid
          /\ bills'[i].debited = bills[i].debited + r.applied[i] - notes[n].applied[i]
          /\ SamePosting(bills'[i], bills[i])
    /\ ap' = ap + Standing(notes[n]) - Standing(r)
    /\ UNCHANGED <<payments, order, advances>>

LEMMA NoteMoveOK ==
    ASSUME PayablesAssumption, PayablesInv, NEW n \in Notes, NEW r, NoteMove(n, r)
    PROVE  PayablesInv'
  <1>0. /\ notes \in [Notes -> Note] /\ r \in Note /\ NoteOK(r) /\ BillsOK'
        /\ IsFiniteSet(Payments) /\ IsFiniteSet(Bills) /\ IsFiniteSet(Notes)
        /\ payments' = payments /\ advances' = advances
    BY DEF PayablesInv, NotesOK, NoteMove, NoteOK, PayablesAssumption
  <1>1. /\ notes' \in [Notes -> Note] /\ notes'[n] = r
        /\ \A m \in Notes \ {n} : notes'[m] = notes[m]
    BY <1>0 DEF NoteMove
  <1>2. NotesOK'
    BY <1>0, <1>1 DEF PayablesInv, NotesOK, NoteOK
  <1>3. PaymentsOK'
    BY <1>0 DEF PayablesInv, PaymentsOK, PaymentOK
  <1>4. AdvancesTie'
    BY <1>0 DEF PayablesInv, PayablesTie, AdvancesTie
  <1>5. ASSUME NEW i \in Bills
        PROVE  DebitTies(i)' /\ PaidTies(i)'
    <2>1. PaidTies(i)'
      BY <1>0 DEF PayablesInv, PayablesTie, PaidTies, NoteMove, SamePosting
    <2> DEFINE f == [m \in Notes |-> notes[m].applied[i]]
               g == [m \in Notes |-> notes'[m].applied[i]]
    <2>2. \A m \in Notes : f[m] \in Nat /\ g[m] \in Nat
      BY <1>0, <1>1 DEF Note
    <2>3. /\ \A m \in Notes \ {n} : f[m] = g[m]
          /\ g[n] = r.applied[i] /\ f[n] = notes[n].applied[i]
          /\ DOMAIN f = Notes /\ DOMAIN g = Notes
      BY <1>1
    <2>4. bills[i].debited = SumFunction(f)
      BY DEF PayablesInv, PayablesTie, DebitTies
    <2> HIDE DEF f, g
    <2>5. SumFunction(g) = SumFunction(f) + g[n] - f[n] /\ SumFunction(f) \in Int
      BY <1>0, <2>2, <2>3, RowChange
    <2>6. bills'[i].debited = bills[i].debited + g[n] - f[n]
      BY <2>3 DEF NoteMove
    <2>7. bills'[i].debited = SumFunction(g)
      BY <2>4, <2>5, <2>6
    <2> QED
      BY <2>1, <2>7 DEF DebitTies, g
  <1>6. ControlTies'
    <2> DEFINE f == [m \in Notes |-> Standing(notes[m])]
               g == [m \in Notes |-> Standing(notes'[m])]
               lives == [i \in Bills |-> Live(bills[i])]
               lives1 == [i \in Bills |-> Live(bills'[i])]
               takes == [p \in Payments |-> Taken(payments[p])]
    <2>1. \A m \in Notes : f[m] \in Int /\ g[m] \in Int
      BY <1>0, <1>1 DEF Standing, Note
    <2>2. /\ \A m \in Notes \ {n} : f[m] = g[m]
          /\ g[n] = Standing(r) /\ f[n] = Standing(notes[n])
          /\ DOMAIN f = Notes /\ DOMAIN g = Notes
      BY <1>1
    <2>3. lives1 = lives
      BY DEF NoteMove
    <2>4. SumFunction(lives) \in Int /\ SumFunction(takes) \in Int
      BY TermsInt
    <2>5. ap = SumFunction(lives) - SumFunction(takes) - SumFunction(f)
      BY DEF PayablesInv, PayablesTie, ControlTies
    <2> HIDE DEF f, g, lives, lives1
    <2>6. SumFunction(g) = SumFunction(f) + g[n] - f[n] /\ SumFunction(f) \in Int
      BY <1>0, <2>1, <2>2, RowChange
    <2>7. ap' = ap + Standing(notes[n]) - Standing(r)
      BY DEF NoteMove
    <2>8. ap' = SumFunction(lives) - SumFunction(takes) - SumFunction(g)
      <3> HIDE DEF takes
      <3> QED
        BY <2>1, <2>2, <2>4, <2>5, <2>6, <2>7
    <2>9. ap' = SumFunction(lives1) - SumFunction(takes) - SumFunction(g)
      BY <2>3, <2>8
    <2> QED
      BY <1>0, <2>9 DEF ControlTies, lives1, g
  <1>7. OrderOK'
    BY OrderKept DEF NoteMove
  <1> QED
    BY <1>0, <1>2, <1>3, <1>4, <1>5, <1>6, <1>7 DEF PayablesInv, PayablesTie

\* What the invariant says of single rows.
LEMMA PayablesRows ==
    ASSUME PayablesInv
    PROVE  /\ DOMAIN bills = Bills
           /\ \A i \in Bills : BillOK(bills[i]) /\ bills[i] \in Bill
           /\ DOMAIN payments = Payments
           /\ \A p \in Payments : PaymentOK(payments[p]) /\ payments[p] \in Payment
           /\ DOMAIN notes = Notes
           /\ \A n \in Notes : NoteOK(notes[n]) /\ notes[n] \in Note
  BY DEF PayablesInv, BillsOK, PaymentsOK, NotesOK

\* Bill i becomes r: no settlement is touched, and the order follows.
BillMove(i, r) ==
    /\ BillOK(r)
    /\ OrderOK'
    /\ bills' = [bills EXCEPT ![i] = r]
    /\ r.paid - r.prepaid = bills[i].paid - bills[i].prepaid
    /\ r.debited = bills[i].debited
    /\ ap' = ap + Live(r) - Live(bills[i])
    /\ UNCHANGED <<payments, notes, advances>>

LEMMA BillMoveOK ==
    ASSUME PayablesAssumption, PayablesInv, NEW i \in Bills, NEW r, BillMove(i, r)
    PROVE  PayablesInv'
  <1>0. /\ bills \in [Bills -> Bill] /\ r \in Bill /\ BillOK(r)
        /\ IsFiniteSet(Payments) /\ IsFiniteSet(Bills) /\ IsFiniteSet(Notes)
        /\ payments' = payments /\ advances' = advances /\ notes' = notes
    BY DEF PayablesInv, BillsOK, BillMove, BillOK, PayablesAssumption
  <1>1. /\ bills' \in [Bills -> Bill] /\ bills'[i] = r
        /\ \A j \in Bills \ {i} : bills'[j] = bills[j]
    BY <1>0 DEF BillMove
  <1>2. BillsOK'
    BY <1>0, <1>1 DEF PayablesInv, BillsOK, BillOK, Owed
  <1>3. PaymentsOK' /\ NotesOK'
    BY <1>0 DEF PayablesInv, PaymentsOK, PaymentOK, NotesOK, NoteOK
  <1>4. AdvancesTie'
    BY <1>0 DEF PayablesInv, PayablesTie, AdvancesTie
  <1>5. ASSUME NEW j \in Bills
        PROVE  DebitTies(j)' /\ PaidTies(j)'
    <2>1. /\ bills'[j].paid - bills'[j].prepaid = bills[j].paid - bills[j].prepaid
          /\ bills'[j].debited = bills[j].debited
      BY <1>1 DEF BillMove
    <2>2. DebitTies(j)'
      BY <1>0, <2>1 DEF PayablesInv, PayablesTie, DebitTies
    <2> DEFINE f == [p \in Payments |-> Settles(payments[p], j)]
    <2>3. bills[j].paid = bills[j].prepaid + SumFunction(f)
      BY DEF PayablesInv, PayablesTie, PaidTies
    <2>4. DOMAIN f = Payments /\ \A p \in Payments : f[p] \in Nat
      BY PayablesRows, SettlesNat
    <2> HIDE DEF f
    <2>5. SumFunction(f) \in Int
      BY <1>0, <2>4, RowsInt
    <2>6. /\ bills[j].paid \in Nat /\ bills[j].prepaid \in Nat
          /\ bills'[j].paid \in Nat /\ bills'[j].prepaid \in Nat
      BY <1>0, <1>1 DEF Bill
    <2>7. bills'[j].paid = bills'[j].prepaid + SumFunction(f)
      BY <2>1, <2>3, <2>5, <2>6
    <2> QED
      BY <1>0, <2>2, <2>7 DEF PaidTies, f
  <1>6. ControlTies'
    <2> DEFINE f == [j \in Bills |-> Live(bills[j])]
               g == [j \in Bills |-> Live(bills'[j])]
               takes == [p \in Payments |-> Taken(payments[p])]
               stands == [n \in Notes |-> Standing(notes[n])]
    <2>1. \A j \in Bills : f[j] \in Int /\ g[j] \in Int
      BY <1>0, <1>1 DEF Live, Bill
    <2>2. /\ \A j \in Bills \ {i} : f[j] = g[j]
          /\ g[i] = Live(r) /\ f[i] = Live(bills[i])
          /\ DOMAIN f = Bills /\ DOMAIN g = Bills
      BY <1>1
    <2>3. SumFunction(stands) \in Int /\ SumFunction(takes) \in Int
      BY TermsInt
    <2>4. ap = SumFunction(f) - SumFunction(takes) - SumFunction(stands)
      BY DEF PayablesInv, PayablesTie, ControlTies
    <2> HIDE DEF f, g
    <2>5. SumFunction(g) = SumFunction(f) + g[i] - f[i] /\ SumFunction(f) \in Int
      BY <1>0, <2>1, <2>2, RowChange
    <2>6. ap' = ap + Live(r) - Live(bills[i])
      BY DEF BillMove
    <2>7. ap' = SumFunction(g) - SumFunction(takes) - SumFunction(stands)
      <3> HIDE DEF takes, stands
      <3> QED
        BY <2>1, <2>2, <2>3, <2>4, <2>5, <2>6
    <2> QED
      BY <1>0, <2>7 DEF ControlTies, g
  <1>7. OrderOK'
    BY DEF BillMove
  <1> QED
    BY <1>0, <1>2, <1>3, <1>4, <1>5, <1>6, <1>7 DEF PayablesInv, PayablesTie

LEMMA AccountsInt ==
    ASSUME PayablesAssumption, PayablesInv
    PROVE  ap \in Int /\ advances \in Int
  <1> DEFINE f == [p \in Payments |-> payments[p].unapplied]
  <1>1. DOMAIN f = Payments /\ \A p \in Payments : f[p] \in Int
    BY DEF PayablesInv, PaymentsOK, Payment
  <1>2. advances = SumFunction(f)
    BY DEF PayablesInv, PayablesTie, AdvancesTie
  <1> HIDE DEF f
  <1>3. advances \in Int
    BY <1>1, <1>2, RowsInt DEF PayablesAssumption
  <1>4. ap = SumFunction([i \in Bills |-> Live(bills[i])])
             - SumFunction([p \in Payments |-> Taken(payments[p])])
             - SumFunction([n \in Notes |-> Standing(notes[n])])
    BY DEF PayablesInv, PayablesTie, ControlTies
  <1>5. ap \in Int
    BY <1>4, TermsInt
  <1> QED
    BY <1>3, <1>5

LEMMA BillsKept ==
    ASSUME PayablesInv, UNCHANGED bills
    PROVE  BillsOK'
  BY DEF PayablesInv, BillsOK, BillOK

LEMMA BillsAre ==
    ASSUME NEW docs, DOMAIN docs = Bills, docs = [i \in Bills |-> docs[i]],
           \A i \in Bills : BillOK(docs[i]), bills' = docs
    PROVE  BillsOK'
  <1>1. \A i \in Bills : docs[i] \in Bill
    BY DEF BillOK
  <1>2. docs \in [Bills -> Bill]
    BY <1>1
  <1> QED
    BY <1>2 DEF BillsOK, BillOK

LEMMA OneBill ==
    ASSUME PayablesInv, NEW i \in Bills, NEW r, BillOK(r), bills' = [bills EXCEPT ![i] = r]
    PROVE  /\ BillsOK'
           /\ bills'[i] = r
           /\ \A j \in Bills : j # i => bills'[j] = bills[j]
  <1>1. bills'[i] = r /\ \A j \in Bills : j # i => bills'[j] = bills[j]
    BY PayablesRows
  <1>2. DOMAIN bills' = Bills /\ \A j \in Bills : BillOK(bills'[j])
    BY <1>1, PayablesRows
  <1> QED
    BY <1>1, <1>2, BillsAre

LEMMA SameOrder ==
    ASSUME PayablesInv, NEW i \in Bills, NEW r, BillOK(r), bills' = [bills EXCEPT ![i] = r],
           SamePosting(r, bills[i]), order' = order
    PROVE  OrderOK'
  <1>1. \A j \in Bills : SamePosting(bills'[j], bills[j])
    BY OneBill DEF SamePosting
  <1> QED
    BY <1>1, OrderKept

-----------------------------------------------------------------------------
(* Payables: the actions on a bill and on the order.                       *)

LEMMA NewBillOK ==
    ASSUME NEW total \in Nat, NEW paid \in Nat, paid <= total,
           NEW status \in BillStatus \ {"NONE"}, NEW ordered \in BOOLEAN,
           NEW r, r = NewBill(total, paid, status, ordered)
    PROVE  /\ BillOK(r) /\ r.paid = paid /\ r.prepaid = paid /\ r.debited = 0
           /\ r.total = total /\ r.status = status /\ r.ordered = ordered
           /\ r.writtenOff = 0 /\ Live(r) = r.ledger
           /\ Charged(r) = IF ordered /\ status # "SUBMITTED" THEN total ELSE 0
  <1> DEFINE posted == Posted(status)
             drafted == IF ordered /\ status = "DRAFT" THEN total ELSE 0
  <1>0. posted \in BOOLEAN /\ (posted <=> status \notin {"DRAFT", "SUBMITTED"}) /\ drafted \in Nat
    BY DEF Posted
  <1>1. /\ r.status = status /\ r.total = total /\ r.paid = paid /\ r.debited = 0 /\ r.writtenOff = 0
        /\ r.balance = total - paid /\ r.journal = (IF posted THEN "LIVE" ELSE "NONE")
        /\ r.ledger = (IF posted THEN total ELSE 0) /\ r.ordered = ordered
        /\ r.asked = (ordered /\ status = "SUBMITTED") /\ r.prepaid = paid
        /\ r.drafted = drafted /\ r.returned = 0
    BY DEF NewBill
  <1>2. total - paid \in Nat
    OBVIOUS
  <1> HIDE DEF posted, drafted
  <1>3. r \in Bill
    <2>1. r = [status |-> status, total |-> total, paid |-> paid, debited |-> 0, writtenOff |-> 0,
               balance |-> total - paid, journal |-> IF posted THEN "LIVE" ELSE "NONE",
               ledger |-> IF posted THEN total ELSE 0, ordered |-> ordered,
               asked |-> ordered /\ status = "SUBMITTED", prepaid |-> paid,
               drafted |-> drafted, returned |-> 0]
      BY DEF NewBill, posted, drafted
    <2>2. (ordered /\ status = "SUBMITTED") \in BOOLEAN
      OBVIOUS
    <2> QED
      BY <1>0, <1>2, <2>1, <2>2 DEF Bill
  <1>4. BillOK(r)
    <2>1. r.balance = Owed(r)
      BY <1>1, <1>2 DEF Owed, Positive
    <2> QED
      BY <1>0, <1>1, <1>3, <2>1 DEF BillOK
  <1>5. Live(r) = r.ledger
    BY <1>0, <1>1 DEF Live
  <1>6. Charged(r) = IF ordered /\ status # "SUBMITTED" THEN total ELSE 0
    BY <1>0, <1>1 DEF Charged, drafted
  <1> QED
    BY <1>1, <1>4, <1>5, <1>6

\* The same bill posted to another payable account than 2000.
LEMMA ElsewhereOK ==
    ASSUME NEW r, BillOK(r), r.writtenOff = 0, ~r.ordered,
           NEW s, s = [r EXCEPT !.ledger = 0]
    PROVE  /\ BillOK(s) /\ s.paid = r.paid /\ s.prepaid = r.prepaid /\ s.debited = r.debited
           /\ s.total = r.total /\ s.status = r.status /\ s.ordered = r.ordered
           /\ Live(s) = s.ledger /\ Charged(s) = 0
  <1>1. r \in Bill
    BY DEF BillOK
  <1>2. /\ s \in Bill /\ s.status = r.status /\ s.total = r.total /\ s.paid = r.paid
        /\ s.debited = r.debited /\ s.writtenOff = r.writtenOff /\ s.balance = r.balance
        /\ s.journal = r.journal /\ s.ledger = 0
        /\ s.ordered = r.ordered /\ s.asked = r.asked /\ s.returned = r.returned
        /\ s.prepaid = r.prepaid /\ s.drafted = r.drafted
    BY <1>1 DEF Bill
  <1>3. BillOK(s)
    BY <1>2 DEF BillOK, Owed
  <1> QED
    BY <1>2, <1>3 DEF Live, Charged

\* A row without a bill has posted and billed nothing.
LEMMA NoBill ==
    ASSUME PayablesInv, NEW i \in Bills, bills[i].status = "NONE"
    PROVE  /\ bills[i].paid = 0 /\ bills[i].prepaid = 0 /\ bills[i].debited = 0
           /\ Live(bills[i]) = 0 /\ ~OnOrder(bills[i]) /\ Charged(bills[i]) = 0
  <1>1. BillOK(bills[i])
    BY PayablesRows
  <1> QED
    BY <1>1 DEF BillOK, Live, OnOrder, Charged

LEMMA OrderType ==
    ASSUME PayablesInv
    PROVE  order \in [billed: Nat, cancelled: BOOLEAN]
  BY DEF PayablesInv, OrderOK

\* A bill that is entered is billed to its order unless it waits for approval, and to
\* the ledger what it posted.
LEMMA EnterStep ==
    ASSUME PayablesAssumption, PayablesInv, NEW i \in Bills, NEW new, Enter(i, new), BillOK(new),
           new.paid = new.prepaid, new.debited = 0, Live(new) = new.ledger,
           Charged(new) = IF new.ordered /\ new.status # "SUBMITTED" THEN new.total ELSE 0
    PROVE  PayablesInv'
  <1>1. /\ ap \in Int /\ order \in [billed: Nat, cancelled: BOOLEAN] /\ MaxAmount \in Nat
        /\ new \in Bill /\ new.total \in Nat /\ new.ledger \in Nat /\ new.paid \in Nat
        /\ new.ordered \in BOOLEAN
    BY AccountsInt, OrderType DEF PayablesAssumption, BillOK, Bill
  <1>2. /\ bills[i].status = "NONE" /\ bills' = [bills EXCEPT ![i] = new]
        /\ new.ordered => new.total <= MaxAmount - order.billed
        /\ order' = IF new.ordered THEN Billed(order, new.total, new.status) ELSE order
        /\ ap' = ap + new.ledger
        /\ UNCHANGED <<payments, notes, advances>>
    BY DEF Enter, Exists
  <1>3. /\ bills[i].paid = 0 /\ bills[i].prepaid = 0 /\ bills[i].debited = 0
        /\ Live(bills[i]) = 0 /\ ~OnOrder(bills[i]) /\ Charged(bills[i]) = 0
    BY <1>2, NoBill
  <1>4. ap' = ap + Live(new) - Live(bills[i])
    BY <1>1, <1>2, <1>3
  <1>5. /\ order' \in [billed: Nat, cancelled: BOOLEAN]
        /\ order'.billed = order.billed + Charged(new) - Charged(bills[i])
        /\ order'.billed > MaxAmount => order.billed > MaxAmount
    <2>1. CASE ~new.ordered \/ new.status = "SUBMITTED"
      <3>1. order' = order
        BY <1>2, <2>1 DEF Billed
      <3> QED
        BY <1>1, <1>3, <2>1, <3>1
    <2>2. CASE new.ordered /\ new.status # "SUBMITTED"
      <3>1. order' = [billed |-> order.billed + new.total, cancelled |-> FALSE]
        BY <1>2, <2>2 DEF Billed
      <3>2. order'.billed = order.billed + new.total /\ order.billed \in Nat
        BY <1>1, <3>1
      <3>3. order' \in [billed: Nat, cancelled: BOOLEAN]
        BY <1>1, <3>1, <3>2
      <3>4. order'.billed = order.billed + Charged(new) - Charged(bills[i])
        BY <1>1, <1>3, <2>2, <3>2
      <3>5. ~(order'.billed > MaxAmount)
        BY <1>1, <1>2, <2>2, <3>2
      <3> QED
        BY <3>3, <3>4, <3>5
    <2> QED
      BY <2>1, <2>2
  <1>6. OrderOK'
    BY <1>1, <1>2, <1>3, <1>5, OrderChange
  <1>7. new.paid - new.prepaid = bills[i].paid - bills[i].prepaid
    BY <1>1, <1>3
  <1>8. BillMove(i, new)
    BY <1>2, <1>3, <1>4, <1>6, <1>7 DEF BillMove
  <1> QED
    BY <1>8, BillMoveOK

LEMMA CreateBillStep ==
    ASSUME PayablesAssumption, PayablesInv, NEW i \in Bills, NEW total \in Amounts,
           NEW status \in BillStatus, NEW elsewhere \in BOOLEAN,
           CreateBill(i, total, status, elsewhere)
    PROVE  PayablesInv'
  <1> DEFINE ordered == FALSE
             r == NewBill(total, 0, status, ordered)
             s == [r EXCEPT !.ledger = 0]
  <1>1. /\ total \in Nat /\ 0 \in Nat /\ 0 <= total /\ ordered \in BOOLEAN
        /\ status \in BillStatus \ {"NONE"}
    BY DEF Amounts, CreateBill, InitialStatus
  <1>2. Enter(i, IF elsewhere THEN s ELSE r)
    BY DEF CreateBill
  <1>3. ordered = FALSE
    OBVIOUS
  <1> HIDE DEF ordered
  <1>4. /\ BillOK(r) /\ r.paid = 0 /\ r.prepaid = 0 /\ r.debited = 0
        /\ r.total = total /\ r.status = status /\ r.ordered = ordered
        /\ r.writtenOff = 0 /\ Live(r) = r.ledger
        /\ Charged(r) = IF ordered /\ status # "SUBMITTED" THEN total ELSE 0
    BY <1>1, NewBillOK
  <1> HIDE DEF r
  <1>5. /\ BillOK(s) /\ s.paid = r.paid /\ s.prepaid = r.prepaid /\ s.debited = r.debited
        /\ s.total = r.total /\ s.status = r.status /\ s.ordered = r.ordered
        /\ Live(s) = s.ledger /\ Charged(s) = 0
    BY <1>3, <1>4, ElsewhereOK
  <1> HIDE DEF s
  <1>6. CASE elsewhere
    <2>1. Enter(i, s)
      BY <1>2, <1>6
    <2> QED
      BY <1>3, <1>4, <1>5, <2>1, EnterStep
  <1>7. CASE ~elsewhere
    <2>1. Enter(i, r)
      BY <1>2, <1>7
    <2> QED
      BY <1>3, <1>4, <2>1, EnterStep
  <1> QED
    BY <1>6, <1>7

LEMMA ConvertOrderStep ==
    ASSUME PayablesAssumption, PayablesInv, NEW i \in Bills, NEW total \in Amounts,
           NEW status \in BillStatus, ConvertOrder(i, total, status)
    PROVE  PayablesInv'
  <1> DEFINE ordered == TRUE
             r == NewBill(total, 0, status, ordered)
  <1>1. /\ total \in Nat /\ 0 \in Nat /\ 0 <= total /\ ordered \in BOOLEAN
        /\ status \in BillStatus \ {"NONE"}
    BY DEF Amounts, ConvertOrder, InitialStatus
  <1>2. Enter(i, r)
    BY DEF ConvertOrder
  <1>3. ordered = TRUE
    OBVIOUS
  <1> HIDE DEF ordered
  <1>4. /\ BillOK(r) /\ r.paid = 0 /\ r.prepaid = 0 /\ r.debited = 0
        /\ r.total = total /\ r.status = status /\ r.ordered = ordered
        /\ r.writtenOff = 0 /\ Live(r) = r.ledger
        /\ Charged(r) = IF ordered /\ status # "SUBMITTED" THEN total ELSE 0
    BY <1>1, NewBillOK
  <1> HIDE DEF r
  <1> QED
    BY <1>2, <1>3, <1>4, EnterStep

LEMMA RecurringBillStep ==
    ASSUME PayablesAssumption, PayablesInv, NEW i \in Bills, NEW total \in Amounts,
           NEW status \in Templates, NEW paid \in 0..MaxAmount, NEW ordered \in BOOLEAN,
           RecurringBill(i, total, paid, status, ordered)
    PROVE  PayablesInv'
  <1> DEFINE entered == CASE status = "POSTED" /\ paid = total -> "PAID"
                          [] status = "POSTED" /\ 0 < paid /\ paid < total -> "PARTIALLY_PAID"
                          [] OTHER -> status
             r == NewBill(total, paid, entered, ordered)
  <1>1. total \in Nat /\ paid \in Nat /\ paid <= total
    BY DEF Amounts, RecurringBill, PayablesAssumption
  <1>2. status \in {"DRAFT", "SUBMITTED", "POSTED", "PARTIALLY_PAID", "PAID",
                    "WRITTEN_OFF", "VOIDED"}
    BY DEF PayablesAssumption
  <1>3. entered \in {"DRAFT", "SUBMITTED", "POSTED", "PARTIALLY_PAID", "PAID",
                     "WRITTEN_OFF", "VOIDED"}
    BY <1>2
  <1>4. Enter(i, r)
    BY DEF RecurringBill
  <1> HIDE DEF entered
  <1>5. entered \in BillStatus \ {"NONE"}
    BY <1>3 DEF BillStatus
  <1>6. /\ BillOK(r) /\ r.paid = paid /\ r.prepaid = paid /\ r.debited = 0
        /\ r.total = total /\ r.status = entered /\ r.ordered = ordered
        /\ r.writtenOff = 0 /\ Live(r) = r.ledger
        /\ Charged(r) = IF ordered /\ entered # "SUBMITTED" THEN total ELSE 0
    BY <1>1, <1>5, NewBillOK
  <1> HIDE DEF r
  <1> QED
    BY <1>4, <1>6, EnterStep

LEMMA PostSubmittedBillStep ==
    ASSUME PayablesAssumption, PayablesInv, NEW i \in Bills, PostSubmittedBill(i)
    PROVE  PayablesInv'
  <1> DEFINE r == bills[i]
             status == CASE r.balance = 0 -> "PAID"
                         [] r.balance # 0 /\ r.paid > 0 -> "PARTIALLY_PAID"
                         [] OTHER -> "POSTED"
             new == [r EXCEPT !.status = status, !.journal = "LIVE", !.ledger = r.total]
  <1>1. /\ ap \in Int /\ BillOK(r) /\ r \in Bill /\ order \in [billed: Nat, cancelled: BOOLEAN]
        /\ r.status = "SUBMITTED" /\ r.total \in Nat /\ r.writtenOff \in Nat
    BY AccountsInt, PayablesRows, OrderType DEF PostSubmittedBill, Bill
  <1>2. status \in {"PAID", "PARTIALLY_PAID", "POSTED"}
    OBVIOUS
  <1>3. /\ order' = IF r.ordered THEN Billed(order, r.total, status) ELSE order
        /\ ap' = ap + r.total
        /\ UNCHANGED <<payments, notes, advances>>
    BY DEF PostSubmittedBill
  <1>4. bills' = [bills EXCEPT ![i] = new]
    BY PayablesRows DEF PostSubmittedBill, Bill
  <1> HIDE DEF status
  <1>5. status \in BillStatus
    BY <1>2 DEF BillStatus
  <1>6. /\ new \in Bill /\ new.paid = r.paid /\ new.debited = r.debited /\ new.status = status
        /\ new.balance = r.balance /\ new.total = r.total /\ new.writtenOff = r.writtenOff
        /\ new.journal = "LIVE" /\ new.ledger = r.total
        /\ new.ordered = r.ordered /\ new.asked = r.asked /\ new.returned = r.returned
        /\ new.prepaid = r.prepaid /\ new.drafted = r.drafted
    BY <1>1, <1>5 DEF Bill
  <1>7. /\ r.journal = "NONE" /\ r.ledger = 0 /\ r.returned = 0
        /\ r.balance = Owed(r) /\ (r.ordered => r.asked) /\ r.drafted \in Nat
    BY <1>1 DEF BillOK, Bill
  <1> HIDE DEF new
  <1>8. BillOK(new)
    BY <1>2, <1>6, <1>7 DEF BillOK, Owed
  <1>9. ap' = ap + Live(new) - Live(r)
    BY <1>1, <1>3, <1>6, <1>7 DEF Live
  <1>10. /\ Charged(r) \in Int /\ ~OnOrder(r)
         /\ Charged(new) = Charged(r) + (IF r.ordered THEN r.total ELSE 0)
         /\ r.ordered => OnOrder(new) /\ new.asked
    BY <1>1, <1>6, <1>7 DEF Charged, OnOrder
  <1>11. /\ order' \in [billed: Nat, cancelled: BOOLEAN]
         /\ order'.billed = order.billed + Charged(new) - Charged(r)
         /\ order'.billed > MaxAmount => order.billed > MaxAmount \/ (OnOrder(new) /\ new.asked)
    <2>1. CASE r.ordered
      <3>1. order' = [billed |-> order.billed + r.total, cancelled |-> FALSE]
        BY <1>2, <1>3, <2>1 DEF Billed
      <3> QED
        BY <1>1, <1>10, <2>1, <3>1
    <2>2. CASE ~r.ordered
      BY <1>1, <1>3, <1>10, <2>2
    <2> QED
      BY <2>1, <2>2
  <1>12. OrderOK'
    BY <1>4, <1>6, <1>10, <1>11, OrderChange
  <1>13. BillMove(i, new)
    BY <1>3, <1>4, <1>6, <1>8, <1>9, <1>12 DEF BillMove, SamePosting
  <1> QED
    BY <1>13, BillMoveOK

LEMMA EditBillStep ==
    ASSUME PayablesAssumption, PayablesInv, NEW i \in Bills, NEW total \in Amounts,
           EditBill(i, total)
    PROVE  PayablesInv'
  <1> DEFINE r == bills[i]
             new == [r EXCEPT !.total = total,
                              !.balance = Positive(total - r.paid - r.debited - r.writtenOff)]
  <1>1. /\ total \in Nat /\ ap \in Int /\ BillOK(r) /\ r \in Bill
        /\ r.status \notin {"NONE", "VOIDED"} /\ Live(r) \in Int
    BY AccountsInt, PayablesRows DEF Amounts, EditBill, Exists, Live, Bill
  <1>2. UNCHANGED <<payments, notes, order, ap, advances>>
    BY DEF EditBill
  <1>3. bills' = [bills EXCEPT ![i] = new]
    BY PayablesRows DEF EditBill, Bill
  <1>4. /\ BillOK(new) /\ new.paid = r.paid /\ new.debited = r.debited
        /\ Live(new) = Live(r) /\ SamePosting(new, r)
    BY <1>1, EditedOK
  <1> HIDE DEF new
  <1>5. OrderOK'
    BY <1>2, <1>3, <1>4, SameOrder
  <1>6. ap' = ap + Live(new) - Live(r)
    BY <1>1, <1>2, <1>4
  <1>7. BillMove(i, new)
    BY <1>2, <1>3, <1>4, <1>5, <1>6 DEF BillMove, SamePosting
  <1> QED
    BY <1>7, BillMoveOK

LEMMA VoidBillStep ==
    ASSUME PayablesAssumption, PayablesInv, NEW i \in Bills, VoidBill(i)
    PROVE  PayablesInv'
  <1> DEFINE r == bills[i]
             returned == IF r.ordered THEN r.total ELSE 0
             new == [r EXCEPT !.status = "VOIDED", !.balance = 0, !.journal = "REVERSED",
                              !.returned = returned]
  <1>1. /\ ap \in Int /\ BillOK(r) /\ r \in Bill /\ order \in [billed: Nat, cancelled: BOOLEAN]
        /\ r.total \in Nat /\ r.ledger \in Nat /\ r.ordered \in BOOLEAN
    BY AccountsInt, PayablesRows, OrderType DEF Bill
  <1>2. /\ r.status # "VOIDED" /\ r.writtenOff = 0 /\ r.journal = "LIVE" /\ returned <= order.billed
        /\ order' = IF r.ordered THEN [billed |-> order.billed - returned, cancelled |-> FALSE]
                                 ELSE order
        /\ ap' = ap - r.ledger
        /\ UNCHANGED <<payments, notes, advances>>
    BY DEF VoidBill
  <1>3. bills' = [bills EXCEPT ![i] = new]
    BY PayablesRows DEF VoidBill, Bill
  <1>4. returned \in Nat /\ (r.ordered => returned = r.total)
    BY <1>1
  <1> HIDE DEF returned
  <1>5. "VOIDED" \in BillStatus
    BY DEF BillStatus
  <1>6. /\ new \in Bill /\ new.paid = r.paid /\ new.debited = r.debited /\ new.status = "VOIDED"
        /\ new.balance = 0 /\ new.writtenOff = r.writtenOff
        /\ new.journal = "REVERSED" /\ new.ledger = r.ledger
        /\ new.ordered = r.ordered /\ new.asked = r.asked /\ new.returned = returned
        /\ new.prepaid = r.prepaid /\ new.drafted = r.drafted
    BY <1>1, <1>4, <1>5 DEF Bill
  <1> HIDE DEF new
  <1>7. BillOK(new)
    BY <1>6 DEF BillOK
  <1>8. ap' = ap + Live(new) - Live(r)
    BY <1>1, <1>2, <1>6 DEF Live
  <1>9. /\ Charged(r) \in Int
        /\ Charged(new) = Charged(r) - (IF r.ordered THEN returned ELSE 0)
        /\ OnOrder(r) /\ r.asked => OnOrder(new) /\ new.asked
    <2>1. r.returned = 0 /\ r.drafted \in Nat
      BY <1>1, <1>2 DEF BillOK, Bill
    <2> QED
      BY <1>1, <1>2, <1>4, <1>6, <2>1 DEF Charged, OnOrder
  <1>10. MaxAmount \in Nat
    BY DEF PayablesAssumption
  <1>11. /\ order' \in [billed: Nat, cancelled: BOOLEAN]
         /\ order'.billed = order.billed + Charged(new) - Charged(r)
         /\ order'.billed > MaxAmount => order.billed > MaxAmount
    BY <1>1, <1>2, <1>4, <1>9, <1>10
  <1>12. OrderOK'
    BY <1>3, <1>6, <1>9, <1>11, OrderChange
  <1>13. BillMove(i, new)
    BY <1>2, <1>3, <1>6, <1>7, <1>8, <1>12 DEF BillMove, SamePosting
  <1> QED
    BY <1>13, BillMoveOK

LEMMA WriteOffStep ==
    ASSUME PayablesAssumption, PayablesInv, NEW i \in Bills,
           (\E a \in Amounts : WriteOff(i, a)) \/ ReverseWriteOff(i)
    PROVE  PayablesInv'
  <1> DEFINE r == bills[i]
  <1>1. /\ ap \in Int /\ BillOK(r) /\ r \in Bill
        /\ Live(r) \in Int /\ r.writtenOff \in Nat /\ r.paid \in Nat /\ r.debited \in Nat
    BY AccountsInt, PayablesRows DEF Live, Bill
  <1>2. ASSUME NEW a \in Amounts, WriteOff(i, a)
        PROVE  PayablesInv'
    <2> DEFINE new == WrittenOff(r, a)
    <2>0. a \in Nat /\ a > 0
      BY DEF Amounts
    <2>1. r.status # "NONE" /\ r.writtenOff = 0 /\ a <= Owed(r)
      BY <1>2, Zenon DEF WriteOff, Exists
    <2>2. ap' = ap - a /\ UNCHANGED <<payments, notes, order, advances>>
      BY <1>2 DEF WriteOff
    <2>3. bills' = [bills EXCEPT ![i] = new]
      BY <1>2, PayablesRows DEF WriteOff, Bill, WrittenOff
    <2>4. /\ BillOK(new) /\ new.paid = r.paid /\ new.debited = r.debited
          /\ Live(new) = Live(r) - a /\ SamePosting(new, r)
      BY <1>1, <2>0, <2>1, WrittenOffOK DEF WrittenOff
    <2> HIDE DEF new
    <2>5. ap' = ap + Live(new) - Live(r)
      BY <1>1, <2>0, <2>2, <2>4
    <2>6. OrderOK'
      BY <2>2, <2>3, <2>4, SameOrder
    <2>7. BillMove(i, new)
      BY <2>2, <2>3, <2>4, <2>5, <2>6 DEF BillMove, SamePosting
    <2> QED
      BY <2>7, BillMoveOK
  <1>3. ASSUME ReverseWriteOff(i)
        PROVE  PayablesInv'
    <2> DEFINE new == Restored(r, r.paid, r.debited, 0)
    <2>1. r.paid \in Int /\ r.debited \in Int /\ 0 \in Int /\ Restorable(r, r.paid, r.debited, 0)
      BY <1>1, <1>3 DEF ReverseWriteOff
    <2>2. BillOK(new) /\ new.paid = r.paid /\ new.debited = r.debited
            /\ Live(new) = Live(r) + r.writtenOff - 0 /\ SamePosting(new, r)
      BY <1>1, <2>1, RestoredOK
    <2>3. bills' = [bills EXCEPT ![i] = new] /\ ap' = ap + r.writtenOff
            /\ UNCHANGED <<payments, notes, order, advances>>
      BY <1>3 DEF ReverseWriteOff
    <2> HIDE DEF new
    <2>4. ap' = ap + Live(new) - Live(r)
      BY <1>1, <2>2, <2>3
    <2>5. OrderOK'
      BY <2>2, <2>3, SameOrder
    <2>6. BillMove(i, new)
      BY <2>2, <2>3, <2>4, <2>5 DEF BillMove, SamePosting
    <2> QED
      BY <2>6, BillMoveOK
  <1> QED
    BY <1>2, <1>3

LEMMA CancelOrderStep ==
    ASSUME PayablesAssumption, PayablesInv, CancelOrder
    PROVE  PayablesInv'
  <1>1. /\ order' = [order EXCEPT !.cancelled = TRUE]
        /\ UNCHANGED <<bills, payments, notes, ap, advances>>
    BY DEF CancelOrder
  <1>2. order' \in [billed: Nat, cancelled: BOOLEAN] /\ order'.billed = order.billed
    BY <1>1, OrderType
  <1>3. OrderOK'
    BY <1>1, <1>2 DEF PayablesInv, OrderOK
  <1>4. BillsOK' /\ PaymentsOK' /\ NotesOK'
    BY <1>1 DEF PayablesInv, BillsOK, BillOK, PaymentsOK, PaymentOK, NotesOK, NoteOK
  <1>5. PayablesTie'
    BY <1>1 DEF PayablesInv, PayablesTie, AdvancesTie, ControlTies, DebitTies, PaidTies
  <1> QED
    BY <1>3, <1>4, <1>5 DEF PayablesInv

-----------------------------------------------------------------------------
(* Payables: the actions on a payment.                                     *)

\* A payment that is not posted has settled nothing and has no advance.
LEMMA IdlePayment ==
    ASSUME PayablesAssumption, NEW r, PaymentOK(r), r.status \in {"NONE", "SUBMITTED"}
    PROVE  r.unapplied = 0 /\ Taken(r) = 0 /\ \A i \in Bills : Settles(r, i) = 0
  <1>1. r.unapplied \in Nat /\ r.refunded \in Nat /\ r.applied \in [Bills -> Nat]
    BY DEF PaymentOK, Payment
  <1>2. SumFunction(r.applied) \in Nat
    BY <1>1, SumsAreInt
  <1>3. r.unapplied = 0 /\ r.unapplied = r.advance
    BY <1>1, <1>2 DEF PaymentOK
  <1> QED
    BY <1>3, WholeAdvance

LEMMA AllocatedOK ==
    ASSUME PayablesInv, NEW portion \in [Bills -> Nat], NEW i \in Bills
    PROVE  /\ BillOK(Allocated(portion)[i])
           /\ Live(Allocated(portion)[i]) = Live(bills[i])
           /\ Allocated(portion)[i].debited = bills[i].debited
           /\ Allocated(portion)[i].paid = bills[i].paid + portion[i]
           /\ SamePosting(Allocated(portion)[i], bills[i])
           /\ bills[i].paid \in Nat
  <1>1. BillOK(bills[i]) /\ bills[i].paid \in Nat /\ portion[i] \in Nat
    BY PayablesRows DEF Bill
  <1>2. CASE portion[i] > 0
    <2>1. Allocated(portion)[i] = Paid(bills[i], portion[i])
      BY <1>2 DEF Allocated
    <2> QED
      BY <1>1, <2>1, PaidOK
  <1>3. CASE ~(portion[i] > 0)
    <2>1. Allocated(portion)[i] = bills[i] /\ portion[i] = 0
      BY <1>1, <1>3 DEF Allocated
    <2> QED
      BY <1>1, <2>1 DEF SamePosting
  <1> QED
    BY <1>2, <1>3

LEMMA PortionTypes ==
    ASSUME PayablesAssumption, NEW portion \in Portions
    PROVE  portion \in [Bills -> Nat] /\ SumFunction(portion) \in Nat
  <1>1. portion \in [Bills -> Nat]
    BY DEF Portions, PayablesAssumption
  <1> QED
    BY <1>1, SumsAreInt

\* A step that changes a payment and no bill.
LEMMA QuietPayment ==
    ASSUME PayablesAssumption, PayablesInv, NEW p \in Payments, NEW r, PaymentOK(r),
           payments' = [payments EXCEPT ![p] = r],
           Taken(r) = Taken(payments[p]),
           \A i \in Bills : Settles(r, i) = Settles(payments[p], i),
           advances' = advances - payments[p].unapplied + r.unapplied,
           UNCHANGED <<bills, notes, order, ap>>
    PROVE  PayablesInv'
  <1>1. /\ ap \in Int /\ payments[p] \in Payment
        /\ \A i \in Bills : bills[i].paid \in Nat
    BY AccountsInt, PayablesRows DEF Bill
  <1>2. Taken(payments[p]) \in Nat /\ \A i \in Bills : Settles(payments[p], i) \in Nat
    BY <1>1, SettlesNat
  <1>3. BillsOK'
    BY BillsKept
  <1>4. \A i \in Bills : /\ Live(bills'[i]) = Live(bills[i])
                         /\ bills'[i].debited = bills[i].debited
                         /\ bills'[i].paid = bills[i].paid + Settles(r, i) - Settles(payments[p], i)
                         /\ SamePosting(bills'[i], bills[i])
    BY <1>1, <1>2 DEF SamePosting
  <1>5. ap' = ap + Taken(payments[p]) - Taken(r)
    BY <1>1, <1>2
  <1>6. PaymentMove(p, r)
    BY <1>3, <1>4, <1>5 DEF PaymentMove
  <1> QED
    BY <1>6, PaymentMoveOK

\* A payment that had settled nothing is posted.
LEMMA PostedPayment ==
    ASSUME PayablesAssumption, PayablesInv, NEW p \in Payments, NEW amount \in Nat,
           NEW portion \in [Bills -> Nat], SumFunction(portion) <= amount,
           payments[p].status \in {"NONE", "SUBMITTED"},
           bills' = Allocated(portion),
           payments' = [payments EXCEPT ![p] = Sent("POSTED", amount, portion)],
           ap' = ap - SumFunction(portion),
           advances' = advances + amount - SumFunction(portion),
           UNCHANGED <<notes, order>>
    PROVE  PayablesInv'
  <1> DEFINE r == Sent("POSTED", amount, portion)
             docs == Allocated(portion)
  <1>1. ap \in Int /\ advances \in Int /\ SumFunction(portion) \in Nat
    BY AccountsInt, SumsAreInt
  <1>2. /\ PaymentOK(r) /\ Taken(r) = SumFunction(portion)
        /\ r.unapplied = amount - SumFunction(portion)
        /\ \A i \in Bills : Settles(r, i) = portion[i]
    BY SentOK
  <1>3. /\ payments[p].unapplied = 0 /\ Taken(payments[p]) = 0
        /\ \A i \in Bills : Settles(payments[p], i) = 0
    BY IdlePayment, PayablesRows
  <1>4. \A i \in Bills : /\ BillOK(docs[i])
                         /\ Live(docs[i]) = Live(bills[i])
                         /\ docs[i].debited = bills[i].debited
                         /\ docs[i].paid = bills[i].paid + portion[i]
                         /\ SamePosting(docs[i], bills[i])
                         /\ bills[i].paid \in Nat
    BY AllocatedOK
  <1>5. DOMAIN docs = Bills /\ docs = [i \in Bills |-> docs[i]] /\ bills' = docs
    BY DEF Allocated
  <1>6. payments' = [payments EXCEPT ![p] = r]
    OBVIOUS
  <1> HIDE DEF r, docs
  <1>7. BillsOK'
    BY <1>4, <1>5, BillsAre
  <1>8. \A i \in Bills : /\ Live(bills'[i]) = Live(bills[i])
                         /\ bills'[i].debited = bills[i].debited
                         /\ bills'[i].paid = bills[i].paid + Settles(r, i) - Settles(payments[p], i)
                         /\ SamePosting(bills'[i], bills[i])
    BY <1>2, <1>3, <1>4, <1>5
  <1>9. /\ ap' = ap + Taken(payments[p]) - Taken(r)
        /\ advances' = advances - payments[p].unapplied + r.unapplied
    BY <1>1, <1>2, <1>3
  <1>10. PaymentMove(p, r)
    BY <1>2, <1>6, <1>7, <1>8, <1>9 DEF PaymentMove
  <1> QED
    BY <1>10, PaymentMoveOK

LEMMA SendPaymentStep ==
    ASSUME PayablesAssumption, PayablesInv, NEW p \in Payments, NEW amount \in Amounts,
           NEW portion \in Portions, SendPayment(p, amount, portion)
    PROVE  PayablesInv'
  <1>1. amount \in Nat /\ portion \in [Bills -> Nat]
    BY PortionTypes DEF Amounts
  <1>2. /\ payments[p].status = "NONE" /\ SumFunction(portion) <= amount
        /\ bills' = Allocated(portion)
        /\ payments' = [payments EXCEPT ![p] = Sent("POSTED", amount, portion)]
        /\ ap' = ap - SumFunction(portion)
        /\ advances' = advances + amount - SumFunction(portion)
        /\ UNCHANGED <<notes, order>>
    BY DEF SendPayment
  <1> QED
    BY <1>1, <1>2, PostedPayment

LEMMA PostSubmittedPaymentStep ==
    ASSUME PayablesAssumption, PayablesInv, NEW p \in Payments, PostSubmittedPayment(p)
    PROVE  PayablesInv'
  <1> DEFINE portion == payments[p].allocated
             amount == payments[p].amount
  <1>1. amount \in Nat /\ portion \in [Bills -> Nat]
    BY PayablesRows DEF Payment
  <1>2. /\ payments[p].status = "SUBMITTED" /\ SumFunction(portion) <= amount
        /\ bills' = Allocated(portion)
        /\ payments' = [payments EXCEPT ![p] = Sent("POSTED", amount, portion)]
        /\ ap' = ap - SumFunction(portion)
        /\ advances' = advances + amount - SumFunction(portion)
        /\ UNCHANGED <<notes, order>>
    BY DEF PostSubmittedPayment
  <1> HIDE DEF portion, amount
  <1> QED
    BY <1>1, <1>2, PostedPayment

LEMMA SubmitPaymentStep ==
    ASSUME PayablesAssumption, PayablesInv, NEW p \in Payments, NEW amount \in Amounts,
           NEW portion \in Portions, SubmitPayment(p, amount, portion)
    PROVE  PayablesInv'
  <1> DEFINE r == Sent("SUBMITTED", amount, portion)
  <1>1. amount \in Nat /\ advances \in Int /\ portion \in [Bills -> Nat]
    BY AccountsInt, PortionTypes DEF Amounts
  <1>2. /\ payments[p].status = "NONE"
        /\ payments' = [payments EXCEPT ![p] = r]
        /\ UNCHANGED <<bills, notes, order, ap, advances>>
    BY DEF SubmitPayment
  <1>3. /\ PaymentOK(r) /\ Taken(r) = 0 /\ r.unapplied = 0
        /\ \A i \in Bills : Settles(r, i) = 0
    BY <1>1, SentOK
  <1>4. /\ payments[p].unapplied = 0 /\ Taken(payments[p]) = 0
        /\ \A i \in Bills : Settles(payments[p], i) = 0
    BY <1>2, IdlePayment, PayablesRows
  <1> HIDE DEF r
  <1>5. advances' = advances - payments[p].unapplied + r.unapplied
    BY <1>1, <1>2, <1>3, <1>4
  <1> QED
    BY <1>2, <1>3, <1>4, <1>5, QuietPayment

LEMMA ReversePaymentStep ==
    ASSUME PayablesAssumption, PayablesInv, NEW p \in Payments, ReversePayment(p)
    PROVE  PayablesInv'
  <1> DEFINE portion == payments[p].allocated
             paid(i) == bills[i].paid - portion[i]
             docs == [i \in Bills |->
                        IF portion[i] > 0
                        THEN Restored(bills[i], paid(i), bills[i].debited, bills[i].writtenOff)
                        ELSE bills[i]]
  <1>1. /\ ap \in Int /\ advances \in Int
        /\ portion \in [Bills -> Nat] /\ SumFunction(portion) \in Nat
        /\ payments[p].advance \in Nat /\ PaymentOK(payments[p])
    BY AccountsInt, PayablesRows, SumsAreInt DEF Payment
  <1>2. /\ payments[p].status = "POSTED" /\ payments[p].unapplied = payments[p].advance
        /\ \A i \in Bills : portion[i] > 0 =>
              Restorable(bills[i], paid(i), bills[i].debited, bills[i].writtenOff)
        /\ bills' = docs
        /\ payments' = [payments EXCEPT ![p] = NoPayment]
        /\ ap' = ap + SumFunction(portion)
        /\ advances' = advances - payments[p].advance
        /\ UNCHANGED <<notes, order>>
    BY DEF ReversePayment, AdvanceWhole
  <1>3. /\ Taken(payments[p]) = SumFunction(portion)
        /\ \A i \in Bills : Settles(payments[p], i) = portion[i]
    BY <1>1, <1>2, WholeAdvance
  <1>4. ASSUME NEW i \in Bills
        PROVE  /\ BillOK(docs[i])
               /\ Live(docs[i]) = Live(bills[i])
               /\ docs[i].debited = bills[i].debited
               /\ docs[i].paid = bills[i].paid - portion[i]
               /\ SamePosting(docs[i], bills[i])
               /\ bills[i].paid \in Nat
    <2>1. BillOK(bills[i]) /\ bills[i].paid \in Nat /\ portion[i] \in Nat
      BY <1>1, PayablesRows DEF Bill
    <2>2. CASE portion[i] > 0
      <3>1. docs[i] = Restored(bills[i], paid(i), bills[i].debited, bills[i].writtenOff)
        BY <2>2
      <3>2. Restorable(bills[i], paid(i), bills[i].debited, bills[i].writtenOff)
        BY <1>2, <2>2
      <3>3. /\ paid(i) \in Int /\ bills[i].debited \in Int /\ bills[i].writtenOff \in Int
            /\ Live(bills[i]) + bills[i].writtenOff - bills[i].writtenOff = Live(bills[i])
        BY <1>1, <2>1, PayablesRows DEF Bill, Live
      <3> QED
        BY <2>1, <3>1, <3>2, <3>3, RestoredOK
    <2>3. CASE ~(portion[i] > 0)
      <3>1. docs[i] = bills[i] /\ portion[i] = 0
        BY <2>1, <2>3
      <3> QED
        BY <2>1, <3>1 DEF SamePosting
    <2> QED
      BY <2>2, <2>3
  <1>5. DOMAIN docs = Bills /\ docs = [i \in Bills |-> docs[i]]
    OBVIOUS
  <1>6. /\ PaymentOK(NoPayment) /\ Taken(NoPayment) = 0 /\ NoPayment.unapplied = 0
        /\ \A i \in Bills : Settles(NoPayment, i) = 0
    BY NoPaymentOK
  <1> HIDE DEF docs, portion
  <1>7. BillsOK'
    BY <1>2, <1>4, <1>5, BillsAre
  <1>8. \A i \in Bills : /\ Live(bills'[i]) = Live(bills[i])
                         /\ bills'[i].debited = bills[i].debited
                         /\ bills'[i].paid = bills[i].paid + Settles(NoPayment, i)
                                              - Settles(payments[p], i)
                         /\ SamePosting(bills'[i], bills[i])
    BY <1>1, <1>2, <1>3, <1>4, <1>6
  <1>9. /\ ap' = ap + Taken(payments[p]) - Taken(NoPayment)
        /\ advances' = advances - payments[p].unapplied + NoPayment.unapplied
    BY <1>1, <1>2, <1>3, <1>6
  <1>10. PaymentMove(p, NoPayment)
    BY <1>2, <1>6, <1>7, <1>8, <1>9 DEF PaymentMove
  <1> QED
    BY <1>10, PaymentMoveOK

LEMMA AdvanceStep ==
    ASSUME PayablesAssumption, PayablesInv, NEW p \in Payments,
           (\E amount \in Amounts : RecordAdvance(p, amount)) \/ ReverseAdvance(p)
    PROVE  PayablesInv'
  <1>1. advances \in Int /\ PaymentOK(payments[p]) /\ payments[p] \in Payment
    BY AccountsInt, PayablesRows
  <1>2. ASSUME NEW amount \in Amounts, RecordAdvance(p, amount)
        PROVE  PayablesInv'
    <2> DEFINE r == Sent("ADVANCE", amount, Nothing)
    <2>1. /\ amount \in Nat
          /\ payments[p].status = "NONE"
          /\ payments' = [payments EXCEPT ![p] = r]
          /\ advances' = advances + amount
          /\ UNCHANGED <<bills, notes, order, ap>>
      BY <1>2 DEF RecordAdvance, Amounts
    <2>2. Nothing \in [Bills -> Nat] /\ SumFunction(Nothing) = 0
      BY NothingSums
    <2>3. /\ PaymentOK(r) /\ Taken(r) = 0 /\ r.unapplied = amount - SumFunction(Nothing)
          /\ \A i \in Bills : Settles(r, i) = 0
      BY <2>1, <2>2, SentOK
    <2>4. /\ payments[p].unapplied = 0 /\ Taken(payments[p]) = 0
          /\ \A i \in Bills : Settles(payments[p], i) = 0
      BY <1>1, <2>1, IdlePayment
    <2> HIDE DEF r
    <2>5. advances' = advances - payments[p].unapplied + r.unapplied
      BY <1>1, <2>1, <2>2, <2>3, <2>4
    <2> QED
      BY <2>1, <2>3, <2>4, <2>5, QuietPayment
  <1>3. ASSUME ReverseAdvance(p)
        PROVE  PayablesInv'
    <2>1. /\ payments[p].status = "ADVANCE" /\ payments[p].unapplied = payments[p].advance
          /\ payments' = [payments EXCEPT ![p] = NoPayment]
          /\ advances' = advances - payments[p].advance
          /\ UNCHANGED <<bills, notes, order, ap>>
      BY <1>3 DEF ReverseAdvance, AdvanceWhole
    <2>2. Taken(payments[p]) = 0 /\ \A i \in Bills : Settles(payments[p], i) = 0
      BY <1>1, <2>1, WholeAdvance
    <2>3. payments[p].advance \in Nat
      BY <1>1 DEF Payment
    <2>4. /\ PaymentOK(NoPayment) /\ Taken(NoPayment) = 0 /\ NoPayment.unapplied = 0
          /\ \A i \in Bills : Settles(NoPayment, i) = 0
      BY NoPaymentOK
    <2>5. advances' = advances - payments[p].unapplied + NoPayment.unapplied
      BY <1>1, <2>1, <2>3, <2>4
    <2> QED
      BY <2>1, <2>2, <2>4, <2>5, QuietPayment
  <1> QED
    BY <1>2, <1>3

LEMMA ApplyAdvanceStep ==
    ASSUME PayablesAssumption, PayablesInv, NEW p \in Payments, NEW i \in Bills,
           NEW a \in Amounts, ApplyAdvance(p, i, a)
    PROVE  PayablesInv'
  <1> DEFINE r == payments[p]
             s == WithApplied(r, i, r.unapplied - a, a)
             doc == Paid(bills[i], a)
  <1>1. /\ ap \in Int /\ advances \in Int /\ PaymentOK(r) /\ r \in Payment /\ a \in Nat
        /\ \A j \in Bills : bills[j].paid \in Nat
    BY AccountsInt, PayablesRows DEF Amounts, Bill
  <1>2. /\ r.applied[i] = 0 /\ a <= r.unapplied /\ a <= Owed(bills[i])
        /\ bills' = [bills EXCEPT ![i] = doc]
        /\ ap' = ap - a /\ advances' = advances - a /\ UNCHANGED <<notes, order>>
    BY DEF ApplyAdvance
  <1>3. payments' = [payments EXCEPT ![p] = s]
    BY PayablesRows DEF ApplyAdvance, Payment, WithApplied
  <1>4. r.unapplied \in Nat /\ r.unapplied - a \in Nat /\ Taken(r) \in Nat
          /\ \A j \in Bills : Settles(r, j) \in Nat
    <2>1. r.unapplied \in Nat
      BY <1>1 DEF Payment
    <2>2. Taken(r) \in Nat /\ \A j \in Bills : Settles(r, j) \in Nat
      BY <1>1, SettlesNat
    <2> QED
      BY <1>1, <1>2, <2>1, <2>2
  <1>5. /\ PaymentOK(s)
        /\ s.unapplied = r.unapplied - a
        /\ Taken(s) = Taken(r) + a - r.applied[i]
        /\ \A j \in Bills : Settles(s, j) = IF j = i THEN Settles(r, j) + a - r.applied[i]
                                               ELSE Settles(r, j)
    <2>1. (r.unapplied - a) + a = r.unapplied + r.applied[i]
      BY <1>1, <1>2, <1>4
    <2> HIDE DEF r
    <2> QED
      BY <1>1, <1>4, <2>1, AppliedChange
  <1>6. BillOK(doc) /\ doc.paid = bills[i].paid + a /\ doc.debited = bills[i].debited
          /\ Live(doc) = Live(bills[i]) /\ SamePosting(doc, bills[i])
    BY <1>1, <1>2, PayablesRows, PaidOK
  <1> HIDE DEF doc, s
  <1>7. BillsOK' /\ bills'[i] = doc /\ \A j \in Bills : j # i => bills'[j] = bills[j]
    BY <1>2, <1>6, OneBill
  <1>8. \A j \in Bills : /\ Live(bills'[j]) = Live(bills[j])
                         /\ bills'[j].debited = bills[j].debited
                         /\ bills'[j].paid = bills[j].paid + Settles(s, j) - Settles(r, j)
                         /\ SamePosting(bills'[j], bills[j])
    BY <1>1, <1>2, <1>4, <1>5, <1>6, <1>7 DEF SamePosting
  <1>9. ap' = ap + Taken(r) - Taken(s) /\ advances' = advances - r.unapplied + s.unapplied
    BY <1>1, <1>2, <1>4, <1>5
  <1>10. PaymentMove(p, s)
    BY <1>2, <1>3, <1>5, <1>7, <1>8, <1>9 DEF PaymentMove
  <1> QED
    BY <1>10, PaymentMoveOK

LEMMA ReverseApplicationStep ==
    ASSUME PayablesAssumption, PayablesInv, NEW p \in Payments, NEW i \in Bills,
           ReverseApplication(p, i)
    PROVE  PayablesInv'
  <1> DEFINE r == payments[p]
             a == r.applied[i]
             s == WithApplied(r, i, r.unapplied + a, 0)
             doc == Restored(bills[i], bills[i].paid - a, bills[i].debited,
                             bills[i].writtenOff)
  <1>1. /\ ap \in Int /\ advances \in Int /\ PaymentOK(r) /\ r \in Payment /\ a \in Nat
        /\ \A j \in Bills : bills[j].paid \in Nat
    BY AccountsInt, PayablesRows DEF Payment, Bill
  <1>2. /\ Restorable(bills[i], bills[i].paid - a, bills[i].debited, bills[i].writtenOff)
        /\ bills' = [bills EXCEPT ![i] = doc]
        /\ ap' = ap + a /\ advances' = advances + a /\ UNCHANGED <<notes, order>>
    BY DEF ReverseApplication
  <1>3. payments' = [payments EXCEPT ![p] = s]
    BY PayablesRows DEF ReverseApplication, Payment, WithApplied
  <1>4. r.unapplied \in Nat /\ r.unapplied + a \in Nat /\ Taken(r) \in Nat
          /\ \A j \in Bills : Settles(r, j) \in Nat
    <2>1. r.unapplied \in Nat
      BY <1>1 DEF Payment
    <2>2. Taken(r) \in Nat /\ \A j \in Bills : Settles(r, j) \in Nat
      BY <1>1, SettlesNat
    <2> QED
      BY <1>1, <2>1, <2>2
  <1>5. /\ PaymentOK(s)
        /\ s.unapplied = r.unapplied + a
        /\ Taken(s) = Taken(r) + 0 - r.applied[i]
        /\ \A j \in Bills : Settles(s, j) = IF j = i THEN Settles(r, j) + 0 - r.applied[i]
                                               ELSE Settles(r, j)
    <2>1. (r.unapplied + a) + 0 = r.unapplied + r.applied[i] /\ 0 \in Nat
      BY <1>1, <1>4
    <2> HIDE DEF r
    <2> QED
      BY <1>1, <1>4, <2>1, AppliedChange
  <1>6. BillOK(doc) /\ doc.paid = bills[i].paid - a /\ doc.debited = bills[i].debited
          /\ Live(doc) = Live(bills[i]) /\ SamePosting(doc, bills[i])
    <2>1. /\ BillOK(bills[i]) /\ bills[i].paid - a \in Int
          /\ bills[i].debited \in Int /\ bills[i].writtenOff \in Int
          /\ Live(bills[i]) + bills[i].writtenOff - bills[i].writtenOff = Live(bills[i])
      BY <1>1, PayablesRows DEF Bill, Live
    <2> QED
      BY <1>2, <2>1, RestoredOK
  <1> HIDE DEF doc, s
  <1>7. BillsOK' /\ bills'[i] = doc /\ \A j \in Bills : j # i => bills'[j] = bills[j]
    BY <1>2, <1>6, OneBill
  <1>8. \A j \in Bills : /\ Live(bills'[j]) = Live(bills[j])
                         /\ bills'[j].debited = bills[j].debited
                         /\ bills'[j].paid = bills[j].paid + Settles(s, j) - Settles(r, j)
                         /\ SamePosting(bills'[j], bills[j])
    BY <1>1, <1>2, <1>4, <1>5, <1>6, <1>7 DEF SamePosting
  <1>9. ap' = ap + Taken(r) - Taken(s) /\ advances' = advances - r.unapplied + s.unapplied
    BY <1>1, <1>2, <1>4, <1>5
  <1>10. PaymentMove(p, s)
    BY <1>2, <1>3, <1>5, <1>7, <1>8, <1>9 DEF PaymentMove
  <1> QED
    BY <1>10, PaymentMoveOK

LEMMA AdvanceRefundStep ==
    ASSUME PayablesAssumption, PayablesInv, NEW p \in Payments,
           (\E a \in Amounts : RefundAdvance(p, a)) \/ ReverseAdvanceRefund(p)
    PROVE  PayablesInv'
  <1> DEFINE r == payments[p]
  <1>1. /\ advances \in Int /\ PaymentOK(r) /\ r \in Payment
        /\ r.unapplied \in Nat /\ r.refunded \in Nat
    BY AccountsInt, PayablesRows DEF Payment
  <1>2. ASSUME NEW u \in Nat, NEW b \in Nat, u + b = r.unapplied + r.refunded,
               payments' = [payments EXCEPT ![p].unapplied = u, ![p].refunded = b],
               advances' = advances + u - r.unapplied,
               UNCHANGED <<bills, notes, order, ap>>
        PROVE  PayablesInv'
    <2> DEFINE s == WithRefund(r, u, b)
    <2>1. payments' = [payments EXCEPT ![p] = s]
      BY <1>2, PayablesRows DEF Payment, WithRefund
    <2>2. /\ PaymentOK(s) /\ s.unapplied = u /\ Taken(s) = Taken(r)
          /\ \A j \in Bills : Settles(s, j) = Settles(r, j)
      <3> HIDE DEF r
      <3> QED
        BY <1>1, <1>2, RefundChange
    <2> HIDE DEF s
    <2>3. advances' = advances - r.unapplied + s.unapplied
      BY <1>1, <1>2, <2>2
    <2> QED
      BY <1>2, <2>1, <2>2, <2>3, QuietPayment
  <1>3. ASSUME NEW a \in Amounts, RefundAdvance(p, a)
        PROVE  PayablesInv'
    <2>0. a \in Nat
      BY DEF Amounts
    <2>1. /\ r.refunded = 0 /\ a <= r.unapplied
          /\ payments' = [payments EXCEPT ![p].unapplied = r.unapplied - a, ![p].refunded = a]
          /\ advances' = advances - a /\ UNCHANGED <<bills, notes, order, ap>>
      BY <1>3, Zenon DEF RefundAdvance
    <2>2. /\ r.unapplied - a \in Nat /\ (r.unapplied - a) + a = r.unapplied + r.refunded
          /\ advances' = advances + (r.unapplied - a) - r.unapplied
      BY <1>1, <2>0, <2>1
    <2> QED
      BY <1>2, <2>0, <2>1, <2>2
  <1>4. ASSUME ReverseAdvanceRefund(p)
        PROVE  PayablesInv'
    <2>1. /\ payments' = [payments EXCEPT ![p].unapplied = r.unapplied + r.refunded, ![p].refunded = 0]
          /\ advances' = advances + r.refunded /\ UNCHANGED <<bills, notes, order, ap>>
      BY <1>4, Zenon DEF ReverseAdvanceRefund
    <2>2. /\ r.unapplied + r.refunded \in Nat /\ 0 \in Nat
          /\ (r.unapplied + r.refunded) + 0 = r.unapplied + r.refunded
          /\ advances' = advances + (r.unapplied + r.refunded) - r.unapplied
      BY <1>1, <2>1
    <2> QED
      BY <1>2, <2>1, <2>2
  <1> QED
    BY <1>3, <1>4

-----------------------------------------------------------------------------
(* Payables: the actions on a debit note.                                  *)

\* A row without a note has given nothing.
LEMMA IdleNote ==
    ASSUME PayablesAssumption, NEW r, NoteOK(r), r.status = "NONE"
    PROVE  Standing(r) = 0 /\ \A i \in Bills : r.applied[i] = 0
  <1>1. r.applied \in [Bills -> Nat]
    BY DEF NoteOK, Note
  <1>2. /\ SumFunction(r.applied) = 0 /\ r.total = 0 /\ r.refunded = 0
        /\ SumFunction(r.applied) = SumFunctionOnSet(r.applied, Bills)
    BY <1>1, SumsAreInt DEF NoteOK
  <1> QED
    BY <1>1, <1>2, SumNothing DEF PayablesAssumption, Standing

LEMMA CreateNoteStep ==
    ASSUME PayablesAssumption, PayablesInv, NEW n \in Notes, NEW total \in Amounts,
           CreateNote(n, total)
    PROVE  PayablesInv'
  <1> DEFINE s == IssuedNote(total, Nothing)
  <1>1. /\ ap \in Int /\ total \in Nat /\ notes[n].status = "NONE" /\ NoteOK(notes[n])
        /\ \A j \in Bills : bills[j].debited \in Nat
    BY AccountsInt, PayablesRows DEF Amounts, Bill, CreateNote
  <1>2. /\ notes' = [notes EXCEPT ![n] = s] /\ ap' = ap - total
        /\ UNCHANGED <<bills, payments, order, advances>>
    BY DEF CreateNote
  <1>3. Standing(notes[n]) = 0 /\ \A j \in Bills : notes[n].applied[j] = 0
    BY <1>1, IdleNote
  <1>4. Nothing \in [Bills -> Nat] /\ SumFunction(Nothing) <= total /\ \A j \in Bills : Nothing[j] = 0
    <2>1. Nothing \in [Bills -> Nat] /\ SumFunction(Nothing) = 0
      BY NothingSums
    <2>2. \A j \in Bills : Nothing[j] = 0
      BY DEF Nothing
    <2> QED
      BY <1>1, <2>1, <2>2
  <1>5. NoteOK(s) /\ s.applied = Nothing /\ Standing(s) = total
    BY <1>1, <1>4, IssuedNoteOK
  <1>6. BillsOK'
    BY <1>2, BillsKept
  <1> HIDE DEF s
  <1>7. \A j \in Bills : /\ Live(bills'[j]) = Live(bills[j])
                         /\ bills'[j].paid = bills[j].paid
                         /\ bills'[j].debited
                              = bills[j].debited + s.applied[j] - notes[n].applied[j]
                         /\ SamePosting(bills'[j], bills[j])
    BY <1>1, <1>2, <1>3, <1>4, <1>5 DEF SamePosting
  <1>8. ap' = ap + Standing(notes[n]) - Standing(s)
    BY <1>1, <1>2, <1>3, <1>5
  <1>9. NoteMove(n, s)
    BY <1>2, <1>5, <1>6, <1>7, <1>8 DEF NoteMove
  <1> QED
    BY <1>9, NoteMoveOK

LEMMA CreateAppliedNoteStep ==
    ASSUME PayablesAssumption, PayablesInv, NEW n \in Notes, NEW total \in Amounts,
           NEW i \in Bills, CreateAppliedNote(n, total, i)
    PROVE  PayablesInv'
  <1> DEFINE r == bills[i]
             a == IF total <= Owed(r) THEN total ELSE Owed(r)
             applied == [Nothing EXCEPT ![i] = a]
             s == IssuedNote(total, applied)
             doc == Debited(r, a)
  <1>1. /\ ap \in Int /\ total \in Nat /\ notes[n].status = "NONE" /\ NoteOK(notes[n])
        /\ BillOK(r) /\ r.paid \in Nat
        /\ \A j \in Bills : bills[j].debited \in Nat
    BY AccountsInt, PayablesRows DEF Amounts, Bill, CreateAppliedNote
  <1>2. Owed(r) \in Nat
    BY PayablesRows DEF Owed, Positive, Bill
  <1>3. a \in Nat /\ a <= total
    BY <1>1, <1>2
  <1>4. /\ notes' = [notes EXCEPT ![n] = s] /\ ap' = ap - total
        /\ bills' = [bills EXCEPT ![i] = doc]
        /\ UNCHANGED <<payments, order, advances>>
    BY DEF CreateAppliedNote, Debited
  <1>5. Standing(notes[n]) = 0 /\ \A j \in Bills : notes[n].applied[j] = 0
    BY <1>1, IdleNote
  <1> HIDE DEF a
  <1>6. /\ applied \in [Bills -> Nat] /\ SumFunction(applied) = a
        /\ \A j \in Bills : applied[j] = IF j = i THEN a ELSE 0
    BY <1>3, OnePortion
  <1> HIDE DEF applied
  <1>7. NoteOK(s) /\ s.applied = applied /\ Standing(s) = total
    BY <1>1, <1>3, <1>6, IssuedNoteOK
  <1>8. /\ BillOK(doc) /\ doc.paid = r.paid /\ doc.debited = r.debited + a
        /\ Live(doc) = Live(r) /\ SamePosting(doc, r)
    BY <1>1, <1>3, DebitedOK
  <1> HIDE DEF s, doc
  <1>9. BillsOK' /\ bills'[i] = doc /\ \A j \in Bills : j # i => bills'[j] = bills[j]
    BY <1>4, <1>8, OneBill
  <1>10. \A j \in Bills : /\ Live(bills'[j]) = Live(bills[j])
                          /\ bills'[j].paid = bills[j].paid
                          /\ bills'[j].debited
                               = bills[j].debited + s.applied[j] - notes[n].applied[j]
                          /\ SamePosting(bills'[j], bills[j])
    BY <1>1, <1>3, <1>5, <1>6, <1>7, <1>8, <1>9 DEF SamePosting
  <1>11. ap' = ap + Standing(notes[n]) - Standing(s)
    BY <1>1, <1>4, <1>5, <1>7
  <1>12. NoteMove(n, s)
    BY <1>4, <1>7, <1>9, <1>10, <1>11 DEF NoteMove
  <1> QED
    BY <1>12, NoteMoveOK

LEMMA ReverseNoteStep ==
    ASSUME PayablesAssumption, PayablesInv, NEW n \in Notes, ReverseNote(n)
    PROVE  PayablesInv'
  <1> DEFINE r == notes[n]
             s == LeftOf(r)
             debited(i) == bills[i].debited - r.applied[i]
             touched == {i \in Bills : r.applied[i] > 0}
             docs == [i \in Bills |->
                        IF i \in touched
                        THEN Restored(bills[i], bills[i].paid, debited(i), bills[i].writtenOff)
                        ELSE bills[i]]
  <1>1. /\ ap \in Int /\ NoteOK(r) /\ r \in Note /\ r.applied \in [Bills -> Nat]
        /\ r.total \in Nat /\ r.refunded \in Nat
    BY AccountsInt, PayablesRows DEF Note
  <1>2. /\ \A i \in touched : Restorable(bills[i], bills[i].paid, debited(i),
                                           bills[i].writtenOff)
        /\ bills' = docs
        /\ notes' = [notes EXCEPT ![n] = s]
        /\ ap' = ap + r.total
        /\ UNCHANGED <<payments, order, advances>>
    BY DEF ReverseNote, LeftOf
  <1>3. ASSUME NEW i \in Bills
        PROVE  /\ BillOK(docs[i])
               /\ Live(docs[i]) = Live(bills[i])
               /\ docs[i].paid = bills[i].paid
               /\ docs[i].debited = bills[i].debited - r.applied[i]
               /\ SamePosting(docs[i], bills[i])
               /\ bills[i].debited \in Nat
    <2>1. BillOK(bills[i]) /\ bills[i].debited \in Nat /\ r.applied[i] \in Nat
      BY <1>1, PayablesRows DEF Bill
    <2>2. CASE i \in touched
      <3>1. docs[i] = Restored(bills[i], bills[i].paid, debited(i), bills[i].writtenOff)
        BY <2>2
      <3>2. /\ bills[i].paid \in Int /\ debited(i) \in Int /\ bills[i].writtenOff \in Int
            /\ Live(bills[i]) + bills[i].writtenOff - bills[i].writtenOff = Live(bills[i])
        BY <2>1, PayablesRows DEF Bill, Live
      <3>3. Restorable(bills[i], bills[i].paid, debited(i), bills[i].writtenOff)
        BY <1>2, <2>2
      <3> QED
        BY <2>1, <3>1, <3>2, <3>3, RestoredOK
    <2>3. CASE i \notin touched
      <3>1. docs[i] = bills[i] /\ r.applied[i] = 0
        BY <2>1, <2>3
      <3> QED
        BY <2>1, <3>1 DEF SamePosting
    <2> QED
      BY <2>2, <2>3
  <1>4. DOMAIN docs = Bills /\ docs = [i \in Bills |-> docs[i]]
    OBVIOUS
  <1>5. NoteOK(s) /\ Standing(s) = 0 - r.refunded /\ \A i \in Bills : s.applied[i] = 0
    BY <1>1, LeftOK
  <1> HIDE DEF docs, s
  <1>6. BillsOK'
    BY <1>2, <1>3, <1>4, BillsAre
  <1>7. \A j \in Bills : /\ Live(bills'[j]) = Live(bills[j])
                         /\ bills'[j].paid = bills[j].paid
                         /\ bills'[j].debited
                              = bills[j].debited + s.applied[j] - r.applied[j]
                         /\ SamePosting(bills'[j], bills[j])
    BY <1>1, <1>2, <1>3, <1>5
  <1>8. ap' = ap + Standing(r) - Standing(s)
    BY <1>1, <1>2, <1>5 DEF Standing
  <1>9. NoteMove(n, s)
    BY <1>2, <1>5, <1>6, <1>7, <1>8 DEF NoteMove
  <1> QED
    BY <1>9, NoteMoveOK

LEMMA NoteRefundStep ==
    ASSUME PayablesAssumption, PayablesInv, NEW n \in Notes,
           (\E a \in Amounts : RefundNote(n, a)) \/ ReverseNoteRefund(n)
    PROVE  PayablesInv'
  <1> DEFINE r == notes[n]
  <1>1. /\ ap \in Int /\ NoteOK(r) /\ r \in Note /\ r.applied \in [Bills -> Nat]
        /\ r.remaining \in Nat /\ r.refunded \in Nat /\ r.total \in Nat
        /\ \A j \in Bills : bills[j].debited \in Nat
    BY AccountsInt, PayablesRows DEF Note, Bill
  <1>2. ASSUME NEW u \in Nat, NEW b \in Nat, u + b = r.remaining + r.refunded, r.status = "OPEN",
               notes' = [notes EXCEPT ![n].remaining = u, ![n].refunded = b],
               ap' = ap + b - r.refunded,
               UNCHANGED <<bills, payments, order, advances>>
        PROVE  PayablesInv'
    <2> DEFINE s == WithNoteRefund(r, u, b)
    <2>1. notes' = [notes EXCEPT ![n] = s]
      BY <1>2, PayablesRows DEF Note, WithNoteRefund
    <2>2. NoteOK(s) /\ s.applied = r.applied /\ Standing(s) = Standing(r) + r.refunded - b
      <3> HIDE DEF r
      <3> QED
        BY <1>1, <1>2, NoteRefundChange
    <2>3. BillsOK'
      BY <1>2, BillsKept
    <2> HIDE DEF s
    <2>4. ap' = ap + Standing(r) - Standing(s)
      <3>1. Standing(r) \in Int
        BY <1>1 DEF Standing
      <3> QED
        BY <1>1, <1>2, <2>2, <3>1
    <2>5. \A j \in Bills : /\ Live(bills'[j]) = Live(bills[j])
                           /\ bills'[j].paid = bills[j].paid
                           /\ bills'[j].debited
                                = bills[j].debited + s.applied[j] - r.applied[j]
                           /\ SamePosting(bills'[j], bills[j])
      BY <1>1, <1>2, <2>2 DEF SamePosting
    <2>6. NoteMove(n, s)
      BY <1>2, <2>1, <2>2, <2>3, <2>4, <2>5 DEF NoteMove
    <2> QED
      BY <2>6, NoteMoveOK
  <1>3. ASSUME NEW a \in Amounts, RefundNote(n, a)
        PROVE  PayablesInv'
    <2>0. a \in Nat /\ a > 0
      BY DEF Amounts
    <2>1. /\ r.refunded = 0 /\ a <= r.remaining
          /\ notes' = [notes EXCEPT ![n].remaining = r.remaining - a, ![n].refunded = a]
          /\ ap' = ap + a /\ UNCHANGED <<bills, payments, order, advances>>
      BY <1>3, Zenon DEF RefundNote
    <2>2. /\ r.remaining - a \in Nat /\ (r.remaining - a) + a = r.remaining + r.refunded
          /\ ap' = ap + a - r.refunded
      BY <1>1, <2>0, <2>1
    <2>3. r.status = "OPEN"
      BY <1>1, <2>0, <2>1 DEF NoteOK
    <2> QED
      BY <1>2, <2>0, <2>1, <2>2, <2>3
  <1>4. ASSUME ReverseNoteRefund(n)
        PROVE  PayablesInv'
    <2>1. /\ r.refunded > 0 /\ r.status # "REVERSED"
          /\ notes' = [notes EXCEPT ![n].remaining = r.remaining + r.refunded, ![n].refunded = 0]
          /\ ap' = ap - r.refunded /\ UNCHANGED <<bills, payments, order, advances>>
      BY <1>4, Zenon DEF ReverseNoteRefund
    <2>2. /\ r.remaining + r.refunded \in Nat /\ 0 \in Nat
          /\ (r.remaining + r.refunded) + 0 = r.remaining + r.refunded
          /\ ap' = ap + 0 - r.refunded
      BY <1>1, <2>1
    <2>3. r.status = "OPEN"
      BY <1>1, <2>1 DEF NoteOK, Note
    <2> QED
      BY <1>2, <2>1, <2>2, <2>3
  <1> QED
    BY <1>3, <1>4

-----------------------------------------------------------------------------
(* Payables: the invariant, and what the run checks.                       *)

LEMMA PayablesStart ==
    ASSUME PayablesAssumption, PayablesInit
    PROVE  PayablesInv
  <1>1. /\ IsFiniteSet(Payments) /\ IsFiniteSet(Bills) /\ IsFiniteSet(Notes)
        /\ ap = 0 /\ advances = 0
    BY DEF PayablesAssumption, PayablesInit
  <1>2. /\ PaymentOK(NoPayment) /\ Taken(NoPayment) = 0 /\ NoPayment.unapplied = 0
        /\ \A i \in Bills : Settles(NoPayment, i) = 0
        /\ NoteOK(NoNote) /\ Standing(NoNote) = 0
        /\ \A i \in Bills : NoNote.applied[i] = 0
    BY NoPaymentOK, NoNoteOK
  <1>3. NoPayment \in Payment /\ NoNote \in Note
    BY <1>2 DEF PaymentOK, NoteOK
  <1>4. /\ payments = [p \in Payments |-> NoPayment]
        /\ notes = [n \in Notes |-> NoNote]
    BY DEF PayablesInit
  <1>5. PaymentsOK
    BY <1>2, <1>3, <1>4 DEF PaymentsOK
  <1>6. NotesOK
    BY <1>2, <1>3, <1>4 DEF NotesOK
  <1> DEFINE blank == [status |-> "NONE", total |-> 0, paid |-> 0, debited |-> 0,
                       writtenOff |-> 0, balance |-> 0, journal |-> "NONE", ledger |-> 0,
                       ordered |-> FALSE, asked |-> FALSE, prepaid |-> 0, drafted |-> 0,
                       returned |-> 0]
  <1>7. blank \in Bill
    BY DEF Bill, BillStatus
  <1>8. BillOK(blank) /\ Live(blank) = 0 /\ blank.paid = 0 /\ blank.debited = 0
          /\ blank.prepaid = 0 /\ Charged(blank) = 0
    BY <1>7 DEF BillOK, Owed, Positive, Live, Charged, OnOrder
  <1>9. bills = [i \in Bills |-> blank]
    BY DEF PayablesInit
  <1> HIDE DEF blank
  <1>10. BillsOK /\ \A i \in Bills : bills[i] = blank
    BY <1>7, <1>8, <1>9 DEF BillsOK
  <1>11. AdvancesTie
    <2> DEFINE f == [p \in Payments |-> payments[p].unapplied]
    <2>1. DOMAIN f = Payments /\ \A p \in Payments : f[p] = 0
      BY <1>2, <1>4
    <2> HIDE DEF f
    <2>2. SumFunction(f) = 0
      BY <1>1, <2>1, EmptySums
    <2> QED
      BY <1>1, <2>2 DEF AdvancesTie, f
  <1>12. ASSUME NEW i \in Bills
         PROVE  DebitTies(i) /\ PaidTies(i)
    <2> DEFINE f == [n \in Notes |-> notes[n].applied[i]]
               g == [p \in Payments |-> Settles(payments[p], i)]
    <2>1. /\ DOMAIN f = Notes /\ \A n \in Notes : f[n] = 0
          /\ DOMAIN g = Payments /\ \A p \in Payments : g[p] = 0
      BY <1>2, <1>4
    <2> HIDE DEF f, g
    <2>2. SumFunction(f) = 0 /\ SumFunction(g) = 0
      BY <1>1, <2>1, EmptySums
    <2>3. bills[i].debited = SumFunction(f) /\ bills[i].paid = bills[i].prepaid + SumFunction(g)
      BY <1>8, <1>10, <2>2
    <2> QED
      BY <2>3 DEF DebitTies, PaidTies, f, g
  <1>13. ControlTies
    <2> DEFINE f == [i \in Bills |-> Live(bills[i])]
               g == [p \in Payments |-> Taken(payments[p])]
               h == [n \in Notes |-> Standing(notes[n])]
    <2>1. /\ DOMAIN f = Bills /\ \A i \in Bills : f[i] = 0
          /\ DOMAIN g = Payments /\ \A p \in Payments : g[p] = 0
          /\ DOMAIN h = Notes /\ \A n \in Notes : h[n] = 0
      BY <1>2, <1>4, <1>8, <1>10
    <2> HIDE DEF f, g, h
    <2>2. SumFunction(f) = 0 /\ SumFunction(g) = 0 /\ SumFunction(h) = 0
      BY <1>1, <2>1, EmptySums
    <2>3. ap = SumFunction(f) - SumFunction(g) - SumFunction(h)
      BY <1>1, <2>2
    <2> QED
      BY <2>3 DEF ControlTies, f, g, h
  <1>14. OrderOK
    <2> DEFINE f == [i \in Bills |-> Charged(bills[i])]
    <2>1. DOMAIN f = Bills /\ \A i \in Bills : f[i] = 0
      BY <1>8, <1>10
    <2> HIDE DEF f
    <2>2. SumFunction(f) = 0
      BY <1>1, <2>1, EmptySums
    <2>3. order = [billed |-> 0, cancelled |-> FALSE] /\ MaxAmount \in Nat
      BY DEF PayablesInit, PayablesAssumption
    <2> QED
      BY <2>2, <2>3 DEF OrderOK, f
  <1> QED
    BY <1>5, <1>6, <1>10, <1>11, <1>12, <1>13, <1>14 DEF PayablesInv, PayablesTie

LEMMA PayablesStep ==
    ASSUME PayablesAssumption, PayablesInv, [PayablesNext]_payablesVars
    PROVE  PayablesInv'
  <1>1. ASSUME NEW i \in Bills, NEW total \in Amounts, NEW status \in BillStatus,
               \/ \E elsewhere \in BOOLEAN : CreateBill(i, total, status, elsewhere)
               \/ ConvertOrder(i, total, status)
        PROVE  PayablesInv'
    BY <1>1, CreateBillStep, ConvertOrderStep
  <1>2. ASSUME NEW i \in Bills, NEW total \in Amounts, EditBill(i, total) \/ WriteOff(i, total)
        PROVE  PayablesInv'
    BY <1>2, EditBillStep, WriteOffStep
  <1>3. ASSUME NEW i \in Bills, PostSubmittedBill(i) \/ VoidBill(i) \/ ReverseWriteOff(i)
        PROVE  PayablesInv'
    BY <1>3, PostSubmittedBillStep, VoidBillStep, WriteOffStep
  <1>4. ASSUME NEW p \in Payments, NEW amount \in Amounts, NEW portion \in Portions,
               SendPayment(p, amount, portion) \/ SubmitPayment(p, amount, portion)
        PROVE  PayablesInv'
    BY <1>4, SendPaymentStep, SubmitPaymentStep
  <1>5. ASSUME NEW p \in Payments,
               \/ PostSubmittedPayment(p) \/ ReversePayment(p)
               \/ ReverseAdvance(p) \/ ReverseAdvanceRefund(p)
        PROVE  PayablesInv'
    BY <1>5, PostSubmittedPaymentStep, ReversePaymentStep, AdvanceStep, AdvanceRefundStep
  <1>6. ASSUME NEW p \in Payments, NEW amount \in Amounts,
               RecordAdvance(p, amount) \/ RefundAdvance(p, amount)
        PROVE  PayablesInv'
    BY <1>6, AdvanceStep, AdvanceRefundStep
  <1>7. ASSUME NEW p \in Payments, NEW i \in Bills,
               (\E a \in Amounts : ApplyAdvance(p, i, a)) \/ ReverseApplication(p, i)
        PROVE  PayablesInv'
    BY <1>7, ApplyAdvanceStep, ReverseApplicationStep
  <1>8. ASSUME NEW n \in Notes, NEW total \in Amounts, CreateNote(n, total) \/ RefundNote(n, total)
        PROVE  PayablesInv'
    BY <1>8, CreateNoteStep, NoteRefundStep
  <1>9. ASSUME NEW n \in Notes, NEW total \in Amounts, NEW i \in Bills,
               CreateAppliedNote(n, total, i)
        PROVE  PayablesInv'
    BY <1>9, CreateAppliedNoteStep
  <1>10. ASSUME NEW n \in Notes, ReverseNote(n) \/ ReverseNoteRefund(n)
         PROVE  PayablesInv'
    BY <1>10, ReverseNoteStep, NoteRefundStep
  <1>11. CASE UNCHANGED payablesVars
    <2>1. UNCHANGED <<bills, payments, notes, order, ap, advances>>
      BY <1>11 DEF payablesVars
    <2>2. BillsOK' /\ PaymentsOK' /\ NotesOK' /\ OrderOK'
      BY <2>1 DEF PayablesInv, BillsOK, PaymentsOK, NotesOK, OrderOK
    <2>3. PayablesTie'
      BY <2>1 DEF PayablesInv, PayablesTie, AdvancesTie, ControlTies, DebitTies, PaidTies
    <2> QED
      BY <2>2, <2>3 DEF PayablesInv
  <1> QED
    BY <1>1, <1>2, <1>3, <1>4, <1>5, <1>6, <1>7, <1>8, <1>9, <1>10, <1>11,
       RecurringBillStep, CancelOrderStep DEF PayablesNext

\* Every reachable state satisfies the invariant.
THEOREM PayablesInvariant ==
    ASSUME PayablesAssumption
    PROVE  PayablesSpec => []PayablesInv
  <1>1. PayablesInit => PayablesInv
    BY PayablesStart
  <1>2. PayablesInv /\ [PayablesNext]_payablesVars => PayablesInv'
    BY PayablesStep
  <1> QED
    BY <1>1, <1>2, PTL DEF PayablesSpec

\* Every row of the payables keeps its type, and the order and the two accounts theirs.
THEOREM PayablesTypes ==
    ASSUME PayablesAssumption
    PROVE  PayablesSpec => []PayablesTypeOK
  <1>1. PayablesInv => PayablesTypeOK
    BY AccountsInt, OrderType DEF PayablesTypeOK, PayablesInv, BillsOK, PaymentsOK, NotesOK
  <1> QED
    BY <1>1, PayablesInvariant, PTL

\* No part of an advance to the vendor or of a debit note is spent twice, and a bill
\* shows as paid and debited exactly what live payments, advances and notes gave it, on
\* top of what its template said was paid, whatever is applied, refunded, edited and
\* reversed.
THEOREM VendorCreditsAreSpentOnce ==
    ASSUME PayablesAssumption
    PROVE  PayablesSpec => []CreditSpentOnce
  <1>1. PayablesInv => CreditSpentOnce
    BY DEF CreditSpentOnce, PayablesInv, PaymentsOK, PaymentOK, NotesOK, NoteOK, PayablesTie,
           AdvancesTie, DebitTies, PaidTies
  <1> QED
    BY <1>1, PayablesInvariant, PTL

\* The purchase order is billed exactly what its bills posted, less what their voids
\* returned, and what templates entered as drafts; beyond its total only through a bill
\* that waited for approval.
THEOREM OrderIsExplained ==
    ASSUME PayablesAssumption
    PROVE  PayablesSpec => []OrderExplained
  <1>1. PayablesInv => OrderExplained
    <2> SUFFICES ASSUME PayablesInv
                 PROVE  OrderExplained
      OBVIOUS
    <2> DEFINE ordered == {i \in Bills : bills[i].ordered}
               f == [i \in Bills |-> Charged(bills[i])]
               g == [i \in Bills |-> bills[i].ledger - bills[i].returned + bills[i].drafted]
    <2>1. OrderOK /\ IsFiniteSet(Bills)
      BY DEF PayablesInv, PayablesAssumption
    <2>2. /\ ordered \in SUBSET Bills /\ \A i \in Bills \ ordered : f[i] = 0
          /\ \A i \in ordered : f[i] = g[i]
          /\ DOMAIN f = Bills
      BY DEF Charged
    <2>3. \A i \in Bills : f[i] \in Int
      BY PayablesRows, ChargedInt
    <2>4. order.billed = SumFunction(f)
      BY <2>1 DEF OrderOK
    <2>5. order.billed > MaxAmount => \E i \in ordered : bills[i].asked /\ bills[i].journal # "NONE"
      BY <2>1 DEF OrderOK, OnOrder
    <2>6. IsFiniteSet(ordered)
      BY <2>1, <2>2, FS_Subset
    <2> HIDE DEF f, g, ordered
    <2>7. SumFunction(f) = SumFunctionOnSet(f, Bills)
      BY <2>2 DEF SumFunction
    <2>8. SumFunctionOnSet(f, Bills) = SumFunctionOnSet(f, ordered)
      BY <2>1, <2>2, <2>3, SumSupport
    <2>9. SumFunctionOnSet(f, ordered) = SumFunctionOnSet(g, ordered)
      BY <2>2, <2>6, SumSame
    <2>10. order.billed = SumFunctionOnSet(g, ordered)
      BY <2>4, <2>7, <2>8, <2>9
    <2> QED
      BY <2>5, <2>10 DEF OrderExplained, g, ordered
  <1> QED
    BY <1>1, PayablesInvariant, PTL

-----------------------------------------------------------------------------
(* Payables: why the vendors' balances and the ledger can drift apart.     *)

\* What a bill in order shows as owed is what the ledger holds for it.
LEMMA BackedBill ==
    ASSUME NEW r, BillOK(r), r.prepaid <= r.paid
    PROVE  /\ Shown(r) \in Int /\ Held(r) \in Int
           /\ Live(r) = Held(r) + ((r.paid - r.prepaid) + r.debited)
           /\ ~(Unbacked(r) \/ Misposted(r) \/ Overpaid(r)) => Shown(r) = Held(r)
  <1>1. r \in Bill
    BY DEF BillOK
  <1>2. /\ r.paid \in Nat /\ r.debited \in Nat /\ r.writtenOff \in Nat /\ r.total \in Nat
        /\ r.ledger \in Nat /\ r.balance \in Nat /\ r.prepaid \in Nat
    BY <1>1 DEF Bill
  <1>3. /\ Shown(r) \in Int /\ Held(r) \in Int
        /\ Live(r) = Held(r) + ((r.paid - r.prepaid) + r.debited)
    BY <1>2 DEF Shown, Held, Live
  <1>4. CASE r.journal = "LIVE"
    <2> SUFFICES ASSUME ~(Unbacked(r) \/ Misposted(r) \/ Overpaid(r))
                 PROVE  Shown(r) = Held(r)
      BY <1>3
    <2>1. /\ r.ledger = r.total /\ r.paid + r.debited + r.writtenOff <= r.total
          /\ r.status \notin {"NONE", "DRAFT", "VOIDED"}
          /\ r.balance = Owed(r) /\ r.prepaid = 0
      BY <1>2, <1>4 DEF BillOK, Misposted, Overpaid
    <2> QED
      BY <1>2, <1>4, <2>1 DEF Shown, Held, Owed, Positive
  <1>5. CASE r.journal # "LIVE"
    <2> SUFFICES ASSUME ~(Unbacked(r) \/ Misposted(r) \/ Overpaid(r))
                 PROVE  Shown(r) = Held(r)
      BY <1>3
    <2>1. /\ ~(r.paid + r.debited + r.writtenOff > 0)
          /\ r.status \in {"NONE", "VOIDED", "DRAFT"}
      BY <1>5 DEF Unbacked
    <2> QED
      BY <1>2, <1>5, <2>1 DEF Shown, Held
  <1> QED
    BY <1>4, <1>5

\* The refund that the reversal of a debit note left behind.
Lost(r) == IF r.status = "REVERSED" THEN r.refunded ELSE 0

LEMMA StandingIs ==
    ASSUME PayablesAssumption, NEW r, NoteOK(r)
    PROVE  /\ r.remaining \in Int /\ SumFunction(r.applied) \in Int /\ Lost(r) \in Int
           /\ Standing(r) = (r.remaining + SumFunction(r.applied)) - Lost(r)
  <1>1. /\ r \in Note /\ r.status \in {"NONE", "OPEN", "REVERSED"} /\ r.applied \in [Bills -> Nat]
        /\ r.refunded \in Nat /\ r.remaining \in Nat /\ r.total \in Nat
    BY DEF NoteOK, Note
  <1>2. SumFunction(r.applied) \in Nat
    BY <1>1, SumsAreInt
  <1> DEFINE sum == SumFunction(r.applied)
  <1>3. /\ r.status = "OPEN" => r.total = r.remaining + sum + r.refunded
        /\ r.status # "OPEN" => r.total = 0 /\ r.remaining = 0 /\ sum = 0
        /\ r.status = "NONE" => r.refunded = 0
    BY DEF NoteOK
  <1>4. sum \in Nat
    BY <1>2
  <1> HIDE DEF sum
  <1>5. Standing(r) = (r.remaining + sum) - Lost(r) /\ Lost(r) \in Int
    <2>1. CASE r.status = "OPEN"
      BY <1>1, <1>3, <1>4, <2>1 DEF Standing, Lost
    <2>2. CASE r.status = "NONE"
      BY <1>1, <1>3, <2>2 DEF Standing, Lost
    <2>3. CASE r.status = "REVERSED"
      BY <1>1, <1>3, <2>3 DEF Standing, Lost
    <2> QED
      BY <1>1, <2>1, <2>2, <2>3
  <1> QED
    BY <1>1, <1>4, <1>5 DEF sum

\* What settlements paid of a bill is what it shows as paid beyond its template.
LEMMA PaidInSettlements ==
    ASSUME PayablesAssumption, PayablesInv, NEW i \in Bills
    PROVE  /\ bills[i].paid - bills[i].prepaid
                = SumFunction([p \in Payments |-> Settles(payments[p], i)])
           /\ bills[i].prepaid <= bills[i].paid
  <1> DEFINE f == [p \in Payments |-> Settles(payments[p], i)]
  <1>1. bills[i].paid = bills[i].prepaid + SumFunction(f)
    BY DEF PayablesInv, PayablesTie, PaidTies
  <1>2. /\ DOMAIN f = Payments /\ \A p \in Payments : f[p] \in Nat
        /\ bills[i].paid \in Nat /\ bills[i].prepaid \in Nat /\ IsFiniteSet(Payments)
    BY PayablesRows, SettlesNat DEF Bill, PayablesAssumption
  <1> HIDE DEF f
  <1>3. SumFunction(f) \in Nat
    BY <1>2, SumNat DEF SumFunction
  <1>4. bills[i].paid - bills[i].prepaid = SumFunction(f) /\ bills[i].prepaid <= bills[i].paid
    BY <1>1, <1>2, <1>3
  <1> QED
    BY <1>4 DEF f

LEMMA DriftIsExplained ==
    ASSUME PayablesAssumption, PayablesInv
    PROVE  DriftExplained
  <1> DEFINE bad == {i \in Bills : \/ Unbacked(bills[i])
                                  \/ Misposted(bills[i])
                                  \/ Overpaid(bills[i])}
             reversed == {n \in Notes : notes[n].status = "REVERSED"}
             shown == [i \in Bills |-> Shown(bills[i])]
             carried == [i \in Bills |-> Held(bills[i])]
             off == [i \in Bills |-> Shown(bills[i]) - Held(bills[i])]
             paid == [i \in Bills |-> bills[i].paid - bills[i].prepaid]
             debited == [i \in Bills |-> bills[i].debited]
             settled == [i \in Bills |-> (bills[i].paid - bills[i].prepaid) + bills[i].debited]
             billed == [i \in Bills |-> Live(bills[i])]
             taken == [p \in Payments |-> Taken(payments[p])]
             standing == [n \in Notes |-> Standing(notes[n])]
             remaining == [n \in Notes |-> notes[n].remaining]
             applied == [n \in Notes |-> SumFunction(notes[n].applied)]
             given == [n \in Notes |-> notes[n].remaining + SumFunction(notes[n].applied)]
             lost == [n \in Notes |-> Lost(notes[n])]
             refunded == [n \in Notes |-> notes[n].refunded]
  <1>1. IsFiniteSet(Payments) /\ IsFiniteSet(Bills) /\ IsFiniteSet(Notes)
    BY DEF PayablesAssumption
  <1>2. ap = SumFunctionOnSet(billed, Bills) - SumFunctionOnSet(taken, Payments)
               - SumFunctionOnSet(standing, Notes)
    <2>1. DOMAIN billed = Bills /\ DOMAIN taken = Payments /\ DOMAIN standing = Notes
      OBVIOUS
    <2>2. ap = SumFunction(billed) - SumFunction(taken) - SumFunction(standing)
      BY DEF PayablesInv, PayablesTie, ControlTies
    <2> HIDE DEF billed, taken, standing
    <2> QED
      BY <2>1, <2>2 DEF SumFunction
  <1>3. \A i \in Bills : /\ shown[i] \in Int /\ carried[i] \in Int /\ settled[i] \in Int
                         /\ paid[i] \in Int /\ debited[i] \in Int
                         /\ settled[i] = paid[i] + debited[i]
                         /\ billed[i] = carried[i] + settled[i]
                         /\ off[i] \in Int /\ shown[i] = carried[i] + off[i]
                         /\ i \notin bad => off[i] = 0
    <2> SUFFICES ASSUME NEW i \in Bills
                 PROVE  /\ shown[i] \in Int /\ carried[i] \in Int /\ settled[i] \in Int
                        /\ paid[i] \in Int /\ debited[i] \in Int
                        /\ settled[i] = paid[i] + debited[i]
                        /\ billed[i] = carried[i] + settled[i]
                        /\ off[i] \in Int /\ shown[i] = carried[i] + off[i]
                        /\ i \notin bad => off[i] = 0
      OBVIOUS
    <2>1. /\ BillOK(bills[i]) /\ bills[i].paid \in Nat /\ bills[i].prepaid \in Nat
          /\ bills[i].debited \in Nat /\ bills[i].prepaid <= bills[i].paid
      BY PayablesRows, PaidInSettlements DEF Bill
    <2>2. /\ Shown(bills[i]) \in Int /\ Held(bills[i]) \in Int
          /\ Live(bills[i])
               = Held(bills[i]) + ((bills[i].paid - bills[i].prepaid) + bills[i].debited)
          /\ i \notin bad => Shown(bills[i]) = Held(bills[i])
      BY <2>1, BackedBill
    <2> HIDE DEF bad
    <2> QED
      BY <2>1, <2>2
  <1>4. /\ SumFunctionOnSet(billed, Bills)
             = SumFunctionOnSet(carried, Bills) + SumFunctionOnSet(settled, Bills)
        /\ SumFunctionOnSet(settled, Bills)
             = SumFunctionOnSet(paid, Bills) + SumFunctionOnSet(debited, Bills)
        /\ SumFunctionOnSet(shown, Bills)
             = SumFunctionOnSet(carried, Bills) + SumFunctionOnSet(off, Bills)
    <2> HIDE DEF billed, shown, carried, off, settled, paid, debited
    <2> QED
      BY <1>1, <1>3, SumPlus
  <1>5. SumFunctionOnSet(off, Bills) = SumFunctionOnSet(off, bad)
    <2>1. bad \in SUBSET Bills /\ \A i \in Bills \ bad : off[i] = 0
      BY <1>3
    <2> HIDE DEF off, bad
    <2> QED
      BY <1>1, <1>3, <2>1, SumSupport
  <1>6. SumFunctionOnSet(paid, Bills) = SumFunctionOnSet(taken, Payments)
    <2> DEFINE F == [p \in Payments |-> [i \in Bills |-> Settles(payments[p], i)]]
    <2>1. Matrix(F, Payments, Bills)
      <3> SUFFICES ASSUME NEW p \in Payments, NEW i \in Bills
                   PROVE  F[p][i] \in Int
        BY DEF Matrix
      <3>1. payments[p] \in Payment
        BY PayablesRows
      <3>2. Settles(payments[p], i) \in Nat
        BY <3>1, SettlesNat
      <3> QED
        BY <3>2
    <2>2. AreRows(taken, F, Payments, Bills)
      <3>1. \A p \in Payments : payments[p] \in Payment
        BY PayablesRows
      <3>2. \A p \in Payments : Taken(payments[p])
                                  = SumFunctionOnSet([i \in Bills |-> Settles(payments[p], i)], Bills)
        BY <3>1, SettlesNat
      <3> QED
        BY <3>2 DEF AreRows
    <2>3. AreColumns(paid, F, Payments, Bills)
      <3> SUFFICES ASSUME NEW i \in Bills
                   PROVE  bills[i].paid - bills[i].prepaid
                            = SumFunctionOnSet(Column(F, Payments, i), Payments)
        BY DEF AreColumns
      <3>1. bills[i].paid - bills[i].prepaid
              = SumFunction([p \in Payments |-> Settles(payments[p], i)])
        BY PaidInSettlements
      <3>2. [p \in Payments |-> Settles(payments[p], i)] = Column(F, Payments, i)
        BY DEF Column
      <3>3. bills[i].paid - bills[i].prepaid = SumFunction(Column(F, Payments, i))
        BY <3>1, <3>2, Zenon
      <3>4. DOMAIN Column(F, Payments, i) = Payments
        BY DEF Column
      <3> QED
        BY <3>3, <3>4 DEF SumFunction
    <2> HIDE DEF F, paid, taken
    <2> QED
      BY <1>1, <2>1, <2>2, <2>3, RowsAndColumns
  <1>7. SumFunctionOnSet(debited, Bills) = SumFunctionOnSet(applied, Notes)
    <2> DEFINE F == [n \in Notes |-> notes[n].applied]
    <2>1. \A n \in Notes : notes[n].applied \in [Bills -> Nat]
      BY PayablesRows DEF Note
    <2>2. Matrix(F, Notes, Bills)
      BY <2>1 DEF Matrix
    <2>3. AreRows(applied, F, Notes, Bills)
      <3> SUFFICES ASSUME NEW n \in Notes
                   PROVE  applied[n] = SumFunctionOnSet(F[n], Bills)
        BY DEF AreRows
      <3>1. SumFunction(notes[n].applied) = SumFunctionOnSet(notes[n].applied, Bills)
        BY <2>1, SumsAreInt
      <3> QED
        BY <3>1
    <2>4. AreColumns(debited, F, Notes, Bills)
      <3> SUFFICES ASSUME NEW i \in Bills
                   PROVE  bills[i].debited = SumFunctionOnSet(Column(F, Notes, i), Notes)
        BY DEF AreColumns
      <3>1. bills[i].debited = SumFunction([n \in Notes |-> notes[n].applied[i]])
        BY DEF PayablesInv, PayablesTie, DebitTies
      <3>2. [n \in Notes |-> notes[n].applied[i]] = Column(F, Notes, i)
        BY DEF Column
      <3>3. bills[i].debited = SumFunction(Column(F, Notes, i))
        BY <3>1, <3>2, Zenon
      <3>4. DOMAIN Column(F, Notes, i) = Notes
        BY DEF Column
      <3> QED
        BY <3>3, <3>4 DEF SumFunction
    <2> HIDE DEF F, debited, applied
    <2> QED
      BY <1>1, <2>2, <2>3, <2>4, RowsAndColumns
  <1>8. /\ SumFunctionOnSet(given, Notes)
             = SumFunctionOnSet(remaining, Notes) + SumFunctionOnSet(applied, Notes)
        /\ SumFunctionOnSet(given, Notes)
             = SumFunctionOnSet(standing, Notes) + SumFunctionOnSet(lost, Notes)
    <2>1. \A n \in Notes : /\ remaining[n] \in Int /\ applied[n] \in Int
                           /\ given[n] = remaining[n] + applied[n]
                           /\ standing[n] \in Int /\ lost[n] \in Int
                           /\ given[n] = standing[n] + lost[n]
      BY PayablesRows, StandingIs
    <2> HIDE DEF standing, remaining, applied, given, lost
    <2> QED
      BY <1>1, <2>1, SumPlus
  <1>9. SumFunctionOnSet(lost, Notes) = SumFunctionOnSet(refunded, reversed)
    <2>1. /\ reversed \in SUBSET Notes /\ \A n \in Notes \ reversed : lost[n] = 0
          /\ \A n \in reversed : lost[n] = refunded[n]
      BY DEF Lost
    <2>2. \A n \in Notes : lost[n] \in Int
      BY PayablesRows, StandingIs
    <2>3. IsFiniteSet(reversed)
      BY <1>1, <2>1, FS_Subset
    <2> HIDE DEF lost, refunded, reversed
    <2>4. SumFunctionOnSet(lost, Notes) = SumFunctionOnSet(lost, reversed)
      BY <1>1, <2>1, <2>2, SumSupport
    <2>5. SumFunctionOnSet(lost, reversed) = SumFunctionOnSet(refunded, reversed)
      BY <2>1, <2>3, SumSame
    <2> QED
      BY <2>4, <2>5
  <1>10. /\ SumFunctionOnSet(carried, Bills) \in Int
         /\ SumFunctionOnSet(off, Bills) \in Int
         /\ SumFunctionOnSet(paid, Bills) \in Int
         /\ SumFunctionOnSet(debited, Bills) \in Int
         /\ SumFunctionOnSet(remaining, Notes) \in Int
         /\ SumFunctionOnSet(standing, Notes) \in Int
         /\ SumFunctionOnSet(lost, Notes) \in Int
    <2>1. \A n \in Notes : remaining[n] \in Int /\ standing[n] \in Int /\ lost[n] \in Int
      BY PayablesRows, StandingIs
    <2> HIDE DEF carried, off, paid, debited, remaining, standing, lost
    <2> QED
      BY <1>1, <1>3, <2>1, SumInt
  <1>11. /\ SumFunction(remaining) = SumFunctionOnSet(remaining, Notes)
         /\ SumFunction(shown) = SumFunctionOnSet(shown, Bills)
    BY DEF SumFunction
  <1>12. SumFunction(shown) - SumFunction(remaining) - ap
           = SumFunctionOnSet(off, bad) - SumFunctionOnSet(refunded, reversed)
    <2> HIDE DEF bad, reversed, shown, carried, off, paid, debited, settled, billed, taken,
                 standing, remaining, applied, given, lost, refunded
    <2> QED
      BY <1>2, <1>4, <1>5, <1>6, <1>7, <1>8, <1>9, <1>10, <1>11
  <1> QED
    BY <1>12 DEF DriftExplained

\* The payables integrity report is off by exactly what unbacked, misposted and overpaid
\* bills are off, less the refunds of debit notes that were reversed afterwards.
THEOREM PayablesDriftHasACause ==
    ASSUME PayablesAssumption
    PROVE  PayablesSpec => []DriftExplained
  <1>1. PayablesInv => DriftExplained
    BY DriftIsExplained
  <1> QED
    BY <1>1, PayablesInvariant, PTL

=============================================================================

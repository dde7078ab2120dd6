---------------------- MODULE IdempotencyAndBankProofs ----------------------
(***************************************************************************)
(* What holds of two components that share no state.  First the gate and   *)
(* the browser's retries, for every number of intents, keys, requests,     *)
(* statements and faults; then the statement of a bank account, for every  *)
(* number of lines, journals, matches and sessions.  The gate holds the    *)
(* lock of bank movements, so the account is proved as the sequence of its *)
(* requests that BankMatching states.                                      *)
(***************************************************************************)
EXTENDS IdempotencyGate, BankMatching, SumTheorems, TLAPS

-----------------------------------------------------------------------------
(* The pieces the actions are made of.                                       *)

LEMMA EndTransactionType ==
    ASSUME TypeOK, NEW r \in Requests, EndTransaction(r)
    PROVE  /\ holder' \in [Keys -> Requests \cup {NoRequest}]
           /\ bank' \in Requests \cup {NoRequest}
           /\ work' \in [Requests -> 0 .. Steps]
  BY GateAssumption DEF EndTransaction, TypeOK

LEMMA AnswerWithType ==
    ASSUME TypeOK, NEW r \in Requests, at[r] # "idle",
           NEW a \in Answers, AnswerWith(r, a)
    PROVE  /\ at' \in [Requests -> Places]
           /\ answer' \in [Requests -> Answers]
           /\ UNCHANGED <<cmd, key, listening>>
           /\ \A q \in Requests :
                 at'[q] # "idle" => cmd'[q] \in Intents /\ key'[q] \in Keys
  BY DEF AnswerWith, TypeOK, Places

LEMMA MoveToType ==
    ASSUME TypeOK, NEW r \in Requests, at[r] # "idle",
           NEW place \in Places, MoveTo(r, place)
    PROVE  /\ at' \in [Requests -> Places]
           /\ UNCHANGED <<cmd, key, listening>>
           /\ \A q \in Requests :
                 at'[q] # "idle" => cmd'[q] \in Intents /\ key'[q] \in Keys
  BY DEF MoveTo, TypeOK

LEMMA FreeType ==
    ASSUME TypeOK, NEW r \in Requests, Free(r)
    PROVE  /\ at' \in [Requests -> Places]
           /\ cmd' \in [Requests -> Intents \cup {NoIntent}]
           /\ key' \in [Requests -> Keys \cup {NoKey}]
           /\ answer' \in [Requests -> Answers]
           /\ listening' \in [Requests -> BOOLEAN]
           /\ \A q \in Requests :
                 at'[q] # "idle" => cmd'[q] \in Intents /\ key'[q] \in Keys
  BY DEF Free, TypeOK, Places, Answers

LEMMA StrandType ==
    ASSUME TypeOK, NEW b, Strand(b)
    PROVE  strays' \in [Intents -> SUBSET Keys]
  BY DEF Strand, Live, TypeOK

LEMMA HearType ==
    ASSUME TypeOK, NEW r \in Requests, cmd[r] \in Intents, NEW a, Hear(r, a)
    PROVE  /\ pending' \in [Bodies -> Keys \cup {NoKey}]
           /\ satisfied' \in [Intents -> BOOLEAN]
           /\ strays' \in [Intents -> SUBSET Keys]
           /\ issued' \in [Keys -> Intents \cup {NoIntent}]
  BY StrandType DEF Hear, TypeOK

LEMMA VerdictType ==
    ASSUME NEW r \in Requests, NEW record \in Record
    PROVE  Verdict(record, r) \in {"ok", "refused", "conflict", "denied"}
  BY DEF Verdict, Record

LEMMA StoredRecord ==
    ASSUME TypeOK, NEW k \in Keys, store[k] # NoRecord
    PROVE  store[k] \in Record
  BY DEF TypeOK

LEMMA FaultType ==
    ASSUME TypeOK, Fault
    PROVE  faults' \in Nat
  BY DEF Fault, TypeOK

\* What the parts of a commit write; the row is well formed because a request
\* that finishes has a verdict of its handler.
LEMMA CommitAllType ==
    ASSUME TypeOK, NEW r \in Requests, CommitAll(r), answer[r] \in {"ok", "refused"}
    PROVE  /\ store' \in [Keys -> Record \cup {NoRecord}]
           /\ performed' \in [Keys -> Nat]
           /\ effects' \in [Intents -> Nat]
           /\ holder' \in [Keys -> Requests \cup {NoRequest}]
           /\ bank' \in Requests \cup {NoRequest}
           /\ work' \in [Requests -> 0 .. Steps]
  <1>1. at[r] # "idle" /\ cmd[r] \in Intents /\ key[r] \in Keys
    BY DEF CommitAll, TypeOK
  <1>2. Recorded(r) \in Record
    BY <1>1 DEF Recorded, Record
  <1>3. store' \in [Keys -> Record \cup {NoRecord}]
    BY <1>1, <1>2 DEF CommitAll, TypeOK
  <1>4. performed[key[r]] + work[r] \in Nat
    BY <1>1, GateAssumption DEF TypeOK
  <1>5. performed' \in [Keys -> Nat]
    BY <1>1, <1>4 DEF CommitAll, TypeOK
  <1>6. effects' \in [Intents -> Nat]
    BY <1>1 DEF CommitAll, TypeOK
  <1>7. EndTransaction(r)
    BY DEF CommitAll
  <1>8. QED
    BY <1>3, <1>5, <1>6, <1>7, EndTransactionType

-----------------------------------------------------------------------------
(* Types.  A request that finishes has its handler's verdict, and all the    *)
(* statements of its command if that is a success.                           *)

FinishingShape ==
    \A r \in Requests :
       at[r] = "finishing" =>
          \/ answer[r] = "ok" /\ work[r] = Steps
          \/ answer[r] = "refused"

Typed == TypeOK /\ FinishingShape

LEMMA TypedInit == Init => Typed
  <1> SUFFICES ASSUME Init
               PROVE  Typed
    OBVIOUS
  <1>1. 0 \in 0 .. Steps
    BY GateAssumption
  <1>2. TypeOK
    BY <1>1 DEF Init, TypeOK, Places, Answers
  <1>3. FinishingShape
    BY DEF Init, FinishingShape
  <1>4. QED
    BY <1>2, <1>3 DEF Typed

LEMMA TypedStep ==
    ASSUME Typed, [Next]_vars
    PROVE  Typed'
  <1> USE DEF Typed
  <1>1. ASSUME NEW r \in Requests, NEW i \in Intents, NEW k \in Keys, SendWith(r, i, k)
        PROVE  Typed'
    <2>1. BodyOf[i] \in Bodies
      BY GateAssumption
    <2>2. strays' \in [Intents -> SUBSET Keys]
      BY <1>1, StrandType DEF SendWith, TypeOK
    <2>3. TypeOK'
      BY <1>1, <2>1, <2>2 DEF SendWith, TypeOK, Places, database
    <2>4. FinishingShape'
      BY <1>1 DEF SendWith, FinishingShape, TypeOK
    <2>5. QED
      BY <2>3, <2>4
  <1>2. ASSUME NEW r \in Requests, NEW i \in Intents, Send(r, i)
        PROVE  Typed'
    <2>1. PICK k \in OwnKeys(BodyOf[i]) : SendWith(r, i, k)
      BY <1>2 DEF Send
    <2>2. k \in Keys
      BY <2>1, GateAssumption DEF OwnKeys, TypeOK
    <2>3. QED
      BY <1>1, <2>1, <2>2
  <1>3. ASSUME NEW r \in Requests, NEW i \in Intents, SendKeyed(r, i)
        PROVE  Typed'
    BY <1>1, <1>3, GateAssumption DEF SendKeyed
  <1>4. ASSUME NEW r \in Requests, Admit(r)
        PROVE  Typed'
    <2>1. CASE denied
      BY <1>4, <2>1, AnswerWithType
         DEF Admit, AnswerWith, TypeOK, FinishingShape, Answers, database, browser
    <2>2. CASE ~denied
      BY <1>4, <2>2, MoveToType
         DEF Admit, MoveTo, TypeOK, FinishingShape, Places, database, browser
    <2>3. QED
      BY <2>1, <2>2
  <1>5. ASSUME NEW r \in Requests, Begin(r)
        PROVE  Typed'
    BY <1>5, MoveToType DEF Begin, MoveTo, TypeOK, FinishingShape, Places, browser
  <1>6. ASSUME NEW r \in Requests, Lookup(r)
        PROVE  Typed'
    <2>1. at[r] # "idle" /\ key[r] \in Keys
      BY <1>6 DEF Lookup, TypeOK
    <2>2. CASE store[key[r]] = NoRecord
      BY <1>6, <2>1, <2>2, MoveToType
         DEF Lookup, MoveTo, TypeOK, FinishingShape, Places, browser
    <2>3. CASE store[key[r]] # NoRecord
      <3> DEFINE v == Verdict(store[key[r]], r)
      <3>1. v \in Answers
        BY <2>1, <2>3, StoredRecord, VerdictType DEF Answers
      <3>2. EndTransaction(r) /\ AnswerWith(r, v)
        BY <1>6, <2>3 DEF Lookup
      <3> HIDE DEF v
      <3>3. TypeOK'
        BY <1>6, <2>1, <3>1, <3>2, AnswerWithType, EndTransactionType
           DEF Lookup, TypeOK, browser
      <3>4. FinishingShape'
        BY <3>2 DEF AnswerWith, EndTransaction, FinishingShape, TypeOK
      <3>5. QED
        BY <3>3, <3>4
    <2>4. QED
      BY <2>2, <2>3
  <1>7. ASSUME NEW r \in Requests, Insert(r)
        PROVE  Typed'
    <2>1. at[r] # "idle" /\ key[r] \in Keys
      BY <1>7 DEF Insert, TypeOK
    <2>2. CASE KeyTaken(r)
      <3>1. EndTransaction(r) /\ AnswerWith(r, "busy")
        BY <1>7, <2>2 DEF Insert
      <3>2. TypeOK'
        BY <1>7, <2>1, <3>1, AnswerWithType, EndTransactionType
           DEF Insert, TypeOK, browser, Answers
      <3>3. FinishingShape'
        BY <3>1 DEF AnswerWith, EndTransaction, FinishingShape, TypeOK
      <3>4. QED
        BY <3>2, <3>3
    <2>3. CASE ~KeyTaken(r)
      BY <1>7, <2>1, <2>3, MoveToType
         DEF Insert, MoveTo, TypeOK, FinishingShape, Places, browser
    <2>4. QED
      BY <2>2, <2>3
  <1>8. ASSUME NEW r \in Requests, Statement(r)
        PROVE  Typed'
    <2>1. work[r] + 1 \in 0 .. Steps
      BY <1>8, GateAssumption DEF Statement, TypeOK
    <2>2. QED
      BY <1>8, <2>1 DEF Statement, TypeOK, FinishingShape, database, browser
  <1>9. ASSUME NEW r \in Requests, Reply(r)
        PROVE  Typed'
    BY <1>9 DEF Reply, TypeOK, FinishingShape, Places, Answers, database, browser
  <1>10. ASSUME NEW r \in Requests, ReplySilently(r)
         PROVE  Typed'
    <2>1. cmd[r] \in Intents
      BY <1>10 DEF ReplySilently, TypeOK
    <2>2. CASE listening[r]
      BY <1>10, <2>1, <2>2, HearType
         DEF ReplySilently, TypeOK, FinishingShape, Places, database
    <2>3. CASE ~listening[r]
      BY <1>10, <2>3
         DEF ReplySilently, TypeOK, FinishingShape, Places, database, browser
    <2>4. QED
      BY <2>2, <2>3
  <1>11. ASSUME NEW r \in Requests, Commit(r)
         PROVE  Typed'
    <2>1. at[r] = "finishing" /\ CommitAll(r) /\ AnswerWith(r, answer[r])
      BY <1>11 DEF Commit, CommitAll
    <2>2. answer[r] \in {"ok", "refused"}
      BY <2>1 DEF FinishingShape
    <2>3. TypeOK'
      BY <1>11, <2>1, <2>2, CommitAllType, AnswerWithType
         DEF Commit, TypeOK, browser, Answers
    <2>4. FinishingShape'
      BY <2>1 DEF AnswerWith, CommitAll, EndTransaction, FinishingShape, TypeOK
    <2>5. QED
      BY <2>3, <2>4
  <1>12. ASSUME NEW r \in Requests, CommitUnheard(r)
         PROVE  Typed'
    <2>1. at[r] = "finishing" /\ CommitAll(r) /\ AnswerWith(r, "error") /\ Fault
      BY <1>12 DEF CommitUnheard, CommitAll
    <2>2. answer[r] \in {"ok", "refused"}
      BY <2>1 DEF FinishingShape
    <2>3. TypeOK'
      BY <1>12, <2>1, <2>2, CommitAllType, AnswerWithType, FaultType
         DEF CommitUnheard, TypeOK, browser, Answers
    <2>4. FinishingShape'
      BY <2>1 DEF AnswerWith, CommitAll, EndTransaction, FinishingShape, TypeOK
    <2>5. QED
      BY <2>3, <2>4
  <1>13. ASSUME NEW r \in Requests, Fail(r)
         PROVE  Typed'
    <2>1. at[r] # "idle" /\ EndTransaction(r) /\ AnswerWith(r, "error") /\ Fault
      BY <1>13 DEF Fail
    <2>2. TypeOK'
      BY <1>13, <2>1, AnswerWithType, EndTransactionType, FaultType
         DEF Fail, TypeOK, browser, Answers
    <2>3. FinishingShape'
      BY <2>1 DEF AnswerWith, EndTransaction, FinishingShape, TypeOK
    <2>4. QED
      BY <2>2, <2>3
  <1>14. ASSUME NEW r \in Requests, Respond(r)
         PROVE  Typed'
    <2>1. at[r] # "idle" /\ cmd[r] \in Intents /\ Free(r)
      BY <1>14 DEF Respond, TypeOK
    <2>2. FinishingShape'
      BY <1>14, <2>1 DEF Respond, Free, FinishingShape, TypeOK
    <2>3. CASE listening[r]
      BY <1>14, <2>1, <2>2, <2>3, FreeType, HearType DEF Respond, TypeOK, database
    <2>4. CASE ~listening[r]
      BY <1>14, <2>1, <2>2, <2>4, FreeType DEF Respond, TypeOK, database, browser
    <2>5. QED
      BY <2>3, <2>4
  <1>15. ASSUME NEW r \in Requests, Cut(r)
         PROVE  Typed'
    <2>1. EndTransaction(r) /\ Free(r) /\ Fault
      BY <1>15 DEF Cut
    <2>2. TypeOK'
      BY <1>15, <2>1, FreeType, EndTransactionType, FaultType DEF Cut, TypeOK, browser
    <2>3. FinishingShape'
      BY <2>1 DEF Free, EndTransaction, FinishingShape, TypeOK
    <2>4. QED
      BY <2>2, <2>3
  <1>16. ASSUME NEW r \in Requests, Drop(r)
         PROVE  Typed'
    BY <1>16, FaultType DEF Drop, TypeOK, FinishingShape, database, browser
  <1>17. ASSUME NEW r \in Requests, Refuse(r)
         PROVE  Typed'
    <2>1. PICK kept \in 0 .. work[r] : work' = [work EXCEPT ![r] = kept]
      BY <1>17 DEF Refuse
    <2>2. kept \in 0 .. Steps
      BY <2>1, GateAssumption DEF TypeOK
    <2>3. QED
      BY <1>17, <2>1, <2>2, FaultType
         DEF Refuse, TypeOK, FinishingShape, Places, Answers, database, browser
  <1>18. ASSUME Redecide
         PROVE  Typed'
    BY <1>18, FaultType DEF Redecide, TypeOK, FinishingShape, database, browser
  <1>19. ASSUME UNCHANGED vars
         PROVE  Typed'
    BY <1>19 DEF vars, TypeOK, FinishingShape
  <1>20. QED
    BY <1>2, <1>3, <1>4, <1>5, <1>6, <1>7, <1>8, <1>9, <1>10, <1>11, <1>12, <1>13,
       <1>14, <1>15, <1>16, <1>17, <1>18, <1>19
       DEF Next, ServerStep, Mishap

\* Every reachable state is well typed; in particular no row of the keys' table
\* is ever committed without the verdict of a handler.
THEOREM TypeCorrect == Spec => []TypeOK
  <1>1. Typed /\ [Next]_vars => Typed'
    BY TypedStep
  <1>2. Typed => TypeOK
    BY DEF Typed
  <1>3. QED
    BY TypedInit, <1>1, <1>2, PTL DEF Spec

-----------------------------------------------------------------------------
(* The transaction: a key belongs to the request whose handler runs under it *)
(* and to no other, and has no record and no statements before that request  *)
(* commits.                                                                  *)

InTransaction == {"running", "finishing", "hung"}

GateShape ==
    /\ \A k \in Keys : store[k] = NoRecord => performed[k] = 0
    /\ \A k \in Keys :
          holder[k] # NoRequest =>
             /\ store[k] = NoRecord
             /\ at[holder[k]] \in InTransaction
             /\ key[holder[k]] = k
    /\ \A r \in Requests : at[r] \in InTransaction => holder[key[r]] = r

GateInv == Typed /\ GateShape

LEMMA GateInit == Init => GateShape
  BY DEF Init, GateShape, InTransaction

\* A request that ends its transaction leaves the keys of the others alone.
LEMMA EndsOwn ==
    ASSUME GateInv, NEW r \in Requests, EndTransaction(r)
    PROVE  \A k \in Keys :
              /\ holder'[k] # NoRequest => holder'[k] = holder[k] /\ holder[k] # r
              /\ holder[k] # r => holder'[k] = holder[k]
  BY DEF EndTransaction

LEMMA GateStep ==
    ASSUME GateInv, [Next]_vars
    PROVE  GateShape'
  <1> USE DEF GateInv, Typed
  <1>1. ASSUME NEW r \in Requests, NEW i \in Intents, NEW k \in Keys, SendWith(r, i, k)
        PROVE  GateShape'
    BY <1>1, GateAssumption DEF SendWith, GateShape, InTransaction, TypeOK, database
  <1>2. ASSUME NEW r \in Requests, NEW i \in Intents, Send(r, i)
        PROVE  GateShape'
    <2>1. PICK k \in OwnKeys(BodyOf[i]) : SendWith(r, i, k)
      BY <1>2 DEF Send
    <2>2. k \in Keys
      BY <2>1, GateAssumption DEF OwnKeys, TypeOK
    <2>3. QED
      BY <1>1, <2>1, <2>2
  <1>3. ASSUME NEW r \in Requests, NEW i \in Intents, SendKeyed(r, i)
        PROVE  GateShape'
    BY <1>1, <1>3, GateAssumption DEF SendKeyed
  \* The steps that end a transaction without committing it.
  <1>4. ASSUME NEW r \in Requests, EndTransaction(r), at'[r] \notin InTransaction,
               \A q \in Requests \ {r} : at'[q] = at[q] /\ key'[q] = key[q],
               UNCHANGED <<store, performed>>
        PROVE  GateShape'
    <2>1. \A k \in Keys : holder'[k] # NoRequest => holder'[k] \in Requests \ {r}
      BY <1>4, EndsOwn DEF TypeOK
    <2>2. \A k \in Keys :
             holder'[k] # NoRequest =>
                /\ store'[k] = NoRecord
                /\ at'[holder'[k]] \in InTransaction
                /\ key'[holder'[k]] = k
      BY <1>4, <2>1, EndsOwn DEF GateShape
    <2>3. \A q \in Requests : at'[q] \in InTransaction => holder'[key'[q]] = q
      <3> SUFFICES ASSUME NEW q \in Requests, at'[q] \in InTransaction
                   PROVE  holder'[key'[q]] = q
        OBVIOUS
      <3>1. q # r /\ at[q] \in InTransaction /\ key'[q] = key[q]
        BY <1>4
      <3>2. holder[key[q]] = q /\ key[q] \in Keys
        BY <3>1 DEF GateShape, TypeOK, InTransaction
      <3>3. QED
        BY <1>4, <3>1, <3>2, EndsOwn
    <2>4. QED
      BY <1>4, <2>2, <2>3 DEF GateShape
  \* The steps that neither begin nor end one.
  <1>5. ASSUME NEW r \in Requests, UNCHANGED <<store, performed, holder, key>>,
               \A q \in Requests : at'[q] \in InTransaction <=> at[q] \in InTransaction
        PROVE  GateShape'
    BY <1>5 DEF GateShape, TypeOK
  <1>6. ASSUME NEW r \in Requests, Admit(r)
        PROVE  GateShape'
    BY <1>5, <1>6
       DEF Admit, AnswerWith, MoveTo, InTransaction, TypeOK, database
  <1>7. ASSUME NEW r \in Requests, Begin(r)
        PROVE  GateShape'
    BY <1>5, <1>7 DEF Begin, MoveTo, InTransaction, TypeOK
  <1>8. ASSUME NEW r \in Requests, Lookup(r)
        PROVE  GateShape'
    <2>1. CASE store[key[r]] = NoRecord
      BY <1>5, <1>8, <2>1 DEF Lookup, MoveTo, InTransaction, TypeOK
    <2>2. CASE store[key[r]] # NoRecord
      BY <1>4, <1>8, <2>2 DEF Lookup, AnswerWith, InTransaction, TypeOK
    <2>3. QED
      BY <2>1, <2>2
  <1>9. ASSUME NEW r \in Requests, Insert(r)
        PROVE  GateShape'
    <2>1. CASE KeyTaken(r)
      BY <1>4, <1>9, <2>1 DEF Insert, AnswerWith, InTransaction, TypeOK
    <2>2. CASE ~KeyTaken(r)
      <3>1. /\ store[key[r]] = NoRecord /\ holder[key[r]] = NoRequest /\ key[r] \in Keys
            /\ holder' = [holder EXCEPT ![key[r]] = r]
            /\ at' = [at EXCEPT ![r] = "running"]
            /\ UNCHANGED <<store, performed, key>>
            /\ at[r] = "insert"
        BY <1>9, <2>2 DEF Insert, KeyTaken, MoveTo, TypeOK
      <3>2. \A q \in Requests : at[q] \in InTransaction => key[q] # key[r]
        BY <3>1, GateAssumption DEF GateShape
      <3>3. \A q \in Requests : at[q] \in InTransaction => key[q] \in Keys
        BY DEF TypeOK, InTransaction
      <3>4. \A k \in Keys : holder[k] # r
        BY <3>1, GateAssumption DEF GateShape, InTransaction, TypeOK
      <3>5. \A k \in Keys : holder'[k] # NoRequest =>
               /\ store'[k] = NoRecord
               /\ at'[holder'[k]] \in InTransaction
               /\ key'[holder'[k]] = k
        BY <3>1, <3>4 DEF GateShape, InTransaction, TypeOK
      <3>6. \A q \in Requests : at'[q] \in InTransaction => holder'[key'[q]] = q
        BY <3>1, <3>2, <3>3 DEF GateShape, InTransaction, TypeOK
      <3>7. QED
        BY <3>1, <3>5, <3>6 DEF GateShape
    <2>3. QED
      BY <2>1, <2>2
  <1>10. ASSUME NEW r \in Requests,
                Statement(r) \/ Reply(r) \/ ReplySilently(r) \/ Refuse(r)
         PROVE  GateShape'
    BY <1>5, <1>10
       DEF Statement, Reply, ReplySilently, Refuse, InTransaction, TypeOK, database
  <1>11. ASSUME NEW r \in Requests, NEW a, CommitAll(r), AnswerWith(r, a)
         PROVE  GateShape'
    <2>1. /\ holder[key[r]] = r /\ key[r] \in Keys
          /\ at' = [at EXCEPT ![r] = "answering"]
          /\ \A k \in Keys \ {key[r]} : store'[k] = store[k] /\ performed'[k] = performed[k]
          /\ store'[key[r]] = Recorded(r)
          /\ EndTransaction(r)
          /\ UNCHANGED key
      BY <1>11 DEF CommitAll, AnswerWith, GateShape, InTransaction, TypeOK
    <2>2. Recorded(r) # NoRecord
      <3>1. cmd[r] \in Intents
        BY <1>11 DEF CommitAll, TypeOK
      <3>2. QED
        BY <3>1, GateAssumption DEF Recorded, NoRecord
    <2>3. \A k \in Keys : holder'[k] # NoRequest =>
               /\ store'[k] = NoRecord
               /\ at'[holder'[k]] \in InTransaction
               /\ key'[holder'[k]] = k
      BY <2>1, EndsOwn DEF GateShape, TypeOK
    <2>4. ASSUME NEW q \in Requests, at'[q] \in InTransaction
          PROVE  holder'[key'[q]] = q
      <3>1. q # r /\ at[q] \in InTransaction /\ key[q] \in Keys
        BY <2>1, <2>4 DEF InTransaction, TypeOK
      <3>2. QED
        BY <2>1, <3>1, EndsOwn DEF GateShape
    <2>5. \A k \in Keys : store'[k] = NoRecord => performed'[k] = 0
      BY <2>1, <2>2 DEF GateShape
    <2>6. QED
      BY <2>3, <2>4, <2>5 DEF GateShape
  <1>12. ASSUME NEW r \in Requests, Commit(r) \/ CommitUnheard(r)
         PROVE  GateShape'
    BY <1>11, <1>12 DEF Commit, CommitUnheard
  <1>13. ASSUME NEW r \in Requests, Fail(r)
         PROVE  GateShape'
    BY <1>4, <1>13 DEF Fail, AnswerWith, InTransaction, TypeOK
  <1>14. ASSUME NEW r \in Requests, Respond(r)
         PROVE  GateShape'
    BY <1>14 DEF Respond, Free, GateShape, InTransaction, TypeOK, database
  <1>15. ASSUME NEW r \in Requests, Cut(r)
         PROVE  GateShape'
    BY <1>4, <1>15 DEF Cut, Free, InTransaction, TypeOK
  <1>16. ASSUME NEW r \in Requests, Drop(r)
         PROVE  GateShape'
    BY <1>16 DEF Drop, GateShape, database
  <1>17. ASSUME Redecide
         PROVE  GateShape'
    BY <1>17 DEF Redecide, GateShape, database
  <1>18. ASSUME UNCHANGED vars
         PROVE  GateShape'
    BY <1>18 DEF vars, GateShape
  <1>19. QED
    BY <1>2, <1>3, <1>6, <1>7, <1>8, <1>9, <1>10, <1>12, <1>13, <1>14, <1>15,
       <1>16, <1>17, <1>18
       DEF Next, ServerStep, Mishap

THEOREM GateInvariant == Spec => []GateInv
  <1>1. Init => GateInv
    BY TypedInit, GateInit DEF GateInv
  <1>2. GateInv /\ [Next]_vars => GateInv'
    BY TypedStep, GateStep DEF GateInv
  <1>3. QED
    BY <1>1, <1>2, PTL DEF Spec

-----------------------------------------------------------------------------
(* The steps that leave the committed rows alone, and the one that does not. *)

LEMMA StoreMoves ==
    ASSUME GateInv, [Next]_vars
    PROVE  \/ UNCHANGED <<store, performed, effects>>
           \/ \E r \in Requests :
                 /\ at[r] = "finishing"
                 /\ key[r] \in Keys /\ cmd[r] \in Intents
                 /\ store[key[r]] = NoRecord
                 /\ performed[key[r]] = 0
                 /\ CommitAll(r)
                 /\ AnswerWith(r, answer[r]) \/ AnswerWith(r, "error")
                 /\ UNCHANGED <<browser, denied>>
  <1>1. ASSUME NEW r \in Requests, CommitAll(r)
        PROVE  /\ at[r] = "finishing"
               /\ key[r] \in Keys /\ cmd[r] \in Intents
               /\ store[key[r]] = NoRecord
               /\ performed[key[r]] = 0
    <2>1. at[r] = "finishing" /\ key[r] \in Keys /\ cmd[r] \in Intents
      BY <1>1 DEF CommitAll, GateInv, Typed, TypeOK
    <2>2. holder[key[r]] = r
      BY <2>1 DEF GateInv, GateShape, InTransaction
    <2>3. QED
      BY <2>1, <2>2, GateAssumption DEF GateInv, GateShape
  <1>2. ASSUME NEW r \in Requests, Commit(r) \/ CommitUnheard(r)
        PROVE  /\ CommitAll(r)
               /\ AnswerWith(r, answer[r]) \/ AnswerWith(r, "error")
               /\ UNCHANGED <<browser, denied>>
    BY <1>2 DEF Commit, CommitUnheard
  <1>3. ASSUME NEW r \in Requests, NEW i \in Intents, Send(r, i) \/ SendKeyed(r, i)
        PROVE  UNCHANGED <<store, performed, effects>>
    BY <1>3 DEF Send, SendKeyed, SendWith, database
  <1>4. ASSUME NEW r \in Requests,
               \/ Admit(r) \/ Begin(r) \/ Lookup(r) \/ Insert(r) \/ Statement(r)
               \/ Reply(r) \/ ReplySilently(r) \/ Respond(r) \/ Drop(r)
               \/ Refuse(r) \/ Fail(r) \/ Cut(r)
        PROVE  UNCHANGED <<store, performed, effects>>
    BY <1>4
       DEF Admit, Begin, Lookup, Insert, Statement, Reply, ReplySilently, Respond,
           Drop, Refuse, Fail, Cut, database
  <1>5. Redecide \/ UNCHANGED vars => UNCHANGED <<store, performed, effects>>
    BY DEF Redecide, vars, database
  <1>6. QED
    BY <1>1, <1>2, <1>3, <1>4, <1>5 DEF Next, ServerStep, Mishap

\* The gate implements the promise of idempotency keys: under each key one
\* command is carried out whole, or refused with what its handler left, in one
\* step with its outcome; the outcome never changes and nothing follows it.
THEOREM ImplementsLedger == Spec => LedgerSpec
  <1>1. Init => Ledger!Init
    BY DEF Init, Ledger!Init, Ledger!Pending, OutcomeOf
  <1>2. ASSUME GateInv, [Next]_vars
        PROVE  [Ledger!Next]_<<[k \in Keys |-> OutcomeOf(store[k])], performed>>
    <2>1. CASE UNCHANGED <<store, performed, effects>>
      BY <2>1
    <2>2. ASSUME NEW r \in Requests,
                 at[r] = "finishing",
                 key[r] \in Keys, cmd[r] \in Intents,
                 store[key[r]] = NoRecord,
                 performed[key[r]] = 0,
                 CommitAll(r)
          PROVE  Ledger!Next
      <3> DEFINE k == key[r]
                 o == [j \in Keys |-> OutcomeOf(store[j])]
      <3>1. Recorded(r) # NoRecord
        BY <2>2, GateAssumption DEF Recorded, NoRecord
      <3>2. OutcomeOf(Recorded(r)) = [command |-> cmd[r], verdict |-> answer[r]]
        BY <3>1 DEF OutcomeOf, Recorded
      <3>3. o[k] = Ledger!Pending
        BY <2>2 DEF OutcomeOf, Ledger!Pending
      <3>4. store' = [store EXCEPT ![k] = Recorded(r)]
        BY <2>2 DEF CommitAll
      <3>5. store \in [Keys -> Record \cup {NoRecord}]
        BY <1>2 DEF GateInv, Typed, TypeOK
      <3>6. o' = [o EXCEPT ![k] = [command |-> cmd[r], verdict |-> answer[r]]]
        BY <2>2, <3>2, <3>4, <3>5
      <3>7. performed \in [Keys -> Nat] /\ Steps \in Nat
        BY <1>2, GateAssumption DEF GateInv, Typed, TypeOK
      <3>8. performed' = [performed EXCEPT ![k] = work[r]]
        <4>1. performed' = [performed EXCEPT ![k] = performed[k] + work[r]]
          BY <2>2 DEF CommitAll
        <4>2. performed[k] + work[r] = work[r]
          <5>1. work[r] \in Nat
            BY <1>2, GateAssumption DEF GateInv, Typed, TypeOK
          <5>2. QED
            BY <2>2, <5>1
        <4>3. QED
          BY <4>1, <4>2
      <3>9. CASE answer[r] = "ok" /\ work[r] = Steps
        <4>1. Ledger!CarryOut(k, cmd[r])
          BY <3>3, <3>6, <3>8, <3>9 DEF Ledger!CarryOut
        <4>2. QED
          BY <2>2, <4>1 DEF Ledger!Next
      <3>10. CASE answer[r] = "refused"
        <4>1. work[r] \in 0 .. Steps
          BY <1>2 DEF GateInv, Typed, TypeOK
        <4>2. Ledger!TurnDown(k, cmd[r])
          BY <3>3, <3>6, <3>8, <3>10, <4>1 DEF Ledger!TurnDown
        <4>3. QED
          BY <2>2, <4>2 DEF Ledger!Next
      <3>11. QED
        BY <1>2, <2>2, <3>9, <3>10 DEF GateInv, Typed, FinishingShape
    <2>3. QED
      BY <1>2, <2>1, <2>2, StoreMoves
  <1>3. QED
    BY <1>1, <1>2, GateInvariant, PTL DEF Spec, LedgerSpec, Ledger!Spec

-----------------------------------------------------------------------------
(* A success seen is a command carried out.  The record of a success stands  *)
(* for an effect of its intent, and so does every success on its way to the  *)
(* browser.                                                                  *)

SuccessShape ==
    /\ \A k \in Keys : store[k].verdict = "ok" => effects[store[k].intent] >= 1
    /\ \A r \in Requests :
          at[r] = "answering" /\ answer[r] = "ok" => effects[cmd[r]] >= 1
    /\ TruthfulSuccess

\* A stored verdict is given to the same user for the same body only.
LEMMA VerdictMatches ==
    ASSUME NEW r \in Requests, cmd[r] \in Intents, NEW record \in Record,
           Verdict(record, r) \in {"ok", "refused"}
    PROVE  /\ Verdict(record, r) = record.verdict
           /\ record.intent = cmd[r]
  BY GateAssumption DEF Verdict, Record, Body

\* The parts of SuccessShape that are not about requests need a success only.
LEMMA SuccessStep ==
    ASSUME GateInv, SuccessShape, [Next]_vars
    PROVE  SuccessShape'
  <1> USE DEF GateInv, Typed
  \* Requests move on; one that begins to answer "ok" has an effect to show.
  <1>1. ASSUME UNCHANGED <<store, effects, satisfied>>,
               \A q \in Requests :
                  at'[q] = "answering" /\ answer'[q] = "ok" => effects[cmd'[q]] >= 1
        PROVE  SuccessShape'
    BY <1>1 DEF SuccessShape, TruthfulSuccess
  <1>2. ASSUME NEW r \in Requests, NEW i \in Intents, Send(r, i) \/ SendKeyed(r, i)
        PROVE  SuccessShape'
    <2>1. /\ UNCHANGED <<store, effects, satisfied, answer>>
          /\ at' = [at EXCEPT ![r] = "sent"]
          /\ cmd' = [cmd EXCEPT ![r] = i]
      BY <1>2 DEF Send, SendKeyed, SendWith, database
    <2>2. QED
      BY <1>1, <2>1 DEF SuccessShape, TypeOK
  <1>3. ASSUME NEW r \in Requests, NEW a \in Answers \ {"ok"}, AnswerWith(r, a),
               UNCHANGED <<store, effects, satisfied>>
        PROVE  SuccessShape'
    BY <1>1, <1>3 DEF AnswerWith, SuccessShape, TypeOK
  <1>4. ASSUME NEW r \in Requests, NEW place \in Places \ {"answering"},
               MoveTo(r, place), UNCHANGED <<store, effects, satisfied, answer>>
        PROVE  SuccessShape'
    BY <1>1, <1>4 DEF MoveTo, SuccessShape, TypeOK
  <1>5. ASSUME NEW r \in Requests, Admit(r)
        PROVE  SuccessShape'
    BY <1>3, <1>4, <1>5 DEF Admit, Places, Answers, database, browser
  <1>6. ASSUME NEW r \in Requests, Begin(r)
        PROVE  SuccessShape'
    BY <1>4, <1>6 DEF Begin, Places, browser
  <1>7. ASSUME NEW r \in Requests, Lookup(r)
        PROVE  SuccessShape'
    <2>1. CASE store[key[r]] = NoRecord
      BY <1>4, <1>7, <2>1 DEF Lookup, Places, browser
    <2>2. CASE store[key[r]] # NoRecord
      <3> DEFINE v == Verdict(store[key[r]], r)
      <3>1. key[r] \in Keys /\ cmd[r] \in Intents
        BY <1>7 DEF Lookup, TypeOK
      <3>2. store[key[r]] \in Record
        BY <2>2, <3>1, StoredRecord
      <3>3. v \in Answers
        BY <3>2, VerdictType DEF Answers
      <3>4. AnswerWith(r, v) /\ UNCHANGED <<store, effects, satisfied>>
        BY <1>7, <2>2 DEF Lookup, browser
      <3>5. v = "ok" => effects[cmd[r]] >= 1
        BY <3>1, <3>2, VerdictMatches DEF SuccessShape
      <3> HIDE DEF v
      <3>6. QED
        BY <1>1, <3>3, <3>4, <3>5 DEF AnswerWith, SuccessShape, TypeOK
    <2>3. QED
      BY <2>1, <2>2
  <1>8. ASSUME NEW r \in Requests, Insert(r)
        PROVE  SuccessShape'
    BY <1>3, <1>4, <1>8 DEF Insert, Places, Answers, browser
  <1>9. ASSUME NEW r \in Requests, Statement(r) \/ Reply(r) \/ Refuse(r)
        PROVE  SuccessShape'
    <2>1. UNCHANGED <<store, effects, satisfied, cmd>>
      BY <1>9 DEF Statement, Reply, Refuse, database, browser
    <2>2. \A q \in Requests :
             at'[q] = "answering" => at[q] = "answering" /\ answer'[q] = answer[q]
      BY <1>9 DEF Statement, Reply, Refuse, TypeOK
    <2>3. QED
      BY <1>1, <2>1, <2>2 DEF SuccessShape
  <1>10. ASSUME NEW r \in Requests, NEW a, CommitAll(r), AnswerWith(r, a),
                a \in {"ok", "refused", "error"}, a = "ok" => answer[r] = "ok",
                UNCHANGED browser
         PROVE  SuccessShape'
    <2>1. cmd[r] \in Intents /\ key[r] \in Keys
      BY <1>10 DEF CommitAll, TypeOK
    <2>2. /\ effects' \in [Intents -> Nat]
          /\ \A i \in Intents : effects'[i] >= effects[i]
          /\ answer[r] = "ok" => effects'[cmd[r]] >= 1
      BY <1>10, <2>1 DEF CommitAll, TypeOK
    <2>3. \A k \in Keys : store'[k].verdict = "ok" => effects'[store'[k].intent] >= 1
      <3> SUFFICES ASSUME NEW k \in Keys, store'[k].verdict = "ok"
                   PROVE  effects'[store'[k].intent] >= 1
        OBVIOUS
      <3>1. CASE k = key[r]
        BY <1>10, <2>1, <2>2, <3>1 DEF CommitAll, Recorded, TypeOK
      <3>2. CASE k # key[r]
        <4>1. store'[k] = store[k]
          BY <1>10, <3>2 DEF CommitAll, TypeOK
        <4>2. store[k].verdict = "ok" /\ effects[store[k].intent] >= 1
          BY <4>1 DEF SuccessShape
        <4>3. store[k].intent \in Intents
          BY <4>2 DEF TypeOK, Record, NoRecord
        <4>4. effects[store[k].intent] \in Nat /\ effects'[store[k].intent] \in Nat
          BY <2>2, <4>3 DEF TypeOK
        <4>5. QED
          BY <2>2, <4>1, <4>2, <4>3, <4>4
      <3>3. QED
        BY <3>1, <3>2
    <2>4. ASSUME NEW q \in Requests, at'[q] = "answering", answer'[q] = "ok"
          PROVE  effects'[cmd'[q]] >= 1
      <3>1. CASE q = r
        BY <1>10, <2>2, <2>4, <3>1 DEF AnswerWith, TypeOK
      <3>2. CASE q # r
        <4>1. at[q] = "answering" /\ answer[q] = "ok" /\ cmd'[q] = cmd[q]
          BY <1>10, <2>4, <3>2 DEF AnswerWith, TypeOK
        <4>2. effects[cmd[q]] >= 1 /\ cmd[q] \in Intents
          BY <4>1 DEF SuccessShape, TypeOK
        <4>3. effects[cmd[q]] \in Nat /\ effects'[cmd[q]] \in Nat
          BY <2>2, <4>2 DEF TypeOK
        <4>4. QED
          BY <2>2, <4>1, <4>2, <4>3
      <3>3. QED
        BY <3>1, <3>2
    <2>5. TruthfulSuccess'
      <3> SUFFICES ASSUME NEW i \in Intents, satisfied[i], BodyOf[i] \notin Silent
                   PROVE  effects'[i] >= 1
        BY <1>10 DEF TruthfulSuccess, browser
      <3>1. effects[i] >= 1 /\ effects[i] \in Nat /\ effects'[i] \in Nat
        BY <2>2 DEF SuccessShape, TruthfulSuccess, TypeOK
      <3>2. QED
        BY <2>2, <3>1
    <2>6. QED
      BY <2>3, <2>4, <2>5 DEF SuccessShape
  <1>11. ASSUME NEW r \in Requests, Commit(r) \/ CommitUnheard(r)
         PROVE  SuccessShape'
    <2>1. answer[r] \in {"ok", "refused"}
      BY <1>11 DEF Commit, CommitUnheard, CommitAll, FinishingShape
    <2>2. QED
      BY <1>10, <1>11, <2>1 DEF Commit, CommitUnheard
  <1>12. ASSUME NEW r \in Requests, Fail(r)
         PROVE  SuccessShape'
    BY <1>3, <1>12 DEF Fail, Answers, browser
  <1>13. ASSUME NEW r \in Requests, Free(r), UNCHANGED <<store, effects, satisfied>>
         PROVE  SuccessShape'
    <2>1. \A q \in Requests :
             at'[q] = "answering" =>
                at[q] = "answering" /\ answer'[q] = answer[q] /\ cmd'[q] = cmd[q]
      BY <1>13 DEF Free, TypeOK
    <2>2. QED
      BY <1>1, <1>13, <2>1 DEF SuccessShape
  <1>14. ASSUME NEW r \in Requests, Respond(r)
         PROVE  SuccessShape'
    <2>1. CASE satisfied' = satisfied
      BY <1>13, <1>14, <2>1 DEF Respond, database
    <2>2. CASE satisfied' # satisfied
      <3>1. /\ answer[r] = "ok" /\ at[r] = "answering"
            /\ satisfied' = [satisfied EXCEPT ![cmd[r]] = TRUE]
            /\ UNCHANGED <<store, effects>>
            /\ Free(r)
        BY <1>14, <2>2 DEF Respond, Hear, browser, database
      <3>2. cmd[r] \in Intents /\ effects[cmd[r]] >= 1
        BY <3>1 DEF SuccessShape, TypeOK
      <3>3. TruthfulSuccess'
        BY <3>1, <3>2 DEF SuccessShape, TruthfulSuccess, TypeOK
      <3>4. \A q \in Requests :
               at'[q] = "answering" =>
                  at[q] = "answering" /\ answer'[q] = answer[q] /\ cmd'[q] = cmd[q]
        BY <3>1 DEF Free, TypeOK
      <3>5. QED
        BY <3>1, <3>3, <3>4 DEF SuccessShape
    <2>3. QED
      BY <2>1, <2>2
  <1>15. ASSUME NEW r \in Requests, Cut(r)
         PROVE  SuccessShape'
    BY <1>13, <1>15 DEF Cut, browser
  <1>16. ASSUME NEW r \in Requests, Drop(r)
         PROVE  SuccessShape'
    BY <1>1, <1>16 DEF Drop, SuccessShape, database, browser
  <1>17. ASSUME Redecide \/ UNCHANGED vars
         PROVE  SuccessShape'
    BY <1>1, <1>17 DEF Redecide, vars, SuccessShape, database, browser
  \* The success of a silent handler is one the property does not speak of.
  <1>18. ASSUME NEW r \in Requests, ReplySilently(r)
         PROVE  SuccessShape'
    <2>1. /\ UNCHANGED <<store, effects, cmd, answer>>
          /\ at' = [at EXCEPT ![r] = "hung"]
          /\ cmd[r] \in Intents /\ BodyOf[cmd[r]] \in Silent
          /\ \/ satisfied' = satisfied
             \/ satisfied' = [satisfied EXCEPT ![cmd[r]] = TRUE]
      BY <1>18 DEF ReplySilently, Hear, Body, TypeOK, database, browser
    <2>2. TruthfulSuccess'
      BY <2>1 DEF SuccessShape, TruthfulSuccess, TypeOK
    <2>3. \A q \in Requests : at'[q] = "answering" => at[q] = "answering"
      BY <2>1 DEF TypeOK
    <2>4. QED
      BY <2>1, <2>2, <2>3 DEF SuccessShape
  <1>19. QED
    BY <1>2, <1>5, <1>6, <1>7, <1>8, <1>9, <1>11, <1>12, <1>14, <1>15, <1>16,
       <1>17, <1>18
       DEF Next, ServerStep, Mishap

\* A user who is told of a success by a handler that answers with res.json can
\* rely on it, whatever requests, keys and users get mixed up.
THEOREM SuccessIsTruthful == Spec => []TruthfulSuccess
  <1>1. Init => SuccessShape
    BY DEF Init, SuccessShape, TruthfulSuccess, NoRecord
  <1>2. SuccessShape /\ GateInv /\ [Next]_vars => SuccessShape'
    BY SuccessStep
  <1>3. SuccessShape => TruthfulSuccess
    BY DEF SuccessShape
  <1>4. QED
    BY <1>1, <1>2, <1>3, GateInvariant, PTL DEF Spec

-----------------------------------------------------------------------------
(* Repeats are explained.  A key that carries an intent, or still might, is   *)
(* loose until it is given up.  There is at most one loose key for an intent, *)
(* and while its user has seen no success it is the one the browser keeps, so *)
(* a further attempt either uses that key or gives it up first.               *)

UnderWay == Places \ {"idle", "answering", "hung"}

Loose(i) == Live(i) \ strays[i]

LooseKept ==
    \A i \in Intents :
       BodyOf[i] \notin Silent =>
          /\ ~satisfied[i] => \A k \in Loose(i) : k = pending[BodyOf[i]]
          /\ \A k, l \in Loose(i) : k = l

\* The keys an intent was carried out under; there are as many as effects.
Carried(i) == {k \in Keys : store[k].intent = i /\ store[k].verdict = "ok"}

Counted == \A i \in Intents : effects[i] <= Cardinality(Carried(i))

\* An answer that comes from a handler is the one its key has on record.
TrueAnswers ==
    \A r \in Requests :
       at[r] = "answering" /\ answer[r] \in {"ok", "refused"} =>
          /\ store[key[r]].verdict = answer[r]
          /\ store[key[r]].intent = cmd[r]

\* A handler that does not call res.json commits no success.
SilentFails ==
    /\ \A i \in Intents : BodyOf[i] \in Silent => effects[i] = 0
    /\ \A r \in Requests :
          at[r] = "finishing" /\ answer[r] = "ok" => Body(r) \notin Silent

RepeatInv ==
    /\ LooseKept
    /\ Counted
    /\ TrueAnswers
    /\ SilentFails

LEMMA RepeatInit == Init => RepeatInv
  <1> SUFFICES ASSUME Init
               PROVE  RepeatInv
    OBVIOUS
  <1>1. \A i \in Intents : Live(i) = {} /\ Carried(i) = {}
    BY GateAssumption DEF Init, Live, Carried, NoRecord
  <1>2. Counted
    <2>1. \A i \in Intents : Cardinality(Carried(i)) = 0
      BY <1>1, FS_EmptySet, Zenon
    <2>2. QED
      BY <2>1 DEF Init, Counted
  <1>3. LooseKept
    BY <1>1 DEF LooseKept, Loose
  <1>4. TrueAnswers /\ SilentFails
    BY DEF Init, TrueAnswers, SilentFails
  <1>5. QED
    BY <1>2, <1>3, <1>4 DEF RepeatInv

\* Effects, and the keys they are under, follow from the bounds on loose keys.
LEMMA RepeatsBounded ==
    ASSUME GateInv, RepeatInv
    PROVE  RepeatsExplained
  <1> SUFFICES ASSUME NEW i \in Intents
               PROVE  effects[i] <= 1 + Cardinality(strays[i])
    BY DEF RepeatsExplained
  <1>1. strays[i] \in SUBSET Keys /\ effects[i] \in Nat
    BY DEF GateInv, Typed, TypeOK
  <1>2. IsFiniteSet(strays[i]) /\ Cardinality(strays[i]) \in Nat
    BY <1>1, GateAssumption, FS_Subset, FS_CardinalityType
  <1>3. CASE BodyOf[i] \in Silent
    <2>1. effects[i] = 0
      BY <1>3 DEF RepeatInv, SilentFails
    <2>2. QED
      BY <1>2, <2>1
  <1>4. CASE BodyOf[i] \notin Silent
    <2>1. \E k : Carried(i) \subseteq strays[i] \cup {k}
      <3>1. Carried(i) \subseteq Live(i)
        BY DEF Carried, Live
      <3>2. \A k, l \in Loose(i) : k = l
        BY <1>4 DEF RepeatInv, LooseKept
      <3>3. QED
        BY <3>1, <3>2 DEF Loose
    <2>2. PICK k : Carried(i) \subseteq strays[i] \cup {k}
      BY <2>1
    <2>3. /\ IsFiniteSet(strays[i] \cup {k})
          /\ Cardinality(strays[i] \cup {k}) <= 1 + Cardinality(strays[i])
          /\ Cardinality(strays[i] \cup {k}) \in Nat
      <3>1. /\ IsFiniteSet(strays[i] \cup {k})
            /\ Cardinality(strays[i] \cup {k}) =
                  IF k \in strays[i] THEN Cardinality(strays[i])
                                    ELSE Cardinality(strays[i]) + 1
        BY <1>2, FS_AddElement, Zenon
      <3>2. QED
        BY <1>2, <3>1
    <2>4. /\ Cardinality(Carried(i)) <= Cardinality(strays[i] \cup {k})
          /\ Cardinality(Carried(i)) \in Nat
      BY <2>2, <2>3, FS_Subset, FS_CardinalityType
    <2>5. effects[i] <= Cardinality(Carried(i))
      BY DEF RepeatInv, Counted
    <2>6. QED
      BY <1>1, <1>2, <2>3, <2>4, <2>5
  <1>5. QED
    BY <1>3, <1>4

\* A step after which no request is newly under way leaves no key newly live.
LEMMA LiveShrinks ==
    ASSUME TypeOK, store' = store,
           \A q \in Requests :
              at'[q] \in UnderWay =>
                 at[q] \in UnderWay /\ cmd'[q] = cmd[q] /\ key'[q] = key[q],
           at' \in [Requests -> Places], NEW i
    PROVE  Live(i)' \subseteq Live(i)
  BY DEF Live, UnderWay, TypeOK

LEMMA LooseShrinks ==
    ASSUME \A i \in Intents : Live(i)' \subseteq Live(i), LooseKept,
           UNCHANGED <<pending, satisfied, strays>>
    PROVE  LooseKept'
  BY DEF LooseKept, Loose

\* The key that is given up is loose no more for any intent of its body.
LEMMA StrandKeeps ==
    ASSUME TypeOK, NEW b \in Bodies, Strand(b), LooseKept,
           NEW i \in Intents, BodyOf[i] = b, b \notin Silent,
           Live(i)' \subseteq Live(i), satisfied[i] => satisfied'[i]
    PROVE  /\ ~satisfied'[i] => Loose(i)' = {}
           /\ \A k, l \in Loose(i)' : k = l
  <1>1. strays[i] \subseteq strays'[i]
    BY DEF Strand
  <1>2. Loose(i)' \subseteq Loose(i)
    BY <1>1 DEF Loose
  <1>3. ~satisfied'[i] /\ pending[b] \in Live(i) => pending[b] \in strays'[i]
    BY DEF Strand
  <1>4. ~satisfied'[i] => \A k \in Loose(i) : k = pending[b]
    BY DEF LooseKept
  <1>5. \A k, l \in Loose(i) : k = l
    BY DEF LooseKept
  <1>6. ASSUME ~satisfied'[i]
        PROVE  Loose(i)' = {}
    BY <1>2, <1>3, <1>4, <1>6 DEF Loose
  <1>7. QED
    BY <1>2, <1>5, <1>6

LEMMA StrandSpares ==
    ASSUME TypeOK, NEW b, Strand(b), NEW i \in Intents, BodyOf[i] # b
    PROVE  strays'[i] = strays[i]
  BY DEF Strand

\* Sending with the kept key, or with another one that replaces it.
LEMMA SendKeeps ==
    ASSUME GateInv, RepeatInv, NEW r \in Requests, NEW i \in Intents, NEW k \in Keys,
           SendWith(r, i, k)
    PROVE  RepeatInv'
  <1> USE DEF GateInv, Typed, RepeatInv
  <1> DEFINE b == BodyOf[i]
  <1>1. /\ b \in Bodies
        /\ at[r] = "idle" /\ ~satisfied[i] /\ satisfied' = satisfied
        /\ at' = [at EXCEPT ![r] = "sent"]
        /\ cmd' = [cmd EXCEPT ![r] = i]
        /\ key' = [key EXCEPT ![r] = k]
        /\ pending' = [pending EXCEPT ![b] = k]
        /\ UNCHANGED <<store, effects, answer>>
        /\ IF k # pending[b] THEN Strand(b) ELSE strays' = strays
    BY GateAssumption DEF SendWith, database
  <1>2. /\ at \in [Requests -> Places] /\ cmd \in [Requests -> Intents \cup {NoIntent}]
        /\ key \in [Requests -> Keys \cup {NoKey}]
        /\ pending \in [Bodies -> Keys \cup {NoKey}]
    BY DEF TypeOK
  <1>3. /\ \A j \in Intents \ {i} : Live(j)' \subseteq Live(j)
        /\ Live(i)' \subseteq Live(i) \cup {k}
    BY <1>1, <1>2 DEF Live
  <1>4. LooseKept'
    <2> SUFFICES ASSUME NEW j \in Intents, BodyOf[j] \notin Silent
                 PROVE  /\ ~satisfied[j] => \A l \in Loose(j)' : l = pending'[BodyOf[j]]
                        /\ \A l, m \in Loose(j)' : l = m
      BY <1>1 DEF LooseKept
    <2>1. /\ ~satisfied[j] => \A l \in Loose(j) : l = pending[BodyOf[j]]
          /\ \A l, m \in Loose(j) : l = m
      BY DEF LooseKept
    <2>2. CASE BodyOf[j] # b
      <3>1. strays'[j] = strays[j]
        BY <1>1, <2>2, StrandSpares
      <3>2. Loose(j)' \subseteq Loose(j)
        BY <1>3, <2>2, <3>1 DEF Loose
      <3>3. pending'[BodyOf[j]] = pending[BodyOf[j]]
        BY <1>1, <1>2, <2>2, GateAssumption
      <3>4. QED
        BY <2>1, <3>2, <3>3
    <2>3. CASE BodyOf[j] = b /\ k = pending[b]
      <3>1. strays' = strays /\ pending'[b] = pending[b]
        BY <1>1, <1>2, <2>3
      <3>2. Loose(j)' \subseteq Loose(j) \cup {k} /\ (j # i => Loose(j)' \subseteq Loose(j))
        BY <1>3, <3>1 DEF Loose
      <3>3. QED
        BY <1>1, <2>1, <2>3, <3>1, <3>2
    <2>4. CASE BodyOf[j] = b /\ k # pending[b]
      <3>1. Strand(b) /\ pending'[b] = k
        BY <1>1, <1>2, <2>4
      <3>2. /\ strays[j] \subseteq strays'[j]
            /\ ~satisfied[j] /\ pending[b] \in Live(j) => pending[b] \in strays'[j]
        BY <1>1, <2>4, <3>1 DEF Strand
      <3>3. j # i => Loose(j)' \subseteq Loose(j) \ strays'[j]
        BY <1>3, <3>2 DEF Loose
      <3>4. Loose(i)' \subseteq (Loose(i) \ strays'[i]) \cup {k}
        BY <1>1, <1>3, <3>1 DEF Loose, Strand
      <3>5. ~satisfied[j] => Loose(j) \ strays'[j] = {}
        BY <2>1, <2>4, <3>2 DEF Loose
      <3>6. QED
        BY <1>1, <2>1, <2>4, <3>1, <3>3, <3>4, <3>5
    <2>5. QED
      BY <2>2, <2>3, <2>4
  <1>5. Counted'
    BY <1>1 DEF Counted, Carried
  <1>6. TrueAnswers'
    BY <1>1, <1>2 DEF TrueAnswers
  <1>7. SilentFails'
    BY <1>1, <1>2 DEF SilentFails, Body
  <1>8. QED
    BY <1>4, <1>5, <1>6, <1>7

\* The commit: its key was live for the intent before and stays so.
LEMMA CommitKeeps ==
    ASSUME GateInv, RepeatInv, NEW r \in Requests, NEW a \in {"ok", "refused", "error"},
           a # "error" => a = answer[r], CommitAll(r), AnswerWith(r, a), UNCHANGED browser
    PROVE  RepeatInv'
  <1> USE DEF GateInv, Typed, RepeatInv
  <1> DEFINE i == cmd[r]
             k == key[r]
  <1>1. /\ at[r] = "finishing" /\ i \in Intents /\ k \in Keys
        /\ store[k] = NoRecord
    <2>1. at[r] = "finishing" /\ i \in Intents /\ k \in Keys
      BY DEF CommitAll, TypeOK
    <2>2. holder[k] = r
      BY <2>1 DEF GateShape, InTransaction
    <2>3. QED
      BY <2>1, <2>2, GateAssumption DEF GateShape
  <1>2. answer[r] \in {"ok", "refused"}
    BY <1>1 DEF FinishingShape
  <1>3. /\ store \in [Keys -> Record \cup {NoRecord}]
        /\ at \in [Requests -> Places] /\ effects \in [Intents -> Nat]
        /\ answer \in [Requests -> Answers]
    BY DEF TypeOK
  <1>4. /\ store' = [store EXCEPT ![k] = Recorded(r)]
        /\ Recorded(r).intent = i /\ Recorded(r).verdict = answer[r]
        /\ at' = [at EXCEPT ![r] = "answering"]
        /\ answer' = [answer EXCEPT ![r] = a]
        /\ UNCHANGED <<cmd, key, pending, satisfied, strays>>
        /\ effects' = IF answer[r] = "ok" THEN [effects EXCEPT ![i] = @ + 1] ELSE effects
    BY DEF CommitAll, AnswerWith, Recorded, browser
  <1>5. \A j \in Intents : Live(j)' \subseteq Live(j)
    <2> SUFFICES ASSUME NEW j \in Intents, NEW l \in Keys, l \in Live(j)'
                 PROVE  l \in Live(j)
      BY DEF Live
    <2>1. CASE l = k
      <3>1. Recorded(r) # NoRecord
        BY <1>1, <1>4, GateAssumption DEF NoRecord
      <3>2. store'[k] = Recorded(r)
        BY <1>1, <1>3, <1>4
      <3>3. j = i
        BY <1>4, <2>1, <3>1, <3>2 DEF Live
      <3>4. QED
        BY <1>1, <2>1, <3>3 DEF Live
    <2>2. CASE l # k
      <3>1. store'[l] = store[l]
        BY <1>3, <1>4, <2>2
      <3>2. \A q \in Requests : at'[q] \notin {"idle", "answering", "hung"} => at'[q] = at[q]
        BY <1>3, <1>4
      <3>3. QED
        BY <1>4, <3>1, <3>2 DEF Live
    <2>3. QED
      BY <2>1, <2>2
  <1>6. LooseKept'
    BY <1>4, <1>5, LooseShrinks
  <1>7. Counted'
    <2> SUFFICES ASSUME NEW j \in Intents
                 PROVE  effects'[j] <= Cardinality(Carried(j)')
      BY DEF Counted
    <2>1. effects[j] <= Cardinality(Carried(j))
      BY DEF Counted
    <2>2. IsFiniteSet(Carried(j)) /\ Cardinality(Carried(j)) \in Nat
      <3>1. Carried(j) \in SUBSET Keys
        BY DEF Carried
      <3>2. QED
        BY <3>1, GateAssumption, FS_Subset, FS_CardinalityType
    <2>3. CASE answer[r] = "ok" /\ j = i
      <3>1. k \notin Carried(j)
        BY <1>1 DEF Carried, NoRecord
      <3>2. Carried(j)' = Carried(j) \cup {k}
        BY <1>1, <1>3, <1>4, <2>3 DEF Carried
      <3>3. Cardinality(Carried(j)') = Cardinality(Carried(j)) + 1
        BY <2>2, <3>1, <3>2, FS_AddElement, Zenon
      <3>4. effects'[j] = effects[j] + 1 /\ effects[j] \in Nat
        BY <1>1, <1>3, <1>4, <2>3
      <3>5. QED
        BY <2>1, <2>2, <3>3, <3>4
    <2>4. CASE ~(answer[r] = "ok" /\ j = i)
      <3>1. Carried(j)' = Carried(j)
        BY <1>1, <1>2, <1>3, <1>4, <2>4, GateAssumption DEF Carried, NoRecord
      <3>2. effects'[j] = effects[j]
        BY <1>1, <1>3, <1>4, <2>4
      <3>3. Cardinality(Carried(j)') = Cardinality(Carried(j))
        BY <3>1, Zenon
      <3>4. QED
        BY <2>1, <3>2, <3>3
    <2>5. QED
      BY <2>3, <2>4
  <1>8. TrueAnswers'
    <2> SUFFICES ASSUME NEW q \in Requests, at'[q] = "answering", answer'[q] \in {"ok", "refused"}
                 PROVE  store'[key[q]].verdict = answer'[q] /\ store'[key[q]].intent = cmd[q]
      BY <1>4 DEF TrueAnswers
    <2>1. CASE q = r
      BY <1>1, <1>3, <1>4, <2>1
    <2>2. CASE q # r
      <3>1. at[q] = "answering" /\ answer'[q] = answer[q]
        BY <1>3, <1>4, <2>2
      <3>2. store[key[q]].verdict = answer[q] /\ store[key[q]].intent = cmd[q]
        BY <3>1 DEF TrueAnswers
      <3>3. key[q] # k
        BY <1>1, <3>1, <3>2 DEF NoRecord
      <3>4. key[q] \in Keys
        BY <3>1 DEF TypeOK
      <3>5. QED
        BY <1>3, <1>4, <3>1, <3>2, <3>3, <3>4
    <2>3. QED
      BY <2>1, <2>2
  <1>9. SilentFails'
    <2>1. answer[r] = "ok" => BodyOf[i] \notin Silent
      BY <1>1 DEF SilentFails, Body
    <2>2. QED
      BY <1>1, <1>3, <1>4, <2>1 DEF SilentFails, Body
  <1>10. QED
    BY <1>6, <1>7, <1>8, <1>9

\* Hearing an answer: one that gives up the kept key beside the matter strands
\* it, and one that settles the matter is on record under the kept key.
LEMMA RespondKeeps ==
    ASSUME GateInv, RepeatInv, NEW r \in Requests, Respond(r)
    PROVE  RepeatInv'
  <1> USE DEF GateInv, Typed, RepeatInv
  <1> DEFINE b == Body(r)
             p == pending[b]
             a == answer[r]
  <1>1. /\ at[r] = "answering" /\ cmd[r] \in Intents /\ key[r] \in Keys
        /\ a \in Answers /\ b \in Bodies
    BY GateAssumption DEF Respond, TypeOK, Body
  <1>2. /\ at \in [Requests -> Places] /\ answer \in [Requests -> Answers]
        /\ pending \in [Bodies -> Keys \cup {NoKey}]
        /\ satisfied \in [Intents -> BOOLEAN]
    BY DEF TypeOK
  <1>3. /\ at' = [at EXCEPT ![r] = "idle"]
        /\ \A q \in Requests \ {r} :
              cmd'[q] = cmd[q] /\ key'[q] = key[q] /\ answer'[q] = answer[q]
        /\ UNCHANGED <<store, effects>>
    BY DEF Respond, Free, TypeOK, database
  <1>4. \A j \in Intents : Live(j)' \subseteq Live(j)
    BY <1>2, <1>3, LiveShrinks DEF UnderWay, Places
  <1>5. LooseKept'
    <2>1. CASE ~listening[r]
      BY <1>4, <2>1, LooseShrinks DEF Respond, browser
    <2>2. CASE listening[r] /\ a \notin Definitive
      <3>1. UNCHANGED <<pending, satisfied, strays>>
        BY <1>1, <2>2 DEF Respond, Hear, Definitive, Beside
      <3>2. QED
        BY <1>4, <3>1, LooseShrinks
    <2>3. CASE listening[r] /\ a \in Definitive
      <3>1. /\ pending' = [pending EXCEPT ![b] = NoKey]
            /\ satisfied' = IF a = "ok" THEN [satisfied EXCEPT ![cmd[r]] = TRUE]
                                        ELSE satisfied
            /\ IF Beside(r, a) THEN Strand(b) ELSE strays' = strays
        BY <2>3 DEF Respond, Hear
      <3> SUFFICES ASSUME NEW j \in Intents, BodyOf[j] \notin Silent
                   PROVE  /\ ~satisfied'[j] => \A l \in Loose(j)' : l = pending'[BodyOf[j]]
                          /\ \A l, m \in Loose(j)' : l = m
        BY DEF LooseKept
      <3>2. /\ ~satisfied[j] => \A l \in Loose(j) : l = pending[BodyOf[j]]
            /\ \A l, m \in Loose(j) : l = m
        BY DEF LooseKept
      <3>3. satisfied[j] => satisfied'[j]
        BY <1>1, <1>2, <3>1
      <3>4. CASE BodyOf[j] # b
        <4>1. strays'[j] = strays[j]
          BY <3>1, <3>4, StrandSpares
        <4>2. Loose(j)' \subseteq Loose(j)
          BY <1>4, <4>1 DEF Loose
        <4>3. pending'[BodyOf[j]] = pending[BodyOf[j]]
          BY <1>2, <3>1, <3>4, GateAssumption
        <4>4. QED
          BY <3>2, <3>3, <4>2, <4>3
      <3>5. CASE BodyOf[j] = b /\ Beside(r, a)
        BY <1>1, <1>4, <3>1, <3>3, <3>5, StrandKeeps
      <3>6. CASE BodyOf[j] = b /\ ~Beside(r, a)
        <4>1. key[r] = p /\ a \in {"ok", "refused"} /\ strays' = strays
          BY <2>3, <3>1, <3>6 DEF Beside, Definitive
        <4>2. store[p].verdict = a /\ store[p].intent = cmd[r]
          BY <1>1, <4>1 DEF TrueAnswers
        <4>3. Loose(j)' \subseteq Loose(j)
          BY <1>4, <4>1 DEF Loose
        <4>4. ASSUME ~satisfied'[j]
              PROVE  Loose(j) = {}
          <5>1. ~(a = "ok" /\ j = cmd[r])
            BY <1>1, <1>2, <3>1, <4>4
          <5>2. p \notin Live(j)
            BY <4>1, <4>2, <5>1 DEF Live, NoRecord
          <5>3. \A l \in Loose(j) : l = p
            BY <3>2, <3>3, <3>6, <4>4
          <5>4. QED
            BY <5>2, <5>3 DEF Loose
        <4>5. QED
          BY <3>2, <4>3, <4>4
      <3>7. QED
        BY <3>4, <3>5, <3>6
    <2>4. QED
      BY <2>1, <2>2, <2>3
  <1>6. Counted'
    BY <1>3 DEF Counted, Carried
  <1>7. TrueAnswers'
    BY <1>2, <1>3 DEF TrueAnswers
  <1>8. SilentFails'
    BY <1>2, <1>3 DEF SilentFails, Body
  <1>9. QED
    BY <1>5, <1>6, <1>7, <1>8

\* The success of a silent handler ends the matter for bodies that have no effect.
LEMMA SilenceKeeps ==
    ASSUME GateInv, RepeatInv, NEW r \in Requests, ReplySilently(r)
    PROVE  RepeatInv'
  <1> USE DEF GateInv, Typed, RepeatInv
  <1> DEFINE b == Body(r)
  <1>1. /\ at[r] = "running" /\ cmd[r] \in Intents
        /\ b \in Bodies /\ b \in Silent
        /\ at' = [at EXCEPT ![r] = "hung"]
        /\ UNCHANGED <<store, effects, cmd, key, answer>>
    BY GateAssumption DEF ReplySilently, TypeOK, Body, database
  <1>2. /\ at \in [Requests -> Places]
        /\ pending \in [Bodies -> Keys \cup {NoKey}]
        /\ satisfied \in [Intents -> BOOLEAN]
    BY DEF TypeOK
  <1>3. \A j \in Intents : Live(j)' \subseteq Live(j)
    BY <1>1, <1>2, LiveShrinks DEF UnderWay, Places
  <1>4. LooseKept'
    <2> SUFFICES ASSUME NEW j \in Intents, BodyOf[j] \notin Silent
                 PROVE  /\ ~satisfied'[j] => \A l \in Loose(j)' : l = pending'[BodyOf[j]]
                        /\ \A l, m \in Loose(j)' : l = m
      BY DEF LooseKept
    <2>1. BodyOf[j] # b /\ j # cmd[r]
      BY <1>1 DEF Body
    <2>2. /\ satisfied'[j] = satisfied[j]
          /\ pending'[BodyOf[j]] = pending[BodyOf[j]]
          /\ strays'[j] = strays[j]
      <3>1. CASE ~listening[r]
        BY <3>1 DEF ReplySilently, browser
      <3>2. CASE listening[r]
        <4>1. Hear(r, "ok")
          BY <3>2 DEF ReplySilently
        <4>2. strays'[j] = strays[j]
          BY <2>1, <4>1, StrandSpares DEF Hear
        <4>3. QED
          BY <1>1, <1>2, <2>1, <4>1, <4>2, GateAssumption DEF Hear
      <3>3. QED
        BY <3>1, <3>2
    <2>3. Loose(j)' \subseteq Loose(j)
      BY <1>3, <2>2 DEF Loose
    <2>4. QED
      BY <2>2, <2>3 DEF LooseKept
  <1>5. Counted'
    BY <1>1 DEF Counted, Carried
  <1>6. TrueAnswers'
    BY <1>1, <1>2 DEF TrueAnswers
  <1>7. SilentFails'
    BY <1>1, <1>2 DEF SilentFails, Body
  <1>8. QED
    BY <1>4, <1>5, <1>6, <1>7

LEMMA RepeatStep ==
    ASSUME GateInv, RepeatInv, [Next]_vars
    PROVE  RepeatInv'
  <1> USE DEF GateInv, Typed, RepeatInv
  \* Steps that carry nothing out, that the browser does not see, and that bring
  \* no request under way.
  <1>1. ASSUME UNCHANGED <<store, effects, pending, satisfied, strays>>,
               NEW r \in Requests,
               \A q \in Requests \ {r} : /\ at'[q] = at[q] /\ answer'[q] = answer[q]
                                         /\ cmd'[q] = cmd[q] /\ key'[q] = key[q],
               \/ at'[r] \in {"idle", "hung"}
               \/ /\ at[r] \in UnderWay /\ at'[r] \in UnderWay \cup {"answering"}
                  /\ cmd'[r] = cmd[r] /\ key'[r] = key[r],
               at'[r] = "answering" /\ answer'[r] \in {"ok", "refused"} =>
                  store[key[r]].verdict = answer'[r] /\ store[key[r]].intent = cmd[r],
               at'[r] = "finishing" /\ answer'[r] = "ok" => Body(r) \notin Silent
        PROVE  RepeatInv'
    <2>1. \A i \in Intents : Live(i)' \subseteq Live(i)
      BY <1>1 DEF Live, UnderWay
    <2>2. LooseKept'
      BY <1>1, <2>1, LooseShrinks
    <2>3. Counted'
      BY <1>1 DEF Counted, Carried
    <2>4. TrueAnswers'
      BY <1>1 DEF TrueAnswers, UnderWay
    <2>5. SilentFails'
      BY <1>1 DEF SilentFails, Body, UnderWay
    <2>6. QED
      BY <2>2, <2>3, <2>4, <2>5
  <1>2. ASSUME NEW r \in Requests, NEW i \in Intents, Send(r, i) \/ SendKeyed(r, i)
        PROVE  RepeatInv'
    <2>1. PICK k : (k \in OwnKeys(BodyOf[i]) \/ k \in CallerKeys) /\ SendWith(r, i, k)
      BY <1>2 DEF Send, SendKeyed
    <2>2. k \in Keys
      BY <2>1, GateAssumption DEF OwnKeys, TypeOK
    <2>3. QED
      BY <2>1, <2>2, SendKeeps
  <1>3. ASSUME NEW r \in Requests, at[r] \in UnderWay, NEW a \in Answers, AnswerWith(r, a),
               UNCHANGED <<store, effects, pending, satisfied, strays>>,
               a \in {"ok", "refused"} =>
                  store[key[r]].verdict = a /\ store[key[r]].intent = cmd[r]
        PROVE  RepeatInv'
    <2>1. /\ at' = [at EXCEPT ![r] = "answering"] /\ answer' = [answer EXCEPT ![r] = a]
          /\ UNCHANGED <<cmd, key>>
      BY <1>3 DEF AnswerWith
    <2>2. at \in [Requests -> Places] /\ answer \in [Requests -> Answers]
      BY DEF TypeOK
    <2>3. QED
      BY <1>1, <1>3, <2>1, <2>2
  <1>4. ASSUME NEW r \in Requests, at[r] \in UnderWay,
               NEW place \in UnderWay \ {"finishing"}, MoveTo(r, place),
               UNCHANGED <<store, effects, pending, satisfied, strays, answer>>
        PROVE  RepeatInv'
    <2>1. at' = [at EXCEPT ![r] = place] /\ UNCHANGED <<cmd, key>>
      BY <1>4 DEF MoveTo
    <2>2. at \in [Requests -> Places]
      BY DEF TypeOK
    <2>3. place # "answering"
      BY DEF UnderWay
    <2>4. QED
      BY <1>1, <1>4, <2>1, <2>2, <2>3
  <1>5. ASSUME NEW r \in Requests, Admit(r)
        PROVE  RepeatInv'
    BY <1>3, <1>4, <1>5 DEF Admit, UnderWay, Places, Answers, database, browser
  <1>6. ASSUME NEW r \in Requests, Begin(r)
        PROVE  RepeatInv'
    BY <1>4, <1>6 DEF Begin, UnderWay, Places, browser
  <1>7. ASSUME NEW r \in Requests, Lookup(r)
        PROVE  RepeatInv'
    <2>1. CASE store[key[r]] = NoRecord
      BY <1>4, <1>7, <2>1 DEF Lookup, UnderWay, Places, browser
    <2>2. CASE store[key[r]] # NoRecord
      <3> DEFINE v == Verdict(store[key[r]], r)
      <3>1. key[r] \in Keys /\ cmd[r] \in Intents /\ at[r] \in UnderWay
        BY <1>7 DEF Lookup, TypeOK, UnderWay, Places
      <3>2. store[key[r]] \in Record
        BY <2>2, <3>1, StoredRecord
      <3>3. v \in Answers
        BY <3>2, VerdictType DEF Answers
      <3>4. /\ AnswerWith(r, v)
            /\ UNCHANGED <<store, effects, pending, satisfied, strays>>
        BY <1>7, <2>2 DEF Lookup, browser
      <3>5. v \in {"ok", "refused"} =>
               store[key[r]].verdict = v /\ store[key[r]].intent = cmd[r]
        BY <3>1, <3>2, VerdictMatches
      <3> HIDE DEF v
      <3>6. QED
        BY <1>3, <3>1, <3>3, <3>4, <3>5
    <2>3. QED
      BY <2>1, <2>2
  <1>8. ASSUME NEW r \in Requests, Insert(r)
        PROVE  RepeatInv'
    BY <1>3, <1>4, <1>8 DEF Insert, UnderWay, Places, Answers, browser
  <1>9. ASSUME NEW r \in Requests, Statement(r)
        PROVE  RepeatInv'
    <2>1. /\ at[r] = "running" /\ UNCHANGED <<at, cmd, key, answer>>
          /\ UNCHANGED <<store, effects, pending, satisfied, strays>>
      BY <1>9 DEF Statement, database, browser
    <2>2. QED
      BY <1>1, <2>1 DEF UnderWay, Places
  <1>10. ASSUME NEW r \in Requests, Reply(r) \/ Refuse(r)
         PROVE  RepeatInv'
    <2>1. /\ at[r] = "running" /\ at' = [at EXCEPT ![r] = "finishing"]
          /\ \/ answer' = [answer EXCEPT ![r] = "ok"] /\ Body(r) \notin Silent
             \/ answer' = [answer EXCEPT ![r] = "refused"]
          /\ UNCHANGED <<cmd, key>>
          /\ UNCHANGED <<store, effects, pending, satisfied, strays>>
      BY <1>10 DEF Reply, Refuse, database, browser
    <2>2. at \in [Requests -> Places] /\ answer \in [Requests -> Answers]
      BY DEF TypeOK
    <2>3. QED
      BY <1>1, <2>1, <2>2 DEF UnderWay, Places
  <1>11. ASSUME NEW r \in Requests, Commit(r) \/ CommitUnheard(r)
         PROVE  RepeatInv'
    <2>1. CommitAll(r) /\ at[r] = "finishing" /\ UNCHANGED browser
      BY <1>11 DEF Commit, CommitUnheard, CommitAll
    <2>2. answer[r] \in {"ok", "refused"}
      BY <2>1 DEF FinishingShape
    <2>3. AnswerWith(r, answer[r]) \/ AnswerWith(r, "error")
      BY <1>11 DEF Commit, CommitUnheard
    <2>4. QED
      BY <2>1, <2>2, <2>3, CommitKeeps
  <1>12. ASSUME NEW r \in Requests, Fail(r)
         PROVE  RepeatInv'
    BY <1>3, <1>12 DEF Fail, UnderWay, Places, Answers, browser
  <1>13. ASSUME NEW r \in Requests, Cut(r)
         PROVE  RepeatInv'
    <2>1. /\ at' = [at EXCEPT ![r] = "idle"] /\ cmd' = [cmd EXCEPT ![r] = NoIntent]
          /\ key' = [key EXCEPT ![r] = NoKey] /\ answer' = [answer EXCEPT ![r] = "none"]
          /\ UNCHANGED <<store, effects, pending, satisfied, strays>>
      BY <1>13 DEF Cut, Free, browser
    <2>2. /\ at \in [Requests -> Places] /\ answer \in [Requests -> Answers]
          /\ cmd \in [Requests -> Intents \cup {NoIntent}]
          /\ key \in [Requests -> Keys \cup {NoKey}]
      BY DEF TypeOK
    <2>3. QED
      BY <1>1, <2>1, <2>2
  <1>14. ASSUME \/ \E r \in Requests : Drop(r)
                \/ Redecide
                \/ UNCHANGED vars
         PROVE  RepeatInv'
    <2>1. UNCHANGED <<store, effects, pending, satisfied, strays, at, cmd, key, answer>>
      BY <1>14 DEF Drop, Redecide, vars, database, browser
    <2>2. \A i \in Intents : Live(i)' \subseteq Live(i)
      BY <2>1 DEF Live
    <2>3. QED
      BY <2>1, <2>2, LooseShrinks
         DEF Counted, Carried, TrueAnswers, SilentFails, Body
  <1>15. QED
    BY <1>2, <1>5, <1>6, <1>7, <1>8, <1>9, <1>10, <1>11, <1>12, <1>13, <1>14,
       RespondKeeps, SilenceKeeps
       DEF Next, ServerStep, Mishap

\* Whatever connections, answers, sessions and server processes are lost, however
\* many windows and callers send a command and whatever its route, a further
\* effect goes back to a key the browser gave up although it carried the command
\* or still might.
THEOREM RepeatsAreExplained == Spec => []RepeatsExplained
  <1>1. RepeatInv /\ GateInv /\ [Next]_vars => RepeatInv'
    BY RepeatStep
  <1>2. RepeatInv /\ GateInv => RepeatsExplained
    BY RepeatsBounded
  <1>3. QED
    BY RepeatInit, <1>1, <1>2, GateInvariant, PTL DEF Spec

-----------------------------------------------------------------------------
(* Banking: sums of active rows.                                           *)
\* What a row takes of a line and of a journal, if it is an active allocation.
On(r, l) == IF r.state = "ACTIVE" /\ r.line = l THEN r.amount ELSE 0
Of(r, j) == IF r.state = "ACTIVE" /\ r.journal = j THEN r.amount ELSE 0

\* What table t takes of a line, and of a journal.
TakenOn(t, l) == SumFunctionOnSet([m \in Matches |-> On(t[m], l)], Matches)
TakenOf(t, j) == SumFunctionOnSet([m \in Matches |-> Of(t[m], j)], Matches)

\* A row of the table of matches, or the lack of one.
MatchRow == Match \cup {NoMatch}
MatchesTyped == matches \in [Matches -> MatchRow]

LEMMA RowAmounts ==
    ASSUME NEW r \in MatchRow
    PROVE  r.amount \in Nat /\ (\A l : On(r, l) \in Nat) /\ \A j : Of(r, j) \in Nat
  <1>1. r.amount \in Nat
    BY BankAssumption DEF MatchRow, Match, NoMatch, Amounts
  <1> QED
    BY <1>1 DEF On, Of

\* The model's sums over the live rows are sums over the whole table.
LEMMA AllocatedIsTaken == MatchesTyped => \A l \in Lines : Allocated(l) = TakenOn(matches, l)
  <1> SUFFICES ASSUME MatchesTyped, NEW l \in Lines
               PROVE  Allocated(l) = TakenOn(matches, l)
    OBVIOUS
  <1> DEFINE f == [m \in Matches |-> matches[m].amount]
             g == [m \in Matches |-> On(matches[m], l)]
  <1>1. \A m \in Matches : matches[m] \in MatchRow
    BY DEF MatchesTyped
  <1>2. \A m \in Matches : f[m] \in Nat /\ g[m] \in Nat
    BY <1>1, RowAmounts
  <1>3. /\ ActiveRows(l) \in SUBSET Matches
        /\ \A m \in ActiveRows(l) : g[m] = f[m]
        /\ \A m \in Matches \ ActiveRows(l) : g[m] = 0
    BY DEF ActiveRows, RowsOf, On
  <1>4. IsFiniteSet(Matches) /\ IsFiniteSet(ActiveRows(l))
    BY <1>3, BankAssumption, FS_Subset
  <1>5. Allocated(l) = SumFunctionOnSet(f, ActiveRows(l))
    BY DEF Allocated, AmountOf
  <1>6. TakenOn(matches, l) = SumFunctionOnSet(g, Matches)
    BY DEF TakenOn
  <1> HIDE DEF f, g
  <1>7. SumFunctionOnSet(f, ActiveRows(l)) = SumFunctionOnSet(g, ActiveRows(l))
    BY <1>3, <1>4, SumSame
  <1>8. SumFunctionOnSet(g, Matches) = SumFunctionOnSet(g, ActiveRows(l))
    BY <1>2, <1>3, <1>4, SumSupport
  <1> QED
    BY <1>5, <1>6, <1>7, <1>8

LEMMA AllocatedIsTakenNext ==
    MatchesTyped' => \A l \in Lines : Allocated(l)' = TakenOn(matches', l)
  <1>1. (MatchesTyped => \A l \in Lines : Allocated(l) = TakenOn(matches, l))'
    BY AllocatedIsTaken, PTL
  <1> QED
    BY <1>1 DEF TakenOn

LEMMA UsedIsTaken == MatchesTyped => \A j \in Journals : Used(j) = TakenOf(matches, j)
  <1> SUFFICES ASSUME MatchesTyped, NEW j \in Journals
               PROVE  Used(j) = TakenOf(matches, j)
    OBVIOUS
  <1> DEFINE f == [m \in Matches |-> matches[m].amount]
             g == [m \in Matches |-> Of(matches[m], j)]
  <1>1. \A m \in Matches : matches[m] \in MatchRow
    BY DEF MatchesTyped
  <1>2. \A m \in Matches : f[m] \in Nat /\ g[m] \in Nat
    BY <1>1, RowAmounts
  <1>3. /\ ActiveOn(j) \in SUBSET Matches
        /\ \A m \in ActiveOn(j) : g[m] = f[m]
        /\ \A m \in Matches \ ActiveOn(j) : g[m] = 0
    BY DEF ActiveOn, Of
  <1>4. IsFiniteSet(Matches) /\ IsFiniteSet(ActiveOn(j))
    BY <1>3, BankAssumption, FS_Subset
  <1>5. Used(j) = SumFunctionOnSet(f, ActiveOn(j))
    BY DEF Used, AmountOf
  <1>6. TakenOf(matches, j) = SumFunctionOnSet(g, Matches)
    BY DEF TakenOf
  <1> HIDE DEF f, g
  <1>7. SumFunctionOnSet(f, ActiveOn(j)) = SumFunctionOnSet(g, ActiveOn(j))
    BY <1>3, <1>4, SumSame
  <1>8. SumFunctionOnSet(g, Matches) = SumFunctionOnSet(g, ActiveOn(j))
    BY <1>2, <1>3, <1>4, SumSupport
  <1> QED
    BY <1>5, <1>6, <1>7, <1>8

LEMMA UsedIsTakenNext ==
    MatchesTyped' => \A j \in Journals : Used(j)' = TakenOf(matches', j)
  <1>1. (MatchesTyped => \A j \in Journals : Used(j) = TakenOf(matches, j))'
    BY UsedIsTaken, PTL
  <1> QED
    BY <1>1 DEF TakenOf

\* One row changes what is taken of a line and of a journal by what it took.
LEMMA RowMoves ==
    ASSUME MatchesTyped, NEW m \in Matches, NEW r \in MatchRow,
           matches' = [matches EXCEPT ![m] = r]
    PROVE  /\ MatchesTyped'
           /\ \A l \in Lines : /\ Allocated(l) \in Nat
                               /\ Allocated(l)' = Allocated(l) + On(r, l) - On(matches[m], l)
           /\ \A j \in Journals : /\ Used(j) \in Nat
                                  /\ Used(j)' = Used(j) + Of(r, j) - Of(matches[m], j)
  <1>1. \A n \in Matches : matches[n] \in MatchRow /\ matches'[n] \in MatchRow
    BY DEF MatchesTyped
  <1>2. MatchesTyped'
    BY DEF MatchesTyped
  <1>3. IsFiniteSet(Matches)
    BY BankAssumption
  <1>4. matches'[m] = r /\ \A n \in Matches \ {m} : matches'[n] = matches[n]
    BY DEF MatchesTyped
  <1>5. ASSUME NEW l \in Lines
        PROVE  /\ Allocated(l) \in Nat
               /\ Allocated(l)' = Allocated(l) + On(r, l) - On(matches[m], l)
    <2> DEFINE f == [n \in Matches |-> On(matches[n], l)]
               g == [n \in Matches |-> On(matches'[n], l)]
    <2>1. \A n \in Matches : f[n] \in Nat /\ g[n] \in Nat
      BY <1>1, RowAmounts
    <2>2. g[m] = On(r, l) /\ f[m] = On(matches[m], l) /\ \A n \in Matches \ {m} : f[n] = g[n]
      BY <1>4
    <2>3. Allocated(l) = SumFunctionOnSet(f, Matches) /\ Allocated(l)' = SumFunctionOnSet(g, Matches)
      BY <1>2, AllocatedIsTaken, AllocatedIsTakenNext DEF TakenOn
    <2> HIDE DEF f, g
    <2>4. SumFunctionOnSet(g, Matches) = SumFunctionOnSet(f, Matches) + g[m] - f[m]
      BY <1>3, <2>1, <2>2, SumChange
    <2>5. SumFunctionOnSet(f, Matches) \in Nat
      BY <1>3, <2>1, SumNat
    <2> QED
      BY <2>2, <2>3, <2>4, <2>5
  <1>6. ASSUME NEW j \in Journals
        PROVE  /\ Used(j) \in Nat
               /\ Used(j)' = Used(j) + Of(r, j) - Of(matches[m], j)
    <2> DEFINE f == [n \in Matches |-> Of(matches[n], j)]
               g == [n \in Matches |-> Of(matches'[n], j)]
    <2>1. \A n \in Matches : f[n] \in Nat /\ g[n] \in Nat
      BY <1>1, RowAmounts
    <2>2. g[m] = Of(r, j) /\ f[m] = Of(matches[m], j) /\ \A n \in Matches \ {m} : f[n] = g[n]
      BY <1>4
    <2>3. Used(j) = SumFunctionOnSet(f, Matches) /\ Used(j)' = SumFunctionOnSet(g, Matches)
      BY <1>2, UsedIsTaken, UsedIsTakenNext DEF TakenOf
    <2> HIDE DEF f, g
    <2>4. SumFunctionOnSet(g, Matches) = SumFunctionOnSet(f, Matches) + g[m] - f[m]
      BY <1>3, <2>1, <2>2, SumChange
    <2>5. SumFunctionOnSet(f, Matches) \in Nat
      BY <1>3, <2>1, SumNat
    <2> QED
      BY <2>2, <2>3, <2>4, <2>5
  <1> QED
    BY <1>2, <1>5, <1>6

\* Sums of active rows: naturals, zero where there is no row.
LEMMA ActiveSums ==
    MatchesTyped =>
        /\ \A l \in Lines : /\ Allocated(l) \in Nat
                            /\ ActiveRows(l) = {} => Allocated(l) = 0
        /\ \A j \in Journals : /\ Used(j) \in Nat
                               /\ ActiveOn(j) = {} => Used(j) = 0
  <1> SUFFICES ASSUME MatchesTyped
               PROVE  /\ \A l \in Lines : /\ Allocated(l) \in Nat
                                          /\ ActiveRows(l) = {} => Allocated(l) = 0
                      /\ \A j \in Journals : /\ Used(j) \in Nat
                                             /\ ActiveOn(j) = {} => Used(j) = 0
    OBVIOUS
  <1> DEFINE f == [m \in Matches |-> matches[m].amount]
  <1>1. \A m \in Matches : f[m] \in Nat
    BY RowAmounts DEF MatchesTyped
  <1>2. \A l : AmountOf(ActiveRows(l)) = SumFunctionOnSet(f, ActiveRows(l))
    BY DEF AmountOf
  <1>3. \A j : AmountOf(ActiveOn(j)) = SumFunctionOnSet(f, ActiveOn(j))
    BY DEF AmountOf
  <1> HIDE DEF f
  <1>4. ASSUME NEW rows \in SUBSET Matches
        PROVE  SumFunctionOnSet(f, rows) \in Nat /\ (rows = {} => SumFunctionOnSet(f, rows) = 0)
    <2>1. IsFiniteSet(rows)
      BY BankAssumption, FS_Subset
    <2>2. SumFunctionOnSet(f, rows) \in Nat
      BY <1>1, <2>1, SumNat
    <2>3. ASSUME rows = {}
          PROVE  SumFunctionOnSet(f, rows) = 0
      BY <2>3, SumEmpty, Zenon
    <2> QED
      BY <2>2, <2>3
  <1>5. (\A l : ActiveRows(l) \in SUBSET Matches) /\ \A j : ActiveOn(j) \in SUBSET Matches
    BY DEF ActiveRows, RowsOf, ActiveOn
  <1> QED
    BY <1>2, <1>3, <1>4, <1>5 DEF Allocated, Used

LEMMA ActiveSumsNext ==
    MatchesTyped' =>
        /\ \A l \in Lines : /\ Allocated(l)' \in Nat
                            /\ ActiveRows(l)' = {} => Allocated(l)' = 0
        /\ \A j \in Journals : /\ Used(j)' \in Nat
                               /\ ActiveOn(j)' = {} => Used(j)' = 0
  <1>1. (MatchesTyped =>
          /\ \A l \in Lines : /\ Allocated(l) \in Nat
                              /\ ActiveRows(l) = {} => Allocated(l) = 0
          /\ \A j \in Journals : /\ Used(j) \in Nat
                                 /\ ActiveOn(j) = {} => Used(j) = 0)'
    BY ActiveSums, PTL
  <1> QED
    BY <1>1

\* What is left on a line without one of its rows.
LEMMA WithoutRow ==
    ASSUME MatchesTyped, NEW l \in Lines, NEW m \in Matches
    PROVE  AmountOf(ActiveRows(l) \ {m}) = Allocated(l) - On(matches[m], l)
  <1> DEFINE f == [n \in Matches |-> matches[n].amount]
  <1>1. \A n \in Matches : f[n] \in Nat /\ f[n] = matches[n].amount
    BY RowAmounts DEF MatchesTyped
  <1>2. AmountOf(ActiveRows(l) \ {m}) = SumFunctionOnSet(f, ActiveRows(l) \ {m})
    BY DEF AmountOf
  <1>3. Allocated(l) = SumFunctionOnSet(f, ActiveRows(l))
    BY DEF AmountOf, Allocated
  <1> HIDE DEF f
  <1>4. ActiveRows(l) \in SUBSET Matches /\ IsFiniteSet(ActiveRows(l))
    BY BankAssumption, FS_Subset DEF ActiveRows, RowsOf
  <1>5. CASE m \in ActiveRows(l)
    <2>1. On(matches[m], l) = f[m]
      BY <1>1, <1>5 DEF On, ActiveRows, RowsOf
    <2>2. SumFunctionOnSet(f, ActiveRows(l))
            = f[m] + SumFunctionOnSet(f, ActiveRows(l) \ {m})
      BY <1>1, <1>4, <1>5, SumRemove
    <2>3. IsFiniteSet(ActiveRows(l) \ {m})
      BY <1>4, FS_Subset
    <2>4. SumFunctionOnSet(f, ActiveRows(l) \ {m}) \in Nat
      BY <1>1, <1>4, <2>3, SumNat
    <2> QED
      BY <1>1, <1>2, <1>3, <2>1, <2>2, <2>4
  <1>6. CASE m \notin ActiveRows(l)
    <2>1. ActiveRows(l) \ {m} = ActiveRows(l)
      BY <1>6
    <2>2. AmountOf(ActiveRows(l) \ {m}) = AmountOf(ActiveRows(l))
      BY <2>1, Zenon
    <2>3. On(matches[m], l) = 0
      BY <1>6 DEF On, ActiveRows, RowsOf
    <2>4. Allocated(l) \in Nat
      BY ActiveSums
    <2> QED
      BY <2>2, <2>3, <2>4 DEF Allocated
  <1> QED
    BY <1>5, <1>6

\* A line whose live rows fit has room for one of them.
LEMMA LiveRowFits ==
    ASSUME MatchesTyped, NEW m \in Matches, matches[m].state = "LEGACY",
           NEW l \in Lines, l = matches[m].line, AmountOf(LiveRows(l)) <= LineAmount
    PROVE  Allocated(l) + matches[m].amount <= LineAmount
  <1> DEFINE f == [n \in Matches |-> matches[n].amount]
  <1>1. \A n \in Matches : f[n] \in Nat /\ f[n] = matches[n].amount
    BY RowAmounts DEF MatchesTyped
  <1>2. AmountOf(LiveRows(l)) = SumFunctionOnSet(f, LiveRows(l))
    BY DEF AmountOf
  <1>3. Allocated(l) = SumFunctionOnSet(f, ActiveRows(l))
    BY DEF AmountOf, Allocated
  <1> HIDE DEF f
  <1>4. /\ ActiveRows(l) \in SUBSET Matches /\ LiveRows(l) \in SUBSET Matches
        /\ ActiveRows(l) \cup {m} \in SUBSET LiveRows(l)
        /\ m \notin ActiveRows(l)
    BY DEF ActiveRows, RowsOf, LiveRows, LegacyRows
  <1>5. IsFiniteSet(ActiveRows(l)) /\ IsFiniteSet(LiveRows(l))
    BY <1>4, BankAssumption, FS_Subset
  <1>6. SumFunctionOnSet(f, ActiveRows(l) \cup {m}) = f[m] + SumFunctionOnSet(f, ActiveRows(l))
    BY <1>1, <1>4, <1>5, SumAdd
  <1>7. SumFunctionOnSet(f, ActiveRows(l) \cup {m}) <= SumFunctionOnSet(f, LiveRows(l))
    BY <1>1, <1>4, <1>5, SumPart
  <1>8. SumFunctionOnSet(f, LiveRows(l)) \in Nat /\ SumFunctionOnSet(f, ActiveRows(l)) \in Nat
    BY <1>1, <1>4, <1>5, SumNat
  <1> QED
    BY <1>1, <1>2, <1>3, <1>6, <1>7, <1>8, BankAssumption

-----------------------------------------------------------------------------
(* Banking: sessions.                                                      *)

\* Every set of days with a member has a latest one.
LEMMA LatestDay ==
    ASSUME NEW S \in SUBSET Days, S # {}
    PROVE  Max(S) \in S /\ \A c \in S : c <= Max(S)
  <1> DEFINE Good == {T \in SUBSET S : T # {} => \E x \in T : \A y \in T : x >= y}
  <1>1. S \subseteq Nat /\ IsFiniteSet(S)
    <2>1. LastDay \in Int /\ 1 \in Int
      BY BankAssumption
    <2>2. IsFiniteSet(1..LastDay)
      BY <2>1, FS_Interval
    <2>3. IsFiniteSet(S)
      BY <2>2, FS_Subset DEF Days
    <2> QED
      BY <2>1, <2>3 DEF Days
  <1>2. {} \in Good
    OBVIOUS
  <1>3. ASSUME NEW T \in Good, NEW d \in S \ T
        PROVE  T \cup {d} \in Good
    <2>1. CASE T = {}
      <3>1. d >= d
        BY <1>1
      <3> QED
        BY <2>1, <3>1
    <2>2. CASE T # {}
      <3>1. PICK x \in T : \A y \in T : x >= y
        BY <2>2
      <3>2. x \in Nat /\ d \in Nat /\ \A y \in T : y \in Nat
        BY <1>1
      <3>3. CASE x >= d
        BY <3>1, <3>2, <3>3
      <3>4. CASE ~(x >= d)
        <4>1. d >= d /\ \A y \in T : d >= y
          BY <3>1, <3>2, <3>4
        <4> QED
          BY <4>1
      <3> QED
        BY <3>3, <3>4
    <2> QED
      BY <2>1, <2>2
  <1>4. S \in Good
    <2> HIDE DEF Good
    <2> QED
      BY <1>1, <1>2, <1>3, SetInduction
  <1>5. \E x \in S : \A y \in S : x >= y
    BY <1>4
  <1>6. Max(S) \in S /\ \A y \in S : Max(S) >= y
    BY <1>5 DEF Max
  <1> QED
    BY <1>1, <1>6

\* The cutoff of the account covers what any of its sessions covers.
LEMMA ThroughCovers ==
    ASSUME completed \subseteq Days
    PROVE  /\ Through \in Nat
           /\ \A c \in completed : c <= Through
           /\ \A l \in Lines : DayOf[l] \in Nat /\ (Closed(l) <=> ~Open(l))
           /\ \A l \in Lines : Closed(l) <=> \E c \in completed : DayOf[l] <= c
  <1>1. Days \subseteq Nat \ {0}
    BY BankAssumption DEF Days
  <1>2. \A l \in Lines : DayOf[l] \in Nat \ {0}
    BY <1>1, BankAssumption DEF Days
  <1>3. CASE completed = {}
    <2>1. Through = 0
      BY <1>3 DEF Through
    <2> QED
      BY <1>2, <1>3, <2>1 DEF Closed, Open
  <1>4. CASE completed # {}
    <2>1. Through = Max(completed)
      BY <1>4 DEF Through
    <2>2. Through \in completed /\ \A c \in completed : c <= Through
      BY <1>4, <2>1, LatestDay
    <2>3. completed \subseteq Nat
      BY <1>1
    <2> QED
      BY <1>2, <2>2, <2>3 DEF Closed, Open
  <1> QED
    BY <1>3, <1>4

-----------------------------------------------------------------------------
(* Banking: the invariant.                                                 *)

\* A live row names a journal that was posted.
RowsStand ==
    \A m \in Matches : matches[m].state \in {"LEGACY", "ACTIVE"} =>
        matches[m].journal \in Journals /\ Posted(matches[m].journal)

\* No match was ever made of a line that is not there or that is a duplicate.
Pristine(l) ==
    Status(l) \in {"ABSENT", "POSSIBLE_DUPLICATE", "CONFIRMED_DUPLICATE"} => RowsOf(l) = {}

\* What the status of a line tells of its allocations.
LineTies(l) ==
    /\ Status(l) = "RECONCILED" => Allocated(l) = LineAmount
    /\ Status(l) \in {"MATCHED", "PARTIALLY_MATCHED", "CATEGORIZED"} => LiveRows(l) # {}
    /\ Allocated(l) > 0 /\ l \notin overridden =>
           /\ Allocated(l) = LineAmount <=> Status(l) \in {"MATCHED", "RECONCILED"}
           /\ Allocated(l) < LineAmount <=> Status(l) = "PARTIALLY_MATCHED"

\* A line keeps its status and its amount.
LineOK(l) == Pristine(l) /\ LineTies(l) /\ Allocated(l) <= LineAmount

\* A journal has room for what names it, and was not reversed through its source meanwhile.
JournalOK(j) ==
    /\ Used(j) <= journals[j].amount
    /\ ActiveOn(j) # {} => journals[j].reversed # "SOURCE"

\* The line that answers for a line: its original, or the line itself.
Original(l) == IF Status(l) = "CONFIRMED_DUPLICATE" THEN lines[l].target ELSE l

\* Line k is allocated whole, on or before a cutoff.
AnswersFor(k, cutoff) ==
    /\ k \in Lines
    /\ DayOf[k] <= cutoff
    /\ Status(k) \in {"MATCHED", "RECONCILED"}
    /\ Allocated(k) = LineAmount

\* Each session that is completed, and not only the latest, covers lines that are
\* answered for on or before its cutoff.
SessionsStand ==
    \A c \in completed, l \in Lines :
        Present(l) /\ DayOf[l] <= c => AnswersFor(Original(l), c)

\* The invariant that every step keeps.
BankInv ==
    /\ BankTypeOK
    /\ RowsStand
    /\ \A l \in Lines : LineOK(l)
    /\ \A j \in Journals : JournalOK(j)
    /\ SessionsStand

\* What CompletedStands says of a step.
EvidenceKept == \A l \in Lines : Closed(l) /\ Closed(l)' => Evidence(l)' = Evidence(l)

-----------------------------------------------------------------------------
(* Banking: steps on one line.                                             *)

LEMMA BankTyped ==
    ASSUME BankTypeOK
    PROVE  MatchesTyped /\ \A m \in Matches : matches[m] \in MatchRow
  BY DEF BankTypeOK, MatchesTyped, MatchRow

\* Rows that stay active and as they are add up to the same.
LEMMA SameActive ==
    ASSUME NEW k \in Lines, ActiveRows(k)' = ActiveRows(k),
           \A m \in ActiveRows(k) : matches'[m] = matches[m]
    PROVE  /\ Allocated(k)' = Allocated(k)
           /\ {matches[m] : m \in ActiveRows(k)}' = {matches[m] : m \in ActiveRows(k)}
  <1> DEFINE f == [m \in Matches |-> matches[m].amount]
             g == [m \in Matches |-> matches'[m].amount]
  <1>1. ActiveRows(k) \subseteq Matches
    BY DEF ActiveRows, RowsOf
  <1>2. \A m \in ActiveRows(k) : f[m] = g[m]
    BY <1>1
  <1>3. IsFiniteSet(ActiveRows(k))
    BY <1>1, BankAssumption, FS_Subset
  <1>4. Allocated(k) = SumFunctionOnSet(f, ActiveRows(k))
    BY DEF Allocated, AmountOf
  <1>5. Allocated(k)' = SumFunctionOnSet(g, ActiveRows(k)')
    BY DEF Allocated, AmountOf
  <1>6. SumFunctionOnSet(g, ActiveRows(k)') = SumFunctionOnSet(g, ActiveRows(k))
    BY Zenon
  <1> HIDE DEF f, g
  <1>7. SumFunctionOnSet(f, ActiveRows(k)) = SumFunctionOnSet(g, ActiveRows(k))
    BY <1>2, <1>3, SumSame
  <1>8. {matches[m] : m \in ActiveRows(k)}' = {matches'[m] : m \in ActiveRows(k)}
    OBVIOUS
  <1> QED
    BY <1>4, <1>5, <1>6, <1>7, <1>8

\* All lines but l stay as they are, with their sums.
OthersKeep(l) ==
    /\ \A k \in Lines \ {l} : lines'[k] = lines[k] /\ (k \in overridden' <=> k \in overridden)
    /\ \A m \in Matches : \/ matches'[m] = matches[m]
                          \/ {matches[m].line, matches'[m].line} \subseteq {l, NoLine}
    /\ completed' = completed

LEMMA OtherLines ==
    ASSUME BankTypeOK, BankTypeOK', NEW l \in Lines, OthersKeep(l), NEW k \in Lines, k # l
    PROVE  /\ lines'[k] = lines[k]
           /\ Allocated(k)' = Allocated(k)
           /\ Evidence(k)' = Evidence(k)
           /\ LineOK(k) => LineOK(k)'
  <1>1. k # NoLine
    BY BankAssumption
  <1>2. lines'[k] = lines[k] /\ (k \in overridden' <=> k \in overridden)
    BY DEF OthersKeep
  <1>3. \A m \in Matches : matches'[m] = matches[m] \/ (matches[m].line # k /\ matches'[m].line # k)
    BY <1>1 DEF OthersKeep
  <1>4. RowsOf(k)' = RowsOf(k)
    BY <1>3 DEF RowsOf
  <1>5. ActiveRows(k)' = ActiveRows(k) /\ LegacyRows(k)' = LegacyRows(k)
    BY <1>3 DEF ActiveRows, LegacyRows, RowsOf
  <1>6. \A m \in ActiveRows(k) : matches'[m] = matches[m]
    BY <1>3 DEF ActiveRows, RowsOf
  <1>7. /\ Allocated(k)' = Allocated(k)
        /\ {matches[m] : m \in ActiveRows(k)}' = {matches[m] : m \in ActiveRows(k)}
    BY <1>5, <1>6, SameActive
  <1>8. Evidence(k)' = Evidence(k)
    BY <1>2, <1>7 DEF Evidence, Present, Status
  <1>9. LineOK(k) => LineOK(k)'
    BY <1>2, <1>4, <1>5, <1>7 DEF LineOK, Pristine, LineTies, LiveRows, Status
  <1> QED
    BY <1>2, <1>7, <1>8, <1>9

\* What a step on a covered line may not change.
StillAnswers(l) ==
    /\ Status(l) # "CONFIRMED_DUPLICATE"
    /\ Status(l)' \in {"MATCHED", "RECONCILED"}
    /\ Present(l)
    /\ Evidence(l)' = Evidence(l)
    /\ Allocated(l)' = Allocated(l)

LEMMA LineStep ==
    ASSUME BankInv, BankTypeOK', RowsStand', \A j \in Journals : JournalOK(j)',
           NEW l \in Lines, OthersKeep(l), LineOK(l)', Open(l) \/ StillAnswers(l)
    PROVE  BankInv' /\ EvidenceKept
  <1>1. BankTypeOK /\ completed \subseteq Days /\ completed' = completed
    BY DEF BankInv, BankTypeOK, OthersKeep
  <1>2. \A k \in Lines : k # l =>
           /\ lines'[k] = lines[k]
           /\ Allocated(k)' = Allocated(k)
           /\ Evidence(k)' = Evidence(k)
           /\ LineOK(k)'
    BY <1>1, OtherLines DEF BankInv
  <1>3. \A c \in completed, k \in Lines : DayOf[k] <= c => ~Open(k)
    BY <1>1, ThroughCovers
  <1>4. EvidenceKept
    <2>1. \A k \in Lines : Closed(k) => ~Open(k)
      BY <1>1, ThroughCovers
    <2> QED
      BY <1>2, <2>1 DEF EvidenceKept, StillAnswers
  <1>5. ASSUME NEW c \in completed, NEW k, AnswersFor(k, c)
        PROVE  AnswersFor(k, c)'
    <2>1. k \in Lines /\ DayOf[k] <= c /\ Status(k) \in {"MATCHED", "RECONCILED"} /\ Allocated(k) = LineAmount
      BY <1>5 DEF AnswersFor
    <2>2. CASE k = l
      <3>1. StillAnswers(l)
        BY <1>3, <2>1, <2>2
      <3> QED
        BY <2>1, <2>2, <3>1 DEF AnswersFor, StillAnswers
    <2>3. CASE k # l
      BY <1>2, <2>1, <2>3 DEF AnswersFor, Status
    <2> QED
      BY <2>2, <2>3
  <1>6. ASSUME NEW c \in completed', NEW k \in Lines, Present(k)', DayOf[k] <= c
        PROVE  AnswersFor(Original(k), c)'
    <2>1. c \in completed
      BY <1>1
    <2>2. Original(k)' = Original(k) /\ Present(k)
      <3>1. CASE k = l
        <4>1. StillAnswers(l)
          BY <1>3, <1>6, <2>1, <3>1
        <4> QED
          BY <3>1, <4>1 DEF StillAnswers, Original
      <3>2. CASE k # l
        BY <1>2, <1>6, <3>2 DEF Original, Present, Status
      <3> QED
        BY <3>1, <3>2
    <2>3. AnswersFor(Original(k), c)
      BY <1>6, <2>1, <2>2 DEF BankInv, SessionsStand
    <2>4. PICK o : o = Original(k)
      OBVIOUS
    <2>5. AnswersFor(o, c)'
      BY <1>5, <2>1, <2>3, <2>4
    <2>6. o = Original(k)'
      BY <2>2, <2>4
    <2> QED
      BY <2>5, <2>6 DEF AnswersFor
  <1>7. SessionsStand'
    BY <1>6 DEF SessionsStand
  <1>8. \A k \in Lines : LineOK(k)'
    BY <1>2
  <1> QED
    BY <1>4, <1>7, <1>8 DEF BankInv

-----------------------------------------------------------------------------
(* Banking: one row and its journal.                                       *)

\* An allocation that names journal j.
ActiveFor(r, j) == r.state = "ACTIVE" /\ r.journal = j

\* What a step that turns row m into r makes of a journal: it stays as it is, it is
\* named by no other allocation, or it has room for the row.
Carries(j, m, r) ==
    \/ ~ActiveFor(r, j) /\ journals'[j] = journals[j]
    \/ ~ActiveFor(r, j) /\ ActiveOn(j) \subseteq {m}
    \/ /\ ActiveFor(r, j)
       /\ Used(j) - Of(matches[m], j) + r.amount <= journals'[j].amount
       /\ journals'[j].reversed = "NO"

JournalsTyped == journals \in [Journals -> Journal \cup {NoEntry}]

LEMMA EntryAmounts ==
    ASSUME NEW e \in Journal \cup {NoEntry}
    PROVE  e.amount \in Nat
  BY BankAssumption DEF Journal, NoEntry, Amounts

LEMMA UnpostedIsFree ==
    ASSUME RowsStand, NEW j \in Journals, ~Posted(j)
    PROVE  ActiveOn(j) = {}
  BY DEF RowsStand, ActiveOn

LEMMA JournalsMove ==
    ASSUME BankTypeOK, RowsStand, \A j \in Journals : JournalOK(j),
           NEW m \in Matches, NEW r \in MatchRow, matches' = [matches EXCEPT ![m] = r],
           JournalsTyped',
           \A j \in Journals : Posted(j) => journals'[j] # NoEntry,
           r.state \in {"LEGACY", "ACTIVE"} =>
               r.journal \in Journals /\ journals'[r.journal] # NoEntry,
           \A j \in Journals : Carries(j, m, r)
    PROVE  RowsStand' /\ \A j \in Journals : JournalOK(j)'
  <1>1. MatchesTyped /\ \A n \in Matches : matches[n] \in MatchRow
    BY BankTyped
  <1>2. matches'[m] = r /\ \A n \in Matches \ {m} : matches'[n] = matches[n]
    BY <1>1 DEF MatchesTyped
  <1>3. RowsStand'
    BY <1>2 DEF RowsStand, Posted
  <1>4. MatchesTyped'
    BY <1>1, RowMoves
  <1>5. ASSUME NEW j \in Journals
        PROVE  JournalOK(j)'
    <2>1. Used(j) \in Nat /\ Used(j)' \in Nat /\ (ActiveOn(j)' = {} => Used(j)' = 0)
      BY <1>1, <1>4, ActiveSums, ActiveSumsNext
    <2>2. Used(j)' = Used(j) + Of(r, j) - Of(matches[m], j)
      BY <1>1, RowMoves
    <2>3. Of(r, j) \in Nat /\ Of(matches[m], j) \in Nat
      BY <1>1, RowAmounts
    <2>4. journals'[j].amount \in Nat
      BY EntryAmounts DEF JournalsTyped
    <2>5. ActiveOn(j)' \subseteq ActiveOn(j) \cup {m}
      BY <1>2 DEF ActiveOn
    <2>6. ~ActiveFor(r, j) => m \notin ActiveOn(j)' /\ Of(r, j) = 0
      BY <1>2 DEF ActiveFor, ActiveOn, Of
    <2>7. JournalOK(j)
      OBVIOUS
    <2>8. CASE ~ActiveFor(r, j) /\ journals'[j] = journals[j]
      <3>1. Used(j)' <= Used(j)
        BY <2>1, <2>2, <2>3, <2>6, <2>8
      <3>2. ActiveOn(j)' # {} => ActiveOn(j) # {}
        BY <2>5, <2>6, <2>8
      <3>3. Used(j)' <= journals'[j].amount
        BY <2>1, <2>4, <2>7, <2>8, <3>1 DEF JournalOK
      <3> QED
        BY <2>7, <2>8, <3>2, <3>3 DEF JournalOK
    <2>9. CASE ~ActiveFor(r, j) /\ ActiveOn(j) \subseteq {m}
      <3>1. ActiveOn(j)' = {}
        BY <2>5, <2>6, <2>9
      <3> QED
        BY <2>1, <2>4, <3>1 DEF JournalOK
    <2>10. CASE /\ ActiveFor(r, j)
                /\ Used(j) - Of(matches[m], j) + r.amount <= journals'[j].amount
                /\ journals'[j].reversed = "NO"
      <3>1. Of(r, j) = r.amount
        BY <2>10 DEF ActiveFor, Of
      <3>2. Used(j)' <= journals'[j].amount
        BY <2>1, <2>2, <2>3, <2>4, <2>10, <3>1
      <3> QED
        BY <2>10, <3>2 DEF JournalOK
    <2> QED
      BY <2>8, <2>9, <2>10 DEF Carries
  <1> QED
    BY <1>3, <1>5

\* A row leaves the lines that it was not and is not on as they are.
LEMMA RowKeepsOthers ==
    ASSUME BankTypeOK, NEW m \in Matches, NEW r \in MatchRow,
           matches' = [matches EXCEPT ![m] = r],
           NEW l \in Lines, {matches[m].line, r.line} \subseteq {l, NoLine},
           \A k \in Lines \ {l} : lines'[k] = lines[k] /\ (k \in overridden' <=> k \in overridden),
           completed' = completed
    PROVE  OthersKeep(l)
  <1>1. matches'[m] = r /\ \A n \in Matches \ {m} : matches'[n] = matches[n]
    BY DEF BankTypeOK
  <1> QED
    BY <1>1 DEF OthersKeep

\* A row of the table of statement lines.
LineRow == [status : LineStatus, ignored : BOOLEAN, target : Lines \cup {NoLine}]

LEMMA WithStatusIs ==
    ASSUME BankTypeOK, NEW l \in Lines, NEW s \in LineStatus
    PROVE  /\ WithStatus(l, s) \in [Lines -> LineRow]
           /\ WithStatus(l, s)[l].status = s
           /\ WithStatus(l, s)[l].target = lines[l].target
           /\ WithStatus(l, s)[l].ignored = lines[l].ignored
           /\ \A k \in Lines \ {l} : WithStatus(l, s)[k] = lines[k]
  <1>1. lines \in [Lines -> LineRow]
    BY DEF BankTypeOK, LineRow
  <1>2. lines[l] \in LineRow /\ WithStatus(l, s) = [lines EXCEPT ![l].status = s]
    BY <1>1 DEF WithStatus
  <1>3. [lines[l] EXCEPT !.status = s] \in LineRow
    BY <1>2 DEF LineRow
  <1> QED
    BY <1>1, <1>2, <1>3 DEF LineRow

LEMMA StatusForIs ==
    ASSUME NEW a \in Nat
    PROVE  /\ StatusFor(a) \in {"UNMATCHED", "MATCHED", "PARTIALLY_MATCHED"}
           /\ StatusFor(a) \in LineStatus
           /\ StatusFor(a) = "UNMATCHED" <=> a = 0
           /\ StatusFor(a) = "MATCHED" <=> a = LineAmount
  BY BankAssumption DEF StatusFor, LineStatus

\* The status that is derived from the sum tells the sum.
LEMMA DerivedTies ==
    ASSUME MatchesTyped', NEW l \in Lines,
           lines'[l].status = StatusFor(Allocated(l)'), Allocated(l)' <= LineAmount
    PROVE  LineOK(l)'
  <1>1. Allocated(l)' \in Nat /\ (ActiveRows(l)' = {} => Allocated(l)' = 0)
    BY ActiveSumsNext
  <1>2. PICK a \in Nat : a = Allocated(l)'
    BY <1>1
  <1>3. PICK s : s = lines'[l].status
    OBVIOUS
  <1>4. /\ s \in {"UNMATCHED", "MATCHED", "PARTIALLY_MATCHED"}
        /\ s = "UNMATCHED" <=> a = 0
        /\ s = "MATCHED" <=> a = LineAmount
    BY <1>2, <1>3, StatusForIs
  <1>5. Status(l)' = s
    BY <1>3 DEF Status
  <1>6. s # "UNMATCHED" => LiveRows(l)' # {}
    BY <1>1, <1>2, <1>4 DEF LiveRows
  <1>7. Pristine(l)'
    BY <1>4, <1>5 DEF Pristine
  <1>8. a <= LineAmount /\ LineAmount \in Nat \ {0}
    BY <1>2, BankAssumption
  <1>9. LineTies(l)'
    BY <1>2, <1>4, <1>5, <1>6, <1>8 DEF LineTies
  <1> QED
    BY <1>7, <1>9 DEF LineOK

\* A line without allocations may have any status that neither counts it as reconciled
\* nor as matched without a row.
LEMMA UnallocatedTies ==
    ASSUME NEW l \in Lines, Allocated(l)' = 0, lines'[l].status # "RECONCILED",
           lines'[l].status \in {"MATCHED", "PARTIALLY_MATCHED", "CATEGORIZED"} =>
               LiveRows(l)' # {},
           lines'[l].status \in {"ABSENT", "POSSIBLE_DUPLICATE", "CONFIRMED_DUPLICATE"} =>
               RowsOf(l)' = {}
    PROVE  LineOK(l)'
  <1>1. 0 <= LineAmount /\ ~(0 > 0)
    BY BankAssumption
  <1> QED
    BY <1>1 DEF LineOK, LineTies, Pristine, Status

LEMMA Overridden ==
    ASSUME BankTypeOK, NEW l \in Lines, Rewritten(l)
    PROVE  /\ overridden' \subseteq Lines
           /\ \A k \in Lines \ {l} : k \in overridden' <=> k \in overridden
  BY DEF BankTypeOK, Rewritten

\* A step that changes one row of a line and derives the line's status from the sum.
LEMMA Recomputed ==
    ASSUME BankInv, NEW l \in Lines, NEW m \in Matches, NEW r \in MatchRow,
           matches' = [matches EXCEPT ![m] = r],
           {matches[m].line, r.line} \subseteq {l, NoLine},
           NEW a, a = Allocated(l) + On(r, l) - On(matches[m], l), a <= LineAmount,
           lines' = WithStatus(l, StatusFor(a)), Rewritten(l),
           completed' = completed, Open(l),
           JournalsTyped',
           \A j \in Journals : Posted(j) => journals'[j] # NoEntry,
           r.state \in {"LEGACY", "ACTIVE"} =>
               r.journal \in Journals /\ journals'[r.journal] # NoEntry,
           \A j \in Journals : Carries(j, m, r)
    PROVE  BankInv' /\ EvidenceKept
  <1>1. BankTypeOK /\ RowsStand /\ (\A j \in Journals : JournalOK(j))
    BY DEF BankInv
  <1>2. MatchesTyped
    BY <1>1, BankTyped
  <1>3. MatchesTyped' /\ Allocated(l)' = a
    BY <1>2, RowMoves
  <1>4. a \in Nat
    BY <1>3, ActiveSumsNext
  <1>5. StatusFor(a) \in LineStatus
    BY <1>4, StatusForIs
  <1>6. /\ lines' \in [Lines -> LineRow]
        /\ lines'[l].status = StatusFor(a)
        /\ \A k \in Lines \ {l} : lines'[k] = lines[k]
    <2> DEFINE s == StatusFor(a)
    <2> HIDE DEF s
    <2>1. s \in LineStatus /\ lines' = WithStatus(l, s)
      BY <1>5 DEF s
    <2>2. lines' \in [Lines -> LineRow] /\ lines'[l].status = s /\ \A k \in Lines \ {l} : lines'[k] = lines[k]
      BY <1>1, <2>1, WithStatusIs
    <2> QED
      BY <2>2 DEF s
  <1>7. RowsStand' /\ \A j \in Journals : JournalOK(j)'
    BY <1>1, JournalsMove
  <1>8. BankTypeOK'
    BY <1>1, <1>3, <1>6, Overridden DEF BankTypeOK, MatchesTyped, MatchRow, JournalsTyped, LineRow
  <1>9. LineOK(l)'
    BY <1>3, <1>6, DerivedTies
  <1>10. OthersKeep(l)
    BY <1>1, <1>6, Overridden, RowKeepsOthers
  <1> QED
    BY <1>7, <1>8, <1>9, <1>10, LineStep

\* A step that writes a new LEGACY row on a line without allocations.
LEMMA LegacyWritten ==
    ASSUME BankInv, NEW l \in Lines, NEW m \in Matches, Unwritten(m), NEW r \in Match,
           matches' = [matches EXCEPT ![m] = r],
           r.state = "LEGACY", r.line = l, ActiveRows(l) = {},
           NEW s \in {"UNMATCHED", "PARTIALLY_MATCHED", "MATCHED", "CATEGORIZED"},
           lines' = WithStatus(l, s), Rewritten(l),
           completed' = completed, Open(l),
           JournalsTyped',
           \A j \in Journals : Posted(j) => journals'[j] # NoEntry,
           r.journal \in Journals /\ journals'[r.journal] # NoEntry,
           \A j \in Journals : journals'[j] = journals[j] \/ ~Posted(j)
    PROVE  BankInv' /\ EvidenceKept
  <1>1. BankTypeOK /\ RowsStand /\ (\A j \in Journals : JournalOK(j))
    BY DEF BankInv
  <1>2. MatchesTyped /\ r \in MatchRow
    BY <1>1, BankTyped DEF MatchRow
  <1>3. matches[m].line = NoLine /\ On(matches[m], l) = 0 /\ On(r, l) = 0
    BY DEF Unwritten, NoMatch, On
  <1>4. MatchesTyped' /\ Allocated(l)' = 0
    <2>1. Allocated(l) = 0
      BY <1>2, ActiveSums
    <2>2. MatchesTyped' /\ Allocated(l)' = Allocated(l) + On(r, l) - On(matches[m], l)
      BY <1>2, RowMoves
    <2> QED
      BY <1>3, <2>1, <2>2
  <1>5. s \in LineStatus
    BY DEF LineStatus
  <1>6. /\ lines' \in [Lines -> LineRow]
        /\ lines'[l].status = s
        /\ \A k \in Lines \ {l} : lines'[k] = lines[k]
    BY <1>1, <1>5, WithStatusIs
  <1>7. \A j \in Journals : Carries(j, m, r)
    BY <1>1, UnpostedIsFree DEF Carries, ActiveFor
  <1>8. RowsStand' /\ \A j \in Journals : JournalOK(j)'
    BY <1>1, <1>2, <1>7, JournalsMove
  <1>9. BankTypeOK'
    BY <1>1, <1>4, <1>6, Overridden DEF BankTypeOK, MatchesTyped, MatchRow, JournalsTyped, LineRow
  <1>10. matches'[m] = r
    BY <1>2 DEF MatchesTyped
  <1>11. LiveRows(l)' # {}
    BY <1>10 DEF LiveRows, LegacyRows, RowsOf
  <1>12. LineOK(l)'
    BY <1>4, <1>6, <1>11, UnallocatedTies
  <1>13. OthersKeep(l)
    BY <1>1, <1>2, <1>3, <1>6, Overridden, RowKeepsOthers
  <1> QED
    BY <1>8, <1>9, <1>12, <1>13, LineStep

\* A step that changes a line without allocations and nothing else.
LEMMA LineWritten ==
    ASSUME BankInv, NEW l \in Lines, Open(l), ActiveRows(l) = {},
           NEW r \in LineRow, lines' = [lines EXCEPT ![l] = r],
           overridden' = overridden \/ Rewritten(l),
           UNCHANGED <<journals, matches, completed>>,
           r.status # "RECONCILED",
           r.status \in {"MATCHED", "PARTIALLY_MATCHED", "CATEGORIZED"} => LiveRows(l) # {},
           r.status \in {"ABSENT", "POSSIBLE_DUPLICATE", "CONFIRMED_DUPLICATE"} =>
               RowsOf(l) = {}
    PROVE  BankInv' /\ EvidenceKept
  <1>1. BankTypeOK /\ RowsStand /\ (\A j \in Journals : JournalOK(j))
    BY DEF BankInv
  <1>2. /\ lines' \in [Lines -> LineRow]
        /\ lines'[l] = r
        /\ \A k \in Lines \ {l} : lines'[k] = lines[k]
    BY <1>1 DEF BankTypeOK, LineRow
  <1>3. /\ overridden' \subseteq Lines
        /\ \A k \in Lines \ {l} : k \in overridden' <=> k \in overridden
    BY <1>1, Overridden DEF BankTypeOK
  <1>4. BankTypeOK'
    BY <1>1, <1>2, <1>3 DEF BankTypeOK, LineRow
  <1>5. /\ RowsOf(l)' = RowsOf(l) /\ ActiveRows(l)' = {} /\ LiveRows(l)' = LiveRows(l)
        /\ \A j \in Journals : ActiveOn(j)' = ActiveOn(j)
    BY DEF RowsOf, ActiveRows, LegacyRows, LiveRows, ActiveOn
  <1>6. MatchesTyped'
    BY <1>1, BankTyped DEF MatchesTyped
  <1>7. Allocated(l)' = 0
    BY <1>5, <1>6, ActiveSumsNext
  <1>8. \A j \in Journals : Used(j)' = Used(j)
    BY DEF Used, AmountOf, ActiveOn
  <1>9. RowsStand' /\ \A j \in Journals : JournalOK(j)'
    BY <1>1, <1>5, <1>8 DEF RowsStand, JournalOK, Posted
  <1>10. LineOK(l)'
    BY <1>2, <1>5, <1>7, UnallocatedTies
  <1>11. OthersKeep(l)
    BY <1>2, <1>3 DEF OthersKeep
  <1> QED
    BY <1>4, <1>9, <1>10, <1>11, LineStep

\* A step that changes journals which no allocation names, or their fate by hand.
LEMMA JournalsWritten ==
    ASSUME BankInv, UNCHANGED <<lines, matches, completed, overridden>>,
           JournalsTyped',
           \A j \in Journals : Posted(j) => journals'[j] # NoEntry,
           \A j \in Journals :
              \/ ActiveOn(j) = {}
              \/ /\ journals'[j].amount = journals[j].amount
                 /\ journals'[j].reversed = journals[j].reversed \/ journals'[j].reversed # "SOURCE"
    PROVE  BankInv' /\ EvidenceKept
  <1>1. /\ BankTypeOK /\ RowsStand /\ (\A j \in Journals : JournalOK(j))
        /\ (\A l \in Lines : LineOK(l)) /\ SessionsStand
    BY DEF BankInv
  <1>2. BankTypeOK'
    BY <1>1 DEF BankTypeOK, JournalsTyped
  <1>3. RowsStand'
    BY <1>1 DEF RowsStand, Posted
  <1>4. \A l \in Lines : /\ RowsOf(l)' = RowsOf(l) /\ ActiveRows(l)' = ActiveRows(l)
                         /\ LiveRows(l)' = LiveRows(l)
                         /\ Status(l)' = Status(l)
    BY DEF RowsOf, ActiveRows, LegacyRows, LiveRows, Status
  <1>5. \A l \in Lines : Allocated(l)' = Allocated(l)
    BY DEF Allocated, AmountOf, ActiveRows, RowsOf
  <1>6. \A l \in Lines : LineOK(l)'
    BY <1>1, <1>4, <1>5 DEF LineOK, Pristine, LineTies
  <1>7. \A j \in Journals : Used(j)' = Used(j) /\ ActiveOn(j)' = ActiveOn(j)
    BY DEF Used, AmountOf, ActiveOn
  <1>8. ASSUME NEW j \in Journals
        PROVE  JournalOK(j)'
    <2>1. CASE ActiveOn(j) = {}
      <3>1. Used(j) = 0
        BY <1>1, <2>1, BankTyped, ActiveSums
      <3>2. journals'[j].amount \in Nat
        BY EntryAmounts DEF JournalsTyped
      <3> QED
        BY <1>7, <2>1, <3>1, <3>2 DEF JournalOK
    <2>2. CASE ActiveOn(j) # {}
      BY <1>1, <1>7, <2>2 DEF JournalOK
    <2> QED
      BY <2>1, <2>2
  <1>9. SessionsStand'
    <2>1. ASSUME NEW c \in completed, NEW l \in Lines, Present(l), DayOf[l] <= c
          PROVE  AnswersFor(Original(l), c)'
      <3>1. AnswersFor(Original(l), c)
        BY <1>1, <2>1 DEF SessionsStand
      <3>2. PICK o : o = Original(l)
        OBVIOUS
      <3>3. o = Original(l)'
        BY <3>2 DEF Original, Status
      <3>4. AnswersFor(o, c)'
        BY <1>4, <1>5, <3>1, <3>2 DEF AnswersFor
      <3> QED
        BY <3>3, <3>4 DEF AnswersFor
    <2>2. \A l \in Lines : Present(l)' = Present(l)
      BY DEF Present, Status
    <2> QED
      BY <2>1, <2>2 DEF SessionsStand
  <1>10. EvidenceKept
    BY DEF EvidenceKept, Evidence, ActiveRows, RowsOf, Present, Status
  <1> QED
    BY <1>2, <1>3, <1>6, <1>8, <1>9, <1>10 DEF BankInv

-----------------------------------------------------------------------------
(* Banking: imports and reviews.                                           *)

LEMMA WithStatusRow ==
    ASSUME BankTypeOK, NEW l \in Lines, NEW s \in LineStatus
    PROVE  \E r \in LineRow : r.status = s /\ WithStatus(l, s) = [lines EXCEPT ![l] = r]
  <1>1. lines \in [Lines -> LineRow] /\ lines[l] \in LineRow
    BY DEF BankTypeOK, LineRow
  <1>2. PICK r : r = [lines[l] EXCEPT !.status = s]
    OBVIOUS
  <1>3. r \in LineRow /\ r.status = s
    BY <1>1, <1>2 DEF LineRow
  <1>4. WithStatus(l, s) = [lines EXCEPT ![l] = r]
    BY <1>1, <1>2 DEF WithStatus
  <1> QED
    BY <1>3, <1>4

\* A line whose status is rewritten as one without consequence.
LEMMA StatusWritten ==
    ASSUME BankInv, NEW l \in Lines, Open(l), ActiveRows(l) = {},
           NEW s \in {"TO_REVIEW", "POSSIBLE_DUPLICATE", "UNMATCHED"},
           s = "POSSIBLE_DUPLICATE" => RowsOf(l) = {},
           lines' = WithStatus(l, s),
           overridden' = overridden \/ Rewritten(l),
           UNCHANGED <<journals, matches, completed>>
    PROVE  BankInv' /\ EvidenceKept
  <1>1. BankTypeOK /\ s \in LineStatus
    BY DEF BankInv, LineStatus
  <1>2. PICK r \in LineRow : r.status = s /\ lines' = [lines EXCEPT ![l] = r]
    BY <1>1, WithStatusRow
  <1> QED
    BY <1>2, LineWritten

LEMMA NoRows ==
    ASSUME BankInv, NEW l \in Lines,
           Status(l) \in {"ABSENT", "POSSIBLE_DUPLICATE", "CONFIRMED_DUPLICATE"}
    PROVE  RowsOf(l) = {} /\ ActiveRows(l) = {}
  BY DEF BankInv, LineOK, Pristine, ActiveRows

LEMMA ImportKeeps ==
    ASSUME BankInv, NEW l \in Lines, Import(l) \/ ImportUnreviewed(l)
    PROVE  BankInv' /\ EvidenceKept
  <1>1. /\ Open(l) /\ Status(l) = "ABSENT"
        /\ overridden' = overridden /\ UNCHANGED <<journals, matches, completed>>
        /\ \E s \in {"TO_REVIEW", "POSSIBLE_DUPLICATE", "UNMATCHED"} : lines' = WithStatus(l, s)
    BY DEF Import, ImportUnreviewed, Present
  <1>2. RowsOf(l) = {} /\ ActiveRows(l) = {}
    BY <1>1, NoRows
  <1> QED
    BY <1>1, <1>2, StatusWritten

LEMMA ReviewKeeps ==
    ASSUME BankInv, NEW l \in Lines, Review(l)
    PROVE  BankInv' /\ EvidenceKept
  <1>1. /\ Open(l) /\ ActiveRows(l) = {}
        /\ Rewritten(l) /\ UNCHANGED <<journals, matches, completed>>
        /\ lines' = WithStatus(l, "UNMATCHED")
    BY DEF Review, Reviewable, LiveRows
  <1> QED
    BY <1>1, StatusWritten

LEMMA ConfirmDuplicateKeeps ==
    ASSUME BankInv, NEW l \in Lines, NEW k \in Lines, ConfirmDuplicate(l, k)
    PROVE  BankInv' /\ EvidenceKept
  <1>1. /\ Open(l) /\ Status(l) = "POSSIBLE_DUPLICATE"
        /\ Rewritten(l) /\ UNCHANGED <<journals, matches, completed>>
        /\ lines' = [lines EXCEPT ![l].status = "CONFIRMED_DUPLICATE", ![l].target = k]
    BY DEF ConfirmDuplicate, Reviewable
  <1>2. RowsOf(l) = {} /\ ActiveRows(l) = {}
    BY <1>1, NoRows
  <1>3. lines \in [Lines -> LineRow] /\ lines[l] \in LineRow
    BY DEF BankInv, BankTypeOK, LineRow
  <1>4. PICK r : r = [lines[l] EXCEPT !.status = "CONFIRMED_DUPLICATE", !.target = k]
    OBVIOUS
  <1>5. r \in LineRow /\ r.status = "CONFIRMED_DUPLICATE"
    BY <1>3, <1>4 DEF LineRow, LineStatus
  <1>6. lines' = [lines EXCEPT ![l] = r]
    BY <1>1, <1>3, <1>4
  <1> QED
    BY <1>1, <1>2, <1>5, <1>6, LineWritten

LEMMA RevokeDuplicateKeeps ==
    ASSUME BankInv, NEW l \in Lines, RevokeDuplicate(l)
    PROVE  BankInv' /\ EvidenceKept
  <1>1. /\ Open(l) /\ Status(l) = "CONFIRMED_DUPLICATE"
        /\ Rewritten(l) /\ UNCHANGED <<journals, matches, completed>>
        /\ lines' = [lines EXCEPT ![l].status = "POSSIBLE_DUPLICATE", ![l].target = NoLine]
    BY DEF RevokeDuplicate
  <1>2. RowsOf(l) = {} /\ ActiveRows(l) = {}
    BY <1>1, NoRows
  <1>3. lines \in [Lines -> LineRow] /\ lines[l] \in LineRow
    BY DEF BankInv, BankTypeOK, LineRow
  <1>4. PICK r : r = [lines[l] EXCEPT !.status = "POSSIBLE_DUPLICATE", !.target = NoLine]
    OBVIOUS
  <1>5. r \in LineRow /\ r.status = "POSSIBLE_DUPLICATE"
    BY <1>3, <1>4 DEF LineRow, LineStatus
  <1>6. lines' = [lines EXCEPT ![l] = r]
    BY <1>1, <1>3, <1>4
  <1> QED
    BY <1>1, <1>2, <1>5, <1>6, LineWritten

LEMMA IgnoreKeeps ==
    ASSUME BankInv, NEW l \in Lines, NEW ignored \in BOOLEAN, Ignore(l, ignored)
    PROVE  BankInv' /\ EvidenceKept
  <1>1. PICK s : s = IF ignored THEN "IGNORED" ELSE "TO_REVIEW"
    OBVIOUS
  <1>2. /\ Open(l) /\ ActiveRows(l) = {}
        /\ Rewritten(l) /\ UNCHANGED <<journals, matches, completed>>
        /\ lines' = [lines EXCEPT ![l].ignored = ignored, ![l].status = s]
    BY <1>1 DEF Ignore
  <1>3. lines \in [Lines -> LineRow] /\ lines[l] \in LineRow
    BY DEF BankInv, BankTypeOK, LineRow
  <1>4. s \in LineStatus /\ s \in {"IGNORED", "TO_REVIEW"}
    BY <1>1 DEF LineStatus
  <1>5. PICK r : r = [lines[l] EXCEPT !.ignored = ignored, !.status = s]
    OBVIOUS
  <1>6. r \in LineRow /\ r.status = s
    BY <1>3, <1>4, <1>5 DEF LineRow
  <1>7. lines' = [lines EXCEPT ![l] = r]
    BY <1>2, <1>3, <1>5
  <1> QED
    BY <1>2, <1>4, <1>6, <1>7, LineWritten

-----------------------------------------------------------------------------
(* Banking: books.                                                         *)

LEMMA EntryTyped ==
    ASSUME BankTypeOK, NEW j \in Journals, NEW series \in {"DOCUMENT", "JV", "JE"},
           NEW day \in Days, NEW a \in Amounts,
           journals' = [journals EXCEPT ![j] = Entry(series, day, a)]
    PROVE  /\ JournalsTyped'
           /\ journals'[j] # NoEntry
           /\ journals'[j].amount = a /\ journals'[j].reversed = "NO"
           /\ \A i \in Journals \ {j} : journals'[i] = journals[i]
           /\ \A i \in Journals : Posted(i) => journals'[i] # NoEntry
  <1>1. journals \in [Journals -> Journal \cup {NoEntry}]
    BY DEF BankTypeOK
  <1>2. PICK e : e = Entry(series, day, a)
    OBVIOUS
  <1>3. e \in Journal /\ e.series # "NONE" /\ e.amount = a /\ e.reversed = "NO"
    BY <1>2 DEF Entry, Journal
  <1>4. e # NoEntry
    BY <1>3 DEF NoEntry
  <1>5. journals' = [journals EXCEPT ![j] = e]
    BY <1>2
  <1> QED
    BY <1>1, <1>3, <1>4, <1>5 DEF JournalsTyped, Posted

LEMMA ReversedTyped ==
    ASSUME BankTypeOK, NEW j \in Journals, Posted(j), NEW how \in {"SOURCE", "HAND"},
           journals' = Reversed(j, how)
    PROVE  /\ JournalsTyped'
           /\ journals'[j].amount = journals[j].amount /\ journals'[j].reversed = how
           /\ \A i \in Journals \ {j} : journals'[i] = journals[i]
           /\ \A i \in Journals : Posted(i) => journals'[i] # NoEntry
  <1>1. journals \in [Journals -> Journal \cup {NoEntry}] /\ journals[j] \in Journal
    BY DEF BankTypeOK, Posted
  <1>2. PICK e : e = [journals[j] EXCEPT !.reversed = how]
    OBVIOUS
  <1>3. e \in Journal /\ e.amount = journals[j].amount /\ e.reversed = how
    BY <1>1, <1>2 DEF Journal
  <1>4. e # NoEntry
    BY <1>3 DEF NoEntry
  <1>5. journals' = [journals EXCEPT ![j] = e]
    BY <1>1, <1>2 DEF Reversed
  <1> QED
    BY <1>1, <1>3, <1>4, <1>5 DEF JournalsTyped, Posted

LEMMA PostBookKeeps ==
    ASSUME BankInv, NEW j \in Journals, NEW series \in {"DOCUMENT", "JV"}, NEW day \in Days,
           NEW a \in Amounts, PostBook(j, series, day, a)
    PROVE  BankInv' /\ EvidenceKept
  <1>1. BankTypeOK /\ RowsStand
    BY DEF BankInv
  <1>2. ~Posted(j) /\ UNCHANGED <<lines, matches, completed, overridden>>
    BY DEF PostBook
  <1>3. /\ JournalsTyped'
        /\ \A i \in Journals \ {j} : journals'[i] = journals[i]
        /\ \A i \in Journals : Posted(i) => journals'[i] # NoEntry
    BY <1>1, EntryTyped DEF PostBook
  <1>4. ActiveOn(j) = {}
    BY <1>1, <1>2, UnpostedIsFree
  <1> QED
    BY <1>2, <1>3, <1>4, JournalsWritten

LEMMA ReverseSourceKeeps ==
    ASSUME BankInv, NEW j \in Journals, ReverseSource(j)
    PROVE  BankInv' /\ EvidenceKept
  <1>1. BankTypeOK
    BY DEF BankInv
  <1>2. Posted(j) /\ ActiveOn(j) = {} /\ UNCHANGED <<lines, matches, completed, overridden>>
    BY DEF ReverseSource, Posted, NoEntry, Unbound
  <1>3. /\ JournalsTyped'
        /\ \A i \in Journals \ {j} : journals'[i] = journals[i]
        /\ \A i \in Journals : Posted(i) => journals'[i] # NoEntry
    BY <1>1, <1>2, ReversedTyped DEF ReverseSource
  <1> QED
    BY <1>2, <1>3, JournalsWritten

LEMMA ReverseByHandKeeps ==
    ASSUME BankInv, NEW j \in Journals, ReverseByHand(j)
    PROVE  BankInv' /\ EvidenceKept
  <1>1. BankTypeOK
    BY DEF BankInv
  <1>2. Posted(j) /\ UNCHANGED <<lines, matches, completed, overridden>>
    BY DEF ReverseByHand, Posted, NoEntry
  <1>3. /\ JournalsTyped'
        /\ journals'[j].amount = journals[j].amount /\ journals'[j].reversed = "HAND"
        /\ \A i \in Journals \ {j} : journals'[i] = journals[i]
        /\ \A i \in Journals : Posted(i) => journals'[i] # NoEntry
    BY <1>1, <1>2, ReversedTyped DEF ReverseByHand
  <1> QED
    BY <1>2, <1>3, JournalsWritten

-----------------------------------------------------------------------------
(* Banking: canonical allocations.                                         *)

LEMMA UnwrittenTakesNothing ==
    ASSUME NEW m \in Matches, Unwritten(m)
    PROVE  /\ matches[m].line = NoLine
           /\ \A l : On(matches[m], l) = 0
           /\ \A j : Of(matches[m], j) = 0
  BY DEF Unwritten, NoMatch, On, Of

LEMMA RowIs ==
    ASSUME NEW state \in {"LEGACY", "ACTIVE"},
           NEW kind \in {"ALLOCATED", "CREATED", "DOCUMENT", "FROM_BANK"},
           NEW l \in Lines, NEW j \in Journals, NEW a \in Amounts
    PROVE  /\ Row(state, kind, l, j, a) \in Match
           /\ Row(state, kind, l, j, a).state = state
           /\ Row(state, kind, l, j, a).line = l
           /\ Row(state, kind, l, j, a).journal = j
           /\ Row(state, kind, l, j, a).amount = a
  BY DEF Row, Match

LEMMA AllocateKeeps ==
    ASSUME BankInv, NEW m \in Matches, NEW l \in Lines, NEW j \in Journals, NEW a \in Amounts,
           Allocate(m, l, j, a)
    PROVE  BankInv' /\ EvidenceKept
  <1>1. BankTypeOK
    BY DEF BankInv
  <1>2. PICK r : r = Row("ACTIVE", "ALLOCATED", l, j, a)
    OBVIOUS
  <1>3. r \in Match /\ r.state = "ACTIVE" /\ r.line = l /\ r.journal = j /\ r.amount = a
    BY <1>2, RowIs
  <1>4. /\ Unwritten(m) /\ Open(l)
        /\ Posted(j) /\ journals[j].reversed = "NO"
        /\ Allocated(l) + a <= LineAmount
        /\ Used(j) + a <= journals[j].amount
        /\ matches' = [matches EXCEPT ![m] = r]
        /\ lines' = WithStatus(l, StatusFor(Allocated(l) + a))
        /\ Rewritten(l) /\ journals' = journals /\ completed' = completed
    BY <1>2 DEF Allocate, Allocatable
  <1>5. matches[m].line = NoLine /\ On(matches[m], l) = 0 /\ Of(matches[m], j) = 0
    BY <1>4, UnwrittenTakesNothing
  <1>6. On(r, l) = a
    BY <1>3 DEF On
  <1>7. Allocated(l) \in Nat /\ Used(j) \in Nat /\ a \in Nat
    BY <1>1, BankTyped, ActiveSums, BankAssumption DEF Amounts
  <1>8. Allocated(l) + a = Allocated(l) + On(r, l) - On(matches[m], l)
    BY <1>5, <1>6, <1>7
  <1>9. JournalsTyped'
    BY <1>1, <1>4 DEF BankTypeOK, JournalsTyped
  <1>10. \A i \in Journals : Carries(i, m, r)
    <2>1. Used(j) - Of(matches[m], j) + r.amount <= journals'[j].amount
      BY <1>3, <1>4, <1>5, <1>7
    <2> QED
      BY <1>3, <1>4, <2>1 DEF Carries, ActiveFor
  <1>11. (\A i \in Journals : Posted(i) => journals'[i] # NoEntry) /\ r \in MatchRow
    BY <1>3, <1>4 DEF Posted, MatchRow
  <1>12. PICK sum : sum = Allocated(l) + a
    OBVIOUS
  <1> QED
    BY <1>3, <1>4, <1>5, <1>8, <1>9, <1>10, <1>11, <1>12, Recomputed

\* The row that a withdrawal leaves.
LEMMA WithdrawnIs ==
    ASSUME BankTypeOK, NEW m \in Matches, matches[m].state \in {"LEGACY", "ACTIVE"},
           NEW state \in {"UNMATCHED", "REVERSED"}, Withdrawn(m, state),
           NEW l, l = matches[m].line
    PROVE  /\ l \in Lines /\ Rewritten(l)
           /\ \E r \in Match :
                 /\ r.state = state /\ r.line = l
                 /\ matches' = [matches EXCEPT ![m] = r]
                 /\ lines' = WithStatus(l, StatusFor(Allocated(l) + On(r, l) - On(matches[m], l)))
  <1>1. matches \in [Matches -> Match \cup {NoMatch}] /\ matches[m] \in Match
    BY DEF BankTypeOK, NoMatch
  <1>2. l \in Lines
    BY <1>1 DEF Match
  <1>3. PICK r : r = [matches[m] EXCEPT !.state = state, !.journal = NoJournal]
    OBVIOUS
  <1>4. r \in Match /\ r.state = state /\ r.line = l
    BY <1>1, <1>3 DEF Match
  <1>5. /\ matches' = [matches EXCEPT ![m].state = state, ![m].journal = NoJournal]
        /\ lines' = WithStatus(l, StatusFor(AmountOf(ActiveRows(l) \ {m})))
        /\ Rewritten(l)
    BY DEF Withdrawn
  <1>6. matches' = [matches EXCEPT ![m] = r]
    BY <1>1, <1>3, <1>5
  <1>7. On(r, l) = 0
    BY <1>4 DEF On
  <1>8. AmountOf(ActiveRows(l) \ {m}) = Allocated(l) - On(matches[m], l)
    BY <1>2, WithoutRow, BankTyped
  <1>9. Allocated(l) \in Nat /\ On(matches[m], l) \in Nat
    BY <1>2, BankTyped, ActiveSums, RowAmounts
  <1>10. AmountOf(ActiveRows(l) \ {m}) = Allocated(l) + On(r, l) - On(matches[m], l)
    BY <1>7, <1>8, <1>9
  <1>11. lines' = WithStatus(l, StatusFor(Allocated(l) + On(r, l) - On(matches[m], l)))
    BY <1>5, <1>10, Zenon
  <1> QED
    BY <1>2, <1>4, <1>5, <1>6, <1>11

LEMMA WithdrawnFits ==
    ASSUME BankInv, NEW m \in Matches, NEW l \in Lines, NEW r \in Match,
           r.state \in {"UNMATCHED", "REVERSED"}
    PROVE  Allocated(l) + On(r, l) - On(matches[m], l) <= LineAmount
  <1>1. On(r, l) = 0
    BY DEF On
  <1>2. Allocated(l) \in Nat /\ On(matches[m], l) \in Nat /\ LineAmount \in Nat
    BY BankTyped, ActiveSums, RowAmounts, BankAssumption DEF BankInv
  <1>3. Allocated(l) <= LineAmount
    BY DEF BankInv, LineOK
  <1> QED
    BY <1>1, <1>2, <1>3

LEMMA UnmatchKeeps ==
    ASSUME BankInv, NEW m \in Matches, Unmatch(m)
    PROVE  BankInv' /\ EvidenceKept
  <1>1. BankTypeOK
    BY DEF BankInv
  <1>2. PICK l : l = matches[m].line
    OBVIOUS
  <1>3. /\ matches[m].state = "ACTIVE" /\ Open(l) /\ Withdrawn(m, "UNMATCHED")
        /\ journals' = journals /\ completed' = completed
    BY <1>2 DEF Unmatch
  <1>4. l \in Lines /\ Rewritten(l)
    BY <1>1, <1>2, <1>3, WithdrawnIs
  <1>5. PICK r \in Match :
                 /\ r.state = "UNMATCHED" /\ r.line = l
                 /\ matches' = [matches EXCEPT ![m] = r]
                 /\ lines' = WithStatus(l, StatusFor(Allocated(l) + On(r, l) - On(matches[m], l)))
    BY <1>1, <1>2, <1>3, WithdrawnIs
  <1>6. PICK a : a = Allocated(l) + On(r, l) - On(matches[m], l)
    OBVIOUS
  <1>7. a <= LineAmount
    BY <1>4, <1>5, <1>6, WithdrawnFits
  <1>8. JournalsTyped' /\ r \in MatchRow /\ \A i \in Journals : Posted(i) => journals'[i] # NoEntry
    BY <1>1, <1>3 DEF BankTypeOK, JournalsTyped, MatchRow, Posted
  <1>9. \A i \in Journals : Carries(i, m, r)
    BY <1>3, <1>5 DEF Carries, ActiveFor
  <1>10. lines' = WithStatus(l, StatusFor(a))
    BY <1>5, <1>6
  <1> QED
    BY <1>2, <1>3, <1>4, <1>5, <1>6, <1>7, <1>8, <1>9, <1>10, Recomputed

LEMMA ReverseCreatedKeeps ==
    ASSUME BankInv, NEW m \in Matches, ReverseCreated(m)
    PROVE  BankInv' /\ EvidenceKept
  <1>1. BankTypeOK /\ RowsStand
    BY DEF BankInv
  <1>2. PICK l : l = matches[m].line
    OBVIOUS
  <1>3. PICK j : j = matches[m].journal
    OBVIOUS
  <1>4. /\ matches[m].state \in {"LEGACY", "ACTIVE"}
        /\ Open(l) /\ Withdrawn(m, "REVERSED")
        /\ ActiveOn(j) \subseteq {m}
        /\ journals' = Reversed(j, "SOURCE") /\ completed' = completed
    BY <1>2, <1>3 DEF ReverseCreated, Unbound
  <1>5. l \in Lines /\ Rewritten(l)
    BY <1>1, <1>2, <1>4, WithdrawnIs
  <1>6. PICK r \in Match :
                 /\ r.state = "REVERSED" /\ r.line = l
                 /\ matches' = [matches EXCEPT ![m] = r]
                 /\ lines' = WithStatus(l, StatusFor(Allocated(l) + On(r, l) - On(matches[m], l)))
    BY <1>1, <1>2, <1>4, WithdrawnIs
  <1>7. PICK a : a = Allocated(l) + On(r, l) - On(matches[m], l)
    OBVIOUS
  <1>8. a <= LineAmount
    BY <1>5, <1>6, <1>7, WithdrawnFits
  <1>9. j \in Journals /\ Posted(j)
    BY <1>1, <1>3, <1>4 DEF RowsStand
  <1>10. /\ JournalsTyped'
         /\ \A i \in Journals \ {j} : journals'[i] = journals[i]
         /\ \A i \in Journals : Posted(i) => journals'[i] # NoEntry
    BY <1>1, <1>4, <1>9, ReversedTyped
  <1>11. \A i \in Journals : Carries(i, m, r)
    BY <1>4, <1>6, <1>10 DEF Carries, ActiveFor
  <1>12. lines' = WithStatus(l, StatusFor(a)) /\ r \in MatchRow
    BY <1>6, <1>7 DEF MatchRow
  <1> QED
    BY <1>2, <1>4, <1>5, <1>6, <1>7, <1>8, <1>10, <1>11, <1>12, Recomputed

LEMMA VerifyKeeps ==
    ASSUME BankInv, NEW m \in Matches, Verify(m)
    PROVE  BankInv' /\ EvidenceKept
  <1>1. BankTypeOK /\ RowsStand
    BY DEF BankInv
  <1>2. PICK l : l = matches[m].line
    OBVIOUS
  <1>3. PICK j : j = matches[m].journal
    OBVIOUS
  <1>4. PICK b : b = matches[m].amount
    OBVIOUS
  <1>5. /\ matches[m].state = "LEGACY" /\ Open(l)
        /\ journals[j].reversed = "NO"
        /\ AmountOf(LiveRows(l)) <= LineAmount
        /\ Used(j) + b <= journals[j].amount
        /\ matches' = [matches EXCEPT ![m].state = "ACTIVE"]
        /\ lines' = WithStatus(l, StatusFor(Allocated(l) + b))
        /\ Rewritten(l) /\ journals' = journals /\ completed' = completed
    BY <1>2, <1>3, <1>4, Zenon DEF Verify
  <1>6. matches \in [Matches -> Match \cup {NoMatch}] /\ matches[m] \in Match
    BY <1>1, <1>5 DEF BankTypeOK, NoMatch
  <1>7. l \in Lines /\ j \in Journals /\ Posted(j)
    BY <1>1, <1>2, <1>3, <1>5, <1>6 DEF Match, RowsStand
  <1>8. PICK r : r = [matches[m] EXCEPT !.state = "ACTIVE"]
    OBVIOUS
  <1>9. r \in Match /\ r.state = "ACTIVE" /\ r.line = l /\ r.journal = j /\ r.amount = b
    BY <1>2, <1>3, <1>4, <1>6, <1>8 DEF Match
  <1>10. matches' = [matches EXCEPT ![m] = r]
    BY <1>5, <1>6, <1>8
  <1>11. On(r, l) = b /\ On(matches[m], l) = 0 /\ Of(matches[m], j) = 0
    BY <1>5, <1>9 DEF On, Of
  <1>12. Allocated(l) \in Nat /\ Used(j) \in Nat /\ b \in Nat
    BY <1>1, <1>4, <1>7, BankTyped, ActiveSums, RowAmounts
  <1>13. Allocated(l) + b <= LineAmount
    BY <1>1, <1>2, <1>4, <1>5, <1>7, BankTyped, LiveRowFits
  <1>14. PICK a : a = Allocated(l) + b
    OBVIOUS
  <1>15. a = Allocated(l) + On(r, l) - On(matches[m], l) /\ a <= LineAmount
    BY <1>11, <1>12, <1>13, <1>14
  <1>16. JournalsTyped' /\ r \in MatchRow /\ \A i \in Journals : Posted(i) => journals'[i] # NoEntry
    BY <1>1, <1>5, <1>9 DEF BankTypeOK, JournalsTyped, MatchRow, Posted
  <1>17. \A i \in Journals : Carries(i, m, r)
    <2>1. Used(j) - Of(matches[m], j) + r.amount <= journals'[j].amount
      BY <1>5, <1>9, <1>11, <1>12
    <2> QED
      BY <1>5, <1>9, <2>1 DEF Carries, ActiveFor
  <1>18. lines' = WithStatus(l, StatusFor(a))
    BY <1>5, <1>14
  <1> QED
    BY <1>2, <1>5, <1>7, <1>9, <1>10, <1>15, <1>16, <1>17, <1>18, Recomputed

LEMMA CreateEntryKeeps ==
    ASSUME BankInv, NEW m \in Matches, NEW l \in Lines, NEW j \in Journals, CreateEntry(m, l, j)
    PROVE  BankInv' /\ EvidenceKept
  <1>1. BankTypeOK /\ RowsStand
    BY DEF BankInv
  <1>2. PICK b : b = Remainder(l)
    OBVIOUS
  <1>3. PICK r : r = Row("ACTIVE", "CREATED", l, j, b)
    OBVIOUS
  <1>4. /\ Unwritten(m) /\ ~Posted(j) /\ Open(l) /\ Allocated(l) < LineAmount
        /\ journals' = [journals EXCEPT ![j] = Entry("JV", DayOf[l], b)]
        /\ matches' = [matches EXCEPT ![m] = r]
        /\ lines' = WithStatus(l, StatusFor(LineAmount))
        /\ Rewritten(l) /\ completed' = completed
    BY <1>2, <1>3 DEF CreateEntry, Allocatable
  <1>5. Allocated(l) \in Nat /\ LineAmount \in Nat
    BY <1>1, BankTyped, ActiveSums, BankAssumption
  <1>6. b \in Amounts /\ b \in Nat /\ Allocated(l) + b = LineAmount
    BY <1>2, <1>4, <1>5 DEF Remainder, Amounts
  <1>7. r \in Match /\ r.state = "ACTIVE" /\ r.line = l /\ r.journal = j /\ r.amount = b
    BY <1>3, <1>6, RowIs
  <1>8. matches[m].line = NoLine /\ On(matches[m], l) = 0 /\ Of(matches[m], j) = 0
    BY <1>4, UnwrittenTakesNothing
  <1>9. On(r, l) = b
    BY <1>7 DEF On
  <1>10. LineAmount = Allocated(l) + On(r, l) - On(matches[m], l)
    BY <1>5, <1>6, <1>8, <1>9
  <1>11. DayOf[l] \in Days
    BY BankAssumption DEF Days
  <1>12. /\ JournalsTyped' /\ journals'[j] # NoEntry
         /\ journals'[j].amount = b /\ journals'[j].reversed = "NO"
         /\ \A i \in Journals \ {j} : journals'[i] = journals[i]
         /\ \A i \in Journals : Posted(i) => journals'[i] # NoEntry
    <2>1. PICK series \in {"DOCUMENT", "JV", "JE"} : series = "JV"
      OBVIOUS
    <2>2. PICK day \in Days : day = DayOf[l]
      BY <1>11
    <2>3. PICK x \in Amounts : x = b
      BY <1>6
    <2>4. journals' = [journals EXCEPT ![j] = Entry(series, day, x)]
      BY <1>4, <2>1, <2>2, <2>3
    <2>5. JournalsTyped' /\ journals'[j] # NoEntry
      BY <1>1, <2>4, EntryTyped
    <2>6. journals'[j].amount = x /\ journals'[j].reversed = "NO"
      <3>1. journals'[j] = Entry(series, day, x)
        BY <1>1, <2>4 DEF BankTypeOK
      <3> QED
        BY <3>1 DEF Entry
    <2>7. /\ \A i \in Journals \ {j} : journals'[i] = journals[i]
          /\ \A i \in Journals : Posted(i) => journals'[i] # NoEntry
      BY <1>1, <2>4, EntryTyped
    <2> QED
      BY <2>3, <2>5, <2>6, <2>7
  <1>13. Used(j) = 0
    BY <1>1, <1>4, UnpostedIsFree, BankTyped, ActiveSums
  <1>14. \A i \in Journals : Carries(i, m, r)
    <2>1. Used(j) - Of(matches[m], j) + r.amount <= journals'[j].amount
      BY <1>6, <1>7, <1>8, <1>12, <1>13
    <2> QED
      BY <1>7, <1>12, <2>1 DEF Carries, ActiveFor
  <1>15. r \in MatchRow /\ LineAmount <= LineAmount
    BY <1>5, <1>7 DEF MatchRow
  <1> QED
    BY <1>4, <1>7, <1>8, <1>10, <1>12, <1>14, <1>15, Recomputed

-----------------------------------------------------------------------------
(* Banking: the older matches.                                             *)

\* What a session covers and what no allocation is on do not meet.
LEMMA CoveredIsAllocated ==
    ASSUME BankInv, NEW l \in Lines, Present(l), ~Open(l)
    PROVE  Status(l) = "CONFIRMED_DUPLICATE" \/ (Allocated(l) = LineAmount /\ ActiveRows(l) # {})
  <1>1. BankTypeOK /\ completed \subseteq Days /\ SessionsStand
    BY DEF BankInv, BankTypeOK
  <1>2. PICK c \in completed : DayOf[l] <= c
    BY <1>1, ThroughCovers
  <1>3. AnswersFor(Original(l), c)
    BY <1>1, <1>2 DEF SessionsStand
  <1>4. Status(l) # "CONFIRMED_DUPLICATE" => Allocated(l) = LineAmount
    BY <1>3 DEF AnswersFor, Original
  <1>5. Allocated(l) = LineAmount => ActiveRows(l) # {}
    BY <1>1, BankTyped, ActiveSums, BankAssumption
  <1> QED
    BY <1>4, <1>5

LEMMA MatchDocumentKeeps ==
    ASSUME BankInv, NEW m \in Matches, NEW l \in Lines, NEW j \in Journals, NEW a \in Amounts,
           MatchDocument(m, l, j, a)
    PROVE  BankInv' /\ EvidenceKept
  <1>1. BankTypeOK
    BY DEF BankInv
  <1>2. PICK r : r = Row("LEGACY", "DOCUMENT", l, j, a)
    OBVIOUS
  <1>3. r \in Match /\ r.state = "LEGACY" /\ r.line = l /\ r.journal = j
    BY <1>2, RowIs
  <1>4. PICK sum : sum = AmountOf(LegacyRows(l)) + a
    OBVIOUS
  <1>5. /\ Unwritten(m) /\ Present(l) /\ Status(l) # "CONFIRMED_DUPLICATE"
        /\ ActiveRows(l) = {} /\ Posted(j)
        /\ matches' = [matches EXCEPT ![m] = r]
        /\ lines' = WithStatus(l, StatusFor(sum))
        /\ Rewritten(l) /\ journals' = journals /\ completed' = completed
    BY <1>2, <1>4 DEF MatchDocument
  <1>6. Open(l)
    BY <1>5, CoveredIsAllocated
  <1>7. PICK s : s = StatusFor(sum)
    OBVIOUS
  <1>8. s \in {"UNMATCHED", "PARTIALLY_MATCHED", "MATCHED", "CATEGORIZED"}
    BY <1>7 DEF StatusFor
  <1>9. JournalsTyped' /\ \A i \in Journals : Posted(i) => journals'[i] # NoEntry
    BY <1>1, <1>5 DEF BankTypeOK, JournalsTyped, Posted
  <1>10. r.journal \in Journals /\ journals'[r.journal] # NoEntry
    BY <1>3, <1>5 DEF Posted
  <1>11. lines' = WithStatus(l, s) /\ \A i \in Journals : journals'[i] = journals[i] \/ ~Posted(i)
    BY <1>5, <1>7
  <1> QED
    BY <1>3, <1>5, <1>6, <1>8, <1>9, <1>10, <1>11, LegacyWritten

LEMMA BookWholeKeeps ==
    ASSUME BankInv, NEW m \in Matches, NEW l \in Lines, NEW j \in Journals,
           NEW kind \in {"FROM_BANK", "DOCUMENT"}, NEW s \in {"MATCHED", "CATEGORIZED"},
           BookWhole(m, l, j, kind, s)
    PROVE  BankInv' /\ EvidenceKept
  <1>1. BankTypeOK /\ completed \subseteq Days
    BY DEF BankInv, BankTypeOK
  <1>2. PICK r : r = Row("LEGACY", kind, l, j, LineAmount)
    OBVIOUS
  <1>3. LineAmount \in Amounts
    BY BankAssumption DEF Amounts
  <1>4. r \in Match /\ r.state = "LEGACY" /\ r.line = l /\ r.journal = j
    BY <1>2, <1>3, RowIs
  <1>5. /\ Unwritten(m) /\ ~Posted(j) /\ ActiveRows(l) = {} /\ Open(l)
        /\ journals' = [journals EXCEPT ![j] = Entry("JE", DayOf[l], LineAmount)]
        /\ matches' = [matches EXCEPT ![m] = r]
        /\ lines' = WithStatus(l, s)
        /\ Rewritten(l) /\ completed' = completed
    BY <1>2 DEF BookWhole, Open
  <1>6. /\ JournalsTyped' /\ journals'[j] # NoEntry
        /\ \A i \in Journals \ {j} : journals'[i] = journals[i]
        /\ \A i \in Journals : Posted(i) => journals'[i] # NoEntry
    <2>1. PICK series \in {"DOCUMENT", "JV", "JE"} : series = "JE"
      OBVIOUS
    <2>2. PICK day \in Days : day = DayOf[l]
      BY BankAssumption DEF Days
    <2>3. journals' = [journals EXCEPT ![j] = Entry(series, day, LineAmount)]
      BY <1>5, <2>1, <2>2
    <2> QED
      BY <1>1, <1>3, <2>3, EntryTyped
  <1>7. \A i \in Journals : journals'[i] = journals[i] \/ ~Posted(i)
    BY <1>5, <1>6
  <1>8. s \in {"UNMATCHED", "PARTIALLY_MATCHED", "MATCHED", "CATEGORIZED"}
    OBVIOUS
  <1> QED
    BY <1>4, <1>5, <1>6, <1>7, <1>8, LegacyWritten

LEMMA DeleteMatchKeeps ==
    ASSUME BankInv, NEW m \in Matches, DeleteMatch(m)
    PROVE  BankInv' /\ EvidenceKept
  <1>1. BankTypeOK /\ RowsStand /\ (\A j \in Journals : JournalOK(j)) /\ (\A l \in Lines : LineOK(l))
    BY DEF BankInv
  <1>2. PICK l : l = matches[m].line
    OBVIOUS
  <1>3. PICK s : s = IF LiveRows(l) \ {m} = {} THEN "UNMATCHED" ELSE "MATCHED"
    OBVIOUS
  <1>4. /\ matches[m].state \in {"LEGACY", "UNMATCHED", "REVERSED"}
        /\ matches' = [matches EXCEPT ![m] = NoMatch]
        /\ lines' = WithStatus(l, s)
        /\ overridden' = overridden \cup {l}
        /\ journals' = journals /\ completed' = completed
    BY <1>2, <1>3 DEF DeleteMatch
  <1>5. matches \in [Matches -> MatchRow] /\ matches[m] \in Match
    BY <1>1, <1>4 DEF BankTypeOK, NoMatch, MatchRow
  <1>6. l \in Lines /\ NoMatch \in MatchRow
    BY <1>2, <1>5 DEF Match, MatchRow
  <1>7. s \in LineStatus /\ s \in {"UNMATCHED", "MATCHED"}
    BY <1>3 DEF LineStatus
  <1>8. /\ lines' \in [Lines -> LineRow]
        /\ lines'[l].status = s /\ lines'[l].target = lines[l].target
        /\ \A k \in Lines \ {l} : lines'[k] = lines[k]
    BY <1>1, <1>4, <1>6, <1>7, WithStatusIs
  <1>9. matches'[m] = NoMatch /\ \A n \in Matches \ {m} : matches'[n] = matches[n]
    BY <1>4, <1>5
  <1>10. NoMatch.state = "ABSENT" /\ NoMatch.line = NoLine
    BY DEF NoMatch
  <1>11. /\ ActiveRows(l)' = ActiveRows(l)
         /\ LiveRows(l)' = LiveRows(l) \ {m}
         /\ \A n \in ActiveRows(l) : matches'[n] = matches[n] /\ n # m
    BY <1>4, <1>9, <1>10 DEF ActiveRows, LegacyRows, LiveRows, RowsOf
  <1>12. /\ Allocated(l)' = Allocated(l)
         /\ {matches[n] : n \in ActiveRows(l)}' = {matches[n] : n \in ActiveRows(l)}
    BY <1>6, <1>11, SameActive
  <1>13. MatchesTyped' /\ MatchesTyped
    BY <1>4, <1>5, <1>6 DEF MatchesTyped
  <1>14. BankTypeOK'
    BY <1>1, <1>4, <1>6, <1>8, <1>13 DEF BankTypeOK, MatchesTyped, MatchRow, LineRow
  <1>15. RowsStand' /\ \A j \in Journals : JournalOK(j)'
    <2>1. PICK r \in MatchRow : r = NoMatch
      BY <1>6
    <2>2. r.state = "ABSENT" /\ matches' = [matches EXCEPT ![m] = r]
      BY <1>4, <1>10, <2>1
    <2>3. \A j \in Journals : Carries(j, m, r)
      BY <1>4, <2>2 DEF Carries, ActiveFor
    <2>4. JournalsTyped' /\ \A j \in Journals : Posted(j) => journals'[j] # NoEntry
      BY <1>1, <1>4 DEF BankTypeOK, JournalsTyped, Posted
    <2> QED
      BY <1>1, <2>2, <2>3, <2>4, JournalsMove
  <1>16. LineOK(l)'
    <2>1. s = "MATCHED" => LiveRows(l)' # {}
      BY <1>3, <1>11
    <2>2. Status(l)' = s
      BY <1>8 DEF Status
    <2>3. l \in overridden'
      BY <1>4
    <2>4. Allocated(l)' <= LineAmount
      BY <1>1, <1>6, <1>12 DEF LineOK
    <2> QED
      BY <1>7, <2>1, <2>2, <2>3, <2>4 DEF LineOK, LineTies, Pristine
  <1>17. OthersKeep(l)
    BY <1>2, <1>4, <1>8, <1>9, <1>10 DEF OthersKeep
  <1>18. ASSUME ~Open(l)
         PROVE  StillAnswers(l)
    <2>1. m \in RowsOf(l)
      BY <1>2 DEF RowsOf
    <2>2. Present(l) /\ Status(l) # "CONFIRMED_DUPLICATE"
      BY <1>1, <1>6, <2>1 DEF LineOK, Pristine, Present
    <2>3. ActiveRows(l) # {}
      BY <1>6, <1>18, <2>2, CoveredIsAllocated
    <2>4. LiveRows(l) \ {m} # {}
      BY <1>11, <2>3 DEF LiveRows
    <2>5. Status(l)' = "MATCHED"
      BY <1>3, <1>8, <2>4 DEF Status
    <2>6. Evidence(l)' = Evidence(l)
      BY <1>8, <1>12, <2>2, <2>5 DEF Evidence, Present, Status
    <2> QED
      BY <1>12, <2>2, <2>5, <2>6 DEF StillAnswers
  <1> QED
    BY <1>6, <1>14, <1>15, <1>16, <1>17, <1>18, LineStep

-----------------------------------------------------------------------------
(* Banking: sessions.                                                      *)

\* The status of lines that are allocated whole moves between matched and reconciled.
Relabelled(l) ==
    /\ Status(l) \in {"MATCHED", "RECONCILED"}
    /\ Allocated(l) = LineAmount
    /\ \E s \in {"MATCHED", "RECONCILED"} : lines'[l] = [lines[l] EXCEPT !.status = s]

LEMMA SessionStep ==
    ASSUME BankInv, UNCHANGED <<journals, matches>>,
           lines' = [l \in Lines |-> lines'[l]],
           \A l \in Lines :
              \/ Relabelled(l)
              \/ lines'[l] = lines[l] /\ (l \in overridden' <=> l \in overridden),
           overridden' \subseteq Lines,
           completed' \subseteq Days,
           \A c \in completed' \ completed, l \in Lines :
              Present(l) /\ DayOf[l] <= c => AnswersFor(Original(l), c)
    PROVE  BankInv' /\ EvidenceKept
  <1>1. /\ BankTypeOK /\ RowsStand /\ (\A j \in Journals : JournalOK(j))
        /\ (\A l \in Lines : LineOK(l)) /\ SessionsStand
    BY DEF BankInv
  <1>2. lines \in [Lines -> LineRow]
    BY <1>1 DEF BankTypeOK, LineRow
  <1>3. ASSUME NEW l \in Lines, Relabelled(l)
        PROVE  /\ lines'[l] \in LineRow
               /\ Status(l)' \in {"MATCHED", "RECONCILED"}
               /\ lines'[l].target = lines[l].target
    BY <1>2, <1>3 DEF Relabelled, LineRow, LineStatus, Status
  <1>4. lines' \in [Lines -> LineRow]
    BY <1>2, <1>3
  <1>5. BankTypeOK'
    BY <1>1, <1>4 DEF BankTypeOK, LineRow
  <1>6. \A l \in Lines : /\ RowsOf(l)' = RowsOf(l) /\ ActiveRows(l)' = ActiveRows(l)
                         /\ LiveRows(l)' = LiveRows(l)
    BY DEF RowsOf, ActiveRows, LegacyRows, LiveRows
  <1>7. \A l \in Lines : Allocated(l)' = Allocated(l)
    BY DEF Allocated, AmountOf, ActiveRows, RowsOf
  <1>8. \A j \in Journals : Used(j)' = Used(j) /\ ActiveOn(j)' = ActiveOn(j)
    BY DEF Used, AmountOf, ActiveOn
  <1>9. RowsStand' /\ \A j \in Journals : JournalOK(j)'
    BY <1>1, <1>8 DEF RowsStand, JournalOK, Posted
  <1>10. ASSUME NEW l \in Lines
         PROVE  LineOK(l)'
    <2>1. CASE Relabelled(l)
      <3>1. Allocated(l)' = LineAmount /\ Status(l)' \in {"MATCHED", "RECONCILED"}
        BY <1>3, <1>7, <2>1 DEF Relabelled
      <3>2. ActiveRows(l) # {}
        BY <1>1, <1>7, <3>1, BankTyped, ActiveSums, BankAssumption
      <3>3. LiveRows(l)' # {}
        BY <1>6, <3>2 DEF LiveRows
      <3>4. LineAmount <= LineAmount /\ ~(LineAmount < LineAmount)
        BY BankAssumption
      <3> QED
        BY <3>1, <3>3, <3>4 DEF LineOK, LineTies, Pristine
    <2>2. CASE lines'[l] = lines[l] /\ (l \in overridden' <=> l \in overridden)
      BY <1>1, <1>6, <1>7, <2>2 DEF LineOK, LineTies, Pristine, Status
    <2> QED
      BY <2>1, <2>2
  <1>11. ASSUME NEW l \in Lines
         PROVE  /\ Present(l)' = Present(l)
                /\ Original(l)' = Original(l)
                /\ Evidence(l)' = Evidence(l)
                /\ Status(l) \in {"MATCHED", "RECONCILED"} => Status(l)' \in {"MATCHED", "RECONCILED"}
    <2>1. {matches[n] : n \in ActiveRows(l)}' = {matches[n] : n \in ActiveRows(l)}
      BY <1>6
    <2>2. CASE Relabelled(l)
      <3>1. Status(l)' \in {"MATCHED", "RECONCILED"} /\ lines'[l].target = lines[l].target
        BY <1>3, <2>2
      <3>2. Status(l) \in {"MATCHED", "RECONCILED"}
        BY <2>2 DEF Relabelled
      <3> QED
        BY <2>1, <3>1, <3>2 DEF Present, Original, Evidence
    <2>3. CASE lines'[l] = lines[l]
      BY <2>1, <2>3 DEF Present, Original, Evidence, Status
    <2> QED
      BY <2>2, <2>3
  <1>12. SessionsStand'
    <2>1. ASSUME NEW c \in completed', NEW l \in Lines, Present(l)', DayOf[l] <= c
          PROVE  AnswersFor(Original(l), c)'
      <3>1. AnswersFor(Original(l), c)
        BY <1>1, <1>11, <2>1 DEF SessionsStand
      <3>2. PICK o : o = Original(l)
        OBVIOUS
      <3>3. o \in Lines /\ o = Original(l)'
        BY <1>11, <3>1, <3>2 DEF AnswersFor
      <3>4. AnswersFor(o, c)'
        BY <1>7, <1>11, <3>1, <3>2, <3>3 DEF AnswersFor
      <3> QED
        BY <3>3, <3>4 DEF AnswersFor
    <2> QED
      BY <2>1 DEF SessionsStand
  <1>13. EvidenceKept
    BY <1>11 DEF EvidenceKept
  <1> QED
    BY <1>5, <1>9, <1>10, <1>12, <1>13 DEF BankInv

LEMMA CompleteKeeps ==
    ASSUME BankInv, NEW cutoff \in Days, Complete(cutoff)
    PROVE  BankInv' /\ EvidenceKept
  <1>1. BankTypeOK
    BY DEF BankInv
  <1>2. PICK covered : covered = {l \in Lines : Present(l) /\ DayOf[l] <= cutoff}
    OBVIOUS
  <1>3. PICK matched : matched = {l \in covered : Status(l) = "MATCHED"}
    OBVIOUS
  <1>4. /\ \A l \in covered : Resolved(l, cutoff)
        /\ completed' = completed \cup {cutoff}
        /\ lines' = [l \in Lines |-> IF l \in matched
                                     THEN [lines[l] EXCEPT !.status = "RECONCILED"] ELSE lines[l]]
        /\ overridden' = overridden \ matched
        /\ UNCHANGED <<journals, matches>>
    BY <1>2, <1>3, Zenon DEF Complete
  <1>5. lines \in [Lines -> LineRow] /\ completed \subseteq Days /\ overridden \subseteq Lines
    BY <1>1 DEF BankTypeOK, LineRow
  <1>6. ASSUME NEW l \in Lines, Present(l), DayOf[l] <= cutoff
        PROVE  AnswersFor(Original(l), cutoff)
    <2>1. Resolved(l, cutoff)
      BY <1>2, <1>4, <1>6
    <2>2. CASE Status(l) # "CONFIRMED_DUPLICATE"
      BY <1>6, <2>1, <2>2 DEF Resolved, Settled, AnswersFor, Original
    <2>3. CASE Status(l) = "CONFIRMED_DUPLICATE"
      <3>1. lines[l].target \in Lines
        BY <1>5, <2>1, <2>3 DEF Resolved, LineRow
      <3> QED
        BY <2>1, <2>3, <3>1 DEF Resolved, Settled, AnswersFor, Original
    <2> QED
      BY <2>2, <2>3
  <1>7. ASSUME NEW l \in matched
        PROVE  l \in Lines /\ Relabelled(l)
    <2>1. l \in Lines /\ Status(l) = "MATCHED" /\ Resolved(l, cutoff)
      BY <1>2, <1>3, <1>4
    <2>2. Allocated(l) = LineAmount
      BY <2>1 DEF Resolved, Settled
    <2> QED
      BY <1>4, <2>1, <2>2 DEF Relabelled
  <1>8. \A l \in Lines :
              \/ Relabelled(l)
              \/ lines'[l] = lines[l] /\ (l \in overridden' <=> l \in overridden)
    BY <1>4, <1>7
  <1>9. \A c \in completed' \ completed, l \in Lines :
              Present(l) /\ DayOf[l] <= c => AnswersFor(Original(l), c)
    BY <1>4, <1>6
  <1>10. lines' = [l \in Lines |-> lines'[l]] /\ overridden' \subseteq Lines /\ completed' \subseteq Days
    BY <1>4, <1>5
  <1> QED
    BY <1>4, <1>8, <1>9, <1>10, SessionStep

LEMMA ReopenKeeps ==
    ASSUME BankInv, Reopen
    PROVE  BankInv' /\ EvidenceKept
  <1>1. BankTypeOK /\ \A l \in Lines : LineOK(l)
    BY DEF BankInv
  <1>2. PICK earlier : earlier = completed \ {Through}
    OBVIOUS
  <1>3. PICK affected : affected =
            {l \in Lines : /\ Status(l) = "RECONCILED"
                           /\ DayOf[l] \in ((IF earlier = {} THEN 0 ELSE Max(earlier)) + 1)..Through}
    OBVIOUS
  <1>4. /\ completed' = earlier
        /\ lines' = [l \in Lines |->
                        IF l \in affected
                        THEN [lines[l] EXCEPT !.status = IF Allocated(l) = LineAmount
                                                         THEN "MATCHED" ELSE "UNMATCHED"]
                        ELSE lines[l]]
        /\ overridden' = overridden \ affected
        /\ UNCHANGED <<journals, matches>>
    BY <1>2, <1>3, Zenon DEF Reopen
  <1>5. lines \in [Lines -> LineRow] /\ completed \subseteq Days /\ overridden \subseteq Lines
    BY <1>1 DEF BankTypeOK, LineRow
  <1>6. ASSUME NEW l \in affected
        PROVE  l \in Lines /\ Relabelled(l)
    <2>1. l \in Lines /\ Status(l) = "RECONCILED"
      BY <1>3
    <2>2. Allocated(l) = LineAmount
      BY <1>1, <2>1 DEF LineOK, LineTies
    <2>3. lines'[l] = [lines[l] EXCEPT !.status = "MATCHED"]
      BY <1>4, <2>1, <2>2
    <2> QED
      BY <2>1, <2>2, <2>3 DEF Relabelled
  <1>7. \A l \in Lines :
              \/ Relabelled(l)
              \/ lines'[l] = lines[l] /\ (l \in overridden' <=> l \in overridden)
    BY <1>4, <1>6
  <1>8. /\ lines' = [l \in Lines |-> lines'[l]]
        /\ overridden' \subseteq Lines /\ completed' \subseteq Days
        /\ completed' \ completed = {}
    BY <1>2, <1>4, <1>5
  <1> QED
    BY <1>4, <1>7, <1>8, SessionStep

-----------------------------------------------------------------------------
(* Banking: the theorems.                                                  *)

LEMMA InitBank == ASSUME BankInit PROVE BankInv
  <1>1. BankTypeOK
    BY DEF BankInit, BankTypeOK, LineStatus
  <1>2. \A m \in Matches : matches[m].state = "ABSENT" /\ matches[m].line = NoLine
    BY DEF BankInit, NoMatch
  <1>3. \A l \in Lines : RowsOf(l) = {} /\ ActiveRows(l) = {} /\ Status(l) = "ABSENT"
    BY <1>2, BankAssumption DEF RowsOf, ActiveRows, BankInit, Status
  <1>4. \A j \in Journals : ActiveOn(j) = {}
    BY <1>2 DEF ActiveOn
  <1>5. (\A l \in Lines : Allocated(l) = 0) /\ \A j \in Journals : Used(j) = 0
    BY <1>1, <1>3, <1>4, BankTyped, ActiveSums
  <1>6. 0 <= LineAmount /\ ~(0 > 0) /\ 0 <= 0
    BY BankAssumption
  <1>7. \A l \in Lines : LineOK(l)
    BY <1>3, <1>5, <1>6 DEF LineOK, Pristine, LineTies
  <1>8. \A j \in Journals : JournalOK(j)
    BY <1>4, <1>5, <1>6 DEF JournalOK, BankInit, NoEntry
  <1>9. RowsStand /\ SessionsStand
    BY <1>2 DEF RowsStand, SessionsStand, BankInit
  <1> QED
    BY <1>1, <1>7, <1>8, <1>9 DEF BankInv

LEMMA StepBank ==
    ASSUME BankInv, [BankNext]_bankVars
    PROVE  BankInv' /\ EvidenceKept
  <1>1. CASE UNCHANGED bankVars
    <2>1. /\ UNCHANGED <<lines, matches, completed, overridden>>
          /\ journals' = journals
      BY <1>1 DEF bankVars
    <2>2. JournalsTyped' /\ \A j \in Journals : Posted(j) => journals'[j] # NoEntry
      BY <2>1 DEF BankInv, BankTypeOK, JournalsTyped, Posted
    <2> QED
      BY <2>1, <2>2, JournalsWritten
  <1>2. ASSUME NEW l \in Lines, Import(l) \/ ImportUnreviewed(l)
        PROVE  BankInv' /\ EvidenceKept
    BY <1>2, ImportKeeps
  <1>3. ASSUME NEW l \in Lines, RevokeDuplicate(l)
        PROVE  BankInv' /\ EvidenceKept
    BY <1>3, RevokeDuplicateKeeps
  <1>4. ASSUME NEW l \in Lines, Review(l)
        PROVE  BankInv' /\ EvidenceKept
    BY <1>4, ReviewKeeps
  <1>5. ASSUME NEW l \in Lines, NEW k \in Lines, ConfirmDuplicate(l, k)
        PROVE  BankInv' /\ EvidenceKept
    BY <1>5, ConfirmDuplicateKeeps
  <1>6. ASSUME NEW l \in Lines, NEW ignored \in BOOLEAN, Ignore(l, ignored)
        PROVE  BankInv' /\ EvidenceKept
    BY <1>6, IgnoreKeeps
  <1>7. ASSUME NEW j \in Journals, NEW series \in {"DOCUMENT", "JV"}, NEW day \in Days,
               NEW a \in Amounts, PostBook(j, series, day, a)
        PROVE  BankInv' /\ EvidenceKept
    BY <1>7, PostBookKeeps
  <1>8. ASSUME NEW j \in Journals, ReverseSource(j)
        PROVE  BankInv' /\ EvidenceKept
    BY <1>8, ReverseSourceKeeps
  <1>9. ASSUME NEW j \in Journals, ReverseByHand(j)
        PROVE  BankInv' /\ EvidenceKept
    BY <1>9, ReverseByHandKeeps
  <1>10. ASSUME NEW m \in Matches, Unmatch(m)
         PROVE  BankInv' /\ EvidenceKept
    BY <1>10, UnmatchKeeps
  <1>11. ASSUME NEW m \in Matches, ReverseCreated(m)
         PROVE  BankInv' /\ EvidenceKept
    BY <1>11, ReverseCreatedKeeps
  <1>12. ASSUME NEW m \in Matches, Verify(m)
         PROVE  BankInv' /\ EvidenceKept
    BY <1>12, VerifyKeeps
  <1>13. ASSUME NEW m \in Matches, DeleteMatch(m)
         PROVE  BankInv' /\ EvidenceKept
    BY <1>13, DeleteMatchKeeps
  <1>14. ASSUME NEW m \in Matches, NEW l \in Lines, NEW j \in Journals, NEW a \in Amounts,
                Allocate(m, l, j, a)
         PROVE  BankInv' /\ EvidenceKept
    BY <1>14, AllocateKeeps
  <1>15. ASSUME NEW m \in Matches, NEW l \in Lines, NEW j \in Journals, NEW a \in Amounts,
                MatchDocument(m, l, j, a)
         PROVE  BankInv' /\ EvidenceKept
    BY <1>15, MatchDocumentKeeps
  <1>16. ASSUME NEW m \in Matches, NEW l \in Lines, NEW j \in Journals, CreateEntry(m, l, j)
         PROVE  BankInv' /\ EvidenceKept
    BY <1>16, CreateEntryKeeps
  <1>17. ASSUME NEW m \in Matches, NEW l \in Lines, NEW j \in Journals,
                CreateFromBank(m, l, j) \/ Categorize(m, l, j)
         PROVE  BankInv' /\ EvidenceKept
    BY <1>17, BookWholeKeeps DEF CreateFromBank, Categorize
  <1>18. ASSUME NEW cutoff \in Days, Complete(cutoff)
         PROVE  BankInv' /\ EvidenceKept
    BY <1>18, CompleteKeeps
  <1>19. CASE Reopen
    BY <1>19, ReopenKeeps
  <1> QED
    BY <1>1, <1>2, <1>3, <1>4, <1>5, <1>6, <1>7, <1>8, <1>9, <1>10, <1>11, <1>12, <1>13,
       <1>14, <1>15, <1>16, <1>17, <1>18, <1>19 DEF BankNext

\* The invariant of a bank account: types, rows of posted journals, lines and journals
\* that tie to their allocations, and sessions that stand.
THEOREM BankInvariant == BankSpec => []BankInv
  <1>1. BankInv /\ [BankNext]_bankVars => BankInv'
    BY StepBank
  <1> QED
    BY <1>1, InitBank, PTL DEF BankSpec

\* Every line, journal, match and session of an account is well typed in every state
\* that the two generations of handlers reach.
THEOREM BankTypes == BankSpec => []BankTypeOK
  <1>1. BankInv => BankTypeOK
    BY DEF BankInv
  <1> QED
    BY <1>1, BankInvariant, PTL

\* The status of a statement line tells what is allocated to it, whichever generation
\* of handlers wrote it, for any number of lines, journals and matches.
THEOREM StatusTellsAllocation == BankSpec => []StatementTies
  <1>1. BankInv => StatementTies
    BY DEF BankInv, LineOK, LineTies, StatementTies
  <1> QED
    BY <1>1, BankInvariant, PTL

\* No line is allocated more than its amount, no journal more than it moved, and no
\* source reversal takes a journal from under an allocation.
THEOREM MoneyIsMatchedOnce == BankSpec => []AllocationsStand
  <1>1. BankInv => AllocationsStand
    BY DEF BankInv, LineOK, JournalOK, AllocationsStand
  <1> QED
    BY <1>1, BankInvariant, PTL

\* What a completed session covers stays resolved: allocated whole, or the duplicate of
\* a covered line that is.
THEOREM SessionsStayResolved == BankSpec => []CompletedResolved
  <1>1. ASSUME BankInv
        PROVE  CompletedResolved
    <2>1. BankTypeOK /\ completed \subseteq Days /\ SessionsStand
      BY <1>1 DEF BankInv, BankTypeOK
    <2>2. ASSUME NEW l \in Lines, Present(l), Closed(l)
          PROVE  /\ Original(l) # NoLine
                 /\ Closed(Original(l))
                 /\ Status(Original(l)) \in {"MATCHED", "RECONCILED"}
                 /\ Allocated(Original(l)) = LineAmount
      <3>1. PICK c \in completed : DayOf[l] <= c
        BY <2>1, <2>2, ThroughCovers
      <3>2. AnswersFor(Original(l), c)
        BY <2>1, <2>2, <3>1 DEF SessionsStand
      <3>3. Original(l) \in Lines /\ Closed(Original(l))
        BY <2>1, <3>2, ThroughCovers DEF AnswersFor
      <3> QED
        BY <3>2, <3>3, BankAssumption DEF AnswersFor
    <2> QED
      BY <2>2 DEF CompletedResolved, Original
  <1> QED
    BY <1>1, BankInvariant, PTL

\* While a completed session covers a line, no handler changes whether it exists, of
\* what it is a duplicate, or its allocations.
THEOREM EvidenceStands == BankSpec => CompletedStands
  <1>1. BankInv /\ [BankNext]_bankVars =>
            [\A l \in Lines : Closed(l) /\ Closed(l)' => Evidence(l)' = Evidence(l)]_bankVars
    BY StepBank DEF EvidenceKept
  <1> QED
    BY <1>1, BankInvariant, PTL DEF BankSpec, CompletedStands
==============================================================================

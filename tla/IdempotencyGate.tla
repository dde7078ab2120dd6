---------------------------- MODULE IdempotencyGate ----------------------------
(***************************************************************************)
(* The way of a financial command from the browser to its one effect:      *)
(* ApiClient.request keeps an idempotency key for every mutation whose      *)
(* outcome it does not know, and idempotencyMiddleware runs the handler,    *)
(* the record of the key and the stored answer in one transaction.          *)
(*                                                                         *)
(* A request is a small sequential program (its position is at[r]) whose    *)
(* steps are SQL statements and awaits of the code.  Its number is free for *)
(* another request once it is answered or cut off.  What a request has not  *)
(* committed is its own: the row of api_idempotency_keys it inserted is     *)
(* holder[k], the statements of its handler are work[r].                    *)
(***************************************************************************)
EXTENDS Naturals, FiniteSets

CONSTANTS
    Intents,      \* what users want done: a body sent to a route, by a user
    BodyOf,       \* organization, method, path and body of an intent
    UserOf,       \* its user
    Bodies, Users,
    Registered,   \* bodies for routes that RoutePermissionRegistry lists
    BankBodies,   \* bodies for routes under the bank-movement advisory lock
    Silent,       \* bodies whose handler answers without res.json
    Keys,         \* Idempotency-Key values
    CallerKeys,   \* those that callers pass in themselves
    Requests,     \* requests that may be under way at once
    Steps,        \* bound: statements of a handler
    OneAtATime,   \* the form does not send a body again while it waits
    MayDeny,      \* sessions end and permissions change
    MaxFaults,    \* bound: refusals, failures and cut connections
    NoKey, NoRequest, NoIntent

ASSUME GateAssumption ==
    /\ BodyOf \in [Intents -> Bodies]
    /\ UserOf \in [Intents -> Users]
    /\ \A i, j \in Intents :
          BodyOf[i] = BodyOf[j] /\ UserOf[i] = UserOf[j] => i = j
    /\ IsFiniteSet(Keys)
    /\ CallerKeys \subseteq Keys
    /\ NoKey \notin Keys
    /\ NoRequest \notin Requests
    /\ NoIntent \notin Intents
    /\ Steps \in Nat \ {0}
    /\ OneAtATime \in BOOLEAN
    /\ MayDeny \in BOOLEAN
    /\ MaxFaults \in Nat

VARIABLES
    store,      \* api_idempotency_keys, what is committed of it
    holder,     \* the request whose insert of a key is not committed
    performed,  \* committed statements of the command of a key
    bank,       \* the request that holds the advisory lock
    at,         \* where each request stands
    cmd,        \* the intent it was sent for
    key,        \* the key it was sent with
    work,       \* statements of its handler that are not committed
    answer,     \* the answer it is about to get
    listening,  \* whether the browser still waits for that answer
    pending,    \* the key the browser keeps for a body
    issued,     \* history: the body a key was first sent with
    satisfied,  \* intents whose user has seen a success
    strays,     \* history: keys given up that carried an intent, or still might
    effects,    \* history: times an intent was carried out
    denied,     \* the session or the permission is gone at present
    faults

vars == <<store, holder, performed, bank, at, cmd, key, work, answer,
          listening, pending, issued, satisfied, strays, effects, denied, faults>>

database == <<store, holder, performed, bank, effects>>
browser == <<pending, issued, satisfied, strays>>

NoRecord == [intent |-> NoIntent, guarded |-> FALSE, verdict |-> "none"]

Record == [intent : Intents, guarded : BOOLEAN, verdict : {"ok", "refused"}]

Places == {"idle", "sent", "admitted", "lookup", "insert", "running",
           "finishing", "answering", "hung"}

Answers == {"none", "ok", "refused", "conflict", "denied", "busy", "error"}

TypeOK ==
    /\ store \in [Keys -> Record \cup {NoRecord}]
    /\ holder \in [Keys -> Requests \cup {NoRequest}]
    /\ performed \in [Keys -> Nat]
    /\ bank \in Requests \cup {NoRequest}
    /\ at \in [Requests -> Places]
    /\ cmd \in [Requests -> Intents \cup {NoIntent}]
    /\ key \in [Requests -> Keys \cup {NoKey}]
    /\ \A r \in Requests :
          at[r] # "idle" => cmd[r] \in Intents /\ key[r] \in Keys
    /\ work \in [Requests -> 0 .. Steps]
    /\ answer \in [Requests -> Answers]
    /\ listening \in [Requests -> BOOLEAN]
    /\ pending \in [Bodies -> Keys \cup {NoKey}]
    /\ issued \in [Keys -> Intents \cup {NoIntent}]
    /\ satisfied \in [Intents -> BOOLEAN]
    /\ strays \in [Intents -> SUBSET Keys]
    /\ effects \in [Intents -> Nat]
    /\ denied \in BOOLEAN
    /\ faults \in Nat

Init ==
    /\ store = [k \in Keys |-> NoRecord]
    /\ holder = [k \in Keys |-> NoRequest]
    /\ performed = [k \in Keys |-> 0]
    /\ bank = NoRequest
    /\ at = [r \in Requests |-> "idle"]
    /\ cmd = [r \in Requests |-> NoIntent]
    /\ key = [r \in Requests |-> NoKey]
    /\ work = [r \in Requests |-> 0]
    /\ answer = [r \in Requests |-> "none"]
    /\ listening = [r \in Requests |-> FALSE]
    /\ pending = [b \in Bodies |-> NoKey]
    /\ issued = [k \in Keys |-> NoIntent]
    /\ satisfied = [i \in Intents |-> FALSE]
    /\ strays = [i \in Intents |-> {}]
    /\ effects = [i \in Intents |-> 0]
    /\ denied = FALSE
    /\ faults = 0

Body(r) == BodyOf[cmd[r]]

Fault == faults < MaxFaults /\ faults' = faults + 1

-----------------------------------------------------------------------------
(* The browser: ApiClient.request.                                           *)

\* Variants with a mistake: an answer that says the command is still being
\* processed ends the matter; an answer that refuses the command does not.
DefinitiveHasty == {"ok", "refused", "conflict", "denied", "busy"}
DefinitiveStubborn == {"ok", "conflict", "denied"}

\* The answers after which the browser forgets the key: a status below 500 that
\* is not the 409 of a command in progress.
Definitive == {"ok", "refused", "conflict", "denied"}

\* The keys under which intent i was carried out, or by a request under way
\* still may be.
Live(i) ==
    {k \in Keys : \/ store[k].intent = i /\ store[k].verdict = "ok"
                 \/ /\ store[k] = NoRecord
                    /\ \E r \in Requests : /\ at[r] \notin {"idle", "answering", "hung"}
                                          /\ cmd[r] = i
                                          /\ key[r] = k}

\* The kept key of body b is given up, although its command is done or may be.
Strand(b) ==
    strays' = [i \in Intents |->
                 IF BodyOf[i] = b /\ pending[b] \in Live(i) /\ ~satisfied'[i]
                 THEN strays[i] \cup {pending[b]}
                 ELSE strays[i]]

\* Whether answer a to r says nothing of the command of the kept key: a denial
\* or a conflict, which come from a check and not from the handler, or an answer
\* to a request with another key.
Beside(r, a) ==
    a \in {"denied", "conflict"} \/ (a \in Definitive /\ key[r] # pending[Body(r)])

\* What the browser does with answer a to request r.
Hear(r, a) ==
    /\ pending' = IF a \in Definitive
                  THEN [pending EXCEPT ![Body(r)] = NoKey]
                  ELSE pending
    /\ satisfied' = IF a = "ok" THEN [satisfied EXCEPT ![cmd[r]] = TRUE] ELSE satisfied
    /\ IF Beside(r, a) THEN Strand(Body(r)) ELSE UNCHANGED strays
    /\ UNCHANGED issued

\* The kept key of the body, or else a new UUID.
OwnKeys(b) ==
    IF pending[b] # NoKey
    THEN {pending[b]}
    ELSE {k \in Keys \ CallerKeys : issued[k] = NoIntent}

FormIsFree(b) == \A r \in Requests : listening[r] => Body(r) # b

SendWith(r, i, k) ==
    /\ at[r] = "idle"
    /\ ~satisfied[i]
    /\ OneAtATime => FormIsFree(BodyOf[i])
    /\ at' = [at EXCEPT ![r] = "sent"]
    /\ cmd' = [cmd EXCEPT ![r] = i]
    /\ key' = [key EXCEPT ![r] = k]
    /\ listening' = [listening EXCEPT ![r] = TRUE]
    /\ pending' = [pending EXCEPT ![BodyOf[i]] = k]
    /\ issued' = IF issued[k] = NoIntent THEN [issued EXCEPT ![k] = i] ELSE issued
    /\ UNCHANGED satisfied
    /\ IF k # pending[BodyOf[i]] THEN Strand(BodyOf[i]) ELSE UNCHANGED strays
    /\ UNCHANGED <<database, work, answer, denied, faults>>

Send(r, i) == \E k \in OwnKeys(BodyOf[i]) : SendWith(r, i, k)

\* A caller names the key itself: the header comes before the kept key.
SendKeyed(r, i) == \E k \in CallerKeys : SendWith(r, i, k)

\* The browser stops waiting, and the server goes on.
Drop(r) ==
    /\ listening[r]
    /\ Fault
    /\ listening' = [listening EXCEPT ![r] = FALSE]
    /\ UNCHANGED <<database, browser, at, cmd, key, work, answer, denied>>

-----------------------------------------------------------------------------
(* The server: authMiddleware, then idempotencyMiddleware.                   *)

\* The end of the transaction of r, committed or not, frees what it locked.
EndTransaction(r) ==
    /\ holder' = [k \in Keys |-> IF holder[k] = r THEN NoRequest ELSE holder[k]]
    /\ bank' = IF bank = r THEN NoRequest ELSE bank
    /\ work' = [work EXCEPT ![r] = 0]

AnswerWith(r, a) ==
    /\ at' = [at EXCEPT ![r] = "answering"]
    /\ answer' = [answer EXCEPT ![r] = a]
    /\ UNCHANGED <<cmd, key, listening>>

MoveTo(r, place) ==
    /\ at' = [at EXCEPT ![r] = place]
    /\ UNCHANGED <<cmd, key, listening>>

\* Session and route permissions, before the transaction.
Admit(r) ==
    /\ at[r] = "sent"
    /\ IF denied THEN AnswerWith(r, "denied")
                 ELSE MoveTo(r, "admitted") /\ UNCHANGED answer
    /\ UNCHANGED <<database, browser, work, denied, faults>>

\* BEGIN, and for bank movements the advisory lock of the organization.
Begin(r) ==
    /\ at[r] = "admitted"
    /\ Body(r) \in BankBodies => bank = NoRequest
    /\ bank' = IF Body(r) \in BankBodies THEN r ELSE bank
    /\ MoveTo(r, "lookup")
    /\ UNCHANGED <<store, holder, performed, effects, browser, work, answer,
                   denied, faults>>

\* The variant replays the stored answer to other users with the same body.
VerdictAnyUser(record, r) ==
    IF BodyOf[record.intent] # Body(r) THEN "conflict"
    ELSE IF ~record.guarded \/ denied THEN "denied"
    ELSE record.verdict

\* What the stored record says to a request with its key, in the order of the
\* checks: another body, another user, no permissions recorded, no permission.
Verdict(record, r) ==
    IF BodyOf[record.intent] # Body(r) THEN "conflict"
    ELSE IF \/ UserOf[record.intent] # UserOf[cmd[r]]
            \/ ~record.guarded
            \/ denied
         THEN "denied"
    ELSE record.verdict

\* SELECT ... FOR UPDATE sees committed rows only.
Lookup(r) ==
    /\ at[r] = "lookup"
    /\ IF store[key[r]] = NoRecord
       THEN MoveTo(r, "insert") /\ UNCHANGED <<holder, bank, work, answer>>
       ELSE EndTransaction(r) /\ AnswerWith(r, Verdict(store[key[r]], r))
    /\ UNCHANGED <<store, performed, effects, browser, denied, faults>>

\* The variant has no unique index on organization and key.
KeyTakenNever(r) == FALSE

\* The unique index on organization and key.
KeyTaken(r) == store[key[r]] # NoRecord

\* INSERT ... 'PROCESSING' waits for the transaction that inserted the same
\* key, and fails with 23505 when that one has committed.
Insert(r) ==
    /\ at[r] = "insert"
    /\ holder[key[r]] = NoRequest
    /\ IF KeyTaken(r)
       THEN EndTransaction(r) /\ AnswerWith(r, "busy")
       ELSE /\ holder' = [holder EXCEPT ![key[r]] = r]
            /\ MoveTo(r, "running")
            /\ UNCHANGED <<bank, work, answer>>
    /\ UNCHANGED <<store, performed, effects, browser, denied, faults>>

Statement(r) ==
    /\ at[r] = "running"
    /\ work[r] < Steps
    /\ work' = [work EXCEPT ![r] = @ + 1]
    /\ UNCHANGED <<database, browser, at, cmd, key, answer, listening, denied, faults>>

\* The handler is done and calls res.json ...
Reply(r) ==
    /\ at[r] = "running"
    /\ work[r] = Steps
    /\ Body(r) \notin Silent
    /\ at' = [at EXCEPT ![r] = "finishing"]
    /\ answer' = [answer EXCEPT ![r] = "ok"]
    /\ UNCHANGED <<database, browser, cmd, key, work, listening, denied, faults>>

\* ... or ends the response without it, as deleteTimeEntry does: the browser
\* has its 204, and the promise that the transaction waits for never resolves.
ReplySilently(r) ==
    /\ at[r] = "running"
    /\ work[r] = Steps
    /\ Body(r) \in Silent
    /\ at' = [at EXCEPT ![r] = "hung"]
    /\ listening' = [listening EXCEPT ![r] = FALSE]
    /\ IF listening[r] THEN Hear(r, "ok") ELSE UNCHANGED browser
    /\ UNCHANGED <<database, cmd, key, work, answer, denied, faults>>

\* The handler refuses with a status below 500.  What it has written stays and is
\* committed with the record, except for what it did in a nested transaction of
\* its own that the refusal rolled back to its savepoint.
Refuse(r) ==
    /\ at[r] = "running"
    /\ Fault
    /\ at' = [at EXCEPT ![r] = "finishing"]
    /\ answer' = [answer EXCEPT ![r] = "refused"]
    /\ \E kept \in 0 .. work[r] : work' = [work EXCEPT ![r] = kept]
    /\ UNCHANGED <<database, browser, cmd, key, listening, denied>>

\* The row as the UPDATE to COMPLETED leaves it.
Recorded(r) == [intent |-> cmd[r], guarded |-> Body(r) \in Registered,
                verdict |-> answer[r]]

\* COMMIT of the record, the stored answer and the handler's statements.
CommitAll(r) ==
    /\ at[r] = "finishing"
    /\ store' = [store EXCEPT ![key[r]] = Recorded(r)]
    /\ performed' = [performed EXCEPT ![key[r]] = @ + work[r]]
    /\ effects' = IF answer[r] = "ok"
                  THEN [effects EXCEPT ![cmd[r]] = @ + 1]
                  ELSE effects
    /\ EndTransaction(r)

Commit(r) ==
    /\ CommitAll(r)
    /\ AnswerWith(r, answer[r])
    /\ UNCHANGED <<browser, denied, faults>>

\* The connection breaks during COMMIT: done, and reported as an error.
CommitUnheard(r) ==
    /\ CommitAll(r)
    /\ Fault
    /\ AnswerWith(r, "error")
    /\ UNCHANGED <<browser, denied>>

\* A database error, a 5xx of the handler or of the permission check.
Fail(r) ==
    /\ at[r] \in {"sent", "admitted", "lookup", "insert", "running", "finishing"}
    /\ Fault
    /\ EndTransaction(r)
    /\ AnswerWith(r, "error")
    /\ UNCHANGED <<store, performed, effects, browser, denied>>

Free(r) ==
    /\ at' = [at EXCEPT ![r] = "idle"]
    /\ cmd' = [cmd EXCEPT ![r] = NoIntent]
    /\ key' = [key EXCEPT ![r] = NoKey]
    /\ answer' = [answer EXCEPT ![r] = "none"]
    /\ listening' = [listening EXCEPT ![r] = FALSE]

Respond(r) ==
    /\ at[r] = "answering"
    /\ Free(r)
    /\ IF listening[r] THEN Hear(r, answer[r]) ELSE UNCHANGED browser
    /\ UNCHANGED <<database, work, denied, faults>>

\* The request is lost on its way, or the server process stops: what it has not
\* committed is rolled back, and the browser sees a network failure.
Cut(r) ==
    /\ at[r] # "idle"
    /\ Fault
    /\ EndTransaction(r)
    /\ Free(r)
    /\ UNCHANGED <<store, performed, effects, browser, denied>>

\* The session ends or begins again, a permission is taken or given back.
Redecide ==
    /\ MayDeny
    /\ Fault
    /\ denied' = ~denied
    /\ UNCHANGED <<database, browser, at, cmd, key, work, answer, listening>>

-----------------------------------------------------------------------------
ServerStep(r) ==
    \/ Admit(r) \/ Begin(r) \/ Lookup(r) \/ Insert(r) \/ Statement(r) \/ Reply(r)
    \/ ReplySilently(r) \/ Commit(r) \/ Respond(r)

Mishap(r) == Drop(r) \/ Refuse(r) \/ CommitUnheard(r) \/ Fail(r) \/ Cut(r)

Next ==
    \/ \E r \in Requests, i \in Intents : Send(r, i) \/ SendKeyed(r, i)
    \/ \E r \in Requests : ServerStep(r) \/ Mishap(r)
    \/ Redecide

Spec == Init /\ [][Next]_vars

\* The server works on every request, its waiters get their lock in turn, and
\* the user asks again until there is a success.
FairSpec ==
    /\ Spec
    /\ \A r \in Requests : WF_vars(ServerStep(r)) /\ SF_vars(Begin(r))
    /\ \A i \in Intents : WF_vars(\E r \in Requests : Send(r, i))

-----------------------------------------------------------------------------
\* A user who is told that a command succeeded can rely on it where the handler
\* answers with res.json: it was carried out, for this user and with this body,
\* and not just for somebody's key.
TruthfulSuccess ==
    \A i \in Intents : satisfied[i] /\ BodyOf[i] \notin Silent => effects[i] >= 1

\* A retried command is carried out once: no lost answer, error, restart or
\* "already being processed" has the browser post it again.  Each further effect
\* goes back to a key the browser gave up although its command was done or under
\* way: after a denial or a conflict, which say nothing of the handler, after the
\* late answer to another key, or for a key that a caller brought along.
RepeatsExplained == \A i \in Intents : effects[i] <= 1 + Cardinality(strays[i])

\* A user who repeats a command whose outcome is unknown gets there in the end:
\* no request waits for ever for the key or the bank lock, and no stored refusal
\* stands in the way of a later attempt.
Resolves == \A i \in Intents : <>satisfied[i]

\* The gate implements the promise of idempotency keys: each key sees one
\* command carried out whole, or refused with what its handler left, in one
\* step with its outcome, and none after that.
OutcomeOf(record) ==
    IF record = NoRecord
    THEN [command |-> "none", verdict |-> "pending"]
    ELSE [command |-> record.intent, verdict |-> record.verdict]

Ledger == INSTANCE CommandLedger WITH
              Commands <- Intents,
              Whole <- Steps,
              outcome <- [k \in Keys |-> OutcomeOf(store[k])]

LedgerSpec == Ledger!Spec
===============================================================================

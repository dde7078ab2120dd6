------------------------------ MODULE Approvals ------------------------------
(***************************************************************************)
(* Approval of documents before they are posted                            *)
(* (approvals/ApprovalWorkflowService.ts, DocumentLifecycleHelper.ts and   *)
(* the handlers that call them).  A request carries the hash of the        *)
(* document as it was submitted; an approver decides it; an edit or a void *)
(* of the document rejects every request still open; posting consumes the  *)
(* latest request, which must be approved and carry the present hash.      *)
(*                                                                         *)
(* Every call is one transaction of PostgreSQL at READ COMMITTED.  Rows    *)
(* are locked one after the other (SELECT ... FOR UPDATE, or the row locks *)
(* of an UPDATE) and stay locked until the call commits or is rolled back. *)
(* A decision locks the request first and then the document, the other     *)
(* calls the document first: they can wait for each other in a ring, which *)
(* PostgreSQL breaks by rolling one of them back.                          *)
(*                                                                         *)
(* A document is its status and its version: two versions never have one   *)
(* hash.  Roles, thresholds, amounts and period locks only decide whether  *)
(* a call is refused, so Refuse is free to happen.  What a call changes is *)
(* visible to others when it commits, hence the writes are in the action   *)
(* that commits; what a call has read before stays in its record.          *)
(***************************************************************************)
EXTENDS Naturals, FiniteSets

CONSTANTS Docs,         \* invoices, payments or manual journals
          Requests,     \* rows of approval_requests, used or not yet used
          Calls,        \* calls in progress at one time, of any server process
          NoRow,        \* no row, or nobody who holds one
          MaxVersion,   \* bound: edits of a document
          Stamps        \* bound: values of submitted_at, read from any server's clock

ASSUME RowsAssumption == /\ NoRow \notin Docs \cup Requests \cup Calls
                         /\ Docs \cap Requests = {}
ASSUME BoundsAssumption == MaxVersion \in Nat /\ Stamps \subseteq Nat

VARIABLES docs,       \* committed documents: status and version
          requests,   \* committed approval_requests
          calls,      \* per call: what it does, the row it was asked for, what it has read
          locks,      \* the call that holds the lock of a row
          posted      \* history: the version a document had when it was posted

vars == <<docs, requests, calls, locks, posted>>

Rows == Docs \cup Requests
Versions == 0..MaxVersion
\* Variant: a posting does not look whether the document is posted.
UnpostedOrNot == {"DRAFT", "SUBMITTED", "POSTED"}
Unposted == {"DRAFT", "SUBMITTED"}
\* Variant: an edit takes back only what is not decided yet.
ActiveUndecided == {"SUBMITTED"}
Active == {"SUBMITTED", "APPROVED"}
OnDocument == {"submit", "edit", "void", "post"}
OnRequest == {"approve", "reject"}

Idle == [op |-> "idle", doc |-> NoRow, req |-> NoRow, seen |-> "none", rows |-> {}]

Init ==
    /\ docs = [d \in Docs |-> [status |-> "none", version |-> 0]]
    /\ requests = [r \in Requests |-> [status |-> "none", doc |-> NoRow, hash |-> 0, at |-> 0]]
    /\ calls = [c \in Calls |-> Idle]
    /\ locks = [x \in Rows |-> NoRow]
    /\ posted = [d \in Docs |-> NoRow]

RequestsOf(d) == {r \in Requests : requests[r].status # "none" /\ requests[r].doc = d}

\* ORDER BY submitted_at DESC LIMIT 1: of several with the latest stamp, any.
Latest(d) == {r \in RequestsOf(d) : \A q \in RequestsOf(d) : requests[q].at <= requests[r].at}

\* The end of a transaction, committed or rolled back, frees its rows.
Freed(c) == [x \in Rows |-> IF locks[x] = c THEN NoRow ELSE locks[x]]

Submitted(d, v, at) == [status |-> "SUBMITTED", doc |-> d, hash |-> v, at |-> at]

------------------------------------------------------------------------------
(* Calls begin.                                                             *)

\* A document is saved as a draft, or with its first request where a rule asks
\* for approval: new rows, which nobody else can see or lock before the commit.
Create(d) ==
    /\ docs[d].status = "none"
    /\ \/ /\ docs' = [docs EXCEPT ![d] = [status |-> "DRAFT", version |-> 0]]
          /\ UNCHANGED requests
       \/ /\ docs' = [docs EXCEPT ![d] = [status |-> "SUBMITTED", version |-> 0]]
          /\ \E r \in Requests, at \in Stamps :
                /\ requests[r].status = "none"
                /\ requests' = [requests EXCEPT ![r] = Submitted(d, 0, at)]
    /\ UNCHANGED <<calls, locks, posted>>

\* A call that names a document: POST /approvals/request, an edit, a void, a posting.
AskDocument(c, op, d) ==
    /\ calls[c] = Idle
    /\ docs[d].status # "none"
    /\ calls' = [calls EXCEPT ![c] = [op |-> op, doc |-> d, req |-> NoRow, seen |-> "none", rows |-> {d}]]
    /\ UNCHANGED <<docs, requests, locks, posted>>

\* A call that names a request: the entity of a request never changes.
AskRequest(c, op, r) ==
    /\ calls[c] = Idle
    /\ requests[r].status # "none"
    /\ calls' = [calls EXCEPT ![c] = [op |-> op, doc |-> requests[r].doc, req |-> r, seen |-> "none", rows |-> {r}]]
    /\ UNCHANGED <<docs, requests, locks, posted>>

------------------------------------------------------------------------------
(* Row locks.                                                               *)

\* The rows a call has come to and does not hold: it waits for one of them.
Wanted(c) == {x \in calls[c].rows : locks[x] # c}

\* The call reads its document and goes on to more rows.
Come(c, r, rows) ==
    [op |-> calls[c].op, doc |-> calls[c].doc, req |-> r,
     seen |-> docs[calls[c].doc].status, rows |-> calls[c].rows \cup rows]

\* The document is locked and read.  An edit or a void goes on to the UPDATE of
\* the requests its snapshot shows open, a posting to the SELECT of the latest.
LockDocument(c) ==
    LET d == calls[c].doc
        r == calls[c].req
    IN  /\ calls[c].op \in OnDocument \cup {"approve"}
        /\ d \in Wanted(c)
        /\ locks[d] = NoRow
        /\ locks' = [locks EXCEPT ![d] = c]
        /\ \/ /\ calls[c].op \in {"submit", "approve"} \/ (calls[c].op = "post" /\ Latest(d) = {})
              /\ calls' = [calls EXCEPT ![c] = Come(c, r, {})]
           \/ /\ calls[c].op \in {"edit", "void"}
              /\ calls' = [calls EXCEPT ![c] = Come(c, r, {q \in RequestsOf(d) : requests[q].status \in Active})]
           \/ /\ calls[c].op = "post"
              /\ \E q \in Latest(d) : calls' = [calls EXCEPT ![c] = Come(c, q, {q})]
        /\ UNCHANGED <<docs, requests, posted>>

\* A request is locked.  An approval reads it and goes on to its document only
\* when it is still SUBMITTED.
LockRequest(c, r) ==
    /\ r \in Wanted(c)
    /\ locks[r] = NoRow
    /\ locks' = [locks EXCEPT ![r] = c]
    /\ IF calls[c].op = "approve" /\ requests[r].status = "SUBMITTED"
       THEN calls' = [calls EXCEPT ![c].rows = calls[c].rows \cup {calls[c].doc}]
       ELSE UNCHANGED calls
    /\ UNCHANGED <<docs, requests, posted>>

------------------------------------------------------------------------------
(* Calls end.                                                               *)

Ready(c, op) == calls[c].op = op /\ Wanted(c) = {}

\* The rows of a call are free and its record is gone.
Ended(c) == locks' = Freed(c) /\ calls' = [calls EXCEPT ![c] = Idle]

\* submitForApproval on its own: neither the status of the document nor a
\* request already open matters.  The stamp was taken before the wait.
Submit(c) ==
    /\ Ready(c, "submit")
    /\ \E r \in Requests, at \in Stamps :
          /\ requests[r].status = "none"
          /\ requests' = [requests EXCEPT ![r] = Submitted(calls[c].doc, docs[calls[c].doc].version, at)]
    /\ Ended(c)
    /\ UNCHANGED <<docs, posted>>

\* approveRequestById: the document is the one that was submitted.
Approve(c) ==
    LET r == calls[c].req
    IN  /\ Ready(c, "approve")
        /\ calls[c].doc \in calls[c].rows
        /\ requests[r].hash = docs[calls[c].doc].version
        /\ requests' = [requests EXCEPT ![r].status = "APPROVED"]
        /\ Ended(c)
        /\ UNCHANGED <<docs, posted>>

Reject(c) ==
    /\ Ready(c, "reject")
    /\ requests[calls[c].req].status = "SUBMITTED"
    /\ requests' = [requests EXCEPT ![calls[c].req].status = "REJECTED"]
    /\ Ended(c)
    /\ UNCHANGED <<docs, posted>>

\* invalidateApproval: PostgreSQL looks at a row again after it waited for it.
Invalidated(c) ==
    [r \in Requests |-> IF r \in calls[c].rows /\ requests[r].status \in Active
                        THEN [requests[r] EXCEPT !.status = "REJECTED"] ELSE requests[r]]

\* A document in any status but VOIDED takes another version.
Edit(c) ==
    LET d == calls[c].doc
    IN  /\ Ready(c, "edit")
        /\ calls[c].seen # "VOIDED"
        /\ docs[d].version < MaxVersion
        /\ docs' = [docs EXCEPT ![d].version = docs[d].version + 1]
        /\ requests' = Invalidated(c)
        /\ Ended(c)
        /\ UNCHANGED posted

\* A posted document is voided or reversed.
Void(c) ==
    /\ Ready(c, "void")
    /\ calls[c].seen = "POSTED"
    /\ docs' = [docs EXCEPT ![calls[c].doc].status = "VOIDED"]
    /\ requests' = Invalidated(c)
    /\ Ended(c)
    /\ UNCHANGED posted

\* postApproved...: consumeApproval takes the latest request if it is approved
\* and was approved for what the document says now.
Consumable(c) ==
    LET r == calls[c].req
    IN  /\ r # NoRow
        /\ requests[r].status = "APPROVED"
        /\ requests[r].hash = docs[calls[c].doc].version

Post(c) ==
    LET d == calls[c].doc
    IN  /\ Ready(c, "post")
        /\ calls[c].seen \in Unposted
        /\ Consumable(c)
        /\ requests' = [requests EXCEPT ![calls[c].req].status = "CONSUMED"]
        /\ docs' = [docs EXCEPT ![d].status = "POSTED"]
        /\ posted' = [posted EXCEPT ![d] = docs[d].version]
        /\ Ended(c)

\* Variant: the connection of a refused call goes back to the pool without ROLLBACK.
RefuseOpen(c) ==
    /\ calls[c] # Idle
    /\ Wanted(c) = {}
    /\ calls' = [calls EXCEPT ![c] = Idle]
    /\ UNCHANGED <<docs, requests, locks, posted>>

\* A call whose turn it is fails: a check above or one that is not modelled
\* (role, self-approval, amount, period lock) throws and all is rolled back.
Refuse(c) ==
    /\ calls[c] # Idle
    /\ Wanted(c) = {}
    /\ Ended(c)
    /\ UNCHANGED <<docs, requests, posted>>

\* A ring of calls, each of which waits for a row that the next one holds.
WaitsFor(c, b) == \E x \in Wanted(c) : locks[x] = b
InRing(c) == \E ring \in SUBSET Calls :
    /\ c \in ring
    /\ \A a \in ring : (\E b \in ring : WaitsFor(a, b)) /\ (\E b \in ring : WaitsFor(b, a))

\* deadlock_timeout: PostgreSQL rolls a call of the ring back.
BreakRing(c) ==
    /\ InRing(c)
    /\ Ended(c)
    /\ UNCHANGED <<docs, requests, posted>>

\* The connection or the process of a call is lost, or its statement times out.
Lose(c) ==
    /\ calls[c] # Idle
    /\ Ended(c)
    /\ UNCHANGED <<docs, requests, posted>>

------------------------------------------------------------------------------
Advance(c) ==
    \/ LockDocument(c)
    \/ \E r \in Requests : LockRequest(c, r)
    \/ Submit(c) \/ Approve(c) \/ Reject(c) \/ Edit(c) \/ Void(c) \/ Post(c) \/ Refuse(c)

Next ==
    \/ \E d \in Docs : Create(d)
    \/ \E c \in Calls :
          \/ \E d \in Docs, op \in OnDocument : AskDocument(c, op, d)
          \/ \E r \in Requests, op \in OnRequest : AskRequest(c, op, r)
          \/ Advance(c)
          \/ BreakRing(c)
          \/ Lose(c)

Spec == Init /\ [][Next]_vars

\* PostgreSQL queues the transactions that wait for a row, so none is passed
\* over for ever, and its deadlock detector runs for every one that waits.
Fairness == \A c \in Calls : SF_vars(Advance(c)) /\ WF_vars(BreakRing(c))
FairSpec == Spec /\ Fairness

------------------------------------------------------------------------------
(* Properties.                                                              *)

Call == [op : {"idle"} \cup OnDocument \cup OnRequest, doc : Docs \cup {NoRow}, req : Requests \cup {NoRow},
         seen : {"none", "DRAFT", "SUBMITTED", "POSTED", "VOIDED"}, rows : SUBSET Rows]

\* Shape of the state.
TypeOK ==
    /\ docs \in [Docs -> [status : {"none", "DRAFT", "SUBMITTED", "POSTED", "VOIDED"}, version : Versions]]
    /\ requests \in [Requests -> [status : {"none", "SUBMITTED", "APPROVED", "REJECTED", "CONSUMED"},
                                  doc : Docs \cup {NoRow}, hash : Versions, at : Stamps \cup {0}]]
    /\ calls \in [Calls -> Call]
    /\ locks \in [Rows -> Calls \cup {NoRow}]
    /\ posted \in [Docs -> Versions \cup {NoRow}]

\* invalidateApproval and approveRequestById, in whatever order their waits end:
\* a request that stands approved was approved for what its document says now.
GrantIsCurrent ==
    \A r \in Requests : requests[r].status = "APPROVED" => requests[r].hash = docs[requests[r].doc].version

\* consumeApproval: a document was posted at most once, on one consumed request,
\* in the version that request was approved for; nothing else consumes one.
PostedByGrant ==
    \A d \in Docs :
        LET spent == {r \in RequestsOf(d) : requests[r].status = "CONSUMED"}
        IN  IF docs[d].status \in {"POSTED", "VOIDED"}
            THEN \E r \in spent : spent = {r} /\ requests[r].hash = posted[d]
            ELSE spent = {}

\* A decision and an edit, a void or a posting lock the request and the document
\* in opposite orders; every call still ends.
CallsEnd == \A c \in Calls : (calls[c] # Idle) ~> (calls[c] = Idle)
==============================================================================

----------------------- MODULE ApprovalsAndJobsProofs -----------------------
(***************************************************************************)
(* Proofs about Approvals for any documents, requests, calls, stamps and   *)
(* number of edits: an approval stands only for the present content of its *)
(* document, and a document is posted once, on one request.  And about     *)
(* JobScheduler for any jobs, ticks, worker names and attempts: the shape  *)
(* of the rows and how often a job is claimed.  The two components share   *)
(* no state.                                                               *)
(***************************************************************************)
EXTENDS Approvals, JobScheduler, TLAPS

-----------------------------------------------------------------------------
(* Approvals: the documents and the calls.                                 *)

\* Who holds the lock of a row has come to that row.
LocksAreCalls == \A x \in Rows : locks[x] \in Calls => x \in calls[locks[x]].rows

\* A request that exists is for a document that exists.
RequestsAreOfDocs ==
    \A r \in Requests : requests[r].status # "none" =>
        /\ requests[r].doc \in Docs
        /\ docs[requests[r].doc].status # "none"

\* A call on a document is for one that exists.
OnDocumentOK(c) ==
    calls[c].op \in OnDocument =>
        /\ calls[c].doc \in Docs
        /\ calls[c].doc \in calls[c].rows
        /\ docs[calls[c].doc].status # "none"

\* A decision is about a request that exists and about its document.
OnRequestOK(c) ==
    calls[c].op \in OnRequest =>
        /\ calls[c].req \in Requests
        /\ calls[c].req \in calls[c].rows
        /\ requests[calls[c].req].status # "none"
        /\ calls[c].doc = requests[calls[c].req].doc
        /\ calls[c].rows \subseteq {calls[c].req, calls[c].doc}

\* An approval that has come to the document holds a request not yet decided.
ApproverOK(c) ==
    calls[c].op = "approve" /\ calls[c].doc \in calls[c].rows =>
        /\ locks[calls[c].req] = c
        /\ requests[calls[c].req].status = "SUBMITTED"

\* What a writer has read of the document it locked is what the document is.
WriterOK(c) ==
    calls[c].op \in {"edit", "void", "post"} /\ locks[calls[c].doc] = c =>
        calls[c].seen = docs[calls[c].doc].status

\* An edit or a void that holds its document has come to every open request of it.
CoversOpen(c) ==
    calls[c].op \in {"edit", "void"} /\ locks[calls[c].doc] = c =>
        \A r \in Requests : requests[r].status \in Active /\ requests[r].doc = calls[c].doc => r \in calls[c].rows

\* The request a posting chose is one of its document.
ChosenOK(c) ==
    calls[c].op = "post" /\ calls[c].req # NoRow =>
        /\ calls[c].req \in Requests
        /\ calls[c].req \in calls[c].rows
        /\ requests[calls[c].req].status # "none"
        /\ requests[calls[c].req].doc = calls[c].doc

CallOK(c) == OnDocumentOK(c) /\ OnRequestOK(c) /\ ApproverOK(c) /\ WriterOK(c) /\ CoversOpen(c) /\ ChosenOK(c)

IInv ==
    /\ TypeOK
    /\ LocksAreCalls
    /\ RequestsAreOfDocs
    /\ \A c \in Calls : CallOK(c)
    /\ GrantIsCurrent
    /\ PostedByGrant

-----------------------------------------------------------------------------
(* Types.                                                                  *)

LEMMA InitType == ASSUME RowsAssumption, BoundsAssumption, Init PROVE TypeOK
  BY DEF RowsAssumption, BoundsAssumption, Init, TypeOK, Versions, Call, Idle, Rows

LEMMA EndedType ==
    ASSUME TypeOK, NEW c \in Calls, Ended(c)
    PROVE  /\ calls' \in [Calls -> Call]
           /\ locks' \in [Rows -> Calls \cup {NoRow}]
  BY DEF TypeOK, Ended, Freed, Idle, Call

LEMMA InvalidatedType ==
    ASSUME TypeOK, NEW c \in Calls, requests' = Invalidated(c)
    PROVE  requests' \in [Requests -> [status : {"none", "SUBMITTED", "APPROVED", "REJECTED", "CONSUMED"},
                                       doc : Docs \cup {NoRow}, hash : Versions, at : Stamps \cup {0}]]
  BY DEF TypeOK, Invalidated

LEMMA StatusType ==
    ASSUME TypeOK, NEW r \in Requests, NEW s \in {"APPROVED", "REJECTED", "CONSUMED"},
           requests' = [requests EXCEPT ![r].status = s]
    PROVE  requests' \in [Requests -> [status : {"none", "SUBMITTED", "APPROVED", "REJECTED", "CONSUMED"},
                                       doc : Docs \cup {NoRow}, hash : Versions, at : Stamps \cup {0}]]
  BY DEF TypeOK

LEMMA LockDocumentType ==
    ASSUME TypeOK, RowsAssumption, NEW c \in Calls, LockDocument(c)
    PROVE  TypeOK'
  <1>1. calls[c] \in Call
    BY DEF TypeOK
  <1>2. locks' \in [Rows -> Calls \cup {NoRow}]
    BY DEF TypeOK, LockDocument
  <1>3. calls[c].doc \in Docs
    <2>1. calls[c].doc \in Rows /\ calls[c].doc \in Docs \cup {NoRow}
      BY <1>1 DEF LockDocument, Wanted, Call
    <2> QED
      BY <2>1 DEF Rows, RowsAssumption
  <1>4. docs[calls[c].doc].status \in {"none", "DRAFT", "SUBMITTED", "POSTED", "VOIDED"}
    BY <1>3 DEF TypeOK
  <1>5. ASSUME NEW r \in Requests \cup {NoRow}, NEW rows \in SUBSET Rows,
               calls' = [calls EXCEPT ![c] = Come(c, r, rows)]
        PROVE  calls' \in [Calls -> Call]
    <2>1. Come(c, r, rows) \in Call
      BY <1>1, <1>3, <1>4 DEF Call, Come
    <2> QED
      BY <2>1, <1>5 DEF TypeOK
  <1>6. calls' \in [Calls -> Call]
    <2>1. calls[c].req \in Requests \cup {NoRow}
      BY <1>1 DEF Call
    <2>2. /\ {} \in SUBSET Rows
          /\ {q \in RequestsOf(calls[c].doc) : requests[q].status \in Active} \in SUBSET Rows
          /\ \A q \in Latest(calls[c].doc) : q \in Requests /\ {q} \in SUBSET Rows
      BY DEF RequestsOf, Latest, Rows
    <2> QED
      BY <2>1, <2>2, <1>5, Zenon DEF LockDocument
  <1> QED
    BY <1>2, <1>6 DEF TypeOK, LockDocument

LEMMA LockRequestType ==
    ASSUME TypeOK, RowsAssumption, NEW c \in Calls, NEW r \in Requests, LockRequest(c, r),
           calls[c].op = "approve" => calls[c].doc \in Docs
    PROVE  TypeOK'
  <1>1. calls[c] \in Call
    BY DEF TypeOK
  <1>2. locks' \in [Rows -> Calls \cup {NoRow}]
    BY DEF TypeOK, LockRequest
  <1>3. calls' \in [Calls -> Call]
    <2>1. CASE UNCHANGED calls
      BY <2>1 DEF TypeOK
    <2>2. CASE calls[c].op = "approve" /\ calls' = [calls EXCEPT ![c].rows = calls[c].rows \cup {calls[c].doc}]
      <3>1. calls[c].rows \cup {calls[c].doc} \subseteq Rows
        BY <1>1, <2>2 DEF Rows, Call
      <3>2. [calls[c] EXCEPT !.rows = calls[c].rows \cup {calls[c].doc}] \in Call
        BY <1>1, <3>1 DEF Call
      <3> QED
        BY <2>2, <3>2 DEF TypeOK
    <2> QED
      BY <2>1, <2>2 DEF LockRequest
  <1> QED
    BY <1>2, <1>3 DEF TypeOK, LockRequest

-----------------------------------------------------------------------------
(* What the end of one call leaves to the others.                          *)

LEMMA EndedFacts ==
    ASSUME TypeOK, RowsAssumption, NEW c \in Calls, Ended(c)
    PROVE  /\ calls'[c] = Idle
           /\ \A b \in Calls : b # c => calls'[b] = calls[b]
           /\ \A x \in Rows : locks'[x] # c
           /\ \A b \in Calls, x \in Rows : b # c => (locks'[x] = b <=> locks[x] = b)
           /\ \A x \in Rows : locks'[x] \in Calls => locks'[x] = locks[x]
  BY DEF TypeOK, RowsAssumption, Ended, Freed

LEMMA EndedLocks ==
    ASSUME TypeOK, RowsAssumption, LocksAreCalls, NEW c \in Calls, Ended(c)
    PROVE  LocksAreCalls'
  <1> SUFFICES ASSUME NEW x \in Rows, locks'[x] \in Calls
               PROVE  x \in calls'[locks'[x]].rows
    BY DEF LocksAreCalls
  <1>1. locks'[x] = locks[x] /\ locks'[x] # c
    BY EndedFacts
  <1>2. calls'[locks'[x]] = calls[locks[x]]
    BY <1>1, EndedFacts
  <1> QED
    BY <1>1, <1>2 DEF LocksAreCalls

\* A row of the requests that call c decided or took back while it held it,
Decided(c, r) ==
    /\ locks[r] = c
    /\ requests'[r].doc = requests[r].doc
    /\ requests'[r].status # "none"
    /\ requests[r].status # "none"
    /\ requests'[r].status \in Active => requests[r].status \in Active

\* or added while it held the document.
Added(c, r) ==
    /\ requests[r].status = "none"
    /\ requests'[r].doc \in Docs
    /\ locks[requests'[r].doc] = c
    /\ docs[requests'[r].doc].status # "none"

LEMMA OthersKeep ==
    ASSUME IInv, RowsAssumption, NEW c \in Calls, Ended(c),
           \A d \in Docs : docs'[d].status # docs[d].status => locks[d] = c /\ docs'[d].status # "none",
           \A r \in Requests : requests'[r] = requests[r] \/ Decided(c, r) \/ Added(c, r)
    PROVE  \A b \in Calls : CallOK(b)'
  <1> SUFFICES ASSUME NEW b \in Calls PROVE CallOK(b)'
    OBVIOUS
  <1>t. TypeOK
    BY DEF IInv
  <1>1. CASE b = c
    <2>1. calls'[b] = Idle
      BY <1>1, <1>t, EndedFacts
    <2> QED
      BY <2>1 DEF CallOK, OnDocumentOK, OnRequestOK, ApproverOK, WriterOK, CoversOpen, ChosenOK, Idle, OnDocument, OnRequest
  <1>2. CASE b # c
    <2>1. calls'[b] = calls[b] /\ CallOK(b)
      BY <1>2, <1>t, EndedFacts DEF IInv
    <2>2. \A x \in Rows : locks'[x] = b <=> locks[x] = b
      BY <1>2, <1>t, EndedFacts
    <2>3. OnDocumentOK(b)'
      BY <2>1 DEF CallOK, OnDocumentOK
    <2>4. OnRequestOK(b)'
      <3> SUFFICES ASSUME calls[b].op \in OnRequest
                   PROVE  /\ calls[b].req \in Requests
                          /\ calls[b].req \in calls[b].rows
                          /\ requests'[calls[b].req].status # "none"
                          /\ calls[b].doc = requests'[calls[b].req].doc
                          /\ calls[b].rows \subseteq {calls[b].req, calls[b].doc}
        BY <2>1, Zenon DEF OnRequestOK
      <3> QED
        BY <2>1 DEF CallOK, OnRequestOK, Decided, Added
    <2>5. ApproverOK(b)'
      <3> SUFFICES ASSUME calls[b].op = "approve", calls[b].doc \in calls[b].rows
                   PROVE  /\ locks'[calls[b].req] = b
                          /\ requests'[calls[b].req].status = "SUBMITTED"
        BY <2>1, Zenon DEF ApproverOK
      <3>1. /\ calls[b].req \in Requests
            /\ locks[calls[b].req] = b
            /\ requests[calls[b].req].status = "SUBMITTED"
        BY <2>1 DEF CallOK, OnRequestOK, ApproverOK, OnRequest
      <3> QED
        BY <3>1, <2>2, <1>2 DEF Rows, Decided, Added
    <2>6. calls[b].op \in {"edit", "void", "post"} => calls[b].doc \in Docs
      BY <2>1 DEF CallOK, OnDocumentOK, OnDocument
    <2>7. WriterOK(b)'
      <3> SUFFICES ASSUME calls[b].op \in {"edit", "void", "post"}, locks'[calls[b].doc] = b
                   PROVE  calls[b].seen = docs'[calls[b].doc].status
        BY <2>1, Zenon DEF WriterOK
      <3>1. calls[b].doc \in Docs /\ locks[calls[b].doc] = b
        BY <2>2, <2>6 DEF Rows
      <3> QED
        BY <3>1, <2>1, <1>2 DEF CallOK, WriterOK
    <2>8. CoversOpen(b)'
      <3> SUFFICES ASSUME calls[b].op \in {"edit", "void"}, locks'[calls[b].doc] = b,
                          NEW r \in Requests, requests'[r].status \in Active, requests'[r].doc = calls[b].doc
                   PROVE  r \in calls[b].rows
        BY <2>1, Zenon DEF CoversOpen
      <3>1. locks[calls[b].doc] = b
        BY <2>2, <2>6 DEF Rows
      <3>2. requests[r].status \in Active /\ requests[r].doc = calls[b].doc
        BY <3>1, <1>2 DEF Decided, Added
      <3> QED
        BY <3>1, <3>2, <2>1 DEF CallOK, CoversOpen
    <2>9. ChosenOK(b)'
      <3> SUFFICES ASSUME calls[b].op = "post", calls[b].req # NoRow
                   PROVE  /\ calls[b].req \in Requests
                          /\ calls[b].req \in calls[b].rows
                          /\ requests'[calls[b].req].status # "none"
                          /\ requests'[calls[b].req].doc = calls[b].doc
        BY <2>1, Zenon DEF ChosenOK
      <3> QED
        BY <2>1 DEF CallOK, ChosenOK, Decided, Added
    <2> QED
      BY <2>3, <2>4, <2>5, <2>7, <2>8, <2>9 DEF CallOK
  <1> QED
    BY <1>1, <1>2

LEMMA RequestsKeep ==
    ASSUME IInv, NEW c \in Calls,
           \A d \in Docs : docs'[d].status # docs[d].status => locks[d] = c /\ docs'[d].status # "none",
           \A r \in Requests : requests'[r] = requests[r] \/ Decided(c, r) \/ Added(c, r)
    PROVE  RequestsAreOfDocs'
  BY DEF IInv, RequestsAreOfDocs, Decided, Added

\* Who is ready holds every row it has come to.
LEMMA ReadyHolds ==
    ASSUME NEW c \in Calls, NEW x \in calls[c].rows, Wanted(c) = {}
    PROVE  locks[x] = c
  BY DEF Wanted

-----------------------------------------------------------------------------
(* Every way a call ends.                                                  *)

LEMMA NothingDone ==
    ASSUME IInv, RowsAssumption, NEW c \in Calls, Ended(c), UNCHANGED <<docs, requests, posted>>
    PROVE  IInv'
  <1>1. TypeOK'
    BY EndedType DEF IInv, TypeOK
  <1>2. LocksAreCalls'
    BY EndedLocks DEF IInv
  <1>3. \A b \in Calls : CallOK(b)'
    BY OthersKeep
  <1>4. RequestsAreOfDocs'
    BY RequestsKeep
  <1>5. GrantIsCurrent' /\ PostedByGrant'
    BY DEF IInv, GrantIsCurrent, PostedByGrant, RequestsOf
  <1> QED
    BY <1>1, <1>2, <1>3, <1>4, <1>5 DEF IInv

LEMMA SubmitKeeps ==
    ASSUME IInv, RowsAssumption, NEW c \in Calls, Submit(c)
    PROVE  IInv'
  <1> DEFINE d == calls[c].doc
  <1>1. PICK r \in Requests, at \in Stamps :
            /\ requests[r].status = "none"
            /\ requests' = [requests EXCEPT ![r] = Submitted(d, docs[d].version, at)]
    BY DEF Submit
  <1>2. Ended(c) /\ UNCHANGED <<docs, posted>> /\ Wanted(c) = {}
    BY DEF Submit, Ready
  <1>3. d \in Docs /\ d \in calls[c].rows /\ docs[d].status # "none"
    BY DEF Submit, Ready, IInv, CallOK, OnDocumentOK, OnDocument
  <1>4. locks[d] = c
    BY <1>2, <1>3, ReadyHolds
  <1>5. /\ requests'[r] = Submitted(d, docs[d].version, at)
        /\ \A q \in Requests : q # r => requests'[q] = requests[q]
    BY <1>1 DEF IInv, TypeOK
  <1>6. Added(c, r)
    BY <1>1, <1>3, <1>4, <1>5 DEF Added, Submitted
  <1>7. \A q \in Requests : requests'[q] = requests[q] \/ Decided(c, q) \/ Added(c, q)
    BY <1>5, <1>6
  <1>8. TypeOK'
    <2>1. docs[d].version \in Versions
      BY <1>3 DEF IInv, TypeOK
    <2>2. Submitted(d, docs[d].version, at) \in
             [status : {"none", "SUBMITTED", "APPROVED", "REJECTED", "CONSUMED"},
              doc : Docs \cup {NoRow}, hash : Versions, at : Stamps \cup {0}]
      BY <2>1, <1>3 DEF Submitted
    <2> QED
      BY <2>2, <1>1, <1>2, EndedType DEF IInv, TypeOK
  <1>9. LocksAreCalls' /\ RequestsAreOfDocs' /\ \A b \in Calls : CallOK(b)'
    BY <1>2, <1>7, EndedLocks, OthersKeep, RequestsKeep DEF IInv
  <1>10. GrantIsCurrent'
    BY <1>1, <1>2, <1>5 DEF IInv, GrantIsCurrent, Submitted
  <1>11. PostedByGrant'
    <2>1. \A e \in Docs : {q \in RequestsOf(e)' : requests'[q].status = "CONSUMED"}
                            = {q \in RequestsOf(e) : requests[q].status = "CONSUMED"}
      BY <1>1, <1>5 DEF RequestsOf, Submitted
    <2>2. \A q \in Requests : requests[q].status = "CONSUMED" => requests'[q] = requests[q]
      BY <1>1, <1>5
    <2> QED
      BY <2>1, <2>2, <1>2 DEF IInv, PostedByGrant, RequestsOf
  <1> QED
    BY <1>8, <1>9, <1>10, <1>11 DEF IInv

LEMMA ApproveKeeps ==
    ASSUME IInv, RowsAssumption, NEW c \in Calls, Approve(c)
    PROVE  IInv'
  <1> DEFINE r == calls[c].req
             d == calls[c].doc
  <1>1. /\ requests' = [requests EXCEPT ![r].status = "APPROVED"]
        /\ requests[r].hash = docs[d].version
        /\ d \in calls[c].rows
        /\ Ended(c) /\ UNCHANGED <<docs, posted>>
    BY DEF Approve
  <1>2. /\ r \in Requests /\ d = requests[r].doc
        /\ locks[r] = c /\ requests[r].status = "SUBMITTED"
    BY <1>1 DEF Approve, Ready, IInv, CallOK, OnRequestOK, ApproverOK, OnRequest
  <1>3. /\ requests'[r] = [requests[r] EXCEPT !.status = "APPROVED"]
        /\ requests'[r].status = "APPROVED"
        /\ requests'[r].doc = requests[r].doc
        /\ requests'[r].hash = requests[r].hash
        /\ \A q \in Requests : q # r => requests'[q] = requests[q]
    BY <1>1, <1>2 DEF IInv, TypeOK
  <1>4. Decided(c, r)
    BY <1>2, <1>3 DEF Decided, Active
  <1>5. \A q \in Requests : requests'[q] = requests[q] \/ Decided(c, q) \/ Added(c, q)
    BY <1>3, <1>4
  <1>6. TypeOK'
    BY <1>1, <1>2, StatusType, EndedType DEF IInv, TypeOK
  <1>7. LocksAreCalls' /\ RequestsAreOfDocs' /\ \A b \in Calls : CallOK(b)'
    BY <1>1, <1>5, EndedLocks, OthersKeep, RequestsKeep DEF IInv
  <1>8. GrantIsCurrent'
    BY <1>1, <1>2, <1>3 DEF IInv, GrantIsCurrent
  <1>9. PostedByGrant'
    <2>1. \A e \in Docs : {q \in RequestsOf(e)' : requests'[q].status = "CONSUMED"}
                            = {q \in RequestsOf(e) : requests[q].status = "CONSUMED"}
      BY <1>2, <1>3 DEF RequestsOf
    <2>2. \A q \in Requests : requests[q].status = "CONSUMED" => requests'[q] = requests[q]
      BY <1>2, <1>3
    <2> QED
      BY <2>1, <2>2, <1>1 DEF IInv, PostedByGrant, RequestsOf
  <1> QED
    BY <1>6, <1>7, <1>8, <1>9 DEF IInv

LEMMA RejectKeeps ==
    ASSUME IInv, RowsAssumption, NEW c \in Calls, Reject(c)
    PROVE  IInv'
  <1> DEFINE r == calls[c].req
  <1>1. /\ requests' = [requests EXCEPT ![r].status = "REJECTED"]
        /\ requests[r].status = "SUBMITTED"
        /\ Wanted(c) = {}
        /\ Ended(c) /\ UNCHANGED <<docs, posted>>
    BY DEF Reject, Ready
  <1>2. r \in Requests /\ r \in calls[c].rows
    BY DEF Reject, Ready, IInv, CallOK, OnRequestOK, OnRequest
  <1>3. /\ requests'[r].status = "REJECTED"
        /\ requests'[r].doc = requests[r].doc
        /\ \A q \in Requests : q # r => requests'[q] = requests[q]
    BY <1>1, <1>2 DEF IInv, TypeOK
  <1>4. Decided(c, r)
    BY <1>1, <1>2, <1>3, ReadyHolds DEF Decided, Active
  <1>5. \A q \in Requests : requests'[q] = requests[q] \/ Decided(c, q) \/ Added(c, q)
    BY <1>3, <1>4
  <1>6. TypeOK'
    BY <1>1, <1>2, StatusType, EndedType DEF IInv, TypeOK
  <1>7. LocksAreCalls' /\ RequestsAreOfDocs' /\ \A b \in Calls : CallOK(b)'
    BY <1>1, <1>5, EndedLocks, OthersKeep, RequestsKeep DEF IInv
  <1>8. GrantIsCurrent'
    BY <1>1, <1>3 DEF IInv, GrantIsCurrent
  <1>9. PostedByGrant'
    <2>1. \A e \in Docs : {q \in RequestsOf(e)' : requests'[q].status = "CONSUMED"}
                            = {q \in RequestsOf(e) : requests[q].status = "CONSUMED"}
      BY <1>1, <1>3 DEF RequestsOf
    <2>2. \A q \in Requests : requests[q].status = "CONSUMED" => requests'[q] = requests[q]
      BY <1>1, <1>3
    <2> QED
      BY <2>1, <2>2, <1>1 DEF IInv, PostedByGrant, RequestsOf
  <1> QED
    BY <1>6, <1>7, <1>8, <1>9 DEF IInv

\* An edit or a void that is ready holds its document and every open request of
\* it, so that taking them back leaves none open.
LEMMA InvalidatedFacts ==
    ASSUME IInv, NEW c \in Calls, calls[c].op \in {"edit", "void"}, Wanted(c) = {},
           requests' = Invalidated(c)
    PROVE  /\ calls[c].doc \in Docs
           /\ locks[calls[c].doc] = c
           /\ docs[calls[c].doc].status # "none"
           /\ calls[c].seen = docs[calls[c].doc].status
           /\ \A r \in Requests : requests'[r] = requests[r] \/ Decided(c, r) \/ Added(c, r)
           /\ \A r \in Requests : requests'[r].doc = calls[c].doc => requests'[r].status \notin Active
           /\ \A r \in Requests : requests'[r].doc = requests[r].doc /\ requests'[r].hash = requests[r].hash
           /\ \A r \in Requests : requests'[r].status # "none" <=> requests[r].status # "none"
           /\ \A r \in Requests : requests'[r].status = "CONSUMED" <=> requests[r].status = "CONSUMED"
           /\ \A r \in Requests : requests'[r].status = "APPROVED" => requests'[r] = requests[r]
  <1> DEFINE d == calls[c].doc
             Taken(r) == r \in calls[c].rows /\ requests[r].status \in Active
  <1>1. d \in Docs /\ d \in calls[c].rows /\ docs[d].status # "none"
    BY DEF IInv, CallOK, OnDocumentOK, OnDocument
  <1>2. locks[d] = c
    BY <1>1, ReadyHolds
  <1>3. calls[c].seen = docs[d].status
    BY <1>2 DEF IInv, CallOK, WriterOK
  <1>4. \A r \in Requests : requests[r].status \in Active /\ requests[r].doc = d => r \in calls[c].rows
    BY <1>2 DEF IInv, CallOK, CoversOpen
  <1>5. \A r \in Requests :
           /\ Taken(r) => /\ requests'[r].status = "REJECTED"
                          /\ requests'[r].doc = requests[r].doc
                          /\ requests'[r].hash = requests[r].hash
           /\ ~Taken(r) => requests'[r] = requests[r]
    BY DEF Invalidated, IInv, TypeOK
  <1>6. ASSUME NEW r \in Requests, Taken(r) PROVE Decided(c, r)
    BY <1>5, <1>6, ReadyHolds DEF Decided, Active
  <1>7. \A r \in Requests : requests'[r] = requests[r] \/ Decided(c, r) \/ Added(c, r)
    BY <1>5, <1>6
  <1>8. \A r \in Requests : requests'[r].doc = d => requests'[r].status \notin Active
    BY <1>4, <1>5 DEF Active
  <1>9. /\ \A r \in Requests : requests'[r].doc = requests[r].doc /\ requests'[r].hash = requests[r].hash
        /\ \A r \in Requests : requests'[r].status # "none" <=> requests[r].status # "none"
        /\ \A r \in Requests : requests'[r].status = "CONSUMED" <=> requests[r].status = "CONSUMED"
        /\ \A r \in Requests : requests'[r].status = "APPROVED" => requests'[r] = requests[r]
    BY <1>5 DEF Active
  <1> QED
    BY <1>1, <1>2, <1>3, <1>7, <1>8, <1>9

LEMMA EditKeeps ==
    ASSUME IInv, RowsAssumption, BoundsAssumption, NEW c \in Calls, Edit(c)
    PROVE  IInv'
  <1> DEFINE d == calls[c].doc
  <1>1. /\ requests' = Invalidated(c)
        /\ docs' = [docs EXCEPT ![d].version = docs[d].version + 1]
        /\ docs[d].version < MaxVersion
        /\ calls[c].op \in {"edit", "void"} /\ Wanted(c) = {}
        /\ Ended(c) /\ UNCHANGED posted
    BY DEF Edit, Ready
  <1>2. d \in Docs
    BY <1>1, InvalidatedFacts
  <1>3. /\ \A e \in Docs : docs'[e].status = docs[e].status
        /\ \A e \in Docs : e # d => docs'[e] = docs[e]
    BY <1>1, <1>2 DEF IInv, TypeOK
  <1>4. TypeOK'
    <2>1. docs[d].version \in Versions
      BY <1>2 DEF IInv, TypeOK
    <2>2. docs[d].version + 1 \in Versions
      BY <2>1, <1>1 DEF Versions, BoundsAssumption
    <2>3. docs' \in [Docs -> [status : {"none", "DRAFT", "SUBMITTED", "POSTED", "VOIDED"}, version : Versions]]
      BY <2>2, <1>1, <1>2 DEF IInv, TypeOK
    <2> QED
      BY <2>3, <1>1, EndedType, InvalidatedType DEF IInv, TypeOK
  <1>5. LocksAreCalls' /\ RequestsAreOfDocs' /\ \A b \in Calls : CallOK(b)'
    <2>1. \A r \in Requests : requests'[r] = requests[r] \/ Decided(c, r) \/ Added(c, r)
      BY <1>1, InvalidatedFacts
    <2> QED
      BY <2>1, <1>1, <1>3, EndedLocks, OthersKeep, RequestsKeep DEF IInv
  <1>6. GrantIsCurrent'
    <2> SUFFICES ASSUME NEW r \in Requests, requests'[r].status = "APPROVED"
                 PROVE  requests'[r].hash = docs'[requests'[r].doc].version
      BY DEF GrantIsCurrent
    <2>1. requests'[r] = requests[r] /\ requests'[r].doc # d
      BY <1>1, InvalidatedFacts DEF Active
    <2>2. requests[r].doc \in Docs
      BY <2>1 DEF IInv, RequestsAreOfDocs
    <2> QED
      BY <2>1, <2>2, <1>3 DEF IInv, GrantIsCurrent
  <1>7. PostedByGrant'
    <2>1. \A e \in Docs : {q \in RequestsOf(e)' : requests'[q].status = "CONSUMED"}
                            = {q \in RequestsOf(e) : requests[q].status = "CONSUMED"}
      BY <1>1, InvalidatedFacts DEF RequestsOf
    <2>2. \A q \in Requests : requests'[q].hash = requests[q].hash
      BY <1>1, InvalidatedFacts
    <2> QED
      BY <2>1, <2>2, <1>1, <1>3 DEF IInv, PostedByGrant, RequestsOf
  <1> QED
    BY <1>4, <1>5, <1>6, <1>7 DEF IInv

LEMMA VoidKeeps ==
    ASSUME IInv, RowsAssumption, NEW c \in Calls, Void(c)
    PROVE  IInv'
  <1> DEFINE d == calls[c].doc
  <1>1. /\ requests' = Invalidated(c)
        /\ docs' = [docs EXCEPT ![d].status = "VOIDED"]
        /\ calls[c].seen = "POSTED"
        /\ calls[c].op \in {"edit", "void"} /\ Wanted(c) = {}
        /\ Ended(c) /\ UNCHANGED posted
    BY DEF Void, Ready
  <1>2. d \in Docs /\ locks[d] = c /\ docs[d].status = "POSTED"
    BY <1>1, InvalidatedFacts
  <1>3. /\ \A e \in Docs : docs'[e].version = docs[e].version
        /\ \A e \in Docs : e # d => docs'[e] = docs[e]
        /\ docs'[d].status = "VOIDED"
    BY <1>1, <1>2 DEF IInv, TypeOK
  <1>4. TypeOK'
    <2>1. docs' \in [Docs -> [status : {"none", "DRAFT", "SUBMITTED", "POSTED", "VOIDED"}, version : Versions]]
      BY <1>1, <1>2 DEF IInv, TypeOK
    <2> QED
      BY <2>1, <1>1, EndedType, InvalidatedType DEF IInv, TypeOK
  <1>5. LocksAreCalls' /\ RequestsAreOfDocs' /\ \A b \in Calls : CallOK(b)'
    <2>1. \A r \in Requests : requests'[r] = requests[r] \/ Decided(c, r) \/ Added(c, r)
      BY <1>1, InvalidatedFacts
    <2>2. \A e \in Docs : docs'[e].status # docs[e].status => locks[e] = c /\ docs'[e].status # "none"
      BY <1>2, <1>3
    <2> QED
      BY <2>1, <2>2, <1>1, EndedLocks, OthersKeep, RequestsKeep DEF IInv
  <1>6. GrantIsCurrent'
    <2> SUFFICES ASSUME NEW r \in Requests, requests'[r].status = "APPROVED"
                 PROVE  requests'[r].hash = docs'[requests'[r].doc].version
      BY DEF GrantIsCurrent
    <2>1. requests'[r] = requests[r]
      BY <1>1, InvalidatedFacts
    <2>2. requests[r].doc \in Docs
      BY <2>1 DEF IInv, RequestsAreOfDocs
    <2> QED
      BY <2>1, <2>2, <1>3 DEF IInv, GrantIsCurrent
  <1>7. PostedByGrant'
    <2>1. \A e \in Docs : {q \in RequestsOf(e)' : requests'[q].status = "CONSUMED"}
                            = {q \in RequestsOf(e) : requests[q].status = "CONSUMED"}
      BY <1>1, InvalidatedFacts DEF RequestsOf
    <2>2. \A q \in Requests : requests'[q].hash = requests[q].hash
      BY <1>1, InvalidatedFacts
    <2>3. \A e \in Docs : docs'[e].status \in {"POSTED", "VOIDED"} <=> docs[e].status \in {"POSTED", "VOIDED"}
      BY <1>2, <1>3
    <2> QED
      BY <2>1, <2>2, <2>3, <1>1 DEF IInv, PostedByGrant, RequestsOf
  <1> QED
    BY <1>4, <1>5, <1>6, <1>7 DEF IInv

\* The consumed requests of a document, and PostedByGrant document by document.
Spent(d) == {r \in Requests : requests[r].status = "CONSUMED" /\ requests[r].doc = d}
GrantOf(d) ==
    IF docs[d].status \in {"POSTED", "VOIDED"}
    THEN \E r \in Spent(d) : Spent(d) = {r} /\ requests[r].hash = posted[d]
    ELSE Spent(d) = {}

LEMMA SpentIs == \A d \in Docs : {r \in RequestsOf(d) : requests[r].status = "CONSUMED"} = Spent(d)
  BY DEF RequestsOf, Spent

LEMMA GrantOfEach == PostedByGrant <=> \A d \in Docs : GrantOf(d)
  BY SpentIs, Zenon DEF PostedByGrant, GrantOf

LEMMA GrantOfEachNext == PostedByGrant' <=> \A d \in Docs : GrantOf(d)'
  <1>1. \A d \in Docs : {r \in RequestsOf(d)' : requests'[r].status = "CONSUMED"} = Spent(d)'
    BY DEF RequestsOf, Spent
  <1> QED
    BY <1>1, Zenon DEF PostedByGrant, GrantOf

LEMMA PostKeeps ==
    ASSUME IInv, RowsAssumption, NEW c \in Calls, Post(c)
    PROVE  IInv'
  <1> DEFINE d == calls[c].doc
             r == calls[c].req
  <1>1. /\ requests' = [requests EXCEPT ![r].status = "CONSUMED"]
        /\ docs' = [docs EXCEPT ![d].status = "POSTED"]
        /\ posted' = [posted EXCEPT ![d] = docs[d].version]
        /\ calls[c].op = "post" /\ Wanted(c) = {}
        /\ calls[c].seen \in Unposted
        /\ r # NoRow /\ requests[r].status = "APPROVED" /\ requests[r].hash = docs[d].version
        /\ Ended(c)
    BY DEF Post, Ready, Consumable
  <1>2. d \in Docs /\ d \in calls[c].rows
    BY <1>1 DEF IInv, CallOK, OnDocumentOK, OnDocument
  <1>3. r \in Requests /\ r \in calls[c].rows /\ requests[r].doc = d
    BY <1>1 DEF IInv, CallOK, ChosenOK
  <1>4. locks[d] = c /\ locks[r] = c
    BY <1>1, <1>2, <1>3, ReadyHolds
  <1>5. docs[d].status \in Unposted
    BY <1>1, <1>4 DEF IInv, CallOK, WriterOK
  <1>6. /\ requests'[r].status = "CONSUMED" /\ requests'[r].doc = d
        /\ requests'[r].hash = docs[d].version
        /\ \A q \in Requests : q # r => requests'[q] = requests[q]
    BY <1>1, <1>3 DEF IInv, TypeOK
  <1>7. /\ \A e \in Docs : docs'[e].version = docs[e].version
        /\ \A e \in Docs : e # d => docs'[e] = docs[e] /\ posted'[e] = posted[e]
        /\ docs'[d].status = "POSTED"
        /\ posted'[d] = docs[d].version
    BY <1>1, <1>2 DEF IInv, TypeOK
  <1>8. TypeOK'
    <2>1. /\ docs' \in [Docs -> [status : {"none", "DRAFT", "SUBMITTED", "POSTED", "VOIDED"}, version : Versions]]
          /\ posted' \in [Docs -> Versions \cup {NoRow}]
      BY <1>1, <1>2 DEF IInv, TypeOK
    <2> QED
      BY <2>1, <1>1, <1>3, StatusType, EndedType DEF IInv, TypeOK
  <1>9. LocksAreCalls' /\ RequestsAreOfDocs' /\ \A b \in Calls : CallOK(b)'
    <2>1. Decided(c, r)
      BY <1>1, <1>3, <1>4, <1>6 DEF Decided, Active
    <2>2. \A q \in Requests : requests'[q] = requests[q] \/ Decided(c, q) \/ Added(c, q)
      BY <2>1, <1>6
    <2>3. \A e \in Docs : docs'[e].status # docs[e].status => locks[e] = c /\ docs'[e].status # "none"
      BY <1>4, <1>7
    <2> QED
      BY <2>2, <2>3, <1>1, EndedLocks, OthersKeep, RequestsKeep DEF IInv
  <1>10. GrantIsCurrent'
    <2> SUFFICES ASSUME NEW q \in Requests, requests'[q].status = "APPROVED"
                 PROVE  requests'[q].hash = docs'[requests'[q].doc].version
      BY DEF GrantIsCurrent
    <2>1. requests'[q] = requests[q]
      BY <1>6
    <2>2. requests[q].doc \in Docs
      BY <2>1 DEF IInv, RequestsAreOfDocs
    <2> QED
      BY <2>1, <2>2, <1>7 DEF IInv, GrantIsCurrent
  <1>11. PostedByGrant'
    <2>1. PICK x \in Docs, y \in Requests : x = d /\ y = r
      BY <1>2, <1>3
    <2>2. /\ requests'[y].status = "CONSUMED" /\ requests'[y].doc = x /\ requests'[y].hash = posted'[x]
          /\ requests[y].status = "APPROVED" /\ requests[y].doc = x
          /\ \A q \in Requests : q # y => requests'[q] = requests[q]
          /\ \A e \in Docs : e # x => docs'[e] = docs[e] /\ posted'[e] = posted[e]
          /\ docs[x].status \in Unposted /\ docs'[x].status = "POSTED"
      BY <2>1, <1>1, <1>3, <1>5, <1>6, <1>7
    <2>3. Spent(x) = {}
      BY <2>2, GrantOfEach DEF IInv, Unposted, GrantOf
    <2>4. Spent(x)' = {y}
      <3>1. \A q \in Requests : requests[q].status = "CONSUMED" => requests[q].doc # x
        BY <2>3 DEF Spent
      <3>2. \A q \in Requests : requests'[q].status = "CONSUMED" /\ requests'[q].doc = x => q = y
        BY <3>1, <2>2
      <3> QED
        BY <3>2, <2>2 DEF Spent
    <2>5. ASSUME NEW e \in Docs, e # x PROVE GrantOf(e)'
      <3>1. Spent(e)' = Spent(e)
        BY <2>2, <2>5 DEF Spent
      <3>2. \A q \in Spent(e) : requests'[q] = requests[q]
        BY <2>2 DEF Spent
      <3>3. docs'[e] = docs[e] /\ posted'[e] = posted[e] /\ GrantOf(e)
        BY <2>2, <2>5, GrantOfEach DEF IInv
      <3> QED
        BY <3>1, <3>2, <3>3 DEF GrantOf
    <2>6. GrantOf(x)'
      BY <2>2, <2>4 DEF GrantOf
    <2>7. \A e \in Docs : GrantOf(e)'
      BY <2>5, <2>6
    <2> QED
      BY <2>7, GrantOfEachNext
  <1> QED
    BY <1>8, <1>9, <1>10, <1>11 DEF IInv

-----------------------------------------------------------------------------
(* Calls that begin and rows that are locked.                              *)

LEMMA CreateKeeps ==
    ASSUME IInv, RowsAssumption, BoundsAssumption, NEW d \in Docs, Create(d)
    PROVE  IInv'
  <1> DEFINE RequestRow == [status : {"none", "SUBMITTED", "APPROVED", "REJECTED", "CONSUMED"},
                            doc : Docs \cup {NoRow}, hash : Versions, at : Stamps \cup {0}]
  <1>1. /\ docs[d].status = "none"
        /\ UNCHANGED <<calls, locks, posted>>
        /\ \E s \in Unposted : docs' = [docs EXCEPT ![d] = [status |-> s, version |-> 0]]
    BY DEF Create, Unposted
  <1>2. 0 \in Versions
    BY DEF Versions, BoundsAssumption
  <1>3. \A q \in Requests : requests[q].status # "none" => requests[q].doc # d
    BY <1>1 DEF IInv, RequestsAreOfDocs
  <1>4. /\ \A e \in Docs : e # d => docs'[e] = docs[e]
        /\ docs'[d].status \in Unposted
    BY <1>1 DEF IInv, TypeOK
  <1>5. /\ requests' \in [Requests -> RequestRow]
        /\ \A q \in Requests :
              \/ requests'[q] = requests[q]
              \/ requests[q].status = "none" /\ requests'[q].status = "SUBMITTED" /\ requests'[q].doc = d
    <2>1. CASE UNCHANGED requests
      BY <2>1 DEF IInv, TypeOK
    <2>2. ASSUME NEW r \in Requests, NEW at \in Stamps, requests[r].status = "none",
                 requests' = [requests EXCEPT ![r] = Submitted(d, 0, at)]
          PROVE  <1>5!1 /\ <1>5!2
      <3>1. Submitted(d, 0, at) \in RequestRow
        BY <1>2 DEF Submitted
      <3>2. Submitted(d, 0, at).status = "SUBMITTED" /\ Submitted(d, 0, at).doc = d
        BY DEF Submitted
      <3> QED
        BY <3>1, <3>2, <2>2 DEF IInv, TypeOK
    <2> QED
      BY <2>1, <2>2, Zenon DEF Create
  <1>6. TypeOK'
    <2>1. docs' \in [Docs -> [status : {"none", "DRAFT", "SUBMITTED", "POSTED", "VOIDED"}, version : Versions]]
      BY <1>1, <1>2 DEF IInv, TypeOK, Unposted
    <2> QED
      BY <2>1, <1>1, <1>5 DEF IInv, TypeOK
  <1>7. LocksAreCalls'
    BY <1>1 DEF IInv, LocksAreCalls
  <1>8. RequestsAreOfDocs'
    BY <1>4, <1>5 DEF IInv, RequestsAreOfDocs, Unposted
  <1>9. ASSUME NEW b \in Calls PROVE CallOK(b)'
    <2>1. calls'[b] = calls[b] /\ locks' = locks /\ CallOK(b)
      BY <1>1 DEF IInv
    <2>2. OnDocumentOK(b)'
      BY <2>1, <1>1, <1>4 DEF CallOK, OnDocumentOK
    <2>3. OnRequestOK(b)'
      BY <2>1, <1>5 DEF CallOK, OnRequestOK
    <2>4. ApproverOK(b)'
      <3> SUFFICES ASSUME calls[b].op = "approve", calls[b].doc \in calls[b].rows
                   PROVE  locks[calls[b].req] = b /\ requests'[calls[b].req].status = "SUBMITTED"
        BY <2>1, Zenon DEF ApproverOK
      <3>1. /\ calls[b].req \in Requests
            /\ locks[calls[b].req] = b /\ requests[calls[b].req].status = "SUBMITTED"
        BY <2>1 DEF CallOK, OnRequestOK, ApproverOK, OnRequest
      <3> QED
        BY <3>1, <1>5
    <2>5. calls[b].op \in {"edit", "void", "post"} => calls[b].doc \in Docs /\ calls[b].doc # d
      BY <2>1, <1>1 DEF CallOK, OnDocumentOK, OnDocument
    <2>6. WriterOK(b)'
      BY <2>1, <2>5, <1>4 DEF CallOK, WriterOK
    <2>7. CoversOpen(b)'
      <3> SUFFICES ASSUME calls[b].op \in {"edit", "void"}, locks[calls[b].doc] = b,
                          NEW r \in Requests, requests'[r].status \in Active, requests'[r].doc = calls[b].doc
                   PROVE  r \in calls[b].rows
        BY <2>1, Zenon DEF CoversOpen
      <3>1. requests'[r] = requests[r]
        BY <2>5, <1>5
      <3> QED
        BY <3>1, <2>1 DEF CallOK, CoversOpen
    <2>8. ChosenOK(b)'
      <3> SUFFICES ASSUME calls[b].op = "post", calls[b].req # NoRow
                   PROVE  /\ calls[b].req \in Requests
                          /\ calls[b].req \in calls[b].rows
                          /\ requests'[calls[b].req].status # "none"
                          /\ requests'[calls[b].req].doc = calls[b].doc
        BY <2>1, Zenon DEF ChosenOK
      <3> QED
        BY <2>1, <1>5 DEF CallOK, ChosenOK
    <2> QED
      BY <2>2, <2>3, <2>4, <2>6, <2>7, <2>8 DEF CallOK
  <1>10. GrantIsCurrent'
    <2> SUFFICES ASSUME NEW q \in Requests, requests'[q].status = "APPROVED"
                 PROVE  requests'[q].hash = docs'[requests'[q].doc].version
      BY DEF GrantIsCurrent
    <2>1. requests'[q] = requests[q]
      BY <1>5
    <2>2. requests[q].doc \in Docs /\ requests[q].doc # d
      BY <2>1, <1>3 DEF IInv, RequestsAreOfDocs
    <2> QED
      BY <2>1, <2>2, <1>4 DEF IInv, GrantIsCurrent
  <1>11. PostedByGrant'
    <2>1. ASSUME NEW e \in Docs PROVE GrantOf(e)'
      <3>1. Spent(e)' = Spent(e) /\ \A q \in Spent(e) : requests'[q] = requests[q]
        BY <1>5 DEF Spent
      <3>2. posted' = posted /\ GrantOf(e)
        BY <1>1, GrantOfEach DEF IInv
      <3>3. docs'[e].status \in {"POSTED", "VOIDED"} <=> docs[e].status \in {"POSTED", "VOIDED"}
        BY <1>1, <1>4 DEF Unposted
      <3> QED
        BY <3>1, <3>2, <3>3 DEF GrantOf
    <2> QED
      BY <2>1, GrantOfEachNext
  <1> QED
    BY <1>6, <1>7, <1>8, <1>9, <1>10, <1>11 DEF IInv

\* Tables that did not change keep what is said of the tables alone.
LEMMA TablesKeep ==
    ASSUME IInv, UNCHANGED <<docs, requests, posted>>
    PROVE  RequestsAreOfDocs' /\ GrantIsCurrent' /\ PostedByGrant'
  BY DEF IInv, RequestsAreOfDocs, GrantIsCurrent, PostedByGrant, RequestsOf

\* While nothing changes in the tables, a call whose record and locks stay is as it was.
LEMMA UntouchedCall ==
    ASSUME NEW b \in Calls, CallOK(b), UNCHANGED <<docs, requests, posted>>, calls'[b] = calls[b],
           \A x \in Rows : locks'[x] = b <=> locks[x] = b,
           calls[b].doc \in Rows \/ calls[b].op = "idle",
           calls[b].req \in Rows \/ calls[b].op \notin OnRequest
    PROVE  CallOK(b)'
  <1>1. OnDocumentOK(b)' /\ OnRequestOK(b)' /\ ChosenOK(b)'
    BY DEF CallOK, OnDocumentOK, OnRequestOK, ChosenOK
  <1>2. ApproverOK(b)' /\ WriterOK(b)' /\ CoversOpen(b)'
    BY DEF CallOK, ApproverOK, WriterOK, CoversOpen, OnRequest
  <1> QED
    BY <1>1, <1>2 DEF CallOK

\* The rows a call names are rows.
LEMMA CallRows ==
    ASSUME IInv, NEW b \in Calls
    PROVE  /\ calls[b].doc \in Rows \/ calls[b].op = "idle"
           /\ calls[b].req \in Rows \/ calls[b].op \notin OnRequest
  <1>1. calls[b].op \in {"idle"} \cup OnDocument \cup OnRequest /\ CallOK(b)
    BY DEF IInv, TypeOK, Call
  <1>2. CASE calls[b].op \in OnDocument
    BY <1>1, <1>2 DEF CallOK, OnDocumentOK, Rows, OnDocument, OnRequest
  <1>3. CASE calls[b].op \in OnRequest
    BY <1>1, <1>3 DEF CallOK, OnRequestOK, Rows, IInv, RequestsAreOfDocs
  <1>4. CASE calls[b].op = "idle"
    BY <1>4 DEF OnRequest
  <1> QED
    BY <1>1, <1>2, <1>3, <1>4

\* A call that begins: nobody holds a row in the name of an idle call.
LEMMA AskKeeps ==
    ASSUME IInv, RowsAssumption, NEW c \in Calls, NEW k \in Call,
           calls[c] = Idle, calls' = [calls EXCEPT ![c] = k],
           UNCHANGED <<docs, requests, locks, posted>>,
           CallOK(c)'
    PROVE  IInv'
  <1>1. TypeOK'
    BY DEF IInv, TypeOK
  <1>2. /\ calls'[c] = k
        /\ \A b \in Calls : b # c => calls'[b] = calls[b]
    BY DEF IInv, TypeOK
  <1>3. \A x \in Rows : locks[x] # c
    BY DEF IInv, LocksAreCalls, Idle
  <1>4. LocksAreCalls'
    BY <1>2, <1>3 DEF IInv, LocksAreCalls
  <1>5. ASSUME NEW b \in Calls, b # c PROVE CallOK(b)'
    BY <1>2, <1>5, UntouchedCall, CallRows DEF IInv
  <1>6. \A b \in Calls : CallOK(b)'
    BY <1>5
  <1> QED
    BY <1>1, <1>4, <1>6, TablesKeep DEF IInv

LEMMA AskDocumentKeeps ==
    ASSUME IInv, RowsAssumption, NEW c \in Calls, NEW d \in Docs, NEW op \in OnDocument, AskDocument(c, op, d)
    PROVE  IInv'
  <1> DEFINE k == [op |-> op, doc |-> d, req |-> NoRow, seen |-> "none", rows |-> {d}]
  <1>1. /\ calls[c] = Idle /\ docs[d].status # "none"
        /\ calls' = [calls EXCEPT ![c] = k]
        /\ UNCHANGED <<docs, requests, locks, posted>>
    BY DEF AskDocument
  <1>2. k \in Call
    BY DEF Call, Rows
  <1>3. calls'[c] = k
    BY <1>1 DEF IInv, TypeOK
  <1>4. locks'[d] # c
    BY <1>1 DEF IInv, LocksAreCalls, Idle, Rows
  <1>5. CallOK(c)'
    <2>1. OnDocumentOK(c)' /\ OnRequestOK(c)' /\ ChosenOK(c)'
      BY <1>1, <1>3 DEF OnDocumentOK, OnRequestOK, ChosenOK, OnDocument, OnRequest
    <2>2. ApproverOK(c)' /\ WriterOK(c)' /\ CoversOpen(c)'
      BY <1>3, <1>4 DEF ApproverOK, WriterOK, CoversOpen, OnDocument
    <2> QED
      BY <2>1, <2>2 DEF CallOK
  <1> QED
    BY <1>1, <1>2, <1>5, AskKeeps

LEMMA AskRequestKeeps ==
    ASSUME IInv, RowsAssumption, NEW c \in Calls, NEW r \in Requests, NEW op \in OnRequest, AskRequest(c, op, r)
    PROVE  IInv'
  <1> DEFINE k == [op |-> op, doc |-> requests[r].doc, req |-> r, seen |-> "none", rows |-> {r}]
  <1>1. /\ calls[c] = Idle /\ requests[r].status # "none"
        /\ calls' = [calls EXCEPT ![c] = k]
        /\ UNCHANGED <<docs, requests, locks, posted>>
    BY DEF AskRequest
  <1>2. requests[r].doc \in Docs
    BY <1>1 DEF IInv, RequestsAreOfDocs
  <1>3. k \in Call
    BY <1>2 DEF Call, Rows
  <1>4. calls'[c] = k
    BY <1>1 DEF IInv, TypeOK
  <1>5. requests[r].doc \notin {r}
    BY <1>2 DEF RowsAssumption
  <1>6. CallOK(c)'
    <2>1. OnDocumentOK(c)' /\ OnRequestOK(c)' /\ ChosenOK(c)'
      BY <1>1, <1>4 DEF OnDocumentOK, OnRequestOK, ChosenOK, OnDocument, OnRequest
    <2>2. ApproverOK(c)' /\ WriterOK(c)' /\ CoversOpen(c)'
      BY <1>4, <1>5 DEF ApproverOK, WriterOK, CoversOpen, OnRequest
    <2> QED
      BY <2>1, <2>2 DEF CallOK
  <1> QED
    BY <1>1, <1>3, <1>6, AskKeeps

\* A row that was free gets locked by a call that has come to it.
LEMMA LockFacts ==
    ASSUME IInv, RowsAssumption, NEW c \in Calls, NEW x \in Rows, locks[x] = NoRow,
           locks' = [locks EXCEPT ![x] = c]
    PROVE  /\ locks'[x] = c
           /\ \A y \in Rows : y # x => locks'[y] = locks[y]
           /\ \A b \in Calls, y \in Rows : b # c => (locks'[y] = b <=> locks[y] = b)
  BY DEF IInv, TypeOK, RowsAssumption

LEMMA LockKeeps ==
    ASSUME IInv, RowsAssumption, NEW c \in Calls, NEW x \in Rows, locks[x] = NoRow, x \in calls[c].rows,
           locks' = [locks EXCEPT ![x] = c],
           UNCHANGED <<docs, requests, posted>>,
           TypeOK', calls[c].rows \subseteq calls'[c].rows,
           \A b \in Calls : b # c => calls'[b] = calls[b],
           CallOK(c)'
    PROVE  IInv'
  <1>1. LocksAreCalls'
    <2> SUFFICES ASSUME NEW y \in Rows, locks'[y] \in Calls
                 PROVE  y \in calls'[locks'[y]].rows
      BY DEF LocksAreCalls
    <2>1. CASE y = x
      BY <2>1, LockFacts
    <2>2. CASE y # x
      <3>1. locks'[y] = locks[y] /\ y \in calls[locks[y]].rows
        BY <2>2, LockFacts DEF IInv, LocksAreCalls
      <3> QED
        BY <3>1
    <2> QED
      BY <2>1, <2>2
  <1>2. ASSUME NEW b \in Calls, b # c PROVE CallOK(b)'
    <2>1. \A y \in Rows : locks'[y] = b <=> locks[y] = b
      BY <1>2, LockFacts
    <2>2. CallOK(b) /\ calls'[b] = calls[b]
      BY <1>2 DEF IInv
    <2> QED
      BY <2>1, <2>2, UntouchedCall, CallRows
  <1>3. \A b \in Calls : CallOK(b)'
    BY <1>2
  <1> QED
    BY <1>1, <1>3, TablesKeep DEF IInv

\* What a call knows after it locked its document.
LEMMA LockDocumentCall ==
    ASSUME IInv, RowsAssumption, NEW c \in Calls, LockDocument(c)
    PROVE  /\ \A b \in Calls : b # c => calls'[b] = calls[b]
           /\ calls'[c].op = calls[c].op
           /\ calls'[c].doc = calls[c].doc
           /\ calls'[c].seen = docs[calls[c].doc].status
           /\ calls[c].rows \subseteq calls'[c].rows
           /\ calls[c].op # "post" => calls'[c].req = calls[c].req
           /\ calls[c].op = "approve" => calls'[c].rows = calls[c].rows
           /\ calls[c].op \in {"edit", "void"} =>
                 {q \in RequestsOf(calls[c].doc) : requests[q].status \in Active} \subseteq calls'[c].rows
           /\ calls[c].op = "post" =>
                 \/ calls'[c].req = calls[c].req
                 \/ calls'[c].req \in RequestsOf(calls[c].doc) /\ calls'[c].req \in calls'[c].rows
  <1>1. calls \in [Calls -> Call]
    BY DEF IInv, TypeOK
  <1>2. CASE calls' = [calls EXCEPT ![c] = Come(c, calls[c].req, {})]
    BY <1>1, <1>2 DEF Come, LockDocument
  <1>3. CASE /\ calls[c].op \in {"edit", "void"}
             /\ calls' = [calls EXCEPT ![c] = Come(c, calls[c].req, {q \in RequestsOf(calls[c].doc) : requests[q].status \in Active})]
    BY <1>1, <1>3 DEF Come
  <1>4. ASSUME NEW q \in Latest(calls[c].doc), calls[c].op = "post",
               calls' = [calls EXCEPT ![c] = Come(c, q, {q})]
        PROVE  /\ \A b \in Calls : b # c => calls'[b] = calls[b]
               /\ calls'[c] = Come(c, q, {q})
               /\ q \in RequestsOf(calls[c].doc)
    BY <1>1, <1>4 DEF Latest
  <1>5. ASSUME NEW q \in Latest(calls[c].doc), calls[c].op = "post",
               calls' = [calls EXCEPT ![c] = Come(c, q, {q})]
        PROVE  /\ calls'[c].op = calls[c].op
               /\ calls'[c].doc = calls[c].doc
               /\ calls'[c].seen = docs[calls[c].doc].status
               /\ calls'[c].req = q
               /\ calls'[c].rows = calls[c].rows \cup {q}
    <2>1. calls'[c] = Come(c, q, {q})
      BY <1>1, <1>5
    <2> QED
      BY <2>1 DEF Come
  <1>6. CASE calls[c].op = "post" /\ \E q \in Latest(calls[c].doc) : calls' = [calls EXCEPT ![c] = Come(c, q, {q})]
    BY <1>4, <1>5, <1>6
  <1> QED
    BY <1>2, <1>3, <1>6 DEF LockDocument

LEMMA LockDocumentKeeps ==
    ASSUME IInv, RowsAssumption, NEW c \in Calls, LockDocument(c)
    PROVE  IInv'
  <1> DEFINE d == calls[c].doc
             k == calls'[c]
  <1>1. /\ d \in calls[c].rows /\ locks[d] = NoRow
        /\ calls[c].op \in OnDocument \cup {"approve"}
        /\ locks' = [locks EXCEPT ![d] = c]
        /\ UNCHANGED <<docs, requests, posted>>
    BY DEF LockDocument, Wanted
  <1>2. TypeOK' /\ calls[c] \in Call /\ CallOK(c)
    BY LockDocumentType DEF IInv, TypeOK
  <1>3. d \in Docs /\ d \in Rows
    BY <1>1, <1>2 DEF CallOK, OnDocumentOK, OnRequestOK, OnRequest, IInv, RequestsAreOfDocs, Rows
  <1>4. /\ k.op = calls[c].op /\ k.doc = d /\ k.seen = docs[d].status
        /\ calls[c].rows \subseteq k.rows
        /\ calls[c].op # "post" => k.req = calls[c].req
        /\ calls[c].op = "approve" => k.rows = calls[c].rows
        /\ calls[c].op \in {"edit", "void"} => {q \in RequestsOf(d) : requests[q].status \in Active} \subseteq k.rows
        /\ calls[c].op = "post" => k.req = calls[c].req \/ (k.req \in RequestsOf(d) /\ k.req \in k.rows)
    BY LockDocumentCall
  <1>5. OnDocumentOK(c)'
    BY <1>1, <1>2, <1>4 DEF CallOK, OnDocumentOK
  <1>6. OnRequestOK(c)'
    <2> SUFFICES ASSUME k.op \in OnRequest
                 PROVE  OnRequestOK(c)'
      BY Zenon DEF OnRequestOK, OnRequest
    <2>1. calls[c].op = "approve" /\ calls[c].op \in OnRequest
      BY <1>1, <1>4 DEF OnDocument, OnRequest
    <2>2. OnRequestOK(c)
      BY <1>2 DEF CallOK
    <2> QED
      BY <2>1, <2>2, <1>1, <1>4 DEF OnRequestOK
  <1>7. ApproverOK(c)'
    <2> SUFFICES ASSUME k.op = "approve", k.doc \in k.rows
                 PROVE  locks'[k.req] = c /\ requests'[k.req].status = "SUBMITTED"
      BY Zenon DEF ApproverOK
    <2>1. /\ calls[c].op = "approve" /\ d \in calls[c].rows /\ k.req = calls[c].req
          /\ calls[c].req \in Requests
      BY <1>2, <1>4 DEF CallOK, OnRequestOK, OnRequest
    <2>2. locks[calls[c].req] = c /\ requests[calls[c].req].status = "SUBMITTED"
      BY <2>1, <1>2 DEF CallOK, ApproverOK
    <2>3. locks'[calls[c].req] = c
      BY <2>1, <2>2, <1>1, <1>3, LockFacts DEF Rows
    <2> QED
      BY <2>1, <2>2, <2>3, <1>1
  <1>8. WriterOK(c)'
    BY <1>1, <1>4 DEF WriterOK
  <1>9. CoversOpen(c)'
    BY <1>1, <1>4 DEF CoversOpen, RequestsOf, Active
  <1>10. ChosenOK(c)'
    <2> SUFFICES ASSUME k.op = "post", k.req # NoRow
                 PROVE  /\ k.req \in Requests
                        /\ k.req \in k.rows
                        /\ requests[k.req].status # "none"
                        /\ requests[k.req].doc = d
      BY <1>1, <1>4, Zenon DEF ChosenOK
    <2> QED
      BY <1>2, <1>4 DEF CallOK, ChosenOK, RequestsOf
  <1>11. CallOK(c)'
    BY <1>5, <1>6, <1>7, <1>8, <1>9, <1>10 DEF CallOK
  <1> QED
    BY <1>1, <1>2, <1>3, <1>4, <1>11, LockDocumentCall, LockKeeps

LEMMA LockRequestKeeps ==
    ASSUME IInv, RowsAssumption, NEW c \in Calls, NEW r \in Requests, LockRequest(c, r)
    PROVE  IInv'
  <1> DEFINE k == calls'[c]
  <1>1. /\ r \in calls[c].rows /\ locks[r] = NoRow /\ r \in Rows
        /\ locks' = [locks EXCEPT ![r] = c]
        /\ UNCHANGED <<docs, requests, posted>>
    BY DEF LockRequest, Wanted, Rows
  <1>2. calls[c] \in Call /\ CallOK(c)
    BY DEF IInv, TypeOK
  <1>3. calls[c].op = "approve" => calls[c].doc \in Docs /\ calls[c].req \in Requests
    BY <1>2 DEF CallOK, OnRequestOK, OnRequest, IInv, RequestsAreOfDocs
  <1>4. TypeOK'
    BY <1>3, LockRequestType DEF IInv
  <1>5. /\ \A b \in Calls : b # c => calls'[b] = calls[b]
        /\ k.op = calls[c].op /\ k.doc = calls[c].doc /\ k.seen = calls[c].seen /\ k.req = calls[c].req
        /\ calls[c].rows \subseteq k.rows /\ k.rows \subseteq calls[c].rows \cup {calls[c].doc}
        /\ k.rows = calls[c].rows \/ (calls[c].op = "approve" /\ requests[r].status = "SUBMITTED")
    BY <1>2 DEF LockRequest, IInv, TypeOK, Call
  <1>6. \A x \in Docs : locks'[x] = locks[x]
    BY <1>1, LockFacts DEF Rows, RowsAssumption
  <1>7. OnDocumentOK(c)' /\ OnRequestOK(c)' /\ ChosenOK(c)'
    BY <1>1, <1>2, <1>5 DEF CallOK, OnDocumentOK, OnRequestOK, ChosenOK
  <1>8. calls[c].op \in {"edit", "void", "post"} => calls[c].doc \in Docs
    BY <1>2 DEF CallOK, OnDocumentOK, OnDocument
  <1>9. WriterOK(c)' /\ CoversOpen(c)'
    BY <1>1, <1>2, <1>5, <1>6, <1>8 DEF CallOK, WriterOK, CoversOpen
  <1>10. ApproverOK(c)'
    <2> SUFFICES ASSUME k.op = "approve", k.doc \in k.rows
                 PROVE  locks'[k.req] = c /\ requests'[k.req].status = "SUBMITTED"
      BY Zenon DEF ApproverOK
    <2>1. calls[c].op = "approve" /\ k.req = calls[c].req /\ calls[c].req \in Requests
      BY <1>3, <1>5
    <2>2. CASE calls[c].doc \in calls[c].rows
      <3>1. locks[calls[c].req] = c /\ requests[calls[c].req].status = "SUBMITTED"
        BY <2>1, <2>2, <1>2 DEF CallOK, ApproverOK
      <3>2. locks'[calls[c].req] = c
        BY <2>1, <3>1, <1>1, LockFacts DEF Rows
      <3> QED
        BY <2>1, <3>1, <3>2, <1>1
    <2>3. CASE calls[c].doc \notin calls[c].rows
      <3>1. requests[r].status = "SUBMITTED"
        BY <2>3, <1>5
      <3>2. r = calls[c].req
        BY <1>1, <1>2, <1>3, <2>1 DEF CallOK, OnRequestOK, OnRequest, RowsAssumption
      <3> QED
        BY <2>1, <3>1, <3>2, <1>1, LockFacts
    <2> QED
      BY <2>2, <2>3
  <1>11. CallOK(c)'
    BY <1>7, <1>9, <1>10 DEF CallOK
  <1> QED
    BY <1>1, <1>4, <1>5, <1>11, LockKeeps

-----------------------------------------------------------------------------
(* The inductive invariant.                                                *)

LEMMA InitIInv == ASSUME RowsAssumption, BoundsAssumption, Init PROVE IInv
  <1>1. TypeOK
    BY InitType
  <1>2. LocksAreCalls /\ RequestsAreOfDocs
    BY DEF Init, LocksAreCalls, RequestsAreOfDocs, RowsAssumption
  <1>3. ASSUME NEW c \in Calls PROVE CallOK(c)
    BY <1>3 DEF Init, Idle, CallOK, OnDocumentOK, OnRequestOK, ApproverOK, WriterOK, CoversOpen, ChosenOK, OnDocument, OnRequest
  <1>4. GrantIsCurrent /\ PostedByGrant
    BY DEF Init, GrantIsCurrent, PostedByGrant, RequestsOf
  <1> QED
    BY <1>1, <1>2, <1>3, <1>4 DEF IInv

LEMMA NextIInv == ASSUME RowsAssumption, BoundsAssumption, IInv, [Next]_vars PROVE IInv'
  <1>1. CASE \E d \in Docs : Create(d)
    BY <1>1, CreateKeeps
  <1>2. CASE \E c \in Calls, d \in Docs, op \in OnDocument : AskDocument(c, op, d)
    BY <1>2, AskDocumentKeeps
  <1>3. CASE \E c \in Calls, r \in Requests, op \in OnRequest : AskRequest(c, op, r)
    BY <1>3, AskRequestKeeps
  <1>4. CASE \E c \in Calls : LockDocument(c) \/ \E r \in Requests : LockRequest(c, r)
    BY <1>4, LockDocumentKeeps, LockRequestKeeps
  <1>5. CASE \E c \in Calls : Submit(c) \/ Approve(c) \/ Reject(c)
    BY <1>5, SubmitKeeps, ApproveKeeps, RejectKeeps
  <1>6. CASE \E c \in Calls : Edit(c) \/ Void(c) \/ Post(c)
    BY <1>6, EditKeeps, VoidKeeps, PostKeeps
  <1>7. CASE \E c \in Calls : Refuse(c) \/ BreakRing(c) \/ Lose(c)
    BY <1>7, NothingDone DEF Refuse, BreakRing, Lose
  <1>8. CASE UNCHANGED vars
    <2>1. UNCHANGED <<docs, requests, posted>> /\ UNCHANGED <<calls, locks>>
      BY <1>8 DEF vars
    <2>2. TypeOK' /\ LocksAreCalls'
      BY <2>1 DEF IInv, TypeOK, LocksAreCalls
    <2>3. ASSUME NEW c \in Calls PROVE CallOK(c)'
      BY <2>1, UntouchedCall, CallRows DEF IInv
    <2> QED
      BY <2>1, <2>2, <2>3, TablesKeep DEF IInv
  <1> QED
    BY <1>1, <1>2, <1>3, <1>4, <1>5, <1>6, <1>7, <1>8, Zenon DEF Next, Advance

THEOREM IInvHolds == ASSUME RowsAssumption, BoundsAssumption PROVE Spec => []IInv
  <1>1. Init => IInv
    BY InitIInv
  <1>2. IInv /\ [Next]_vars => IInv'
    BY NextIInv
  <1> QED
    BY <1>1, <1>2, PTL DEF Spec

\* The state keeps its shape, whatever calls meet.
THEOREM ApprovalTypes == ASSUME RowsAssumption, BoundsAssumption PROVE Spec => []TypeOK
  <1>1. IInv => TypeOK
    BY DEF IInv
  <1> QED
    BY <1>1, IInvHolds, PTL

\* invalidateApproval against approveRequestById: a request that stands approved
\* was approved for what its document says now.
THEOREM GrantsAreCurrent == ASSUME RowsAssumption, BoundsAssumption PROVE Spec => []GrantIsCurrent
  <1>1. IInv => GrantIsCurrent
    BY DEF IInv
  <1> QED
    BY <1>1, IInvHolds, PTL

\* consumeApproval inside the posting: a document is posted at most once, on one
\* request, in the version that was approved.
THEOREM PostingsAreGranted == ASSUME RowsAssumption, BoundsAssumption PROVE Spec => []PostedByGrant
  <1>1. IInv => PostedByGrant
    BY DEF IInv
  <1> QED
    BY <1>1, IInvHolds, PTL

-----------------------------------------------------------------------------
(* The job queue: the three writes keep a row a row.                       *)

LEMMA AfterFailureRow ==
    ASSUME NEW row \in Row, NEW n \in Nat, NEW due \in BOOLEAN
    PROVE  /\ AfterFailure(row, n, due) \in Row
           /\ AfterFailure(row, n, due).owner = NoWorker
           /\ AfterFailure(row, n, due).lease = "none"
           /\ AfterFailure(row, n, due).attempts = n
           /\ AfterFailure(row, n, due).status
                = IF n >= MaxRetries THEN "DEAD_LETTER" ELSE "PENDING"
  <1>1. (due /\ n < MaxRetries) \in BOOLEAN
    OBVIOUS
  <1>2. QED
    BY <1>1, JobAssumption DEF AfterFailure, Row, JobStatus

LEMMA ErasedType ==
    ASSUME NEW row \in Row, NEW n \in Nat
    PROVE  Erased(row, n) \in Nat
  BY DEF Erased, Row

LEMMA CompletedRow ==
    ASSUME NEW row \in Row
    PROVE  Completed(row) \in Row
  BY DEF Completed, Row, JobStatus

LEMMA InsertedRow ==
    ASSUME NEW row \in Row
    PROVE  Inserted(row) \in Row /\ Requeued(row) \in Row
  BY DEF Inserted, Requeued, Row, JobStatus

LEMMA ClaimedRow ==
    ASSUME NEW row \in Row, NEW name \in Names
    PROVE  Claimed(row, name) \in Row
  BY DEF Claimed, Row, JobStatus

\* Every variable keeps its type: rows, snapshots, batches and counters.
THEOREM TypeCorrect == QueueSpec => []QueueTypeOK
  <1>1. QueueInit => QueueTypeOK
    BY JobAssumption DEF QueueInit, QueueTypeOK, Row, JobStatus, PcValues, Snapshot
  <1>2. QueueTypeOK /\ [QueueNext]_queueVars => QueueTypeOK'
    <2> SUFFICES ASSUME QueueTypeOK, [QueueNext]_queueVars
                 PROVE  QueueTypeOK'
      OBVIOUS
    <2> USE DEF QueueTypeOK, tickVars
    <2>1. ASSUME NEW j \in Jobs, Schedule(j)
          PROVE  QueueTypeOK'
      BY <2>1, InsertedRow DEF Schedule
    <2>2. ASSUME NEW j \in Jobs, RetryFailedJob(j)
          PROVE  QueueTypeOK'
      BY <2>2, InsertedRow DEF RetryFailedJob
    <2>3. ASSUME NEW j \in Jobs, Expire(j)
          PROVE  QueueTypeOK'
      BY <2>3 DEF Expire, Row
    <2>4. ASSUME NEW j \in Jobs, BackoffOver(j)
          PROVE  QueueTypeOK'
      BY <2>4 DEF BackoffOver, Row
    <2>5. ASSUME NEW t \in Ticks, Wake(t)
          PROVE  QueueTypeOK'
      <3>1. {[job |-> j, attempts |-> jobs[j].attempts] : j \in ExpiredRows}
              \in SUBSET Snapshot
        BY DEF ExpiredRows, Snapshot, Row
      <3>2. QED
        BY <2>5, <3>1 DEF Wake, PcValues
    <2>6. ASSUME NEW t \in Ticks, RecoverRow(t)
          PROVE  QueueTypeOK'
      <3>1. PICK r \in snap[t] :
                 /\ jobs' = [jobs EXCEPT ![r.job] = AfterFailure(@, r.attempts + 1, TRUE)]
                 /\ lost' = [lost EXCEPT ![r.job] = @ + Erased(jobs[r.job], r.attempts)]
                 /\ snap' = [snap EXCEPT ![t] = @ \ {r}]
        BY <2>6 DEF RecoverRow
      <3>2. r.job \in Jobs /\ r.attempts \in Nat /\ r.attempts + 1 \in Nat
        BY DEF Snapshot
      <3>3. /\ AfterFailure(jobs[r.job], r.attempts + 1, TRUE) \in Row
            /\ Erased(jobs[r.job], r.attempts) \in Nat
        BY <3>2, AfterFailureRow, ErasedType
      <3>4. lost' \in [Jobs -> Nat]
        <4>1. lost[r.job] + Erased(jobs[r.job], r.attempts) \in Nat
          BY <3>2, <3>3
        <4>2. QED
          BY <3>1, <4>1
      <3>5. jobs' \in [Jobs -> Row]
        BY <3>1, <3>3
      <3>6. snap' \in [Ticks -> SUBSET Snapshot]
        BY <3>1
      <3>7. QED
        BY <2>6, <3>4, <3>5, <3>6 DEF RecoverRow
    <2>7. ASSUME NEW t \in Ticks, Claim(t)
          PROVE  QueueTypeOK'
      <3>1. PICK S \in SUBSET DueRows :
                 /\ jobs' = [j \in Jobs |-> IF j \in S THEN Claimed(jobs[j], WorkerOf[t])
                                                       ELSE jobs[j]]
                 /\ claims' = [j \in Jobs |-> IF j \in S THEN claims[j] + 1
                                                       ELSE claims[j]]
                 /\ batch' = [batch EXCEPT ![t] = S]
                 /\ pc' = [pc EXCEPT ![t] = IF S = {} THEN "idle" ELSE "picking"]
        BY <2>7 DEF Claim
      <3>2. S \in SUBSET Jobs
        BY DEF DueRows
      <3>3. \A j \in Jobs : Claimed(jobs[j], WorkerOf[t]) \in Row
        BY ClaimedRow, JobAssumption
      <3>4. QED
        BY <2>7, <3>1, <3>2, <3>3 DEF Claim, PcValues
    <2>8. ASSUME NEW t \in Ticks, Start(t)
          PROVE  QueueTypeOK'
      BY <2>8 DEF Start, PcValues
    <2>9. ASSUME NEW t \in Ticks, CompleteRead(t)
          PROVE  QueueTypeOK'
      BY <2>9 DEF CompleteRead, NextJob, PcValues
    <2>10. ASSUME NEW t \in Ticks, CompleteWrite(t)
           PROVE  QueueTypeOK'
      <3>1. cur[t] \in Jobs /\ Completed(jobs[cur[t]]) \in Row
        BY <2>10, CompletedRow DEF CompleteWrite
      <3>2. QED
        BY <2>10, <3>1 DEF CompleteWrite, PcValues
    <2>11. ASSUME NEW t \in Ticks, LogRun(t)
           PROVE  QueueTypeOK'
      BY <2>11 DEF LogRun, NextJob, PcValues
    <2>12. ASSUME NEW t \in Ticks, FailRead(t)
           PROVE  QueueTypeOK'
      <3>1. cur[t] \in Jobs /\ jobs[cur[t]].attempts \in Nat
        BY <2>12 DEF FailRead, Row
      <3>2. QED
        BY <2>12, <3>1 DEF FailRead, PcValues
    <2>13. ASSUME NEW t \in Ticks, FailWrite(t)
           PROVE  QueueTypeOK'
      <3>a. cur[t] \in Jobs /\ seen[t] \in Nat /\ seen[t] + 1 \in Nat
        BY <2>13 DEF FailWrite
      <3>1. /\ cur[t] \in Jobs /\ AfterFailure(jobs[cur[t]], seen[t] + 1, FALSE) \in Row
            /\ Erased(jobs[cur[t]], seen[t]) \in Nat
        BY <3>a, AfterFailureRow, ErasedType
      <3>2. lost' \in [Jobs -> Nat]
        <4>1. lost[cur[t]] + Erased(jobs[cur[t]], seen[t]) \in Nat
          BY <3>1
        <4>2. QED
          BY <2>13, <4>1 DEF FailWrite
      <3>3. jobs' \in [Jobs -> Row]
        BY <2>13, <3>1 DEF FailWrite
      <3>4. /\ pc' \in [Ticks -> PcValues] /\ cur' \in [Ticks -> Jobs \cup {NoJob}]
            /\ \A u \in Ticks : pc'[u] \in {"running", "completing", "logging", "failing"}
                                  => cur'[u] \in Jobs
            /\ seen' \in [Ticks -> Nat]
        BY <2>13 DEF FailWrite, NextJob, PcValues
      <3>5. QED
        BY <2>13, <3>2, <3>3, <3>4 DEF FailWrite
    <2>14. ASSUME NEW t \in Ticks, Abandon(t)
           PROVE  QueueTypeOK'
      BY <2>14 DEF Abandon, PcValues
    <2>15. CASE UNCHANGED queueVars
      BY <2>15 DEF queueVars
    <2>16. QED
      BY <2>1, <2>2, <2>3, <2>4, <2>5, <2>6, <2>7, <2>8, <2>9, <2>10, <2>11,
         <2>12, <2>13, <2>14, <2>15 DEF QueueNext, TickStep
  <1>3. QED
    BY <1>1, <1>2, PTL DEF QueueSpec

-----------------------------------------------------------------------------
(* The shape and the budget of every row.  Both are part of one condition on *)
(* a single row that each UPDATE establishes, whatever the row was before    *)
(* and however stale the attempt count it writes; the claim and the insert   *)
(* need it of the row they start from.                                       *)

RowOK(row) ==
    /\ (row.status = "PROCESSING") <=> (row.owner # NoWorker)
    /\ (row.status = "PROCESSING") <=> (row.lease # "none")
    /\ row.status \in {"PENDING", "PROCESSING"} => row.attempts < MaxRetries
    /\ row.status = "DEAD_LETTER" => row.attempts >= MaxRetries
    /\ row.status = "ABSENT" => row.attempts = 0

RowsOK == \A j \in Jobs : RowOK(jobs[j])

LEMMA AfterFailureOK ==
    ASSUME NEW row \in Row, NEW n \in Nat, NEW due \in BOOLEAN
    PROVE  RowOK(AfterFailure(row, n, due))
  BY AfterFailureRow, JobAssumption DEF RowOK

LEMMA WritesOK ==
    ASSUME NEW row \in Row
    PROVE  /\ RowOK(Completed(row))
           /\ RowOK(Requeued(row))
           /\ row.status = "ABSENT" /\ RowOK(row) => RowOK(Inserted(row))
  BY JobAssumption DEF RowOK, Completed, Requeued, Inserted, Row, JobStatus

LEMMA ClaimedOK ==
    ASSUME NEW row \in Row, NEW name \in Names, row.status = "PENDING", RowOK(row)
    PROVE  RowOK(Claimed(row, name))
  BY JobAssumption DEF RowOK, Claimed, Row, JobStatus

\* One row changes: the condition holds after the step if it holds of that row.
LEMMA OneRow ==
    ASSUME QueueTypeOK, RowsOK, NEW k \in Jobs, NEW row, RowOK(row),
           jobs' = [jobs EXCEPT ![k] = row]
    PROVE  RowsOK'
  <1>1. ASSUME NEW j \in Jobs
        PROVE  RowOK(jobs'[j])
    <2>1. CASE j = k
      BY <2>1 DEF QueueTypeOK
    <2>2. CASE j # k
      BY <2>2 DEF QueueTypeOK, RowsOK
    <2>3. QED
      BY <2>1, <2>2
  <1>2. QED
    BY <1>1 DEF RowsOK, RowOK

LEMMA RowsStep == QueueTypeOK /\ RowsOK /\ [QueueNext]_queueVars => RowsOK'
  <1> SUFFICES ASSUME QueueTypeOK, RowsOK, [QueueNext]_queueVars
               PROVE  RowsOK'
    OBVIOUS
  <1>1. ASSUME NEW j \in Jobs, Schedule(j)
        PROVE  RowsOK'
    <2>1. jobs[j] \in Row /\ RowOK(jobs[j]) /\ jobs[j].status = "ABSENT"
      BY <1>1 DEF QueueTypeOK, RowsOK, Schedule
    <2>2. RowOK(Inserted(jobs[j]))
      BY <2>1, WritesOK
    <2>3. QED
      BY <1>1, <2>2, OneRow DEF Schedule
  <1>2. ASSUME NEW j \in Jobs, RetryFailedJob(j)
        PROVE  RowsOK'
    <2>1. RowOK(Requeued(jobs[j]))
      BY WritesOK DEF QueueTypeOK
    <2>2. QED
      BY <1>2, <2>1, OneRow DEF RetryFailedJob
  <1>3. ASSUME NEW j \in Jobs, Expire(j)
        PROVE  RowsOK'
    <2>1. RowOK([jobs[j] EXCEPT !.lease = "expired"])
      BY <1>3 DEF Expire, QueueTypeOK, RowsOK, RowOK, Row, JobStatus
    <2>2. jobs' = [jobs EXCEPT ![j] = [jobs[j] EXCEPT !.lease = "expired"]]
      BY <1>3 DEF Expire
    <2>3. QED
      BY <2>1, <2>2, OneRow
  <1>4. ASSUME NEW j \in Jobs, BackoffOver(j)
        PROVE  RowsOK'
    <2>1. RowOK([jobs[j] EXCEPT !.due = TRUE])
      BY <1>4 DEF BackoffOver, QueueTypeOK, RowsOK, RowOK, Row, JobStatus
    <2>2. jobs' = [jobs EXCEPT ![j] = [jobs[j] EXCEPT !.due = TRUE]]
      BY <1>4 DEF BackoffOver
    <2>3. QED
      BY <2>1, <2>2, OneRow
  <1>5. ASSUME NEW t \in Ticks, RecoverRow(t)
        PROVE  RowsOK'
    <2>1. PICK r \in snap[t] :
               jobs' = [jobs EXCEPT ![r.job] = AfterFailure(@, r.attempts + 1, TRUE)]
      BY <1>5 DEF RecoverRow
    <2>2. r.job \in Jobs /\ r.attempts + 1 \in Nat /\ jobs[r.job] \in Row
      BY DEF QueueTypeOK, Snapshot
    <2>3. RowOK(AfterFailure(jobs[r.job], r.attempts + 1, TRUE))
      BY <2>2, AfterFailureOK
    <2>4. QED
      BY <2>1, <2>2, <2>3, OneRow
  <1>6. ASSUME NEW t \in Ticks, Claim(t)
        PROVE  RowsOK'
    <2>1. PICK S \in SUBSET DueRows :
               jobs' = [j \in Jobs |-> IF j \in S THEN Claimed(jobs[j], WorkerOf[t])
                                                   ELSE jobs[j]]
      BY <1>6 DEF Claim
    <2>2. ASSUME NEW j \in Jobs
          PROVE  RowOK(jobs'[j])
      <3>1. CASE j \in S
        <4>1. jobs[j] \in Row /\ RowOK(jobs[j]) /\ jobs[j].status = "PENDING"
          BY <3>1 DEF DueRows, QueueTypeOK, RowsOK
        <4>2. RowOK(Claimed(jobs[j], WorkerOf[t]))
          BY <4>1, ClaimedOK, JobAssumption
        <4>3. QED
          BY <2>1, <3>1, <4>2
      <3>2. CASE j \notin S
        BY <2>1, <3>2 DEF RowsOK
      <3>3. QED
        BY <3>1, <3>2
    <2>3. QED
      BY <2>2 DEF RowsOK, RowOK
  <1>7. ASSUME NEW t \in Ticks, CompleteWrite(t)
        PROVE  RowsOK'
    <2>1. CASE MayComplete(jobs[cur[t]], WorkerOf[t])
      <3>1. cur[t] \in Jobs /\ jobs[cur[t]] \in Row
        BY <1>7 DEF CompleteWrite, QueueTypeOK
      <3>2. RowOK(Completed(jobs[cur[t]]))
        BY <3>1, WritesOK
      <3>3. QED
        BY <1>7, <2>1, <3>1, <3>2, OneRow DEF CompleteWrite
    <2>2. CASE ~MayComplete(jobs[cur[t]], WorkerOf[t])
      BY <1>7, <2>2 DEF CompleteWrite, RowsOK, RowOK
    <2>3. QED
      BY <2>1, <2>2
  <1>8. ASSUME NEW t \in Ticks, FailWrite(t)
        PROVE  RowsOK'
    <2>1. cur[t] \in Jobs /\ seen[t] + 1 \in Nat /\ jobs[cur[t]] \in Row
      BY <1>8 DEF FailWrite, QueueTypeOK
    <2>2. RowOK(AfterFailure(jobs[cur[t]], seen[t] + 1, FALSE))
      BY <2>1, AfterFailureOK
    <2>3. QED
      BY <1>8, <2>1, <2>2, OneRow DEF FailWrite
  <1>9. ASSUME UNCHANGED jobs
        PROVE  RowsOK'
    BY <1>9 DEF RowsOK, RowOK
  <1>10. QED
    BY <1>1, <1>2, <1>3, <1>4, <1>5, <1>6, <1>7, <1>8, <1>9
       DEF QueueNext, TickStep, Wake, Start, CompleteRead, LogRun, FailRead, Abandon, queueVars

LEMMA RowsInit == QueueInit => RowsOK
  BY JobAssumption DEF QueueInit, RowsOK, RowOK

\* A row has a lease exactly while it is PROCESSING, a row that can still be
\* claimed has an attempt left, and a dead letter has none: for any number of
\* overlapping ticks, under any worker ids.
THEOREM ShapeAndBudget == QueueSpec => [](LeaseShape /\ RetryBudget)
  <1>1. RowsOK => LeaseShape /\ RetryBudget
    BY DEF RowsOK, RowOK, LeaseShape, RetryBudget
  <1>2. QED
    BY <1>1, TypeCorrect, RowsInit, RowsStep, PTL DEF QueueSpec

-----------------------------------------------------------------------------
(* Every claim is accounted for: by an attempt the row shows, by one that a  *)
(* stale write took off it, or by the claim whose outcome is still to come.  *)
(* The condition is again on one row, with its two history counters.         *)

CountOK(row, c, l) ==
    /\ c <= row.attempts + l + 1
    /\ row.status \in {"ABSENT", "PENDING", "DEAD_LETTER"} => c <= row.attempts + l
    /\ c <= MaxRetries + l

CountsOK == \A j \in Jobs : CountOK(jobs[j], claims[j], lost[j])

\* A failure adds an attempt, or takes off what the history then counts as lost.
LEMMA FailureCounted ==
    ASSUME NEW row \in Row, NEW due \in BOOLEAN, NEW n \in Nat, NEW c \in Nat,
           NEW l \in Nat, CountOK(row, c, l)
    PROVE  CountOK(AfterFailure(row, n + 1, due), c, l + Erased(row, n))
  <1>1. row.attempts \in Nat /\ AfterFailure(row, n + 1, due).attempts = n + 1
    BY AfterFailureRow DEF Row
  <1>2. /\ Erased(row, n) \in Nat
        /\ n + 1 + (l + Erased(row, n)) >= row.attempts + l + 1
    BY <1>1 DEF Erased
  <1>3. QED
    BY <1>1, <1>2, JobAssumption DEF CountOK

\* A claim takes a row that is due, which has an attempt left.
LEMMA ClaimCounted ==
    ASSUME NEW row \in Row, NEW name \in Names, NEW c \in Nat, NEW l \in Nat,
           row.status = "PENDING", RowOK(row), CountOK(row, c, l)
    PROVE  CountOK(Claimed(row, name), c + 1, l)
  <1>1. /\ Claimed(row, name).attempts = row.attempts
        /\ Claimed(row, name).status = "PROCESSING"
        /\ row.attempts \in Nat /\ row.attempts < MaxRetries /\ c <= row.attempts + l
    BY DEF Claimed, Row, RowOK, CountOK
  <1>2. QED
    BY <1>1, JobAssumption DEF CountOK

\* The other writes leave the count alone, or start it again.
LEMMA OthersCounted ==
    ASSUME NEW row \in Row, NEW c \in Nat, NEW l \in Nat, CountOK(row, c, l)
    PROVE  /\ CountOK(Completed(row), c, l)
           /\ row.status = "ABSENT" => CountOK(Inserted(row), c, l)
           /\ CountOK(Requeued(row), 0, 0)
           /\ CountOK([row EXCEPT !.lease = "expired"], c, l)
           /\ CountOK([row EXCEPT !.due = TRUE], c, l)
  BY JobAssumption DEF CountOK, Completed, Inserted, Requeued, Row, JobStatus

\* One row changes, with its counters.
LEMMA OneCount ==
    ASSUME QueueTypeOK, CountsOK, NEW k \in Jobs, NEW row, NEW c, NEW l,
           CountOK(row, c, l),
           jobs' = [jobs EXCEPT ![k] = row],
           claims' = [claims EXCEPT ![k] = c],
           lost' = [lost EXCEPT ![k] = l]
    PROVE  CountsOK'
  <1>1. ASSUME NEW j \in Jobs
        PROVE  CountOK(jobs'[j], claims'[j], lost'[j])
    <2>1. CASE j = k
      BY <2>1 DEF QueueTypeOK
    <2>2. CASE j # k
      BY <2>2 DEF QueueTypeOK, CountsOK
    <2>3. QED
      BY <2>1, <2>2
  <1>2. QED
    BY <1>1 DEF CountsOK, CountOK

\* One row changes, and its counters do not.
LEMMA OneRowCount ==
    ASSUME QueueTypeOK, CountsOK, NEW k \in Jobs, NEW row,
           CountOK(row, claims[k], lost[k]),
           jobs' = [jobs EXCEPT ![k] = row], UNCHANGED <<claims, lost>>
    PROVE  CountsOK'
  <1>1. ASSUME NEW j \in Jobs
        PROVE  CountOK(jobs'[j], claims'[j], lost'[j])
    <2>1. CASE j = k
      BY <2>1 DEF QueueTypeOK
    <2>2. CASE j # k
      BY <2>2 DEF QueueTypeOK, CountsOK
    <2>3. QED
      BY <2>1, <2>2
  <1>2. QED
    BY <1>1 DEF CountsOK, CountOK

LEMMA CountsStep == QueueTypeOK /\ RowsOK /\ CountsOK /\ [QueueNext]_queueVars => CountsOK'
  <1> SUFFICES ASSUME QueueTypeOK, RowsOK, CountsOK, [QueueNext]_queueVars
               PROVE  CountsOK'
    OBVIOUS
  <1>a. ASSUME NEW j \in Jobs
        PROVE  /\ jobs[j] \in Row /\ claims[j] \in Nat /\ lost[j] \in Nat
               /\ RowOK(jobs[j]) /\ CountOK(jobs[j], claims[j], lost[j])
    BY DEF QueueTypeOK, RowsOK, CountsOK
  <1>1. ASSUME NEW j \in Jobs, Schedule(j)
        PROVE  CountsOK'
    <2>1. CountOK(Inserted(jobs[j]), claims[j], lost[j])
      BY <1>1, <1>a, OthersCounted DEF Schedule
    <2>2. QED
      BY <1>1, <2>1, OneRowCount DEF Schedule
  <1>2. ASSUME NEW j \in Jobs, RetryFailedJob(j)
        PROVE  CountsOK'
    <2>1. CountOK(Requeued(jobs[j]), 0, 0)
      BY <1>a, OthersCounted
    <2>2. QED
      BY <1>2, <2>1, OneCount DEF RetryFailedJob
  <1>3. ASSUME NEW j \in Jobs, Expire(j)
        PROVE  CountsOK'
    <2>1. CountOK([jobs[j] EXCEPT !.lease = "expired"], claims[j], lost[j])
      BY <1>a, OthersCounted
    <2>2. jobs' = [jobs EXCEPT ![j] = [jobs[j] EXCEPT !.lease = "expired"]]
      BY <1>3 DEF Expire
    <2>3. QED
      BY <1>3, <2>1, <2>2, OneRowCount DEF Expire
  <1>4. ASSUME NEW j \in Jobs, BackoffOver(j)
        PROVE  CountsOK'
    <2>1. CountOK([jobs[j] EXCEPT !.due = TRUE], claims[j], lost[j])
      BY <1>a, OthersCounted
    <2>2. jobs' = [jobs EXCEPT ![j] = [jobs[j] EXCEPT !.due = TRUE]]
      BY <1>4 DEF BackoffOver
    <2>3. QED
      BY <1>4, <2>1, <2>2, OneRowCount DEF BackoffOver
  <1>5. ASSUME NEW t \in Ticks, RecoverRow(t)
        PROVE  CountsOK'
    <2>1. PICK r \in snap[t] :
               /\ jobs' = [jobs EXCEPT ![r.job] = AfterFailure(@, r.attempts + 1, TRUE)]
               /\ lost' = [lost EXCEPT ![r.job] = @ + Erased(jobs[r.job], r.attempts)]
      BY <1>5 DEF RecoverRow
    <2>2. r.job \in Jobs /\ r.attempts \in Nat
      BY DEF QueueTypeOK, Snapshot
    <2>3. CountOK(AfterFailure(jobs[r.job], r.attempts + 1, TRUE), claims[r.job],
                  lost[r.job] + Erased(jobs[r.job], r.attempts))
      BY <2>2, <1>a, FailureCounted
    <2>4. claims' = [claims EXCEPT ![r.job] = claims[r.job]]
      BY <1>5, <2>2 DEF RecoverRow, QueueTypeOK
    <2>5. QED
      BY <2>1, <2>2, <2>3, <2>4, OneCount
  <1>6. ASSUME NEW t \in Ticks, Claim(t)
        PROVE  CountsOK'
    <2>1. PICK S \in SUBSET DueRows :
               /\ jobs' = [j \in Jobs |-> IF j \in S THEN Claimed(jobs[j], WorkerOf[t])
                                                     ELSE jobs[j]]
               /\ claims' = [j \in Jobs |-> IF j \in S THEN claims[j] + 1 ELSE claims[j]]
      BY <1>6 DEF Claim
    <2>2. ASSUME NEW j \in Jobs
          PROVE  CountOK(jobs'[j], claims'[j], lost'[j])
      <3>1. lost'[j] = lost[j]
        BY <1>6 DEF Claim
      <3>2. CASE j \in S
        <4>1. jobs[j].status = "PENDING"
          BY <3>2 DEF DueRows
        <4>2. CountOK(Claimed(jobs[j], WorkerOf[t]), claims[j] + 1, lost[j])
          BY <4>1, <1>a, ClaimCounted, JobAssumption
        <4>3. QED
          BY <2>1, <3>1, <3>2, <4>2
      <3>3. CASE j \notin S
        BY <2>1, <3>1, <3>3, <1>a
      <3>4. QED
        BY <3>2, <3>3
    <2>3. QED
      BY <2>2 DEF CountsOK, CountOK
  <1>7. ASSUME NEW t \in Ticks, CompleteWrite(t)
        PROVE  CountsOK'
    <2>1. CASE MayComplete(jobs[cur[t]], WorkerOf[t])
      <3>1. cur[t] \in Jobs
        BY <1>7 DEF CompleteWrite, QueueTypeOK
      <3>2. CountOK(Completed(jobs[cur[t]]), claims[cur[t]], lost[cur[t]])
        BY <3>1, <1>a, OthersCounted
      <3>3. QED
        BY <1>7, <2>1, <3>1, <3>2, OneRowCount DEF CompleteWrite
    <2>2. CASE ~MayComplete(jobs[cur[t]], WorkerOf[t])
      BY <1>7, <2>2 DEF CompleteWrite, CountsOK, CountOK
    <2>3. QED
      BY <2>1, <2>2
  <1>8. ASSUME NEW t \in Ticks, FailWrite(t)
        PROVE  CountsOK'
    <2>1. cur[t] \in Jobs /\ seen[t] \in Nat
      BY <1>8 DEF FailWrite, QueueTypeOK
    <2>2. CountOK(AfterFailure(jobs[cur[t]], seen[t] + 1, FALSE), claims[cur[t]],
                  lost[cur[t]] + Erased(jobs[cur[t]], seen[t]))
      BY <2>1, <1>a, FailureCounted
    <2>3. claims' = [claims EXCEPT ![cur[t]] = claims[cur[t]]]
      BY <1>8, <2>1 DEF FailWrite, QueueTypeOK
    <2>4. QED
      BY <1>8, <2>1, <2>2, <2>3, OneCount DEF FailWrite
  <1>9. ASSUME UNCHANGED <<jobs, claims, lost>>
        PROVE  CountsOK'
    BY <1>9 DEF CountsOK, CountOK
  <1>10. QED
    BY <1>1, <1>2, <1>3, <1>4, <1>5, <1>6, <1>7, <1>8, <1>9
       DEF QueueNext, TickStep, Wake, Start, CompleteRead, LogRun, FailRead, Abandon, queueVars

\* No job is claimed more often than max_retries and the attempts that stale
\* writes erased allow: for any number of overlapping ticks, under any worker
\* ids, shared or not, whatever crashes and expires in between.
THEOREM ClaimsAreExplained == QueueSpec => []ClaimsExplained
  <1>1. QueueInit => CountsOK
    BY JobAssumption DEF QueueInit, CountsOK, CountOK
  <1>2. CountsOK => ClaimsExplained
    BY DEF CountsOK, CountOK, ClaimsExplained
  <1>3. QED
    BY <1>1, <1>2, TypeCorrect, RowsInit, RowsStep, CountsStep, PTL DEF QueueSpec

=============================================================================

--------------------------- MODULE OccurrenceLedger ---------------------------
(***************************************************************************)
(* What recurring transactions promise, seen from the ledger: a scheduled  *)
(* occurrence is planned once, is open until a document is posted for it   *)
(* or it is put aside for an operator, and a document is posted for it at  *)
(* most once and for good.  How runs, leases and retries bring this about  *)
(* is the business of RecurringOccurrences, which implements this module.  *)
(***************************************************************************)
EXTENDS Naturals

CONSTANT Occurrences

VARIABLES
    stage,     \* of each occurrence
    documents  \* how many documents are posted for it

Stages == {"unplanned", "open", "posted", "aside"}

Init ==
    /\ stage = [o \in Occurrences |-> "unplanned"]
    /\ documents = [o \in Occurrences |-> 0]

Opens(o) ==
    /\ stage[o] \in {"unplanned", "aside"}
    /\ stage'[o] = "open"
    /\ documents'[o] = documents[o]

\* A run by hand plans an occurrence and posts it, or gives it up, in a single
\* transaction.
Posts(o) ==
    /\ stage[o] \in {"unplanned", "open"}
    /\ stage'[o] = "posted"
    /\ documents'[o] = documents[o] + 1

PutsAside(o) ==
    /\ stage[o] \in {"unplanned", "open"}
    /\ stage'[o] = "aside"
    /\ documents'[o] = documents[o]

Stays(o) ==
    /\ stage'[o] = stage[o]
    /\ documents'[o] = documents[o]

\* One transaction may move several occurrences.
Next ==
    /\ stage' \in [Occurrences -> Stages]
    /\ documents' \in [Occurrences -> Nat]
    /\ \A o \in Occurrences : Opens(o) \/ Posts(o) \/ PutsAside(o) \/ Stays(o)

Spec == Init /\ [][Next]_<<stage, documents>>
===============================================================================

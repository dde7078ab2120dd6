---------------------------- MODULE CommandLedger ----------------------------
(***************************************************************************)
(* What an idempotency key promises: the command issued under it is carried *)
(* out completely and once, or refused, and the outcome, once there, is the *)
(* outcome for good: nothing is done under the key before it or after it.   *)
(* A refused command may leave some of its statements behind, since the     *)
(* gate rolls back for server errors only.  Requests, retries, locks and    *)
(* lost answers are the business of IdempotencyGate, which implements this  *)
(* module.                                                                  *)
(***************************************************************************)
EXTENDS Naturals

CONSTANTS
    Keys,
    Commands,   \* what can be asked for
    Whole       \* the statements of one command

VARIABLES
    outcome,    \* of each key
    performed   \* statements carried out for good under each key

Pending == [command |-> "none", verdict |-> "pending"]

Outcomes == {Pending} \cup [command : Commands, verdict : {"ok", "refused"}]

Init ==
    /\ outcome = [k \in Keys |-> Pending]
    /\ performed = [k \in Keys |-> 0]

CarryOut(k, c) ==
    /\ outcome[k] = Pending
    /\ outcome' = [outcome EXCEPT ![k] = [command |-> c, verdict |-> "ok"]]
    /\ performed' = [performed EXCEPT ![k] = Whole]

TurnDown(k, c) ==
    /\ outcome[k] = Pending
    /\ outcome' = [outcome EXCEPT ![k] = [command |-> c, verdict |-> "refused"]]
    /\ \E kept \in 0 .. Whole : performed' = [performed EXCEPT ![k] = kept]

Next == \E k \in Keys, c \in Commands : CarryOut(k, c) \/ TurnDown(k, c)

Spec == Init /\ [][Next]_<<outcome, performed>>
===============================================================================

---------------------------- MODULE MCJobScheduler ----------------------------
(***************************************************************************)
(* A small instance of JobScheduler for TLC.  As in the shipped processes, *)
(* every tick runs under the one name 'runtime-worker'.                    *)
(***************************************************************************)
EXTENDS JobScheduler

CONSTANTS runtimeWorker

SharedName == [t \in Ticks |-> runtimeWorker]
=============================================================================

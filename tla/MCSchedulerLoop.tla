--------------------------- MODULE MCSchedulerLoop ---------------------------
(***************************************************************************)
(* Instances of SchedulerLoop for TLC: serve.py's main thread and another  *)
(* thread that starts and stops the scheduler.                             *)
(***************************************************************************)
EXTENDS SchedulerLoop

CONSTANTS main, other

MCProgram == [c \in Callers |-> IF c = main THEN <<"get_broker", "start", "stop">>
                                            ELSE <<"start">>]

\* One webhook is told of everything, at most twice; one only of what is critical.
MCHooks == <<[min_severity |-> "warning", retry_attempts |-> 2],
             [min_severity |-> "critical", retry_attempts |-> 1]>>

MCNotices == [cycle : 1..MaxCycles, item : 1..MaxItems,
              severity : {"warning", "critical", "rollback"}]

\* An alert alone, or a rollback with the drift that caused it.
MCOutcomes == {[drifts |-> 0, alerts |-> <<"warning">>, rollback |-> FALSE],
               [drifts |-> 1, alerts |-> <<>>, rollback |-> TRUE]}
=============================================================================

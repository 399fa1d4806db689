-------------------------- MODULE MCStatusSurfaces --------------------------
(***************************************************************************)
(* Instances of StatusSurfaces for TLC: the configuration of               *)
(* MCDetectionCycle, with clients of the surfaces.                         *)
(***************************************************************************)
EXTENDS StatusSurfaces

CONSTANTS scheduler, report          \* threads

MCCategories == {"fraud_claim", "routine"}
MCHighRisk   == {"fraud_claim"}
MCThresholds == [fraud_claim |-> [warning |-> 30, critical |-> 60, max_error_rate |-> 10],
                 routine     |-> [warning |-> 40, critical |-> 70, max_error_rate |-> 15]]
MCRules      == {[metric |-> "error_rate", operator |-> ">", threshold |-> 15],
                 [metric |-> "drift_score", operator |-> ">", threshold |-> 70]}
MCKind       == [t \in Threads |-> IF t = scheduler THEN "scheduler" ELSE "report"]

\* Drift that trips the gate, through the score or through the error rate alone.
Drifting == {<<[category |-> "fraud_claim", insufficient_data |-> FALSE,
                drift_score |-> 80, error_rate |-> 5]>>,
             <<[category |-> "fraud_claim", insufficient_data |-> FALSE,
                drift_score |-> 20, error_rate |-> 40]>>}
=============================================================================

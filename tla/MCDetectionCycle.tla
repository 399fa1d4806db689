-------------------------- MODULE MCDetectionCycle --------------------------
(***************************************************************************)
(* Instances of DetectionCycle for TLC: one high-risk and one routine      *)
(* category, with thresholds and rules of config/governance.yaml.          *)
(***************************************************************************)
EXTENDS DetectionCycle

CONSTANTS scheduler, run_now, report   \* threads
        , alice, bob                   \* operators

MCCategories == {"fraud_claim", "routine"}
MCHighRisk   == {"fraud_claim"}
MCThresholds == [fraud_claim |-> [warning |-> 30, critical |-> 60, max_error_rate |-> 10],
                 routine     |-> [warning |-> 40, critical |-> 70, max_error_rate |-> 15]]
MCRules      == {[metric |-> "error_rate", operator |-> ">", threshold |-> 15],
                 [metric |-> "drift_score", operator |-> ">", threshold |-> 70]}
MCKind       == [t \in Threads |-> IF t = scheduler THEN "scheduler"
                                   ELSE IF t = run_now THEN "run_now" ELSE "report"]

Result(c, score, rate) == [category |-> c, insufficient_data |-> FALSE,
                           drift_score |-> score, error_rate |-> rate]
NoData(c)              == [category |-> c, insufficient_data |-> TRUE,
                           drift_score |-> 0, error_rate |-> 0]

\* Drift that trips the gate, through the score or through the error rate alone.
Drifting  == {<<Result("fraud_claim", 80, 5), Result("routine", 0, 5)>>,
              <<Result("fraud_claim", 20, 40)>>}
\* ... and drift that must not: of the routine category, beside too little data.
TripOrNot == {<<Result("fraud_claim", 20, 40)>>,
              <<NoData("fraud_claim"), Result("routine", 45, 50)>>}
=============================================================================

--------------------------- MODULE GovernanceRules ---------------------------
(***************************************************************************)
(* What the governance service concludes from the drift results of one     *)
(* detection cycle: alerts (engine/alerts.py) and the rollback verdict     *)
(* (engine/rollback.py, governance/config.py), under                       *)
(* src/ai-governance-mvp/src.  Scores and rates are percentages.           *)
(***************************************************************************)
EXTENDS Naturals, Sequences

CONSTANTS Categories,       \* CaseCategory
          HighRisk,         \* the categories whose is_high_risk() is true
          Thresholds,       \* Categories -> thresholds_for(category)
          RollbackRules     \* the parsed rules of the configuration

Percent   == 0..100
Metrics   == {"drift_score", "error_rate"}
Operators == {">", ">=", "<", "<="}

ASSUME RulesAssumption ==
  /\ HighRisk \subseteq Categories
  /\ Thresholds \in [Categories -> [warning : Percent, critical : Percent, max_error_rate : Percent]]
  /\ RollbackRules \subseteq [metric : Metrics, operator : Operators, threshold : Percent]

\* A result without enough data carries no statistics: score and rate read as zero.
DriftResult == [category : Categories, insufficient_data : BOOLEAN,
                drift_score : Percent, error_rate : Percent]

RuleMatches(rule, r) ==
  LET subject == r[rule.metric] IN
    \/ rule.operator = ">"  /\ subject > rule.threshold
    \/ rule.operator = ">=" /\ subject >= rule.threshold
    \/ rule.operator = "<"  /\ subject < rule.threshold
    \/ rule.operator = "<=" /\ subject <= rule.threshold

\* RollbackEngine.evaluate: some high-risk category with enough data matches a rule.
ShouldRollback(found) ==
  \E i \in DOMAIN found :
    /\ found[i].category \in HighRisk
    /\ ~found[i].insufficient_data
    /\ \E rule \in RollbackRules : RuleMatches(rule, found[i])

\* AlertEngine: the severity of the alert a result raises, or "none".
Severity(r) ==
  LET t == Thresholds[r.category] IN
  IF r.insufficient_data THEN "none"
  ELSE IF \/ r.error_rate > t.max_error_rate /\ r.category \in HighRisk
          \/ r.drift_score >= t.critical
       THEN "critical"
  ELSE IF r.drift_score >= t.warning THEN "warning" ELSE "none"
=============================================================================

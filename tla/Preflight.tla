----------------------------- MODULE Preflight -----------------------------
(***************************************************************************)
(* The check of a batch of decisions before an agent version is deployed   *)
(* (src/ai-governance-mvp/src/governance/preflight.py) and the limits it   *)
(* applies (governance/config.py).                                         *)
(*                                                                         *)
(* A batch is a sequence of raw decisions.  dict: it is a JSON object;     *)
(* fits: it fits the schema of the structured output; category: its        *)
(* category once normalised; expected: its annotation, "" for none.        *)
(***************************************************************************)
EXTENDS DecisionRules

Absent == -1    \* a field a configuration file does not have

RawDecision == [dict : BOOLEAN, fits : BOOLEAN, category : STRING, risk : RiskLevels,
                words : Words, expected : STRING]

LimitPairs == [min_detection_size : Int, max_error_rate : Int]

Limits(min, max) == [min_detection_size |-> min, max_error_rate |-> max]

\* GovernanceConfig.default, limits only; rates are percentages.
DefaultConfig ==
  [default |-> Limits(10, 15),
   high_risk |-> [c \in HighRiskCategories |-> CASE c = "billing_dispute" -> Limits(5, 12)
                                                 [] c = "fraud_claim" -> Limits(5, 10)
                                                 [] c = "policy_sensitive" -> Limits(5, 15)]]

\* validate: what a configuration file may not say.
ConfigValid(file) == /\ file.baseline_window >= 10
                     /\ file.detection_window >= 5
                     /\ file.baseline_window >= file.detection_window
                     /\ file.conditions_parse

Or(value, fallback) == IF value = Absent THEN fallback ELSE value

\* from_yaml: a category's limit falls back to the file's default, that one to the code's.
FromYaml(file) ==
  LET default == Limits(Or(file.default.min_detection_size, 10),
                        Or(file.default.max_error_rate, 15))
  IN  [default |-> default,
       high_risk |-> [c \in DOMAIN file.high_risk |->
                        Limits(Or(file.high_risk[c].min_detection_size,
                                  default.min_detection_size),
                               Or(file.high_risk[c].max_error_rate, default.max_error_rate))]]

\* thresholds_for; a category outside the enumeration has those of "unknown".
ThresholdsFor(config, category) ==
  LET c == IF category \in CaseCategories THEN category ELSE "unknown" IN
  IF c \in DOMAIN config.high_risk THEN config.high_risk[c] ELSE config.default

\* Mistake to detect: the gate's copy of the heuristic looks for rejections first.
BugGateOutcome(words) == IF "reject" \in words /\ "escalate" \notin words
                         THEN "rejected" ELSE InferOutcome(words)

\* _infer_outcome: the gate's own copy of the ingestor's heuristic.
GateOutcome(words) == CASE "escalate" \in words -> "escalated"
                        [] "escalate" \notin words /\ "error" \in words -> "error"
                        [] words = {"reject"} -> "rejected"
                        [] words = {} -> "resolved"

Parsed(batch)       == {i \in DOMAIN batch : batch[i].fits}
SchemaErrors(batch) == DOMAIN batch \ Parsed(batch)

Group(batch, category) == {i \in Parsed(batch) : batch[i].category = category}
Grouped(batch)         == {batch[i].category : i \in Parsed(batch)}

GroupErrors(batch, category) == {i \in Group(batch, category) :
                                   GateOutcome(batch[i].words) = "error"}

\* _check_category: the limits a group of decisions violates.
CheckCategory(config, batch, category) ==
  LET limits == ThresholdsFor(config, category)
      n      == Cardinality(Group(batch, category))
  IN  {v \in {"error_rate", "too_few"} :
         \/ /\ v = "error_rate"
            /\ RateAbove(Cardinality(GroupErrors(batch, category)), n, limits.max_error_rate)
         \/ /\ v = "too_few"
            /\ n < limits.min_detection_size}

Violations(config, batch) ==
  UNION {{category} \X CheckCategory(config, batch, category) : category \in Grouped(batch)}

\* Risk levels too low for their category, and categories other than annotated.
HighRiskFailures(batch) ==
  {i \in Parsed(batch) :
     \/ batch[i].category \in HighRiskCategories /\ batch[i].risk \notin HighRiskLevels
     \/ batch[i].expected \notin {"", batch[i].category}}

\* validate_batch.
ValidateBatch(config, batch) ==
  LET hard_fail == Violations(config, batch) # {} \/ HighRiskFailures(batch) # {} IN
  [schema_errors  |-> SchemaErrors(batch),
   violations     |-> Violations(config, batch),
   high_risk      |-> HighRiskFailures(batch),
   recommendation |-> CASE hard_fail -> "BLOCKED"
                        [] ~hard_fail /\ SchemaErrors(batch) # {} -> "WARNING"
                        [] ~hard_fail /\ SchemaErrors(batch) = {} -> "SAFE_TO_DEPLOY"]
=============================================================================

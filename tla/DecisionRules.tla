--------------------------- MODULE DecisionRules ---------------------------
(***************************************************************************)
(* What a decision of an agent is to the governance service, under         *)
(* src/ai-governance-mvp/src: the structured output of the model           *)
(* (governance/structured.py), its conversion to the decision that is      *)
(* stored (ingestion/ingestor.py) and the statistics of a set of stored    *)
(* decisions (governance/schema.py).                                       *)
(*                                                                         *)
(* A decision text is the set of word lists it contains a word of; a case  *)
(* text is the set of categories whose patterns it matches.                *)
(***************************************************************************)
EXTENDS Integers, FiniteSets, Sequences

HighRiskCategories == {"billing_dispute", "fraud_claim", "policy_sensitive"}
CaseCategories     == HighRiskCategories \cup {"routine", "unknown"}
RiskLevels         == {"low", "medium", "high", "critical"}
HighRiskLevels     == {"high", "critical"}
DecisionOutcomes   == {"resolved", "escalated", "rejected", "error"}
Words              == SUBSET {"escalate", "error", "reject"}

\* What json.loads and the schema make of an agent's answer.  "embedded" is one object
\* with text around it, "several" are objects one after another.
Shapes == {"object", "embedded", "several", "none"}

\* The first list with a word in the text decides.
InferOutcome(words) == CASE "escalate" \in words -> "escalated"
                         [] "escalate" \notin words /\ "error" \in words -> "error"
                         [] words = {"reject"} -> "rejected"
                         [] words = {} -> "resolved"

\* The block from the first brace to the last one is an object, unless the text holds
\* more than one.
ExtractsJson(shape) == shape \in {"object", "embedded"}

\* parse: an object that also fits the schema.
Parses(answer) == ExtractsJson(answer.shape) /\ answer.fits

\* A category that is none of the enumeration is derived from the risk level.
RiskToCategory(risk) == CASE risk = "critical" -> "fraud_claim"
                          [] risk = "high" -> "billing_dispute"
                          [] OTHER -> "unknown"

ToCategory(gd) == IF gd.category \in CaseCategories THEN gd.category ELSE RiskToCategory(gd.risk)

\* _governance_decision_to_agent_decision; the case text is left empty.
ToAgentDecision(gd) ==
  [category |-> ToCategory(gd), outcome |-> InferOutcome(gd.words), text |-> {}]

\* Only a category still unknown is matched, against the patterns in their order.
Categorize(category, text, order) ==
  LET matching == {i \in DOMAIN order : order[i] \in text} IN
  IF category # "unknown" \/ matching = {} THEN category
  ELSE order[CHOOSE i \in matching : \A j \in matching : i <= j]

\* CategoryStats.from_decisions: the counts behind the rates, of the rows of table in ids.
CategoryStats(table, ids) ==
  [n         |-> Cardinality(ids),
   resolved  |-> Cardinality({i \in ids : table[i].outcome = "resolved"}),
   error     |-> Cardinality({i \in ids : table[i].outcome = "error"}),
   escalated |-> Cardinality({i \in ids : table[i].outcome = "escalated"})]

\* A rate part/n is above limit percent.
RateAbove(part, n, limit) == 100 * part > limit * n
=============================================================================

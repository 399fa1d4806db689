--------------------------- MODULE MCDecisionLog ---------------------------
(***************************************************************************)
(* Two batches of five of two versions, single decisions, answers of an    *)
(* agent and refused requests, of which up to two are sent while up to     *)
(* four ticks pass; detection visits its category at every tick.           *)
(***************************************************************************)
EXTENDS DecisionLog

D(category, outcome, age, text, version) ==
  [fits |-> TRUE, category |-> category, outcome |-> outcome, age |-> age, text |-> text,
   version |-> version]

Old(age)  == D("fraud_claim", "resolved", age, {}, "v1")
Handed    == D("unknown", "escalated", 0, {"policy_sensitive", "fraud_claim"}, "v2")

ThePayload ==
  [single |-> [via |-> "single", decisions |-> <<D("none", "resolved", 0, {"fraud_claim"}, "v1")>>],
   future |-> [via |-> "single", decisions |-> <<Old(-1)>>],
   five   |-> [via |-> "batch", decisions |-> <<Old(0), Old(1), Old(3), Old(-1), Old(0), Old(0)>>],
   handed |-> [via |-> "batch", decisions |-> <<Handed, Handed, Handed, Handed, Handed>>],
   wrong  |-> [via |-> "batch", decisions |-> <<Old(0), D("routine", "done", 0, {}, "v1")>>],
   answer |-> [via |-> "agent", version |-> "v2",
               answer |-> [shape |-> "embedded", fits |-> TRUE, category |-> "wire_transfer",
                           risk |-> "critical", words |-> {"error"}]],
   babble |-> [via |-> "agent", version |-> "v2", answer |-> [shape |-> "several", fits |-> TRUE]]]

TheSubmissions == DOMAIN ThePayload
TheOrder       == <<"billing_dispute", "fraud_claim", "policy_sensitive">>
TheMonitored   == <<"fraud_claim">>
=============================================================================

------------------------------ MODULE MCCiGate ------------------------------
(***************************************************************************)
(* The gate over batches of up to three runs of alike decisions, so that   *)
(* the built-in minimum of five and the ceilings of 10 to 15 percent are   *)
(* met and missed, with a small configuration file and with overrides.     *)
(***************************************************************************)
EXTENDS CiGate, TLC

D(category, risk, words, expected) ==
  [dict |-> TRUE, fits |-> TRUE, category |-> category, risk |-> risk, words |-> words,
   expected |-> expected]

Fraud   == D("fraud_claim", "high", {}, "fraud_claim")
Failing == D("fraud_claim", "critical", {"error", "reject"}, "")
Wire    == D("wire_transfer", "medium", {"error"}, "")
Gift    == D("gift_card", "high", {}, "")
Other   == D("unknown", "low", {"escalate", "error"}, "")
Kinds   == {Fraud, Failing, Wire, Gift, Other,
            D("fraud_claim", "low", {}, ""),
            D("fraud_claim", "high", {}, "Fraud Claim"),
            [Fraud EXCEPT !.fits = FALSE],
            [Fraud EXCEPT !.fits = FALSE, !.dict = FALSE]}

Run(kind, k) == [i \in 1..k |-> kind]
Runs         == {Run(kind, k) : kind \in Kinds, k \in {1, 6}}
Few          == {Run(Fraud, 6), Run(Fraud, 10), Run(Failing, 1), Run(Wire, 1), Run(Wire, 6),
                 Run(Other, 6), Run(Other, 10), Run(Gift, 6), Run([Fraud EXCEPT !.fits = FALSE], 1)}
Batches      == {<<>>} \cup Runs \cup {r \o s : r \in Runs, s \in Runs}
                \cup {r \o s \o t : r \in Few, s \in Few, t \in Few}

Yaml == [baseline_window |-> 10, detection_window |-> 5, conditions_parse |-> TRUE,
         default |-> Limits(Absent, 50), high_risk |-> ("fraud_claim" :> Limits(1, Absent))]

Call == [caller |-> "cli", args_ok |-> TRUE, file |-> "ok", batch |-> <<>>,
         config |-> "built_in", yaml |-> Yaml, output |-> "none",
         fail_on_warning |-> FALSE, env_window |-> Unset, env_err |-> Unset]

AllInvocations ==
  LET checked == {[Call EXCEPT !.batch = b, !.config = c, !.env_window = w, !.env_err = e] :
                    b \in Batches, c \in {"built_in", "ok"}, w \in {Unset, 2, 7},
                    e \in {Unset, 0, 20}}
      faulty  == {[Call EXCEPT !.batch = b, !.args_ok = a, !.file = f, !.config = c,
                               !.env_window = w, !.output = o, !.fail_on_warning = x] :
                    b \in {Run(Fraud, 6), Run(Fraud, 6) \o Run([Fraud EXCEPT !.fits = FALSE], 1)},
                    a \in BOOLEAN, f \in FileStates, c \in ConfigStates, w \in {Unset, Malformed},
                    o \in Outputs, x \in BOOLEAN}
      invalid == {[Call EXCEPT !.batch = Run(Fraud, 6), !.config = "ok", !.yaml = y] :
                    y \in {[Yaml EXCEPT !.baseline_window = 9], [Yaml EXCEPT !.detection_window = 4],
                           [Yaml EXCEPT !.detection_window = 11],
                           [Yaml EXCEPT !.conditions_parse = FALSE]}}
      posted  == {[Call EXCEPT !.batch = b, !.caller = "http"] : b \in Batches}
  IN  checked \cup faulty \cup invalid \cup posted
=============================================================================

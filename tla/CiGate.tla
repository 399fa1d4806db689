------------------------------- MODULE CiGate -------------------------------
(***************************************************************************)
(* The deployment gate of src/ai-governance-mvp: ci_gate.py, which turns a *)
(* file of candidate decisions into an exit code, the endpoint POST        *)
(* /governance/preflight, which answers the same question, and the release *)
(* it guards: a pipeline that deploys on exit codes 0 and 2, after which   *)
(* the version's decisions are ingested and watched by the detector.       *)
(***************************************************************************)
EXTENDS Preflight

CONSTANTS Invocations,      \* what the gate may be called with
          MaxBatch          \* decisions accepted by the endpoint

Unset     == -1             \* an environment variable that is not set ...
Malformed == -2             \* ... or is not a number

Callers     == {"cli", "http"}
FileStates  == {"ok", "unreadable", "undecodable", "not_json", "not_list"}
ConfigStates == {"built_in", "ok", "missing", "malformed"}
Outputs     == {"none", "writable", "unwritable"}

ASSUME GateAssumption ==
  /\ MaxBatch \in Nat
  /\ \A inv \in Invocations :
       /\ inv.caller \in Callers /\ inv.args_ok \in BOOLEAN
       /\ inv.file \in FileStates /\ inv.config \in ConfigStates /\ inv.output \in Outputs
       /\ inv.fail_on_warning \in BOOLEAN
       /\ inv.env_window \in Int /\ inv.env_err \in Int
       /\ inv.batch \in Seq(RawDecision)
       /\ inv.yaml.default \in LimitPairs
       /\ \A c \in DOMAIN inv.yaml.high_risk : inv.yaml.high_risk[c] \in LimitPairs

VARIABLES invocation,       \* arguments, files and environment of this call
          pc,
          config,           \* the limits in force, as the gate built them
          report,           \* of validate_batch; empty until it ran
          written,          \* the report file exists
          exit_code,        \* -1 until the process ends
          answer,           \* of the endpoint
          production        \* the decisions of the deployed version, by their position

vars == <<invocation, pc, config, report, written, exit_code, answer, production>>

Batch == invocation.batch

Init == /\ invocation \in Invocations
        /\ pc = IF invocation.caller = "cli" THEN "args" ELSE "http"
        /\ config = DefaultConfig
        /\ report = <<>>
        /\ written = FALSE
        /\ exit_code = -1
        /\ answer = "none"
        /\ production = <<>>

Exit(code) == /\ pc' = "exited"
              /\ exit_code' = code

\* argparse ends the process itself when an argument is missing or unknown.
UsageError == /\ pc = "args"
              /\ ~invocation.args_ok
              /\ Exit(2)
              /\ UNCHANGED <<invocation, config, report, written, answer, production>>

ParseArgs == /\ pc = "args"
             /\ invocation.args_ok
             /\ pc' = "load"
             /\ UNCHANGED <<invocation, config, report, written, exit_code, answer, production>>

\* _load_decisions; a file that is no text raises an exception nobody catches.
LoadFails == /\ pc = "load"
             /\ invocation.file # "ok"
             /\ Exit(IF invocation.file = "undecodable" THEN 1 ELSE 3)
             /\ UNCHANGED <<invocation, config, report, written, answer, production>>

LoadDecisions == /\ pc = "load"
                 /\ invocation.file = "ok"
                 /\ pc' = "config"
                 /\ UNCHANGED <<invocation, config, report, written, exit_code, answer,
                                production>>

\* _build_config: a configuration that does not load; a YAML error is not caught.
ConfigUsable == \/ invocation.config = "built_in"
                \/ invocation.config = "ok" /\ ConfigValid(invocation.yaml)

ConfigFails == /\ pc = "config"
               /\ ~ConfigUsable
               /\ Exit(IF invocation.config = "malformed" THEN 1 ELSE 3)
               /\ UNCHANGED <<invocation, config, report, written, answer, production>>

BuildConfig == /\ pc = "config"
               /\ ConfigUsable
               /\ config' = IF invocation.config = "ok" THEN FromYaml(invocation.yaml)
                                                        ELSE DefaultConfig
               /\ pc' = "env_window"
               /\ UNCHANGED <<invocation, report, written, exit_code, answer, production>>

\* Mistake to detect: an override reaches the default limits only (ci_gate.py:92-94).
BugOverride(limit, value) == [config EXCEPT !.default[limit] = value]

\* An override replaces a limit of the default and of every high-risk category.
Override(limit, value) ==
  [default   |-> [config.default EXCEPT ![limit] = value],
   high_risk |-> [c \in DOMAIN config.high_risk |->
                    [config.high_risk[c] EXCEPT ![limit] = value]]]

ReadEnv(value, limit, here, next) ==
  /\ pc = here
  /\ IF value = Malformed THEN Exit(3) /\ config' = config
     ELSE /\ config' = IF value = Unset THEN config ELSE Override(limit, value)
          /\ pc' = next
          /\ UNCHANGED exit_code
  /\ UNCHANGED <<invocation, report, written, answer, production>>

EnvWindow == ReadEnv(invocation.env_window, "min_detection_size", "env_window", "env_err")
EnvErr    == ReadEnv(invocation.env_err, "max_error_rate", "env_err", "validate")

AllDicts == \A i \in DOMAIN Batch : Batch[i].dict

\* An item that is no object has no items(): validate_batch raises, nobody catches.
ValidateCrashes == /\ pc = "validate"
                   /\ ~AllDicts
                   /\ Exit(1)
                   /\ UNCHANGED <<invocation, config, report, written, answer, production>>

Validate == /\ pc = "validate"
            /\ AllDicts
            /\ report' = ValidateBatch(config, Batch)
            /\ pc' = "output"
            /\ UNCHANGED <<invocation, config, written, exit_code, answer, production>>

\* A report that cannot be written changes nothing else.
WriteReport == /\ pc = "output"
               /\ written' = (invocation.output = "writable")
               /\ pc' = "recommend"
               /\ UNCHANGED <<invocation, config, report, exit_code, answer, production>>

ExitCode(recommendation, fail_on_warning) ==
  CASE recommendation = "BLOCKED" -> 1
    [] recommendation = "WARNING" -> IF fail_on_warning THEN 1 ELSE 2
    [] recommendation = "SAFE_TO_DEPLOY" -> 0

Recommend == /\ pc = "recommend"
             /\ Exit(ExitCode(report.recommendation, invocation.fail_on_warning))
             /\ UNCHANGED <<invocation, config, report, written, answer, production>>

\* The endpoint: the request model bounds the batch, the service's configuration decides.
HttpRefuse == /\ pc = "http"
              /\ Len(Batch) \notin 1..MaxBatch \/ ~AllDicts
              /\ answer' = "422"
              /\ pc' = "exited"
              /\ UNCHANGED <<invocation, config, report, written, exit_code, production>>

HttpPreflight == /\ pc = "http"
                 /\ Len(Batch) \in 1..MaxBatch /\ AllDicts
                 /\ report' = ValidateBatch(config, Batch)
                 /\ answer' = report'.recommendation
                 /\ pc' = "exited"
                 /\ UNCHANGED <<invocation, config, written, exit_code, production>>

\* "WARNING: deployment continues but is flagged" (ci_gate.py:11).
Released == exit_code \in {0, 2} \/ answer \in {"SAFE_TO_DEPLOY", "WARNING"}

\* In production the version decides as in its batch; each answer that parses is
\* converted, categorised and stored.
Deploy == /\ pc = "exited"
          /\ Released
          /\ production' = [i \in Parsed(Batch) |->
                              LET d == ToAgentDecision(Batch[i]) IN
                              [d EXCEPT !.category = Categorize(d.category, d.text, <<>>)]]
          /\ pc' = "deployed"
          /\ UNCHANGED <<invocation, config, report, written, exit_code, answer>>

Stopped == /\ (pc = "exited" /\ ~Released) \/ pc = "deployed"
           /\ UNCHANGED vars

Next == \/ UsageError \/ ParseArgs \/ LoadFails \/ LoadDecisions \/ ConfigFails \/ BuildConfig
        \/ EnvWindow \/ EnvErr \/ ValidateCrashes \/ Validate \/ WriteReport \/ Recommend
        \/ HttpRefuse \/ HttpPreflight \/ Deploy \/ Stopped

Spec == Init /\ [][Next]_vars

----------------------------------------------------------------------------
\* The limit in force for a category: the override, the file or the built-in value.
Limit(category, limit, override) ==
  IF override \notin {Unset, Malformed} THEN override
  ELSE ThresholdsFor(IF invocation.config = "ok" THEN FromYaml(invocation.yaml)
                                                 ELSE DefaultConfig, category)[limit]

MinSize(category) == Limit(category, "min_detection_size", invocation.env_window)
MaxRate(category) == Limit(category, "max_error_rate", invocation.env_err)

\* Every category has enough decisions and few enough errors, and every decision a risk
\* level that fits its category.
Sound ==
  /\ \A i \in DOMAIN Batch :
       Batch[i].fits =>
         LET same == {j \in DOMAIN Batch : /\ Batch[j].fits
                                           /\ Batch[j].category = Batch[i].category}
             errors == {j \in same : InferOutcome(Batch[j].words) = "error"}
         IN  /\ Cardinality(same) >= MinSize(Batch[i].category)
             /\ ~RateAbove(Cardinality(errors), Cardinality(same), MaxRate(Batch[i].category))
  /\ HighRiskFailures(Batch) = {}

AllFit == \A i \in DOMAIN Batch : Batch[i].fits

\* A pipeline reads only the exit code: unless the arguments themselves were wrong, 0 is
\* given exactly to sound batches of well-formed decisions, 2 only to sound batches with
\* malformed ones, whatever fails and whatever the environment overrides.
ExitCodeIsTrue ==
  exit_code # -1 /\ invocation.args_ok =>
    /\ (exit_code = 0) <=> /\ invocation.file = "ok" /\ ConfigUsable
                           /\ invocation.env_window # Malformed
                           /\ invocation.env_err # Malformed
                           /\ AllDicts /\ AllFit /\ Sound
    /\ exit_code = 2 => AllDicts /\ ~AllFit /\ Sound /\ ~invocation.fail_on_warning

\* Decisions whose category is none of the enumeration are stored under another one.
Foreign == \E i \in Parsed(Batch) : /\ Batch[i].category \notin CaseCategories
                                    /\ Batch[i].risk \in HighRiskLevels

InProduction(category) == {i \in DOMAIN production : production[i].category = category}

WithinLimits(category) ==
  LET stats == CategoryStats(production, InProduction(category)) IN
  /\ stats.n >= ThresholdsFor(config, category).min_detection_size
  /\ ~RateAbove(stats.error, stats.n, ThresholdsFor(config, category).max_error_rate)

\* "Fail here, not in production" (preflight.py:7): when a checked version is deployed, no
\* category its decisions are stored under exceeds the error rate that raises a critical
\* alert, or is too small to be watched: the gate and the ingestor read texts and
\* categories alike.
SafeInProduction ==
  pc = "deployed" /\ report # <<>> /\ ~Foreign =>
    \A i \in DOMAIN production : WithinLimits(production[i].category)
=============================================================================

---------------------------- MODULE CiGateProofs ----------------------------
(***************************************************************************)
(* Proofs about the deployment gate, for every set of invocations: batches *)
(* of every length, all configuration files and overrides.                 *)
(*                                                                         *)
(* ExitCodeIsTrue speaks of the end only.  GateInv follows the call: which *)
(* failures are behind it (Survived), that the limits in force are those   *)
(* of the file or the code with the overrides read so far (InForce), and   *)
(* that the report is the one of this batch under these limits.  Sound     *)
(* groups the decisions by hand, the gate by its own categories and its    *)
(* own copy of the outcome heuristic: GateIsSound shows them to agree.     *)
(*                                                                         *)
(* SafeInProduction speaks of what is deployed: ReleaseInv says that what  *)
(* is released had a report without violations, and that production holds  *)
(* the batch as ingestion stores it.  RateOfAll carries limits that hold   *)
(* of every group over to the batch as a whole.                            *)
(***************************************************************************)
EXTENDS CiGate, FiniteSetTheorems, WellFoundedInduction, TLAPS

IsConfig(cfg) == /\ cfg.default \in LimitPairs
                 /\ \A c \in DOMAIN cfg.high_risk : cfg.high_risk[c] \in LimitPairs

\* What the overrides replace: the limits of the file or of the code.
Base == IF invocation.config = "ok" THEN FromYaml(invocation.yaml) ELSE DefaultConfig

Early      == {"args", "load", "config", "env_window", "env_err", "validate", "output",
               "recommend", "http"}
Configured == {"env_window", "env_err", "validate", "output", "recommend"}
Overridden == {"validate", "output", "recommend"}
Reported   == {"output", "recommend"}

Survived ==
  /\ invocation \in Invocations
  /\ pc \in Early \cup {"exited", "deployed"}
  /\ pc \in Early => exit_code = -1
  /\ pc \in Configured \cup {"config"} => invocation.file = "ok"
  /\ pc \in Configured => ConfigUsable /\ IsConfig(config)
  /\ pc \in Configured \ {"env_window"} => invocation.env_window # Malformed
  /\ pc \in Overridden => invocation.env_err # Malformed
  /\ pc \in Reported => AllDicts

InForce ==
  \A c \in CaseCategories :
    LET limits == ThresholdsFor(config, c) IN
    /\ pc = "env_window" => limits = ThresholdsFor(Base, c)
    /\ pc = "env_err" =>
         limits = Limits(MinSize(c), ThresholdsFor(Base, c).max_error_rate)
    /\ pc \in Overridden => limits = Limits(MinSize(c), MaxRate(c))

GateInv == /\ Survived
           /\ InForce
           /\ pc \in Reported => report = ValidateBatch(config, Batch)
           /\ pc \in {"exited", "deployed"} => ExitCodeIsTrue

----------------------------------------------------------------------------
\* The limits of a category are two integers, the same for all categories outside the
\* enumeration.
LEMMA LimitsOfCategory ==
  ASSUME NEW cfg, IsConfig(cfg), NEW c
  PROVE  /\ ThresholdsFor(cfg, c) \in LimitPairs
         /\ c \notin CaseCategories => ThresholdsFor(cfg, c) = ThresholdsFor(cfg, "unknown")
BY DEF ThresholdsFor, IsConfig, CaseCategories

\* An override replaces one limit of every category and leaves the other one.
LEMMA OverrideEverywhere ==
  ASSUME IsConfig(config), NEW v \in Int, NEW limit \in {"min_detection_size", "max_error_rate"},
         NEW c
  PROVE  /\ IsConfig(Override(limit, v))
         /\ ThresholdsFor(Override(limit, v), c) = [ThresholdsFor(config, c) EXCEPT ![limit] = v]
<1> DEFINE k == IF c \in CaseCategories THEN c ELSE "unknown"
<1>1. \A l \in LimitPairs : [l EXCEPT ![limit] = v] \in LimitPairs
  BY DEF LimitPairs
<1>2. IsConfig(Override(limit, v))
  BY <1>1 DEF IsConfig, Override
<1>3. CASE k \in DOMAIN config.high_risk
  BY <1>2, <1>3 DEF ThresholdsFor, Override
<1>4. CASE k \notin DOMAIN config.high_risk
  BY <1>2, <1>4 DEF ThresholdsFor, Override
<1> QED BY <1>3, <1>4

\* The file and the code give every category two limits.
LEMMA DefaultIsConfig == IsConfig(DefaultConfig)
<1>1. \A a \in Int, b \in Int : Limits(a, b) \in LimitPairs
  BY DEF Limits, LimitPairs
<1>2. DefaultConfig.default \in LimitPairs
  <2>1. DefaultConfig.default = Limits(10, 15)
    BY DEF DefaultConfig
  <2> QED BY <1>1, <2>1
<1>3. ASSUME NEW c \in HighRiskCategories PROVE DefaultConfig.high_risk[c] \in LimitPairs
  <2>1. c \in {"billing_dispute", "fraud_claim", "policy_sensitive"}
    BY DEF HighRiskCategories
  <2>2. DefaultConfig.high_risk[c] = CASE c = "billing_dispute" -> Limits(5, 12)
                                       [] c = "fraud_claim" -> Limits(5, 10)
                                       [] c = "policy_sensitive" -> Limits(5, 15)
    BY DEF DefaultConfig
  <2>3. DefaultConfig.high_risk[c] \in {Limits(5, 12), Limits(5, 10), Limits(5, 15)}
    BY <2>1, <2>2
  <2> QED BY <1>1, <2>3
<1>4. DOMAIN DefaultConfig.high_risk = HighRiskCategories
  BY DEF DefaultConfig
<1> QED BY <1>2, <1>3, <1>4 DEF IsConfig

LEMMA BaseIsConfig == ASSUME invocation \in Invocations PROVE IsConfig(Base)
<1>1. IsConfig(DefaultConfig)
  BY DefaultIsConfig
<1>2. IsConfig(FromYaml(invocation.yaml))
  BY GateAssumption DEF IsConfig, FromYaml, Limits, LimitPairs, Or
<1> QED BY <1>1, <1>2 DEF Base

\* Finite sets of positions.
LEMMA Counted ==
  ASSUME NEW b \in Seq(RawDecision), NEW S, S \subseteq DOMAIN b
  PROVE  Cardinality(S) \in Nat
<1>1. DOMAIN b = 1..Len(b) /\ Len(b) \in Nat
  OBVIOUS
<1>2. IsFiniteSet(1..Len(b))
  BY <1>1, FS_Interval
<1> QED BY <1>1, <1>2, FS_Subset, FS_CardinalityType

----------------------------------------------------------------------------
\* The recommendation, by the three findings of the report.
LEMMA Recommendation ==
  ASSUME NEW cfg, NEW b
  PROVE  LET r == ValidateBatch(cfg, b).recommendation
             hard_fail == Violations(cfg, b) # {} \/ HighRiskFailures(b) # {}
         IN  /\ hard_fail => r = "BLOCKED"
             /\ ~hard_fail /\ SchemaErrors(b) # {} => r = "WARNING"
             /\ ~hard_fail /\ SchemaErrors(b) = {} => r = "SAFE_TO_DEPLOY"
BY DEF ValidateBatch

\* The gate finds a violated limit exactly when a group of decisions, formed by hand, is
\* too small or has too many errors.
LEMMA GateIsSound ==
  ASSUME invocation \in Invocations, IsConfig(config),
         \A c \in CaseCategories : ThresholdsFor(config, c) = Limits(MinSize(c), MaxRate(c))
  PROVE  Sound <=> Violations(config, Batch) = {} /\ HighRiskFailures(Batch) = {}
<1> DEFINE same(i) == {j \in DOMAIN Batch : /\ Batch[j].fits
                                            /\ Batch[j].category = Batch[i].category}
           errors(i) == {j \in same(i) : InferOutcome(Batch[j].words) = "error"}
           Fine(i) == /\ Cardinality(same(i)) >= MinSize(Batch[i].category)
                      /\ ~RateAbove(Cardinality(errors(i)), Cardinality(same(i)),
                                    MaxRate(Batch[i].category))
<1>1. Batch \in Seq(RawDecision)
  BY GateAssumption DEF Batch
<1>2. \A c : /\ ThresholdsFor(config, c).min_detection_size = MinSize(c)
             /\ ThresholdsFor(config, c).max_error_rate = MaxRate(c)
  <2> SUFFICES ASSUME NEW c
               PROVE  /\ ThresholdsFor(config, c).min_detection_size = MinSize(c)
                      /\ ThresholdsFor(config, c).max_error_rate = MaxRate(c)
    OBVIOUS
  <2>1. CASE c \in CaseCategories
    BY <2>1 DEF Limits
  <2>2. CASE c \notin CaseCategories
    <3>1. ThresholdsFor(config, c) = ThresholdsFor(config, "unknown")
      BY <2>2, LimitsOfCategory
    <3>2. MinSize(c) = MinSize("unknown") /\ MaxRate(c) = MaxRate("unknown")
      <4>1. ThresholdsFor(Base, c) = ThresholdsFor(Base, "unknown")
        BY <2>2, BaseIsConfig, LimitsOfCategory
      <4> QED BY <4>1 DEF MinSize, MaxRate, Limit, Base
    <3>3. "unknown" \in CaseCategories
      BY DEF CaseCategories
    <3> QED BY <3>1, <3>2, <3>3 DEF Limits
  <2> QED BY <2>1, <2>2
<1>3. ASSUME NEW i \in DOMAIN Batch, Batch[i].fits
      PROVE  Fine(i) <=> CheckCategory(config, Batch, Batch[i].category) = {}
  <2> DEFINE c == Batch[i].category
             min == ThresholdsFor(config, c).min_detection_size
             max == ThresholdsFor(config, c).max_error_rate
             n == Cardinality(same(i))
             e == Cardinality(errors(i))
  <2>1. same(i) = Group(Batch, c)
    BY DEF Group, Parsed
  <2>2. errors(i) = GroupErrors(Batch, c)
    BY <2>1 DEF GroupErrors, GateOutcome, InferOutcome
  <2>3. n \in Nat /\ e \in Nat
    <3>1. same(i) \subseteq DOMAIN Batch /\ errors(i) \subseteq DOMAIN Batch
      OBVIOUS
    <3> QED BY <1>1, <3>1, Counted
  <2>4. min \in Int /\ max \in Int
    BY LimitsOfCategory DEF LimitPairs
  <2>5. CheckCategory(config, Batch, c) =
          {v \in {"error_rate", "too_few"} : \/ v = "error_rate" /\ RateAbove(e, n, max)
                                             \/ v = "too_few" /\ n < min}
    BY <2>1, <2>2 DEF CheckCategory
  <2>6. MinSize(c) = min /\ MaxRate(c) = max
    BY <1>2
  <2>7. Fine(i) <=> n >= min /\ ~RateAbove(e, n, max)
    BY <2>6
  <2>8. n < min <=> ~(n >= min)
    BY <2>3, <2>4
  <2> HIDE DEF Fine, n, e, min, max, c
  <2>9. Fine(i) <=> CheckCategory(config, Batch, c) = {}
    BY <2>5, <2>7, <2>8
  <2> QED BY <2>9 DEF c
<1>4. Violations(config, Batch) = {} <=>
        \A i \in DOMAIN Batch : Batch[i].fits => CheckCategory(config, Batch, Batch[i].category) = {}
  <2>1. Grouped(Batch) = {Batch[i].category : i \in {j \in DOMAIN Batch : Batch[j].fits}}
    BY DEF Grouped, Parsed
  <2>2. Violations(config, Batch) = {} <=>
          \A c \in Grouped(Batch) : {c} \X CheckCategory(config, Batch, c) = {}
    BY DEF Violations
  <2>3. \A c : {c} \X CheckCategory(config, Batch, c) = {} <=> CheckCategory(config, Batch, c) = {}
    <3> SUFFICES ASSUME NEW c, NEW T PROVE {c} \X T = {} <=> T = {}
      OBVIOUS
    <3>1. ASSUME NEW v \in T PROVE <<c, v>> \in {c} \X T
      OBVIOUS
    <3>2. ASSUME T = {} PROVE {c} \X T = {}
      BY <3>2
    <3> QED BY <3>1, <3>2
  <2> QED BY <2>1, <2>2, <2>3
<1>5. Sound <=> (\A i \in DOMAIN Batch : Batch[i].fits => Fine(i)) /\ HighRiskFailures(Batch) = {}
  BY DEF Sound
<1> HIDE DEF Fine
<1> QED BY <1>3, <1>4, <1>5

----------------------------------------------------------------------------
LEMMA GateInitially == Init => GateInv
BY GateAssumption
DEF Init, GateInv, Survived, InForce, Early, Configured, Overridden, Reported, Callers

\* One override, read or refused.
LEMMA EnvStep ==
  ASSUME GateInv, NEW value \in Int, NEW limit \in {"min_detection_size", "max_error_rate"},
         NEW here, NEW next, ReadEnv(value, limit, here, next),
         \/ here = "env_window" /\ next = "env_err" /\ limit = "min_detection_size"
            /\ value = invocation.env_window
         \/ here = "env_err" /\ next = "validate" /\ limit = "max_error_rate"
            /\ value = invocation.env_err
  PROVE  GateInv'
<1> USE DEF ReadEnv
<1>1. CASE value = Malformed
  <2>1. pc' = "exited" /\ exit_code' = 3 /\ invocation' = invocation /\ config' = config
    BY <1>1 DEF Exit
  <2>2. ~(invocation.env_window # Malformed /\ invocation.env_err # Malformed)
    BY <1>1
  <2>3. ExitCodeIsTrue'
    BY <2>1, <2>2 DEF ExitCodeIsTrue
  <2> QED BY <2>1, <2>3
      DEF GateInv, Survived, InForce, Early, Configured, Overridden, Reported
<1>2. CASE value # Malformed
  <2>1. /\ pc = here /\ pc' = next
        /\ config' = IF value = Unset THEN config ELSE Override(limit, value)
        /\ exit_code' = exit_code /\ invocation' = invocation
    BY <1>2
  <2>2. IsConfig(config) /\ ConfigUsable
    BY <2>1 DEF GateInv, Survived, Configured
  <2>3. IsConfig(config')
    BY <2>1, <2>2, OverrideEverywhere
  <2>4. Survived'
    BY <1>2, <2>1, <2>2, <2>3 DEF GateInv, Survived, Early, Configured, Overridden, Reported,
                                 ConfigUsable
  <2>5. ASSUME NEW c \in CaseCategories
        PROVE  ThresholdsFor(config', c) = IF value = Unset THEN ThresholdsFor(config, c)
                                          ELSE [ThresholdsFor(config, c) EXCEPT ![limit] = value]
    BY <2>1, <2>2, OverrideEverywhere
  <2>6. ASSUME NEW c \in CaseCategories
        PROVE  /\ MinSize(c)' = MinSize(c) /\ MaxRate(c)' = MaxRate(c)
               /\ ThresholdsFor(Base, c)' = ThresholdsFor(Base, c)
    BY <2>1 DEF MinSize, MaxRate, Limit, Base
  <2>7. ASSUME NEW c \in CaseCategories
        PROVE  ThresholdsFor(Base, c) \in LimitPairs
    BY BaseIsConfig, LimitsOfCategory DEF GateInv, Survived
  <2>8. CASE here = "env_window"
    <3>1. ASSUME NEW c \in CaseCategories
          PROVE  ThresholdsFor(config', c) = Limits(MinSize(c), ThresholdsFor(Base, c).max_error_rate)
      <4>1. ThresholdsFor(config, c) = ThresholdsFor(Base, c)
        BY <2>1, <2>8 DEF GateInv, InForce
      <4>2. MinSize(c) = IF value = Unset THEN ThresholdsFor(Base, c).min_detection_size ELSE value
        BY <1>2, <2>8 DEF MinSize, Limit, Base
      <4> QED BY <2>5, <2>7, <2>8, <4>1, <4>2 DEF Limits, LimitPairs
    <3>2. InForce'
      BY <2>1, <2>6, <2>8, <3>1 DEF InForce, Overridden
    <3> QED BY <2>1, <2>4, <2>8, <3>2 DEF GateInv, Reported
  <2>9. CASE here = "env_err"
    <3>1. ASSUME NEW c \in CaseCategories
          PROVE  ThresholdsFor(config', c) = Limits(MinSize(c), MaxRate(c))
      <4>1. ThresholdsFor(config, c) = Limits(MinSize(c), ThresholdsFor(Base, c).max_error_rate)
        BY <2>1, <2>9 DEF GateInv, InForce
      <4>2. MaxRate(c) = IF value = Unset THEN ThresholdsFor(Base, c).max_error_rate ELSE value
        BY <1>2, <2>9 DEF MaxRate, Limit, Base
      <4> QED BY <2>5, <2>9, <4>1, <4>2 DEF Limits
    <3>2. InForce'
      BY <2>1, <2>6, <2>9, <3>1 DEF InForce, Overridden
    <3> QED BY <2>1, <2>4, <2>9, <3>2 DEF GateInv, Reported
  <2> QED BY <2>8, <2>9
<1> QED BY <1>1, <1>2

\* The exit code is given from the report.
LEMMA RecommendStep == ASSUME GateInv, Recommend PROVE GateInv'
<1> DEFINE r == report.recommendation
<1>1. /\ pc = "recommend" /\ pc' = "exited"
      /\ exit_code' = ExitCode(r, invocation.fail_on_warning)
      /\ invocation' = invocation /\ config' = config
  BY DEF Recommend, Exit
<1>2. /\ invocation \in Invocations /\ invocation.file = "ok" /\ ConfigUsable /\ IsConfig(config)
      /\ invocation.env_window # Malformed /\ invocation.env_err # Malformed /\ AllDicts
      /\ report = ValidateBatch(config, Batch)
  BY <1>1 DEF GateInv, Survived, Configured, Overridden, Reported
<1>3. \A c \in CaseCategories : ThresholdsFor(config, c) = Limits(MinSize(c), MaxRate(c))
  BY <1>1 DEF GateInv, InForce, Overridden
<1>4. Sound <=> Violations(config, Batch) = {} /\ HighRiskFailures(Batch) = {}
  BY <1>2, <1>3, GateIsSound
<1>5. SchemaErrors(Batch) = {} <=> AllFit
  BY DEF SchemaErrors, Parsed, AllFit
<1>6. /\ ~Sound => r = "BLOCKED"
      /\ Sound /\ ~AllFit => r = "WARNING"
      /\ Sound /\ AllFit => r = "SAFE_TO_DEPLOY"
  BY <1>2, <1>4, <1>5, Recommendation
<1> HIDE DEF r
<1>7. /\ (exit_code' = 0) <=> AllFit /\ Sound
      /\ exit_code' = 2 => ~AllFit /\ Sound /\ ~invocation.fail_on_warning
  <2>1. invocation.fail_on_warning \in BOOLEAN
    BY <1>2, GateAssumption
  <2>2. CASE ~Sound
    BY <1>1, <1>6, <2>2 DEF ExitCode
  <2>3. CASE Sound /\ ~AllFit
    BY <1>1, <1>6, <2>1, <2>3 DEF ExitCode
  <2>4. CASE Sound /\ AllFit
    BY <1>1, <1>6, <2>4 DEF ExitCode
  <2> QED BY <2>2, <2>3, <2>4
<1>8. /\ Sound' = Sound /\ AllFit' = AllFit /\ AllDicts' = AllDicts
      /\ ConfigUsable' = ConfigUsable
  BY <1>1 DEF Sound, AllFit, AllDicts, ConfigUsable, Batch, MinSize, MaxRate, Limit
<1>9. ExitCodeIsTrue'
  BY <1>1, <1>2, <1>7, <1>8 DEF ExitCodeIsTrue
<1> QED BY <1>1, <1>2, <1>9
    DEF GateInv, Survived, InForce, Early, Configured, Overridden, Reported

LEMMA GateStep == GateInv /\ [Next]_vars => GateInv'
<1> SUFFICES ASSUME GateInv, [Next]_vars PROVE GateInv'
  OBVIOUS
<1> USE DEF GateInv, Survived, Early, Configured, Overridden, Reported
<1>1. invocation' = invocation
  BY DEF Next, vars, UsageError, ParseArgs, LoadFails, LoadDecisions, ConfigFails, BuildConfig,
         EnvWindow, EnvErr, ReadEnv, ValidateCrashes, Validate, WriteReport, Recommend,
         HttpRefuse, HttpPreflight, Deploy, Stopped
<1>2. \A c \in CaseCategories : /\ MinSize(c)' = MinSize(c) /\ MaxRate(c)' = MaxRate(c)
                               /\ ThresholdsFor(Base, c)' = ThresholdsFor(Base, c)
  BY <1>1 DEF MinSize, MaxRate, Limit, Base
<1>3. /\ AllDicts' = AllDicts /\ ConfigUsable' = ConfigUsable /\ Batch' = Batch
  BY <1>1 DEF AllDicts, ConfigUsable, Batch
<1>4. ASSUME ExitCodeIsTrue, exit_code' = exit_code PROVE ExitCodeIsTrue'
  BY <1>1, <1>4 DEF ExitCodeIsTrue, ConfigUsable, AllDicts, AllFit, Sound, Batch, MinSize,
                    MaxRate, Limit
<1>5. ASSUME exit_code' = -1 PROVE ExitCodeIsTrue'
  BY <1>5 DEF ExitCodeIsTrue
<1>6. CASE UsageError
  <2>1. ExitCodeIsTrue'
    BY <1>1, <1>6 DEF UsageError, ExitCodeIsTrue
  <2> QED BY <1>1, <1>6, <2>1 DEF UsageError, Exit, InForce
<1>7. CASE ParseArgs
  BY <1>1, <1>7 DEF ParseArgs, InForce
<1>8. CASE LoadFails
  <2>1. ExitCodeIsTrue'
    BY <1>1, <1>8 DEF LoadFails, Exit, ExitCodeIsTrue
  <2> QED BY <1>1, <1>8, <2>1 DEF LoadFails, Exit, InForce
<1>9. CASE LoadDecisions
  BY <1>1, <1>9 DEF LoadDecisions, InForce
<1>10. CASE ConfigFails
  <2>1. ExitCodeIsTrue'
    BY <1>1, <1>3, <1>10 DEF ConfigFails, Exit, ExitCodeIsTrue
  <2> QED BY <1>1, <1>10, <2>1 DEF ConfigFails, Exit, InForce
<1>11. CASE BuildConfig
  <2>1. config' = Base /\ pc' = "env_window" /\ exit_code' = exit_code
    BY <1>11 DEF BuildConfig, Base
  <2>2. IsConfig(config')
    BY <2>1, BaseIsConfig
  <2>3. InForce'
    BY <1>2, <2>1 DEF InForce
  <2> QED BY <1>1, <1>3, <1>11, <2>1, <2>2, <2>3 DEF BuildConfig
<1>12. CASE EnvWindow
  BY <1>12, EnvStep, GateAssumption DEF EnvWindow
<1>13. CASE EnvErr
  BY <1>13, EnvStep, GateAssumption DEF EnvErr
<1>14. CASE ValidateCrashes
  <2>1. ExitCodeIsTrue'
    BY <1>1, <1>3, <1>14 DEF ValidateCrashes, Exit, ExitCodeIsTrue
  <2> QED BY <1>1, <1>14, <2>1 DEF ValidateCrashes, Exit, InForce
<1>15. CASE Validate
  BY <1>1, <1>2, <1>3, <1>15 DEF Validate, InForce
<1>16. CASE WriteReport
  BY <1>1, <1>2, <1>3, <1>16 DEF WriteReport, InForce
<1>17. CASE Recommend
  BY <1>17, RecommendStep
<1>18. CASE HttpRefuse
  BY <1>1, <1>5, <1>18 DEF HttpRefuse, InForce
<1>19. CASE HttpPreflight
  BY <1>1, <1>5, <1>19 DEF HttpPreflight, InForce
<1>20. CASE Deploy
  BY <1>1, <1>4, <1>20 DEF Deploy, InForce
<1>21. CASE UNCHANGED vars \/ Stopped
  BY <1>1, <1>2, <1>3, <1>4, <1>21 DEF Stopped, vars, InForce
<1> QED BY <1>6, <1>7, <1>8, <1>9, <1>10, <1>11, <1>12, <1>13, <1>14, <1>15, <1>16, <1>17,
           <1>18, <1>19, <1>20, <1>21 DEF Next

\* Whatever is checked, configured, overridden and fails: the exit code says 0 exactly of
\* sound batches of well-formed decisions, and 2 only of sound ones with malformed
\* decisions (ExitCodeIsTrue; ci_gate.py, main).
THEOREM ExitCodeAlwaysTrue == Spec => []ExitCodeIsTrue
<1>1. GateInv => ExitCodeIsTrue
  BY DEF GateInv, Survived, Early, ExitCodeIsTrue
<1> QED BY GateInitially, GateStep, <1>1, PTL DEF Spec

----------------------------------------------------------------------------
\* Decisions of a set of categories, and those of them that are errors.
RowsIn(batch, cats)   == {i \in Parsed(batch) : batch[i].category \in cats}
ErrorsIn(batch, cats) == {i \in RowsIn(batch, cats) : InferOutcome(batch[i].words) = "error"}

\* A rate that no category of a set exceeds, all their decisions together do not exceed:
\* otherwise a smallest set of categories that do loses nothing with one of them.
LEMMA RateOfAll ==
  ASSUME NEW b \in Seq(RawDecision), NEW max \in Int, NEW All, IsFiniteSet(All),
         \A c \in All : ~RateAbove(Cardinality(ErrorsIn(b, {c})), Cardinality(RowsIn(b, {c})), max)
  PROVE  ~RateAbove(Cardinality(ErrorsIn(b, All)), Cardinality(RowsIn(b, All)), max)
<1> DEFINE Above(G) == RateAbove(Cardinality(ErrorsIn(b, G)), Cardinality(RowsIn(b, G)), max)
           Sizes    == {Cardinality(G) : G \in {H \in SUBSET All : Above(H)}}
<1>1. \A G : /\ RowsIn(b, G) \subseteq DOMAIN b /\ ErrorsIn(b, G) \subseteq RowsIn(b, G)
  BY DEF RowsIn, ErrorsIn, Parsed
<1>2. \A G : /\ IsFiniteSet(RowsIn(b, G)) /\ Cardinality(RowsIn(b, G)) \in Nat
             /\ IsFiniteSet(ErrorsIn(b, G)) /\ Cardinality(ErrorsIn(b, G)) \in Nat
  <2>1. IsFiniteSet(DOMAIN b)
    <3>1. DOMAIN b = 1..Len(b) /\ Len(b) \in Nat
      OBVIOUS
    <3> QED  BY <3>1, FS_Interval
  <2> QED  BY <1>1, <2>1, FS_Subset, FS_CardinalityType
<1>3. Sizes \subseteq Nat
  BY FS_Subset, FS_CardinalityType
<1> SUFFICES ASSUME Above(All) PROVE FALSE
  OBVIOUS
<1>4. Cardinality(All) \in Sizes
  OBVIOUS
<1> HIDE DEF Sizes
<1>5. PICK m \in Sizes : \A n \in Sizes : ~(<<n, m>> \in OpToRel(<, Nat))
  BY <1>3, <1>4, NatLessThanWellFounded, WFMin
<1>6. \A n \in Sizes : ~(n < m)
  BY <1>3, <1>5 DEF OpToRel
<1>7. PICK G \in SUBSET All : Above(G) /\ m = Cardinality(G)
  BY DEF Sizes
<1>8. G # {}
  <2> SUFFICES ASSUME G = {} PROVE FALSE
    OBVIOUS
  <2>1. RowsIn(b, {}) = {} /\ ErrorsIn(b, {}) = {}
    BY DEF RowsIn, ErrorsIn
  <2>2. ~RateAbove(0, 0, max)
    BY DEF RateAbove
  <2> QED  BY <1>7, <2>1, <2>2, FS_EmptySet
<1>9. PICK c \in G : TRUE
  BY <1>8
<1> DEFINE rest == G \ {c}
<1>10. rest \in SUBSET All /\ Cardinality(rest) < m
  <2>1. IsFiniteSet(G) /\ Cardinality(G) \in Nat
    BY FS_Subset, FS_CardinalityType
  <2>2. Cardinality(rest) = Cardinality(G) - 1
    BY <1>9, <2>1, FS_RemoveElement
  <2> QED  BY <1>7, <2>1, <2>2
<1>11. ~Above(rest)
  <2>1. Above(rest) => Cardinality(rest) \in Sizes
    BY <1>10 DEF Sizes
  <2> QED  BY <1>6, <1>10, <2>1
<1>12. ASSUME NEW S, NEW T, IsFiniteSet(S), IsFiniteSet(T), S \cap T = {}
       PROVE  Cardinality(S \cup T) = Cardinality(S) + Cardinality(T)
  <2>1. Cardinality(S \cup T) = Cardinality(S) + Cardinality(T) - Cardinality(S \cap T)
    BY <1>12, FS_Union
  <2>2. Cardinality(S) \in Nat /\ Cardinality(T) \in Nat
    BY <1>12, FS_CardinalityType
  <2>3. Cardinality(S \cap T) = 0
    BY <1>12, FS_EmptySet, Zenon
  <2> QED  BY <2>1, <2>2, <2>3
<1>13. Cardinality(RowsIn(b, G)) = Cardinality(RowsIn(b, rest)) + Cardinality(RowsIn(b, {c}))
  <2>1. RowsIn(b, G) = RowsIn(b, rest) \cup RowsIn(b, {c})
    BY <1>9 DEF RowsIn
  <2>2. RowsIn(b, rest) \cap RowsIn(b, {c}) = {}
    BY DEF RowsIn
  <2> QED  BY <1>2, <1>12, <2>1, <2>2, Zenon
<1>14. Cardinality(ErrorsIn(b, G)) = Cardinality(ErrorsIn(b, rest)) + Cardinality(ErrorsIn(b, {c}))
  <2>1. ErrorsIn(b, G) = ErrorsIn(b, rest) \cup ErrorsIn(b, {c})
    BY <1>9 DEF ErrorsIn, RowsIn
  <2>2. ErrorsIn(b, rest) \cap ErrorsIn(b, {c}) = {}
    BY DEF ErrorsIn, RowsIn
  <2> QED  BY <1>2, <1>12, <2>1, <2>2, Zenon
<1>15. ~Above({c})
  BY <1>9
<1>16. \A n1, n2, e1, e2 \in Nat :
         ~RateAbove(e1, n1, max) /\ ~RateAbove(e2, n2, max) => ~RateAbove(e1 + e2, n1 + n2, max)
  <2> SUFFICES ASSUME NEW n1 \in Nat, NEW n2 \in Nat, NEW e1 \in Nat, NEW e2 \in Nat,
                      ~(100 * e1 > max * n1), ~(100 * e2 > max * n2)
               PROVE  ~(100 * (e1 + e2) > max * (n1 + n2))
    BY DEF RateAbove
  <2>1. max * (n1 + n2) = max * n1 + max * n2
    OBVIOUS
  <2>2. max * n1 \in Int /\ max * n2 \in Int
    OBVIOUS
  <2> QED  BY <2>1, <2>2
<1>17. ~Above(G)
  BY <1>2, <1>11, <1>13, <1>14, <1>15, <1>16
<1> QED  BY <1>7, <1>17

----------------------------------------------------------------------------
\* A version that passed its check is released with the report of its batch: no category
\* of the batch, as the gate groups it, violates a limit.
ProductionOf(batch) ==
  [i \in Parsed(batch) |->
     LET d == ToAgentDecision(batch[i]) IN
     [d EXCEPT !.category = Categorize(d.category, d.text, <<>>)]]

ReleaseInv ==
  /\ pc \in Early \ Reported => report = <<>>
  /\ pc \in Early => answer = "none"
  /\ pc = "http" => config = DefaultConfig
  /\ pc \in {"exited", "deployed"} /\ Released /\ report # <<>> =>
       IsConfig(config) /\ Violations(config, Batch) = {}
  /\ pc = "deployed" => Released /\ production = ProductionOf(Batch)

LEMMA ReleaseInitially == Init => ReleaseInv
BY GateAssumption DEF Init, ReleaseInv, Early, Reported, Callers

\* Only a batch without violations is recommended for release.
LEMMA ReleaseNeedsNone ==
  ASSUME NEW cfg, NEW b, ValidateBatch(cfg, b).recommendation # "BLOCKED"
  PROVE  Violations(cfg, b) = {}
BY Recommendation

LEMMA ReleaseStep == GateInv /\ ReleaseInv /\ [Next]_vars => ReleaseInv'
<1> SUFFICES ASSUME GateInv, ReleaseInv, [Next]_vars PROVE ReleaseInv'
  OBVIOUS
<1> USE DEF Early, Reported
<1>1. invocation' = invocation /\ Batch' = Batch
  BY DEF Next, vars, UsageError, ParseArgs, LoadFails, LoadDecisions, ConfigFails, BuildConfig,
         EnvWindow, EnvErr, ReadEnv, ValidateCrashes, Validate, WriteReport, Recommend,
         HttpRefuse, HttpPreflight, Deploy, Stopped, Batch
<1>2. pc \in Early => exit_code = -1 /\ answer = "none"
  BY DEF GateInv, Survived, ReleaseInv
<1>3. CASE UsageError \/ LoadFails \/ ConfigFails \/ ValidateCrashes
  BY <1>1, <1>3 DEF UsageError, LoadFails, ConfigFails, ValidateCrashes, Exit, ReleaseInv
<1>4. CASE ParseArgs \/ LoadDecisions \/ BuildConfig
  BY <1>1, <1>4 DEF ParseArgs, LoadDecisions, BuildConfig, ReleaseInv
<1>5. CASE EnvWindow \/ EnvErr
  BY <1>1, <1>5 DEF EnvWindow, EnvErr, ReadEnv, Exit, ReleaseInv
<1>6. CASE Validate \/ WriteReport
  BY <1>1, <1>6 DEF Validate, WriteReport, ReleaseInv
<1>7. CASE Recommend
  <2>1. /\ pc = "recommend" /\ pc' = "exited" /\ UNCHANGED <<config, report, answer>>
        /\ exit_code' = ExitCode(report.recommendation, invocation.fail_on_warning)
    BY <1>7 DEF Recommend, Exit
  <2>2. answer = "none" /\ IsConfig(config) /\ report = ValidateBatch(config, Batch)
    BY <1>2, <2>1 DEF GateInv, Survived, Configured
  <2>3. Released' => report.recommendation # "BLOCKED"
    BY <2>1, <2>2 DEF Released, ExitCode
  <2>4. Released' => Violations(config, Batch) = {}
    BY <2>2, <2>3, ReleaseNeedsNone
  <2> QED  BY <1>1, <2>1, <2>2, <2>4 DEF ReleaseInv
<1>8. CASE HttpRefuse
  BY <1>1, <1>2, <1>8 DEF HttpRefuse, ReleaseInv, Released
<1>9. CASE HttpPreflight
  <2>1. /\ pc = "http" /\ pc' = "exited" /\ UNCHANGED <<config, exit_code>>
        /\ report' = ValidateBatch(config, Batch) /\ answer' = report'.recommendation
    BY <1>9 DEF HttpPreflight
  <2>2. exit_code = -1 /\ config = DefaultConfig
    BY <1>2, <2>1 DEF ReleaseInv
  <2>3. IsConfig(config)
    BY <2>2, DefaultIsConfig
  <2>4. Released' => ValidateBatch(config, Batch).recommendation # "BLOCKED"
    BY <2>1, <2>2 DEF Released
  <2>5. Released' => Violations(config, Batch) = {}
    BY <2>4, ReleaseNeedsNone
  <2> QED  BY <1>1, <2>1, <2>3, <2>5 DEF ReleaseInv
<1>10. CASE Deploy
  <2>1. production' = ProductionOf(Batch)
    BY <1>10 DEF Deploy, ProductionOf
  <2> QED  BY <1>1, <1>10, <2>1 DEF Deploy, ReleaseInv, Released
<1>11. CASE Stopped \/ UNCHANGED vars
  BY <1>1, <1>11 DEF Stopped, vars, ReleaseInv, Released
<1> QED BY <1>3, <1>4, <1>5, <1>6, <1>7, <1>8, <1>9, <1>10, <1>11 DEF Next

\* The gate's groups, and what they become in production: those outside the enumeration
\* are stored together under "unknown".
LEMMA StoredTogether ==
  ASSUME NEW b \in Seq(RawDecision), production = ProductionOf(b),
         \A i \in Parsed(b) : b[i].category \notin CaseCategories => b[i].risk \notin HighRiskLevels
  PROVE  /\ DOMAIN production = Parsed(b)
         /\ \A i \in Parsed(b) : /\ production[i].outcome = InferOutcome(b[i].words)
                                 /\ production[i].category =
                                      IF b[i].category \in CaseCategories THEN b[i].category
                                      ELSE "unknown"
<1>1. DOMAIN production = Parsed(b)
  BY DEF ProductionOf
<1>2. ASSUME NEW i \in Parsed(b)
      PROVE  /\ production[i].outcome = InferOutcome(b[i].words)
             /\ production[i].category = IF b[i].category \in CaseCategories THEN b[i].category
                                         ELSE "unknown"
  <2> DEFINE d == ToAgentDecision(b[i])
  <2>1. /\ d.outcome = InferOutcome(b[i].words) /\ d.category = ToCategory(b[i])
        /\ d = [category |-> d.category, outcome |-> d.outcome, text |-> d.text]
    BY DEF ToAgentDecision
  <2>2. ToCategory(b[i]) = IF b[i].category \in CaseCategories THEN b[i].category ELSE "unknown"
    <3>1. b[i].risk \in RiskLevels
      <4>1. b[i] \in RawDecision
        BY DEF Parsed
      <4> QED  BY <4>1 DEF RawDecision
    <3> QED  BY <3>1 DEF ToCategory, RiskToCategory, RiskLevels, HighRiskLevels
  <2>3. Categorize(d.category, d.text, <<>>) = d.category
    <3>1. DOMAIN <<>> = {}
      OBVIOUS
    <3> QED  BY <3>1 DEF Categorize
  <2>4. production[i] = [d EXCEPT !.category = d.category]
    BY <2>3 DEF ProductionOf
  <2> HIDE DEF d
  <2> QED  BY <2>1, <2>2, <2>4
<1> QED  BY <1>1, <1>2

\* No violation in the gate's groups: none in those of production.
LEMMA StoredWithinLimits ==
  ASSUME NEW b \in Seq(RawDecision), IsConfig(config), Violations(config, b) = {},
         production = ProductionOf(b),
         \A i \in Parsed(b) : b[i].category \notin CaseCategories => b[i].risk \notin HighRiskLevels,
         NEW i \in Parsed(b)
  PROVE  WithinLimits(production[i].category)
<1> DEFINE StoredAs(c) == IF c \in CaseCategories THEN c ELSE "unknown"
           k    == StoredAs(b[i].category)
           cats == {c \in Grouped(b) : StoredAs(c) = k}
           min  == ThresholdsFor(config, k).min_detection_size
           max  == ThresholdsFor(config, k).max_error_rate
<1>1. /\ DOMAIN production = Parsed(b) /\ production[i].category = k
      /\ \A j \in Parsed(b) : /\ production[j].outcome = InferOutcome(b[j].words)
                              /\ production[j].category = StoredAs(b[j].category)
  BY StoredTogether
<1>2. ASSUME NEW c \in cats
      PROVE  ThresholdsFor(config, c) = ThresholdsFor(config, k)
  BY LimitsOfCategory DEF CaseCategories
<1>3. min \in Int /\ max \in Int
  BY LimitsOfCategory DEF LimitPairs
<1>4. \A G : /\ Cardinality(RowsIn(b, G)) \in Nat /\ Cardinality(ErrorsIn(b, G)) \in Nat
             /\ IsFiniteSet(RowsIn(b, G)) /\ IsFiniteSet(Grouped(b))
  <2>1. IsFiniteSet(DOMAIN b)
    <3>1. DOMAIN b = 1..Len(b) /\ Len(b) \in Nat
      OBVIOUS
    <3> QED  BY <3>1, FS_Interval
  <2>2. Parsed(b) \subseteq DOMAIN b /\ \A G : /\ RowsIn(b, G) \subseteq DOMAIN b
                                               /\ ErrorsIn(b, G) \subseteq DOMAIN b
    BY DEF Parsed, RowsIn, ErrorsIn
  <2>3. \A S \in SUBSET DOMAIN b : IsFiniteSet(S) /\ Cardinality(S) \in Nat
    BY <2>1, FS_Subset, FS_CardinalityType
  <2>4. IsFiniteSet(Grouped(b))
    <3> DEFINE of == [j \in Parsed(b) |-> b[j].category]
    <3>1. of \in Surjection(Parsed(b), Grouped(b))
      BY DEF Surjection, Grouped
    <3> QED  BY <2>2, <2>3, <3>1, FS_Surjection
  <2> QED  BY <2>2, <2>3, <2>4
<1>5. ASSUME NEW c \in cats
      PROVE  /\ Cardinality(RowsIn(b, {c})) >= min
             /\ ~RateAbove(Cardinality(ErrorsIn(b, {c})), Cardinality(RowsIn(b, {c})), max)
  <2>1. Group(b, c) = RowsIn(b, {c})
    BY DEF Group, RowsIn
  <2>2. GroupErrors(b, c) = ErrorsIn(b, {c})
    BY <2>1 DEF GroupErrors, ErrorsIn, GateOutcome, InferOutcome
  <2>3. CheckCategory(config, b, c) = {}
    <3>1. c \in Grouped(b)
      OBVIOUS
    <3>2. {c} \X CheckCategory(config, b, c) \subseteq Violations(config, b)
      BY <3>1 DEF Violations
    <3>3. ASSUME NEW v \in CheckCategory(config, b, c)
          PROVE  FALSE
      <4>1. <<c, v>> \in {c} \X CheckCategory(config, b, c)
        OBVIOUS
      <4>2. <<c, v>> \in {}
        BY <3>2, <4>1
      <4> QED  BY <4>2
    <3> QED  BY <3>3
  <2>4. "error_rate" \notin CheckCategory(config, b, c) /\ "too_few" \notin CheckCategory(config, b, c)
    BY <2>3
  <2>5. /\ ~(Cardinality(Group(b, c)) < ThresholdsFor(config, c).min_detection_size)
        /\ ~RateAbove(Cardinality(GroupErrors(b, c)), Cardinality(Group(b, c)),
                      ThresholdsFor(config, c).max_error_rate)
    BY <2>4 DEF CheckCategory
  <2>6. /\ ~(Cardinality(RowsIn(b, {c})) < min)
        /\ ~RateAbove(Cardinality(ErrorsIn(b, {c})), Cardinality(RowsIn(b, {c})), max)
    BY <1>2, <2>1, <2>2, <2>5, Zenon
  <2> HIDE DEF min, max, cats
  <2> QED  BY <1>3, <1>4, <2>6
<1>6. \A j \in Parsed(b) : b[j].category \in cats <=> StoredAs(b[j].category) = k
  BY DEF Grouped
<1>7. InProduction(k) = RowsIn(b, cats)
  BY <1>1, <1>6 DEF InProduction, RowsIn
<1>8. {j \in InProduction(k) : production[j].outcome = "error"} = ErrorsIn(b, cats)
  <2> HIDE DEF k, cats
  <2>1. \A j \in RowsIn(b, cats) : production[j].outcome = InferOutcome(b[j].words)
    BY <1>1 DEF RowsIn
  <2> QED  BY <1>7, <2>1 DEF ErrorsIn
<1>9. b[i].category \in cats
  BY <1>6
<1>10. RowsIn(b, {b[i].category}) \subseteq RowsIn(b, cats)
  BY <1>9 DEF RowsIn
<1>11. IsFiniteSet(cats)
  BY <1>4, FS_Subset
<1> HIDE DEF cats, k, min, max
<1>12. Cardinality(RowsIn(b, cats)) >= min
  <2>1. Cardinality(RowsIn(b, {b[i].category})) <= Cardinality(RowsIn(b, cats))
    BY <1>4, <1>10, FS_Subset
  <2>2. Cardinality(RowsIn(b, {b[i].category})) >= min
    BY <1>5, <1>9
  <2> QED  BY <1>3, <1>4, <2>1, <2>2
<1>13. ~RateAbove(Cardinality(ErrorsIn(b, cats)), Cardinality(RowsIn(b, cats)), max)
  BY <1>3, <1>5, <1>11, RateOfAll
<1>14. WithinLimits(k)
  BY <1>7, <1>8, <1>12, <1>13 DEF WithinLimits, CategoryStats, min, max
<1> QED  BY <1>1, <1>14

\* Whatever passes the check and is deployed keeps within the limits in force when its
\* decisions are stored (SafeInProduction; preflight.py:7).  Decisions outside the
\* enumeration were checked in groups of their own and are stored in one.
THEOREM AlwaysSafeInProduction == Spec => []SafeInProduction
<1>1. ASSUME GateInv, ReleaseInv
      PROVE  SafeInProduction
  <2> SUFFICES ASSUME pc = "deployed", report # <<>>, ~Foreign, NEW i \in DOMAIN production
               PROVE  WithinLimits(production[i].category)
    BY DEF SafeInProduction
  <2>1. /\ IsConfig(config) /\ Violations(config, Batch) = {}
        /\ production = ProductionOf(Batch)
    BY <1>1 DEF ReleaseInv
  <2>2. Batch \in Seq(RawDecision)
    BY <1>1, GateAssumption DEF Batch, GateInv, Survived
  <2>3. \A j \in Parsed(Batch) : Batch[j].category \notin CaseCategories
                                   => Batch[j].risk \notin HighRiskLevels
    BY DEF Foreign
  <2>4. i \in Parsed(Batch)
    BY <2>1 DEF ProductionOf
  <2> QED  BY <2>1, <2>2, <2>3, <2>4, StoredWithinLimits
<1> QED BY GateInitially, GateStep, ReleaseInitially, ReleaseStep, <1>1, PTL DEF Spec
=============================================================================

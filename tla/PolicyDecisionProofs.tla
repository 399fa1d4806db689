------------------------ MODULE PolicyDecisionProofs ------------------------
(***************************************************************************)
(* Proofs about PolicyDecision, for every set of file types, results and   *)
(* policies, hence for decision matrices of every length.                  *)
(*                                                                         *)
(* None of the properties is inductive: they speak of the returned verdict *)
(* only.  VerdictSoFar says, for each point of the evaluation, what the    *)
(* verdict must be given the checks already made; it is inductive together *)
(* with the type invariant, and at the end it says that the verdict is     *)
(* Outcome(results, policy), from which the properties follow.             *)
(* TraceSoFar says the same of the trace: its first deciding entry carries *)
(* the verdict so far, and the rules walked are in their places.           *)
(*                                                                         *)
(* The last section is about the shipped policies.  None of their matrices *)
(* has a rule that says VERIFIED (ShippedRules), so a VERIFIED comes from  *)
(* the policy-level checks after no rule has matched (VerifiedByDefault);  *)
(* the flags and rules of each policy then give the property.              *)
(***************************************************************************)
EXTENDS ShippedPolicies, TLAPS

\* Rule k is the first of the matrix that matches.
First(k) == /\ k \in 1..Len(Matrix)
            /\ Matches(policy, results, k)
            /\ \A j \in 1..k-1 : ~Matches(policy, results, j)

\* The verdict of the policy-level checks made before reaching check c.
LevelBefore(c) ==
  IF policy.require_signature /\ results.signature # "Verified" THEN "Failed"
  ELSE IF c # "filetype" /\ results.file_type \in policy.deny_file_types THEN "Failed"
  ELSE IF c \notin {"filetype", "executable"} /\ Blocked(results, policy) THEN "Failed"
  ELSE IF c \in {"lookup", "sbom", "fallthrough", "done"} /\ MissingScan(results, policy)
       THEN Severity(policy.malware_failure_is_fatal)
  ELSE IF c \in {"sbom", "fallthrough", "done"} /\ MissingLookup(results, policy)
       THEN Severity(policy.reputation_failure_is_fatal)
  ELSE IF c \in {"fallthrough", "done"} /\ policy.require_sbom THEN "Unverified"
  ELSE IF c = "done" THEN "Verified" ELSE "none"

AfterMatrix == {"filetype", "executable", "scan", "lookup", "sbom", "fallthrough", "done"}

NoRuleBefore(n)  == \A j \in 1..n : ~Matches(policy, results, j)
SetByRuleUpTo(n) == \E k \in 1..n : First(k) /\ final_verdict = Matrix[k].verdict

VerdictSoFar ==
  /\ pc = "malware" => final_verdict = "none"
  /\ pc = "reputation" =>
       final_verdict = IF results.malware = "Detected" THEN "Failed" ELSE "none"
  /\ pc \in {"matrix"} \cup AfterMatrix /\ Mandatory(results) => final_verdict = "Failed"
  /\ pc = "matrix" /\ ~Mandatory(results) =>
       \/ final_verdict = "none" /\ NoRuleBefore(rule - 1)
       \/ SetByRuleUpTo(rule - 1)
  /\ pc \in AfterMatrix /\ ~Mandatory(results) =>
       \/ final_verdict = LevelBefore(pc) /\ NoRuleBefore(Len(Matrix))
       \/ SetByRuleUpTo(Len(Matrix))

Typed == /\ results \in PipelineResults
         /\ policy \in PolicyType
         /\ TypeOK
         /\ pc \in {"malware", "reputation"} => rule = 1

IInv == Typed /\ VerdictSoFar

----------------------------------------------------------------------------
\* What a check contributes is well formed.

Contribution == [entries : Seq(TraceEntry), verdict : Verdict]

LEMMA NoteType ==
  ASSUME NEW c \in ConditionName, NEW m \in BOOLEAN, NEW v \in Verdict, NEW w \in Verdict
  PROVE  /\ Note(c, m, v) \in Contribution
         /\ [entries |-> Entry(c, m, w), verdict |-> v] \in Contribution
         /\ Silent \in Contribution
BY DEF Note, Entry, Silent, Contribution, TraceEntry, Verdict

LEMMA CheckTypes ==
  ASSUME NEW r \in PipelineResults, NEW p \in PolicyType
  PROVE  /\ MandatoryMalware(r) \in Contribution
         /\ MandatoryReputation(r) \in Contribution
         /\ \A k \in 1..Len(p.decision_matrix) : MatrixRule(r, p, k) \in Contribution
         /\ SignatureCheck(r, p) \in Contribution
         /\ FileTypeCheck(r, p) \in Contribution
         /\ ExecutableCheck(r, p) \in Contribution
         /\ MalwareAvailabilityCheck(r, p) \in Contribution
         /\ ReputationAvailabilityCheck(r, p) \in Contribution
         /\ SbomCheck(p) \in Contribution
<1> USE NoteType
<1>a. /\ {"Verified", "Unverified", "Failed", "none"} \subseteq Verdict
      /\ \A f : Severity(f) \in Verdict
  BY DEF Verdict, Status, Severity
<1>b. /\ RuleCondition \subseteq ConditionName
      /\ {"MalwareDetected", "ReputationMalicious", "DeniedFileType", "SignatureRequired",
          "ExecutableHandling", "MalwareScanRequired", "ReputationRequired",
          "SbomRequired"} \subseteq ConditionName
  BY DEF RuleCondition, ConditionName
<1>1. MandatoryMalware(r) \in Contribution
  BY <1>a, <1>b DEF MandatoryMalware
<1>2. MandatoryReputation(r) \in Contribution
  BY <1>a, <1>b DEF MandatoryReputation
<1>3. ASSUME NEW k \in 1..Len(p.decision_matrix)
      PROVE  MatrixRule(r, p, k) \in Contribution
  <2>1. /\ p.decision_matrix[k].condition \in ConditionName
        /\ p.decision_matrix[k].verdict \in Verdict
    <3>1. p.decision_matrix \in Seq(DecisionRule)
      BY DEF PolicyType
    <3>2. p.decision_matrix[k] \in DecisionRule
      BY <3>1
    <3> QED  BY <1>b, <3>2 DEF DecisionRule, Verdict
  <2>2. QED  BY <2>1, <1>a DEF MatrixRule
<1>4. SignatureCheck(r, p) \in Contribution
  BY <1>a, <1>b DEF SignatureCheck, PolicyType
<1>5. FileTypeCheck(r, p) \in Contribution
  BY <1>a, <1>b DEF FileTypeCheck
<1>6. ExecutableCheck(r, p) \in Contribution
  BY <1>a, <1>b DEF ExecutableCheck
<1>7. MalwareAvailabilityCheck(r, p) \in Contribution
  BY <1>a, <1>b DEF MalwareAvailabilityCheck
<1>8. ReputationAvailabilityCheck(r, p) \in Contribution
  BY <1>a, <1>b DEF ReputationAvailabilityCheck
<1>9. SbomCheck(p) \in Contribution
  BY <1>a, <1>b DEF SbomCheck
<1> QED  BY <1>1, <1>2, <1>3, <1>4, <1>5, <1>6, <1>7, <1>8, <1>9

\* Applying a well-formed contribution keeps trace and verdict well formed.
LEMMA ApplyType ==
  ASSUME trace \in Seq(TraceEntry), final_verdict \in Verdict,
         NEW o \in Contribution, Apply(o)
  PROVE  trace' \in Seq(TraceEntry) /\ final_verdict' \in Verdict
BY DEF Apply, Contribution

LEMMA TypedStep == Typed /\ [Next]_vars => Typed'
<1> SUFFICES ASSUME Typed, [Next]_vars PROVE Typed'
  OBVIOUS
<1>1. Len(Matrix) \in Nat
  BY DEF Typed, PolicyType, Matrix
<1>2. ASSUME NEW here, NEW next \in Checks \ {"done"}, NEW o \in Contribution,
             Check(here, next, o), next \notin {"malware", "reputation"} \/ rule = 1
      PROVE  Typed'
  <2>1. trace' \in Seq(TraceEntry) /\ final_verdict' \in Verdict
    BY <1>2, ApplyType DEF Typed, TypeOK, Check
  <2> QED  BY <1>2, <2>1 DEF Typed, TypeOK, Check, args, Matrix, Done, Checks
<1>3. CASE CheckMalware
  BY <1>2, <1>3, CheckTypes DEF CheckMalware, Typed, Checks, Check
<1>4. CASE CheckReputation
  BY <1>2, <1>4, CheckTypes DEF CheckReputation, Typed, Checks
<1>5. CASE ApplyRule
  <2>1. trace' \in Seq(TraceEntry) /\ final_verdict' \in Verdict
    <3>1. rule \in 1..Len(Matrix)
      BY <1>1, <1>5 DEF ApplyRule, Typed, TypeOK
    <3>2. MatrixRule(results, policy, rule) \in Contribution
      BY <3>1, CheckTypes DEF Typed, Matrix
    <3> QED  BY <1>5, <3>2, ApplyType DEF ApplyRule, Typed, TypeOK
  <2> QED  BY <1>1, <1>5, <2>1 DEF ApplyRule, Typed, TypeOK, args, Matrix, Done, Checks
<1>6. CASE CheckSignaturePolicy
  BY <1>2, <1>6, CheckTypes DEF CheckSignaturePolicy, Typed, Checks
<1>7. CASE CheckFileTypePolicy
  BY <1>2, <1>7, CheckTypes DEF CheckFileTypePolicy, Typed, Checks
<1>8. CASE CheckExecutablePolicy
  BY <1>2, <1>8, CheckTypes DEF CheckExecutablePolicy, Typed, Checks
<1>9. CASE CheckMalwareAvailabilityPolicy
  BY <1>2, <1>9, CheckTypes DEF CheckMalwareAvailabilityPolicy, Typed, Checks
<1>10. CASE CheckReputationAvailabilityPolicy
  BY <1>2, <1>10, CheckTypes DEF CheckReputationAvailabilityPolicy, Typed, Checks
<1>11. CASE CheckSbomPolicy
  BY <1>2, <1>11, CheckTypes DEF CheckSbomPolicy, Typed, Checks
<1>12. CASE Fallthrough
  BY <1>12 DEF Fallthrough, Typed, TypeOK, args, Matrix, Done, Checks, Verdict, Status
<1>13. CASE UNCHANGED vars
  BY <1>13 DEF vars, args, Typed, TypeOK, Matrix, Done
<1> QED
  BY <1>3, <1>4, <1>5, <1>6, <1>7, <1>8, <1>9, <1>10, <1>11, <1>12, <1>13 DEF Next

----------------------------------------------------------------------------
\* The verdict so far is kept by every step.

LEMMA MatrixTyped ==
  ASSUME Typed
  PROVE  /\ Len(Matrix) \in Nat
         /\ \A k \in 1..Len(Matrix) : Matrix[k].verdict \in Status
<1>1. Matrix \in Seq(DecisionRule)
  BY DEF Typed, PolicyType, Matrix
<1>2. \A k \in 1..Len(Matrix) : Matrix[k] \in DecisionRule
  BY <1>1
<1> QED  BY <1>1, <1>2 DEF DecisionRule

\* A verdict taken from a rule stays what it is as long as verdicts are not overridden.
LEMMA RuleVerdictKept ==
  ASSUME Typed, results' = results, policy' = policy,
         final_verdict # "none" => final_verdict' = final_verdict,
         NEW n \in 0..Len(Matrix), SetByRuleUpTo(n)
  PROVE  SetByRuleUpTo(n)'
<1>1. PICK k \in 1..n : First(k) /\ final_verdict = Matrix[k].verdict
  BY DEF SetByRuleUpTo
<1>2. k \in 1..Len(Matrix) /\ Matrix[k].verdict # "none"
  BY <1>1, MatrixTyped DEF Status
<1>3. final_verdict' = final_verdict
  BY <1>1, <1>2
<1>4. First(k)' /\ Matrix' = Matrix
  BY <1>1 DEF First, Matrix, Matches
<1> QED  BY <1>1, <1>3, <1>4 DEF SetByRuleUpTo

LEMMA VerdictStep == IInv /\ [Next]_vars => VerdictSoFar'
<1> SUFFICES ASSUME Typed, VerdictSoFar, [Next]_vars PROVE VerdictSoFar'
  BY DEF IInv
<1>1. Len(Matrix) \in Nat /\ rule \in 1..Len(Matrix) + 1
  BY MatrixTyped DEF Typed, TypeOK
<1>2. CASE CheckMalware
  BY <1>2 DEF CheckMalware, Check, Apply, MandatoryMalware, Note, VerdictSoFar, AfterMatrix,
              args
<1>3. CASE CheckReputation
  <2>1. /\ pc' = "matrix" /\ results' = results /\ policy' = policy /\ rule' = 1
        /\ final_verdict' = IF Mandatory(results) THEN "Failed" ELSE "none"
    BY <1>3 DEF CheckReputation, Check, Apply, MandatoryReputation, Note, VerdictSoFar,
                args, Mandatory, Typed
  <2>2. NoRuleBefore(rule - 1)'
    BY <2>1 DEF NoRuleBefore
  <2> QED  BY <2>1, <2>2 DEF VerdictSoFar, AfterMatrix, Mandatory
<1>4. CASE ApplyRule
  <2>1. /\ pc = "matrix" /\ pc' = "matrix" /\ results' = results /\ policy' = policy
        /\ rule' = rule + 1 /\ rule \in 1..Len(Matrix)
        /\ Apply(MatrixRule(results, policy, rule))
    BY <1>1, <1>4 DEF ApplyRule, args
  <2>2. Mandatory(results)' => final_verdict' = "Failed"
    BY <2>1 DEF VerdictSoFar, Apply, Mandatory
  <2>3. PICK n \in 1..Len(Matrix) : n = rule
    BY <2>1
  <2>4. CASE SetByRuleUpTo(n - 1)
    <3>1. SetByRuleUpTo(n - 1)'
      BY <1>1, <2>1, <2>3, <2>4, RuleVerdictKept DEF Apply
    <3>2. SetByRuleUpTo(n)'
      BY <1>1, <2>3, <3>1 DEF SetByRuleUpTo
    <3>3. SetByRuleUpTo(rule - 1)'
      BY <1>1, <2>1, <2>3, <3>2 DEF SetByRuleUpTo
    <3> QED  BY <2>1, <2>2, <3>3 DEF VerdictSoFar, AfterMatrix
  <2>5. CASE final_verdict = "none" /\ NoRuleBefore(n - 1)
    <3>1. CASE Matches(policy, results, n)
      <4>1. final_verdict' = Matrix[n].verdict
        BY <2>1, <2>3, <2>5, <3>1 DEF Apply, MatrixRule, Note, Matrix
      <4>2. First(n) /\ Matrix' = Matrix
        BY <2>1, <2>5, <3>1 DEF First, NoRuleBefore, Matrix
      <4>3. First(n)'
        BY <2>1, <4>2 DEF First, Matches, Matrix
      <4>4. SetByRuleUpTo(rule - 1)'
        BY <1>1, <2>1, <2>3, <4>1, <4>2, <4>3 DEF SetByRuleUpTo
      <4> QED  BY <2>1, <2>2, <4>4 DEF VerdictSoFar, AfterMatrix
    <3>2. CASE ~Matches(policy, results, n)
      <4>1. final_verdict' = "none"
        BY <2>1, <2>3, <2>5, <3>2 DEF Apply, MatrixRule, Note
      <4>2. \A j \in 1..n : ~Matches(policy, results, j)
        BY <1>1, <2>5, <3>2 DEF NoRuleBefore
      <4>3. NoRuleBefore(rule - 1)'
        BY <1>1, <2>1, <2>3, <4>2 DEF NoRuleBefore, Matches
      <4> QED  BY <2>1, <2>2, <4>1, <4>3 DEF VerdictSoFar, AfterMatrix
    <3> QED  BY <3>1, <3>2
  <2>6. CASE Mandatory(results)
    BY <2>1, <2>2, <2>6 DEF VerdictSoFar, AfterMatrix, Mandatory
  <2> QED  BY <2>1, <2>3, <2>4, <2>5, <2>6 DEF VerdictSoFar
<1>5. CASE CheckSignaturePolicy
  <2>1. /\ pc = "matrix" /\ pc' = "filetype" /\ results' = results /\ policy' = policy
        /\ rule - 1 = Len(Matrix) /\ Apply(SignatureCheck(results, policy))
    BY <1>1, <1>5 DEF CheckSignaturePolicy, Check, args
  <2>2. Mandatory(results)' => final_verdict' = "Failed"
    BY <2>1 DEF VerdictSoFar, Apply, Mandatory
  <2>3. CASE SetByRuleUpTo(rule - 1)
    <3>1. PICK n \in 0..Len(Matrix) : n = Len(Matrix)
      BY <1>1
    <3>2. SetByRuleUpTo(n)
      BY <2>1, <2>3, <3>1 DEF SetByRuleUpTo
    <3>3. SetByRuleUpTo(n)'
      BY <2>1, <3>2, RuleVerdictKept DEF Apply
    <3>4. SetByRuleUpTo(Len(Matrix))'
      BY <2>1, <3>1, <3>3 DEF SetByRuleUpTo, Matrix
    <3> QED  BY <2>1, <2>2, <3>4 DEF VerdictSoFar, AfterMatrix
  <2>4. CASE final_verdict = "none" /\ NoRuleBefore(rule - 1)
    <3>1. NoRuleBefore(Len(Matrix))'
      BY <2>1, <2>4 DEF NoRuleBefore, Matrix, Matches
    <3>2. (final_verdict = LevelBefore(pc))'
      BY <2>1, <2>4 DEF Apply, SignatureCheck, Note, LevelBefore, Typed, PolicyType
    <3> QED  BY <2>1, <2>2, <3>1, <3>2 DEF VerdictSoFar, AfterMatrix
  <2>5. CASE Mandatory(results)
    BY <2>1, <2>2, <2>5 DEF VerdictSoFar, AfterMatrix, Mandatory
  <2> QED  BY <2>1, <2>3, <2>4, <2>5 DEF VerdictSoFar
\* The steps after the matrix: a check at pc = c and the one at pc = d that follows it.
<1>6. ASSUME NEW c \in AfterMatrix, NEW d \in AfterMatrix, pc = c, pc' = d,
             results' = results, policy' = policy,
             final_verdict # "none" => final_verdict' = final_verdict,
             final_verdict = LevelBefore(c) => final_verdict' = LevelBefore(d)
      PROVE  VerdictSoFar'
  <2>1. Mandatory(results)' => final_verdict' = "Failed"
    BY <1>6 DEF VerdictSoFar, Mandatory
  <2>2. CASE SetByRuleUpTo(Len(Matrix))
    <3>1. PICK n \in 0..Len(Matrix) : n = Len(Matrix)
      BY <1>1
    <3>2. SetByRuleUpTo(n)'
      BY <1>6, <2>2, <3>1, RuleVerdictKept
    <3>3. SetByRuleUpTo(Len(Matrix))'
      BY <1>6, <3>1, <3>2 DEF SetByRuleUpTo, Matrix
    <3> QED  BY <1>6, <2>1, <3>3 DEF VerdictSoFar, AfterMatrix
  <2>3. CASE final_verdict = LevelBefore(c) /\ NoRuleBefore(Len(Matrix))
    <3>1. NoRuleBefore(Len(Matrix))'
      BY <1>6, <2>3 DEF NoRuleBefore, Matrix, Matches
    <3>2. (final_verdict = LevelBefore(pc))'
      BY <1>6, <2>3 DEF LevelBefore
    <3> QED  BY <1>6, <2>1, <3>1, <3>2 DEF VerdictSoFar, AfterMatrix
  <2>4. CASE Mandatory(results)
    BY <1>6, <2>1, <2>4 DEF VerdictSoFar, AfterMatrix, Mandatory
  <2> QED  BY <1>6, <2>2, <2>3, <2>4 DEF VerdictSoFar
<1> USE DEF Check, Apply, args, AfterMatrix, LevelBefore
<1>7. CASE CheckFileTypePolicy
  BY <1>6, <1>7 DEF CheckFileTypePolicy, FileTypeCheck, Note, Silent
<1>8. CASE CheckExecutablePolicy
  BY <1>6, <1>8 DEF CheckExecutablePolicy, ExecutableCheck, Note, Silent, Blocked
<1>9. CASE CheckMalwareAvailabilityPolicy
  BY <1>6, <1>9 DEF CheckMalwareAvailabilityPolicy, MalwareAvailabilityCheck, Note, Silent,
                    MissingScan, Severity
<1>10. CASE CheckReputationAvailabilityPolicy
  BY <1>6, <1>10 DEF CheckReputationAvailabilityPolicy, ReputationAvailabilityCheck, Note,
                     Silent, MissingLookup, Severity
<1>11. CASE CheckSbomPolicy
  BY <1>6, <1>11 DEF CheckSbomPolicy, SbomCheck, Note, Silent, Severity
<1>12. CASE Fallthrough
  BY <1>6, <1>12 DEF Fallthrough, Severity
<1>13. CASE UNCHANGED vars
  BY <1>13 DEF vars, VerdictSoFar, Mandatory, NoRuleBefore, SetByRuleUpTo, First, Matrix, Matches
<1> QED
  BY <1>2, <1>3, <1>4, <1>5, <1>7, <1>8, <1>9, <1>10, <1>11, <1>12, <1>13 DEF Next

----------------------------------------------------------------------------
\* The theorems.

LEMMA InitIInv == Init => IInv
<1> SUFFICES ASSUME Init PROVE IInv
  OBVIOUS
<1>1. PICK c \in Cases : results = c[1] /\ policy = c[2]
  BY DEF Init
<1>2. c \in PipelineResults \X PolicyType /\ args = c
  BY <1>1, CasesAssumption DEF args
<1>3. results \in PipelineResults /\ policy \in PolicyType /\ args \in Cases
  BY <1>1, <1>2
<1>4. Matrix \in Seq(DecisionRule)
  BY <1>3 DEF PolicyType, Matrix
<1>5. Typed
  BY <1>3, <1>4 DEF Init, Typed, TypeOK, Verdict, Checks, Done
<1> QED
  BY <1>5 DEF Init, IInv, VerdictSoFar, AfterMatrix

\* The invariant the other theorems rest on: every reachable state is well typed and
\* has the verdict that the checks made so far determine.
THEOREM Invariant == Spec => []IInv
<1>1. IInv /\ [Next]_vars => IInv'
  BY TypedStep, VerdictStep DEF IInv
<1> QED  BY InitIInv, <1>1, PTL DEF Spec

\* Every reachable state of the evaluation is well typed, and a finished one has a verdict.
THEOREM TypeCorrect == Spec => []TypeOK
<1>1. IInv => TypeOK
  BY DEF IInv, Typed
<1> QED  BY Invariant, <1>1, PTL

\* The verdict of a rule that is the first to match is the one Outcome picks.
LEMMA FirstIsChosen ==
  ASSUME Typed, NEW k \in 1..Len(Matrix), First(k)
  PROVE  k \in MatchingRules(results, policy) /\ FirstRule(results, policy) = k
<1> DEFINE M == MatchingRules(results, policy)
<1>1. Len(Matrix) \in Nat
  BY MatrixTyped
<1>2. M \subseteq 1..Len(Matrix) /\ k \in M
  BY DEF MatchingRules, Matrix, First
<1>3. \A j \in M : k <= j
  BY <1>1, <1>2 DEF First, MatchingRules, Matrix
<1>4. \A i \in M : (\A j \in M : i <= j) => i = k
  BY <1>1, <1>2, <1>3
<1> HIDE DEF M
<1>5. (CHOOSE i \in M : \A j \in M : i <= j) = k
  BY <1>2, <1>3, <1>4
<1> QED  BY <1>2, <1>5 DEF M, FirstRule

\* A finished evaluation has computed Outcome.
LEMMA DoneOutcome == IInv /\ Done => final_verdict = Outcome(results, policy)
<1> SUFFICES ASSUME Typed, VerdictSoFar, pc = "done"
             PROVE  final_verdict = Outcome(results, policy)
  BY DEF IInv, Done
<1>1. CASE Mandatory(results)
  BY <1>1 DEF VerdictSoFar, AfterMatrix, Outcome
<1>2. CASE ~Mandatory(results) /\ SetByRuleUpTo(Len(Matrix))
  <2>1. PICK k \in 1..Len(Matrix) : First(k) /\ final_verdict = Matrix[k].verdict
    BY <1>2 DEF SetByRuleUpTo
  <2>2. k \in MatchingRules(results, policy) /\ FirstRule(results, policy) = k
    BY <2>1, FirstIsChosen
  <2> QED  BY <1>2, <2>1, <2>2 DEF Outcome, Matrix
<1>3. CASE ~Mandatory(results) /\ final_verdict = LevelBefore("done")
                               /\ NoRuleBefore(Len(Matrix))
  <2>1. MatchingRules(results, policy) = {}
    BY <1>3 DEF NoRuleBefore, MatchingRules, Matrix
  <2> QED  BY <1>3, <2>1 DEF Outcome, LevelBefore, PolicyLevel, HardFailure, Severity
<1> QED  BY <1>1, <1>2, <1>3 DEF VerdictSoFar, AfterMatrix

\* Detected malware and a malicious reputation end in FAILED, under every policy.
THEOREM MandatoryChecksAlwaysFail == Spec => []MandatoryChecksFail
<1>1. IInv => MandatoryChecksFail
  BY DoneOutcome DEF MandatoryChecksFail, Outcome
<1> QED  BY Invariant, <1>1, PTL

\* VERIFIED means that a rule said so first, or that every requirement was met.
THEOREM RequirementsAlwaysHonoured == Spec => []RequirementsHonoured
<1>1. IInv => RequirementsHonoured
  BY DoneOutcome DEF RequirementsHonoured, Outcome, PolicyLevel, Severity, Matrix
<1> QED  BY Invariant, <1>1, PTL

\* No check overrides the verdict of an earlier one.
THEOREM VerdictIsSticky == Spec => VerdictSticky
<1>1. [Next]_vars => [final_verdict # "none" => final_verdict' = final_verdict]_vars
  BY DEF Next, vars, CheckMalware, CheckReputation, ApplyRule, CheckSignaturePolicy,
         CheckFileTypePolicy, CheckExecutablePolicy, CheckMalwareAvailabilityPolicy,
         CheckReputationAvailabilityPolicy, CheckSbomPolicy, Fallthrough, Check, Apply
<1> QED  BY <1>1, PTL DEF Spec, VerdictSticky

LEMMA SameOutcome == Judge!Outcome(results, policy) = Outcome(results, policy)
<1>1. \A k : Judge!Matches(policy, results, k) = Matches(policy, results, k)
  BY DEF Judge!Matches, Matches, Judge!EvaluateCondition, EvaluateCondition
<1>2. Judge!MatchingRules(results, policy) = MatchingRules(results, policy)
  BY <1>1 DEF Judge!MatchingRules, MatchingRules
<1>3. Judge!FirstRule(results, policy) = FirstRule(results, policy)
  BY <1>2 DEF Judge!FirstRule, FirstRule
<1>4. Judge!PolicyLevel(results, policy) = PolicyLevel(results, policy)
  BY DEF Judge!PolicyLevel, PolicyLevel, Judge!HardFailure, HardFailure, Judge!Blocked, Blocked,
         Judge!MissingScan, MissingScan, Judge!ScanUnavailable, ScanUnavailable,
         Judge!MissingLookup, MissingLookup, Judge!LookupUnavailable, LookupUnavailable,
         Judge!Severity, Severity
<1> QED
  BY <1>2, <1>3, <1>4 DEF Judge!Outcome, Outcome, Judge!Mandatory, Mandatory

\* The evaluation, check by check, implements one step that computes Outcome.
THEOREM Refinement == Spec => JudgementSpec
<1>1. Init => Judge!Init
  BY DEF Init, Judge!Init, Returned, Done
<1>2. (IInv /\ Done => final_verdict = Outcome(results, policy))'
  BY DoneOutcome, PTL
<1>3. IInv /\ IInv' /\ [Next]_vars => [Judge!Decide]_(Judge!jvars)
  <2> SUFFICES ASSUME IInv, IInv', [Next]_vars PROVE [Judge!Decide]_(Judge!jvars)
    OBVIOUS
  <2>1. results' = results /\ policy' = policy
    BY DEF Next, vars, CheckMalware, CheckReputation, ApplyRule, CheckSignaturePolicy,
           CheckFileTypePolicy, CheckExecutablePolicy, CheckMalwareAvailabilityPolicy,
           CheckReputationAvailabilityPolicy, CheckSbomPolicy, Fallthrough, Check, args
  <2>2. CASE Fallthrough
    <3>1. pc = "fallthrough" /\ pc' = "done"
      BY <2>2 DEF Fallthrough
    <3>2. final_verdict' = Outcome(results, policy)
      BY <1>2, <2>1, <3>1 DEF Done
    <3>3. Returned = "pending" /\ Returned' = Outcome(results, policy)
      BY <3>1, <3>2 DEF Returned, Done
    <3>4. Judge!Decide
      BY <2>1, <3>3, SameOutcome DEF Judge!Decide
    <3> QED  BY <3>4
  <2>3. CASE ~Fallthrough
    <3>1. Returned' = Returned
      BY <2>3 DEF Next, vars, CheckMalware, CheckReputation, ApplyRule, CheckSignaturePolicy,
           CheckFileTypePolicy, CheckExecutablePolicy, CheckMalwareAvailabilityPolicy,
           CheckReputationAvailabilityPolicy, CheckSbomPolicy, Check, Returned, Done
    <3> QED  BY <2>1, <3>1 DEF Judge!jvars
  <2> QED  BY <2>2, <2>3
<1> QED  BY <1>1, <1>3, Invariant, PTL DEF Spec, JudgementSpec, Judge!Spec

----------------------------------------------------------------------------
\* The trace.

\* v is the verdict of the first entry of t that decides, "none" if none does.
Explains(t, v) ==
  LET deciding == {k \in 1..Len(t) : Deciding(t[k])}
  IN  IF deciding = {} THEN v = "none"
      ELSE \E k \in deciding : /\ \A j \in deciding : k <= j
                               /\ v = t[k].verdict

\* A contribution that proposes the verdict it shows, or shows and proposes nothing.
Honest(o) == \/ o.entries = <<>> /\ o.verdict = "none"
             \/ \E e \in TraceEntry : /\ o.entries = <<e>>
                                      /\ o.verdict = IF Deciding(e) THEN e.verdict ELSE "none"

\* The entries of the first n rules are in their place.
RulesTraced(n) == /\ Len(trace) >= n + 2
                  /\ \A k \in 1..n : /\ trace[k + 2].condition = Matrix[k].condition
                                     /\ trace[k + 2].matched = Matches(policy, results, k)

TraceSoFar ==
  /\ pc # "done" => Explains(trace, final_verdict)
  /\ pc = "done" => \/ Explains(trace, final_verdict)
                    \/ Explains(trace, "none") /\ final_verdict = "Verified"
  /\ pc = "malware" => Len(trace) = 0
  /\ pc = "reputation" => Len(trace) = 1
  /\ pc = "matrix" => Len(trace) = rule + 1 /\ RulesTraced(rule - 1)
  /\ pc \in AfterMatrix => RulesTraced(Len(Matrix))

LEMMA OneMore ==
  ASSUME NEW t \in Seq(TraceEntry), NEW v, Explains(t, v), NEW e \in TraceEntry
  PROVE  LET w == IF Deciding(e) THEN e.verdict ELSE "none"
         IN  Explains(t \o <<e>>, IF v = "none" THEN w ELSE v)
<1> DEFINE u == t \o <<e>>
           old == {k \in 1..Len(t) : Deciding(t[k])}
           new == {k \in 1..Len(u) : Deciding(u[k])}
           w == IF Deciding(e) THEN e.verdict ELSE "none"
<1>1. Len(t) \in Nat /\ Len(u) = Len(t) + 1 /\ u[Len(t) + 1] = e
      /\ \A k \in 1..Len(t) : u[k] = t[k]
  OBVIOUS
<1>2. new = old \cup (IF Deciding(e) THEN {Len(t) + 1} ELSE {})
  <2> HIDE DEF u
  <2> QED BY <1>1
<1>3. \A k \in old : t[k].verdict # "none"
  BY DEF Deciding
<1>4. CASE old = {}
  <2>1. v = "none"
    BY <1>4 DEF Explains
  <2> HIDE DEF u, old
  <2>2. CASE Deciding(e)
    <3>1. new = {Len(t) + 1}
      BY <1>2, <1>4, <2>2
    <3>2. w = u[Len(t) + 1].verdict
      BY <1>1, <2>2
    <3> HIDE DEF w
    <3>3. \E k \in new : (\A j \in new : k <= j) /\ w = u[k].verdict
      BY <1>1, <3>1, <3>2
    <3>4. Explains(u, w)
      BY <3>1, <3>3 DEF Explains
    <3> QED BY <2>1, <3>4 DEF u, w
  <2>3. CASE ~Deciding(e)
    <3>1. new = {} /\ w = "none"
      BY <1>2, <1>4, <2>3
    <3>2. Explains(u, w)
      BY <3>1 DEF Explains
    <3> QED BY <2>1, <3>2 DEF u
  <2> QED BY <2>2, <2>3
<1>5. CASE old # {}
  <2>1. PICK k \in old : (\A j \in old : k <= j) /\ v = t[k].verdict
    BY <1>5 DEF Explains
  <2>2. v # "none"
    BY <1>3, <2>1
  <2>3. k \in 1..Len(t) /\ k \in new
    BY <1>2, <2>1
  <2>4. \A j \in new : k <= j
    <3> HIDE DEF u, new, old
    <3> QED BY <1>1, <1>2, <2>1, <2>3
  <2>5. v = u[k].verdict
    BY <1>1, <2>1, <2>3
  <2> HIDE DEF u
  <2>6. Explains(u, v)
    BY <2>3, <2>4, <2>5 DEF Explains
  <2> QED BY <2>2, <2>6 DEF u
<1> QED BY <1>4, <1>5

\* Every check is honest.
LEMMA HonestChecks ==
  ASSUME Typed
  PROVE  /\ Honest(MandatoryMalware(results)) /\ Honest(MandatoryReputation(results))
         /\ \A k \in 1..Len(Matrix) : Honest(MatrixRule(results, policy, k))
         /\ Honest(SignatureCheck(results, policy)) /\ Honest(FileTypeCheck(results, policy))
         /\ Honest(ExecutableCheck(results, policy))
         /\ Honest(MalwareAvailabilityCheck(results, policy))
         /\ Honest(ReputationAvailabilityCheck(results, policy))
         /\ Honest(SbomCheck(policy))
<1>1. Honest(Silent)
  BY DEF Honest, Silent
<1>2. ASSUME NEW c \in ConditionName, NEW m \in BOOLEAN, NEW v \in Verdict,
             c # "SignatureRequired" \/ v # "Verified"
      PROVE  Honest(Note(c, m, v))
  <2> DEFINE e == [condition |-> c, matched |-> m, verdict |-> v]
  <2>1. e \in TraceEntry
    BY DEF TraceEntry
  <2>2. Deciding(e) <=> v # "none"
    <3>1. e # Entry("SignatureRequired", TRUE, "Verified")[1]
      BY <1>2 DEF Entry
    <3> QED BY <3>1 DEF Deciding
  <2> QED BY <2>1, <2>2 DEF Honest, Note, Entry
<1>3. ASSUME NEW k \in 1..Len(Matrix) PROVE Honest(MatrixRule(results, policy, k))
  <2>1. Matrix[k] \in DecisionRule
    <3>1. Matrix \in Seq(DecisionRule)
      BY DEF Typed, PolicyType, Matrix
    <3> QED BY <3>1
  <2>2. /\ Matrix[k].condition \in ConditionName /\ Matrix[k].condition # "SignatureRequired"
        /\ Matrix[k].verdict \in Verdict
    BY <2>1 DEF DecisionRule, RuleCondition, ConditionName, Verdict
  <2> QED BY <1>2, <2>2 DEF MatrixRule, Matrix, Verdict
<1>4. Honest(SignatureCheck(results, policy))
  <2>1. ASSUME policy.require_signature, results.signature = "Verified"
        PROVE  Honest(SignatureCheck(results, policy))
    <3> DEFINE e == [condition |-> "SignatureRequired", matched |-> TRUE, verdict |-> "Verified"]
    <3>1. e \in TraceEntry /\ ~Deciding(e)
      BY DEF TraceEntry, ConditionName, Verdict, Status, Deciding, Entry
    <3>2. SignatureCheck(results, policy) = [entries |-> <<e>>, verdict |-> "none"]
      BY <2>1 DEF SignatureCheck, Entry
    <3> HIDE DEF e
    <3>3. /\ SignatureCheck(results, policy).entries = <<e>>
          /\ SignatureCheck(results, policy).verdict = "none"
      BY <3>2
    <3> QED BY <3>1, <3>3 DEF Honest
  <2>2. policy.require_signature \in BOOLEAN
    BY DEF Typed, PolicyType
  <2> QED BY <1>2, <2>1, <2>2 DEF SignatureCheck, ConditionName, Verdict, Status
<1>5. /\ Honest(MandatoryMalware(results)) /\ Honest(MandatoryReputation(results))
      /\ Honest(FileTypeCheck(results, policy)) /\ Honest(SbomCheck(policy))
  BY <1>1, <1>2 DEF MandatoryMalware, MandatoryReputation, FileTypeCheck, SbomCheck,
                    ConditionName, RuleCondition, Verdict, Status
<1>6. /\ Honest(ExecutableCheck(results, policy))
      /\ Honest(MalwareAvailabilityCheck(results, policy))
      /\ Honest(ReputationAvailabilityCheck(results, policy))
  BY <1>1, <1>2 DEF ExecutableCheck, MalwareAvailabilityCheck, ReputationAvailabilityCheck,
                    Severity, ConditionName, RuleCondition, Verdict, Status
<1> QED BY <1>3, <1>4, <1>5, <1>6

\* What an honest contribution does to the trace.
LEMMA HonestApplied ==
  ASSUME Typed, Explains(trace, final_verdict), NEW o, Honest(o), Apply(o)
  PROVE  /\ Explains(trace', final_verdict')
         /\ Len(trace') >= Len(trace) /\ Len(trace) \in Nat /\ Len(trace') \in Nat
         /\ \A k \in 1..Len(trace) : trace'[k] = trace[k]
         /\ \A e : o.entries = <<e>> => Len(trace') = Len(trace) + 1 /\ trace'[Len(trace) + 1] = e
<1>1. trace \in Seq(TraceEntry) /\ Len(trace) \in Nat
  BY DEF Typed, TypeOK
<1>2. CASE o.entries = <<>> /\ o.verdict = "none"
  <2>1. trace' = trace /\ final_verdict' = final_verdict
    BY <1>1, <1>2 DEF Apply
  <2>2. \A e : <<e>> # <<>>
    OBVIOUS
  <2> QED BY <1>1, <1>2, <2>1, <2>2
<1>3. ASSUME NEW e \in TraceEntry, o.entries = <<e>>,
             o.verdict = IF Deciding(e) THEN e.verdict ELSE "none"
      PROVE  /\ Explains(trace', final_verdict')
             /\ Len(trace') = Len(trace) + 1 /\ trace'[Len(trace) + 1] = e
             /\ \A k \in 1..Len(trace) : trace'[k] = trace[k]
  <2>1. trace' = trace \o <<e>>
    BY <1>3 DEF Apply
  <2>2. final_verdict' = IF final_verdict = "none" THEN o.verdict ELSE final_verdict
    BY DEF Apply
  <2>3. Explains(trace', final_verdict')
    BY <1>1, <1>3, <2>1, <2>2, OneMore
  <2> QED BY <1>1, <2>1, <2>3
<1>4. \A e, f : <<e>> = <<f>> => e = f
  OBVIOUS
<1> QED BY <1>1, <1>2, <1>3, <1>4 DEF Honest

LEMMA TraceStep == IInv /\ TraceSoFar /\ [Next]_vars => TraceSoFar'
<1> SUFFICES ASSUME Typed, TraceSoFar, [Next]_vars PROVE TraceSoFar'
  BY DEF IInv
<1>1. Len(Matrix) \in Nat /\ rule \in 1..Len(Matrix) + 1 /\ Len(trace) \in Nat
  BY MatrixTyped DEF Typed, TypeOK
<1>2. ASSUME NEW n \in 0..Len(Matrix), RulesTraced(n), results' = results, policy' = policy,
             Len(trace') >= Len(trace), Len(trace') \in Nat,
             \A k \in 1..Len(trace) : trace'[k] = trace[k]
      PROVE  RulesTraced(n)'
  <2>1. Len(trace) >= n + 2 /\ \A k \in 1..n : k + 2 \in 1..Len(trace)
    BY <1>1, <1>2 DEF RulesTraced
  <2>2. ASSUME NEW k \in 1..n
        PROVE  /\ trace'[k + 2].condition = Matrix[k].condition
               /\ trace'[k + 2].matched = Matches(policy, results, k)
    <3>1. trace'[k + 2] = trace[k + 2]
      BY <1>2, <2>1
    <3> QED BY <1>2, <3>1 DEF RulesTraced
  <2>3. Matrix' = Matrix /\ \A k \in 1..n : Matches(policy, results, k)' = Matches(policy, results, k)
    BY <1>2 DEF Matrix, Matches
  <2>4. Len(trace') >= n + 2
    BY <1>1, <1>2, <2>1
  <2> QED BY <2>2, <2>3, <2>4 DEF RulesTraced
\* A policy-level check, at pc = c with d next.
<1>3. ASSUME NEW c \in AfterMatrix \ {"done"}, NEW d \in AfterMatrix \ {"done"}, NEW o,
             Check(c, d, o), Honest(o)
      PROVE  TraceSoFar'
  <2>1. pc = c /\ pc' = d /\ results' = results /\ policy' = policy /\ Apply(o)
    BY <1>3 DEF Check, args
  <2>2. Explains(trace, final_verdict) /\ RulesTraced(Len(Matrix))
    BY <2>1 DEF TraceSoFar
  <2>3. /\ Explains(trace', final_verdict') /\ Len(trace') >= Len(trace)
        /\ Len(trace') \in Nat /\ \A k \in 1..Len(trace) : trace'[k] = trace[k]
    BY <1>3, <2>1, <2>2, HonestApplied
  <2>4. PICK n \in 0..Len(Matrix) : n = Len(Matrix)
    BY <1>1
  <2>5. RulesTraced(n)'
    BY <1>2, <2>1, <2>2, <2>3, <2>4
  <2>6. RulesTraced(Len(Matrix))'
    BY <2>1, <2>4, <2>5 DEF RulesTraced, Matrix
  <2>7. Explains(trace, final_verdict)'
    BY <2>3 DEF Explains
  <2> QED BY <2>1, <2>6, <2>7 DEF TraceSoFar, AfterMatrix
<1>4. CASE CheckMalware
  <2>1. pc = "malware" /\ pc' = "reputation" /\ Apply(MandatoryMalware(results))
    BY <1>4 DEF CheckMalware, Check
  <2>2. \E e : MandatoryMalware(results).entries = <<e>>
    BY DEF MandatoryMalware, Note, Entry
  <2>3. Explains(trace', final_verdict') /\ Len(trace') = 1
    BY <2>1, <2>2, HonestApplied, HonestChecks DEF TraceSoFar
  <2>4. Explains(trace, final_verdict)'
    BY <2>3 DEF Explains
  <2> QED BY <2>1, <2>3, <2>4 DEF TraceSoFar, AfterMatrix
<1>5. CASE CheckReputation
  <2>1. pc = "reputation" /\ pc' = "matrix" /\ Apply(MandatoryReputation(results))
        /\ rule' = 1
    BY <1>5 DEF CheckReputation, Check, Typed
  <2>2. \E e : MandatoryReputation(results).entries = <<e>>
    BY DEF MandatoryReputation, Note, Entry
  <2>3. Explains(trace', final_verdict') /\ Len(trace') = 2
    <3>1. Explains(trace, final_verdict) /\ Len(trace) = 1
      BY <2>1 DEF TraceSoFar
    <3>2. Explains(trace', final_verdict') /\ Len(trace') = Len(trace) + 1
      BY <2>1, <2>2, <3>1, HonestApplied, HonestChecks
    <3> QED BY <3>1, <3>2
  <2>4. Explains(trace, final_verdict)'
    BY <2>3 DEF Explains
  <2>5. RulesTraced(rule - 1)'
    BY <2>1, <2>3 DEF RulesTraced
  <2> QED BY <2>1, <2>3, <2>4, <2>5 DEF TraceSoFar, AfterMatrix
<1>6. CASE ApplyRule
  <2>1. /\ pc = "matrix" /\ pc' = "matrix" /\ results' = results /\ policy' = policy
        /\ rule' = rule + 1 /\ rule \in 1..Len(Matrix)
        /\ Apply(MatrixRule(results, policy, rule))
    BY <1>1, <1>6 DEF ApplyRule, args
  <2>2. PICK m \in BOOLEAN : \E v : /\ MatrixRule(results, policy, rule).entries =
                                         <<[condition |-> Matrix[rule].condition, matched |-> m,
                                            verdict |-> v]>>
                                    /\ m = Matches(policy, results, rule)
    BY DEF MatrixRule, Note, Entry, Matrix, Matches, EvaluateCondition
  <2>3. /\ Explains(trace', final_verdict') /\ Len(trace') = Len(trace) + 1
        /\ Len(trace) = rule + 1 /\ RulesTraced(rule - 1)
        /\ \A k \in 1..Len(trace) : trace'[k] = trace[k]
        /\ trace'[rule + 2].condition = Matrix[rule].condition
        /\ trace'[rule + 2].matched = Matches(policy, results, rule)
    BY <1>1, <2>1, <2>2, HonestApplied, HonestChecks DEF TraceSoFar
  <2>4. Explains(trace, final_verdict)'
    BY <2>3 DEF Explains
  <2>5. Matrix' = Matrix /\ \A k : Matches(policy, results, k)' = Matches(policy, results, k)
    BY <2>1 DEF Matrix, Matches
  <2>6. PICK n \in 1..Len(Matrix) : n = rule
    BY <1>1, <2>1
  <2>7. RulesTraced(n - 1)'
    <3>1. n - 1 \in 0..Len(Matrix) /\ RulesTraced(n - 1)
      BY <1>1, <2>3, <2>6
    <3> QED BY <1>1, <1>2, <2>1, <2>3, <3>1
  <2>8. ASSUME NEW k \in 1..n
        PROVE  /\ trace'[k + 2].condition = Matrix[k].condition
               /\ trace'[k + 2].matched = Matches(policy, results, k)
    <3>1. CASE k = n
      BY <2>3, <2>6, <3>1
    <3>2. CASE k # n
      <4>1. k \in 1..(n - 1)
        BY <1>1, <2>6, <3>2
      <4> QED BY <2>5, <2>7, <4>1 DEF RulesTraced
    <3> QED BY <3>1, <3>2
  <2>9. Len(trace') = n + 2 /\ rule' - 1 = n
    BY <1>1, <2>1, <2>3, <2>6
  <2>10. RulesTraced(n)'
    BY <1>1, <2>5, <2>6, <2>8, <2>9 DEF RulesTraced
  <2>11. RulesTraced(rule - 1)'
    BY <2>9, <2>10 DEF RulesTraced
  <2>12. Len(trace') = rule' + 1
    BY <1>1, <2>1, <2>6, <2>9
  <2> QED BY <2>1, <2>4, <2>11, <2>12 DEF TraceSoFar, AfterMatrix
<1>7. CASE CheckSignaturePolicy
  <2>1. /\ pc = "matrix" /\ pc' = "filetype" /\ results' = results /\ policy' = policy
        /\ rule - 1 = Len(Matrix) /\ Apply(SignatureCheck(results, policy))
    BY <1>1, <1>7 DEF CheckSignaturePolicy, Check, args
  <2>2. Explains(trace, final_verdict) /\ RulesTraced(Len(Matrix))
    BY <2>1 DEF TraceSoFar
  <2>3. /\ Explains(trace', final_verdict') /\ Len(trace') >= Len(trace)
        /\ Len(trace') \in Nat /\ \A k \in 1..Len(trace) : trace'[k] = trace[k]
    BY <2>1, <2>2, HonestApplied, HonestChecks
  <2>4. PICK n \in 0..Len(Matrix) : n = Len(Matrix)
    BY <1>1
  <2>5. RulesTraced(n)'
    BY <1>2, <2>1, <2>2, <2>3, <2>4
  <2>6. RulesTraced(Len(Matrix))'
    BY <2>1, <2>4, <2>5 DEF RulesTraced, Matrix
  <2>7. Explains(trace, final_verdict)'
    BY <2>3 DEF Explains
  <2> QED BY <2>1, <2>6, <2>7 DEF TraceSoFar, AfterMatrix
<1>8. CASE \/ CheckFileTypePolicy \/ CheckExecutablePolicy \/ CheckMalwareAvailabilityPolicy
           \/ CheckReputationAvailabilityPolicy \/ CheckSbomPolicy
  BY <1>3, <1>8, HonestChecks
  DEF CheckFileTypePolicy, CheckExecutablePolicy, CheckMalwareAvailabilityPolicy,
      CheckReputationAvailabilityPolicy, CheckSbomPolicy, AfterMatrix
<1>9. CASE Fallthrough
  <2>1. /\ pc = "fallthrough" /\ pc' = "done" /\ results' = results /\ policy' = policy
        /\ trace' = trace
        /\ final_verdict' = IF final_verdict = "none" THEN "Verified" ELSE final_verdict
    BY <1>9 DEF Fallthrough, args
  <2>2. Explains(trace, final_verdict) /\ RulesTraced(Len(Matrix))
    BY <2>1 DEF TraceSoFar, AfterMatrix
  <2>3. RulesTraced(Len(Matrix))'
    BY <2>1, <2>2 DEF RulesTraced, Matrix, Matches
  <2>4. \A v : Explains(trace, v)' <=> Explains(trace, v)
    BY <2>1 DEF Explains
  <2>5. Explains(trace', final_verdict') \/ (Explains(trace', "none") /\ final_verdict' = "Verified")
    <3>1. CASE final_verdict = "none"
      BY <2>1, <2>2, <3>1
    <3>2. CASE final_verdict # "none"
      BY <2>1, <2>2, <3>2
    <3> QED BY <3>1, <3>2
  <2> QED BY <2>1, <2>3, <2>5 DEF TraceSoFar, AfterMatrix, Explains
<1>10. CASE UNCHANGED vars
  BY <1>10 DEF vars, TraceSoFar, Explains, RulesTraced, Matrix, Matches
<1> QED BY <1>4, <1>5, <1>6, <1>7, <1>8, <1>9, <1>10 DEF Next

\* The trace explains the verdict it comes with and hides no rule of the matrix
\* (TraceExplainsVerdict).
THEOREM TraceAlwaysExplains == Spec => []TraceExplainsVerdict
<1>1. Init => IInv /\ TraceSoFar
  <2> SUFFICES ASSUME Init PROVE TraceSoFar
    BY InitIInv
  <2>1. trace = <<>> /\ final_verdict = "none" /\ pc = "malware"
    BY DEF Init
  <2>2. Explains(trace, final_verdict) /\ Len(trace) = 0
    BY <2>1 DEF Explains
  <2> QED BY <2>1, <2>2 DEF TraceSoFar, AfterMatrix
<1>2. IInv /\ TraceSoFar /\ [Next]_vars => (IInv /\ TraceSoFar)'
  BY TypedStep, VerdictStep, TraceStep DEF IInv
<1>3. IInv /\ TraceSoFar => TraceExplainsVerdict
  <2> SUFFICES ASSUME IInv, TraceSoFar PROVE TraceExplainsVerdict
    OBVIOUS
  <2>1. pc \in Checks
    BY DEF IInv, Typed, TypeOK
  <2>2. CASE pc # "done"
    BY <2>2 DEF TraceSoFar, TraceExplainsVerdict, Explains, Done
  <2>3. CASE pc = "done"
    <3> DEFINE deciding == {k \in 1..Len(trace) : Deciding(trace[k])}
    <3>1. RulesTraced(Len(Matrix))
      BY <2>3 DEF TraceSoFar, AfterMatrix
    <3>2. \A k \in deciding : trace[k].verdict # "none"
      BY DEF Deciding
    <3>3. final_verdict # "none"
      BY <2>3 DEF IInv, Typed, TypeOK, Done
    <3>4. CASE deciding = {}
      <4>1. final_verdict = "Verified"
        BY <2>3, <3>3, <3>4 DEF TraceSoFar, Explains
      <4> QED BY <2>3, <3>1, <3>4, <4>1 DEF TraceExplainsVerdict, Done, RulesTraced
    <3>5. CASE deciding # {}
      <4>1. ~Explains(trace, "none")
        BY <3>2, <3>5 DEF Explains
      <4>2. \E k \in deciding : (\A j \in deciding : k <= j) /\ final_verdict = trace[k].verdict
        BY <2>3, <3>5, <4>1 DEF TraceSoFar, Explains
      <4> QED BY <3>1, <3>5, <4>2 DEF TraceExplainsVerdict, Done, RulesTraced
    <3> QED BY <3>4, <3>5
  <2> QED BY <2>2, <2>3
<1> QED BY <1>1, <1>2, <1>3, PTL DEF Spec

----------------------------------------------------------------------------
\* p has a rule for condition c.
Rules(p, c) == \E k \in 1..Len(p.decision_matrix) : p.decision_matrix[k].condition = c

Strict == Shipped \ {DefaultPolicy}

LEMMA DefaultFields ==
  /\ DefaultPolicy.decision_matrix = DefaultMatrix
  /\ ~DefaultPolicy.malware_scan_required
  /\ DefaultPolicy.executable_handling = "BlockUnsigned"
BY DEF DefaultPolicy

LEMMA CiGateFields ==
  /\ CiGatePolicy.decision_matrix = StrictMatrix /\ CiGatePolicy.require_signature
  /\ CiGatePolicy.executable_handling = "BlockUnsigned"
BY DEF CiGatePolicy, DefaultPolicy

LEMMA ContractorStrictFields ==
  /\ ContractorStrictPolicy.decision_matrix = StrictMatrix
  /\ ContractorStrictPolicy.require_signature /\ ContractorStrictPolicy.reputation_required
  /\ ContractorStrictPolicy.executable_handling = "BlockUnsigned"
BY DEF ContractorStrictPolicy, CiGatePolicy, DefaultPolicy

LEMMA AirgappedFields ==
  /\ AirgappedPolicy.decision_matrix = AirgappedMatrix /\ AirgappedPolicy.require_signature
  /\ AirgappedPolicy.executable_handling = "BlockUnsigned"
BY DEF AirgappedPolicy, CiGatePolicy, DefaultPolicy

\* The rules that matter below, and that none of them says VERIFIED.
LEMMA ShippedRules ==
  ASSUME NEW p \in Shipped
  PROVE  /\ \A k \in 1..Len(p.decision_matrix) : p.decision_matrix[k].verdict # "Verified"
         /\ Rules(p, "SignatureInvalid") /\ Rules(p, "SignerNotAllowed")
         /\ p \in Strict => Rules(p, "HighEntropy")
<1> USE DEF Rules, Fail, Doubt
<1>1. CASE p.decision_matrix = DefaultMatrix /\ p \notin Strict
  <2>1. Len(DefaultMatrix) = 5 /\ DefaultMatrix[5].condition = "SignatureInvalid"
        /\ DefaultMatrix[4].condition = "SignerNotAllowed"
    BY DEF DefaultMatrix
  <2>2. \A k \in 1..5 : DefaultMatrix[k].verdict # "Verified"
    BY DEF DefaultMatrix
  <2> QED BY <1>1, <2>1, <2>2
<1>2. CASE p.decision_matrix = StrictMatrix
  <2>1. Len(StrictMatrix) = 8 /\ StrictMatrix[5].condition = "SignatureInvalid"
        /\ StrictMatrix[4].condition = "SignerNotAllowed"
        /\ StrictMatrix[8].condition = "HighEntropy"
    BY DEF StrictMatrix
  <2>2. \A k \in 1..8 : StrictMatrix[k].verdict # "Verified"
    BY DEF StrictMatrix
  <2> QED BY <1>2, <2>1, <2>2
<1>3. CASE p.decision_matrix = AirgappedMatrix
  <2>1. Len(AirgappedMatrix) = 7 /\ AirgappedMatrix[4].condition = "SignatureInvalid"
        /\ AirgappedMatrix[3].condition = "SignerNotAllowed"
        /\ AirgappedMatrix[7].condition = "HighEntropy"
    BY DEF AirgappedMatrix
  <2>2. \A k \in 1..7 : AirgappedMatrix[k].verdict # "Verified"
    BY DEF AirgappedMatrix
  <2> QED BY <1>3, <2>1, <2>2
<1> QED BY <1>1, <1>2, <1>3, DefaultFields, CiGateFields, ContractorStrictFields,
           AirgappedFields DEF Shipped, Strict

\* Where no rule says VERIFIED, no rule has matched and every policy-level check passed.
LEMMA VerifiedByDefault ==
  ASSUME IInv, Done, final_verdict = "Verified",
         \A k \in 1..Len(Matrix) : Matrix[k].verdict # "Verified"
  PROVE  /\ ~Mandatory(results)
         /\ \A k \in 1..Len(Matrix) : ~Matches(policy, results, k)
         /\ LevelBefore("done") = "Verified"
<1>1. pc = "done" /\ VerdictSoFar /\ Typed
  BY DEF IInv, Done
<1>2. ~Mandatory(results)
  BY <1>1 DEF VerdictSoFar, AfterMatrix
<1>3. ~SetByRuleUpTo(Len(Matrix))
  BY <1>1, MatrixTyped DEF SetByRuleUpTo
<1>4. NoRuleBefore(Len(Matrix)) /\ final_verdict = LevelBefore("done")
  BY <1>1, <1>2, <1>3 DEF VerdictSoFar, AfterMatrix
<1> QED BY <1>2, <1>4 DEF NoRuleBefore

\* VERIFIED under a shipped policy: nothing adverse was reported, executables are signed,
\* and what the policy requires was there and good (VerifiedMeansClean; src/policies).
THEOREM VerifiedAlwaysClean == Spec => []VerifiedMeansClean
<1>1. ASSUME IInv, Done, final_verdict = "Verified", policy \in Shipped
      PROVE  VerifiedMeansClean
  <2> DEFINE r == results
  <2>1. r \in PipelineResults
    BY <1>1, CasesAssumption DEF IInv, Typed, TypeOK, args
  <2>2. /\ ~Mandatory(r) /\ LevelBefore("done") = "Verified"
        /\ \A k \in 1..Len(Matrix) : ~Matches(policy, r, k)
    BY <1>1, ShippedRules, VerifiedByDefault DEF Matrix
  <2>3. ASSUME NEW c, Rules(policy, c) PROVE ~EvaluateCondition(c, r, policy)
    BY <2>2, <2>3 DEF Rules, Matches, Matrix
  <2>4. /\ r.signature \notin {"Invalid", "SignerNotAllowed"}
        /\ policy \in Strict => ~r.entropy_flagged
    BY <1>1, <2>3, ShippedRules DEF EvaluateCondition
  <2>5. /\ policy.require_signature => r.signature = "Verified"
        /\ ~Blocked(r, policy) /\ ~MissingScan(r, policy) /\ ~MissingLookup(r, policy)
    BY <2>2 DEF LevelBefore, Severity
  <2>6. /\ policy.executable_handling = "BlockUnsigned"
        /\ policy \in Strict => policy.require_signature
        /\ policy = ContractorStrictPolicy => policy.reputation_required
    BY <1>1, DefaultFields, CiGateFields, ContractorStrictFields, AirgappedFields
    DEF Shipped, Strict
  <2>7. r.executable => r.signature = "Verified"
    BY <2>5, <2>6 DEF Blocked
  <2>8. policy.malware_scan_required => r.malware = "Clean"
    BY <2>1, <2>2, <2>5 DEF MissingScan, ScanUnavailable, Mandatory, PipelineResults,
                           MalwareResult
  <2>9. policy.reputation_required => r.reputation = "Clean"
    BY <2>1, <2>2, <2>5 DEF MissingLookup, LookupUnavailable, Mandatory, PipelineResults,
                           ReputationResult
  <2> HIDE DEF r
  <2>10. /\ policy # DefaultPolicy => r.signature = "Verified" /\ ~r.entropy_flagged
    BY <1>1, <2>4, <2>5, <2>6 DEF Strict
  <2> QED BY <2>2, <2>4, <2>6, <2>7, <2>8, <2>9, <2>10 DEF VerifiedMeansClean, r
<1>2. IInv => VerifiedMeansClean
  BY <1>1 DEF VerifiedMeansClean
<1> QED BY Invariant, <1>2, PTL
=============================================================================

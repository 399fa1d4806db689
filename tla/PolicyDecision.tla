--------------------------- MODULE PolicyDecision ---------------------------
(***************************************************************************)
(* policy::evaluate (src/src/stages/policy.rs) one check per step.  The    *)
(* function walks two mandatory checks, the rules of the decision matrix   *)
(* in declared order and six policy-level checks; each pushes entries on   *)
(* the trace and may propose a verdict, which counts only if none was set. *)
(***************************************************************************)
EXTENDS PolicyRules

CONSTANT Cases              \* the results and policies considered, in pairs

ASSUME CasesAssumption == Cases \subseteq PipelineResults \X PolicyType

VARIABLES results, policy,  \* the arguments of evaluate
          pc,               \* the next check
          rule,             \* index of the next rule of the decision matrix
          final_verdict, trace

args == <<results, policy>>
vars == <<results, policy, pc, rule, final_verdict, trace>>

Checks == {"malware", "reputation", "matrix", "filetype", "executable",
           "scan", "lookup", "sbom", "fallthrough", "done"}

Matrix == policy.decision_matrix

Init == /\ \E c \in Cases : results = c[1] /\ policy = c[2]
        /\ pc = "malware"
        /\ rule = 1
        /\ final_verdict = "none"
        /\ trace = <<>>

\* Mistake to detect: the last check to have a verdict wins.
BugApply(outcome) ==
  /\ trace' = trace \o outcome.entries
  /\ final_verdict' = IF outcome.verdict = "none" THEN final_verdict ELSE outcome.verdict

\* Push a check's entries; adopt the verdict it proposes if none is set yet.
Apply(outcome) ==
  /\ trace' = trace \o outcome.entries
  /\ final_verdict' = IF final_verdict = "none" THEN outcome.verdict ELSE final_verdict

\* The check at pc = here contributes outcome and hands over to the check at next.
Check(here, next, outcome) ==
  /\ pc = here
  /\ Apply(outcome)
  /\ pc' = next
  /\ UNCHANGED <<args, rule>>

CheckMalware    == Check("malware", "reputation", MandatoryMalware(results))
CheckReputation == Check("reputation", "matrix", MandatoryReputation(results))

ApplyRule ==
  /\ pc = "matrix"
  /\ rule <= Len(Matrix)
  /\ Apply(MatrixRule(results, policy, rule))
  /\ rule' = rule + 1
  /\ UNCHANGED <<args, pc>>

\* The loop over the matrix is exhausted.
CheckSignaturePolicy ==
  /\ rule > Len(Matrix)
  /\ Check("matrix", "filetype", SignatureCheck(results, policy))

CheckFileTypePolicy   == Check("filetype", "executable", FileTypeCheck(results, policy))
CheckExecutablePolicy == Check("executable", "scan", ExecutableCheck(results, policy))
CheckMalwareAvailabilityPolicy ==
  Check("scan", "lookup", MalwareAvailabilityCheck(results, policy))
CheckReputationAvailabilityPolicy ==
  Check("lookup", "sbom", ReputationAvailabilityCheck(results, policy))
CheckSbomPolicy       == Check("sbom", "fallthrough", SbomCheck(policy))

\* Mistake to detect: no verdict by default.
BugFallthrough == pc = "fallthrough" /\ pc' = "done" /\ UNCHANGED <<args, rule, final_verdict, trace>>

\* final_verdict.unwrap_or(Verified): the verdict is returned.
Fallthrough ==
  /\ pc = "fallthrough"
  /\ final_verdict' = IF final_verdict = "none" THEN "Verified" ELSE final_verdict
  /\ pc' = "done"
  /\ UNCHANGED <<args, rule, trace>>

Next == \/ CheckMalware \/ CheckReputation \/ ApplyRule
        \/ CheckSignaturePolicy \/ CheckFileTypePolicy \/ CheckExecutablePolicy
        \/ CheckMalwareAvailabilityPolicy \/ CheckReputationAvailabilityPolicy
        \/ CheckSbomPolicy \/ Fallthrough

Spec == Init /\ [][Next]_vars

----------------------------------------------------------------------------
Done == pc = "done"

TypeOK == /\ args \in Cases
          /\ pc \in Checks
          /\ rule \in 1..Len(Matrix) + 1
          /\ final_verdict \in Verdict
          /\ trace \in Seq(TraceEntry)
          /\ Done => final_verdict # "none"

\* Detected malware and a malicious reputation end in FAILED, whatever the
\* decision matrix says and wherever it puts its rules (policy.rs:43-45,
\* docs/architecture.md:362-366).
MandatoryChecksFail == Done /\ Mandatory(results) => final_verdict = "Failed"

\* No later check overrides a verdict once a check has set it (policy.rs:3).
VerdictSticky == [][final_verdict # "none" => final_verdict' = final_verdict]_vars

\* VERIFIED is only ever reached in two ways: a matrix rule that says so was the
\* first to match, or every requirement of the policy was met: a required signature
\* verified, no denied type, no blocked executable, a required scan and a required
\* lookup available, no SBOM asked for (policy.rs:143-170).
RequirementsHonoured ==
  Done /\ final_verdict = "Verified" =>
    \/ /\ MatchingRules(results, policy) # {}
       /\ Matrix[FirstRule(results, policy)].verdict = "Verified"
    \/ ~HardFailure(results, policy) /\ ~MissingScan(results, policy)
       /\ ~MissingLookup(results, policy) /\ ~policy.require_sbom

\* A verified signature is traced as "Verified" without deciding anything; every
\* other entry that carries a verdict would have decided had it come first.
Deciding(e) == e.verdict # "none" /\ e # Entry("SignatureRequired", TRUE, "Verified")[1]

\* The trace explains the verdict: it is the one the first deciding entry carries,
\* and VERIFIED by default only if no entry decides (policy.rs:3-5).  No rule of the
\* matrix is hidden from it, not even one that is reached after the verdict is set
\* (policy.rs:106-117).
TraceExplainsVerdict ==
  LET deciding == {k \in 1..Len(trace) : Deciding(trace[k])}
  IN  /\ IF deciding = {}
         THEN final_verdict = IF Done THEN "Verified" ELSE "none"
         ELSE \E k \in deciding : /\ \A j \in deciding : k <= j
                                  /\ final_verdict = trace[k].verdict
      /\ Done => \A k \in 1..Len(Matrix) :
                   /\ trace[k + 2].condition = Matrix[k].condition
                   /\ trace[k + 2].matched = Matches(policy, results, k)

\* The evaluation implements a single step that computes Outcome.
Returned == IF Done THEN final_verdict ELSE "pending"
Judge    == INSTANCE Judgement WITH status <- Returned
JudgementSpec == Judge!Spec

----------------------------------------------------------------------------
\* A statement of the documentation that the code does not meet.

\* config.rs:49: with malware_failure_is_fatal the "inability to run the malware
\* scanner is FAILED", where a scan is required.
FatalScanFails ==
  Done /\ MissingScan(results, policy) /\ policy.malware_failure_is_fatal
       => final_verdict = "Failed"
=============================================================================

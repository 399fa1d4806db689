---------------------------- MODULE PolicyRules ----------------------------
(***************************************************************************)
(* The vocabulary and the individual checks of veriscan's policy stage     *)
(* (src/src/stages/policy.rs): what an upstream stage can report           *)
(* (src/src/evidence.rs), what a policy can say (src/src/config.rs), and   *)
(* for each check the trace entry it pushes and the verdict it proposes.   *)
(* PolicyDecision strings the checks together one step at a time;          *)
(* Pipeline uses Outcome, the value the whole evaluation computes.         *)
(*                                                                         *)
(* Texts are abstracted away: a reason, a description and a detection list *)
(* carry no decision.  A policy's deny_file_types is represented by the    *)
(* set of file-type labels that contain one of its entries.                *)
(***************************************************************************)
EXTENDS Naturals, Sequences

CONSTANT FileTypes          \* labels the inspection stage can give a file

SignatureResult  == {"NotChecked", "Verified", "Missing", "Invalid", "SignerNotAllowed"}
MalwareResult    == {"NotChecked", "Clean", "Detected", "ToolMissing", "ScanError"}
ReputationResult == {"NotChecked", "Clean", "Malicious", "Unknown", "Unavailable", "ApiKeyMissing"}

PipelineResults == [signature : SignatureResult, malware : MalwareResult,
                    reputation : ReputationResult, checksum_mismatch : BOOLEAN,
                    entropy_flagged : BOOLEAN, executable : BOOLEAN, file_type : FileTypes]

Status  == {"Verified", "Unverified", "Failed"}
Verdict == Status \cup {"none"}        \* Option<VerificationStatus>

RuleCondition == {"MalwareDetected", "SignatureMissing", "SignatureInvalid",
                  "SignerNotAllowed", "ChecksumMismatch", "HighEntropy", "DeniedFileType",
                  "ReputationMalicious", "ReputationUnavailable", "MalwareScanUnavailable",
                  "SbomMissing", "Always"}
DecisionRule       == [condition : RuleCondition, verdict : Status]
ExecutableHandling == {"Allow", "BlockUnsigned", "DenyAll"}

PolicyType == [require_signature : BOOLEAN, require_sbom : BOOLEAN,
               reputation_required : BOOLEAN, reputation_failure_is_fatal : BOOLEAN,
               malware_scan_required : BOOLEAN, malware_failure_is_fatal : BOOLEAN,
               deny_file_types : SUBSET FileTypes, executable_handling : ExecutableHandling,
               decision_matrix : Seq(DecisionRule)]

----------------------------------------------------------------------------
\* The decision matrix.

EvaluateCondition(c, r, p) ==
  \/ c = "MalwareDetected"        /\ r.malware = "Detected"
  \/ c = "SignatureMissing"       /\ r.signature = "Missing"
  \/ c = "SignatureInvalid"       /\ r.signature = "Invalid"
  \/ c = "SignerNotAllowed"       /\ r.signature = "SignerNotAllowed"
  \/ c = "ChecksumMismatch"       /\ r.checksum_mismatch
  \/ c = "HighEntropy"            /\ r.entropy_flagged
  \/ c = "DeniedFileType"         /\ r.file_type \in p.deny_file_types
  \/ c = "ReputationMalicious"    /\ r.reputation = "Malicious"
  \/ c = "ReputationUnavailable"  /\ r.reputation \in {"Unknown", "Unavailable", "ApiKeyMissing"}
  \/ c = "MalwareScanUnavailable" /\ r.malware \in {"ToolMissing", "ScanError"}
  \/ c = "SbomMissing"            /\ p.require_sbom
  \/ c = "Always"

Matches(p, r, k) == EvaluateCondition(p.decision_matrix[k].condition, r, p)

----------------------------------------------------------------------------
\* What a check contributes: the entries it pushes on the trace (none or one)
\* and the verdict it proposes ("none" if it has nothing to say).

ConditionName == RuleCondition \cup {"SignatureRequired", "ExecutableHandling",
                                     "MalwareScanRequired", "ReputationRequired", "SbomRequired"}
TraceEntry == [condition : ConditionName, matched : BOOLEAN, verdict : Verdict]

Entry(c, m, shown) == <<[condition |-> c, matched |-> m, verdict |-> shown]>>
Silent             == [entries |-> <<>>, verdict |-> "none"]
Note(c, m, v)      == [entries |-> Entry(c, m, v), verdict |-> v]

MandatoryMalware(r) ==
  IF r.malware = "Detected" THEN Note("MalwareDetected", TRUE, "Failed")
                            ELSE Note("MalwareDetected", FALSE, "none")

\* Mistake to detect: a malicious reputation is left to the decision matrix.
BugMandatoryReputation(r) == Note("ReputationMalicious", r.reputation = "Malicious", "none")

MandatoryReputation(r) ==
  IF r.reputation = "Malicious" THEN Note("ReputationMalicious", TRUE, "Failed")
                                ELSE Note("ReputationMalicious", FALSE, "none")

MatrixRule(r, p, k) ==
  LET rule == p.decision_matrix[k]
  IN  IF Matches(p, r, k) THEN Note(rule.condition, TRUE, rule.verdict)
                          ELSE Note(rule.condition, FALSE, "none")

\* Mistake to detect: the failed check is traced but decides nothing.
BugSignatureCheck(r, p) ==
  [entries |-> Entry("SignatureRequired", p.require_signature,
                     IF p.require_signature /\ r.signature # "Verified" THEN "Failed" ELSE "none"),
   verdict |-> "none"]

\* A verified signature is traced with the verdict "Verified" but decides nothing.
SignatureCheck(r, p) ==
  CASE ~p.require_signature      -> Note("SignatureRequired", FALSE, "none")
    [] p.require_signature /\ r.signature = "Verified"
         -> [entries |-> Entry("SignatureRequired", TRUE, "Verified"), verdict |-> "none"]
    [] OTHER                     -> Note("SignatureRequired", TRUE, "Failed")

FileTypeCheck(r, p) ==
  IF r.file_type \in p.deny_file_types THEN Note("DeniedFileType", TRUE, "Failed") ELSE Silent

Blocked(r, p) == /\ r.executable
                 /\ \/ p.executable_handling = "DenyAll"
                    \/ p.executable_handling = "BlockUnsigned" /\ r.signature # "Verified"

\* Mistake to detect: unsigned executables pass unless a signature is required.
BugExecutableCheck(r, p) ==
  IF ~r.executable THEN Silent
  ELSE Note("ExecutableHandling", TRUE,
            IF Blocked(r, p) /\ (p.require_signature \/ p.executable_handling = "DenyAll")
            THEN "Failed" ELSE "none")

ExecutableCheck(r, p) ==
  IF ~r.executable THEN Silent
  ELSE Note("ExecutableHandling", TRUE, IF Blocked(r, p) THEN "Failed" ELSE "none")

Severity(fatal) == IF fatal THEN "Failed" ELSE "Unverified"

ScanUnavailable(r) == r.malware \in {"ToolMissing", "ScanError", "NotChecked"}

\* Mistake to detect: a scanner that is not installed does not count as unavailable.
BugMalwareAvailabilityCheck(r, p) ==
  IF p.malware_scan_required /\ r.malware = "ScanError"
  THEN Note("MalwareScanRequired", TRUE, Severity(p.malware_failure_is_fatal)) ELSE Silent

MalwareAvailabilityCheck(r, p) ==
  IF p.malware_scan_required /\ ScanUnavailable(r)
  THEN Note("MalwareScanRequired", TRUE, Severity(p.malware_failure_is_fatal)) ELSE Silent

LookupUnavailable(r) == r.reputation \in {"Unknown", "Unavailable", "ApiKeyMissing", "NotChecked"}

ReputationAvailabilityCheck(r, p) ==
  IF p.reputation_required /\ LookupUnavailable(r)
  THEN Note("ReputationRequired", TRUE, Severity(p.reputation_failure_is_fatal)) ELSE Silent

SbomCheck(p) == IF p.require_sbom THEN Note("SbomRequired", TRUE, "Unverified") ELSE Silent

----------------------------------------------------------------------------
\* The reference definition of the verdict, stated without steps: the mandatory
\* checks, else the first rule of the matrix that matches, else the policy-level
\* checks in their order of severity and declaration, else VERIFIED.

MatchingRules(r, p) == {k \in 1..Len(p.decision_matrix) : Matches(p, r, k)}

FirstRule(r, p) ==
  CHOOSE k \in MatchingRules(r, p) : \A j \in MatchingRules(r, p) : k <= j

Mandatory(r) == r.malware = "Detected" \/ r.reputation = "Malicious"

HardFailure(r, p) == \/ p.require_signature /\ r.signature # "Verified"
                     \/ r.file_type \in p.deny_file_types
                     \/ Blocked(r, p)

MissingScan(r, p)   == p.malware_scan_required /\ ScanUnavailable(r)
MissingLookup(r, p) == p.reputation_required /\ LookupUnavailable(r)

PolicyLevel(r, p) ==
  IF HardFailure(r, p) THEN "Failed"
  ELSE IF MissingScan(r, p) THEN Severity(p.malware_failure_is_fatal)
  ELSE IF MissingLookup(r, p) THEN Severity(p.reputation_failure_is_fatal)
  ELSE IF p.require_sbom THEN "Unverified" ELSE "Verified"

Outcome(r, p) ==
  IF Mandatory(r) THEN "Failed"
  ELSE IF MatchingRules(r, p) # {} THEN p.decision_matrix[FirstRule(r, p)].verdict
  ELSE PolicyLevel(r, p)
=============================================================================

-------------------------- MODULE ShippedPolicies --------------------------
(***************************************************************************)
(* The four policies the repository ships (src/policies/*.yaml), as        *)
(* instances of PolicyDecision, and what a VERIFIED under each of them     *)
(* stands for.                                                             *)
(***************************************************************************)
EXTENDS PolicyDecision

Fail(c) == [condition |-> c, verdict |-> "Failed"]
Doubt(c) == [condition |-> c, verdict |-> "Unverified"]

DefaultMatrix == <<Fail("MalwareDetected"), Fail("ReputationMalicious"),
                   Fail("ChecksumMismatch"), Fail("SignerNotAllowed"), Fail("SignatureInvalid")>>

\* Two of the strict policies have the same matrix.
StrictMatrix == <<Fail("MalwareDetected"), Fail("ReputationMalicious"),
                  Fail("ChecksumMismatch"), Fail("SignerNotAllowed"), Fail("SignatureInvalid"),
                  Fail("SignatureMissing"), Fail("DeniedFileType"), Doubt("HighEntropy")>>

\* The air-gapped matrix has no rule for the reputation.
AirgappedMatrix == <<Fail("MalwareDetected"), Fail("ChecksumMismatch"),
                     Fail("SignerNotAllowed"), Fail("SignatureInvalid"),
                     Fail("SignatureMissing"), Fail("DeniedFileType"), Doubt("HighEntropy")>>

DefaultPolicy ==
  [require_signature |-> FALSE, require_sbom |-> FALSE, reputation_required |-> FALSE,
   reputation_failure_is_fatal |-> FALSE, malware_scan_required |-> FALSE,
   malware_failure_is_fatal |-> FALSE, deny_file_types |-> {},
   executable_handling |-> "BlockUnsigned", decision_matrix |-> DefaultMatrix]

CiGatePolicy ==
  [DefaultPolicy EXCEPT !.require_signature = TRUE, !.decision_matrix = StrictMatrix]

ContractorStrictPolicy ==
  [CiGatePolicy EXCEPT !.reputation_required = TRUE, !.malware_scan_required = TRUE]

AirgappedPolicy ==
  [CiGatePolicy EXCEPT !.malware_scan_required = TRUE, !.malware_failure_is_fatal = TRUE,
                       !.decision_matrix = AirgappedMatrix]

Shipped == {DefaultPolicy, CiGatePolicy, ContractorStrictPolicy, AirgappedPolicy}

\* The results a complete run of the pipeline hands to the policy stage: every
\* stage has run, and a checksum mismatch has already ended the run.
StageResults == {r \in PipelineResults :
  /\ r.signature # "NotChecked" /\ r.malware # "NotChecked" /\ r.reputation # "NotChecked"
  /\ ~r.checksum_mismatch}

\* What VERIFIED under a shipped policy lets a user conclude: under every one of
\* them no stage reported anything adverse and an executable carries a verified
\* signature; under the strict ones the artifact is signed and not suspiciously
\* dense; where a scan or a lookup is required, it came back clean.
VerifiedMeansClean ==
  Done /\ final_verdict = "Verified" /\ policy \in Shipped =>
    /\ ~Mandatory(results)
    /\ results.signature \notin {"Invalid", "SignerNotAllowed"}
    /\ results.executable => results.signature = "Verified"
    /\ policy # DefaultPolicy => results.signature = "Verified" /\ ~results.entropy_flagged
    /\ policy.malware_scan_required => results.malware = "Clean"
    /\ policy = ContractorStrictPolicy => results.reputation = "Clean"
=============================================================================

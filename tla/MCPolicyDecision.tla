-------------------------- MODULE MCPolicyDecision --------------------------
(***************************************************************************)
(* The cases TLC evaluates: one family varies the decision matrix, one the *)
(* requirements of the policy, and one takes the shipped policies with     *)
(* every combination of stage results.                                     *)
(***************************************************************************)
EXTENDS ShippedPolicies

MCFileTypes == {"elf", "text"}

\* --- the decision matrix: every matrix of at most two of these rules
MatrixConditions == {"Always", "SignatureMissing", "MalwareDetected", "ReputationUnavailable"}
MatrixRules == [condition : MatrixConditions, verdict : Status]
Matrices == {<<>>} \cup {<<a>> : a \in MatrixRules} \cup {<<a, b>> : a, b \in MatrixRules}

MatrixPolicies ==
  [require_signature : BOOLEAN, require_sbom : {FALSE}, reputation_required : {FALSE},
   reputation_failure_is_fatal : {FALSE}, malware_scan_required : {TRUE},
   malware_failure_is_fatal : {FALSE}, deny_file_types : {{}},
   executable_handling : {"BlockUnsigned"}, decision_matrix : Matrices]

MatrixResults ==
  [signature : {"Missing", "Verified"}, malware : {"Clean", "Detected", "ToolMissing"},
   reputation : {"Clean", "Malicious", "Unknown"}, checksum_mismatch : {FALSE},
   entropy_flagged : {FALSE}, executable : {TRUE}, file_type : {"text"}]

\* --- the requirements: every switch of the policy, with and without one rule
RequirementMatrices ==
  {<<>>, <<[condition |-> "SbomMissing", verdict |-> "Verified"]>>}

RequirementPolicies ==
  [require_signature : BOOLEAN, require_sbom : BOOLEAN, reputation_required : BOOLEAN,
   reputation_failure_is_fatal : BOOLEAN, malware_scan_required : BOOLEAN,
   malware_failure_is_fatal : {FALSE}, deny_file_types : {{"text"}},
   executable_handling : ExecutableHandling, decision_matrix : RequirementMatrices]

RequirementResults ==
  [signature : {"Verified", "SignerNotAllowed"}, malware : {"Clean", "Detected", "ScanError"},
   reputation : {"Clean", "Unavailable"}, checksum_mismatch : {FALSE},
   entropy_flagged : {FALSE}, executable : BOOLEAN, file_type : MCFileTypes]

MCCases == (MatrixResults \X MatrixPolicies) \cup (RequirementResults \X RequirementPolicies)
             \cup (StageResults \X Shipped)

AirgappedCases == StageResults \X {AirgappedPolicy}
=============================================================================

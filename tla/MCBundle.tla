------------------------------ MODULE MCBundle ------------------------------
(***************************************************************************)
(* Instances of Bundle: two releases of an artifact, bundled into the same *)
(* directory with an old and a new key, and without a key.                 *)
(***************************************************************************)
EXTENDS Bundle, TLC

CONSTANTS v1, v2, old, new, absent

MCContents    == {v1, v2}
MCExecutables == {v1, v2}
MCFileTypes   == {"", "elf"}
MCFileTypeOf  == [x \in MCContents |-> "elf"]
MCKeys        == {old, new}

MCJobs == {[signing_key |-> old, keys_dir |-> {old}], [signing_key |-> new, keys_dir |-> {new}],
           [signing_key |-> absent, keys_dir |-> {old}]}

Lenient == [require_signature |-> FALSE, require_sbom |-> FALSE, reputation_required |-> FALSE,
            reputation_failure_is_fatal |-> FALSE, malware_scan_required |-> TRUE,
            malware_failure_is_fatal |-> FALSE, deny_file_types |-> {},
            executable_handling |-> "BlockUnsigned",
            decision_matrix |-> <<[condition |-> "SignatureInvalid", verdict |-> "Failed"]>>]
Strict  == [Lenient EXCEPT !.require_signature = TRUE]

Symmetric == Permutations(MCContents)

MCRuns == {[policy |-> Lenient, require_checksums |-> FALSE, allow_signers |-> {}],
           [policy |-> Strict, require_checksums |-> TRUE, allow_signers |-> {old}]}
=============================================================================

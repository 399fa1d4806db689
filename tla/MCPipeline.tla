----------------------------- MODULE MCPipeline -----------------------------
(***************************************************************************)
(* Instances of Pipeline: a signed good executable, an infected one that   *)
(* the reputation service knows, and a dense clean text; configurations    *)
(* that vary the signature, the scanner, the checksums and the network.    *)
(***************************************************************************)
EXTENDS Pipeline

CONSTANTS good, bad, text, absent

MCContents    == {good, bad, text}
MCInfected    == {bad}
MCKnownBad    == {bad}
MCDense       == {text}
MCExecutables == {good, bad}
MCFileTypes   == {"", "elf", "text"}
MCFileTypeOf  == [x \in MCContents |-> IF x = text THEN "text" ELSE "elf"]

\* The default policy in its essentials, and one that requires everything.
Lenient == [require_signature |-> FALSE, require_sbom |-> FALSE, reputation_required |-> FALSE,
            reputation_failure_is_fatal |-> FALSE, malware_scan_required |-> FALSE,
            malware_failure_is_fatal |-> FALSE, deny_file_types |-> {},
            executable_handling |-> "BlockUnsigned",
            decision_matrix |-> <<[condition |-> "SignatureInvalid", verdict |-> "Failed"]>>]

Strict == [Lenient EXCEPT !.require_signature = TRUE, !.malware_scan_required = TRUE,
             !.reputation_required = TRUE, !.malware_failure_is_fatal = TRUE,
             !.deny_file_types = {"text"}]

Base == [policy |-> Lenient, url |-> FALSE, allow_network |-> TRUE, offline |-> FALSE,
         require_checksums |-> FALSE, sha256 |-> absent, sha512 |-> absent, sig |-> good,
         keys |-> "signer", signer |-> "listed", scanner |-> "works", api_key |-> TRUE]

Signatures == {[Base EXCEPT !.policy = p, !.sig = s, !.keys = k, !.signer = l, !.scanner = m] :
                 p \in {Lenient, Strict}, s \in {absent, good, text}, k \in {"none", "others", "signer"},
                 l \in {"listed", "unlisted", "no_list"},
                 m \in {"works", "hangs", "unrunnable"}}
Checksums  == {[Base EXCEPT !.require_checksums = r, !.sha256 = x, !.sha512 = y,
                            !.scanner = "fails"] :
                 r \in BOOLEAN, x, y \in {absent, good}}
Networks   == {[Base EXCEPT !.policy = p, !.url = u, !.allow_network = n, !.offline = o,
                            !.api_key = a, !.scanner = "absent"] :
                 p \in {Lenient, Strict}, u, n, o, a \in BOOLEAN}

MCConfigs == Signatures \cup Checksums \cup Networks
MCCaches  == {[x \in MCContents |-> absent],
              [x \in MCContents |-> IF x = bad THEN "Malicious" ELSE "Clean"]}
=============================================================================

------------------------------- MODULE Stages -------------------------------
(***************************************************************************)
(* What each stage of veriscan reports about the bytes it reads, given the *)
(* run's configuration: signature.rs, malware.rs, inspect.rs,              *)
(* reputation.rs and the checksum part of hash.rs under src/src/stages.    *)
(*                                                                         *)
(* A content stands for the bytes of a file and for their SHA-256: the     *)
(* digest is taken to be injective.  Constants say what is true of each    *)
(* content; a stage may still fail to find it out (no scanner, no network).*)
(***************************************************************************)
EXTENDS PolicyRules

CONSTANTS Contents,         \* what the artifact's path can hold
          Infected,         \* contents the scanner detects
          KnownBad,         \* contents some engine of the reputation service flags
          Dense,            \* contents whose entropy exceeds the threshold
          Executables,      \* executables and scripts
          FileTypeOf,       \* Contents -> label
          Absent            \* no such file, digest, option or report

ASSUME ContentAssumption ==
  /\ Absent \notin Contents \cup Status \cup ReputationResult
  /\ Infected \cup KnownBad \cup Dense \cup Executables \subseteq Contents
  /\ FileTypeOf \in [Contents -> FileTypes]

Digest == Contents \cup {Absent}

\* RunConfig and the parts of the policy and of the machine the stages consult.  sig
\* is the content a detached signature was made for; keys tells whether there are
\* usable trusted keys, and the one it was made with among them; signer whether that
\* key's fingerprint is listed in allow_signers, or that list is empty.
RunConfig == [policy : PolicyType, url : BOOLEAN, allow_network : BOOLEAN, offline : BOOLEAN,
              require_checksums : BOOLEAN, sha256 : Digest, sha512 : Digest,
              sig : Digest, keys : {"none", "others", "signer"},
              signer : {"listed", "unlisted", "no_list"},
              scanner : {"absent", "works", "fails", "hangs", "unrunnable"},
              api_key : BOOLEAN]

----------------------------------------------------------------------------
\* hash.rs: an expected checksum is given or found for each algorithm; with
\* require_checksums both have to be, and any that is there has to match.

ChecksumsResolved(c) ==
  c.require_checksums => c.sha256 # Absent /\ c.sha512 # Absent

ChecksumsMatch(c, x) == /\ c.sha256 \in {Absent, x}
                        /\ c.sha512 \in {Absent, x}

\* signature.rs: no signature file, no usable key, a signature that does not verify,
\* a signer that is not listed (or no list although a signature is required).
ReadsForSignature(c) == c.sig # Absent /\ c.keys # "none"

SignerRefused(c) == \/ c.signer = "unlisted"
                    \/ c.signer = "no_list" /\ c.policy.require_signature

\* Mistake to detect: the signature is not checked against the artifact's bytes.
BugSignatureOf(c, x) == IF c.sig = Absent THEN "Missing"
                        ELSE IF c.keys # "signer" THEN "Invalid"
                        ELSE IF SignerRefused(c) THEN "SignerNotAllowed" ELSE "Verified"

SignatureOf(c, x) ==
  IF c.sig = Absent THEN "Missing"
  ELSE IF c.keys # "signer" \/ x # c.sig THEN "Invalid"
  ELSE IF SignerRefused(c) THEN "SignerNotAllowed" ELSE "Verified"

\* malware.rs with util/command.rs: a scan that hangs is killed at its timeout, and
\* a file that cannot be opened makes the scanner exit with an error.
ScanOf(c, x) ==
  IF c.scanner = "absent" THEN "ToolMissing"
  ELSE IF c.scanner \in {"fails", "hangs"} \/ x = Absent THEN "ScanError"
  ELSE IF x \in Infected THEN "Detected" ELSE "Clean"

\* reputation.rs: what looking up digest x in the given cache can return; "Error" is
\* the early return for an HTTP status other than 2xx and 404 or an unreadable body,
\* and an answer without statistics counts as clean.
Label(x) == IF x \in KnownBad THEN "Malicious" ELSE "Clean"

AsksService(c, cached, x) == ~c.offline /\ c.allow_network /\ cached[x] = Absent

LookupOf(c, cached, x) ==
  IF c.offline \/ ~c.allow_network THEN {"Unknown"}
  ELSE IF cached[x] # Absent THEN {cached[x]}
  ELSE IF ~c.api_key THEN {"ApiKeyMissing"}
  ELSE {Label(x), "Clean", "Unknown", "Unavailable", "Error"}

\* Only a verdict of the service is stored; a failure to write the cache is ignored.
CachesAfter(c, cached, x, answer) ==
  {cached} \cup (IF AsksService(c, cached, x) /\ answer \in {"Clean", "Malicious"}
                 THEN {[cached EXCEPT ![x] = answer]} ELSE {})

\* evidence.rs: the process exit code of a verdict; main.rs returns 99 for an error.
ExitCode(status) == CASE status = "Verified" -> 0 [] status = "Unverified" -> 10
                      [] status = "Failed" -> 20
ToolError == 99
=============================================================================

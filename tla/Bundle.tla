------------------------------- MODULE Bundle -------------------------------
(***************************************************************************)
(* Offline bundles (src/src/stages/bundle.rs): "veriscan bundle create"    *)
(* writes a directory, possibly the one of an earlier bundle; a copy of it *)
(* is carried to a machine without network, where "veriscan verify         *)
(* --offline" checks the manifest and runs the pipeline on the artifact    *)
(* (run_bundle_pipeline in src/src/orchestrator.rs).                       *)
(*                                                                         *)
(* The source of the artifact may be rebuilt at any moment, create may be  *)
(* interrupted between any two of its writes, and files of the copy may be *)
(* lost or overwritten while it is verified.  The pipeline is an instance  *)
(* of Pipeline whose file, signature, keys and checksums are the copy's.   *)
(***************************************************************************)
EXTENDS Stages, Integers

CONSTANTS Keys,             \* OpenPGP keys
          Jobs,             \* what create may be called with
          Runs,             \* what verify may be called with
          MaxCreations,     \* bound on the calls of create
          MaxChanges        \* bound on the changes to the copy

ASSUME BundleAssumption ==
  /\ Absent \notin Keys
  /\ Jobs \subseteq [signing_key : Keys \cup {Absent}, keys_dir : SUBSET Keys]
  /\ Runs \subseteq [policy : PolicyType, require_checksums : BOOLEAN,
                     allow_signers : SUBSET Keys]
  /\ MaxCreations \in Nat /\ MaxChanges \in Nat

VARIABLES
  source,                   \* what create is asked to bundle
  out,                      \* the directory create writes
  step, job, creations,     \* of create: next step, arguments, calls begun
  created, signed,          \* bundles create reported, signatures it made (history)
  bundle,                   \* the copy that is verified
  changes,                  \* changes made to the copy
  run,                      \* arguments of the verification
  verify_step,              \* next step of verify; "pipeline" when it has accepted
  certs, listed, todo,      \* keys and manifest it has read, entries still to be checked
  pc, initial_sha256, hash_sha256, results, read, report, exit_code   \* of the pipeline

creator  == <<source, out, step, job, creations, created, signed>>
verifier == <<run, verify_step, certs, listed, todo>>
pipeline == <<pc, initial_sha256, hash_sha256, results, read, report, exit_code>>
vars     == <<creator, bundle, changes, verifier, pipeline>>

\* The files a manifest lists, with their places in it.
Place       == [artifact |-> 1, sha256 |-> 2, sha512 |-> 3, sig |-> 4, trusted_keys |-> 5]
ListedFiles == DOMAIN Place
Signatures == [by : Keys, of : Contents] \cup {Absent}
Manifest   == [created_at : Nat, artifact : Digest, sha256 : Digest, sha512 : Digest,
               sig : Signatures, trusted_keys : SUBSET Keys]
Directory  == [artifact : Digest, sha256 : Digest, sha512 : Digest, sig : Signatures,
               trusted_keys : SUBSET Keys, manifest : Manifest \cup {Absent},
               manifest_sig : [by : Keys, of : Manifest] \cup {Absent}]

\* Absent stands for a missing file of any kind.
ASSUME FilesAssumption ==
  Absent \notin Manifest /\ Absent \notin [by : Keys, of : Contents] /\ Absent \notin [by : Keys, of : Manifest]

Missing(f) == IF f = "trusted_keys" THEN {} ELSE Absent
EmptyDirectory == [f \in ListedFiles \cup {"manifest", "manifest_sig"} |-> Missing(f)]

----------------------------------------------------------------------------
\* The pipeline in bundle mode: no network, keys and signature from the bundle, and the
\* checksum files beside the artifact are found by the hash stage.  A stage reads these
\* files at the moment it reads the artifact.
Signer == bundle.sig.by               \* where there is a signature

TrustedKeys == IF bundle.trusted_keys = {} THEN "none"
               ELSE IF bundle.sig # Absent /\ Signer \notin bundle.trusted_keys THEN "others"
               ELSE "signer"

\* Mistake to detect: the policy's allow_signers is not consulted.
BugSignerStatus == "listed"

SignerStatus == IF run.allow_signers = {} THEN "no_list"
                ELSE IF bundle.sig # Absent /\ Signer \notin run.allow_signers THEN "unlisted"
                ELSE "listed"

\* Mistake to detect: checksum files are looked for under another name.
BugSidecar(file) == Absent

Sidecar(file) == bundle[file]

BundleConfig ==
  [policy |-> run.policy, url |-> FALSE, allow_network |-> FALSE, offline |-> TRUE,
   require_checksums |-> run.require_checksums,
   sha256 |-> Sidecar("sha256"), sha512 |-> Sidecar("sha512"),
   sig |-> IF bundle.sig = Absent THEN Absent ELSE bundle.sig.of,
   keys |-> TrustedKeys, signer |-> SignerStatus, scanner |-> "works", api_key |-> FALSE]

Verification == INSTANCE Pipeline
                  WITH disk <- bundle.artifact, config <- BundleConfig,
                       past <- {}, tampers <- 0, cache <- [x \in Contents |-> Absent],
                       Configs <- {}, Caches <- {}, MaxTampers <- 0, MayRevert <- TRUE

Init == /\ source \in Contents
        /\ out = EmptyDirectory
        /\ step = "idle" /\ job \in Jobs /\ creations = 0 /\ created = {} /\ signed = {}
        /\ bundle = EmptyDirectory
        /\ changes = 0
        /\ run \in Runs
        /\ verify_step = "waiting" /\ certs = {} /\ listed = Absent /\ todo = {}
        /\ pc = "locate"
        /\ initial_sha256 = Absent /\ hash_sha256 = Absent
        /\ results = Verification!NoResults
        /\ read = [s \in Verification!Readers |-> Absent]
        /\ report = Absent /\ exit_code = -1

----------------------------------------------------------------------------
\* create.

\* The source may change at any moment; it matters where the next step reads it.
Rebuild == /\ step \in {"copy", "sign"}
           /\ source' \in Contents \ {source}
           /\ UNCHANGED <<out, step, job, creations, created, signed, bundle, changes, verifier,
                          pipeline>>

Create == /\ step = "idle"
          /\ creations < MaxCreations
          /\ creations' = creations + 1
          /\ job' \in Jobs
          /\ step' = "copy"
          /\ UNCHANGED <<source, out, created, signed, bundle, changes, verifier, pipeline>>

\* A step of create that writes one file of its directory.
Write(at, next, file, value) ==
  /\ step = at
  /\ out' = [out EXCEPT ![file] = value]
  /\ step' = next
  /\ UNCHANGED <<source, job, creations, created, bundle, changes, verifier, pipeline>>

\* ... other than the artifact's signature.
WriteFile(at, next, file, value) == Write(at, next, file, value) /\ UNCHANGED signed

CopyArtifact == WriteFile("copy", "sha256", "artifact", source)
WriteSha256  == WriteFile("sha256", "sha512", "sha256", out.artifact)
WriteSha512  == WriteFile("sha512", "keys", "sha512", out.artifact)

\* Mistake to detect: keys are copied only into a directory that has none.
BugCopyKeys  == WriteFile("keys", "sign", "trusted_keys",
                          IF out.trusted_keys = {} THEN job.keys_dir ELSE out.trusted_keys)
CopyKeys     == WriteFile("keys", "sign", "trusted_keys", out.trusted_keys \cup job.keys_dir)

\* The signature is made over the source, not over the copy; without a signing key
\* none is made, and one of an earlier bundle stays.
SignArtifact ==
  LET signature == [by |-> job.signing_key, of |-> source]
      skipped   == job.signing_key = Absent
  IN  /\ Write("sign", "manifest", "sig", IF skipped THEN out.sig ELSE signature)
      /\ signed' = IF skipped THEN signed ELSE signed \cup {signature}

WriteManifest ==
  WriteFile("manifest", "sign_manifest", "manifest",
            [f \in ListedFiles \cup {"created_at"} |-> IF f = "created_at" THEN creations ELSE out[f]])

SignManifest ==
  /\ step = "sign_manifest"
  /\ out' = IF job.signing_key = Absent THEN out
            ELSE [out EXCEPT !.manifest_sig = [by |-> job.signing_key, of |-> out.manifest]]
  /\ created' = created \cup {[directory |-> out', job |-> job]}
  /\ step' = "idle"
  /\ UNCHANGED <<source, job, creations, signed, bundle, changes, verifier, pipeline>>

\* create fails, or is killed: what it wrote stays.
Interrupted == /\ step # "idle"
               /\ step' = "idle"
               /\ UNCHANGED <<source, out, job, creations, created, signed, bundle, changes,
                              verifier, pipeline>>

Creation == \/ Rebuild \/ Create \/ CopyArtifact \/ WriteSha256 \/ WriteSha512 \/ CopyKeys
            \/ SignArtifact \/ WriteManifest \/ SignManifest \/ Interrupted

----------------------------------------------------------------------------
\* The copy.

Carry == /\ verify_step = "waiting"
         /\ bundle' = out
         /\ verify_step' = "keys"
         /\ UNCHANGED <<creator, changes, run, certs, listed, todo, pipeline>>

\* A file of the copy is lost, or overwritten by the directory's present one.
Change == /\ verify_step # "waiting"
          /\ changes < MaxChanges
          /\ pc # "exited"
          /\ \E f \in DOMAIN bundle : \E v \in {Missing(f), out[f]} \ {bundle[f]} :
               bundle' = [bundle EXCEPT ![f] = v]
          /\ changes' = changes + 1
          /\ UNCHANGED <<creator, verifier, pipeline>>

----------------------------------------------------------------------------
\* verify.

\* Mistake to detect: a bundle that is refused ends the process with no exit code.
BugRefuse == pc' = "exited" /\ UNCHANGED <<creator, bundle, changes, verifier, initial_sha256,
                                           hash_sha256, results, read, report, exit_code>>

\* A returned Err: main exits with the code of tool errors.
Refuse == /\ pc' = "exited"
          /\ exit_code' = ToolError
          /\ UNCHANGED <<creator, bundle, changes, verifier, initial_sha256, hash_sha256, results,
                         read, report>>

Verifying(at) == verify_step = at /\ pc # "exited"

\* The manifest and its signature have to be there, and keys to verify it with.
Loadable == bundle.manifest # Absent /\ bundle.manifest_sig # Absent /\ bundle.trusted_keys # {}

LoadBundleKeys == /\ Verifying("keys")
                  /\ Loadable
                  /\ certs' = bundle.trusted_keys
                  /\ verify_step' = "manifest"
                  /\ UNCHANGED <<creator, bundle, changes, run, listed, todo, pipeline>>

ReadManifest == /\ Verifying("manifest")
                /\ bundle.manifest # Absent
                /\ listed' = bundle.manifest
                /\ verify_step' = "manifest_sig"
                /\ UNCHANGED <<creator, bundle, changes, run, certs, todo, pipeline>>

\* verify_sig_with_certs, over the bytes of the manifest that were read.
ManifestSigned == /\ bundle.manifest_sig # Absent
                  /\ bundle.manifest_sig.by \in certs
                  /\ bundle.manifest_sig.of = listed

VerifyManifest == /\ Verifying("manifest_sig")
                  /\ ManifestSigned
                  /\ todo' = {f \in ListedFiles : listed[f] # Missing(f)}
                  /\ verify_step' = "files"
                  /\ UNCHANGED <<creator, bundle, changes, run, certs, listed, pipeline>>

\* A file that is listed has to be there with the digest listed; one that is not is
\* not looked at.
AsListed(f) == IF f = "trusted_keys" THEN listed[f] \subseteq bundle[f]
                                     ELSE listed[f] = bundle[f]

\* The entry that comes next.
Due(f) == f \in todo /\ \A g \in todo : Place[f] <= Place[g]

\* Mistake to detect: only the artifact is compared with the manifest.
BugCheckFile(f) ==
  /\ Verifying("files")
  /\ Due(f)
  /\ f = "artifact" => AsListed("artifact")
  /\ todo' = todo \ {f}
  /\ UNCHANGED <<creator, bundle, changes, run, verify_step, certs, listed, pipeline>>

CheckFile(f) == /\ Verifying("files")
                /\ Due(f)
                /\ AsListed(f)
                /\ todo' = todo \ {f}
                /\ UNCHANGED <<creator, bundle, changes, run, verify_step, certs, listed, pipeline>>

Accept == /\ Verifying("files")
          /\ todo = {}
          /\ bundle.artifact # Absent
          /\ verify_step' = "pipeline"
          /\ UNCHANGED <<creator, bundle, changes, run, certs, listed, todo, pipeline>>

VerifyFails == /\ \/ Verifying("keys") /\ ~Loadable
                  \/ Verifying("manifest") /\ bundle.manifest = Absent
                  \/ Verifying("manifest_sig") /\ ~ManifestSigned
                  \/ /\ Verifying("files")
                     /\ \/ todo = {} /\ bundle.artifact = Absent
                        \/ \E f \in todo : Due(f) /\ ~AsListed(f)
               /\ Refuse

\* ... and then the pipeline runs on the path of the artifact.
RunPipeline == /\ Verifying("pipeline")
               /\ UNCHANGED <<creator, bundle, changes, verifier>>
               /\ Verification!Run

Verify == \/ LoadBundleKeys \/ ReadManifest \/ VerifyManifest
          \/ \E f \in ListedFiles : CheckFile(f)
          \/ Accept \/ VerifyFails \/ RunPipeline

\* create and verify work on different directories: a bound lets create go on after the
\* copy was made, so that the copy can be overwritten with its files, but no further than
\* the first step of verify.
Creating == verify_step \in {"waiting", "keys"} /\ pc # "exited"

Next == (Creating /\ Creation) \/ Carry \/ Change \/ Verify

Spec == Init /\ [][Next]_vars

----------------------------------------------------------------------------
TypeOK ==
  /\ source \in Contents /\ out \in Directory /\ bundle \in Directory
  /\ step \in {"idle", "copy", "sha256", "sha512", "keys", "sign", "manifest", "sign_manifest"}
  /\ job \in Jobs /\ creations \in 0..MaxCreations /\ changes \in 0..MaxChanges
  /\ created \subseteq [directory : Directory, job : Jobs]
  /\ signed \subseteq [by : Keys, of : Contents]
  /\ run \in Runs
  /\ verify_step \in {"waiting", "keys", "manifest", "manifest_sig", "files", "pipeline"}
  /\ certs \subseteq Keys /\ listed \in Manifest \cup {Absent} /\ todo \subseteq ListedFiles
  /\ (pc = "exited") <=> (exit_code # -1)

Accepted == verify_step = "pipeline"

\* A copy that nothing changed is accepted only if create wrote and reported it as a
\* whole: what an interrupted create, or one without a signing key, leaves in the
\* directory of an earlier bundle is refused, except for keys that are not listed.
AcceptedIsOneCreation ==
  Accepted /\ changes = 0 =>
    \E c \in created : \A f \in DOMAIN bundle \ {"trusted_keys"} : c.directory[f] = bundle[f]

\* A judged report is about the artifact the manifest lists, although the pipeline takes
\* its baseline from the path again: the listed checksum files beside the artifact
\* stand in for the manifest.  No two changes to the copy get around both of them.
JudgedIsListed == Verification!Judged /\ changes <= 2 => hash_sha256 = listed.artifact

\* VERIFIED under a policy that requires signatures means that a key of allow_signers
\* signed the reported content, whatever the bundle says of itself and however it
\* changed; a bundle's own keys are not enough.  (No policy of Runs is to have a matrix
\* rule that answers VERIFIED: such a rule asks for no signature.)
VerifiedIsSigned ==
  exit_code = 0 /\ run.policy.require_signature =>
    \E k \in run.allow_signers : [by |-> k, of |-> hash_sha256] \in signed

\* What create reported verifies: an unchanged copy of a bundle signed with a key of its
\* own keys directory is judged, and its signature is good if it was made for the
\* artifact that was copied.
CreatedIsJudged ==
  \A c \in created :
    /\ pc = "exited" /\ changes = 0 /\ bundle = c.directory
    /\ c.job.signing_key \in c.job.keys_dir
    => /\ exit_code # ToolError
       /\ bundle.sig.of = bundle.artifact => results.signature \in {"Verified", "SignerNotAllowed"}
=============================================================================

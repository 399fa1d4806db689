---------------------------- MODULE BundleProofs ----------------------------
(***************************************************************************)
(* Proofs about Bundle, for every set of contents, keys, jobs and runs,    *)
(* and any number of creations and of changes to the copy.                 *)
(*                                                                         *)
(* The pipeline that Bundle embeds is first restated in the terms of the   *)
(* bundle (PipelineStep).  The invariant then follows the files: from      *)
(* create (CreateInv) to the copy (CopyInv), to what verify has looked at  *)
(* (VerifyInv), to what the stages read of them (Coherent, SignedInv,      *)
(* ListedInv, WholeInv).                                                   *)
(***************************************************************************)
EXTENDS Bundle, WellFoundedInduction, TLAPS

FileNames == {"artifact", "sha256", "sha512", "sig", "trusted_keys", "manifest", "manifest_sig"}

LEMMA Names == /\ ListedFiles = {"artifact", "sha256", "sha512", "sig", "trusted_keys"}
               /\ ListedFiles \cup {"manifest", "manifest_sig"} = FileNames
BY DEF ListedFiles, Place, FileNames

LEMMA DirectoryDomain == \A d \in Directory : DOMAIN d = FileNames
BY DEF Directory, FileNames

\* A directory stays one when a file is written into it.
LEMMA FileWritten ==
  ASSUME NEW d \in Directory, NEW e \in Directory, NEW f \in FileNames
  PROVE  /\ [d EXCEPT ![f] = e[f]] \in Directory
         /\ [d EXCEPT ![f] = Missing(f)] \in Directory
<1>2. CASE f = "artifact"
  BY <1>2 DEF Directory, Missing, Digest
<1>3. CASE f = "sha256"
  BY <1>3 DEF Directory, Missing, Digest
<1>4. CASE f = "sha512"
  BY <1>4 DEF Directory, Missing, Digest
<1>5. CASE f = "sig"
  BY <1>5 DEF Directory, Missing, Signatures
<1>6. CASE f = "trusted_keys"
  BY <1>6 DEF Directory, Missing
<1>7. CASE f = "manifest"
  BY <1>7 DEF Directory, Missing
<1>8. CASE f = "manifest_sig"
  BY <1>8 DEF Directory, Missing
<1> QED  BY <1>2, <1>3, <1>4, <1>5, <1>6, <1>7, <1>8 DEF FileNames


----------------------------------------------------------------------------
\* The pipeline in the terms of the bundle it runs on.

Checks    == {"check_hash", "check_signature", "check_malware", "check_inspect"}
NextCheck == [check_hash |-> "signature", check_signature |-> "malware",
              check_malware |-> "sample", check_inspect |-> "reputation"]
Readings  == {"signature", "malware", "sample", "full"}

Going(here, next) == pc = here /\ pc' = next /\ UNCHANGED <<report, exit_code>>

\* The run halts only because the artifact is gone or not the one acquired.
Halts == /\ bundle.artifact = Absent \/ (pc \in Checks /\ bundle.artifact # initial_sha256)
         /\ pc' = "exited" /\ exit_code' = 99
         /\ UNCHANGED <<initial_sha256, hash_sha256, results, read, report>>

Fits(file) == bundle[file] \in {Absent, bundle.artifact}

Rejects == /\ pc = "hash"
           /\ \/ bundle.artifact = Absent
              \/ bundle.sha256 = Absent \/ bundle.sha512 = Absent
              \/ ~Fits("sha256") \/ ~Fits("sha512")
           /\ pc' = "exited" /\ report' = "Failed" /\ exit_code' = 20
           /\ UNCHANGED <<initial_sha256, hash_sha256, results, read>>

Starts == /\ Going("locate", "acquire")
          /\ UNCHANGED <<initial_sha256, hash_sha256, results, read>>

Acquires == /\ Going("acquire", "hash")
            /\ bundle.artifact # Absent
            /\ initial_sha256' = bundle.artifact
            /\ UNCHANGED <<hash_sha256, results, read>>

Hashes == /\ Going("hash", "check_hash")
          /\ bundle.artifact # Absent /\ Fits("sha256") /\ Fits("sha512")
          /\ hash_sha256' = bundle.artifact
          /\ UNCHANGED <<initial_sha256, results, read>>

Asserts == /\ pc \in Checks /\ Going(pc, NextCheck[pc])
           /\ bundle.artifact = initial_sha256
           /\ UNCHANGED <<initial_sha256, hash_sha256, results, read>>

Keyed == bundle.sig # Absent /\ Signer \in bundle.trusted_keys

Signs == /\ Going("signature", "check_signature")
         /\ \E v : /\ results' = [results EXCEPT !.signature = v]
                   /\ v = "Verified" /\ run.policy.require_signature =>
                        /\ Keyed /\ bundle.sig.of = bundle.artifact
                        /\ Signer \in run.allow_signers
                        /\ read' = [read EXCEPT !["signature"] = bundle.artifact]
                   /\ Keyed /\ bundle.sig.of = bundle.artifact => v \in {"Verified", "SignerNotAllowed"}
         /\ read' \in {read, [read EXCEPT !["signature"] = bundle.artifact]}
         /\ UNCHANGED <<initial_sha256, hash_sha256>>

Looks == /\ \E move \in {<<"malware", "check_malware">>, <<"sample", "full">>,
                         <<"full", "check_inspect">>, <<"reputation", "policy">>} :
              /\ Going(move[1], move[2])
              /\ read' \in {read, [read EXCEPT ![move[1]] = bundle.artifact]}
         /\ results'.signature = results.signature
         /\ DOMAIN results' = DOMAIN results
         /\ UNCHANGED <<initial_sha256, hash_sha256>>

\* No rule of a policy that verify is called with answers VERIFIED.
NoRuleVerifies ==
  \A r \in Runs : \A k \in 1..Len(r.policy.decision_matrix) :
    r.policy.decision_matrix[k].verdict # "Verified"

Judges == /\ pc = "policy" /\ pc' = "exited"
          /\ report' \in Status
          /\ exit_code' \in {0, 10, 20}
          /\ exit_code' = 0 => report' = "Verified"
          /\ NoRuleVerifies /\ report' = "Verified" /\ run.policy.require_signature =>
               results.signature = "Verified"
          /\ UNCHANGED <<initial_sha256, hash_sha256, results, read>>

PipelineStep == Halts \/ Rejects \/ Starts \/ Acquires \/ Hashes \/ Asserts \/ Signs \/ Looks \/ Judges

\* The first rule that matches exists, and is a rule of the matrix.
LEMMA FirstRuleMatches ==
  ASSUME NEW r, NEW p, p.decision_matrix \in Seq(DecisionRule), Verification!MatchingRules(r, p) # {}
  PROVE  Verification!FirstRule(r, p) \in 1..Len(p.decision_matrix)
<1> DEFINE M == Verification!MatchingRules(r, p)
<1>1. M \subseteq 1..Len(p.decision_matrix) /\ Len(p.decision_matrix) \in Nat
  BY DEF Verification!MatchingRules
<1>2. M \subseteq Nat /\ M # {}
  BY <1>1
<1> HIDE DEF M
<1>3. PICK k \in M : \A j \in M : ~(<<j, k>> \in OpToRel(<, Nat))
  BY <1>2, NatLessThanWellFounded, WFMin
<1>4. \A j \in M : <<j, k>> \in OpToRel(<, Nat) <=> j < k
  BY <1>2 DEF OpToRel
<1>5. ASSUME NEW j \in M PROVE k <= j
  <2>1. j \in Nat /\ k \in Nat /\ ~(j < k)
    BY <1>2, <1>3, <1>4
  <2> QED  BY <2>1
<1>6. (CHOOSE i \in M : \A j \in M : i <= j) \in M
  BY <1>5
<1> QED  BY <1>1, <1>6 DEF M, Verification!FirstRule

LEMMA OutcomeFacts ==
  ASSUME NEW r, NEW p \in PolicyType
  PROVE  /\ Verification!Outcome(r, p) \in Status
         /\ Verification!Outcome(r, p) = "Verified" =>
              \/ ~p.require_signature \/ r.signature = "Verified"
              \/ \E k \in 1..Len(p.decision_matrix) : p.decision_matrix[k].verdict = "Verified"
<1>1. p.decision_matrix \in Seq(DecisionRule)
  BY DEF PolicyType
<1>2. ASSUME NEW k \in 1..Len(p.decision_matrix) PROVE p.decision_matrix[k].verdict \in Status
  <2>1. p.decision_matrix[k] \in DecisionRule
    BY <1>1
  <2> QED  BY <2>1 DEF DecisionRule
<1>3. CASE Verification!Mandatory(r)
  BY <1>3 DEF Verification!Outcome, Status
<1>4. CASE ~Verification!Mandatory(r) /\ Verification!MatchingRules(r, p) # {}
  <2> DEFINE k == Verification!FirstRule(r, p)
  <2>1. k \in 1..Len(p.decision_matrix)
    BY <1>1, <1>4, FirstRuleMatches
  <2>2. Verification!Outcome(r, p) = p.decision_matrix[k].verdict
    BY <1>4 DEF Verification!Outcome
  <2> QED  BY <1>2, <2>1, <2>2
<1>5. CASE ~Verification!Mandatory(r) /\ Verification!MatchingRules(r, p) = {}
  BY <1>5 DEF Verification!Outcome, Verification!PolicyLevel, Verification!HardFailure,
              Verification!Severity, Status
<1> QED  BY <1>3, <1>4, <1>5

LEMMA RunIsStep ==
  ASSUME run \in Runs, bundle \in Directory, DOMAIN results = DOMAIN Verification!NoResults, UNCHANGED <<bundle, run>>,
         Verification!Run
  PROVE  PipelineStep
<1>1. run.policy \in PolicyType /\ BundleConfig.policy = run.policy
  BY BundleAssumption DEF BundleConfig
<1>2. ASSUME Verification!Abort,
             bundle.artifact = Absent \/ (pc \in Checks /\ bundle.artifact # initial_sha256)
      PROVE  Halts
  BY <1>2 DEF Verification!Abort, Halts, Verification!ToolError
<1>3. CASE Verification!LocateFails
  BY <1>2, <1>3 DEF Verification!LocateFails, BundleConfig, PipelineStep
<1>4. CASE Verification!ReadFails
  BY <1>2, <1>4 DEF Verification!ReadFails, PipelineStep
<1>5. CASE Verification!ArtifactMutated
  BY <1>2, <1>5 DEF Verification!ArtifactMutated, Verification!After, Checks, PipelineStep
<1>6. CASE Verification!ScanCannotRun
  BY <1>6 DEF Verification!ScanCannotRun, BundleConfig
<1>7. CASE Verification!ReputationFails
  BY <1>7 DEF Verification!ReputationFails, Verification!LookupOf, BundleConfig
<1>8. CASE Verification!Locate
  BY <1>8 DEF Verification!Locate, Verification!Goto, Starts, Going, PipelineStep
<1>9. CASE Verification!Acquire
  BY <1>9 DEF Verification!Acquire, Verification!Goto, Acquires, Going, PipelineStep
<1>10. CASE Verification!HashRejects
  BY <1>10 DEF Verification!HashRejects, Verification!Report, Verification!ExitCode, Rejects, PipelineStep,
               Verification!ChecksumsResolved, Verification!ChecksumsMatch, BundleConfig, Sidecar, Fits
<1>11. CASE Verification!Hash
  BY <1>11 DEF Verification!Hash, Verification!Goto, Hashes, Going, PipelineStep,
               Verification!ChecksumsMatch, BundleConfig, Sidecar, Fits
<1>12. CASE Verification!AssertNoMutation
  BY <1>12 DEF Verification!AssertNoMutation, Verification!Goto, Verification!After, Asserts, Going,
               PipelineStep, Checks, NextCheck
<1>13. CASE Verification!Signature
  <2> DEFINE v == Verification!SignatureOf(BundleConfig, bundle.artifact)
             reads == Verification!ReadsForSignature(BundleConfig)
  <2>1. /\ Going("signature", "check_signature")
        /\ results' = [results EXCEPT !.signature = v]
        /\ read' = IF reads THEN [read EXCEPT !["signature"] = bundle.artifact] ELSE read
        /\ UNCHANGED <<initial_sha256, hash_sha256>>
    BY <1>13 DEF Verification!Signature, Verification!Goto, Going
  <2>2. bundle.sig # Absent => bundle.sig.of # Absent
    BY ContentAssumption DEF Directory, Signatures
  <2>3. v = "Verified" /\ run.policy.require_signature =>
          Keyed /\ bundle.sig.of = bundle.artifact /\ Signer \in run.allow_signers /\ reads
    BY <2>2 DEF Verification!SignatureOf, Verification!ReadsForSignature, Verification!SignerRefused,
           BundleConfig, TrustedKeys, SignerStatus, Keyed
  <2>4. Keyed /\ bundle.sig.of = bundle.artifact => v \in {"Verified", "SignerNotAllowed"}
    BY <2>2 DEF Verification!SignatureOf, BundleConfig, TrustedKeys, Keyed
  <2> HIDE DEF v, reads
  <2>5. Signs
    BY <2>1, <2>3, <2>4 DEF Signs
  <2> QED  BY <2>5 DEF PipelineStep
<1>14. CASE \/ Verification!Scan \/ Verification!InspectSample
            \/ Verification!InspectFull \/ Verification!Reputation
  <2> DEFINE moves == {<<"malware", "check_malware">>, <<"sample", "full">>,
                       <<"full", "check_inspect">>, <<"reputation", "policy">>}
  <2>1. /\ results'.signature = results.signature /\ DOMAIN results' = DOMAIN results
        /\ UNCHANGED <<initial_sha256, hash_sha256>>
    BY <1>14 DEF Verification!Scan, Verification!InspectSample, Verification!InspectFull,
                 Verification!Reputation, Verification!NoResults
  <2>2. \/ Going("malware", "check_malware") /\ read' \in {read, [read EXCEPT !["malware"] = bundle.artifact]}
        \/ Going("sample", "full") /\ read' = [read EXCEPT !["sample"] = bundle.artifact]
        \/ Going("full", "check_inspect") /\ read' = [read EXCEPT !["full"] = bundle.artifact]
        \/ Going("reputation", "policy") /\ read' = read
    BY <1>14 DEF Verification!Scan, Verification!InspectSample, Verification!InspectFull,
                 Verification!Reputation, Verification!Goto, Going
  <2>3. \E move \in moves : /\ Going(move[1], move[2])
                            /\ read' \in {read, [read EXCEPT ![move[1]] = bundle.artifact]}
    BY <2>2
  <2> QED  BY <2>1, <2>3 DEF Looks, PipelineStep
<1>15. CASE Verification!Evaluate
  BY <1>1, <1>15, OutcomeFacts DEF Verification!Evaluate, Judges, Verification!Report, Verification!ExitCode, Status, PipelineStep, NoRuleVerifies
<1> QED  BY <1>2, <1>3, <1>4, <1>5, <1>6, <1>7, <1>8, <1>9, <1>10, <1>11, <1>12, <1>13, <1>14,
            <1>15 DEF Verification!Run, PipelineStep

----------------------------------------------------------------------------
\* Types.

PipelineTypes ==
  /\ pc \in Verification!Steps
  /\ initial_sha256 \in Digest /\ hash_sha256 \in Digest
  /\ read \in [Readings -> Digest]
  /\ DOMAIN results = DOMAIN Verification!NoResults
  /\ pc # "exited" => report = Absent
  /\ ~Accepted => /\ pc \in {"locate", "exited"} /\ exit_code # 0
                  /\ initial_sha256 = Absent /\ hash_sha256 = Absent /\ report = Absent

ManifestWritten == step = "sign_manifest" => out.manifest \in Manifest

TypeInv == TypeOK /\ PipelineTypes /\ ManifestWritten

LEMMA InitTypes == Init => TypeInv
<1> SUFFICES ASSUME Init PROVE TypeInv
  OBVIOUS
<1>1. EmptyDirectory \in Directory
  BY Names DEF EmptyDirectory, Directory, FileNames, Missing, Digest, Signatures
<1>2. TypeOK
  BY <1>1, BundleAssumption DEF Init, TypeOK
<1>3. PipelineTypes
  BY DEF Init, PipelineTypes, Verification!Steps, Verification!Readers, Readings, Digest, Accepted
<1> QED  BY <1>2, <1>3 DEF TypeInv, ManifestWritten, Init

\* create touches its own directory and nothing else.
LEMMA CreationFrame ==
  Creation => /\ UNCHANGED <<bundle, changes, verifier, pipeline>>
              /\ signed \subseteq signed'
BY DEF Creation, Rebuild, Create, CopyArtifact, WriteSha256, WriteSha512, CopyKeys, SignArtifact,
       WriteManifest, SignManifest, Interrupted, WriteFile, Write

\* The steps of verify, other than those of the pipeline.
LEMMA VerifyFrame ==
  LoadBundleKeys \/ ReadManifest \/ VerifyManifest \/ (\E f \in ListedFiles : CheckFile(f)) \/ Accept
    => /\ UNCHANGED <<creator, bundle, changes, run, pipeline>>
       /\ pc # "exited"
BY DEF LoadBundleKeys, ReadManifest, VerifyManifest, CheckFile, Accept, Verifying

LEMMA PipelineFrame ==
  RunPipeline => UNCHANGED <<creator, bundle, changes, verifier>> /\ Accepted /\ pc # "exited"
BY DEF RunPipeline, Verifying, Accepted

LEMMA RunPipelineIsStep == TypeInv /\ RunPipeline => PipelineStep
BY RunIsStep DEF TypeInv, TypeOK, PipelineTypes, RunPipeline, verifier

LEMMA CreationTypes ==
  ASSUME TypeOK, ManifestWritten, Creation
  PROVE  /\ source' \in Contents /\ out' \in Directory /\ created' \subseteq [directory : Directory, job : Jobs]
         /\ signed' \subseteq [by : Keys, of : Contents]
         /\ step' \in {"idle", "copy", "sha256", "sha512", "keys", "sign", "manifest", "sign_manifest"}
         /\ job' \in Jobs /\ creations' \in 0..MaxCreations
         /\ ManifestWritten'
<1> USE DEF TypeOK, ManifestWritten
<1>0. /\ job.signing_key \in Keys \cup {Absent} /\ job.keys_dir \subseteq Keys
      /\ MaxCreations \in Nat
  BY BundleAssumption
<1>1. CASE Rebuild
  BY <1>1 DEF Rebuild
<1>2. CASE Create
  BY <1>0, <1>2 DEF Create
<1>3. CASE CopyArtifact
  BY <1>3 DEF CopyArtifact, WriteFile, Write, Directory, Digest
<1>4. CASE WriteSha256
  BY <1>4 DEF WriteSha256, WriteFile, Write, Directory
<1>5. CASE WriteSha512
  BY <1>5 DEF WriteSha512, WriteFile, Write, Directory
<1>6. CASE CopyKeys
  BY <1>0, <1>6 DEF CopyKeys, WriteFile, Write, Directory
<1>7. CASE SignArtifact
  BY <1>0, <1>7 DEF SignArtifact, Write, Directory, Signatures
<1>8. CASE WriteManifest
  <2> DEFINE m == [f \in ListedFiles \cup {"created_at"} |-> IF f = "created_at" THEN creations ELSE out[f]]
  <2>1. m \in Manifest
    BY Names DEF Manifest, Directory
  <2>2. out' = [out EXCEPT !["manifest"] = m]
    BY <1>8 DEF WriteManifest, WriteFile, Write
  <2> HIDE DEF m
  <2>3. out' \in Directory
    BY <2>1, <2>2 DEF Directory
  <2>4. out'.manifest \in Manifest
    BY <2>1, <2>2 DEF Directory
  <2> QED  BY <1>8, <2>3, <2>4 DEF WriteManifest, WriteFile, Write
<1>9. CASE SignManifest
  BY <1>0, <1>9 DEF SignManifest, Directory
<1>10. CASE Interrupted
  BY <1>10 DEF Interrupted
<1> QED  BY <1>1, <1>2, <1>3, <1>4, <1>5, <1>6, <1>7, <1>8, <1>9, <1>10 DEF Creation

LEMMA PipelineStepTypes ==
  ASSUME TypeInv, PipelineStep, Accepted', pc # "exited"
  PROVE  PipelineTypes' /\ ((pc = "exited") <=> (exit_code # -1))'
<1>0. PipelineTypes /\ exit_code = -1
  BY DEF TypeInv, TypeOK
<1>1. bundle.artifact \in Digest
  BY DEF TypeInv, TypeOK, Directory
<1> USE <1>0 DEF PipelineTypes, Readings, Digest, Going, Verification!Steps
<1>2. CASE Halts
  BY <1>2 DEF Halts
<1>3. CASE Rejects
  BY <1>3 DEF Rejects
<1>4. CASE Starts \/ Acquires \/ Hashes
  BY <1>1, <1>4 DEF Starts, Acquires, Hashes
<1>5. CASE Asserts
  BY <1>5 DEF Asserts, Checks, NextCheck
<1>6. CASE Signs
  BY <1>1, <1>6 DEF Signs
<1>7. CASE Looks
  BY <1>1, <1>7 DEF Looks
<1>8. CASE Judges
  BY <1>8 DEF Judges
<1> QED  BY <1>2, <1>3, <1>4, <1>5, <1>6, <1>7, <1>8 DEF PipelineStep

LEMMA TypeStep == ASSUME TypeInv, [Next]_vars PROVE TypeInv'
<1> USE DEF creator, verifier, pipeline
<1>1. CASE Creation
  BY <1>1, CreationTypes, CreationFrame DEF TypeInv, TypeOK, PipelineTypes, Accepted
<1>2. CASE Carry
  BY <1>2 DEF Carry, TypeInv, TypeOK, PipelineTypes, Accepted, ManifestWritten
<1>3. CASE Change
  <2>0. DOMAIN bundle = FileNames
    BY DirectoryDomain DEF TypeInv, TypeOK
  <2>1. \E f \in FileNames : \E v \in {Missing(f), out[f]} : bundle' = [bundle EXCEPT ![f] = v]
    BY <1>3, <2>0 DEF Change
  <2>2. bundle' \in Directory
    <3>1. bundle \in Directory /\ out \in Directory
      BY DEF TypeInv, TypeOK
    <3>2. \A f \in FileNames : /\ [bundle EXCEPT ![f] = out[f]] \in Directory
                               /\ [bundle EXCEPT ![f] = Missing(f)] \in Directory
      BY <3>1, FileWritten
    <3> QED  BY <2>1, <3>2
  <2>3. changes' \in 0..MaxChanges
    BY <1>3, BundleAssumption DEF Change, TypeInv, TypeOK
  <2> QED  BY <1>3, <2>2, <2>3 DEF Change, TypeInv, TypeOK, PipelineTypes, Accepted, ManifestWritten
<1>4. CASE LoadBundleKeys
  <2>1. bundle.trusted_keys \subseteq Keys
    BY DEF TypeInv, TypeOK, Directory
  <2> QED  BY <1>4, <2>1 DEF LoadBundleKeys, Verifying, TypeInv, TypeOK, PipelineTypes, Accepted, ManifestWritten
<1>5. CASE ReadManifest
  <2>1. bundle.manifest \in Manifest \cup {Absent}
    BY DEF TypeInv, TypeOK, Directory
  <2> QED  BY <1>5, <2>1 DEF ReadManifest, Verifying, TypeInv, TypeOK, PipelineTypes, Accepted, ManifestWritten
<1>6. CASE VerifyManifest \/ (\E f \in ListedFiles : CheckFile(f)) \/ Accept
  BY <1>6 DEF VerifyManifest, CheckFile, Accept, Verifying, TypeInv, TypeOK, PipelineTypes, Accepted, ManifestWritten
<1>7. CASE VerifyFails
  <2>1. pc # "exited" /\ ~Accepted
    BY <1>7 DEF VerifyFails, Verifying, Accepted
  <2> QED  BY <1>7, <2>1 DEF VerifyFails, Refuse, TypeInv, TypeOK, PipelineTypes, Accepted, ManifestWritten,
             ToolError, Verification!Steps
<1>8. CASE RunPipeline
  BY <1>8, PipelineFrame, RunPipelineIsStep, PipelineStepTypes DEF TypeInv, TypeOK, Accepted, ManifestWritten
<1>9. CASE UNCHANGED vars
  BY <1>9 DEF vars, TypeInv, TypeOK, PipelineTypes, Accepted, ManifestWritten
<1> QED  BY <1>1, <1>2, <1>3, <1>4, <1>5, <1>6, <1>7, <1>8, <1>9 DEF Next, Verify

----------------------------------------------------------------------------
\* What create leaves behind.

\* A manifest lists the artifact and both of its checksums.
Describes(m) == m.artifact # Absent /\ m.sha256 = m.artifact /\ m.sha512 = m.artifact

\* The manifest lists the directory as it is, and is signed with the artifact's key.
Sealed(d) == /\ d.manifest # Absent /\ Describes(d.manifest)
             /\ \A f \in ListedFiles : d.manifest[f] = d[f]
             /\ d.sig # Absent /\ d.manifest_sig # Absent
             /\ d.manifest_sig.of = d.manifest
             /\ d.manifest_sig.by = d.sig.by

\* A signed manifest is that of a bundle create reported.
Original(d) == d.manifest_sig # Absent =>
                 \E c \in created : Sealed(c.directory) /\ c.directory.manifest_sig = d.manifest_sig

Written ==
  /\ step \notin {"idle", "copy"} => out.artifact # Absent
  /\ step \in {"sha512", "keys", "sign", "manifest", "sign_manifest"} => out.sha256 = out.artifact
  /\ step \in {"keys", "sign", "manifest", "sign_manifest"} => out.sha512 = out.artifact
  /\ step \in {"sign", "manifest", "sign_manifest"} => job.keys_dir \subseteq out.trusted_keys
  /\ step \in {"manifest", "sign_manifest"} /\ job.signing_key # Absent =>
       out.sig # Absent /\ out.sig.by = job.signing_key
  /\ step = "sign_manifest" => /\ out.manifest # Absent
                               /\ \A f \in ListedFiles : out.manifest[f] = out[f]

CreateInv ==
  /\ Written
  /\ out.sig \in signed \cup {Absent}
  /\ out.manifest # Absent => Describes(out.manifest)
  /\ Original(out)
  /\ \A c \in created : c.job.signing_key # Absent =>
       /\ Sealed(c.directory) /\ c.directory.sig.by = c.job.signing_key
       /\ c.job.keys_dir \subseteq c.directory.trusted_keys

LEMMA InitCreate == Init => CreateInv
BY DEF Init, CreateInv, Written, Original, EmptyDirectory, Missing, ListedFiles, Place

\* Every step of create keeps what the next ones rely on.
LEMMA CreationStep == ASSUME TypeInv, CreateInv, Creation PROVE CreateInv'
<1>0. /\ out \in Directory /\ DOMAIN out = FileNames /\ source \in Contents /\ Absent \notin Contents
      /\ job.signing_key \in Keys \cup {Absent} /\ job.keys_dir \subseteq Keys
  BY DirectoryDomain, BundleAssumption, ContentAssumption DEF TypeInv, TypeOK
<1>1. CASE Rebuild
  BY <1>1 DEF Rebuild, CreateInv, Written, Original
<1>2. CASE Create
  BY <1>2 DEF Create, CreateInv, Written, Original
<1>3. CASE CopyArtifact
  BY <1>0, <1>3 DEF CopyArtifact, WriteFile, Write, CreateInv, Written, Original, FileNames
<1>4. CASE WriteSha256
  BY <1>0, <1>4 DEF WriteSha256, WriteFile, Write, CreateInv, Written, Original, FileNames
<1>5. CASE WriteSha512
  BY <1>0, <1>5 DEF WriteSha512, WriteFile, Write, CreateInv, Written, Original, FileNames
<1>6. CASE CopyKeys
  BY <1>0, <1>6 DEF CopyKeys, WriteFile, Write, CreateInv, Written, Original, FileNames
<1>7. CASE SignArtifact
  BY <1>0, <1>7, FilesAssumption DEF SignArtifact, Write, CreateInv, Written, Original, FileNames
<1>8. CASE WriteManifest
  <2> DEFINE m == [f \in ListedFiles \cup {"created_at"} |-> IF f = "created_at" THEN creations ELSE out[f]]
  <2>1. /\ step = "manifest" /\ step' = "sign_manifest" /\ out' = [out EXCEPT !["manifest"] = m]
        /\ UNCHANGED <<job, created, signed>>
    BY <1>8 DEF WriteManifest, WriteFile, Write
  <2>2. \A f \in ListedFiles : m[f] = out[f]
    BY Names
  <2>3. Describes(m)
    BY <2>1, <2>2, Names DEF Describes, CreateInv, Written
  <2>4. out'.manifest \in Manifest
    BY <1>8, CreationTypes DEF TypeInv, WriteManifest, WriteFile, Write, Creation, ManifestWritten
  <2> HIDE DEF m
  <2>5. out'.manifest = m /\ \A f \in FileNames \ {"manifest"} : out'[f] = out[f]
    BY <1>0, <2>1 DEF FileNames
  <2>6. Written'
    BY <2>1, <2>2, <2>4, <2>5, Names, FilesAssumption DEF CreateInv, Written, FileNames
  <2> QED  BY <2>1, <2>3, <2>5, <2>6 DEF CreateInv, Original, FileNames
<1>9. CASE SignManifest
  <2>1. /\ step = "sign_manifest" /\ step' = "idle" /\ UNCHANGED <<job, signed>>
        /\ created' = created \cup {[directory |-> out', job |-> job]}
    BY <1>9 DEF SignManifest
  <2>2. Written'
    BY <2>1 DEF Written
  <2>3. \A f \in FileNames \ {"manifest_sig"} : out'[f] = out[f]
    BY <1>0, <1>9 DEF SignManifest, FileNames
  <2>4. CASE job.signing_key = Absent
    BY <1>9, <2>1, <2>2, <2>4 DEF SignManifest, CreateInv, Original
  <2>5. CASE job.signing_key # Absent
    <3>1. out'.manifest_sig = [by |-> job.signing_key, of |-> out.manifest]
      BY <1>0, <1>9, <2>5 DEF SignManifest, FileNames
    <3>2. out'.manifest_sig # Absent
      BY <1>0, <2>1, <2>5, <3>1, FilesAssumption DEF TypeInv, ManifestWritten
    <3>3. Sealed(out') /\ out'.sig.by = job.signing_key /\ job.keys_dir \subseteq out'.trusted_keys
      BY <2>1, <2>3, <2>5, <3>1, <3>2, Names DEF Sealed, CreateInv, Written, FileNames
    <3>4. Original(out)'
      <4> DEFINE c == [directory |-> out', job |-> job]
      <4>1. c \in created' /\ c.directory = out'
        BY <2>1
      <4> HIDE DEF c
      <4> QED  BY <3>3, <4>1 DEF Original
    <3> QED  BY <2>1, <2>2, <2>3, <3>3, <3>4 DEF CreateInv, FileNames
  <2> QED  BY <2>4, <2>5
<1>10. CASE Interrupted
  BY <1>10 DEF Interrupted, CreateInv, Written, Original
<1> QED  BY <1>1, <1>2, <1>3, <1>4, <1>5, <1>6, <1>7, <1>8, <1>9, <1>10 DEF Creation

LEMMA CreateInvStep == ASSUME TypeInv, CreateInv, [Next]_vars PROVE CreateInv'
<1>1. CASE Creation
  BY <1>1, CreationStep
<1>2. CASE ~Creation
  <2>1. UNCHANGED creator
    BY <1>2, VerifyFrame, PipelineFrame DEF Next, Verify, Carry, Change, VerifyFails, Refuse, vars
  <2> QED  BY <2>1 DEF creator, CreateInv, Written, Original
<1> QED  BY <1>1, <1>2

----------------------------------------------------------------------------
\* What verify knows of the copy.

CopyInv ==
  /\ bundle.sig \in signed \cup {Absent}
  /\ bundle.manifest # Absent => Describes(bundle.manifest)
  /\ changes = 0 => Original(bundle)

\* Whether a file was found as listed and is no longer.
Lost(f) == IF f \notin todo /\ bundle[f] # listed[f] THEN 1 ELSE 0

\* Nothing happened to the copy since verify looked at it.
Unchanged ==
  /\ verify_step \notin {"waiting", "keys"} => certs = bundle.trusted_keys
  /\ verify_step \in {"manifest_sig", "files", "pipeline"} => listed = bundle.manifest
  /\ verify_step \in {"files", "pipeline"} =>
       /\ bundle.manifest_sig # Absent /\ bundle.manifest_sig.of = listed
       /\ \A f \in ListedFiles \ todo : listed[f] = Missing(f) \/ AsListed(f)

VerifyInv ==
  /\ verify_step \in {"manifest_sig", "files", "pipeline"} => listed # Absent /\ Describes(listed)
  /\ verify_step \in {"files", "pipeline"} => Lost("artifact") + Lost("sha256") + Lost("sha512") <= changes
  /\ Accepted => todo = {}
  /\ changes = 0 => Unchanged

LEMMA InitVerify == Init => CopyInv /\ VerifyInv
BY DEF Init, CopyInv, VerifyInv, Unchanged, Original, EmptyDirectory, Missing, ListedFiles, Place, Accepted

LEMMA CopyStep == ASSUME TypeInv, CreateInv, CopyInv, [Next]_vars PROVE CopyInv'
<1>0. changes \in Nat
  BY BundleAssumption DEF TypeInv, TypeOK
<1>1. CASE Creation
  <2>1. created \subseteq created'
    BY <1>1 DEF Creation, Rebuild, Create, CopyArtifact, WriteSha256, WriteSha512, CopyKeys, SignArtifact,
                WriteManifest, SignManifest, Interrupted, WriteFile, Write
  <2> QED  BY <1>1, <2>1, CreationFrame DEF CopyInv, Original
<1>2. CASE Carry
  BY <1>2 DEF Carry, CreateInv, CopyInv, Original, creator
<1>3. CASE Change
  <2>1. DOMAIN bundle = FileNames /\ DOMAIN out = FileNames
    BY DirectoryDomain DEF TypeInv, TypeOK
  <2>2. \A f \in FileNames : bundle'[f] \in {bundle[f], Missing(f), out[f]}
    BY <1>3, <2>1 DEF Change
  <2>3. changes' # 0 /\ signed' = signed
    BY <1>0, <1>3 DEF Change, creator
  <2> QED  BY <2>2, <2>3 DEF CopyInv, CreateInv, FileNames, Missing
<1>4. CASE UNCHANGED <<creator, bundle, changes>>
  BY <1>4 DEF CopyInv, Original, creator
<1> QED  BY <1>1, <1>2, <1>3, <1>4, VerifyFrame, PipelineFrame DEF Next, Verify, VerifyFails, Refuse, vars

LEMMA VerifyInvStep == ASSUME TypeInv, CopyInv, VerifyInv, [Next]_vars PROVE VerifyInv'
<1>0. /\ changes \in Nat /\ \A f : Lost(f) \in {0, 1}
      /\ DOMAIN bundle = FileNames /\ todo \subseteq ListedFiles
  BY BundleAssumption, DirectoryDomain DEF TypeInv, TypeOK, Lost
<1>1. CASE UNCHANGED <<bundle, changes, verifier>>
  BY <1>1 DEF verifier, VerifyInv, Unchanged, Lost, Accepted, AsListed
<1>2. CASE Carry
  BY <1>2 DEF Carry, VerifyInv, Unchanged, Accepted
<1>3. CASE Change
  <2>1. \E f \in FileNames : \A g \in FileNames \ {f} : bundle'[g] = bundle[g]
    BY <1>0, <1>3 DEF Change
  <2>2. changes' = changes + 1 /\ UNCHANGED verifier
    BY <1>3 DEF Change
  <2>3. \A f : Lost(f)' \in {0, 1} /\ (bundle'[f] = bundle[f] => Lost(f)' = Lost(f))
    BY <2>2 DEF Lost, verifier
  <2>4. Lost("artifact")' + Lost("sha256")' + Lost("sha512")'
          <= Lost("artifact") + Lost("sha256") + Lost("sha512") + 1
    BY <1>0, <2>1, <2>3 DEF FileNames
  <2> QED  BY <1>0, <2>2, <2>3, <2>4 DEF VerifyInv, verifier, Accepted
<1>4. CASE LoadBundleKeys
  BY <1>4 DEF LoadBundleKeys, Verifying, VerifyInv, Unchanged, Accepted
<1>5. CASE ReadManifest
  BY <1>5 DEF ReadManifest, Verifying, VerifyInv, Unchanged, Accepted, CopyInv
<1>6. CASE VerifyManifest
  <2>1. /\ verify_step = "manifest_sig" /\ verify_step' = "files" /\ ManifestSigned
        /\ todo' = {f \in ListedFiles : listed[f] # Missing(f)}
        /\ UNCHANGED <<bundle, changes, certs, listed>>
    BY <1>6 DEF VerifyManifest, Verifying
  <2>2. {"artifact", "sha256", "sha512"} \subseteq todo'
    BY <2>1, Names DEF VerifyInv, Describes, Missing
  <2>3. Lost("artifact")' = 0 /\ Lost("sha256")' = 0 /\ Lost("sha512")' = 0
    BY <2>2 DEF Lost
  <2> QED  BY <1>0, <2>1, <2>3 DEF VerifyInv, Unchanged, Accepted, ManifestSigned
<1>7. ASSUME NEW f \in ListedFiles, CheckFile(f) PROVE VerifyInv'
  <2>1. /\ verify_step = "files" /\ AsListed(f) /\ todo' = todo \ {f}
        /\ UNCHANGED <<bundle, changes, verify_step, certs, listed>>
    BY <1>7 DEF CheckFile, Verifying
  <2>2. \A g \in {"artifact", "sha256", "sha512"} : Lost(g)' = Lost(g)
    BY <2>1 DEF Lost, AsListed
  <2>3. Unchanged => Unchanged'
    BY <2>1 DEF Unchanged, AsListed
  <2> QED  BY <1>0, <2>1, <2>2, <2>3 DEF VerifyInv, Accepted
<1>8. CASE Accept
  BY <1>8 DEF Accept, Verifying, VerifyInv, Unchanged, Accepted, Lost, AsListed
<1> QED  BY <1>1, <1>2, <1>3, <1>4, <1>5, <1>6, <1>7, <1>8, CreationFrame, PipelineFrame
         DEF Next, Verify, VerifyFails, Refuse, vars

----------------------------------------------------------------------------
\* The pipeline on a copy that changes.

\* Everything taken from the artifact so far is the acquired content.
Settled == /\ hash_sha256 \in {Absent, initial_sha256}
           /\ \A s \in Readings : read[s] \in {Absent, initial_sha256}

\* The acquired content is gone for good: create's directory does not have it.
Gone == initial_sha256 # out.artifact /\ bundle.artifact # initial_sha256

Unacquired == pc \in {"locate", "acquire"}
Unhashed   == Unacquired \/ pc = "hash"
Unsigned   == Unhashed \/ pc \in {"check_hash", "signature"}

Coherent ==
  /\ Unacquired => initial_sha256 = Absent
  /\ Unhashed => hash_sha256 = Absent /\ read = [s \in Readings |-> Absent]
  /\ ~Unacquired /\ pc # "exited" => initial_sha256 # Absent
  /\ ~Unhashed /\ pc # "exited" => hash_sha256 # Absent
  /\ initial_sha256 # Absent => bundle.artifact \in {initial_sha256, Absent, out.artifact}
  /\ pc # "exited" => Settled \/ Gone
  /\ pc \in {"reputation", "policy"} \/ exit_code = 0 => Settled /\ hash_sha256 # Absent

LEMMA InitCoherent == Init => Coherent
BY DEF Init, Coherent, Unacquired, Unhashed, Settled, Readings, Verification!Readers

LEMMA CoherentStep == ASSUME TypeInv, Coherent, [Next]_vars PROVE Coherent'
<1> USE DEF Unacquired, Unhashed
<1>1. CASE UNCHANGED <<out, bundle, pipeline>>
  BY <1>1 DEF pipeline, Coherent, Settled, Gone
<1>2. CASE (Creating /\ Creation) \/ Carry
  <2>1. UNCHANGED pipeline /\ initial_sha256 = Absent
    BY <1>2, CreationFrame DEF Creating, Carry, TypeInv, PipelineTypes, Accepted
  <2>2. pc \in {"locate", "exited"} /\ exit_code # 0
    BY <1>2 DEF Creating, Carry, TypeInv, PipelineTypes, Accepted
  <2> QED  BY <2>1, <2>2 DEF pipeline, Coherent, Settled
<1>3. CASE Change
  <2>1. DOMAIN bundle = FileNames
    BY DirectoryDomain DEF TypeInv, TypeOK
  <2>2. bundle'.artifact \in {bundle.artifact, Absent, out.artifact}
    BY <1>3, <2>1 DEF Change, FileNames, Missing
  <2>3. UNCHANGED pipeline /\ out' = out /\ pc # "exited"
    BY <1>3 DEF Change, creator
  <2> QED  BY <2>2, <2>3 DEF pipeline, Coherent, Settled, Gone
<1>4. CASE VerifyFails
  <2>1. /\ pc' = "exited" /\ exit_code' = 99 /\ UNCHANGED <<out, bundle, initial_sha256, hash_sha256, read>>
        /\ initial_sha256 = Absent
    BY <1>4 DEF VerifyFails, Refuse, Verifying, creator, TypeInv, PipelineTypes, Accepted, ToolError
  <2> QED  BY <2>1 DEF Coherent
<1>5. CASE RunPipeline
  <2>0. /\ UNCHANGED <<out, bundle>> /\ pc # "exited" /\ exit_code = -1
        /\ read \in [Readings -> Digest] /\ DOMAIN NextCheck = Checks
    BY <1>5, PipelineFrame DEF creator, TypeInv, TypeOK, PipelineTypes, NextCheck, Checks
  <2> USE <2>0 DEF Coherent, Settled, Gone, Going, Readings
  <2>1. CASE Halts
    BY <2>1 DEF Halts
  <2>2. CASE Rejects
    BY <2>2 DEF Rejects
  <2>3. CASE Starts
    BY <2>3 DEF Starts
  <2>4. CASE Acquires
    BY <2>4 DEF Acquires
  <2>5. CASE Hashes
    BY <2>5 DEF Hashes
  <2>6. CASE Asserts
    BY <2>6 DEF Asserts, Checks, NextCheck
  <2>7. CASE Signs
    BY <2>7 DEF Signs
  <2>8. CASE Looks
    BY <2>8 DEF Looks
  <2>9. CASE Judges
    BY <2>9 DEF Judges
  <2> QED  BY <1>5, RunPipelineIsStep, <2>1, <2>2, <2>3, <2>4, <2>5, <2>6, <2>7, <2>8, <2>9 DEF PipelineStep
<1> QED  BY <1>1, <1>2, <1>3, <1>4, <1>5, VerifyFrame DEF Next, Verify, vars, creator

\* VERIFIED stands for a signature that was made for what the signature stage read.
SignedInv ==
  /\ results.signature = "Verified" /\ run.policy.require_signature =>
       \E k \in run.allow_signers : [by |-> k, of |-> read["signature"]] \in signed
  /\ exit_code = 0 /\ NoRuleVerifies /\ run.policy.require_signature => results.signature = "Verified"

\* The artifact is judged as listed, unless it and both of its checksums were changed.
ListedInv == hash_sha256 # Absent => hash_sha256 = listed.artifact \/ changes >= 3

LEMMA InitSigned == Init => SignedInv /\ ListedInv
<1> SUFFICES ASSUME Init PROVE SignedInv /\ ListedInv
  OBVIOUS
<1>1. results = Verification!NoResults /\ exit_code = -1 /\ hash_sha256 = Absent
  BY DEF Init
<1>2. results.signature # "Verified"
  BY <1>1 DEF Verification!NoResults
<1> QED  BY <1>1, <1>2 DEF SignedInv, ListedInv

LEMMA SignedStep ==
  ASSUME TypeInv, CopyInv, Coherent, SignedInv, [Next]_vars PROVE SignedInv'
<1>1. run' = run /\ signed \subseteq signed'
  BY CreationFrame, VerifyFrame, PipelineFrame
     DEF Next, Verify, Carry, Change, VerifyFails, Refuse, vars, creator, verifier
<1>2. CASE UNCHANGED <<results, read, exit_code>>
  BY <1>1, <1>2 DEF SignedInv
<1>3. CASE VerifyFails
  BY <1>1, <1>3 DEF VerifyFails, Refuse, SignedInv, ToolError
<1>4. CASE RunPipeline
  <2>0. /\ pc # "exited" /\ exit_code = -1 /\ UNCHANGED <<run, signed, bundle>>
        /\ read \in [Readings -> Digest] /\ "signature" \in DOMAIN results
    BY <1>4, PipelineFrame DEF creator, verifier, TypeInv, TypeOK, PipelineTypes, Verification!NoResults
  <2> USE <2>0 DEF Going, SignedInv
  <2>1. CASE Halts \/ Rejects \/ Starts \/ Acquires \/ Hashes \/ Asserts
    BY <2>1 DEF Halts, Rejects, Starts, Acquires, Hashes, Asserts
  <2>2. CASE Signs
    <3>1. results'.signature = "Verified" /\ run.policy.require_signature =>
            /\ bundle.sig # Absent /\ bundle.sig.by \in run.allow_signers
            /\ read'["signature"] = bundle.sig.of
      BY <2>2 DEF Signs, Keyed, Signer, Readings
    <3>2. bundle.sig # Absent => /\ bundle.sig \in signed
                                 /\ bundle.sig = [by |-> bundle.sig.by, of |-> bundle.sig.of]
      BY DEF CopyInv, TypeInv, TypeOK
    <3>3. exit_code' = -1
      BY <2>2 DEF Signs
    <3> QED  BY <3>1, <3>2, <3>3
  <2>3. CASE Looks
    <3>1. read'["signature"] = read["signature"] /\ results'.signature = results.signature /\ exit_code' = -1
      BY <2>3 DEF Looks, Readings
    <3> QED  BY <3>1
  <2>4. CASE Judges
    BY <2>4 DEF Judges
  <2> QED  BY <1>4, RunPipelineIsStep, <2>1, <2>2, <2>3, <2>4 DEF PipelineStep
<1> QED  BY <1>2, <1>3, <1>4, CreationFrame, VerifyFrame
         DEF Next, Verify, Carry, Change, vars, pipeline

LEMMA ListedStep ==
  ASSUME TypeInv, VerifyInv, ListedInv, [Next]_vars PROVE ListedInv'
<1>0. changes \in Nat
  BY BundleAssumption DEF TypeInv, TypeOK
<1>1. CASE RunPipeline /\ Hashes
  <2>1. /\ hash_sha256' = bundle.artifact /\ bundle.artifact # Absent /\ Fits("sha256") /\ Fits("sha512")
        /\ todo = {} /\ UNCHANGED <<listed, changes>>
        /\ listed.artifact # Absent /\ listed.sha256 = listed.artifact /\ listed.sha512 = listed.artifact
        /\ Lost("artifact") + Lost("sha256") + Lost("sha512") <= changes
    BY <1>1, PipelineFrame DEF Hashes, VerifyInv, Accepted, Describes, verifier
  <2> QED  BY <1>0, <2>1 DEF ListedInv, Lost, Fits
<1>2. CASE RunPipeline /\ ~Hashes
  BY <1>2, RunPipelineIsStep, PipelineFrame
     DEF PipelineStep, Halts, Rejects, Starts, Acquires, Asserts, Signs, Looks, Judges, ListedInv, verifier
<1>3. CASE Change
  BY <1>0, <1>3 DEF Change, ListedInv, verifier, pipeline
<1>4. CASE ReadManifest
  BY <1>4 DEF ReadManifest, Verifying, ListedInv, pipeline, TypeInv, PipelineTypes, Accepted
<1>5. CASE UNCHANGED <<listed, changes, hash_sha256>>
  BY <1>5 DEF ListedInv
<1>6. CASE Creation \/ Carry \/ LoadBundleKeys \/ VerifyManifest \/ (\E f \in ListedFiles : CheckFile(f))
           \/ Accept \/ VerifyFails
  BY <1>5, <1>6, CreationFrame
     DEF Carry, LoadBundleKeys, VerifyManifest, CheckFile, Accept, VerifyFails, Refuse, verifier, pipeline
<1> QED  BY <1>1, <1>2, <1>3, <1>4, <1>5, <1>6 DEF Next, Verify, vars, verifier, pipeline

----------------------------------------------------------------------------
\* A bundle that is whole, on a copy that nothing changes.

Whole(d) == Sealed(d) /\ d.sig.by \in d.trusted_keys

Faultless ==
  /\ exit_code # 99
  /\ initial_sha256 \in {Absent, bundle.artifact}
  /\ bundle.sig.of = bundle.artifact /\ ~Unsigned => results.signature \in {"Verified", "SignerNotAllowed"}

WholeInv == /\ verify_step = "waiting" => pc = "locate"
            /\ changes = 0 /\ Whole(bundle) => Faultless

LEMMA InitWhole == Init => WholeInv
BY DEF Init, WholeInv, Faultless, Unsigned, Unhashed, Unacquired

LEMMA WholeStep ==
  ASSUME TypeInv, VerifyInv, Coherent, WholeInv, [Next]_vars PROVE WholeInv'
<1>0. changes \in Nat
  BY BundleAssumption DEF TypeInv, TypeOK
<1>1. CASE UNCHANGED <<bundle, changes, pipeline>> /\ (verify_step' = "waiting" => verify_step = "waiting")
  BY <1>1 DEF pipeline, WholeInv, Faultless, Unsigned, Unhashed, Unacquired
<1>2. CASE Carry
  <2>1. pc' = "locate" /\ exit_code' = -1 /\ initial_sha256' = Absent /\ verify_step' = "keys"
    BY <1>2 DEF Carry, WholeInv, TypeInv, TypeOK, PipelineTypes, Accepted, pipeline
  <2> QED  BY <2>1 DEF WholeInv, Faultless, Unsigned, Unhashed, Unacquired
<1>3. CASE Change
  BY <1>0, <1>3 DEF Change, WholeInv, verifier
<1>4. CASE VerifyFails
  <2>1. ASSUME changes = 0, Whole(bundle) PROVE FALSE
    <3>1. /\ bundle.manifest # Absent /\ bundle.manifest_sig # Absent /\ bundle.artifact # Absent
          /\ \A f \in ListedFiles : bundle.manifest[f] = bundle[f]
          /\ bundle.manifest_sig.of = bundle.manifest /\ bundle.manifest_sig.by \in bundle.trusted_keys
      BY <2>1, Names DEF Whole, Sealed, Describes
    <3>2. Unchanged /\ todo \subseteq ListedFiles
      BY <2>1 DEF VerifyInv, TypeInv, TypeOK
    <3>3. verify_step = "files" => \A f \in todo : AsListed(f)
      BY <3>1, <3>2 DEF Unchanged, AsListed
    <3> QED  BY <1>4, <3>1, <3>2, <3>3 DEF VerifyFails, Verifying, Loadable, ManifestSigned, Unchanged
  <2>2. bundle' = bundle /\ changes' = changes /\ verify_step' # "waiting"
    BY <1>4 DEF VerifyFails, Refuse, verifier, Verifying
  <2> QED  BY <2>1, <2>2 DEF WholeInv
<1>5. CASE RunPipeline
  <2>0. /\ UNCHANGED <<bundle, changes, verify_step>> /\ pc # "exited" /\ exit_code = -1
        /\ verify_step = "pipeline" /\ "signature" \in DOMAIN results
        /\ DOMAIN NextCheck = Checks
    BY <1>5, PipelineFrame
       DEF verifier, Accepted, TypeInv, TypeOK, PipelineTypes, Verification!NoResults, NextCheck, Checks
  <2>1. SUFFICES ASSUME changes = 0, Whole(bundle) PROVE Faultless'
    BY <2>0 DEF WholeInv
  <2>2. /\ bundle.artifact # Absent /\ bundle.sha256 = bundle.artifact /\ bundle.sha512 = bundle.artifact
        /\ bundle.sig # Absent /\ bundle.sig.by \in bundle.trusted_keys
    BY <2>1, Names DEF Whole, Sealed, Describes
  <2> USE <2>0, <2>2 DEF Going, Faultless, Unsigned, Unhashed, Unacquired
  <2>3. Faultless
    BY <2>1 DEF WholeInv
  <2>4. CASE Halts
    BY <2>3, <2>4 DEF Halts, Checks, Coherent
  <2>5. CASE Rejects
    BY <2>5 DEF Rejects, Fits
  <2>6. CASE Starts \/ Acquires \/ Hashes
    BY <2>3, <2>6 DEF Starts, Acquires, Hashes
  <2>7. CASE Asserts
    BY <2>3, <2>7 DEF Asserts, Checks, NextCheck
  <2>8. CASE Signs
    BY <2>3, <2>8 DEF Signs, Keyed, Signer
  <2>9. CASE Looks
    BY <2>3, <2>9 DEF Looks
  <2>10. CASE Judges
    BY <2>3, <2>10 DEF Judges
  <2> QED  BY <1>5, RunPipelineIsStep, <2>4, <2>5, <2>6, <2>7, <2>8, <2>9, <2>10 DEF PipelineStep
<1> QED  BY <1>1, <1>2, <1>3, <1>4, <1>5, CreationFrame, VerifyFrame
         DEF Next, Verify, vars, verifier, LoadBundleKeys, ReadManifest, VerifyManifest, CheckFile, Accept

----------------------------------------------------------------------------
IInv == TypeInv /\ CreateInv /\ CopyInv /\ VerifyInv /\ Coherent /\ SignedInv /\ ListedInv /\ WholeInv

LEMMA Invariance == Spec => []IInv
<1>1. Init => IInv
  BY InitTypes, InitCreate, InitVerify, InitCoherent, InitSigned, InitWhole DEF IInv
<1>2. IInv /\ [Next]_vars => IInv'
  BY TypeStep, CreateInvStep, CopyStep, VerifyInvStep, CoherentStep, SignedStep, ListedStep, WholeStep
     DEF IInv
<1> QED  BY <1>1, <1>2, PTL DEF Spec

\* Every variable of create, of the copy and of verify keeps its type, and a verification
\* has ended exactly when it has an exit code.
THEOREM TypeCorrect == Spec => []TypeOK
<1>1. IInv => TypeOK
  BY DEF IInv, TypeInv
<1> QED  BY <1>1, Invariance, PTL

\* verify accepts an unchanged copy only if one create wrote and reported all of it but
\* keys, however often create was interrupted or called with another key.
THEOREM AcceptedIsReported == Spec => []AcceptedIsOneCreation
<1>1. IInv => AcceptedIsOneCreation
  <2> SUFFICES ASSUME IInv, Accepted, changes = 0
               PROVE  \E c \in created : \A f \in DOMAIN bundle \ {"trusted_keys"} : c.directory[f] = bundle[f]
    BY DEF AcceptedIsOneCreation
  <2>1. Unchanged /\ todo = {} /\ Original(bundle) /\ Accepted
    BY DEF IInv, VerifyInv, CopyInv
  <2>2. PICK c \in created : Sealed(c.directory) /\ c.directory.manifest_sig = bundle.manifest_sig
    BY <2>1 DEF Unchanged, Original, Accepted
  <2>3. /\ bundle.manifest = listed /\ bundle.manifest_sig.of = listed
        /\ \A f \in ListedFiles : listed[f] = Missing(f) \/ AsListed(f)
    BY <2>1 DEF Unchanged, Accepted
  <2>4. /\ c.directory.manifest = listed
        /\ \A f \in ListedFiles : listed[f] = c.directory[f]
        /\ Describes(listed) /\ c.directory.sig # Absent
    BY <2>2, <2>3 DEF Sealed
  <2>5. \A f \in {"artifact", "sha256", "sha512", "sig"} : listed[f] # Missing(f)
    BY <2>4, Names DEF Describes, Missing
  <2>6. \A f \in {"artifact", "sha256", "sha512", "sig"} : c.directory[f] = bundle[f]
    BY <2>3, <2>4, <2>5, Names DEF AsListed
  <2>7. DOMAIN bundle = FileNames
    BY DirectoryDomain DEF IInv, TypeInv, TypeOK
  <2> QED  BY <2>2, <2>3, <2>4, <2>6, <2>7 DEF FileNames
<1> QED  BY <1>1, Invariance, PTL

\* No two changes to the copy, at whatever moments, make the pipeline judge an artifact
\* that the signed manifest does not list, with or without required checksums.
THEOREM JudgedAlwaysListed == Spec => []JudgedIsListed
<1>1. IInv => JudgedIsListed
  <2>1. TypeInv => changes \in Nat
    BY BundleAssumption DEF TypeInv, TypeOK
  <2> QED  BY <2>1 DEF IInv, ListedInv, JudgedIsListed, Verification!Judged
<1> QED  BY <1>1, Invariance, PTL

\* Where signatures are required and no rule answers VERIFIED, a verified content was
\* signed with a key of allow_signers, for any number of changes to the copy.
THEOREM VerifiedAlwaysSigned == ASSUME NoRuleVerifies PROVE Spec => []VerifiedIsSigned
<1>1. IInv => VerifiedIsSigned
  <2> SUFFICES ASSUME IInv, exit_code = 0, run.policy.require_signature
               PROVE  \E k \in run.allow_signers : [by |-> k, of |-> hash_sha256] \in signed
    BY DEF VerifiedIsSigned
  <2>1. Settled /\ hash_sha256 # Absent /\ signed \subseteq [by : Keys, of : Contents]
    BY DEF IInv, Coherent, TypeInv, TypeOK
  <2>2. PICK k \in run.allow_signers : [by |-> k, of |-> read["signature"]] \in signed
    BY NoRuleVerifies DEF IInv, SignedInv
  <2>3. [by |-> k, of |-> read["signature"]].of \in Contents
    BY <2>1, <2>2
  <2>4. read["signature"] = hash_sha256
    BY <2>1, <2>3, ContentAssumption DEF Settled, Readings
  <2> QED  BY <2>2, <2>4
<1> QED  BY <1>1, Invariance, PTL

\* An unchanged copy of a reported bundle that was signed with a key of its own keys
\* directory is judged, with a good signature if the signed source is what was copied.
THEOREM CreatedAlwaysJudged == Spec => []CreatedIsJudged
<1>1. IInv => CreatedIsJudged
  <2> SUFFICES ASSUME IInv, NEW c \in created, pc = "exited", changes = 0, bundle = c.directory,
                      c.job.signing_key \in c.job.keys_dir
               PROVE  /\ exit_code # ToolError
                      /\ bundle.sig.of = bundle.artifact =>
                           results.signature \in {"Verified", "SignerNotAllowed"}
    BY DEF CreatedIsJudged
  <2>1. c.job \in Jobs
    BY DEF IInv, TypeInv, TypeOK
  <2>2. c.job.signing_key # Absent
    BY <2>1, BundleAssumption
  <2>3. Sealed(bundle) /\ bundle.sig.by = c.job.signing_key /\ c.job.keys_dir \subseteq bundle.trusted_keys
    BY <2>2 DEF IInv, CreateInv
  <2>4. Whole(bundle)
    BY <2>3 DEF Whole
  <2> QED  BY <2>4 DEF IInv, WholeInv, Faultless, Unsigned, Unhashed, Unacquired, ToolError
<1> QED  BY <1>1, Invariance, PTL
=============================================================================

------------------------------ MODULE Pipeline ------------------------------
(***************************************************************************)
(* One run of veriscan's verification pipeline (src/src/orchestrator.rs,   *)
(* run_pipeline, driven by src/src/main.rs), beside an environment that    *)
(* may replace or delete the artifact's file at any moment.                *)
(*                                                                         *)
(* Every read of the file is a step of its own.  After the hash, the       *)
(* signature, the malware and the inspection stage the orchestrator hashes *)
(* the file again and compares with the hash taken at acquisition.         *)
(***************************************************************************)
EXTENDS Stages, Integers

CONSTANTS Configs,          \* the run configurations considered
          Caches,           \* the reputation caches a run may find
          MaxTampers,       \* bound on the environment's changes
          MayRevert         \* whether the environment may restore an earlier content

ASSUME ConfigAssumption == /\ Configs \subseteq RunConfig
                           /\ Caches \subseteq [Contents -> {"Clean", "Malicious", Absent}]
                           /\ MaxTampers \in Nat
                           /\ MayRevert \in BOOLEAN
                           /\ "" \in FileTypes

VARIABLES
  disk,                     \* what the artifact's path holds
  past,                     \* everything it has held (history)
  tampers,                  \* changes the environment made
  config,
  cache,                    \* the reputation cache, on disk
  pc,                       \* next step of the run
  initial_sha256,           \* baseline taken by acquire
  hash_sha256,              \* digest computed by the hash stage
  results,                  \* PipelineResults
  read,                     \* what each stage read (history)
  report,                   \* verdict of the report, or Absent
  exit_code                 \* -1 while the process runs

env  == <<disk, past, tampers>>
vars == <<env, config, cache, pc, initial_sha256, hash_sha256, results, read, report, exit_code>>

Readers == {"signature", "malware", "sample", "full"}
Steps   == {"locate", "acquire", "hash", "check_hash", "signature", "check_signature",
            "malware", "check_malware", "sample", "full", "check_inspect", "reputation",
            "policy", "exited"}

NoResults == [signature |-> "NotChecked", malware |-> "NotChecked", reputation |-> "NotChecked",
              checksum_mismatch |-> FALSE, entropy_flagged |-> FALSE, executable |-> FALSE,
              file_type |-> ""]

Init == /\ disk \in Contents
        /\ past = {disk}
        /\ tampers = 0
        /\ config \in Configs
        /\ cache \in Caches
        /\ pc = "locate"
        /\ initial_sha256 = Absent
        /\ hash_sha256 = Absent
        /\ results = NoResults
        /\ read = [s \in Readers |-> Absent]
        /\ report = Absent
        /\ exit_code = -1

----------------------------------------------------------------------------
\* The environment.

Tamper == /\ pc # "exited"
          /\ tampers < MaxTampers
          /\ \E x \in Digest \ {disk} :
               /\ MayRevert \/ x \notin past
               /\ disk' = x
               /\ past' = past \cup {x}
          /\ tampers' = tampers + 1
          /\ UNCHANGED <<config, cache, pc, initial_sha256, hash_sha256, results, read,
                         report, exit_code>>

----------------------------------------------------------------------------
\* Ways to leave run_pipeline.

\* Mistake to detect: the run stops without an exit code.
BugAbort == pc' = "exited" /\ UNCHANGED <<env, config, cache, initial_sha256, hash_sha256, results,
                                          read, report, exit_code>>

\* An Err: main logs it and exits; there is no report.
Abort == /\ pc' = "exited"
         /\ exit_code' = ToolError
         /\ UNCHANGED <<env, config, cache, initial_sha256, hash_sha256, results, read, report>>

\* A report with this verdict: main prints and writes it, and exits with its code.
Report(status) == /\ pc' = "exited"
                  /\ report' = status
                  /\ exit_code' = ExitCode(status)

Goto(next) == pc' = next /\ UNCHANGED <<report, exit_code>>

----------------------------------------------------------------------------
\* Stage 1, acquire::run: refuse a URL without network, miss a local file, fail a
\* download or a denied URL; then take the baseline hash.

LocateFails == /\ pc = "locate"
               /\ config.url \/ disk = Absent
               /\ Abort

Locate == /\ pc = "locate"
          /\ disk # Absent
          /\ config.url => config.allow_network
          /\ Goto("acquire")
          /\ UNCHANGED <<env, config, cache, initial_sha256, hash_sha256, results, read>>

Acquire == /\ pc = "acquire"
           /\ disk # Absent
           /\ initial_sha256' = disk
           /\ Goto("hash")
           /\ UNCHANGED <<env, config, cache, hash_sha256, results, read>>

\* A file that is gone makes any of these steps return an I/O error.
ReadFails == /\ disk = Absent
             /\ \/ pc \in {"acquire", "check_hash", "check_signature", "check_malware",
                           "sample", "full", "check_inspect"}
                \/ pc = "signature" /\ ReadsForSignature(config)
             /\ Abort

\* Stage 2, hash::run, and build_failed_report for whatever goes wrong in it: the
\* file is gone, a required checksum is missing, or one does not match.
HashRejects == /\ pc = "hash"
               /\ \/ disk = Absent
                  \/ ~ChecksumsResolved(config)
                  \/ ~ChecksumsMatch(config, disk)
               /\ Report("Failed")
               /\ UNCHANGED <<env, config, cache, initial_sha256, hash_sha256, results, read>>

\* Mistake to detect: expected checksums are resolved but not compared.
BugHash == /\ pc = "hash"
           /\ disk # Absent
           /\ ChecksumsResolved(config)
           /\ hash_sha256' = disk
           /\ Goto("check_hash")
           /\ UNCHANGED <<env, config, cache, initial_sha256, results, read>>

Hash == /\ pc = "hash"
        /\ disk # Absent
        /\ ChecksumsResolved(config)
        /\ ChecksumsMatch(config, disk)
        /\ hash_sha256' = disk
        /\ Goto("check_hash")
        /\ UNCHANGED <<env, config, cache, initial_sha256, results, read>>

\* assert_no_mutation after a stage: go on to the next one, or halt.
After == [check_hash |-> "signature", check_signature |-> "malware",
          check_malware |-> "sample", check_inspect |-> "reputation"]

\* Mistake to detect: the file has to be there, but is not hashed again.
BugAssertNoMutation == /\ pc \in DOMAIN After
                       /\ disk # Absent
                       /\ Goto(After[pc])
                       /\ UNCHANGED <<env, config, cache, initial_sha256, hash_sha256, results,
                                      read>>

AssertNoMutation == /\ pc \in DOMAIN After
                    /\ disk = initial_sha256
                    /\ Goto(After[pc])
                    /\ UNCHANGED <<env, config, cache, initial_sha256, hash_sha256, results, read>>

ArtifactMutated == /\ pc \in DOMAIN After
                   /\ disk \notin {initial_sha256, Absent}
                   /\ Abort

\* Stage 3.  Without a signature file or a key the artifact is not read.
Signature == /\ pc = "signature"
             /\ ReadsForSignature(config) => disk # Absent
             /\ results' = [results EXCEPT !.signature = SignatureOf(config, disk)]
             /\ read' = IF ReadsForSignature(config) THEN [read EXCEPT !["signature"] = disk]
                                                     ELSE read
             /\ Goto("check_signature")
             /\ UNCHANGED <<env, config, cache, initial_sha256, hash_sha256>>

\* Mistake to detect: the scanner runs without a timeout.
BugScan == /\ pc = "malware"
           /\ config.scanner \notin {"unrunnable", "hangs"}
           /\ results' = [results EXCEPT !.malware = ScanOf(config, disk)]
           /\ read' = IF config.scanner = "works" THEN [read EXCEPT !["malware"] = disk] ELSE read
           /\ Goto("check_malware")
           /\ UNCHANGED <<env, config, cache, initial_sha256, hash_sha256>>

\* Stage 4.  A scanner that cannot be started is an error of the run.
Scan == /\ pc = "malware"
        /\ config.scanner # "unrunnable"
        /\ results' = [results EXCEPT !.malware = ScanOf(config, disk)]
        /\ read' = IF config.scanner = "works" THEN [read EXCEPT !["malware"] = disk] ELSE read
        /\ Goto("check_malware")
        /\ UNCHANGED <<env, config, cache, initial_sha256, hash_sha256>>

ScanCannotRun == pc = "malware" /\ config.scanner = "unrunnable" /\ Abort

\* Stage 5 reads the file twice: a sample for type and entropy, then all of it.
InspectSample ==
  /\ pc = "sample"
  /\ disk # Absent
  /\ results' = [results EXCEPT !.entropy_flagged = disk \in Dense,
                                !.executable = disk \in Executables,
                                !.file_type = FileTypeOf[disk]]
  /\ read' = [read EXCEPT !["sample"] = disk]
  /\ Goto("full")
  /\ UNCHANGED <<env, config, cache, initial_sha256, hash_sha256>>

InspectFull == /\ pc = "full"
               /\ disk # Absent
               /\ read' = [read EXCEPT !["full"] = disk]
               /\ Goto("check_inspect")
               /\ UNCHANGED <<env, config, cache, initial_sha256, hash_sha256, results>>

\* Mistake to detect: the file is hashed once more for the lookup.
BugReputation ==
  /\ pc = "reputation"
  /\ disk # Absent
  /\ \E answer \in LookupOf(config, cache, disk) \ {"Error"} :
       /\ results' = [results EXCEPT !.reputation = answer]
       /\ cache' \in CachesAfter(config, cache, disk, answer)
  /\ Goto("policy")
  /\ UNCHANGED <<env, config, initial_sha256, hash_sha256, read>>

\* Stage 6 asks about the digest of the hash stage, not about the file.
Reputation ==
  /\ pc = "reputation"
  /\ \E answer \in LookupOf(config, cache, hash_sha256) \ {"Error"} :
       /\ results' = [results EXCEPT !.reputation = answer]
       /\ cache' \in CachesAfter(config, cache, hash_sha256, answer)
  /\ Goto("policy")
  /\ UNCHANGED <<env, config, initial_sha256, hash_sha256, read>>

ReputationFails == /\ pc = "reputation"
                   /\ "Error" \in LookupOf(config, cache, hash_sha256)
                   /\ Abort

\* Stage 7 and the report.
Evaluate == /\ pc = "policy"
            /\ Report(Outcome(results, config.policy))
            /\ UNCHANGED <<env, config, cache, initial_sha256, hash_sha256, results, read>>

Run == \/ LocateFails \/ Locate \/ Acquire \/ ReadFails \/ HashRejects \/ Hash
       \/ AssertNoMutation \/ ArtifactMutated \/ Signature \/ Scan \/ ScanCannotRun
       \/ InspectSample \/ InspectFull \/ Reputation \/ ReputationFails \/ Evaluate

Next == Tamper \/ Run

Spec     == Init /\ [][Next]_vars
\* The process keeps running; nothing is assumed of the environment.
FairSpec == Spec /\ WF_vars(Run)

----------------------------------------------------------------------------
Exited == pc = "exited"
Judged == Exited /\ hash_sha256 # Absent /\ report # Absent   \* the policy stage was reached

TypeOK ==
  /\ disk \in Digest /\ past \subseteq Digest /\ tampers \in 0..MaxTampers
  /\ config \in Configs
  /\ cache \in [Contents -> {"Clean", "Malicious", Absent}]
  /\ pc \in Steps
  /\ initial_sha256 \in Digest /\ hash_sha256 \in Digest
  /\ results \in PipelineResults
  /\ read \in [Readers -> Digest]
  /\ report \in Status \cup {Absent}
  /\ exit_code \in {-1, 0, 10, 20, 99}
  /\ Exited <=> exit_code # -1

\* A judged report is about one content: the one whose digest it carries is the one
\* acquired, and every stage that read the file read that content, whenever the
\* file was replaced in between (docs/architecture.md:344-352).
ReportIsAboutOneContent ==
  Judged => /\ hash_sha256 = initial_sha256
            /\ \A s \in Readers : read[s] \in {Absent, hash_sha256}

\* What a VERIFIED report says of the digest it carries is true of the content with
\* that digest: a verified signature was made for it, a clean scan saw it, and it
\* is the content the user expected.
VerifiedFactsHold ==
  exit_code = 0 =>
    /\ results.signature = "Verified" => config.sig = hash_sha256
    /\ results.malware = "Clean" => hash_sha256 \notin Infected
    /\ results.executable = (hash_sha256 \in Executables)
    /\ ChecksumsMatch(config, hash_sha256)

\* The digest in a judged report passed the checksum test, even if the file was
\* replaced before and restored after the hash stage read it.
ReportedDigestExpected ==
  Judged => /\ ChecksumsMatch(config, hash_sha256)
            /\ config.require_checksums => config.sha256 # Absent /\ config.sha512 # Absent

\* The process exits: no scanner, service or replaced file can hold it up.
Terminates == <>Exited

\* Seen from outside, a run is one judgement of one content.
ReportedDigest == IF Judged THEN hash_sha256 ELSE Absent
OneContent     == INSTANCE Snapshot WITH reported <- ReportedDigest
SnapshotSpec   == OneContent!Spec
=============================================================================

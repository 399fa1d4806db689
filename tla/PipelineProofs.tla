--------------------------- MODULE PipelineProofs ---------------------------
(***************************************************************************)
(* Proofs about Pipeline, for every set of contents, configurations and    *)
(* caches, and every number of changes the environment makes.              *)
(*                                                                         *)
(* That a judged report is about one content is not inductive: in the      *)
(* middle of a run a stage may have read a replaced file.  What is         *)
(* inductive is that then the file has left its acquired content, and as   *)
(* nothing restores it the next check halts the run (Coherent); likewise   *)
(* for what the results say of the acquired content (Truthful).            *)
(*                                                                         *)
(* Types and the checksum test hold beside every environment.              *)
(***************************************************************************)
EXTENDS Pipeline, WellFoundedInduction, TLAPS

\* Everything taken from the file so far is the acquired content.
Settled == /\ hash_sha256 \in {Absent, initial_sha256}
           /\ \A s \in Readers : read[s] \in {Absent, initial_sha256}

\* The file has left the acquired content, for good.
Moved == disk # initial_sha256

Checked == {"reputation", "policy"}

Coherent ==
  /\ disk \in past
  /\ initial_sha256 # Absent => initial_sha256 \in past
  /\ read \in [Readers -> Digest]
  /\ pc \in {"locate", "acquire", "hash"} =>
       hash_sha256 = Absent /\ report = Absent /\ read = [s \in Readers |-> Absent]
  /\ pc \notin {"locate", "acquire", "exited"} => initial_sha256 # Absent
  /\ pc # "exited" => Settled \/ Moved
  /\ pc \in Checked \/ Judged => Settled
  /\ pc # "exited" => report = Absent
  /\ Absent \notin Contents /\ disk \in Digest

LEMMA InitCoherent == Init => Coherent
BY ContentAssumption DEF Init, Coherent, Settled, Moved, Checked, Judged, Exited, Digest, Readers

LEMMA CoherentStep ==
  ASSUME ~MayRevert PROVE Coherent /\ [Next]_vars => Coherent'
<1> SUFFICES ASSUME Coherent, [Next]_vars PROVE Coherent'
  OBVIOUS
<1> USE DEF Coherent, Settled, Moved, Checked, Judged, Exited, env, Goto, Digest
<1>1. CASE Tamper
  BY <1>1 DEF Tamper
<1>2. ASSUME Abort, pc # "exited" PROVE Coherent'
  BY <1>2 DEF Abort
<1>3. CASE LocateFails
  BY <1>2, <1>3 DEF LocateFails
<1>4. CASE Locate
  BY <1>4 DEF Locate
<1>5. CASE Acquire
  BY <1>5 DEF Acquire, Readers
<1>6. CASE ReadFails
  BY <1>2, <1>6 DEF ReadFails
<1>7. CASE HashRejects
  BY <1>7 DEF HashRejects, Report
<1>8. CASE Hash
  BY <1>8 DEF Hash
<1>9. CASE AssertNoMutation
  BY <1>9 DEF AssertNoMutation, After
<1>10. CASE ArtifactMutated
  BY <1>2, <1>10 DEF ArtifactMutated, After
<1>11. CASE Signature
  BY <1>11 DEF Signature, Readers
<1>12. CASE Scan
  BY <1>12 DEF Scan, Readers
<1>13. CASE ScanCannotRun
  BY <1>2, <1>13 DEF ScanCannotRun
<1>14. CASE InspectSample
  BY <1>14 DEF InspectSample, Readers
<1>15. CASE InspectFull
  BY <1>15 DEF InspectFull, Readers
<1>16. CASE Reputation
  BY <1>16 DEF Reputation
<1>17. CASE ReputationFails
  BY <1>2, <1>17 DEF ReputationFails
<1>18. CASE Evaluate
  BY <1>18 DEF Evaluate, Report
<1>19. CASE UNCHANGED vars
  BY <1>19 DEF vars
<1> QED
  BY <1>1, <1>3, <1>4, <1>5, <1>6, <1>7, <1>8, <1>9, <1>10, <1>11, <1>12, <1>13, <1>14,
     <1>15, <1>16, <1>17, <1>18, <1>19 DEF Next, Run

\* Unless the environment restores replaced contents, a judged report is about one
\* content, however often and whenever the file is replaced during the run.
THEOREM OneContentReports ==
  ASSUME ~MayRevert PROVE Spec => []ReportIsAboutOneContent
<1>1. Coherent /\ [Next]_vars => Coherent'
  BY CoherentStep
<1>2. Coherent => ReportIsAboutOneContent
  BY DEF Coherent, ReportIsAboutOneContent, Settled, Judged, Exited
<1> QED  BY InitCoherent, <1>1, <1>2, PTL DEF Spec

----------------------------------------------------------------------------
\* A digest leaves the hash stage only if it passed the checksum test.
HashTested == hash_sha256 # Absent =>
                ChecksumsMatch(config, hash_sha256) /\ ChecksumsResolved(config)

LEMMA HashTestedStep == HashTested /\ [Next]_vars => HashTested'
<1> SUFFICES ASSUME HashTested, [Next]_vars PROVE HashTested'
  OBVIOUS
<1>1. CASE Hash
  BY <1>1 DEF Hash, HashTested, env, ChecksumsMatch, ChecksumsResolved
<1>2. CASE ~Hash
  <2>1. hash_sha256' = hash_sha256 /\ config' = config
    BY <1>2 DEF Next, Run, vars, env, Tamper, LocateFails, Locate, Acquire, ReadFails,
         HashRejects, AssertNoMutation, ArtifactMutated, Signature, Scan, ScanCannotRun,
         InspectSample, InspectFull, Reputation, ReputationFails, Evaluate, Abort
  <2> QED  BY <2>1 DEF HashTested, ChecksumsMatch, ChecksumsResolved
<1> QED  BY <1>1, <1>2

\* The digest of a judged report passed the checksum test and, where checksums are
\* required, both were there: with or without an environment that restores contents.
THEOREM ReportedDigestsAreExpected == Spec => []ReportedDigestExpected
<1>1. Init => HashTested
  BY DEF Init, HashTested
<1>2. HashTested => ReportedDigestExpected
  BY DEF HashTested, ReportedDigestExpected, Judged, ChecksumsResolved
<1> QED  BY <1>1, <1>2, HashTestedStep, PTL DEF Spec

----------------------------------------------------------------------------
\* Types.

\* The first rule that matches exists, so the verdict of the evaluation is one.
LEMMA OutcomeType ==
  ASSUME NEW r, NEW p \in PolicyType
  PROVE  Outcome(r, p) \in Status
<1> DEFINE M == MatchingRules(r, p)
<1>1. p.decision_matrix \in Seq(DecisionRule)
  BY DEF PolicyType
<1>2. M \subseteq 1..Len(p.decision_matrix) /\ Len(p.decision_matrix) \in Nat
  BY <1>1 DEF MatchingRules
<1>3. ASSUME M # {} PROVE FirstRule(r, p) \in M
  <2>1. M \subseteq Nat
    BY <1>2
  <2> HIDE DEF M
  <2>2. PICK k \in M : \A j \in M : ~(<<j, k>> \in OpToRel(<, Nat))
    BY <1>3, <2>1, NatLessThanWellFounded, WFMin
  <2>3. \A j \in M : <<j, k>> \in OpToRel(<, Nat) <=> j < k
    BY <2>1 DEF OpToRel
  <2>4. \A j \in M : ~(j < k)
    BY <2>2, <2>3
  <2>5. \A j \in Nat : ~(j < k) => k <= j
    BY <2>1
  <2>6. \A j \in M : k <= j
    BY <2>1, <2>4, <2>5
  <2>7. (CHOOSE i \in M : \A j \in M : i <= j) \in M
    BY <2>6
  <2> QED BY <2>7 DEF M, FirstRule
<1>4. \A k \in M : p.decision_matrix[k].verdict \in Status
  <2>1. ASSUME NEW k \in M PROVE p.decision_matrix[k] \in DecisionRule
    <3>1. k \in 1..Len(p.decision_matrix)
      BY <1>2
    <3> QED  BY <3>1, <1>1
  <2> HIDE DEF M
  <2> QED BY <2>1 DEF DecisionRule
<1>5. PolicyLevel(r, p) \in Status
  BY DEF PolicyLevel, Severity, Status
<1> QED BY <1>3, <1>4, <1>5 DEF Outcome, Status

LEMMA StageTypes ==
  ASSUME NEW c \in RunConfig, NEW x \in Digest, NEW cached \in [Contents -> {"Clean", "Malicious", Absent}]
  PROVE  /\ SignatureOf(c, x) \in SignatureResult
         /\ ScanOf(c, x) \in MalwareResult
         /\ x \in Contents =>
              /\ LookupOf(c, cached, x) \ {"Error"} \subseteq ReputationResult
              /\ \A answer : CachesAfter(c, cached, x, answer) \subseteq
                               [Contents -> {"Clean", "Malicious", Absent}]
<1>1. SignatureOf(c, x) \in SignatureResult
  BY DEF SignatureOf, SignatureResult
<1>2. ScanOf(c, x) \in MalwareResult
  BY DEF ScanOf, MalwareResult
<1>3. ASSUME x \in Contents PROVE LookupOf(c, cached, x) \ {"Error"} \subseteq ReputationResult
  <2>1. cached[x] \in {"Clean", "Malicious", Absent}
    BY <1>3
  <2>2. Label(x) \in {"Clean", "Malicious"}
    BY DEF Label
  <2> QED BY <2>1, <2>2 DEF LookupOf, ReputationResult
<1>4. ASSUME NEW answer PROVE CachesAfter(c, cached, x, answer) \subseteq
                                [Contents -> {"Clean", "Malicious", Absent}]
  BY DEF CachesAfter
<1> QED BY <1>1, <1>2, <1>3, <1>4

\* Well typed, with the hash stage's digest there for the lookup.
Typed == /\ TypeOK
         /\ pc \in {"check_hash", "signature", "check_signature", "malware", "check_malware",
                    "sample", "full", "check_inspect", "reputation", "policy"} =>
              hash_sha256 # Absent

LEMMA InitTyped == Init => Typed
<1> SUFFICES ASSUME Init PROVE Typed
  OBVIOUS
<1>1. NoResults \in PipelineResults
  BY ConfigAssumption
  DEF NoResults, PipelineResults, SignatureResult, MalwareResult, ReputationResult
<1>2. disk \in Digest /\ past \subseteq Digest /\ Absent \in Digest
  BY DEF Init, Digest
<1>3. tampers \in 0..MaxTampers
  <2>1. MaxTampers \in Nat
    BY ConfigAssumption
  <2>2. tampers = 0
    BY DEF Init
  <2> QED BY <2>1, <2>2
<1> QED BY <1>1, <1>2, <1>3, ConfigAssumption DEF Init, Typed, TypeOK, Steps, Exited

LEMMA TypedStep == Typed /\ [Next]_vars => Typed'
<1> SUFFICES ASSUME Typed, [Next]_vars PROVE Typed'
  OBVIOUS
<1> USE DEF Typed, TypeOK, Exited, env, Goto
<1>0. config \in RunConfig /\ config.policy \in PolicyType
  BY ConfigAssumption DEF RunConfig
<1>1. CASE Tamper
  <2>1. disk' \in Digest /\ past' \subseteq Digest
    BY <1>1 DEF Tamper
  <2>2. tampers' \in 0..MaxTampers
    <3>1. MaxTampers \in Nat
      BY ConfigAssumption
    <3>2. tampers \in 0..MaxTampers /\ tampers < MaxTampers /\ tampers' = tampers + 1
      BY <1>1 DEF Tamper
    <3> QED BY <3>1, <3>2
  <2> QED BY <1>1, <2>1, <2>2 DEF Tamper
<1>2. ASSUME Abort, pc # "exited" PROVE Typed'
  BY <1>2 DEF Abort, ToolError, Steps
<1>3. CASE LocateFails
  BY <1>2, <1>3 DEF LocateFails
<1>4. CASE Locate
  BY <1>4 DEF Locate, Steps
<1>5. CASE Acquire
  BY <1>5 DEF Acquire, Steps
<1>6. CASE ReadFails
  BY <1>2, <1>6 DEF ReadFails
<1>7. CASE HashRejects
  BY <1>7 DEF HashRejects, Report, ExitCode, Steps, Status
<1>8. CASE Hash
  BY <1>8 DEF Hash, Steps
<1>9. CASE AssertNoMutation
  BY <1>9 DEF AssertNoMutation, After, Steps
<1>10. CASE ArtifactMutated
  BY <1>2, <1>10 DEF ArtifactMutated, After
<1>11. CASE Signature
  <2>1. results' \in PipelineResults
    BY <1>0, <1>11, StageTypes DEF Signature, PipelineResults
  <2>2. read' \in [Readers -> Digest]
    BY <1>11 DEF Signature
  <2> QED BY <1>11, <2>1, <2>2 DEF Signature, Steps
<1>12. CASE Scan
  <2>1. results' \in PipelineResults
    BY <1>0, <1>12, StageTypes DEF Scan, PipelineResults
  <2>2. read' \in [Readers -> Digest]
    BY <1>12 DEF Scan
  <2> QED BY <1>12, <2>1, <2>2 DEF Scan, Steps
<1>13. CASE ScanCannotRun
  BY <1>2, <1>13 DEF ScanCannotRun
<1>14. CASE InspectSample
  <2>1. FileTypeOf[disk] \in FileTypes
    BY <1>14, ContentAssumption DEF InspectSample, Digest
  <2>2. results' \in PipelineResults
    <3> DEFINE dense == disk \in Dense
               executable == disk \in Executables
    <3>1. results' = [results EXCEPT !.entropy_flagged = dense, !.executable = executable,
                                     !.file_type = FileTypeOf[disk]]
      BY <1>14 DEF InspectSample
    <3>2. dense \in BOOLEAN /\ executable \in BOOLEAN
      OBVIOUS
    <3> HIDE DEF dense, executable
    <3> QED BY <2>1, <3>1, <3>2 DEF PipelineResults
  <2>3. read' \in [Readers -> Digest]
    BY <1>14 DEF InspectSample
  <2> QED BY <1>14, <2>2, <2>3 DEF InspectSample, Steps
<1>15. CASE InspectFull
  BY <1>15 DEF InspectFull, Steps
<1>16. CASE Reputation
  <2>1. PICK answer \in LookupOf(config, cache, hash_sha256) \ {"Error"} :
          /\ results' = [results EXCEPT !.reputation = answer]
          /\ cache' \in CachesAfter(config, cache, hash_sha256, answer)
    BY <1>16 DEF Reputation
  <2>2. hash_sha256 \in Contents
    BY <1>16 DEF Reputation, Digest
  <2>3. results' \in PipelineResults /\ cache' \in [Contents -> {"Clean", "Malicious", Absent}]
    BY <1>0, <2>1, <2>2, StageTypes DEF PipelineResults, Digest
  <2> QED BY <1>16, <2>3 DEF Reputation, Steps
<1>17. CASE ReputationFails
  BY <1>2, <1>17 DEF ReputationFails
<1>18. CASE Evaluate
  <2>1. report' \in Status /\ exit_code' = ExitCode(report') /\ pc' = "exited"
    BY <1>0, <1>18, OutcomeType DEF Evaluate, Report
  <2>2. exit_code' \in {0, 10, 20}
    BY <2>1 DEF ExitCode, Status
  <2> QED BY <1>18, <2>1, <2>2 DEF Evaluate, Steps
<1>19. CASE UNCHANGED vars
  BY <1>19 DEF vars
<1> QED
  BY <1>1, <1>3, <1>4, <1>5, <1>6, <1>7, <1>8, <1>9, <1>10, <1>11, <1>12, <1>13, <1>14,
     <1>15, <1>16, <1>17, <1>18, <1>19 DEF Next, Run

\* Every state of a run is well typed; in particular it has exited exactly when it has an
\* exit code.
THEOREM RunsAreTyped == Spec => []TypeOK
<1>1. Typed => TypeOK
  BY DEF Typed
<1> QED BY InitTyped, TypedStep, <1>1, PTL DEF Spec

----------------------------------------------------------------------------
\* What the results say, as long as the file keeps its acquired content: each stage that
\* has run reported on that content.
Unsigned    == {"locate", "acquire", "hash", "check_hash", "signature"}
Unscanned   == Unsigned \cup {"check_signature", "malware"}
Uninspected == Unscanned \cup {"check_malware", "sample"}

SoFar(x) ==
  /\ results.signature = IF pc \in Unsigned THEN "NotChecked" ELSE SignatureOf(config, x)
  /\ results.malware = IF pc \in Unscanned THEN "NotChecked" ELSE ScanOf(config, x)
  /\ ~results.checksum_mismatch
  /\ pc \in Uninspected => /\ ~results.entropy_flagged /\ ~results.executable
                           /\ results.file_type = ""
  /\ pc \notin Uninspected => /\ results.entropy_flagged = (x \in Dense)
                              /\ results.executable = (x \in Executables)
                              /\ results.file_type = FileTypeOf[x]

\* ... unless the file has left that content, and then the next check halts the run.
Truthful ==
  /\ pc # "exited" => SoFar(initial_sha256) \/ Moved
  /\ pc \in Checked \/ Judged => SoFar(hash_sha256)
  /\ pc \in {"check_hash", "signature", "check_signature", "malware", "check_malware", "sample",
             "full", "check_inspect"} \cup Checked => hash_sha256 # Absent
  /\ hash_sha256 \in Digest
  /\ pc = "policy" => results.reputation \in LookupOf(config, cache, hash_sha256) \ {"Error"}
  /\ (pc # "exited") <=> (exit_code = -1)
  /\ pc \in {"locate", "acquire", "hash"} => results = NoResults
  /\ exit_code = 0 => Judged

LEMMA InitTruthful == Init => Truthful
<1> SUFFICES ASSUME Init PROVE Truthful
  OBVIOUS
<1>1. SoFar(initial_sha256)
  BY DEF Init, SoFar, NoResults, Unsigned, Unscanned, Uninspected
<1> QED BY <1>1
        DEF Init, Truthful, Checked, Judged, Exited, Digest

\* Where the orchestrator has just compared the file with the acquired content, the
\* results are about that content and so is the digest.
LEMMA TruthfulStep ==
  ASSUME ~MayRevert, Coherent, Typed, Truthful, [Next]_vars PROVE Truthful'
<1>0. config \in RunConfig /\ config.policy \in PolicyType /\ results \in PipelineResults
      /\ cache \in [Contents -> {"Clean", "Malicious", Absent}]
  BY ConfigAssumption DEF Typed, TypeOK, RunConfig
<1> USE DEF Truthful, Moved, Checked, Judged, Exited, env, Goto, Digest
<1>1. CASE Tamper
  <2>1. /\ pc' = pc /\ results' = results /\ config' = config /\ cache' = cache
        /\ initial_sha256' = initial_sha256 /\ hash_sha256' = hash_sha256
        /\ report' = report /\ exit_code' = exit_code /\ pc # "exited"
    BY <1>1 DEF Tamper
  <2>2. CASE initial_sha256 = Absent
    <3>1. pc \in {"locate", "acquire"} /\ results = NoResults
      BY <2>1, <2>2 DEF Coherent
    <3>2. SoFar(initial_sha256)'
      BY <2>1, <3>1 DEF SoFar, NoResults, Unsigned, Unscanned, Uninspected
    <3> QED BY <2>1, <3>1, <3>2
  <2>3. CASE initial_sha256 # Absent
    <3>1. disk' \notin past /\ initial_sha256 \in past
      BY <1>1, <2>3 DEF Tamper, Coherent
    <3>2. Moved'
      BY <2>1, <3>1
    <3>3. \A x : SoFar(x)' <=> SoFar(x)
      BY <2>1 DEF SoFar
    <3> HIDE DEF SoFar
    <3> QED BY <2>1, <3>2, <3>3
  <2> QED BY <2>2, <2>3
<1>2. ASSUME Abort, pc # "exited" PROVE Truthful'
  BY <1>2 DEF Abort, ToolError, Coherent
<1>3. CASE LocateFails
  BY <1>2, <1>3 DEF LocateFails
<1>4. CASE Locate
  BY <1>4 DEF Locate, SoFar, Unsigned, Unscanned, Uninspected
<1>5. CASE Acquire
  <2>1. results' = NoResults /\ pc' = "hash"
    BY <1>5 DEF Acquire
  <2>2. SoFar(initial_sha256)'
    BY <2>1 DEF SoFar, NoResults, Unsigned, Unscanned, Uninspected
  <2> QED BY <1>5, <2>1, <2>2 DEF Acquire, Coherent
<1>6. CASE ReadFails
  BY <1>2, <1>6 DEF ReadFails
<1>7. CASE HashRejects
  BY <1>7 DEF HashRejects, Report, ExitCode, Coherent
<1>8. CASE Hash
  BY <1>8 DEF Hash, SoFar, Unsigned, Unscanned, Uninspected, Coherent
<1>9. CASE AssertNoMutation
  <2>1. SoFar(initial_sha256) /\ disk = initial_sha256 /\ results' = results
        /\ config' = config /\ initial_sha256' = initial_sha256
    BY <1>9 DEF AssertNoMutation, After
  <2>2. SoFar(initial_sha256)'
    <3>1. \/ pc = "check_hash" /\ pc' = "signature"
          \/ pc = "check_signature" /\ pc' = "malware"
          \/ pc = "check_malware" /\ pc' = "sample"
          \/ pc = "check_inspect" /\ pc' = "reputation"
      BY <1>9 DEF AssertNoMutation, After
    <3> QED BY <2>1, <3>1 DEF SoFar, Unsigned, Unscanned, Uninspected
  <2>3. hash_sha256' = hash_sha256 /\ hash_sha256 \in {Absent, initial_sha256}
    BY <1>9 DEF AssertNoMutation, After, Coherent, Settled
  <2> HIDE DEF SoFar
  <2> QED BY <1>9, <2>2, <2>3 DEF AssertNoMutation, After, Coherent
<1>10. CASE ArtifactMutated
  BY <1>2, <1>10 DEF ArtifactMutated, After
<1>11. CASE Signature
  <2>1. pc = "signature" /\ pc' = "check_signature" /\ disk' = disk /\ config' = config
        /\ initial_sha256' = initial_sha256
        /\ results' = [results EXCEPT !.signature = SignatureOf(config, disk)]
    BY <1>11 DEF Signature
  <2>2. SoFar(initial_sha256)' \/ Moved'
    BY <1>0, <2>1 DEF SoFar, Unsigned, Unscanned, Uninspected, PipelineResults
  <2> QED BY <1>11, <2>2 DEF Signature
<1>12. CASE Scan
  <2>1. pc = "malware" /\ pc' = "check_malware" /\ disk' = disk /\ config' = config
        /\ initial_sha256' = initial_sha256
        /\ results' = [results EXCEPT !.malware = ScanOf(config, disk)]
    BY <1>12 DEF Scan
  <2>2. SoFar(initial_sha256)' \/ Moved'
    BY <1>0, <2>1 DEF SoFar, Unsigned, Unscanned, Uninspected, PipelineResults
  <2> QED BY <1>12, <2>2 DEF Scan
<1>13. CASE ScanCannotRun
  BY <1>2, <1>13 DEF ScanCannotRun
<1>14. CASE InspectSample
  <2>1. pc = "sample" /\ pc' = "full" /\ disk' = disk /\ config' = config
        /\ initial_sha256' = initial_sha256
        /\ results' = [results EXCEPT !.entropy_flagged = disk \in Dense,
                                      !.executable = disk \in Executables,
                                      !.file_type = FileTypeOf[disk]]
    BY <1>14 DEF InspectSample
  <2>2. SoFar(initial_sha256)' \/ Moved'
    BY <1>0, <2>1 DEF SoFar, Unsigned, Unscanned, Uninspected, PipelineResults
  <2> QED BY <1>14, <2>2 DEF InspectSample
<1>15. CASE InspectFull
  BY <1>15 DEF InspectFull, SoFar, Unsigned, Unscanned, Uninspected
<1>16. CASE Reputation
  <2>1. PICK answer \in LookupOf(config, cache, hash_sha256) \ {"Error"} :
          /\ results' = [results EXCEPT !.reputation = answer]
          /\ cache' \in CachesAfter(config, cache, hash_sha256, answer)
    BY <1>16 DEF Reputation
  <2>2. pc = "reputation" /\ pc' = "policy" /\ config' = config /\ hash_sha256' = hash_sha256
        /\ initial_sha256' = initial_sha256 /\ report' = report /\ exit_code' = exit_code
    BY <1>16 DEF Reputation
  <2>3. answer \in LookupOf(config, cache', hash_sha256) /\ results'.reputation = answer
    <3>1. results'.reputation = answer
      BY <1>0, <2>1 DEF PipelineResults
    <3>2. CASE cache' = cache
      BY <2>1, <3>1, <3>2
    <3>3. CASE cache' # cache
      <4>1. answer \in {"Clean", "Malicious"}
            /\ cache' = [cache EXCEPT ![hash_sha256] = answer]
            /\ ~config.offline /\ config.allow_network
        BY <2>1, <3>3 DEF CachesAfter, AsksService
      <4>2. hash_sha256 \in DOMAIN cache
        BY <1>0, <2>2, ContentAssumption DEF Typed
      <4>3. Absent # answer
        BY <4>1, ContentAssumption DEF ReputationResult
      <4> QED BY <3>1, <4>1, <4>2, <4>3 DEF LookupOf
    <3> QED BY <3>2, <3>3
  <2>4. SoFar(hash_sha256)'
    BY <2>1, <2>2 DEF SoFar, Unsigned, Unscanned, Uninspected
  <2>5. hash_sha256 = initial_sha256
    BY <2>2 DEF Coherent, Settled
  <2> QED BY <2>1, <2>2, <2>3, <2>4, <2>5 DEF Coherent, SoFar
<1>17. CASE ReputationFails
  BY <1>2, <1>17 DEF ReputationFails
<1>18. CASE Evaluate
  <2>1. SoFar(hash_sha256)'
    BY <1>18 DEF Evaluate, Report, SoFar, Unsigned, Unscanned, Uninspected
  <2>2. report' \in Status /\ exit_code' = ExitCode(report') /\ pc' = "exited"
    BY <1>0, <1>18, OutcomeType DEF Evaluate, Report
  <2>3. exit_code' # -1 /\ report' # Absent
    BY <2>2, ContentAssumption DEF ExitCode, Status
  <2>4. hash_sha256' = hash_sha256 /\ hash_sha256 # Absent
    BY <1>18 DEF Evaluate
  <2> HIDE DEF SoFar
  <2> QED BY <2>1, <2>2, <2>3, <2>4
<1>19. CASE UNCHANGED vars
  BY <1>19 DEF vars, SoFar
<1> QED
  BY <1>1, <1>3, <1>4, <1>5, <1>6, <1>7, <1>8, <1>9, <1>10, <1>11, <1>12, <1>13, <1>14,
     <1>15, <1>16, <1>17, <1>18, <1>19 DEF Next, Run

\* The invariant of a run beside an environment that restores nothing.
RunInv == Coherent /\ Typed /\ Truthful /\ HashTested

LEMMA RunInvAlways == ASSUME ~MayRevert PROVE Spec => []RunInv
<1>1. Init => RunInv
  BY InitCoherent, InitTyped, InitTruthful DEF RunInv, Init, HashTested
<1>2. RunInv /\ [Next]_vars => RunInv'
  BY CoherentStep, TypedStep, TruthfulStep, HashTestedStep DEF RunInv
<1> QED BY <1>1, <1>2, PTL DEF Spec

\* What a VERIFIED report says of the digest it carries is true of that content, unless
\* the environment restores replaced contents (VerifiedFactsHold).
THEOREM VerifiedFactsAlwaysHold ==
  ASSUME ~MayRevert PROVE Spec => []VerifiedFactsHold
<1>1. RunInv => VerifiedFactsHold
  <2> SUFFICES ASSUME RunInv, exit_code = 0 PROVE VerifiedFactsHold
    BY DEF VerifiedFactsHold
  <2>1. SoFar(hash_sha256) /\ pc = "exited" /\ hash_sha256 # Absent
    BY DEF RunInv, Truthful, Judged, Exited
  <2>2. /\ results.signature = SignatureOf(config, hash_sha256)
        /\ results.malware = ScanOf(config, hash_sha256)
        /\ results.executable = (hash_sha256 \in Executables)
    BY <2>1 DEF SoFar, Unsigned, Unscanned, Uninspected
  <2>3. ChecksumsMatch(config, hash_sha256)
    BY <2>1 DEF RunInv, HashTested
  <2> QED BY <2>2, <2>3 DEF VerifiedFactsHold, SignatureOf, ScanOf
<1> QED BY <1>1, RunInvAlways, PTL

----------------------------------------------------------------------------
\* A run implements Snapshot.

LEMMA SameRules ==
  /\ \A r, p : OneContent!Outcome(r, p) = Outcome(r, p)
  /\ \A c, x : /\ OneContent!SignatureOf(c, x) = SignatureOf(c, x)
               /\ OneContent!ScanOf(c, x) = ScanOf(c, x)
               /\ OneContent!ChecksumsResolved(c) = ChecksumsResolved(c)
               /\ OneContent!ChecksumsMatch(c, x) = ChecksumsMatch(c, x)
  /\ \A c, d, x : OneContent!LookupOf(c, d, x) = LookupOf(c, d, x)
  /\ \A c, d, x, a : OneContent!CachesAfter(c, d, x, a) = CachesAfter(c, d, x, a)
  /\ \A s : OneContent!ExitCode(s) = ExitCode(s)
  /\ OneContent!ToolError = ToolError
<1>1. ASSUME NEW r, NEW p PROVE OneContent!Outcome(r, p) = Outcome(r, p)
  <2>1. \A k : OneContent!Matches(p, r, k) = Matches(p, r, k)
    BY DEF OneContent!Matches, Matches, OneContent!EvaluateCondition, EvaluateCondition
  <2>2. OneContent!MatchingRules(r, p) = MatchingRules(r, p)
    BY <2>1 DEF OneContent!MatchingRules, MatchingRules
  <2>3. OneContent!FirstRule(r, p) = FirstRule(r, p)
    BY <2>2 DEF OneContent!FirstRule, FirstRule
  <2>4. OneContent!PolicyLevel(r, p) = PolicyLevel(r, p)
    BY DEF OneContent!PolicyLevel, PolicyLevel, OneContent!HardFailure, HardFailure,
           OneContent!Blocked, Blocked, OneContent!MissingScan, MissingScan,
           OneContent!ScanUnavailable, ScanUnavailable, OneContent!MissingLookup, MissingLookup,
           OneContent!LookupUnavailable, LookupUnavailable, OneContent!Severity, Severity
  <2> QED BY <2>2, <2>3, <2>4 DEF OneContent!Outcome, Outcome, OneContent!Mandatory, Mandatory
<1>2. ASSUME NEW c, NEW x
      PROVE  /\ OneContent!SignatureOf(c, x) = SignatureOf(c, x)
             /\ OneContent!ScanOf(c, x) = ScanOf(c, x)
             /\ OneContent!ChecksumsResolved(c) = ChecksumsResolved(c)
             /\ OneContent!ChecksumsMatch(c, x) = ChecksumsMatch(c, x)
  BY DEF OneContent!SignatureOf, SignatureOf, OneContent!SignerRefused, SignerRefused,
         OneContent!ScanOf, ScanOf, OneContent!ChecksumsResolved, ChecksumsResolved,
         OneContent!ChecksumsMatch, ChecksumsMatch
<1>3. ASSUME NEW c, NEW d, NEW x PROVE OneContent!LookupOf(c, d, x) = LookupOf(c, d, x)
  BY DEF OneContent!LookupOf, LookupOf, OneContent!Label, Label
<1>4. ASSUME NEW c, NEW d, NEW x, NEW a
      PROVE  OneContent!CachesAfter(c, d, x, a) = CachesAfter(c, d, x, a)
  BY DEF OneContent!CachesAfter, CachesAfter, OneContent!AsksService, AsksService
<1>5. (\A s : OneContent!ExitCode(s) = ExitCode(s)) /\ OneContent!ToolError = ToolError
  BY DEF OneContent!ExitCode, ExitCode, OneContent!ToolError, ToolError
<1> QED BY <1>1, <1>2, <1>3, <1>4, <1>5

\* Aborting is the abstract failure, a rejected checksum the abstract rejection, the
\* lookup the abstract lookup, the policy stage the abstract judgement; every other step
\* leaves what is seen from outside alone.
LEMMA SnapshotStep ==
  ASSUME RunInv, RunInv', [Next]_vars
  PROVE  [OneContent!Fail \/ OneContent!Reject \/ OneContent!LookUp \/ OneContent!Judge]_(OneContent!svars)
<1> USE DEF OneContent!svars
<1>1. pc # "exited" => ReportedDigest = Absent /\ report = Absent /\ exit_code = -1
  BY DEF RunInv, Truthful, ReportedDigest, Judged, Exited, Coherent
<1>2. ASSUME config' = config, cache' = cache, report' = report, exit_code' = exit_code,
             pc # "exited"
      PROVE  UNCHANGED OneContent!svars
  <2>1. ReportedDigest' = Absent
    BY <1>1, <1>2 DEF ReportedDigest, Judged
  <2> QED BY <1>1, <1>2, <2>1
<1>3. ASSUME Abort, pc # "exited" PROVE OneContent!Fail
  <2>1. ReportedDigest' = Absent
    BY <1>1, <1>3 DEF Abort, ReportedDigest, Judged
  <2> QED BY <1>1, <1>3, <2>1, SameRules DEF Abort, OneContent!Fail, OneContent!Running
<1>4. CASE HashRejects
  <2>1. ReportedDigest' = Absent
    BY <1>4 DEF HashRejects, ReportedDigest, Judged, RunInv, Coherent
  <2> QED BY <1>1, <1>4, <2>1, SameRules
      DEF HashRejects, Report, OneContent!Reject, OneContent!Running
<1>5. CASE Reputation
  <2>1. PICK answer \in LookupOf(config, cache, hash_sha256) :
          cache' \in CachesAfter(config, cache, hash_sha256, answer)
    BY <1>5 DEF Reputation
  <2>2. hash_sha256 \in Contents /\ pc # "exited" /\ config' = config
        /\ report' = report /\ exit_code' = exit_code
    BY <1>5 DEF Reputation, Goto, RunInv, Typed, TypeOK, Digest
  <2>3. ReportedDigest' = Absent
    BY <1>1, <2>2 DEF ReportedDigest, Judged
  <2> QED BY <1>1, <2>1, <2>2, <2>3, SameRules DEF OneContent!LookUp, OneContent!Running
<1>6. CASE Evaluate
  <2>1. /\ pc = "policy" /\ pc' = "exited" /\ config' = config /\ cache' = cache
        /\ hash_sha256' = hash_sha256 /\ results' = results
        /\ report' = Outcome(results, config.policy) /\ exit_code' = ExitCode(report')
    BY <1>6 DEF Evaluate, Report
  <2>2. hash_sha256 \in Contents
    BY <2>1 DEF RunInv, Typed, TypeOK, Digest
  <2>3. ChecksumsResolved(config) /\ ChecksumsMatch(config, hash_sha256)
    BY <2>2, ContentAssumption DEF RunInv, HashTested
  <2>4. PICK answer \in LookupOf(config, cache, hash_sha256) \ {"Error"} :
          results.reputation = answer
    BY <2>1 DEF RunInv, Truthful
  <2>5. results = OneContent!ResultsAbout(hash_sha256, answer)
    <3>1. results \in PipelineResults
      BY DEF RunInv, Typed, TypeOK
    <3>2. /\ results.signature = SignatureOf(config, hash_sha256)
          /\ results.malware = ScanOf(config, hash_sha256)
          /\ results.checksum_mismatch = FALSE
          /\ results.entropy_flagged = (hash_sha256 \in Dense)
          /\ results.executable = (hash_sha256 \in Executables)
          /\ results.file_type = FileTypeOf[hash_sha256]
      BY <2>1, <3>1 DEF RunInv, Truthful, Checked, SoFar, Unsigned, Unscanned, Uninspected,
                        PipelineResults
    <3>3. results = [signature |-> results.signature, malware |-> results.malware,
                     reputation |-> results.reputation,
                     checksum_mismatch |-> results.checksum_mismatch,
                     entropy_flagged |-> results.entropy_flagged,
                     executable |-> results.executable, file_type |-> results.file_type]
      BY <3>1 DEF PipelineResults
    <3> QED BY <2>4, <3>2, <3>3, SameRules DEF OneContent!ResultsAbout
  <2>6. report' \in Status
    <3>1. config \in RunConfig
      BY ConfigAssumption DEF RunInv, Typed, TypeOK
    <3>2. config.policy \in PolicyType
      BY <3>1 DEF RunConfig
    <3> QED BY <2>1, <3>2, OutcomeType
  <2>7. ReportedDigest' = hash_sha256
    BY <2>1, <2>2, <2>6, ContentAssumption DEF ReportedDigest, Judged, Exited
  <2> QED BY <1>1, <2>1, <2>2, <2>3, <2>4, <2>5, <2>7, SameRules
      DEF OneContent!Judge, OneContent!Running
<1>7. CASE UNCHANGED vars
  BY <1>7 DEF vars, ReportedDigest, Judged, Exited
<1>8. CASE LocateFails \/ ReadFails \/ ArtifactMutated \/ ScanCannotRun \/ ReputationFails
  BY <1>3, <1>8 DEF LocateFails, ReadFails, ArtifactMutated, After, ScanCannotRun, ReputationFails
<1>9. CASE Tamper
  BY <1>2, <1>9 DEF Tamper
<1>10. CASE \/ Locate \/ Acquire \/ Hash \/ AssertNoMutation \/ Signature \/ Scan
            \/ InspectSample \/ InspectFull
  BY <1>2, <1>10 DEF Locate, Acquire, Hash, AssertNoMutation, After, Signature, Scan,
                     InspectSample, InspectFull, Goto, env
<1> QED BY <1>4, <1>5, <1>6, <1>7, <1>8, <1>9, <1>10 DEF Next, Run

\* A run beside an environment that replaces the file at will but restores nothing is,
\* from outside, one judgement of one content: Pipeline implements Snapshot.
THEOREM RunsAreSnapshots == ASSUME ~MayRevert PROVE Spec => SnapshotSpec
<1>1. Init => OneContent!Init
  BY DEF Init, OneContent!Init, ReportedDigest, Judged, Exited
<1>2. RunInv /\ RunInv' /\ [Next]_vars
        => [OneContent!Fail \/ OneContent!Reject \/ OneContent!LookUp \/ OneContent!Judge]_(OneContent!svars)
  BY SnapshotStep
<1> QED BY <1>1, <1>2, RunInvAlways, PTL DEF Spec, SnapshotSpec, OneContent!Spec
=============================================================================

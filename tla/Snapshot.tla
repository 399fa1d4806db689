------------------------------ MODULE Snapshot ------------------------------
(***************************************************************************)
(* What a run of the pipeline amounts to if nobody restores a content that *)
(* was replaced: in one step it ends with an error, rejects the artifact   *)
(* without judging it, or judges one content, from results all of which    *)
(* are results about that content.  Pipeline implements it.                *)
(***************************************************************************)
EXTENDS Stages, Integers

CONSTANTS Configs, Caches
VARIABLES config, cache, reported, report, exit_code

svars == <<config, cache, reported, report, exit_code>>

Init == /\ config \in Configs /\ cache \in Caches
        /\ reported = Absent /\ report = Absent /\ exit_code = -1

Running == exit_code = -1

Fail == /\ Running
        /\ exit_code' = ToolError
        /\ UNCHANGED <<config, cache, reported, report>>

Reject == /\ Running
          /\ report' = "Failed"
          /\ exit_code' = ExitCode("Failed")
          /\ UNCHANGED <<config, cache, reported>>

ResultsAbout(x, answer) ==
  [signature |-> SignatureOf(config, x), malware |-> ScanOf(config, x), reputation |-> answer,
   checksum_mismatch |-> FALSE, entropy_flagged |-> x \in Dense,
   executable |-> x \in Executables, file_type |-> FileTypeOf[x]]

\* The answer of the reputation service is cached before the judgement is made.
LookUp == /\ Running
          /\ \E x \in Contents : \E answer \in LookupOf(config, cache, x) :
               cache' \in CachesAfter(config, cache, x, answer)
          /\ UNCHANGED <<config, reported, report, exit_code>>

Judge == /\ Running
         /\ \E x \in Contents :
              /\ ChecksumsResolved(config) /\ ChecksumsMatch(config, x)
              /\ \E answer \in LookupOf(config, cache, x) \ {"Error"} :
                   report' = Outcome(ResultsAbout(x, answer), config.policy)
              /\ reported' = x
         /\ exit_code' = ExitCode(report')
         /\ UNCHANGED <<config, cache>>

Spec == Init /\ [][Fail \/ Reject \/ LookUp \/ Judge]_svars
=============================================================================

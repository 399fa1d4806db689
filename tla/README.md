# A verification project for veriscan and its governance service

TLA+ models, TLC configurations and TLAPS proofs for two programs that share one repository:

- **veriscan** (`src/src`, Rust): a command-line program that takes one artifact through a fixed
  pipeline (acquire, hash, signature, malware scan, inspection, reputation, policy) and answers
  VERIFIED, UNVERIFIED or FAILED; it also creates and verifies offline bundles.
- the **governance service** (`src/ai-governance-mvp`, Python): it stores decisions of an AI agent,
  detects drift in cycles, raises alerts, trips a rollback gate and tells operators; a command-line
  gate checks the decisions of a new agent version before it is deployed.

They do not call each other. Paths below are relative to the repository; `policy.rs` and the like
are files of `src/src` or `src/src/stages`, `scheduler.py` and the like of
`src/ai-governance-mvp/src`.

## 1. Inventory

### veriscan

| Component | State | Operations | What is hard about it | What makes it correct |
|---|---|---|---|---|
| policy evaluation (`policy.rs`) | `final_verdict`, `trace` | two mandatory checks, decision matrix, six policy-level checks, fallthrough | ten checks share one first-come verdict, and each writes verdict and trace separately | mandatory checks always win; no later check overrides; VERIFIED only through a rule or with every requirement met; the trace explains the verdict |
| policies (`policies/*.yaml`, `config.rs`) | the four shipped policies | load, validate | two policies state the same requirement as a switch and as a rule | what the comments promise about a switch |
| orchestrator (`orchestrator.rs`, `main.rs`) | results so far, baseline hash | `run_pipeline`, `assert_no_mutation`, `build_failed_report`, exit code | every stage reads the file by path, while another process may replace it; a stage may fail | a report is about one content; every run ends with an exit code |
| acquire, hash, signature, malware, inspect (`stages/`) | none of their own | one read of the file (inspect: two) | missing file, missing tool, hanging scanner, missing or foreign key | each result is true of the content that was read |
| reputation (`reputation.rs`) | cache files | lookup, store | offline, no key, network failure, stale or unwritable cache | asked about the reported digest; nothing cached but answers |
| bundle (`bundle.rs`) | a directory | `create`, `verify` | interrupted creation over an older bundle; source rebuilt while it is bundled; files changed between the check and the use | a mixture is refused; what is judged is what the manifest lists; what create reports verifies |
| command runner (`util/command.rs`) | a child process | `run_safe` | time limit | it cannot hold up the run |
| reports (`report.rs`) | files | write | a failure to write is only logged | not modelled |

The command line runs one pipeline in one process. Nothing is persistent but the reputation cache,
so a crash of a run loses the run. The concurrency is with other processes, through the file system.

### The governance service

| Component | State | Operations | What is hard about it | What makes it correct |
|---|---|---|---|---|
| agent wrapper (`governance/agent.py`, `structured.py`) | counters | `decide`, `decide_and_ingest` | the answer of the language model need not be what was asked for | what cannot be parsed is not stored |
| ingestion (`ingestion/ingestor.py`, `POST /decisions`, `/decisions/batch`) | rows of `decisions` | validate, categorise, store one or many | retries; a batch with one bad decision; clocks of clients | all of a request or nothing; an answer counts rows |
| store (`ingestion/store.py`) | SQLite tables | one transaction for each method, under one lock | sequences of methods are not atomic, any may raise | rows of one cycle agree |
| detector (`detection/`) | none | `run_detection`, `detect_category` | the two windows are read with two clock readings, while decisions arrive | nothing is compared with itself; a baseline was watched before |
| scheduler (`engine/scheduler.py`, `serve.py`) | thread, `cycle_count`, `last_error` | `_run_cycle`, `start`, `stop` | a failing step abandons the rest of a cycle; start and stop race; `stop` gives up waiting | one loop; an exception does not end it; `stop` does |
| alert engine (`engine/alerts.py`) | rows of `alerts` | `process_drift_results`, acknowledge | a transaction for each alert | history never shows drift without its alert |
| rollback engine (`engine/rollback.py`) | rows of `rollback_events` | `maybe_trigger`, `resolve_rollback` | check and write are separate; cycles run on two threads | the gate is a latch that one event holds |
| webhooks (`engine/webhooks.py`) | none | dispatch with retries | a POST that timed out may be handled later | only what is stored is sent; the result is true of the receiver |
| event broker (`engine/events.py`) | bounded queues | publish, subscribe, unsubscribe | thread to event loop, full queues, a client that leaves | a connected client sees every frame it has room for, in order |
| API (`api/app.py`) | none | run-now, report, acknowledge, resolve, status, ingest, drill-down, versions, preflight, stream | each request on a thread of its own, several transactions long | answers are true when given |
| status surfaces (`governance/status.py`, `html_report.py`, `dashboard.py`) | none | status, report, HTML, metrics, dashboard | each reads the store in several transactions | nothing in force is hidden |
| configuration (`governance/config.py`) | limits, rules | load, defaults, overrides, validate | fields that fall back, overrides that are not numbers | the limits applied are the ones meant |
| preflight and CI gate (`governance/preflight.py`, `ci_gate.py`) | none | `validate_batch`, exit code | many ways to fail before the verdict; empty groups; limits met exactly | an exit code is true; what it lets through is within limits in production |

## 2. Modules

| Module | Models | State and actions against the code |
|---|---|---|
| `PolicyRules` | the checks of `policy.rs`, one operator each, and `Outcome`, the reference verdict | a check yields trace entries and a verdict or `"none"`; `Outcome` is defined from what the requirements mean and not from the order of statements |
| `PolicyDecision` | `evaluate` | `pc` walks through the checks, `rule` through the matrix; `final_verdict` and `trace` are the variables of that name; one action for each check and each rule, since a rule after the verdict is still traced |
| `Judgement` | what `evaluate` promises | one step that answers `Outcome` |
| `ShippedPolicies` | the four YAML files | records of the fields the policy stage reads |
| `Stages` | what each stage reports about the bytes it reads | pure operators on a configuration and a content; `LookupOf` and `CachesAfter` are sets where the network decides |
| `Pipeline` | `run_pipeline` and `main`, beside `Tamper` | one action for each read of the file and for each way to leave; `AssertNoMutation` and `ArtifactMutated` after the four stages that are followed by it; `past` and `read` are history |
| `Snapshot` | what a run promises | error, rejection, or one judgement of one content |
| `Bundle` | `create`, the copy, `verify`, `run_bundle_pipeline` | a directory is a record of files; one action for each file that `create` writes and that `verify` reads; the pipeline is an `INSTANCE` of `Pipeline` whose file, signature, keys and checksum files are the copy's |
| `GovernanceRules` | `RollbackRule.matches`, `RollbackEngine.evaluate`, severity of alerts | pure operators on integer percentages |
| `DetectionCycle` | cycles on any number of threads, operators, failures, restarts | one action for each transaction of the store; local variables of a cycle (`results`, `at`, `event`) and of a request (`saw`, `target`) are per thread and per request; lost on restart, where only the tables survive |
| `RollbackLatch` | what the rollback gate promises | trip only while nothing is active, stay tripped until resolved, once and for all |
| `Webhooks` | `WebhookDispatcher`: severity filter, order, retries | one action for each attempt of `_send` by how it goes (handled, refused, timed out), one for a timed-out POST that is handled late; `handled`, `tries` and `result` are history |
| `EventBroker` | `get_broker`, `publish`, `subscribe`, the generator of the stream | one step for what holds the broker's lock; `pending` are the callbacks of `call_soon_threadsafe` that have not run, `queue` is the `asyncio.Queue`; `stream` is history, and frames are positions in it |
| `SchedulerLoop` | `start`, `stop`, `_loop` and `_run_cycle` with what they post and publish | `call` and `at` are per calling thread, `loop` per started thread; extends `Webhooks` and `EventBroker` |
| `StatusSurfaces` | the reads of report, status, HTML report, metrics and dashboard, `compute_status` | extends `DetectionCycle`: `view` is what a reader has read so far, one action for each transaction; `kept_alerts` and `kept_events` are history: what has been in force since it began |
| `DecisionRules` | what an agent's answer becomes: outcome, category, row | pure operators |
| `DecisionViews` | the queries of the store and what detector, drill-down and version comparison make of them | pure operators on a table |
| `DecisionLog` | ingestion, agent and the detector's windows, beside a clock | `requests` are the running requests with their place in the handler, `decisions` is the table, `seen` the last windows of each category; a write may fail, a client may retry |
| `Preflight` | `validate_batch` with every check, configuration and its defaults | pure operators; what a check finds is a set of categories |
| `CiGate` | `ci_gate.py`, `POST /governance/preflight` and the release behind them | `pc` walks through `main`; one action for each step and each exit; after exit codes 0 and 2 the version's decisions are ingested |
| `MC...` | instances for TLC | |
| `...Proofs` (eight) | theorems, section 4 | |

Composition: `PolicyDecision` implements `Judgement`; `Pipeline` uses the `Outcome` that this
justifies as one step, and implements `Snapshot`; `Bundle` embeds `Pipeline`; `DetectionCycle`
implements `RollbackLatch`; `StatusSurfaces` runs beside the cycles of `DetectionCycle`;
`SchedulerLoop` drives `Webhooks` and `EventBroker`; `CiGate` takes decisions through `Preflight`
into the categories and limits that `DecisionRules` and `GovernanceRules` give them in production.

Definitions named `Bug...` stand before some definitions. They are plausible mistakes in the code
at that place, one for each property: with the mistake in place of the definition the property fails
in the same run. They show that each property can fail, and belong to no specification.

### Abstractions

- A *content* stands for the bytes of a file and for their SHA-256 and SHA-512; digests are
  injective. Reading a file is one step, also where the code reads it in blocks.
- Whether a content is infected, flagged, dense, executable, and its type are constants. OpenPGP
  verification compares signer and content. ClamAV and VirusTotal are external.
- A configured checksum and one found in a file beside the artifact are the same to the hash stage.
  In `Bundle`, where these files may change, a stage reads its auxiliary files when it reads the
  artifact.
- Texts (reasons, evidence, messages, logs) are left out. Trace entries are kept: properties are
  about them.
- The text of a decision is the set of word lists it contains a word of, and the text of a case the
  set of categories whose patterns it matches: the order in which lists and patterns are tried is kept.
- Rates are exact percentages and scores integers. Timestamps are ticks of a clock.
- The age of cache entries is left out: a run may find any of a set of caches.
- Detection results are inputs of `DetectionCycle`. The scores the statistics yield are not modelled,
  the windows they are computed from (`DecisionLog`) and the decisions taken from them are.
- In `DetectionCycle` a webhook is sent in one step and always arrives; retries, the filter and the
  stream are in `SchedulerLoop`, where a cycle's work on the database is one step that fails or yields
  what was stored. A Python thread that `stop` has given up waiting for may still run there.
- A rollback event's number stands for its timestamp. `Newest` is the newest active event.
- Two `create` commands do not run on one directory at once.

## 3. Runs

`tlc -config <cfg> <module>`; each takes two minutes at most.

| Run (cfg) | Question | Answer |
|---|---|---|
| `policy` (`MCPolicyDecision.cfg`) | does the order of checks implement the reference verdict, under every matrix in bounds and every shipped policy? | holds: mandatory failures, requirements, sticky verdict, a trace that explains the verdict and names every rule, refinement of `Judgement` |
| `tampering` (`MCPipeline_tampering.cfg`) | is a report about one content when files are replaced or deleted and never restored? | holds, what a VERIFIED report says is true of it, and a run implements `Snapshot` |
| `reverting` (`MCPipeline_reverting.cfg`) | what is left when contents are restored? Does a run always end? | the reported digest passed the checksum test; a run ends |
| `bundle` (`MCBundle.cfg`) | interrupted and repeated creation, a copy that changes while it is verified | mixtures are refused; no two changes make the pipeline judge what is not listed; a verified report under `require_signature` is signed by a listed key; what create reports is judged |
| `one_trigger` (`MCDetectionCycle_one_trigger.cfg`) | the gate, the answers, the webhooks and the history with the scheduler as the only thread that triggers; does the scheduler go on? | a latch; answers true; only what is stored is sent; without failures all that is stored is sent; no history row above a threshold lacks its alert; the scheduler survives its cycles, and what matches a rule finds the gate held or trips it |
| `surfaces` (`MCStatusSurfaces_surfaces.cfg`) | do status, report and dashboard, read in several transactions, hide anything that is in force? | they do not; a report shows the alerts of its own cycle, and its trend is that of rows that exist |
| `scheduler` (`MCSchedulerLoop_scheduler.cfg`) | two threads that start and stop the scheduler, webhooks that time out, a client with a short queue that comes and goes | one loop; what `_send` returns is true; the stream is faithful; `stop` ends the loop; a finished cycle's frames reach a client that stays |
| `ingestion` (`MCDecisionLog_ingestion.cfg`) | retries, failures and mixed batches beside detection and a clock | requests are stored whole; windows are disjoint; a baseline was examined before; the drill-down shows the window; version comparison agrees with itself |
| `gate` (`MCCiGate_gate.cfg`) | what do the exit codes of the CI gate and the answers of the endpoint mean? | 0 exactly for sound and well-formed batches; what is released is within limits in production |
| `fatal_scan`, `double_rollback`, `lost_webhook` | statements of comments and docstrings | violated, see section 6 |

### Bounds, and why they are enough

- *policy*: matrices of at most two rules from four conditions and three verdicts: the interplay of
  a rule with the checks before and after it and with one other rule is complete. A second family
  sets every switch of a policy, one entry in the deny list, one rule. The third takes the
  four shipped policies as they are, with every combination of
  stage results. That nothing depends on the length of the matrix is proved.
- *Pipeline*: three contents that differ in every fact (good, infected and known, dense text), at
  most two changes of the file (`MaxTampers`), since a change and its effect need one and hiding it
  would need a second. Configurations vary signature, key, signer and scanner, or checksums, or network
  switches. Caches: empty, full.
- *Bundle*: two releases, an old and a new key, two calls of create (`MaxCreations`) with the old
  key, the new one or none, and two changes of the copy (`MaxChanges`): the number for which
  `JudgedIsListed` is stated. With three changes (the artifact and both checksum files) it would not
  be true; the signature is what is left then, and `VerifiedIsSigned` speaks of any changes. `create` takes no step
  after `verify` has loaded its keys (`Creating`). Releases are symmetric.
- *DetectionCycle*: one high-risk and one routine category; findings that trip the gate, that are
  below the thresholds, and that have too little data. `MaxCycles` is 2 (two cycles that trip, with a
  resolution in between, or a cycle of the scheduler beside that of a report),
  `MaxFaults` is 1. A fault is a transaction that raises, or a restart.
- *StatusSurfaces*: one reader of the status endpoint or the dashboard and one report, beside the
  scheduler and an operator, two cycles, one fault. The reads of the HTML report and of the metrics
  are part of the dashboard's, in the same order; their `Status` is the same operator.
- *SchedulerLoop*: one thread of the process makes the broker, starts and stops the scheduler, another
  starts it once more: `MaxStarts` 2. Two webhooks, one with a filter and no retry, one with a
  retry; a cycle yields an alert or a rollback (`MaxItems` 1); `MaxCycles` 2, a queue of two frames
  for the up to six that are published, so that it overflows; `MaxFailures` 1. The safety
  properties are proved for all values of these constants.
- *DecisionLog*: a clock of four ticks, windows of two ticks after an exclusion of two
  (`WindowAssumption`: the exclusion is at least as long as the detection window, as in the
  shipped configuration), two requests from seven kinds of submission, each sent at most twice, one failing write.
  Decisions may be older than their request, in the future, malformed, or of a category without detection.
- *CiGate*: batches of up to three runs of 1, 6 or 10 alike decisions of nine kinds, so that minimum
  sizes of 5 and 10 and ceilings of 10 to 15 percent are met and missed in every combination; limits from
  the code, from a file, and overridden; each failure of a file, an argument, a variable or an output.

### Fairness

- `Pipeline!FairSpec` has `WF_vars(Run)`: the process keeps running. That is justified because none
  of its steps waits for something without a limit: the scanner runs under `run_safe`'s timeout, the
  HTTP client has one, and file operations return. Nothing is assumed of the environment.
- `DetectionCycle!FairSpec` has weak fairness of the work of scheduler threads, as `_loop` runs
  until it is stopped and catches every exception of a cycle. Requests, operators and restarts have
  none.
- `SchedulerLoop!FairSpec` has weak fairness of a started thread, since its waits (`stop_event.wait`,
  the timeout and the back-off of a POST) are limited, and of the two callbacks of a client's
  event loop that put into the queue and take from it. Threads that call `start` and `stop`, new
  clients, and POSTs that are still on their way have none.

Deadlock is checked in `ingestion` and `gate`, where models end in a state that repeats itself. In
the other runs it is not: a pipeline run exits, threads finish their programs, and the models
come to the end of their bounds, with nothing wrong about it.

## 4. Proofs

Everything below is checked by `tlapm` for all values of the constants, from the named assumptions
(`CasesAssumption`, `ContentAssumption`, `ConfigAssumption`, `BundleAssumption`, `FilesAssumption`,
`RulesAssumption`, `CycleAssumption`, `HookAssumption`, `QueueAssumption`, `LoopAssumption`,
`SurfaceAssumption`, `OneResultOfEach`, `GateAssumption`, `WindowAssumption`, `PayloadAssumption`,
`BoundAssumption`), which TLC evaluates in the runs. They give types to constants and exclude names
that would clash. Two say more. `WindowAssumption` has the exclusion at least as long as the detection
window. `OneResultOfEach` has no category twice among the results of a detection: `detector.py:47-55`
goes through the configured categories and then through `routine`, so that this holds unless the file
names a category twice, which `validate` does not refuse.

**PolicyDecisionProofs.** `TypeCorrect`, `MandatoryChecksAlwaysFail`, `RequirementsAlwaysHonoured`,
`VerdictIsSticky`, `TraceAlwaysExplains` and `Refinement` (of `Judgement`), for matrices of every
length. The properties speak of the returned verdict only and are not inductive. `VerdictSoFar` says
for each point of the evaluation what the verdict must be there: after the matrix, either a rule was
the first to match and gave it, or no rule matches and it is that of the policy-level checks already
made. At the end this is `Outcome`, and the properties follow from it. `TraceSoFar` says the same of
the trace: its first deciding entry carries the verdict so far, an undecided trace has none, and
each rule walked has left its entry in its place.

The same module has `VerifiedAlwaysClean`, for every set of file types and all results. No shipped
matrix has a rule that says VERIFIED (`NoRuleVerifies`), so a VERIFIED comes from the last of the
policy-level checks (`VerifiedByDefault`); each policy's own flags and rules do the rest.

**PipelineProofs.** `RunsAreTyped` and `ReportedDigestsAreExpected` beside every environment;
`OneContentReports`, `VerifiedFactsAlwaysHold` and `RunsAreSnapshots` assuming `~MayRevert`, for any
number of changes. The invariant `Coherent` says that everything read so far is of the acquired
content, or the file has left that content; as nothing restores it, the next check halts the run.
The properties alone are not inductive, as in the middle of a run a stage may have read a replaced
file. `Truthful` says that each result so far is what its stage says of the acquired content, unless
the file has left it, and that a reputation is an answer for the reported digest. `HashTested` says
that `hash_sha256`, once set, passed the checksum test. The refinement maps every step before the
report to a stutter of `Snapshot`.

**BundleProofs.** `TypeCorrect`, `AcceptedIsReported`, `JudgedAlwaysListed`, `CreatedAlwaysJudged` and
`VerifiedAlwaysSigned`, for any contents, keys, jobs, runs, creations, interruptions and changes; the
last one assumes `NoRuleVerifies`, as a matrix rule may answer VERIFIED without a signature.
`RunIsStep` first restates the embedded pipeline in the terms of the bundle. `CreateInv` says what is
written at each step of `create` (`Written`), and that a signed manifest in its directory, also in one
that a later `create` left half overwritten, is that of a reported bundle (`Original`). `VerifyInv`
says that an unchanged copy is as listed where it was looked at (`Unchanged`), and counts: each of the
artifact and its two checksum files that was found as listed and is no longer (`Lost`) took a change.
If the hash stage accepts something else, all three are lost, hence three changes. `Coherent` is as in
`PipelineProofs`, with a smaller environment: a changed file is lost or is the one of `create`'s
directory, so that the acquired content does not come back (`Gone`). `SignedInv` and `WholeInv` carry
the signature and the absence of errors through the run.

**DetectionCycleProofs.** `TypeCorrect`, `GateHoldsOneEvent`, `RepliesAreTrue`,
`NothingSentUnstored` and `Refinement` (of `RollbackLatch`), for any number of threads, operators,
cycles, faults, categories and rules, assuming `OneTrigger`: one thread only runs the code that
triggers rollbacks. The run `double_rollback` shows what happens without it. `AtMostOneActive` is
not inductive: the check was made two steps before the event is stored. `Open` says that the gate
stays open in between, `Fresh` that the event is new, `Unused` that larger numbers are not in use;
`Room` bounds the event numbers by the cycles. `Holds` says that the event the engine found is the
one the handler read, unless that one is resolved; this makes the answer true.

`HistoryAlwaysHasAlerts` and `AnnouncedAlways` do not need `OneTrigger`. The history is written
after the alerts: `OwnCycles` says that no two threads share a cycle and `Progress` that a thread
which has passed the alerts has stored one for each result above a threshold. `AnnouncedInv` says
that, as long as nothing has failed, a thread which has sent its alerts has sent every alert of its
cycle: no other thread stores one.

**SchedulerLoopProofs.** `OneLoopAlways`, `SendsAreTrue` and `StreamIsFaithful`, for any callers and
programs, webhooks, clients, outcomes and bounds. `ThreadInv` has the argument for one loop: there
is one broker and the scheduler has it (`OneBroker`); only the newest thread can be alive
(`OnlyNewest`); from the test of `start` to the start of the thread the caller holds the lock and no
thread is alive (`UnderLock`). `FrameInv` says that the frames published and those the loop still
has to publish are one sequence in order, which ends with the last cycle counted; with two loops it
would not hold. `SendInv` knows how often the current webhook was tried (`InTurn`) and that what
comes later was not tried at all (`Untried`). `ClientInv` says that what is on its way to a client
is the end of the stream without a gap (`Consecutive`), that it is registered as long as it is
connected (`Registered`), and that what is received, queued and pending is in order, with a gap only
after a full queue (`Ordered`).

**StatusSurfaceProofs.** `InForceAlwaysShown`, for any threads, readers, surfaces, cycles and
failures; `OneTrigger` is not needed. The property speaks of answers only. `InForceInv` says it of
every read: what has been in force since a viewer began is in force now (`StillInForce`), and each
read that viewer has made covers it (`ReadsCover`), because it can only shrink after the read. The
status endpoint asks for the newest active event only; that there is one whenever any event is
active (`NewestExists`) needs that every set of numbers has a least element.

`ReportAlwaysComplete`, as general. A report takes three reads after its own cycle, while other
cycles store rows and alerts, and operators acknowledge them. `ReportInv` says that its thread waits
at the end of its cycle (`Told`), so that `HistoryInv` has all its alerts and rows stored, and that
what has been told of each result stays true: an alert is never taken back or un-acknowledged
(`AlertsStay`), and a row keeps its score (`TrendStays`, with `FindingsInv`: a cycle that has rows is
not begun again). When the trends are read, the report's own row is among the newest `HistoryLimit` or
newer ones fill them; either way the newest row with data (`NewestTwo`) is not older than its own.

**CiGateProofs.** `ExitCodeAlwaysTrue`, for batches of every length, all configurations, overrides
and failures. The property speaks of the end; `GateInv` says at each step which failures are behind
it (`Survived`), that the limits in force are those of the file or the code with the overrides read
so far (`InForce`), and that the report is that of this batch under these limits. `GateIsSound` then
shows that `validate_batch`, with its own grouping and its own copy of the outcome heuristic,
accepts exactly the batches that are `Sound`.

`AlwaysSafeInProduction`, as general. `ReleaseInv` says that a release had a report without
violations, if it had a report, and that production holds what ingestion makes of the batch
(`ProductionOf`). The gate checked each group under the name it came with, while ingestion gathers
names outside the enumeration in one category. `StoredTogether` says which rows that are, and
`RateOfAll` that a ceiling kept by every group is kept by their union: of the unions that break it,
the smallest would have a group that breaks it.

**DecisionLogProofs.** `LogTypesAlways`, `AlwaysAllOrNothing`, `WindowsAlwaysDisjoint`,
`BaselineAlwaysExamined`, `DrillDownAlwaysExplains` and `VersionsAlwaysConsistent`, for any
submissions, retries, failing writes, monitored categories, window lengths and sizes. `LogInv` types
table and requests and ties each row to its request and to the time it arrived (`Traced`).
`AtomicInv` adds that a request whose transaction has not ended or has failed has no rows (`Unstored`). `WindowInv`
has the argument for the windows. The two windows of a category are read at different times while
rows arrive: `BaselineBehind` says that the baseline read first ends before the detection window can
begin, by the clock, or in count windows because there were enough newer rows, and rows are only added.
`Visited` bounds the time between two visits and `Watching` says that a decision which came in time
was in a detection window unless it arrived after the last visit; `VisitExamines` then moves it into
the next one before the exclusion ends. The queries count: `Numbering` shows that the sizes of what
precedes each row number the rows without a gap, so that a query with a limit returns that many or all.

**Only model-checked:** the four liveness properties (`Terminates`, `SchedulerGoesOn`,
`StopEndsLoop`, `CyclesReachClients`), since liveness under fairness and `ENABLED` are out of the
prover's reach. Every safety property of a passing run has a theorem. What the theorems do not cover
is what they assume: more than one triggering thread for the gate (`double_rollback`), restored
files (`reverting`). Inductions whose step is a parameter of a library theorem cannot be
instantiated. For that reason no module here has a RECURSIVE operator: the matrix is walked by the
actions and its first match is defined by a quantifier, and sums over groups use a smallest
counterexample (`WFMin`).

## 5. What the properties say

A reader short of time should look at these:

- `RequirementsHonoured`, `TraceExplainsVerdict` (`PolicyDecision`): the only two ways to VERIFIED,
  and that the trace shows which one was taken.
- `ReportIsAboutOneContent` and `SnapshotSpec` (`Pipeline`): the mutation checks do their work if
  nobody restores a replaced file. Restoring it within one stage goes unnoticed; `reverting` says
  what then remains.
- `AcceptedIsOneCreation`, `JudgedIsListed`, `VerifiedIsSigned`, `CreatedIsJudged` (`Bundle`). The
  first leaves out keys: `create` never removes a key of an earlier bundle from `trusted_keys`, and
  `verify` does not look at files that are not listed, so keys of an interrupted creation stay in an
  accepted bundle. `VerifiedIsSigned` says why this is harmless under `require_signature`:
  `allow_signers` decides, unless a matrix rule answers VERIFIED; no policy of the run has one.
- `LatchSpec`, `ReplyIsTrue`, `SchedulerGoesOn` (`DetectionCycle`): whatever fails and whoever
  resolves, with one triggering thread.
- `HistoryHasAlerts` (`DetectionCycle`): the order alerts, then history, under failures.
- `InForceIsShown` (`StatusSurfaces`): readers take several transactions, and an alert or a rollback
  that was in force all the while is in their answer. `ReportIsComplete`: a report shows what its
  own cycle found; its trend may be that of a later cycle of another thread, but of rows that exist.
- `OneLoop`, `StopEndsLoop` (`SchedulerLoop`): `stop` sets its event without the lock and gives up
  after a timeout; still there is one loop and it ends.
- `SendIsTrue` (`Webhooks`): what `_send` returned, although a receiver may handle what it timed out
  on; `StreamFaithful` (`EventBroker`): order and gaps of the stream; `CyclesReachClients`: the
  frames of a stored cycle are published although webhooks fail or `stop` is called.
- `AllOrNothing`, `WindowsDisjoint`, `BaselineWasExamined`, `DrillDownExplains`,
  `VersionsConsistent` (`DecisionLog`). The last says that the decisions shown for a version are
  those it is judged by, unless it has more than were asked for. The second depends on an exclusion
  at least as long as the detection window, which `validate` does not ask for; the third on
  decisions that arrive in time and on a cycle in every `Period`, shorter than the detection window.
- `ExitCodeIsTrue` (`CiGate`): excepts usage errors, which also exit with 2. `SafeInProduction`
  excepts decisions whose category is none of the service's (`Foreign`): they are checked under
  their own name and stored under another.

## 6. Where code and documentation disagree

Shown by a run:

1. `fatal_scan`: `config.rs:49` says that with `malware_failure_is_fatal` the "inability to run the
   malware scanner is FAILED". In the shipped `airgapped.yaml` the rule for high entropy comes first
   and answers UNVERIFIED; the check for the scanner then only writes a trace entry.
2. `double_rollback`: `rollback.py:77` "Skips if a rollback is already active"; the scheduler and
   `POST /scheduler/run-now` can both pass the check before either stores its event.
3. `lost_webhook`: `scheduler.py:29`: each cycle dispatches "webhooks for new alerts and rollback
   events"; if storing the history raises after the event was stored, it is never announced.

Noticed while reading, without a run. In veriscan:

- `orchestrator.rs:8-9` says a mutation "is an immediate FAILED". The code returns an error, and the
  process exits with 99 without a report (as `docs/controls/nist_800_161.md:43` says).
- `config.rs:27-28` asks for "at least one checksum file"; `hash.rs:208` asks for one for each
  algorithm.
- `config.rs:83-84`: `allow_signers` is enforced "when non-empty"; with `require_signature` an empty
  list refuses every signer. The strict policies ship with an empty list, so none of their
  signatures is Verified until it is filled.
- `config.rs:40-41`, `:58-59` and `:163-164` describe `reputation_failure_is_fatal`,
  `malware_tool_path` and `BlockUnsigned` as depending on settings that the code does not consult,
  or not that way.
- `SECURITY.md` 4.2 says an error in a stage produces UNVERIFIED or FAILED; outside the hash stage
  it is exit code 99, as `README.md` documents. It also says that no option lets VERIFIED through
  when a check cannot be completed; without `malware_scan_required` a missing scanner does not
  prevent it.
- `docs/architecture.md:344-352`: the checks compare with the baseline after a stage; a file
  replaced and restored within one stage passes.
- `bundle.rs:394-395`: without a signing key "the manifest.sig step later will also fail"; it is
  skipped in the same way, and `create` reports success. `verify` refuses that bundle.

In the governance service:

- `ci_gate.py:12` "3 — Usage / config error": `argparse` exits with 2 on a usage error, which reads
  as WARNING. A file that cannot be decoded, a YAML error and a list item that is no object are not
  caught: exit code 1, which reads as BLOCKED.
- `GOVERNANCE_MAX_ERROR_RATE=nan` is a number to `float`, and no rate is above it.
  `_clamp_confidence` makes NaN 1.0.
- `app.py:427` "Mark the active rollback as resolved": of two requests at once the second overwrites
  the resolution the first made, since the `UPDATE` of `store.py:482` does not ask whether there is
  one.
- `status.py:8` "Every surface now delegates here": `app.py:376-385` does not; and the status
  ignores the error ceiling, so that a category whose alert is critical because of its error rate
  may count as healthy in a report.
- `alerts.py:12` "deduplicates": there is no deduplication. `events.py:29` "older events dropped
  when full": new ones are, as `events.py:37` says.
- `governance.yaml:72` "Error rate on any high-risk category exceeds 15%" and the like: a rollback
  needs sufficient data as well.
- `app.py` notes "Metrics within ±5%" for STABLE also when resolutions improved by more but errors
  increased by less.
- `get_category_history` counts the rows it returns as `total_detection_cycles`, and returns at most
  `limit`.
- `start` does nothing while the thread of a stopped scheduler finishes its last cycle, and nothing
  is started later.
- Two webhooks with the same URL share one entry of the dictionary that `dispatch_alert` returns.
- A client that retries stores its decisions twice: a request carries no key. A failed single
  decision is answered as rejected.
- `serve.py` uses the built-in limits when the file is missing, but ends when it cannot be parsed.
  `validate` never looks at the time windows.

## 7. Plan

What is left, in the order of its worth:

1. `ReputationCache`: entries with their age across runs, so that an expired entry is never an
   answer.
2. A run of `DecisionLog` with several monitored categories; the proofs cover any number.

## 8. Not modelled, and why

- Parsing and formatting (YAML, JSON, checksum files, reports, evidence, HTML, the terminal
  dashboard): they decide nothing once parsed. Path containment in bundles: names are model values.
- Entropy, magic bytes, string extraction, and the drift statistics: arithmetic on bytes and floats.
- `report.rs` and the writing of reports: failures are logged and change no verdict.
- `util/net.rs`, `error.rs`, `util/time.rs`: a client builder, an enumeration, a clock.
- Prompts and the call of the language model; the health check and the endpoints that only repeat a
  single query (`/metrics`, the lists of drift history and of alerts, the scheduler's status).
  Demos, documents and tests.

---------------------------- MODULE DecisionLog ----------------------------
(***************************************************************************)
(* Decisions on their way into the governance service and into the windows *)
(* that drift detection compares, under src/ai-governance-mvp/src: the     *)
(* endpoints POST /decisions and /decisions/batch (api/app.py), the agent  *)
(* wrapper (governance/agent.py), the ingestor and the store (ingestion/), *)
(* and the reads of the detector (detection/detector.py).                  *)
(*                                                                         *)
(* The clock ticks between any two steps.  Every read and every write is   *)
(* one transaction; a write may fail.  A client that got no answer may     *)
(* send its submission again while the first request is still running.     *)
(***************************************************************************)
EXTENDS DecisionViews

CONSTANTS Submissions,      \* what clients submit, each with its decisions
          Payload,          \* Submissions -> what is sent
          PatternOrder,     \* categories with patterns, in the order they are tried
          Monitored,        \* categories detection visits, in its order
          Lookback, Exclusion, Detection,   \* time windows, in ticks
          BaselineSize, DetectionSize,      \* count windows
          MinBaseline, MinDetection,        \* samples needed for a result
          Period,           \* the longest time between two visits of a category
          MaxTime, MaxRequests, MaxAttempts, MaxFaults   \* bounds

ASSUME WindowAssumption ==
  /\ Lookback \in Nat /\ Detection \in Nat /\ Period \in Nat \ {0}
  /\ Exclusion \in Nat /\ Detection <= Exclusion
  /\ BaselineSize \in Nat /\ DetectionSize \in Nat
  /\ Monitored \in Seq(CaseCategories) /\ Monitored # <<>>

\* A decision as the request model takes it; fits says that its other fields do.
DecisionIn == [fits : BOOLEAN, category : STRING, outcome : STRING, age : Int,
               text : SUBSET CaseCategories, version : STRING]

ASSUME PayloadAssumption ==
  /\ PatternOrder \in Seq(CaseCategories)
  /\ \A s \in Submissions :
       /\ Payload[s].via \in {"single", "batch"} =>
            Payload[s].decisions \in Seq(DecisionIn) /\ Payload[s].decisions # <<>>
       /\ Payload[s].via = "single" => Len(Payload[s].decisions) = 1
       /\ Payload[s].via = "agent" =>
            /\ Payload[s].version \in STRING
            /\ Parses(Payload[s].answer) => Payload[s].answer.words \in Words

ASSUME BoundAssumption ==
  /\ MaxTime \in Nat /\ MaxRequests \in Nat /\ MaxAttempts \in Nat /\ MaxFaults \in Nat
  /\ \A s \in Submissions : Payload[s].via \in {"single", "batch", "agent"}

VARIABLES now,
          use_time_windows, \* the configuration's choice of windows
          requests,         \* every request received, in order
          decisions,        \* the table
          visiting,         \* detection: position in Monitored, 0 between cycles
          baseline, counted,\* the baseline just read and of how many rows, -1 before that
          results,          \* of the cycle, so far
          seen,             \* per category: the last detection window and when it was read
          examined,         \* per category: rows that were in a detection window
          call_count, error_count,          \* of the agent
          faults

clock     == <<now, use_time_windows>>
log       == <<requests, decisions>>
detection == <<visiting, baseline, counted, results, seen, examined>>
agent     == <<call_count, error_count>>
vars      == <<clock, log, detection, agent, faults>>

Watched == {Monitored[k] : k \in DOMAIN Monitored}

Init == /\ now = 0
        /\ use_time_windows \in BOOLEAN
        /\ requests = <<>>
        /\ decisions = <<>>
        /\ visiting = 0
        /\ baseline = {} /\ counted = -1
        /\ results = <<>>
        /\ seen = [c \in Watched |-> [ids |-> {}, at |-> 0]]
        /\ examined = [c \in Watched |-> {}]
        /\ call_count = 0 /\ error_count = 0
        /\ faults = 0

\* Time passes, but no longer than Period without a visit to every category.
Tick == /\ now < MaxTime
        /\ \A c \in Watched : now - seen[c].at < Period
        /\ now' = now + 1
        /\ UNCHANGED <<use_time_windows, log, detection, agent, faults>>

----------------------------------------------------------------------------
\* Requests.

Attempts(s) == {r \in DOMAIN requests : requests[r].submission = s}

MaySend(s) == /\ Len(requests) < MaxRequests
              /\ Cardinality(Attempts(s)) < MaxAttempts
              /\ \A r \in Attempts(s) : requests[r].stage \in {"received", "committed", "failed"}

\* A decision of a request: its timestamp is the client's or the time of arrival.
DecisionInToSchema(d) ==
  [category  |-> Categorize(IF d.category \in CaseCategories THEN d.category ELSE "unknown",
                            d.text, PatternOrder),
   outcome   |-> d.outcome,
   timestamp |-> now - d.age,
   version   |-> d.version]

\* validate: the request model has checked the rest.
Valid(row) == row.timestamp <= now

\* Invalid decisions are left out of rows; the others keep their order.
Place(kept, n) == CHOOSE i \in kept : Cardinality({j \in kept : j < i}) = n - 1
Accept(rows)   == LET kept == {i \in DOMAIN rows : Valid(rows[i])}
                  IN  [n \in 1..Cardinality(kept) |-> rows[Place(kept, n)]]

Received(s, rows) == Append(requests, [submission |-> s, stage |-> "received",
                                       rows |-> Accept(rows),
                                       rejected |-> Len(rows) - Len(Accept(rows)),
                                       accepted |-> 0, at |-> now])
Ended(s, stage, rejected) == Append(requests, [submission |-> s, stage |-> stage, rows |-> <<>>,
                                               rejected |-> rejected, accepted |-> 0,
                                               at |-> now])

Acceptable(d) == d.fits /\ d.outcome \in DecisionOutcomes

\* POST /decisions and /decisions/batch: one unacceptable decision refuses the request.
Refuse(s) == /\ MaySend(s)
             /\ Payload[s].via \in {"single", "batch"}
             /\ \E i \in DOMAIN Payload[s].decisions : ~Acceptable(Payload[s].decisions[i])
             /\ requests' = Ended(s, "refused", 0)
             /\ UNCHANGED <<clock, decisions, detection, agent, faults>>

Receive(s) == LET sent == Payload[s].decisions
                  rows == [i \in DOMAIN sent |-> DecisionInToSchema(sent[i])] IN
              /\ MaySend(s)
              /\ Payload[s].via \in {"single", "batch"}
              /\ \A i \in DOMAIN sent : Acceptable(sent[i])
              /\ requests' = IF Payload[s].via = "single" /\ ~Valid(rows[1])
                             THEN Ended(s, "answered", 1) ELSE Received(s, rows)
              /\ UNCHANGED <<clock, decisions, detection, agent, faults>>

\* decide: the model's answer does not parse.
DecideFails(s) == /\ MaySend(s)
                  /\ Payload[s].via = "agent"
                  /\ ~Parses(Payload[s].answer)
                  /\ call_count' = call_count + 1
                  /\ error_count' = error_count + 1
                  /\ requests' = Ended(s, "refused", 0)
                  /\ UNCHANGED <<clock, decisions, detection, faults>>

\* decide_and_ingest.
Decide(s) == LET d == ToAgentDecision(Payload[s].answer) IN
             /\ MaySend(s)
             /\ Payload[s].via = "agent"
             /\ Parses(Payload[s].answer)
             /\ call_count' = call_count + 1
             /\ requests' = Received(s, <<[category |-> Categorize(d.category, d.text, PatternOrder),
                                           outcome |-> d.outcome, timestamp |-> now,
                                           version |-> Payload[s].version]>>)
             /\ UNCHANGED <<clock, decisions, detection, error_count, faults>>

Row(r, i) == LET row == requests[r].rows[i] IN
             [category |-> row.category, outcome |-> row.outcome, timestamp |-> row.timestamp,
              version |-> row.version, request |-> r, arrived |-> now]

\* Mistake to detect: the rows of a batch are stored one transaction each.
BugCommit(r) ==
  /\ requests[r].stage = "received"
  /\ \E k \in 0..Len(requests[r].rows) :
       /\ decisions' = decisions \o [i \in 1..k |-> Row(r, i)]
       /\ requests' = [requests EXCEPT ![r].stage = "committed",
                                       ![r].accepted = Len(requests[r].rows)]
  /\ UNCHANGED <<clock, detection, agent, faults>>

\* store_decision, store_decisions_batch: all rows of a request in one transaction.
Commit(r) ==
  /\ requests[r].stage = "received"
  /\ decisions' = decisions \o [i \in DOMAIN requests[r].rows |-> Row(r, i)]
  /\ requests' = [requests EXCEPT ![r].stage = "committed",
                                  ![r].accepted = Len(requests[r].rows)]
  /\ UNCHANGED <<clock, detection, agent, faults>>

\* The transaction is rolled back: a single decision counts as rejected, a batch is
\* answered 500, the agent raises.
StoreFails(r) == /\ requests[r].stage = "received"
                 /\ requests[r].rows # <<>>
                 /\ faults < MaxFaults
                 /\ faults' = faults + 1
                 /\ requests' = [requests EXCEPT ![r].stage = "failed",
                                                 ![r].rejected = @ + Len(requests[r].rows)]
                 /\ UNCHANGED <<clock, decisions, detection, agent>>

\* The client gets the answer.
Answer(r) == /\ requests[r].stage \in {"committed", "failed"}
             /\ requests' = [requests EXCEPT ![r].stage = "answered"]
             /\ UNCHANGED <<clock, decisions, detection, agent, faults>>

----------------------------------------------------------------------------
\* Detection.

Category == Monitored[visiting]

\* run_detection begins.
BeginCycle == /\ visiting = 0
              /\ visiting' = 1
              /\ results' = <<>>
              /\ UNCHANGED <<clock, log, baseline, counted, seen, examined, agent, faults>>

\* detect_category reads the baseline, at the time of the clock ...
ReadBaseline ==
  /\ visiting > 0
  /\ counted = -1
  /\ counted' = Cardinality(Of(decisions, Category))
  /\ baseline' = IF use_time_windows
                 THEN BaselineWindow(decisions, Category, now, Lookback, Exclusion)
                 ELSE Oldest(decisions, Of(decisions, Category), BaselineSize)
  /\ UNCHANGED <<clock, log, visiting, results, seen, examined, agent, faults>>

Recent == IF use_time_windows THEN DetectionWindow(decisions, Category, now, Detection)
                            ELSE Newest(decisions, Of(decisions, Category), DetectionSize)

\* No result without data; without enough data a result that says so.
DetectCategory(recent) ==
  LET enough == Cardinality(baseline) >= MinBaseline /\ Cardinality(recent) >= MinDetection IN
  IF baseline = {} /\ recent = {} THEN <<>>
  ELSE <<[category |-> Category, insufficient_data |-> ~enough,
          baseline |-> baseline, recent |-> recent, counted |-> counted]>>

\* ... and the detection window, at the time of the clock again; then it moves on.
ReadRecent ==
  /\ visiting > 0
  /\ counted # -1
  /\ results' = results \o DetectCategory(Recent)
  /\ seen' = [seen EXCEPT ![Category] = [ids |-> Recent, at |-> now]]
  /\ examined' = [examined EXCEPT ![Category] = @ \cup Recent]
  /\ visiting' = IF visiting < Len(Monitored) THEN visiting + 1 ELSE 0
  /\ baseline' = {} /\ counted' = -1
  /\ UNCHANGED <<clock, log, agent, faults>>

Next == \/ Tick
        \/ \E s \in Submissions : Refuse(s) \/ Receive(s) \/ DecideFails(s) \/ Decide(s)
        \/ \E r \in DOMAIN requests : Commit(r) \/ StoreFails(r) \/ Answer(r)
        \/ BeginCycle \/ ReadBaseline \/ ReadRecent

Spec == Init /\ [][Next]_vars

----------------------------------------------------------------------------
Stored(r) == {i \in DOMAIN decisions : decisions[i].request = r}

\* A detection window never holds part of a request: nothing but whole requests are stored,
\* and an answer that counts decisions counts rows, whatever failed meanwhile.
AllOrNothing ==
  \A r \in DOMAIN requests :
    /\ Stored(r) # {} => Cardinality(Stored(r)) = Len(requests[r].rows)
    /\ requests[r].accepted = Cardinality(Stored(r))

\* In time windows, and in count windows once there are enough decisions, no decision is
\* compared with itself, although the two windows are read at different times while
\* decisions of any age arrive.
WindowsDisjoint ==
  \A k \in DOMAIN results :
    use_time_windows \/ results[k].counted >= BaselineSize + DetectionSize
      => results[k].baseline \cap results[k].recent = {}

\* What a baseline is made of was watched first: a decision that came in time was in a
\* detection window before it could be in a baseline, so that drift is not learned unseen
\* (config.py:81).
BaselineWasExamined ==
  use_time_windows =>
    \A k \in DOMAIN results : \A i \in results[k].baseline :
      decisions[i].arrived - decisions[i].timestamp <= Detection - Period
        => i \in examined[results[k].category]

\* "Drill down into the individual decisions that drove a drift alert" (app.py:732): asked
\* for the hours since the window began, the drill-down shows every decision of the last
\* detection window, unless it shows as many as were asked for.
DrillDownExplains ==
  use_time_windows =>
    \A c \in DOMAIN seen : \A limit \in {2, 5} :
      LET answer == GetCategoryDecisions(decisions, c, now, Detection + now - seen[c].at, "",
                                         limit)
      IN  seen[c].ids \subseteq answer.decisions \/ answer.stats.n = limit

\* A version that improves on another is one the other degrades from, a version is stable
\* against itself, and the decisions shown for a version are those it is judged by, unless
\* it has more than were asked for.
Compare(v, w) == CompareVersions(VersionSummary(decisions, v), VersionSummary(decisions, w))
VersionsConsistent ==
  LET summaries == ListAgentVersions(decisions) IN
  \A v \in DOMAIN summaries :
    /\ Compare(v, v) \in {"STABLE", "INSUFFICIENT_DATA"}
    /\ \A limit \in {2, 100} :
         LET shown == GetVersionDecisions(decisions, v, "", limit).stats
         IN  shown = summaries[v] \/ (shown.n = limit /\ limit < summaries[v].n)
    /\ \A w \in DOMAIN summaries : Compare(v, w) = "IMPROVED" => Compare(w, v) = "DEGRADED"
=============================================================================

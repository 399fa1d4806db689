--------------------------- MODULE DecisionViews ---------------------------
(***************************************************************************)
(* What the queries of the decision store return                           *)
(* (src/ai-governance-mvp/src/ingestion/store.py) and what the reading     *)
(* endpoints of api/app.py and the detector make of it.                    *)
(*                                                                         *)
(* table is a function from row numbers, in the order of insertion, to     *)
(* [category, outcome, timestamp, version, request].  The index on         *)
(* category and timestamp is read forwards or backwards, so that rows of   *)
(* one timestamp come in the order of insertion or in its reverse.         *)
(***************************************************************************)
EXTENDS DecisionRules

Of(table, category) == {i \in DOMAIN table : table[i].category = category}

\* get_baseline_decisions: ORDER BY timestamp ASC LIMIT k.
Oldest(table, ids, k) ==
  {i \in ids : Cardinality({j \in ids : \/ table[j].timestamp < table[i].timestamp
                                        \/ /\ table[j].timestamp = table[i].timestamp
                                           /\ j < i}) < k}

\* get_recent_decisions: ORDER BY timestamp DESC LIMIT k.
Newest(table, ids, k) ==
  {i \in ids : Cardinality({j \in ids : \/ table[j].timestamp > table[i].timestamp
                                        \/ /\ table[j].timestamp = table[i].timestamp
                                           /\ j > i}) < k}

\* Mistake to detect: a window includes its end.
BugInWindow(table, category, start, end) ==
  {i \in Of(table, category) : start <= table[i].timestamp /\ table[i].timestamp <= end}

\* get_decisions_in_window: [start, end).
InWindow(table, category, start, end) ==
  {i \in Of(table, category) : start <= table[i].timestamp /\ table[i].timestamp < end}

\* get_baseline_window and get_detection_window, at a time of the clock.
BaselineWindow(table, category, now, lookback, exclusion) ==
  InWindow(table, category, now - lookback, now - exclusion)

\* Mistake to detect: a decision as old as the window is left out.
BugDetectionWindow(table, category, now, hours) ==
  {i \in Of(table, category) : now - hours < table[i].timestamp /\ table[i].timestamp < now}

DetectionWindow(table, category, now, hours) == InWindow(table, category, now - hours, now)

\* Mistake to detect: the drill-down stops where the detection window starts.
BugDrillDownIds(table, category, now, hours, outcome, limit) ==
  Newest(table, {i \in Of(table, category) : table[i].timestamp > now - hours}, limit)

\* get_decisions_for_drill_down; outcome "" does not filter.
DrillDownIds(table, category, now, hours, outcome, limit) ==
  Newest(table, {i \in Of(table, category) : /\ table[i].timestamp >= now - hours
                                             /\ outcome \in {"", table[i].outcome}}, limit)

\* GET /governance/categories/{category}/decisions.
GetCategoryDecisions(table, category, now, hours, outcome, limit) ==
  LET ids == DrillDownIds(table, category, now, hours, outcome, limit) IN
  CASE category \notin CaseCategories -> [status |-> 404]
    [] category \in CaseCategories /\ outcome \notin DecisionOutcomes \cup {""} -> [status |-> 422]
    [] OTHER -> [status |-> 200, decisions |-> ids, stats |-> CategoryStats(table, ids)]

OfVersion(table, version) == {i \in DOMAIN table : table[i].version = version}

\* get_version_summary; no rows, no summary.
VersionSummary(table, version) == CategoryStats(table, OfVersion(table, version))

\* GET /governance/versions: a summary of each version that has decisions.
ListAgentVersions(table) ==
  [v \in {table[i].version : i \in DOMAIN table} |-> VersionSummary(table, v)]

\* GET /governance/versions/{version}/decisions; category "" does not filter.
GetVersionDecisions(table, version, category, limit) ==
  LET rows == {i \in OfVersion(table, version) : category \in {"", table[i].category}}
      ids  == Newest(table, rows, limit)
  IN  CASE category \notin CaseCategories \cup {""} -> [status |-> 404]
        [] category \in CaseCategories \cup {""} /\ OfVersion(table, version) = {} ->
             [status |-> 404]
        [] OTHER -> [status |-> 200, decisions |-> ids, stats |-> CategoryStats(table, ids)]

MinSample == 5

\* The rate of b minus the rate of a, times both sizes, in percent.
Delta(a, b, field) == 100 * (b[field] * a.n - a[field] * b.n)

\* Mistake to detect: a lower resolution rate is weighed against the candidate's size only.
BugCompareVersions(a, b) ==
  CASE a.n = 0 \/ b.n = 0 -> "404"
    [] a.n > 0 /\ b.n > 0 /\ (a.n < MinSample \/ b.n < MinSample) -> "INSUFFICIENT_DATA"
    [] OTHER -> IF Delta(a, b, "error") > 5 * a.n * b.n THEN "DEGRADED"
                ELSE IF Delta(a, b, "resolved") > 5 * a.n * b.n THEN "IMPROVED" ELSE "STABLE"

\* compare_versions: a is the version in use, b the candidate.
CompareVersions(a, b) ==
  LET margin   == 5 * a.n * b.n
      degraded == Delta(a, b, "error") > margin \/ Delta(a, b, "resolved") < -margin
      improved == Delta(a, b, "resolved") > margin /\ Delta(a, b, "error") <= 0
  IN  CASE a.n = 0 \/ b.n = 0 -> "404"
        [] a.n > 0 /\ b.n > 0 /\ (a.n < MinSample \/ b.n < MinSample) -> "INSUFFICIENT_DATA"
        [] a.n >= MinSample /\ b.n >= MinSample /\ degraded -> "DEGRADED"
        [] a.n >= MinSample /\ b.n >= MinSample /\ ~degraded /\ improved -> "IMPROVED"
        [] a.n >= MinSample /\ b.n >= MinSample /\ ~degraded /\ ~improved -> "STABLE"
=============================================================================

--------------------------- MODULE StatusSurfaces ---------------------------
(***************************************************************************)
(* The surfaces that say how the agent is doing, beside detection cycles   *)
(* and operators: GET /governance/report, whose cycle is one of            *)
(* DetectionCycle, GET /governance/status, GET /governance/report/html,    *)
(* GET /prometheus/metrics and the terminal dashboard (api/app.py,         *)
(* api/html_report.py, dashboard/dashboard.py and governance/status.py of  *)
(* src/ai-governance-mvp/src).                                             *)
(*                                                                         *)
(* A surface reads the store in several transactions, each a step here,    *)
(* and derives its answer from what they returned.                         *)
(***************************************************************************)
EXTENDS DetectionCycle, FiniteSets

CONSTANTS Clients,          \* who asks for a surface
          Surfaces,         \* which of them they ask for
          HistoryLimit      \* rows of drift_history a trend is derived from

ASSUME SurfaceAssumption ==
  /\ Clients \cap Threads = {}
  /\ Surfaces \subseteq {"status", "html", "prometheus", "dashboard"}
  /\ HistoryLimit \in Nat \ {0}

\* run_detection visits the configured categories and "routine": one result of each, where
\* the configuration lists no category twice (detector.py:47-55).
ASSUME OneResultOfEach ==
  \A found \in Detections : \A i, j \in DOMAIN found :
    found[i].category = found[j].category => i = j

VARIABLES
  findings,                 \* per cycle: the results it stores in drift_history
  view,                     \* per viewer: what its reads returned so far
  kept_alerts, kept_events  \* per viewer: alerts and rollbacks in force since it began

kept  == <<kept_alerts, kept_events>>
svars == <<vars, findings, view, kept>>

Reports == {t \in Threads : Kind[t] = "report"}
Viewers == Reports \cup Clients

\* The reads of each surface, in the order of the code.
Reads(surface) ==
  CASE surface = "report"                  -> <<"gate", "trends", "alerts">>
    [] surface = "status"                  -> <<"alerts", "gate">>
    [] surface = "dashboard"               -> <<"detection", "alerts", "log", "gate">>
    [] surface \in {"html", "prometheus"}  -> <<"detection", "alerts", "gate">>

\* Of a view: its surface, how many reads are done (-1 when idle), the drift results shown, the alerts,
\* the active rollback (0 for None), the events shown as active, the trends.
Blank == [surface |-> "status", reading |-> -1, found |-> <<>>, listed |-> {}, gate |-> 0,
          log |-> {}, trends |-> <<>>]

SInit == /\ Init
         /\ findings = [c \in Cycles |-> <<>>]
         /\ view = [v \in Viewers |-> Blank]
         /\ kept_alerts = [v \in Viewers |-> {}]
         /\ kept_events = [v \in Viewers |-> {}]

----------------------------------------------------------------------------
\* What the answers are derived from.

\* get_active_alerts.
ActiveAlerts == {a \in alerts : ~a.acknowledged}
Ids(as)      == {a.id : a \in as}

\* compute_status.
ComputeStatus(shown, rollback_active) ==
  LET Reaches(bound) == \E i \in DOMAIN shown :
                          /\ ~shown[i].insufficient_data
                          /\ shown[i].drift_score >= Thresholds[shown[i].category][bound]
  IN  IF rollback_active THEN "rollback_triggered"
      ELSE IF Reaches("critical") THEN "critical"
      ELSE IF Reaches("warning") THEN "drifting" ELSE "healthy"

\* Mistake to detect: the alerts are looked at before the rollback gate.
BugProbeStatus(as, rollback_active) ==
  IF \E a \in as : a.severity = "critical" THEN "critical"
  ELSE IF rollback_active THEN "rollback_triggered"
  ELSE IF as # {} THEN "drifting" ELSE "healthy"

\* get_governance_status derives its own from the alerts.
ProbeStatus(as, rollback_active) ==
  IF rollback_active THEN "rollback_triggered"
  ELSE IF \E a \in as : a.severity = "critical" THEN "critical"
  ELSE IF as # {} THEN "drifting" ELSE "healthy"

Status(v) == IF view[v].surface = "status" THEN ProbeStatus(view[v].listed, view[v].gate # 0)
             ELSE ComputeStatus(view[v].found, view[v].gate # 0)

\* Rows of drift_history of a category, as cycles: detection stamps them, so the newest
\* row is that of the last cycle.
RowOf(c, category) == CHOOSE i \in 1..Len(findings[c]) : findings[c][i].category = category
Rows(category) == {c \in Cycles : \E i \in 1..drift_history[c] :
                                    findings[c][i].category = category}
Score(c, category) == findings[c][RowOf(c, category)].drift_score

\* get_drift_history: newest first, limited before results without data are left out.
DriftHistory(category, limit) ==
  {c \in Rows(category) : Cardinality({d \in Rows(category) : d > c}) < limit}

\* Mistake to detect: the rows are taken to come oldest first.
BugNth(valid, n) == CHOOSE c \in valid : Cardinality({d \in valid : d < c}) = n

\* The rows come newest first.
Nth(valid, n) == CHOOSE c \in valid : Cardinality({d \in valid : d > c}) = n

\* _compute_trend; a change of 0.05 is 5 here.
ComputeTrend(rows, category) ==
  LET valid == {c \in rows : ~findings[c][RowOf(c, category)].insufficient_data}
      delta == Score(Nth(valid, 0), category) - Score(Nth(valid, 1), category)
  IN  IF Cardinality(valid) < 2 THEN "unknown"
      ELSE IF delta < -5 THEN "improving" ELSE IF delta > 5 THEN "degrading" ELSE "stable"

TrendsOf(shown) ==
  [i \in DOMAIN shown |->
     ComputeTrend(DriftHistory(shown[i].category, HistoryLimit), shown[i].category)]

----------------------------------------------------------------------------
\* Reading.

Answered(v) == view[v].reading = Len(Reads(view[v].surface))
Idle(v)     == view[v].reading = -1
Ready(t)    == pc[t] = "history" /\ ~InLoop(t)   \* the report's cycle is stored

\* A reading begins: what is in force now may stay so until the answer.
Begins(v, surface, shown) ==
  /\ Idle(v)
  /\ view' = [view EXCEPT ![v].surface = surface, ![v].reading = 0, ![v].found = shown]
  /\ kept_alerts' = [kept_alerts EXCEPT ![v] = Ids(ActiveAlerts)]
  /\ kept_events' = [kept_events EXCEPT ![v] = Active]
  /\ UNCHANGED <<vars, findings>>

BeginView(v)   == v \in Clients /\ \E surface \in Surfaces : Begins(v, surface, <<>>)
BeginReport(v) == v \in Reports /\ Ready(v) /\ Begins(v, "report", results[v])

\* The next read of v is of what, and is kept in the given field.
Read(v, what, field, value) ==
  /\ ~Idle(v) /\ ~Answered(v)
  /\ Reads(view[v].surface)[view[v].reading + 1] = what
  /\ view' = [view EXCEPT ![v].reading = @ + 1, ![v][field] = value]
  /\ UNCHANGED <<vars, findings, kept>>

\* run_detection for display: nothing is stored.
ReadDetection(v) == \E shown \in Detections : Read(v, "detection", "found", shown)

ReadAlerts(v) == Read(v, "alerts", "listed", ActiveAlerts)

\* get_active_rollback, or is_rollback_active.
ReadGate(v) == Read(v, "gate", "gate", Newest)

\* get_rollback_history; the limits of the query and of the panel are not reached here.
ReadLog(v) == Read(v, "log", "log", Active)

ReadTrends(v) == Read(v, "trends", "trends", TrendsOf(view[v].found))

\* A client has its answer, or an exception ended its request.
EndView(v) == /\ v \in Clients /\ ~Idle(v)
              /\ view' = [view EXCEPT ![v] = Blank]
              /\ kept_alerts' = [kept_alerts EXCEPT ![v] = {}]
              /\ kept_events' = [kept_events EXCEPT ![v] = {}]
              /\ UNCHANGED <<vars, findings>>

View(v) == \/ BeginView(v) \/ BeginReport(v) \/ ReadDetection(v) \/ ReadAlerts(v)
           \/ ReadGate(v) \/ ReadLog(v) \/ ReadTrends(v) \/ EndView(v)

----------------------------------------------------------------------------
\* The rest of the service goes on meanwhile.

\* The readings in ended are over: of a report that is given, of all when the process
\* dies.  What the step ends is no longer in force.
Meanwhile(ended) ==
  /\ view' = [v \in Viewers |-> IF v \in ended THEN Blank ELSE view[v]]
  /\ kept_alerts' = [v \in Viewers |-> IF v \in ended THEN {}
                                        ELSE kept_alerts[v] \cap Ids(ActiveAlerts')]
  /\ kept_events' = [v \in Viewers |-> IF v \in ended THEN {} ELSE kept_events[v] \cap Active']

\* The report is given when everything it shows is read.
GiveAnswer(t) == Answer(t) /\ (t \in Reports => Answered(t))

SWork(t) == /\ \/ GiveAnswer(t) \/ Detect(t) \/ StoreAlert(t) \/ CheckActive(t)
               \/ CreateEvent(t) \/ StoreEvent(t) \/ StoreHistory(t) \/ DispatchAlerts(t)
               \/ DispatchRollback(t) \/ CycleFails(t)
            /\ findings' = IF pc[t] = "idle" THEN [findings EXCEPT ![cycle'[t]] = results'[t]]
                                             ELSE findings
            /\ Meanwhile(IF pc'[t] = "idle" THEN {t} ELSE {})

\* What an operator's request to resolve a rollback writes in the end.
Resolve == /\ \E e \in Active, o \in Requests :
                rollback_events' = [rollback_events EXCEPT ![e] = o]
           /\ UNCHANGED <<thread, cycles, created, alerts, drift_history, dispatched, counters,
                          request, faults>>

Operator == /\ Acknowledge \/ Resolve
            /\ Meanwhile({})
            /\ UNCHANGED findings

SRestart == /\ Restart
            /\ Meanwhile(Viewers)
            /\ UNCHANGED findings

SNext == \/ \E t \in Threads : SWork(t)
         \/ \E v \in Viewers : View(v)
         \/ Operator
         \/ SRestart

SSpec == SInit /\ [][SNext]_svars

----------------------------------------------------------------------------
\* No surface, however its reads interleave with cycles and operators, hides an alert or
\* a rollback that was in force while it read: alerts are listed, and a rollback is the
\* status (status.py:11: "An active rollback always wins").
InForceIsShown ==
  \A v \in Viewers : Answered(v) =>
    /\ kept_alerts[v] \subseteq Ids(view[v].listed)
    /\ kept_events[v] # {} => Status(v) = "rollback_triggered"
    /\ view[v].surface = "dashboard" => kept_events[v] \subseteq view[v].log
    /\ view[v].surface = "status" /\ kept_alerts[v] # {} => Status(v) # "healthy"

\* A report tells everything its own cycle found: an alert it raised is listed unless an
\* operator acknowledged it, and a trend compares the result shown, or that of a later
\* cycle, with an earlier row.
ReportIsComplete ==
  \A t \in Reports : Answered(t) =>
    \A i \in 1..Len(view[t].found) :
      LET r       == view[t].found[i]
          Between(c, d) == Score(c, r.category) - Score(d, r.category)
      IN  /\ Severity(r) # "none" =>
               \E a \in alerts : a.id = <<cycle[t], i>> /\ (a.acknowledged \/ a.id \in Ids(view[t].listed))
          /\ view[t].trends[i] \in {"degrading", "improving"} /\ ~r.insufficient_data =>
               \E c, d \in Rows(r.category) :
                 /\ c >= cycle[t] /\ d < c
                 /\ IF view[t].trends[i] = "degrading" THEN Between(c, d) > 5 ELSE Between(c, d) < -5
=============================================================================

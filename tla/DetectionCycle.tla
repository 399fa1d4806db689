--------------------------- MODULE DetectionCycle ---------------------------
(***************************************************************************)
(* Detection cycles of the governance service, under                       *)
(* src/ai-governance-mvp/src: the scheduler's thread (engine/scheduler.py) *)
(* and the threads serving POST /scheduler/run-now and GET                 *)
(* /governance/report (api/app.py) detect drift, store alerts, trip the    *)
(* rollback gate and record history, while operators acknowledge alerts    *)
(* and resolve rollbacks.                                                  *)
(*                                                                         *)
(* All of them share the DecisionStore, whose lock covers one transaction: *)
(* each transaction is a step, and any of them may fail.                   *)
(***************************************************************************)
EXTENDS GovernanceRules, Integers

CONSTANTS Threads,          \* threads that run detection cycles
          Kind,             \* Threads -> which code each of them runs
          Requests,         \* requests to resolve a rollback, one per operator
          Detections,       \* what a detection may find
          MaxCycles,        \* bound on the cycles begun
          MaxFaults         \* bound on failing transactions and restarts

ASSUME CycleAssumption ==
  /\ Kind \in [Threads -> {"scheduler", "run_now", "report"}]
  /\ Requests \cap {"absent", "active"} = {}
  /\ Detections \subseteq Seq(DriftResult)
  /\ MaxCycles \in Nat /\ MaxFaults \in Nat

VARIABLES
  pc, cycle, results, at,   \* per thread: next step, cycle number, findings, loop index
  event,                    \* per thread: the RollbackEvent it created, 0 for None
  cycles,                   \* cycles begun
  created,                  \* RollbackEvents created; an event's number orders timestamps
  rollback_events,          \* stored events: "absent", "active" or the request that resolved it
  alerts,                   \* stored alerts
  drift_history,            \* rows stored for each cycle
  sent_alerts, sent_events, \* alerts and rollbacks given to the dispatcher
  cycle_count, last_error,  \* of the scheduler
  step, saw, target, reply, \* per request: next step, event read first, event re-read, answer
  faults

thread   == <<pc, cycle, results, at, event>>
store    == <<rollback_events, alerts, drift_history>>
dispatched == <<sent_alerts, sent_events>>
counters == <<cycle_count, last_error>>
request  == <<step, saw, target, reply>>
vars     == <<thread, cycles, created, store, dispatched, counters, request, faults>>

Cycles == 1..MaxCycles
Events == Cycles                       \* a cycle creates at most one event
Active == {e \in Events : rollback_events[e] = "active"}
Newest == IF Active = {} THEN 0 ELSE CHOOSE e \in Active : \A f \in Active : f <= e

Triggers(t)     == Kind[t] # "report"
NewAlerts(t)    == {a.id : a \in {b \in alerts : b.id[1] = cycle[t]}}
InLoop(t)       == at[t] <= Len(results[t])

Init == /\ pc = [t \in Threads |-> "idle"]
        /\ cycle = [t \in Threads |-> 0]
        /\ results = [t \in Threads |-> <<>>]
        /\ at = [t \in Threads |-> 1]
        /\ event = [t \in Threads |-> 0]
        /\ cycles = 0
        /\ created = 0
        /\ rollback_events = [e \in Events |-> "absent"]
        /\ alerts = {}
        /\ drift_history = [c \in Cycles |-> 0]
        /\ sent_alerts = {} /\ sent_events = {}
        /\ cycle_count = 0
        /\ last_error = FALSE
        /\ step = [o \in Requests |-> "idle"]
        /\ saw = [o \in Requests |-> 0]
        /\ target = [o \in Requests |-> 0]
        /\ reply = [o \in Requests |-> 0]
        /\ faults = 0

----------------------------------------------------------------------------
\* A detection cycle.

Goto(t, next) == pc' = [pc EXCEPT ![t] = next]

\* run_detection: the decisions stored meanwhile decide what it finds.
Detect(t) == /\ pc[t] = "idle"
             /\ cycles < MaxCycles
             /\ cycles' = cycles + 1
             /\ cycle' = [cycle EXCEPT ![t] = cycles + 1]
             /\ \E found \in Detections : results' = [results EXCEPT ![t] = found]
             /\ at' = [at EXCEPT ![t] = 1]
             /\ event' = [event EXCEPT ![t] = 0]
             /\ Goto(t, "alerts")
             /\ UNCHANGED <<created, store, dispatched, counters, request, faults>>

\* Mistake to detect: a result below the thresholds is stored as an alert as well.
BugStoreAlert(t) ==
  /\ pc[t] = "alerts"
  /\ InLoop(t)
  /\ LET r == results[t][at[t]] IN
     alerts' = alerts \cup {[id |-> <<cycle[t], at[t]>>, category |-> r.category,
                             severity |-> Severity(r), acknowledged |-> FALSE]}
  /\ at' = [at EXCEPT ![t] = @ + 1]
  /\ UNCHANGED <<pc, cycle, results, event, cycles, created, rollback_events, drift_history,
                 dispatched, counters, request, faults>>

\* process_drift_results: one transaction for each alert.
StoreAlert(t) ==
  /\ pc[t] = "alerts"
  /\ InLoop(t)
  /\ LET r     == results[t][at[t]]
         alert == [id |-> <<cycle[t], at[t]>>, category |-> r.category,
                   severity |-> Severity(r), acknowledged |-> FALSE]
     IN  alerts' = IF Severity(r) = "none" THEN alerts ELSE alerts \cup {alert}
  /\ at' = [at EXCEPT ![t] = @ + 1]
  /\ UNCHANGED <<pc, cycle, results, event, cycles, created, rollback_events, drift_history,
                 dispatched, counters, request, faults>>

\* Mistake to detect: the rules are evaluated without a look at the active rollback.
BugCheckActive(t) ==
  /\ pc[t] = "alerts"
  /\ ~InLoop(t)
  /\ at' = [at EXCEPT ![t] = 1]
  /\ Goto(t, IF Triggers(t) /\ ShouldRollback(results[t]) THEN "trigger" ELSE "history")
  /\ UNCHANGED <<cycle, results, event, cycles, created, store, dispatched, counters,
                 request, faults>>

\* maybe_trigger: read the store, then evaluate the rules.  The report endpoint does not
\* call it.
CheckActive(t) ==
  /\ pc[t] = "alerts"
  /\ ~InLoop(t)
  /\ at' = [at EXCEPT ![t] = 1]
  /\ Goto(t, IF Triggers(t) /\ Active = {} /\ ShouldRollback(results[t]) THEN "trigger"
                                                                        ELSE "history")
  /\ UNCHANGED <<cycle, results, event, cycles, created, store, dispatched, counters,
                 request, faults>>

\* Mistake to detect: the event is announced before it is stored.
BugCreateEvent(t) == /\ pc[t] = "trigger"
                     /\ created' = created + 1
                     /\ event' = [event EXCEPT ![t] = created + 1]
                     /\ sent_events' = sent_events \cup {created + 1}
                     /\ Goto(t, "store_event")
                     /\ UNCHANGED <<cycle, results, at, cycles, store, sent_alerts, counters,
                                    request, faults>>

\* trigger_rollback: create the event, with its timestamp, then store it.
CreateEvent(t) == /\ pc[t] = "trigger"
                  /\ created' = created + 1
                  /\ event' = [event EXCEPT ![t] = created + 1]
                  /\ Goto(t, "store_event")
                  /\ UNCHANGED <<cycle, results, at, cycles, store, dispatched, counters,
                                 request, faults>>

StoreEvent(t) == /\ pc[t] = "store_event"
                 /\ rollback_events' = [rollback_events EXCEPT ![event[t]] = "active"]
                 /\ Goto(t, "history")
                 /\ UNCHANGED <<cycle, results, at, event, cycles, created, alerts,
                                drift_history, dispatched, counters, request, faults>>

\* store_drift_results_batch: one transaction for each result.
StoreHistory(t) == /\ pc[t] = "history"
                   /\ InLoop(t)
                   /\ drift_history' = [drift_history EXCEPT ![cycle[t]] = @ + 1]
                   /\ at' = [at EXCEPT ![t] = @ + 1]
                   /\ UNCHANGED <<pc, cycle, results, event, cycles, created, rollback_events,
                                  alerts, dispatched, counters, request, faults>>

\* An endpoint answers.
Answer(t) == /\ pc[t] = "history"
             /\ ~InLoop(t)
             /\ Kind[t] # "scheduler"
             /\ Goto(t, "idle")
             /\ UNCHANGED <<cycle, results, at, event, cycles, created, store, dispatched,
                            counters, request, faults>>

\* The scheduler goes on to its webhooks.  An exception of the dispatcher is caught,
\* item by item.
DispatchAlerts(t) == /\ pc[t] = "history"
                     /\ ~InLoop(t)
                     /\ Kind[t] = "scheduler"
                     /\ sent_alerts' = sent_alerts \cup NewAlerts(t)
                     /\ Goto(t, "dispatch_rollback")
                     /\ UNCHANGED <<cycle, results, at, event, cycles, created, store,
                                    sent_events, counters, request, faults>>

\* Mistake to detect: a rollback is announced only if there was no alert to announce.
BugDispatchRollback(t) ==
  /\ pc[t] = "dispatch_rollback"
  /\ sent_events' = sent_events \cup (IF NewAlerts(t) = {} THEN {event[t]} \ {0} ELSE {})
  /\ cycle_count' = cycle_count + 1
  /\ last_error' = FALSE
  /\ Goto(t, "idle")
  /\ UNCHANGED <<cycle, results, at, event, cycles, created, store, sent_alerts, request, faults>>

\* The last webhook, and the scheduler's account of the cycle.
DispatchRollback(t) == /\ pc[t] = "dispatch_rollback"
                       /\ sent_events' = sent_events \cup ({event[t]} \ {0})
                       /\ cycle_count' = cycle_count + 1
                       /\ last_error' = FALSE
                       /\ Goto(t, "idle")
                       /\ UNCHANGED <<cycle, results, at, event, cycles, created, store,
                                      sent_alerts, request, faults>>

\* Mistake to detect: a failing transaction is tried again without end.
BugRetry(t) == /\ pc[t] \in {"alerts", "store_event", "history"}
               /\ faults < MaxFaults
               /\ last_error' = ~last_error
               /\ UNCHANGED <<thread, cycles, created, store, dispatched, cycle_count, request,
                              faults>>

\* Mistake to detect: the failure to store one alert is swallowed inside the loop.
BugAlertSkipped(t) == /\ pc[t] = "alerts"
                      /\ InLoop(t)
                      /\ faults < MaxFaults
                      /\ faults' = faults + 1
                      /\ at' = [at EXCEPT ![t] = @ + 1]
                      /\ UNCHANGED <<pc, cycle, results, event, cycles, created, store,
                                     dispatched, counters, request>>

\* A transaction fails: the scheduler swallows the exception, an endpoint answers 500.
CycleFails(t) == /\ pc[t] \in {"alerts", "store_event", "history"}
                 /\ faults < MaxFaults
                 /\ faults' = faults + 1
                 /\ last_error' = (last_error \/ Kind[t] = "scheduler")
                 /\ Goto(t, "idle")
                 /\ UNCHANGED <<cycle, results, at, event, cycles, created, store, dispatched,
                                cycle_count, request>>

Work(t) == \/ Detect(t) \/ StoreAlert(t) \/ CheckActive(t) \/ CreateEvent(t)
           \/ StoreEvent(t) \/ StoreHistory(t) \/ Answer(t) \/ DispatchAlerts(t)
           \/ DispatchRollback(t) \/ CycleFails(t)

----------------------------------------------------------------------------
\* Operators.

\* POST /governance/alerts/{alert_id}/acknowledge.
Acknowledge == /\ \E a \in alerts :
                    alerts' = (alerts \ {a}) \cup {[a EXCEPT !.acknowledged = TRUE]}
               /\ UNCHANGED <<thread, cycles, created, rollback_events, drift_history,
                              dispatched, counters, request, faults>>

\* POST /governance/rollback/resolve reads the active rollback ...
ReadActive(o) == /\ step[o] = "idle"
                 /\ Newest # 0
                 /\ saw' = [saw EXCEPT ![o] = Newest]
                 /\ reply' = [reply EXCEPT ![o] = 0]
                 /\ step' = [step EXCEPT ![o] = "reread"]
                 /\ UNCHANGED <<thread, cycles, created, store, dispatched, counters, target,
                                faults>>

NothingActive(o) == /\ step[o] = "idle"
                    /\ Newest = 0
                    /\ reply' = [reply EXCEPT ![o] = 0]
                    /\ UNCHANGED <<thread, cycles, created, store, dispatched, counters, step,
                                   saw, target, faults>>

\* ... the engine reads it again; it does nothing if it is gone, but the answer is
\* that the event read first is resolved ...
EngineFindsNone(o) == /\ step[o] = "reread"
                      /\ Newest = 0
                      /\ reply' = [reply EXCEPT ![o] = saw[o]]
                      /\ saw' = [saw EXCEPT ![o] = 0]
                      /\ step' = [step EXCEPT ![o] = "idle"]
                      /\ UNCHANGED <<thread, cycles, created, store, dispatched, counters,
                                     target, faults>>

EngineReads(o) == /\ step[o] = "reread"
                  /\ Newest # 0
                  /\ target' = [target EXCEPT ![o] = Newest]
                  /\ step' = [step EXCEPT ![o] = "update"]
                  /\ UNCHANGED <<thread, cycles, created, store, dispatched, counters, saw,
                                 reply, faults>>

\* ... and the store marks the event the engine read.
MarkResolved(o) == /\ step[o] = "update"
                   /\ rollback_events' = [rollback_events EXCEPT ![target[o]] = o]
                   /\ reply' = [reply EXCEPT ![o] = saw[o]]
                   /\ saw' = [saw EXCEPT ![o] = 0]
                   /\ target' = [target EXCEPT ![o] = 0]
                   /\ step' = [step EXCEPT ![o] = "idle"]
                   /\ UNCHANGED <<thread, cycles, created, alerts, drift_history, dispatched,
                                  counters, faults>>

\* Mistake to detect: the answer does not depend on whether the transaction succeeded.
BugResolveFails(o) == /\ step[o] # "idle"
                      /\ faults < MaxFaults
                      /\ faults' = faults + 1
                      /\ reply' = [reply EXCEPT ![o] = saw[o]]
                      /\ saw' = [saw EXCEPT ![o] = 0]
                      /\ target' = [target EXCEPT ![o] = 0]
                      /\ step' = [step EXCEPT ![o] = "idle"]
                      /\ UNCHANGED <<thread, cycles, created, store, dispatched, counters>>

ResolveFails(o) == /\ step[o] # "idle"
                   /\ faults < MaxFaults
                   /\ faults' = faults + 1
                   /\ saw' = [saw EXCEPT ![o] = 0]
                   /\ target' = [target EXCEPT ![o] = 0]
                   /\ step' = [step EXCEPT ![o] = "idle"]
                   /\ UNCHANGED <<thread, cycles, created, store, dispatched, counters, reply>>

Request(o) == \/ ReadActive(o) \/ NothingActive(o) \/ EngineFindsNone(o) \/ EngineReads(o)
              \/ MarkResolved(o) \/ ResolveFails(o)

\* Mistake to detect: the rollback table does not survive a restart.
BugRestart == /\ faults < MaxFaults
              /\ faults' = faults + 1
              /\ pc' = [t \in Threads |-> "idle"]
              /\ step' = [o \in Requests |-> "idle"]
              /\ saw' = [o \in Requests |-> 0]
              /\ target' = [o \in Requests |-> 0]
              /\ cycle_count' = 0
              /\ last_error' = FALSE
              /\ rollback_events' = [e \in Events |-> "absent"]
              /\ UNCHANGED <<cycle, results, at, event, cycles, created, alerts, drift_history,
                             dispatched, reply>>

\* The process dies and is started again: only the database survives.
Restart == /\ faults < MaxFaults
           /\ faults' = faults + 1
           /\ pc' = [t \in Threads |-> "idle"]
           /\ step' = [o \in Requests |-> "idle"]
           /\ saw' = [o \in Requests |-> 0]
           /\ target' = [o \in Requests |-> 0]
           /\ cycle_count' = 0
           /\ last_error' = FALSE
           /\ UNCHANGED <<cycle, results, at, event, cycles, created, store, dispatched, reply>>

Next == \/ \E t \in Threads : Work(t)
        \/ \E o \in Requests : Request(o)
        \/ Acknowledge
        \/ Restart

Spec == Init /\ [][Next]_vars

\* The scheduler's loop goes on; nothing is assumed of requests.
FairSpec == Spec /\ \A t \in Threads : Kind[t] = "scheduler" => WF_vars(Work(t))

----------------------------------------------------------------------------
OneTrigger == \A t, u \in Threads : Triggers(t) /\ Triggers(u) => t = u

TypeOK ==
  /\ pc \in [Threads -> {"idle", "alerts", "trigger", "store_event", "history",
                          "dispatch_rollback"}]
  /\ cycle \in [Threads -> 0..MaxCycles]
  /\ results \in [Threads -> Detections \cup {<<>>}]
  /\ at \in [Threads -> Nat \ {0}]
  /\ event \in [Threads -> 0..MaxCycles]
  /\ cycles \in 0..MaxCycles
  /\ created \in 0..cycles
  /\ rollback_events \in [Events -> {"absent", "active"} \cup Requests]
  /\ alerts \subseteq [id : Cycles \X (Nat \ {0}), category : Categories,
                       severity : {"warning", "critical"}, acknowledged : BOOLEAN]
  /\ drift_history \in [Cycles -> Nat]
  /\ sent_alerts \subseteq Cycles \X (Nat \ {0})
  /\ sent_events \subseteq Events
  /\ cycle_count \in Nat
  /\ last_error \in BOOLEAN
  /\ step \in [Requests -> {"idle", "reread", "update"}]
  /\ saw \in [Requests -> 0..MaxCycles]
  /\ target \in [Requests -> 0..MaxCycles]
  /\ reply \in [Requests -> 0..MaxCycles]
  /\ faults \in 0..MaxFaults

\* No two rollback events are ever active at once (maybe_trigger: "Skips if a rollback
\* is already active"), however failures, restarts and resolutions interleave.
AtMostOneActive == \A e, f \in Active : e = f

\* "Rollback e resolved" is only ever answered when event e is resolved, although the
\* engine resolves whatever it finds active when it reads again.
ReplyIsTrue == \A o \in Requests : reply[o] # 0 => rollback_events[reply[o]] \in Requests

\* The gate is a latch: an event holds it from when it is stored to when it is
\* resolved, and a resolved event never holds it again.
Latch == INSTANCE RollbackLatch
           WITH active <- Active, resolved <- {e \in Events : rollback_events[e] \in Requests}
LatchSpec == Latch!Spec

\* Whatever fails, history shows no drift above a threshold without its alert: a row of
\* drift_history is written only when the alerts of its cycle are stored.
HistoryHasAlerts ==
  \A t \in Threads : cycle[t] # 0 =>
    \A i \in 1..drift_history[cycle[t]] :
      Severity(results[t][i]) # "none" => <<cycle[t], i>> \in {a.id : a \in alerts}

\* Webhooks announce only what the store holds: no alert and no rollback is sent
\* that a restarted service would not know of.
SentIsStored == /\ sent_alerts \subseteq {a.id : a \in alerts}
                /\ \A e \in sent_events : rollback_events[e] # "absent"

\* Failing cycles and restarts do not stop the scheduler (scheduler.py:32-33): it comes
\* back to its loop again and again, and once nothing fails any more a detection that
\* matches a rollback rule finds the gate held, or trips it.
SchedulerGoesOn ==
  \A t \in Threads : Kind[t] = "scheduler" =>
    /\ []<>(pc[t] = "idle")
    /\ (faults = MaxFaults /\ pc[t] = "alerts" /\ ShouldRollback(results[t])) ~> (Active # {})

\* As long as nothing fails, a scheduler at rest has announced every alert and every
\* rollback it stored.
Resting(t) == Kind[t] = "scheduler" /\ pc[t] = "idle"
AnnouncedUnlessFaulty ==
  faults = 0 => \A t \in Threads : Resting(t) =>
                  /\ NewAlerts(t) \subseteq sent_alerts
                  /\ event[t] # 0 => event[t] \in sent_events

----------------------------------------------------------------------------
\* Statements of the documentation that the code does not meet.

\* scheduler.py:29: each cycle dispatches "webhooks for new alerts and rollback events".
\* Then a scheduler whose last cycle went well has announced the rollback in force.
ActiveRollbackAnnounced ==
  \A t \in Threads : Resting(t) /\ cycle_count > 0 /\ ~last_error => Active \subseteq sent_events

\* rollback.py:77 of maybe_trigger: "Skips if a rollback is already active."
SkipsWhenActive == [][\A t \in Threads : StoreEvent(t) => Active = {}]_vars
=============================================================================

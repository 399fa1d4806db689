------------------------ MODULE DetectionCycleProofs ------------------------
(***************************************************************************)
(* Proofs about DetectionCycle, for every set of categories, threshold,    *)
(* rule, detection and request, and every bound.                           *)
(*                                                                         *)
(* Where one thread only can trigger rollbacks (OneTrigger) the rollback   *)
(* gate is a latch and the answers to operators are true.  The last two    *)
(* theorems, about the history and about what was announced, assume        *)
(* nothing of the threads.                                                 *)
(*                                                                         *)
(* AtMostOneActive is not inductive: it has to be known that the gate is   *)
(* still open when an event is stored, although the check was made two     *)
(* steps earlier, and that the event is new.                               *)
(***************************************************************************)
EXTENDS DetectionCycle, TLAPS

\* A thread at work has a cycle; the triggering thread in a cycle that has not created
\* its event yet leaves a number for it.
Begun == \A t \in Threads : pc[t] # "idle" => cycle[t] \in Cycles
Room  == \A t \in Threads :
           pc[t] = "trigger" \/ (pc[t] = "alerts" /\ Triggers(t)) => created < cycles

\* Numbers above created are not in use; an event about to be stored is new.
Unused == \A e \in Events : e > created => rollback_events[e] = "absent"
Fresh  == \A t \in Threads : pc[t] = "store_event" =>
            event[t] \in Events /\ event[t] <= created /\ rollback_events[event[t]] = "absent"

\* From the check of maybe_trigger to the store of the event the gate stays open.
Open == \A t \in Threads : pc[t] \in {"trigger", "store_event"} => Triggers(t) /\ Active = {}

\* An operator's request holds stored events, and the event the engine found is the one
\* read first unless that one is resolved.
Holds ==
  \A o \in Requests :
    /\ step[o] # "idle" => saw[o] \in Events /\ rollback_events[saw[o]] # "absent"
    /\ step[o] = "update" =>
         /\ target[o] \in Events /\ rollback_events[target[o]] # "absent"
         /\ target[o] = saw[o] \/ rollback_events[saw[o]] \in Requests

\* A cycle's event is stored by the time its history is.
Recorded ==
  \A t \in Threads :
    /\ pc[t] \in {"alerts", "trigger"} => event[t] = 0
    /\ pc[t] \in {"history", "dispatch_rollback"} /\ event[t] # 0
         => rollback_events[event[t]] # "absent"

IInv == /\ TypeOK /\ Begun /\ Room
        /\ AtMostOneActive /\ Open /\ Unused /\ Fresh /\ Recorded
        /\ Holds /\ ReplyIsTrue
        /\ SentIsStored

----------------------------------------------------------------------------
LEMMA NewestIsActive ==
  ASSUME TypeOK, AtMostOneActive
  PROVE  /\ Newest \in 0..MaxCycles
         /\ Active = {} => Newest = 0
         /\ Active # {} => Newest \in Active /\ Newest # 0
<1>1. MaxCycles \in Nat
  BY CycleAssumption
<1>2. CASE Active = {}
  BY <1>1, <1>2 DEF Newest
<1>3. CASE Active # {}
  <2>1. PICK e : e \in Active
    BY <1>3
  <2>2. e \in Nat \ {0} /\ e <= MaxCycles
    BY <1>1, <2>1 DEF Active, Events, Cycles
  <2>3. \A f \in Active : f <= e
    BY <2>1, <2>2 DEF AtMostOneActive
  <2>4. Newest \in Active
    BY <1>3, <2>1, <2>3 DEF Newest
  <2>5. Newest = e
    BY <2>1, <2>4 DEF AtMostOneActive
  <2> QED  BY <1>1, <1>3, <2>1, <2>2, <2>5
<1> QED  BY <1>2, <1>3

LEMMA SeverityType ==
  ASSUME NEW r \in DriftResult
  PROVE  Severity(r) \in {"none", "warning", "critical"}
BY DEF Severity

\* Types, and the room left for event numbers.
LEMMA TypeStep ==
  ASSUME OneTrigger, IInv, [Next]_vars
  PROVE  TypeOK' /\ Begun' /\ Room'
<1> USE DEF IInv, thread, store, dispatched, counters, request, vars
<1>c. /\ MaxCycles \in Nat /\ MaxFaults \in Nat
      /\ cycles \in Nat /\ created \in Nat /\ Cycles = 1..MaxCycles /\ Events = 1..MaxCycles
  BY CycleAssumption DEF TypeOK, Cycles, Events
<1>1. ASSUME NEW t \in Threads, Detect(t)
      PROVE  TypeOK' /\ Begun' /\ Room'
  <2>1. cycles + 1 \in Cycles
    BY <1>1, <1>c DEF Detect
  <2>2. TypeOK'
    BY <1>1, <1>c, <2>1 DEF Detect, Goto, TypeOK
  <2>3. Begun' /\ Room'
    BY <1>1, <1>c, <2>1 DEF Detect, Goto, TypeOK, Begun, Room, OneTrigger, Open, Triggers
  <2> QED  BY <2>2, <2>3
<1>2. ASSUME NEW t \in Threads, StoreAlert(t)
      PROVE  TypeOK' /\ Begun' /\ Room'
  <2>1. at[t] \in 1..Len(results[t]) /\ results[t] \in Seq(DriftResult)
    <3>1. results[t] \in Seq(DriftResult)
      <4>1. results[t] \in Detections \cup {<<>>}
        BY DEF TypeOK
      <4>2. <<>> \in Seq(DriftResult)
        OBVIOUS
      <4> QED  BY <4>1, <4>2, CycleAssumption
    <3> QED  BY <1>2, <3>1 DEF StoreAlert, InLoop, TypeOK
  <2>2. results[t][at[t]] \in DriftResult
    BY <2>1
  <2>3. DEFINE r     == results[t][at[t]]
               alert == [id |-> <<cycle[t], at[t]>>, category |-> r.category,
                         severity |-> Severity(r), acknowledged |-> FALSE]
  <2>4. cycle[t] \in Cycles /\ at[t] \in Nat \ {0} /\ r.category \in Categories
    BY <1>2, <2>2 DEF StoreAlert, TypeOK, Begun, DriftResult
  <2>5. alerts' = IF Severity(r) = "none" THEN alerts ELSE alerts \cup {alert}
    BY <1>2 DEF StoreAlert
  <2>6. alerts' \subseteq [id : Cycles \X (Nat \ {0}), category : Categories,
                          severity : {"warning", "critical"}, acknowledged : BOOLEAN]
    <3>1. Severity(r) # "none" => Severity(r) \in {"warning", "critical"}
      BY <2>2, SeverityType
    <3>2. alerts \subseteq [id : Cycles \X (Nat \ {0}), category : Categories,
                          severity : {"warning", "critical"}, acknowledged : BOOLEAN]
      BY DEF TypeOK
    <3>3. ASSUME Severity(r) # "none"
          PROVE  alert \in [id : Cycles \X (Nat \ {0}), category : Categories,
                            severity : {"warning", "critical"}, acknowledged : BOOLEAN]
      <4> HIDE DEF r
      <4> QED  BY <2>4, <3>1, <3>3
    <3> HIDE DEF r, alert
    <3> QED  BY <2>5, <3>2, <3>3
  <2>7. at' \in [Threads -> Nat \ {0}]
    BY <1>2 DEF StoreAlert, TypeOK
  <2> QED  BY <1>2, <2>6, <2>7 DEF StoreAlert, TypeOK, Begun, Room
<1>3. ASSUME NEW t \in Threads, CheckActive(t)
      PROVE  TypeOK' /\ Begun' /\ Room'
  BY <1>3 DEF CheckActive, Goto, TypeOK, Begun, Room
<1>4. ASSUME NEW t \in Threads, CreateEvent(t)
      PROVE  TypeOK' /\ Begun' /\ Room'
  <2>1. created < cycles /\ created + 1 \in 0..MaxCycles
    BY <1>4, <1>c DEF CreateEvent, Room, TypeOK
  <2>2. TypeOK' /\ Begun'
    <3>1. pc' = [pc EXCEPT ![t] = "store_event"] /\ pc[t] = "trigger"
      BY <1>4 DEF CreateEvent, Goto
    <3>2. created' \in 0..cycles' /\ event' \in [Threads -> 0..MaxCycles]
      BY <1>4, <1>c, <2>1 DEF CreateEvent, TypeOK
    <3>3. TypeOK'
      BY <1>4, <3>1, <3>2 DEF CreateEvent, TypeOK
    <3>4. Begun'
      BY <1>4, <3>1 DEF CreateEvent, TypeOK, Begun
    <3> QED  BY <3>3, <3>4
  <2>3. Room'
    BY <1>4, <1>c DEF CreateEvent, Goto, TypeOK, Room, Open, OneTrigger
  <2> QED  BY <2>2, <2>3
<1>5. ASSUME NEW t \in Threads, StoreEvent(t)
      PROVE  TypeOK' /\ Begun' /\ Room'
  BY <1>5 DEF StoreEvent, Goto, TypeOK, Begun, Room
<1>6. ASSUME NEW t \in Threads, StoreHistory(t)
      PROVE  TypeOK' /\ Begun' /\ Room'
  BY <1>6 DEF StoreHistory, TypeOK, Begun, Room
<1>7. ASSUME NEW t \in Threads, Answer(t)
      PROVE  TypeOK' /\ Begun' /\ Room'
  BY <1>7 DEF Answer, Goto, TypeOK, Begun, Room
<1>8. ASSUME NEW t \in Threads, DispatchAlerts(t)
      PROVE  TypeOK' /\ Begun' /\ Room'
  BY <1>8 DEF DispatchAlerts, NewAlerts, Goto, TypeOK, Begun, Room
<1>9. ASSUME NEW t \in Threads, DispatchRollback(t)
      PROVE  TypeOK' /\ Begun' /\ Room'
  <2>a. event[t] \in 0..MaxCycles /\ sent_events \subseteq Events /\ cycle_count \in Nat
    BY DEF TypeOK
  <2>b. /\ sent_events' = sent_events \cup ({event[t]} \ {0})
        /\ cycle_count' = cycle_count + 1
    BY <1>9 DEF DispatchRollback
  <2>1. sent_events' \subseteq Events
    <3>1. event[t] # 0 => event[t] \in Events
      BY <1>c, <2>a
    <3> QED  BY <2>a, <2>b, <3>1
  <2>2. cycle_count' \in Nat
    BY <2>a, <2>b
  <2>3. last_error' \in BOOLEAN
    BY <1>9 DEF DispatchRollback
  <2> QED  BY <1>9, <2>1, <2>2, <2>3 DEF DispatchRollback, Goto, TypeOK, Begun, Room
<1>10. ASSUME NEW t \in Threads, CycleFails(t)
       PROVE  TypeOK' /\ Begun' /\ Room'
  BY <1>10, <1>c DEF CycleFails, Goto, TypeOK, Begun, Room
<1>11. ASSUME NEW o \in Requests, Request(o)
       PROVE  TypeOK' /\ Begun' /\ Room'
  <2>a. Newest \in 0..MaxCycles /\ 0 \in 0..MaxCycles
    BY <1>c, NewestIsActive
  <2>b. /\ saw \in [Requests -> 0..MaxCycles] /\ target \in [Requests -> 0..MaxCycles]
        /\ reply \in [Requests -> 0..MaxCycles]
        /\ step \in [Requests -> {"idle", "reread", "update"}]
    BY DEF TypeOK
  <2>1. /\ saw' \in [Requests -> 0..MaxCycles] /\ target' \in [Requests -> 0..MaxCycles]
        /\ reply' \in [Requests -> 0..MaxCycles]
        /\ step' \in [Requests -> {"idle", "reread", "update"}]
    <3>1. CASE ReadActive(o)
      BY <3>1, <2>a, <2>b DEF ReadActive
    <3>2. CASE NothingActive(o)
      BY <3>2, <2>a, <2>b DEF NothingActive
    <3>3. CASE EngineFindsNone(o)
      BY <3>3, <2>a, <2>b DEF EngineFindsNone
    <3>4. CASE EngineReads(o)
      BY <3>4, <2>a, <2>b DEF EngineReads
    <3>5. CASE MarkResolved(o)
      BY <3>5, <2>a, <2>b DEF MarkResolved
    <3>6. CASE ResolveFails(o)
      BY <3>6, <2>a, <2>b DEF ResolveFails
    <3> QED  BY <1>11, <3>1, <3>2, <3>3, <3>4, <3>5, <3>6 DEF Request
  <2>2. rollback_events' \in [Events -> {"absent", "active"} \cup Requests]
    BY <1>11
       DEF Request, ReadActive, NothingActive, EngineFindsNone, EngineReads, MarkResolved,
           ResolveFails, TypeOK
  <2>3. faults' \in 0..MaxFaults
    BY <1>11, <1>c
       DEF Request, ReadActive, NothingActive, EngineFindsNone, EngineReads, MarkResolved,
           ResolveFails, TypeOK
  <2>4. UNCHANGED <<thread, cycles, created, alerts, drift_history, dispatched, counters>>
    BY <1>11
       DEF Request, ReadActive, NothingActive, EngineFindsNone, EngineReads, MarkResolved,
           ResolveFails
  <2> QED  BY <2>1, <2>2, <2>3, <2>4 DEF TypeOK, Begun, Room
<1>12. ASSUME Acknowledge
       PROVE  TypeOK' /\ Begun' /\ Room'
  BY <1>12 DEF Acknowledge, TypeOK, Begun, Room
<1>13. ASSUME Restart
       PROVE  TypeOK' /\ Begun' /\ Room'
  <2>1. pc' = [t \in Threads |-> "idle"]
    BY <1>13 DEF Restart
  <2>2. /\ step' = [o \in Requests |-> "idle"] /\ saw' = [o \in Requests |-> 0]
        /\ target' = [o \in Requests |-> 0] /\ cycle_count' = 0 /\ faults' \in 0..MaxFaults
    BY <1>13, <1>c DEF Restart, TypeOK
  <2>e. last_error' \in BOOLEAN
    BY <1>13 DEF Restart
  <2>3. UNCHANGED <<cycle, results, at, event, cycles, created, store, dispatched, reply>>
    BY <1>13 DEF Restart
  <2>4. TypeOK'
    BY <1>c, <2>1, <2>2, <2>3, <2>e DEF TypeOK
  <2> QED  BY <2>1, <2>4 DEF Begun, Room
<1>14. ASSUME UNCHANGED vars
       PROVE  TypeOK' /\ Begun' /\ Room'
  BY <1>14 DEF TypeOK, Begun, Room
<1> QED
  BY <1>1, <1>2, <1>3, <1>4, <1>5, <1>6, <1>7, <1>8, <1>9, <1>10, <1>11, <1>12, <1>13, <1>14
     DEF Next, Work

----------------------------------------------------------------------------
\* What the two steps that write the rollback table do to it.

LEMMA StoreOpensNothing ==
  ASSUME IInv, NEW t \in Threads, StoreEvent(t)
  PROVE  /\ Active = {} /\ Active' = {event[t]} /\ event[t] \in Events
         /\ rollback_events[event[t]] = "absent"
         /\ \A e \in Events \ {event[t]} : rollback_events'[e] = rollback_events[e]
         /\ rollback_events'[event[t]] = "active"
<1>1. pc[t] = "store_event" /\ rollback_events' = [rollback_events EXCEPT ![event[t]] = "active"]
  BY DEF StoreEvent
<1>2. Active = {} /\ event[t] \in Events /\ rollback_events[event[t]] = "absent"
  BY <1>1 DEF IInv, Open, Fresh
<1>3. rollback_events \in [Events -> {"absent", "active"} \cup Requests]
  BY DEF IInv, TypeOK
<1>4. /\ \A e \in Events \ {event[t]} : rollback_events'[e] = rollback_events[e]
      /\ rollback_events'[event[t]] = "active"
  BY <1>1, <1>2, <1>3
<1>5. Active' = {event[t]}
  BY <1>2, <1>4 DEF Active, Events, Cycles
<1> QED  BY <1>2, <1>4, <1>5

LEMMA ResolveFrees ==
  ASSUME IInv, NEW o \in Requests, MarkResolved(o)
  PROVE  /\ target[o] \in Events /\ rollback_events[target[o]] # "absent"
         /\ Active' = Active \ {target[o]}
         /\ \A e \in Events \ {target[o]} : rollback_events'[e] = rollback_events[e]
         /\ rollback_events'[target[o]] = o /\ o \notin {"absent", "active"}
<1>1. /\ step[o] = "update"
      /\ rollback_events' = [rollback_events EXCEPT ![target[o]] = o]
  BY DEF MarkResolved
<1>2. target[o] \in Events /\ rollback_events[target[o]] # "absent"
  BY <1>1 DEF IInv, Holds
<1>3. rollback_events \in [Events -> {"absent", "active"} \cup Requests]
  BY DEF IInv, TypeOK
<1>4. o \notin {"absent", "active"}
  BY CycleAssumption
<1>5. /\ \A e \in Events \ {target[o]} : rollback_events'[e] = rollback_events[e]
      /\ rollback_events'[target[o]] = o
  BY <1>1, <1>2, <1>3
<1>6. Active' = Active \ {target[o]}
  BY <1>2, <1>4, <1>5 DEF Active, Events, Cycles
<1> QED  BY <1>2, <1>3, <1>4, <1>5, <1>6

GateInv == AtMostOneActive /\ Open /\ Unused /\ Fresh /\ Recorded

\* The gate: at most one event is active, and one about to be stored finds it open.
LEMMA GateStep ==
  ASSUME OneTrigger, IInv, [Next]_vars
  PROVE  GateInv'
<1> USE DEF GateInv
<1>a. MaxCycles \in Nat /\ Events = 1..MaxCycles
  BY CycleAssumption DEF Events, Cycles
<1>b. created \in Nat /\ event \in [Threads -> 0..MaxCycles]
  BY <1>a DEF IInv, TypeOK
<1>d. /\ pc \in [Threads -> {"idle", "alerts", "trigger", "store_event", "history",
                              "dispatch_rollback"}]
      /\ rollback_events \in [Events -> {"absent", "active"} \cup Requests]
  BY DEF IInv, TypeOK
<1>c. created \in Nat /\ DOMAIN pc = Threads /\ DOMAIN event = Threads
      /\ Events \subseteq Nat /\ DOMAIN rollback_events = Events
      /\ event \in [Threads -> 0..MaxCycles]
  BY <1>a, <1>b, <1>d
<1>i. GateInv
  BY DEF IInv
<1>1. ASSUME NEW t \in Threads, Detect(t)
      PROVE  GateInv'
  BY <1>1, <1>c, <1>i
     DEF Detect, Goto, store, AtMostOneActive, Active, Open, Unused, Fresh, Recorded, Triggers
<1>2. ASSUME NEW t \in Threads, StoreAlert(t)
      PROVE  GateInv'
  BY <1>2, <1>c, <1>i
     DEF StoreAlert, AtMostOneActive, Active, Open, Unused, Fresh, Recorded, Triggers
<1>3. ASSUME NEW t \in Threads, CheckActive(t)
      PROVE  GateInv'
  BY <1>3, <1>c, <1>i
     DEF CheckActive, Goto, store, AtMostOneActive, Active, Open, Unused, Fresh, Recorded, Triggers
<1>4. ASSUME NEW t \in Threads, CreateEvent(t)
      PROVE  GateInv'
  <2>1. created + 1 \in Events
    BY <1>4, CycleAssumption DEF CreateEvent, IInv, Room, TypeOK, Events, Cycles
  <2>2. AtMostOneActive' /\ Open' /\ Unused'
    BY <1>4, <1>c, <1>i
       DEF CreateEvent, Goto, store, AtMostOneActive, Active, Open, Unused, Triggers
  <2>3. Fresh'
    BY <1>4, <1>c, <1>i, <2>1 DEF CreateEvent, Goto, store, Unused, Fresh
  <2>4. Recorded'
    BY <1>4, <1>c, <1>i DEF CreateEvent, Goto, store, Recorded
  <2> QED  BY <2>2, <2>3, <2>4
<1>5. ASSUME NEW t \in Threads, StoreEvent(t)
      PROVE  GateInv'
  <2>1. pc' = [pc EXCEPT ![t] = "history"] /\ UNCHANGED <<event, created>>
        /\ pc[t] = "store_event"
    BY <1>5 DEF StoreEvent, Goto
  <2>2. AtMostOneActive'
    BY <1>5, StoreOpensNothing DEF AtMostOneActive
  <2>3. \A u \in Threads \ {t} : pc[u] \notin {"trigger", "store_event"}
    BY <1>i, <2>1 DEF Open, OneTrigger
  <2>4. Open' /\ Fresh'
    BY <1>c, <2>1, <2>3 DEF Open, Fresh
  <2>5. /\ event[t] \in Events /\ event[t] <= created
        /\ \A e \in Events \ {event[t]} : rollback_events'[e] = rollback_events[e]
        /\ rollback_events'[event[t]] = "active"
    BY <1>5, <1>i, <2>1, StoreOpensNothing DEF Fresh
  <2>6. Unused'
    BY <1>c, <1>i, <2>1, <2>5 DEF Unused
  <2>7. \A e \in Events : rollback_events[e] # "absent" => rollback_events'[e] # "absent"
    BY <2>5
  <2>8. ASSUME NEW u \in Threads
        PROVE  /\ pc'[u] \in {"alerts", "trigger"} => event'[u] = 0
               /\ pc'[u] \in {"history", "dispatch_rollback"} /\ event'[u] # 0
                    => rollback_events'[event'[u]] # "absent"
    <3>1. CASE u = t
      BY <1>c, <2>1, <2>5, <3>1
    <3>2. CASE u # t
      <4>1. pc'[u] = pc[u] /\ event'[u] = event[u]
        BY <2>1, <3>2
      <4>2. event[u] # 0 => event[u] \in Events
        BY <1>a, <1>b
      <4> QED  BY <1>i, <2>7, <4>1, <4>2 DEF Recorded
    <3> QED  BY <3>1, <3>2
  <2>9. Recorded'
    BY <2>8 DEF Recorded
  <2> QED  BY <2>2, <2>4, <2>6, <2>9
<1>6. ASSUME NEW t \in Threads, StoreHistory(t)
      PROVE  GateInv'
  BY <1>6, <1>c, <1>i
     DEF StoreHistory, AtMostOneActive, Active, Open, Unused, Fresh, Recorded, Triggers
<1>7. ASSUME NEW t \in Threads, Answer(t) \/ DispatchAlerts(t) \/ DispatchRollback(t) \/ CycleFails(t)
      PROVE  GateInv'
  <2>1. UNCHANGED <<event, created, rollback_events>>
    BY <1>7 DEF Answer, DispatchAlerts, DispatchRollback, CycleFails, store
  <2>2. \/ pc' = [pc EXCEPT ![t] = "idle"]
        \/ pc[t] = "history" /\ pc' = [pc EXCEPT ![t] = "dispatch_rollback"]
    BY <1>7 DEF Answer, DispatchAlerts, DispatchRollback, CycleFails, Goto
  <2> QED
    BY <1>c, <1>i, <2>1, <2>2
       DEF AtMostOneActive, Active, Open, Unused, Fresh, Recorded, Triggers
<1>8. ASSUME NEW o \in Requests, Request(o)
      PROVE  GateInv'
  <2>1. UNCHANGED <<pc, event, created>>
    BY <1>8
       DEF Request, ReadActive, NothingActive, EngineFindsNone, EngineReads, MarkResolved,
           ResolveFails, thread
  <2>2. CASE MarkResolved(o)
    <3>1. /\ target[o] \in Events /\ rollback_events[target[o]] # "absent"
          /\ Active' = Active \ {target[o]}
          /\ \A e \in Events \ {target[o]} : rollback_events'[e] = rollback_events[e]
          /\ rollback_events'[target[o]] # "absent"
      BY <2>2, ResolveFrees
    <3>2. AtMostOneActive' /\ Open' /\ Unused' /\ Fresh'
      BY <1>i, <2>1, <3>1 DEF AtMostOneActive, Open, Unused, Fresh, Triggers
    <3>3. Recorded'
      BY <1>a, <1>b, <1>i, <2>1, <3>1 DEF Recorded
    <3> QED  BY <3>2, <3>3
  <2>3. CASE ~MarkResolved(o)
    <3>1. UNCHANGED rollback_events
      BY <1>8, <2>3
         DEF Request, ReadActive, NothingActive, EngineFindsNone, EngineReads, ResolveFails, store
    <3> QED
      BY <1>i, <2>1, <3>1 DEF AtMostOneActive, Active, Open, Unused, Fresh, Recorded, Triggers
  <2> QED  BY <2>2, <2>3
<1>9. ASSUME Acknowledge \/ UNCHANGED vars
      PROVE  GateInv'
  BY <1>9, <1>i
     DEF Acknowledge, vars, thread, store, AtMostOneActive, Active, Open, Unused, Fresh,
         Recorded, Triggers
<1>10. ASSUME Restart
       PROVE  GateInv'
  BY <1>10, <1>i
     DEF Restart, store, AtMostOneActive, Active, Open, Unused, Fresh, Recorded
<1> QED
  BY <1>1, <1>2, <1>3, <1>4, <1>5, <1>6, <1>7, <1>8, <1>9, <1>10 DEF Next, Work

----------------------------------------------------------------------------
\* No other step writes the table.
LEMMA TableWriters ==
  ASSUME [Next]_vars
  PROVE  \/ UNCHANGED rollback_events
         \/ \E t \in Threads : StoreEvent(t)
         \/ \E o \in Requests : MarkResolved(o)
<1>1. ASSUME NEW t \in Threads, Work(t), ~StoreEvent(t)
      PROVE  UNCHANGED rollback_events
  BY <1>1
     DEF Work, Detect, StoreAlert, CheckActive, CreateEvent, StoreHistory, Answer,
         DispatchAlerts, DispatchRollback, CycleFails, store
<1>2. ASSUME NEW o \in Requests, Request(o), ~MarkResolved(o)
      PROVE  UNCHANGED rollback_events
  BY <1>2
     DEF Request, ReadActive, NothingActive, EngineFindsNone, EngineReads, ResolveFails, store
<1>3. Acknowledge \/ Restart \/ UNCHANGED vars => UNCHANGED rollback_events
  BY DEF Acknowledge, Restart, vars, store
<1> QED  BY <1>1, <1>2, <1>3 DEF Next

\* Whatever happens to the table, a stored event stays stored and a resolved one stays
\* resolved.
LEMMA EventsAdvance ==
  ASSUME IInv, [Next]_vars, NEW e \in Events
  PROVE  /\ rollback_events[e] # "absent" => rollback_events'[e] # "absent"
         /\ rollback_events[e] \in Requests => rollback_events'[e] \in Requests
<1>1. ASSUME NEW t \in Threads, StoreEvent(t)
      PROVE  /\ rollback_events[e] # "absent" => rollback_events'[e] # "absent"
             /\ rollback_events[e] \in Requests => rollback_events'[e] \in Requests
  BY <1>1, StoreOpensNothing, CycleAssumption
<1>2. ASSUME NEW o \in Requests, MarkResolved(o)
      PROVE  /\ rollback_events[e] # "absent" => rollback_events'[e] # "absent"
             /\ rollback_events[e] \in Requests => rollback_events'[e] \in Requests
  BY <1>2, ResolveFrees
<1>3. CASE UNCHANGED rollback_events
  BY <1>3
<1> QED  BY <1>1, <1>2, <1>3, TableWriters

\* Operators: what a request holds, and what it answers.
LEMMA RequestStep ==
  ASSUME IInv, [Next]_vars
  PROVE  Holds' /\ ReplyIsTrue'
<1>i. Holds /\ ReplyIsTrue /\ AtMostOneActive /\ TypeOK
  BY DEF IInv
<1>t. /\ step \in [Requests -> {"idle", "reread", "update"}]
      /\ saw \in [Requests -> 0..MaxCycles] /\ target \in [Requests -> 0..MaxCycles]
      /\ reply \in [Requests -> 0..MaxCycles]
      /\ rollback_events \in [Events -> {"absent", "active"} \cup Requests]
  BY <1>i DEF TypeOK
<1>e. \A n \in 0..MaxCycles : n # 0 => n \in Events
  BY CycleAssumption DEF Events, Cycles
<1>a. \A e \in Events : /\ rollback_events[e] # "absent" => rollback_events'[e] # "absent"
                        /\ rollback_events[e] \in Requests => rollback_events'[e] \in Requests
  BY EventsAdvance
<1>n. /\ Newest # 0 => Newest \in Active
      /\ Newest = 0 => Active = {}
  BY <1>i, NewestIsActive
<1>1. ASSUME UNCHANGED <<step, saw, target, reply>>
      PROVE  Holds' /\ ReplyIsTrue'
  BY <1>1, <1>a, <1>e, <1>i, <1>t DEF Holds, ReplyIsTrue
<1>2. ASSUME NEW o \in Requests, Request(o)
      PROVE  Holds' /\ ReplyIsTrue'
  <2>1. CASE ReadActive(o)
    <3>1. Newest \in Events /\ rollback_events[Newest] # "absent"
      BY <2>1, <1>n DEF ReadActive, Active
    <3> QED
      BY <2>1, <3>1, <1>i, <1>t DEF ReadActive, store, Holds, ReplyIsTrue
  <2>2. CASE NothingActive(o)
    BY <2>2, <1>i, <1>t DEF NothingActive, store, Holds, ReplyIsTrue
  <2>3. CASE EngineFindsNone(o)
    <3>1. saw[o] \in Events /\ rollback_events[saw[o]] \in Requests
      BY <2>3, <1>i, <1>n, <1>t DEF EngineFindsNone, Holds, Active
    <3> QED
      BY <2>3, <3>1, <1>i, <1>t DEF EngineFindsNone, store, Holds, ReplyIsTrue
  <2>4. CASE EngineReads(o)
    <3>1. /\ Newest \in Events /\ rollback_events[Newest] # "absent"
          /\ Newest = saw[o] \/ rollback_events[saw[o]] \in Requests
      BY <2>4, <1>i, <1>n, <1>t DEF EngineReads, Holds, Active, AtMostOneActive
    <3> QED
      BY <2>4, <3>1, <1>i, <1>t DEF EngineReads, store, Holds, ReplyIsTrue
  <2>5. CASE MarkResolved(o)
    <3>a. rollback_events'[target[o]] = o
      BY <2>5, ResolveFrees
    <3>b. step[o] = "update"
      BY <2>5 DEF MarkResolved
    <3>1. saw[o] \in Events /\ rollback_events'[saw[o]] \in Requests
      BY <3>a, <3>b, <1>a, <1>i DEF Holds
    <3>2. /\ step' = [step EXCEPT ![o] = "idle"] /\ saw' = [saw EXCEPT ![o] = 0]
          /\ target' = [target EXCEPT ![o] = 0] /\ reply' = [reply EXCEPT ![o] = saw[o]]
      BY <2>5 DEF MarkResolved
    <3>3. Holds'
      BY <3>2, <1>a, <1>i, <1>t DEF Holds
    <3>4. ReplyIsTrue'
      BY <3>1, <3>2, <1>a, <1>e, <1>i, <1>t DEF ReplyIsTrue
    <3> QED  BY <3>3, <3>4
  <2>6. CASE ResolveFails(o)
    BY <2>6, <1>i, <1>t DEF ResolveFails, store, Holds, ReplyIsTrue
  <2> QED  BY <1>2, <2>1, <2>2, <2>3, <2>4, <2>5, <2>6 DEF Request
<1>3. ASSUME Restart
      PROVE  Holds' /\ ReplyIsTrue'
  BY <1>3, <1>i DEF Restart, store, Holds, ReplyIsTrue
<1>4. (\E t \in Threads : Work(t)) \/ Acknowledge \/ UNCHANGED vars
        => UNCHANGED <<step, saw, target, reply>>
  BY DEF Work, Detect, StoreAlert, CheckActive, CreateEvent, StoreEvent, StoreHistory, Answer,
         DispatchAlerts, DispatchRollback, CycleFails, Acknowledge, vars, request
<1> QED  BY <1>1, <1>2, <1>3, <1>4 DEF Next

\* Webhooks: what was announced is in the store, and stays there.
LEMMA SentStep ==
  ASSUME IInv, [Next]_vars
  PROVE  SentIsStored'
<1>i. SentIsStored /\ Recorded /\ TypeOK
  BY DEF IInv
<1>a. \A e \in Events : rollback_events[e] # "absent" => rollback_events'[e] # "absent"
  BY EventsAdvance
<1>t. sent_events \subseteq Events /\ event \in [Threads -> 0..MaxCycles]
  BY <1>i DEF TypeOK
<1>e. \A n \in 0..MaxCycles : n # 0 => n \in Events
  BY CycleAssumption DEF Events, Cycles
<1>b. {a.id : a \in alerts} \subseteq {a.id : a \in alerts'}
  <2>1. ASSUME NEW t \in Threads, StoreAlert(t)
        PROVE  alerts \subseteq alerts'
    BY <2>1 DEF StoreAlert
  <2>2. ASSUME Acknowledge
        PROVE  {a.id : a \in alerts} \subseteq {a.id : a \in alerts'}
    <3>1. PICK a \in alerts :
            alerts' = (alerts \ {a}) \cup {[a EXCEPT !.acknowledged = TRUE]}
      BY <2>2 DEF Acknowledge
    <3>2. [a EXCEPT !.acknowledged = TRUE].id = a.id
      BY <1>i DEF TypeOK
    <3> QED  BY <3>1, <3>2
  <2>3. ASSUME NEW t \in Threads, Work(t), ~StoreAlert(t)
        PROVE  UNCHANGED alerts
    BY <2>3
       DEF Work, Detect, CheckActive, CreateEvent, StoreEvent, StoreHistory, Answer,
           DispatchAlerts, DispatchRollback, CycleFails, store
  <2>4. ASSUME NEW o \in Requests, Request(o)
        PROVE  UNCHANGED alerts
    BY <2>4
       DEF Request, ReadActive, NothingActive, EngineFindsNone, EngineReads, MarkResolved,
           ResolveFails, store
  <2>5. Restart \/ UNCHANGED vars => UNCHANGED alerts
    BY DEF Restart, vars, store
  <2> QED  BY <2>1, <2>2, <2>3, <2>4, <2>5 DEF Next
<1>1. CASE UNCHANGED dispatched
  BY <1>1, <1>a, <1>b, <1>i, <1>t DEF dispatched, SentIsStored
<1>2. ASSUME NEW t \in Threads, DispatchAlerts(t)
      PROVE  SentIsStored'
  <2>1. NewAlerts(t) \subseteq {a.id : a \in alerts}
    BY DEF NewAlerts
  <2>2. sent_alerts' = sent_alerts \cup NewAlerts(t) /\ UNCHANGED sent_events
    BY <1>2 DEF DispatchAlerts
  <2> QED  BY <2>1, <2>2, <1>a, <1>b, <1>i, <1>t DEF SentIsStored
<1>3. ASSUME NEW t \in Threads, DispatchRollback(t)
      PROVE  SentIsStored'
  <2>1. /\ pc[t] = "dispatch_rollback" /\ UNCHANGED sent_alerts
        /\ sent_events' = sent_events \cup ({event[t]} \ {0})
    BY <1>3 DEF DispatchRollback
  <2>2. event[t] # 0 => event[t] \in Events /\ rollback_events[event[t]] # "absent"
    BY <2>1, <1>e, <1>i, <1>t DEF Recorded
  <2> QED  BY <2>1, <2>2, <1>a, <1>b, <1>i, <1>t DEF SentIsStored
<1>4. ASSUME NEW t \in Threads, Work(t), ~DispatchAlerts(t), ~DispatchRollback(t)
      PROVE  UNCHANGED dispatched
  BY <1>4
     DEF Work, Detect, StoreAlert, CheckActive, CreateEvent, StoreEvent, StoreHistory, Answer,
         CycleFails, dispatched
<1>5. ASSUME NEW o \in Requests, Request(o)
      PROVE  UNCHANGED dispatched
  BY <1>5
     DEF Request, ReadActive, NothingActive, EngineFindsNone, EngineReads, MarkResolved,
         ResolveFails, dispatched
<1>6. Acknowledge \/ Restart \/ UNCHANGED vars => UNCHANGED dispatched
  BY DEF Acknowledge, Restart, vars, dispatched
<1> QED  BY <1>1, <1>2, <1>3, <1>4, <1>5, <1>6 DEF Next

LEMMA InitIInv ==
  ASSUME Init
  PROVE  IInv
<1>1. MaxCycles \in Nat /\ MaxFaults \in Nat
  BY CycleAssumption
<1>2. Active = {}
  BY DEF Init, Active
<1>3. TypeOK
  <2>1. last_error \in BOOLEAN
    BY DEF Init
  <2>2. /\ alerts = {} /\ sent_alerts = {} /\ sent_events = {}
        /\ cycles = 0 /\ created = 0 /\ cycle_count = 0 /\ faults = 0
        /\ pc = [t \in Threads |-> "idle"] /\ cycle = [t \in Threads |-> 0]
        /\ results = [t \in Threads |-> <<>>] /\ at = [t \in Threads |-> 1]
        /\ event = [t \in Threads |-> 0]
        /\ rollback_events = [e \in Events |-> "absent"]
        /\ drift_history = [c \in Cycles |-> 0]
        /\ step = [o \in Requests |-> "idle"] /\ saw = [o \in Requests |-> 0]
        /\ target = [o \in Requests |-> 0] /\ reply = [o \in Requests |-> 0]
    BY DEF Init
  <2> QED  BY <1>1, <2>1, <2>2 DEF TypeOK
<1>4. Begun /\ Room /\ AtMostOneActive /\ Open /\ Unused /\ Fresh /\ Recorded
  BY <1>2 DEF Init, Begun, Room, AtMostOneActive, Open, Unused, Fresh, Recorded
<1>5. Holds /\ ReplyIsTrue /\ SentIsStored
  BY DEF Init, Holds, ReplyIsTrue, SentIsStored
<1> QED  BY <1>3, <1>4, <1>5 DEF IInv

----------------------------------------------------------------------------
\* The inductive invariant: with one thread that triggers rollbacks, the gate, the
\* requests and the webhooks agree with the rollback table in every reachable state.
THEOREM Invariant ==
  ASSUME OneTrigger
  PROVE  Spec => []IInv
<1>1. IInv /\ [Next]_vars => IInv'
  <2> SUFFICES ASSUME IInv, [Next]_vars
               PROVE  IInv'
    OBVIOUS
  <2>1. TypeOK' /\ Begun' /\ Room'
    BY TypeStep
  <2>2. GateInv'
    BY GateStep
  <2>3. Holds' /\ ReplyIsTrue' /\ SentIsStored'
    BY RequestStep, SentStep
  <2> QED  BY <2>1, <2>2, <2>3 DEF IInv, GateInv
<1> QED  BY <1>1, InitIInv, PTL DEF Spec

\* Every variable of the service keeps its type.
THEOREM TypeCorrect ==
  ASSUME OneTrigger
  PROVE  Spec => []TypeOK
<1>1. IInv => TypeOK
  BY DEF IInv
<1> QED  BY <1>1, Invariant, PTL

\* maybe_trigger never leaves two rollbacks active.
THEOREM GateHoldsOneEvent ==
  ASSUME OneTrigger
  PROVE  Spec => []AtMostOneActive
<1>1. IInv => AtMostOneActive
  BY DEF IInv
<1> QED  BY <1>1, Invariant, PTL

\* POST /governance/rollback/resolve names only events that are resolved.
THEOREM RepliesAreTrue ==
  ASSUME OneTrigger
  PROVE  Spec => []ReplyIsTrue
<1>1. IInv => ReplyIsTrue
  BY DEF IInv
<1> QED  BY <1>1, Invariant, PTL

\* Webhooks announce only what the store holds.
THEOREM NothingSentUnstored ==
  ASSUME OneTrigger
  PROVE  Spec => []SentIsStored
<1>1. IInv => SentIsStored
  BY DEF IInv
<1> QED  BY <1>1, Invariant, PTL

----------------------------------------------------------------------------
\* The rollback table implements the latch: storing an event trips it, marking an
\* active event resolves it, and marking one that is resolved already changes nothing.
THEOREM Refinement ==
  ASSUME OneTrigger
  PROVE  Spec => LatchSpec
<1>1. Init => Latch!Init
  BY CycleAssumption DEF Init, Latch!Init, Active
<1>2. IInv /\ [Next]_vars => [Latch!Next]_(Latch!gate)
  <2> SUFFICES ASSUME IInv, [Next]_vars
               PROVE  [Latch!Next]_(Latch!gate)
    OBVIOUS
  <2> DEFINE Resolved == {e \in Events : rollback_events[e] \in Requests}
  <2>1. CASE UNCHANGED rollback_events
    BY <2>1 DEF Latch!gate, Active
  <2>2. ASSUME NEW t \in Threads, StoreEvent(t)
        PROVE  Latch!Next
    <3>1. /\ Active = {} /\ Active' = {event[t]} /\ event[t] \in Events
          /\ rollback_events[event[t]] = "absent"
          /\ \A e \in Events \ {event[t]} : rollback_events'[e] = rollback_events[e]
          /\ rollback_events'[event[t]] = "active"
      BY <2>2, StoreOpensNothing
    <3>2. event[t] \notin Resolved /\ Resolved' = Resolved
      BY <3>1, CycleAssumption DEF Events, Cycles
    <3>3. Latch!Trip(event[t])
      BY <3>1, <3>2 DEF Latch!Trip
    <3> QED  BY <3>1, <3>3 DEF Latch!Next
  <2>3. ASSUME NEW o \in Requests, MarkResolved(o)
        PROVE  Latch!Next \/ UNCHANGED Latch!gate
    <3>1. /\ target[o] \in Events /\ rollback_events[target[o]] # "absent"
          /\ Active' = Active \ {target[o]}
          /\ \A e \in Events \ {target[o]} : rollback_events'[e] = rollback_events[e]
          /\ rollback_events'[target[o]] = o
      BY <2>3, ResolveFrees
    <3>2. Resolved' = Resolved \cup {target[o]}
      BY <3>1 DEF Events, Cycles
    <3>3. CASE target[o] \in Active
      <4>1. PICK e \in Events : e = target[o]
        BY <3>1
      <4>2. Latch!Resolve(e)
        BY <3>1, <3>2, <3>3, <4>1 DEF Latch!Resolve
      <4>3. Latch!Next
        BY <4>2 DEF Latch!Next
      <4> QED  BY <4>3
    <3>4. CASE target[o] \notin Active
      <4>1. target[o] \in Resolved
        BY <3>1, <3>4 DEF IInv, TypeOK, Active
      <4> QED  BY <3>1, <3>2, <3>4, <4>1 DEF Latch!gate
    <3> QED  BY <3>3, <3>4
  <2> QED  BY <2>1, <2>2, <2>3, TableWriters
<1> QED  BY <1>1, <1>2, Invariant, PTL DEF Spec, LatchSpec, Latch!Spec

----------------------------------------------------------------------------
\* HistoryHasAlerts, with any number of threads that trigger: the cycles of two threads
\* are different, a thread stores its alerts first, and the rows of its cycle then count
\* how far it is in its history.
Stored == {a.id : a \in alerts}

HistoryTypes ==
  /\ cycles \in Nat
  /\ cycle \in [Threads -> 0..MaxCycles]
  /\ results \in [Threads -> Detections \cup {<<>>}]
  /\ at \in [Threads -> Nat \ {0}]
  /\ pc \in [Threads -> {"idle", "alerts", "trigger", "store_event", "history",
                          "dispatch_rollback"}]
  /\ drift_history \in [Cycles -> Nat]
  /\ alerts \subseteq [id : Cycles \X (Nat \ {0}), category : Categories,
                       severity : {"warning", "critical"}, acknowledged : BOOLEAN]

OwnCycles == /\ \A t \in Threads : /\ cycle[t] <= cycles
                                   /\ pc[t] # "idle" => cycle[t] # 0
             /\ \A t, u \in Threads : cycle[t] = cycle[u] /\ cycle[t] # 0 => t = u
             /\ \A c \in Cycles : c > cycles => drift_history[c] = 0

Has(t, i)   == Severity(results[t][i]) # "none" => <<cycle[t], i>> \in Stored
Covered(t)  == \A i \in 1..drift_history[cycle[t]] : Has(t, i)
HasAll(t)   == \A i \in 1..Len(results[t]) : Has(t, i)
Progress(t) ==
  cycle[t] # 0 =>
    /\ Covered(t)
    /\ pc[t] = "alerts" => drift_history[cycle[t]] = 0 /\ \A i \in 1..at[t] - 1 : Has(t, i)
    /\ pc[t] \in {"trigger", "store_event"} => drift_history[cycle[t]] = 0 /\ at[t] = 1 /\ HasAll(t)
    /\ pc[t] = "history" => drift_history[cycle[t]] = at[t] - 1 /\ HasAll(t)

HistoryInv == HistoryTypes /\ OwnCycles /\ \A t \in Threads : Progress(t)

LEMMA ResultsAreSequences ==
  ASSUME HistoryTypes, NEW t \in Threads
  PROVE  results[t] \in Seq(DriftResult) /\ Len(results[t]) \in Nat
<1>1. results[t] \in Detections \cup {<<>>}
  BY DEF HistoryTypes
<1>2. <<>> \in Seq(DriftResult)
  OBVIOUS
<1>3. results[t] \in Seq(DriftResult)
  BY <1>1, <1>2, CycleAssumption
<1> QED  BY <1>3

\* A thread that is not concerned, or gives its cycle up, keeps what was true of it: alerts
\* are never taken back.
LEMMA OthersProgress ==
  ASSUME HistoryInv, NEW t \in Threads,
         cycle'[t] = cycle[t], results'[t] = results[t],
         cycle[t] # 0 => drift_history'[cycle[t]] = drift_history[cycle[t]],
         Stored \subseteq Stored',
         \/ pc'[t] = pc[t] /\ at'[t] = at[t]
         \/ pc'[t] \in {"idle", "dispatch_rollback"}
  PROVE  Progress(t)'
<1>1. ASSUME NEW i, Has(t, i)
      PROVE  Has(t, i)'
  BY <1>1 DEF Has
<1>2. Progress(t)
  BY DEF HistoryInv
<1> QED  BY <1>1, <1>2 DEF Progress, Covered, HasAll

\* A step of thread t that is the only one to move, and keeps its cycle.
LEMMA OneProgresses ==
  ASSUME HistoryInv, NEW t \in Threads, UNCHANGED <<cycle, results, cycles>>, Stored \subseteq Stored',
         drift_history' \in [Cycles -> Nat], at' \in [Threads -> Nat \ {0}],
         alerts' \subseteq [id : Cycles \X (Nat \ {0}), category : Categories,
                            severity : {"warning", "critical"}, acknowledged : BOOLEAN],
         pc[t] # "idle", NEW s, pc' = [pc EXCEPT ![t] = s],
         s \in {"idle", "alerts", "trigger", "store_event", "history", "dispatch_rollback"},
         \A c \in Cycles : c # cycle[t] => drift_history'[c] = drift_history[c],
         \A u \in Threads : u # t => at'[u] = at[u],
         Progress(t)'
  PROVE  HistoryInv'
<1>t. HistoryTypes /\ OwnCycles
  BY DEF HistoryInv
<1>1. HistoryTypes'
  BY <1>t DEF HistoryTypes
<1>2. cycle[t] \in Cycles /\ cycle[t] <= cycles
  BY <1>t, CycleAssumption DEF HistoryTypes, OwnCycles, Cycles
<1>3. OwnCycles'
  <2>1. \A c \in Cycles : c > cycles => c # cycle[t]
    BY <1>2, <1>t, CycleAssumption DEF HistoryTypes, Cycles
  <2>2. \A u \in Threads : pc'[u] # "idle" => pc[u] # "idle"
    BY <1>t DEF HistoryTypes
  <2> QED  BY <2>1, <2>2, <1>t DEF OwnCycles
<1>4. ASSUME NEW u \in Threads, u # t
      PROVE  Progress(u)'
  <2>1. cycle[u] # 0 => cycle[u] \in Cycles /\ cycle[u] # cycle[t]
    BY <1>4, <1>t, CycleAssumption DEF HistoryTypes, OwnCycles, Cycles
  <2>2. pc'[u] = pc[u] /\ at'[u] = at[u] /\ cycle'[u] = cycle[u] /\ results'[u] = results[u]
    BY <1>4, <1>t DEF HistoryTypes
  <2> QED  BY <2>1, <2>2, OthersProgress
<1> QED  BY <1>1, <1>3, <1>4 DEF HistoryInv

LEMMA HistoryStep ==
  ASSUME HistoryInv, [Next]_vars
  PROVE  HistoryInv'
<1> USE DEF thread, store, dispatched, counters, request, vars
<1>t. HistoryTypes /\ OwnCycles /\ \A t \in Threads : Progress(t)
  BY DEF HistoryInv
<1>k. drift_history \in [Cycles -> Nat] /\ at \in [Threads -> Nat \ {0}]
      /\ alerts \subseteq [id : Cycles \X (Nat \ {0}), category : Categories,
                           severity : {"warning", "critical"}, acknowledged : BOOLEAN]
      /\ MaxCycles \in Nat /\ Cycles = 1..MaxCycles /\ cycles \in Nat
      /\ \A t \in Threads : cycle[t] \in 0..MaxCycles
  BY <1>t, CycleAssumption DEF HistoryTypes, Cycles
<1>r. ASSUME UNCHANGED <<cycle, results, cycles, drift_history>>, Stored \subseteq Stored',
             alerts' \subseteq [id : Cycles \X (Nat \ {0}), category : Categories,
                                severity : {"warning", "critical"}, acknowledged : BOOLEAN],
             \/ UNCHANGED <<pc, at>>
             \/ pc' = [t \in Threads |-> "idle"] /\ UNCHANGED at
      PROVE  HistoryInv'
  <2>1. HistoryTypes' /\ OwnCycles'
    BY <1>r, <1>t DEF HistoryTypes, OwnCycles
  <2>2. ASSUME NEW t \in Threads
        PROVE  Progress(t)'
    BY <1>r, OthersProgress
  <2> QED  BY <2>1, <2>2 DEF HistoryInv
<1>1. ASSUME NEW t \in Threads, Detect(t)
      PROVE  HistoryInv'
  <2>1. /\ pc[t] = "idle" /\ cycles < MaxCycles /\ cycles' = cycles + 1
        /\ cycle' = [cycle EXCEPT ![t] = cycles + 1] /\ at' = [at EXCEPT ![t] = 1]
        /\ pc' = [pc EXCEPT ![t] = "alerts"] /\ UNCHANGED <<drift_history, alerts>>
    BY <1>1 DEF Detect, Goto
  <2>2. PICK found \in Detections : results' = [results EXCEPT ![t] = found]
    BY <1>1 DEF Detect
  <2>3. cycles + 1 \in Cycles /\ cycles' \in Nat
    BY <2>1, <1>k
  <2>4. HistoryTypes'
    BY <2>1, <2>2, <2>3, <1>t, <1>k DEF HistoryTypes
  <2>5. \A u \in Threads : cycle[u] <= cycles /\ cycle[u] # cycles + 1
    BY <1>t, <1>k DEF OwnCycles
  <2>6. OwnCycles'
    <3>1. \A u \in Threads : cycle'[u] <= cycles' /\ (pc'[u] # "idle" => cycle'[u] # 0)
      BY <2>1, <2>3, <2>5, <1>t, <1>k DEF HistoryTypes, OwnCycles
    <3>2. \A u, w \in Threads : cycle'[u] = cycle'[w] /\ cycle'[u] # 0 => u = w
      BY <2>1, <2>5, <1>t DEF HistoryTypes, OwnCycles
    <3>3. \A c \in Cycles : c > cycles' => drift_history'[c] = 0
      BY <2>1, <1>t, <1>k DEF OwnCycles
    <3> QED  BY <3>1, <3>2, <3>3 DEF OwnCycles
  <2>7. Progress(t)'
    <3>1. cycle'[t] = cycles + 1 /\ drift_history'[cycles + 1] = 0 /\ at'[t] = 1 /\ pc'[t] = "alerts"
      BY <2>1, <2>3, <1>t, <1>k DEF HistoryTypes, OwnCycles
    <3>2. 1..0 = {} /\ at'[t] - 1 = 0
      BY <3>1
    <3> QED  BY <3>1, <3>2 DEF Progress, Covered
  <2>8. ASSUME NEW u \in Threads, u # t
        PROVE  Progress(u)'
    BY <2>1, <2>2, <2>8, <1>t, OthersProgress DEF HistoryTypes, Stored
  <2> QED  BY <2>4, <2>6, <2>7, <2>8 DEF HistoryInv
<1>2. ASSUME NEW t \in Threads, StoreAlert(t)
      PROVE  HistoryInv'
  <2> DEFINE r     == results[t][at[t]]
             alert == [id |-> <<cycle[t], at[t]>>, category |-> r.category,
                       severity |-> Severity(r), acknowledged |-> FALSE]
  <2>1. /\ pc[t] = "alerts" /\ at[t] <= Len(results[t]) /\ at' = [at EXCEPT ![t] = at[t] + 1]
        /\ alerts' = IF Severity(r) = "none" THEN alerts ELSE alerts \cup {alert}
        /\ UNCHANGED <<pc, cycle, results, cycles, drift_history>>
    BY <1>2 DEF StoreAlert, InLoop
  <2>2. r \in DriftResult /\ r.category \in Categories /\ cycle[t] \in Cycles
        /\ at[t] \in Nat \ {0}
    <3>1. results[t] \in Seq(DriftResult) /\ at[t] \in 1..Len(results[t])
      BY <2>1, <1>t, <1>k, ResultsAreSequences
    <3>2. r \in DriftResult
      BY <3>1
    <3> QED  BY <2>1, <3>1, <3>2, <1>t, <1>k DEF DriftResult, OwnCycles
  <2>3. Severity(r) # "none" => Severity(r) \in {"warning", "critical"}
    BY <2>2, SeverityType
  <2>4. alerts' \subseteq [id : Cycles \X (Nat \ {0}), category : Categories,
                           severity : {"warning", "critical"}, acknowledged : BOOLEAN]
    <3> HIDE DEF r
    <3>1. Severity(r) # "none" => alert \in [id : Cycles \X (Nat \ {0}), category : Categories,
                                             severity : {"warning", "critical"}, acknowledged : BOOLEAN]
      BY <2>2, <2>3
    <3> HIDE DEF alert
    <3> QED  BY <3>1, <2>1, <1>k
  <2>5. Stored \subseteq Stored' /\ (Severity(r) # "none" => <<cycle[t], at[t]>> \in Stored')
    <3>1. alert.id = <<cycle[t], at[t]>>
      OBVIOUS
    <3> HIDE DEF r, alert
    <3> QED  BY <3>1, <2>1 DEF Stored
  <2>6. Progress(t)'
    <3>1. drift_history[cycle[t]] = 0 /\ \A i \in 1..at[t] - 1 : Has(t, i)
      BY <2>1, <2>2, <1>t, <1>k DEF Progress
    <3>2. \A i : Has(t, i) => Has(t, i)'
      BY <2>1, <2>5 DEF Has
    <3>3. \A i : i = at[t] => Has(t, i)'
      BY <2>1, <2>5 DEF Has
    <3>4. at'[t] - 1 = at[t] /\ pc'[t] = "alerts"
      BY <2>1, <2>2, <1>k
    <3>5. ASSUME NEW i \in 1..at[t]
          PROVE  Has(t, i)'
      <4>1. i \in 1..at[t] - 1 \/ i = at[t]
        BY <2>2
      <4>2. CASE i = at[t]
        BY <4>2, <3>3
      <4>3. CASE i \in 1..at[t] - 1
        BY <4>3, <3>1, <3>2
      <4> QED  BY <4>1, <4>2, <4>3
    <3>6. Covered(t)'
      BY <3>1, <2>1 DEF Covered
    <3> QED  BY <3>1, <3>4, <3>5, <3>6, <2>1 DEF Progress
  <2>7. at' \in [Threads -> Nat \ {0}] /\ \A u \in Threads : u # t => at'[u] = at[u]
    BY <2>1, <2>2, <1>k
  <2>8. pc' = [pc EXCEPT ![t] = "alerts"] /\ pc[t] # "idle"
    BY <2>1, <1>t DEF HistoryTypes
  <2> QED  BY <2>1, <2>4, <2>5, <2>6, <2>7, <2>8, <1>k, OneProgresses

\* Steps that leave the alerts and the rows alone.
<1>e. ASSUME NEW t \in Threads, pc[t] # "idle", NEW s, pc' = [pc EXCEPT ![t] = s],
             s \in {"idle", "alerts", "trigger", "store_event", "history", "dispatch_rollback"},
             UNCHANGED <<cycle, results, cycles, alerts, drift_history>>,
             \/ at' = at
             \/ at' = [at EXCEPT ![t] = 1],
             Progress(t)'
      PROVE  HistoryInv'
  <2>1. at' \in [Threads -> Nat \ {0}] /\ \A u \in Threads : u # t => at'[u] = at[u]
    BY <1>e, <1>k
  <2>2. Stored' = Stored
    BY <1>e DEF Stored
  <2> QED  BY <1>e, <1>k, <2>1, <2>2, OneProgresses
<1>h. ASSUME NEW t \in Threads, UNCHANGED <<cycle, results, alerts>>
      PROVE  \A i : Has(t, i)' = Has(t, i)
  BY <1>h DEF Has, Stored
<1>3. ASSUME NEW t \in Threads, CheckActive(t)
      PROVE  HistoryInv'
  <2>1. /\ pc[t] = "alerts" /\ ~(at[t] <= Len(results[t])) /\ at' = [at EXCEPT ![t] = 1]
        /\ pc' = [pc EXCEPT ![t] = pc'[t]] /\ pc'[t] \in {"trigger", "history"}
        /\ UNCHANGED <<cycle, results, cycles, alerts, drift_history>>
    BY <1>3, <1>t DEF CheckActive, Goto, InLoop, HistoryTypes
  <2>2. cycle[t] # 0 /\ drift_history[cycle[t]] = 0 /\ \A i \in 1..at[t] - 1 : Has(t, i)
    BY <2>1, <1>t DEF Progress, OwnCycles
  <2>3. HasAll(t)
    <3>1. 1..Len(results[t]) \subseteq 1..at[t] - 1
      BY <2>1, <1>t, <1>k, ResultsAreSequences
    <3> QED  BY <2>2, <3>1 DEF HasAll
  <2>4. at'[t] = 1 /\ 1 - 1 = 0
    BY <2>1, <1>k
  <2>5. Covered(t)
    BY <2>2, <1>t DEF Progress
  <2>6. Progress(t)'
    BY <2>1, <2>2, <2>3, <2>4, <2>5, <1>h DEF Progress, HasAll, Covered
  <2> QED  BY <2>1, <2>6, <1>e
<1>4. ASSUME NEW t \in Threads, CreateEvent(t)
      PROVE  HistoryInv'
  <2>1. /\ pc[t] = "trigger" /\ pc' = [pc EXCEPT ![t] = "store_event"]
        /\ UNCHANGED <<cycle, results, at, cycles, alerts, drift_history>>
    BY <1>4 DEF CreateEvent, Goto
  <2>2. Progress(t)'
    BY <2>1, <1>t, <1>h DEF Progress, HasAll, Covered, HistoryTypes
  <2> QED  BY <2>1, <2>2, <1>e
<1>5. ASSUME NEW t \in Threads, StoreEvent(t)
      PROVE  HistoryInv'
  <2>1. /\ pc[t] = "store_event" /\ pc' = [pc EXCEPT ![t] = "history"]
        /\ UNCHANGED <<cycle, results, at, cycles, alerts, drift_history>>
    BY <1>5 DEF StoreEvent, Goto
  <2>2. Progress(t)'
    BY <2>1, <1>t, <1>h DEF Progress, HasAll, Covered, HistoryTypes
  <2> QED  BY <2>1, <2>2, <1>e
<1>6. ASSUME NEW t \in Threads, StoreHistory(t)
      PROVE  HistoryInv'
  <2>1. /\ pc[t] = "history" /\ at[t] <= Len(results[t]) /\ at' = [at EXCEPT ![t] = at[t] + 1]
        /\ drift_history' = [drift_history EXCEPT ![cycle[t]] = drift_history[cycle[t]] + 1]
        /\ UNCHANGED <<pc, cycle, results, cycles, alerts>>
    BY <1>6 DEF StoreHistory, InLoop
  <2>2. cycle[t] \in Cycles /\ drift_history[cycle[t]] = at[t] - 1 /\ HasAll(t) /\ at[t] \in Nat \ {0}
    BY <2>1, <1>t, <1>k DEF Progress, OwnCycles
  <2>3. at'[t] = at[t] + 1 /\ drift_history'[cycle[t]] = at[t] /\ at'[t] - 1 = at[t]
    BY <2>1, <2>2, <1>k
  <2>4. 1..at[t] \subseteq 1..Len(results[t])
    BY <2>1, <2>2, <1>t, ResultsAreSequences
  <2>5. Covered(t)' /\ HasAll(t)'
    BY <2>1, <2>2, <2>3, <2>4, <1>h DEF Covered, HasAll
  <2>6. Progress(t)'
    BY <2>1, <2>3, <2>5 DEF Progress
  <2>7. /\ drift_history' \in [Cycles -> Nat] /\ at' \in [Threads -> Nat \ {0}]
        /\ \A c \in Cycles : c # cycle[t] => drift_history'[c] = drift_history[c]
        /\ \A u \in Threads : u # t => at'[u] = at[u]
    BY <2>1, <2>2, <1>k
  <2>8. pc' = [pc EXCEPT ![t] = "history"] /\ pc[t] # "idle" /\ Stored' = Stored
    BY <2>1, <1>t DEF HistoryTypes, Stored
  <2> QED  BY <2>1, <2>6, <2>7, <2>8, <1>k, OneProgresses
<1>7. ASSUME NEW t \in Threads, Answer(t) \/ DispatchAlerts(t) \/ DispatchRollback(t) \/ CycleFails(t)
      PROVE  HistoryInv'
  <2>1. /\ pc[t] # "idle" /\ UNCHANGED <<cycle, results, at, cycles, alerts, drift_history>>
        /\ \E s \in {"idle", "dispatch_rollback"} : pc' = [pc EXCEPT ![t] = s]
    BY <1>7 DEF Answer, DispatchAlerts, DispatchRollback, CycleFails, Goto
  <2>2. pc'[t] \in {"idle", "dispatch_rollback"} /\ Stored' = Stored
    BY <2>1, <1>t DEF HistoryTypes, Stored
  <2>3. Progress(t)'
    BY <2>1, <2>2, OthersProgress
  <2> QED  BY <2>1, <2>3, <1>e
<1>8. ASSUME NEW o \in Requests, Request(o)
      PROVE  HistoryInv'
  <2>1. UNCHANGED <<pc, cycle, results, at, cycles, alerts, drift_history>>
    BY <1>8 DEF Request, ReadActive, NothingActive, EngineFindsNone, EngineReads, MarkResolved, ResolveFails
  <2>2. Stored' = Stored
    BY <2>1 DEF Stored
  <2> QED  BY <2>1, <2>2, <1>k, <1>r
<1>9. ASSUME Acknowledge
      PROVE  HistoryInv'
  <2>1. UNCHANGED <<pc, cycle, results, at, cycles, drift_history>>
    BY <1>9 DEF Acknowledge
  <2>2. PICK a \in alerts : alerts' = (alerts \ {a}) \cup {[a EXCEPT !.acknowledged = TRUE]}
    BY <1>9 DEF Acknowledge
  <2> DEFINE b == [a EXCEPT !.acknowledged = TRUE]
  <2>3. b.id = a.id /\ b \in [id : Cycles \X (Nat \ {0}), category : Categories,
                              severity : {"warning", "critical"}, acknowledged : BOOLEAN]
    BY <1>k
  <2> HIDE DEF b
  <2>4. alerts' = (alerts \ {a}) \cup {b}
    BY <2>2 DEF b
  <2>5. Stored \subseteq Stored'
    BY <2>3, <2>4 DEF Stored
  <2> QED  BY <2>1, <2>3, <2>4, <2>5, <1>k, <1>r
<1>10. ASSUME Restart
       PROVE  HistoryInv'
  <2>1. UNCHANGED <<cycle, results, at, cycles, alerts, drift_history>> /\ pc' = [t \in Threads |-> "idle"]
    BY <1>10 DEF Restart
  <2>2. Stored' = Stored
    BY <2>1 DEF Stored
  <2> QED  BY <2>1, <2>2, <1>k, <1>r
<1>11. ASSUME UNCHANGED vars
       PROVE  HistoryInv'
  <2>1. UNCHANGED <<pc, cycle, results, at, cycles, alerts, drift_history>> /\ Stored' = Stored
    BY <1>11 DEF Stored
  <2> QED  BY <2>1, <1>k, <1>r
<1> QED  BY <1>1, <1>2, <1>3, <1>4, <1>5, <1>6, <1>7, <1>8, <1>9, <1>10, <1>11 DEF Next, Work

LEMMA HistoryStart == Init => HistoryInv
<1> SUFFICES ASSUME Init PROVE HistoryInv
  OBVIOUS
<1>1. HistoryTypes /\ OwnCycles
  BY CycleAssumption DEF Init, HistoryTypes, OwnCycles
<1>2. \A t \in Threads : Progress(t)
  BY DEF Init, Progress
<1> QED  BY <1>1, <1>2 DEF HistoryInv

\* Whatever fails, and however many threads run cycles, no row of history above a
\* threshold lacks its alert (scheduler.py:95-107, alerts.py).
THEOREM HistoryAlwaysHasAlerts == Spec => []HistoryHasAlerts
<1>1. HistoryInv => HistoryHasAlerts
  BY DEF HistoryInv, Progress, Covered, Has, Stored, HistoryHasAlerts
<1> QED  BY <1>1, HistoryStart, HistoryStep, PTL DEF Spec

----------------------------------------------------------------------------
\* AnnouncedUnlessFaulty: only the thread of a cycle stores its alerts, so that none
\* comes after its scheduler has announced them.
Announced(t) ==
  Kind[t] = "scheduler" =>
    /\ pc[t] \in {"idle", "dispatch_rollback"} => NewAlerts(t) \subseteq sent_alerts
    /\ pc[t] = "idle" /\ event[t] # 0 => event[t] \in sent_events
AnnouncedInv == /\ faults \in Nat /\ created \in Nat
                /\ event \in [Threads -> Nat]
                /\ faults = 0 => \A t \in Threads : Announced(t)

LEMMA AlertsOfCycle ==
  ASSUME NEW t
  PROVE  NewAlerts(t) = {i \in Stored : i[1] = cycle[t]}
BY DEF NewAlerts, Stored

\* A thread that does not move, in a step that brings no alert of its cycle.
LEMMA OthersAnnounced ==
  ASSUME NEW t \in Threads, Announced(t), pc'[t] = pc[t], event'[t] = event[t],
         NewAlerts(t)' \subseteq NewAlerts(t),
         sent_alerts \subseteq sent_alerts', sent_events \subseteq sent_events'
  PROVE  Announced(t)'
BY DEF Announced

LEMMA AnnouncedStep ==
  ASSUME HistoryInv, AnnouncedInv, [Next]_vars
  PROVE  AnnouncedInv'
<1> USE DEF thread, store, dispatched, counters, request, vars
<1>h. HistoryTypes /\ OwnCycles
  BY DEF HistoryInv
<1>f. ASSUME faults' = faults + 1, UNCHANGED <<event, created>>
      PROVE  AnnouncedInv'
  BY <1>f DEF AnnouncedInv
\* Steps without a fault: what has to be shown of the thread that moves.
<1>s. ASSUME NEW t \in Threads, faults' = faults,
             \A u \in Threads : u # t => pc'[u] = pc[u] /\ event'[u] = event[u] /\ NewAlerts(u)' = NewAlerts(u),
             event' \in [Threads -> Nat] /\ created' \in Nat,
             sent_alerts \subseteq sent_alerts', sent_events \subseteq sent_events',
             faults = 0 /\ Announced(t) => Announced(t)'
      PROVE  AnnouncedInv'
  BY <1>s, OthersAnnounced DEF AnnouncedInv
<1>1. ASSUME NEW t \in Threads, Detect(t)
      PROVE  AnnouncedInv'
  <2>1. /\ faults' = faults /\ UNCHANGED <<alerts, created, dispatched>>
        /\ cycle' = [cycle EXCEPT ![t] = cycles + 1] /\ event' = [event EXCEPT ![t] = 0]
        /\ pc' = [pc EXCEPT ![t] = "alerts"]
    BY <1>1 DEF Detect, Goto
  <2>2. \A u \in Threads : u # t => pc'[u] = pc[u] /\ event'[u] = event[u] /\ cycle'[u] = cycle[u]
    BY <2>1, <1>h DEF HistoryTypes, AnnouncedInv
  <2>3. Stored' = Stored
    BY <2>1 DEF Stored
  <2>4. \A u \in Threads : u # t => NewAlerts(u)' = NewAlerts(u)
    BY <2>1, <2>2 DEF NewAlerts
  <2>5. Announced(t)'
    BY <2>1, <1>h DEF Announced, HistoryTypes
  <2>6. event' \in [Threads -> Nat] /\ created' \in Nat
    BY <2>1 DEF AnnouncedInv
  <2> QED  BY <2>1, <2>2, <2>4, <2>5, <2>6, <1>s
<1>2. ASSUME NEW t \in Threads, StoreAlert(t)
      PROVE  AnnouncedInv'
  <2> DEFINE new == [id |-> <<cycle[t], at[t]>>, category |-> results[t][at[t]].category,
                     severity |-> Severity(results[t][at[t]]), acknowledged |-> FALSE]
  <2>1. /\ pc[t] = "alerts" /\ UNCHANGED <<pc, cycle, event, created, dispatched, faults>>
        /\ alerts' = alerts \/ alerts' = alerts \cup {new}
    BY <1>2 DEF StoreAlert
  <2>2. new.id[1] = cycle[t] /\ cycle[t] # 0
    BY <2>1, <1>h DEF OwnCycles
  <2> HIDE DEF new
  <2>3. ASSUME NEW u \in Threads, u # t
        PROVE  NewAlerts(u)' = NewAlerts(u)
    <3>1. cycle[u] # cycle[t]
      BY <2>2, <2>3, <1>h DEF OwnCycles
    <3> QED  BY <2>1, <2>2, <3>1 DEF NewAlerts
  <2>4. Announced(t)'
    BY <2>1 DEF Announced
  <2> QED  BY <2>1, <2>3, <2>4, <1>s DEF AnnouncedInv
\* Steps that leave the alerts alone, away from rest.
<1>e. ASSUME NEW t \in Threads, UNCHANGED <<alerts, cycle, dispatched, faults>>, event' \in [Threads -> Nat] /\ created' \in Nat,
             \A u \in Threads : u # t => pc'[u] = pc[u] /\ event'[u] = event[u],
             pc'[t] \notin {"idle", "dispatch_rollback"} \/ Kind[t] # "scheduler"
      PROVE  AnnouncedInv'
  BY <1>e, <1>s DEF NewAlerts, Announced
<1>3. ASSUME NEW t \in Threads,
             CheckActive(t) \/ CreateEvent(t) \/ StoreEvent(t) \/ StoreHistory(t) \/ Answer(t)
      PROVE  AnnouncedInv'
  <2>1. /\ UNCHANGED <<alerts, cycle, dispatched, faults>>
        /\ event' = event \/ event' = [event EXCEPT ![t] = created + 1]
        /\ created' \in {created, created + 1}
        /\ \/ pc' = pc /\ pc[t] = "history"
           \/ \E s \in {"trigger", "store_event", "history"} : pc' = [pc EXCEPT ![t] = s]
           \/ pc' = [pc EXCEPT ![t] = "idle"] /\ Kind[t] # "scheduler"
    BY <1>3 DEF CheckActive, CreateEvent, StoreEvent, StoreHistory, Answer, Goto
  <2>2. event' \in [Threads -> Nat] /\ created' \in Nat /\ \A u \in Threads : u # t => pc'[u] = pc[u] /\ event'[u] = event[u]
    BY <2>1, <1>3, <1>h DEF AnnouncedInv, HistoryTypes
  <2>3. pc'[t] \notin {"idle", "dispatch_rollback"} \/ Kind[t] # "scheduler"
    BY <2>1, <1>h DEF HistoryTypes
  <2> QED  BY <2>1, <2>2, <2>3, <1>e
<1>4. ASSUME NEW t \in Threads, DispatchAlerts(t)
      PROVE  AnnouncedInv'
  <2>1. /\ sent_alerts' = sent_alerts \cup NewAlerts(t) /\ pc' = [pc EXCEPT ![t] = "dispatch_rollback"]
        /\ UNCHANGED <<alerts, cycle, event, created, sent_events, faults>>
    BY <1>4 DEF DispatchAlerts, Goto
  <2>2. \A u \in Threads : NewAlerts(u)' = NewAlerts(u)
    BY <2>1 DEF NewAlerts
  <2>3. Announced(t)'
    BY <2>1, <2>2, <1>h DEF Announced, HistoryTypes
  <2> QED  BY <2>1, <2>2, <2>3, <1>h, <1>s DEF AnnouncedInv, HistoryTypes
<1>5. ASSUME NEW t \in Threads, DispatchRollback(t)
      PROVE  AnnouncedInv'
  <2>1. /\ sent_events' = sent_events \cup ({event[t]} \ {0}) /\ pc[t] = "dispatch_rollback"
        /\ pc' = [pc EXCEPT ![t] = "idle"] /\ UNCHANGED <<alerts, cycle, event, created, sent_alerts, faults>>
    BY <1>5 DEF DispatchRollback, Goto
  <2>2. \A u \in Threads : NewAlerts(u)' = NewAlerts(u)
    BY <2>1 DEF NewAlerts
  <2>3. Announced(t) => Announced(t)'
    BY <2>1, <2>2, <1>h DEF Announced, HistoryTypes
  <2> QED  BY <2>1, <2>2, <2>3, <1>h, <1>s DEF AnnouncedInv, HistoryTypes
<1>6. ASSUME NEW t \in Threads, CycleFails(t)
      PROVE  AnnouncedInv'
  BY <1>6, <1>f DEF CycleFails
\* Steps of no thread.
<1>r. ASSUME UNCHANGED <<thread, created, dispatched, faults>>, Stored' = Stored
      PROVE  AnnouncedInv'
  <2>1. \A t \in Threads : NewAlerts(t)' = NewAlerts(t)
    <3>1. \A t : NewAlerts(t) = {i \in Stored : i[1] = cycle[t]}
      BY AlertsOfCycle
    <3>2. \A t : NewAlerts(t)' = {i \in Stored' : i[1] = cycle'[t]}
      BY DEF NewAlerts, Stored
    <3> QED  BY <1>r, <3>1, <3>2
  <2> QED  BY <1>r, <2>1, OthersAnnounced DEF AnnouncedInv
<1>7. ASSUME NEW o \in Requests, Request(o)
      PROVE  AnnouncedInv'
  <2>1. alerts' = alerts => Stored' = Stored
    BY DEF Stored
  <2> QED  BY <1>7, <2>1, <1>r, <1>f
           DEF Request, ReadActive, NothingActive, EngineFindsNone, EngineReads, MarkResolved, ResolveFails
<1>8. ASSUME Acknowledge
      PROVE  AnnouncedInv'
  <2>1. UNCHANGED <<thread, created, dispatched, faults>>
    BY <1>8 DEF Acknowledge
  <2>2. PICK a \in alerts : alerts' = (alerts \ {a}) \cup {[a EXCEPT !.acknowledged = TRUE]}
    BY <1>8 DEF Acknowledge
  <2> DEFINE b == [a EXCEPT !.acknowledged = TRUE]
  <2>3. b.id = a.id
    BY <1>h DEF HistoryTypes
  <2> HIDE DEF b
  <2>4. alerts' = (alerts \ {a}) \cup {b}
    BY <2>2 DEF b
  <2>5. Stored' = Stored
    BY <2>3, <2>4 DEF Stored
  <2> QED  BY <2>1, <2>5, <1>r
<1>9. ASSUME Restart
      PROVE  AnnouncedInv'
  BY <1>9, <1>f DEF Restart
<1>10. ASSUME UNCHANGED vars
       PROVE  AnnouncedInv'
  <2>1. Stored' = Stored
    BY <1>10 DEF Stored
  <2> QED  BY <1>10, <2>1, <1>r
<1> QED  BY <1>1, <1>2, <1>3, <1>4, <1>5, <1>6, <1>7, <1>8, <1>9, <1>10 DEF Next, Work

LEMMA AnnouncedStart == Init => AnnouncedInv
<1> SUFFICES ASSUME Init PROVE AnnouncedInv
  OBVIOUS
<1>1. \A t \in Threads : NewAlerts(t) = {}
  BY DEF Init, NewAlerts
<1>2. \A t \in Threads : Announced(t)
  BY <1>1 DEF Init, Announced
<1> QED  BY <1>2 DEF Init, AnnouncedInv

\* Without faults, a scheduler at rest has announced all it stored, whatever the threads of
\* the endpoints store meanwhile (scheduler.py:109-121).
THEOREM AnnouncedAlways == Spec => []AnnouncedUnlessFaulty
<1>1. AnnouncedInv => AnnouncedUnlessFaulty
  BY DEF AnnouncedInv, Announced, AnnouncedUnlessFaulty, Resting
<1>2. HistoryInv /\ AnnouncedInv /\ [Next]_vars => HistoryInv' /\ AnnouncedInv'
  BY HistoryStep, AnnouncedStep
<1> QED  BY <1>1, <1>2, HistoryStart, AnnouncedStart, PTL DEF Spec
=============================================================================

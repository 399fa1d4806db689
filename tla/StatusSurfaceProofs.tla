------------------------- MODULE StatusSurfaceProofs -------------------------
(***************************************************************************)
(* Proofs that no surface hides what is in force, and that a report tells  *)
(* all its cycle found, for every set of threads, clients, surfaces and    *)
(* detections, and every bound.                                            *)
(*                                                                         *)
(* InForceIsShown speaks of the answer only.  InForceInv says it of every  *)
(* read a viewer has made: what has been in force since the viewer began   *)
(* is in force now, and was when the read was made, so that the read has   *)
(* it.  The reads of a surface, together, then make its answer.            *)
(*                                                                         *)
(* ReportIsComplete as well speaks of the answer.  ReportInv says that a   *)
(* thread whose report is being read stands at the end of its cycle, with  *)
(* every alert and row of it stored, and that what a read has told is      *)
(* true since: alerts are only added or acknowledged, and rows are only    *)
(* added, with a score that stays.  It rests on HistoryInv, of             *)
(* DetectionCycleProofs, and on FindingsInv.                               *)
(***************************************************************************)
EXTENDS StatusSurfaces, DetectionCycleProofs, FiniteSetTheorems, WellFoundedInduction, TLAPS

AllSurfaces == {"report", "status", "html", "prometheus", "dashboard"}

\* A view has the fields of Blank.
Shaped(v) == view[v] = [surface |-> view[v].surface, reading |-> view[v].reading,
                        found |-> view[v].found, listed |-> view[v].listed,
                        gate |-> view[v].gate, log |-> view[v].log, trends |-> view[v].trends]

Shapes == /\ view = [v \in Viewers |-> view[v]]
          /\ kept_alerts = [v \in Viewers |-> kept_alerts[v]]
          /\ kept_events = [v \in Viewers |-> kept_events[v]]
          /\ \A v \in Viewers : /\ Shaped(v)
                                /\ view[v].surface \in AllSurfaces
                                /\ view[v].reading \in Int

\* What viewer v has read covers what was in force.
Covers(v, what) ==
  /\ what = "alerts" => kept_alerts[v] \subseteq Ids(view[v].listed)
  /\ what = "gate"   => kept_events[v] = {} \/ view[v].gate # 0
  /\ what = "log"    => kept_events[v] \subseteq view[v].log

StillInForce(v) == /\ kept_alerts[v] \subseteq Ids(ActiveAlerts)
                   /\ kept_events[v] \subseteq Active
HasRead(v, what) == \E k \in 1..Len(Reads(view[v].surface)) :
                     k <= view[v].reading /\ Reads(view[v].surface)[k] = what
ReadsCover(v)    == \A what \in {"alerts", "gate", "log"} : HasRead(v, what) => Covers(v, what)

InForceInv == Shapes /\ \A v \in Viewers : StillInForce(v) /\ ReadsCover(v)

----------------------------------------------------------------------------
LEMMA ReadsOf ==
  /\ Reads("report") = <<"gate", "trends", "alerts">>
  /\ Reads("status") = <<"alerts", "gate">>
  /\ Reads("dashboard") = <<"detection", "alerts", "log", "gate">>
  /\ Reads("html") = <<"detection", "alerts", "gate">>
  /\ Reads("prometheus") = <<"detection", "alerts", "gate">>
BY DEF Reads

\* get_active_rollback finds an event when there is one.
LEMMA NewestExists == Active # {} => Newest # 0
<1> SUFFICES ASSUME Active # {} PROVE Newest # 0
  OBVIOUS
<1> DEFINE Left == {MaxCycles - e : e \in Active}
<1>1. MaxCycles \in Nat /\ Active \subseteq 1..MaxCycles
  BY CycleAssumption DEF Active, Events, Cycles
<1>2. Left \subseteq Nat /\ Left # {}
  <2>1. \A e \in Active : MaxCycles - e \in Nat
    BY <1>1
  <2>2. PICK e \in Active : TRUE
    OBVIOUS
  <2>3. MaxCycles - e \in Left
    BY <2>2
  <2> QED  BY <2>1, <2>3
<1>3. PICK m \in Left : \A n \in Left : ~(<<n, m>> \in OpToRel(<, Nat))
  <2> HIDE DEF Left
  <2> QED  BY <1>2, NatLessThanWellFounded, WFMin
<1>4. \A n \in Left : ~(n < m)
  BY <1>2, <1>3 DEF OpToRel
<1>5. PICK e \in Active : m = MaxCycles - e
  OBVIOUS
<1>6. \A f \in Active : f <= e
  <2> SUFFICES ASSUME NEW f \in Active PROVE f <= e
    OBVIOUS
  <2>1. MaxCycles - f \in Left
    OBVIOUS
  <2>2. ~(MaxCycles - f < MaxCycles - e)
    BY <1>4, <1>5, <2>1
  <2> QED  BY <1>1, <2>2
<1>7. (CHOOSE x \in Active : \A f \in Active : f <= x) \in Active
  BY <1>6
<1>8. Newest \in Active
  BY <1>7 DEF Newest
<1> QED  BY <1>1, <1>8

LEMMA InForceStart == SInit => InForceInv
BY DEF SInit, InForceInv, Shapes, Shaped, Blank, AllSurfaces, StillInForce, ReadsCover, HasRead

\* The rest of the service: what it ends is not kept, and nothing else changes for a view.
LEMMA InForceMeanwhile ==
  ASSUME InForceInv, NEW ended, Meanwhile(ended) PROVE InForceInv'
<1>1. Shapes'
  <2>1. /\ view' = [v \in Viewers |-> view'[v]]
        /\ kept_alerts' = [v \in Viewers |-> kept_alerts'[v]]
        /\ kept_events' = [v \in Viewers |-> kept_events'[v]]
    BY DEF Meanwhile
  <2>2. ASSUME NEW v \in Viewers
        PROVE  Shaped(v)' /\ view'[v].surface \in AllSurfaces /\ view'[v].reading \in Int
    <3>1. view'[v] = Blank \/ view'[v] = view[v]
      BY DEF Meanwhile
    <3>2. Shaped(v) /\ view[v].surface \in AllSurfaces /\ view[v].reading \in Int
      BY DEF InForceInv, Shapes
    <3> QED  BY <3>1, <3>2 DEF Shaped, Blank, AllSurfaces
  <2> QED  BY <2>1, <2>2 DEF Shapes
<1>2. ASSUME NEW v \in Viewers PROVE StillInForce(v)'
  BY DEF InForceInv, StillInForce, Meanwhile
<1>3. ASSUME NEW v \in Viewers PROVE ReadsCover(v)'
  <2>1. CASE v \in ended
    <3>1. view'[v] = Blank
      BY <2>1 DEF Meanwhile
    <3> QED  BY <3>1 DEF ReadsCover, HasRead, Blank
  <2>2. CASE v \notin ended
    <3>1. view'[v] = view[v]
      BY <2>2 DEF Meanwhile
    <3>2. kept_alerts'[v] \subseteq kept_alerts[v] /\ kept_events'[v] \subseteq kept_events[v]
      BY <2>2 DEF Meanwhile
    <3>3. ReadsCover(v)
      BY DEF InForceInv
    <3>4. ASSUME NEW what \in {"alerts", "gate", "log"}, HasRead(v, what)' PROVE Covers(v, what)'
      <4>1. HasRead(v, what)
        BY <3>1, <3>4 DEF HasRead
      <4>2. Covers(v, what)
        BY <3>3, <4>1 DEF ReadsCover
      <4> QED  BY <3>1, <3>2, <4>2 DEF Covers
    <3> QED  BY <3>4 DEF ReadsCover
  <2> QED  BY <2>1, <2>2
<1> QED  BY <1>1, <1>2, <1>3 DEF InForceInv

\* A reading begins: nothing has been read yet.
LEMMA InForceBegins ==
  ASSUME InForceInv, NEW v \in Viewers, NEW surface \in AllSurfaces, NEW shown,
         Begins(v, surface, shown)
  PROVE  InForceInv'
<1>1. UNCHANGED <<ActiveAlerts, Active>>
  BY DEF Begins, vars, store, ActiveAlerts, Active
<1>2. /\ view' = [view EXCEPT ![v].surface = surface, ![v].reading = 0, ![v].found = shown]
      /\ kept_alerts' = [kept_alerts EXCEPT ![v] = Ids(ActiveAlerts)]
      /\ kept_events' = [kept_events EXCEPT ![v] = Active]
  BY DEF Begins
<1>3. view'[v].surface = surface /\ view'[v].reading = 0
  BY <1>2 DEF InForceInv, Shapes, Shaped
<1>4. \A u \in Viewers \ {v} : /\ view'[u] = view[u] /\ kept_alerts'[u] = kept_alerts[u]
                               /\ kept_events'[u] = kept_events[u]
  BY <1>2 DEF InForceInv, Shapes
<1>5. Shapes'
  <2>1. /\ view' = [u \in Viewers |-> view'[u]]
        /\ kept_alerts' = [u \in Viewers |-> kept_alerts'[u]]
        /\ kept_events' = [u \in Viewers |-> kept_events'[u]]
    BY <1>2 DEF InForceInv, Shapes
  <2>2. Shaped(v)'
    BY <1>2 DEF InForceInv, Shapes, Shaped
  <2>3. \A u \in Viewers \ {v} : Shaped(u)'
    BY <1>4 DEF InForceInv, Shapes, Shaped
  <2> QED  BY <1>3, <1>4, <2>1, <2>2, <2>3 DEF InForceInv, Shapes
<1>6. ASSUME NEW u \in Viewers \ {v} PROVE (StillInForce(u) /\ ReadsCover(u))'
  BY <1>1, <1>4 DEF InForceInv, StillInForce, ReadsCover, HasRead, Covers
<1>7. StillInForce(v)'
  BY <1>1, <1>2 DEF InForceInv, Shapes, StillInForce
<1>8. ReadsCover(v)'
  BY <1>3 DEF ReadsCover, HasRead
<1> QED  BY <1>5, <1>6, <1>7, <1>8 DEF InForceInv

\* A read that covers what is in force now.
LEMMA InForceRead ==
  ASSUME InForceInv, NEW v \in Viewers,
         NEW what \in {"detection", "alerts", "gate", "log", "trends"},
         NEW field \in {"found", "listed", "gate", "log", "trends"}, NEW value,
         Read(v, what, field, value),
         what = "alerts"    => field = "listed" /\ value = ActiveAlerts,
         what = "gate"      => field = "gate" /\ value = Newest,
         what = "log"       => field = "log" /\ value = Active,
         what = "detection" => field = "found",
         what = "trends"    => field = "trends"
  PROVE  InForceInv'
<1>1. UNCHANGED <<ActiveAlerts, Active, kept_alerts, kept_events>>
  BY DEF Read, vars, store, kept, ActiveAlerts, Active
<1>2. /\ view' = [view EXCEPT ![v].reading = @ + 1, ![v][field] = value]
      /\ Reads(view[v].surface)[view[v].reading + 1] = what
  BY DEF Read
<1>3. /\ view'[v].surface = view[v].surface /\ view'[v].reading = view[v].reading + 1
      /\ field # "listed" => view'[v].listed = view[v].listed
      /\ field # "gate"   => view'[v].gate = view[v].gate
      /\ field # "log"    => view'[v].log = view[v].log
      /\ view'[v][field] = value
  BY <1>2 DEF InForceInv, Shapes, Shaped
<1>4. \A u \in Viewers \ {v} : view'[u] = view[u]
  BY <1>2 DEF InForceInv, Shapes
<1>5. Shapes'
  <2>1. view' = [u \in Viewers |-> view'[u]]
    BY <1>2 DEF InForceInv, Shapes
  <2>2. Shaped(v)'
    BY <1>2 DEF InForceInv, Shapes, Shaped
  <2>3. \A u \in Viewers \ {v} : Shaped(u)'
    BY <1>4 DEF InForceInv, Shapes, Shaped
  <2> QED  BY <1>1, <1>3, <1>4, <2>1, <2>2, <2>3 DEF InForceInv, Shapes
<1>6. \A u \in Viewers : StillInForce(u)'
  BY <1>1 DEF InForceInv, StillInForce
<1>7. ASSUME NEW u \in Viewers \ {v} PROVE ReadsCover(u)'
  BY <1>1, <1>4 DEF InForceInv, ReadsCover, HasRead, Covers
<1>8. ReadsCover(v)'
  <2> SUFFICES ASSUME NEW w \in {"alerts", "gate", "log"}, HasRead(v, w)'
               PROVE  Covers(v, w)'
    BY DEF ReadsCover
  <2>1. view[v].reading \in Int
    BY DEF InForceInv, Shapes
  <2>2. PICK k \in 1..Len(Reads(view[v].surface)) :
          k <= view[v].reading + 1 /\ Reads(view[v].surface)[k] = w
    BY <1>3 DEF HasRead
  <2>3. CASE w = what
    <3>1. StillInForce(v)
      BY DEF InForceInv
    <3> QED  BY <1>1, <1>3, <2>3, <3>1, NewestExists DEF Covers, StillInForce
  <2>4. CASE w # what
    <3>1. k \in Int /\ k # view[v].reading + 1
      BY <1>2, <2>2, <2>4
    <3>2. HasRead(v, w)
      BY <2>1, <2>2, <3>1 DEF HasRead
    <3>3. Covers(v, w)
      BY <3>2 DEF InForceInv, ReadsCover
    <3>4. /\ w = "alerts" => field # "listed"
          /\ w = "gate" => field # "gate"
          /\ w = "log" => field # "log"
      BY <2>4
    <3> QED  BY <1>1, <1>3, <3>3, <3>4 DEF Covers
  <2> QED  BY <2>3, <2>4
<1> QED  BY <1>5, <1>6, <1>7, <1>8 DEF InForceInv

\* Every other step.
LEMMA InForceStep == InForceInv /\ [SNext]_svars => InForceInv'
<1> SUFFICES ASSUME InForceInv, [SNext]_svars PROVE InForceInv'
  OBVIOUS
<1>1. ASSUME NEW t \in Threads, SWork(t) PROVE InForceInv'
  BY <1>1, InForceMeanwhile DEF SWork
<1>2. ASSUME NEW v \in Viewers, View(v) PROVE InForceInv'
  <2>1. CASE BeginView(v)
    BY <2>1, InForceBegins, SurfaceAssumption DEF BeginView, AllSurfaces
  <2>2. CASE BeginReport(v)
    BY <2>2, InForceBegins DEF BeginReport, AllSurfaces
  <2>3. CASE ReadDetection(v)
    BY <2>3, InForceRead DEF ReadDetection
  <2>4. CASE ReadAlerts(v)
    BY <2>4, InForceRead DEF ReadAlerts
  <2>5. CASE ReadGate(v)
    BY <2>5, InForceRead DEF ReadGate
  <2>6. CASE ReadLog(v)
    BY <2>6, InForceRead DEF ReadLog
  <2>7. CASE ReadTrends(v)
    BY <2>7, InForceRead DEF ReadTrends
  <2>8. CASE EndView(v)
    <3>1. UNCHANGED <<ActiveAlerts, Active>>
      BY <2>8 DEF EndView, vars, store, ActiveAlerts, Active
    <3>2. view'[v] = Blank /\ kept_alerts'[v] = {} /\ kept_events'[v] = {}
      BY <2>8 DEF EndView, InForceInv, Shapes
    <3>3. \A u \in Viewers \ {v} : /\ view'[u] = view[u] /\ kept_alerts'[u] = kept_alerts[u]
                                   /\ kept_events'[u] = kept_events[u]
      BY <2>8 DEF EndView, InForceInv, Shapes
    <3>4. /\ view' = [u \in Viewers |-> view'[u]]
          /\ kept_alerts' = [u \in Viewers |-> kept_alerts'[u]]
          /\ kept_events' = [u \in Viewers |-> kept_events'[u]]
      BY <2>8 DEF EndView, InForceInv, Shapes
    <3>5. Shaped(v)' /\ (StillInForce(v) /\ ReadsCover(v))'
      BY <3>2 DEF Shaped, Blank, StillInForce, ReadsCover, HasRead
    <3>6. ASSUME NEW u \in Viewers \ {v} PROVE Shaped(u)' /\ (StillInForce(u) /\ ReadsCover(u))'
      <4>1. Shaped(u) /\ StillInForce(u) /\ ReadsCover(u)
        BY DEF InForceInv, Shapes
      <4>2. /\ view'[u] = view[u] /\ kept_alerts'[u] = kept_alerts[u]
            /\ kept_events'[u] = kept_events[u]
        BY <3>3
      <4>3. Shaped(u)'
        BY <4>1, <4>2 DEF Shaped
      <4>4. StillInForce(u)'
        BY <3>1, <4>1, <4>2 DEF StillInForce
      <4>5. ReadsCover(u)'
        BY <4>1, <4>2 DEF ReadsCover, HasRead, Covers
      <4> QED  BY <4>3, <4>4, <4>5
    <3>7. Shapes'
      BY <3>2, <3>3, <3>4, <3>5, <3>6 DEF InForceInv, Shapes, Blank, AllSurfaces
    <3> QED  BY <3>5, <3>6, <3>7 DEF InForceInv
  <2> QED  BY <1>2, <2>1, <2>2, <2>3, <2>4, <2>5, <2>6, <2>7, <2>8 DEF View
<1>3. CASE Operator
  BY <1>3, InForceMeanwhile DEF Operator
<1>4. CASE SRestart
  BY <1>4, InForceMeanwhile DEF SRestart
<1>5. CASE UNCHANGED svars
  BY <1>5 DEF svars, vars, store, kept, InForceInv, Shapes, Shaped, StillInForce, ReadsCover, HasRead,
              Covers, ActiveAlerts, Active
<1> QED  BY <1>1, <1>2, <1>3, <1>4, <1>5 DEF SNext

\* Where all reads are made, they make the answer.
LEMMA InForceAnswer == InForceInv => InForceIsShown
<1> SUFFICES ASSUME InForceInv, NEW v \in Viewers, Answered(v)
             PROVE  /\ kept_alerts[v] \subseteq Ids(view[v].listed)
                    /\ kept_events[v] # {} => Status(v) = "rollback_triggered"
                    /\ view[v].surface = "dashboard" => kept_events[v] \subseteq view[v].log
                    /\ view[v].surface = "status" /\ kept_alerts[v] # {} => Status(v) # "healthy"
  BY DEF InForceIsShown
<1>1. view[v].surface \in AllSurfaces /\ ReadsCover(v)
  BY DEF InForceInv, Shapes
<1>2. \A k \in 1..Len(Reads(view[v].surface)) : k <= view[v].reading
  BY DEF Answered
<1>3. /\ \E k \in 1..Len(Reads(view[v].surface)) : Reads(view[v].surface)[k] = "alerts"
      /\ \E k \in 1..Len(Reads(view[v].surface)) : Reads(view[v].surface)[k] = "gate"
      /\ view[v].surface = "dashboard" =>
           \E k \in 1..Len(Reads(view[v].surface)) : Reads(view[v].surface)[k] = "log"
  <2>1. CASE view[v].surface = "report"
    <3>1. /\ 3 \in 1..Len(Reads("report")) /\ Reads("report")[3] = "alerts"
          /\ 1 \in 1..Len(Reads("report")) /\ Reads("report")[1] = "gate"
      BY ReadsOf
    <3> QED  BY <2>1, <3>1
  <2>2. CASE view[v].surface = "status"
    <3>1. /\ 1 \in 1..Len(Reads("status")) /\ Reads("status")[1] = "alerts"
          /\ 2 \in 1..Len(Reads("status")) /\ Reads("status")[2] = "gate"
      BY ReadsOf
    <3> QED  BY <2>2, <3>1
  <2>3. CASE view[v].surface = "dashboard"
    <3>1. /\ 2 \in 1..Len(Reads("dashboard")) /\ Reads("dashboard")[2] = "alerts"
          /\ 3 \in 1..Len(Reads("dashboard")) /\ Reads("dashboard")[3] = "log"
          /\ 4 \in 1..Len(Reads("dashboard")) /\ Reads("dashboard")[4] = "gate"
      BY ReadsOf
    <3> QED  BY <2>3, <3>1
  <2>4. CASE view[v].surface \in {"html", "prometheus"}
    <3>1. Reads(view[v].surface) = <<"detection", "alerts", "gate">>
      BY <2>4, ReadsOf
    <3>2. /\ 2 \in 1..Len(Reads(view[v].surface)) /\ Reads(view[v].surface)[2] = "alerts"
          /\ 3 \in 1..Len(Reads(view[v].surface)) /\ Reads(view[v].surface)[3] = "gate"
      BY <3>1
    <3> QED  BY <2>4, <3>2
  <2> QED  BY <1>1, <2>1, <2>2, <2>3, <2>4 DEF AllSurfaces
<1>4. /\ Covers(v, "alerts") /\ Covers(v, "gate")
      /\ view[v].surface = "dashboard" => Covers(v, "log")
  BY <1>1, <1>2, <1>3 DEF ReadsCover, HasRead
<1>5. /\ kept_alerts[v] \subseteq Ids(view[v].listed)
      /\ kept_events[v] = {} \/ view[v].gate # 0
      /\ view[v].surface = "dashboard" => kept_events[v] \subseteq view[v].log
  BY <1>4 DEF Covers
<1>6. kept_alerts[v] # {} => view[v].listed # {}
  BY <1>5 DEF Ids
<1>7. kept_events[v] # {} => Status(v) = "rollback_triggered"
  BY <1>5 DEF Status, ProbeStatus, ComputeStatus
<1>8. view[v].surface = "status" /\ view[v].listed # {} => Status(v) # "healthy"
  BY DEF Status, ProbeStatus
<1> QED  BY <1>5, <1>6, <1>7, <1>8

\* No surface hides an alert or a rollback that was in force while it read, for any
\* number of threads, clients, cycles and failures (app.py, html_report.py, dashboard.py).
THEOREM InForceAlwaysShown == SSpec => []InForceIsShown
<1>1. SInit => InForceInv
  BY InForceStart
<1>2. InForceInv /\ [SNext]_svars => InForceInv'
  BY InForceStep
<1>3. InForceInv => InForceIsShown
  BY InForceAnswer
<1> QED  BY <1>1, <1>2, <1>3, PTL DEF SSpec

----------------------------------------------------------------------------
\* The report of a cycle.  While it is read its thread stands at the end of the cycle;
\* what a report tells of an alert or a trend stays true, since alerts are only added or
\* acknowledged and rows are only added.
AlertTold(t, i) ==
  Severity(view[t].found[i]) # "none" =>
    \E a \in alerts : a.id = <<cycle[t], i>> /\ (a.acknowledged \/ a.id \in Ids(view[t].listed))

Between(c, d, category) == Score(c, category) - Score(d, category)

\* Of two rows of a category, the later one not before cycle own, the score went that way.
Compared(category, own, trend) ==
  \E c, d \in Rows(category) :
    /\ c >= own /\ d < c
    /\ IF trend = "degrading" THEN Between(c, d, category) > 5 ELSE Between(c, d, category) < -5

TrendTold(t, i) ==
  view[t].trends[i] \in {"degrading", "improving"} /\ ~view[t].found[i].insufficient_data =>
    Compared(view[t].found[i].category, cycle[t], view[t].trends[i])

Told(t) ==
  ~Idle(t) =>
    /\ view[t].surface = "report" /\ view[t].reading \in 0..3
    /\ Ready(t) /\ view[t].found = results[t]
    /\ \A i \in 1..Len(results[t]) :
         /\ view[t].reading >= 2 => TrendTold(t, i)
         /\ view[t].reading >= 3 => AlertTold(t, i)

\* Cycles that have not begun have no rows, and each one that a thread is in has its results.
FindingsInv ==
  /\ findings \in [Cycles -> Detections \cup {<<>>}]
  /\ \A t \in Threads : pc[t] # "idle" => findings[cycle[t]] = results[t]

ReportInv == InForceInv /\ HistoryInv /\ FindingsInv /\ \A t \in Reports : Told(t)

LEMMA LastOf ==
  ASSUME NEW N \in Nat, NEW S \in SUBSET (1..N), S # {}
  PROVE  \E m \in S : \A s \in S : s <= m
<1> DEFINE Left == {N - s : s \in S}
<1>1. Left \subseteq Nat /\ Left # {}
  <2>1. \A s \in S : N - s \in Nat
    OBVIOUS
  <2>2. PICK s \in S : TRUE
    OBVIOUS
  <2>3. N - s \in Left
    OBVIOUS
  <2> QED  BY <2>1, <2>3
<1>2. PICK l \in Left : \A n \in Left : ~(<<n, l>> \in OpToRel(<, Nat))
  <2> HIDE DEF Left
  <2> QED  BY <1>1, NatLessThanWellFounded, WFMin
<1>3. \A n \in Left : ~(n < l)
  BY <1>1, <1>2 DEF OpToRel
<1>4. PICK m \in S : l = N - m
  OBVIOUS
<1>5. ASSUME NEW s \in S
      PROVE  s <= m
  <2>1. ~(N - s < N - m)
    BY <1>3, <1>4
  <2> QED  BY <2>1
<1> QED  BY <1>5

\* The newest rows, and the two newest of some.
LEMMA NewestTwo ==
  ASSUME NEW valid \in SUBSET Cycles, Cardinality(valid) >= 2
  PROVE  /\ Nth(valid, 0) \in valid /\ Nth(valid, 1) \in valid
         /\ Nth(valid, 1) < Nth(valid, 0)
         /\ \A c \in valid : c <= Nth(valid, 0)
<1> DEFINE After(c) == {d \in valid : d > c}
<1>1. MaxCycles \in Nat /\ Cycles = 1..MaxCycles /\ IsFiniteSet(valid)
  <2>1. MaxCycles \in Nat /\ Cycles = 1..MaxCycles /\ IsFiniteSet(Cycles)
    BY CycleAssumption, FS_Interval DEF Cycles
  <2> QED  BY <2>1, FS_Subset
<1>2. /\ Cardinality(valid) \in Nat /\ Cardinality({}) = 0
      /\ \A c \in valid : c \in Nat
  BY <1>1, FS_CardinalityType, FS_EmptySet
<1>3. valid # {}
  BY <1>2
<1>4. PICK m \in valid : \A s \in valid : s <= m
  BY <1>1, <1>3, LastOf
<1>5. Cardinality(After(m)) = 0
  <2>1. \A d \in valid : ~(d > m)
    BY <1>2, <1>4
  <2>2. After(m) = {}
    BY <2>1
  <2> QED  BY <1>2, <2>2, Zenon
<1> DEFINE rest == valid \ {m}
<1>6. rest # {}
  <2> SUFFICES ASSUME rest = {} PROVE FALSE
    OBVIOUS
  <2>1. Cardinality(rest) = Cardinality(valid) - 1
    BY <1>1, <1>4, FS_RemoveElement
  <2>2. Cardinality(rest) = 0
    BY <1>2, Zenon
  <2> QED  BY <1>2, <2>1, <2>2
<1>7. PICK n \in rest : \A s \in rest : s <= n
  <2>1. rest \in SUBSET (1..MaxCycles)
    BY <1>1
  <2> HIDE DEF rest
  <2> QED  BY <1>1, <1>6, <2>1, LastOf
<1>8. Cardinality(After(n)) = 1
  <2>1. n < m /\ m \in valid
    BY <1>2, <1>4, <1>7
  <2>2. \A d \in valid : d > n <=> d = m
    BY <1>2, <1>7, <2>1
  <2>3. After(n) = {m}
    BY <2>1, <2>2
  <2> QED  BY <2>3, FS_Singleton
<1>9. /\ Nth(valid, 0) \in valid /\ Cardinality(After(Nth(valid, 0))) = 0
      /\ Nth(valid, 1) \in valid /\ Cardinality(After(Nth(valid, 1))) = 1
  <2>1. \E c \in valid : Cardinality({d \in valid : d > c}) = 0
    BY <1>4, <1>5
  <2>2. \E c \in valid : Cardinality({d \in valid : d > c}) = 1
    BY <1>7, <1>8
  <2> QED  BY <2>1, <2>2 DEF Nth
<1>10. \A c \in valid : IsFiniteSet(After(c))
  BY <1>1, FS_Subset
<1>11. After(Nth(valid, 0)) = {}
  BY <1>9, <1>10, FS_EmptySet
<1>12. \A c \in valid : c <= Nth(valid, 0)
  <2>1. \A c \in valid : ~(c > Nth(valid, 0))
    BY <1>11
  <2> QED  BY <1>2, <1>9, <2>1
<1>13. PICK d \in valid : d > Nth(valid, 1)
  <2>1. After(Nth(valid, 1)) # {}
    BY <1>2, <1>9
  <2> QED  BY <2>1
<1>14. Nth(valid, 1) < Nth(valid, 0)
  BY <1>2, <1>9, <1>12, <1>13
<1> QED  BY <1>9, <1>12, <1>14

\* A trend compares the newest row with data with the one before it.
LEMMA TrendOfRows ==
  ASSUME NEW rows \in SUBSET Cycles, NEW category,
         ComputeTrend(rows, category) \in {"degrading", "improving"}
  PROVE  LET valid == {c \in rows : ~findings[c][RowOf(c, category)].insufficient_data} IN
         \E c, d \in valid :
           /\ d < c /\ \A e \in valid : e <= c
           /\ IF ComputeTrend(rows, category) = "degrading" THEN Between(c, d, category) > 5
                                                            ELSE Between(c, d, category) < -5
<1> DEFINE valid == {c \in rows : ~findings[c][RowOf(c, category)].insufficient_data}
           delta == Score(Nth(valid, 0), category) - Score(Nth(valid, 1), category)
<1>1. ComputeTrend(rows, category) =
        IF Cardinality(valid) < 2 THEN "unknown"
        ELSE IF delta < -5 THEN "improving" ELSE IF delta > 5 THEN "degrading" ELSE "stable"
  BY DEF ComputeTrend
<1>2. delta = Between(Nth(valid, 0), Nth(valid, 1), category)
  BY DEF Between
<1>3. valid \in SUBSET Cycles
  OBVIOUS
<1> HIDE DEF valid, delta
<1>4. ~(Cardinality(valid) < 2)
  BY <1>1
<1>5. Cardinality(valid) >= 2
  <2>1. IsFiniteSet(Cycles)
    BY CycleAssumption, FS_Interval DEF Cycles
  <2>2. Cardinality(valid) \in Nat
    BY <1>3, <2>1, FS_Subset, FS_CardinalityType
  <2> QED  BY <1>4, <2>2
<1>6. /\ Nth(valid, 0) \in valid /\ Nth(valid, 1) \in valid
      /\ Nth(valid, 1) < Nth(valid, 0) /\ \A c \in valid : c <= Nth(valid, 0)
  BY <1>3, <1>5, NewestTwo
<1>7. IF ComputeTrend(rows, category) = "degrading" THEN delta > 5 ELSE delta < -5
  BY <1>1, <1>4
<1> SUFFICES \E c, d \in valid :
               /\ d < c /\ \A e \in valid : e <= c
               /\ IF ComputeTrend(rows, category) = "degrading"
                  THEN Between(c, d, category) > 5 ELSE Between(c, d, category) < -5
  BY DEF valid
<1> QED  BY <1>2, <1>6, <1>7

\* The trend read for a result: the row of its cycle is among the newest, or newer ones are.
LEMMA TrendIsTold ==
  ASSUME HistoryInv, FindingsInv, NEW t \in Threads, Ready(t),
         NEW i \in 1..Len(results[t]), ~results[t][i].insufficient_data,
         NEW category, category = results[t][i].category,
         NEW trend, trend = ComputeTrend(DriftHistory(category, HistoryLimit), category),
         trend \in {"degrading", "improving"}
  PROVE  Compared(category, cycle[t], trend)
<1> DEFINE rows  == DriftHistory(category, HistoryLimit)
           valid == {c \in rows : ~findings[c][RowOf(c, category)].insufficient_data}
<1>1. rows \subseteq Rows(category) /\ Rows(category) \subseteq Cycles
  BY DEF DriftHistory, Rows
<1>2. PICK c \in valid, d \in valid :
        /\ d < c /\ \A e \in valid : e <= c
        /\ IF trend = "degrading" THEN Between(c, d, category) > 5 ELSE Between(c, d, category) < -5
  BY <1>1, TrendOfRows
<1>3. /\ HistoryTypes /\ results[t] \in Seq(DriftResult) /\ Len(results[t]) \in Nat
      /\ pc[t] = "history" /\ at[t] > Len(results[t])
      /\ at[t] \in Nat /\ MaxCycles \in Nat
  <2>1. HistoryTypes
    BY DEF HistoryInv
  <2> QED  BY <2>1, ResultsAreSequences, CycleAssumption DEF HistoryTypes, Ready, InLoop
<1>4. cycle[t] \in Cycles /\ findings[cycle[t]] = results[t]
  BY <1>3 DEF HistoryInv, HistoryTypes, OwnCycles, FindingsInv, Cycles
<1>5. drift_history[cycle[t]] \in Nat /\ i \in 1..drift_history[cycle[t]]
  <2>1. drift_history[cycle[t]] = at[t] - 1
    BY <1>3, <1>4 DEF HistoryInv, Progress, Cycles
  <2> QED  BY <1>3, <2>1
<1>6. cycle[t] \in Rows(category)
  BY <1>4, <1>5 DEF Rows
<1>7. ~findings[cycle[t]][RowOf(cycle[t], category)].insufficient_data
  <2>1. \A j \in 1..Len(results[t]) : results[t][j].category = category => j = i
    <3>1. results[t] \in Detections
      <4>1. results[t] # <<>>
        BY <1>3
      <4> QED  BY <1>3, <4>1 DEF HistoryTypes
    <3>2. DOMAIN results[t] = 1..Len(results[t])
      BY <1>3
    <3> QED  BY <3>1, <3>2, OneResultOfEach
  <2>2. RowOf(cycle[t], category) = i
    BY <1>4, <2>1 DEF RowOf
  <2> QED  BY <1>4, <2>2
<1>8. c >= cycle[t]
  <2>1. /\ c \in Cycles /\ cycle[t] \in Cycles /\ Cycles = 1..MaxCycles
        /\ c \in rows /\ c \in Rows(category)
    BY <1>1, <1>2, <1>4 DEF Cycles
  <2>2. CASE cycle[t] \in rows
    <3>1. cycle[t] \in valid
      BY <1>7, <2>2
    <3> QED  BY <1>2, <1>3, <2>1, <3>1
  <2>3. CASE cycle[t] \notin rows
    <3> SUFFICES ASSUME c < cycle[t] PROVE FALSE
      BY <1>3, <2>1
    <3> DEFINE After(e) == {f \in Rows(category) : f > e}
    <3>1. ~(Cardinality(After(cycle[t])) < HistoryLimit) /\ Cardinality(After(c)) < HistoryLimit
      BY <1>6, <2>1, <2>3 DEF DriftHistory
    <3>2. After(cycle[t]) \subseteq After(c) /\ After(c) \subseteq Cycles
      BY <1>1, <1>3, <2>1
    <3> HIDE DEF After
    <3>3. IsFiniteSet(Cycles)
      BY <1>3, <2>1, FS_Interval
    <3>4. /\ IsFiniteSet(After(c)) /\ Cardinality(After(c)) \in Nat
          /\ Cardinality(After(cycle[t])) \in Nat
          /\ Cardinality(After(cycle[t])) <= Cardinality(After(c))
      BY <3>2, <3>3, FS_Subset, FS_CardinalityType
    <3> QED  BY <3>1, <3>4, SurfaceAssumption
  <2> QED  BY <2>2, <2>3
<1> QED  BY <1>1, <1>2, <1>8 DEF Compared

\* What a step of thread t does to it, to the other threads and to the tables.
LEMMA WorkOf ==
  ASSUME HistoryInv, NEW t \in Threads, SWork(t)
  PROVE  /\ [Next]_vars
         /\ \A u \in Threads \ {t} : /\ pc'[u] = pc[u] /\ cycle'[u] = cycle[u]
                                     /\ results'[u] = results[u] /\ at'[u] = at[u]
         /\ pc[t] = "idle" =>
              /\ cycles + 1 \in Cycles /\ cycle'[t] = cycles + 1 /\ results'[t] \in Detections
              /\ drift_history' = drift_history
              /\ findings' = [findings EXCEPT ![cycles + 1] = results'[t]]
         /\ pc[t] # "idle" => UNCHANGED <<cycle, results, findings>>
         /\ alerts \subseteq alerts'
         /\ \A c \in Cycles : drift_history'[c] \in {drift_history[c], drift_history[c] + 1}
         /\ Ready(t) /\ Kind[t] = "report" => pc'[t] = "idle"
<1>1. /\ pc \in [Threads -> {"idle", "alerts", "trigger", "store_event", "history",
                             "dispatch_rollback"}]
      /\ cycle \in [Threads -> 0..MaxCycles] /\ at \in [Threads -> Nat \ {0}]
      /\ results \in [Threads -> Detections \cup {<<>>}]
      /\ drift_history \in [Cycles -> Nat] /\ cycles \in Nat
      /\ MaxCycles \in Nat /\ Cycles = 1..MaxCycles
  BY CycleAssumption DEF HistoryInv, HistoryTypes, Cycles
<1>2. Work(t) /\ findings' = IF pc[t] = "idle" THEN [findings EXCEPT ![cycle'[t]] = results'[t]]
                                               ELSE findings
  BY DEF SWork, GiveAnswer, Work
<1>3. [Next]_vars
  BY <1>2 DEF Next
<1> USE DEF Goto, Ready, InLoop, store, dispatched, counters, request
<1>4. CASE Detect(t)
  <2>1. /\ pc[t] = "idle" /\ cycles < MaxCycles
        /\ pc' = [pc EXCEPT ![t] = "alerts"] /\ cycle' = [cycle EXCEPT ![t] = cycles + 1]
        /\ \E found \in Detections : results' = [results EXCEPT ![t] = found]
        /\ at' = [at EXCEPT ![t] = 1] /\ UNCHANGED <<alerts, drift_history>>
    BY <1>4 DEF Detect
  <2>2. cycles + 1 \in Cycles /\ cycle'[t] = cycles + 1 /\ results'[t] \in Detections
    BY <1>1, <2>1
  <2> QED  BY <1>1, <1>2, <1>3, <2>1, <2>2
<1>5. CASE StoreAlert(t)
  BY <1>1, <1>2, <1>3, <1>5 DEF StoreAlert
<1>6. CASE CheckActive(t)
  BY <1>1, <1>2, <1>3, <1>6 DEF CheckActive
<1>7. CASE CreateEvent(t)
  BY <1>1, <1>2, <1>3, <1>7 DEF CreateEvent
<1>8. CASE StoreEvent(t)
  BY <1>1, <1>2, <1>3, <1>8 DEF StoreEvent
<1>9. CASE StoreHistory(t)
  <2>1. cycle[t] \in Cycles
    BY <1>1, <1>9 DEF StoreHistory, HistoryInv, OwnCycles
  <2>2. \A c \in Cycles : drift_history'[c] \in {drift_history[c], drift_history[c] + 1}
    BY <1>1, <1>9, <2>1 DEF StoreHistory
  <2> QED  BY <1>1, <1>2, <1>3, <1>9, <2>2 DEF StoreHistory
<1>10. CASE Answer(t)
  BY <1>1, <1>2, <1>3, <1>10 DEF Answer
<1>11. CASE DispatchAlerts(t)
  BY <1>1, <1>2, <1>3, <1>11 DEF DispatchAlerts
<1>12. CASE DispatchRollback(t)
  BY <1>1, <1>2, <1>3, <1>12 DEF DispatchRollback
<1>13. CASE CycleFails(t)
  BY <1>1, <1>2, <1>3, <1>13 DEF CycleFails
<1> QED  BY <1>2, <1>4, <1>5, <1>6, <1>7, <1>8, <1>9, <1>10, <1>11, <1>12, <1>13 DEF Work

\* The invariant of the histories, under the steps of this module.
LEMMA SurfacesKeepHistory ==
  ASSUME HistoryInv, [SNext]_svars
  PROVE  HistoryInv'
<1>1. ASSUME NEW t \in Threads, SWork(t) PROVE HistoryInv'
  BY <1>1, WorkOf, HistoryStep
<1>2. CASE UNCHANGED vars
  BY <1>2, HistoryStep
<1>3. ASSUME NEW v \in Viewers, View(v) PROVE HistoryInv'
  BY <1>2, <1>3 DEF View, BeginView, BeginReport, Begins, ReadDetection, ReadAlerts, ReadGate,
                    ReadLog, ReadTrends, Read, EndView
<1>4. CASE Acknowledge \/ Restart
  BY <1>4, HistoryStep DEF Next
<1>5. CASE Resolve
  <2>1. UNCHANGED <<cycles, cycle, results, at, pc, drift_history, alerts>>
    BY <1>5 DEF Resolve, thread
  <2> QED  BY <2>1 DEF HistoryInv, HistoryTypes, OwnCycles, Progress, Covered, HasAll, Has, Stored
<1>6. CASE UNCHANGED svars
  BY <1>2, <1>6 DEF svars
<1> QED  BY <1>1, <1>3, <1>4, <1>5, <1>6 DEF SNext, Operator, SRestart

LEMMA FindingsStep ==
  ASSUME HistoryInv, FindingsInv, [SNext]_svars
  PROVE  /\ FindingsInv'
         /\ \A c \in Cycles : /\ drift_history'[c] >= drift_history[c]
                              /\ drift_history[c] # 0 => findings'[c] = findings[c]
<1>1. /\ HistoryTypes /\ OwnCycles /\ MaxCycles \in Nat /\ Cycles = 1..MaxCycles
      /\ \A c \in Cycles : drift_history[c] \in Nat
  BY CycleAssumption DEF HistoryInv, HistoryTypes, Cycles
<1>2. ASSUME NEW t \in Threads, SWork(t)
      PROVE  /\ FindingsInv'
             /\ \A c \in Cycles : /\ drift_history'[c] >= drift_history[c]
                                  /\ drift_history[c] # 0 => findings'[c] = findings[c]
  <2>1. /\ \A u \in Threads \ {t} : /\ pc'[u] = pc[u] /\ cycle'[u] = cycle[u]
                                    /\ results'[u] = results[u]
        /\ pc[t] = "idle" =>
             /\ cycles + 1 \in Cycles /\ cycle'[t] = cycles + 1 /\ results'[t] \in Detections
             /\ drift_history' = drift_history
             /\ findings' = [findings EXCEPT ![cycles + 1] = results'[t]]
        /\ pc[t] # "idle" => UNCHANGED <<cycle, results, findings>>
        /\ \A c \in Cycles : drift_history'[c] \in {drift_history[c], drift_history[c] + 1}
    BY <1>2, WorkOf
  <2>2. \A c \in Cycles : drift_history'[c] >= drift_history[c]
    BY <1>1, <2>1
  <2>3. CASE pc[t] = "idle"
    <3>1. findings' = [findings EXCEPT ![cycles + 1] = results'[t]] /\ cycles + 1 \in Cycles
          /\ cycle'[t] = cycles + 1 /\ results'[t] \in Detections
      BY <2>1, <2>3
    <3>2. findings' \in [Cycles -> Detections \cup {<<>>}]
      BY <3>1 DEF FindingsInv
    <3>3. \A u \in Threads \ {t} : cycle[u] \in 0..MaxCycles /\ cycle[u] <= cycles /\ cycles \in Nat
      BY <1>1 DEF HistoryTypes, OwnCycles
    <3>4. ASSUME NEW u \in Threads, pc'[u] # "idle"
          PROVE  findings'[cycle'[u]] = results'[u]
      <4>1. CASE u = t
        BY <3>1, <4>1 DEF FindingsInv
      <4>2. CASE u # t
        <5>1. findings[cycle[u]] = results[u] /\ cycle'[u] = cycle[u] /\ results'[u] = results[u]
          BY <2>1, <3>4, <4>2 DEF FindingsInv
        <5>2. cycle[u] \in Cycles /\ cycle[u] # cycles + 1
          BY <1>1, <2>1, <3>3, <3>4, <4>2 DEF OwnCycles
        <5> QED  BY <3>1, <5>1, <5>2 DEF FindingsInv
      <4> QED  BY <4>1, <4>2
    <3>5. ASSUME NEW c \in Cycles, drift_history[c] # 0
          PROVE  findings'[c] = findings[c]
      <4>1. c # cycles + 1
        BY <1>1, <3>1, <3>5 DEF OwnCycles, HistoryTypes
      <4> QED  BY <3>1, <4>1 DEF FindingsInv
    <3> QED  BY <2>2, <3>2, <3>4, <3>5 DEF FindingsInv
  <2>4. CASE pc[t] # "idle"
    <3>1. UNCHANGED <<cycle, results, findings>> /\ \A u \in Threads : pc'[u] # "idle" => pc[u] # "idle"
      BY <2>1, <2>4
    <3> QED  BY <2>2, <3>1 DEF FindingsInv
  <2> QED  BY <2>3, <2>4
<1>3. ASSUME UNCHANGED <<cycle, results, findings, drift_history>>,
             \A u \in Threads : pc'[u] # "idle" => pc[u] # "idle"
      PROVE  /\ FindingsInv'
             /\ \A c \in Cycles : /\ drift_history'[c] >= drift_history[c]
                                  /\ drift_history[c] # 0 => findings'[c] = findings[c]
  BY <1>1, <1>3 DEF FindingsInv
<1>4. CASE (Operator \/ SRestart) \/ UNCHANGED svars
  <2>1. UNCHANGED <<cycle, results, findings, drift_history>>
        /\ \A u \in Threads : pc'[u] # "idle" => pc[u] # "idle"
    BY <1>4 DEF Operator, Acknowledge, Resolve, SRestart, Restart, svars, vars, thread, store
  <2> QED  BY <1>3, <2>1
<1>5. ASSUME NEW v \in Viewers, View(v)
      PROVE  UNCHANGED <<cycle, results, findings, drift_history, pc>>
  BY <1>5 DEF View, BeginView, BeginReport, Begins, ReadDetection, ReadAlerts, ReadGate,
              ReadLog, ReadTrends, Read, EndView, vars, thread, store
<1> QED  BY <1>2, <1>3, <1>4, <1>5 DEF SNext

\* Rows are only added, and a row keeps its score.
LEMMA TrendStays ==
  ASSUME HistoryInv, FindingsInv, [SNext]_svars, NEW category, NEW own, NEW trend,
         Compared(category, own, trend)
  PROVE  Compared(category, own, trend)'
<1>1. /\ \A c \in Cycles : drift_history[c] \in Nat /\ drift_history'[c] \in Nat
      /\ \A c \in Cycles : /\ drift_history'[c] >= drift_history[c]
                           /\ drift_history[c] # 0 => findings'[c] = findings[c]
  BY FindingsStep, SurfacesKeepHistory DEF HistoryInv, HistoryTypes
<1>2. ASSUME NEW c \in Rows(category)
      PROVE  /\ c \in Rows(category)'
             /\ findings'[c] = findings[c]
  <2>1. c \in Cycles /\ \E i \in 1..drift_history[c] : findings[c][i].category = category
    BY DEF Rows
  <2>2. findings'[c] = findings[c] /\ drift_history'[c] >= drift_history[c]
    BY <1>1, <2>1
  <2>3. \E i \in 1..drift_history'[c] : findings'[c][i].category = category
    BY <1>1, <2>1, <2>2
  <2> QED  BY <2>1, <2>2, <2>3 DEF Rows, Cycles
<1>3. ASSUME NEW c \in Rows(category) PROVE Score(c, category)' = Score(c, category)
  BY <1>2 DEF Score, RowOf
<1> QED  BY <1>2, <1>3 DEF Compared, Between

\* Alerts stay, and stay acknowledged.
LEMMA AlertsStay ==
  ASSUME HistoryInv, [SNext]_svars, NEW a \in alerts
  PROVE  \E b \in alerts' : b.id = a.id /\ (a.acknowledged => b.acknowledged)
<1>1. ASSUME alerts \subseteq alerts' PROVE \E b \in alerts' : b.id = a.id /\ (a.acknowledged => b.acknowledged)
  BY <1>1
<1>2. ASSUME NEW t \in Threads, SWork(t) PROVE alerts \subseteq alerts'
  BY <1>2, WorkOf
<1>3. CASE Acknowledge
  <2>1. PICK x \in alerts : alerts' = (alerts \ {x}) \cup {[x EXCEPT !.acknowledged = TRUE]}
    BY <1>3 DEF Acknowledge
  <2>2. x = [id |-> x.id, category |-> x.category, severity |-> x.severity,
             acknowledged |-> x.acknowledged]
    BY DEF HistoryInv, HistoryTypes
  <2>3. [x EXCEPT !.acknowledged = TRUE].id = x.id /\ [x EXCEPT !.acknowledged = TRUE].acknowledged
    BY <2>2
  <2> QED  BY <2>1, <2>3
<1>4. CASE Resolve \/ SRestart \/ UNCHANGED svars
  BY <1>1, <1>4 DEF Resolve, SRestart, Restart, svars, vars, store
<1>5. ASSUME NEW v \in Viewers, View(v) PROVE alerts \subseteq alerts'
  BY <1>5 DEF View, BeginView, BeginReport, Begins, ReadDetection, ReadAlerts, ReadGate,
              ReadLog, ReadTrends, Read, EndView, vars, store
<1> QED  BY <1>1, <1>2, <1>3, <1>4, <1>5 DEF SNext, Operator

\* What a report has told stays true while its thread waits.
LEMMA ToldStays ==
  ASSUME HistoryInv, FindingsInv, [SNext]_svars, NEW t \in Threads, Told(t),
         view'[t] = view[t], pc'[t] = pc[t], cycle'[t] = cycle[t], results'[t] = results[t],
         at'[t] = at[t]
  PROVE  Told(t)'
<1> SUFFICES ASSUME ~Idle(t)' PROVE Told(t)'
  BY DEF Told
<1>1. /\ view[t].surface = "report" /\ view[t].reading \in 0..3
      /\ Ready(t) /\ view[t].found = results[t]
      /\ \A i \in 1..Len(results[t]) : /\ view[t].reading >= 2 => TrendTold(t, i)
                                       /\ view[t].reading >= 3 => AlertTold(t, i)
  BY DEF Told, Idle
<1>2. Ready(t)'
  BY <1>1 DEF Ready, InLoop
<1>3. ASSUME NEW i \in 1..Len(results[t]), TrendTold(t, i) PROVE TrendTold(t, i)'
  BY <1>3, TrendStays DEF TrendTold
<1>4. ASSUME NEW i \in 1..Len(results[t]), AlertTold(t, i) PROVE AlertTold(t, i)'
  BY <1>4, AlertsStay DEF AlertTold, Ids, Severity
<1> QED  BY <1>1, <1>2, <1>3, <1>4 DEF Told

\* A step of one viewer leaves the threads and the other viewers alone.
LEMMA ViewOf ==
  ASSUME InForceInv, NEW v \in Viewers, View(v)
  PROVE  /\ UNCHANGED <<pc, cycle, results, at, alerts, findings, drift_history>>
         /\ \A u \in Viewers \ {v} : view'[u] = view[u]
<1>1. view = [u \in Viewers |-> view[u]]
  BY DEF InForceInv, Shapes
<1>2. UNCHANGED <<vars, findings>> /\ \A u \in Viewers \ {v} : view'[u] = view[u]
  <2>1. CASE BeginView(v) \/ BeginReport(v)
    BY <1>1, <2>1 DEF BeginView, BeginReport, Begins
  <2>2. CASE ReadDetection(v) \/ ReadAlerts(v) \/ ReadGate(v) \/ ReadLog(v) \/ ReadTrends(v)
    <3>1. ASSUME NEW what, NEW field, NEW value, Read(v, what, field, value)
          PROVE  UNCHANGED <<vars, findings>> /\ \A u \in Viewers \ {v} : view'[u] = view[u]
      BY <1>1, <3>1 DEF Read
    <3> QED  BY <2>2, <3>1 DEF ReadDetection, ReadAlerts, ReadGate, ReadLog, ReadTrends
  <2>3. CASE EndView(v)
    BY <1>1, <2>3 DEF EndView
  <2> QED  BY <2>1, <2>2, <2>3 DEF View
<1> QED  BY <1>2 DEF vars, thread, store

\* A read of a report is the next one of its three.
LEMMA ReportReads ==
  ASSUME InForceInv, NEW t \in Reports, Told(t), NEW what, NEW field, NEW value,
         Read(t, what, field, value)
  PROVE  \/ view[t].reading = 0 /\ what = "gate"
         \/ view[t].reading = 1 /\ what = "trends"
         \/ view[t].reading = 2 /\ what = "alerts"
<1>1. ~Idle(t) /\ ~Answered(t) /\ Reads(view[t].surface)[view[t].reading + 1] = what
  BY DEF Read
<1>2. view[t].surface = "report" /\ view[t].reading \in 0..3
  BY <1>1 DEF Told
<1>3. /\ Len(Reads("report")) = 3 /\ Reads("report")[1] = "gate" /\ Reads("report")[2] = "trends"
      /\ Reads("report")[3] = "alerts"
  BY ReadsOf
<1>4. view[t].reading \in 0..2
  <2>1. Len(Reads(view[t].surface)) = 3
    BY <1>2, <1>3
  <2>2. view[t].reading # 3
    BY <1>1, <2>1 DEF Answered
  <2> QED  BY <1>2, <2>2
<1> QED  BY <1>1, <1>2, <1>3, <1>4

\* What a step of its own viewer has a report tell.
LEMMA ReportViews ==
  ASSUME ReportInv, [SNext]_svars, NEW t \in Reports, View(t)
  PROVE  Told(t)'
<1>1. /\ InForceInv /\ HistoryInv /\ FindingsInv /\ Told(t) /\ t \in Threads /\ t \in Viewers
      /\ Shaped(t) /\ view = [u \in Viewers |-> view[u]] /\ t \notin Clients
  BY SurfaceAssumption DEF ReportInv, Reports, Viewers, InForceInv, Shapes
<1>2. UNCHANGED <<pc, cycle, results, at, alerts, findings, drift_history>>
  BY <1>1, ViewOf
<1>3. Ready(t)' = Ready(t)
  BY <1>2 DEF Ready, InLoop
<1>4. \A i : TrendTold(t, i) /\ view'[t].trends = view[t].trends /\ view'[t].found = view[t].found
               => TrendTold(t, i)'
  BY <1>1, <1>2, TrendStays DEF TrendTold
<1>5. CASE BeginReport(t)
  <2>1. /\ Ready(t)
        /\ view' = [view EXCEPT ![t].surface = "report", ![t].reading = 0, ![t].found = results[t]]
    BY <1>5 DEF BeginReport, Begins
  <2>2. view'[t].surface = "report" /\ view'[t].reading = 0 /\ view'[t].found = results[t]
    BY <1>1, <2>1 DEF Shaped
  <2>3. ~(view'[t].reading >= 2) /\ ~(view'[t].reading >= 3) /\ view'[t].reading \in 0..3
    BY <2>2
  <2> QED  BY <1>2, <1>3, <2>1, <2>2, <2>3 DEF Told
<1>6. CASE ReadGate(t)
  <2>1. view[t].reading = 0 /\ view'[t].reading = 1 /\ view'[t].surface = "report"
        /\ view'[t].found = view[t].found
    <3>1. Read(t, "gate", "gate", Newest)
      BY <1>6 DEF ReadGate
    <3>2. view[t].reading = 0
      BY <1>1, <3>1, ReportReads
    <3>3. view[t].surface = "report"
      BY <1>1, <3>2 DEF Told, Idle
    <3> QED  BY <1>1, <3>1, <3>2, <3>3 DEF Read, Shaped
  <2>2. Ready(t) /\ view[t].found = results[t]
    BY <1>1, <2>1 DEF Told, Idle
  <2> QED  BY <1>2, <1>3, <2>1, <2>2 DEF Told
<1>7. CASE ReadTrends(t)
  <2>1. /\ view[t].reading = 1 /\ view'[t].reading = 2 /\ view'[t].surface = "report"
        /\ view'[t].found = view[t].found /\ view'[t].trends = TrendsOf(view[t].found)
    <3>1. Read(t, "trends", "trends", TrendsOf(view[t].found))
      BY <1>7 DEF ReadTrends
    <3>2. view[t].reading = 1
      BY <1>1, <3>1, ReportReads
    <3>3. view[t].surface = "report"
      BY <1>1, <3>2 DEF Told, Idle
    <3> QED  BY <1>1, <3>1, <3>2, <3>3 DEF Read, Shaped
  <2>2. Ready(t) /\ view[t].found = results[t]
    BY <1>1, <2>1 DEF Told, Idle
  <2>3. ASSUME NEW i \in 1..Len(results[t]) PROVE TrendTold(t, i)'
    <3> SUFFICES ASSUME NEW category, category = results[t][i].category,
                        NEW trend, trend = view'[t].trends[i],
                        trend \in {"degrading", "improving"}, ~results[t][i].insufficient_data
                 PROVE  Compared(category, cycle[t], trend)'
      BY <1>2, <2>1, <2>2 DEF TrendTold
    <3>1. DOMAIN results[t] = 1..Len(results[t])
      BY <1>1, ResultsAreSequences DEF HistoryInv
    <3>2. trend = ComputeTrend(DriftHistory(category, HistoryLimit), category)
      BY <2>1, <2>2, <3>1 DEF TrendsOf
    <3>3. Compared(category, cycle[t], trend)
      BY <1>1, <2>2, <3>2, TrendIsTold
    <3>4. PICK own : own = cycle[t]
      OBVIOUS
    <3>5. Compared(category, own, trend)'
      BY <1>1, <3>3, <3>4, TrendStays
    <3> QED  BY <1>2, <3>4, <3>5
  <2> QED  BY <1>2, <1>3, <2>1, <2>2, <2>3 DEF Told
<1>8. CASE ReadAlerts(t)
  <2>1. /\ view[t].reading = 2 /\ view'[t].reading = 3 /\ view'[t].surface = "report"
        /\ view'[t].found = view[t].found /\ view'[t].trends = view[t].trends
        /\ view'[t].listed = ActiveAlerts
    <3>1. Read(t, "alerts", "listed", ActiveAlerts)
      BY <1>8 DEF ReadAlerts
    <3>2. view[t].reading = 2
      BY <1>1, <3>1, ReportReads
    <3>3. view[t].surface = "report"
      BY <1>1, <3>2 DEF Told, Idle
    <3> QED  BY <1>1, <3>1, <3>2, <3>3 DEF Read, Shaped
  <2>2. /\ Ready(t) /\ view[t].found = results[t]
        /\ \A i \in 1..Len(results[t]) : TrendTold(t, i)
    BY <1>1, <2>1 DEF Told, Idle
  <2>3. HasAll(t)
    <3>1. cycle[t] # 0 /\ pc[t] = "history"
      BY <1>1, <2>2 DEF HistoryInv, OwnCycles, Ready
    <3> QED  BY <1>1, <3>1 DEF HistoryInv, Progress
  <2>4. ASSUME NEW i \in 1..Len(results[t]) PROVE AlertTold(t, i)'
    <3> SUFFICES ASSUME Severity(results[t][i]) # "none"
                 PROVE  \E a \in alerts : /\ a.id = <<cycle[t], i>>
                                          /\ a.acknowledged \/ a.id \in Ids(ActiveAlerts)
      BY <1>2, <2>1, <2>2 DEF AlertTold, Severity, Ids
    <3>1. PICK a \in alerts : a.id = <<cycle[t], i>>
      BY <2>3 DEF HasAll, Has, Stored
    <3> QED  BY <3>1 DEF ActiveAlerts, Ids
  <2> QED  BY <1>2, <1>3, <1>4, <2>1, <2>2, <2>4 DEF Told
<1>9. ~BeginView(t) /\ ~EndView(t) /\ ~ReadDetection(t) /\ ~ReadLog(t)
  <2>1. ~BeginView(t) /\ ~EndView(t)
    BY <1>1 DEF BeginView, EndView
  <2>2. ~ReadDetection(t)
    <3>1. \A shown : ~Read(t, "detection", "found", shown)
      BY <1>1, ReportReads
    <3> QED  BY <3>1 DEF ReadDetection
  <2>3. ~ReadLog(t)
    BY <1>1, ReportReads DEF ReadLog
  <2> QED  BY <2>1, <2>2, <2>3
<1> QED  BY <1>5, <1>6, <1>7, <1>8, <1>9 DEF View

LEMMA ReportStep == ReportInv /\ [SNext]_svars => ReportInv'
<1> SUFFICES ASSUME ReportInv, [SNext]_svars PROVE ReportInv'
  OBVIOUS
<1>1. InForceInv /\ HistoryInv /\ FindingsInv
  BY DEF ReportInv
<1>2. InForceInv' /\ HistoryInv' /\ FindingsInv'
  BY <1>1, InForceStep, SurfacesKeepHistory, FindingsStep
<1> SUFFICES ASSUME NEW t \in Reports PROVE Told(t)'
  BY <1>2 DEF ReportInv
<1>3. Told(t) /\ t \in Threads /\ t \in Viewers /\ Kind[t] = "report"
  BY DEF ReportInv, Reports, Viewers
<1>4. ASSUME view'[t] = Blank PROVE Told(t)'
  BY <1>4 DEF Told, Idle, Blank
<1>5. ASSUME view'[t] = view[t], UNCHANGED <<pc, cycle, results, at>> PROVE Told(t)'
  BY <1>1, <1>3, <1>5, ToldStays
<1>6. ASSUME NEW u \in Threads, SWork(u) PROVE Told(t)'
  <2>1. view'[t] = IF t \in (IF pc'[u] = "idle" THEN {u} ELSE {}) THEN Blank ELSE view[t]
    BY <1>3, <1>6 DEF SWork, Meanwhile
  <2>2. CASE u # t
    <3>1. pc'[t] = pc[t] /\ cycle'[t] = cycle[t] /\ results'[t] = results[t] /\ at'[t] = at[t]
      BY <1>1, <1>3, <1>6, <2>2, WorkOf
    <3>2. view'[t] = view[t]
      BY <2>1, <2>2
    <3> QED  BY <1>1, <1>3, <3>1, <3>2, ToldStays
  <2>3. CASE u = t
    <3>1. CASE Idle(t)
      <4>1. view'[t] = Blank \/ view'[t] = view[t]
        BY <2>1
      <4> QED  BY <3>1, <4>1 DEF Told, Idle, Blank
    <3>2. CASE ~Idle(t)
      <4>1. pc'[u] = "idle"
        BY <1>1, <1>3, <1>6, <2>3, <3>2, WorkOf DEF Told
      <4> QED  BY <1>4, <2>1, <2>3, <4>1
    <3> QED  BY <3>1, <3>2
  <2> QED  BY <2>2, <2>3
<1>7. ASSUME NEW v \in Viewers, View(v) PROVE Told(t)'
  <2>1. CASE v = t
    BY <1>7, <2>1, ReportViews
  <2>2. CASE v # t
    BY <1>1, <1>3, <1>5, <1>7, <2>2, ViewOf
  <2> QED  BY <2>1, <2>2
<1>8. CASE Operator
  <2>1. view'[t] = view[t] /\ UNCHANGED thread
    BY <1>3, <1>8 DEF Operator, Meanwhile, Acknowledge, Resolve
  <2> QED  BY <1>5, <2>1 DEF thread
<1>9. CASE SRestart
  BY <1>3, <1>4, <1>9 DEF SRestart, Meanwhile
<1>10. CASE UNCHANGED svars
  BY <1>5, <1>10 DEF svars, vars, thread
<1> QED  BY <1>6, <1>7, <1>8, <1>9, <1>10 DEF SNext

LEMMA ReportStart == SInit => ReportInv
<1> SUFFICES ASSUME SInit PROVE ReportInv
  OBVIOUS
<1>1. InForceInv /\ HistoryInv
  BY InForceStart, HistoryStart DEF SInit
<1>2. FindingsInv
  BY DEF SInit, Init, FindingsInv
<1>3. \A t \in Reports : Told(t)
  BY DEF SInit, Told, Idle, Blank, Viewers
<1> QED  BY <1>1, <1>2, <1>3 DEF ReportInv

\* An answered report has told of each of its results.
LEMMA ReportAnswer == ReportInv => ReportIsComplete
<1> SUFFICES ASSUME ReportInv, NEW t \in Reports, Answered(t), NEW i \in 1..Len(view[t].found)
             PROVE  LET r == view[t].found[i] IN
               /\ Severity(r) # "none" =>
                    \E a \in alerts : a.id = <<cycle[t], i>> /\ (a.acknowledged \/ a.id \in Ids(view[t].listed))
               /\ view[t].trends[i] \in {"degrading", "improving"} /\ ~r.insufficient_data =>
                    \E c, d \in Rows(r.category) :
                      /\ c >= cycle[t] /\ d < c
                      /\ IF view[t].trends[i] = "degrading"
                         THEN Score(c, r.category) - Score(d, r.category) > 5
                         ELSE Score(c, r.category) - Score(d, r.category) < -5
  BY DEF ReportIsComplete
<1>1. Told(t) /\ t \in Viewers /\ view[t].surface \in AllSurfaces
  BY DEF ReportInv, Viewers, InForceInv, Shapes
<1>2. ~Idle(t)
  <2>1. Len(Reads(view[t].surface)) # -1
    BY <1>1, ReadsOf DEF AllSurfaces
  <2> QED  BY <2>1 DEF Answered, Idle
<1>3. view[t].surface = "report" /\ view[t].found = results[t]
      /\ \A j \in 1..Len(results[t]) : /\ view[t].reading >= 2 => TrendTold(t, j)
                                       /\ view[t].reading >= 3 => AlertTold(t, j)
  BY <1>1, <1>2 DEF Told
<1>4. view[t].reading = 3
  BY <1>3, ReadsOf DEF Answered
<1>5. TrendTold(t, i) /\ AlertTold(t, i)
  BY <1>3, <1>4
<1> QED  BY <1>5 DEF TrendTold, AlertTold, Compared, Between

\* A report tells everything its own cycle found, for every interleaving of cycles,
\* operators and restarts with its three reads: an alert it raised is listed unless an
\* operator acknowledged it, and a trend compares with an earlier row (api/app.py).
THEOREM ReportAlwaysComplete == SSpec => []ReportIsComplete
<1>1. SInit => ReportInv
  BY ReportStart
<1>2. ReportInv /\ [SNext]_svars => ReportInv'
  BY ReportStep
<1>3. ReportInv => ReportIsComplete
  BY ReportAnswer
<1> QED  BY <1>1, <1>2, <1>3, PTL DEF SSpec
=============================================================================

---------------------------- MODULE SchedulerLoop ----------------------------
(***************************************************************************)
(* The life of the scheduler's thread (engine/scheduler.py of              *)
(* src/ai-governance-mvp/src and serve.py): threads of the process start   *)
(* and stop it at any time, while its loop runs cycles that post webhooks  *)
(* and publish frames.  What a cycle does to the database is in            *)
(* DetectionCycle; here it fails or yields the alerts and the rollback it  *)
(* stored.                                                                 *)
(***************************************************************************)
EXTENDS Webhooks, EventBroker

CONSTANTS Callers,          \* threads that call start and stop
          Program,          \* the calls each of them makes
          Outcomes,         \* what a cycle may yield
          MaxItems,         \* bound on the notices of a cycle
          MaxStarts,        \* bound on the threads started
          MaxCycles         \* bound on the cycles that succeed

ASSUME LoopAssumption ==
  /\ "free" \notin Callers
  /\ Program \in [Callers -> Seq({"get_broker", "start", "stop"})]
  /\ MaxStarts \in Nat /\ MaxCycles \in Nat /\ MaxItems \in Nat
  /\ Notices = [cycle : 1..MaxCycles, item : 1..MaxItems,
                severity : {"warning", "critical", "rollback"}]
  /\ Outcomes \subseteq [drifts : Nat, alerts : Seq({"warning", "critical"}),
                         rollback : BOOLEAN]
  /\ \A found \in Outcomes : Len(found.alerts) + (IF found.rollback THEN 1 ELSE 0) <= MaxItems

VARIABLES
  call,                     \* per caller: which call of its program is next
  at,                       \* per caller: where in that call it is
  wired,                    \* _event_broker: the instance the scheduler was made with
  lock,                     \* _lock: the caller that holds it, "free" otherwise
  thread,                   \* _thread: the number of the thread started last, 0 for None
  stop_event,               \* _stop_event
  loop,                     \* per thread: what it does next
  cycle_count,
  outcome,                  \* of the cycle under way
  to_publish                \* frames the cycle still has to publish

callers   == <<call, at>>
control   == <<wired, lock, thread, stop_event>>
cycling   == <<cycle_count, outcome, to_publish>>
vars      == <<callers, control, loop, cycling, webhooks, events>>

LoopThreads  == 1..MaxStarts
Alive(g)     == loop[g] \notin {"none", "dead"}
Running      == thread # 0 /\ Alive(thread)
Calls(c, op) == call[c] <= Len(Program[c]) /\ Program[c][call[c]] = op
Nothing      == [drifts |-> 0, alerts |-> <<>>, rollback |-> FALSE]

Init == /\ BrokerInit
        /\ WebhooksInit
        /\ call = [c \in Callers |-> 1]
        /\ at = [c \in Callers |-> "begin"]
        /\ wired = 0
        /\ lock = "free"
        /\ thread = 0
        /\ stop_event = FALSE
        /\ loop = [g \in LoopThreads |-> "none"]
        /\ cycle_count = 0
        /\ outcome = Nothing
        /\ to_publish = <<>>

----------------------------------------------------------------------------
\* The callers.

Returns(c) == /\ call' = [call EXCEPT ![c] = @ + 1]
              /\ at' = [at EXCEPT ![c] = "begin"]
Goto(c, s) == at' = [at EXCEPT ![c] = s] /\ UNCHANGED call

\* serve.py makes the scheduler with the process-wide broker, as a client of the stream
\* may do at the same time.
LookForBroker(c) == /\ Calls(c, "get_broker") /\ at[c] = "begin"
                    /\ IF Known THEN wired' = broker /\ Returns(c)
                                 ELSE Goto(c, "lock") /\ UNCHANGED wired
                    /\ UNCHANGED <<lock, thread, stop_event, loop, cycling, webhooks, events>>

MakeBroker(c) == /\ Calls(c, "get_broker") /\ at[c] = "lock"
                 /\ CreateOnce
                 /\ wired' = broker'
                 /\ Returns(c)
                 /\ UNCHANGED <<lock, thread, stop_event, loop, cycling, webhooks, stream,
                                subscribers, client>>

\* Mistake to detect: the event is cleared before the thread is looked at.
BugStart(c) == /\ Calls(c, "start") /\ at[c] = "begin" /\ wired # 0
               /\ lock = "free"
               /\ stop_event' = FALSE
               /\ IF Running THEN Returns(c) /\ UNCHANGED lock
                             ELSE lock' = c /\ Goto(c, "clear")
               /\ UNCHANGED <<wired, thread, loop, cycling, webhooks, events>>

\* Mistake to detect: the thread is looked at before the lock is taken.
BugStartUnlocked(c) == /\ Calls(c, "start") /\ at[c] = "begin" /\ wired # 0
                       /\ IF Running THEN Returns(c) ELSE Goto(c, "clear")
                       /\ UNCHANGED <<control, loop, cycling, webhooks, events>>

\* start takes the lock and returns if the thread is alive ...
Start(c) == /\ Calls(c, "start") /\ at[c] = "begin" /\ wired # 0
            /\ lock = "free"
            /\ IF Running THEN Returns(c) /\ UNCHANGED lock
                          ELSE lock' = c /\ Goto(c, "clear")
            /\ UNCHANGED <<wired, thread, stop_event, loop, cycling, webhooks, events>>

\* ... clears the event ...
ClearStop(c) == /\ Calls(c, "start") /\ at[c] = "clear"
                /\ stop_event' = FALSE
                /\ Goto(c, "launch")
                /\ UNCHANGED <<wired, lock, thread, loop, cycling, webhooks, events>>

\* ... and starts another one.
Launch(c) == /\ Calls(c, "start") /\ at[c] = "launch"
             /\ thread < MaxStarts
             /\ thread' = thread + 1
             /\ loop' = [loop EXCEPT ![thread + 1] = "test"]
             /\ lock' = "free"
             /\ Returns(c)
             /\ UNCHANGED <<wired, stop_event, cycling, webhooks, events>>

\* stop sets the event without the lock.  It then waits for the thread, or its timeout,
\* and returns: the caller's next call comes at any time after.
Stop(c) == /\ Calls(c, "stop") /\ wired # 0
           /\ stop_event' = TRUE
           /\ Returns(c)
           /\ UNCHANGED <<wired, lock, thread, loop, cycling, webhooks, events>>

Caller(c) == \/ LookForBroker(c) \/ MakeBroker(c) \/ Start(c) \/ ClearStop(c) \/ Launch(c) \/ Stop(c)

----------------------------------------------------------------------------
\* The loop.

Turn(g, from, to) == loop[g] = from /\ loop' = [loop EXCEPT ![g] = to]

Test(g) == /\ Turn(g, "test", IF stop_event THEN "dead" ELSE "cycle")
           /\ UNCHANGED <<callers, control, cycling, webhooks, events>>

\* Detection, alerts, rollback and history are done; the webhooks are next.
RunCycle(g) ==
  /\ cycle_count < MaxCycles
  /\ Turn(g, "cycle", "send")
  /\ \E found \in Outcomes :
       LET rollback   == IF found.rollback THEN <<"rollback">> ELSE <<>>
           severities == found.alerts \o rollback
       IN  /\ outcome' = found
           /\ to_send' = [i \in 1..Len(severities) |->
                            [cycle |-> cycle_count + 1, item |-> i, severity |-> severities[i]]]
  /\ UNCHANGED <<callers, control, cycle_count, to_publish, hook, attempt, delivery, events>>

\* An exception is logged and swallowed.
CycleFails(g) == /\ Turn(g, "cycle", "wait")
                 /\ UNCHANGED <<callers, control, cycling, webhooks, events>>

\* Whatever a webhook answers, the cycle goes on.
SendNext(g) == /\ loop[g] = "send"
               /\ Dispatch
               /\ UNCHANGED <<callers, control, loop, cycling, events>>

Frames(found, n) ==
  LET Repeat(event, times) == [i \in 1..times |-> [event |-> event, cycle |-> n]]
  IN  Repeat("drift_detected", found.drifts) \o Repeat("alert_fired", Len(found.alerts))
        \o Repeat("rollback_triggered", IF found.rollback THEN 1 ELSE 0)
        \o Repeat("cycle_complete", 1)

\* Mistake to detect: the rest of the cycle is skipped when stop() was called.
BugCountCycle(g) == /\ to_send = <<>>
                    /\ Turn(g, "send", IF stop_event THEN "wait" ELSE "publish")
                    /\ cycle_count' = cycle_count + 1
                    /\ to_publish' = IF stop_event THEN <<>> ELSE Frames(outcome, cycle_count + 1)
                    /\ outcome' = Nothing
                    /\ UNCHANGED <<callers, control, webhooks, events>>

\* The cycle is counted before its frames are published.
CountCycle(g) == /\ to_send = <<>>
                 /\ Turn(g, "send", "publish")
                 /\ cycle_count' = cycle_count + 1
                 /\ to_publish' = Frames(outcome, cycle_count + 1)
                 /\ outcome' = Nothing
                 /\ UNCHANGED <<callers, control, webhooks, events>>

PublishNext(g) == /\ loop[g] = "publish" /\ to_publish # <<>>
                  /\ Publish(wired, Head(to_publish))
                  /\ to_publish' = Tail(to_publish)
                  /\ UNCHANGED <<callers, control, loop, cycle_count, outcome, webhooks>>

EndCycle(g) == /\ to_publish = <<>>
               /\ Turn(g, "publish", "wait")
               /\ UNCHANGED <<callers, control, cycling, webhooks, events>>

\* The interval is over, or the event is set.
Wake(g) == /\ Turn(g, "wait", "test")
           /\ UNCHANGED <<callers, control, cycling, webhooks, events>>

Loop(g) == \/ Test(g) \/ RunCycle(g) \/ CycleFails(g) \/ SendNext(g) \/ CountCycle(g)
           \/ PublishNext(g) \/ EndCycle(g) \/ Wake(g)

Next == \/ \E c \in Callers : Caller(c)
        \/ \E g \in LoopThreads : Loop(g)
        \/ \E r \in Readers : Reader(r) /\ UNCHANGED <<callers, control, loop, cycling, webhooks>>
        \/ HandledLate /\ UNCHANGED <<callers, control, loop, cycling, events>>

Spec == Init /\ [][Next]_vars

\* Threads and event loops go on; nothing is assumed of callers and of late POSTs.
FairSpec == /\ Spec
            /\ \A g \in LoopThreads : WF_vars(Loop(g))
            /\ \A r \in Readers :
                 WF_vars((Put(r) \/ Take(r)) /\ UNCHANGED <<callers, control, loop, cycling, webhooks>>)

----------------------------------------------------------------------------
\* However start and stop interleave, one thread at most runs the loop: the frames of a
\* cycle are published together, in the order of the cycles, and its completion last.
OneLoop ==
  /\ \A g, h \in LoopThreads : Alive(g) /\ Alive(h) => g = h
  /\ \A i \in 1..Len(stream) - 1 :
       stream[i + 1].cycle = stream[i].cycle + (IF stream[i].event = "cycle_complete" THEN 1 ELSE 0)

\* stop() ends the thread that runs when it is called, in the end, even if it gave up
\* waiting and start() is called meanwhile.
StopEndsLoop ==
  \A g \in LoopThreads : (stop_event /\ Alive(g)) ~> ~Alive(g)

\* Once the alerts and the rollback of a cycle are stored, failing webhooks and stop() do
\* not keep its frames from a client that stays connected: all of them are published,
\* and the client is sent, or was too slow for, every one.
Settled(r, n) == \E i \in 1..Len(stream) :
                   /\ stream[i] = [event |-> "cycle_complete", cycle |-> n]
                   /\ \A k \in 1..Len(queue[r]) : queue[r][k] > i
                   /\ \A k \in 1..Len(pending[r]) : pending[r][k] > i
CyclesReachClients ==
  \A r \in Readers, n \in 1..MaxCycles :
    (conn[r] = "open" /\ cycle_count + 1 = n /\ \E g \in LoopThreads : loop[g] = "send")
      ~> (conn[r] # "open" \/ Settled(r, n))
=============================================================================

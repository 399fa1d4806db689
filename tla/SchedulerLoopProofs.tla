------------------------- MODULE SchedulerLoopProofs -------------------------
(***************************************************************************)
(* Proofs about SchedulerLoop, for every set of callers and their          *)
(* programs, of clients, webhooks and outcomes, and every bound: the loop  *)
(* is run by one thread, what a send returned is true, and a connected     *)
(* client gets every frame its queue has room for, in order.               *)
(***************************************************************************)
EXTENDS SchedulerLoop, SequenceTheorems, TLAPS

LoopStates == {"none", "test", "cycle", "send", "publish", "wait", "dead"}

\* There is one broker, and the scheduler that was made has it.
OneBroker == /\ broker \in {0, 1} /\ instances = broker
             /\ wired \in {0, 1} /\ (wired = 1 => broker = 1)

\* A thread is started under the lock, and only when the one before it is dead: all but
\* the newest are.
Starting(c) == at[c] \in {"clear", "launch"}
ThreadTypes == /\ at \in [Callers -> {"begin", "lock", "clear", "launch"}]
               /\ lock \in Callers \cup {"free"}
               /\ thread \in 0..MaxStarts
               /\ loop \in [LoopThreads -> LoopStates]
OnlyNewest  == \A g \in LoopThreads : Alive(g) => g = thread /\ wired = 1
UnderLock   == \A c \in Callers : Starting(c) => lock = c /\ wired = 1
                                                 /\ \A g \in LoopThreads : ~Alive(g)

ThreadInv == OneBroker /\ ThreadTypes /\ OnlyNewest /\ UnderLock

\* What a step of the loop, of a client or of a webhook leaves of all that.
LEMMA CallersRest ==
  ASSUME ThreadInv, UNCHANGED <<at, lock, thread, wired>>, OneBroker',
         loop' \in [LoopThreads -> LoopStates], \A g \in LoopThreads : Alive(g)' => Alive(g)
  PROVE  ThreadInv'
BY DEF ThreadInv, OneBroker, ThreadTypes, OnlyNewest, UnderLock, Starting, Alive

LEMMA ThreadStep ==
  ASSUME ThreadInv, [Next]_vars
  PROVE  ThreadInv'
<1> USE DEF callers, control, cycling, sending, delivery, webhooks, brokers, client, events, vars
<1>c. MaxStarts \in Nat /\ "free" \notin Callers /\ LoopThreads = 1..MaxStarts
  BY LoopAssumption DEF LoopThreads
<1>t. OneBroker /\ ThreadTypes /\ OnlyNewest /\ UnderLock
  BY DEF ThreadInv
<1>i. /\ loop' = loop => loop' \in [LoopThreads -> LoopStates]
      /\ loop' = loop => \A g \in LoopThreads : Alive(g)' => Alive(g)
  BY <1>t DEF ThreadTypes, Alive
<1>1. ASSUME NEW c \in Callers, LookForBroker(c)
      PROVE  ThreadInv'
  <2>1. /\ UNCHANGED <<lock, thread, loop, brokers>>
        /\ wired' = wired \/ (wired' = broker /\ broker # 0)
        /\ \E s \in {"begin", "lock"} : at' = [at EXCEPT ![c] = s]
    BY <1>1 DEF LookForBroker, Known, Returns, Goto
  <2>2. at' \in [Callers -> {"begin", "lock", "clear", "launch"}]
        /\ \A d \in Callers : Starting(d)' => Starting(d)
    BY <2>1, <1>t DEF ThreadTypes, Starting
  <2>3. OneBroker' /\ (wired = 1 => wired' = 1)
    BY <2>1, <1>t DEF OneBroker
  <2> QED  BY <2>1, <2>2, <2>3, <1>t DEF ThreadInv, ThreadTypes, OnlyNewest, UnderLock, Alive
<1>2. ASSUME NEW c \in Callers, MakeBroker(c)
      PROVE  ThreadInv'
  <2>1. /\ UNCHANGED <<lock, thread, loop>>
        /\ at' = [at EXCEPT ![c] = "begin"]
        /\ broker' = 1 /\ instances' = 1 /\ wired' = 1
    BY <1>2, <1>t DEF MakeBroker, CreateOnce, Returns, OneBroker
  <2>2. at' \in [Callers -> {"begin", "lock", "clear", "launch"}]
        /\ \A d \in Callers : Starting(d)' => Starting(d)
    BY <2>1, <1>t DEF ThreadTypes, Starting
  <2> QED  BY <2>1, <2>2, <1>t DEF ThreadInv, OneBroker, ThreadTypes, OnlyNewest, UnderLock, Alive
<1>3. ASSUME NEW c \in Callers, Start(c)
      PROVE  ThreadInv'
  <2>1. UNCHANGED <<wired, thread, loop, brokers>>
    BY <1>3 DEF Start
  <2>2. CASE Running
    <3>1. lock' = lock /\ at' = [at EXCEPT ![c] = "begin"]
      BY <1>3, <2>2 DEF Start, Returns
    <3>2. at' \in [Callers -> {"begin", "lock", "clear", "launch"}]
          /\ \A d \in Callers : Starting(d)' => Starting(d)
      BY <3>1, <1>t DEF ThreadTypes, Starting
    <3> QED  BY <2>1, <3>1, <3>2, <1>t DEF ThreadInv, OneBroker, ThreadTypes, OnlyNewest, UnderLock, Alive
  <2>3. CASE ~Running
    <3>1. lock = "free" /\ wired # 0 /\ lock' = c /\ at' = [at EXCEPT ![c] = "clear"]
      BY <1>3, <2>3 DEF Start, Goto
    <3>2. \A d \in Callers : ~Starting(d)
      BY <3>1, <1>t, <1>c DEF UnderLock
    <3>3. at' \in [Callers -> {"begin", "lock", "clear", "launch"}]
          /\ \A d \in Callers : Starting(d)' => d = c
      BY <3>1, <3>2, <1>t DEF ThreadTypes, Starting
    <3>4. \A g \in LoopThreads : ~Alive(g)
      BY <2>3, <1>t, <1>c DEF Running, OnlyNewest
    <3> QED  BY <2>1, <3>1, <3>3, <3>4, <1>t
             DEF ThreadInv, OneBroker, ThreadTypes, OnlyNewest, UnderLock, Alive
  <2> QED  BY <2>2, <2>3
<1>4. ASSUME NEW c \in Callers, ClearStop(c)
      PROVE  ThreadInv'
  <2>1. UNCHANGED <<wired, lock, thread, loop, brokers>> /\ at[c] = "clear"
        /\ at' = [at EXCEPT ![c] = "launch"]
    BY <1>4 DEF ClearStop, Goto
  <2>2. at' \in [Callers -> {"begin", "lock", "clear", "launch"}]
        /\ \A d \in Callers : Starting(d)' => Starting(d)
    BY <2>1, <1>t DEF ThreadTypes, Starting
  <2> QED  BY <2>1, <2>2, <1>t DEF ThreadInv, OneBroker, ThreadTypes, OnlyNewest, UnderLock, Alive
<1>5. ASSUME NEW c \in Callers, Launch(c)
      PROVE  ThreadInv'
  <2>1. /\ at[c] = "launch" /\ thread < MaxStarts /\ thread' = thread + 1 /\ lock' = "free"
        /\ at' = [at EXCEPT ![c] = "begin"] /\ loop' = [loop EXCEPT ![thread + 1] = "test"]
        /\ UNCHANGED <<wired, brokers>>
    BY <1>5 DEF Launch, Returns
  <2>2. lock = c /\ wired = 1 /\ \A g \in LoopThreads : ~Alive(g)
    BY <2>1, <1>t DEF UnderLock, Starting
  <2>3. at' \in [Callers -> {"begin", "lock", "clear", "launch"}]
        /\ \A d \in Callers : ~Starting(d)'
    BY <2>1, <2>2, <1>t DEF ThreadTypes, UnderLock, Starting
  <2>4. thread' \in 0..MaxStarts
    BY <2>1, <1>t, <1>c DEF ThreadTypes
  <2>5. loop' \in [LoopThreads -> LoopStates] /\ \A g \in LoopThreads : Alive(g)' => g = thread'
    BY <2>1, <2>2, <1>t DEF ThreadTypes, Alive, LoopStates
  <2> QED  BY <2>1, <2>2, <2>3, <2>4, <2>5, <1>t DEF ThreadInv, OneBroker, ThreadTypes, OnlyNewest, UnderLock
<1>6. ASSUME NEW c \in Callers, Stop(c)
      PROVE  ThreadInv'
  <2>1. UNCHANGED <<wired, lock, thread, loop, brokers>> /\ at' = [at EXCEPT ![c] = "begin"]
    BY <1>6 DEF Stop, Returns
  <2>2. at' \in [Callers -> {"begin", "lock", "clear", "launch"}]
        /\ \A d \in Callers : Starting(d)' => Starting(d)
    BY <2>1, <1>t DEF ThreadTypes, Starting
  <2> QED  BY <2>1, <2>2, <1>t DEF ThreadInv, OneBroker, ThreadTypes, OnlyNewest, UnderLock, Alive
<1>7. ASSUME NEW g \in LoopThreads, Loop(g)
      PROVE  ThreadInv'
  <2>1. UNCHANGED <<at, lock, thread, wired, brokers>>
    BY <1>7
       DEF Loop, Test, RunCycle, CycleFails, SendNext, CountCycle, PublishNext, EndCycle, Wake, Publish
  <2>2. \/ loop' = loop
        \/ \E s \in LoopStates : Alive(g) /\ loop' = [loop EXCEPT ![g] = s]
    BY <1>7
       DEF Loop, Test, RunCycle, CycleFails, SendNext, CountCycle, PublishNext, EndCycle, Wake,
           Turn, Alive, LoopStates
  <2>3. loop' \in [LoopThreads -> LoopStates] /\ \A h \in LoopThreads : Alive(h)' => Alive(h)
    BY <2>2, <1>i, <1>t DEF ThreadTypes, Alive
  <2>4. OneBroker'
    BY <2>1, <1>t DEF OneBroker
  <2> QED  BY <2>1, <2>3, <2>4, CallersRest
<1>8. ASSUME NEW r \in Readers, Reader(r), UNCHANGED <<callers, control, loop, cycling, webhooks>>
      PROVE  ThreadInv'
  <2>1. OneBroker'
    BY <1>8, <1>t
       DEF Reader, Connect, GetBroker, Subscribe, Put, Take, Leave, LoopCloses, Away, CreateOnce, OneBroker
  <2> QED  BY <1>8, <2>1, <1>i, CallersRest
<1>9. ASSUME UNCHANGED <<callers, control, loop, events>>
      PROVE  ThreadInv'
  <2>1. OneBroker'
    BY <1>9, <1>t DEF OneBroker
  <2> QED  BY <1>9, <2>1, <1>i, CallersRest
<1>10. ASSUME UNCHANGED vars
       PROVE  ThreadInv'
  BY <1>9, <1>10
<1> QED  BY <1>1, <1>2, <1>3, <1>4, <1>5, <1>6, <1>7, <1>8, <1>9, <1>10 DEF Next, Caller

LEMMA ThreadStart == Init => ThreadInv
BY LoopAssumption
   DEF Init, BrokerInit, ThreadInv, OneBroker, ThreadTypes, OnlyNewest, UnderLock, Starting, Alive, LoopStates

----------------------------------------------------------------------------
\* The frames published and those of the cycle that has been counted, as one sequence.
Everything == stream \o to_publish

EventFrames == [event : {"drift_detected", "alert_fired", "rollback_triggered", "cycle_complete"},
                cycle : Nat]
After(frame) == frame.cycle + (IF frame.event = "cycle_complete" THEN 1 ELSE 0)
Chained(s)   == \A i \in 1..Len(s) - 1 : s[i + 1].cycle = After(s[i])

FrameTypes == /\ stream \in Seq(EventFrames) /\ to_publish \in Seq(EventFrames)
              /\ cycle_count \in Nat
              /\ outcome \in Outcomes \cup {Nothing}
\* It ends with the completion of the last cycle counted.
InOrder    == /\ Chained(Everything)
              /\ Everything # <<>> => After(Everything[Len(Everything)]) = cycle_count + 1
Publishing == to_publish # <<>> => \E g \in LoopThreads : loop[g] = "publish"

FrameInv == FrameTypes /\ InOrder /\ Publishing

\* Moving the first item of t to the end of s changes nothing in their concatenation.
LEMMA MoveHead ==
  ASSUME NEW S, NEW s \in Seq(S), NEW t \in Seq(S), t # <<>>
  PROVE  /\ Append(s, Head(t)) \in Seq(S) /\ Tail(t) \in Seq(S)
         /\ Append(s, Head(t)) \o Tail(t) = s \o t
<1> DEFINE moved == Append(s, Head(t)) \o Tail(t)
<1>1. Head(t) \in S /\ Tail(t) \in Seq(S) /\ Len(Tail(t)) = Len(t) - 1 /\ Len(t) > 0 /\ Head(t) = t[1]
      /\ \A i \in 1..Len(t) - 1 : Tail(t)[i] = t[i + 1]
  BY EmptySeq
<1>2. Append(s, Head(t)) \in Seq(S)
  BY <1>1
<1>3. moved \in Seq(S) /\ s \o t \in Seq(S)
      /\ Len(moved) = Len(s \o t)
  BY <1>1, <1>2
<1>4. ASSUME NEW i \in 1..Len(moved)
      PROVE  moved[i] = (s \o t)[i]
  <2>1. CASE i <= Len(s)
    BY <2>1, <1>1, <1>2
  <2>2. CASE i = Len(s) + 1
    BY <2>2, <1>1, <1>2
  <2>3. CASE i > Len(s) + 1
    BY <2>3, <1>1, <1>2
  <2> QED  BY <2>1, <2>2, <2>3, <1>3
<1> HIDE DEF moved
<1> QED  BY <1>1, <1>2, <1>3, <1>4, SeqEqual DEF moved

\* The frames of a cycle are chained, start with it and end with its completion.
LEMMA FramesOfCycle ==
  ASSUME NEW found \in Outcomes \cup {Nothing}, NEW n \in Nat
  PROVE  LET f == Frames(found, n) IN
         /\ f \in Seq(EventFrames) /\ f # <<>> /\ Len(f) > 0
         /\ f[1].cycle = n /\ After(f[Len(f)]) = n + 1
         /\ Chained(f)
<1> DEFINE Repeat(event, times) == [i \in 1..times |-> [event |-> event, cycle |-> n]]
<1> DEFINE a == Repeat("drift_detected", found.drifts)
           b == Repeat("alert_fired", Len(found.alerts))
           c == Repeat("rollback_triggered", IF found.rollback THEN 1 ELSE 0)
           d == Repeat("cycle_complete", 1)
<1>1. found.drifts \in Nat /\ Len(found.alerts) \in Nat
  BY LoopAssumption DEF Nothing
<1>2. ASSUME NEW e \in {"drift_detected", "alert_fired", "rollback_triggered", "cycle_complete"},
             NEW k \in Nat
      PROVE  Repeat(e, k) \in Seq(EventFrames) /\ Len(Repeat(e, k)) = k
             /\ \A i \in 1..k : Repeat(e, k)[i] = [event |-> e, cycle |-> n]
  BY DEF EventFrames
<1> DEFINE Plain(s) == /\ s \in Seq(EventFrames)
                       /\ \A i \in 1..Len(s) : s[i].cycle = n /\ s[i].event # "cycle_complete"
<1>3. Plain(a) /\ Plain(b) /\ Plain(c) /\ d \in Seq(EventFrames) /\ Len(d) = 1
      /\ d[1] = [event |-> "cycle_complete", cycle |-> n]
  <2>1. Plain(a)
    BY <1>1, <1>2
  <2>2. Plain(b)
    BY <1>1, <1>2
  <2>3. Plain(c)
    <3>1. (IF found.rollback THEN 1 ELSE 0) \in Nat
      OBVIOUS
    <3> QED  BY <3>1, <1>2
  <2>4. d \in Seq(EventFrames) /\ Len(d) = 1 /\ d[1] = [event |-> "cycle_complete", cycle |-> n]
    BY <1>2
  <2> QED  BY <2>1, <2>2, <2>3, <2>4
<1> HIDE DEF a, b, c, d
<1> DEFINE body == a \o b \o c
<1>4. Plain(body)
  <2>1. ASSUME NEW s, NEW t, Plain(s), Plain(t)
        PROVE  Plain(s \o t)
    BY <2>1
  <2> HIDE DEF Plain
  <2>2. Plain(a \o b)
    BY <2>1, <1>3
  <2> QED  BY <2>1, <2>2, <1>3
<1>5. Frames(found, n) = body \o d
  BY DEF Frames, a, b, c, d
<1> HIDE DEF body
<1>6. Len(body) \in Nat /\ Len(body \o d) = Len(body) + 1 /\ body \o d \in Seq(EventFrames)
      /\ (body \o d)[Len(body) + 1] = d[1]
      /\ \A i \in 1..Len(body) : (body \o d)[i] = body[i]
  <2>1. body \in Seq(EventFrames) /\ d \in Seq(EventFrames) /\ Len(d) = 1
    BY <1>3, <1>4
  <2> QED  BY <2>1, ConcatProperties, LenProperties
<1>7. (body \o d)[1].cycle = n
  BY <1>6, <1>4, <1>3
<1> QED  BY <1>3, <1>4, <1>5, <1>6, <1>7 DEF Chained, After

LEMMA ChainedTogether ==
  ASSUME NEW s \in Seq(EventFrames), NEW t \in Seq(EventFrames), Chained(s), Chained(t),
         s # <<>> /\ t # <<>> => t[1].cycle = After(s[Len(s)])
  PROVE  Chained(s \o t)
<1> SUFFICES ASSUME NEW i \in 1..Len(s \o t) - 1
             PROVE  (s \o t)[i + 1].cycle = After((s \o t)[i])
  BY DEF Chained
<1>1. CASE i < Len(s)
  BY <1>1 DEF Chained
<1>2. CASE i = Len(s)
  BY <1>2, EmptySeq
<1>3. CASE i > Len(s)
  <2>1. i - Len(s) \in 1..Len(t) - 1
    BY <1>3
  <2> QED  BY <2>1, <1>3 DEF Chained
<1> QED  BY <1>1, <1>2, <1>3

LEMMA FrameStart == Init => FrameInv
<1> SUFFICES ASSUME Init PROVE FrameInv
  OBVIOUS
<1>1. stream = <<>> /\ to_publish = <<>> /\ cycle_count = 0 /\ outcome = Nothing
  BY DEF Init, BrokerInit
<1>2. Everything = <<>> /\ Len(Everything) = 0
  BY <1>1 DEF Everything
<1> QED  BY <1>1, <1>2 DEF FrameInv, FrameTypes, InOrder, Publishing, Chained

\* What most steps leave of all that.
LEMMA FrameRest ==
  ASSUME FrameInv, UNCHANGED <<stream, to_publish, cycle_count>>,
         outcome' \in Outcomes \cup {Nothing},
         to_publish # <<>> => \A g \in LoopThreads : loop[g] = "publish" => loop'[g] = "publish"
  PROVE  FrameInv'
BY DEF FrameInv, FrameTypes, InOrder, Publishing, Everything

LEMMA FrameStep ==
  ASSUME ThreadInv, FrameInv, [Next]_vars
  PROVE  FrameInv'
<1> USE DEF callers, control, cycling, sending, delivery, webhooks, brokers, client, events, vars
<1>t. /\ FrameTypes /\ InOrder /\ Publishing
      /\ loop \in [LoopThreads -> LoopStates]
      /\ \A g, h \in LoopThreads : Alive(g) /\ Alive(h) => g = h
  BY DEF FrameInv, ThreadInv, ThreadTypes, OnlyNewest
<1>r. ASSUME UNCHANGED <<stream, cycling, loop>>
      PROVE  FrameInv'
  BY <1>r, <1>t, FrameRest DEF FrameTypes
\* What a thread does elsewhere than where it publishes.
<1>e. ASSUME NEW g \in LoopThreads, NEW s, Turn(g, s, loop'[g]), s \notin {"none", "dead"},
             s # "publish" \/ to_publish = <<>>,
             UNCHANGED <<stream, to_publish, cycle_count>>, outcome' \in Outcomes \cup {Nothing}
      PROVE  FrameInv'
  BY <1>e, <1>t, FrameRest DEF Turn, Alive
<1>1. ASSUME NEW c \in Callers, Caller(c)
      PROVE  FrameInv'
  <2>1. UNCHANGED <<stream, cycling>>
    BY <1>1 DEF Caller, LookForBroker, MakeBroker, Start, ClearStop, Launch, Stop
  <2>2. CASE loop' = loop
    BY <2>1, <2>2, <1>r
  <2>3. CASE Launch(c)
    <3>1. loop' = [loop EXCEPT ![thread + 1] = "test"] /\ Starting(c)
      BY <2>3 DEF Launch, Starting
    <3>2. \A g \in LoopThreads : ~Alive(g)
      BY <3>1 DEF ThreadInv, UnderLock
    <3>3. \A g \in LoopThreads : loop[g] # "publish"
      BY <3>2 DEF Alive
    <3> QED  BY <2>1, <3>3, <1>t, FrameRest DEF FrameTypes
  <2> QED  BY <1>1, <2>2, <2>3 DEF Caller, LookForBroker, MakeBroker, Start, ClearStop, Stop
<1>2. ASSUME NEW g \in LoopThreads, Loop(g)
      PROVE  FrameInv'
  <2>1. CASE Test(g)
    BY <2>1, <1>e, <1>t DEF Test, Turn, FrameTypes
  <2>2. CASE RunCycle(g)
    <3>1. Turn(g, "cycle", loop'[g]) /\ UNCHANGED <<stream, to_publish, cycle_count>> /\ outcome' \in Outcomes \cup {Nothing}
      BY <2>2, <1>t DEF RunCycle, Turn
    <3> QED  BY <3>1, <1>e DEF Turn
  <2>3. CASE CycleFails(g)
    BY <2>3, <1>e, <1>t DEF CycleFails, Turn, FrameTypes
  <2>4. CASE SendNext(g)
    BY <2>4, <1>r DEF SendNext
  <2>5. CASE CountCycle(g)
    <3>1. /\ loop[g] = "send" /\ loop' = [loop EXCEPT ![g] = "publish"]
          /\ cycle_count' = cycle_count + 1 /\ to_publish' = Frames(outcome, cycle_count + 1)
          /\ outcome' = Nothing /\ stream' = stream
      BY <2>5 DEF CountCycle, Turn
    <3>2. to_publish = <<>>
      BY <3>1, <1>t DEF Publishing, Alive
    <3>3. Everything = stream /\ stream \in Seq(EventFrames)
      BY <3>2, <1>t, ConcatEmptySeq DEF Everything, FrameTypes
    <3> DEFINE f == Frames(outcome, cycle_count + 1)
    <3>4. /\ f \in Seq(EventFrames) /\ f # <<>> /\ Len(f) > 0 /\ Chained(f)
          /\ f[1].cycle = cycle_count + 1 /\ After(f[Len(f)]) = cycle_count + 2
      <4>1. cycle_count + 1 \in Nat /\ outcome \in Outcomes \cup {Nothing} /\ cycle_count \in Nat
        BY <1>t DEF FrameTypes
      <4>2. /\ f \in Seq(EventFrames) /\ f # <<>> /\ Len(f) > 0 /\ Chained(f)
            /\ f[1].cycle = cycle_count + 1 /\ After(f[Len(f)]) = (cycle_count + 1) + 1
        BY <4>1, FramesOfCycle
      <4> HIDE DEF f
      <4> QED  BY <4>1, <4>2
    <3>5. Everything' = stream \o f
      BY <3>1 DEF Everything
    <3> HIDE DEF f
    <3>6. Chained(stream \o f)
      BY <3>3, <3>4, <1>t, ChainedTogether DEF InOrder
    <3>7. (stream \o f)[Len(stream \o f)] = f[Len(f)]
      BY <3>3, <3>4
    <3>8. InOrder'
      <4>1. Chained(Everything)'
        BY <3>5, <3>6 DEF Chained, After
      <4>2. After(Everything[Len(Everything)])' = After(f[Len(f)])
        BY <3>5, <3>7 DEF After
      <4>3. After(f[Len(f)]) = cycle_count' + 1
        <5>1. cycle_count \in Nat
          BY <1>t DEF FrameTypes
        <5> QED  BY <5>1, <3>1, <3>4
      <4>4. (After(Everything[Len(Everything)]) = cycle_count + 1)'
        BY <4>2, <4>3, Zenon
      <4> QED  BY <4>1, <4>4, Zenon DEF InOrder
    <3>9. FrameTypes' /\ Publishing'
      BY <3>1, <3>4, <1>t DEF FrameTypes, Publishing, f
    <3> QED  BY <3>8, <3>9 DEF FrameInv
  <2>6. CASE PublishNext(g)
    <3>1. /\ to_publish # <<>> /\ stream' = Append(stream, Head(to_publish))
          /\ to_publish' = Tail(to_publish) /\ UNCHANGED <<cycle_count, outcome, loop>>
      BY <2>6 DEF PublishNext, Publish
    <3>2. stream' \in Seq(EventFrames) /\ to_publish' \in Seq(EventFrames) /\ Everything' = Everything
      BY <3>1, <1>t, MoveHead DEF FrameTypes, Everything
    <3> QED  BY <3>1, <3>2, <1>t DEF FrameInv, FrameTypes, InOrder, Publishing
  <2>7. CASE EndCycle(g)
    BY <2>7, <1>e, <1>t DEF EndCycle, Turn, FrameTypes
  <2>8. CASE Wake(g)
    BY <2>8, <1>e, <1>t DEF Wake, Turn, FrameTypes
  <2> QED  BY <1>2, <2>1, <2>2, <2>3, <2>4, <2>5, <2>6, <2>7, <2>8 DEF Loop
<1>3. ASSUME NEW r \in Readers, Reader(r), UNCHANGED <<callers, control, loop, cycling, webhooks>>
      PROVE  FrameInv'
  <2>1. stream' = stream
    BY <1>3 DEF Reader, Connect, GetBroker, Subscribe, Put, Take, Leave, LoopCloses, Away
  <2> QED  BY <1>3, <2>1, <1>r
<1> QED  BY <1>1, <1>2, <1>3, <1>r DEF Next

\* The first property of the loop, for every program of the callers.
LEMMA LoopHolds == ThreadInv /\ FrameInv => OneLoop
<1> SUFFICES ASSUME ThreadInv, FrameInv PROVE OneLoop
  OBVIOUS
<1>1. \A g, h \in LoopThreads : Alive(g) /\ Alive(h) => g = h
  BY DEF ThreadInv, OnlyNewest
<1>2. ASSUME NEW i \in 1..Len(stream) - 1
      PROVE  stream[i + 1].cycle = After(stream[i])
  <2>1. stream \in Seq(EventFrames) /\ to_publish \in Seq(EventFrames)
    BY DEF FrameInv, FrameTypes
  <2>2. i \in 1..Len(Everything) - 1 /\ Everything[i] = stream[i] /\ Everything[i + 1] = stream[i + 1]
    BY <2>1 DEF Everything
  <2> QED  BY <2>2 DEF FrameInv, InOrder, Chained
<1> QED  BY <1>1, <1>2 DEF OneLoop, After

\* Start and stop never leave two threads that run the loop, whatever the interleaving
\* (scheduler.py:68-83), and frames of two cycles are never mixed.
THEOREM OneLoopAlways == Spec => []OneLoop
<1>1. Init => ThreadInv /\ FrameInv
  BY ThreadStart, FrameStart
<1>2. ThreadInv /\ FrameInv /\ [Next]_vars => ThreadInv' /\ FrameInv'
  BY ThreadStep, FrameStep
<1> QED  BY <1>1, <1>2, LoopHolds, PTL DEF Spec

----------------------------------------------------------------------------
\* The notices of the cycle under way are distinct and go to the webhooks in order:
\* those whose turn has not come were never posted.
SendTypes == /\ to_send \in Seq(Notices)
             /\ hook \in 1..Len(Hooks) /\ attempt \in 1..Hooks[hook].retry_attempts
             /\ handled \in [Pairs -> Nat] /\ flying \in [Pairs -> Nat] /\ tries \in [Pairs -> Nat]
             /\ result \in [Pairs -> {"none", "sent", "failed"}]
             /\ cycle_count \in Nat

Sending    == \E g \in LoopThreads : loop[g] = "send"
Untried(p) == \/ p[2].cycle > cycle_count + 1
              \/ p[2].cycle = cycle_count + 1 /\ ~Sending
              \/ \E k \in 1..Len(to_send) : p[2] = to_send[k] /\ (k = 1 => p[1] > hook)
InTurn == /\ to_send # <<>> => Sending /\ tries[Pair] = attempt - 1
          /\ to_send = <<>> => hook = 1 /\ attempt = 1
          /\ \A k \in 1..Len(to_send) : to_send[k].cycle = cycle_count + 1
          /\ \A i, k \in 1..Len(to_send) : to_send[i] = to_send[k] => i = k
          /\ \A p \in Pairs : Untried(p) => tries[p] = 0

SendInv == SendTypes /\ InTurn /\ SendIsTrue

LEMMA HooksTyped ==
  /\ Len(Hooks) \in Nat \ {0}
  /\ \A h \in 1..Len(Hooks) : Hooks[h].retry_attempts \in Nat \ {0}
<1> DEFINE Config == [min_severity : {"info", "warning", "critical"}, retry_attempts : Nat \ {0}]
<1>1. Hooks \in Seq(Config) /\ Hooks # <<>>
  BY HookAssumption
<1>2. \A cfg \in Config : cfg.retry_attempts \in Nat \ {0}
  OBVIOUS
<1> HIDE DEF Config
<1> QED  BY <1>1, <1>2, EmptySeq, ElementOfSeq

LEMMA SendStart == Init => SendInv
<1> SUFFICES ASSUME Init PROVE SendInv
  OBVIOUS
<1>1. /\ to_send = <<>> /\ hook = 1 /\ attempt = 1 /\ cycle_count = 0
      /\ handled = [p \in Pairs |-> 0] /\ flying = [p \in Pairs |-> 0] /\ tries = [p \in Pairs |-> 0]
      /\ result = [p \in Pairs |-> "none"]
  BY DEF Init, WebhooksInit
<1>2. SendTypes
  BY <1>1, HooksTyped DEF SendTypes
<1>3. InTurn
  BY <1>1 DEF InTurn
<1>4. SendIsTrue
  BY <1>1, HooksTyped DEF SendIsTrue, Pairs
<1> QED  BY <1>2, <1>3, <1>4 DEF SendInv

LEMMA SendRest ==
  ASSUME SendInv, UNCHANGED <<webhooks, cycle_count>>, Sending' = Sending
  PROVE  SendInv'
<1> USE DEF webhooks, sending, delivery
<1>1. SendTypes' /\ SendIsTrue'
  BY DEF SendInv, SendTypes, SendIsTrue
<1>2. \A p : Untried(p)' = Untried(p)
  BY DEF Untried
<1>3. InTurn'
  BY <1>2 DEF SendInv, InTurn, Pair
<1> QED  BY <1>1, <1>3 DEF SendInv

\* The pair under way is a pair, and its turn has come.
LEMMA PairTyped ==
  ASSUME SendInv, to_send # <<>>
  PROVE  /\ Pair \in Pairs /\ Pair[1] = hook /\ Pair[2] = to_send[1]
         /\ Len(to_send) \in Nat \ {0} /\ to_send[1] \in Notices
BY EmptySeq DEF SendInv, SendTypes, Pair, Pairs

\* Going on to the next webhook, or to the next notice, keeps the turns.
LEMMA NextHookKeeps ==
  ASSUME SendInv, to_send # <<>>, NextHook, UNCHANGED <<loop, cycle_count>>,
         tries' \in [Pairs -> Nat], \A p \in Pairs : p # Pair => tries'[p] = tries[p]
  PROVE  /\ to_send' \in Seq(Notices)
         /\ hook' \in 1..Len(Hooks) /\ attempt' \in 1..Hooks[hook'].retry_attempts
         /\ InTurn'
<1>t. SendTypes /\ InTurn /\ Sending' = Sending /\ attempt' = 1
      /\ Pair \in Pairs /\ Pair[1] = hook /\ Pair[2] = to_send[1]
      /\ Len(to_send) \in Nat \ {0} /\ to_send[1] \in Notices /\ Sending
  BY PairTyped DEF SendInv, Sending, NextHook, InTurn
<1>p. /\ \A p \in Pairs : p[1] \in 1..Len(Hooks) /\ p[2] \in Notices
      /\ hook \in 1..Len(Hooks) /\ Len(Hooks) \in Nat /\ cycle_count \in Nat
      /\ to_send[1].cycle = cycle_count + 1
      /\ \A i, k \in 1..Len(to_send) : to_send[i] = to_send[k] => i = k
  <2>1. /\ \A p \in Pairs : p[1] \in 1..Len(Hooks) /\ p[2] \in Notices
        /\ Len(Hooks) \in Nat
    BY HooksTyped DEF Pairs
  <2>2. hook \in 1..Len(Hooks) /\ cycle_count \in Nat
    BY <1>t DEF SendTypes
  <2>3. /\ to_send[1].cycle = cycle_count + 1
        /\ \A i, k \in 1..Len(to_send) : to_send[i] = to_send[k] => i = k
    BY <1>t DEF InTurn
  <2> QED  BY <2>1, <2>2, <2>3
<1>1. CASE hook < Len(Hooks)
  <2>1. hook' = hook + 1 /\ to_send' = to_send
    BY <1>1 DEF NextHook
  <2>2. hook' \in 1..Len(Hooks) /\ attempt' \in 1..Hooks[hook'].retry_attempts
    BY <2>1, <1>1, <1>t, HooksTyped DEF SendTypes
  <2>3. ASSUME NEW p \in Pairs, Untried(p)'
        PROVE  Untried(p) /\ p # Pair
    <3>1. \/ p[2].cycle > cycle_count + 1
          \/ \E k \in 1..Len(to_send) : p[2] = to_send[k] /\ (k = 1 => p[1] > hook + 1)
      BY <2>1, <2>3, <1>t DEF Untried
    <3>2. Untried(p)
      BY <3>1, <1>p DEF Untried
    <3>3. p[2] # to_send[1] \/ p[1] # hook
      BY <3>1, <1>p, <1>t
    <3> QED  BY <3>2, <3>3, <1>t
  <2>4. Pair' \in Pairs /\ Untried(Pair') /\ Pair' # Pair
    <3>1. Pair' = <<hook + 1, to_send[1]>>
      BY <2>1, <1>t DEF Pair, SendTypes
    <3>2. hook + 1 \in 1..Len(Hooks) /\ hook + 1 # hook /\ hook + 1 > hook
      BY <2>1, <2>2, <1>t DEF SendTypes
    <3> QED  BY <3>1, <3>2, <1>t DEF Untried, Pairs
  <2> QED  BY <2>1, <2>2, <2>3, <2>4, <1>t DEF InTurn, SendTypes
<1>2. CASE ~(hook < Len(Hooks))
  <2>1. hook' = 1 /\ to_send' = Tail(to_send)
    BY <1>2 DEF NextHook
  <2>2. hook' \in 1..Len(Hooks) /\ attempt' \in 1..Hooks[hook'].retry_attempts
    BY <2>1, <1>t, HooksTyped
  <2>3. /\ to_send' \in Seq(Notices) /\ Len(to_send') = Len(to_send) - 1
        /\ \A k \in 1..Len(to_send') : k + 1 \in 1..Len(to_send) /\ to_send'[k] = to_send[k + 1]
    BY <2>1, <1>t, HeadTailProperties DEF SendTypes
  <2>4. ASSUME NEW p \in Pairs, Untried(p)'
        PROVE  Untried(p) /\ p # Pair
    <3>1. \/ p[2].cycle > cycle_count + 1
          \/ \E k \in 1..Len(to_send') : p[2] = to_send'[k]
      BY <2>4, <1>t DEF Untried
    <3>2. \/ p[2].cycle > cycle_count + 1
          \/ \E k \in 1..Len(to_send) : p[2] = to_send[k] /\ k # 1
      <4>1. CASE \E k \in 1..Len(to_send') : p[2] = to_send'[k]
        <5>1. PICK k \in 1..Len(to_send') : p[2] = to_send'[k]
          BY <4>1
        <5>2. k + 1 \in 1..Len(to_send) /\ p[2] = to_send[k + 1] /\ k + 1 # 1
          BY <5>1, <2>3
        <5> QED  BY <5>2
      <4> QED  BY <3>1, <4>1
    <3>3. Untried(p)
      BY <3>2 DEF Untried
    <3>4. p[2] # to_send[1]
      BY <3>2, <1>p, <1>t
    <3> QED  BY <3>3, <3>4, <1>t
  <2>5. ASSUME to_send' # <<>>
        PROVE  Pair' \in Pairs /\ Untried(Pair') /\ Pair' # Pair
    <3>1. Len(to_send') \in Nat \ {0} /\ Head(to_send') = to_send'[1]
      BY <2>5, <2>3, EmptySeq
    <3>2. Pair' = <<1, to_send[2]>> /\ 2 \in 1..Len(to_send) /\ to_send[2] \in Notices
          /\ to_send[2] # to_send[1]
      BY <3>1, <2>1, <2>3, <1>t DEF Pair, InTurn, SendTypes
    <3> QED  BY <3>2, <1>t, HooksTyped DEF Untried, Pairs
  <2>6. /\ \A k \in 1..Len(to_send') : to_send'[k].cycle = cycle_count' + 1
        /\ \A i, k \in 1..Len(to_send') : to_send'[i] = to_send'[k] => i = k
    <3>1. \A k \in 1..Len(to_send) : to_send[k].cycle = cycle_count + 1
      BY <1>t DEF InTurn
    <3>2. ASSUME NEW i \in 1..Len(to_send'), NEW k \in 1..Len(to_send'), to_send'[i] = to_send'[k]
          PROVE  i = k
      <4>1. i + 1 \in 1..Len(to_send) /\ k + 1 \in 1..Len(to_send) /\ to_send[i + 1] = to_send[k + 1]
        BY <3>2, <2>3
      <4>2. i + 1 = k + 1
        BY <4>1, <1>p
      <4> QED  BY <4>2
    <3> QED  BY <3>1, <3>2, <2>3
  <2> QED  BY <2>1, <2>2, <2>3, <2>4, <2>5, <2>6, <1>t DEF InTurn, SendTypes
<1> QED  BY <1>1, <1>2

LEMMA DispatchKeeps ==
  ASSUME SendInv, Dispatch, UNCHANGED <<loop, cycle_count>>
  PROVE  SendInv'
<1>n. to_send # <<>>
  BY DEF Dispatch, SkipHook, Accepted, Rejected, TimedOut, Posts
<1>t. /\ SendTypes /\ InTurn /\ SendIsTrue
      /\ Pair \in Pairs /\ Pair[1] = hook /\ Pair[2] = to_send[1] /\ Head(to_send) = to_send[1]
      /\ Len(to_send) \in Nat \ {0} /\ to_send[1] \in Notices
      /\ tries[Pair] = attempt - 1
      /\ Hooks[hook].retry_attempts \in Nat \ {0}
      /\ attempt \in 1..Hooks[hook].retry_attempts
      /\ \A p \in Pairs : Hooks[p[1]].retry_attempts \in Nat \ {0}
      /\ tries[Pair] \in Nat
  BY <1>n, PairTyped, HooksTyped DEF SendInv, SendTypes, InTurn, Pairs
<1>1. CASE SkipHook
  <2>1. NextHook /\ UNCHANGED delivery
    BY <1>1 DEF SkipHook
  <2>2. tries' \in [Pairs -> Nat] /\ \A p \in Pairs : p # Pair => tries'[p] = tries[p]
    BY <2>1, <1>t DEF delivery, SendTypes
  <2>3. /\ to_send' \in Seq(Notices)
        /\ hook' \in 1..Len(Hooks) /\ attempt' \in 1..Hooks[hook'].retry_attempts
        /\ InTurn'
    BY <1>n, <2>1, <2>2, NextHookKeeps
  <2> QED  BY <2>1, <2>3, <1>t DEF SendInv, SendTypes, SendIsTrue, delivery
\* A POST is one more try of the pair whose turn it is.
<1>2. ASSUME Posts
      PROVE  /\ tries' \in [Pairs -> Nat] /\ tries'[Pair] = attempt
             /\ \A p \in Pairs : p # Pair => tries'[p] = tries[p]
             /\ Matches(Pair[1], Pair[2])
  <2>1. tries' = [tries EXCEPT ![Pair] = @ + 1] /\ Matches(hook, Head(to_send))
    BY <1>2 DEF Posts
  <2>2. tries \in [Pairs -> Nat] /\ tries[Pair] = attempt - 1 /\ attempt \in Nat
    BY <1>t DEF SendTypes
  <2>3. Matches(Pair[1], Pair[2])
    BY <2>1, <1>t
  <2> QED  BY <2>1, <2>2, <2>3, <1>t
<1>3. CASE Accepted
  <2>1. /\ handled' = [handled EXCEPT ![Pair] = @ + 1] /\ result' = [result EXCEPT ![Pair] = "sent"]
        /\ UNCHANGED flying /\ Posts /\ NextHook
    BY <1>3 DEF Accepted
  <2>2. /\ to_send' \in Seq(Notices)
        /\ hook' \in 1..Len(Hooks) /\ attempt' \in 1..Hooks[hook'].retry_attempts
        /\ InTurn'
    BY <1>n, <2>1, <1>2, NextHookKeeps
  <2>3. /\ handled' \in [Pairs -> Nat] /\ flying' \in [Pairs -> Nat]
        /\ result' \in [Pairs -> {"none", "sent", "failed"}]
    <3>1. /\ handled \in [Pairs -> Nat] /\ flying \in [Pairs -> Nat]
          /\ result \in [Pairs -> {"none", "sent", "failed"}]
      BY <1>t DEF SendTypes
    <3>2. handled' \in [Pairs -> Nat]
      <4>1. handled' = [handled EXCEPT ![Pair] = @ + 1] /\ handled \in [Pairs -> Nat]
        BY <2>1, <3>1
      <4>2. \A q \in Pairs : handled'[q] \in Nat
        BY <4>1
      <4> QED  BY <4>1, <4>2
    <3>3. flying' \in [Pairs -> Nat]
      BY <2>1, <3>1
    <3>4. result' \in [Pairs -> {"none", "sent", "failed"}]
      BY <2>1, <3>1
    <3> QED  BY <3>2, <3>3, <3>4
  <2>4. SendIsTrue'
    <3> SUFFICES ASSUME NEW p \in Pairs
                 PROVE  /\ handled'[p] + flying'[p] <= tries'[p]
                        /\ tries'[p] <= Hooks[p[1]].retry_attempts
                        /\ result'[p] = "sent"   => handled'[p] >= 1
                        /\ result'[p] = "failed" => tries'[p] = Hooks[p[1]].retry_attempts
                        /\ tries'[p] > 0         => Matches(p[1], p[2])
      BY DEF SendIsTrue
    <3>1. CASE p = Pair
      BY <3>1, <2>1, <1>2, <1>t DEF SendIsTrue, SendTypes
    <3>2. CASE p # Pair
      BY <3>2, <2>1, <1>2, <1>t DEF SendIsTrue, SendTypes
    <3> QED  BY <3>1, <3>2
  <2> QED  BY <2>2, <2>3, <2>4, <2>1, <1>2, <1>t DEF SendInv, SendTypes
\* A POST that fails is tried again, or was the last.
<1>4. ASSUME Posts, RetryOrGiveUp, UNCHANGED handled,
             \/ UNCHANGED flying
             \/ flying' = [flying EXCEPT ![Pair] = @ + 1]
      PROVE  SendInv'
  <2>1. /\ to_send' \in Seq(Notices)
        /\ hook' \in 1..Len(Hooks) /\ attempt' \in 1..Hooks[hook'].retry_attempts
        /\ InTurn'
    <3>1. CASE attempt < Hooks[hook].retry_attempts
      <4>1. attempt' = attempt + 1 /\ UNCHANGED <<to_send, hook>>
        BY <1>4, <3>1 DEF RetryOrGiveUp
      <4>2. Pair' = Pair /\ Sending' = Sending
        BY <4>1 DEF Pair, Sending
      <4>3. \A p : Untried(p)' = Untried(p)
        BY <4>1, <4>2 DEF Untried
      <4>4. ~Untried(Pair)
        BY <1>t, <1>n DEF Untried, InTurn, SendTypes
      <4>5. InTurn'
        BY <1>4, <1>2, <4>1, <4>2, <4>3, <4>4, <1>t, <1>n DEF InTurn
      <4> QED  BY <4>1, <4>5, <3>1, <1>t DEF SendTypes
    <3>2. CASE ~(attempt < Hooks[hook].retry_attempts)
      BY <1>4, <3>2, <1>2, <1>n, NextHookKeeps DEF RetryOrGiveUp
    <3> QED  BY <3>1, <3>2
  <2>2. \/ UNCHANGED result
        \/ attempt = Hooks[hook].retry_attempts /\ result' = [result EXCEPT ![Pair] = "failed"]
    BY <1>4, <1>t DEF RetryOrGiveUp
  <2>3. /\ handled' \in [Pairs -> Nat] /\ flying' \in [Pairs -> Nat]
        /\ result' \in [Pairs -> {"none", "sent", "failed"}]
    <3>1. handled' \in [Pairs -> Nat] /\ flying' \in [Pairs -> Nat]
      BY <1>4, <1>t DEF SendTypes
    <3>2. result' \in [Pairs -> {"none", "sent", "failed"}]
      BY <2>2, <1>t DEF SendTypes
    <3> QED  BY <3>1, <3>2
  <2>4. SendIsTrue'
    <3> SUFFICES ASSUME NEW p \in Pairs
                 PROVE  /\ handled'[p] + flying'[p] <= tries'[p]
                        /\ tries'[p] <= Hooks[p[1]].retry_attempts
                        /\ result'[p] = "sent"   => handled'[p] >= 1
                        /\ result'[p] = "failed" => tries'[p] = Hooks[p[1]].retry_attempts
                        /\ tries'[p] > 0         => Matches(p[1], p[2])
      BY DEF SendIsTrue
    <3>1. CASE p = Pair
      <4>1. handled'[p] = handled[p] /\ flying'[p] \in {flying[p], flying[p] + 1}
            /\ handled[p] \in Nat /\ flying[p] \in Nat /\ handled[p] + flying[p] <= tries[p]
            /\ tries'[p] = tries[p] + 1
        BY <3>1, <1>4, <1>2, <1>t DEF SendIsTrue, SendTypes
      <4>2. result'[p] = result[p] \/ (result'[p] = "failed" /\ attempt = Hooks[hook].retry_attempts)
        BY <3>1, <2>2, <1>t DEF SendTypes
      <4>3. result[p] # "failed"
        BY <3>1, <1>t DEF SendIsTrue
      <4> QED  BY <3>1, <4>1, <4>2, <4>3, <1>4, <1>2, <1>t DEF SendIsTrue
    <3>2. CASE p # Pair
      BY <3>2, <2>2, <1>4, <1>2, <1>t DEF SendIsTrue, SendTypes
    <3> QED  BY <3>1, <3>2
  <2> QED  BY <2>1, <2>3, <2>4, <1>4, <1>2, <1>t DEF SendInv, SendTypes
<1> QED  BY <1>1, <1>3, <1>4 DEF Dispatch, Rejected, TimedOut

LEMMA SendStep ==
  ASSUME ThreadInv, SendInv, [Next]_vars
  PROVE  SendInv'
<1> USE DEF callers, control, cycling, events, vars
<1>t. /\ SendTypes /\ InTurn /\ SendIsTrue
      /\ loop \in [LoopThreads -> LoopStates]
      /\ \A g, h \in LoopThreads : Alive(g) /\ Alive(h) => g = h
  BY DEF SendInv, ThreadInv, ThreadTypes, OnlyNewest
<1>r. ASSUME UNCHANGED <<webhooks, cycle_count, loop>>
      PROVE  SendInv'
  BY <1>r, SendRest DEF Sending
\* What a thread does elsewhere than where it sends.
<1>e. ASSUME NEW g \in LoopThreads, NEW s, loop[g] # "send", loop' = [loop EXCEPT ![g] = s], s # "send",
             UNCHANGED <<webhooks, cycle_count>>
      PROVE  SendInv'
  <2>1. Sending' = Sending
    BY <1>e, <1>t DEF Sending
  <2> QED  BY <1>e, <2>1, SendRest
<1>1. ASSUME NEW c \in Callers, Caller(c)
      PROVE  SendInv'
  <2>1. UNCHANGED <<webhooks, cycle_count>>
    BY <1>1 DEF Caller, LookForBroker, MakeBroker, Start, ClearStop, Launch, Stop
  <2>2. CASE loop' = loop
    BY <2>1, <2>2, <1>r
  <2>3. CASE Launch(c)
    <3>1. loop' = [loop EXCEPT ![thread + 1] = "test"] /\ Starting(c) /\ thread < MaxStarts
      BY <2>3 DEF Launch, Starting
    <3>2. \A g \in LoopThreads : ~Alive(g)
      BY <3>1 DEF ThreadInv, UnderLock
    <3>3. thread + 1 \in LoopThreads
      BY <3>1, LoopAssumption DEF ThreadInv, ThreadTypes, LoopThreads
    <3>4. loop[thread + 1] # "send"
      BY <3>2, <3>3 DEF Alive
    <3> QED  BY <2>1, <3>1, <3>3, <3>4, <1>e
  <2> QED  BY <1>1, <2>2, <2>3 DEF Caller, LookForBroker, MakeBroker, Start, ClearStop, Stop
<1>2. ASSUME NEW g \in LoopThreads, Loop(g)
      PROVE  SendInv'
  <2>1. CASE Test(g)
    BY <2>1, <1>e DEF Test, Turn
  <2>2. CASE RunCycle(g)
    <3>1. PICK found \in Outcomes :
            LET rollback   == IF found.rollback THEN <<"rollback">> ELSE <<>>
                severities == found.alerts \o rollback
            IN  to_send' = [i \in 1..Len(severities) |->
                              [cycle |-> cycle_count + 1, item |-> i, severity |-> severities[i]]]
      BY <2>2 DEF RunCycle
    <3> DEFINE rollback   == IF found.rollback THEN <<"rollback">> ELSE <<>>
               severities == found.alerts \o rollback
    <3>2. /\ loop[g] = "cycle" /\ loop' = [loop EXCEPT ![g] = "send"]
          /\ cycle_count < MaxCycles
          /\ UNCHANGED <<cycle_count, hook, attempt, delivery>>
      BY <2>2 DEF RunCycle, Turn
    <3>3. /\ severities \in Seq({"warning", "critical", "rollback"})
          /\ Len(severities) \in 0..MaxItems
      <4> DEFINE Kinds == {"warning", "critical", "rollback"}
      <4>1. found \in [drifts : Nat, alerts : Seq({"warning", "critical"}), rollback : BOOLEAN]
            /\ Len(found.alerts) + (IF found.rollback THEN 1 ELSE 0) <= MaxItems
            /\ MaxItems \in Nat
        BY LoopAssumption
      <4>2. found.alerts \in Seq({"warning", "critical"}) /\ found.rollback \in BOOLEAN
        BY <4>1
      <4>3. found.alerts \in Seq(Kinds) /\ Len(found.alerts) \in Nat
        BY <4>2
      <4>4. rollback \in Seq(Kinds) /\ Len(rollback) = IF found.rollback THEN 1 ELSE 0
        <5>1. CASE found.rollback
          BY <5>1
        <5>2. CASE ~found.rollback
          BY <5>2
        <5> QED  BY <5>1, <5>2
      <4> HIDE DEF rollback, Kinds
      <4>5. severities \in Seq(Kinds) /\ Len(severities) = Len(found.alerts) + Len(rollback)
        BY <4>3, <4>4, ConcatProperties
      <4> QED  BY <4>1, <4>2, <4>3, <4>4, <4>5 DEF Kinds
    <3> HIDE DEF severities
    <3>4. to_send' = [i \in 1..Len(severities) |->
                        [cycle |-> cycle_count + 1, item |-> i, severity |-> severities[i]]]
      BY <3>1 DEF severities
    <3>5. ASSUME NEW i \in 1..Len(severities)
          PROVE  [cycle |-> cycle_count + 1, item |-> i, severity |-> severities[i]] \in Notices
      BY <3>2, <3>3, <1>t, LoopAssumption, ElementOfSeq DEF SendTypes
    <3>6. /\ to_send' \in Seq(Notices) /\ Len(to_send') = Len(severities)
          /\ \A i \in 1..Len(to_send') : to_send'[i].cycle = cycle_count + 1 /\ to_send'[i].item = i
      BY <3>3, <3>4, <3>5
    <3>7. ~Sending /\ Sending' /\ to_send = <<>> /\ hook = 1 /\ attempt = 1
      <4>1. ~Sending
        BY <3>2, <1>t DEF Sending, Alive
      <4>2. Sending'
        BY <3>2, <1>t DEF Sending
      <4> QED  BY <4>1, <4>2, <1>t DEF InTurn
    <3>8. SendTypes' /\ SendIsTrue'
      BY <3>2, <3>6, <1>t DEF SendTypes, SendIsTrue, delivery
    <3>9. ASSUME NEW p \in Pairs, Untried(p)'
          PROVE  tries'[p] = 0
      <4>1. p[2].cycle > cycle_count + 1 \/ p[2].cycle = cycle_count + 1
        BY <3>9, <3>2, <3>6, <3>7 DEF Untried
      <4>2. Untried(p)
        BY <4>1, <3>7 DEF Untried
      <4> QED  BY <4>2, <3>2, <1>t DEF InTurn, delivery
    <3>10. ASSUME to_send' # <<>>
           PROVE  tries'[Pair'] = attempt' - 1
      <4>1. Len(to_send') \in Nat \ {0} /\ Head(to_send') = to_send'[1] /\ to_send'[1] \in Notices
            /\ to_send'[1].cycle = cycle_count + 1
        BY <3>10, <3>6, EmptySeq
      <4>2. Pair' \in Pairs /\ Pair'[2] = to_send'[1]
        BY <4>1, <3>2, <3>7, HooksTyped DEF Pair, Pairs
      <4>3. Untried(Pair')
        BY <4>1, <4>2, <3>7 DEF Untried
      <4>4. tries[Pair'] = 0
        BY <4>2, <4>3, <1>t DEF InTurn
      <4> QED  BY <4>4, <3>2, <3>7 DEF delivery
    <3> QED  BY <3>2, <3>6, <3>7, <3>8, <3>9, <3>10 DEF SendInv, InTurn
  <2>3. CASE CycleFails(g)
    BY <2>3, <1>e DEF CycleFails, Turn
  <2>4. CASE SendNext(g)
    BY <2>4, DispatchKeeps DEF SendNext
  <2>5. CASE CountCycle(g)
    <3>1. /\ to_send = <<>> /\ loop[g] = "send" /\ loop' = [loop EXCEPT ![g] = "publish"]
          /\ cycle_count' = cycle_count + 1 /\ UNCHANGED webhooks
      BY <2>5 DEF CountCycle, Turn
    <3>2. UNCHANGED <<to_send, hook, attempt, handled, flying, tries, result>>
      BY <3>1 DEF webhooks, sending, delivery
    <3>3. ~Sending'
      BY <3>1, <1>t DEF Sending, Alive
    <3>4. ASSUME NEW p \in Pairs, Untried(p)'
          PROVE  tries'[p] = 0
      <4>1. p[2].cycle > cycle_count + 2 \/ p[2].cycle = cycle_count + 2
        BY <3>4, <3>1, <3>2, <1>t DEF Untried, SendTypes
      <4>2. p[2].cycle \in Nat
        BY LoopAssumption DEF Pairs
      <4>3. Untried(p)
        BY <4>1, <4>2, <1>t DEF Untried, SendTypes
      <4> QED  BY <4>3, <3>2, <1>t DEF InTurn
    <3>5. InTurn'
      BY <3>1, <3>2, <3>4, <1>t DEF InTurn
    <3>6. SendTypes' /\ SendIsTrue'
      BY <3>1, <3>2, <1>t DEF SendTypes, SendIsTrue
    <3> QED  BY <3>5, <3>6 DEF SendInv
  <2>6. CASE PublishNext(g)
    BY <2>6, <1>r DEF PublishNext
  <2>7. CASE EndCycle(g)
    BY <2>7, <1>e DEF EndCycle, Turn
  <2>8. CASE Wake(g)
    BY <2>8, <1>e DEF Wake, Turn
  <2> QED  BY <1>2, <2>1, <2>2, <2>3, <2>4, <2>5, <2>6, <2>7, <2>8 DEF Loop
<1>3. ASSUME UNCHANGED <<callers, control, loop, cycling, webhooks>>
      PROVE  SendInv'
  BY <1>3, <1>r
<1>4. ASSUME HandledLate, UNCHANGED <<callers, control, loop, cycling, events>>
      PROVE  SendInv'
  <2>1. PICK p \in Pairs : /\ flying[p] > 0
                           /\ flying' = [flying EXCEPT ![p] = @ - 1]
                           /\ handled' = [handled EXCEPT ![p] = @ + 1]
                           /\ UNCHANGED <<sending, tries, result, failures>>
    BY <1>4 DEF HandledLate
  <2>2. UNCHANGED <<to_send, hook, attempt, tries, result, cycle_count, loop>>
    BY <1>4, <2>1 DEF sending
  <2>3. handled' \in [Pairs -> Nat] /\ flying' \in [Pairs -> Nat]
    BY <2>1, <1>t DEF SendTypes
  <2>4. \A q : Untried(q)' = Untried(q)
    BY <2>2 DEF Untried, Sending
  <2>5. InTurn'
    BY <2>2, <2>4, <1>t DEF InTurn, Pair, Sending
  <2>6. ASSUME NEW q \in Pairs
        PROVE  handled'[q] >= handled[q] /\ handled'[q] + flying'[q] = handled[q] + flying[q]
    BY <2>1, <1>t DEF SendTypes
  <2>7. SendIsTrue'
    BY <2>2, <2>3, <2>6, <1>t DEF SendIsTrue, SendTypes
  <2> QED  BY <2>2, <2>3, <2>5, <2>7, <1>t DEF SendInv, SendTypes
<1> QED  BY <1>1, <1>2, <1>3, <1>4, <1>r DEF Next

\* What a send returned is true of the receiver, however its POSTs fail or arrive late:
\* True means handled, False means that every attempt was made (webhooks.py:110-149).
THEOREM SendsAreTrue == Spec => []SendIsTrue
<1>1. Init => ThreadInv /\ SendInv
  BY ThreadStart, SendStart
<1>2. ThreadInv /\ SendInv /\ [Next]_vars => ThreadInv' /\ SendInv'
  BY ThreadStep, SendStep
<1>3. SendInv => SendIsTrue
  BY DEF SendInv
<1> QED  BY <1>1, <1>2, <1>3, PTL DEF Spec

----------------------------------------------------------------------------
\* A connected client is registered with the one broker there is; one that is not
\* connected holds nothing.
ClientTypes == /\ conn \in [Readers -> {"away", "lock", "connected", "open", "closed", "gone"}]
               /\ of \in [Readers -> {0, 1}]
               /\ joined \in [Readers -> Nat]
               /\ pending \in [Readers -> Seq(Nat)]
               /\ queue \in [Readers -> Seq(Nat)]
               /\ received \in [Readers -> Seq(Nat)]
               /\ subscribers \in [1..2 -> SUBSET Readers]
Registered(r) == /\ conn[r] \in {"connected", "open"} => of[r] = 1
                 /\ conn[r] = "open" => /\ r \in subscribers[1]
                                        /\ Len(queue[r]) <= QueueSize
                                        /\ Len(pending[r]) <= Len(stream)
                 /\ conn[r] # "open" => pending[r] = <<>> /\ queue[r] = <<>> /\ received[r] = <<>>

\* The two halves of StreamFaithful, for one client.
Consecutive(r) == \A k \in 1..Len(pending[r]) : pending[r][k] = Len(stream) - Len(pending[r]) + k
Ordered(t)     == \A k \in 1..Len(t) - 1 : /\ t[k] < t[k + 1]
                                           /\ t[k + 1] > t[k] + 1 => k > QueueSize
Held(r) == <<joined[r]>> \o received[r] \o queue[r]
Due(r)  == Len(stream) - Len(pending[r]) + 1

ClientInv == /\ ClientTypes
             /\ \A r \in Readers : /\ Registered(r)
                                   /\ conn[r] = "open" => Consecutive(r) /\ Ordered(Held(r) \o <<Due(r)>>)

\* What is held, and the frame due next, of a typed client.
LEMMA HeldTyped ==
  ASSUME ClientInv, NEW r \in Readers, conn[r] = "open", Len(stream) \in Nat
  PROVE  /\ Held(r) \in Seq(Nat) /\ Len(Held(r)) = 1 + Len(received[r]) + Len(queue[r])
         /\ Due(r) \in Nat
         /\ received[r] \in Seq(Nat) /\ queue[r] \in Seq(Nat) /\ pending[r] \in Seq(Nat) /\ joined[r] \in Nat
         /\ Len(received[r]) \in Nat /\ Len(queue[r]) \in Nat /\ Len(pending[r]) \in Nat
<1>1. /\ received[r] \in Seq(Nat) /\ queue[r] \in Seq(Nat) /\ pending[r] \in Seq(Nat) /\ joined[r] \in Nat
      /\ Len(pending[r]) <= Len(stream)
  BY DEF ClientInv, ClientTypes, Registered
<1>2. <<joined[r]>> \in Seq(Nat) /\ Len(<<joined[r]>>) = 1
  BY <1>1
<1>3. Held(r) \in Seq(Nat) /\ Len(Held(r)) = 1 + Len(received[r]) + Len(queue[r])
  BY <1>1, <1>2, ConcatProperties, LenProperties DEF Held
<1> QED  BY <1>1, <1>3, LenProperties DEF Due

\* The frame due next is put into the queue, or dropped once the queue is full.
LEMMA OrderedPut ==
  ASSUME NEW body \in Seq(Nat), NEW x \in Nat, Ordered(body \o <<x>>)
  PROVE  /\ Ordered(Append(body, x) \o <<x + 1>>)
         /\ Len(body) > QueueSize => Ordered(body \o <<x + 1>>)
<1>q. QueueSize \in Nat
  BY QueueAssumption
<1>1. /\ Len(body) \in Nat /\ Len(body \o <<x>>) = Len(body) + 1
      /\ \A k \in 1..Len(body) : (body \o <<x>>)[k] = body[k] /\ body[k] \in Nat
      /\ (body \o <<x>>)[Len(body) + 1] = x
  OBVIOUS
<1>2. ASSUME NEW k \in 1..Len(body) - 1
      PROVE  body[k] < body[k + 1] /\ (body[k + 1] > body[k] + 1 => k > QueueSize)
  <2>1. k \in 1..Len(body \o <<x>>) - 1 /\ (body \o <<x>>)[k] = body[k] /\ (body \o <<x>>)[k + 1] = body[k + 1]
    BY <1>1
  <2> QED  BY <2>1 DEF Ordered
<1>3. Len(body) > 0 => body[Len(body)] < x /\ (x > body[Len(body)] + 1 => Len(body) > QueueSize)
  BY <1>1 DEF Ordered
<1>4. Ordered(Append(body, x) \o <<x + 1>>)
  <2> DEFINE t == Append(body, x) \o <<x + 1>>
  <2>1. /\ Len(t) = Len(body) + 2
        /\ \A k \in 1..Len(body) : t[k] = body[k]
        /\ t[Len(body) + 1] = x /\ t[Len(body) + 2] = x + 1
    OBVIOUS
  <2> HIDE DEF t
  <2>2. ASSUME NEW k \in 1..Len(t) - 1
        PROVE  t[k] < t[k + 1] /\ (t[k + 1] > t[k] + 1 => k > QueueSize)
    <3>1. CASE k < Len(body)
      <4>1. k \in 1..Len(body) - 1 /\ t[k] = body[k] /\ t[k + 1] = body[k + 1]
        BY <3>1, <2>1, <1>1
      <4> QED  BY <4>1, <1>2
    <3>2. CASE k = Len(body)
      BY <3>2, <2>1, <1>1, <1>3
    <3>3. CASE k = Len(body) + 1
      BY <3>3, <2>1, <1>1
    <3> QED  BY <3>1, <3>2, <3>3, <2>1, <1>1
  <2> QED  BY <2>2 DEF Ordered, t
<1>5. ASSUME Len(body) > QueueSize
      PROVE  Ordered(body \o <<x + 1>>)
  <2> DEFINE t == body \o <<x + 1>>
  <2>1. /\ Len(t) = Len(body) + 1
        /\ \A k \in 1..Len(body) : t[k] = body[k]
        /\ t[Len(body) + 1] = x + 1
    OBVIOUS
  <2> HIDE DEF t
  <2>2. ASSUME NEW k \in 1..Len(t) - 1
        PROVE  t[k] < t[k + 1] /\ (t[k + 1] > t[k] + 1 => k > QueueSize)
    <3>1. CASE k < Len(body)
      <4>1. k \in 1..Len(body) - 1 /\ t[k] = body[k] /\ t[k + 1] = body[k + 1]
        BY <3>1, <2>1, <1>1
      <4> QED  BY <4>1, <1>2
    <3>2. CASE k = Len(body)
      BY <3>2, <2>1, <1>1, <1>3, <1>5, <1>q
    <3> QED  BY <3>1, <3>2, <2>1, <1>1
  <2> QED  BY <2>2 DEF Ordered, t
<1> QED  BY <1>4, <1>5

LEMMA ClientStart == Init => ClientInv
BY DEF Init, BrokerInit, ClientInv, ClientTypes, Registered

\* The state of one client is all that is said of it.
LEMMA ClientRest ==
  ASSUME ClientInv, NEW r \in Readers,
         stream' = stream, conn'[r] = conn[r], of'[r] = of[r], joined'[r] = joined[r],
         pending'[r] = pending[r], queue'[r] = queue[r], received'[r] = received[r],
         r \in subscribers[1] => r \in subscribers'[1]
  PROVE  /\ Registered(r)'
         /\ (conn[r] = "open" => Consecutive(r) /\ Ordered(Held(r) \o <<Due(r)>>))'
<1>1. Registered(r) /\ (conn[r] = "open" => Consecutive(r) /\ Ordered(Held(r) \o <<Due(r)>>))
  BY DEF ClientInv
<1>2. Registered(r)'
  BY <1>1 DEF Registered
<1>3. Consecutive(r)' = Consecutive(r)
  BY DEF Consecutive
<1>4. Held(r)' = Held(r) /\ Due(r)' = Due(r)
  BY DEF Held, Due
<1>5. (Held(r) \o <<Due(r)>>)' = Held(r) \o <<Due(r)>>
  BY <1>4
<1>6. Ordered(Held(r) \o <<Due(r)>>)' = Ordered(Held(r) \o <<Due(r)>>)
  BY <1>5 DEF Ordered
<1> QED  BY <1>1, <1>2, <1>3, <1>6

\* A frame put into the queue comes last of what is held; one that is taken stays held.
LEMMA HeldPut ==
  ASSUME NEW first \in Seq(Nat), NEW q \in Seq(Nat), NEW x \in Nat
  PROVE  first \o Append(q, x) = Append(first \o q, x)
<1> DEFINE a == first \o Append(q, x)
           b == Append(first \o q, x)
<1>1. /\ Append(q, x) \in Seq(Nat) /\ Len(Append(q, x)) = Len(q) + 1 /\ Append(q, x)[Len(q) + 1] = x
      /\ \A i \in 1..Len(q) : Append(q, x)[i] = q[i]
      /\ first \o q \in Seq(Nat) /\ Len(first \o q) = Len(first) + Len(q)
      /\ Len(first) \in Nat /\ Len(q) \in Nat
  BY AppendProperties, ConcatProperties
<1>2. a \in Seq(Nat) /\ b \in Seq(Nat) /\ Len(a) = Len(first) + Len(q) + 1 /\ Len(b) = Len(a)
  BY <1>1, AppendProperties, ConcatProperties
<1>3. ASSUME NEW i \in 1..Len(a)
      PROVE  a[i] = b[i]
  <2>1. CASE i <= Len(first)
    BY <2>1, <1>1, <1>2
  <2>2. CASE i > Len(first) /\ i <= Len(first) + Len(q)
    BY <2>2, <1>1, <1>2
  <2>3. CASE i = Len(first) + Len(q) + 1
    BY <2>3, <1>1, <1>2
  <2> QED  BY <2>1, <2>2, <2>3, <1>1, <1>2
<1> HIDE DEF a, b
<1> QED  BY <1>2, <1>3, SeqEqual DEF a, b

LEMMA HeldTaken ==
  ASSUME NEW first \in Seq(Nat), NEW rec \in Seq(Nat), NEW q \in Seq(Nat), q # <<>>
  PROVE  first \o Append(rec, Head(q)) \o Tail(q) = first \o rec \o q
<1>1. Head(q) \in Nat /\ Tail(q) \in Seq(Nat) /\ first \o rec \in Seq(Nat)
  BY HeadTailProperties
<1>2. first \o Append(rec, Head(q)) = Append(first \o rec, Head(q))
  BY <1>1, HeldPut
<1>3. \A s \in Seq(Nat) : Append(s, Head(q)) \o Tail(q) = s \o q
  <2>1. TAKE s \in Seq(Nat)
  <2> QED  BY MoveHead
<1>4. Append(first \o rec, Head(q)) \o Tail(q) = (first \o rec) \o q
  <2> DEFINE s == first \o rec
  <2>1. s \in Seq(Nat)
    BY <1>1
  <2> HIDE DEF s
  <2>2. Append(s, Head(q)) \o Tail(q) = s \o q
    BY <2>1, <1>3
  <2> QED  BY <2>2 DEF s
<1> QED  BY <1>2, <1>4, Zenon

LEMMA ReaderKeeps ==
  ASSUME ThreadInv, ClientInv, Len(stream) \in Nat, NEW r \in Readers, Reader(r)
  PROVE  ClientInv'
<1> USE DEF brokers
<1>t. OneBroker /\ ClientTypes /\ Registered(r)
      /\ (conn[r] = "open" => Consecutive(r) /\ Ordered(Held(r) \o <<Due(r)>>))
  BY DEF ThreadInv, ClientInv
\* The other clients are not concerned.
<1>o. ASSUME NEW s \in Readers, s # r, ClientTypes'
      PROVE  Registered(s)' /\ (conn[s] = "open" => Consecutive(s) /\ Ordered(Held(s) \o <<Due(s)>>))'
  <2>1. /\ stream' = stream /\ conn'[s] = conn[s] /\ of'[s] = of[s] /\ joined'[s] = joined[s]
        /\ pending'[s] = pending[s] /\ queue'[s] = queue[s] /\ received'[s] = received[s]
        /\ s \in subscribers[1] => s \in subscribers'[1]
    <3>1. CASE Connect(r) \/ GetBroker(r) \/ Put(r) \/ Take(r) \/ LoopCloses(r)
      BY <3>1, <1>o, <1>t DEF Connect, GetBroker, Put, Take, LoopCloses, Away, ClientTypes
    <3>2. CASE Subscribe(r)
      BY <3>2, <1>o, <1>t DEF Subscribe, ClientTypes
    <3>3. CASE Leave(r)
      BY <3>3, <1>o, <1>t DEF Leave, Away, ClientTypes
    <3> QED  BY <3>1, <3>2, <3>3 DEF Reader
  <2> QED  BY <2>1, ClientRest
<1>q. ASSUME ClientTypes', Registered(r)', (conn[r] = "open" => Consecutive(r) /\ Ordered(Held(r) \o <<Due(r)>>))'
      PROVE  ClientInv'
  BY <1>q, <1>o DEF ClientInv
<1>1. CASE Connect(r)
  <2>1. ClientTypes' /\ Registered(r)' /\ conn'[r] # "open"
    BY <1>1, <1>t DEF Connect, Known, OneBroker, ClientTypes, Registered
  <2> QED  BY <2>1, <1>q
<1>2. CASE GetBroker(r)
  <2>1. broker' = 1
    BY <1>2, <1>t DEF GetBroker, CreateOnce, OneBroker
  <2>2. ClientTypes' /\ Registered(r)' /\ conn'[r] # "open"
    BY <1>2, <2>1, <1>t DEF GetBroker, ClientTypes, Registered
  <2> QED  BY <2>2, <1>q
<1>3. CASE Subscribe(r)
  <2>1. /\ conn[r] = "connected" /\ of[r] = 1 /\ conn'[r] = "open" /\ joined'[r] = Len(stream)
        /\ pending'[r] = <<>> /\ queue'[r] = <<>> /\ received'[r] = <<>> /\ r \in subscribers'[1]
        /\ stream' = stream
    BY <1>3, <1>t DEF Subscribe, Registered, ClientTypes
  <2>2. ClientTypes'
    BY <1>3, <1>t, <2>1 DEF Subscribe, ClientTypes
  <2>3. Registered(r)' /\ Consecutive(r)'
    BY <1>3, <2>1, QueueAssumption DEF Subscribe, Registered, Consecutive
  <2>4. (Held(r) \o <<Due(r)>>)' = <<Len(stream)>> \o <<Len(stream) + 1>>
    <3>1. Held(r)' = <<Len(stream)>> \o <<>> \o <<>> /\ Due(r)' = Len(stream) - Len(<<>>) + 1
      BY <2>1 DEF Held, Due
    <3>2. <<Len(stream)>> \in Seq(Nat) /\ <<Len(stream)>> \o <<>> = <<Len(stream)>> /\ Len(<<>>) = 0
      BY ConcatEmptySeq
    <3> QED  BY <3>1, <3>2
  <2>5. Ordered(<<Len(stream)>> \o <<Len(stream) + 1>>)
    <3> DEFINE t == <<Len(stream)>> \o <<Len(stream) + 1>>
    <3>1. <<Len(stream)>> \in Seq(Nat) /\ <<Len(stream) + 1>> \in Seq(Nat)
      OBVIOUS
    <3>2. Len(t) = 2 /\ t[1] = Len(stream) /\ t[2] = Len(stream) + 1
      BY <3>1, ConcatProperties
    <3> HIDE DEF t
    <3> QED  BY <3>2 DEF Ordered, t
  <2> QED  BY <2>2, <2>3, <2>4, <2>5, <1>q DEF Ordered
<1>4. CASE Put(r)
  <2>1. conn[r] = "open" /\ pending[r] # <<>>
    BY <1>4 DEF Put
  <2>2. /\ Held(r) \in Seq(Nat) /\ Len(Held(r)) = 1 + Len(received[r]) + Len(queue[r])
        /\ Due(r) \in Nat
        /\ received[r] \in Seq(Nat) /\ queue[r] \in Seq(Nat) /\ pending[r] \in Seq(Nat) /\ joined[r] \in Nat
        /\ Len(received[r]) \in Nat /\ Len(queue[r]) \in Nat /\ Len(pending[r]) \in Nat \ {0}
    BY <2>1, HeldTyped, EmptySeq
  <2>3. Head(pending[r]) = Due(r)
    <3>1. Head(pending[r]) = pending[r][1] /\ 1 \in 1..Len(pending[r])
      BY <2>1, <2>2
    <3>2. pending[r][1] = Len(stream) - Len(pending[r]) + 1
      BY <2>1, <3>1, <1>t DEF Consecutive
    <3> QED  BY <3>1, <3>2 DEF Due
  <2>4. /\ pending'[r] = Tail(pending[r]) /\ UNCHANGED <<stream, subscribers, conn, of, joined, received>>
        /\ queue'[r] = IF Len(queue[r]) < QueueSize THEN Append(queue[r], Due(r)) ELSE queue[r]
    BY <1>4, <2>3, <1>t DEF Put, ClientTypes
  <2>5. pending'[r] \in Seq(Nat) /\ Len(pending'[r]) = Len(pending[r]) - 1
        /\ \A k \in 1..Len(pending'[r]) : pending'[r][k] = pending[r][k + 1]
    BY <2>1, <2>2, <2>4, HeadTailProperties
  <2>6. queue'[r] \in Seq(Nat) /\ Len(queue'[r]) <= QueueSize
    BY <2>1, <2>2, <2>4, <1>t, QueueAssumption, AppendProperties DEF Registered
  <2>7. ClientTypes'
    BY <1>4, <2>4, <2>5, <2>6, <1>t DEF Put, ClientTypes
  <2>8. Registered(r)' /\ Consecutive(r)'
    <3>1. Len(pending[r]) <= Len(stream) /\ Consecutive(r)
      BY <2>1, <1>t DEF Registered
    <3>2. Registered(r)'
      BY <2>1, <2>2, <2>4, <2>5, <2>6, <3>1, <1>t DEF Registered
    <3>3. ASSUME NEW k \in 1..Len(pending'[r])
          PROVE  pending'[r][k] = Len(stream) - Len(pending'[r]) + k
      <4>1. k + 1 \in 1..Len(pending[r])
        BY <2>2, <2>5
      <4>2. pending[r][k + 1] = Len(stream) - Len(pending[r]) + (k + 1)
        BY <4>1, <3>1 DEF Consecutive
      <4>3. pending'[r][k] = pending[r][k + 1] /\ Len(pending'[r]) = Len(pending[r]) - 1
        BY <2>5
      <4>4. \A l, m, i \in Nat : l - m + (i + 1) = l - (m - 1) + i
        OBVIOUS
      <4>5. k \in Nat /\ Len(pending[r]) \in Nat
        BY <2>2
      <4> QED  BY <4>2, <4>3, <4>4, <4>5
    <3> QED  BY <3>2, <3>3, <2>4 DEF Consecutive
  <2>9. Due(r)' = Due(r) + 1
    <3>1. Due(r)' = Len(stream) - (Len(pending[r]) - 1) + 1
      BY <2>4, <2>5 DEF Due
    <3>2. \A l, m \in Nat : l - (m - 1) + 1 = (l - m + 1) + 1
      OBVIOUS
    <3>3. Len(pending[r]) \in Nat
      BY <2>2
    <3> QED  BY <3>1, <3>2, <3>3 DEF Due
  <2>10. Ordered(Held(r) \o <<Due(r)>>)
    BY <2>1, <1>t
  <2>11. CASE Len(queue[r]) < QueueSize
    <3>1. Held(r)' = Append(Held(r), Due(r))
      <4>1. <<joined[r]>> \o received[r] \in Seq(Nat)
        BY <2>2
      <4>2. Held(r)' = <<joined[r]>> \o received[r] \o Append(queue[r], Due(r))
        BY <2>4, <2>11 DEF Held
      <4> QED  BY <4>1, <4>2, <2>2, HeldPut DEF Held
    <3>2. Ordered(Append(Held(r), Due(r)) \o <<Due(r) + 1>>)
      BY <2>2, <2>10, OrderedPut
    <3>3. Ordered(Held(r) \o <<Due(r)>>)'
      BY <3>1, <3>2, <2>9 DEF Ordered
    <3> QED  BY <3>3, <2>7, <2>8, <1>q
  <2>12. CASE ~(Len(queue[r]) < QueueSize)
    <3>1. Held(r)' = Held(r) /\ Len(Held(r)) > QueueSize
      <4>1. queue'[r] = queue[r] /\ received' = received /\ joined' = joined
        BY <2>4, <2>12
      <4>2. Len(Held(r)) > QueueSize
        <5>1. \A m, n, h, z \in Nat : h = 1 + m + n /\ ~(n < z) => h > z
          OBVIOUS
        <5>2. Len(Held(r)) \in Nat /\ QueueSize \in Nat
          BY <2>2, QueueAssumption, LenProperties
        <5> QED  BY <5>1, <5>2, <2>2, <2>12
      <4> QED  BY <4>1, <4>2 DEF Held
    <3>2. Ordered(Held(r) \o <<Due(r) + 1>>)
      BY <2>2, <2>10, <3>1, OrderedPut
    <3>3. Ordered(Held(r) \o <<Due(r)>>)'
      BY <3>1, <3>2, <2>9 DEF Ordered
    <3> QED  BY <3>3, <2>7, <2>8, <1>q
  <2> QED  BY <2>11, <2>12
<1>5. CASE Take(r)
  <2>1. conn[r] = "open" /\ queue[r] # <<>>
    BY <1>5 DEF Take
  <2>2. /\ received[r] \in Seq(Nat) /\ queue[r] \in Seq(Nat) /\ joined[r] \in Nat
        /\ Len(received[r]) \in Nat /\ Len(queue[r]) \in Nat \ {0}
    BY <2>1, HeldTyped, EmptySeq
  <2>3. /\ received'[r] = Append(received[r], Head(queue[r])) /\ queue'[r] = Tail(queue[r])
        /\ UNCHANGED <<stream, subscribers, conn, of, joined, pending>>
    BY <1>5, <1>t DEF Take, ClientTypes
  <2>4. /\ received'[r] \in Seq(Nat) /\ queue'[r] \in Seq(Nat)
        /\ received'[r] \o queue'[r] = received[r] \o queue[r]
        /\ Len(queue'[r]) = Len(queue[r]) - 1
    <3>1. /\ Append(received[r], Head(queue[r])) \in Seq(Nat) /\ Tail(queue[r]) \in Seq(Nat)
          /\ Append(received[r], Head(queue[r])) \o Tail(queue[r]) = received[r] \o queue[r]
      BY <2>1, <2>2, MoveHead, Zenon
    <3>2. Len(Tail(queue[r])) = Len(queue[r]) - 1
      BY <2>1, <2>2, HeadTailProperties
    <3> QED  BY <3>1, <3>2, <2>3
  <2>5. ClientTypes'
    BY <1>5, <2>3, <2>4, <1>t DEF Take, ClientTypes
  <2>6. Held(r)' = Held(r) /\ Due(r)' = Due(r)
    <3>1. Held(r)' = <<joined[r]>> \o Append(received[r], Head(queue[r])) \o Tail(queue[r])
      BY <2>3 DEF Held
    <3>2. Held(r)' = Held(r)
      <4>1. <<joined[r]>> \in Seq(Nat)
        BY <2>2
      <4> QED  BY <4>1, <3>1, <2>1, <2>2, HeldTaken DEF Held
    <3> QED  BY <3>2, <2>3 DEF Due
  <2>7. Registered(r)' /\ Consecutive(r)'
    <3>1. Len(queue'[r]) <= QueueSize
      BY <2>1, <2>2, <2>4, <1>t, QueueAssumption DEF Registered
    <3> QED  BY <2>1, <2>3, <3>1, <1>t DEF Registered, Consecutive
  <2>8. Ordered(Held(r) \o <<Due(r)>>)'
    BY <2>1, <2>6, <1>t DEF Ordered
  <2> QED  BY <2>5, <2>7, <2>8, <1>q
<1>6. CASE Leave(r) \/ LoopCloses(r)
  <2>1. ClientTypes'
    <3>1. \E how \in {"gone", "closed"} : Away(r, how)
      BY <1>6 DEF Leave, LoopCloses
    <3>2. /\ conn' \in [Readers -> {"away", "lock", "connected", "open", "closed", "gone"}]
          /\ of' \in [Readers -> {0, 1}] /\ joined' \in [Readers -> Nat]
      BY <3>1, <1>t DEF Away, ClientTypes
    <3>3. /\ pending' \in [Readers -> Seq(Nat)] /\ queue' \in [Readers -> Seq(Nat)]
          /\ received' \in [Readers -> Seq(Nat)]
      BY <3>1, <1>t DEF Away, ClientTypes
    <3>4. subscribers' \in [1..2 -> SUBSET Readers]
      BY <1>6, <1>t DEF Leave, LoopCloses, Away, ClientTypes
    <3> QED  BY <3>2, <3>3, <3>4 DEF ClientTypes
  <2>2. Registered(r)' /\ conn'[r] # "open"
    BY <1>6, <1>t DEF Leave, LoopCloses, Away, ClientTypes, Registered
  <2> QED  BY <2>1, <2>2, <1>q
<1> QED  BY <1>1, <1>2, <1>3, <1>4, <1>5, <1>6 DEF Reader

\* A published frame is handed to every connected client, after those it still has.
LEMMA PublishKeeps ==
  ASSUME ClientInv, Len(stream) \in Nat, NEW frame, Publish(1, frame), Len(stream') = Len(stream) + 1
  PROVE  ClientInv'
<1>1. /\ pending' = [r \in Readers |-> IF r \in subscribers[1] /\ conn[r] = "open"
                                       THEN Append(pending[r], Len(stream) + 1) ELSE pending[r]]
      /\ subscribers' = [subscribers EXCEPT ![1] = {r \in @ : conn[r] = "open"}]
      /\ UNCHANGED <<conn, of, joined, queue, received>>
  BY DEF Publish
<1>2. ClientTypes'
  <2>1. pending' \in [Readers -> Seq(Nat)]
    BY <1>1 DEF ClientInv, ClientTypes
  <2>2. subscribers' \in [1..2 -> SUBSET Readers]
    BY <1>1 DEF ClientInv, ClientTypes
  <2> QED  BY <1>1, <2>1, <2>2 DEF ClientInv, ClientTypes
<1>3. ASSUME NEW r \in Readers, conn[r] # "open"
      PROVE  Registered(r)' /\ conn'[r] # "open"
  BY <1>1, <1>3 DEF ClientInv, Registered
<1>4. ASSUME NEW r \in Readers, conn[r] = "open"
      PROVE  Registered(r)' /\ Consecutive(r)' /\ Ordered(Held(r) \o <<Due(r)>>)'
  <2>1. /\ pending[r] \in Seq(Nat) /\ Len(pending[r]) \in Nat /\ Len(stream) + 1 \in Nat
        /\ Registered(r) /\ Consecutive(r) /\ Ordered(Held(r) \o <<Due(r)>>)
    <3>1. pending[r] \in Seq(Nat) /\ Len(pending[r]) \in Nat
      BY <1>4, HeldTyped
    <3> QED  BY <3>1, <1>4 DEF ClientInv
  <2>2. pending'[r] = Append(pending[r], Len(stream) + 1)
    BY <1>1, <1>4, <2>1 DEF Registered
  <2>3. /\ Len(pending'[r]) = Len(pending[r]) + 1
        /\ \A k \in 1..Len(pending[r]) : pending'[r][k] = pending[r][k]
        /\ pending'[r][Len(pending[r]) + 1] = Len(stream) + 1
    BY <2>1, <2>2, AppendProperties
  <2>4. r \in subscribers'[1]
    BY <1>1, <1>4, <2>1 DEF Registered, ClientInv, ClientTypes
  <2>5. Registered(r)'
    BY <1>1, <1>4, <2>1, <2>3, <2>4 DEF Registered
  <2>6. ASSUME NEW k \in 1..Len(pending'[r])
        PROVE  pending'[r][k] = Len(stream') - Len(pending'[r]) + k
    <3>1. CASE k <= Len(pending[r])
      <4>1. k \in 1..Len(pending[r]) /\ pending'[r][k] = pending[r][k]
        BY <3>1, <2>1, <2>3
      <4>2. pending[r][k] = Len(stream) - Len(pending[r]) + k
        BY <4>1, <2>1 DEF Consecutive
      <4>3. \A l, m, i \in Nat : l - m + i = (l + 1) - (m + 1) + i
        OBVIOUS
      <4>4. k \in Nat
        BY <4>1, <2>1
      <4>5. pending[r][k] = (Len(stream) + 1) - (Len(pending[r]) + 1) + k
        BY <4>2, <4>3, <4>4, <2>1
      <4> QED  BY <4>1, <4>5, <2>3
    <3>2. CASE k = Len(pending[r]) + 1
      <4>1. \A l, m \in Nat : l + 1 = (l + 1) - (m + 1) + (m + 1)
        OBVIOUS
      <4> QED  BY <3>2, <4>1, <2>1, <2>3
    <3>3. k <= Len(pending[r]) \/ k = Len(pending[r]) + 1
      <4>1. k \in 1..Len(pending[r]) + 1
        BY <2>3
      <4> QED  BY <4>1, <2>1
    <3> QED  BY <3>1, <3>2, <3>3
  <2>7. Held(r)' = Held(r)
    BY <1>1 DEF Held
  <2>8. Due(r)' = Due(r)
    <3>1. \A l, m \in Nat : (l + 1) - (m + 1) + 1 = l - m + 1
      OBVIOUS
    <3> QED  BY <3>1, <2>1, <2>3 DEF Due
  <2> QED  BY <2>1, <2>5, <2>6, <2>7, <2>8 DEF Consecutive, Ordered
<1> QED  BY <1>1, <1>2, <1>3, <1>4 DEF ClientInv

LEMMA ClientStep ==
  ASSUME ThreadInv, FrameInv, ClientInv, [Next]_vars
  PROVE  ClientInv'
<1> USE DEF callers, control, cycling, events, client, vars
<1>n. Len(stream) \in Nat
  BY DEF FrameInv, FrameTypes
<1>r. ASSUME UNCHANGED <<stream, subscribers, client>>
      PROVE  ClientInv'
  <2>1. ClientTypes'
    BY <1>r DEF ClientInv, ClientTypes
  <2>2. ASSUME NEW r \in Readers
        PROVE  /\ Registered(r)'
               /\ (conn[r] = "open" => Consecutive(r) /\ Ordered(Held(r) \o <<Due(r)>>))'
    BY <1>r, <2>2, ClientRest
  <2> QED  BY <2>1, <2>2 DEF ClientInv
<1>1. ASSUME NEW c \in Callers, Caller(c)
      PROVE  ClientInv'
  BY <1>1, <1>r DEF Caller, LookForBroker, MakeBroker, Start, ClearStop, Launch, Stop
<1>2. ASSUME NEW g \in LoopThreads, Loop(g)
      PROVE  ClientInv'
  <2>1. CASE PublishNext(g)
    <3>1. wired = 1
      BY <2>1 DEF PublishNext, ThreadInv, OnlyNewest, Alive
    <3>2. Publish(1, Head(to_publish)) /\ to_publish # <<>>
      BY <2>1, <3>1 DEF PublishNext
    <3>3. stream \in Seq(EventFrames) /\ Head(to_publish) \in EventFrames
      BY <3>2 DEF FrameInv, FrameTypes
    <3>4. Len(stream') = Len(stream) + 1
      BY <3>2, <3>3, AppendProperties DEF Publish
    <3> QED  BY <1>n, <3>2, <3>4, PublishKeeps
  <2> QED  BY <1>2, <2>1, <1>r
           DEF Loop, Test, RunCycle, CycleFails, SendNext, CountCycle, EndCycle, Wake
<1>3. ASSUME NEW r \in Readers, Reader(r)
      PROVE  ClientInv'
  BY <1>3, <1>n, ReaderKeeps
<1> QED  BY <1>1, <1>2, <1>3, <1>r DEF Next

LEMMA ClientHolds == ClientInv => StreamFaithful
BY DEF ClientInv, StreamFaithful, Consecutive, Ordered, Trail, Held, Due

\* A connected client gets every frame since it subscribed, in order, but for those its
\* queue had no room for (events.py:38, 60-79), for any number of clients and any size.
THEOREM StreamIsFaithful == Spec => []StreamFaithful
<1>1. Init => ThreadInv /\ FrameInv /\ ClientInv
  BY ThreadStart, FrameStart, ClientStart
<1>2. ThreadInv /\ FrameInv /\ ClientInv /\ [Next]_vars => ThreadInv' /\ FrameInv' /\ ClientInv'
  BY ThreadStep, FrameStep, ClientStep
<1> QED  BY <1>1, <1>2, ClientHolds, PTL DEF Spec
=============================================================================

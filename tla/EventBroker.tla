----------------------------- MODULE EventBroker -----------------------------
(***************************************************************************)
(* The event broker behind GET /governance/events/stream (engine/events.py *)
(* of src/ai-governance-mvp/src): one process-wide instance, made by the   *)
(* first get_broker(), hands every frame published by the scheduler's      *)
(* thread to the event loops of its subscribers, where a callback puts it  *)
(* into a bounded queue that the subscriber's generator reads.             *)
(*                                                                         *)
(* publish, subscribe and the end of a subscription hold the broker's lock *)
(* while they read or write _subscribers: each is one step.                *)
(***************************************************************************)
EXTENDS Naturals, Sequences

CONSTANTS Readers,          \* clients of the stream
          QueueSize         \* _QUEUE_MAXSIZE

ASSUME QueueAssumption == QueueSize \in Nat \ {0}

VARIABLES
  broker,                   \* _broker: the instance get_broker returns, 0 for None
  instances,                \* GovernanceEventBrokers made
  stream,                   \* frames published, through any instance
  subscribers,              \* per instance: _subscribers
  conn,                     \* per client: "away", "lock", "connected", "open", "closed" or "gone"
  of,                       \* per client: the instance it has
  joined,                   \* per client: how many frames were published before it subscribed
  pending,                  \* per client: frames handed to its loop, callbacks not run yet
  queue,                    \* per client: its asyncio.Queue
  received                  \* per client: frames it was sent

brokers == <<broker, instances>>
client  == <<conn, of, joined, pending, queue, received>>
events  == <<brokers, stream, subscribers, client>>

BrokerInit == /\ broker = 0 /\ instances = 0
              /\ stream = <<>>
              /\ subscribers = [b \in 1..2 |-> {}]
              /\ conn = [r \in Readers |-> "away"]
              /\ of = [r \in Readers |-> 0]
              /\ joined = [r \in Readers |-> 0]
              /\ pending = [r \in Readers |-> <<>>]
              /\ queue = [r \in Readers |-> <<>>]
              /\ received = [r \in Readers |-> <<>>]

\* get_broker: the first look is taken without the lock ...
Known == broker # 0

\* Mistake to detect: no second look once the lock is held.
BugCreateOnce == /\ instances' = instances + 1
                 /\ broker' = instances + 1

\* ... and the instance is created with the lock, unless another thread was first.
CreateOnce == IF broker = 0 THEN instances' = instances + 1 /\ broker' = instances + 1
                            ELSE UNCHANGED brokers

\* A frame is known by its number in the stream.  A subscriber whose loop is closed is
\* found out, and removed.
Publish(b, frame) ==
  /\ stream' = Append(stream, frame)
  /\ pending' = [r \in Readers |-> IF r \in subscribers[b] /\ conn[r] = "open"
                                   THEN Append(pending[r], Len(stream) + 1) ELSE pending[r]]
  /\ subscribers' = [subscribers EXCEPT ![b] = {r \in @ : conn[r] = "open"}]
  /\ UNCHANGED <<brokers, conn, of, joined, queue, received>>

\* GET /governance/events/stream.
Connect(r) == /\ conn[r] = "away"
              /\ of' = [of EXCEPT ![r] = broker]
              /\ conn' = [conn EXCEPT ![r] = IF Known THEN "connected" ELSE "lock"]
              /\ UNCHANGED <<brokers, stream, subscribers, joined, pending, queue, received>>

GetBroker(r) == /\ conn[r] = "lock"
                /\ CreateOnce
                /\ of' = [of EXCEPT ![r] = broker']
                /\ conn' = [conn EXCEPT ![r] = "connected"]
                /\ UNCHANGED <<stream, subscribers, joined, pending, queue, received>>

Subscribe(r) == /\ conn[r] = "connected"
                /\ subscribers' = [subscribers EXCEPT ![of[r]] = @ \cup {r}]
                /\ joined' = [joined EXCEPT ![r] = Len(stream)]
                /\ conn' = [conn EXCEPT ![r] = "open"]
                /\ UNCHANGED <<brokers, stream, of, pending, queue, received>>

\* Mistake to detect: a full queue loses its oldest frame, as events.py:29 says.
BugPut(r) == /\ conn[r] = "open"
             /\ pending[r] # <<>>
             /\ LET q == Append(queue[r], Head(pending[r])) IN
                queue' = [queue EXCEPT ![r] = IF Len(q) > QueueSize THEN Tail(q) ELSE q]
             /\ pending' = [pending EXCEPT ![r] = Tail(@)]
             /\ UNCHANGED <<brokers, stream, subscribers, conn, of, joined, received>>

\* The callback put_nowait on the subscriber's loop: QueueFull drops the new frame.
Put(r) == /\ conn[r] = "open"
          /\ pending[r] # <<>>
          /\ queue' = [queue EXCEPT ![r] = IF Len(@) < QueueSize
                                           THEN Append(@, Head(pending[r])) ELSE @]
          /\ pending' = [pending EXCEPT ![r] = Tail(@)]
          /\ UNCHANGED <<brokers, stream, subscribers, conn, of, joined, received>>

\* Mistake to detect: the frame is lost if wait_for times out when it arrives.
BugTake(r) == /\ conn[r] = "open"
              /\ queue[r] # <<>>
              /\ \/ received' = [received EXCEPT ![r] = Append(@, Head(queue[r]))]
                 \/ UNCHANGED received
              /\ queue' = [queue EXCEPT ![r] = Tail(@)]
              /\ UNCHANGED <<brokers, stream, subscribers, conn, of, joined, pending>>

\* The generator yields a frame.  A keep-alive comment changes nothing.
Take(r) == /\ conn[r] = "open"
           /\ queue[r] # <<>>
           /\ received' = [received EXCEPT ![r] = Append(@, Head(queue[r]))]
           /\ queue' = [queue EXCEPT ![r] = Tail(@)]
           /\ UNCHANGED <<brokers, stream, subscribers, conn, of, joined, pending>>

\* A client that is away for good, and what it and its loop held.
Away(r, how) == /\ conn[r] = "open"
                /\ conn' = [conn EXCEPT ![r] = how]
                /\ pending' = [pending EXCEPT ![r] = <<>>]
                /\ queue' = [queue EXCEPT ![r] = <<>>]
                /\ received' = [received EXCEPT ![r] = <<>>]
                /\ joined' = [joined EXCEPT ![r] = 0]
                /\ UNCHANGED <<brokers, stream, of>>

\* The generator is closed: it deregisters.
Leave(r) == /\ Away(r, "gone")
            /\ subscribers' = [subscribers EXCEPT ![of[r]] = @ \ {r}]

\* The client's event loop is closed without the generator's clean-up.
LoopCloses(r) == /\ Away(r, "closed")
                 /\ UNCHANGED subscribers

Reader(r) == \/ Connect(r) \/ GetBroker(r) \/ Subscribe(r) \/ Put(r) \/ Take(r)
             \/ Leave(r) \/ LoopCloses(r)

----------------------------------------------------------------------------
\* Positions of the frames a client has or can still read, from the last frame before it
\* subscribed to the next one its loop will put.
Trail(r) == <<joined[r]>> \o received[r] \o queue[r] \o <<Len(stream) - Len(pending[r]) + 1>>

\* A connected client gets every frame published since it subscribed, in order; frames
\* are missing only after as many as its queue holds (events.py:38: "new events are
\* silently dropped for a lagging subscriber").
StreamFaithful ==
  \A r \in Readers : conn[r] = "open" =>
    /\ \A k \in 1..Len(pending[r]) : pending[r][k] = Len(stream) - Len(pending[r]) + k
    /\ \A k \in 1..Len(Trail(r)) - 1 :
         /\ Trail(r)[k] < Trail(r)[k + 1]
         /\ Trail(r)[k + 1] > Trail(r)[k] + 1 => k > QueueSize
=============================================================================

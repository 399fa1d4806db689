------------------------------ MODULE Webhooks ------------------------------
(***************************************************************************)
(* The webhook dispatcher (engine/webhooks.py of                           *)
(* src/ai-governance-mvp/src), as the scheduler's thread drives it: each   *)
(* notice goes to the configured webhooks one after the other, and each    *)
(* POST is retried.  A POST that timed out may be handled by the receiver  *)
(* later, or never.                                                        *)
(***************************************************************************)
EXTENDS Naturals, Sequences

CONSTANTS Hooks,            \* the WebhookConfigs, in order
          Notices,          \* alerts and rollback events: [cycle, item, severity]
          MaxFailures       \* bound on the POSTs that fail

ASSUME HookAssumption ==
  /\ Hooks \in Seq([min_severity : {"info", "warning", "critical"}, retry_attempts : Nat \ {0}])
  /\ Hooks # <<>>             \* an empty list: nothing is ever posted
  /\ MaxFailures \in Nat

VARIABLES
  to_send,                  \* notices of the cycle still to dispatch
  hook, attempt,            \* which webhook is next, and the attempt of _send
  handled,                  \* per webhook and notice: how often the receiver handled it
  flying,                   \* per webhook and notice: timed-out POSTs still on their way
  tries,                    \* per webhook and notice: POSTs made
  result,                   \* per webhook and notice: what _send returned
  failures

sending  == <<to_send, hook, attempt>>
delivery == <<handled, flying, tries, result, failures>>
webhooks == <<sending, delivery>>

Pairs == (1..Len(Hooks)) \X Notices

WebhooksInit == /\ to_send = <<>> /\ hook = 1 /\ attempt = 1
                /\ handled = [p \in Pairs |-> 0]
                /\ flying = [p \in Pairs |-> 0]
                /\ tries = [p \in Pairs |-> 0]
                /\ result = [p \in Pairs |-> "none"]
                /\ failures = 0

\* dispatch_alert filters by severity; dispatch_rollback passes every filter.
Rank == [info |-> 0, warning |-> 1, critical |-> 2, rollback |-> 2]
Matches(h, notice) == Rank[notice.severity] >= Rank[Hooks[h].min_severity]

Pair == <<hook, Head(to_send)>>

\* dispatch_alert and dispatch_rollback go on to the next webhook, and the scheduler to
\* the next notice.
NextHook == /\ attempt' = 1
            /\ IF hook < Len(Hooks)
               THEN hook' = hook + 1 /\ UNCHANGED to_send
               ELSE hook' = 1 /\ to_send' = Tail(to_send)

SkipHook == /\ to_send # <<>>
            /\ ~Matches(hook, Head(to_send))
            /\ NextHook
            /\ UNCHANGED delivery

Posts == /\ to_send # <<>>
         /\ Matches(hook, Head(to_send))
         /\ tries' = [tries EXCEPT ![Pair] = @ + 1]

\* A 2xx answer.
Accepted == /\ Posts
            /\ handled' = [handled EXCEPT ![Pair] = @ + 1]
            /\ result' = [result EXCEPT ![Pair] = "sent"]
            /\ NextHook
            /\ UNCHANGED <<flying, failures>>

\* Mistake to detect: range(1, retry_attempts) is one attempt short.
BugRetryOrGiveUp == IF attempt + 1 < Hooks[hook].retry_attempts
                    THEN attempt' = attempt + 1 /\ UNCHANGED <<to_send, hook, result>>
                    ELSE result' = [result EXCEPT ![Pair] = "failed"] /\ NextHook

RetryOrGiveUp == IF attempt < Hooks[hook].retry_attempts
                 THEN attempt' = attempt + 1 /\ UNCHANGED <<to_send, hook, result>>
                 ELSE result' = [result EXCEPT ![Pair] = "failed"] /\ NextHook

\* Another answer, HTTPError or URLError: not handled.
Rejected == /\ Posts
            /\ failures < MaxFailures
            /\ failures' = failures + 1
            /\ RetryOrGiveUp
            /\ UNCHANGED <<handled, flying>>

TimedOut == /\ Posts
            /\ failures < MaxFailures
            /\ failures' = failures + 1
            /\ flying' = [flying EXCEPT ![Pair] = @ + 1]
            /\ RetryOrGiveUp
            /\ UNCHANGED handled

Dispatch == SkipHook \/ Accepted \/ Rejected \/ TimedOut

\* The receiver handles a POST its sender has given up on.
HandledLate == \E p \in Pairs :
                 /\ flying[p] > 0
                 /\ flying' = [flying EXCEPT ![p] = @ - 1]
                 /\ handled' = [handled EXCEPT ![p] = @ + 1]
                 /\ UNCHANGED <<sending, tries, result, failures>>

----------------------------------------------------------------------------
\* What _send returned is true of the receiver, which may handle a notice once for each
\* attempt but never more often: True if it did, False only after all attempts.
SendIsTrue ==
  \A p \in Pairs :
    /\ handled[p] + flying[p] <= tries[p]
    /\ tries[p] <= Hooks[p[1]].retry_attempts
    /\ result[p] = "sent"   => handled[p] >= 1
    /\ result[p] = "failed" => tries[p] = Hooks[p[1]].retry_attempts
    /\ tries[p] > 0         => Matches(p[1], p[2])
=============================================================================

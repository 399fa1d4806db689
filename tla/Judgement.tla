----------------------------- MODULE Judgement -----------------------------
(***************************************************************************)
(* What the policy stage promises its caller: given results and a policy,  *)
(* one step from "pending" to the verdict Outcome defines, and never       *)
(* another one.  PolicyDecision implements it.                             *)
(***************************************************************************)
EXTENDS PolicyRules

CONSTANT Cases
VARIABLES results, policy, status

jvars == <<results, policy, status>>

Init == /\ \E c \in Cases : results = c[1] /\ policy = c[2]
        /\ status = "pending"

Decide == /\ status = "pending"
          /\ status' = Outcome(results, policy)
          /\ UNCHANGED <<results, policy>>

Spec == Init /\ [][Decide]_jvars
=============================================================================

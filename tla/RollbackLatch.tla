---------------------------- MODULE RollbackLatch ----------------------------
(***************************************************************************)
(* What the rollback gate promises (engine/rollback.py): a latch.  It is   *)
(* tripped by a new event only while no event is active, and stays tripped *)
(* by that event until an operator resolves it, once and for all.          *)
(***************************************************************************)
CONSTANT Events

VARIABLES active,           \* the events that hold the gate
          resolved          \* the events that were resolved

gate == <<active, resolved>>

Init == active = {} /\ resolved = {}

Trip(e) == /\ active = {}
           /\ e \notin resolved
           /\ active' = {e}
           /\ UNCHANGED resolved

Resolve(e) == /\ e \in active
              /\ active' = active \ {e}
              /\ resolved' = resolved \cup {e}

Next == \E e \in Events : Trip(e) \/ Resolve(e)

Spec == Init /\ [][Next]_gate
=============================================================================

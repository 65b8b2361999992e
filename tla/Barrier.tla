------------------------------- MODULE Barrier -------------------------------
(***************************************************************************)
(* What a fan-out with its join promises: the legs end independently, the  *)
(* barrier closes once, after the last of them, with the outcome the       *)
(* policy gives to the final states, and a clear barrier lets the run go   *)
(* on exactly once.                                                        *)
(***************************************************************************)
EXTENDS Naturals

CONSTANTS
  Leg,
  Clearing   \* the sets of legs that clear the barrier when they end "done"

VARIABLES
  state,    \* [Leg -> {"review", "done", "failed"}]
  outcome,  \* "none", "clear" or "gated"
  entered   \* how often what follows the barrier has been entered

vars == <<state, outcome, entered>>

Init ==
  /\ state = [l \in Leg |-> "review"]
  /\ outcome = "none"
  /\ entered = 0

End(l, result) ==
  /\ state[l] = "review"
  /\ state' = [state EXCEPT ![l] = result]
  /\ UNCHANGED <<outcome, entered>>

Clear == {l \in Leg : state[l] = "done"} \in Clearing

Close ==
  /\ outcome = "none"
  /\ \A l \in Leg : state[l] # "review"
  /\ \/ Clear /\ outcome' = "clear"
     \/ ~Clear /\ outcome' = "gated"
  /\ UNCHANGED <<state, entered>>

Enter ==
  /\ outcome = "clear"
  /\ entered = 0
  /\ entered' = 1
  /\ UNCHANGED <<state, outcome>>

Next ==
  \/ \E l \in Leg, result \in {"done", "failed"} : End(l, result)
  \/ Close
  \/ Enter

Spec == Init /\ [][Next]_vars
=============================================================================

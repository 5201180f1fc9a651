-------------------------- MODULE IsolatedVerdicts --------------------------
(***************************************************************************)
(* What a counterfactual pass promises: one step that gives each splice    *)
(* the verdict of the world holding it alone, or no verdict at all because *)
(* the checker stopped under the pass.  No group and no neighbour appears. *)
(***************************************************************************)
EXTENDS Worlds

VARIABLES checker, live, verdict

vars == <<checker, live, verdict>>

Init ==
  /\ checker \in Checker
  /\ live \in Batches
  /\ verdict = [state |-> "pending", vetoed |-> {}]

Judge ==
  /\ verdict.state = "pending"
  /\ verdict' = [state |-> "given", vetoed |-> {p \in live : ErrsAlone(checker, p)}]
  /\ UNCHANGED <<checker, live>>

Lose ==
  /\ verdict.state = "pending"
  /\ verdict' = [state |-> "lost", vetoed |-> {}]
  /\ UNCHANGED <<checker, live>>

Next == Judge \/ Lose

Spec == Init /\ [][Next]_vars
=============================================================================

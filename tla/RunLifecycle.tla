---------------------------- MODULE RunLifecycle ----------------------------
(***************************************************************************)
(* What an agent run promises to whoever watches it, whatever processes    *)
(* carry it out.  A run is started, gets an outcome, and the outcome is    *)
(* announced.  An outcome may still be demoted to FAILED (by an exception  *)
(* of execute after finishRun) as long as it has not been announced; once  *)
(* it is, or once it is FAILED, it is final.                               *)
(***************************************************************************)
CONSTANT Runs

Outcomes == {"COMPLETED", "FAILED", "CANCELLED"}

VARIABLES
  outcome,    \* the status of each run, "none" before it exists
  announced   \* the runs whose outcome has been published

vars == <<outcome, announced>>

Init ==
  /\ outcome = [r \in Runs |-> "none"]
  /\ announced = {}

Start(r) ==
  /\ outcome[r] = "none"
  /\ outcome' = [outcome EXCEPT ![r] = "RUNNING"]
  /\ UNCHANGED announced

Settle(r, o) ==
  /\ outcome[r] = "RUNNING"
  /\ outcome' = [outcome EXCEPT ![r] = o]
  /\ UNCHANGED announced

Demote(r) ==
  /\ outcome[r] \in {"COMPLETED", "CANCELLED"}
  /\ r \notin announced
  /\ outcome' = [outcome EXCEPT ![r] = "FAILED"]
  /\ UNCHANGED announced

Announce(r) ==
  /\ outcome[r] \in Outcomes
  /\ announced' = announced \cup {r}
  /\ UNCHANGED outcome

Next ==
  \E r \in Runs :
    \/ Start(r)
    \/ \E o \in Outcomes : Settle(r, o)
    \/ Demote(r)
    \/ Announce(r)

Spec == Init /\ [][Next]_vars
=============================================================================

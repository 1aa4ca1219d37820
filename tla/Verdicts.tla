------------------------------- MODULE Verdicts -------------------------------
(***************************************************************************)
(* What the backend promises about the runs it hands to the checker: each  *)
(* run has one register that is written once.  A run that was seen to      *)
(* start can only end as a run; "ran", "not_run" and "unknown" are final.  *)
(***************************************************************************)
CONSTANT Runs

VARIABLE verdict

Init == verdict = [r \in Runs |-> "open"]

Begin(r) ==
  /\ verdict[r] = "open"
  /\ verdict' = [verdict EXCEPT ![r] = "started"]

Conclude(r, v) ==
  /\ \/ verdict[r] = "open"
     \/ verdict[r] = "started" /\ v = "ran"
  /\ verdict' = [verdict EXCEPT ![r] = v]

Next == \E r \in Runs : Begin(r) \/ \E v \in {"ran", "not_run", "unknown"} : Conclude(r, v)

Spec == Init /\ [][Next]_verdict
=============================================================================

----------------------------- MODULE JobPromise -----------------------------
(***************************************************************************)
(* What polling a skin-artwork job may show its owner, on whichever        *)
(* replica the polls land (GET /v1/skins/jobs/{job}, "SkinJob" and         *)
(* SkinJobStaleAfter in internal/account/skin_jobs.go).  Any number of     *)
(* jobs may move at once: the clock moves them together.                   *)
(***************************************************************************)
CONSTANT Jobs

VARIABLE status

\* An accepted job can be seen failed, or gone, from the start: creating it
\* may have waited for longer than a stale job or a draft is kept.
Moves ==
  [none      |-> {"none", "running", "failed", "notfound"},
   running   |-> {"running", "succeeded", "failed", "notfound"},
   succeeded |-> {"succeeded", "notfound"},
   failed    |-> {"failed", "notfound"},
   notfound  |-> {"notfound"}]

Init == status = [j \in Jobs |-> "none"]

Next ==
  /\ DOMAIN status' = Jobs
  /\ \A j \in Jobs : status'[j] \in Moves[status[j]]

Spec == Init /\ [][Next]_status
=============================================================================

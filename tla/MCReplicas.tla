----------------------------- MODULE MCReplicas -----------------------------
(***************************************************************************)
(* What replicas share through the database, in one run: the rows of the   *)
(* skin jobs, and the lock and verdicts of the status probe.  The two      *)
(* share no state, so each behaviour is one of either component, chosen at *)
(* the start, with the other at rest.  Probers and Replicas are the same.  *)
(***************************************************************************)
EXTENDS SkinJobs, StatusProbe, TLC

VARIABLE running  \* the component

replicaVars == <<running, vars, probeVars>>

ReplicaInit ==
  /\ running \in {"jobs", "probes"}
  /\ Init /\ ProbeInit
  /\ running # "jobs" => ~outages
  /\ running # "probes" => ~faults

Jobbing == running = "jobs" /\ Next /\ UNCHANGED <<running, probeVars>>

Probing == running = "probes" /\ ProbeNext /\ UNCHANGED <<running, vars>>

ReplicaNext == Jobbing \/ Probing

ReplicaSpec == ReplicaInit /\ [][ReplicaNext]_replicaVars

Symmetry ==
  Permutations(Jobs) \cup Permutations(Replicas) \cup Permutations(Owners)
=============================================================================

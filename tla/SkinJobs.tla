------------------------------ MODULE SkinJobs ------------------------------
(***************************************************************************)
(* Skin-artwork jobs shared by the replicas of the service through the     *)
(* table skin_jobs: internal/account/skin_jobs.go (the statements) and     *)
(* internal/server/skin_jobs_shared.go (the worker on a replica).          *)
(*                                                                         *)
(* A job is one row and, on the replica that accepted it, one worker: an   *)
(* upstream call with a heartbeat beside it.  Any replica answers GET and  *)
(* DELETE from the row alone.  Replicas crash or shut down; a statement    *)
(* may fail, and a commit may succeed without its replica learning it.     *)
(*                                                                         *)
(* Time is the database clock in ticks.  now() is the start of the         *)
(* transaction: a CREATE that waited for its lock still uses the time it   *)
(* began at.                                                               *)
(***************************************************************************)
EXTENDS Naturals, FiniteSets

CONSTANTS
  Jobs,      \* job ids (random, never reused)
  Owners,
  Replicas,
  None,      \* no owner, no replica
  Total,     \* skinJobCap: jobs in the whole deployment
  PerOwner,  \* skinJobsPerOwner
  Stale,     \* SkinJobStaleAfter
  TTL,       \* skinJobTTL
  Timeout,   \* skinJobTimeout
  MaxTime    \* bound on the clock

ASSUME SkinJobsAssumption ==
  /\ None \notin Owners /\ None \notin Replicas
  /\ Total \in Nat /\ PerOwner \in Nat /\ Stale \in Nat /\ TTL \in Nat
  /\ Timeout \in Nat /\ MaxTime \in Nat

VARIABLES
  now,      \* the database clock
  row,      \* skin_jobs, by id
  work,     \* by job id: the request and worker that serve it
  replica,  \* "up", "closing" (Close waits for the workers) or "gone"
  outages   \* whether statements may fail in this behaviour; never changes

vars == <<now, row, work, replica, outages>>

Row == [state: {"none", "running", "succeeded", "failed"},
        owner: Owners \cup {None}, cancelled: BOOLEAN, beat: Nat, expires: Nat]

\* began: when the creating transaction started; started: when the worker was;
\* told: the client got its 202 and knows the id.
Phases == {"idle", "creating", "inserted", "running", "finishing", "purging",
           "stopped", "dead"}

Work == [phase: Phases, owner: Owners \cup {None},
         host: Replicas \cup {None}, began: Nat, started: Nat,
         stop: BOOLEAN, result: {"none", "succeeded", "failed"}, told: BOOLEAN]

\* Every variable has its type, and a job is registered on a replica exactly
\* while a request or a worker of that replica serves it (s.skinJobs).
TypeOK ==
  /\ now \in Nat
  /\ row \in [Jobs -> Row]
  /\ work \in [Jobs -> Work]
  /\ \A j \in Jobs :
       work[j].host = None <=> work[j].phase \in {"idle", "stopped", "dead"}
  /\ replica \in [Replicas -> {"up", "closing", "gone"}]
  /\ outages \in BOOLEAN

NoRow == [state |-> "none", owner |-> None,
          cancelled |-> FALSE, beat |-> 0, expires |-> 0]

Init ==
  /\ now = 0
  /\ row = [j \in Jobs |-> NoRow]
  /\ work = [j \in Jobs |->
       [phase |-> "idle", owner |-> None, host |-> None, began |-> 0,
        started |-> 0, stop |-> FALSE, result |-> "none", told |-> FALSE]]
  /\ replica = [p \in Replicas |-> "up"]
  /\ outages \in BOOLEAN

----------------------------------------------------------------------------
\* skinJobLive, evaluated in a transaction that began at t.
Live(j, t) == row[j].state = "running" /\ row[j].beat + Stale >= t

Exists(j) == row[j].state # "none"

\* The rows CreateSkinJob drops and counts when its now() is t.
Droppable(j, t) ==
  Exists(j) /\ (row[j].expires <= t \/ (row[j].cancelled /\ ~Live(j, t)))

\* Mutant: a cancelled job frees its place at once.
CountedUncancelled(j, t) ==
  /\ Exists(j) /\ ~Droppable(j, t) /\ ~row[j].cancelled
  /\ row[j].state # "running" \/ Live(j, t)

Counted(j, t) ==
  Exists(j) /\ ~Droppable(j, t) /\ (row[j].state # "running" \/ Live(j, t))

Without(Gone) == [j \in Jobs |-> IF j \in Gone THEN NoRow ELSE row[j]]

Enter(j, phase) == work' = [work EXCEPT ![j].phase = phase]

\* Mutant: the worker does not deregister.
StayRegistered(j, phase) ==
  [work[j] EXCEPT !.phase = phase, !.owner = None, !.began = 0,
                  !.stop = FALSE, !.result = "none"]

\* The request or worker of j is over; what is left is what the client knows.
Leave(j, phase) ==
  [work[j] EXCEPT !.phase = phase, !.owner = None, !.host = None,
                  !.began = 0, !.stop = FALSE, !.result = "none"]

End(j) == work' = [work EXCEPT ![j] = Leave(j, "stopped")]

\* createSharedSkinJob on replica p: s.closed is read, the transaction begins.
BeginCreate(j, o, p) ==
  /\ work[j].phase = "idle"
  /\ replica[p] = "up"
  /\ work' = [work EXCEPT ![j] =
       [@ EXCEPT !.phase = "creating", !.owner = o, !.host = p, !.began = now]]
  /\ UNCHANGED <<now, row, replica, outages>>

Full(counted, own) ==
  Cardinality(counted) >= Total \/ Cardinality(own) >= PerOwner

\* Under the advisory lock: drop dead rows, check the caps, insert, commit.
\* The transaction can fail; or commit while its replica sees an error.
CommitCreate(j) ==
  LET t == work[j].began
      o == work[j].owner
      dropped == {k \in Jobs : Droppable(k, t)}
      counted == {k \in Jobs : Counted(k, t)}
      own == {k \in counted : row[k].owner = o}
  IN
  /\ work[j].phase = "creating"
  /\ IF Full(counted, own)
     THEN End(j) /\ UNCHANGED row
     ELSE /\ row' = [Without(dropped) EXCEPT ![j] =
                       [state |-> "running", owner |-> o, cancelled |-> FALSE,
                        beat |-> t, expires |-> t + TTL]]
          /\ \/ Enter(j, "inserted")
             \/ outages /\ End(j)
  /\ UNCHANGED <<now, replica, outages>>

FailCreate(j) ==
  /\ outages
  /\ work[j].phase = "creating"
  /\ End(j)
  /\ UNCHANGED <<now, row, replica, outages>>

\* Back in the handler, under s.mu: register and start the worker, unless
\* Close has begun; then the row is dropped (if the statement succeeds).
StartWorker(j) ==
  /\ work[j].phase = "inserted"
  /\ replica[work[j].host] = "up"
  /\ work' = [work EXCEPT ![j] =
       [@ EXCEPT !.phase = "running", !.started = now, !.told = TRUE]]
  /\ UNCHANGED <<now, row, replica, outages>>

DropUnstarted(j) ==
  /\ work[j].phase = "inserted"
  /\ replica[work[j].host] = "closing"
  /\ End(j)
  /\ \/ row' = Without({j})
     \/ outages /\ UNCHANGED row
  /\ UNCHANGED <<now, replica, outages>>

----------------------------------------------------------------------------
\* The worker's context is done: cancelled here, its replica is closing, or
\* the 180 seconds are over.
ContextDone(j) ==
  \/ work[j].stop
  \/ replica[work[j].host] = "closing"
  \/ now >= work[j].started + Timeout

\* Mutant: the heartbeat outlives its worker.
BeatingOn(j) == work[j].phase \in {"running", "stopped"}

Beating(j) == work[j].phase = "running" /\ ~ContextDone(j)

\* Mutant: a stale job is refreshed again.
Revivable(j) ==
  row[j].state = "running" /\ ~row[j].cancelled /\ row[j].expires > now

\* SkinJobHeartbeat: refresh, or learn that the job is cancelled, expired or
\* stale and stop.  A statement that fails changes nothing.
Beatable(j) == ~row[j].cancelled /\ row[j].expires > now /\ Live(j, now)

Heartbeat(j) ==
  /\ Beating(j)
  /\ IF Beatable(j)
     THEN /\ row' = [row EXCEPT ![j].beat = now]
          /\ UNCHANGED work
     ELSE /\ work' = [work EXCEPT ![j].stop = TRUE]
          /\ UNCHANGED row
  /\ UNCHANGED <<now, replica, outages>>

\* The upstream call returns; a result that arrives after the context was done
\* counts as cancelled.
UpstreamReturns(j) ==
  /\ work[j].phase = "running"
  /\ \E result \in {"succeeded", "failed"} :
       /\ ContextDone(j) => result = "failed"
       /\ work' = [work EXCEPT ![j] =
            [@ EXCEPT !.phase = "finishing", !.result = result]]
  /\ UNCHANGED <<now, row, replica, outages>>

\* Mutant: the outcome is written in the worker's own, cancelled context.
RecordableInContext(j) ==
  ~row[j].cancelled /\ Live(j, now) /\ ~ContextDone(j)

Recordable(j) == ~row[j].cancelled /\ Live(j, now)

\* FinishSkinJob: record the outcome of a job that is still live; otherwise
\* delete the row if a DELETE cancelled it.
Finish(j) ==
  /\ work[j].phase = "finishing"
  /\ IF Recordable(j)
     THEN /\ row' = [row EXCEPT ![j] =
                       [@ EXCEPT !.state = work[j].result, !.beat = now]]
          /\ End(j)
     ELSE /\ Enter(j, "purging")
          /\ UNCHANGED row
  /\ UNCHANGED <<now, replica, outages>>

Purge(j) ==
  /\ work[j].phase = "purging"
  /\ row' = IF row[j].cancelled THEN Without({j}) ELSE row
  /\ End(j)
  /\ UNCHANGED <<now, replica, outages>>

FailWrite(j) ==
  /\ outages
  /\ work[j].phase \in {"finishing", "purging"}
  /\ End(j)
  /\ UNCHANGED <<now, row, replica, outages>>

----------------------------------------------------------------------------
\* DeleteSkinJob on replica p, for an owner who was given the id.  The row is
\* locked; a worker on this replica is stopped at once.
Delete(j, p) ==
  /\ work[j].told
  /\ replica[p] = "up"
  /\ Exists(j) /\ ~row[j].cancelled /\ row[j].expires > now
  /\ row' = IF Live(j, now) THEN [row EXCEPT ![j].cancelled = TRUE]
                            ELSE Without({j})
  /\ work' = IF work[j].host = p /\ work[j].phase = "running"
             THEN [work EXCEPT ![j].stop = TRUE] ELSE work
  /\ UNCHANGED <<now, replica, outages>>

\* The hourly Prune.
Prune ==
  LET old == {j \in Jobs : Exists(j) /\ row[j].expires < now} IN
  /\ old # {}
  /\ row' = Without(old)
  /\ UNCHANGED <<now, work, replica, outages>>

\* Close: no new workers, lifetime cancelled.  It waits for the workers; a
\* request still creating a job is cut off when the process exits.
BeginClose(p) ==
  /\ replica[p] = "up"
  /\ replica' = [replica EXCEPT ![p] = "closing"]
  /\ UNCHANGED <<now, row, work, outages>>

Exit(p) ==
  /\ replica' = [replica EXCEPT ![p] = "gone"]
  /\ work' = [j \in Jobs |->
       IF work[j].host = p /\ work[j].phase \notin {"idle", "stopped"}
       THEN Leave(j, "dead") ELSE work[j]]
  /\ UNCHANGED <<now, row, outages>>

EndClose(p) ==
  /\ replica[p] = "closing"
  /\ \A j \in Jobs : work[j].host = p =>
       work[j].phase \notin {"running", "finishing", "purging"}
  /\ Exit(p)

\* SIGKILL, OOM, a lost node.  A transaction under way is rolled back.
Crash(p) == replica[p] # "gone" /\ Exit(p)

\* A tick is longer than the writes that end a worker (skinJobWriteTimeout),
\* and the context's timer fires on time: a call is not left running past its
\* timeout.  Creating may wait for its lock and heartbeats may fail for any
\* number of ticks.
Tick ==
  /\ now < MaxTime
  /\ \A j \in Jobs :
       /\ work[j].phase \notin {"inserted", "finishing", "purging"}
       /\ work[j].phase = "running" => now < work[j].started + Timeout
  /\ now' = now + 1
  /\ UNCHANGED <<row, work, replica, outages>>

Worker(j) ==
  \/ CommitCreate(j) \/ StartWorker(j) \/ DropUnstarted(j)
  \/ UpstreamReturns(j) \/ Finish(j) \/ Purge(j)

Next ==
  \/ \E j \in Jobs : \/ Worker(j) \/ Heartbeat(j)
                     \/ FailCreate(j) \/ FailWrite(j)
                     \/ \E o \in Owners, p \in Replicas : BeginCreate(j, o, p)
                     \/ \E p \in Replicas : Delete(j, p)
  \/ \E p \in Replicas : BeginClose(p) \/ EndClose(p) \/ Crash(p)
  \/ Prune
  \/ Tick

Spec == Init /\ [][Next]_vars

----------------------------------------------------------------------------
\* What GET answers the owner of j on any replica (GetSkinJob).
View(j) ==
  CASE ~Exists(j) \/ row[j].cancelled \/ row[j].expires <= now -> "notfound"
    [] Exists(j) /\ ~row[j].cancelled /\ row[j].expires > now ->
         IF row[j].state = "running" /\ ~Live(j, now) THEN "failed"
         ELSE row[j].state

\* The caps hold over all replicas at every moment, not only when a job is
\* created: finished drafts and live jobs, cancelled ones included.
CapsHold ==
  LET held == {j \in Jobs :
                 Exists(j) /\ (row[j].state # "running" \/ Live(j, now))}
  IN /\ Cardinality(held) <= Total
     /\ \A o \in Owners :
          Cardinality({j \in held : row[j].owner = o}) <= PerOwner

\* A client told of a job stops seeing it run by a fixed time, whatever
\* crashed or failed: the call's timeout and one stale period.
SettledByDeadline ==
  \A j \in Jobs :
    work[j].told /\ now > work[j].started + Timeout + Stale =>
      View(j) # "running"

\* A worker that ended, by a graceful shutdown too, leaves the row of an
\* accepted job neither running nor cancelled, while statements succeed.  (With
\* outages the job goes stale instead.)
EndedWorkerSettles ==
  \A j \in Jobs :
    work[j].told /\ work[j].phase = "stopped" /\ ~outages =>
      View(j) # "running" /\ ~row[j].cancelled

\* A job is settled when its time is over, whoever died, and a worker that ended
\* leaves nothing running or cancelled while statements succeed, nor an entry in
\* its replica (CreateSkinJob, runSharedSkinJob, FinishSkinJob).
JobsSettle == TypeOK /\ SettledByDeadline /\ EndedWorkerSettles

\* What the polls of the owner of each job show.
statusBar == [j \in Jobs |-> IF work[j].told THEN View(j) ELSE "none"]

\* What a client may rely on.
Promise == INSTANCE JobPromise WITH status <- statusBar

\* Rows, heartbeats and workers implement it: a failed or finished job never
\* turns into anything else, a deleted one never comes back.
KeepsPromise == Promise!Spec
=============================================================================

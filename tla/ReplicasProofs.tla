---------------------------- MODULE ReplicasProofs ----------------------------
(***************************************************************************)
(* What replicas that share a database promise: the skin-artwork jobs, for *)
(* any number of jobs, owners and replicas, any caps and any timeouts,     *)
(* with crashes, shutdowns and failing statements; then the status probe,  *)
(* for any number of replicas, any thresholds, any lookback and any bound  *)
(* on time.  The two share no state, and no lemma.                         *)
(*                                                                         *)
(* MinutesCountOnce needs to know what a judgement carries from what it    *)
(* read to what it stores (ProbeInv), and that every shorter streak of bad *)
(* verdicts is there as well as the stored one (Streaks).  That an         *)
(* administrator is not overridden while nothing fails needs CalmInv: then *)
(* one replica judges a minute, and the incident of a bad streak is known  *)
(* to the newest verdict or to the judgement about to store it.            *)
(***************************************************************************)
EXTENDS SkinJobs, StatusProbe, FiniteSetTheorems, WellFoundedInduction, TLAPS

\* What a job's row and its worker know of each other: times run behind the
\* clock, an unfinished request was not told of, a worker does not outlive its
\* timeout, and one that is past its last write left nothing to do.
JobInv(j) ==
  /\ work[j].began <= now /\ work[j].started <= now
  /\ work[j].phase \in {"idle", "creating", "inserted"} => ~work[j].told
  /\ work[j].phase = "inserted" =>
       row[j].state \in {"none", "running"} /\ row[j].beat <= work[j].began
  /\ work[j].phase = "finishing" => work[j].result \in {"succeeded", "failed"}
  /\ work[j].phase = "purging" => row[j].cancelled \/ ~Live(j, now)
  /\ row[j].state = "running" /\ work[j].told =>
       row[j].beat <= work[j].started + Timeout
  /\ work[j].phase = "stopped" /\ work[j].told /\ ~outages =>
       ~row[j].cancelled /\ ~Live(j, now)

\* The rows that count against the caps now.
Held == {j \in Jobs : Exists(j) /\ (row[j].state # "running" \/ Live(j, now))}

Rows == {j \in Jobs : Exists(j)}

IInv ==
  /\ TypeOK
  /\ \A j \in Jobs : JobInv(j)
  /\ IsFiniteSet(Rows) /\ CapsHold

----------------------------------------------------------------------------
LEMMA NoRowType == NoRow \in Row
BY DEF NoRow, Row

\* A worker that is over is well-formed and no longer registered.
LEMMA LeaveType ==
  ASSUME TypeOK, NEW j \in Jobs, NEW p \in {"stopped", "dead"}
  PROVE  /\ Leave(j, p) \in Work
         /\ Leave(j, p).phase = p /\ Leave(j, p).host = None
         /\ Leave(j, p).told = work[j].told /\ Leave(j, p).started = work[j].started
         /\ Leave(j, p).began = 0
BY DEF TypeOK, Work, Phases, Leave

LEMMA EndType ==
  ASSUME TypeOK, NEW j \in Jobs, End(j)
  PROVE  /\ work' \in [Jobs -> Work]
         /\ \A k \in Jobs :
              work'[k].host = None <=> work'[k].phase \in {"idle", "stopped", "dead"}
         /\ \A k \in Jobs \ {j} : work'[k] = work[k]
         /\ work'[j] = Leave(j, "stopped")
<1>1. Leave(j, "stopped") \in Work /\ Leave(j, "stopped").phase = "stopped"
      /\ Leave(j, "stopped").host = None
  BY LeaveType
<1> QED
  BY <1>1 DEF TypeOK, End

LEMMA EnterType ==
  ASSUME TypeOK, NEW j \in Jobs, NEW p \in {"inserted", "purging"}, Enter(j, p),
         work[j].phase \in {"creating", "finishing"}
  PROVE  /\ work' \in [Jobs -> Work]
         /\ \A k \in Jobs :
              work'[k].host = None <=> work'[k].phase \in {"idle", "stopped", "dead"}
         /\ \A k \in Jobs \ {j} : work'[k] = work[k]
         /\ work'[j] = [work[j] EXCEPT !.phase = p]
<1>1. [work[j] EXCEPT !.phase = p] \in Work
  BY DEF TypeOK, Work, Phases
<1>2. work' = [work EXCEPT ![j] = [work[j] EXCEPT !.phase = p]]
  BY DEF TypeOK, Enter
<1> QED
  BY <1>1, <1>2 DEF TypeOK, Work

LEMMA WithoutType ==
  ASSUME TypeOK, NEW Gone
  PROVE  Without(Gone) \in [Jobs -> Row]
BY NoRowType DEF TypeOK, Without

LEMMA InitTypeOK == Init => TypeOK
BY SkinJobsAssumption, NoRowType DEF Init, TypeOK, Work, Phases

LEMMA TypeStep == TypeOK /\ [Next]_vars => TypeOK'
<1> SUFFICES ASSUME TypeOK, [Next]_vars PROVE TypeOK'
  OBVIOUS
<1> USE SkinJobsAssumption
<1>t. /\ now \in Nat /\ row \in [Jobs -> Row] /\ work \in [Jobs -> Work]
      /\ replica \in [Replicas -> {"up", "closing", "gone"}] /\ outages \in BOOLEAN
      /\ \A j \in Jobs : work[j] \in Work /\ row[j] \in Row
  BY DEF TypeOK
<1>1. ASSUME NEW j \in Jobs, NEW o \in Owners, NEW p \in Replicas, BeginCreate(j, o, p)
      PROVE  TypeOK'
  <2> DEFINE w == [work[j] EXCEPT !.phase = "creating", !.owner = o, !.host = p,
                                  !.began = now]
  <2>1. w \in Work /\ w.phase = "creating" /\ w.host # None
    BY <1>t DEF Work, Phases
  <2>2. work' = [work EXCEPT ![j] = w]
    BY <1>1 DEF BeginCreate
  <2> HIDE DEF w
  <2>3. work' \in [Jobs -> Work]
    BY <1>t, <2>1, <2>2
  <2> QED
    BY <1>t, <1>1, <2>1, <2>2, <2>3 DEF BeginCreate, TypeOK
<1>2. ASSUME NEW j \in Jobs, CommitCreate(j) PROVE TypeOK'
  <2> DEFINE new == [state |-> "running", owner |-> work[j].owner, cancelled |-> FALSE,
                     beat |-> work[j].began, expires |-> work[j].began + TTL]
             dropped == {k \in Jobs : Droppable(k, work[j].began)}
  <2>1. new \in Row
    BY <1>t DEF Work, Row
  <2>2. Without(dropped) \in [Jobs -> Row]
    BY WithoutType
  <2>3. row' = row \/ row' = [Without(dropped) EXCEPT ![j] = new]
    BY <1>2 DEF CommitCreate
  <2>4. row' \in [Jobs -> Row]
    BY <1>t, <2>1, <2>2, <2>3
  <2>5. End(j) \/ Enter(j, "inserted")
    BY <1>2 DEF CommitCreate
  <2>6. work[j].phase = "creating" /\ UNCHANGED <<now, replica, outages>>
    BY <1>2 DEF CommitCreate
  <2> QED
    BY <1>t, <2>4, <2>5, <2>6, EndType, EnterType DEF TypeOK
<1>3. ASSUME NEW j \in Jobs, FailCreate(j) \/ FailWrite(j) PROVE TypeOK'
  BY <1>t, <1>3, EndType DEF FailCreate, FailWrite, TypeOK
<1>4. ASSUME NEW j \in Jobs, StartWorker(j) PROVE TypeOK'
  <2> DEFINE w == [work[j] EXCEPT !.phase = "running", !.started = now, !.told = TRUE]
  <2>1. w \in Work /\ w.phase = "running" /\ w.host = work[j].host
    BY <1>t DEF Work, Phases
  <2>2. work' = [work EXCEPT ![j] = w] /\ work[j].phase = "inserted"
    BY <1>4 DEF StartWorker
  <2> HIDE DEF w
  <2>3. work' \in [Jobs -> Work]
    BY <1>t, <2>1, <2>2
  <2> QED
    BY <1>t, <1>4, <2>1, <2>2, <2>3 DEF StartWorker, TypeOK
<1>5. ASSUME NEW j \in Jobs, DropUnstarted(j) PROVE TypeOK'
  BY <1>t, <1>5, EndType, WithoutType DEF DropUnstarted, TypeOK
<1>6. ASSUME NEW j \in Jobs, Heartbeat(j) PROVE TypeOK'
  <2>1. CASE row' = [row EXCEPT ![j].beat = now] /\ work' = work
    BY <1>t, <1>6, <2>1 DEF Heartbeat, TypeOK, Row
  <2>2. CASE work' = [work EXCEPT ![j].stop = TRUE] /\ row' = row
    BY <1>t, <1>6, <2>2 DEF Heartbeat, TypeOK, Work
  <2> QED
    BY <1>6, <2>1, <2>2 DEF Heartbeat
<1>7. ASSUME NEW j \in Jobs, UpstreamReturns(j) PROVE TypeOK'
  <2>1. PICK result \in {"succeeded", "failed"} :
          work' = [work EXCEPT ![j] =
                     [work[j] EXCEPT !.phase = "finishing", !.result = result]]
    BY <1>t, <1>7 DEF UpstreamReturns
  <2> DEFINE w == [work[j] EXCEPT !.phase = "finishing", !.result = result]
  <2>2. w \in Work /\ w.phase = "finishing" /\ w.host = work[j].host
    BY <1>t DEF Work, Phases
  <2> HIDE DEF w
  <2>3. work' \in [Jobs -> Work]
    BY <1>t, <2>1, <2>2 DEF w
  <2>4. work' = [work EXCEPT ![j] = w] /\ work[j].phase = "running"
    BY <1>7, <2>1 DEF UpstreamReturns, w
  <2> QED
    BY <1>t, <1>7, <2>2, <2>3, <2>4 DEF UpstreamReturns, TypeOK
<1>8. ASSUME NEW j \in Jobs, Finish(j) PROVE TypeOK'
  <2> DEFINE q == [row[j] EXCEPT !.state = work[j].result, !.beat = now]
  <2>1. q \in Row
    BY <1>t DEF Row, Work
  <2>2. row' = row \/ row' = [row EXCEPT ![j] = q]
    BY <1>8 DEF Finish
  <2> HIDE DEF q
  <2>3. row' \in [Jobs -> Row]
    BY <1>t, <2>1, <2>2
  <2>4. End(j) \/ Enter(j, "purging")
    BY <1>8 DEF Finish
  <2> QED
    BY <1>t, <1>8, <2>3, <2>4, EndType, EnterType DEF Finish, TypeOK
<1>9. ASSUME NEW j \in Jobs, Purge(j) PROVE TypeOK'
  BY <1>t, <1>9, EndType, WithoutType DEF Purge, TypeOK
<1>10. ASSUME NEW j \in Jobs, NEW p \in Replicas, Delete(j, p) PROVE TypeOK'
  <2>1. row' \in [Jobs -> Row]
    BY <1>t, <1>10, WithoutType DEF Delete, Row
  <2>2. work' = work \/ work' = [work EXCEPT ![j].stop = TRUE]
    BY <1>10 DEF Delete
  <2> DEFINE w == [work[j] EXCEPT !.stop = TRUE]
  <2>3. w \in Work /\ w.phase = work[j].phase /\ w.host = work[j].host
    BY <1>t DEF Work
  <2>4. work' = work \/ work' = [work EXCEPT ![j] = w]
    BY <2>2
  <2> HIDE DEF w
  <2>5. work' \in [Jobs -> Work]
    BY <1>t, <2>3, <2>4
  <2>6. \A k \in Jobs : work'[k].phase = work[k].phase /\ work'[k].host = work[k].host
    BY <1>t, <2>3, <2>4
  <2>7. UNCHANGED <<now, replica, outages>>
    BY <1>10 DEF Delete
  <2> QED
    BY <2>1, <2>5, <2>6, <2>7 DEF TypeOK
<1>11. CASE Prune
  BY <1>t, <1>11, WithoutType DEF Prune, TypeOK
<1>12. ASSUME NEW p \in Replicas, Exit(p) PROVE TypeOK'
  BY <1>t, <1>12, LeaveType DEF Exit, TypeOK
<1>13. ASSUME NEW p \in Replicas, BeginClose(p) PROVE TypeOK'
  BY <1>t, <1>13 DEF BeginClose, TypeOK
<1>14. CASE Tick \/ UNCHANGED vars
  BY <1>t, <1>14 DEF Tick, TypeOK, vars
<1> QED
  BY <1>1, <1>2, <1>3, <1>4, <1>5, <1>6, <1>7, <1>8, <1>9, <1>10, <1>11, <1>12,
     <1>13, <1>14
  DEF Next, Worker, EndClose, Crash

----------------------------------------------------------------------------
\* A row that is not live never becomes live by the passing of time.
LEMMA LiveFades ==
  ASSUME TypeOK, NEW j \in Jobs, NEW s \in Nat, NEW t \in Nat, s <= t, Live(j, t)
  PROVE  Live(j, s)
BY SkinJobsAssumption DEF TypeOK, Row, Live

\* A job keeps its invariant in a step that leaves its worker alone, and its row but
\* for dropping it.
LEMMA JobFrame ==
  ASSUME TypeOK, TypeOK', NEW j \in Jobs, JobInv(j), work'[j] = work[j],
         row'[j] = row[j] \/ row'[j] = NoRow,
         now <= now', outages' = outages
  PROVE  JobInv(j)'
<1>1. /\ now \in Nat /\ now' \in Nat /\ work[j].began \in Nat /\ work[j].started \in Nat
      /\ row[j].beat \in Nat
  BY DEF TypeOK, Work, Row
<1>2. Live(j, now)' => row'[j] = row[j] /\ Live(j, now)
  BY <1>1, SkinJobsAssumption DEF Live, NoRow
<1> QED
  BY <1>1, <1>2, SkinJobsAssumption DEF JobInv, NoRow

\* So it does when its worker ends without a last write: nobody was told of it, or
\* statements may fail.
LEMMA JobDropped ==
  ASSUME TypeOK, TypeOK', NEW j \in Jobs, JobInv(j), NEW p \in {"stopped", "dead"},
         work'[j] = Leave(j, p), row'[j] = row[j] \/ row'[j] = NoRow,
         now' = now, outages' = outages,
         p = "stopped" => outages \/ ~work[j].told
  PROVE  JobInv(j)'
<1>1. /\ now \in Nat /\ work[j].began \in Nat /\ work[j].started \in Nat
      /\ row[j].beat \in Nat
  BY DEF TypeOK, Work, Row
<1>2. /\ work'[j].phase = p /\ work'[j].told = work[j].told
      /\ work'[j].started = work[j].started /\ work'[j].began = 0
  BY LeaveType
<1> QED
  BY <1>1, <1>2, SkinJobsAssumption DEF JobInv, NoRow

LEMMA JobsInit == Init => \A j \in Jobs : JobInv(j)
BY SkinJobsAssumption DEF Init, JobInv, NoRow

\* Every step keeps what rows and workers know of each other.
LEMMA JobStep ==
  ASSUME TypeOK, TypeOK', \A k \in Jobs : JobInv(k), [Next]_vars, NEW j \in Jobs
  PROVE  JobInv(j)'
<1> USE SkinJobsAssumption
<1>t. /\ now \in Nat /\ row \in [Jobs -> Row] /\ work \in [Jobs -> Work]
      /\ now' \in Nat /\ row' \in [Jobs -> Row] /\ work' \in [Jobs -> Work]
      /\ \A k \in Jobs : work[k] \in Work /\ row[k] \in Row
  BY DEF TypeOK
<1>j. /\ work[j].began \in Nat /\ work[j].started \in Nat
      /\ row[j].beat \in Nat /\ row[j].expires \in Nat
  BY <1>t DEF Work, Row
<1>i. JobInv(j)
  OBVIOUS
<1>1. ASSUME NEW k \in Jobs, NEW o \in Owners, NEW p \in Replicas, BeginCreate(k, o, p)
      PROVE  JobInv(j)'
  <2>1. CASE k # j
    BY <1>t, <1>i, <1>1, <2>1, JobFrame DEF BeginCreate
  <2>2. CASE k = j
    BY <1>t, <1>i, <1>1, <2>2 DEF BeginCreate, JobInv, Live, Work
  <2> QED
    BY <2>1, <2>2
<1>2. ASSUME NEW k \in Jobs, CommitCreate(k) PROVE JobInv(j)'
  <2>0. work[k].phase = "creating" /\ UNCHANGED <<now, outages>>
    BY <1>2 DEF CommitCreate
  <2>1. CASE End(k) /\ UNCHANGED row
    <3>1. CASE k # j
      BY <1>t, <1>i, <2>0, <2>1, <3>1, JobFrame, EndType
    <3>2. CASE k = j
      <4>1. work'[j] = Leave(j, "stopped") /\ ~work[j].told
        BY <1>i, <2>0, <2>1, <3>2, EndType DEF JobInv
      <4> QED
        BY <1>t, <1>i, <2>0, <2>1, <4>1, JobDropped
    <3> QED
      BY <3>1, <3>2
  <2>2. CASE row' = [Without({x \in Jobs : Droppable(x, work[k].began)}) EXCEPT ![k] =
                       [state |-> "running", owner |-> work[k].owner, cancelled |-> FALSE,
                        beat |-> work[k].began, expires |-> work[k].began + TTL]]
             /\ (Enter(k, "inserted") \/ End(k))
    <3>1. CASE k # j
      <4>1. row'[j] = row[j] \/ row'[j] = NoRow
        BY <1>t, <2>2, <3>1 DEF Without
      <4>2. work'[j] = work[j]
        BY <2>0, <2>2, <3>1, EndType, EnterType
      <4> QED
        BY <1>t, <1>i, <2>0, <4>1, <4>2, JobFrame
    <3>2. CASE k = j
      <4>1. row'[j].state = "running" /\ row'[j].beat = work[j].began
        BY <1>t, <2>2, <3>2 DEF Without
      <4>2. /\ work'[j].phase \in {"inserted", "stopped"}
            /\ work'[j].told = work[j].told /\ work'[j].started = work[j].started
            /\ work'[j].phase = "inserted" => work'[j].began = work[j].began
            /\ work'[j].began <= now
        BY <1>t, <1>i, <1>j, <2>0, <2>2, <3>2, EndType, EnterType, LeaveType DEF JobInv, Work
      <4>3. ~work[j].told
        BY <1>i, <2>0, <3>2 DEF JobInv
      <4> QED
        BY <1>t, <1>i, <1>j, <2>0, <4>1, <4>2, <4>3 DEF JobInv
    <3> QED
      BY <3>1, <3>2
  <2> QED
    BY <1>2, <2>1, <2>2 DEF CommitCreate
<1>3. ASSUME NEW k \in Jobs, FailCreate(k) \/ FailWrite(k) PROVE JobInv(j)'
  BY <1>t, <1>i, <1>3, JobFrame, JobDropped, EndType DEF FailCreate, FailWrite
<1>4. ASSUME NEW k \in Jobs, StartWorker(k) PROVE JobInv(j)'
  <2>1. CASE k # j
    BY <1>t, <1>i, <1>4, <2>1, JobFrame DEF StartWorker
  <2>2. CASE k = j
    BY <1>t, <1>j, <1>i, <1>4, <2>2 DEF StartWorker, JobInv, Live, Work
  <2> QED
    BY <2>1, <2>2
<1>5. ASSUME NEW k \in Jobs, DropUnstarted(k) PROVE JobInv(j)'
  <2>1. row'[j] = row[j] \/ row'[j] = NoRow
    BY <1>t, <1>5 DEF DropUnstarted, Without
  <2>2. work[k].phase = "inserted" /\ End(k) /\ UNCHANGED <<now, outages>>
    BY <1>5 DEF DropUnstarted
  <2> QED
    BY <1>t, <1>i, <2>1, <2>2, JobFrame, JobDropped, EndType DEF JobInv
<1>6. ASSUME NEW k \in Jobs, Heartbeat(k) PROVE JobInv(j)'
  <2>1. CASE k # j
    BY <1>t, <1>i, <1>6, <2>1, JobFrame DEF Heartbeat
  <2>2. CASE k = j
    <3>1. work[j].phase = "running" /\ now < work[j].started + Timeout
      BY <1>t, <1>j, <1>6, <2>2 DEF Heartbeat, Beating, ContextDone
    <3>2. UNCHANGED <<now, outages>>
      BY <1>6 DEF Heartbeat
    <3>3. CASE row' = [row EXCEPT ![j].beat = now] /\ work' = work
      BY <1>t, <1>j, <1>i, <3>1, <3>2, <3>3 DEF JobInv, Row
    <3>4. CASE work' = [work EXCEPT ![j].stop = TRUE] /\ row' = row
      BY <1>t, <1>j, <1>i, <3>1, <3>2, <3>4 DEF JobInv, Work
    <3> QED
      BY <1>6, <2>2, <3>3, <3>4 DEF Heartbeat
  <2> QED
    BY <2>1, <2>2
<1>7. ASSUME NEW k \in Jobs, UpstreamReturns(k) PROVE JobInv(j)'
  <2>1. CASE k # j
    BY <1>t, <1>i, <1>7, <2>1, JobFrame DEF UpstreamReturns
  <2>2. CASE k = j
    <3>1. PICK result \in {"succeeded", "failed"} :
            work' = [work EXCEPT ![j] =
                       [work[j] EXCEPT !.phase = "finishing", !.result = result]]
      BY <1>t, <1>7, <2>2 DEF UpstreamReturns
    <3>2. work[j].phase = "running" /\ UNCHANGED <<now, outages, row>>
      BY <1>7, <2>2 DEF UpstreamReturns
    <3> QED
      BY <1>t, <1>j, <1>i, <3>1, <3>2 DEF JobInv, Work
  <2> QED
    BY <2>1, <2>2
<1>8. ASSUME NEW k \in Jobs, Finish(k) PROVE JobInv(j)'
  <2>0. work[k].phase = "finishing" /\ UNCHANGED <<now, outages>>
    BY <1>8 DEF Finish
  <2>1. CASE k # j
    <3>1. work'[j] = work[j] /\ row'[j] = row[j]
      BY <1>t, <1>8, <2>0, <2>1, EndType, EnterType DEF Finish
    <3> QED
      BY <1>t, <1>i, <2>0, <3>1, JobFrame
  <2>2. CASE k = j /\ Recordable(j)
    <3>0. /\ row' = [row EXCEPT ![j] =
                       [row[j] EXCEPT !.state = work[j].result, !.beat = now]]
          /\ End(j)
      BY <1>t, <1>8, <2>2 DEF Finish
    <3>1. /\ row'[j].state \in {"succeeded", "failed"} /\ ~row'[j].cancelled
          /\ work'[j] = Leave(j, "stopped")
      BY <1>t, <1>i, <2>0, <2>2, <3>0, EndType DEF Recordable, JobInv, Row
    <3>2. /\ work'[j].phase = "stopped" /\ work'[j].began = 0
          /\ work'[j].started = work[j].started
      BY <3>1, LeaveType
    <3> QED
      BY <1>t, <1>j, <1>i, <2>0, <3>1, <3>2 DEF JobInv, Live
  <2>3. CASE k = j /\ ~Recordable(j)
    <3>1. row' = row /\ work'[j] = [work[j] EXCEPT !.phase = "purging"]
      BY <1>8, <2>0, <2>3, EnterType DEF Finish
    <3> QED
      BY <1>t, <1>j, <1>i, <2>0, <2>3, <3>1 DEF JobInv, Recordable, Live, Work
  <2> QED
    BY <2>1, <2>2, <2>3
<1>9. ASSUME NEW k \in Jobs, Purge(k) PROVE JobInv(j)'
  <2>0. work[k].phase = "purging" /\ UNCHANGED <<now, outages>> /\ End(k)
    BY <1>9 DEF Purge
  <2>1. CASE k # j
    <3>1. work'[j] = work[j] /\ row'[j] = row[j]
      BY <1>t, <1>9, <2>0, <2>1, EndType DEF Purge, Without
    <3> QED
      BY <1>t, <1>i, <2>0, <3>1, JobFrame
  <2>2. CASE k = j
    <3>1. /\ work'[j].phase = "stopped" /\ work'[j].began = 0
          /\ work'[j].started = work[j].started /\ work'[j].told = work[j].told
      BY <2>0, <2>2, EndType, LeaveType
    <3>2. row'[j] = IF row[j].cancelled THEN NoRow ELSE row[j]
      BY <1>t, <1>9, <2>2 DEF Purge, Without
    <3> QED
      BY <1>t, <1>j, <1>i, <2>0, <2>2, <3>1, <3>2 DEF JobInv, Live, NoRow
  <2> QED
    BY <2>1, <2>2
<1>10. ASSUME NEW k \in Jobs, NEW p \in Replicas, Delete(k, p) PROVE JobInv(j)'
  <2>0. /\ UNCHANGED <<now, outages>>
        /\ work' = work \/ work' = [work EXCEPT ![k].stop = TRUE]
        /\ row' = IF Live(k, now) THEN [row EXCEPT ![k].cancelled = TRUE]
                                  ELSE Without({k})
    BY <1>10 DEF Delete
  <2>1. CASE k # j
    <3>1. work'[j] = work[j] /\ row'[j] = row[j]
      BY <1>t, <2>0, <2>1 DEF Without
    <3> QED
      BY <1>t, <1>i, <2>0, <3>1, JobFrame
  <2>2. CASE k = j
    <3>1. /\ work'[j].phase = work[j].phase /\ work'[j].began = work[j].began
          /\ work'[j].started = work[j].started /\ work'[j].told = work[j].told
          /\ work'[j].result = work[j].result
      BY <1>t, <2>0, <2>2 DEF Work
    <3>2. \/ ~Live(j, now) /\ row'[j] = NoRow
          \/ /\ Live(j, now) /\ row'[j].cancelled
             /\ row'[j].state = row[j].state /\ row'[j].beat = row[j].beat
      BY <1>t, <2>0, <2>2 DEF Without, Row
    <3> QED
      BY <1>t, <1>j, <1>i, <2>0, <3>1, <3>2 DEF JobInv, Live, NoRow
  <2> QED
    BY <2>1, <2>2
<1>11. CASE Prune
  BY <1>t, <1>i, <1>11, JobFrame DEF Prune, Without
<1>12. ASSUME NEW p \in Replicas, Exit(p) PROVE JobInv(j)'
  <2>1. work'[j] = work[j] \/ work'[j] = Leave(j, "dead")
    BY <1>t, <1>12 DEF Exit
  <2> QED
    BY <1>t, <1>i, <1>12, <2>1, JobFrame, JobDropped DEF Exit
<1>13. ASSUME NEW p \in Replicas, BeginClose(p) PROVE JobInv(j)'
  BY <1>t, <1>i, <1>13, JobFrame DEF BeginClose
<1>14. CASE Tick \/ UNCHANGED vars
  BY <1>t, <1>i, <1>14, JobFrame DEF Tick, vars
<1> QED
  BY <1>1, <1>2, <1>3, <1>4, <1>5, <1>6, <1>7, <1>8, <1>9, <1>10, <1>11, <1>12,
     <1>13, <1>14
  DEF Next, Worker, EndClose, Crash

----------------------------------------------------------------------------
HeldBy(o) == {j \in Held : row[j].owner = o}

LEMMA CapsAreOfHeld ==
  CapsHold <=> /\ Cardinality(Held) <= Total
               /\ \A o \in Owners : Cardinality(HeldBy(o)) <= PerOwner
BY DEF CapsHold, Held, HeldBy

\* The caps hold on in a step that adds no row to those that count.
LEMMA CapsFrame ==
  ASSUME IsFiniteSet(Rows), CapsHold, Rows' \subseteq Rows, Held' \subseteq Held,
         \A j \in Held' : row'[j].owner = row[j].owner
  PROVE  IsFiniteSet(Rows') /\ CapsHold'
<1>1. IsFiniteSet(Rows') /\ IsFiniteSet(Held) /\ IsFiniteSet(Held')
  BY FS_Subset DEF Rows, Held
<1>2. Cardinality(Held') \in Nat /\ Cardinality(Held) \in Nat
      /\ Cardinality(Held') <= Cardinality(Held)
  BY <1>1, FS_Subset, FS_CardinalityType
<1>3. ASSUME NEW o \in Owners
      PROVE  Cardinality(HeldBy(o)') <= PerOwner
  <2>1. HeldBy(o) \subseteq Held /\ HeldBy(o)' \subseteq HeldBy(o)
    BY DEF HeldBy
  <2>2. IsFiniteSet(HeldBy(o)) /\ IsFiniteSet(HeldBy(o)')
    BY <1>1, <2>1, FS_Subset
  <2>3. Cardinality(HeldBy(o)') \in Nat /\ Cardinality(HeldBy(o)) \in Nat
        /\ Cardinality(HeldBy(o)') <= Cardinality(HeldBy(o))
    BY <2>1, <2>2, FS_Subset, FS_CardinalityType
  <2> QED
    BY <2>3, CapsAreOfHeld, SkinJobsAssumption
<1>4. Cardinality(Held') <= Total
  BY <1>2, CapsAreOfHeld, SkinJobsAssumption
<1>5. CapsHold' <=> /\ Cardinality(Held') <= Total
                    /\ \A o \in Owners : Cardinality(HeldBy(o)') <= PerOwner
  BY DEF CapsHold, Held, HeldBy
<1> QED
  BY <1>1, <1>3, <1>4, <1>5

\* One more member keeps a set that had room within its cap.
LEMMA OneMore ==
  ASSUME NEW S, NEW T, NEW x, NEW n \in Nat, IsFiniteSet(S),
         ~(Cardinality(S) >= n), T \subseteq S \cup {x}
  PROVE  Cardinality(T) <= n
<1>1. IsFiniteSet(S \cup {x}) /\ Cardinality(S) \in Nat
      /\ Cardinality(S \cup {x}) <= Cardinality(S) + 1
  BY FS_AddElement, FS_CardinalityType
<1>2. IsFiniteSet(T) /\ Cardinality(T) <= Cardinality(S \cup {x})
  BY <1>1, FS_Subset
<1>3. Cardinality(T) \in Nat /\ Cardinality(S \cup {x}) \in Nat
  BY <1>1, <1>2, FS_CardinalityType
<1> QED
  BY <1>1, <1>2, <1>3

\* Creating a job counts every row that holds a place now, although it judges
\* them by the older time at which its transaction began.
LEMMA CreateKeepsCaps ==
  ASSUME TypeOK, TypeOK', IsFiniteSet(Rows), CapsHold, \A k \in Jobs : JobInv(k),
         NEW j \in Jobs, CommitCreate(j)
  PROVE  IsFiniteSet(Rows') /\ CapsHold'
<1> USE SkinJobsAssumption
<1> DEFINE t == work[j].began
           me == work[j].owner
           counted == {k \in Jobs : Counted(k, t)}
           own == {k \in counted : row[k].owner = me}
<1>t. /\ now \in Nat /\ row \in [Jobs -> Row] /\ t \in Nat /\ t <= now /\ now' = now
  BY DEF TypeOK, Work, CommitCreate, JobInv
<1>1. CASE UNCHANGED row
  BY <1>t, <1>1, CapsFrame DEF Rows, Held, Exists, Live
<1>2. CASE /\ ~Full(counted, own)
           /\ row' = [Without({k \in Jobs : Droppable(k, t)}) EXCEPT ![j] =
                        [state |-> "running", owner |-> me, cancelled |-> FALSE,
                         beat |-> t, expires |-> t + TTL]]
  <2>1. \A k \in Jobs \ {j} :
          /\ Droppable(k, t) => row'[k] = NoRow
          /\ ~Droppable(k, t) => row'[k] = row[k]
    BY <1>t, <1>2 DEF Without
  <2>2. row'[j].owner = me
    BY <1>t, <1>2 DEF Without
  <2> HIDE DEF t, me
  <2>3. ASSUME NEW k \in Held', k # j
        PROVE  k \in counted /\ k \in Held /\ row'[k] = row[k]
    <3>1. k \in Jobs /\ row'[k].state # "none"
          /\ (row'[k].state # "running" \/ Live(k, now)')
      BY <2>3 DEF Held, Exists
    <3>2. row'[k] = row[k] /\ ~Droppable(k, t)
      BY <2>1, <2>3, <3>1 DEF NoRow
    <3>3. row[k].state # "running" \/ Live(k, now)
      BY <1>t, <3>1, <3>2 DEF Live
    <3>4. row[k].state # "running" \/ Live(k, t)
      BY <1>t, <3>1, <3>3, LiveFades
    <3> QED
      BY <3>1, <3>2, <3>3, <3>4 DEF Counted, Held, Exists
  <2>4. Rows' \subseteq Rows \cup {j} /\ counted \subseteq Rows /\ own \subseteq counted
    BY <2>1 DEF Rows, Exists, NoRow, Counted
  <2>5. IsFiniteSet(Rows') /\ IsFiniteSet(counted) /\ IsFiniteSet(own)
    <3>1. IsFiniteSet(Rows \cup {j})
      BY FS_AddElement
    <3> QED
      BY <2>4, <3>1, FS_Subset
  <2>6. Held' \subseteq counted \cup {j}
    BY <2>3
  <2>7. ~(Cardinality(counted) >= Total) /\ ~(Cardinality(own) >= PerOwner)
    BY <1>2 DEF Full
  <2> HIDE DEF counted, own
  <2>8. Cardinality(Held') <= Total
    BY <2>5, <2>6, <2>7, OneMore
  <2>9. ASSUME NEW o \in Owners PROVE Cardinality(HeldBy(o)') <= PerOwner
    <3>1. CASE o = me
      <4>1. HeldBy(o)' \subseteq own \cup {j}
        BY <2>3, <3>1 DEF HeldBy, own
      <4> QED
        BY <2>5, <2>7, <4>1, OneMore
    <3>2. CASE o # me
      <4>1. HeldBy(o)' \subseteq HeldBy(o) /\ HeldBy(o) \subseteq Rows
        BY <2>2, <2>3, <3>2 DEF HeldBy, Held, Rows
      <4>2. IsFiniteSet(HeldBy(o)) /\ IsFiniteSet(HeldBy(o)')
        BY <4>1, FS_Subset
      <4>3. Cardinality(HeldBy(o)') <= Cardinality(HeldBy(o))
            /\ Cardinality(HeldBy(o)') \in Nat /\ Cardinality(HeldBy(o)) \in Nat
        BY <4>1, <4>2, FS_Subset, FS_CardinalityType
      <4> QED
        BY <4>3, CapsAreOfHeld
    <3> QED
      BY <3>1, <3>2
  <2>10. CapsHold' <=> /\ Cardinality(Held') <= Total
                       /\ \A o \in Owners : Cardinality(HeldBy(o)') <= PerOwner
    BY DEF CapsHold, Held, HeldBy
  <2> QED
    BY <2>5, <2>8, <2>9, <2>10
<1> QED
  BY <1>1, <1>2 DEF CommitCreate

LEMMA CapsInit == Init => IsFiniteSet(Rows) /\ CapsHold
<1> SUFFICES ASSUME Init PROVE IsFiniteSet(Rows) /\ CapsHold
  OBVIOUS
<1>1. Rows = {} /\ Held = {}
  BY DEF Init, Rows, Held, Exists, NoRow
<1>2. \A o \in Owners : HeldBy(o) = {}
  BY <1>1 DEF HeldBy
<1> QED
  BY <1>1, <1>2, CapsAreOfHeld, FS_EmptySet, SkinJobsAssumption

LEMMA CapsStep ==
  ASSUME TypeOK, TypeOK', \A k \in Jobs : JobInv(k), IsFiniteSet(Rows), CapsHold,
         [Next]_vars
  PROVE  IsFiniteSet(Rows') /\ CapsHold'
<1> USE SkinJobsAssumption
<1>t. /\ now \in Nat /\ now' \in Nat /\ row \in [Jobs -> Row] /\ row' \in [Jobs -> Row]
      /\ \A j \in Jobs : row[j] \in Row
  BY DEF TypeOK
<1>1. ASSUME now <= now',
             \A j \in Jobs :
               \/ row'[j] = NoRow
               \/ /\ row'[j].state = row[j].state /\ row'[j].owner = row[j].owner
                  /\ row'[j].beat = row[j].beat
      PROVE  IsFiniteSet(Rows') /\ CapsHold'
  <2>1. \A j \in Jobs : Live(j, now)' => Live(j, now) /\ row'[j].owner = row[j].owner
    BY <1>t, <1>1 DEF Live, NoRow, Row
  <2> QED
    BY <1>1, <2>1, CapsFrame DEF Rows, Held, Exists, NoRow
<1>2. ASSUME NEW k \in Jobs, Heartbeat(k) \/ Finish(k)
      PROVE  IsFiniteSet(Rows') /\ CapsHold'
  <2>1. now' = now /\ \A j \in Jobs \ {k} : row'[j] = row[j]
    BY <1>t, <1>2 DEF Heartbeat, Finish
  <2>2. \/ row' = row
        \/ Live(k, now) /\ row'[k].owner = row[k].owner
    <3>1. CASE Heartbeat(k)
      BY <1>t, <3>1 DEF Heartbeat, Beatable, Row
    <3>2. CASE Finish(k)
      <4> DEFINE r == [row[k] EXCEPT !.state = work[k].result, !.beat = now]
      <4>1. row' = row \/ (Recordable(k) /\ row' = [row EXCEPT ![k] = r])
        BY <3>2 DEF Finish
      <4>2. r.owner = row[k].owner
        BY <1>t DEF Row
      <4> HIDE DEF r
      <4> QED
        BY <1>t, <4>1, <4>2 DEF Recordable
    <3> QED
      BY <1>2, <3>1, <3>2
  <2>3. Live(k, now) => k \in Rows /\ k \in Held
    BY DEF Live, Rows, Held, Exists
  <2>4. \A j \in Jobs \ {k} : (j \in Rows' <=> j \in Rows) /\ (j \in Held' <=> j \in Held)
    BY <2>1 DEF Rows, Held, Exists, Live
  <2>5. CASE row' = row
    BY <1>t, <1>1, <2>1, <2>5
  <2>6. CASE Live(k, now) /\ row'[k].owner = row[k].owner
    <3>1. Rows' \subseteq Rows /\ Held' \subseteq Held
      BY <2>3, <2>4, <2>6 DEF Rows, Held
    <3>2. \A j \in Held' : row'[j].owner = row[j].owner
      BY <2>1, <2>6 DEF Held
    <3> QED
      BY <3>1, <3>2, CapsFrame
  <2> QED
    BY <2>2, <2>5, <2>6
<1>3. ASSUME NEW k \in Jobs, DropUnstarted(k) \/ Purge(k)
      PROVE  IsFiniteSet(Rows') /\ CapsHold'
  <2>1. now' = now /\ \A j \in Jobs : row'[j] = row[j] \/ row'[j] = NoRow
    BY <1>t, <1>3 DEF DropUnstarted, Purge, Without
  <2> QED
    BY <1>1, <1>t, <2>1
<1>4. ASSUME NEW k \in Jobs, NEW p \in Replicas, Delete(k, p)
      PROVE  IsFiniteSet(Rows') /\ CapsHold'
  <2>1. row' = [row EXCEPT ![k].cancelled = TRUE] \/ row' = Without({k})
    BY <1>4 DEF Delete
  <2>2. \A j \in Jobs :
               \/ row'[j] = NoRow
               \/ /\ row'[j].state = row[j].state /\ row'[j].owner = row[j].owner
                  /\ row'[j].beat = row[j].beat
    BY <1>t, <2>1 DEF Without, Row
  <2> QED
    <3>1. now' = now
      BY <1>4 DEF Delete
    <3> QED
      BY <1>1, <1>t, <2>2, <3>1
<1>5. CASE Prune
  <2>1. now' = now /\ \A j \in Jobs : row'[j] = row[j] \/ row'[j] = NoRow
    BY <1>t, <1>5 DEF Prune, Without
  <2> QED
    BY <1>1, <1>t, <2>1
<1>6. CASE row' = row /\ now <= now'
  BY <1>1, <1>6
<1>7. ASSUME NEW k \in Jobs,
             \/ FailCreate(k) \/ FailWrite(k) \/ StartWorker(k) \/ UpstreamReturns(k)
             \/ \E o \in Owners, p \in Replicas : BeginCreate(k, o, p)
      PROVE  IsFiniteSet(Rows') /\ CapsHold'
  <2>1. UNCHANGED <<now, row>>
    BY <1>7 DEF FailCreate, FailWrite, StartWorker, UpstreamReturns, BeginCreate
  <2> QED
    BY <1>t, <1>6, <2>1
<1>8. ASSUME NEW p \in Replicas, BeginClose(p) \/ EndClose(p) \/ Crash(p)
      PROVE  IsFiniteSet(Rows') /\ CapsHold'
  BY <1>t, <1>6, <1>8 DEF BeginClose, EndClose, Crash, Exit
<1>9. CASE Tick \/ UNCHANGED vars
  BY <1>t, <1>6, <1>9 DEF Tick, vars
<1>10. ASSUME NEW k \in Jobs, CommitCreate(k) PROVE IsFiniteSet(Rows') /\ CapsHold'
  BY <1>10, CreateKeepsCaps
<1>11. ASSUME NEW k \in Jobs, Worker(k) PROVE IsFiniteSet(Rows') /\ CapsHold'
  BY <1>2, <1>3, <1>7, <1>10, <1>11 DEF Worker
<1>12. CASE Next
  BY <1>2, <1>4, <1>5, <1>7, <1>8, <1>9, <1>11, <1>12 DEF Next
<1> QED
  BY <1>9, <1>12

----------------------------------------------------------------------------
\* The inductive invariant holds of any number of replicas and jobs.
THEOREM JobInvariance == Spec => []IInv
<1>1. Init => IInv
  BY InitTypeOK, JobsInit, CapsInit DEF IInv
<1>2. IInv /\ [Next]_vars => IInv'
  <2> SUFFICES ASSUME IInv, [Next]_vars PROVE IInv'
    OBVIOUS
  <2>1. TypeOK'
    BY TypeStep DEF IInv
  <2>2. \A j \in Jobs : JobInv(j)'
    BY <2>1, JobStep DEF IInv
  <2>3. IsFiniteSet(Rows') /\ CapsHold'
    BY <2>1, CapsStep DEF IInv
  <2> QED
    BY <2>1, <2>2, <2>3 DEF IInv
<1> QED
  BY <1>1, <1>2, PTL DEF Spec

\* Over all replicas and at every moment the jobs of the deployment, and those of an
\* owner, stay within their caps, although creations wait for their lock and judge rows by
\* the time they began at.
THEOREM CapsAlwaysHold == Spec => []CapsHold
<1>1. IInv => CapsHold
  BY DEF IInv
<1> QED
  BY JobInvariance, <1>1, PTL

\* A job a client was told of is settled when its time is over, whichever replicas crashed
\* or statements failed, and an ended worker leaves nothing running or cancelled.
THEOREM JobsAlwaysSettle == Spec => []JobsSettle
<1>1. IInv => JobsSettle
  <2> SUFFICES ASSUME IInv PROVE JobsSettle
    OBVIOUS
  <2> USE SkinJobsAssumption
  <2>t. /\ now \in Nat
        /\ \A j \in Jobs : row[j] \in Row /\ work[j] \in Work
    BY DEF IInv, TypeOK
  <2>1. \A j \in Jobs : View(j) = "running" => row[j].state = "running" /\ Live(j, now)
    BY <2>t DEF View, Exists, Row
  <2>2. SettledByDeadline
    BY <2>t, <2>1 DEF IInv, SettledByDeadline, JobInv, Live, Row, Work
  <2>3. EndedWorkerSettles
    BY <2>1 DEF IInv, EndedWorkerSettles, JobInv
  <2> QED
    BY <2>2, <2>3 DEF IInv, JobsSettle
<1> QED
  BY JobInvariance, <1>1, PTL

----------------------------------------------------------------------------
\* What the promise allows a job that was in state a.
LEMMA AllowedMoves ==
  /\ Promise!Moves["none"] = {"none", "running", "failed", "notfound"}
  /\ Promise!Moves["running"] = {"running", "succeeded", "failed", "notfound"}
  /\ Promise!Moves["succeeded"] = {"succeeded", "notfound"}
  /\ Promise!Moves["failed"] = {"failed", "notfound"}
  /\ Promise!Moves["notfound"] = {"notfound"}
BY DEF Promise!Moves

Views == {"running", "succeeded", "failed", "notfound"}

\* Whatever a job was seen as, it may be gone; while it is told of and its row stays or
\* only time passes it moves as allowed.
LEMMA RowMoves ==
  ASSUME TypeOK, TypeOK', NEW j \in Jobs, now <= now',
         \/ View(j)' = "notfound"
         \/ row'[j] = row[j]
         \/ /\ row'[j].expires = row[j].expires /\ now' = now
            /\ Live(j, now) /\ ~row[j].cancelled /\ ~row'[j].cancelled
            /\ \/ row'[j].state \in {"succeeded", "failed"}
               \/ row'[j].state = "running" /\ Live(j, now)'
  PROVE  View(j)' \in Promise!Moves[View(j)]
<1> USE SkinJobsAssumption
<1>t. /\ now \in Nat /\ now' \in Nat /\ row[j] \in Row /\ row'[j] \in Row
  BY DEF TypeOK
<1>v. View(j) \in Views /\ View(j)' \in Views
  BY <1>t DEF View, Views, Exists, Row
<1>1. CASE View(j)' = "notfound"
  BY <1>v, <1>1, AllowedMoves DEF Views
<1>2. CASE row'[j] = row[j] /\ View(j)' # "notfound"
  <2>1. View(j) # "notfound"
    BY <1>t, <1>2 DEF View, Exists, Row
  <2>2. Live(j, now)' => Live(j, now)
    BY <1>t, <1>2 DEF Live, Row
  <2>3. CASE View(j) = "running"
    BY <1>v, <2>3, AllowedMoves DEF Views
  <2>4. CASE View(j) = "succeeded"
    <3>1. View(j)' = "succeeded"
      BY <1>t, <1>2, <2>1, <2>4 DEF View, Exists, Row
    <3> QED
      BY <2>4, <3>1, AllowedMoves
  <2>5. CASE View(j) = "failed"
    <3>1. View(j)' = "failed"
      BY <1>t, <1>2, <2>1, <2>2, <2>5 DEF View, Exists, Row
    <3> QED
      BY <2>5, <3>1, AllowedMoves
  <2> QED
    BY <1>v, <2>1, <2>3, <2>4, <2>5 DEF Views
<1>3. CASE /\ row'[j].expires = row[j].expires /\ now' = now
           /\ Live(j, now) /\ ~row[j].cancelled /\ ~row'[j].cancelled
           /\ \/ row'[j].state \in {"succeeded", "failed"}
              \/ row'[j].state = "running" /\ Live(j, now)'
  <2>1. View(j) \in {"running", "notfound"}
    BY <1>t, <1>3 DEF View, Exists, Live, Row
  <2>2. View(j) = "notfound" => View(j)' = "notfound"
    BY <1>t, <1>3 DEF View, Exists, Live, Row
  <2> QED
    BY <1>v, <2>1, <2>2, AllowedMoves DEF Views
<1> QED
  BY <1>1, <1>2, <1>3

\* A dropped row shows nothing.
LEMMA DroppedIsGone ==
  ASSUME TypeOK, TypeOK', NEW j \in Jobs, row'[j] = NoRow
  PROVE  View(j)' = "notfound"
BY DEF View, Exists, NoRow

\* In every step a job somebody was told of moves as allowed, and nobody forgets it.
LEMMA ToldMoves ==
  ASSUME IInv, IInv', [Next]_vars, NEW j \in Jobs, work[j].told
  PROVE  work'[j].told /\ View(j)' \in Promise!Moves[View(j)]
<1> USE SkinJobsAssumption
<1>t. /\ TypeOK /\ TypeOK' /\ JobInv(j)
      /\ now \in Nat /\ now' \in Nat
      /\ row \in [Jobs -> Row] /\ row' \in [Jobs -> Row]
      /\ work \in [Jobs -> Work] /\ work' \in [Jobs -> Work]
      /\ \A k \in Jobs : row[k] \in Row /\ work[k] \in Work
  BY DEF IInv, TypeOK
<1> DEFINE Moved == work'[j].told /\ View(j)' \in Promise!Moves[View(j)]
<1>0. ASSUME row'[j] = row[j] \/ row'[j] = NoRow, now <= now'
      PROVE  View(j)' \in Promise!Moves[View(j)]
  BY <1>t, <1>0, RowMoves, DroppedIsGone
<1>1. ASSUME NEW k \in Jobs, CommitCreate(k) PROVE Moved
  <2>1. k # j /\ now' = now
    BY <1>t, <1>1 DEF CommitCreate, JobInv
  <2>2. work'[j] = work[j]
    BY <1>t, <1>1, <2>1, EndType, EnterType DEF CommitCreate
  <2>3. row'[j] = row[j] \/ row'[j] = NoRow
    BY <1>t, <1>1, <2>1 DEF CommitCreate, Without
  <2> QED
    BY <1>t, <1>0, <2>1, <2>2, <2>3
<1>2. ASSUME NEW k \in Jobs, NEW o \in Owners, NEW p \in Replicas, BeginCreate(k, o, p)
      PROVE  Moved
  BY <1>t, <1>0, <1>2 DEF BeginCreate, Work
<1>3. ASSUME NEW k \in Jobs, End(k), row'[j] = row[j] \/ row'[j] = NoRow, now' = now
      PROVE  Moved
  <2>1. work'[j].told
    BY <1>t, <1>3, EndType, LeaveType
  <2> QED
    BY <1>t, <1>0, <1>3, <2>1
<1>4. ASSUME NEW k \in Jobs, FailCreate(k) \/ FailWrite(k) PROVE Moved
  BY <1>3, <1>4 DEF FailCreate, FailWrite
<1>5. ASSUME NEW k \in Jobs, StartWorker(k) PROVE Moved
  BY <1>t, <1>0, <1>5 DEF StartWorker, Work
<1>6. ASSUME NEW k \in Jobs, DropUnstarted(k) \/ Purge(k) PROVE Moved
  <2>1. /\ End(k) /\ now' = now
        /\ row'[j] = row[j] \/ row'[j] = NoRow
    BY <1>t, <1>6 DEF DropUnstarted, Purge, Without
  <2> QED
    BY <1>3, <2>1
<1>7. ASSUME NEW k \in Jobs, Heartbeat(k) PROVE Moved
  <2>1. now' = now
    BY <1>7 DEF Heartbeat
  <2>2. CASE k = j /\ Beatable(j) /\ row' = [row EXCEPT ![j].beat = now] /\ work' = work
    <3>1. /\ row'[j].expires = row[j].expires /\ row'[j].cancelled = row[j].cancelled
          /\ row'[j].state = row[j].state /\ row'[j].beat = now
      BY <1>t, <2>2 DEF Row
    <3>2. Live(j, now) /\ ~row[j].cancelled /\ Live(j, now)' /\ row[j].state = "running"
      BY <1>t, <2>1, <2>2, <3>1 DEF Beatable, Live, Row
    <3> QED
      BY <1>t, <2>1, <2>2, <3>1, <3>2, RowMoves
  <2>3. CASE k = j /\ row' = row /\ work' = [work EXCEPT ![j].stop = TRUE]
    BY <1>t, <1>0, <2>1, <2>3 DEF Work
  <2>4. CASE k # j
    <3>1. row'[j] = row[j] /\ work'[j] = work[j]
      BY <1>t, <1>7, <2>4 DEF Heartbeat
    <3> QED
      BY <1>t, <1>0, <2>1, <3>1
  <2> QED
    BY <1>7, <2>2, <2>3, <2>4 DEF Heartbeat
<1>8. ASSUME NEW k \in Jobs, UpstreamReturns(k) PROVE Moved
  <2>1. work'[j].told
    BY <1>t, <1>8 DEF UpstreamReturns, Work
  <2> QED
    BY <1>t, <1>0, <1>8, <2>1 DEF UpstreamReturns
<1>9. ASSUME NEW k \in Jobs, Finish(k) PROVE Moved
  <2>0. work[k].phase = "finishing" /\ now' = now
    BY <1>9 DEF Finish
  <2>1. CASE row' = row /\ Enter(k, "purging")
    <3>1. work'[j].told
      BY <1>t, <2>0, <2>1, EnterType DEF Work
    <3> QED
      BY <1>t, <1>0, <2>0, <2>1, <3>1
  <2>2. CASE k # j /\ row'[j] = row[j] /\ End(k)
    BY <1>3, <2>0, <2>2
  <2>3. CASE k = j /\ Recordable(j) /\ End(j)
             /\ row' = [row EXCEPT ![j] =
                          [row[j] EXCEPT !.state = work[j].result, !.beat = now]]
    <3>1. /\ row'[j].expires = row[j].expires /\ row'[j].cancelled = row[j].cancelled
          /\ row'[j].state \in {"succeeded", "failed"}
      BY <1>t, <2>0, <2>3 DEF Row, JobInv
    <3>2. Live(j, now) /\ ~row[j].cancelled
      BY <2>3 DEF Recordable
    <3>3. work'[j].told
      BY <1>t, <2>3, EndType, LeaveType
    <3> QED
      BY <1>t, <2>0, <3>1, <3>2, <3>3, RowMoves
  <2> QED
    BY <1>t, <1>9, <2>1, <2>2, <2>3 DEF Finish
<1>10. ASSUME NEW k \in Jobs, NEW p \in Replicas, Delete(k, p) PROVE Moved
  <2>0. /\ now' = now
        /\ work' = work \/ work' = [work EXCEPT ![k].stop = TRUE]
        /\ row' = [row EXCEPT ![k].cancelled = TRUE] \/ row' = Without({k})
    BY <1>10 DEF Delete
  <2>1. work'[j].told
    BY <1>t, <2>0 DEF Work
  <2>2. CASE k = j
    <3>1. row'[j].cancelled \/ row'[j] = NoRow
      BY <1>t, <2>0, <2>2 DEF Without, Row
    <3>2. View(j)' = "notfound"
      BY <1>t, <3>1, DroppedIsGone DEF View
    <3> QED
      BY <1>t, <2>0, <2>1, <3>2, RowMoves
  <2>3. CASE k # j
    <3>1. row'[j] = row[j]
      BY <1>t, <2>0, <2>3 DEF Without
    <3> QED
      BY <1>t, <1>0, <2>0, <2>1, <3>1
  <2> QED
    BY <2>2, <2>3
<1>11. CASE Prune
  BY <1>t, <1>0, <1>11 DEF Prune, Without
<1>12. ASSUME NEW p \in Replicas, Exit(p) PROVE Moved
  <2>1. work'[j] = work[j] \/ work'[j] = Leave(j, "dead")
    BY <1>t, <1>12 DEF Exit
  <2>2. work'[j].told
    BY <1>t, <2>1, LeaveType
  <2> QED
    BY <1>t, <1>0, <1>12, <2>2 DEF Exit
<1>13. CASE (\E p \in Replicas : BeginClose(p)) \/ Tick \/ UNCHANGED vars
  BY <1>t, <1>0, <1>13 DEF BeginClose, Tick, vars
<1>14. ASSUME NEW k \in Jobs, Worker(k) PROVE Moved
  BY <1>1, <1>5, <1>6, <1>8, <1>9, <1>14 DEF Worker
<1>15. CASE Next
  BY <1>2, <1>4, <1>7, <1>10, <1>11, <1>12, <1>13, <1>14, <1>15 DEF Next, EndClose, Crash
<1> QED
  BY <1>13, <1>15

\* A client is told of a job in whose row nothing has been recorded yet.
LEMMA ToldFirst ==
  ASSUME IInv, IInv', [Next]_vars, NEW j \in Jobs, ~work[j].told, work'[j].told
  PROVE  View(j)' \in Promise!Moves["none"]
<1>t. /\ TypeOK /\ TypeOK'
      /\ work \in [Jobs -> Work] /\ \A k \in Jobs : work[k] \in Work
  BY DEF IInv, TypeOK
<1>1. ASSUME NEW k \in Jobs, StartWorker(k) PROVE row'[j].state \in {"none", "running"}
  <2>1. k = j /\ row' = row
    BY <1>t, <1>1 DEF StartWorker
  <2> QED
    BY <1>1, <2>1 DEF StartWorker, IInv, JobInv
<1>2. ASSUME NEW k \in Jobs, End(k) PROVE FALSE
  BY <1>t, <1>2, EndType, LeaveType
<1>3. ASSUME NEW k \in Jobs, CommitCreate(k) PROVE FALSE
  <2>1. Enter(k, "inserted") /\ work[k].phase = "creating"
    BY <1>2, <1>3 DEF CommitCreate
  <2>2. work'[j] = work[j] \/ work'[j] = [work[j] EXCEPT !.phase = "inserted"]
    BY <1>t, <2>1, EnterType
  <2> QED
    BY <1>t, <2>2 DEF Work
<1>4. ASSUME NEW k \in Jobs, NEW o \in Owners, NEW p \in Replicas, BeginCreate(k, o, p)
      PROVE  FALSE
  BY <1>t, <1>4 DEF BeginCreate, Work
<1>5. ASSUME NEW k \in Jobs, Finish(k) PROVE FALSE
  <2>1. Enter(k, "purging") /\ work[k].phase = "finishing"
    BY <1>2, <1>5 DEF Finish
  <2>2. work'[j] = work[j] \/ work'[j] = [work[j] EXCEPT !.phase = "purging"]
    BY <1>t, <2>1, EnterType
  <2> QED
    BY <1>t, <2>2 DEF Work
<1>6. ASSUME NEW k \in Jobs, UpstreamReturns(k) PROVE FALSE
  BY <1>t, <1>6 DEF UpstreamReturns, Work
<1>7. ASSUME NEW k \in Jobs, FailCreate(k) \/ FailWrite(k) \/ DropUnstarted(k) \/ Purge(k)
      PROVE  FALSE
  BY <1>2, <1>7 DEF FailCreate, FailWrite, DropUnstarted, Purge
<1>8. ASSUME NEW k \in Jobs, work' = work \/ work' = [work EXCEPT ![k].stop = TRUE]
      PROVE  FALSE
  BY <1>t, <1>8 DEF Work
<1>9. ASSUME NEW k \in Jobs, Heartbeat(k) \/ \E p \in Replicas : Delete(k, p) PROVE FALSE
  BY <1>8, <1>9 DEF Heartbeat, Delete
<1>10. ASSUME NEW p \in Replicas, Exit(p) PROVE FALSE
  <2>1. work'[j] = work[j] \/ work'[j] = Leave(j, "dead")
    BY <1>t, <1>10 DEF Exit
  <2> QED
    BY <1>t, <2>1, LeaveType
<1>11. CASE UNCHANGED work
  BY <1>11
<1>12. ASSUME NEW k \in Jobs, Worker(k) PROVE row'[j].state \in {"none", "running"}
  BY <1>1, <1>3, <1>5, <1>6, <1>7, <1>12 DEF Worker
<1>13. row'[j].state \in {"none", "running"}
  BY <1>4, <1>7, <1>9, <1>10, <1>11, <1>12
  DEF Next, EndClose, Crash, BeginClose, Prune, Tick, vars
<1>14. View(j)' \in Views /\ View(j)' # "succeeded"
  <2>1. row'[j] \in Row /\ now' \in Nat
    BY <1>t DEF TypeOK
  <2> QED
    BY <1>13, <2>1 DEF View, Views, Exists, Row
<1> QED
  BY <1>14, AllowedMoves DEF Views

\* Rows, heartbeats and workers on any number of replicas implement the promise of
\* polling: a failed or finished job never turns into anything else, and a deleted one
\* never comes back.
THEOREM PollingKeepsPromise == Spec => KeepsPromise
<1>1. Init => Promise!Init
  BY DEF Init, Promise!Init, statusBar
<1>2. IInv /\ IInv' /\ [Next]_vars => [Promise!Next]_statusBar
  <2> SUFFICES ASSUME IInv, IInv', [Next]_vars PROVE Promise!Next
    OBVIOUS
  <2>1. DOMAIN statusBar' = Jobs
    BY DEF statusBar
  <2>2. ASSUME NEW j \in Jobs PROVE statusBar'[j] \in Promise!Moves[statusBar[j]]
    <3>1. CASE work[j].told
      <4>1. work'[j].told /\ View(j)' \in Promise!Moves[View(j)]
        BY <3>1, ToldMoves
      <4> QED
        BY <3>1, <4>1 DEF statusBar
    <3>2. CASE ~work[j].told /\ work'[j].told
      BY <3>2, ToldFirst DEF statusBar
    <3>3. CASE ~work[j].told /\ ~work'[j].told
      BY <3>3, AllowedMoves DEF statusBar
    <3> QED
      BY <3>1, <3>2, <3>3
  <2> QED
    BY <2>1, <2>2 DEF Promise!Next
<1> QED
  BY JobInvariance, <1>1, <1>2, PTL DEF Spec, KeepsPromise, Promise!Spec

----------------------------------------------------------------------------
\* The verdicts: none of the future, counts within the time there was.
VerdictInv(m) ==
  /\ verdict[m].stored => m <= minute
  /\ ~verdict[m].stored => verdict[m] = NoVerdict
  /\ verdict[m].badRuns <= m /\ verdict[m].goodRuns <= m
  /\ \A n \in 1..verdict[m].badRuns : LastBad(n, m)

\* What a verdict is before and after its streak was counted.
Fresh(v) ==
  v.stored /\ ~v.incident /\ v.badRuns + v.goodRuns = 1

Extends(v, was) ==
  /\ v.stored
  /\ \/ v.badRuns = 0 /\ v.goodRuns = was.goodRuns + 1
     \/ v.badRuns = was.badRuns + 1 /\ v.goodRuns = 0

\* A probe under way leads, or led until this minute, and builds on the newest
\* verdict before this minute.
ProbeInv(r) ==
  /\ probe[r].last <= minute
  /\ probe[r].step # "idle" =>
       probe[r].leads /\ probe[r].last < minute /\ (holder = r \/ lost = minute)
  /\ probe[r].step \in {"incidents", "streak"} =>
       probe[r].was = Previous(minute) /\ Fresh(probe[r].new)
  /\ probe[r].step \in {"open", "resolve", "record"} =>
       probe[r].was = Previous(minute) /\ Extends(probe[r].new, probe[r].was)
  /\ probe[r].step = "open" => probe[r].new.badRuns >= OpenAfter /\ ~HadIncident(r)

ProbesInv ==
  /\ ProbeTypeOK
  /\ MinuteCountsOnce
  /\ \A m \in Minutes : VerdictInv(m)
  /\ \A r \in Probers : ProbeInv(r)

----------------------------------------------------------------------------
\* A set of numbers below a bound has a greatest one.
LEMMA Greatest ==
  ASSUME NEW S, NEW b \in Nat, \A n \in S : n \in Nat /\ n <= b, S # {}
  PROVE  \E j \in S : \A k \in S : k <= j
<1> DEFINE T == {b - n : n \in S}
<1>1. T # {} /\ \A t \in T : t \in Nat
  OBVIOUS
<1> HIDE DEF T
<1>2. PICK x \in T : \A y \in T : <<y, x>> \notin OpToRel(<, Nat)
  BY <1>1, WFMin, NatLessThanWellFounded, Zenon
<1>3. \A y \in T : ~(y < x)
  BY <1>1, <1>2, Zenon DEF OpToRel
<1>4. PICK j \in S : x = b - j
  BY DEF T
<1>5. \A k \in S : ~(b - k < b - j)
  BY <1>3, <1>4 DEF T
<1> QED BY <1>5

\* What PreviousServiceVerdicts finds: the newest verdict of the window.
LEMMA PreviousIsNewest ==
  ASSUME NEW m \in Nat
  PROVE  \/ Recent(m) = {} /\ Previous(m) = NoVerdict
         \/ \E j \in Recent(m) :
              Previous(m) = verdict[j] /\ \A k \in Recent(m) : k <= j
<1>1. CASE Recent(m) = {}
  BY <1>1 DEF Previous
<1>2. CASE Recent(m) # {}
  <2>1. \A n \in Recent(m) : n \in Nat /\ n <= m
    BY DEF Recent, Minutes
  <2>2. \E j \in Recent(m) : \A k \in Recent(m) : k <= j
    BY <1>2, <2>1, Greatest
  <2> DEFINE c == CHOOSE n \in Recent(m) : \A k \in Recent(m) : k <= n
  <2>3. c \in Recent(m) /\ \A k \in Recent(m) : k <= c
    BY <2>2, Zenon
  <2>4. Previous(m) = verdict[c]
    BY <1>2, Zenon DEF Previous
  <2> QED BY <2>3, <2>4
<1> QED BY <1>1, <1>2

\* Storing the verdict of this minute does not change what came before it.
LEMMA PreviousKept ==
  ASSUME minute \in Nat, minute' = minute,
         \A n \in Minutes : n < minute => verdict'[n] = verdict[n]
  PROVE  Previous(minute)' = Previous(minute)
<1>1. Recent(minute)' = Recent(minute)
  BY DEF Recent, Minutes
<1>2. CASE Recent(minute) = {}
  BY <1>1, <1>2 DEF Previous
<1>3. CASE Recent(minute) # {}
  <2> DEFINE c == CHOOSE n \in Recent(minute) : \A k \in Recent(minute) : k <= n
  <2>1. \A n \in Recent(minute) : n \in Nat /\ n <= minute
    BY DEF Recent, Minutes
  <2>2. \E j \in Recent(minute) : \A k \in Recent(minute) : k <= j
    BY <1>3, <2>1, Greatest
  <2>3. c \in Recent(minute)
    BY <2>2, Zenon
  <2>4. Previous(minute) = verdict[c]
    BY <1>3, Zenon DEF Previous
  <2>5. Previous(minute)' = verdict'[c]
    BY <1>1, <1>3 DEF Previous
  <2>6. verdict'[c] = verdict[c]
    BY <2>3 DEF Recent
  <2> QED BY <2>4, <2>5, <2>6
<1> QED BY <1>2, <1>3

\* What a judgement starts from: a verdict whose streaks fit the past.
LEMMA PreviousFits ==
  ASSUME ProbesInv
  PROVE  /\ Previous(minute) \in Verdict
         /\ Previous(minute).badRuns < minute /\ Previous(minute).goodRuns < minute
<1>1. minute \in Nat /\ minute >= 1
  BY DEF ProbesInv, ProbeTypeOK, Minutes
<1>2. CASE Previous(minute) = NoVerdict
  BY <1>1, <1>2, ProbeAssumption DEF NoVerdict, Verdict
<1>3. CASE \E j \in Recent(minute) : Previous(minute) = verdict[j]
  <2>1. PICK j \in Minutes : j < minute /\ Previous(minute) = verdict[j]
    BY <1>3 DEF Recent
  <2>2. verdict[j] \in Verdict /\ verdict[j].badRuns <= j /\ verdict[j].goodRuns <= j
    BY DEF ProbesInv, ProbeTypeOK, VerdictInv
  <2>3. verdict[j].badRuns \in Nat /\ verdict[j].goodRuns \in Nat
    BY <2>2 DEF Verdict
  <2> QED BY <1>1, <2>1, <2>2, <2>3 DEF Minutes
<1> QED BY <1>1, <1>2, <1>3, PreviousIsNewest

----------------------------------------------------------------------------
\* A step that leaves the verdicts and the minute alone, and of the probes
\* changes at most the one of r.
LEMMA ProbeStep ==
  ASSUME ProbesInv, NEW r \in Probers, NEW x \in Probe,
         probe' = [probe EXCEPT ![r] = x],
         UNCHANGED <<minute, verdict, daily, faults>>,
         open' \in BOOLEAN, overruled' \in BOOLEAN,
         holder' \in Probers \cup {Free}, lost' \in 0..MaxMinute,
         \A q \in Probers \ {r} :
           probe[q].step # "idle" /\ (holder = q \/ lost = minute) =>
             holder' = q \/ lost' = minute,
         ProbeInv(r)'
  PROVE  ProbesInv'
<1>1. ProbeTypeOK'
  BY DEF ProbesInv, ProbeTypeOK
<1>2. MinuteCountsOnce'
  BY DEF ProbesInv, MinuteCountsOnce
<1>3. ASSUME NEW m \in Minutes PROVE VerdictInv(m)'
  BY DEF ProbesInv, VerdictInv, LastBad
<1>4. ASSUME NEW q \in Probers PROVE ProbeInv(q)'
  <2>1. CASE q = r
    BY <2>1
  <2>2. CASE q # r
    <3>1. probe'[q] = probe[q] /\ ProbeInv(q)
      BY <2>2 DEF ProbesInv, ProbeTypeOK
    <3>2. Previous(minute)' = Previous(minute)
      BY DEF Previous, Recent
    <3> QED BY <2>2, <3>1, <3>2 DEF ProbeInv, HadIncident
  <2> QED BY <2>1, <2>2
<1> QED BY <1>1, <1>2, <1>3, <1>4 DEF ProbesInv

\* The previous verdict is the same after a step that stores none.
LEMMA PreviousSame ==
  ASSUME UNCHANGED <<minute, verdict>>
  PROVE  Previous(minute)' = Previous(minute)
BY DEF Previous, Recent

\* A probe that is over is fine.
LEMMA DoneStep ==
  ASSUME ProbesInv, NEW r \in Probers, NEW leads \in BOOLEAN,
         probe' = [probe EXCEPT ![r] = Done(r, leads)],
         UNCHANGED minute
  PROVE  Done(r, leads) \in Probe /\ ProbeInv(r)'
<1>1. NoVerdict \in Verdict
  BY ProbeAssumption DEF NoVerdict, Verdict
<1>2. Done(r, leads) \in Probe
  <2>1. Off \in Probe
    BY <1>1, ProbeAssumption DEF Off, Probe, Steps
  <2>2. minute \in 0..MaxMinute
    BY DEF ProbesInv, ProbeTypeOK, Minutes
  <2> QED BY <2>1, <2>2 DEF Done, Probe
<1>3. probe'[r].step = "idle" /\ probe'[r].last = minute
  BY DEF ProbesInv, ProbeTypeOK, Minutes, Done, Off
<1>4. minute <= minute
  BY DEF ProbesInv, ProbeTypeOK, Minutes
<1> QED BY <1>2, <1>3, <1>4 DEF ProbeInv

LEMMA LeadStep ==
  ASSUME ProbesInv, NEW r \in Probers, Lead(r) PROVE ProbesInv'
<1> DEFINE x == [probe[r] EXCEPT !.step = "previous", !.leads = TRUE]
<1>1. x \in Probe /\ probe[r] \in Probe
  BY DEF ProbesInv, ProbeTypeOK, Probe, Steps
<1>2. ASSUME probe' = [probe EXCEPT ![r] = x], holder' = r PROVE ProbeInv(r)'
  <2>1. probe'[r] = x
    BY <1>2 DEF ProbesInv, ProbeTypeOK
  <2>2. minute' = minute /\ probe[r].last < minute
    BY DEF Lead
  <2>3. probe[r].last \in Nat /\ minute \in Nat
    BY <1>1 DEF Probe, ProbesInv, ProbeTypeOK, Minutes
  <2>4. x.step = "previous" /\ x.leads /\ x.last = probe[r].last
    BY <1>1 DEF Probe
  <2> HIDE DEF x
  <2> QED BY <1>2, <2>1, <2>2, <2>3, <2>4 DEF ProbeInv
<1>3. CASE Confirmed(r) /\ probe' = [probe EXCEPT ![r].step = "previous"] /\ UNCHANGED holder
  <2>1. probe' = [probe EXCEPT ![r] = x] /\ holder' = r
    BY <1>1, <1>3 DEF Confirmed, ProbesInv, ProbeTypeOK, Probe
  <2>2. ProbeInv(r)'
    BY <1>2, <2>1
  <2> QED BY <1>1, <1>3, <2>1, <2>2, ProbeStep DEF Lead, ProbesInv, ProbeTypeOK
<1>4. CASE /\ holder = Free /\ holder' = r
           /\ probe' = [probe EXCEPT ![r].step = "previous", ![r].leads = TRUE]
  <2>1. probe' = [probe EXCEPT ![r] = x]
    BY <1>1, <1>4 DEF ProbesInv, ProbeTypeOK, Probe
  <2>2. ProbeInv(r)'
    BY <1>2, <1>4, <2>1
  <2> QED BY <1>1, <1>4, <2>1, <2>2, ProbeStep, ProbeAssumption DEF Lead, ProbesInv, ProbeTypeOK
<1>5. CASE probe' = [probe EXCEPT ![r] = Done(r, FALSE)] /\ UNCHANGED holder
  <2>1. Done(r, FALSE) \in Probe /\ ProbeInv(r)'
    BY <1>5, DoneStep DEF Lead
  <2> QED BY <1>5, <2>1, ProbeStep DEF Lead, ProbesInv, ProbeTypeOK
<1> QED BY <1>3, <1>4, <1>5 DEF Lead

\* A session that ends takes the lock with it and is noted.
LEMMA EndStep ==
  ASSUME ProbesInv, NEW r \in Probers,
         LeadFails(r) \/ CrashProber(r)
  PROVE  ProbesInv'
<1>1. probe' = [probe EXCEPT ![r] = Done(r, FALSE)]
      /\ UNCHANGED <<minute, verdict, daily, open, overruled, faults>>
  BY DEF LeadFails, CrashProber
<1>2. Done(r, FALSE) \in Probe /\ ProbeInv(r)'
  BY <1>1, DoneStep
<1>3. holder' = IF holder = r THEN Free ELSE holder
  BY DEF LeadFails, CrashProber
<1>4. lost' = IF holder = r THEN minute ELSE lost
  BY DEF LeadFails, CrashProber
<1>5. holder' \in Probers \cup {Free} /\ lost' \in 0..MaxMinute
  BY <1>3, <1>4 DEF ProbesInv, ProbeTypeOK, Minutes
<1>6. \A q \in Probers \ {r} :
        probe[q].step # "idle" /\ (holder = q \/ lost = minute) =>
          holder' = q \/ lost' = minute
  BY <1>3, <1>4
<1> QED BY <1>1, <1>2, <1>5, <1>6, ProbeStep DEF ProbesInv, ProbeTypeOK

LEMMA LoseSessionStep ==
  ASSUME ProbesInv, NEW r \in Probers, LoseSession(r) PROVE ProbesInv'
<1>1. probe[r] \in Probe /\ probe' = [probe EXCEPT ![r] = probe[r]] /\ probe' = probe
  BY DEF ProbesInv, ProbeTypeOK, LoseSession
<1>2. minute' = minute /\ lost' = minute /\ holder' = Free
  BY DEF LoseSession
<1>3. Previous(minute)' = Previous(minute)
  BY PreviousSame DEF LoseSession
<1>4. ProbeInv(r)
  BY DEF ProbesInv
<1>5. ProbeInv(r)'
  BY <1>1, <1>2, <1>3, <1>4 DEF ProbeInv, HadIncident
<1>6. holder' \in Probers \cup {Free} /\ lost' \in 0..MaxMinute
  BY <1>2 DEF ProbesInv, ProbeTypeOK, Minutes
<1>7. UNCHANGED <<minute, verdict, daily, faults>>
      /\ open' \in BOOLEAN /\ overruled' \in BOOLEAN
  BY DEF LoseSession, ProbesInv, ProbeTypeOK
<1>8. \A q \in Probers \ {r} : lost' = minute
  BY <1>2
<1> QED BY <1>1, <1>5, <1>6, <1>7, <1>8, ProbeStep

\* A judging probe goes on: it keeps its leadership and its minute.
LEMMA JudgingStep ==
  ASSUME ProbesInv, NEW r \in Probers, probe[r].step # "idle",
         NEW x \in Probe, probe' = [probe EXCEPT ![r] = x],
         x.leads = probe[r].leads, x.last = probe[r].last,
         UNCHANGED <<minute, verdict, daily, holder, overruled, lost, faults>>,
         open' \in BOOLEAN,
         x.step \in {"incidents", "streak"} =>
           x.was = Previous(minute) /\ Fresh(x.new),
         x.step \in {"open", "resolve", "record"} =>
           x.was = Previous(minute) /\ Extends(x.new, x.was),
         x.step = "open" =>
           /\ x.new.badRuns >= OpenAfter
           /\ ~(x.sawOpen \/ (x.was.badRuns > 0 /\ x.was.incident))
  PROVE  ProbesInv'
<1>1. probe'[r] = x /\ ProbeInv(r)
  BY DEF ProbesInv, ProbeTypeOK
<1>2. Previous(minute)' = Previous(minute)
  BY PreviousSame
<1>3. x.leads /\ x.last < minute /\ x.last <= minute /\ (holder = r \/ lost = minute)
  BY <1>1 DEF ProbeInv
<1>4. minute' = minute /\ holder' = holder /\ lost' = lost
  OBVIOUS
<1>5. x.step = "open" => ~HadIncident(r)'
  BY <1>1, Zenon DEF HadIncident
<1>6. ProbeInv(r)'
  BY <1>1, <1>2, <1>3, <1>4, <1>5 DEF ProbeInv
<1> QED BY <1>6, ProbeStep DEF ProbesInv, ProbeTypeOK

LEMMA ReadPreviousStep ==
  ASSUME ProbesInv, NEW r \in Probers, ReadPrevious(r) PROVE ProbesInv'
<1>1. PICK bad \in BOOLEAN :
        probe' = [probe EXCEPT
          ![r] = [@ EXCEPT !.step = "incidents", !.was = Previous(minute),
             !.new = [NoVerdict EXCEPT !.stored = TRUE,
                        !.badRuns = IF bad THEN 1 ELSE 0,
                        !.goodRuns = IF bad THEN 0 ELSE 1]]]
  BY DEF ReadPrevious
<1> DEFINE new == [NoVerdict EXCEPT !.stored = TRUE, !.badRuns = IF bad THEN 1 ELSE 0,
                                    !.goodRuns = IF bad THEN 0 ELSE 1]
           x == [probe[r] EXCEPT !.step = "incidents", !.was = Previous(minute), !.new = new]
<1>2. NoVerdict \in Verdict
  BY ProbeAssumption DEF NoVerdict, Verdict
<1>3. new \in Verdict
  <2>1. 0 \in 0..MaxMinute /\ 1 \in 0..MaxMinute
    BY ProbeAssumption
  <2>2. (IF bad THEN 1 ELSE 0) \in 0..MaxMinute /\ (IF bad THEN 0 ELSE 1) \in 0..MaxMinute
    BY <2>1
  <2> QED BY <1>2, <2>2 DEF Verdict
<1>4. Fresh(new)
  BY ProbeAssumption DEF NoVerdict, Fresh
<1>5. probe' = [probe EXCEPT ![r] = x] /\ probe[r] \in Probe
  BY <1>1 DEF ProbesInv, ProbeTypeOK
<1> HIDE DEF new
<1>6. x \in Probe
  BY <1>3, <1>5, PreviousFits DEF Probe, Steps
<1>7. /\ x.step = "incidents" /\ x.was = Previous(minute) /\ x.new = new
      /\ x.leads = probe[r].leads /\ x.last = probe[r].last
  BY <1>5 DEF Probe
<1> HIDE DEF x
<1>8. /\ probe[r].step # "idle" /\ open' \in BOOLEAN
      /\ UNCHANGED <<minute, verdict, daily, holder, overruled, lost, faults>>
  BY DEF ReadPrevious, ProbesInv, ProbeTypeOK
<1> QED BY <1>4, <1>5, <1>6, <1>7, <1>8, JudgingStep

LEMMA ReadIncidentsStep ==
  ASSUME ProbesInv, NEW r \in Probers, ReadIncidents(r) PROVE ProbesInv'
<1> DEFINE x == [probe[r] EXCEPT !.step = "streak", !.sawOpen = open]
<1>1. probe' = [probe EXCEPT ![r] = x] /\ probe[r] \in Probe
  BY DEF ReadIncidents, ProbesInv, ProbeTypeOK
<1>2. x \in Probe
  BY <1>1 DEF Probe, Steps, ProbesInv, ProbeTypeOK
<1>3. /\ x.step = "streak" /\ x.was = probe[r].was /\ x.new = probe[r].new
      /\ x.leads = probe[r].leads /\ x.last = probe[r].last
  BY <1>1 DEF Probe
<1>4. probe[r].step = "incidents" /\ ProbeInv(r)
  BY DEF ReadIncidents, ProbesInv
<1>5. x.was = Previous(minute) /\ Fresh(x.new)
  BY <1>3, <1>4 DEF ProbeInv
<1> HIDE DEF x
<1> QED BY <1>1, <1>2, <1>3, <1>4, <1>5, JudgingStep DEF ReadIncidents, ProbesInv, ProbeTypeOK

LEMMA ReadFailsStep ==
  ASSUME ProbesInv, NEW r \in Probers, ReadFails(r) \/ RecordFails(r) PROVE ProbesInv'
<1>1. Done(r, TRUE) \in Probe /\ ProbeInv(r)'
  BY DoneStep DEF ReadFails, RecordFails
<1> QED BY <1>1, ProbeStep DEF ReadFails, RecordFails, ProbesInv, ProbeTypeOK

LEMMA StreakStep ==
  ASSUME ProbesInv, NEW r \in Probers, Streak(r) PROVE ProbesInv'
<1> DEFINE new == [stored |-> TRUE, badRuns |-> BadRuns(r), goodRuns |-> GoodRuns(r),
                   incident |-> Bad(r) /\ HadIncident(r)]
           step == CASE Opens(r) -> "open"
                     [] Resolves(r) -> "resolve"
                     [] ~Opens(r) /\ ~Resolves(r) -> "record"
           x == [probe[r] EXCEPT !.new = new, !.step = step]
<1>1. probe' = [probe EXCEPT ![r] = x] /\ probe[r] \in Probe
  BY DEF Streak, ProbesInv, ProbeTypeOK
<1>2. probe[r].was = Previous(minute) /\ ProbeInv(r)
  BY DEF Streak, ProbesInv, ProbeInv
<1>3. /\ probe[r].was \in Verdict /\ minute \in 1..MaxMinute
      /\ probe[r].was.badRuns < minute /\ probe[r].was.goodRuns < minute
  BY <1>2, PreviousFits DEF ProbesInv, ProbeTypeOK, Minutes
<1>4. new \in Verdict /\ Extends(new, probe[r].was) /\ new.badRuns = BadRuns(r)
  <2>1. probe[r].was.badRuns \in Nat /\ probe[r].was.goodRuns \in Nat
    BY <1>3 DEF Verdict
  <2>2. BadRuns(r) \in 0..MaxMinute /\ GoodRuns(r) \in 0..MaxMinute
    BY <1>3, <2>1, ProbeAssumption DEF BadRuns, GoodRuns
  <2>3. (Bad(r) /\ HadIncident(r)) \in BOOLEAN
    BY Zenon
  <2>4. new \in Verdict
    BY <2>2, <2>3 DEF Verdict
  <2>5. Extends(new, probe[r].was)
    BY DEF Extends, BadRuns, GoodRuns
  <2> QED BY <2>4, <2>5
<1>5. /\ step \in {"open", "resolve", "record"}
      /\ step = "open" => Opens(r)
  OBVIOUS
<1> HIDE DEF new, step
<1>6. x \in Probe
  BY <1>1, <1>4, <1>5 DEF Probe, Steps
<1>7. /\ x.step = step /\ x.was = probe[r].was /\ x.new = new
      /\ x.leads = probe[r].leads /\ x.last = probe[r].last
      /\ x.sawOpen = probe[r].sawOpen
  BY <1>1 DEF Probe
<1> HIDE DEF x
<1>8. x.step = "open" =>
        /\ x.new.badRuns >= OpenAfter
        /\ ~(x.sawOpen \/ (x.was.badRuns > 0 /\ x.was.incident))
  BY <1>4, <1>5, <1>7 DEF Opens, HadIncident
<1>9. /\ probe[r].step # "idle" /\ open' \in BOOLEAN
      /\ UNCHANGED <<minute, verdict, daily, holder, overruled, lost, faults>>
  BY DEF Streak, ProbesInv, ProbeTypeOK
<1> QED BY <1>1, <1>2, <1>4, <1>5, <1>6, <1>7, <1>8, <1>9, JudgingStep

LEMMA IncidentStep ==
  ASSUME ProbesInv, NEW r \in Probers, OpenIncident(r) \/ ResolveIncident(r) PROVE ProbesInv'
<1>1. /\ probe[r].step \in {"open", "resolve"}
      /\ UNCHANGED <<minute, verdict, daily, holder, overruled, lost, faults>>
      /\ open' \in BOOLEAN
  BY DEF OpenIncident, ResolveIncident, ProbesInv, ProbeTypeOK
<1>2. PICK known \in BOOLEAN :
        probe' = [probe EXCEPT ![r] =
          [probe[r] EXCEPT !.step = "record",
                           !.new = [probe[r].new EXCEPT !.incident = known]]]
  <2>1. probe[r] \in Probe /\ probe[r].new \in Verdict
    BY DEF ProbesInv, ProbeTypeOK, Probe
  <2>2. probe[r].new.incident \in BOOLEAN
        /\ probe[r].new = [probe[r].new EXCEPT !.incident = probe[r].new.incident]
    BY <2>1 DEF Verdict
  <2>3. probe[r] = [probe[r] EXCEPT !.new = [probe[r].new EXCEPT !.incident = probe[r].new.incident]]
    BY <2>1, <2>2 DEF Probe
  <2>4. CASE \E known \in BOOLEAN :
               probe' = [probe EXCEPT ![r].step = "record", ![r].new.incident = known]
    BY <2>1, <2>4 DEF ProbesInv, ProbeTypeOK, Probe
  <2>5. CASE probe' = [probe EXCEPT ![r].step = "record"]
    <3>1. [probe[r] EXCEPT !.step = "record"] =
          [probe[r] EXCEPT !.step = "record",
             !.new = [probe[r].new EXCEPT !.incident = probe[r].new.incident]]
      BY <2>1, <2>2 DEF Probe
    <3> QED BY <2>1, <2>2, <2>5, <3>1 DEF ProbesInv, ProbeTypeOK
  <2> QED BY <2>4, <2>5 DEF OpenIncident, ResolveIncident
<1> DEFINE new == [probe[r].new EXCEPT !.incident = known]
           x == [probe[r] EXCEPT !.step = "record", !.new = new]
<1>3. probe[r] \in Probe /\ probe[r].new \in Verdict /\ probe[r].was \in Verdict
      /\ ProbeInv(r)
  BY DEF ProbesInv, ProbeTypeOK, Probe
<1>4. new \in Verdict /\ Extends(new, probe[r].was)
  BY <1>1, <1>3 DEF ProbeInv, Verdict, Extends
<1> HIDE DEF new
<1>5. x \in Probe
  BY <1>3, <1>4 DEF Probe, Steps
<1>6. /\ x.step = "record" /\ x.was = probe[r].was /\ x.new = new
      /\ x.leads = probe[r].leads /\ x.last = probe[r].last
  BY <1>3 DEF Probe
<1>7. probe' = [probe EXCEPT ![r] = x] /\ probe[r].was = Previous(minute)
  BY <1>1, <1>2, <1>3 DEF ProbeInv, new
<1> HIDE DEF x
<1> QED BY <1>1, <1>4, <1>5, <1>6, <1>7, JudgingStep

\* The streak of a verdict that is stored ends in it, and so does every
\* shorter one.
LEMMA StreakGrows ==
  ASSUME ProbesInv, minute' = minute, NEW v \in Verdict, Unjudged(minute),
         verdict' = [verdict EXCEPT ![minute] = v],
         Extends(v, Previous(minute)), NEW n \in 1..v.badRuns
  PROVE  LastBad(n, minute)'
<1>1. /\ minute \in 1..MaxMinute /\ minute \in Minutes /\ verdict'[minute] = v
      /\ \A k \in Minutes \ {minute} : verdict'[k] = verdict[k]
      /\ \A k \in Minutes : verdict[k] \in Verdict
  BY DEF ProbesInv, ProbeTypeOK, Minutes
<1>2. v.stored /\ v.badRuns = Previous(minute).badRuns + 1 /\ v.goodRuns = 0
  BY DEF Extends, Verdict
<1>3. Previous(minute).badRuns \in Nat
  BY PreviousFits DEF Verdict
<1>4. CASE n = 1
  <2> DEFINE span == {k \in minute..minute : verdict'[k].stored}
  <2>1. span = {minute}
    BY <1>1, <1>2
  <2>2. Cardinality(span) = 1
    BY <2>1, FS_Singleton
  <2>3. \A k \in span : verdict'[k].goodRuns = 0
    BY <1>1, <1>2, <2>1
  <2>4. minute \in 1..minute + 1
    BY <1>1
  <2> HIDE DEF span
  <2> QED BY <1>4, <2>2, <2>3, <2>4 DEF LastBad, span
<1>5. CASE n > 1
  <2>1. n - 1 \in 1..Previous(minute).badRuns
    BY <1>2, <1>3, <1>5
  <2>2. PICK j \in Recent(minute) :
          Previous(minute) = verdict[j] /\ \A k \in Recent(minute) : k <= j
    BY <1>1, <2>1, PreviousIsNewest DEF NoVerdict
  <2>3. j \in Minutes /\ j < minute /\ VerdictInv(j)
    BY <2>2 DEF Recent, ProbesInv
  <2>4. LastBad(n - 1, j)
    BY <2>1, <2>2, <2>3 DEF VerdictInv
  <2>5. PICK first \in 1..j + 1 :
          /\ Cardinality({k \in first..j : verdict[k].stored}) = n - 1
          /\ \A k \in {i \in first..j : verdict[i].stored} : verdict[k].goodRuns = 0
    BY <2>4 DEF LastBad
  <2> DEFINE span == {k \in first..j : verdict[k].stored}
             grown == {k \in first..minute : verdict'[k].stored}
  <2>6. \A k \in Minutes : k > j /\ k < minute => ~verdict[k].stored
    BY <1>1, <2>2, <2>3, ProbeAssumption DEF Recent, Minutes
  <2>7. first \in 1..minute + 1 /\ first..minute \subseteq Minutes /\ first <= minute
    BY <1>1, <2>3, <2>5, ProbeAssumption DEF Minutes
  <2>8. grown = span \cup {minute} /\ minute \notin span
    BY <1>1, <1>2, <2>3, <2>6, <2>7 DEF Minutes
  <2>9. IsFiniteSet(span)
    <3>1. IsFiniteSet(first..j)
      BY <2>3, <2>7, FS_Interval DEF Minutes
    <3> QED BY <3>1, FS_Subset
  <2>10. Cardinality(grown) = n
    <3>1. Cardinality(span) = n - 1
      BY <2>5
    <3> HIDE DEF span, grown
    <3>2. Cardinality(grown) = Cardinality(span) + 1
      BY <2>8, <2>9, FS_AddElement
    <3> QED BY <1>2, <1>3, <3>1, <3>2
  <2>11. \A k \in grown : verdict'[k].goodRuns = 0
    BY <1>1, <1>2, <2>3, <2>5, <2>7, <2>8 DEF Minutes
  <2> HIDE DEF grown
  <2> QED BY <2>7, <2>10, <2>11 DEF LastBad, grown
<1> QED BY <1>4, <1>5

\* RecordServiceVerdicts: a minute that has its verdict keeps it, one that has
\* none counts now.
LEMMA RecordStep ==
  ASSUME ProbesInv, NEW r \in Probers, Record(r) PROVE ProbesInv'
<1> DEFINE v == probe[r].new
<1>1. /\ probe' = [probe EXCEPT ![r] = Done(r, TRUE)]
      /\ UNCHANGED <<minute, open, holder, lost, faults>>
  BY DEF Record
<1>2. Done(r, TRUE) \in Probe /\ ProbeInv(r)'
  BY <1>1, DoneStep
<1>3. CASE ~Unjudged(minute)
  BY <1>1, <1>2, <1>3, ProbeStep DEF Record, ProbesInv, ProbeTypeOK
<1>4. CASE Unjudged(minute)
  <2>1. /\ verdict' = [verdict EXCEPT ![minute] = v] /\ daily' = daily + 1
        /\ overruled' = (overruled /\ v.badRuns > 0)
    BY <1>4 DEF Record
  <2>2. v \in Verdict /\ Extends(v, Previous(minute))
    <3>1. probe[r].step = "record" /\ probe[r] \in Probe /\ ProbeInv(r)
      BY DEF Record, ProbesInv, ProbeTypeOK
    <3> QED BY <3>1 DEF ProbeInv, Probe
  <2>3. minute \in Minutes /\ minute \in Nat /\ verdict \in [Minutes -> Verdict]
    BY DEF ProbesInv, ProbeTypeOK, Minutes
  <2>4. Previous(minute) \in Verdict /\ Previous(minute).badRuns < minute
        /\ Previous(minute).goodRuns < minute
    BY PreviousFits
  <2>5. /\ v.badRuns \in Nat /\ v.goodRuns \in Nat /\ v.stored
        /\ v.badRuns <= minute /\ v.goodRuns <= minute
        /\ v.badRuns = 0 <=> v.goodRuns # 0
    BY <2>2, <2>3, <2>4 DEF Extends, Verdict
  <2> HIDE DEF v
  <2>6. /\ verdict' \in [Minutes -> Verdict] /\ verdict'[minute] = v
        /\ \A k \in Minutes \ {minute} : verdict'[k] = verdict[k]
    BY <2>1, <2>2, <2>3
  <2>7. ProbeTypeOK'
    <3>1. probe' \in [Probers -> Probe]
      BY <1>1, <1>2 DEF ProbesInv, ProbeTypeOK
    <3>2. \A m \in Minutes :
            verdict'[m].stored => (verdict'[m].badRuns = 0 <=> verdict'[m].goodRuns # 0)
      BY <2>5, <2>6 DEF ProbesInv, ProbeTypeOK
    <3>3. daily' \in Nat /\ overruled' \in BOOLEAN
      BY <2>1 DEF ProbesInv, ProbeTypeOK
    <3> QED BY <1>1, <2>6, <3>1, <3>2, <3>3 DEF ProbesInv, ProbeTypeOK
  <2>8. MinuteCountsOnce'
    <3> DEFINE counted == {m \in Minutes : verdict[m].stored}
               all == {m \in Minutes : verdict'[m].stored}
    <3>1. all = counted \cup {minute} /\ minute \notin counted
      BY <1>4, <2>3, <2>5, <2>6 DEF Unjudged
    <3>2. IsFiniteSet(counted)
      <4>1. IsFiniteSet(1..MaxMinute)
        BY FS_Interval, ProbeAssumption
      <4> QED BY <4>1, FS_Subset DEF Minutes
    <3>3. daily = Cardinality(counted)
      BY DEF ProbesInv, MinuteCountsOnce
    <3> HIDE DEF counted, all
    <3>4. Cardinality(all) = Cardinality(counted) + 1
      BY <3>1, <3>2, FS_AddElement
    <3> QED BY <2>1, <3>3, <3>4 DEF MinuteCountsOnce, all
  <2>9. ASSUME NEW m \in Minutes PROVE VerdictInv(m)'
    <3>1. VerdictInv(m) /\ minute' = minute
      BY <1>1 DEF ProbesInv
    <3>2. CASE m = minute
      <4>1. \A n \in 1..v.badRuns : LastBad(n, minute)'
        BY <1>1, <1>4, <2>1, <2>2, StreakGrows
      <4>2. \A n \in 1..v.badRuns : LastBad(n, m)'
        BY <1>1, <3>2, <4>1 DEF LastBad
      <4> QED BY <2>3, <2>5, <2>6, <3>1, <3>2, <4>2 DEF VerdictInv
    <3>3. CASE m < minute
      <4>1. verdict'[m] = verdict[m] /\ m \in Nat
        BY <2>3, <2>6, <3>3 DEF Minutes
      <4>2. \A k \in 1..m : verdict'[k] = verdict[k]
        BY <2>3, <2>6, <3>3, ProbeAssumption DEF Minutes
      <4>3. ASSUME NEW n \in 1..verdict[m].badRuns PROVE LastBad(n, m)'
        <5>1. PICK first \in 1..m + 1 :
                /\ Cardinality({k \in first..m : verdict[k].stored}) = n
                /\ \A k \in {i \in first..m : verdict[i].stored} : verdict[k].goodRuns = 0
          BY <3>1 DEF VerdictInv, LastBad
        <5>2. {k \in first..m : verdict'[k].stored} = {k \in first..m : verdict[k].stored}
          BY <4>1, <4>2
        <5>3. \A k \in {i \in first..m : verdict[i].stored} : verdict'[k].goodRuns = 0
          BY <4>1, <4>2, <5>1
        <5> QED BY <5>1, <5>2, <5>3 DEF LastBad
      <4> QED BY <3>1, <4>1, <4>3 DEF VerdictInv
    <3>4. CASE m > minute
      <4>1. verdict'[m] = verdict[m] /\ ~verdict[m].stored /\ verdict[m] = NoVerdict
        BY <2>3, <2>6, <3>1, <3>4 DEF VerdictInv, Minutes
      <4>2. 1..verdict[m].badRuns = {}
        BY <4>1 DEF NoVerdict
      <4> QED BY <3>1, <4>1, <4>2 DEF VerdictInv
    <3> QED BY <2>3, <3>2, <3>3, <3>4 DEF Minutes
  <2>10. ASSUME NEW q \in Probers PROVE ProbeInv(q)'
    <3>1. Previous(minute)' = Previous(minute)
      BY <1>1, <2>3, <2>6, PreviousKept
    <3>2. CASE q # r
      <4>1. probe'[q] = probe[q] /\ ProbeInv(q)
        BY <1>1, <3>2 DEF ProbesInv, ProbeTypeOK
      <4> QED BY <1>1, <3>1, <4>1 DEF ProbeInv, HadIncident
    <3> QED BY <1>2, <3>2
  <2> QED BY <2>7, <2>8, <2>9, <2>10 DEF ProbesInv
<1> QED BY <1>3, <1>4

LEMMA AdminResolveStep == ASSUME ProbesInv, AdminResolve PROVE ProbesInv'
<1>1. /\ UNCHANGED <<minute, verdict, daily, holder, probe, lost, faults>>
      /\ open' \in BOOLEAN /\ overruled' \in BOOLEAN
  BY DEF AdminResolve, Failing, ProbesInv, ProbeTypeOK
<1>2. Previous(minute)' = Previous(minute)
  BY <1>1, PreviousSame
<1>3. ProbeTypeOK' /\ MinuteCountsOnce'
  BY <1>1 DEF ProbesInv, ProbeTypeOK, MinuteCountsOnce
<1>4. ASSUME NEW m \in Minutes PROVE VerdictInv(m)'
  BY <1>1 DEF ProbesInv, VerdictInv, LastBad
<1>5. ASSUME NEW r \in Probers PROVE ProbeInv(r)'
  <2>1. ProbeInv(r)
    BY DEF ProbesInv
  <2> QED BY <1>1, <1>2, <2>1 DEF ProbeInv, HadIncident
<1> QED BY <1>3, <1>4, <1>5 DEF ProbesInv

LEMMA NextMinuteStep == ASSUME ProbesInv, NextMinute PROVE ProbesInv'
<1>1. /\ UNCHANGED <<verdict, daily, open, holder, probe, lost, faults>>
      /\ minute' = minute + 1 /\ minute < MaxMinute
      /\ \A r \in Probers : probe[r].step = "idle" /\ probe[r].last = minute
      /\ overruled' \in BOOLEAN
  BY DEF NextMinute, ProbesInv, ProbeTypeOK
<1>2. minute' \in Minutes
  BY <1>1, ProbeAssumption DEF ProbesInv, ProbeTypeOK, Minutes
<1>3. ProbeTypeOK' /\ MinuteCountsOnce'
  BY <1>1, <1>2 DEF ProbesInv, ProbeTypeOK, MinuteCountsOnce
<1>4. ASSUME NEW m \in Minutes PROVE VerdictInv(m)'
  <2>1. VerdictInv(m) /\ m \in Nat /\ minute \in Nat
    BY DEF ProbesInv, ProbeTypeOK, Minutes
  <2>2. \A n \in Nat : LastBad(n, m)' = LastBad(n, m)
    BY <1>1 DEF LastBad
  <2>3. verdict[m].stored => m <= minute'
    BY <1>1, <2>1 DEF VerdictInv
  <2> QED BY <1>1, <2>1, <2>2, <2>3 DEF VerdictInv
<1>5. ASSUME NEW r \in Probers PROVE ProbeInv(r)'
  BY <1>1 DEF ProbeInv, ProbesInv, ProbeTypeOK, Minutes
<1> QED BY <1>3, <1>4, <1>5 DEF ProbesInv

LEMMA Started == ProbeInit => ProbesInv
<1> SUFFICES ASSUME ProbeInit PROVE ProbesInv
  OBVIOUS
<1>1. NoVerdict \in Verdict /\ NoVerdict.badRuns = 0 /\ NoVerdict.goodRuns = 0
      /\ ~NoVerdict.stored
  BY ProbeAssumption DEF NoVerdict, Verdict
<1>2. Off \in Probe /\ Off.step = "idle" /\ Off.last = 0
  BY <1>1, ProbeAssumption DEF Off, Probe, Steps
<1>3. /\ minute = 1 /\ verdict \in [Minutes -> Verdict] /\ probe \in [Probers -> Probe]
      /\ \A m \in Minutes : verdict[m] = NoVerdict
      /\ \A r \in Probers : probe[r] = Off
  BY <1>1, <1>2 DEF ProbeInit
<1>4. ProbeTypeOK
  <2>1. minute \in Minutes /\ lost \in 0..MaxMinute
    BY <1>3, ProbeAssumption DEF ProbeInit, Minutes
  <2> QED BY <1>1, <1>3, <2>1 DEF ProbeInit, ProbeTypeOK
<1>5. MinuteCountsOnce
  <2>1. {m \in Minutes : verdict[m].stored} = {}
    BY <1>1, <1>3
  <2> QED BY <2>1, FS_EmptySet DEF MinuteCountsOnce, ProbeInit
<1>6. ASSUME NEW m \in Minutes PROVE VerdictInv(m)
  <2>1. 1..verdict[m].badRuns = {}
    BY <1>1, <1>3
  <2> QED BY <1>1, <1>3, <2>1 DEF VerdictInv, Minutes
<1>7. ASSUME NEW r \in Probers PROVE ProbeInv(r)
  BY <1>2, <1>3 DEF ProbeInv
<1> QED BY <1>4, <1>5, <1>6, <1>7 DEF ProbesInv

LEMMA Stutters == ASSUME ProbesInv, UNCHANGED probeVars PROVE ProbesInv'
<1>1. UNCHANGED <<minute, verdict, daily, open, holder, probe, overruled, lost, faults>>
  BY DEF probeVars
<1>2. ProbeTypeOK' /\ MinuteCountsOnce'
  BY <1>1 DEF ProbesInv, ProbeTypeOK, MinuteCountsOnce
<1>3. ASSUME NEW m \in Minutes PROVE VerdictInv(m)'
  BY <1>1 DEF ProbesInv, VerdictInv, LastBad
<1>4. ASSUME NEW r \in Probers PROVE ProbeInv(r)'
  <2>1. ProbeInv(r) /\ Previous(minute)' = Previous(minute)
    BY <1>1, PreviousSame DEF ProbesInv
  <2> QED BY <1>1, <2>1 DEF ProbeInv, HadIncident
<1> QED BY <1>2, <1>3, <1>4 DEF ProbesInv

LEMMA Kept == ASSUME ProbesInv, [ProbeNext]_probeVars PROVE ProbesInv'
<1>1. ASSUME NEW r \in Probers,
             \/ Lead(r) \/ LeadFails(r) \/ ReadPrevious(r) \/ ReadIncidents(r)
             \/ ReadFails(r) \/ Streak(r) \/ OpenIncident(r) \/ ResolveIncident(r)
             \/ Record(r) \/ RecordFails(r) \/ LoseSession(r) \/ CrashProber(r)
      PROVE  ProbesInv'
  BY <1>1, LeadStep, EndStep, ReadPreviousStep, ReadIncidentsStep, ReadFailsStep,
     StreakStep, IncidentStep, RecordStep, LoseSessionStep
<1> QED BY <1>1, AdminResolveStep, NextMinuteStep, Stutters DEF ProbeNext

\* What the verdicts and the probes are at any moment, for any number of
\* replicas, with lost sessions, crashes and failing statements.
THEOREM ProbeInvariance == ProbeSpec => []ProbesInv
BY Started, Kept, PTL DEF ProbeSpec

\* A minute counts once, its streak is made of the verdicts stored, and two
\* replicas judge one minute only when a leader lost its session in it.
THEOREM MinutesAlwaysCountOnce == ProbeSpec => []MinutesCountOnce
<1>1. ProbesInv => MinutesCountOnce
  <2> SUFFICES ASSUME ProbesInv PROVE MinutesCountOnce
    OBVIOUS
  <2>1. ASSUME NEW m \in Minutes, verdict[m].badRuns > 0
        PROVE  LastBad(verdict[m].badRuns, m)
    <3>1. verdict[m].badRuns \in 1..verdict[m].badRuns
      BY <2>1 DEF ProbesInv, ProbeTypeOK, Verdict
    <3> QED BY <3>1 DEF ProbesInv, VerdictInv
  <2>2. JudgesOverlapOnlyOnLoss
    BY DEF ProbesInv, ProbeInv, JudgesOverlapOnlyOnLoss
  <2> QED BY <2>1, <2>2 DEF ProbesInv, MinutesCountOnce, StreaksCountVerdicts
<1> QED BY <1>1, ProbeInvariance, PTL

----------------------------------------------------------------------------
\* An incident opens only by OpenIncident.
LEMMA OnlyOpening ==
  ASSUME [ProbeNext]_probeVars, ~open, open'
  PROVE  \E r \in Probers : OpenIncident(r)
BY DEF ProbeNext, probeVars, Lead, LeadFails, ReadPrevious, ReadIncidents, ReadFails,
       Streak, ResolveIncident, Record, RecordFails, LoseSession, CrashProber,
       AdminResolve, NextMinute

\* What opens an incident: the last OpenAfter - 1 verdicts are bad.
LEMMA OpensOnStreak ==
  ASSUME ProbesInv, NEW r \in Probers, OpenIncident(r)
  PROVE  LastBad(OpenAfter - 1, minute - 1)
<1>1. /\ minute \in 1..MaxMinute
      /\ OpenAfter \in Nat /\ OpenAfter >= 1 /\ Lookback \in Nat /\ MaxMinute \in Nat
  BY ProbeAssumption DEF ProbesInv, ProbeTypeOK, Minutes
<1>2. CASE OpenAfter = 1
  <2>1. {k \in minute..minute - 1 : verdict[k].stored} = {}
    BY <1>1
  <2>2. minute \in 1..(minute - 1) + 1 /\ OpenAfter - 1 = 0
    BY <1>1, <1>2
  <2>3. Cardinality({k \in minute..minute - 1 : verdict[k].stored}) = OpenAfter - 1
    BY <2>1, <2>2, FS_EmptySet
  <2> QED BY <2>1, <2>2, <2>3 DEF LastBad
<1>3. CASE OpenAfter > 1
  <2> DEFINE n == OpenAfter - 1
  <2>1. /\ probe[r].new.badRuns >= OpenAfter
        /\ probe[r].was = Previous(minute) /\ Extends(probe[r].new, probe[r].was)
    BY DEF OpenIncident, ProbesInv, ProbeInv
  <2>2. Previous(minute).badRuns \in Nat
    BY PreviousFits DEF Verdict
  <2>3. n \in 1..Previous(minute).badRuns
    BY <1>1, <1>3, <2>1, <2>2 DEF Extends
  <2>4. PICK j \in Recent(minute) :
          Previous(minute) = verdict[j] /\ \A k \in Recent(minute) : k <= j
    BY <1>1, <2>3, PreviousIsNewest DEF NoVerdict
  <2>5. j \in Minutes /\ j < minute /\ j + Lookback >= minute /\ VerdictInv(j)
    BY <2>4 DEF Recent, ProbesInv
  <2> HIDE DEF n
  <2>6. PICK first \in 1..j + 1 :
          /\ Cardinality({k \in first..j : verdict[k].stored}) = n
          /\ \A k \in {i \in first..j : verdict[i].stored} : verdict[k].goodRuns = 0
    BY <2>3, <2>4, <2>5 DEF VerdictInv, LastBad
  <2>7. \A k \in Minutes : k > j /\ k < minute => ~verdict[k].stored
    BY <1>1, <2>4, <2>5 DEF Recent, Minutes
  <2>8. {k \in first..minute - 1 : verdict[k].stored} = {k \in first..j : verdict[k].stored}
    BY <1>1, <2>5, <2>7 DEF Minutes
  <2>9. first \in 1..(minute - 1) + 1
    BY <1>1, <2>5 DEF Minutes
  <2> QED BY <2>6, <2>8, <2>9 DEF LastBad, n
<1> QED BY <1>1, <1>2, <1>3

----------------------------------------------------------------------------
\* While nothing fails: what a probe knows of the incident.
CalmProbe(r) ==
  /\ probe[r].step \in {"streak", "open", "resolve"} /\ open => probe[r].sawOpen
  /\ probe[r].step = "resolve" => probe[r].new.badRuns = 0
  /\ probe[r].step = "record" /\ probe[r].new.badRuns > 0
     /\ (open \/ (probe[r].was.badRuns > 0 /\ probe[r].was.incident)) =>
       probe[r].new.incident
  /\ probe[r].step = "record" /\ probe[r].new.goodRuns >= ResolveAfter => ~open

\* The incident of the bad streak is about to be recorded.
Recording ==
  \E r \in Probers :
    probe[r].step = "record" /\ probe[r].new.badRuns > 0 /\ probe[r].new.incident

\* The newest verdict knows of an incident that was opened in its streak.
CalmStreak ==
  IF verdict[minute].stored
  THEN /\ overruled => verdict[minute].badRuns > 0
       /\ open \/ overruled =>
            (verdict[minute].badRuns > 0 => verdict[minute].incident)
       /\ verdict[minute].goodRuns >= ResolveAfter => ~open
  ELSE /\ overruled => Previous(minute).badRuns > 0
       /\ open \/ overruled =>
            (Previous(minute).badRuns > 0 => Previous(minute).incident \/ Recording)

Calm ==
  /\ lost = 0
  /\ verdict[minute].stored => holder \in Probers /\ probe[holder].last = minute
  /\ \A r \in Probers : CalmProbe(r)
  /\ CalmStreak

CalmInv == ~faults => Calm

\* Then the holder judges alone, a minute that nobody judged yet.
LEMMA Alone ==
  ASSUME ProbesInv, Calm, NEW r \in Probers, probe[r].step # "idle"
  PROVE  /\ holder = r /\ ~verdict[minute].stored
         /\ \A q \in Probers \ {r} : probe[q].step = "idle"
         /\ ~Recording \/ probe[r].step = "record"
<1>1. minute \in Nat /\ minute # 0
  BY DEF ProbesInv, ProbeTypeOK, Minutes
<1>2. \A q \in Probers : probe[q].step # "idle" => holder = q
  BY <1>1 DEF ProbesInv, ProbeInv, Calm
<1>3. probe[r].last < minute /\ probe[r].last \in Nat
  BY DEF ProbesInv, ProbeInv, ProbeTypeOK, Probe
<1>4. ~verdict[minute].stored
  BY <1>1, <1>2, <1>3 DEF Calm
<1> QED BY <1>2, <1>4 DEF Recording

\* The newest verdict as the next minute sees it.
LEMMA PreviousNext ==
  ASSUME ProbesInv
  PROVE  /\ verdict[minute].stored => Previous(minute + 1) = verdict[minute]
         /\ ~verdict[minute].stored =>
              \/ Recent(minute + 1) = {} /\ Previous(minute + 1) = NoVerdict
              \/ Previous(minute + 1) = Previous(minute)
<1>1. minute \in Minutes /\ minute \in Nat /\ minute + 1 \in Nat
      /\ Lookback \in Nat /\ Lookback >= 1
  BY ProbeAssumption DEF ProbesInv, ProbeTypeOK, Minutes
<1>2. CASE Recent(minute + 1) = {}
  <2>1. ~verdict[minute].stored
    BY <1>1, <1>2 DEF Recent
  <2>2. Previous(minute + 1) = NoVerdict
    BY <1>2 DEF Previous
  <2> QED BY <1>2, <2>1, <2>2
<1>3. CASE Recent(minute + 1) # {}
  <2>1. PICK j \in Recent(minute + 1) :
          Previous(minute + 1) = verdict[j] /\ \A k \in Recent(minute + 1) : k <= j
    BY <1>1, <1>3, PreviousIsNewest
  <2>2. j \in Minutes /\ j \in Nat /\ j < minute + 1 /\ j + Lookback >= minute + 1
        /\ verdict[j].stored
    BY <2>1 DEF Recent, Minutes
  <2>3. ASSUME verdict[minute].stored PROVE j = minute
    <3>1. minute \in Recent(minute + 1)
      BY <1>1, <2>3 DEF Recent
    <3> QED BY <1>1, <2>1, <2>2, <3>1
  <2>4. ASSUME ~verdict[minute].stored PROVE Previous(minute) = verdict[j]
    <3>1. j < minute
      BY <1>1, <2>2, <2>4
    <3>2. j \in Recent(minute)
      BY <1>1, <2>2, <3>1 DEF Recent
    <3>3. PICK i \in Recent(minute) :
            Previous(minute) = verdict[i] /\ \A k \in Recent(minute) : k <= i
      BY <1>1, <3>2, PreviousIsNewest
    <3>4. i \in Minutes /\ i \in Nat /\ i < minute /\ verdict[i].stored /\ j <= i
      BY <3>2, <3>3 DEF Recent, Minutes
    <3>5. i \in Recent(minute + 1)
      BY <1>1, <2>2, <3>4 DEF Recent
    <3>6. i = j
      BY <2>1, <2>2, <3>4, <3>5
    <3> QED BY <3>3, <3>6
  <2> QED BY <2>1, <2>3, <2>4
<1> QED BY <1>2, <1>3

\* A step of a probe that neither records nor touches the incident.
LEMMA CalmStep ==
  ASSUME ProbesInv, Calm, NEW r \in Probers, NEW x \in Probe,
         probe' = [probe EXCEPT ![r] = x], probe[r].step # "record",
         UNCHANGED <<minute, verdict, open, overruled, lost>>,
         verdict[minute].stored => holder' = holder /\ (holder = r => x.last = minute),
         CalmProbe(r)'
  PROVE  Calm'
<1>1. probe'[r] = x /\ \A q \in Probers \ {r} : probe'[q] = probe[q]
  BY DEF ProbesInv, ProbeTypeOK
<1>2. ASSUME NEW q \in Probers PROVE CalmProbe(q)'
  BY <1>1 DEF Calm, CalmProbe
<1>3. verdict'[minute'].stored => holder' \in Probers /\ probe'[holder'].last = minute'
  BY <1>1 DEF Calm
<1>4. Recording => Recording'
  BY <1>1 DEF Recording
<1>5. Previous(minute)' = Previous(minute)
  BY PreviousSame
<1>6. CalmStreak'
  BY <1>4, <1>5 DEF Calm, CalmStreak
<1> QED BY <1>2, <1>3, <1>6 DEF Calm

LEMMA CalmLead ==
  ASSUME ProbesInv, Calm, NEW r \in Probers, Lead(r) PROVE Calm'
<1> DEFINE x == [probe[r] EXCEPT !.step = "previous", !.leads = TRUE]
<1>1. x \in Probe /\ probe[r] \in Probe /\ x.step = "previous"
  BY DEF ProbesInv, ProbeTypeOK, Probe, Steps
<1>2. probe[r].step = "idle" /\ probe[r].last < minute
      /\ UNCHANGED <<minute, verdict, open, overruled, lost>>
  BY DEF Lead
<1>3. probe[r].last \in Nat /\ minute \in Nat
  BY <1>1 DEF Probe, ProbesInv, ProbeTypeOK, Minutes
<1>4. CASE /\ probe' = [probe EXCEPT ![r] = x]
           /\ holder = r \/ holder = Free
  <2>1. ~verdict[minute].stored
    BY <1>2, <1>3, <1>4, ProbeAssumption DEF Calm
  <2>2. probe'[r].step = "previous"
    BY <1>1, <1>4 DEF ProbesInv, ProbeTypeOK
  <2>3. CalmProbe(r)'
    BY <2>2 DEF CalmProbe
  <2> HIDE DEF x
  <2> QED BY <1>1, <1>2, <1>4, <2>1, <2>3, CalmStep
<1>5. CASE /\ probe' = [probe EXCEPT ![r] = Done(r, FALSE)] /\ holder' = holder
  <2>1. Done(r, FALSE) \in Probe
    BY <1>2, <1>5, DoneStep
  <2>2. Done(r, FALSE).last = minute /\ Done(r, FALSE).step = "idle"
    BY DEF Done, Off
  <2>3. CalmProbe(r)'
    BY <1>5, <2>2 DEF CalmProbe, ProbesInv, ProbeTypeOK
  <2> QED BY <1>2, <1>5, <2>1, <2>2, <2>3, CalmStep
<1>6. CASE Confirmed(r) /\ probe' = [probe EXCEPT ![r].step = "previous"]
  BY <1>1, <1>4, <1>6 DEF Confirmed, ProbesInv, ProbeTypeOK, Probe
<1>7. CASE holder = Free /\ probe' = [probe EXCEPT ![r].step = "previous", ![r].leads = TRUE]
  BY <1>1, <1>4, <1>7 DEF ProbesInv, ProbeTypeOK, Probe
<1> QED BY <1>5, <1>6, <1>7 DEF Lead

LEMMA CalmReads ==
  ASSUME ProbesInv, Calm, NEW r \in Probers, ProbesInv',
         ReadPrevious(r) \/ ReadIncidents(r)
  PROVE  Calm'
<1>1. /\ probe[r].step \in {"previous", "incidents"}
      /\ UNCHANGED <<minute, verdict, open, overruled, lost, holder>>
  BY DEF ReadPrevious, ReadIncidents
<1>2. PICK x : probe' = [probe EXCEPT ![r] = x]
  <2>1. CASE ReadPrevious(r)
    BY <2>1 DEF ReadPrevious
  <2>2. CASE ReadIncidents(r)
    BY <2>2 DEF ReadIncidents, ProbesInv, ProbeTypeOK
  <2> QED BY <2>1, <2>2
<1>3. probe'[r] = x /\ x \in Probe /\ probe[r] \in Probe
  BY <1>2 DEF ProbesInv, ProbeTypeOK
<1>4. ~verdict[minute].stored
  BY <1>1, Alone
<1>5. CASE ReadPrevious(r)
  <2>1. probe'[r].step = "incidents"
    BY <1>3, <1>5 DEF ReadPrevious, ProbesInv, ProbeTypeOK, Probe
  <2>2. CalmProbe(r)'
    BY <2>1 DEF CalmProbe
  <2> QED BY <1>1, <1>2, <1>3, <1>4, <2>2, CalmStep
<1>6. CASE ReadIncidents(r)
  <2>1. probe'[r].step = "streak" /\ probe'[r].sawOpen = open
    BY <1>3, <1>6 DEF ReadIncidents, ProbesInv, ProbeTypeOK, Probe
  <2>2. CalmProbe(r)'
    BY <1>1, <2>1 DEF CalmProbe
  <2> QED BY <1>1, <1>2, <1>3, <1>4, <2>2, CalmStep
<1> QED BY <1>5, <1>6 DEF ReadPrevious, ReadIncidents

\* The streak knows of an open incident: no one opens one beside it.
LEMMA CalmCounts ==
  ASSUME ProbesInv, Calm, NEW r \in Probers, ProbesInv', Streak(r) PROVE Calm'
<1> DEFINE new == [stored |-> TRUE, badRuns |-> BadRuns(r), goodRuns |-> GoodRuns(r),
                   incident |-> Bad(r) /\ HadIncident(r)]
           step == CASE Opens(r) -> "open"
                     [] Resolves(r) -> "resolve"
                     [] ~Opens(r) /\ ~Resolves(r) -> "record"
           x == [probe[r] EXCEPT !.new = new, !.step = step]
<1>1. probe' = [probe EXCEPT ![r] = x] /\ probe[r] \in Probe /\ probe[r].step = "streak"
      /\ UNCHANGED <<minute, verdict, open, overruled, lost, holder>>
  BY DEF Streak, ProbesInv, ProbeTypeOK
<1>2. /\ probe[r].was \in Verdict
      /\ probe[r].was.badRuns \in Nat /\ probe[r].was.goodRuns \in Nat
  BY <1>1 DEF Probe, Verdict
<1>3. open => probe[r].sawOpen
  BY <1>1 DEF Calm, CalmProbe
<1>4. /\ x.step = step /\ x.new = new /\ x.was = probe[r].was
      /\ x.sawOpen = probe[r].sawOpen
  BY <1>1 DEF Probe
<1>5. probe'[r] = x /\ x \in Probe
  BY <1>1 DEF ProbesInv, ProbeTypeOK
<1>6. new.badRuns = BadRuns(r) /\ new.goodRuns = GoodRuns(r)
      /\ new.incident = (Bad(r) /\ HadIncident(r))
  OBVIOUS
<1>7. step = "resolve" => GoodRuns(r) >= ResolveAfter
  BY DEF Resolves
<1>8. step = "record" => ~Resolves(r)
  OBVIOUS
<1> HIDE DEF new, step, x
<1>9. CalmProbe(r)'
  <2>1. step = "resolve" => new.badRuns = 0
    BY <1>2, <1>6, <1>7, ProbeAssumption DEF GoodRuns, BadRuns
  <2>2. step = "record" /\ new.goodRuns >= ResolveAfter => ~open
    BY <1>3, <1>6, <1>8 DEF Resolves
  <2>3. new.badRuns > 0 => Bad(r)
    BY <1>6 DEF BadRuns
  <2>4. new.badRuns > 0 /\ (open \/ (probe[r].was.badRuns > 0 /\ probe[r].was.incident)) =>
          new.incident
    BY <1>3, <1>6, <2>3 DEF HadIncident
  <2>5. open' = open
    BY <1>1
  <2> QED BY <1>3, <1>4, <1>5, <2>1, <2>2, <2>4, <2>5 DEF CalmProbe
<1>10. ~verdict[minute].stored
  BY <1>1, Alone
<1> QED BY <1>1, <1>5, <1>9, <1>10, CalmStep

LEMMA CalmOpens ==
  ASSUME ProbesInv, Calm, ~faults, NEW r \in Probers, OpenIncident(r) PROVE Calm'
<1>1. /\ probe' = [probe EXCEPT ![r].step = "record", ![r].new.incident = TRUE]
      /\ UNCHANGED <<minute, verdict, holder, overruled, lost>>
      /\ open' /\ probe[r].step = "open"
  BY DEF OpenIncident
<1>2. /\ probe[r] \in Probe /\ probe[r].new \in Verdict /\ probe[r].was \in Verdict
      /\ ProbeInv(r)
  BY DEF ProbesInv, ProbeTypeOK, Probe
<1>3. /\ probe'[r].step = "record" /\ probe'[r].new.incident
      /\ probe'[r].new.badRuns = probe[r].new.badRuns
      /\ probe'[r].new.goodRuns = probe[r].new.goodRuns
      /\ \A q \in Probers \ {r} : probe'[q] = probe[q]
  BY <1>1, <1>2 DEF ProbesInv, ProbeTypeOK, Probe, Verdict
<1>4. probe[r].new.badRuns > 0 /\ probe[r].new.goodRuns = 0
  BY <1>1, <1>2, ProbeAssumption DEF ProbeInv, Extends, Verdict
<1>5. /\ ~verdict[minute].stored
      /\ \A q \in Probers \ {r} : probe[q].step = "idle"
  BY <1>1, Alone
<1>6. ASSUME NEW q \in Probers PROVE CalmProbe(q)'
  BY <1>3, <1>4, <1>5, ProbeAssumption DEF CalmProbe
<1>7. Recording'
  BY <1>3, <1>4 DEF Recording
<1>8. Previous(minute)' = Previous(minute)
  BY <1>1, PreviousSame
<1>9. CalmStreak'
  BY <1>1, <1>5, <1>7, <1>8 DEF Calm, CalmStreak
<1> QED BY <1>1, <1>5, <1>6, <1>9 DEF Calm

LEMMA CalmResolves ==
  ASSUME ProbesInv, Calm, ~faults, NEW r \in Probers, ResolveIncident(r) PROVE Calm'
<1>1. /\ probe' = [probe EXCEPT ![r].step = "record"]
      /\ UNCHANGED <<minute, verdict, holder, overruled, lost>>
      /\ ~open' /\ probe[r].step = "resolve"
  BY DEF ResolveIncident
<1>2. probe[r] \in Probe /\ probe[r].new.badRuns = 0
  BY <1>1 DEF ProbesInv, ProbeTypeOK, Calm, CalmProbe
<1>3. /\ probe'[r].step = "record" /\ probe'[r].new = probe[r].new
      /\ \A q \in Probers \ {r} : probe'[q] = probe[q]
  BY <1>1, <1>2 DEF ProbesInv, ProbeTypeOK, Probe
<1>4. /\ ~verdict[minute].stored /\ ~Recording
      /\ \A q \in Probers \ {r} : probe[q].step = "idle"
  BY <1>1, Alone
<1>5. ASSUME NEW q \in Probers PROVE CalmProbe(q)'
  BY <1>1, <1>2, <1>3, <1>4 DEF CalmProbe
<1>6. Previous(minute)' = Previous(minute)
  BY <1>1, PreviousSame
<1>7. CalmStreak'
  BY <1>1, <1>4, <1>6 DEF Calm, CalmStreak
<1> QED BY <1>1, <1>4, <1>5, <1>7 DEF Calm

\* The verdict stored knows what the streak or the judgement knew.
LEMMA CalmRecords ==
  ASSUME ProbesInv, Calm, NEW r \in Probers, Record(r) PROVE Calm'
<1> DEFINE v == probe[r].new
<1>1. /\ probe' = [probe EXCEPT ![r] = Done(r, TRUE)]
      /\ UNCHANGED <<minute, open, holder, lost>>
      /\ probe[r].step = "record"
  BY DEF Record
<1>2. /\ ~verdict[minute].stored /\ holder = r
      /\ \A q \in Probers \ {r} : probe[q].step = "idle"
  BY <1>1, Alone
<1>3. /\ verdict' = [verdict EXCEPT ![minute] = v]
      /\ overruled' = (overruled /\ v.badRuns > 0)
  BY <1>2 DEF Record, Unjudged
<1>4. /\ ProbeInv(r) /\ CalmProbe(r) /\ probe[r].was = Previous(minute)
      /\ v.stored
  BY <1>1 DEF ProbesInv, Calm, ProbeInv, Extends
<1>5. /\ probe'[r].step = "idle" /\ probe'[r].last = minute
      /\ \A q \in Probers \ {r} : probe'[q] = probe[q]
  BY <1>1 DEF ProbesInv, ProbeTypeOK, Done, Off
<1>6. verdict'[minute] = v
  BY <1>3 DEF ProbesInv, ProbeTypeOK
<1>7. ASSUME NEW q \in Probers PROVE CalmProbe(q)'
  BY <1>2, <1>5 DEF CalmProbe
<1>8. ASSUME overruled', v.badRuns > 0 PROVE v.incident
  <2>1. Previous(minute).badRuns > 0 /\ (Previous(minute).incident \/ Recording)
    BY <1>2, <1>3, <1>8 DEF Calm, CalmStreak
  <2>2. CASE Previous(minute).incident
    BY <1>1, <1>4, <1>8, <2>1, <2>2 DEF CalmProbe
  <2>3. CASE Recording
    BY <1>2, <2>3 DEF Recording
  <2> QED BY <2>1, <2>2, <2>3
<1>9. CalmStreak'
  <2>1. open /\ v.badRuns > 0 => v.incident
    BY <1>1, <1>4 DEF CalmProbe
  <2>2. v.goodRuns >= ResolveAfter => ~open
    BY <1>1, <1>4 DEF CalmProbe
  <2> HIDE DEF v
  <2> QED BY <1>1, <1>3, <1>4, <1>6, <1>8, <2>1, <2>2 DEF CalmStreak
<1> QED BY <1>1, <1>2, <1>5, <1>7, <1>9 DEF Calm

LEMMA CalmAdmin == ASSUME ProbesInv, Calm, AdminResolve PROVE Calm'
<1>1. /\ UNCHANGED <<minute, verdict, holder, probe, lost>>
      /\ open /\ ~open' /\ overruled' = (overruled \/ Failing)
  BY DEF AdminResolve
<1>2. ASSUME NEW q \in Probers PROVE CalmProbe(q)'
  BY <1>1 DEF Calm, CalmProbe
<1>3. Previous(minute)' = Previous(minute) /\ Recording' = Recording
  BY <1>1, PreviousSame DEF Recording
<1>4. ~(NoVerdict.badRuns > 0)
  BY DEF NoVerdict
<1>5. CASE verdict[minute].stored
  <2>1. Failing => verdict[minute].badRuns > 0
    BY <1>5, PreviousNext DEF Failing
  <2> QED BY <1>1, <1>2, <1>5, <2>1 DEF Calm, CalmStreak
<1>6. CASE ~verdict[minute].stored
  <2>1. Failing => Previous(minute).badRuns > 0
    BY <1>4, <1>6, PreviousNext DEF Failing
  <2> QED BY <1>1, <1>2, <1>3, <1>6, <2>1 DEF Calm, CalmStreak
<1> QED BY <1>5, <1>6

LEMMA CalmMinute == ASSUME ProbesInv, Calm, NextMinute PROVE Calm'
<1>1. /\ UNCHANGED <<verdict, open, holder, probe, lost>>
      /\ minute' = minute + 1 /\ minute < MaxMinute
      /\ \A r \in Probers : probe[r].step = "idle"
      /\ overruled' = (overruled /\ Recent(minute + 1) # {})
  BY DEF NextMinute
<1>2. ASSUME NEW q \in Probers PROVE CalmProbe(q)'
  BY <1>1 DEF CalmProbe
<1>3. ~verdict[minute + 1].stored
  <2>1. minute + 1 \in Minutes /\ minute \in Nat
    BY <1>1, ProbeAssumption DEF ProbesInv, ProbeTypeOK, Minutes
  <2> QED BY <2>1 DEF ProbesInv, VerdictInv
<1>4. ~verdict'[minute'].stored
  BY <1>1, <1>3
<1>5. Previous(minute)' = Previous(minute + 1)
  BY <1>1 DEF Previous, Recent
<1>6. ~Recording
  BY <1>1 DEF Recording
<1>7. ~(NoVerdict.badRuns > 0)
  BY DEF NoVerdict
<1>8. CalmStreak'
  <2>1. CASE verdict[minute].stored
    <3>1. Previous(minute + 1) = verdict[minute]
      BY <2>1, PreviousNext
    <3> QED BY <1>1, <1>4, <1>5, <2>1, <3>1 DEF Calm, CalmStreak
  <2>2. CASE ~verdict[minute].stored
    <3>1. \/ Recent(minute + 1) = {} /\ Previous(minute + 1) = NoVerdict
          \/ Previous(minute + 1) = Previous(minute)
      BY <2>2, PreviousNext
    <3> QED BY <1>1, <1>4, <1>5, <1>6, <1>7, <2>2, <3>1 DEF Calm, CalmStreak
  <2> QED BY <2>1, <2>2
<1> QED BY <1>1, <1>2, <1>4, <1>8 DEF Calm

LEMMA CalmStarts == ProbeInit => Calm
<1> SUFFICES ASSUME ProbeInit PROVE Calm
  OBVIOUS
<1>1. minute = 1 /\ verdict[minute] = NoVerdict /\ ~NoVerdict.stored
  BY ProbeAssumption DEF ProbeInit, NoVerdict, Minutes
<1>2. ASSUME NEW r \in Probers PROVE CalmProbe(r)
  BY DEF ProbeInit, Off, CalmProbe
<1>3. ~open /\ ~overruled /\ lost = 0
  BY DEF ProbeInit
<1> QED BY <1>1, <1>2, <1>3 DEF Calm, CalmStreak

LEMMA CalmKept == ASSUME ProbesInv, ProbesInv', CalmInv, [ProbeNext]_probeVars PROVE CalmInv'
<1>1. faults' = faults
  BY DEF ProbeNext, probeVars, Lead, LeadFails, ReadPrevious, ReadIncidents, ReadFails,
         Streak, OpenIncident, ResolveIncident, Record, RecordFails, LoseSession,
         CrashProber, AdminResolve, NextMinute
<1>2. SUFFICES ASSUME ~faults, Calm PROVE Calm'
  BY <1>1 DEF CalmInv
<1>3. ASSUME NEW r \in Probers,
             \/ Lead(r) \/ LeadFails(r) \/ ReadPrevious(r) \/ ReadIncidents(r)
             \/ ReadFails(r) \/ Streak(r) \/ OpenIncident(r) \/ ResolveIncident(r)
             \/ Record(r) \/ RecordFails(r) \/ LoseSession(r) \/ CrashProber(r)
      PROVE  Calm'
  <2>1. ~LeadFails(r) /\ ~ReadFails(r) /\ ~RecordFails(r) /\ ~LoseSession(r)
        /\ ~CrashProber(r)
    BY <1>2 DEF LeadFails, ReadFails, RecordFails, LoseSession, CrashProber
  <2> QED BY <1>2, <1>3, <2>1, CalmLead, CalmReads, CalmCounts, CalmOpens, CalmResolves,
             CalmRecords
<1>4. ASSUME UNCHANGED probeVars PROVE Calm'
  <2>1. UNCHANGED <<minute, verdict, open, holder, probe, overruled, lost>>
    BY <1>4 DEF probeVars
  <2>2. ASSUME NEW q \in Probers PROVE CalmProbe(q)'
    BY <1>2, <2>1 DEF Calm, CalmProbe
  <2>3. Previous(minute)' = Previous(minute) /\ Recording' = Recording
    BY <2>1, PreviousSame DEF Recording
  <2> QED BY <1>2, <2>1, <2>2, <2>3 DEF Calm, CalmStreak
<1> QED BY <1>2, <1>3, <1>4, CalmAdmin, CalmMinute DEF ProbeNext

\* What the newest verdict and a judgement know of the incident while nothing
\* fails, whenever administrators resolve it.
THEOREM CalmInvariance == ProbeSpec => []CalmInv
<1>1. ProbeInit => CalmInv
  BY CalmStarts DEF CalmInv
<1> QED BY <1>1, ProbeInvariance, CalmKept, PTL DEF ProbeSpec

\* An incident opens only on a streak, also when replicas overlap and minutes
\* are missing; while nothing fails a recovered service has none open, and none
\* is opened against an administrator.
THEOREM IncidentsAlwaysFollowStreaks == ProbeSpec => IncidentsFollowStreaks
<1>1. ProbesInv /\ CalmInv => RecoveryResolves
  <2> SUFFICES ASSUME ProbesInv, CalmInv, ~faults, verdict[minute].goodRuns >= ResolveAfter
               PROVE  ~open
    BY DEF RecoveryResolves
  <2>1. minute \in Minutes /\ VerdictInv(minute)
    BY DEF ProbesInv, ProbeTypeOK
  <2>2. verdict[minute].stored
    BY <2>1, ProbeAssumption DEF VerdictInv, NoVerdict
  <2> QED BY <2>2 DEF CalmInv, Calm, CalmStreak
<1>2. ProbesInv /\ [ProbeNext]_probeVars =>
        [~open /\ open' => LastBad(OpenAfter - 1, minute - 1)]_probeVars
  BY OnlyOpening, OpensOnStreak
<1>3. ProbesInv /\ CalmInv /\ [ProbeNext]_probeVars =>
        [~open /\ open' => ~overruled \/ faults]_probeVars
  <2> SUFFICES ASSUME ProbesInv, CalmInv, [ProbeNext]_probeVars, ~open, open', overruled, ~faults
               PROVE  FALSE
    OBVIOUS
  <2>1. PICK r \in Probers : OpenIncident(r)
    BY OnlyOpening
  <2>2. probe[r].step = "open" /\ Calm /\ ProbeInv(r)
    BY <2>1 DEF OpenIncident, CalmInv, ProbesInv
  <2>3. ~verdict[minute].stored /\ ~Recording
    BY <2>2, Alone
  <2>4. Previous(minute).badRuns > 0 /\ Previous(minute).incident
    BY <2>2, <2>3 DEF Calm, CalmStreak
  <2> QED BY <2>2, <2>4 DEF ProbeInv, HadIncident
<1> QED BY <1>1, <1>2, <1>3, ProbeInvariance, CalmInvariance, PTL
        DEF ProbeSpec, IncidentsFollowStreaks, IncidentNeedsStreak, CalmAdminNotOverridden
===============================================================================

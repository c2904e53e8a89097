----------------------------- MODULE StatusProbe -----------------------------
(***************************************************************************)
(* The status probe: once a minute the replica that holds a session        *)
(* advisory lock judges a service, opens or resolves its automatic         *)
(* incident and stores the verdict (statusJudge, advanceStreak and         *)
(* leadStatus in internal/server/admin_status.go; the statements in        *)
(* internal/account/admin_metrics.go).                                     *)
(*                                                                         *)
(* Opening the incident and storing the verdict are separate transactions. *)
(* The leader's database session may die without the leader noticing until *)
(* its next probe, replicas crash, statements fail, and an administrator   *)
(* resolves incidents in between.  A judgement ends within its minute (it  *)
(* starts at :20 and is given 30 seconds); the replicas' clocks agree on   *)
(* the minute.                                                             *)
(***************************************************************************)
EXTENDS Naturals, FiniteSets

CONSTANTS
  Probers,       \* the replicas
  Free,          \* the lock is free
  OpenAfter,     \* incidentOpenAfter
  ResolveAfter,  \* incidentResolveAfter
  Lookback,      \* statusStreakLookback, in minutes
  MaxMinute      \* bound on time

ASSUME ProbeAssumption ==
  /\ Free \notin Probers
  /\ OpenAfter \in Nat \ {0} /\ ResolveAfter \in Nat \ {0}
  /\ Lookback \in Nat \ {0} /\ MaxMinute \in Nat \ {0}

VARIABLES
  minute,     \* the minute the replicas' timers are in
  verdict,    \* admin_service_verdicts, by minute
  daily,      \* total_minutes of admin_service_daily
  open,       \* an automatic incident is open
  holder,     \* the replica whose session holds the leader lock
  probe,      \* each replica's probe
  overruled,  \* history: resolved by an admin in the current bad streak
  lost,       \* history: the last minute in which a leader's session ended
  faults      \* whether sessions die, replicas crash and statements fail in
              \* this behaviour; never changes

probeVars ==
  <<minute, verdict, daily, open, holder, probe, overruled, lost, faults>>

Minutes == 1..MaxMinute

Verdict == [stored: BOOLEAN, badRuns: 0..MaxMinute, goodRuns: 0..MaxMinute,
            incident: BOOLEAN]

Steps == {"idle", "previous", "incidents", "streak", "open", "resolve", "record"}

\* leads: statusLeader # nil; last: the minute it judged last; was, sawOpen:
\* what it read; new: the verdict it is making.
Probe == [step: Steps, leads: BOOLEAN, last: 0..MaxMinute,
          was: Verdict, sawOpen: BOOLEAN, new: Verdict]

\* Every variable has its type, and a stored verdict belongs to a bad streak
\* or to a good one.
ProbeTypeOK ==
  /\ minute \in Minutes
  /\ verdict \in [Minutes -> Verdict]
  /\ \A m \in Minutes :
       verdict[m].stored => (verdict[m].badRuns = 0 <=> verdict[m].goodRuns # 0)
  /\ daily \in Nat
  /\ open \in BOOLEAN
  /\ holder \in Probers \cup {Free}
  /\ probe \in [Probers -> Probe]
  /\ overruled \in BOOLEAN
  /\ lost \in 0..MaxMinute
  /\ faults \in BOOLEAN

NoVerdict == [stored |-> FALSE, badRuns |-> 0, goodRuns |-> 0,
              incident |-> FALSE]

Off == [step |-> "idle", leads |-> FALSE, last |-> 0, was |-> NoVerdict,
        sawOpen |-> FALSE, new |-> NoVerdict]

ProbeInit ==
  /\ minute = 1
  /\ verdict = [m \in Minutes |-> NoVerdict]
  /\ daily = 0
  /\ open = FALSE
  /\ holder = Free
  /\ probe = [r \in Probers |-> Off]
  /\ overruled = FALSE
  /\ lost = 0
  /\ faults \in BOOLEAN

----------------------------------------------------------------------------
\* The newest verdict of a minute in [m - Lookback, m).
Recent(m) == {n \in Minutes : n < m /\ n + Lookback >= m /\ verdict[n].stored}

\* Mutant: ORDER BY minute without DESC.
Oldest(m) ==
  IF Recent(m) = {} THEN NoVerdict
  ELSE verdict[CHOOSE n \in Recent(m) : \A k \in Recent(m) : n <= k]

Previous(m) ==
  IF Recent(m) = {} THEN NoVerdict
  ELSE verdict[CHOOSE n \in Recent(m) : \A k \in Recent(m) : k <= n]

\* A probe is over: nothing of it is kept but the leadership.
Done(r, leads) ==
  [Off EXCEPT !.leads = leads, !.last = minute]

\* Mutant: a leader trusts the lock it once took.
Trusting(r) == probe[r].leads

\* SELECT 1 on the leader's own session.
Confirmed(r) == probe[r].leads /\ holder = r

\* leadStatus: a lock held is checked, a lost or missing one is tried once.
Lead(r) ==
  /\ probe[r].step = "idle"
  /\ probe[r].last < minute
  /\ \/ /\ Confirmed(r)
        /\ probe' = [probe EXCEPT ![r].step = "previous"]
        /\ UNCHANGED holder
     \/ /\ ~Confirmed(r)
        /\ holder = Free
        /\ holder' = r
        /\ probe' = [probe EXCEPT ![r].step = "previous", ![r].leads = TRUE]
     \/ /\ ~Confirmed(r)
        /\ holder # Free
        /\ probe' = [probe EXCEPT ![r] = Done(r, FALSE)]
        /\ UNCHANGED holder
  /\ UNCHANGED <<minute, verdict, daily, open, overruled, lost, faults>>

\* The check fails on a live session, or the lock cannot be tried: the
\* session is ended and the replica does not judge this minute.
LeadFails(r) ==
  /\ faults
  /\ probe[r].step = "idle"
  /\ probe[r].last < minute
  /\ probe' = [probe EXCEPT ![r] = Done(r, FALSE)]
  /\ holder' = IF holder = r THEN Free ELSE holder
  /\ lost' = IF holder = r THEN minute ELSE lost
  /\ UNCHANGED <<minute, verdict, daily, open, overruled, faults>>

\* The window is judged bad (degraded, down) or good (ok, idle), then
\* PreviousServiceVerdicts and OpenAutoIncidents are read.
ReadPrevious(r) ==
  /\ probe[r].step = "previous"
  /\ \E bad \in BOOLEAN :
       probe' = [probe EXCEPT
         ![r] = [@ EXCEPT !.step = "incidents", !.was = Previous(minute),
            !.new = [NoVerdict EXCEPT !.stored = TRUE,
                       !.badRuns = IF bad THEN 1 ELSE 0,
                       !.goodRuns = IF bad THEN 0 ELSE 1]]]
  /\ UNCHANGED <<minute, verdict, daily, open, holder, overruled, lost, faults>>

ReadIncidents(r) ==
  /\ probe[r].step = "incidents"
  /\ probe' = [probe EXCEPT ![r].step = "streak", ![r].sawOpen = open]
  /\ UNCHANGED <<minute, verdict, daily, open, holder, overruled, lost, faults>>

ReadFails(r) ==
  /\ faults
  /\ probe[r].step \in {"previous", "incidents"}
  /\ probe' = [probe EXCEPT ![r] = Done(r, TRUE)]
  /\ UNCHANGED <<minute, verdict, daily, open, holder, overruled, lost, faults>>

\* Mutant: the verdict only knows of an incident that is open now.
ForgetIncident(r) == probe[r].sawOpen

\* An incident was opened, or found open, during this bad streak.
HadIncident(r) ==
  \/ probe[r].sawOpen
  \/ probe[r].was.badRuns > 0 /\ probe[r].was.incident

Bad(r) == probe[r].new.badRuns > 0

GoodRuns(r) == IF Bad(r) THEN 0 ELSE probe[r].was.goodRuns + 1

BadRuns(r) == IF Bad(r) THEN probe[r].was.badRuns + 1 ELSE 0

\* Mutants: off by one at either threshold.
OpensEarly(r) == BadRuns(r) + 1 >= OpenAfter /\ Bad(r) /\ ~HadIncident(r)
ResolvesLate(r) == GoodRuns(r) > ResolveAfter /\ probe[r].sawOpen

Opens(r) == BadRuns(r) >= OpenAfter /\ ~HadIncident(r)
Resolves(r) == GoodRuns(r) >= ResolveAfter /\ probe[r].sawOpen

\* advanceStreak, up to its statement.
Streak(r) ==
  /\ probe[r].step = "streak"
  /\ probe' = [probe EXCEPT
       ![r] = [@ EXCEPT
         !.new = [stored |-> TRUE,
                  badRuns |-> BadRuns(r), goodRuns |-> GoodRuns(r),
                  incident |-> Bad(r) /\ HadIncident(r)],
         !.step = CASE Opens(r) -> "open"
                    [] Resolves(r) -> "resolve"
                    [] ~Opens(r) /\ ~Resolves(r) -> "record"]]
  /\ UNCHANGED <<minute, verdict, daily, open, holder, overruled, lost, faults>>

\* OpenAutoIncident commits on its own; one already open is left alone.  When
\* it fails, or its answer does, the verdict says that there is no incident.
OpenIncident(r) ==
  /\ probe[r].step = "open"
  /\ \/ /\ open' = TRUE
        /\ \E known \in BOOLEAN :
             /\ known \/ faults
             /\ probe' = [probe EXCEPT ![r].step = "record",
                                       ![r].new.incident = known]
     \/ /\ faults
        /\ probe' = [probe EXCEPT ![r].step = "record"]
        /\ UNCHANGED open
  /\ UNCHANGED <<minute, verdict, daily, holder, overruled, lost, faults>>

ResolveIncident(r) ==
  /\ probe[r].step = "resolve"
  /\ probe' = [probe EXCEPT ![r].step = "record"]
  /\ \/ open' = FALSE
     \/ faults /\ UNCHANGED open
  /\ UNCHANGED <<minute, verdict, daily, holder, overruled, lost, faults>>

\* Mutant: INSERT without ON CONFLICT DO NOTHING.
AlwaysNew(m) == TRUE

Unjudged(m) == ~verdict[m].stored

\* RecordServiceVerdicts: the first verdict of a minute is kept and rolled up.
Record(r) ==
  /\ probe[r].step = "record"
  /\ IF Unjudged(minute)
     THEN /\ verdict' = [verdict EXCEPT ![minute] = probe[r].new]
          /\ daily' = daily + 1
          /\ overruled' = (overruled /\ probe[r].new.badRuns > 0)
     ELSE UNCHANGED <<verdict, daily, overruled>>
  /\ probe' = [probe EXCEPT ![r] = Done(r, TRUE)]
  /\ UNCHANGED <<minute, open, holder, lost, faults>>

RecordFails(r) ==
  /\ faults
  /\ probe[r].step = "record"
  /\ probe' = [probe EXCEPT ![r] = Done(r, TRUE)]
  /\ UNCHANGED <<minute, verdict, daily, open, holder, overruled, lost, faults>>

----------------------------------------------------------------------------
\* PostgreSQL ends the leader's session; the leader does not know yet.
LoseSession(r) ==
  /\ faults
  /\ holder = r
  /\ holder' = Free
  /\ lost' = minute
  /\ UNCHANGED <<minute, verdict, daily, open, probe, overruled, faults>>

\* The replica dies and starts again; it probes from the next minute on.
CrashProber(r) ==
  /\ faults
  /\ probe' = [probe EXCEPT ![r] = Done(r, FALSE)]
  /\ holder' = IF holder = r THEN Free ELSE holder
  /\ lost' = IF holder = r THEN minute ELSE lost
  /\ UNCHANGED <<minute, verdict, daily, open, overruled, faults>>

\* The stored streak is a bad one.
Failing == Previous(minute + 1).badRuns > 0

\* actionResolveIncident by an administrator.
AdminResolve ==
  /\ open
  /\ open' = FALSE
  /\ overruled' = (overruled \/ Failing)
  /\ UNCHANGED <<minute, verdict, daily, holder, probe, lost, faults>>

\* The next minute.  A streak ends when nobody stored a verdict for too long.
NextMinute ==
  /\ minute < MaxMinute
  /\ \A r \in Probers : probe[r].step = "idle" /\ probe[r].last = minute
  /\ minute' = minute + 1
  /\ overruled' = (overruled /\ Recent(minute + 1) # {})
  /\ UNCHANGED <<verdict, daily, open, holder, probe, lost, faults>>

ProbeNext ==
  \/ \E r \in Probers :
       \/ Lead(r) \/ LeadFails(r) \/ ReadPrevious(r) \/ ReadIncidents(r)
       \/ ReadFails(r) \/ Streak(r) \/ OpenIncident(r) \/ ResolveIncident(r)
       \/ Record(r) \/ RecordFails(r) \/ LoseSession(r) \/ CrashProber(r)
  \/ AdminResolve
  \/ NextMinute

ProbeSpec == ProbeInit /\ [][ProbeNext]_probeVars

----------------------------------------------------------------------------
\* Each minute counts once towards a service's availability, however many
\* replicas believe they lead and however often a verdict is tried.
MinuteCountsOnce == daily = Cardinality({m \in Minutes : verdict[m].stored})

\* Two replicas judge the same minute only if a leader lost its session in
\* that very minute: a stale belief in leadership does not outlive it.
JudgesOverlapOnlyOnLoss ==
  \A q, r \in Probers :
    probe[q].step # "idle" /\ probe[r].step # "idle" => q = r \/ lost = minute

\* The last n verdicts stored up to minute m are bad.
LastBad(n, m) ==
  \E first \in 1..m + 1 :
    LET span == {k \in first..m : verdict[k].stored} IN
    /\ Cardinality(span) = n
    /\ \A k \in span : verdict[k].goodRuns = 0

\* The stored streaks count verdicts, across changes of leader: a bad streak
\* of n ends in n bad verdicts with no good one in between.
StreaksCountVerdicts ==
  \A m \in Minutes : verdict[m].badRuns > 0 => LastBad(verdict[m].badRuns, m)

\* An incident opens only for a service whose last OpenAfter - 1 stored
\* verdicts were bad, as is the judgement that opens it, also when two
\* replicas judge and an earlier minute was not judged at all.
IncidentNeedsStreak ==
  [][~open /\ open' => LastBad(OpenAfter - 1, minute - 1)]_probeVars

\* Without faults a service that has been good for ResolveAfter probes has no
\* automatic incident open, however administrators interfere.
RecoveryResolves ==
  verdict[minute].goodRuns >= ResolveAfter /\ ~faults => ~open

\* "So it is not opened again after an admin resolves it while the service is
\* still failing" (ServiceVerdict.Incident): no incident is opened in a bad
\* streak in which an administrator has resolved one.
AdminNotOverridden == [][~open /\ open' => ~overruled]_probeVars

\* While no statement fails and the leader lives, that is so.
CalmAdminNotOverridden == [][~open /\ open' => ~overruled \/ faults]_probeVars

\* The verdicts are well-formed, and a minute counts once, with the verdict its
\* streak is counted from: two judges overlap only in the minute a leader lost its
\* session (statusJudge, leadStatus).
MinutesCountOnce ==
  ProbeTypeOK /\ MinuteCountsOnce /\ StreaksCountVerdicts /\ JudgesOverlapOnlyOnLoss

\* An incident is opened by a streak and resolved by one, and while nothing fails
\* never against an administrator (advanceStreak, statusJudge).
IncidentsFollowStreaks ==
  []RecoveryResolves /\ IncidentNeedsStreak /\ CalmAdminNotOverridden
=============================================================================

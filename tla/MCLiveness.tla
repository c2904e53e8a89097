---------------------------- MODULE MCLiveness ----------------------------
(***************************************************************************)
(* Everything that must end, in one run: refreshes, sign-ins and waits for *)
(* the credentials lock.  The three components share no state, so each     *)
(* behaviour is one of a single component, chosen at the start, with the   *)
(* others at rest.                                                         *)
(***************************************************************************)
EXTENDS Naturals, FiniteSets

VARIABLES
  running,                                             \* the component
  now, sess, used, rbanned, issued, req, jar, lineage, \* TokenRotation
  challenge, identity, exists, lbanned, session, login, admin, known,
                                                       \* AuthLogin
  kept, lock, newest, over, cmd, failures, slow        \* CliCredentials

refreshVars == <<now, sess, used, rbanned, issued, req, jar, lineage>>
loginVars ==
  <<challenge, identity, exists, lbanned, session, login, admin, known>>
commandVars == <<kept, lock, newest, over, cmd, failures, slow>>
vars == <<running, refreshVars, loginVars, commandVars>>

R == INSTANCE TokenRotation WITH
  Users <- {"u1"}, Sessions <- {"s1"}, Requests <- {"r1", "r2"},
  NoSession <- "none", Grace <- 1, AccessTTL <- 1, SessionTTL <- 1,
  FreshTTL <- 1, StaleCopies <- TRUE, LossyReplies <- TRUE, Latency <- 9,
  MaxTime <- 2, MaxPairs <- 3, banned <- rbanned

L == INSTANCE AuthLogin WITH
  Users <- {"u1", "u2"}, Identities <- {"i1"}, Challenges <- {"c1", "c2"},
  Logins <- {"l1", "l2"}, MaxAttempts <- 2, None <- "none",
  banned <- lbanned

C == INSTANCE CliCredentials WITH
  Commands <- {"c1", "c2"}, SignIns <- {1}, LockStale <- 2, LockWait <- 1,
  RequestTime <- 3, MaxTokens <- 3, MaxFailures <- 1

Init ==
  /\ running \in {"refreshes", "logins", "commands"}
  /\ R!Init /\ L!Init /\ C!CommandInit

Refreshes ==
  running = "refreshes" /\ R!Next /\ UNCHANGED <<running, loginVars, commandVars>>

Logins ==
  running = "logins" /\ L!Next /\ UNCHANGED <<running, refreshVars, commandVars>>

Commands ==
  running = "commands" /\ C!CommandNext /\ UNCHANGED <<running, refreshVars, loginVars>>

Next == Refreshes \/ Logins \/ Commands

Spec ==
  /\ Init /\ [][Next]_vars
  /\ R!Fairness /\ L!Fairness /\ C!CommandFairness

----------------------------------------------------------------------------
\* Every refresh is answered or given up on, no early return keeps the row lock
\* others wait for; every login ends, also one that deadlocks with the deletion of
\* the account it links to (Store.Refresh, completeWith, DeleteUser).
EveryRequestEnds == R!EveryRefreshAnswered /\ L!EveryLoginEnds

\* Nobody waits for the credentials lock for ever, not even for that of a
\* process that died (store.lock).
EveryWaitEnds == C!EveryWaitEnds
=============================================================================

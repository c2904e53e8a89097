--------------------------- MODULE CliCredentials ---------------------------
(***************************************************************************)
(* The command line client's kept session: credentials.json, replaced      *)
(* whole, and the lock file that is to serialize refreshes of several      *)
(* msime-cloud processes (cmd/msime-cloud/session.go, and refresh, signIn  *)
(* and logout in main.go).                                                 *)
(*                                                                         *)
(* The lock is a file created with O_EXCL.  A waiter that sees a lock      *)
(* older than lockStale removes whatever is at its path by then; so does   *)
(* the unlock.  The server is the one of TokenRotation in short: a token   *)
(* is <<s, n>>, good while n is the newest of session s; an older one is   *)
(* answered "superseded", or ends the session.  Names differ from those of *)
(* TokenRotation, so that one module can extend both.                      *)
(*                                                                         *)
(* Time is kept as ages: of the lock file, of a wait, of a request.        *)
(***************************************************************************)
EXTENDS Naturals, FiniteSets

CONSTANTS
  Commands,     \* processes
  SignIns,     \* server sessions, one per sign-in
  LockStale,    \* lockStale
  LockWait,     \* lockWait
  RequestTime,  \* longest time a refresh takes, at most requestTimeout
  MaxTokens,    \* bound on the tokens of a session
  MaxFailures   \* bound: processes that die and requests that fail

ASSUME CredentialsAssumption ==
  /\ LockStale \in Nat /\ LockWait \in Nat /\ RequestTime \in Nat
  /\ MaxTokens \in Nat \ {0}
  /\ SignIns \subseteq Nat /\ 0 \notin SignIns
  /\ MaxFailures \in Nat

VARIABLES
  kept,    \* the token in credentials.json
  lock,    \* credentials.lock: whether it exists, and its age
  newest,  \* server: the newest token of each session, 0 before sign-in
  over,    \* server: sessions that were ended
  cmd,     \* the processes
  failures,\* how many processes died or requests failed
  slow     \* history: a request took longer than a lock takes to become stale

commandVars == <<kept, lock, newest, over, cmd, failures, slow>>

Tokens == SignIns \X (1..MaxTokens)
NoToken == <<0, 0>>

CommandSteps ==
  {"idle", "locking", "remove", "locked", "sent", "received", "unlock", "forget"}

\* age: of the wait for the lock, then of the request.
Command == [step: CommandSteps, used: Tokens \cup {NoToken}, age: Nat,
            got: Tokens \cup {NoToken}]

\* Every variable has its type, and the kept token is one the server issued.
CredentialsTypeOK ==
  /\ kept \in Tokens \cup {NoToken}
  /\ kept # NoToken => kept[2] <= newest[kept[1]]
  /\ lock \in [exists: BOOLEAN, age: Nat]
  /\ newest \in [SignIns -> 0..MaxTokens]
  /\ over \in SUBSET SignIns
  /\ cmd \in [Commands -> Command]
  /\ failures \in 0..MaxFailures
  /\ slow \in BOOLEAN

Idle == [step |-> "idle", used |-> NoToken, age |-> 0, got |-> NoToken]

NoLock == [exists |-> FALSE, age |-> 0]

CommandInit ==
  /\ kept = NoToken
  /\ lock = NoLock
  /\ newest = [s \in SignIns |-> 0]
  /\ over = {}
  /\ cmd = [c \in Commands |-> Idle]
  /\ failures = 0 /\ slow = FALSE

Goto(c, step) == cmd' = [cmd EXCEPT ![c].step = step]

----------------------------------------------------------------------------
\* signIn: a new session; its token is put without taking the lock.
SignIn(c, s) ==
  /\ cmd[c].step = "idle"
  /\ newest[s] = 0
  /\ newest' = [newest EXCEPT ![s] = 1]
  /\ kept' = <<s, 1>>
  /\ UNCHANGED <<lock, over, cmd, failures, slow>>

\* logout: the server ends the session, then the file forgets what it keeps.
SignOut(c) ==
  /\ cmd[c].step = "idle"
  /\ kept # NoToken
  /\ over' = over \cup {kept[1]}
  /\ Goto(c, "forget")
  /\ UNCHANGED <<kept, lock, newest, failures, slow>>

Forget(c) ==
  /\ cmd[c].step = "forget"
  /\ kept' = NoToken
  /\ cmd' = [cmd EXCEPT ![c] = Idle]
  /\ UNCHANGED <<lock, newest, over, failures, slow>>

\* send: the access token is about to expire, or was answered 401.
NeedRefresh(c) ==
  /\ cmd[c].step = "idle"
  /\ kept # NoToken
  /\ kept[2] < MaxTokens
  /\ cmd' = [cmd EXCEPT ![c] = [@ EXCEPT !.step = "locking", !.used = kept]]
  /\ UNCHANGED <<kept, lock, newest, over, failures, slow>>

Stale == lock.exists /\ lock.age > LockStale

\* Mutant: a waiter never gives up.
Patient(c) == FALSE

LockFree == ~lock.exists
Overdue(c) == cmd[c].age > LockWait

\* One turn of the loop in lock: create the file, or see a stale one, or give
\* up; sleeping and polling again is a stutter.
TryLock(c) ==
  /\ cmd[c].step = "locking"
  /\ \/ /\ LockFree
        /\ lock' = [exists |-> TRUE, age |-> 0]
        /\ Goto(c, "locked")
     \/ /\ ~LockFree /\ Stale
        /\ Goto(c, "remove")
        /\ UNCHANGED lock
     \/ /\ ~LockFree /\ ~Stale /\ Overdue(c)
        /\ cmd' = [cmd EXCEPT ![c] = Idle]
        /\ UNCHANGED lock
  /\ UNCHANGED <<kept, newest, over, failures, slow>>

\* os.Remove, of whatever lock is there now.
RemoveStale(c) ==
  /\ cmd[c].step = "remove"
  /\ lock' = NoLock
  /\ Goto(c, "locking")
  /\ UNCHANGED <<kept, newest, over, failures, slow>>

\* Mutant: the token read before the lock is sent.
SendUsed(c) == TRUE

\* Nobody refreshed while this command waited.
StillKept(c) == kept = cmd[c].used

\* Under the lock the file is read again.
Reread(c) ==
  /\ cmd[c].step = "locked"
  /\ cmd' = [cmd EXCEPT ![c].step = IF StillKept(c) THEN "sent" ELSE "unlock",
                         ![c].age = 0]
  /\ UNCHANGED <<kept, lock, newest, over, failures, slow>>

\* POST /v1/auth/refresh.  A session that is over answers 401; so does a
\* replayed token, which ends it, unless it was exchanged moments ago (409).
ServeRefresh(c) ==
  LET s == cmd[c].used[1]
      n == cmd[c].used[2]
  IN
  /\ cmd[c].step = "sent"
  /\ \/ /\ s \notin over /\ n = newest[s] /\ n < MaxTokens
        /\ newest' = [newest EXCEPT ![s] = n + 1]
        /\ cmd' = [cmd EXCEPT ![c].step = "received", ![c].got = <<s, n + 1>>]
        /\ UNCHANGED over
     \/ /\ s \in over
        /\ Goto(c, "received")
        /\ UNCHANGED <<newest, over>>
     \/ /\ s \notin over /\ n < newest[s]
        /\ over' = over \cup {s}
        /\ Goto(c, "received")
        /\ UNCHANGED newest
     \/ /\ s \notin over /\ n < newest[s]
        /\ Goto(c, "unlock")
        /\ UNCHANGED <<newest, over>>
  /\ UNCHANGED <<kept, lock, failures, slow>>

\* Mutant: the new token is not stored.
PutNothing(c) ==
  /\ cmd[c].step = "received"
  /\ Goto(c, "unlock")
  /\ UNCHANGED <<kept, lock, newest, over, failures, slow>>

\* put: the new pair, or nothing after a 401.
Put(c) ==
  /\ cmd[c].step = "received"
  /\ kept' = cmd[c].got
  /\ Goto(c, "unlock")
  /\ UNCHANGED <<lock, newest, over, failures, slow>>

\* The deferred os.Remove, of whatever lock is there now.
Unlock(c) ==
  /\ cmd[c].step = "unlock"
  /\ lock' = NoLock
  /\ cmd' = [cmd EXCEPT ![c] = Idle]
  /\ UNCHANGED <<kept, newest, over, failures, slow>>

Crash(c) ==
  /\ failures < MaxFailures
  /\ failures' = failures + 1
  /\ cmd[c].step # "idle"
  /\ cmd' = [cmd EXCEPT ![c] = Idle]
  /\ UNCHANGED <<kept, lock, newest, over, slow>>

\* The request or its answer is lost, or the answer is neither 200 nor 401.
RequestFails(c) ==
  /\ failures < MaxFailures
  /\ failures' = failures + 1
  /\ cmd[c].step \in {"sent", "received"}
  /\ Goto(c, "unlock")
  /\ UNCHANGED <<kept, lock, newest, over, slow>>

Older(age, most) == IF age > most THEN age ELSE age + 1

\* Everything but a request is quick: a waiter polls ten times a second, and
\* a request takes at most RequestTime.
TimePasses ==
  /\ \A c \in Commands :
       \/ cmd[c].step = "idle"
       \/ cmd[c].step = "sent" /\ cmd[c].age < RequestTime
       \/ cmd[c].step = "locking" /\ ~LockFree /\ ~Stale /\ ~Overdue(c)
  /\ lock' = IF lock.exists THEN [lock EXCEPT !.age = Older(@, LockStale)]
             ELSE lock
  /\ cmd' = [c \in Commands |->
       IF cmd[c].step = "idle" THEN cmd[c]
       ELSE [cmd[c] EXCEPT !.age = Older(@, LockWait + RequestTime)]]
  /\ slow' = (slow \/ \E c \in Commands : cmd'[c].step = "sent" /\ cmd'[c].age > LockStale)
  /\ UNCHANGED <<kept, newest, over, failures>>

Step(c) ==
  \/ Forget(c) \/ TryLock(c) \/ RemoveStale(c) \/ Reread(c) \/ ServeRefresh(c)
  \/ Put(c) \/ Unlock(c)

CommandNext ==
  \/ \E c \in Commands : \/ \E s \in SignIns : SignIn(c, s)
                         \/ SignOut(c) \/ NeedRefresh(c) \/ Step(c) \/ Crash(c)
                         \/ RequestFails(c)
  \/ TimePasses

CommandSpec == CommandInit /\ [][CommandNext]_commandVars

\* Processes that live go on, and time passes however many commands are run.
CommandFairness ==
  SF_commandVars(TimePasses) /\ \A c \in Commands : WF_commandVars(Step(c))

----------------------------------------------------------------------------
Refreshing(c) == cmd[c].step \in {"locked", "sent", "received", "unlock"}

\* "lock serializes refreshes across processes" (store.lock): two commands
\* are never between taking the lock and giving it back at the same time.
OneRefresher ==
  \A c, d \in Commands : Refreshing(c) /\ Refreshing(d) => c = d

\* What the lock is for: as long as no process died, no answer was lost and no
\* request outlasted the lock, no command presents a refresh token that another
\* has exchanged already, which would end the session they share.
NoReplay ==
  \A c \in Commands :
    failures = 0 /\ ~slow /\ cmd[c].step = "sent" /\ cmd[c].used[1] \notin over =>
      cmd[c].used[2] = newest[cmd[c].used[1]]

\* As long as no answer was lost, the session that is kept when no command runs
\* can be refreshed again, also after slow requests that had the lock taken away.
KeptIsNewest ==
  /\ failures = 0
  /\ \A c \in Commands : cmd[c].step = "idle"
  /\ kept # NoToken
  => kept[1] \in over \/ kept[2] = newest[kept[1]]

\* No command sends a refresh token that was exchanged before, and what is kept
\* is the newest of its session (session, store.put).
NewestIsKept == CredentialsTypeOK /\ NoReplay /\ KeptIsNewest

\* Nobody waits for a lock for ever, not even for one whose owner died.
EveryWaitEnds ==
  \A c \in Commands :
    cmd[c].step = "locking" ~> cmd[c].step \in {"idle", "locked"}
=============================================================================

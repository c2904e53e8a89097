----------------------------- MODULE AuthLogin -----------------------------
(***************************************************************************)
(* Sign-in of internal/account: challenges (begin, http.go), the login     *)
(* handler (http.go) and its transaction completeWith (store.go), beside   *)
(* the console's ban and unban (admin_users_ext.go) and the deletion of an *)
(* account.                                                                *)
(*                                                                         *)
(* completeWith and the ban are transactions of several statements.  The   *)
(* model splits them where another transaction can come in between, and    *)
(* keeps the locks they hold: the deleted challenge row, the advisory lock *)
(* of the identity, FOR SHARE / FOR UPDATE on the user row.                *)
(*                                                                         *)
(* Each login request creates at most one session, which has its name.     *)
(***************************************************************************)
EXTENDS Naturals, FiniteSets

CONSTANTS
  Users,        \* account ids
  Identities,   \* <<provider, subject>> pairs that can be verified
  Challenges,   \* challenge ids
  Logins,       \* login requests, and the sessions they create
  MaxAttempts,  \* credential checks one challenge allows (attempts<5)
  None

ASSUME LoginAssumption ==
  /\ MaxAttempts \in Nat \ {0}
  /\ None \notin Users \cup Identities \cup Challenges

VARIABLES
  challenge,  \* auth_challenges
  identity,   \* auth_identities: the user an identity belongs to
  exists,     \* auth_users, committed rows
  banned,     \* users with banned_at set, committed
  session,    \* auth_sessions by login: owner and whether it is open
  login,      \* the login requests
  admin,      \* what a transaction holding a user row FOR UPDATE is doing
  known       \* history: accounts that have existed

vars == <<challenge, identity, exists, banned, session, login, admin, known>>

Challenge == [state: {"unsent", "live", "expired", "gone"},
              attempts: 0..MaxAttempts, link: Users \cup {None},
              subject: Identities \cup {None}]

Session == [state: {"none", "open", "revoked"}, user: Users \cup {None}]

Steps == {"idle", "principal", "check", "consume", "identify", "account",
          "commit", "done"}

Answers == {"none", "tokens", "invalid", "conflict", "banned", "error"}

Login == [step: Steps, challenge: Challenges \cup {None},
          link: Users \cup {None}, as: Identities \cup {None},
          uid: Users \cup {None}, answer: Answers]

Jobs == {"none", "ban", "delete"}

TypeOK ==
  /\ challenge \in [Challenges -> Challenge]
  /\ identity \in [Identities -> Users \cup {None}]
  /\ exists \in SUBSET Users
  /\ banned \in SUBSET exists
  /\ session \in [Logins -> Session]
  /\ login \in [Logins -> Login]
  /\ admin \in [Users -> Jobs]
  /\ known \in SUBSET Users

----------------------------------------------------------------------------
Init ==
  /\ challenge = [c \in Challenges |->
       [state |-> "unsent", attempts |-> 0, link |-> None, subject |-> None]]
  /\ identity = [i \in Identities |-> None]
  /\ exists = {}
  /\ banned = {}
  /\ session = [l \in Logins |-> [state |-> "none", user |-> None]]
  /\ login = [l \in Logins |-> [step |-> "idle", challenge |-> None,
                link |-> None, as |-> None, uid |-> None, answer |-> "none"]]
  /\ admin = [u \in Users |-> "none"]
  /\ known = {}

\* Authenticate finds an open session of u.
SignedIn(u) == u \notin banned
  /\ \E l \in Logins : session[l] = [state |-> "open", user |-> u]

\* Mutant: the account a challenge links to is forgotten.
Unlinked(l) == login[l].uid

\* The user an uncommitted login stands for: the identity's, or the one the
\* challenge links to.
Account(l) == IF login[l].uid # None THEN login[l].uid ELSE login[l].link

\* Mutant: the transaction stays open after an early return.
NotRolledBack(l) == login[l].step \in {"identify", "account", "commit", "done"}

InTransaction(l) == login[l].step \in {"identify", "account", "commit"}

\* Mutants: the challenge is read before it is deleted; no advisory lock; no
\* FOR SHARE.
ChallengeFree(c) == FALSE
IdentityFree(i) == FALSE
NotShared(u) == FALSE

\* Locks, by the transactions that hold them.
ChallengeLocked(c) == \E l \in Logins : login[l].challenge = c /\ InTransaction(l)
IdentityLocked(i) ==
  \E l \in Logins : login[l].as = i /\ login[l].step \in {"account", "commit"}
SharedUser(u) == \E l \in Logins : login[l].step = "commit" /\ Account(l) = u
UpdatedUser(u) == admin[u] # "none"

End(l, answer) ==
  login' = [login EXCEPT ![l] = [@ EXCEPT !.step = "done", !.answer = answer,
                                          !.as = None, !.uid = None]]

\* Mutant: the challenge is not deleted.
KeepIt(c) == UNCHANGED challenge

Drop(c) == challenge' = [challenge EXCEPT ![c].state = "gone"]

----------------------------------------------------------------------------
\* begin + PutChallenge.  A challenge to link needs a signed-in user; a code
\* is bound to its target, an ID token or OAuth code names its subject later.
\* When the code cannot be sent the row is dropped again (DropChallenge).
Begin(c) ==
  /\ challenge[c].state = "unsent"
  /\ \E u \in Users \cup {None}, i \in Identities \cup {None},
        state \in {"live", "gone"} :
       /\ u # None => SignedIn(u)
       /\ challenge' = [challenge EXCEPT
            ![c] = [@ EXCEPT !.state = state, !.link = u, !.subject = i]]
  /\ UNCHANGED <<identity, exists, banned, session, login, admin, known>>

\* Five minutes pass.
ExpireChallenge(c) ==
  /\ challenge[c].state = "live"
  /\ challenge' = [challenge EXCEPT ![c].state = "expired"]
  /\ UNCHANGED <<identity, exists, banned, session, login, admin, known>>

Allowed(c) == challenge[c].state = "live" /\ challenge[c].attempts < MaxAttempts

\* Attempt: UPDATE ... attempts+1 WHERE unexpired AND attempts<5, waiting for
\* a transaction that deletes the row.
Attempt(l, c) ==
  /\ login[l].step = "idle"
  /\ challenge[c].state # "unsent"
  /\ ~ChallengeLocked(c)
  /\ IF Allowed(c)
     THEN /\ challenge' = [challenge EXCEPT ![c].attempts = @ + 1]
          /\ login' = [login EXCEPT
               ![l] = [@ EXCEPT !.challenge = c, !.link = challenge[c].link,
                 !.step = IF challenge[c].link = None
                          THEN "check" ELSE "principal"]]
     ELSE /\ End(l, "invalid")
          /\ UNCHANGED challenge
  /\ UNCHANGED <<identity, exists, banned, session, admin, known>>

\* A linking login must carry a session of the very user who began it.
CheckPrincipal(l) ==
  /\ login[l].step = "principal"
  /\ \/ /\ SignedIn(login[l].link)
        /\ login' = [login EXCEPT ![l].step = "check"]
     \/ End(l, "invalid")
  /\ UNCHANGED <<challenge, identity, exists, banned, session, admin, known>>

\* The credential is compared, or verified by the provider.
CheckCredential(l) ==
  /\ login[l].step = "check"
  /\ \/ End(l, "invalid")
     \/ \E i \in Identities :
          /\ challenge[login[l].challenge].subject \in {i, None}
          /\ login' = [login EXCEPT ![l].step = "consume", ![l].as = i]
  /\ UNCHANGED <<challenge, identity, exists, banned, session, admin, known>>

\* DELETE FROM auth_challenges ... RETURNING: the row stays locked, and is
\* gone for good only when the transaction commits.
Consume(l) ==
  LET c == login[l].challenge IN
  /\ login[l].step = "consume"
  /\ ~ChallengeLocked(c)
  /\ IF challenge[c].state = "live"
     THEN login' = [login EXCEPT ![l].step = "identify"]
     ELSE End(l, "invalid")
  /\ UNCHANGED <<challenge, identity, exists, banned, session, admin, known>>

Conflict(l) ==
  /\ login[l].link # None
  /\ identity[login[l].as] \notin {None, login[l].link}

\* pg_advisory_xact_lock on the identity, then SELECT user_id.
Identify(l) ==
  /\ login[l].step = "identify"
  /\ ~IdentityLocked(login[l].as)
  /\ IF Conflict(l)
     THEN End(l, "conflict")
     ELSE login' = [login EXCEPT ![l].step = "account",
                                 ![l].uid = identity[login[l].as]]
  /\ UNCHANGED <<challenge, identity, exists, banned, session, admin, known>>

\* SELECT banned_at ... FOR SHARE waits for a ban or deletion in progress and
\* reads what it left.  A ban commits the consumption and answers "banned".
ReadAccount(l) ==
  LET u == Account(l) IN
  /\ login[l].step = "account"
  /\ u # None => ~UpdatedUser(u)
  /\ IF u \in banned
     THEN End(l, "banned") /\ Drop(login[l].challenge)
     ELSE /\ login' = [login EXCEPT ![l].step = "commit"]
          /\ UNCHANGED challenge
  /\ UNCHANGED <<identity, exists, banned, session, admin, known>>

\* The rows are inserted and committed: a new user unless the identity or the
\* challenge has one, the identity if it is new, the session.  The foreign key
\* fails when the account was deleted in the meantime.
Owners(l) ==
  IF Account(l) # None THEN {Account(l)} ELSE Users \ known

CommitLogin(l) ==
  /\ login[l].step = "commit"
  /\ \E u \in Owners(l) :
       IF Account(l) # None /\ u \notin exists
       THEN /\ End(l, "error")
            /\ UNCHANGED <<challenge, identity, exists, session, known>>
       ELSE /\ exists' = exists \cup {u}
            /\ known' = known \cup {u}
            /\ identity' = IF login[l].uid = None
                           THEN [identity EXCEPT ![login[l].as] = u]
                           ELSE identity
            /\ session' = [session EXCEPT
                 ![l] = [state |-> "open", user |-> u]]
            /\ Drop(login[l].challenge)
            /\ End(l, "tokens")
  /\ UNCHANGED <<banned, admin>>

\* The connection fails: roll back.
AbortLogin(l) ==
  /\ InTransaction(l)
  /\ End(l, "error")
  /\ UNCHANGED <<challenge, identity, exists, banned, session, admin, known>>

----------------------------------------------------------------------------
\* lockUserForBan: SELECT ... FOR UPDATE.
BeginBan(u) ==
  /\ u \in exists \ banned
  /\ ~SharedUser(u) /\ ~UpdatedUser(u)
  /\ admin' = [admin EXCEPT ![u] = "ban"]
  /\ UNCHANGED <<challenge, identity, exists, banned, session, login, known>>

\* banned_at is set, every session committed so far is revoked, commit.
CommitBan(u) ==
  /\ admin[u] = "ban"
  /\ banned' = banned \cup {u}
  /\ session' = [l \in Logins |->
       IF session[l].user = u /\ session[l].state = "open"
       THEN [session[l] EXCEPT !.state = "revoked"] ELSE session[l]]
  /\ admin' = [admin EXCEPT ![u] = "none"]
  /\ UNCHANGED <<challenge, identity, exists, login, known>>

Unban(u) ==
  /\ u \in banned
  /\ ~SharedUser(u) /\ ~UpdatedUser(u)
  /\ banned' = banned \ {u}
  /\ UNCHANGED <<challenge, identity, exists, session, login, admin, known>>

LogOut(l) ==
  /\ session[l].state = "open"
  /\ session' = [session EXCEPT ![l].state = "revoked"]
  /\ UNCHANGED <<challenge, identity, exists, banned, login, admin, known>>

\* DELETE FROM auth_users by the signed-in user: the row is locked first, then
\* the cascade reaches the user's challenges, which a login may hold.
BeginDelete(u) ==
  /\ SignedIn(u)
  /\ ~SharedUser(u) /\ ~UpdatedUser(u)
  /\ admin' = [admin EXCEPT ![u] = "delete"]
  /\ UNCHANGED <<challenge, identity, exists, banned, session, login, known>>

LinkChallenges(u) ==
  {c \in Challenges : challenge[c].link = u /\ challenge[c].state # "gone"}

CommitDelete(u) ==
  /\ admin[u] = "delete"
  /\ \A c \in LinkChallenges(u) : ~ChallengeLocked(c)
  /\ exists' = exists \ {u}
  /\ identity' = [i \in Identities |->
       IF identity[i] = u THEN None ELSE identity[i]]
  /\ session' = [l \in Logins |->
       IF session[l].user = u THEN [state |-> "none", user |-> None]
       ELSE session[l]]
  /\ challenge' = [c \in Challenges |->
       IF c \in LinkChallenges(u) THEN [challenge[c] EXCEPT !.state = "gone"]
       ELSE challenge[c]]
  /\ admin' = [admin EXCEPT ![u] = "none"]
  /\ UNCHANGED <<banned, login, known>>

\* The console request or the deletion fails before it commits.
AbortAdmin(u) ==
  /\ UpdatedUser(u)
  /\ admin' = [admin EXCEPT ![u] = "none"]
  /\ UNCHANGED <<challenge, identity, exists, banned, session, login, known>>

\* A linking login holds its challenge and waits for the user row; deleting
\* that user holds the row and its cascade waits for the challenge.
\* PostgreSQL detects the cycle and rolls one of the two back.
Deadlocked(l, u) ==
  /\ login[l].step = "account"
  /\ Account(l) = u
  /\ admin[u] = "delete"
  /\ login[l].challenge \in LinkChallenges(u)

ResolveDeadlock(l) ==
  \E u \in Users :
    /\ Deadlocked(l, u)
    /\ \/ AbortLogin(l)
       \/ AbortAdmin(u)

Step(l) ==
  \/ CheckPrincipal(l) \/ CheckCredential(l) \/ Consume(l) \/ Identify(l)
  \/ ReadAccount(l) \/ CommitLogin(l)

Next ==
  \/ \E c \in Challenges : \/ Begin(c) \/ ExpireChallenge(c)
                           \/ \E l \in Logins : Attempt(l, c)
  \/ \E l \in Logins : Step(l) \/ AbortLogin(l) \/ ResolveDeadlock(l)
                       \/ LogOut(l)
  \/ \E u \in Users : \/ BeginBan(u) \/ CommitBan(u) \/ Unban(u)
                      \/ BeginDelete(u) \/ CommitDelete(u) \/ AbortAdmin(u)

Spec == Init /\ [][Next]_vars

\* Requests run to their end; strongly, because a lock is granted to its
\* waiters in order.  An administrator's or a user's transaction ends too.
Fairness ==
  /\ \A l \in Logins : SF_vars(Step(l)) /\ WF_vars(ResolveDeadlock(l))
  /\ \A u \in Users : WF_vars(CommitBan(u) \/ CommitDelete(u))

----------------------------------------------------------------------------
\* A verified challenge signs in once, however many requests present it with
\* the right credential at the same time.
OneSessionPerChallenge ==
  \A l, m \in Logins :
    /\ login[l].answer = "tokens" /\ login[m].answer = "tokens"
    /\ login[l].challenge = login[m].challenge
    => l = m

\* A ban is complete: no session of a banned account is open, not even one
\* whose sign-in was under way when the ban was carried out, and the account
\* gains no identity through a linking that had started before.
BanIsComplete ==
  /\ [](\A l \in Logins :
          session[l].state = "open" => session[l].user \notin banned)
  /\ [][\A i \in Identities :
          identity'[i] # identity[i] => identity'[i] \notin banned]_vars

\* The advisory lock: concurrent first sign-ins of one identity make one
\* account, so that every account can be signed in to.
NoOrphanAccount ==
  \A u \in exists : \E i \in Identities : identity[i] = u

\* A login that links ends in the account it was started from, or not at all:
\* it never signs in to the account the identity already belongs to.
LinkedToStarter ==
  \A l \in Logins :
    /\ login[l].answer = "tokens"
    /\ login[l].link # None
    => session[l].user \in {login[l].link, None}

\* A credential that was verified is used up by success and by the refusal of
\* a banned account alike, and stays valid when the transaction rolled back.
VerifiedIsSpent ==
  \A l \in Logins :
    login[l].answer \in {"tokens", "banned"} =>
      challenge[login[l].challenge].state = "gone"

\* What the logins store is well-formed, a challenge gives one session, and a
\* credential that was verified is spent whatever the answer (completeWith).
SpentOnce == TypeOK /\ OneSessionPerChallenge /\ VerifiedIsSpent

\* Every login ends, also one that deadlocks with the deletion of the account
\* it links to.
EveryLoginEnds ==
  \A l \in Logins : login[l].step # "idle" ~> login[l].step = "done"
=============================================================================

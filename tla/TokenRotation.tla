--------------------------- MODULE TokenRotation ---------------------------
(***************************************************************************)
(* Refresh-token rotation of internal/account/store.go.                    *)
(*                                                                         *)
(* A session row (auth_sessions) holds one current access/refresh pair.    *)
(* Refresh is a READ COMMITTED transaction of several statements: it locks *)
(* the row that holds the presented token, files the token under           *)
(* auth_used_refresh and stores a fresh pair.  A token that was rotated    *)
(* less than Grace ago is answered "superseded"; an older one revokes the  *)
(* session.  Logout, ban, login and pruning run beside any number of       *)
(* refreshes, on any replica, and answers can be lost.                     *)
(*                                                                         *)
(* A pair is a number: n stands for both the access and the refresh token  *)
(* that one login or one rotation issues.                                  *)
(***************************************************************************)
EXTENDS Naturals, FiniteSets

CONSTANTS
  Users,        \* accounts
  Sessions,     \* session ids (random, never reused)
  Requests,     \* refresh requests in flight at once
  NoSession,    \* "no row locked"
  Grace,        \* refreshSupersededGrace
  AccessTTL,    \* life of an access token
  SessionTTL,   \* life of a session
  FreshTTL,     \* recentLogin: how old a session may be to delete its user
  StaleCopies,  \* TRUE: any pair ever issued may be presented again
  LossyReplies, \* TRUE: an answer may never reach its client
  Latency,      \* longest time from reading the jar to storing the answer
  MaxTime,      \* bound on the clock
  MaxPairs      \* bound on the pairs issued

ASSUME RotationAssumption ==
  /\ Users # {}
  /\ NoSession \notin Sessions
  /\ IsFiniteSet(Requests)
  /\ Grace \in Nat /\ AccessTTL \in Nat /\ SessionTTL \in Nat
  /\ FreshTTL \in Nat
  /\ Latency \in Nat /\ MaxTime \in Nat /\ MaxPairs \in Nat
  /\ StaleCopies \in BOOLEAN /\ LossyReplies \in BOOLEAN

VARIABLES
  now,      \* the database clock
  sess,     \* auth_sessions, by session id
  used,     \* auth_used_refresh
  banned,   \* users with banned_at set
  issued,   \* number of pairs handed out so far
  req,      \* the refresh requests, by request
  jar,      \* the pair the session's client keeps (cookie, credentials file)
  lineage   \* history: which pair was rotated into which

vars == <<now, sess, used, banned, issued, req, jar, lineage>>

Pairs == 1..MaxPairs

RowStates == {"absent", "open", "revoked", "deleted"}

Row == [state: RowStates, user: Users, pair: 0..MaxPairs,
        accessEnd: Nat, end: Nat]

UsedRow == [pair: Pairs, session: Sessions, at: Nat]

Steps == {"idle", "sent", "select", "rotate", "check", "revoke", "done"}

Answers == {"none", "tokens", "superseded", "invalid", "banned", "error"}

Request == [step: Steps, pair: 0..MaxPairs,
            session: Sessions \cup {NoSession}, sentAt: Nat,
            began: Nat, sawBanned: SUBSET Users,
            lock: Sessions \cup {NoSession}, answer: Answers,
            got: 0..MaxPairs]

Stored(s) == sess[s].state \in {"open", "revoked"}

\* Every variable has its type, and a used token refers to a stored session
\* (the foreign key of auth_used_refresh), also while sessions are deleted
\* beside refreshes.
TypeOK ==
  /\ now \in Nat
  /\ sess \in [Sessions -> Row]
  /\ used \in SUBSET UsedRow
  /\ \A u \in used : Stored(u.session)
  /\ banned \in SUBSET Users
  /\ issued \in 0..MaxPairs
  /\ req \in [Requests -> Request]
  /\ jar \in [Sessions -> 0..MaxPairs]
  /\ lineage \in SUBSET [old: Pairs, new: Pairs]

----------------------------------------------------------------------------
IdleRequest ==
  [step |-> "idle", pair |-> 0, session |-> NoSession,
   sentAt |-> 0, began |-> 0, sawBanned |-> {}, lock |-> NoSession,
   answer |-> "none", got |-> 0]

Init ==
  /\ now = 0
  /\ sess = [s \in Sessions |->
               [state |-> "absent", user |-> CHOOSE u \in Users : TRUE,
                pair |-> 0, accessEnd |-> 0, end |-> 0]]
  /\ used = {}
  /\ banned = {}
  /\ issued = 0
  /\ req = [r \in Requests |-> IdleRequest]
  /\ jar = [s \in Sessions |-> 0]
  /\ lineage = {}

\* Mutant: other statements do not meet the refresh's row lock.
NeverLocked(s) == FALSE

\* A transaction holds the row lock of session s (FOR UPDATE OF s).
Locked(s) == \E r \in Requests : req[r].lock = s

\* Mutant: the refresh selects its row without FOR UPDATE.
NoWait(r, s) == TRUE

UnlockedFor(r, s) == \A q \in Requests \ {r} : req[q].lock # s

Earlier(a, b) == IF a < b THEN a ELSE b

\* The bound leaves every request in flight a pair to issue.
Room ==
  issued + Cardinality({r \in Requests : req[r].step # "idle"}) < MaxPairs

\* Mutant: the transaction is not rolled back on an early return.
AnswerHoldingLock(r, a, pair) ==
  req' = [req EXCEPT ![r].step = "done", ![r].answer = a, ![r].got = pair]

\* The transaction of r ends and its answer leaves the server.
Answer(r, a, pair) ==
  req' = [req EXCEPT ![r].step = "done", ![r].lock = NoSession,
                     ![r].answer = a, ![r].got = pair]

----------------------------------------------------------------------------
\* newSession, at the end of a sign-in: the FOR SHARE lock on the user keeps
\* a ban from committing in between.
LogIn(s, u) ==
  /\ sess[s].state = "absent"
  /\ u \notin banned
  /\ Room
  /\ issued' = issued + 1
  /\ sess' = [sess EXCEPT ![s] =
                [state |-> "open", user |-> u, pair |-> issued + 1,
                 accessEnd |-> now + AccessTTL, end |-> now + SessionTTL]]
  /\ jar' = [jar EXCEPT ![s] = issued + 1]
  /\ UNCHANGED <<now, used, banned, req, lineage>>

\* A client reads the pair it keeps and sends it.  With StaleCopies any pair
\* the session was ever given can come back (another tab's memory, a backup).
Send(r, s, n) ==
  /\ req[r].step = "idle"
  /\ jar[s] # 0
  /\ Room
  /\ \/ n = jar[s]
     \/ StaleCopies /\ n \in 1..issued
  /\ req' = [req EXCEPT ![r].step = "sent", ![r].pair = n, ![r].session = s,
                        ![r].sentAt = now]
  /\ UNCHANGED <<now, sess, used, banned, issued, jar, lineage>>

\* The transaction begins (now() is fixed) and its first statement takes its
\* snapshot: banned_at of the joined user is read from it even when the
\* session row is re-read after a lock wait.
Begin(r) ==
  /\ req[r].step = "sent"
  /\ req' = [req EXCEPT ![r].step = "select", ![r].began = now,
                        ![r].sawBanned = banned]
  /\ UNCHANGED <<now, sess, used, banned, issued, jar, lineage>>

\* SELECT ... WHERE refresh_hash=$1 AND expires_at>now() FOR UPDATE OF s.
Matches(r, s) ==
  /\ Stored(s)
  /\ sess[s].pair = req[r].pair
  /\ sess[s].end > req[r].began

\* Mutant: the revoked column is not looked at.
RotateAnyway(s) == "rotate"

\* A revoked row counts as none.
AfterSelect(s) == IF sess[s].state = "revoked" THEN "check" ELSE "rotate"

SelectRow(r) ==
  /\ req[r].step = "select"
  /\ \/ /\ \A s \in Sessions : ~Matches(r, s)
        /\ req' = [req EXCEPT ![r].step = "check"]
     \/ \E s \in Sessions :
          /\ Matches(r, s)
          /\ UnlockedFor(r, s)
          /\ \/ /\ sess[s].user \in req[r].sawBanned
                /\ Answer(r, "banned", 0)
             \/ /\ sess[s].user \notin req[r].sawBanned
                /\ req' = [req EXCEPT
                     ![r].lock = s, ![r].step = AfterSelect(s)]
  /\ UNCHANGED <<now, sess, used, banned, issued, jar, lineage>>

\* INSERT auth_used_refresh, UPDATE the session's pair, commit.
Rotate(r) ==
  LET s == req[r].lock IN
  /\ req[r].step = "rotate"
  /\ issued < MaxPairs
  /\ issued' = issued + 1
  /\ used' = used \cup
       {[pair |-> req[r].pair, session |-> s, at |-> req[r].began]}
  /\ sess' = [sess EXCEPT
       ![s].pair = issued + 1,
       ![s].accessEnd = Earlier(req[r].began + AccessTTL, sess[s].end)]
  /\ lineage' = lineage \cup {[old |-> req[r].pair, new |-> issued + 1]}
  /\ Answer(r, "tokens", issued + 1)
  /\ UNCHANGED <<now, banned, jar>>

\* Mutant: no grace period.
NoGrace(r) ==
  \E u \in used :
    /\ u.pair = req[r].pair
    /\ u.at > req[r].began
    /\ sess[u.session].state = "open"
    /\ sess[u.session].end > req[r].began

\* The second query: was the token rotated within Grace of this transaction's
\* own start, in a session that is still alive?
JustRotated(r) ==
  \E u \in used :
    /\ u.pair = req[r].pair
    /\ u.at + Grace > req[r].began
    /\ sess[u.session].state = "open"
    /\ sess[u.session].end > req[r].began

CheckUsed(r) ==
  /\ req[r].step = "check"
  /\ \/ JustRotated(r) /\ Answer(r, "superseded", 0)
     \/ ~JustRotated(r) /\ req' = [req EXCEPT ![r].step = "revoke"]
  /\ UNCHANGED <<now, sess, used, banned, issued, jar, lineage>>

\* Mutant: the family is looked up by the current pair.
FamilyByPair(r) == {s \in Sessions : Stored(s) /\ sess[s].pair = req[r].pair}

\* UPDATE auth_sessions SET revoked=true for the session that used the token.
FamilyOf(r) == {u.session : u \in {v \in used : v.pair = req[r].pair}}

Revoke(r) ==
  /\ req[r].step = "revoke"
  /\ \A s \in FamilyOf(r) : UnlockedFor(r, s)
  /\ sess' = [s \in Sessions |->
       IF s \in FamilyOf(r) THEN [sess[s] EXCEPT !.state = "revoked"]
       ELSE sess[s]]
  /\ Answer(r, "invalid", 0)
  /\ UNCHANGED <<now, used, banned, issued, jar, lineage>>

\* The connection fails, or the request is cancelled: the transaction rolls
\* back.
Abort(r) ==
  /\ req[r].step \in {"select", "rotate", "check", "revoke"}
  /\ LossyReplies
  /\ Answer(r, "error", 0)
  /\ UNCHANGED <<now, sess, used, banned, issued, jar, lineage>>

\* The request is over.  Its locks went with its transaction, not with it.
Ended(r) == [IdleRequest EXCEPT !.lock = req[r].lock]

\* The client stores the new pair; any other answer leaves the jar alone.
Deliver(r) ==
  /\ req[r].step = "done"
  /\ jar' = IF req[r].answer = "tokens"
            THEN [jar EXCEPT ![req[r].session] = req[r].got] ELSE jar
  /\ req' = [req EXCEPT ![r] = Ended(r)]
  /\ UNCHANGED <<now, sess, used, banned, issued, lineage>>

LoseReply(r) ==
  /\ LossyReplies
  /\ req[r].step = "done"
  /\ req' = [req EXCEPT ![r] = Ended(r)]
  /\ UNCHANGED <<now, sess, used, banned, issued, jar, lineage>>

----------------------------------------------------------------------------
RevokeRows(S) ==
  sess' = [s \in Sessions |->
     IF s \in S /\ Stored(s) THEN [sess[s] EXCEPT !.state = "revoked"]
     ELSE sess[s]]

\* Authenticate: the access token of a session is good.
Accepts(s) ==
  /\ sess[s].state = "open"
  /\ sess[s].accessEnd > now
  /\ sess[s].end > now
  /\ sess[s].user \notin banned

LogOut(s) ==
  /\ Accepts(s)
  /\ ~Locked(s)
  /\ RevokeRows({s})
  /\ UNCHANGED <<now, used, banned, issued, req, jar, lineage>>

SessionsOf(u) == {s \in Sessions : Stored(s) /\ sess[s].user = u}

LogOutAll(s) ==
  /\ Accepts(s)
  /\ \A t \in SessionsOf(sess[s].user) : ~Locked(t)
  /\ RevokeRows(SessionsOf(sess[s].user))
  /\ UNCHANGED <<now, used, banned, issued, req, jar, lineage>>

\* actionBanUser: banned_at and every session, in one transaction that waits
\* for the session rows other transactions hold.
Ban(u) ==
  /\ u \notin banned
  /\ \A s \in SessionsOf(u) : ~Locked(s)
  /\ banned' = banned \cup {u}
  /\ RevokeRows(SessionsOf(u))
  /\ UNCHANGED <<now, used, issued, req, jar, lineage>>

Unban(u) ==
  /\ u \in banned
  /\ banned' = banned \ {u}
  /\ UNCHANGED <<now, sess, used, issued, req, jar, lineage>>

\* Mutant: used tokens do not follow their session.
DropRowsOnly(S) ==
  /\ S # {}
  /\ \A s \in S : ~Locked(s)
  /\ sess' = [s \in Sessions |->
       IF s \in S THEN [sess[s] EXCEPT !.state = "deleted"] ELSE sess[s]]
  /\ UNCHANGED <<now, used, banned, issued, req, jar, lineage>>

\* DELETE FROM auth_sessions, cascading to auth_used_refresh: Prune for the
\* expired rows, DeleteUser for a user's own.
DropRows(S) ==
  /\ S # {}
  /\ \A s \in S : ~Locked(s)
  /\ sess' = [s \in Sessions |->
       IF s \in S THEN [sess[s] EXCEPT !.state = "deleted"] ELSE sess[s]]
  /\ used' = {u \in used : u.session \notin S}
  /\ UNCHANGED <<now, banned, issued, req, jar, lineage>>

Prune == DropRows({s \in Sessions : Stored(s) /\ sess[s].end < now})

\* DeleteUser asks for a recent sign-in.  A later sign-in with the same
\* identity makes a new account, which the model calls by the same name.
DeleteUser(s) ==
  /\ Accepts(s)
  /\ now + SessionTTL <= sess[s].end + FreshTTL
  /\ DropRows(SessionsOf(sess[s].user))

\* Without stale copies, time does not pass a request by: from reading the
\* jar to storing the answer takes at most Latency.
Tick ==
  /\ now < MaxTime
  /\ \/ StaleCopies
     \/ \A r \in Requests : req[r].step # "idle" => now < req[r].sentAt + Latency
  /\ now' = now + 1
  /\ UNCHANGED <<sess, used, banned, issued, req, jar, lineage>>

Serve(r) == Begin(r) \/ SelectRow(r) \/ Rotate(r) \/ CheckUsed(r) \/ Revoke(r)

Next ==
  \/ \E s \in Sessions : \/ \E u \in Users : LogIn(s, u)
                         \/ LogOut(s) \/ LogOutAll(s) \/ DeleteUser(s)
                         \/ \E r \in Requests, n \in Pairs : Send(r, s, n)
  \/ \E r \in Requests : Serve(r) \/ Abort(r) \/ Deliver(r) \/ LoseReply(r)
  \/ \E u \in Users : Ban(u) \/ Unban(u)
  \/ Prune
  \/ Tick

Spec == Init /\ [][Next]_vars

\* A started request is carried through by its server; strongly, because
\* PostgreSQL queues the waiters of a row lock, so that later refreshes of the
\* same session do not overtake one that waits.  Its answer either arrives or
\* is given up on.
Fairness ==
  \A r \in Requests : SF_vars(Serve(r)) /\ WF_vars(Deliver(r) \/ LoseReply(r))

----------------------------------------------------------------------------
\* A refresh token is rotated at most once: of the requests that present the
\* same pair, in whatever order their statements run, one at most is answered
\* with tokens, so the INSERT into auth_used_refresh never meets its key.
OneSuccessor ==
  /\ \A a, b \in lineage : a.old = b.old => a.new = b.new
  /\ \A s \in Sessions, a \in lineage :
       sess[s].state = "open" => a.old # sess[s].pair

\* A request that ends "invalid" after its token had been rotated leaves no
\* usable session behind: the family is revoked, deleted, or had expired when
\* the request began.
LateReplayEndsFamily ==
  \A r \in Requests, u \in used :
    req[r].answer = "invalid" /\ u.pair = req[r].pair =>
      \/ sess[u.session].state # "open"
      \/ sess[u.session].end <= req[r].began

\* Revocation (logout, ban, replay) is final under every interleaving: a
\* revoked session is never open again and is never given another pair, not
\* even by a refresh that had started before the revocation.
RevokedForGood ==
  [][\A s \in Sessions : sess[s].state \in {"revoked", "deleted"} =>
       /\ sess'[s].state \in {sess[s].state, "deleted"}
       /\ sess'[s].pair = sess[s].pair]_vars

\* No refresh is answered with tokens once the ban of its user committed.
NoTokensForBanned ==
  [][\A r \in Requests :
       req[r].answer # "tokens" /\ req'[r].answer = "tokens" =>
         sess[req[r].lock].user \notin banned]_vars

\* What the grace period is for: clients that share one jar and only ever
\* send what they read from it do not revoke their own session by refreshing
\* at the same time, as long as a round trip takes less than half of Grace.
TabsNeverLogOut ==
  [][\A r \in Requests, s \in Sessions :
       req[r].step = "revoke" /\ req'[r].step = "done" =>
         (sess[s].state = "open" /\ sess[s].end > req[r].began =>
            sess'[s].state = "open")]_vars

\* Every refresh is answered, whoever else waits for the same row: no early
\* return keeps the row lock.
EveryRefreshAnswered ==
  \A r \in Requests : req[r].step # "idle" ~> req[r].step = "idle"

----------------------------------------------------------------------------
\* What a client sees of the rows: the status of a session, the pair it accepts, and
\* the pairs that work no longer.
statusBar ==
  [s \in Sessions |-> CASE sess[s].state = "absent" -> "none"
                       [] sess[s].state = "open" -> "live"
                       [] OTHER -> "over"]

currentBar ==
  [s \in Sessions |-> IF sess[s].state = "open" THEN {sess[s].pair} ELSE {}]

spentBar ==
  {n \in 1..issued : \A s \in Sessions : ~(sess[s].state = "open" /\ sess[s].pair = n)}

\* What a client may rely on, without rows, locks and clocks.
Promise == INSTANCE SessionPromise WITH
  Tokens <- Pairs, status <- statusBar, current <- currentBar, spent <- spentBar

\* The transactions of store.go implement that promise.
KeepsPromise == Promise!Spec
=============================================================================

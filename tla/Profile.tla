------------------------------- MODULE Profile -------------------------------
(***************************************************************************)
(* The personal page (pages/me) against POST /api/me (admin_me.go): one    *)
(* cached profile that a switch changes before the server has, that a      *)
(* failure rolls back to what it was when that switch was clicked, and     *)
(* that every change refetches while others are under way.                 *)
(***************************************************************************)
EXTENDS Integers, FiniteSets

CONSTANTS
  Keys,        \* notification preferences
  Sessions,    \* the admin's other sessions
  None,
  MaxChanges,  \* bound: changes made
  MaxFailures  \* bound: refetches that fail

VARIABLES
  profile,   \* the database: [prefs, sessions, token]
  shown,     \* the cached profile
  refetch,   \* the request for it, None or [read, data]: once read, what it brings
  failed,    \* the last one failed, and the page says so
  changes,   \* requests under way: [n, op, on, value, before, state]
  issued,    \* the new token on screen, or 0
  cut,       \* what a request was about whose outcome the console cannot know
  made, failures

profileVars == <<profile, shown, refetch, failed, changes, issued, cut, made, failures>>

ProfileInit ==
  /\ profile = [prefs |-> [k \in Keys |-> TRUE], sessions |-> Sessions, token |-> 0]
  /\ shown = profile /\ refetch = None /\ failed = FALSE /\ changes = {}
  /\ issued = 0 /\ cut = {} /\ made = 0 /\ failures = 0

Asked == [read |-> FALSE, data |-> None]

----------------------------------------------------------------------------
Start(op, on, value) ==
  /\ made < MaxChanges /\ made' = made + 1
  /\ changes' = changes \cup
       {[n |-> made', op |-> op, on |-> on, value |-> value, before |-> shown, state |-> "sent"]}
  /\ UNCHANGED <<profile, failed, issued, cut, failures>>

\* A refetch under way is cancelled, and the switch turns at once.
SetPref(k) ==
  /\ Start("pref", k, ~shown.prefs[k])
  /\ shown' = [shown EXCEPT !.prefs[k] = ~@] /\ refetch' = None

\* The button of the last session revoked is disabled until its answer.
Newest(c) == \A d \in changes : d.op = c.op => d.n <= c.n
Pending(op, on) == \E c \in changes : c.op = op /\ c.on = on /\ c.state # "cut" /\ Newest(c)
RevokeSession(s) ==
  /\ s \in shown.sessions /\ ~Pending("revoke", s)
  /\ Start("revoke", s, FALSE) /\ UNCHANGED <<shown, refetch>>

RegenerateToken ==
  /\ ~Pending("token", "token")
  /\ Start("token", "token", made + 1) /\ UNCHANGED <<shown, refetch>>

----------------------------------------------------------------------------
\* The handler, in a transaction; revoking a session that is gone is refused.
Apply(c) ==
  profile' =
    CASE c.op = "pref"   -> [profile EXCEPT !.prefs[c.on] = c.value]
      [] c.op = "revoke" -> [profile EXCEPT !.sessions = @ \ {c.on}]
      [] c.op = "token"  -> [profile EXCEPT !.token = c.value]
Refused(c) == c.op = "revoke" /\ c.on \notin profile.sessions

Become(c, state) == changes' = (changes \ {c}) \cup {[c EXCEPT !.state = state]}

Serve(c) ==
  /\ c.state = "sent"
  /\ \/ ~Refused(c) /\ Apply(c) /\ Become(c, "done")
     \/ UNCHANGED profile /\ Become(c, "refused")
  /\ UNCHANGED <<shown, refetch, failed, issued, cut, made, failures>>

\* The answer, or a failure in its place: the server may have handled the request,
\* or go on to do so.  A preference rolls back the whole profile; a token is
\* refetched only when it was issued.
Answered(c, ok) ==
  /\ c.state # "cut" /\ (ok => c.state = "done")
  /\ IF c.state = "sent" THEN Become(c, "cut") ELSE changes' = changes \ {c}
  /\ cut' = IF c.state = "sent" \/ (c.op = "token" /\ c.state = "done" /\ ~ok) THEN cut \cup {c.on} ELSE cut
  /\ shown' = IF c.op = "pref" /\ ~ok THEN c.before ELSE shown
  /\ issued' = IF c.op = "token" /\ ok THEN c.value ELSE issued
  /\ refetch' = IF c.op = "token" /\ ~ok THEN refetch ELSE Asked
  /\ UNCHANGED <<profile, failed, made, failures>>

Late(c) ==
  /\ c.state = "cut" /\ changes' = changes \ {c}
  /\ IF Refused(c) THEN UNCHANGED profile ELSE Apply(c)
  /\ UNCHANGED <<shown, refetch, failed, issued, cut, made, failures>>

\* The server reads the profile, and what it read arrives later.
Read ==
  /\ refetch = Asked /\ refetch' = [read |-> TRUE, data |-> profile]
  /\ UNCHANGED <<profile, shown, failed, changes, issued, cut, made, failures>>
Arrive ==
  /\ refetch # None /\ refetch.read /\ shown' = refetch.data /\ refetch' = None /\ failed' = FALSE
  /\ UNCHANGED <<profile, changes, issued, cut, made, failures>>
FailRefetch ==
  /\ refetch # None /\ failures < MaxFailures /\ failures' = failures + 1
  /\ refetch' = None /\ failed' = TRUE
  /\ UNCHANGED <<profile, shown, changes, issued, cut, made>>

\* The token is shown until the admin is done with it.
Done ==
  /\ issued # 0 /\ issued' = 0
  /\ UNCHANGED <<profile, shown, refetch, failed, changes, cut, made, failures>>

ProfileNext ==
  \/ \E k \in Keys : SetPref(k)
  \/ \E s \in Sessions : RevokeSession(s)
  \/ \E c \in changes : Serve(c) \/ Late(c) \/ \E ok \in BOOLEAN : Answered(c, ok)
  \/ RegenerateToken \/ Read \/ Arrive \/ FailRefetch \/ Done

ProfileSpec == ProfileInit /\ [][ProfileNext]_profileVars

----------------------------------------------------------------------------
\* Once no change is under way and the last refetch has come, the page shows what
\* the server has - whatever was rolled back over whatever - except what a request
\* was about whose outcome was lost (Preferences, Sessions, Security).
IdleShowsServer ==
  (\A c \in changes : c.state = "cut") /\ refetch = None /\ ~failed =>
     /\ \A k \in Keys \ cut : shown.prefs[k] = profile.prefs[k]
     /\ shown.sessions \ cut = profile.sessions \ cut
     /\ "token" \notin cut => shown.token = profile.token
=============================================================================

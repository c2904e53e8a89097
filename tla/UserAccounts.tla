---------------------------- MODULE UserAccounts ----------------------------
(***************************************************************************)
(* The users page (pages/users) against ban_user, unban_user and the       *)
(* session actions of admin_users_ext.go: a list and a drawer as old as    *)
(* their last fetch, from either of which an account is banned, unbanned   *)
(* or signed out, with a toast that offers the reverse of a ban or an      *)
(* unban.  What a ban does to the account's content is CommunityModeration.*)
(***************************************************************************)
EXTENDS Integers

CONSTANTS
  Users, Reasons, None,
  MaxCalls,     \* bound: requests made
  MaxElsewhere  \* bound: sign-ins, and actions of other admins

VARIABLES
  account,    \* auth_users: [reason, live]: why it is banned or None; it has sessions
  rows,       \* the list as read
  detail,     \* the drawer: [user, row], row None until read; or None
  asking,     \* what the dialog asks about: [op, user], or None
  calls,      \* requests under way: [n, op, user, reason, seen, lifted, undo, state]
  toast,      \* the reverse on offer: [op, user, reason, lifted], or None
  made, elsewhere,
  unknown     \* accounts someone else changed, or left unread by a failed refetch

accountVars == <<account, rows, detail, asking, calls, toast, made, elsewhere, unknown>>

UsersInit ==
  /\ account \in [Users -> [reason : Reasons \cup {None}, live : {FALSE}]]
  /\ rows = account /\ detail = None /\ asking = None /\ calls = {} /\ toast = None
  /\ made = 0 /\ elsewhere = 0 /\ unknown = {}

Banned(row) == row.reason # None

----------------------------------------------------------------------------
\* The handlers lock the account: a banned one is not banned again, one that is
\* not banned not unbanned.  A ban revokes every session.
Accepts(op, row) ==
  \/ op = "ban" /\ ~Banned(row)
  \/ op = "unban" /\ Banned(row)
  \/ op = "revoke"
After(op, reason, row) ==
  CASE op = "ban"    -> [reason |-> reason, live |-> FALSE]
    [] op = "unban"  -> [row EXCEPT !.reason = None]
    [] op = "revoke" -> [row EXCEPT !.live = FALSE]

Act(op, u, reason) ==
  Accepts(op, account[u]) /\ account' = [account EXCEPT ![u] = After(op, reason, @)]

----------------------------------------------------------------------------
ReadRows ==
  /\ rows # account /\ rows' = account /\ unknown' = (IF detail = None THEN {} ELSE unknown)
  /\ UNCHANGED <<account, detail, asking, calls, toast, made, elsewhere>>
OpenDrawer(u) ==
  /\ asking = None /\ detail = None /\ detail' = [user |-> u, row |-> None]
  /\ UNCHANGED <<account, rows, asking, calls, toast, made, elsewhere, unknown>>
CloseDrawer ==
  /\ asking = None /\ detail # None /\ detail' = None
  /\ UNCHANGED <<account, rows, asking, calls, toast, made, elsewhere, unknown>>
ReadDetail ==
  /\ detail # None /\ detail.row # account[detail.user]
  /\ detail' = [detail EXCEPT !.row = account[detail.user]]
  /\ UNCHANGED <<account, rows, asking, calls, toast, made, elsewhere, unknown>>

\* The row an action starts from: the list's, or that of the drawer over it.
Row(u) == IF detail = None THEN rows[u] ELSE IF detail.user = u THEN detail.row ELSE None

Call(op, u, reason, seen, lifted, undo) ==
  /\ made < MaxCalls /\ made' = made + 1
  /\ calls' = calls \cup {[n |-> made', op |-> op, user |-> u, reason |-> reason, seen |-> seen,
                           lifted |-> lifted, undo |-> undo, state |-> "sent"]}

Ask(u, op) ==
  /\ asking = None /\ Row(u) # None
  /\ \/ op = "ban" /\ ~Banned(Row(u))
     \/ op = "revoke" /\ detail # None /\ Row(u).live
  /\ asking' = [op |-> op, user |-> u]
  /\ UNCHANGED <<account, rows, detail, calls, toast, made, elsewhere, unknown>>
Confirm(reason) ==
  /\ asking # None /\ asking' = None
  /\ Call(asking.op, asking.user, IF asking.op = "ban" THEN reason ELSE None, None, None, FALSE)
  /\ UNCHANGED <<account, rows, detail, toast, elsewhere, unknown>>
Cancel ==
  /\ asking # None /\ asking' = None
  /\ UNCHANGED <<account, rows, detail, calls, toast, made, elsewhere, unknown>>

\* An unban is not asked about.
Unban(u) ==
  /\ asking = None /\ Row(u) # None /\ Banned(Row(u))
  /\ Call("unban", u, None, Row(u).reason, None, FALSE)
  /\ UNCHANGED <<account, rows, detail, asking, toast, elsewhere, unknown>>

----------------------------------------------------------------------------
Become(c, d) == calls' = (calls \ {c}) \cup {d}

Serve(c) ==
  /\ c.state = "sent"
  /\ \/ /\ Act(c.op, c.user, c.reason)
        /\ Become(c, [c EXCEPT !.state = "done",
                               !.lifted = IF c.op = "unban" THEN account[c.user].reason ELSE @])
     \/ UNCHANGED account /\ Become(c, [c EXCEPT !.state = "refused"])
  /\ UNCHANGED <<rows, detail, asking, toast, made, elsewhere, unknown>>

\* What an action that succeeded offers to reverse it.
Reverse(c) ==
  IF c.undo \/ c.op = "revoke" THEN None
  ELSE IF c.op = "ban" THEN [op |-> "unban", user |-> c.user, reason |-> None, lifted |-> None]
  ELSE [op |-> "ban", user |-> c.user, reason |-> c.seen, lifted |-> c.lifted]

\* An answer, or a failure in its place: the list and the drawer are refetched
\* either way, which may fail, and only then is the toast shown.
Answered(c, ok) ==
  /\ c.state # "cut" /\ (ok => c.state = "done")
  /\ IF c.state = "sent" THEN Become(c, [c EXCEPT !.state = "cut"]) ELSE calls' = calls \ {c}
  /\ \E read \in BOOLEAN :
       /\ rows' = IF read THEN account ELSE rows
       /\ detail' = IF read /\ detail # None THEN [detail EXCEPT !.row = account[detail.user]] ELSE detail
       /\ unknown' = IF read THEN {} ELSE Users
  /\ toast' = IF ok THEN Reverse(c) ELSE None
  /\ UNCHANGED <<account, asking, made, elsewhere>>

Late(c) ==
  /\ c.state = "cut" /\ calls' = calls \ {c} /\ unknown' = unknown \cup {c.user}
  /\ Act(c.op, c.user, c.reason) \/ UNCHANGED account
  /\ UNCHANGED <<rows, detail, asking, toast, made, elsewhere>>

Undo ==
  /\ toast # None /\ toast' = None
  /\ Call(toast.op, toast.user, toast.reason, None, toast.lifted, TRUE)
  /\ UNCHANGED <<account, rows, detail, asking, elsewhere, unknown>>
ToastGone ==
  /\ toast # None /\ toast' = None
  /\ UNCHANGED <<account, rows, detail, asking, calls, made, elsewhere, unknown>>

\* Another admin acts on the account, or its owner signs in.
Elsewhere(u) ==
  /\ elsewhere < MaxElsewhere /\ elsewhere' = elsewhere + 1 /\ unknown' = unknown \cup {u}
  /\ \/ \E op \in {"ban", "unban", "revoke"}, reason \in Reasons : Act(op, u, reason)
     \/ ~Banned(account[u]) /\ account' = [account EXCEPT ![u].live = TRUE]
  /\ UNCHANGED <<rows, detail, asking, calls, toast, made>>

UsersNext ==
  \/ \E u \in Users :
       \/ OpenDrawer(u) \/ Unban(u) \/ Elsewhere(u)
       \/ \E op \in {"ban", "revoke"} : Ask(u, op)
  \/ \E reason \in Reasons : Confirm(reason)
  \/ \E c \in calls : Serve(c) \/ Late(c) \/ \E ok \in BOOLEAN : Answered(c, ok)
  \/ ReadRows \/ CloseDrawer \/ ReadDetail \/ Cancel \/ Undo \/ ToastGone

UsersSpec == UsersInit /\ [][UsersNext]_accountVars

----------------------------------------------------------------------------
\* Once no request is under way the list and the drawer show what the server has,
\* although answers are lost and requests refused: the action a row offers is one
\* the server takes (refresh) - except where someone else changed the account, a
\* refetch failed, or the server handled a request after its connection broke.
QuietShowsServer ==
  (\A c \in calls : c.state = "cut") =>
    \A u \in Users \ unknown :
      /\ rows[u] = account[u]
      /\ detail # None /\ detail.user = u /\ detail.row # None => detail.row = account[u]

\* Not kept by the code for a row as old as its list: "Undoing an unban bans again
\* with the reason the account had, so the audit log stays truthful"
\* (pages/users/actions.ts:55).
RebanKeepsReason == \A c \in calls : c.undo /\ c.op = "ban" => c.reason = c.lifted
=============================================================================

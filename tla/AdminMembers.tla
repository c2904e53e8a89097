---------------------------- MODULE AdminMembers ----------------------------
(***************************************************************************)
(* The permissions page (pages/perm) against POST /api/admins              *)
(* (admin_members.go), POST /api/permissions (admin_permissions.go) and    *)
(* the sign-in of an administrator (CreateAdminSession): owners who change *)
(* members one statement at a time while members sign in, and the matrix   *)
(* of roles and permissions, one cell at a time.                           *)
(***************************************************************************)
EXTENDS Integers, FiniteSets, Sequences

CONSTANTS
  Owners,     \* the configured owners, each with the page open
  Members,    \* the emails they add
  Roles,
  Cells,      \* cells of the matrix of roles and permissions
  Protected,  \* those that stay: a maintainer manages permissions
  None,
  Limit,      \* how many members there may be
  MaxChanges  \* bound: changes of members, and of cells

ASSUME MembersAssumption == IsFiniteSet(Members) /\ Limit \in Nat

VARIABLES
  row,       \* admin_members: [state, role], state "none" where there is no row
  sessions,  \* admin_sessions: per member, in which era each began
  cleared,   \* eras: how often the member's credentials were deleted
  signin,    \* a sign-in of the member: "idle", "allowed" or "inserted"
  matrix,    \* admin_role_permissions: the cells granted
  audit,     \* admin_audit: its entries about cells
  shown,     \* per owner, the page: [row, matrix] as read
  change,    \* per owner, the change of a member under way, or None
  toggles,   \* per owner, the changes of cells under way: [n, cell, grant, latest, state]
  made

memberVars == <<row, sessions, cleared, signin, matrix, audit, shown, change, toggles,
                made>>

\* Someone who was an owner until the last restart still has a session.
MembersInit ==
  /\ row = [m \in Members |-> [state |-> "none", role |-> None]]
  /\ sessions = [m \in Members |-> {0}] /\ cleared = [m \in Members |-> 0]
  /\ signin = [m \in Members |-> "idle"]
  /\ matrix = Protected /\ audit = <<>>
  /\ shown = [o \in Owners |-> [row |-> row, matrix |-> matrix]]
  /\ change = [o \in Owners |-> None] /\ toggles = [o \in Owners |-> {}] /\ made = 0

ReadPage(o) ==
  /\ shown[o] # [row |-> row, matrix |-> matrix]
  /\ shown' = [shown EXCEPT ![o] = [row |-> row, matrix |-> matrix]]
  /\ UNCHANGED <<row, sessions, cleared, signin, matrix, audit, change, toggles, made>>

----------------------------------------------------------------------------
\* What the page offers: a button stays disabled while the owner's last change is
\* under way, and it acts on the row shown, which is as old as the list and the
\* dialog that asks about it.
Offered(o, op, m) ==
  LET seen == shown[o].row[m].state
  IN  \/ op = "add"
      \/ op = "enable" /\ seen = "off"
      \/ op = "disable" /\ seen = "on"
      \/ op \in {"revoke", "set_role"} /\ seen # "none"

Submit(o, op, m, role) ==
  /\ change[o] = None /\ Offered(o, op, m) /\ made < MaxChanges /\ made' = made + 1
  /\ change' = [change EXCEPT ![o] =
       [op |-> op, on |-> m, role |-> role, step |-> "sent", dead |-> {}]]
  /\ UNCHANGED <<row, sessions, cleared, signin, matrix, audit, shown, toggles>>

Step(o, step) == change' = [change EXCEPT ![o].step = step]
At(o, step) == change[o] # None /\ change[o].step = step

\* Changes of members go one after another (pg_advisory_xact_lock).
Begin(o) ==
  /\ At(o, "sent") /\ \A p \in Owners : ~\E s \in {"begun", "updated", "deleted"} : At(p, s)
  /\ Step(o, "begun")
  /\ UNCHANGED <<row, sessions, cleared, signin, matrix, audit, shown, toggles, made>>

\* A row is locked by the sign-in that read it and by the change that wrote it.
Locked(m) ==
  \/ signin[m] = "inserted"
  \/ \E o \in Owners :
       change[o] # None /\ change[o].on = m /\ change[o].step \in {"updated", "deleted"}
Accepted(c) ==
  IF c.op = "add"
  THEN row[c.on].state = "none" /\ Cardinality({m \in Members : row[m].state # "none"}) < Limit
  ELSE row[c.on].state # "none"

\* The statement that writes the row waits for its lock; a change that is refused,
\* or that sets the role the member has, ends here.
Update(o) ==
  /\ At(o, "begun") /\ ~Locked(change[o].on)
  /\ \/ /\ Accepted(change[o])
        /\ Step(o, IF change[o].op = "set_role" /\ row[change[o].on].role = change[o].role
                   THEN "done" ELSE "updated")
     \/ ~Accepted(change[o]) /\ Step(o, "refused")
  /\ UNCHANGED <<row, sessions, cleared, signin, matrix, audit, shown, toggles, made>>

\* A change of role keeps the member's credentials.
Clears(c) == c.op # "set_role"

\* Mutant of Delete: only who loses access is signed out.
DeleteOnLeave(o) ==
  /\ At(o, "updated")
  /\ change' = [change EXCEPT ![o].step = "deleted",
                              ![o].dead = IF change[o].op \in {"disable", "revoke"}
                                          THEN sessions[change[o].on] ELSE {}]
  /\ UNCHANGED <<row, sessions, cleared, signin, matrix, audit, shown, toggles, made>>

\* It sees the sessions that are committed.
Delete(o) ==
  /\ At(o, "updated")
  /\ change' = [change EXCEPT ![o].step = "deleted",
                              ![o].dead = IF Clears(change[o]) THEN sessions[change[o].on] ELSE {}]
  /\ UNCHANGED <<row, sessions, cleared, signin, matrix, audit, shown, toggles, made>>

After(c) ==
  CASE c.op = "add"      -> [state |-> "on", role |-> c.role]
    [] c.op = "enable"   -> [row[c.on] EXCEPT !.state = "on"]
    [] c.op = "disable"  -> [row[c.on] EXCEPT !.state = "off"]
    [] c.op = "revoke"   -> row[c.on]
    [] c.op = "set_role" -> [row[c.on] EXCEPT !.role = c.role]
Commit(o) ==
  /\ At(o, "deleted") /\ Step(o, "done")
  /\ LET c == change[o] IN
       /\ row' = [row EXCEPT ![c.on] = After(c)]
       /\ sessions' = [sessions EXCEPT ![c.on] = @ \ c.dead]
       /\ cleared' = [cleared EXCEPT ![c.on] = IF Clears(c) THEN @ + 1 ELSE @]
  /\ UNCHANGED <<signin, matrix, audit, shown, toggles, made>>
Fail(o) ==
  /\ change[o] # None /\ change[o].step \notin {"done", "refused"} /\ Step(o, "refused")
  /\ UNCHANGED <<row, sessions, cleared, signin, matrix, audit, shown, toggles, made>>

\* The page is refetched before the change is over, unless that fails.
Answered(o) ==
  /\ At(o, "done") \/ At(o, "refused")
  /\ change' = [change EXCEPT ![o] = None]
  /\ \/ shown' = [shown EXCEPT ![o] = [row |-> row, matrix |-> matrix]]
     \/ UNCHANGED shown
  /\ UNCHANGED <<row, sessions, cleared, signin, matrix, audit, toggles, made>>

----------------------------------------------------------------------------
\* A sign-in: the callback asks whether the email is allowed; the session is
\* inserted under the lock of the member's row, unless it is disabled by then.
Allow(m) ==
  /\ signin[m] = "idle" /\ row[m].state = "on" /\ cleared[m] \notin sessions[m]
  /\ signin' = [signin EXCEPT ![m] = "allowed"]
  /\ UNCHANGED <<row, sessions, cleared, matrix, audit, shown, change, toggles, made>>
Insert(m) ==
  /\ signin[m] = "allowed" /\ ~Locked(m)
  /\ signin' = [signin EXCEPT ![m] = IF row[m].state = "on" THEN "inserted" ELSE "idle"]
  /\ UNCHANGED <<row, sessions, cleared, matrix, audit, shown, change, toggles, made>>
SignedIn(m) ==
  /\ signin[m] = "inserted" /\ signin' = [signin EXCEPT ![m] = "idle"]
  /\ \/ sessions' = [sessions EXCEPT ![m] = @ \cup {cleared[m]}]
     \/ UNCHANGED sessions
  /\ UNCHANGED <<row, cleared, matrix, audit, shown, change, toggles, made>>

----------------------------------------------------------------------------
\* A click asks for the opposite of what is shown; only the cell clicked last is
\* disabled while its change is under way.
Pending(o, cell) == \E t \in toggles[o] : t.cell = cell /\ t.latest
Toggle(o, cell) ==
  /\ ~Pending(o, cell) /\ ~(cell \in Protected /\ cell \in shown[o].matrix)
  /\ made < MaxChanges /\ made' = made + 1
  /\ toggles' = [toggles EXCEPT ![o] =
       {[t EXCEPT !.latest = FALSE] : t \in @} \cup
       {[n |-> made', cell |-> cell, grant |-> cell \notin shown[o].matrix,
         latest |-> TRUE, state |-> "sent"]}]
  /\ UNCHANGED <<row, sessions, cleared, signin, matrix, audit, shown, change>>

\* One that changes nothing succeeds, and is not audited.
ServeToggle(o, t) ==
  /\ t.state = "sent" /\ (t.cell \in Protected => t.grant)
  /\ toggles' = [toggles EXCEPT ![o] = (@ \ {t}) \cup {[t EXCEPT !.state = "done"]}]
  /\ matrix' = IF t.grant THEN matrix \cup {t.cell} ELSE matrix \ {t.cell}
  /\ audit' = IF matrix' = matrix THEN audit ELSE Append(audit, [cell |-> t.cell, grant |-> t.grant])
  /\ UNCHANGED <<row, sessions, cleared, signin, shown, change, made>>
ToggleAnswered(o, t) ==
  /\ toggles' = [toggles EXCEPT ![o] = @ \ {t}]
  /\ \/ shown' = [shown EXCEPT ![o] = [row |-> row, matrix |-> matrix]]
     \/ UNCHANGED shown
  /\ UNCHANGED <<row, sessions, cleared, signin, matrix, audit, change, made>>

MembersNext ==
  \/ \E o \in Owners :
       \/ ReadPage(o) \/ Begin(o) \/ Update(o) \/ Delete(o) \/ Commit(o) \/ Fail(o) \/ Answered(o)
       \/ \E op \in {"enable", "disable", "revoke"}, m \in Members : Submit(o, op, m, None)
       \/ \E op \in {"add", "set_role"}, m \in Members, role \in Roles : Submit(o, op, m, role)
       \/ \E cell \in Cells : Toggle(o, cell)
       \/ \E t \in toggles[o] : ServeToggle(o, t) \/ ToggleAnswered(o, t)
  \/ \E m \in Members : Allow(m) \/ Insert(m) \/ SignedIn(m)

MembersSpec == MembersInit /\ [][MembersNext]_memberVars

----------------------------------------------------------------------------
\* "so historical credentials never regain access" (admin_members.go): a session of
\* a member, even one that was being inserted meanwhile, began after the last time
\* the member was added, enabled, disabled or signed out.
SessionsStartAfresh ==
  \A m \in Members : row[m].state # "none" => sessions[m] \subseteq {cleared[m]}

\* Two owners who add members at the same time do not exceed the limit.
WithinLimit == Cardinality({m \in Members : row[m].state # "none"}) <= Limit

\* A replay of the entries before the i-th leaves the cell granted.
Granted(cell, i) ==
  \E j \in 1..(i - 1) :
    audit[j].cell = cell /\ audit[j].grant /\ \A k \in (j + 1)..(i - 1) : audit[k].cell # cell

\* The audit log tells who has what: every entry about a cell reverses what those
\* before it left, and all of them leave what the matrix holds.
AuditReplaysMatrix ==
  \A cell \in Cells \ Protected :
    /\ \A i \in DOMAIN audit : audit[i].cell = cell => (audit[i].grant <=> ~Granted(cell, i))
    /\ cell \in matrix <=> Granted(cell, Len(audit) + 1)

\* No session of a member is older than the last time an owner deleted them, the
\* members stay within the limit, and the audit log replays to the matrix
\* (AdminMembersHTTP, CreateAdminSession, adminPermissionsAction).
MembersAsDecided == SessionsStartAfresh /\ WithinLimit /\ AuditReplaysMatrix
=============================================================================

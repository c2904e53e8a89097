----------------------------- MODULE CrashDesk -----------------------------
(***************************************************************************)
(* One crash group on the crash page (pages/crash) and at the server       *)
(* (admin_crash_issue.go, admin_crash_groups.go).  A status change runs at *)
(* once and its undo sends the reverse; a GitHub issue waits behind the    *)
(* toast.  Groups meet only in the toast, where another one's is an Offer. *)
(***************************************************************************)
EXTENDS Toasts, Sequences, SequencesExt

CONSTANTS
  Issue, Change,  \* the two toasts of the group: Acts = {Issue}; Change is in Undoables
  MaxChanges, MaxIssues, MaxVisits   \* bounds

DeskAssumption == Acts = {Issue} /\ Change \in Undoables

VARIABLES
  status, recorded,  \* server: the group's status; it points at an issue
  opened, lost,      \* GitHub issues opened for it; one was not recorded
  row,               \* cached [status, issue]
  override,          \* the optimistic status, or None
  link,              \* the page keeps an unrecorded issue's address
  changes,           \* status changes under way: [to, visit]
  from,              \* what the undo of the last change sends
  here, visit, began \* the page is mounted; its visit; the visits of the issues under way

serverVars == <<status, recorded, opened, lost>>
pageVars == <<override, link, here, visit>>
deskPageVars == <<deskVars, serverVars, row, pageVars, changes, from, began>>

DeskInit ==
  /\ ToastInit
  /\ status \in {"open", "known", "fixed"} /\ recorded = FALSE /\ opened = 0 /\ lost = FALSE
  /\ row = [status |-> status, issue |-> FALSE]
  /\ override = None /\ link = FALSE /\ changes = <<>>
  /\ from = None /\ here = TRUE /\ visit = 1 /\ began = <<>>

----------------------------------------------------------------------------
\* The row and the drawer overlay what the page has started.
Shown == [status |-> IF override # None THEN override ELSE row.status, issue |-> row.issue \/ link]
Server == [status |-> status, issue |-> recorded]
Mine(v) == here /\ v = visit
\* Mutant of ClearFor: the status shown beforehand stays.
ClearNothing(v) == UNCHANGED override

ClearFor(v) == override' = IF Mine(v) THEN None ELSE override

\* The list, or the drawer's detail, is read again.
Read ==
  /\ here /\ row # Server /\ row' = Server
  /\ UNCHANGED <<deskVars, serverVars, pageVars, changes, from, began>>
Refreshed == row' \in {row, Server'}

\* The statuses the drawer's buttons offer.
Offered(to) == <<Shown.status, to>> \in
  {<<"open", "known">>, <<"known", "open">>, <<"known", "fixed">>, <<"fixed", "open">>}

SetStatus(to) ==
  /\ here /\ Offered(to) /\ Len(changes) < MaxChanges
  /\ changes' = Append(changes, [to |-> to, visit |-> visit]) /\ override' = to
  /\ UNCHANGED <<deskVars, serverVars, row, link, here, visit, from, began>>

\* The undo sends what the server says the change replaced.
StatusChanged(k, ok) ==
  LET c == changes[k] IN
  /\ changes' = RemoveAt(changes, k) /\ ClearFor(c.visit)
  /\ IF ok
     THEN status' = c.to /\ Offer(Change) /\ from' = status
     ELSE /\ status' \in {status, c.to} /\ UNCHANGED from
          /\ Plain /\ UNCHANGED <<pending, timers, wire, reversing, owed>>
  /\ UNCHANGED <<authVars, recorded, opened, lost, link, here, visit, began>>
  /\ IF ok THEN Refreshed ELSE UNCHANGED row

UndoStatus ==
  /\ UndoAction
  /\ UNCHANGED <<authVars, serverVars, row, pageVars, changes, from, began>>

StatusReversed(ok) ==
  /\ Reversed(Change)
  /\ status' = IF ok THEN from ELSE status
  /\ UNCHANGED <<authVars, recorded, opened, lost, pageVars, changes, from, began>>
  /\ IF ok THEN Refreshed ELSE UNCHANGED row

----------------------------------------------------------------------------
CanCreate == here /\ Shown.status = "open" /\ ~Shown.issue

CreateIssue ==
  /\ CanCreate /\ Decide(Issue) /\ override' = "known" /\ began' = Append(began, visit)
  /\ UNCHANGED <<authVars, serverVars, row, link, here, visit, changes, from>>

UndoIssue ==
  /\ UndoDecision /\ ClearFor(Last(began)) /\ began' = Front(began)
  /\ UNCHANGED <<authVars, serverVars, row, link, here, visit, changes, from>>

\* The handler: under the group's lock it refuses a second issue, opens one and
\* records it; recording may fail after the issue is open.
OpensIssue ==
  /\ ~recorded /\ opened < MaxIssues /\ opened' = opened + 1
  /\ \/ recorded' = TRUE /\ status' = "known" /\ UNCHANGED lost
     \/ lost' = TRUE /\ UNCHANGED <<recorded, status>>

\* The answer: refreshed and cleared, or cleared and, for an issue that was not
\* recorded, its address kept.
IssueAnswered(k, ok) ==
  /\ k <= wire[Issue] /\ Answered(Issue, ok) /\ ClearFor(began[k]) /\ began' = RemoveAt(began, k)
  /\ \/ OpensIssue /\ (ok <=> recorded') /\ link' = (link \/ (~ok /\ Mine(began[k])))
     \/ OpensIssue /\ ~ok /\ recorded' /\ UNCHANGED link        \* the answer is lost
     \/ ~ok /\ UNCHANGED <<serverVars, link>>
  /\ UNCHANGED <<authVars, here, visit, changes, from>>
  /\ IF ok THEN Refreshed ELSE UNCHANGED row

----------------------------------------------------------------------------
Meanwhile ==
  /\ PageHide \/ Hide \/ CommitTimer(Issue) \/ (\E u \in Undoables \ {Change} : Offer(u))
  /\ UNCHANGED <<authVars, serverVars, row, pageVars, changes, from, began>>

Leave ==
  /\ here /\ visit < MaxVisits /\ here' = FALSE /\ override' = None /\ link' = FALSE
  /\ UNCHANGED <<deskVars, serverVars, row, visit, changes, from, began>>
Return ==
  /\ ~here /\ here' = TRUE /\ visit' = visit + 1
  /\ UNCHANGED <<deskVars, serverVars, row, override, link, changes, from, began>>

\* Another admin changes the status, or opens the issue.
Elsewhere ==
  /\ \/ /\ \E s \in {"open", "known", "fixed"} \ {status} : status' = s
        /\ UNCHANGED <<recorded, opened, lost>>
     \/ OpensIssue
  /\ UNCHANGED <<deskVars, row, pageVars, changes, from, began>>

DeskNext ==
  \/ Read \/ UndoStatus \/ CreateIssue \/ UndoIssue \/ Meanwhile \/ Leave \/ Return \/ Elsewhere
  \/ \E to \in {"open", "known", "fixed"} : SetStatus(to)
  \/ \E k \in DOMAIN changes, ok \in BOOLEAN : StatusChanged(k, ok)
  \/ \E ok \in BOOLEAN : StatusReversed(ok)
  \/ \E k \in DOMAIN began, ok \in BOOLEAN : IssueAnswered(k, ok)

DeskSpec == DeskInit /\ [][DeskNext]_deskPageVars

----------------------------------------------------------------------------
\* A status shown before the server confirmed it is still on its way: a change
\* or an issue of this visit waits or is under way (setStatus, createIssue).
ShownIsPending ==
  override # None =>
    \/ \E k \in DOMAIN changes : Mine(changes[k].visit)
    \/ \E k \in DOMAIN began : Mine(began[k])

\* Unless an issue could not be recorded, a group gets one: however often 建
\* Issue is clicked, undone, answered late or by another admin
\* (createAdminCrashIssue's lock and second read).
OneIssue == ~lost => opened <= 1

\* Not kept by the code: the same without the exception, "the page shows them so
\* 建 Issue is not offered again for a group that already has one"
\* (pages/crash/actions.ts:19).
NotOfferedAgain == [][pending # Issue /\ pending' = Issue => opened = 0]_deskPageVars
=============================================================================

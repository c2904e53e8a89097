----------------------------- MODULE NoticeDesk -----------------------------
(***************************************************************************)
(* The notice page (pages/notice) against the actions of admin_notices.go: *)
(* an editor that saves, publishes and is cleared by answers that come     *)
(* late, drafts other admins change, and a Telegram push inside the        *)
(* publishing transaction.  A text is a number: 0 is the empty form and 1  *)
(* what the drafts say at first.                                           *)
(***************************************************************************)
EXTENDS Integers, FiniteSets

CONSTANTS
  Notices, None,
  MaxText,      \* bound: texts typed
  MaxElsewhere  \* bound: actions of other admins

VARIABLES
  status, text,  \* the table: "none", "draft", "live" or "archived"; the text
  pushed,        \* the texts sent to Telegram for a notice, and how often
  undone,        \* notices whose publication was rolled back after its push
  items,         \* the list as read: [status, text] per notice
  form,          \* the editor: [id, text]
  asking,        \* what the dialog asks about, or None
  writing,       \* a save or publication under way: [to, form, done] or None
  archiving,     \* an archival under way: [id, mine, done] or None
  typed, elsewhere

noticeVars == <<status, text, pushed, undone, items, form, asking, writing, archiving,
                typed, elsewhere>>

Empty == [id |-> None, text |-> 0]
Read == [n \in Notices |-> [status |-> status[n], text |-> text[n]]]

NoticeInit ==
  /\ status \in [Notices -> {"none", "draft"}] /\ text = [n \in Notices |-> 1]
  /\ pushed = [n \in Notices |-> [times |-> 0, text |-> 0]] /\ undone = {}
  /\ items = Read /\ form = Empty
  /\ asking = None /\ writing = None /\ archiving = None /\ typed = 1 /\ elsewhere = 0

table == <<status, text, pushed, undone>>

----------------------------------------------------------------------------
\* Mutant of Save: a published notice can be saved as a draft.
SaveAnyStatus(id, value) ==
  /\ \E n \in Notices :
       /\ IF id = None THEN status[n] = "none" ELSE n = id
       /\ status' = [status EXCEPT ![n] = "draft"] /\ text' = [text EXCEPT ![n] = value]
  /\ UNCHANGED <<pushed, undone>>

\* The handlers.  Each locks the notice and checks its status.
Save(id, value) ==
  /\ \E n \in Notices :
       /\ IF id = None THEN status[n] = "none" ELSE n = id /\ status[n] = "draft"
       /\ status' = [status EXCEPT ![n] = "draft"] /\ text' = [text EXCEPT ![n] = value]
  /\ UNCHANGED <<pushed, undone>>

\* The push is the last write before the commit, which may still fail (once a
\* notice, as a bound).
Publish(id, value, push) ==
  \E n \in Notices :
    /\ IF id = None THEN status[n] = "none" ELSE n = id /\ status[n] = "draft"
    /\ pushed' = IF push THEN [pushed EXCEPT ![n] = [times |-> @.times + 1, text |-> value]] ELSE pushed
    /\ \/ /\ status' = [status EXCEPT ![n] = "live"] /\ text' = [text EXCEPT ![n] = value]
          /\ UNCHANGED undone
       \/ push /\ n \notin undone /\ undone' = undone \cup {n} /\ UNCHANGED <<status, text>>

Archive(n) ==
  /\ status[n] \in {"draft", "live"} /\ status' = [status EXCEPT ![n] = "archived"]
  /\ UNCHANGED <<text, pushed, undone>>

----------------------------------------------------------------------------
Refreshed == items' \in {items, Read'}
Busy == writing # None

ReadList ==
  /\ items # Read /\ items' = Read
  /\ UNCHANGED <<table, form, asking, writing, archiving, typed, elsewhere>>

Type ==
  /\ asking = None /\ typed < MaxText /\ typed' = typed + 1 /\ form' = [form EXCEPT !.text = typed']
  /\ UNCHANGED <<table, items, asking, writing, archiving, elsewhere>>

\* Save and publish are disabled while either is under way; a notice for Telegram
\* asks first, and the form is the one the question was asked about.
StartWrite(to) ==
  /\ asking = None /\ ~Busy /\ form.text # 0
  /\ \/ writing' = [to |-> to, form |-> form, push |-> FALSE, done |-> FALSE] /\ UNCHANGED asking
     \/ to = "live" /\ asking' = [op |-> "publish", form |-> form] /\ UNCHANGED writing
  /\ UNCHANGED <<table, items, form, archiving, typed, elsewhere>>

\* Discarding a draft or archiving a notice asks first; one at a time.  Whether it
\* is the one in the editor is decided now.
AskArchive(n) ==
  /\ asking = None /\ archiving = None /\ items[n].status \in {"draft", "live"}
  /\ asking' = [op |-> "archive", id |-> n, mine |-> form.id = n]
  /\ UNCHANGED <<table, items, form, writing, archiving, typed, elsewhere>>

\* Opening a draft asks when the editor differs from what the list has of it.
Loaded(n) == [id |-> n, text |-> items[n].text]
Unsaved == form.text # (IF form.id = None THEN 0 ELSE items[form.id].text)
Edit(n) ==
  /\ asking = None /\ items[n].status = "draft" /\ form.id # n
  /\ IF Unsaved THEN asking' = [op |-> "edit", form |-> Loaded(n)] /\ UNCHANGED form
     ELSE form' = Loaded(n) /\ UNCHANGED asking
  /\ UNCHANGED <<table, items, writing, archiving, typed, elsewhere>>

\* Leaving a draft empties the form.
CancelEdit ==
  /\ asking = None /\ form.id # None /\ form' = Empty
  /\ UNCHANGED <<table, items, asking, writing, archiving, typed, elsewhere>>

\* A link from the search or a notification opens a draft without asking.
Focus(n) ==
  /\ asking = None /\ items[n].status = "draft" /\ form' = Loaded(n)
  /\ UNCHANGED <<table, items, asking, writing, archiving, typed, elsewhere>>

Answer(ok) ==
  /\ asking # None /\ asking' = None
  /\ form' = IF ok /\ asking.op = "edit" THEN asking.form ELSE form
  /\ writing' = IF ok /\ asking.op = "publish"
                THEN [to |-> "live", form |-> asking.form, push |-> TRUE, done |-> FALSE] ELSE writing
  /\ archiving' = IF ok /\ asking.op = "archive"
                  THEN [id |-> asking.id, mine |-> asking.mine, done |-> FALSE] ELSE archiving
  /\ UNCHANGED <<table, items, typed, elsewhere>>

----------------------------------------------------------------------------
ServeWrite ==
  /\ Busy /\ ~writing.done /\ writing' = [writing EXCEPT !.done = TRUE]
  /\ IF writing.to = "draft" THEN Save(writing.form.id, writing.form.text)
     ELSE Publish(writing.form.id, writing.form.text, writing.push)
  /\ UNCHANGED <<items, form, asking, archiving, typed, elsewhere>>
ServeArchive ==
  /\ archiving # None /\ ~archiving.done /\ archiving' = [archiving EXCEPT !.done = TRUE]
  /\ Archive(archiving.id)
  /\ UNCHANGED <<items, form, asking, writing, typed, elsewhere>>

\* Success empties the editor, whatever was typed or opened meanwhile; a failure
\* or a lost answer leaves it.
Written(ok) ==
  /\ Busy /\ (ok => writing.done) /\ writing' = None
  /\ form' = IF ok THEN Empty ELSE form
  /\ UNCHANGED <<table, asking, archiving, typed, elsewhere>> /\ Refreshed
Archived(ok) ==
  /\ archiving # None /\ (ok => archiving.done) /\ archiving' = None
  /\ form' = IF ok /\ archiving.mine THEN Empty ELSE form
  /\ UNCHANGED <<table, asking, writing, typed, elsewhere>> /\ Refreshed

Elsewhere(n) ==
  /\ elsewhere < MaxElsewhere /\ elsewhere' = elsewhere + 1
  /\ \/ Save(n, 1) \/ Archive(n) \/ \E push \in BOOLEAN : Publish(n, text[n], push)
  /\ UNCHANGED <<items, form, asking, writing, archiving, typed>>

NoticeNext ==
  \/ ReadList \/ Type \/ CancelEdit \/ ServeWrite \/ ServeArchive
  \/ \E to \in {"draft", "live"} : StartWrite(to)
  \/ \E n \in Notices : AskArchive(n) \/ Edit(n) \/ Focus(n) \/ Elsewhere(n)
  \/ \E ok \in BOOLEAN : Answer(ok) \/ Written(ok) \/ Archived(ok)

NoticeSpec == NoticeInit /\ [][NoticeNext]_noticeVars

----------------------------------------------------------------------------
\* A notice is pushed to Telegram at most once, and what the feed shows of it, or
\* showed, is what was pushed, although several admins save, publish and archive
\* it at once and answers are lost - unless a publication was rolled back after
\* its push (actionPublishNotice, actionSaveNoticeDraft).
PushedIsPublished ==
  \A n \in Notices \ undone :
    /\ pushed[n].times <= 1
    /\ pushed[n].times = 1 => status[n] \in {"live", "archived"} /\ text[n] = pushed[n].text
=============================================================================

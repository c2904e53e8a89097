---------------------------- MODULE ReleaseDesk ----------------------------
(***************************************************************************)
(* The release page (pages/release) against GitHub through                 *)
(* admin_releases.go: a form dialog that waits for its answer, withdrawals *)
(* beside it and another admin's, and handlers that read a release and     *)
(* patch it in a second request.  A text is a number.  Which release       *)
(* GitHub calls the latest, and the pipeline a trigger starts, are left    *)
(* out.                                                                    *)
(***************************************************************************)
EXTENDS Integers

CONSTANTS
  Releases, None,
  MaxText,      \* bound: texts written
  MaxElsewhere  \* bound: requests of another admin

Slots == {"dialog", "withdraw", "elsewhere"}

VARIABLES
  github,       \* the releases: [draft, prerelease, block, text]
  history,      \* the page's copy
  dialog,       \* the form open: [op, release, text], or None
  asking,       \* the withdrawal the question is about, or None
  requests,     \* what each slot has under way: [op, release, text, stage, seen], or None
  written, elsewhere

releaseVars == <<github, history, dialog, asking, requests, written, elsewhere>>

\* A withdrawn release is a prerelease with the withdrawal block on top.
Status(v) ==
  CASE v.draft -> "draft" [] v.block -> "withdrawn" [] v.prerelease -> "beta" [] OTHER -> "released"

ReleaseInit ==
  /\ github \in [Releases -> {[draft |-> FALSE, prerelease |-> p, block |-> FALSE, text |-> 0] :
                                 p \in BOOLEAN}]
  /\ history = github /\ dialog = None /\ asking = None
  /\ requests = [s \in Slots |-> None] /\ written = 0 /\ elsewhere = 0

Send(slot, op, r, text) ==
  /\ requests[slot] = None
  /\ requests' = [requests EXCEPT ![slot] =
       [op |-> op, release |-> r, text |-> text, stage |-> "sent", seen |-> None]]

----------------------------------------------------------------------------
ReadHistory ==
  /\ history # github /\ history' = github
  /\ UNCHANGED <<github, dialog, asking, requests, written, elsewhere>>

\* Nothing else of the page can be reached while the form or the question is open.
OpenDialog(op, r) ==
  /\ dialog = None /\ asking = None
  /\ dialog' = [op |-> op, release |-> r, text |-> history[r].text]
  /\ UNCHANGED <<github, history, asking, requests, written, elsewhere>>

TypeText ==
  /\ dialog # None /\ written < MaxText /\ written' = written + 1
  /\ dialog' = [dialog EXCEPT !.text = written']
  /\ UNCHANGED <<github, history, asking, requests, elsewhere>>

\* The form is submitted once; it cannot be closed before the answer.
Submit ==
  /\ dialog # None /\ Send("dialog", dialog.op, dialog.release, dialog.text)
  /\ UNCHANGED <<github, history, dialog, asking, written, elsewhere>>
\* Mutant of CloseDialog: the form closes while its request is under way.
CloseAnyTime ==
  /\ dialog # None /\ dialog' = None
  /\ UNCHANGED <<github, history, asking, requests, written, elsewhere>>

CloseDialog ==
  /\ dialog # None /\ requests["dialog"] = None /\ dialog' = None
  /\ UNCHANGED <<github, history, asking, requests, written, elsewhere>>

AskWithdraw(r) ==
  /\ dialog = None /\ asking = None /\ Status(history[r]) = "released" /\ asking' = r
  /\ UNCHANGED <<github, history, dialog, requests, written, elsewhere>>
AnswerWithdraw(ok) ==
  /\ asking # None /\ asking' = None
  /\ IF ok THEN Send("withdraw", "withdraw", asking, 0) ELSE UNCHANGED requests
  /\ UNCHANGED <<github, history, dialog, written, elsewhere>>

Elsewhere(op, r) ==
  /\ elsewhere < MaxElsewhere /\ elsewhere' = elsewhere + 1
  /\ written < MaxText /\ written' = written + 1 /\ Send("elsewhere", op, r, written')
  /\ UNCHANGED <<github, history, dialog, asking>>

----------------------------------------------------------------------------
To(slot, stage) == requests' = [requests EXCEPT ![slot].stage = stage]

\* The handler reads the release fresh, and may refuse or fail.
ReadRelease(slot) ==
  LET q == requests[slot] IN
  /\ q # None /\ q.stage = "sent"
  /\ \/ /\ q.op = "withdraw" => Status(github[q.release]) \in {"released", "beta"}
        /\ requests' = [requests EXCEPT ![slot].stage = "read", ![slot].seen = github[q.release]]
     \/ To(slot, "failed")
  /\ UNCHANGED <<github, history, dialog, asking, written, elsewhere>>

\* Then patches it: the body a withdrawal rewrites, and the block that new notes
\* keep, are those of the read.
Patched(q, v) ==
  CASE q.op = "notes" -> [v EXCEPT !.block = q.seen.block, !.text = q.text]
    [] q.op = "withdraw" -> [v EXCEPT !.prerelease = TRUE, !.block = TRUE, !.text = q.seen.text]
    [] OTHER -> v
Patch(slot) ==
  LET q == requests[slot] IN
  /\ q # None /\ q.stage = "read"
  /\ \/ github' = [github EXCEPT ![q.release] = Patched(q, @)] /\ To(slot, "done")
     \/ UNCHANGED github /\ To(slot, "failed")
  /\ UNCHANGED <<history, dialog, asking, written, elsewhere>>

\* The answer: a form that went through is closed; any answer reads the list again.
Answer(slot, ok) ==
  LET q == requests[slot] IN
  /\ q # None /\ q.stage \in {"done", "failed"} /\ (ok => q.stage = "done")
  /\ requests' = [requests EXCEPT ![slot] = None]
  /\ dialog' = IF ok /\ slot = "dialog" THEN None ELSE dialog
  /\ history' \in IF slot = "elsewhere" THEN {history} ELSE {history, github}
  /\ UNCHANGED <<github, asking, written, elsewhere>>

ReleaseNext ==
  \/ ReadHistory \/ TypeText \/ Submit \/ CloseDialog
  \/ \E r \in Releases, op \in {"notes", "trigger"} : OpenDialog(op, r)
  \/ \E r \in Releases : AskWithdraw(r)
  \/ \E r \in Releases, op \in {"notes", "withdraw"} : Elsewhere(op, r)
  \/ \E ok \in BOOLEAN : AnswerWithdraw(ok)
  \/ \E slot \in Slots : ReadRelease(slot) \/ Patch(slot) \/ \E ok \in BOOLEAN : Answer(slot, ok)

ReleaseSpec == ReleaseInit /\ [][ReleaseNext]_releaseVars

----------------------------------------------------------------------------
\* A successful answer closes the form it was sent from and none opened since:
\* while a form is under way it stays open, for its own release (FormDialog's
\* pending, trigger and notes' onSuccess).
OwnDialogCloses ==
  LET q == requests["dialog"] IN
  q # None => dialog # None /\ dialog.op = q.op /\ dialog.release = q.release

\* "A withdrawn release keeps its withdrawal block in front of the new text"
\* (admin_releases.go:611), also when the withdrawal came between the read and
\* the patch of the notes.
WithdrawnKeepsBlock == [][\A r \in Releases : github[r].block => github'[r].block]_releaseVars
=============================================================================

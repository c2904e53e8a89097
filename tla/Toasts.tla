------------------------------- MODULE Toasts -------------------------------
(***************************************************************************)
(* The toast of the admin console (ui/toast.tsx), its undo, the requests   *)
(* it holds back for four seconds, and the sign-out that sends them first  *)
(* (auth.tsx).  A decision (Acts) cannot be taken back once it is sent: it *)
(* waits behind its toast.  An Undoables action has run already and its    *)
(* undo sends the reverse request.  The two timers of a toast run for the  *)
(* same four seconds and no time is modelled: a timer may fire whenever it *)
(* is set.  React's rendering is taken as part of the step that causes it. *)
(***************************************************************************)
EXTENDS Integers

CONSTANTS
  Acts,        \* decisions with delayCommit
  Undoables,   \* actions that ran, with a reverse request
  None,
  MaxWire      \* bound: requests of one decision under way

ToastAssumption ==
  /\ MaxWire \in Nat /\ None \notin Acts \cup Undoables
  /\ "text" \notin Acts /\ Acts \cap Undoables = {}

VARIABLES
  current,     \* the toast shown last: a decision, an action, "text" or None
  open,        \* it is on screen
  noticeOpen,  \* the second slot is on screen
  pending,     \* the decision that waits, or None
  timers,      \* decisions whose commit timer is set
  wire,        \* requests sent and not answered, per decision
  reversing,   \* actions whose reverse request is under way
  owed,        \* decisions made, less those undone and those sent
  session,     \* the server accepts the session
  screen,      \* the console shows its pages, not the sign-in
  leaving,     \* the sign-out: "no", "flushing" or "posting"
  awaited      \* the decision the sign-out waits for, or None

toastVars == <<current, open, noticeOpen, pending, timers, wire, reversing, owed>>
authVars == <<session, screen, leaving, awaited>>
deskVars == <<toastVars, authVars>>

ToastTypeOK ==
  /\ current \in Acts \cup Undoables \cup {"text", None}
  /\ pending \in Acts \cup {None} /\ awaited \in Acts \cup {None}
  /\ timers \subseteq Acts /\ reversing \subseteq Undoables
  /\ wire \in [Acts -> Nat] /\ owed \in [Acts -> Int]
  /\ open \in BOOLEAN /\ noticeOpen \in BOOLEAN /\ session \in BOOLEAN /\ screen \in BOOLEAN
  /\ leaving \in {"no", "flushing", "posting"}

ToastInit ==
  /\ current = None /\ pending = None /\ awaited = None
  /\ open = FALSE /\ noticeOpen = FALSE
  /\ timers = {} /\ reversing = {}
  /\ wire = [a \in Acts |-> 0] /\ owed = [a \in Acts |-> 0]
  /\ session = TRUE /\ screen = TRUE /\ leaving = "no"

----------------------------------------------------------------------------
\* f counted up by d at the decision that waits, if one does.
AtPending(f, d) == [a \in Acts |-> IF a = pending THEN f[a] + d ELSE f[a]]

\* Mutant of Flush: the timer of the decision that is sent goes on.
FlushLeavesTimer ==
  /\ pending' = None /\ UNCHANGED timers
  /\ wire' = AtPending(wire, 1) /\ owed' = AtPending(owed, -1)

\* Send what waits, at once, and stop its timer.
Flush ==
  /\ pending' = None /\ timers' = timers \ {pending}
  /\ wire' = AtPending(wire, 1) /\ owed' = AtPending(owed, -1)

\* A toast without an undo: beside one whose decision waits, else instead of it.
Plain ==
  IF pending # None
  THEN noticeOpen' = TRUE /\ UNCHANGED <<current, open>>
  ELSE current' = "text" /\ open' = TRUE /\ UNCHANGED noticeOpen

\* A decision is made: what waited goes out, and the new one waits.
Decide(a) ==
  /\ screen /\ wire[a] + owed[a] < MaxWire
  /\ pending' = a /\ timers' = (timers \ {pending}) \cup {a}
  /\ wire' = AtPending(wire, 1)
  /\ owed' = [AtPending(owed, -1) EXCEPT ![a] = @ + 1]
  /\ current' = a /\ open' = TRUE
  /\ UNCHANGED <<noticeOpen, reversing>>

\* An action that has run offers its reverse.
Offer(u) ==
  /\ screen /\ u \notin reversing
  /\ Flush /\ current' = u /\ open' = TRUE
  /\ UNCHANGED <<noticeOpen, reversing>>

\* Any other message: a confirmation, or the failure of another request.
Say == screen /\ Plain /\ UNCHANGED <<pending, timers, wire, reversing, owed>>

\* The hide timer, a swipe or Escape; the decision goes on waiting.
Hide ==
  /\ open /\ open' = FALSE
  /\ UNCHANGED <<current, noticeOpen, pending, timers, wire, reversing, owed>>
HideNotice ==
  noticeOpen /\ noticeOpen' = FALSE
  /\ UNCHANGED <<current, open, pending, timers, wire, reversing, owed>>

\* A commit timer sends whatever waits when it fires.
CommitTimer(a) ==
  /\ a \in timers
  /\ IF pending = None THEN timers' = timers \ {a} /\ UNCHANGED <<pending, wire, owed>>
     ELSE pending' = None /\ timers' = timers \ {a, pending}
          /\ wire' = AtPending(wire, 1) /\ owed' = AtPending(owed, -1)
  /\ open' = (open /\ (pending = None \/ current # pending))
  /\ UNCHANGED <<current, noticeOpen, reversing>>

\* pagehide, or the provider's unmounting.
PageHide ==
  /\ pending # None /\ Flush
  /\ open' = (open /\ current # pending)
  /\ UNCHANGED <<current, noticeOpen, reversing>>

\* Undo of a decision: nothing is sent and the admin is told so.
UndoDecision ==
  /\ open /\ current \in Acts
  /\ owed' = [owed EXCEPT ![current] = @ - 1]
  /\ IF pending = current THEN pending' = None /\ timers' = timers \ {current}
     ELSE UNCHANGED <<pending, timers>>
  /\ current' = "text" /\ open' = TRUE
  /\ UNCHANGED <<noticeOpen, wire, reversing>>

\* Undo of an action that ran: its reverse is requested, then reported.
UndoAction ==
  /\ open /\ current \in Undoables
  /\ reversing' = reversing \cup {current} /\ open' = FALSE
  /\ UNCHANGED <<current, noticeOpen, pending, timers, wire, owed>>

Reversed(u) ==
  /\ u \in reversing /\ reversing' = reversing \ {u}
  /\ Plain /\ UNCHANGED <<pending, timers, wire, owed>>

\* A request's answer; only a failure is shown.
Answered(a, ok) ==
  /\ wire[a] > 0 /\ wire' = [wire EXCEPT ![a] = @ - 1]
  /\ IF ok THEN UNCHANGED <<current, open, noticeOpen>> ELSE Plain
  /\ UNCHANGED <<pending, timers, reversing, owed>>

----------------------------------------------------------------------------
\* A 401 clears the session and the cached data; the toast outlives it.
Heard(a, ok) ==
  /\ Answered(a, ok) /\ (ok => session)
  /\ screen' = (screen /\ session)
  /\ awaited' = IF awaited = a THEN None ELSE awaited
  /\ UNCHANGED <<session, leaving>>

\* Sign-out: send what waits, wait for its answer, then end the session.
Logout ==
  /\ screen /\ leaving = "no" /\ leaving' = "flushing"
  /\ awaited' = pending /\ Flush
  /\ open' = (open /\ (pending = None \/ current # pending))
  /\ UNCHANGED <<current, noticeOpen, reversing, session, screen>>

LogoutRequest ==
  /\ leaving = "flushing" /\ awaited = None /\ leaving' = "posting"
  /\ UNCHANGED <<toastVars, session, screen, awaited>>

LogoutAnswered ==
  /\ leaving = "posting" /\ leaving' = "no"
  /\ \/ session' = FALSE /\ screen' = FALSE
     \/ UNCHANGED <<session, screen>>       \* the request failed
  /\ UNCHANGED <<toastVars, awaited>>

\* The session runs out on the server; the console learns it from a 401.
Expire == session /\ session' = FALSE /\ UNCHANGED <<toastVars, screen, leaving, awaited>>

Login ==
  /\ ~screen /\ leaving = "no" /\ session' = TRUE /\ screen' = TRUE
  /\ UNCHANGED <<toastVars, leaving, awaited>>

----------------------------------------------------------------------------
ToastStep ==
  \/ Say \/ Hide \/ HideNotice \/ UndoAction
  \/ \E u \in Undoables : Offer(u) \/ Reversed(u)
  \/ \E a \in Acts : CommitTimer(a)
  \/ PageHide

AuthStep == Logout \/ LogoutRequest \/ LogoutAnswered \/ Expire \/ Login

ToastNext ==
  \/ (ToastStep \/ UndoDecision \/ \E a \in Acts : Decide(a)) /\ UNCHANGED authVars
  \/ \E a \in Acts, ok \in BOOLEAN : Heard(a, ok)
  \/ AuthStep

ToastSpec == ToastInit /\ [][ToastNext]_deskVars

----------------------------------------------------------------------------
\* Every decision is sent exactly once or undone: one that waits is the only
\* one still to be sent, an undone one is never sent, and none is dropped when
\* another toast, the sign-out or the page's end replaces it (show, flush, undo).
SentOrUndone == \A a \in Acts : owed[a] = (IF pending = a THEN 1 ELSE 0)

\* A decision's window is its own: the only timer set is that of the decision
\* that waits, so none left behind sends a later decision early, and the undo
\* on screen is that of the decision that waits (flush, undo).
WindowIsOwn ==
  /\ timers = {pending} \ {None}
  /\ pending # None => current = pending
  /\ open /\ current \in Acts => pending = current

\* Not kept by the code when a decision is made while the others are awaited.
\* Signing out finds no decision waiting: "A merge or rejection still inside its
\* 4s undo window is sent with the current session; after auth/logout it would
\* fail with 401 and be lost" (auth.tsx:48).
LogoutFindsNoneWaiting ==
  [][leaving = "flushing" /\ leaving' = "posting" => pending = None]_deskVars
=============================================================================

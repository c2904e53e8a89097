---------------------------- MODULE IssueTriage ----------------------------
(***************************************************************************)
(* Issue triage (pages/issues, the selection of ui/data-table) against     *)
(* GitHub through admin_issues.go: batches that change several issues one  *)
(* by one and may fail for some, and an undo that reverses exactly those   *)
(* that changed.  Rows are what the page last read.  The text filter and   *)
(* the page number choose rows the way the state filter does and are left  *)
(* out; so are replies.                                                    *)
(***************************************************************************)
EXTENDS Integers, FiniteSets, Sequences, SequencesExt

CONSTANTS
  Issues, Filters,
  None,
  MaxCalls,      \* bound: requests made
  MaxSpread      \* bound: issues, and changes made elsewhere, together

VARIABLES
  issue,         \* GitHub: closed, duplicate and triaged labels, the platform's assignee set
  rows,          \* the rows shown, as they were read
  filter, selected,
  busy,          \* a batch runs: the batch buttons are disabled
  asking,        \* what the close dialog asks about: [rows, batch] or None
  calls,         \* requests under way
  offer,         \* the undo in the toast: [action, rows, before] or None
  made, changed  \* requests made; changes made elsewhere

table == <<rows, filter, selected>>
dialog == <<busy, asking>>
triageVars == <<issue, table, dialog, calls, offer, made, changed>>

States == {"new", "triaged", "done", "dup"}
State(v) ==
  IF v.closed THEN IF v.dup THEN "dup" ELSE "done"
  ELSE IF v.triaged THEN "triaged" ELSE "new"
IsOpen(v) == State(v) \in {"new", "triaged"}

InFilter(v) ==
  CASE filter = "open" -> IsOpen(v) [] filter = "closed" -> ~IsOpen(v) [] OTHER -> TRUE
View == Restrict(issue, {i \in DOMAIN issue : InFilter(issue[i])})

Fresh == [closed |-> FALSE, dup |-> FALSE, triaged |-> FALSE, assigned |-> FALSE]

TriageInit ==
  /\ \E some \in SUBSET Issues \ {{}} :
       issue \in [some -> {Fresh, [Fresh EXCEPT !.assigned = TRUE], [Fresh EXCEPT !.closed = TRUE]}]
  /\ filter \in Filters /\ rows = View /\ selected = {} /\ busy = FALSE /\ asking = None
  /\ calls = <<>> /\ offer = None /\ made = 0 /\ changed = 0

----------------------------------------------------------------------------
\* A selection never outlives the rows it refers to.
Pruned == selected' = selected \cap DOMAIN rows'
Refreshed == rows' \in {rows, View'}

Read ==
  /\ rows # View /\ rows' = View /\ Pruned
  /\ UNCHANGED <<issue, filter, dialog, calls, offer, made, changed>>

\* The rows of the old filter stay until those of the new one arrive.
SetFilter(f) ==
  /\ f # filter /\ filter' = f /\ asking = None
  /\ UNCHANGED <<issue, rows, selected, dialog, calls, offer, made, changed>>

Toggle(i) ==
  /\ asking = None /\ i \in DOMAIN rows
  /\ selected' = IF i \in selected THEN selected \ {i} ELSE selected \cup {i}
  /\ UNCHANGED <<issue, rows, filter, dialog, calls, offer, made, changed>>

\* A request about these rows; an undo keeps an assignee the row already had.
Call(action, which, batch, undo, before) ==
  /\ made < MaxCalls /\ made' = made + 1
  /\ calls' = Append(calls, [action |-> action, rows |-> which, batch |-> batch, undo |-> undo,
                             before |-> before, served |-> FALSE, failed |-> {}])

\* The rows each action applies to: in a batch, and offered one by one.
Applies(action, v) ==
  CASE action = "triage" -> State(v) = "new"
    [] action = "mark_dup" -> State(v) # "dup"
    [] action = "close" -> IsOpen(v)
    [] action = "reopen" -> ~IsOpen(v)
Offered(action, v) ==
  CASE action \in {"triage", "mark_dup"} -> State(v) = "new"
    [] action = "close" -> State(v) = "triaged"
    [] action = "reopen" -> ~IsOpen(v)

Chosen(action) == {i \in selected : Applies(action, rows[i])}

\* A batch or a row's button; nothing is sent when no row applies, and closing asks.
Start(action, which, batch) ==
  /\ asking = None /\ which # {}
  /\ batch => ~busy
  /\ busy' = (busy \/ batch)
  /\ IF action = "close"
     THEN /\ made < MaxCalls /\ asking' = [rows |-> Restrict(rows, which), batch |-> batch]
          /\ UNCHANGED <<calls, made>>
     ELSE Call(action, Restrict(rows, which), batch, FALSE, <<>>) /\ UNCHANGED asking
  /\ UNCHANGED <<issue, table, offer, changed>>

Batch(action) ==
  /\ action = "reopen" => filter # "open"
  /\ Start(action, Chosen(action), TRUE)
One(action, i) == i \in DOMAIN rows /\ Offered(action, rows[i]) /\ Start(action, {i}, FALSE)

Confirm ==
  /\ asking # None /\ asking' = None
  /\ Call("close", asking.rows, asking.batch, FALSE, <<>>)
  /\ UNCHANGED <<issue, table, busy, offer, changed>>
Cancel ==
  /\ asking # None /\ asking' = None /\ busy' = (busy /\ ~asking.batch)
  /\ UNCHANGED <<issue, table, calls, offer, made, changed>>

----------------------------------------------------------------------------
\* What an action makes of the issue, whatever its state is by then.
Effect(action, v, keep) ==
  CASE action = "triage" -> [v EXCEPT !.triaged = TRUE, !.assigned = TRUE]
    [] action = "untriage" -> [v EXCEPT !.triaged = FALSE, !.assigned = @ /\ keep]
    [] action = "mark_dup" -> [v EXCEPT !.dup = TRUE, !.closed = TRUE]
    [] action = "close" -> [v EXCEPT !.closed = TRUE]
    [] action = "reopen" -> [v EXCEPT !.dup = FALSE, !.closed = FALSE]

\* What is left of it when the second write fails and the first cannot be reversed.
Partial(action, v) ==
  CASE action = "triage" -> [v EXCEPT !.triaged = TRUE]
    [] action = "untriage" -> [v EXCEPT !.triaged = FALSE]
    [] action = "mark_dup" -> [v EXCEPT !.dup = TRUE]
    [] action = "reopen" -> [v EXCEPT !.dup = FALSE]
    [] OTHER -> v

\* What an issue was before a request is forgotten when anyone else changes it.
Without(f, is) == Restrict(f, DOMAIN f \ is)
Touched(seq, is) == [k \in DOMAIN seq |-> [seq[k] EXCEPT !.before = Without(@, is)]]
OfferTouched(is) ==
  offer' = IF offer = None THEN None ELSE [offer EXCEPT !.before = Without(@, is)]

\* The server changes the items of a request one by one, each on its own, and
\* fails for some; what it found is remembered (an undo keeps what it started with).
Serve(k) ==
  LET c == calls[k] IN
  /\ ~c.served
  /\ \E failed \in SUBSET DOMAIN c.rows, part \in BOOLEAN :
       LET left(i) == IF part THEN Partial(c.action, issue[i]) ELSE issue[i]
           done == DOMAIN c.rows \ failed
       IN
       /\ issue' = [i \in DOMAIN issue |->
                      CASE i \in done   -> Effect(c.action, issue[i], c.rows[i].assigned)
                        [] i \in failed -> left(i)
                        [] OTHER       -> issue[i]]
       /\ calls' = [Touched(calls, DOMAIN c.rows) EXCEPT ![k] =
                      [c EXCEPT !.served = TRUE, !.failed = failed,
                                !.before = IF c.undo THEN Restrict(@, done \cap DOMAIN @)
                                           ELSE Restrict(issue, done)]]
  /\ OfferTouched(DOMAIN calls[k].rows)
  /\ UNCHANGED <<table, dialog, made, changed>>

\* The rows whose own state the reverse action brings back.
UndoOf(action) ==
  CASE action = "triage"               -> "untriage"
    [] action \in {"mark_dup", "close"} -> "reopen"
    [] OTHER                           -> None
\* Mutant of Undoable: a row that already was triaged or closed is undone too.
AlwaysUndoable(action, v) == TRUE

Undoable(action, v) == IF action = "triage" THEN State(v) = "new" ELSE IsOpen(v)

\* The answer: some rows changed.  The page reads again and offers the undo of those.
Answered(k) ==
  LET c == calls[k]
      undo == {i \in DOMAIN c.rows \ c.failed : Undoable(c.action, c.rows[i])}
  IN
  /\ c.served /\ c.failed # DOMAIN c.rows
  /\ UNCHANGED <<issue, filter, asking, made, changed>>
  /\ calls' = RemoveAt(calls, k) /\ Refreshed
  /\ selected' = IF c.batch THEN {} ELSE selected \cap DOMAIN rows'
  /\ busy' = (busy /\ ~c.batch)
  /\ offer' = IF ~c.undo /\ UndoOf(c.action) # None /\ undo # {}
              THEN [action |-> UndoOf(c.action), rows |-> Restrict(c.rows, undo),
                    before |-> Restrict(c.before, DOMAIN c.before \cap undo)]
              ELSE None

\* Every item failed, the audit did not record one, or the answer is lost: the
\* selection is kept for another try and nothing is undoable.
Failed(k) ==
  /\ UNCHANGED <<issue, filter, asking, made, changed>>
  /\ calls' = RemoveAt(calls, k) /\ Refreshed /\ Pruned
  /\ busy' = (busy /\ ~calls[k].batch) /\ offer' = None

Undo ==
  /\ offer # None /\ offer' = None
  /\ Call(offer.action, offer.rows, FALSE, TRUE, offer.before)
  /\ UNCHANGED <<issue, table, dialog, changed>>

\* The toast goes away, or shows something else.
ToastGone ==
  /\ offer # None /\ offer' = None
  /\ UNCHANGED <<issue, table, dialog, calls, made, changed>>

Elsewhere(i, action) ==
  /\ Cardinality(DOMAIN issue) + changed < MaxSpread /\ changed' = changed + 1
  /\ issue' = [issue EXCEPT ![i] = Effect(action, @, FALSE)] /\ issue' # issue
  /\ calls' = Touched(calls, {i}) /\ OfferTouched({i})
  /\ UNCHANGED <<table, dialog, made>>

TriageNext ==
  \/ Read \/ Confirm \/ Cancel \/ Undo \/ ToastGone
  \/ \E f \in Filters : SetFilter(f)
  \/ \E action \in {"triage", "mark_dup", "close", "reopen"} :
       Batch(action) \/ \E i \in DOMAIN issue : One(action, i) \/ Elsewhere(i, action)
  \/ \E i \in DOMAIN issue : Toggle(i)
  \/ \E k \in DOMAIN calls : Serve(k) \/ Answered(k) \/ Failed(k)

TriageSpec == TriageInit /\ [][TriageNext]_triageVars

----------------------------------------------------------------------------
Undone(k) == IF calls[k].undo /\ calls[k].served THEN DOMAIN calls[k].before ELSE {}
Returned(i, v) == State(issue[i]) = State(v) /\ issue[i].assigned = v.assigned

\* Undo gives each row back its own state and assignee: those already triaged or
\* closed are left alone, and an assignee set before stays, however many rows the
\* batch had and whichever of them failed - if the page showed the row as it was
\* and nobody else changed it in between (apply, triage's keep_assignee).
UndoRestores ==
  \A k \in DOMAIN calls : \A i \in Undone(k) :
    calls[k].before[i] = calls[k].rows[i] => Returned(i, calls[k].before[i])

\* The batch buttons are disabled only while the batch asks or is under way, so
\* a failure, a dialog cancelled or rows that left cannot lock them (runBatch).
BusyEnds == busy => (asking # None /\ asking.batch) \/ \E k \in DOMAIN calls : calls[k].batch

\* Not kept by the code: the same of rows that were no longer as the page showed
\* them, "which runs the reverse action on exactly those rows [...], so each row
\* returns to its own previous state" (pages/issues/index.tsx:152).
UndoReturnsAll ==
  \A k \in DOMAIN calls : \A i \in Undone(k) : Returned(i, calls[k].before[i])
=============================================================================

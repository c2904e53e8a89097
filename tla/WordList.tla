------------------------------ MODULE WordList ------------------------------
(***************************************************************************)
(* The list of sensitive words in the console (pages/words, over the       *)
(* selection of ui/data-table) against the actions it calls                *)
(* (sensitive_words.go): batches sent in chunks that stop at the first     *)
(* failure, row buttons beside them, and words other admins change.        *)
(* A word is its row, named by its id, as in what the page sends.  No id   *)
(* is used twice; here a row that was deleted may come back, and a batch   *)
(* on its way still hits it: more behaviours than the code has.            *)
(***************************************************************************)
EXTENDS Integers, FiniteSets, Sequences, SequencesExt

CONSTANTS
  Words, Filters,   \* ids of rows; the sets of them a category or a link shows
  Limit,            \* ids per request (BATCH_LIMIT, 100)
  None,
  MaxEdits          \* bound: edits made here and elsewhere

Levels == {"review", "block"}

VARIABLES
  level,           \* the table: a word's level, or None
  rows, filter, selected,  \* the page: the list as read, what it shows, the checkboxes
  busy, asking,    \* a batch runs; the deletion the dialog asks about
  adding,          \* the word being added, or None
  edits,           \* edits under way: [to, targets, todo, batch, over]
  told,            \* what a success message said of a word, while nobody changed it
  made

page == <<rows, filter, selected>>
wordVars == <<level, page, busy, asking, adding, edits, told, made>>

WordInit ==
  /\ level \in [Words -> {"review", None}]
  /\ rows = level /\ filter = Words /\ selected = {} /\ busy = FALSE /\ asking = None
  /\ adding = None /\ edits = <<>> /\ told = [w \in Words |-> "nothing"]
  /\ made = 0

----------------------------------------------------------------------------
\* A link to a word that is gone shows the whole list again.
Listed == {w \in Words : rows[w] # None}
Visible == IF Cardinality(filter) = 1 /\ filter \cap Listed = {} THEN Listed ELSE filter \cap Listed

Pruned == selected' = selected \cap Visible'
Refreshed == rows' \in {rows, level'}

Read ==
  /\ rows # level /\ rows' = level
  /\ UNCHANGED <<level, filter, busy, asking, adding, edits, told, made>> /\ Pruned

SetFilter(f) ==
  /\ f # filter /\ asking = None /\ filter' = f
  /\ UNCHANGED <<level, rows, busy, asking, adding, edits, told, made>> /\ Pruned

Toggle(w) ==
  /\ asking = None /\ w \in Visible
  /\ selected' = IF w \in selected THEN selected \ {w} ELSE selected \cup {w}
  /\ UNCHANGED <<level, rows, filter, busy, asking, adding, edits, told, made>>

----------------------------------------------------------------------------
\* Set the level of some words (or delete them): one request per chunk.
Edit(to, targets, batch) ==
  /\ made < MaxEdits /\ made' = made + 1
  /\ edits' = Append(edits, [to |-> to, targets |-> targets, todo |-> targets,
                             batch |-> batch, over |-> {}])

\* Deleting asks first; the batch buttons are disabled meanwhile.
Start(to, targets, batch) ==
  /\ asking = None /\ targets # {} /\ (batch => ~busy) /\ busy' = (busy \/ batch)
  /\ IF to = None
     THEN made < MaxEdits /\ asking' = [targets |-> targets, batch |-> batch] /\ UNCHANGED <<edits, made>>
     ELSE Edit(to, targets, batch) /\ UNCHANGED asking
  /\ UNCHANGED <<level, page, adding, told>>

Batch(to) == Start(to, selected, TRUE)
ToggleLevel(w) == w \in Visible /\ Start(IF rows[w] = "block" THEN "review" ELSE "block", {w}, FALSE)
RemoveWord(w) == w \in Visible /\ Start(None, {w}, FALSE)

Confirm ==
  /\ asking # None /\ Edit(None, asking.targets, asking.batch) /\ asking' = None
  /\ UNCHANGED <<level, page, busy, adding, told>>
Cancel ==
  /\ asking # None /\ asking' = None /\ busy' = (busy /\ ~asking.batch)
  /\ UNCHANGED <<level, page, adding, edits, told, made>>

----------------------------------------------------------------------------
\* The rows of a chunk that still exist get the level, in one transaction; what
\* was said of them no longer holds, and other edits know that they were changed.
Change(ids, to) ==
  /\ level' = [w \in Words |-> IF w \in ids /\ level[w] # None THEN to ELSE level[w]]
  /\ told' = [w \in Words |-> IF w \in ids THEN "nothing" ELSE told[w]]
Over(seq, ids) == [k \in DOMAIN seq |-> [seq[k] EXCEPT !.over = @ \cup ids]]

Chunks(e) ==
  LET size == IF Cardinality(e.todo) < Limit THEN Cardinality(e.todo) ELSE Limit
  IN  {ids \in SUBSET e.todo : Cardinality(ids) = size}

NextChunk(k, ids) ==
  LET e == edits[k] IN
  /\ e.todo # {} /\ Change(ids, e.to)
  /\ edits' = [Over(edits, ids) EXCEPT ![k] = [e EXCEPT !.todo = @ \ ids]]
  /\ UNCHANGED <<page, busy, asking, adding, made>>

\* A chunk fails, or its answer is lost: the rest is not sent, the list is read
\* again and the selection is kept.
FailedChunk(k, ids) ==
  LET e == edits[k] IN
  /\ e.todo # {}
  /\ \/ Change(ids, e.to) /\ edits' = RemoveAt(Over(edits, ids), k)
     \/ UNCHANGED <<level, told>> /\ edits' = RemoveAt(edits, k)
  /\ busy' = (busy /\ ~e.batch)
  /\ UNCHANGED <<filter, asking, adding, made>> /\ Refreshed /\ Pruned

\* All chunks went through: the list is read again and the page says so.
Finished(k) ==
  LET e == edits[k] IN
  /\ e.todo = {} /\ edits' = RemoveAt(edits, k)
  /\ told' = [w \in Words |-> IF w \in e.targets \ e.over THEN e.to ELSE told[w]]
  /\ busy' = (busy /\ ~e.batch)
  /\ UNCHANGED <<level, filter, asking, adding, made>> /\ Refreshed
  /\ selected' = IF e.batch THEN {} ELSE selected \cap Visible'

----------------------------------------------------------------------------
\* A pattern that is in the list is not sent; the server refuses one it has, and
\* gives a new one a row.
Add(w) ==
  /\ adding = None /\ asking = None /\ rows[w] = None /\ made < MaxEdits
  /\ adding' = w /\ made' = made + 1
  /\ UNCHANGED <<level, page, busy, asking, edits, told>>

\* The word is inserted and the page says so, or its answer is lost, or the server
\* refuses it (it is there already) or fails.
Added(w, l) ==
  /\ adding = w /\ adding' = None
  /\ UNCHANGED <<filter, busy, asking, made>>
  /\ \/ /\ level[w] = None /\ level' = [level EXCEPT ![w] = l] /\ edits' = Over(edits, {w})
        /\ \E answer \in {l, "nothing"} : told' = [told EXCEPT ![w] = answer]
     \/ UNCHANGED <<level, told, edits>>
  /\ Refreshed /\ Pruned

Elsewhere(w, to) ==
  /\ made < MaxEdits /\ made' = made + 1 /\ to # level[w]
  /\ level' = [level EXCEPT ![w] = to] /\ told' = [told EXCEPT ![w] = "nothing"]
  /\ edits' = Over(edits, {w})
  /\ UNCHANGED <<page, busy, asking, adding>>

WordNext ==
  \/ Read \/ Confirm \/ Cancel
  \/ \E f \in Filters : SetFilter(f)
  \/ \E w \in Words : Toggle(w) \/ ToggleLevel(w) \/ RemoveWord(w) \/ Add(w)
  \/ \E to \in Levels \cup {None} : Batch(to) \/ \E w \in Words : Elsewhere(w, to)
  \/ \E w \in Words, l \in Levels : Added(w, l)
  \/ \E k \in DOMAIN edits :
       Finished(k) \/ \E ids \in Chunks(edits[k]) : NextChunk(k, ids) \/ FailedChunk(k, ids)

WordSpec == WordInit /\ [][WordNext]_wordVars

----------------------------------------------------------------------------
\* What a success message says is so: every word of the batch has the level, or
\* is gone, although it took several requests and another edit ran beside it -
\* until somebody changes the word (setLevels, removeWords, batchActions).
ToldIsDone ==
  \A w \in Words : told[w] # "nothing" =>
    level[w] = told[w] \/ level[w] = None   \* a word gone before the edit stays gone

\* The batch buttons are disabled only while the batch asks or is under way
\* (runBatch, and setLevels' refresh in finally).
BusyEnds == busy => (asking # None /\ asking.batch) \/ \E k \in DOMAIN edits : edits[k].batch
=============================================================================

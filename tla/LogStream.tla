----------------------------- MODULE LogStream -----------------------------
(***************************************************************************)
(* The live log page (pages/logs, api/logs.ts) and the stream it reads     *)
(* (admin_logs.go): rows kept in time order and bounded, a pause buffer,   *)
(* filters that start a new stream, and reconnections from a cursor.  A    *)
(* line is its timestamp; Loki stores it then or, from a slow node, later. *)
(***************************************************************************)
EXTENDS Integers, Sequences, SequencesExt, FiniteSetsExt

CONSTANTS
  Filters, Matches(_, _),   \* the filters; which lines each shows
  MaxLine, MaxLate,         \* bounds: instants that pass, late lines
  MaxRows, Backfill,        \* rows kept; lines of a first connection
  Window, MaxAge,           \* how far back that looks, and a resumption
  PageSize, Pages,          \* lines of a query; queries of a poll
  Overlap, MaxLag,          \* how far a poll looks back; the lag that skips
  MaxWire, MaxConnections   \* bounds: events on their way, connections

\* The code: 2000 rows, 500 lines from 15 minutes, 1 hour, 2 pages of 500 lines,
\* 5 seconds and 60.
StreamAssumption ==
  /\ Overlap \in Nat /\ MaxLag \in Nat /\ Overlap <= MaxLag
  /\ Window \in Nat /\ MaxAge \in Nat
  /\ MaxRows \in Nat \ {0} /\ Backfill \in Nat \ {0}
  /\ Pages \in Nat \ {0} /\ PageSize \in Nat \ {0, 1}

Lines == 1..MaxLine
Gap(from, to) == [ts |-> to, from |-> from, gap |-> TRUE]
Line(ts) == [ts |-> ts, from |-> ts, gap |-> FALSE]

VARIABLES
  clock, stored, late,   \* the instant; the lines in Loki; those not pushed at once
  tail,                  \* the server's side: logTail, and whether it runs
  wire,                  \* events sent and not read: [id, rows]
  typed, filter,         \* the search box, and the filter streamed
  cursor, rows, buffer,  \* the page: resume point, rows shown, rows held back
  paused, status,
  connections,           \* made
  cut                    \* history: the lines no stream has to show any more

logVars == <<clock, stored, late, tail, wire, typed, filter, cursor, rows, buffer,
             paused, status, connections, cut>>

Opened(at, floor, seen) ==
  [open |-> TRUE, cursor |-> at, floor |-> floor, seen |-> seen, busy |-> FALSE]
Closed == [Opened(0, 0, {}) EXCEPT !.open = FALSE]

Init ==
  /\ clock = 1 /\ stored = {1} /\ late = {}
  /\ tail = Closed /\ wire = <<>>
  /\ typed \in Filters /\ filter = typed
  /\ cursor = 0 /\ rows = <<>> /\ buffer = <<>> /\ paused = FALSE
  /\ status = "connecting" /\ connections = 0 /\ cut = {}

----------------------------------------------------------------------------
\* An instant passes.  Its line is pushed at once, or later, or there is none.
Write ==
  /\ clock < MaxLine /\ clock' = clock + 1
  /\ \/ stored' = stored \cup {clock + 1} /\ UNCHANGED late
     \/ /\ Cardinality(late) < MaxLate
        /\ late' = late \cup {clock + 1} /\ UNCHANGED stored
  /\ UNCHANGED <<tail, wire, typed, filter, cursor, rows, buffer, paused, status,
                 connections, cut>>

\* A line that comes later than a poll looks back need not be found.
Push(l) ==
  /\ l \in late \ stored /\ stored' = stored \cup {l}
  /\ cut' = IF clock - l > Overlap THEN cut \cup {l} ELSE cut
  /\ UNCHANGED <<clock, late, tail, wire, typed, filter, cursor, rows, buffer, paused,
                 status, connections>>

Matching(from, to) == {l \in stored : Matches(filter, l) /\ from <= l /\ l < to}
First(n, set) == {l \in set : Cardinality({m \in set : m < l}) < n}
Newest(set) == {l \in set : Cardinality({m \in set : m > l}) < Backfill}
InOrder(set) ==
  CHOOSE sq \in [1..Cardinality(set) -> {Line(l) : l \in set}] :
    \A i, j \in DOMAIN sq : i < j => sq[i].ts < sq[j].ts
Event(id, lines) == [id |-> id, rows |-> InOrder(lines)]

\* A first connection sends the newest lines.  If Loki does not answer, it starts
\* with what comes from now on.
Begin ==
  LET start == Max({clock - Window, 1})
      lines == Newest(Matching(start, clock))
  IN  \/ /\ tail' = Opened(clock, IF lines = {} THEN start - 1 ELSE Min(lines) - 1, lines)
         /\ wire' = <<Event(clock, lines)>> /\ UNCHANGED cut
      \/ /\ tail' = Opened(clock, start - 1, {})
         /\ wire' = <<>> /\ cut' = cut \cup 1..clock - 1

\* A later one goes on after the client's cursor, but not further back than MaxAge:
\* what is older is left out, and so is the instant of the cursor itself.
Resume ==
  LET at == Max({cursor, clock - MaxAge}) IN
  tail' = Opened(at, at, {}) /\ wire' = <<>> /\ cut' = cut \cup cursor..at

Connect ==
  /\ status \in {"connecting", "reconnecting"} /\ ~tail.open
  /\ connections < MaxConnections /\ connections' = connections + 1
  /\ IF cursor = 0 THEN Begin ELSE Resume
  /\ UNCHANGED <<clock, stored, late, typed, filter, cursor, rows, buffer, paused, status>>

\* Where a poll starts: still too far behind after full pages, on to the newest
\* lines, with a word to the page.
Behind == tail.busy /\ clock - tail.cursor > MaxLag
SkipAhead == IF Behind THEN Opened(clock - Overlap, clock - Overlap - 1, {}) ELSE tail
\* Mutant of GapEvent: the page is not told.
SilentGap == <<>>

GapEvent ==
  IF Behind THEN <<[id |-> 0, rows |-> <<Gap(tail.cursor, clock - Overlap)>>]>> ELSE <<>>

\* What it asks for: all since a little before the cursor, unless it is catching up.
Start(t) == Max({IF t.busy THEN t.cursor ELSE t.cursor - Overlap, t.floor + 1})
Unread(t) == Matching(Start(t), clock)

\* What n full pages hold: each begins with the last line of the one before.
Reach(n) == IF n = 0 THEN 0 ELSE n * (PageSize - 1) + 1

\* What it sends: the lines that were not sent before.
Send(at, new) ==
  wire' = wire \o GapEvent \o (IF new = {} THEN <<>> ELSE <<Event(at, new)>>)

\* If the pages do not suffice, the cursor stops at the last line read, and the
\* next poll goes on there without looking back.
Answered(t, due) ==
  LET lines == First(Reach(Pages), due)
      busy == Cardinality(due) >= Reach(Pages)
      at == Max({t.cursor} \cup (IF busy THEN lines ELSE {clock}))
  IN  /\ Send(at, lines \ t.seen)
      /\ tail' = [t EXCEPT !.cursor = at, !.busy = busy,
                           !.seen = {l \in @ \cup lines : l >= at - Overlap}]
      /\ cut' = IF busy THEN cut \cup {l \in late : l < at} ELSE cut

\* If Loki fails after n full pages, what they held is sent nevertheless.
Failed(t, due, n) ==
  LET lines == First(Reach(n), due)
      at == Max({t.cursor} \cup lines)
  IN  /\ Start(t) < clock /\ Cardinality(due) >= Reach(n)
      /\ Send(at, lines \ t.seen)
      /\ tail' = [t EXCEPT !.cursor = at, !.busy = FALSE, !.seen = @ \cup lines]
      /\ UNCHANGED cut

Poll ==
  /\ tail.open /\ Len(wire) < MaxWire
  /\ LET t == SkipAhead
         due == Unread(t)
     IN  Answered(t, due) \/ \E n \in 0..Pages - 1 : Failed(t, due, n)
  /\ UNCHANGED <<clock, stored, late, typed, filter, cursor, rows, buffer, paused,
                 status, connections>>

----------------------------------------------------------------------------
\* Each arriving row goes behind the last one that is not later; the oldest go.
Insert(sq, row) ==
  LET before == {i \in DOMAIN sq : sq[i].ts <= row.ts}
      at == IF before = {} THEN 0 ELSE Max(before)
  IN  InsertAt(sq, at + 1, row)
Keep(sq) == IF Len(sq) > MaxRows THEN SubSeq(sq, Len(sq) - MaxRows + 1, Len(sq)) ELSE sq
MergeRows(previous, incoming) ==
  LET sq[n \in 0..Len(incoming)] ==
        IF n = 0 THEN previous ELSE Insert(sq[n - 1], incoming[n])
  IN  Keep(sq[Len(incoming)])

\* The page reads one event: the cursor moves, the rows are shown or held back.
Handle ==
  /\ wire # <<>> /\ wire' = Tail(wire) /\ status' = "live"
  /\ LET e == Head(wire) IN
     /\ cursor' = IF e.id # 0 THEN e.id ELSE cursor
     /\ IF paused THEN buffer' = MergeRows(buffer, e.rows) /\ UNCHANGED rows
        ELSE rows' = MergeRows(rows, e.rows) /\ UNCHANGED buffer
  /\ UNCHANGED <<clock, stored, late, tail, typed, filter, paused, connections, cut>>

\* The stream ends or breaks; what was on its way is lost, and the page comes
\* back with its cursor, before which no stream looks again.
Break ==
  /\ tail.open /\ tail' = Closed /\ wire' = <<>> /\ status' = "reconnecting"
  /\ cut' = cut \cup {l \in late : l < cursor}
  /\ UNCHANGED <<clock, stored, late, typed, filter, cursor, rows, buffer, paused,
                 connections>>

\* 400, 403 or 404: no retry until it is asked for.
Refused ==
  /\ status \in {"connecting", "reconnecting"} /\ ~tail.open /\ status' = "failed"
  /\ UNCHANGED <<clock, stored, late, tail, wire, typed, filter, cursor, rows, buffer,
                 paused, connections, cut>>

\* A filter, or 重试, aborts the stream and starts a new one from nothing.
Restart(f) ==
  /\ tail' = Closed /\ wire' = <<>> /\ filter' = f
  /\ cursor' = 0 /\ rows' = <<>> /\ buffer' = <<>> /\ status' = "connecting" /\ cut' = {}
  /\ UNCHANGED <<clock, stored, late, typed, paused, connections>>

Type(f) ==
  /\ f # typed /\ typed' = f
  /\ UNCHANGED <<clock, stored, late, tail, wire, filter, cursor, rows, buffer, paused,
                 status, connections, cut>>
Debounced == typed # filter /\ Restart(typed)
Retry == status = "failed" /\ Restart(filter)

TogglePause ==
  /\ paused' = ~paused
  /\ IF paused THEN rows' = MergeRows(rows, buffer) /\ buffer' = <<>> ELSE UNCHANGED <<rows, buffer>>
  /\ UNCHANGED <<clock, stored, late, tail, wire, typed, filter, cursor, status,
                 connections, cut>>

Next ==
  \/ Write \/ Connect \/ Poll \/ Handle \/ Break \/ Refused \/ Debounced \/ Retry \/ TogglePause
  \/ \E l \in Lines : Push(l)
  \/ \E f \in Filters : Type(f)

Spec == Init /\ [][Next]_logVars

----------------------------------------------------------------------------
Held == MergeRows(rows, buffer)

\* Rows stay in time order, none twice, none of another filter, and never more
\* than the page keeps, although lines come late, streams overlap in time and
\* the page was paused (mergeRows, pollLogs).
RowsInOrder ==
  \A sq \in {rows, buffer, Held} :
    /\ Len(sq) <= MaxRows
    /\ \A i, j \in DOMAIN sq : i < j => sq[i].ts <= sq[j].ts
    /\ \A i, j \in DOMAIN sq : sq[i] = sq[j] /\ ~sq[i].gap => i = j
    /\ \A i \in DOMAIN sq : sq[i].gap \/ Matches(filter, sq[i].ts)

\* A row is line l, or says that it was skipped.
Covers(row, l) == row = Line(l) \/ (row.gap /\ row.from <= l /\ l < row.ts)
Shows(sq, l) == \E row \in ToSet(sq) : Covers(row, l)

\* Line l is on its way, or the next poll looks back far enough for it.
Coming(l) ==
  /\ tail.open
  /\ \/ \E i \in DOMAIN wire : Shows(wire[i].rows, l)
     \/ l \notin tail.seen /\ l > tail.floor /\ l >= tail.cursor - Overlap

\* No line is missing in the middle.  Between the oldest row held and the cursor,
\* every line is there or inside a gap that the page shows, through breaks, pauses,
\* failed queries and full pages; a late line may still be coming.  The exceptions
\* are those of the code: what a resumption leaves out, what was there when a
\* backfill failed, and late lines that come after the look-back, before the cursor
\* of a resumption or while the stream catches up (effect at index.tsx:162,
\* pollLogs, adminLogsStream).
NoneSkipped ==
  Held # <<>> =>
    \A l \in stored \ cut :
      Matches(filter, l) /\ Held[1].ts < l /\ l < cursor =>
        Shows(Held, l) \/ (l \in late /\ Coming(l))
=============================================================================

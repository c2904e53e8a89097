-------------------------- MODULE NotificationBell --------------------------
(***************************************************************************)
(* The bell of the console (shell/notifications.tsx) against the handlers  *)
(* of admin_notifications.go: a list that is as old as its last fetch, a   *)
(* mark-all-read that names the newest notification on it, and requests    *)
(* that overtake each other.  A notification is stamped when it is         *)
(* inserted and visible when its transaction commits.                      *)
(***************************************************************************)
EXTENDS Integers, FiniteSets

CONSTANTS
  Notes, None,
  Limit,     \* the newest notifications a list has
  MaxWire    \* bound: requests under way

VARIABLES
  stamp, committed,  \* when a notification was inserted, 0 before; those visible
  before, marks,     \* read_all_before; those marked one by one
  open, list,        \* the popover; the list it shows: [items, read, unread], or None
  polled,            \* the count of the last /api/shell
  wire,              \* mark requests the server has not handled: [all, id]
  settling,          \* the mutation that isPending is about is not settled
  opened, clicked,   \* those opened by the admin; the newest of each mark-all
  listed             \* those visible when a list was fetched that a mark-all acted on

bellVars == <<stamp, committed, before, marks, open, list, polled, wire, settling,
              opened, clicked, listed>>
server == <<stamp, committed, before, marks>>
history == <<opened, clicked, listed>>

Read(n) == stamp[n] <= before \/ n \in marks
Unread == {n \in committed : ~Read(n)}
Newest(S) == CHOOSE n \in S : \A m \in S : stamp[m] <= stamp[n]
Listing ==
  [items |-> {n \in committed : Cardinality({m \in committed : stamp[m] > stamp[n]}) < Limit},
   read |-> {n \in committed : Read(n)}, unread |-> Cardinality(Unread), visible |-> committed]

BellInit ==
  /\ stamp = [n \in Notes |-> 0] /\ committed = {} /\ before = 0 /\ marks = {}
  /\ open = FALSE /\ list = None /\ polled = 0 /\ wire = {} /\ settling = FALSE
  /\ opened = {} /\ clicked = {} /\ listed = {}

----------------------------------------------------------------------------
\* The cause of a notification inserts it within its transaction.
Insert(n) ==
  /\ stamp[n] = 0 /\ stamp' = [stamp EXCEPT ![n] = 1 + Cardinality({m \in Notes : stamp[m] # 0})]
  /\ UNCHANGED <<committed, before, marks, open, list, polled, wire, settling, history>>
Commit(n) ==
  /\ stamp[n] # 0 /\ n \notin committed /\ committed' = committed \cup {n}
  /\ UNCHANGED <<stamp, before, marks, open, list, polled, wire, settling, history>>

\* Mutant of ReadUpTo: everything inserted by now is read.
ReadAllCommitted(n) ==
  /\ before' = Cardinality({m \in Notes : stamp[m] # 0})
  /\ marks' = {m \in marks : stamp[m] > before'}

\* A later watermark stays; the markers it covers are deleted.
ReadUpTo(n) ==
  /\ before' = IF stamp[n] > before THEN stamp[n] ELSE before
  /\ marks' = {m \in marks : stamp[m] > before'}
Mark(n) == marks' = marks \cup {n} /\ UNCHANGED before

Serve(r) ==
  /\ r \in wire /\ wire' = wire \ {r}
  /\ IF r.all THEN ReadUpTo(r.id) ELSE Mark(r.id)
  /\ UNCHANGED <<stamp, committed, open, list, polled, settling, history>>
Lose(r) ==
  /\ r \in wire /\ wire' = wire \ {r}
  /\ UNCHANGED <<server, open, list, polled, settling, history>>

----------------------------------------------------------------------------
\* Opening refetches; until the answer the last list is shown.
Toggle == open' = ~open /\ UNCHANGED <<server, list, polled, wire, settling, history>>
Fetch ==
  /\ open /\ list # Listing /\ list' = Listing
  /\ UNCHANGED <<server, open, polled, wire, settling, history>>
Poll ==
  /\ polled # Cardinality(Unread) /\ polled' = Cardinality(Unread)
  /\ UNCHANGED <<server, open, list, wire, settling, history>>

Count == IF open /\ list # None THEN list.unread ELSE polled
Mutate(r) == Cardinality(wire) < MaxWire /\ wire' = wire \cup {r} /\ settling' = TRUE

\* An unread one is marked; a mutation that is still under way goes on, and
\* isPending turns to the new one.
OpenItem(n) ==
  /\ open /\ list # None /\ n \in list.items /\ open' = FALSE
  /\ IF n \in list.read THEN UNCHANGED <<wire, settling>> ELSE Mutate([all |-> FALSE, id |-> n])
  /\ opened' = opened \cup {n}
  /\ UNCHANGED <<server, list, polled, clicked, listed>>

MarkAll ==
  /\ open /\ list # None /\ list.items # {} /\ Count > 0 /\ ~settling
  /\ LET newest == Newest(list.items) IN
     Mutate([all |-> TRUE, id |-> newest]) /\ clicked' = clicked \cup {newest}
  /\ listed' = listed \cup list.visible
  /\ UNCHANGED <<server, open, list, polled, opened>>

\* onSettled, after an answer or none: the list is refetched while the popover is
\* open, and the count.
Settle ==
  /\ settling /\ settling' = FALSE
  /\ list' = IF open THEN Listing ELSE list
  /\ polled' \in {polled, Cardinality(Unread)}
  /\ UNCHANGED <<server, open, wire, history>>

BellNext ==
  \/ \E n \in Notes : Insert(n) \/ Commit(n) \/ OpenItem(n)
  \/ \E r \in wire : Serve(r) \/ Lose(r)
  \/ Toggle \/ Fetch \/ Poll \/ MarkAll \/ Settle

BellSpec == BellInit /\ [][BellNext]_bellVars

----------------------------------------------------------------------------
\* A notification is read only because the admin opened it or marked all read with
\* it, or a later one, the newest on screen: one inserted later stays unread
\* however old the list, and however late the request (adminNotificationsRead).
ReadWasMeant ==
  \A n \in committed : Read(n) => n \in opened \/ \E m \in clicked : stamp[n] <= stamp[m]

\* What was read stays read, although requests arrive out of order and a mark-all
\* deletes the markers it covers (adminNotificationsRead): of every step.
StaysRead == \A n \in committed : Read(n) => Read(n)'

\* Not kept by the code when notifications commit in another order than they were
\* inserted: "全部已读 covers the newest notification on screen, not the server's
\* now(), so one that arrived after the list was fetched stays unread"
\* (shell/notifications.tsx:43).
ArrivedLaterStaysUnread == \A n \in committed : Read(n) => n \in opened \cup listed
=============================================================================

----------------------- MODULE CommunityModeration -----------------------
(***************************************************************************)
(* Review of community content: internal/account/admin_moderation.go, the  *)
(* bans of admin_users_ext.go, an author's uploads of                      *)
(* community_resources.go and the admin console that sends the requests    *)
(* (admin-web/src/pages/community).                                        *)
(*                                                                         *)
(* Content is public from its upload on, pending review, until somebody    *)
(* removes it.  A moderator acts on a card, the row as it was when the     *)
(* page loaded, and may undo what was just done.  Approving and restoring  *)
(* are transactions of two statements, the guard that locks the owner FOR  *)
(* SHARE and the update; everything an author does, a ban and an unban     *)
(* begin with FOR UPDATE on the account and are one action each.           *)
(*                                                                         *)
(* created_at and updated_at are numbers of uploads.  The word list is     *)
(* fixed: an upload is flagged or it is not.                               *)
(***************************************************************************)
EXTENDS Naturals, FiniteSets

CONSTANTS
  Users,        \* authors
  Items,        \* ids an author may publish under
  Moderators,   \* open pages of the console
  NoRow,        \* "no such item"
  NoUser,       \* "no account locked"
  MaxVersions   \* bound on uploads

ASSUME ModerationAssumption ==
  /\ NoUser \notin Users
  /\ Items # {}
  /\ MaxVersions \in Nat

VARIABLES
  rows,      \* the community tables, by id
  banned,    \* accounts with banned_at set
  uploads,   \* versions handed out so far
  desk,      \* what each moderator has on screen and under way
  reviewed,  \* history: versions a moderator approved with them on screen
  before,    \* history: the state a ban took an item from
  lapses     \* history: what has happened that the code has no guard for

vars == <<rows, banned, uploads, desk, reviewed, before, lapses>>

States == {"pending", "approved", "removed"}
Visible == {"pending", "approved"}

\* moderation_reason: the automatic flag, a moderator's reason, or the ban's
Reasons == {"none", "flag", "moderator", "owner_banned"}

Row == [owner: Users, created: 1..MaxVersions, updated: 1..MaxVersions,
        flagged: BOOLEAN, moderation: States,
        previous: Visible \cup {"none"}, reason: Reasons]

\* "No such item" is not a row.
ASSUME NoRowAssumption == NoRow \notin Row

Steps == {"idle", "seen", "update", "offer", "undoing"}

Desk == [step: Steps, item: Items, card: Row \cup {NoRow},
         kind: {"none", "approve", "remove", "restore"},
         left: Row \cup {NoRow}, lock: Users \cup {NoUser}]

Exists(i) == rows[i] # NoRow

\* Every variable has its type; only a removed item has a restore state (the
\* CASEs of every moderation statement keep previous_moderation NULL
\* otherwise), and no item is removed without one.
TypeOK ==
  /\ rows \in [Items -> Row \cup {NoRow}]
  /\ banned \in SUBSET Users
  /\ uploads \in 0..MaxVersions
  /\ desk \in [Moderators -> Desk]
  /\ reviewed \in SUBSET (1..MaxVersions)
  /\ before \in [Items -> Visible \cup {"none"}]
  /\ lapses \in SUBSET {"guard", "undo"}
  /\ \A i \in Items : Exists(i) =>
       (rows[i].moderation = "removed" <=> rows[i].previous # "none")

Idle == [step |-> "idle", item |-> CHOOSE i \in Items : TRUE,
         card |-> NoRow, kind |-> "none", left |-> NoRow, lock |-> NoUser]

Init ==
  /\ rows = [i \in Items |-> NoRow]
  /\ banned = {}
  /\ uploads = 0
  /\ desk = [m \in Moderators |-> Idle]
  /\ reviewed = {}
  /\ before = [i \in Items |-> "none"]
  /\ lapses = {}

---------------------------------------------------------------------------
(* What each statement does to a row.                                      *)

Flag(flagged) == IF flagged THEN "flag" ELSE "none"

\* Mutant of Approved: the restore state stays.
ApprovedOnly(r) ==
  [r EXCEPT !.moderation = "approved",
            !.reason = IF r.moderation = "pending" THEN @ ELSE "none"]

Approved(r) ==
  [r EXCEPT !.moderation = "approved", !.previous = "none",
            !.reason = IF r.moderation = "pending" THEN @ ELSE "none"]

\* Mutant of Removed: the request's restore state is ignored.
RemovedPlainly(r, reason, previous) ==
  [r EXCEPT !.moderation = "removed", !.reason = reason,
            !.previous = IF r.moderation = "removed" THEN @ ELSE r.moderation]

\* A removed row keeps its restore state, whatever the request says.
Removed(r, reason, previous) ==
  [r EXCEPT !.moderation = "removed", !.reason = reason,
            !.previous = IF r.moderation = "removed" THEN @
                         ELSE IF previous # "none" THEN previous
                         ELSE r.moderation]

Rescreened(r) ==
  IF r.moderation = "pending" /\ r.flagged THEN [r EXCEPT !.reason = "flag"]
  ELSE r

Restored(r) ==
  Rescreened([r EXCEPT
    !.moderation = IF r.previous = "none" THEN "approved" ELSE r.previous,
    !.previous = "none", !.reason = "none"])

\* Mutant of ReviewAgain: a removed item keeps its restore state.
ReviewPublic(r, updated, flagged) ==
  LET edited == [r EXCEPT !.updated = updated, !.flagged = flagged]
  IN IF r.moderation = "removed" THEN edited
     ELSE [edited EXCEPT !.moderation = "pending", !.previous = "none",
                         !.reason = Flag(flagged)]

ReviewAgain(r, updated, flagged) ==
  LET edited == [r EXCEPT !.updated = updated, !.flagged = flagged]
  IN IF r.moderation = "removed" THEN [edited EXCEPT !.previous = "pending"]
     ELSE [edited EXCEPT !.moderation = "pending", !.previous = "none",
                         !.reason = Flag(flagged)]

---------------------------------------------------------------------------
(* Authors and administrators.                                             *)

\* Mutant of ShareLocked: the guard reads banned_at without FOR SHARE.
ReadUnlocked(u) == FALSE

\* FOR SHARE held by an approval or a restore between its two statements
ShareLocked(u) == \E m \in Moderators :
                    desk[m].step \in {"update", "undoing"} /\ desk[m].lock = u

\* userDataTransaction: the account locked and found not to be banned
MayWrite(u) == u \notin banned /\ ~ShareLocked(u)

Publish(u, i) ==
  /\ MayWrite(u)
  /\ ~Exists(i)
  /\ uploads < MaxVersions
  /\ uploads' = uploads + 1
  /\ \E flagged \in BOOLEAN :
       rows' = [rows EXCEPT ![i] =
         [owner |-> u, created |-> uploads + 1, updated |-> uploads + 1,
          flagged |-> flagged, moderation |-> "pending",
          previous |-> "none", reason |-> Flag(flagged)]]
  /\ UNCHANGED <<banned, desk, reviewed, before, lapses>>

Edit(u, i) ==
  /\ MayWrite(u)
  /\ Exists(i) /\ rows[i].owner = u
  /\ uploads < MaxVersions
  /\ uploads' = uploads + 1
  /\ \E flagged \in BOOLEAN :
       rows' = [rows EXCEPT ![i] = ReviewAgain(@, uploads + 1, flagged)]
  /\ UNCHANGED <<banned, desk, reviewed, before, lapses>>

\* One DELETE of the owner or of an administrator.  It locks no account, so
\* it may come between the statements of a moderator and, from a request
\* that was let in before, after a ban.
DeleteItem(i) ==
  /\ Exists(i)
  /\ rows' = [rows EXCEPT ![i] = NoRow]
  /\ before' = [before EXCEPT ![i] = "none"]
  /\ UNCHANGED <<banned, uploads, desk, reviewed, lapses>>

\* Mutant of TakenDown: all of the account's content is marked.
TakenDownAll(u) ==
  [i \in Items |->
    IF Exists(i) /\ rows[i].owner = u
    THEN Removed(rows[i], "owner_banned", "none") ELSE rows[i]]

\* The update of a ban: what is public of the account's content.
TakenDown(u) ==
  [i \in Items |->
    IF Exists(i) /\ rows[i].owner = u /\ rows[i].moderation # "removed"
    THEN Removed(rows[i], "owner_banned", "none")
    ELSE rows[i]]

Ban(u) ==
  /\ u \notin banned /\ ~ShareLocked(u)
  /\ banned' = banned \cup {u}
  /\ rows' = TakenDown(u)
  /\ before' = [i \in Items |->
       IF Exists(i) /\ rows[i].owner = u /\ rows[i].moderation # "removed"
       THEN rows[i].moderation ELSE before[i]]
  /\ UNCHANGED <<uploads, desk, reviewed, lapses>>

\* The update of an unban: what a ban marked.
BroughtBack(u) ==
  [i \in Items |->
    IF /\ Exists(i) /\ rows[i].owner = u
       /\ rows[i].moderation = "removed" /\ rows[i].reason = "owner_banned"
    THEN Restored(rows[i])
    ELSE rows[i]]

Unban(u) ==
  /\ u \in banned /\ ~ShareLocked(u)
  /\ banned' = banned \ {u}
  /\ rows' = BroughtBack(u)
  /\ before' = [i \in Items |->
       IF Exists(i) /\ rows[i].owner = u THEN "none" ELSE before[i]]
  /\ UNCHANGED <<uploads, desk, reviewed, lapses>>

---------------------------------------------------------------------------
(* Moderators.  The page of a moderator is "idle", shows a card ("seen"),  *)
(* waits between guard and update ("update", "undoing"), or shows the      *)
(* toast that offers to undo ("offer").                                    *)

Look(m) ==
  /\ desk[m].step \in {"idle", "seen", "offer"}
  /\ \E i \in Items :
       /\ Exists(i)
       /\ desk' = [desk EXCEPT ![m] =
            [Idle EXCEPT !.step = "seen", !.item = i, !.card = rows[i]]]
  /\ UNCHANGED <<rows, banned, uploads, reviewed, before, lapses>>

\* bannedOwnerGuard: the owner of the row, if there is a row, is locked.
Guard(m, kind, step) ==
  LET i == desk[m].item
  IN /\ desk' = [desk EXCEPT ![m] =
          IF Exists(i) /\ rows[i].owner \in banned THEN Idle
          ELSE [@ EXCEPT !.step = step, !.kind = kind,
                         !.lock = IF Exists(i) THEN rows[i].owner ELSE NoUser]]
     /\ UNCHANGED <<rows, banned, uploads, reviewed, before, lapses>>

Approve(m) ==
  /\ desk[m].step = "seen" /\ desk[m].card.moderation # "approved"
  /\ Guard(m, "approve", "update")

Restore(m) ==
  /\ desk[m].step = "seen" /\ desk[m].card.moderation = "removed"
  /\ Guard(m, "restore", "update")

\* Undoing a removal is restore_content.
UndoRemove(m) ==
  /\ desk[m].step = "offer" /\ desk[m].kind = "remove"
  /\ Guard(m, "restore", "undoing")

\* The conditions of the two guarded updates.
Matches(d, r) ==
  /\ r # NoRow
  /\ \/ /\ d.kind = "approve"
        /\ r.moderation = d.card.moderation
        /\ r.created = d.card.created /\ r.updated = d.card.updated
     \/ d.kind = "restore" /\ r.moderation = "removed"

\* The row a request leaves, if the card was the row it found.
Left(d, found, result) == IF d.card = found THEN result ELSE NoRow

Offer(d, found, result) ==
  [d EXCEPT !.step = "offer", !.lock = NoUser,
            !.left = Left(d, found, result)]

\* The second statement of an approval or a restore, and the commit.
Update(m) ==
  LET d == desk[m]
      r == rows[d.item]
      result == IF d.kind = "approve" THEN Approved(r) ELSE Restored(r)
  IN /\ d.step \in {"update", "undoing"}
     /\ IF Matches(d, r)
        THEN /\ rows' = [rows EXCEPT ![d.item] = result]
             /\ desk' = [desk EXCEPT ![m] =
                  IF d.step = "undoing" THEN Idle ELSE Offer(d, r, result)]
             /\ before' = [before EXCEPT ![d.item] = "none"]
             /\ reviewed' = reviewed \cup
                  {v \in {d.card.updated} : d.kind = "approve"}
             /\ lapses' = lapses
                  \cup {l \in {"guard"} : d.lock # r.owner}
                  \cup {l \in {"undo"} : d.step = "undoing" /\ r # d.left}
        ELSE /\ desk' = [desk EXCEPT ![m] = Idle]
             /\ UNCHANGED <<rows, before, reviewed, lapses>>
     /\ UNCHANGED <<banned, uploads>>

\* The transaction fails: the word list cannot be read, a lost connection.
Fail(m) ==
  /\ desk[m].step \in {"update", "undoing"}
  /\ desk' = [desk EXCEPT ![m] = Idle]
  /\ UNCHANGED <<rows, banned, uploads, reviewed, before, lapses>>

\* remove_content is one statement without a guard.
TakeDown(m) ==
  LET d == desk[m]
      r == rows[d.item]
      result == Removed(r, "moderator", "none")
  IN /\ d.step = "seen" /\ d.card.moderation # "removed"
     /\ IF r # NoRow
        THEN /\ rows' = [rows EXCEPT ![d.item] = result]
             /\ desk' = [desk EXCEPT ![m] =
                  [Offer(d, r, result) EXCEPT !.kind = "remove"]]
             /\ before' = [before EXCEPT ![d.item] = "none"]
        ELSE /\ desk' = [desk EXCEPT ![m] = Idle]
             /\ UNCHANGED <<rows, before>>
     /\ UNCHANGED <<banned, uploads, reviewed, lapses>>

\* undoTo: a removed item is removed again with the reason and the restore
\* state of the card; the approval of a pending one is taken back, unless it
\* has been removed since.
PutBack(r, card) ==
  IF card.moderation = "removed" THEN Removed(r, card.reason, card.previous)
  ELSE IF r.moderation = "removed" THEN r
  ELSE [r EXCEPT !.moderation = card.moderation, !.previous = "none"]

UndoReview(m) ==
  LET d == desk[m]
      r == rows[d.item]
  IN /\ d.step = "offer" /\ d.kind \in {"approve", "restore"}
     /\ desk' = [desk EXCEPT ![m] = Idle]
     /\ IF r # NoRow
        THEN /\ rows' = [rows EXCEPT ![d.item] = PutBack(r, d.card)]
             /\ before' = IF rows' = rows THEN before
                          ELSE [before EXCEPT ![d.item] = "none"]
             /\ lapses' = lapses \cup {l \in {"undo"} : r # d.left}
        ELSE UNCHANGED <<rows, before, lapses>>
     /\ UNCHANGED <<banned, uploads, reviewed>>

Next ==
  \/ \E u \in Users, i \in Items : Publish(u, i) \/ Edit(u, i)
  \/ \E i \in Items : DeleteItem(i)
  \/ \E u \in Users : Ban(u) \/ Unban(u)
  \/ \E m \in Moderators :
       \/ Look(m) \/ Approve(m) \/ Restore(m) \/ TakeDown(m)
       \/ Update(m) \/ Fail(m) \/ UndoRemove(m) \/ UndoReview(m)

Spec == Init /\ [][Next]_vars

---------------------------------------------------------------------------

\* Nothing of a banned account is public, whatever moderators approve,
\* restore or undo beside the ban ("a moderator cannot republish a banned
\* author's work", bannedOwnerGuard), unless a guard found no row, or
\* another's, and so locked nobody who mattered.
BannedOwnersHidden ==
  "guard" \notin lapses =>
    \A i \in Items :
      Exists(i) /\ rows[i].owner \in banned => rows[i].moderation = "removed"

\* An approved item is in the version that some moderator had on screen when
\* approving it: neither an edit nor a removal and its restore publishes
\* other content as approved (approve's pin, reviewAgain), as long as no
\* moderator undoes something that has changed meanwhile.
ApprovedWasReviewed ==
  "undo" \notin lapses =>
    \A i \in Items :
      Exists(i) /\ rows[i].moderation = "approved" =>
        rows[i].updated \in reviewed

\* Lifting a ban gives each item the ban took down the state it had before,
\* and touches nothing else (banModerationReason), whatever moderators did
\* between.
UnbanRestoresBanned ==
  [][\A u \in banned \ banned' : "undo" \notin lapses =>
       \A i \in Items : Exists(i) /\ rows[i].owner = u =>
         IF before[i] = "none" THEN rows'[i] = rows[i]
         ELSE /\ rows'[i].moderation = before[i]
              /\ rows'[i].updated = rows[i].updated]_vars

\* An undo that finds the item as the moderator left it gives it back the
\* state, the restore state and the reason of the card; of an approved one
\* the reason is no longer shown.
UndoPutsBack ==
  [][\A m \in Moderators :
       LET d == desk[m]
           r == rows'[d.item]
       IN /\ "undo" \notin lapses
          /\ d.left # NoRow /\ rows[d.item] = d.left
          /\ desk'[m] # d /\ r # d.left
          => /\ r.moderation = d.card.moderation
             /\ r.previous = d.card.previous
             /\ r.reason = d.card.reason \/ r.moderation = "approved"]_vars

\* The comment of reviewAgain (admin_moderation.go:585): after an author's
\* edit no restore "publishes the unreviewed edit as approved".
EditsAreReviewed ==
  \A i \in Items :
    /\ Exists(i) /\ rows[i].moderation = "approved"
    /\ rows[i].updated # rows[i].created
    => rows[i].updated \in reviewed
=============================================================================

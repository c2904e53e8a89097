--------------------- MODULE CommunityModerationProofs ---------------------
(***************************************************************************)
(* Theorems about the review of community content, for every number of     *)
(* authors, items, moderators and uploads.                                 *)
(***************************************************************************)
EXTENDS CommunityModeration, TLAPS

\* A row as the statements leave it: a restore state if and only if removed.
Tidy(r) == r.moderation = "removed" <=> r.previous # "none"

\* A page that is not idle shows a card.
DeskInv ==
  \A m \in Moderators : desk[m].step # "idle" => desk[m].card # NoRow

\* An account locked FOR SHARE is not banned while it is locked.
LockInv ==
  \A m \in Moderators :
    desk[m].step \in {"update", "undoing"} /\ desk[m].lock \in Users
      => desk[m].lock \notin banned

IInv == TypeOK /\ DeskInv /\ LockInv /\ BannedOwnersHidden

---------------------------------------------------------------------------
(* What the statements make of a row.                                      *)

\* An approval leaves an approved row of the same owner.
LEMMA ApprovedRow ==
  ASSUME NEW r \in Row
  PROVE  Approved(r) \in Row /\ Tidy(Approved(r)) /\ Approved(r).owner = r.owner
BY DEF Approved, Row, States, Visible, Reasons, Tidy

\* A removal leaves a removed row of the same owner, given a reason and the
\* restore state of a card.
LEMMA RemovedRow ==
  ASSUME NEW r \in Row, Tidy(r), NEW reason \in Reasons,
         NEW previous \in Visible \cup {"none"}
  PROVE  /\ Removed(r, reason, previous) \in Row
         /\ Tidy(Removed(r, reason, previous))
         /\ Removed(r, reason, previous).owner = r.owner
         /\ Removed(r, reason, previous).moderation = "removed"
BY DEF Removed, Row, States, Visible, Reasons, Tidy

\* A restore leaves a row of the same owner that is not removed.
LEMMA RestoredRow ==
  ASSUME NEW r \in Row
  PROVE  /\ Restored(r) \in Row
         /\ Tidy(Restored(r))
         /\ Restored(r).owner = r.owner
BY DEF Restored, Rescreened, Row, States, Visible, Reasons, Tidy

\* An edit leaves a row of the same owner, which stays removed if it was.
LEMMA EditedRow ==
  ASSUME NEW r \in Row, Tidy(r), NEW v \in 1..MaxVersions, NEW f \in BOOLEAN
  PROVE  /\ ReviewAgain(r, v, f) \in Row
         /\ Tidy(ReviewAgain(r, v, f))
         /\ ReviewAgain(r, v, f).owner = r.owner
BY DEF ReviewAgain, Flag, Row, States, Visible, Reasons, Tidy

\* An undo to a card leaves a row of the same owner, and a removed row removed.
LEMMA PutBackRow ==
  ASSUME NEW r \in Row, Tidy(r), NEW card \in Row
  PROVE  /\ PutBack(r, card) \in Row
         /\ Tidy(PutBack(r, card))
         /\ PutBack(r, card).owner = r.owner
         /\ r.moderation = "removed" => PutBack(r, card).moderation = "removed"
<1>1. CASE card.moderation = "removed"
  <2>1. card.reason \in Reasons /\ card.previous \in Visible \cup {"none"}
    BY DEF Row
  <2> QED
    BY <1>1, <2>1, RemovedRow DEF PutBack
<1>2. CASE card.moderation # "removed"
  BY <1>2 DEF PutBack, Row, States, Visible, Tidy
<1> QED
  BY <1>1, <1>2

---------------------------------------------------------------------------

\* The initial state satisfies the invariant.
LEMMA InitIInv == Init => IInv
<1> SUFFICES ASSUME Init PROVE IInv
  OBVIOUS
<1>1. (CHOOSE i \in Items : TRUE) \in Items
  BY ModerationAssumption
<1>2. Idle \in Desk
  BY <1>1 DEF Idle, Desk, Steps
<1>3. TypeOK
  BY <1>2, ModerationAssumption DEF Init, TypeOK, Visible, Exists
<1> QED
  BY <1>3 DEF IInv, Init, DeskInv, LockInv, BannedOwnersHidden, Idle


\* What a statement leaves of one item, and of all the others.
LEMMA OneRow ==
  ASSUME TypeOK, NEW i \in Items, NEW r \in Row, Tidy(r),
         rows' = [rows EXCEPT ![i] = r]
  PROVE  /\ rows' \in [Items -> Row \cup {NoRow}]
         /\ \A j \in Items : rows'[j] # NoRow => Tidy(rows'[j])
BY DEF TypeOK, Tidy, Exists

\* The pages after a step of one moderator.
LEMMA OneDesk ==
  ASSUME TypeOK, DeskInv, NEW m \in Moderators, NEW d \in Desk,
         d.step # "idle" => d.card # NoRow,
         desk' = [desk EXCEPT ![m] = d]
  PROVE  desk' \in [Moderators -> Desk] /\ DeskInv'
BY DEF TypeOK, DeskInv

\* A page at rest is a page.
LEMMA IdleDesk == Idle \in Desk /\ Idle.step = "idle"
<1>1. (CHOOSE i \in Items : TRUE) \in Items
  BY ModerationAssumption
<1> QED
  BY <1>1 DEF Idle, Desk, Steps

\* The parts of TypeOK in terms of Tidy.
LEMMA TypeParts ==
  TypeOK <=>
    /\ rows \in [Items -> Row \cup {NoRow}]
    /\ \A i \in Items : rows[i] # NoRow => Tidy(rows[i])
    /\ banned \in SUBSET Users
    /\ uploads \in 0..MaxVersions
    /\ desk \in [Moderators -> Desk]
    /\ reviewed \in SUBSET (1..MaxVersions)
    /\ before \in [Items -> Visible \cup {"none"}]
    /\ lapses \in SUBSET {"guard", "undo"}
BY DEF TypeOK, Tidy, Exists

\* An upload keeps the invariant: its author is not banned.
LEMMA UploadStep ==
  ASSUME IInv, NEW u \in Users, NEW i \in Items, Publish(u, i) \/ Edit(u, i)
  PROVE  IInv'
<1> USE DEF IInv
<1> DEFINE v == uploads + 1
<1>1. v \in 1..MaxVersions /\ uploads' = v /\ u \notin banned
  BY ModerationAssumption DEF Publish, Edit, MayWrite, TypeOK
<1>2. PICK r \in Row : /\ rows' = [rows EXCEPT ![i] = r]
                       /\ Tidy(r) /\ r.owner = u
  <2>1. CASE Publish(u, i)
    <3>1. PICK f \in BOOLEAN : rows' = [rows EXCEPT ![i] =
            [owner |-> u, created |-> v, updated |-> v, flagged |-> f,
             moderation |-> "pending", previous |-> "none",
             reason |-> Flag(f)]]
      BY <2>1 DEF Publish
    <3> DEFINE r == [owner |-> u, created |-> v, updated |-> v, flagged |-> f,
                     moderation |-> "pending", previous |-> "none",
                     reason |-> Flag(f)]
    <3>2. r \in Row /\ Tidy(r) /\ r.owner = u
      BY <1>1 DEF Row, States, Visible, Reasons, Flag, Tidy
    <3> QED
      BY <3>1, <3>2
  <2>2. CASE Edit(u, i)
    <3>1. PICK f \in BOOLEAN :
            rows' = [rows EXCEPT ![i] = ReviewAgain(rows[i], v, f)]
      BY <2>2, TypeParts DEF Edit
    <3>2. rows[i] \in Row /\ Tidy(rows[i]) /\ rows[i].owner = u
      BY <2>2, TypeParts DEF Edit, Exists
    <3> QED
      BY <1>1, <3>1, <3>2, EditedRow
  <2> QED
    BY <2>1, <2>2
<1>3. UNCHANGED <<banned, desk, reviewed, before, lapses>>
  BY DEF Publish, Edit
<1>4. TypeOK'
  BY <1>1, <1>2, <1>3, OneRow, TypeParts, ModerationAssumption
  DEF TypeOK, Tidy, Exists
<1>5. BannedOwnersHidden'
  BY <1>1, <1>2, <1>3, TypeParts DEF BannedOwnersHidden, Exists
<1> QED
  BY <1>3, <1>4, <1>5 DEF DeskInv, LockInv

\* A deletion keeps the invariant.
LEMMA DeleteStep ==
  ASSUME IInv, NEW i \in Items, DeleteItem(i)
  PROVE  IInv'
<1> USE DEF IInv, DeleteItem
<1>1. rows' \in [Items -> Row \cup {NoRow}]
  BY TypeParts
<1>2. \A j \in Items : rows'[j] # NoRow => rows'[j] = rows[j] /\ Tidy(rows[j])
  BY TypeParts
<1>3. TypeOK'
  <2>1. \A j \in Items : rows'[j] # NoRow => Tidy(rows'[j])
    BY <1>2
  <2>2. before' \in [Items -> Visible \cup {"none"}]
    BY TypeParts
  <2> QED
    BY <1>1, <2>1, <2>2 DEF TypeOK, Tidy, Exists
<1>4. BannedOwnersHidden'
  BY <1>2 DEF BannedOwnersHidden, Exists
<1> QED
  BY <1>3, <1>4 DEF DeskInv, LockInv

\* A ban and an unban keep the invariant: nobody holds the account, and
\* nothing of a banned account stays public.
LEMMA BanStep ==
  ASSUME IInv, NEW u \in Users, Ban(u)
  PROVE  IInv'
<1> USE DEF IInv
<1>1. /\ banned' = banned \cup {u} /\ ~ShareLocked(u)
      /\ rows' = TakenDown(u)
      /\ UNCHANGED <<uploads, desk, reviewed, lapses>>
  BY DEF Ban
<1>2. ASSUME NEW i \in Items
      PROVE  /\ rows'[i] \in Row \cup {NoRow}
             /\ rows'[i] # NoRow =>
                  /\ rows[i] # NoRow /\ Tidy(rows'[i])
                  /\ rows'[i].owner = rows[i].owner
                  /\ rows[i].owner = u => rows'[i].moderation = "removed"
                  /\ rows[i].moderation = "removed" =>
                       rows'[i].moderation = "removed"
  <2>1. "owner_banned" \in Reasons /\ "none" \in Visible \cup {"none"}
    BY DEF Reasons
  <2>2. rows[i] # NoRow => rows[i] \in Row /\ Tidy(rows[i])
    BY TypeParts
  <2>3. rows'[i] = IF /\ rows[i] # NoRow /\ rows[i].owner = u
                      /\ rows[i].moderation # "removed"
                   THEN Removed(rows[i], "owner_banned", "none") ELSE rows[i]
    BY <1>1 DEF TakenDown, Exists
  <2> QED
    BY <2>1, <2>2, <2>3, RemovedRow
<1>3. rows' \in [Items -> Row \cup {NoRow}]
  BY <1>1, <1>2 DEF TakenDown
<1>4. before' \in [Items -> Visible \cup {"none"}]
  BY TypeParts DEF Ban, Exists, Row, States, Visible
<1>5. TypeOK'
  BY <1>1, <1>2, <1>3, <1>4 DEF TypeOK, Tidy, Exists
<1>6. LockInv'
  BY <1>1 DEF LockInv, ShareLocked
<1>7. BannedOwnersHidden'
  BY <1>1, <1>2 DEF BannedOwnersHidden, Exists
<1> QED
  BY <1>1, <1>5, <1>6, <1>7 DEF DeskInv

LEMMA UnbanStep ==
  ASSUME IInv, NEW u \in Users, Unban(u)
  PROVE  IInv'
<1> USE DEF IInv
<1>1. /\ banned' = banned \ {u}
      /\ rows' = BroughtBack(u)
      /\ UNCHANGED <<uploads, desk, reviewed, lapses>>
  BY DEF Unban
<1>2. ASSUME NEW i \in Items
      PROVE  /\ rows'[i] \in Row \cup {NoRow}
             /\ rows'[i] # NoRow =>
                  /\ rows[i] # NoRow /\ Tidy(rows'[i])
                  /\ rows'[i].owner = rows[i].owner
                  /\ rows[i].owner # u => rows'[i] = rows[i]
  <2>1. rows[i] # NoRow => rows[i] \in Row /\ Tidy(rows[i])
    BY TypeParts
  <2>2. rows'[i] = IF /\ rows[i] # NoRow /\ rows[i].owner = u
                      /\ rows[i].moderation = "removed"
                      /\ rows[i].reason = "owner_banned"
                   THEN Restored(rows[i]) ELSE rows[i]
    BY <1>1 DEF BroughtBack, Exists
  <2> QED
    BY <2>1, <2>2, RestoredRow
<1>3. rows' \in [Items -> Row \cup {NoRow}]
  BY <1>1, <1>2 DEF BroughtBack
<1>4. before' \in [Items -> Visible \cup {"none"}]
  BY TypeParts DEF Unban
<1>5. TypeOK'
  BY <1>1, <1>2, <1>3, <1>4 DEF TypeOK, Tidy, Exists
<1>6. LockInv'
  BY <1>1 DEF LockInv
<1>7. BannedOwnersHidden'
  BY <1>1, <1>2 DEF BannedOwnersHidden, Exists
<1> QED
  BY <1>1, <1>5, <1>6, <1>7 DEF DeskInv

---------------------------------------------------------------------------
(* The steps of a moderator.                                               *)

\* A request without a guard, or one that ends, leaves the bans and the locks
\* of the other moderators as they are.
LEMMA UnlockedStep ==
  ASSUME IInv, NEW m \in Moderators, NEW d \in Desk,
         d.step \notin {"update", "undoing"},
         desk' = [desk EXCEPT ![m] = d], banned' = banned
  PROVE  LockInv'
BY DEF IInv, LockInv, TypeOK

\* A step that changes a page only.
LEMMA PageStep ==
  ASSUME IInv, NEW m \in Moderators, NEW d \in Desk,
         d.step # "idle" => d.card # NoRow,
         d.step \in {"update", "undoing"} /\ d.lock \in Users
           => d.lock \notin banned,
         desk' = [desk EXCEPT ![m] = d],
         UNCHANGED <<rows, banned, uploads, reviewed, before, lapses>>
  PROVE  IInv'
<1>1. desk' \in [Moderators -> Desk] /\ DeskInv'
  BY OneDesk DEF IInv
<1>2. TypeOK'
  BY <1>1 DEF IInv, TypeOK, Exists
<1>3. LockInv'
  BY DEF IInv, LockInv, TypeOK
<1>4. BannedOwnersHidden'
  BY DEF IInv, BannedOwnersHidden, Exists
<1> QED
  BY <1>1, <1>2, <1>3, <1>4 DEF IInv

\* A step that changes one row and ends a request or offers to undo it.  The
\* row is not public if its owner is banned, unless the guard has lapsed.
LEMMA RowStep ==
  ASSUME IInv, NEW m \in Moderators, NEW d \in Desk,
         d.step # "idle" => d.card # NoRow,
         d.step \notin {"update", "undoing"},
         desk' = [desk EXCEPT ![m] = d],
         NEW i \in Items, NEW r \in Row, Tidy(r),
         rows' = [rows EXCEPT ![i] = r],
         before' \in [Items -> Visible \cup {"none"}],
         reviewed' \in SUBSET (1..MaxVersions),
         lapses' \in SUBSET {"guard", "undo"}, lapses \subseteq lapses',
         "guard" \notin lapses' /\ r.owner \in banned
           => r.moderation = "removed",
         UNCHANGED <<banned, uploads>>
  PROVE  IInv'
<1>1. desk' \in [Moderators -> Desk] /\ DeskInv'
  BY OneDesk DEF IInv
<1>2. /\ rows' \in [Items -> Row \cup {NoRow}]
      /\ \A j \in Items : rows'[j] # NoRow => Tidy(rows'[j])
  BY OneRow DEF IInv
<1>3. TypeOK'
  BY <1>1, <1>2 DEF IInv, TypeOK, Tidy, Exists
<1>4. LockInv'
  BY UnlockedStep
<1>5. BannedOwnersHidden'
  BY TypeParts DEF IInv, BannedOwnersHidden, Exists
<1> QED
  BY <1>1, <1>3, <1>4, <1>5 DEF IInv

\* A row on record is well-formed.
LEMMA FoundRow ==
  ASSUME IInv, NEW i \in Items, rows[i] # NoRow
  PROVE  rows[i] \in Row /\ Tidy(rows[i])
BY TypeParts DEF IInv

\* The page of a moderator, and its card.
LEMMA FoundDesk ==
  ASSUME IInv, NEW m \in Moderators
  PROVE  /\ desk[m] \in Desk /\ desk[m].item \in Items
         /\ desk[m].step # "idle" => desk[m].card \in Row
BY DEF IInv, TypeOK, DeskInv, Desk

LEMMA LookStep ==
  ASSUME IInv, NEW m \in Moderators, Look(m)
  PROVE  IInv'
<1>1. PICK i \in Items :
        /\ rows[i] # NoRow
        /\ desk' = [desk EXCEPT ![m] =
             [Idle EXCEPT !.step = "seen", !.item = i, !.card = rows[i]]]
  BY DEF Look, Exists
<1> DEFINE d == [Idle EXCEPT !.step = "seen", !.item = i, !.card = rows[i]]
<1>2. d \in Desk /\ d.step = "seen" /\ d.card # NoRow
  BY <1>1, FoundRow, IdleDesk DEF Desk, Steps
<1>3. UNCHANGED <<rows, banned, uploads, reviewed, before, lapses>>
  BY DEF Look
<1> HIDE DEF d
<1> QED
  BY <1>1, <1>2, <1>3, PageStep DEF d

\* The guard finds the owner not to be banned and keeps it so.
LEMMA GuardStep ==
  ASSUME IInv, NEW m \in Moderators, desk[m].step # "idle",
         NEW kind \in {"approve", "restore"}, NEW step \in {"update", "undoing"},
         Guard(m, kind, step)
  PROVE  IInv'
<1> DEFINE i == desk[m].item
           held == IF Exists(i) THEN rows[i].owner ELSE NoUser
           d == [desk[m] EXCEPT !.step = step, !.kind = kind, !.lock = held]
<1>1. desk[m] \in Desk /\ i \in Items /\ desk[m].card # NoRow
  BY FoundDesk DEF IInv, DeskInv
<1>2. UNCHANGED <<rows, banned, uploads, reviewed, before, lapses>>
  BY DEF Guard
<1>3. CASE Exists(i) /\ rows[i].owner \in banned
  <2>1. desk' = [desk EXCEPT ![m] = Idle]
    BY <1>3 DEF Guard
  <2> QED
    BY <1>2, <2>1, IdleDesk, PageStep
<1>4. CASE ~(Exists(i) /\ rows[i].owner \in banned)
  <2>1. desk' = [desk EXCEPT ![m] = d]
    BY <1>1, <1>4 DEF Guard, IInv, TypeOK
  <2>2. held \in Users \cup {NoUser} /\ (held \in Users => held \notin banned)
    BY <1>1, <1>4, FoundRow, ModerationAssumption DEF Exists, Row
  <2>3. d \in Desk /\ d.card = desk[m].card /\ d.lock = held
    BY <1>1, <2>2 DEF Desk, Steps
  <2> HIDE DEF d
  <2> QED
    BY <1>1, <1>2, <2>1, <2>2, <2>3, PageStep
<1> QED
  BY <1>3, <1>4

\* What an offer to undo is.
LEMMA OfferDesk ==
  ASSUME NEW d \in Desk, d.card # NoRow,
         NEW found, NEW result \in Row
  PROVE  /\ Offer(d, found, result) \in Desk
         /\ Offer(d, found, result).step = "offer"
         /\ Offer(d, found, result).card = d.card
BY DEF Offer, Left, Desk, Steps

LEMMA TakeDownStep ==
  ASSUME IInv, NEW m \in Moderators, TakeDown(m)
  PROVE  IInv'
<1> DEFINE i == desk[m].item
           r == rows[i]
           result == Removed(r, "moderator", "none")
           d == [Offer(desk[m], r, result) EXCEPT !.kind = "remove"]
<1>1. desk[m] \in Desk /\ i \in Items /\ desk[m].card # NoRow
  BY FoundDesk DEF IInv, DeskInv, TakeDown
<1>2. UNCHANGED <<banned, uploads, reviewed, lapses>>
  BY DEF TakeDown
<1>3. CASE r = NoRow
  <2>1. desk' = [desk EXCEPT ![m] = Idle] /\ UNCHANGED <<rows, before>>
    BY <1>3 DEF TakeDown
  <2> QED
    BY <1>2, <2>1, IdleDesk, PageStep
<1>4. CASE r # NoRow
  <2>1. /\ rows' = [rows EXCEPT ![i] = result]
        /\ desk' = [desk EXCEPT ![m] = d]
        /\ before' = [before EXCEPT ![i] = "none"]
    BY <1>4 DEF TakeDown
  <2>2. "moderator" \in Reasons /\ "none" \in Visible \cup {"none"}
    BY DEF Reasons
  <2>3. result \in Row /\ Tidy(result) /\ result.moderation = "removed"
    BY <1>1, <1>4, <2>2, FoundRow, RemovedRow
  <2>4. d \in Desk /\ d.step = "offer" /\ d.card # NoRow
    <3>1. /\ Offer(desk[m], r, result) \in Desk
          /\ Offer(desk[m], r, result).step = "offer"
          /\ Offer(desk[m], r, result).card = desk[m].card
      BY <1>1, <2>3, OfferDesk
    <3> QED
      BY <1>1, <3>1 DEF Desk
  <2>5. before' \in [Items -> Visible \cup {"none"}]
    BY <2>1, TypeParts DEF IInv
  <2>6. reviewed' \in SUBSET (1..MaxVersions) /\ lapses' \in SUBSET {"guard", "undo"}
    BY <1>2, TypeParts DEF IInv
  <2> HIDE DEF d, result, r
  <2> QED
    BY <1>1, <1>2, <2>1, <2>3, <2>4, <2>5, <2>6, RowStep
<1> QED
  BY <1>3, <1>4

\* An update that finds its row is of the account its guard locked, or the
\* guard has lapsed.
LEMMA UpdateStep ==
  ASSUME IInv, NEW m \in Moderators, Update(m)
  PROVE  IInv'
<1> DEFINE i == desk[m].item
           r == rows[i]
           result == IF desk[m].kind = "approve" THEN Approved(r) ELSE Restored(r)
           d == IF desk[m].step = "undoing" THEN Idle
                ELSE Offer(desk[m], r, result)
<1>1. /\ desk[m] \in Desk /\ i \in Items /\ desk[m].card \in Row
      /\ desk[m].card # NoRow
  BY FoundDesk DEF IInv, DeskInv, Update
<1>2. UNCHANGED <<banned, uploads>>
  BY DEF Update
<1>3. CASE ~Matches(desk[m], r)
  <2>1. desk' = [desk EXCEPT ![m] = Idle]
        /\ UNCHANGED <<rows, before, reviewed, lapses>>
    BY <1>3 DEF Update
  <2> QED
    BY <1>2, <2>1, IdleDesk, PageStep
<1>4. CASE Matches(desk[m], r)
  <2>1. /\ rows' = [rows EXCEPT ![i] = result]
        /\ desk' = [desk EXCEPT ![m] = d]
        /\ before' = [before EXCEPT ![i] = "none"]
        /\ reviewed' = reviewed \cup
             {v \in {desk[m].card.updated} : desk[m].kind = "approve"}
        /\ lapses' = lapses
             \cup {l \in {"guard"} : desk[m].lock # r.owner}
             \cup {l \in {"undo"} : desk[m].step = "undoing" /\ r # desk[m].left}
    BY <1>4 DEF Update
  <2>2. r \in Row /\ Tidy(r)
    BY <1>1, <1>4, FoundRow DEF Matches
  <2>3. result \in Row /\ Tidy(result) /\ result.owner = r.owner
    BY <2>2, ApprovedRow, RestoredRow
  <2>4. d \in Desk /\ d.step \in {"idle", "offer"} /\ (d.step # "idle" => d.card # NoRow)
    BY <1>1, <2>3, OfferDesk, IdleDesk
  <2>5. before' \in [Items -> Visible \cup {"none"}]
    BY <2>1, TypeParts DEF IInv
  <2>6. /\ reviewed' \in SUBSET (1..MaxVersions)
        /\ lapses' \in SUBSET {"guard", "undo"} /\ lapses \subseteq lapses'
    BY <1>1, <2>1, TypeParts DEF IInv, Row
  <2>7. "guard" \notin lapses' => r.owner \notin banned
    <3>1. "guard" \notin lapses' => desk[m].lock = r.owner
      BY <2>1
    <3>2. desk[m].step \in {"update", "undoing"} /\ r.owner \in Users
      BY <2>2 DEF Update, Row
    <3> QED
      BY <3>1, <3>2 DEF IInv, LockInv
  <2> HIDE DEF d, result, r
  <2> QED
    BY <1>1, <1>2, <2>1, <2>3, <2>4, <2>5, <2>6, <2>7, RowStep
<1> QED
  BY <1>3, <1>4

\* Undoing a review has no guard, and needs none: a removed row stays removed.
LEMMA UndoReviewStep ==
  ASSUME IInv, NEW m \in Moderators, UndoReview(m)
  PROVE  IInv'
<1> DEFINE i == desk[m].item
           r == rows[i]
           result == PutBack(r, desk[m].card)
<1>1. /\ desk[m] \in Desk /\ i \in Items /\ desk[m].card \in Row
  BY FoundDesk DEF UndoReview
<1>2. UNCHANGED <<banned, uploads, reviewed>> /\ desk' = [desk EXCEPT ![m] = Idle]
  BY DEF UndoReview
<1>3. CASE r = NoRow
  <2>1. UNCHANGED <<rows, before, lapses>>
    BY <1>3 DEF UndoReview
  <2> QED
    BY <1>2, <2>1, IdleDesk, PageStep
<1>4. CASE r # NoRow
  <2>1. /\ rows' = [rows EXCEPT ![i] = result]
        /\ before' = IF rows' = rows THEN before
                     ELSE [before EXCEPT ![i] = "none"]
        /\ lapses' = lapses \cup {l \in {"undo"} : r # desk[m].left}
    BY <1>4 DEF UndoReview
  <2>2. r \in Row /\ Tidy(r)
    BY <1>1, <1>4, FoundRow
  <2>3. /\ result \in Row /\ Tidy(result) /\ result.owner = r.owner
        /\ r.moderation = "removed" => result.moderation = "removed"
    BY <1>1, <2>2, PutBackRow
  <2>4. before' \in [Items -> Visible \cup {"none"}]
    BY <2>1, TypeParts DEF IInv
  <2>5. /\ reviewed' \in SUBSET (1..MaxVersions)
        /\ lapses' \in SUBSET {"guard", "undo"} /\ lapses \subseteq lapses'
        /\ "guard" \notin lapses' => "guard" \notin lapses
    BY <1>2, <2>1, TypeParts DEF IInv
  <2>6. "guard" \notin lapses' /\ result.owner \in banned
          => result.moderation = "removed"
    BY <1>1, <1>4, <2>3, <2>5 DEF IInv, BannedOwnersHidden, Exists
  <2> HIDE DEF result, r
  <2> QED
    BY <1>1, <1>2, <2>1, <2>3, <2>4, <2>5, <2>6, IdleDesk, RowStep
<1> QED
  BY <1>3, <1>4

---------------------------------------------------------------------------

\* Every step keeps the invariant.
LEMMA NextIInv == IInv /\ [Next]_vars => IInv'
<1> SUFFICES ASSUME IInv, [Next]_vars PROVE IInv'
  OBVIOUS
<1>1. ASSUME NEW u \in Users, NEW i \in Items, Publish(u, i) \/ Edit(u, i)
      PROVE  IInv'
  BY <1>1, UploadStep
<1>2. ASSUME NEW i \in Items, DeleteItem(i) PROVE IInv'
  BY <1>2, DeleteStep
<1>3. ASSUME NEW u \in Users, Ban(u) \/ Unban(u) PROVE IInv'
  BY <1>3, BanStep, UnbanStep
<1>4. ASSUME NEW m \in Moderators, Look(m) PROVE IInv'
  BY <1>4, LookStep
<1>5. ASSUME NEW m \in Moderators, Approve(m) \/ Restore(m) \/ UndoRemove(m)
      PROVE  IInv'
  <2>1. CASE Approve(m)
    BY <2>1, GuardStep DEF Approve
  <2>2. CASE Restore(m)
    BY <2>2, GuardStep DEF Restore
  <2>3. CASE UndoRemove(m)
    BY <2>3, GuardStep DEF UndoRemove
  <2> QED
    BY <1>5, <2>1, <2>2, <2>3
<1>6. ASSUME NEW m \in Moderators, TakeDown(m) PROVE IInv'
  BY <1>6, TakeDownStep
<1>7. ASSUME NEW m \in Moderators, Update(m) PROVE IInv'
  BY <1>7, UpdateStep
<1>8. ASSUME NEW m \in Moderators, Fail(m) PROVE IInv'
  BY <1>8, IdleDesk, PageStep DEF Fail
<1>9. ASSUME NEW m \in Moderators, UndoReview(m) PROVE IInv'
  BY <1>9, UndoReviewStep
<1>10. CASE UNCHANGED vars
  BY <1>10 DEF vars, IInv, TypeOK, DeskInv, LockInv, BannedOwnersHidden, Exists
<1> QED
  BY <1>1, <1>2, <1>3, <1>4, <1>5, <1>6, <1>7, <1>8, <1>9, <1>10 DEF Next

\* The inductive invariant holds in every reachable state.
THEOREM Invariance == Spec => []IInv
BY InitIInv, NextIInv, PTL DEF Spec

\* Every reachable state has its type.
THEOREM TypeCorrect == Spec => []TypeOK
BY Invariance, PTL DEF IInv

\* Nothing of a banned account is ever public, unless a guard had no row, or
\* another's, to lock: whatever the number of authors, items and moderators.
THEOREM BansHold == Spec => []BannedOwnersHidden
BY Invariance, PTL DEF IInv

---------------------------------------------------------------------------
(* Approved content was reviewed.                                          *)

\* A row that is approved, or would be when restored, is in a reviewed version.
Earned(r, done) ==
  r.moderation = "approved" \/ r.previous = "approved" => r.updated \in done

\* Rows and cards are earned; nobody reviews an approved card; the row a
\* request left is in the version of its card.
ReviewInv ==
  "undo" \notin lapses =>
    /\ \A i \in Items : rows[i] # NoRow => Earned(rows[i], reviewed)
    /\ \A m \in Moderators :
         /\ desk[m].step # "idle" => Earned(desk[m].card, reviewed)
         /\ /\ desk[m].step \in {"update", "offer"}
            /\ desk[m].kind \in {"approve", "restore"}
            => desk[m].card.moderation # "approved"
         /\ desk[m].left # NoRow => desk[m].left.updated = desk[m].card.updated

\* Removing an earned row leaves an earned row.
LEMMA RemovedEarned ==
  ASSUME NEW r \in Row, NEW done, Earned(r, done), Tidy(r),
         NEW reason \in Reasons, NEW previous \in Visible \cup {"none"},
         previous = "approved" => r.updated \in done
  PROVE  /\ Earned(Removed(r, reason, previous), done)
         /\ Removed(r, reason, previous).updated = r.updated
BY DEF Earned, Removed, Row, Tidy, States, Visible

\* Restoring an earned, removed row leaves an earned row.
LEMMA RestoredEarned ==
  ASSUME NEW r \in Row, NEW done, Earned(r, done), Tidy(r),
         r.moderation = "removed"
  PROVE  /\ Earned(Restored(r), done)
         /\ Restored(r).updated = r.updated
BY DEF Earned, Restored, Rescreened, Row, Tidy, States, Visible

\* A step of authors or administrators: pages stay, rows stay earned.
LEMMA ReviewByAuthors ==
  ASSUME ReviewInv, UNCHANGED <<desk, reviewed, lapses>>,
         "undo" \notin lapses =>
           \A i \in Items : rows'[i] # NoRow => Earned(rows'[i], reviewed)
  PROVE  ReviewInv'
BY DEF ReviewInv

\* A step of a moderator that changes a page only.
LEMMA ReviewPage ==
  ASSUME IInv, ReviewInv, NEW m \in Moderators, NEW d,
         desk' = [desk EXCEPT ![m] = d], UNCHANGED <<rows, reviewed, lapses>>,
         "undo" \notin lapses =>
           /\ d.step # "idle" => Earned(d.card, reviewed)
           /\ d.step \in {"update", "offer"} /\ d.kind \in {"approve", "restore"}
                => d.card.moderation # "approved"
           /\ d.left # NoRow => d.left.updated = d.card.updated
  PROVE  ReviewInv'
BY DEF ReviewInv, IInv, TypeOK

\* A page at rest asks for nothing.
LEMMA IdlePage == Idle.step = "idle" /\ Idle.left = NoRow
BY DEF Idle

\* Uploads, bans and unbans leave rows earned.
LEMMA ReviewAuthorStep ==
  ASSUME IInv, ReviewInv, NEW u \in Users, NEW i \in Items,
         Publish(u, i) \/ Edit(u, i) \/ Ban(u) \/ Unban(u)
  PROVE  ReviewInv'
<1>1. UNCHANGED <<desk, reviewed, lapses>>
  BY DEF Publish, Edit, Ban, Unban
<1>2. SUFFICES ASSUME "undo" \notin lapses, NEW j \in Items, rows'[j] # NoRow
      PROVE Earned(rows'[j], reviewed)
  BY <1>1, ReviewByAuthors
<1>3. /\ rows \in [Items -> Row \cup {NoRow}]
      /\ rows[j] # NoRow =>
           rows[j] \in Row /\ Tidy(rows[j]) /\ Earned(rows[j], reviewed)
  BY <1>2, TypeParts DEF IInv, ReviewInv
<1>4. CASE Publish(u, i)
  <2>1. PICK f \in BOOLEAN : rows' = [rows EXCEPT ![i] =
          [owner |-> u, created |-> uploads + 1, updated |-> uploads + 1,
           flagged |-> f, moderation |-> "pending", previous |-> "none",
           reason |-> Flag(f)]]
    BY <1>4 DEF Publish
  <2> QED
    BY <1>2, <1>3, <2>1 DEF Earned
<1>5. CASE Edit(u, i)
  <2>1. PICK f \in BOOLEAN :
          rows' = [rows EXCEPT ![i] = ReviewAgain(rows[i], uploads + 1, f)]
    BY <1>5, <1>3 DEF Edit
  <2>2. rows[i] \in Row /\ Tidy(rows[i])
    BY <1>5, TypeParts DEF Edit, Exists, IInv
  <2>3. Earned(ReviewAgain(rows[i], uploads + 1, f), reviewed)
    BY <2>2 DEF ReviewAgain, Earned, Row, Tidy
  <2> QED
    BY <1>2, <1>3, <2>1, <2>3
<1>6. CASE Ban(u)
  <2>1. rows'[j] = rows[j] \/ (rows[j] # NoRow
          /\ rows'[j] = Removed(rows[j], "owner_banned", "none"))
    BY <1>6 DEF Ban, TakenDown, Exists
  <2>2. "owner_banned" \in Reasons /\ "none" \in Visible \cup {"none"}
    BY DEF Reasons
  <2> QED
    BY <1>2, <1>3, <2>1, <2>2, RemovedEarned
<1>7. CASE Unban(u)
  <2>1. rows'[j] = rows[j] \/ (rows[j] # NoRow
          /\ rows[j].moderation = "removed" /\ rows'[j] = Restored(rows[j]))
    BY <1>7 DEF Unban, BroughtBack, Exists
  <2> QED
    BY <1>2, <1>3, <2>1, RestoredEarned
<1> QED
  BY <1>4, <1>5, <1>6, <1>7

\* Looking shows an earned row; the guards keep card and offer.
LEMMA ReviewLookStep ==
  ASSUME IInv, ReviewInv, NEW m \in Moderators, Look(m)
  PROVE  ReviewInv'
<1>1. PICK i \in Items :
        /\ rows[i] # NoRow
        /\ desk' = [desk EXCEPT ![m] =
             [Idle EXCEPT !.step = "seen", !.item = i, !.card = rows[i]]]
  BY DEF Look, Exists
<1> DEFINE d == [Idle EXCEPT !.step = "seen", !.item = i, !.card = rows[i]]
<1>2. d.step = "seen" /\ d.card = rows[i] /\ d.left = NoRow
  BY DEF Idle
<1>3. "undo" \notin lapses => Earned(d.card, reviewed)
  BY <1>1, <1>2 DEF ReviewInv
<1>4. UNCHANGED <<rows, reviewed, lapses>>
  BY DEF Look
<1> HIDE DEF d
<1> QED
  BY <1>1, <1>2, <1>3, <1>4, ReviewPage DEF d

LEMMA ReviewGuardStep ==
  ASSUME IInv, ReviewInv, NEW m \in Moderators,
         Approve(m) \/ Restore(m) \/ UndoRemove(m)
  PROVE  ReviewInv'
<1>1. PICK kind \in {"approve", "restore"}, step \in {"update", "undoing"} :
        /\ Guard(m, kind, step)
        /\ desk[m].step # "idle"
        /\ step = "update" => desk[m].card.moderation # "approved"
  BY DEF Approve, Restore, UndoRemove
<1> DEFINE i == desk[m].item
           held == IF Exists(i) THEN rows[i].owner ELSE NoUser
           d == [desk[m] EXCEPT !.step = step, !.kind = kind, !.lock = held]
<1>2. desk[m] \in Desk
  BY FoundDesk
<1>3. UNCHANGED <<rows, reviewed, lapses>>
  BY <1>1 DEF Guard
<1>4. CASE desk' = [desk EXCEPT ![m] = Idle]
  BY <1>3, <1>4, IdlePage, ReviewPage
<1>5. CASE desk' = [desk EXCEPT ![m] = d]
  <2>1. d.step = step /\ d.card = desk[m].card /\ d.left = desk[m].left
    BY <1>2 DEF Desk
  <2>2. "undo" \notin lapses =>
          /\ Earned(d.card, reviewed)
          /\ d.left # NoRow => d.left.updated = d.card.updated
    BY <1>1, <2>1 DEF ReviewInv
  <2> HIDE DEF d
  <2> QED
    BY <1>1, <1>3, <1>5, <2>1, <2>2, ReviewPage
<1> QED
  BY <1>1, <1>2, <1>4, <1>5 DEF Guard, IInv, TypeOK

\* A step of a moderator that changes one row to an earned one.
LEMMA ReviewRow ==
  ASSUME IInv, ReviewInv, NEW m \in Moderators, NEW d,
         desk' = [desk EXCEPT ![m] = d],
         NEW i \in Items, NEW r, rows' = [rows EXCEPT ![i] = r],
         reviewed \subseteq reviewed', lapses \subseteq lapses',
         "undo" \notin lapses' =>
           /\ Earned(r, reviewed')
           /\ d.step # "idle" => Earned(d.card, reviewed')
           /\ d.step \in {"update", "offer"} /\ d.kind \in {"approve", "restore"}
                => d.card.moderation # "approved"
           /\ d.left # NoRow => d.left.updated = d.card.updated
  PROVE  ReviewInv'
<1> SUFFICES ASSUME "undo" \notin lapses' PROVE ReviewInv'
  BY DEF ReviewInv
<1>1. \A j \in Items : rows'[j] # NoRow => Earned(rows'[j], reviewed')
  BY DEF ReviewInv, Earned, IInv, TypeOK
<1>2. \A n \in Moderators :
        /\ desk'[n].step # "idle" => Earned(desk'[n].card, reviewed')
        /\ /\ desk'[n].step \in {"update", "offer"}
           /\ desk'[n].kind \in {"approve", "restore"}
           => desk'[n].card.moderation # "approved"
        /\ desk'[n].left # NoRow =>
             desk'[n].left.updated = desk'[n].card.updated
  BY DEF ReviewInv, Earned, IInv, TypeOK
<1> QED
  BY <1>1, <1>2 DEF ReviewInv

\* What an offer shows.
LEMMA OfferPage ==
  ASSUME NEW d \in Desk, NEW found, NEW result,
         d.card = found => result.updated = d.card.updated
  PROVE  /\ Offer(d, found, result).step = "offer"
         /\ Offer(d, found, result).kind = d.kind
         /\ Offer(d, found, result).card = d.card
         /\ Offer(d, found, result).left # NoRow =>
              Offer(d, found, result).left.updated = d.card.updated
BY DEF Offer, Left, Desk

LEMMA ReviewTakeDownStep ==
  ASSUME IInv, ReviewInv, NEW m \in Moderators, TakeDown(m)
  PROVE  ReviewInv'
<1> DEFINE i == desk[m].item
           r == rows[i]
           result == Removed(r, "moderator", "none")
           o == Offer(desk[m], r, result)
           d == [o EXCEPT !.kind = "remove"]
<1>1. desk[m] \in Desk /\ i \in Items /\ desk[m].step # "idle"
  BY FoundDesk DEF TakeDown
<1>2. UNCHANGED <<reviewed, lapses>>
  BY DEF TakeDown
<1>3. CASE r = NoRow
  <2>1. desk' = [desk EXCEPT ![m] = Idle] /\ UNCHANGED rows
    BY <1>3 DEF TakeDown
  <2> QED
    BY <1>2, <2>1, IdlePage, ReviewPage
<1>4. CASE r # NoRow
  <2>1. rows' = [rows EXCEPT ![i] = result] /\ desk' = [desk EXCEPT ![m] = d]
    BY <1>4 DEF TakeDown
  <2>2. r \in Row /\ Tidy(r)
    BY <1>1, <1>4, FoundRow
  <2>3. "moderator" \in Reasons /\ "none" \in Visible \cup {"none"}
    BY DEF Reasons
  <2>4. result.updated = r.updated
    BY <2>2 DEF Removed, Row
  <2>5. "undo" \notin lapses => Earned(result, reviewed)
    BY <1>1, <1>4, <2>2, <2>3, RemovedEarned DEF ReviewInv
  <2>6. /\ d.step = "offer" /\ d.kind = "remove" /\ d.card = desk[m].card
        /\ d.left # NoRow => d.left.updated = d.card.updated
    <3>1. /\ o.step = "offer" /\ o.card = desk[m].card
          /\ o.left # NoRow => o.left.updated = desk[m].card.updated
      BY <1>1, <2>4, OfferPage
    <3>2. d.step = o.step /\ d.kind = "remove" /\ d.card = o.card /\ d.left = o.left
      BY <1>1 DEF Offer, Desk
    <3> QED
      BY <3>1, <3>2
  <2>7. "undo" \notin lapses => Earned(d.card, reviewed)
    BY <1>1, <2>6 DEF ReviewInv
  <2> HIDE DEF d, result, r
  <2> QED
    BY <1>1, <1>2, <2>1, <2>5, <2>6, <2>7, ReviewRow
<1> QED
  BY <1>3, <1>4

\* An approval reviews the version of its card; a restore gives back a state
\* that was earned.
LEMMA ReviewUpdateStep ==
  ASSUME IInv, ReviewInv, NEW m \in Moderators, Update(m)
  PROVE  ReviewInv'
<1> DEFINE i == desk[m].item
           r == rows[i]
           result == IF desk[m].kind = "approve" THEN Approved(r) ELSE Restored(r)
           d == IF desk[m].step = "undoing" THEN Idle
                ELSE Offer(desk[m], r, result)
<1>1. desk[m] \in Desk /\ i \in Items /\ desk[m].step \in {"update", "undoing"}
  BY FoundDesk DEF Update
<1>2. CASE ~Matches(desk[m], r)
  <2>1. desk' = [desk EXCEPT ![m] = Idle] /\ UNCHANGED <<rows, reviewed, lapses>>
    BY <1>2 DEF Update
  <2> QED
    BY <2>1, IdlePage, ReviewPage
<1>3. CASE Matches(desk[m], r)
  <2>1. /\ rows' = [rows EXCEPT ![i] = result]
        /\ desk' = [desk EXCEPT ![m] = d]
        /\ reviewed' = reviewed \cup
             {v \in {desk[m].card.updated} : desk[m].kind = "approve"}
        /\ lapses \subseteq lapses'
    BY <1>3 DEF Update
  <2>2. r # NoRow /\ r \in Row /\ Tidy(r)
    BY <1>1, <1>3, FoundRow DEF Matches
  <2>3. "undo" \notin lapses => Earned(r, reviewed)
    BY <1>1, <2>2 DEF ReviewInv
  <2>4. /\ "undo" \notin lapses => Earned(result, reviewed')
        /\ result.updated = r.updated
    <3>1. CASE desk[m].kind = "approve"
      <4>1. r.updated = desk[m].card.updated /\ r.updated \in reviewed'
        BY <1>3, <2>1, <3>1 DEF Matches
      <4> QED
        BY <2>2, <3>1, <4>1 DEF Approved, Earned, Row
    <3>2. CASE desk[m].kind # "approve"
      <4>1. r.moderation = "removed"
        BY <1>3, <3>2 DEF Matches
      <4>2. Restored(r).updated = r.updated
        BY <2>2 DEF Restored, Rescreened, Row
      <4>3. "undo" \notin lapses => Earned(Restored(r), reviewed)
        BY <2>2, <2>3, <4>1, RestoredEarned
      <4> QED
        BY <2>1, <3>2, <4>2, <4>3 DEF Earned
    <3> QED
      BY <3>1, <3>2
  <2>5. /\ d.step # "idle" =>
             d.step = "offer" /\ d.card = desk[m].card /\ d.kind = desk[m].kind
        /\ d.left # NoRow => d.left.updated = d.card.updated
    BY <1>1, <2>4, OfferPage, IdlePage
  <2>6. "undo" \notin lapses =>
          /\ d.step # "idle" => Earned(d.card, reviewed')
          /\ d.step \in {"update", "offer"} /\ d.kind \in {"approve", "restore"}
               => d.card.moderation # "approved"
    <3>1. d.step # "idle" => desk[m].step = "update"
      BY <1>1, IdlePage
    <3>2. "undo" \notin lapses => Earned(desk[m].card, reviewed')
      BY <1>1, <2>1 DEF ReviewInv, Earned
    <3> QED
      BY <1>1, <2>5, <3>1, <3>2, IdlePage DEF ReviewInv
  <2>7. reviewed \subseteq reviewed' /\ ("undo" \notin lapses' => "undo" \notin lapses)
    BY <2>1
  <2> HIDE DEF d, result, r
  <2> QED
    BY <1>1, <2>1, <2>4, <2>5, <2>6, <2>7, ReviewRow
<1> QED
  BY <1>2, <1>3

\* Undoing a review of a row that is as it was left puts back what the card
\* had earned.
LEMMA ReviewUndoStep ==
  ASSUME IInv, ReviewInv, NEW m \in Moderators, UndoReview(m)
  PROVE  ReviewInv'
<1> DEFINE i == desk[m].item
           r == rows[i]
           card == desk[m].card
           result == PutBack(r, card)
<1>1. /\ desk[m] \in Desk /\ i \in Items /\ card \in Row
      /\ desk[m].step = "offer" /\ desk[m].kind \in {"approve", "restore"}
  BY FoundDesk DEF UndoReview
<1>2. desk' = [desk EXCEPT ![m] = Idle] /\ reviewed' = reviewed
  BY DEF UndoReview
<1>3. CASE r = NoRow
  <2>1. UNCHANGED <<rows, lapses>>
    BY <1>3 DEF UndoReview
  <2> QED
    BY <1>2, <2>1, IdlePage, ReviewPage
<1>4. CASE r # NoRow
  <2>1. /\ rows' = [rows EXCEPT ![i] = result]
        /\ lapses' = lapses \cup {l \in {"undo"} : r # desk[m].left}
    BY <1>4 DEF UndoReview
  <2>2. r \in Row /\ Tidy(r)
    BY <1>1, <1>4, FoundRow
  <2>3. ASSUME "undo" \notin lapses' PROVE Earned(result, reviewed)
    <3>1. "undo" \notin lapses /\ r = desk[m].left
      BY <2>1, <2>3
    <3>2. /\ Earned(r, reviewed) /\ Earned(card, reviewed)
          /\ card.moderation # "approved" /\ r.updated = card.updated
      BY <1>1, <1>4, <3>1 DEF ReviewInv
    <3>3. CASE card.moderation = "removed"
      <4>1. card.reason \in Reasons /\ card.previous \in Visible \cup {"none"}
        BY <1>1 DEF Row
      <4>2. card.previous = "approved" => r.updated \in reviewed
        BY <3>2 DEF Earned
      <4> QED
        BY <2>2, <3>2, <3>3, <4>1, <4>2, RemovedEarned DEF PutBack
    <3>4. CASE card.moderation = "pending"
      BY <2>2, <3>2, <3>4 DEF PutBack, Earned, Row
    <3> QED
      BY <1>1, <3>2, <3>3, <3>4 DEF Row, States
  <2> HIDE DEF result, r
  <2> QED
    BY <1>1, <1>2, <2>1, <2>3, IdlePage, ReviewRow
<1> QED
  BY <1>3, <1>4

\* Every step keeps the reviewed versions' invariant.
LEMMA NextReviewInv == IInv /\ ReviewInv /\ [Next]_vars => ReviewInv'
<1> SUFFICES ASSUME IInv, ReviewInv, [Next]_vars PROVE ReviewInv'
  OBVIOUS
<1>1. ASSUME NEW u \in Users, NEW i \in Items, Publish(u, i) \/ Edit(u, i)
      PROVE  ReviewInv'
  BY <1>1, ReviewAuthorStep
<1>2. ASSUME NEW i \in Items, DeleteItem(i) PROVE ReviewInv'
  BY <1>2, ReviewByAuthors DEF DeleteItem, ReviewInv, IInv, TypeOK
<1>3. ASSUME NEW u \in Users, Ban(u) \/ Unban(u) PROVE ReviewInv'
  <2>1. PICK i \in Items : TRUE
    BY ModerationAssumption
  <2> QED
    BY <1>3, <2>1, ReviewAuthorStep
<1>4. ASSUME NEW m \in Moderators, Look(m) PROVE ReviewInv'
  BY <1>4, ReviewLookStep
<1>5. ASSUME NEW m \in Moderators, Approve(m) \/ Restore(m) \/ UndoRemove(m)
      PROVE  ReviewInv'
  BY <1>5, ReviewGuardStep
<1>6. ASSUME NEW m \in Moderators, TakeDown(m) PROVE ReviewInv'
  BY <1>6, ReviewTakeDownStep
<1>7. ASSUME NEW m \in Moderators, Update(m) PROVE ReviewInv'
  BY <1>7, ReviewUpdateStep
<1>8. ASSUME NEW m \in Moderators, Fail(m) PROVE ReviewInv'
  BY <1>8, IdlePage, ReviewPage DEF Fail
<1>9. ASSUME NEW m \in Moderators, UndoReview(m) PROVE ReviewInv'
  BY <1>9, ReviewUndoStep
<1>10. CASE UNCHANGED vars
  BY <1>10 DEF vars, ReviewInv
<1> QED
  BY <1>1, <1>2, <1>3, <1>4, <1>5, <1>6, <1>7, <1>8, <1>9, <1>10 DEF Next

\* Approved content is in a version that a moderator approved with it on
\* screen, as long as no moderator undoes something that has changed
\* meanwhile: for every number of authors, items, moderators and uploads.
THEOREM ReviewHolds == Spec => []ApprovedWasReviewed
<1>1. Init => ReviewInv
  BY DEF Init, ReviewInv, Idle
<1>2. ReviewInv => ApprovedWasReviewed
  BY DEF ReviewInv, ApprovedWasReviewed, Earned, Exists
<1> QED
  BY <1>1, <1>2, NextReviewInv, Invariance, PTL DEF Spec

---------------------------------------------------------------------------
(* What a ban took and what an undo puts back.                             *)

\* A ban's mark on an item: the state the ban took it from is its restore
\* state for as long as its author is banned.
Marked(i) ==
  /\ rows[i].moderation = "removed" /\ rows[i].reason = "owner_banned"
  /\ rows[i].owner \in banned
  /\ rows[i].previous = before[i]

\* Versions are handed out once; an item awaits review with the reason of its
\* flag; what a ban took down, and nothing else, carries the ban's mark.
RowInv(i) ==
  /\ rows[i] # NoRow => rows[i].created <= uploads
  /\ rows[i] = NoRow => before[i] = "none"
  /\ "undo" \notin lapses /\ rows[i] # NoRow =>
       /\ rows[i].moderation = "pending" => rows[i].reason = Flag(rows[i].flagged)
       /\ before[i] # "none" => Marked(i)
       /\ rows[i].moderation = "removed" /\ rows[i].reason = "owner_banned" =>
            before[i] # "none"

\* What an offer to undo, or the undo under way, says of the card.
OfferFits(d) ==
  \/ /\ d.step = "offer" /\ d.kind = "approve" /\ d.left = Approved(d.card)
     /\ d.card.moderation # "approved"
  \/ /\ d.step = "offer" /\ d.kind = "restore" /\ d.left = Restored(d.card)
     /\ d.card.moderation = "removed"
  \/ /\ \/ d.step = "offer" /\ d.kind = "remove"
        \/ d.step = "undoing" /\ d.kind = "restore"
     /\ d.left = Removed(d.card, "moderator", "none")
     /\ d.card.moderation # "removed"

\* A page shows a row that was on record.  While the row of the card has not
\* been published anew, the account a guard locked is its author.  A card that
\* carries a ban's mark is never one to put back.
PageInv(m) ==
  /\ desk[m].card # NoRow =>
       /\ Tidy(desk[m].card) /\ desk[m].card.created <= uploads
       /\ "undo" \notin lapses /\ desk[m].card.moderation = "pending" =>
            desk[m].card.reason = Flag(desk[m].card.flagged)
  /\ desk[m].step = "update" =>
       \/ desk[m].kind = "approve" /\ desk[m].card.moderation # "approved"
       \/ desk[m].kind = "restore" /\ desk[m].card.moderation = "removed"
  /\ desk[m].step = "undoing" => desk[m].kind = "restore"
  /\ /\ desk[m].step \in {"update", "undoing"} /\ rows[desk[m].item] # NoRow
     /\ rows[desk[m].item].created = desk[m].card.created
     => desk[m].lock = rows[desk[m].item].owner
  /\ desk[m].left # NoRow => desk[m].card # NoRow /\ OfferFits(desk[m])
  /\ /\ "undo" \notin lapses /\ desk[m].step = "offer" /\ desk[m].left # NoRow
     /\ desk[m].kind \in {"approve", "restore"} /\ desk[m].card.moderation = "removed"
     => desk[m].card.reason # "owner_banned"

KeepInv == (\A i \in Items : RowInv(i)) /\ (\A m \in Moderators : PageInv(m))

\* The item is still the one a card of now may show, or was published after it.
Same(i) ==
  rows'[i] # NoRow =>
    \/ /\ rows[i] # NoRow /\ rows'[i].created = rows[i].created
       /\ rows'[i].owner = rows[i].owner
    \/ rows'[i].created > uploads

LEMMA RowFrame ==
  ASSUME IInv, NEW i \in Items, RowInv(i),
         rows'[i] = rows[i], before'[i] = before[i],
         uploads' \in Nat, uploads <= uploads', lapses \subseteq lapses',
         rows[i] # NoRow /\ rows[i].owner \in banned => rows[i].owner \in banned'
  PROVE  RowInv(i)'
<1>1. uploads \in Nat /\ (rows[i] # NoRow => rows[i].created \in Nat)
  BY ModerationAssumption, FoundRow DEF IInv, TypeOK, Row
<1> QED
  BY <1>1 DEF RowInv, Marked

\* A row with no trace of a ban.
LEMMA RowClean ==
  ASSUME NEW i \in Items, NEW r \in Row, rows'[i] = r, before'[i] = "none",
         r.created <= uploads',
         "undo" \notin lapses' =>
           /\ r.moderation = "pending" => r.reason = Flag(r.flagged)
           /\ ~(r.moderation = "removed" /\ r.reason = "owner_banned")
  PROVE  RowInv(i)'
BY ModerationAssumption DEF RowInv, Marked, Row

LEMMA PageFrame ==
  ASSUME IInv, NEW m \in Moderators, PageInv(m), desk'[m] = desk[m],
         uploads' \in Nat, uploads <= uploads', lapses \subseteq lapses',
         Same(desk[m].item)
  PROVE  PageInv(m)'
<1>1. /\ uploads \in Nat /\ desk[m].item \in Items
      /\ desk[m].step # "idle" => desk[m].card \in Row /\ desk[m].card # NoRow
      /\ desk[m].card # NoRow => desk[m].card \in Row
      /\ \A r \in Row : r.created \in Nat
  BY ModerationAssumption, FoundDesk DEF IInv, TypeOK, DeskInv, Desk, Row
<1>2. ASSUME desk'[m].step \in {"update", "undoing"}, rows'[desk'[m].item] # NoRow,
             rows'[desk'[m].item].created = desk'[m].card.created
      PROVE  desk'[m].lock = rows'[desk'[m].item].owner
  <2>1. desk[m].card.created <= uploads /\ desk[m].card.created \in Nat
    BY <1>1, <1>2 DEF PageInv
  <2>2. ~(rows'[desk[m].item].created > uploads)
    BY <1>1, <1>2, <2>1
  <2> QED
    BY <1>2, <2>2 DEF PageInv, Same
<1>3. /\ desk[m].card # NoRow => desk[m].card.created <= uploads'
      /\ "undo" \notin lapses' => "undo" \notin lapses
  BY <1>1 DEF PageInv
<1> QED
  BY <1>2, <1>3 DEF PageInv

LEMMA PageIdle ==
  ASSUME NEW m \in Moderators, desk'[m] = Idle
  PROVE  PageInv(m)'
BY DEF PageInv, Idle

\* The steps that leave the pages alone.
LEMMA KeepByAuthors ==
  ASSUME IInv, KeepInv, uploads' \in Nat, uploads <= uploads', UNCHANGED <<desk, lapses>>,
         \A i \in Items : RowInv(i)' /\ Same(i)
  PROVE  KeepInv'
<1>1. ASSUME NEW m \in Moderators PROVE PageInv(m)'
  BY PageFrame, FoundDesk DEF KeepInv
<1> QED
  BY <1>1 DEF KeepInv

\* The counts of uploads are numbers.
LEMMA Numbers ==
  ASSUME IInv
  PROVE  uploads \in Nat /\ \A r \in Row : r.created \in Nat
BY ModerationAssumption DEF IInv, TypeOK, Row

LEMMA KeepPublish ==
  ASSUME IInv, KeepInv, NEW u \in Users, NEW i \in Items, Publish(u, i)
  PROVE  KeepInv'
<1>n. uploads \in Nat /\ MaxVersions \in Nat /\ uploads + 1 \in 1..MaxVersions
  BY ModerationAssumption, Numbers DEF Publish
<1>1. /\ rows[i] = NoRow /\ uploads' = uploads + 1
      /\ UNCHANGED <<banned, desk, before, lapses>>
  BY DEF Publish, Exists
<1>2. PICK f \in BOOLEAN : rows' = [rows EXCEPT ![i] =
         [owner |-> u, created |-> uploads + 1, updated |-> uploads + 1,
          flagged |-> f, moderation |-> "pending",
          previous |-> "none", reason |-> Flag(f)]]
  BY DEF Publish
<1> DEFINE r == [owner |-> u, created |-> uploads + 1, updated |-> uploads + 1,
                 flagged |-> f, moderation |-> "pending",
                 previous |-> "none", reason |-> Flag(f)]
<1>3. /\ r \in Row /\ r.created = uploads + 1 /\ r.moderation = "pending"
      /\ r.reason = Flag(r.flagged)
  BY <1>n DEF Row, States, Reasons, Flag
<1>4. rows' = [rows EXCEPT ![i] = r]
  BY <1>2
<1> HIDE DEF r
<1>5. rows'[i] = r /\ \A j \in Items \ {i} : rows'[j] = rows[j]
  BY <1>4 DEF IInv, TypeOK
<1>6. before'[i] = "none"
  BY <1>1 DEF KeepInv, RowInv
<1>7. RowInv(i)'
  BY <1>1, <1>3, <1>5, <1>6, <1>n, RowClean
<1>8. \A j \in Items \ {i} : RowInv(j)'
  BY <1>1, <1>5, <1>n, RowFrame DEF KeepInv
<1>9. \A j \in Items : Same(j)
  BY <1>3, <1>5, <1>n DEF Same
<1> QED
  BY <1>1, <1>n, <1>7, <1>8, <1>9, KeepByAuthors

\* An author who is not banned edits nothing that carries a ban's mark.
LEMMA KeepEdit ==
  ASSUME IInv, KeepInv, NEW u \in Users, NEW i \in Items, Edit(u, i)
  PROVE  KeepInv'
<1>n. uploads \in Nat /\ MaxVersions \in Nat /\ uploads + 1 \in 1..MaxVersions
  BY ModerationAssumption, Numbers DEF Edit
<1>1. /\ rows[i] # NoRow /\ rows[i].owner = u /\ u \notin banned
      /\ uploads' = uploads + 1 /\ UNCHANGED <<banned, desk, before, lapses>>
  BY DEF Edit, Exists, MayWrite
<1>2. PICK f \in BOOLEAN :
        rows' = [rows EXCEPT ![i] = ReviewAgain(rows[i], uploads + 1, f)]
  BY DEF Edit
<1>3. rows[i] \in Row /\ Tidy(rows[i])
  BY <1>1, FoundRow
<1> DEFINE r == ReviewAgain(rows[i], uploads + 1, f)
<1>4. /\ r \in Row /\ r.created = rows[i].created /\ r.owner = u
      /\ r.moderation = "pending" => r.reason = Flag(r.flagged)
      /\ r.moderation = "removed" => rows[i].moderation = "removed" /\ r.reason = rows[i].reason
  <2>1. r \in Row
    BY <1>3, <1>n, EditedRow
  <2>2. r.created = rows[i].created /\ r.owner = u
    BY <1>1, <1>3 DEF ReviewAgain, Row
  <2>3. /\ r.moderation = "pending" => r.reason = Flag(r.flagged)
        /\ r.moderation = "removed" =>
             rows[i].moderation = "removed" /\ r.reason = rows[i].reason
    <3>1. CASE rows[i].moderation = "removed"
      BY <1>3, <3>1 DEF ReviewAgain, Row
    <3>2. CASE rows[i].moderation # "removed"
      BY <1>3, <3>2 DEF ReviewAgain, Row, Flag
    <3> QED
      BY <3>1, <3>2
  <2> QED
    BY <2>1, <2>2, <2>3
<1>5. rows'[i] = r /\ \A j \in Items \ {i} : rows'[j] = rows[j]
  BY <1>2 DEF IInv, TypeOK
<1> HIDE DEF r
<1>6. RowInv(i)'
  <2>1. "undo" \notin lapses => before[i] = "none"
    BY <1>1 DEF KeepInv, RowInv, Marked
  <2>2. r.created <= uploads'
    BY <1>1, <1>3, <1>4, <1>n, Numbers DEF KeepInv, RowInv
  <2>3. "undo" \notin lapses =>
          ~(rows[i].moderation = "removed" /\ rows[i].reason = "owner_banned")
    BY <1>1, <2>1 DEF KeepInv, RowInv
  <2>4. rows'[i] # NoRow /\ (rows[i] = NoRow => before[i] = "none")
    BY <1>4, <1>5, NoRowAssumption DEF KeepInv, RowInv
  <2> QED
    BY <1>1, <1>4, <1>5, <2>1, <2>2, <2>3, <2>4 DEF RowInv
<1>7. \A j \in Items \ {i} : RowInv(j)'
  BY <1>1, <1>5, <1>n, RowFrame DEF KeepInv
<1>8. \A j \in Items : Same(j)
  BY <1>1, <1>4, <1>5 DEF Same
<1> QED
  BY <1>1, <1>n, <1>6, <1>7, <1>8, KeepByAuthors

LEMMA KeepDelete ==
  ASSUME IInv, KeepInv, NEW i \in Items, DeleteItem(i)
  PROVE  KeepInv'
<1>1. /\ UNCHANGED <<banned, uploads, desk, lapses>> /\ uploads \in Nat
      /\ rows'[i] = NoRow /\ before'[i] = "none"
      /\ \A j \in Items \ {i} : rows'[j] = rows[j] /\ before'[j] = before[j]
  BY Numbers DEF DeleteItem, IInv, TypeOK
<1>2. RowInv(i)'
  BY <1>1 DEF RowInv
<1>3. \A j \in Items \ {i} : RowInv(j)'
  BY <1>1, RowFrame DEF KeepInv
<1>4. \A j \in Items : Same(j)
  BY <1>1 DEF Same
<1> QED
  BY <1>1, <1>2, <1>3, <1>4, KeepByAuthors

\* The ban marks what it takes down, with the state it takes it from.
LEMMA KeepBan ==
  ASSUME IInv, KeepInv, NEW u \in Users, Ban(u)
  PROVE  KeepInv'
<1>1. /\ banned' = banned \cup {u} /\ rows' = TakenDown(u)
      /\ UNCHANGED <<uploads, desk, lapses>> /\ uploads \in Nat
  BY Numbers DEF Ban
<1>2. ASSUME NEW i \in Items PROVE RowInv(i)' /\ Same(i)
  <2>1. CASE rows[i] # NoRow /\ rows[i].owner = u /\ rows[i].moderation # "removed"
    <3>1. /\ rows'[i] = Removed(rows[i], "owner_banned", "none")
          /\ before'[i] = rows[i].moderation
      BY <1>1, <2>1 DEF Ban, TakenDown, Exists
    <3>2. rows[i] \in Row /\ rows[i].moderation # "none"
      BY <2>1, FoundRow DEF Row, States
    <3>3. /\ rows'[i].owner = u /\ rows'[i].created = rows[i].created
          /\ rows'[i].moderation = "removed" /\ rows'[i].reason = "owner_banned"
          /\ rows'[i].previous = rows[i].moderation
      BY <2>1, <3>1, <3>2 DEF Removed, Row
    <3>5. rows'[i] # NoRow
      BY <2>1, <3>1, <3>2, NoRowAssumption, FoundRow, RemovedRow DEF Reasons
    <3>4. rows[i].created <= uploads
      BY <2>1 DEF KeepInv, RowInv
    <3> QED
      BY <1>1, <2>1, <3>1, <3>2, <3>3, <3>4, <3>5 DEF RowInv, Marked, Same
  <2>2. CASE ~(rows[i] # NoRow /\ rows[i].owner = u /\ rows[i].moderation # "removed")
    <3>1. rows'[i] = rows[i] /\ before'[i] = before[i]
      BY <1>1, <2>2 DEF Ban, TakenDown, Exists
    <3> QED
      BY <1>1, <3>1, RowFrame DEF KeepInv, Same
  <2> QED
    BY <2>1, <2>2
<1> QED
  BY <1>1, <1>2, KeepByAuthors

\* Lifting the ban clears every mark of it.
LEMMA KeepUnban ==
  ASSUME IInv, KeepInv, NEW u \in Users, Unban(u)
  PROVE  KeepInv'
<1>1. /\ banned' = banned \ {u} /\ rows' = BroughtBack(u)
      /\ UNCHANGED <<uploads, desk, lapses>> /\ uploads \in Nat
  BY Numbers DEF Unban
<1>2. ASSUME NEW i \in Items PROVE RowInv(i)' /\ Same(i)
  <2>0. RowInv(i)
    BY DEF KeepInv
  <2>1. CASE /\ rows[i] # NoRow /\ rows[i].owner = u
             /\ rows[i].moderation = "removed" /\ rows[i].reason = "owner_banned"
    <3>1. rows'[i] = Restored(rows[i]) /\ before'[i] = "none"
      BY <1>1, <2>1 DEF Unban, BroughtBack, Exists
    <3>2. rows[i] \in Row /\ Tidy(rows[i]) /\ rows[i].created <= uploads
      BY <2>0, <2>1, FoundRow DEF RowInv
    <3>3. /\ Restored(rows[i]) \in Row /\ Restored(rows[i]).created = rows[i].created
          /\ Restored(rows[i]).owner = rows[i].owner
      <4>1. "none" \in Reasons
        BY DEF Reasons
      <4> QED
        BY <3>2, <4>1, RestoredRow DEF Restored, Rescreened, Row
    <3>4. /\ Restored(rows[i]).moderation = "pending" =>
               Restored(rows[i]).reason = Flag(Restored(rows[i]).flagged)
          /\ Restored(rows[i]).moderation # "removed"
      BY <3>2 DEF Restored, Rescreened, Row, Flag, Visible
    <3> QED
      BY <1>1, <2>1, <3>1, <3>2, <3>3, <3>4, RowClean DEF Same
  <2>2. CASE /\ rows[i] # NoRow /\ rows[i].owner = u
             /\ ~(rows[i].moderation = "removed" /\ rows[i].reason = "owner_banned")
    <3>1. rows'[i] = rows[i] /\ before'[i] = "none"
      BY <1>1, <2>2 DEF Unban, BroughtBack, Exists
    <3> QED
      BY <1>1, <2>0, <2>2, <3>1 DEF RowInv, Same
  <2>3. CASE ~(rows[i] # NoRow /\ rows[i].owner = u)
    <3>1. rows'[i] = rows[i] /\ before'[i] = before[i]
      BY <1>1, <2>3 DEF Unban, BroughtBack, Exists
    <3> QED
      BY <1>1, <2>0, <2>3, <3>1, RowFrame DEF Same
  <2> QED
    BY <2>1, <2>2, <2>3
<1> QED
  BY <1>1, <1>2, KeepByAuthors

---------------------------------------------------------------------------
(* The moderators' steps.                                                  *)

\* A step of one moderator that leaves the rows alone.
LEMMA KeepByPage ==
  ASSUME IInv, KeepInv, NEW m \in Moderators,
         \A n \in Moderators \ {m} : desk'[n] = desk[n],
         PageInv(m)', UNCHANGED <<rows, banned, uploads, before, lapses>>
  PROVE  KeepInv'
<1>1. uploads' \in Nat /\ uploads <= uploads'
  BY Numbers
<1>2. \A i \in Items : RowInv(i)' /\ Same(i)
  BY <1>1, RowFrame DEF KeepInv, Same
<1>3. ASSUME NEW n \in Moderators, n # m PROVE PageInv(n)'
  BY <1>1, <1>2, <1>3, FoundDesk, PageFrame DEF KeepInv
<1> QED
  BY <1>2, <1>3 DEF KeepInv

LEMMA KeepLook ==
  ASSUME IInv, KeepInv, NEW m \in Moderators, Look(m)
  PROVE  KeepInv'
<1>1. /\ \A n \in Moderators \ {m} : desk'[n] = desk[n]
      /\ UNCHANGED <<rows, banned, uploads, before, lapses>>
  BY DEF Look, IInv, TypeOK
<1>2. PICK i \in Items : /\ rows[i] # NoRow
                         /\ desk'[m] = [Idle EXCEPT !.step = "seen", !.item = i,
                                                    !.card = rows[i]]
  BY DEF Look, IInv, TypeOK, Exists
<1>3. RowInv(i) /\ Tidy(rows[i])
  BY <1>2, FoundRow DEF KeepInv
<1>4. PageInv(m)'
  BY <1>1, <1>2, <1>3 DEF PageInv, RowInv, Idle
<1> QED
  BY <1>1, <1>4, KeepByPage

\* The guard locks the author of the row it finds.
LEMMA KeepGuard ==
  ASSUME IInv, KeepInv, NEW m \in Moderators, Approve(m) \/ Restore(m) \/ UndoRemove(m)
  PROVE  KeepInv'
<1>1. /\ \A n \in Moderators \ {m} : desk'[n] = desk[n]
      /\ UNCHANGED <<rows, banned, uploads, before, lapses>>
  BY DEF Approve, Restore, UndoRemove, Guard, IInv, TypeOK
<1>2. PICK kind \in {"approve", "restore"}, step \in {"update", "undoing"} :
        /\ desk'[m] = IF Exists(desk[m].item) /\ rows[desk[m].item].owner \in banned
                      THEN Idle
                      ELSE [desk[m] EXCEPT !.step = step, !.kind = kind,
                              !.lock = IF Exists(desk[m].item)
                                       THEN rows[desk[m].item].owner ELSE NoUser]
        /\ step = "update" =>
             /\ desk[m].step = "seen"
             /\ \/ kind = "approve" /\ desk[m].card.moderation # "approved"
                \/ kind = "restore" /\ desk[m].card.moderation = "removed"
        /\ step = "undoing" =>
             desk[m].step = "offer" /\ desk[m].kind = "remove" /\ kind = "restore"
  BY DEF Approve, Restore, UndoRemove, Guard, IInv, TypeOK
<1>3. CASE desk'[m] = Idle
  BY <1>1, <1>3, PageIdle, KeepByPage
<1>4. CASE desk'[m] # Idle
  <2> DEFINE lock == IF Exists(desk[m].item) THEN rows[desk[m].item].owner ELSE NoUser
  <2>1. desk'[m] = [desk[m] EXCEPT !.step = step, !.kind = kind, !.lock = lock]
    BY <1>2, <1>4
  <2>2. desk[m] \in Desk /\ PageInv(m)
    BY FoundDesk DEF KeepInv
  <2>3. rows[desk[m].item] # NoRow => lock = rows[desk[m].item].owner
    BY DEF Exists
  <2> HIDE DEF lock
  <2>4. /\ desk'[m].step = step /\ desk'[m].kind = kind /\ desk'[m].lock = lock
        /\ desk'[m].item = desk[m].item /\ desk'[m].card = desk[m].card
        /\ desk'[m].left = desk[m].left
    BY <2>1, <2>2 DEF Desk
  <2>5. desk'[m].left # NoRow => OfferFits(desk'[m])
    BY <1>2, <2>2, <2>4 DEF PageInv, OfferFits
  <2>6. PageInv(m)'
    BY <1>1, <1>2, <2>2, <2>3, <2>4, <2>5 DEF PageInv
  <2> QED
    BY <1>1, <2>6, KeepByPage
<1> QED
  BY <1>3, <1>4

\* A step of a moderator that writes a row with no trace of a ban.
LEMMA KeepByRow ==
  ASSUME IInv, KeepInv, NEW m \in Moderators,
         \A n \in Moderators \ {m} : desk'[n] = desk[n], PageInv(m)',
         NEW i \in Items, NEW r \in Row, rows[i] # NoRow,
         rows'[i] = r, r.created = rows[i].created, r.owner = rows[i].owner,
         \A j \in Items \ {i} : rows'[j] = rows[j] /\ before'[j] = before[j],
         RowInv(i)', lapses \subseteq lapses', UNCHANGED <<banned, uploads>>
  PROVE  KeepInv'
<1>1. uploads' \in Nat /\ uploads <= uploads'
  BY Numbers
<1>2. \A j \in Items \ {i} : RowInv(j)'
  BY <1>1, RowFrame DEF KeepInv
<1>3. \A j \in Items : Same(j)
  BY DEF Same
<1>4. ASSUME NEW n \in Moderators, n # m PROVE PageInv(n)'
  BY <1>1, <1>3, <1>4, FoundDesk, PageFrame DEF KeepInv
<1> QED
  BY <1>2, <1>4 DEF KeepInv

\* Taking an item down overwrites whatever mark it had.
LEMMA KeepTakeDown ==
  ASSUME IInv, KeepInv, NEW m \in Moderators, TakeDown(m)
  PROVE  KeepInv'
<1>0. PICK i \in Items : desk[m].item = i
  BY FoundDesk
<1> DEFINE r == rows[i]
           result == Removed(r, "moderator", "none")
<1>1. /\ desk[m] \in Desk /\ i \in Items /\ desk[m].card \in Row /\ desk[m].card # NoRow
      /\ PageInv(m) /\ RowInv(i) /\ desk[m].card.moderation # "removed"
  BY FoundDesk DEF IInv, DeskInv, KeepInv, TakeDown
<1>2. UNCHANGED <<banned, uploads, lapses>>
      /\ \A n \in Moderators \ {m} : desk'[n] = desk[n]
  BY DEF TakeDown, IInv, TypeOK
<1>3. CASE r = NoRow
  <2>1. desk'[m] = Idle /\ UNCHANGED <<rows, before>>
    BY <1>0, <1>3 DEF TakeDown, IInv, TypeOK
  <2> QED
    BY <1>2, <2>1, PageIdle, KeepByPage
<1>4. CASE r # NoRow
  <2>1. /\ rows'[i] = result /\ \A j \in Items \ {i} : rows'[j] = rows[j]
        /\ before'[i] = "none" /\ \A j \in Items \ {i} : before'[j] = before[j]
        /\ desk'[m] = [Offer(desk[m], r, result) EXCEPT !.kind = "remove"]
    BY <1>0, <1>1, <1>4 DEF TakeDown, IInv, TypeOK
  <2>2. r \in Row /\ Tidy(r) /\ r.created <= uploads
    BY <1>1, <1>4, FoundRow DEF RowInv
  <2>3. result \in Row /\ result.moderation = "removed" /\ result.reason = "moderator"
        /\ result.created = r.created /\ result.owner = r.owner
    BY <2>2 DEF Removed, Row, States, Visible, Reasons, Tidy
  <2>4. RowInv(i)'
    <3> HIDE DEF result
    <3> QED
      BY <1>2, <2>1, <2>2, <2>3, RowClean
  <2>5. /\ desk'[m].step = "offer" /\ desk'[m].kind = "remove"
        /\ desk'[m].card = desk[m].card /\ desk'[m].item = i
        /\ desk'[m].left # NoRow => desk'[m].left = Removed(desk[m].card, "moderator", "none")
    BY <1>0, <1>1, <2>1 DEF Offer, Left, Desk
  <2>6. PageInv(m)'
    <3>1. desk'[m].left # NoRow => OfferFits(desk'[m])
      BY <1>1, <2>5 DEF OfferFits
    <3> QED
      BY <1>1, <1>2, <2>5, <3>1 DEF PageInv
  <2> HIDE DEF result, r
  <2> QED
    BY <1>1, <1>2, <1>4, <2>1, <2>3, <2>4, <2>6, KeepByRow DEF r
<1> QED
  BY <1>3, <1>4

\* An approval or a restore clears the mark.  A card that is the row it found shows no
\* mark of a ban: its author is locked and not banned.
LEMMA KeepUpdate ==
  ASSUME IInv, KeepInv, NEW m \in Moderators, Update(m)
  PROVE  KeepInv'
<1>0. PICK i \in Items : desk[m].item = i
  BY FoundDesk
<1> DEFINE card == desk[m].card
           r == rows[i]
           result == IF desk[m].kind = "approve" THEN Approved(r) ELSE Restored(r)
<1>1. /\ desk[m] \in Desk /\ i \in Items /\ card \in Row /\ card # NoRow
      /\ PageInv(m) /\ RowInv(i) /\ desk[m].step \in {"update", "undoing"}
  BY FoundDesk DEF IInv, DeskInv, KeepInv, Update
<1>2. UNCHANGED <<banned, uploads>> /\ \A n \in Moderators \ {m} : desk'[n] = desk[n]
  BY DEF Update, IInv, TypeOK
<1>3. CASE ~Matches(desk[m], r)
  <2>1. desk'[m] = Idle /\ UNCHANGED <<rows, before, lapses>>
    BY <1>0, <1>3 DEF Update, IInv, TypeOK
  <2> QED
    BY <1>2, <2>1, PageIdle, KeepByPage
<1>4. CASE Matches(desk[m], r)
  <2>1. /\ rows'[i] = result /\ \A j \in Items \ {i} : rows'[j] = rows[j]
        /\ before'[i] = "none" /\ \A j \in Items \ {i} : before'[j] = before[j]
        /\ desk'[m] = IF desk[m].step = "undoing" THEN Idle
                      ELSE Offer(desk[m], r, result)
        /\ lapses \subseteq lapses'
    BY <1>0, <1>1, <1>4 DEF Update, IInv, TypeOK
  <2>2. r \in Row /\ Tidy(r) /\ r # NoRow /\ r.created <= uploads
    BY <1>1, <1>4, FoundRow DEF RowInv, Matches
  <2>3. /\ result \in Row /\ result.created = r.created /\ result.owner = r.owner
        /\ result.moderation # "removed"
        /\ result.moderation = "pending" => result.reason = Flag(result.flagged)
    <3>1. CASE desk[m].kind = "approve"
      BY <2>2, <3>1 DEF Approved, Row, States, Visible, Reasons
    <3>2. CASE desk[m].kind # "approve"
      <4>1. Restored(r) \in Row
        BY <2>2, RestoredRow
      <4> QED
        BY <2>2, <3>2, <4>1 DEF Restored, Rescreened, Flag, Row, Visible
    <3> QED
      BY <3>1, <3>2
  <2>4. RowInv(i)'
    <3> HIDE DEF result
    <3> QED
      BY <1>2, <2>1, <2>2, <2>3, RowClean
  <2>5. CASE desk[m].step = "undoing"
    <3>1. PageInv(m)'
      BY <2>1, <2>5, PageIdle
    <3> HIDE DEF result, r, card
    <3> QED
      BY <1>1, <1>2, <2>1, <2>2, <2>3, <2>4, <3>1, KeepByRow DEF r
  <2>6. CASE desk[m].step = "update"
    <3>1. /\ desk'[m].step = "offer" /\ desk'[m].kind = desk[m].kind
          /\ desk'[m].card = card /\ desk'[m].item = i
          /\ desk'[m].left # NoRow => card = r /\ desk'[m].left = result
      BY <1>0, <1>1, <2>1, <2>6 DEF Offer, Left, Desk
    <3>2. desk'[m].left # NoRow => OfferFits(desk'[m])
      BY <1>1, <2>6, <3>1 DEF OfferFits, PageInv
    <3>3. ASSUME "undo" \notin lapses', desk'[m].left # NoRow, card.moderation = "removed"
          PROVE  card.reason # "owner_banned"
      <4>1. card = r /\ "undo" \notin lapses
        BY <2>1, <3>1, <3>3
      <4>2. desk[m].lock = r.owner
        BY <1>0, <1>1, <2>2, <4>1 DEF PageInv
      <4>3. r.owner \notin banned
        BY <1>1, <2>2, <4>2 DEF IInv, LockInv, Row
      <4> QED
        BY <1>1, <2>2, <3>3, <4>1, <4>3 DEF RowInv, Marked
    <3>4. PageInv(m)'
      BY <1>1, <1>2, <2>1, <3>1, <3>2, <3>3 DEF PageInv
    <3> HIDE DEF result, r, card
    <3> QED
      BY <1>1, <1>2, <2>1, <2>2, <2>3, <2>4, <3>4, KeepByRow DEF r
  <2> QED
    BY <1>1, <2>5, <2>6
<1> QED
  BY <1>3, <1>4

\* Putting back a card gives an item no mark of a ban, nor a reason that is not its own.
LEMMA KeepUndo ==
  ASSUME IInv, KeepInv, NEW m \in Moderators, UndoReview(m)
  PROVE  KeepInv'
<1>0. PICK i \in Items : desk[m].item = i
  BY FoundDesk
<1> DEFINE card == desk[m].card
           r == rows[i]
           result == PutBack(r, card)
<1>1. /\ desk[m] \in Desk /\ i \in Items /\ card \in Row /\ card # NoRow
      /\ PageInv(m) /\ RowInv(i) /\ desk[m].step = "offer"
      /\ desk[m].kind \in {"approve", "restore"}
  BY FoundDesk DEF IInv, DeskInv, KeepInv, UndoReview
<1>2. /\ UNCHANGED <<banned, uploads>> /\ desk'[m] = Idle
      /\ \A n \in Moderators \ {m} : desk'[n] = desk[n]
  BY DEF UndoReview, IInv, TypeOK
<1>3. CASE r = NoRow
  <2>1. UNCHANGED <<rows, before, lapses>>
    BY <1>0, <1>3 DEF UndoReview
  <2> QED
    BY <1>2, <2>1, PageIdle, KeepByPage
<1>4. CASE r # NoRow
  <2>1. /\ rows'[i] = result /\ \A j \in Items \ {i} : rows'[j] = rows[j]
        /\ lapses' = lapses \cup {l \in {"undo"} : r # desk[m].left}
        /\ \A j \in Items \ {i} : before'[j] = before[j]
        /\ before'[i] = "none" \/ (result = r /\ before'[i] = before[i])
    <3>1. /\ rows' = [rows EXCEPT ![i] = result]
          /\ before' = IF rows' = rows THEN before ELSE [before EXCEPT ![i] = "none"]
          /\ lapses' = lapses \cup {l \in {"undo"} : r # desk[m].left}
      BY <1>0, <1>4 DEF UndoReview
    <3>2. DOMAIN rows = Items /\ DOMAIN before = Items
      BY DEF IInv, TypeOK
    <3> HIDE DEF result
    <3>3. rows'[i] = result /\ \A j \in Items \ {i} : rows'[j] = rows[j]
      BY <3>1, <3>2 DEF IInv, TypeOK
    <3>4. CASE rows' = rows
      BY <3>1, <3>3, <3>4
    <3>5. CASE rows' # rows
      BY <3>1, <3>2, <3>3, <3>5
    <3> QED
      BY <3>4, <3>5
  <2>2. r \in Row /\ Tidy(r) /\ r.created <= uploads
    BY <1>1, <1>4, FoundRow DEF RowInv
  <2>3. result \in Row /\ result.owner = r.owner /\ result.created = r.created
    <3>1. result \in Row /\ result.owner = r.owner
      BY <1>1, <2>2, PutBackRow
    <3>2. result.created = r.created
      BY <2>2 DEF PutBack, Removed, Row
    <3> QED
      BY <3>1, <3>2
  <2>4. ASSUME "undo" \notin lapses'
        PROVE  /\ result.moderation = "pending" => result.reason = Flag(result.flagged)
               /\ ~(result.moderation = "removed" /\ result.reason = "owner_banned")
    <3>1. "undo" \notin lapses /\ r = desk[m].left
      BY <2>1, <2>4
    <3>2. OfferFits(desk[m])
      BY <1>1, <1>4, <3>1 DEF PageInv
    <3>3. CASE card.moderation = "removed"
      <4>1. card.reason # "owner_banned"
        BY <1>1, <1>4, <3>1, <3>3 DEF PageInv
      <4>2. result.moderation = "removed" /\ result.reason = card.reason
        BY <2>2, <3>3 DEF PutBack, Removed, Row
      <4> QED
        BY <4>1, <4>2
    <3>4. CASE card.moderation # "removed"
      <4>1. card.moderation = "pending" /\ r = Approved(card)
        BY <1>1, <3>1, <3>2, <3>4 DEF OfferFits, Row, States
      <4>2. /\ r.moderation = "approved" /\ r.reason = card.reason
            /\ r.flagged = card.flagged
        BY <1>1, <4>1 DEF Approved, Row
      <4>3. card.reason = Flag(card.flagged)
        BY <1>1, <3>1, <4>1 DEF PageInv
      <4>4. /\ result.moderation = "pending" /\ result.reason = card.reason
            /\ result.flagged = card.flagged
        BY <2>2, <3>4, <4>1, <4>2 DEF PutBack, Row
      <4> QED
        BY <4>3, <4>4
    <3> QED
      BY <3>3, <3>4
  <2>5. RowInv(i)'
    <3>1. CASE before'[i] = "none"
      <4> HIDE DEF result
      <4> QED
        BY <1>2, <2>1, <2>2, <2>3, <2>4, <3>1, RowClean
    <3>2. CASE result = r /\ before'[i] = before[i]
      <4>1. uploads' \in Nat /\ uploads <= uploads' /\ lapses \subseteq lapses'
        BY <1>2, <2>1, Numbers
      <4> QED
        BY <1>1, <1>2, <2>1, <3>2, <4>1, RowFrame
    <3> QED
      BY <2>1, <3>1, <3>2
  <2>6. PageInv(m)' /\ lapses \subseteq lapses'
    BY <1>2, <2>1, PageIdle
  <2> HIDE DEF result, r, card
  <2> QED
    BY <1>1, <1>2, <1>4, <2>1, <2>3, <2>5, <2>6, KeepByRow DEF r
<1> QED
  BY <1>3, <1>4

LEMMA InitKeepInv == Init => KeepInv
BY ModerationAssumption DEF Init, KeepInv, RowInv, PageInv, Idle

LEMMA NextKeepInv == IInv /\ KeepInv /\ [Next]_vars => KeepInv'
<1> SUFFICES ASSUME IInv, KeepInv, [Next]_vars PROVE KeepInv'
  OBVIOUS
<1>1. ASSUME NEW m \in Moderators, Fail(m) PROVE KeepInv'
  <2>1. /\ desk'[m] = Idle /\ \A n \in Moderators \ {m} : desk'[n] = desk[n]
        /\ UNCHANGED <<rows, banned, uploads, before, lapses>>
    BY <1>1 DEF Fail, IInv, TypeOK
  <2> QED
    BY <2>1, PageIdle, KeepByPage
<1>2. CASE UNCHANGED vars
  BY <1>2 DEF vars, KeepInv, RowInv, Marked, PageInv
<1> QED
  BY <1>1, <1>2, KeepPublish, KeepEdit, KeepDelete, KeepBan, KeepUnban, KeepLook,
     KeepGuard, KeepTakeDown, KeepUpdate, KeepUndo
  DEF Next

\* The inductive invariant of bans and undos.
THEOREM MarksKept == Spec => []KeepInv
BY InitKeepInv, NextKeepInv, Invariance, PTL DEF Spec

---------------------------------------------------------------------------
\* The one step that lifts a ban.
LEMMA OnlyUnban ==
  ASSUME [Next]_vars, NEW u \in banned, u \notin banned'
  PROVE  \E v \in Users : Unban(v) /\ banned' = banned \ {v} /\ v = u
BY DEF Next, vars, Publish, Edit, DeleteItem, Ban, Unban, Look, Approve, Restore, TakeDown,
       Update, Fail, UndoRemove, UndoReview, Guard

\* Lifting a ban gives each item the ban took down the state it had before, and touches
\* nothing else, whatever moderators did between.
THEOREM UnbanHolds == Spec => UnbanRestoresBanned
<1>1. ASSUME IInv, KeepInv, [Next]_vars, NEW u \in banned \ banned', "undo" \notin lapses,
             NEW i \in Items, Exists(i), rows[i].owner = u
      PROVE  IF before[i] = "none" THEN rows'[i] = rows[i]
             ELSE /\ rows'[i].moderation = before[i]
                  /\ rows'[i].updated = rows[i].updated
  <2>1. Unban(u)
    BY <1>1, OnlyUnban
  <2>2. RowInv(i) /\ rows[i] \in Row /\ Tidy(rows[i]) /\ rows[i] # NoRow
    BY <1>1, FoundRow DEF KeepInv, Exists
  <2>3. rows'[i] = IF /\ rows[i].moderation = "removed"
                      /\ rows[i].reason = "owner_banned"
                   THEN Restored(rows[i]) ELSE rows[i]
    BY <1>1, <2>1 DEF Unban, BroughtBack
  <2>4. CASE before[i] = "none"
    BY <1>1, <2>2, <2>3, <2>4 DEF RowInv
  <2>5. CASE before[i] # "none"
    <3>1. Marked(i)
      BY <1>1, <2>2, <2>5 DEF RowInv
    <3>2. rows'[i] = Restored(rows[i]) /\ rows[i].previous = before[i]
      BY <2>3, <3>1 DEF Marked
    <3>3. /\ Restored(rows[i]).moderation = rows[i].previous
          /\ Restored(rows[i]).updated = rows[i].updated
      BY <2>2, <2>5, <3>2 DEF Restored, Rescreened, Row
    <3> QED
      BY <2>5, <3>2, <3>3
  <2> QED
    BY <2>4, <2>5
<1>2. IInv /\ KeepInv /\ [Next]_vars =>
        [\A u \in banned \ banned' : "undo" \notin lapses =>
           \A i \in Items : Exists(i) /\ rows[i].owner = u =>
             IF before[i] = "none" THEN rows'[i] = rows[i]
             ELSE /\ rows'[i].moderation = before[i]
                  /\ rows'[i].updated = rows[i].updated]_vars
  BY <1>1
<1> QED
  BY <1>2, Invariance, MarksKept, PTL DEF Spec, UnbanRestoresBanned

\* The two steps that end an offer to undo and write the row it was about.
LEMMA OnlyUndo ==
  ASSUME IInv, KeepInv, [Next]_vars, NEW m \in Moderators, desk[m].left # NoRow,
         desk'[m] # desk[m], rows'[desk[m].item] # rows[desk[m].item]
  PROVE  \/ Update(m) /\ desk[m].step = "undoing"
         \/ UndoReview(m)
<1>1. desk \in [Moderators -> Desk] /\ OfferFits(desk[m])
  BY DEF IInv, TypeOK, KeepInv, PageInv
<1>2. desk # desk' /\ rows # rows'
  OBVIOUS
<1>3. ~\E u \in Users, i \in Items : Publish(u, i) \/ Edit(u, i)
  BY <1>2 DEF Publish, Edit
<1>4. ~\E i \in Items : DeleteItem(i)
  BY <1>2 DEF DeleteItem
<1>5. ~\E u \in Users : Ban(u) \/ Unban(u)
  BY <1>2 DEF Ban, Unban
<1>6. PICK n \in Moderators : Update(n) \/ TakeDown(n) \/ UndoReview(n)
  BY <1>2, <1>3, <1>4, <1>5
  DEF Next, vars, Look, Approve, Restore, Fail, UndoRemove, Guard
<1>7. n = m
  BY <1>1, <1>6 DEF Update, TakeDown, UndoReview
<1> QED
  BY <1>1, <1>6, <1>7 DEF OfferFits, Update, TakeDown

\* An undo that finds the item as the moderator left it gives it back the state, the
\* restore state and the reason of the card.
THEOREM UndoHolds == Spec => UndoPutsBack
<1>1. ASSUME IInv, KeepInv, [Next]_vars, NEW m \in Moderators, "undo" \notin lapses,
             desk[m].left # NoRow, rows[desk[m].item] = desk[m].left,
             desk'[m] # desk[m], rows'[desk[m].item] # desk[m].left
      PROVE  /\ rows'[desk[m].item].moderation = desk[m].card.moderation
             /\ rows'[desk[m].item].previous = desk[m].card.previous
             /\ \/ rows'[desk[m].item].reason = desk[m].card.reason
                \/ rows'[desk[m].item].moderation = "approved"
  <2> DEFINE card == desk[m].card
             left == desk[m].left
             new == rows'[desk[m].item]
  <2>1. /\ desk[m].item \in Items /\ card \in Row /\ Tidy(card) /\ card # NoRow
        /\ OfferFits(desk[m]) /\ left \in Row /\ Tidy(left)
        /\ card.moderation = "pending" => card.reason = Flag(card.flagged)
    BY <1>1, FoundDesk, FoundRow DEF KeepInv, PageInv, OfferFits
  <2>2. CASE Update(m) /\ desk[m].step = "undoing"
    <3>1. left = Removed(card, "moderator", "none") /\ card.moderation # "removed"
          /\ desk[m].kind = "restore"
      BY <2>1, <2>2 DEF OfferFits
    <3>2. new = Restored(left)
      BY <1>1, <2>1, <2>2, <3>1 DEF Update, IInv, TypeOK
    <3>3. /\ left \in Row /\ left.previous = card.moderation
          /\ left.flagged = card.flagged
      BY <2>1, <3>1 DEF Removed, Row
    <3>4. /\ Restored(left).moderation = card.moderation
          /\ Restored(left).previous = "none"
          /\ Restored(left).moderation = "pending" =>
               Restored(left).reason = Flag(card.flagged)
      BY <2>1, <3>1, <3>3 DEF Restored, Rescreened, Row, Flag, States
    <3> HIDE DEF new
    <3> QED
      BY <2>1, <3>1, <3>2, <3>4 DEF Tidy, Row, States, new
  <2>3. CASE UndoReview(m)
    <3>1. new = PutBack(left, card) /\ desk[m].kind \in {"approve", "restore"}
          /\ desk[m].step = "offer"
      BY <1>1, <2>1, <2>3 DEF UndoReview, IInv, TypeOK
    <3>2. left.moderation # "removed"
      BY <2>1, <3>1 DEF OfferFits, Approved, Restored, Rescreened, Row, Visible, Tidy
    <3>3. CASE card.moderation = "removed"
      BY <2>1, <3>1, <3>2, <3>3 DEF PutBack, Removed, Row, Tidy
    <3>4. CASE card.moderation # "removed"
      <4>1. left = Approved(card) /\ card.moderation = "pending"
        BY <2>1, <3>1, <3>4 DEF OfferFits, Row, States
      <4>2. left.reason = card.reason
        BY <2>1, <4>1 DEF Approved, Row
      <4> QED
        BY <2>1, <3>1, <3>2, <3>4, <4>1, <4>2 DEF PutBack, Row, Tidy
    <3> QED
      BY <3>3, <3>4
  <2> QED
    BY <1>1, <2>2, <2>3, OnlyUndo
<1>2. IInv /\ KeepInv /\ [Next]_vars =>
        [\A m \in Moderators :
           LET d == desk[m]
               r == rows'[d.item]
           IN /\ "undo" \notin lapses
              /\ d.left # NoRow /\ rows[d.item] = d.left
              /\ desk'[m] # d /\ r # d.left
              => /\ r.moderation = d.card.moderation
                 /\ r.previous = d.card.previous
                 /\ r.reason = d.card.reason \/ r.moderation = "approved"]_vars
  BY <1>1
<1> QED
  BY <1>2, Invariance, MarksKept, PTL DEF Spec, UndoPutsBack
=============================================================================

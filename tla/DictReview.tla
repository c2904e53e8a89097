----------------------------- MODULE DictReview -----------------------------
(***************************************************************************)
(* The review of dictionary pull requests (pages/dictpr) against the       *)
(* handlers it calls (admin_dict_prs.go): a list and a detail read at      *)
(* different times, checkboxes per head, and approvals and rejections that *)
(* wait behind the toast while the page already shows them.  A head is the *)
(* number of the branch's last commit.                                     *)
(***************************************************************************)
EXTENDS Toasts, FiniteSets, Sequences, SequencesExt

CONSTANTS
  Entries, New,   \* dictionary entries; those the check finds new
  MaxHead,        \* bound: commits on a branch
  MaxVisits       \* bound: visits to the page

PRs == Acts
NoBoxes == [h \in 1..MaxHead + 1 |-> [i \in 1..Cardinality(Entries) |-> "default"]]

VARIABLES
  pull, branch,   \* GitHub: a pull request's state; its entries at each head
  merged,         \* what the console merged: the boxes kept, their head, the result
  list, detail,   \* the page's cached states, and [state, head] or None
  optimistic,     \* the state a delayed decision shows, or None
  overrides,      \* checkboxes changed, per head and entry
  card,           \* the pull request the detail card shows
  here, visit,    \* the page is mounted; which visit this is
  asking,         \* the rejection the dialog asks about, or None
  trimming,       \* the trim under way: [pr, keep, head, visit] or None
  held, sent      \* the decision that waits; those sent

githubVars == <<pull, branch, merged>>
cache == <<list, detail>>
stay == <<here, visit>>
dialogs == <<asking, trimming>>
requests == <<held, sent>>
pageVars == <<cache, optimistic, overrides, card, stay, dialogs>>
reviewVars == <<deskVars, githubVars, pageVars, requests>>

ReviewInit ==
  /\ ToastInit
  /\ pull = [n \in PRs |-> "open"]
  /\ branch \in [PRs -> {<< <<e>> >> : e \in Entries}]
  /\ merged = {} /\ here = TRUE /\ visit = 1
  /\ list = pull /\ detail = [n \in PRs |-> None]
  /\ optimistic = [n \in PRs |-> None]
  /\ overrides = [n \in PRs |-> NoBoxes]
  /\ card \in PRs
  /\ asking = None /\ trimming = None /\ held = None /\ sent = <<>>

----------------------------------------------------------------------------
Shown(n) == IF optimistic[n] # None THEN optimistic[n] ELSE list[n]

\* The list's state and the detail's both have to be open.
IsOpen(n) == Shown(n) = "open" /\ detail[n] # None /\ detail[n].state = "open"

Indexes(n, h) == 1..Len(branch[n][h])
IsChecked(n, h, i) ==
  \/ overrides[n][h][i] = "on"
  \/ overrides[n][h][i] = "default" /\ branch[n][h][i] \in New
Keep(n) == {i \in Indexes(n, detail[n].head) : IsChecked(n, detail[n].head, i)}

\* What was started on this visit may still change its state.
Mine(b) == here /\ b.visit = visit

\* The request that waits goes on the wire when the toast sends it.
Sends ==
  IF pending # None /\ wire'[pending] > wire[pending]
  THEN sent' = Append(sent, held) ELSE UNCHANGED sent
Waits == held' = IF pending' = None THEN None ELSE held

\* Buttons and hotkeys: none acts behind the dialog or during the card's trim.
CanWrite(n) ==
  /\ here /\ asking = None /\ n = card /\ IsOpen(n)
  /\ ~(trimming # None /\ Mine(trimming) /\ trimming.pr = n)

\* Show the outcome at once and hold the request back.
Delayed(n, next, keep, head) ==
  /\ Decide(n) /\ Sends
  /\ held' = [pr |-> n, next |-> next, keep |-> keep, head |-> head, visit |-> visit]
  /\ optimistic' = IF here THEN [optimistic EXCEPT ![n] = next] ELSE optimistic
  /\ UNCHANGED <<authVars, githubVars, cache, overrides, card, stay, trimming>>

----------------------------------------------------------------------------
Approve(n) ==
  /\ CanWrite(n) /\ Keep(n) # {}
  /\ Delayed(n, "merged", Keep(n), detail[n].head) /\ UNCHANGED asking

\* Rejection asks for a reason first; the head is the one shown when it asked.
AskReject(n) ==
  /\ CanWrite(n) /\ asking' = [pr |-> n, head |-> detail[n].head]
  /\ UNCHANGED <<deskVars, githubVars, cache, optimistic, overrides, card, stay,
                 trimming, requests>>

Reject == asking # None /\ asking' = None /\ Delayed(asking.pr, "closed", {}, asking.head)
Cancel ==
  /\ asking # None /\ asking' = None
  /\ UNCHANGED <<deskVars, githubVars, cache, optimistic, overrides, card, stay,
                 trimming, requests>>

Toggle(n, i) ==
  /\ here /\ asking = None /\ n = card /\ IsOpen(n) /\ i \in Indexes(n, detail[n].head)
  /\ overrides' = [overrides EXCEPT ![n][detail[n].head][i] =
                     IF IsChecked(n, detail[n].head, i) THEN "off" ELSE "on"]
  /\ UNCHANGED <<deskVars, githubVars, cache, optimistic, card, stay, dialogs, requests>>

Trim(n) ==
  /\ CanWrite(n) /\ trimming = None
  /\ Keep(n) # {} /\ Keep(n) # Indexes(n, detail[n].head)
  /\ trimming' = [pr |-> n, keep |-> Keep(n), head |-> detail[n].head, visit |-> visit]
  /\ UNCHANGED <<deskVars, githubVars, cache, optimistic, overrides, card, stay,
                 asking, requests>>

\* A click on the list, or J and K, shows another card.
Select(n) ==
  /\ here /\ asking = None /\ n # card /\ card' = n
  /\ UNCHANGED <<deskVars, githubVars, cache, optimistic, overrides, stay, dialogs,
                 requests>>

----------------------------------------------------------------------------
View(n) == [state |-> pull[n], head |-> Len(branch[n])]

\* The list and the card's detail are fetched separately, at any time.
ReadList ==
  /\ here /\ list # pull /\ list' = pull
  /\ UNCHANGED <<deskVars, githubVars, detail, optimistic, overrides, card, stay,
                 dialogs, requests>>
ReadDetail(n) ==
  /\ here /\ n = card /\ detail[n] # View(n) /\ detail' = [detail EXCEPT ![n] = View(n)]
  /\ UNCHANGED <<deskVars, githubVars, list, optimistic, overrides, card, stay,
                 dialogs, requests>>

\* After a request the page reads both again, unless that fails.
Refreshed ==
  \/ UNCHANGED cache
  \/ here /\ list' = pull' /\ detail' = [n \in PRs |-> IF n = card THEN View(n)' ELSE detail[n]]

\* What a trim leaves: the entries of the kept indexes, in their order.
Kept(b) ==
  LET at(i) == CHOOSE j \in b.keep : Cardinality({k \in b.keep : k <= j}) = i
  IN  [i \in 1..Cardinality(b.keep) |-> branch[b.pr][b.head][at(i)]]
\* Mutant of Accepts: the head the reviewer saw is not compared.
AcceptsAnyHead(b) == pull[b.pr] = "open" /\ b.head > 0

Accepts(b) == pull[b.pr] = "open" /\ b.head = Len(branch[b.pr])
Trimmed(b) ==
  IF Cardinality(b.keep) < Len(branch[b.pr][b.head])
  THEN [branch EXCEPT ![b.pr] = Append(@, Kept(b))] ELSE branch

Merge(b) ==
  /\ b.next = "merged" /\ branch' = Trimmed(b)
  /\ pull' = [pull EXCEPT ![b.pr] = "merged"]
  /\ merged' = merged \cup {[pr |-> b.pr, keep |-> b.keep, head |-> b.head,
                             result |-> Last(branch'[b.pr])]}
Close(b) ==
  /\ b.next = "closed" /\ pull' = [pull EXCEPT ![b.pr] = "closed"]
  /\ UNCHANGED <<branch, merged>>

\* The server decides the pull request the reviewer saw, or refuses.  A merge
\* may stop after its trim, and an answer may be lost.  The page that decided
\* drops the outcome it showed.
Decided(k, ok) ==
  LET b == sent[k] IN
  /\ Answered(b.pr, ok) /\ sent' = RemoveAt(sent, k)
  /\ \/ Accepts(b) /\ (Merge(b) \/ Close(b))
     \/ ~ok /\ Accepts(b) /\ b.next = "merged" /\ branch' = Trimmed(b) /\ UNCHANGED <<pull, merged>>
     \/ ~ok /\ UNCHANGED githubVars
  /\ optimistic' = IF Mine(b) THEN [optimistic EXCEPT ![b.pr] = None] ELSE optimistic
  /\ Refreshed
  /\ UNCHANGED <<authVars, overrides, card, stay, dialogs, held>>

\* A trim's answer marks every entry of the new head as kept.
TrimAnswered(ok) ==
  /\ trimming # None /\ trimming' = None
  /\ IF ok
     THEN /\ Accepts(trimming) /\ branch' = Trimmed(trimming)
          /\ overrides' =
               IF Mine(trimming)
               THEN [overrides EXCEPT ![trimming.pr][Len(branch'[trimming.pr])] =
                       [i \in DOMAIN @ |-> IF i <= Cardinality(trimming.keep) THEN "on" ELSE "default"]]
               ELSE overrides
     ELSE UNCHANGED <<branch, overrides>>
  /\ Plain /\ UNCHANGED <<pending, timers, wire, reversing, owed>>
  /\ UNCHANGED <<authVars, pull, merged>> /\ Refreshed
  /\ UNCHANGED <<optimistic, card, stay, asking, requests>>

\* Undo restores what the page showed; the request is never sent.
Undo ==
  /\ UndoDecision
  /\ optimistic' = IF Mine(held) THEN [optimistic EXCEPT ![current] = None] ELSE optimistic
  /\ Waits /\ UNCHANGED <<authVars, githubVars, cache, overrides, card, stay, dialogs,
                          sent>>

\* Leaving drops the page's state; the cache, the toast and the dialog stay.
Leave ==
  /\ here /\ visit < MaxVisits /\ here' = FALSE
  /\ optimistic' = [n \in PRs |-> None] /\ overrides' = [n \in PRs |-> NoBoxes]
  /\ UNCHANGED <<deskVars, githubVars, cache, card, visit, dialogs, requests>>
Return ==
  /\ ~here /\ here' = TRUE /\ visit' = visit + 1
  /\ UNCHANGED <<deskVars, githubVars, cache, optimistic, overrides, card, dialogs,
                 requests>>

\* Another action's toast, the timer and pagehide send what waits.  (Messages
\* and closing a toast send nothing: Toasts.)
Meanwhile ==
  /\ PageHide \/ (\E u \in Undoables : Offer(u)) \/ (\E n \in PRs : CommitTimer(n))
  /\ Sends /\ Waits /\ UNCHANGED <<authVars, githubVars, pageVars>>

\* A submission lands on the branch; somebody else closes the pull request.
Push(n, e) ==
  /\ pull[n] = "open" /\ Len(branch[n]) < MaxHead
  /\ e \notin ToSet(Last(branch[n])) /\ branch' = [branch EXCEPT ![n] = Append(@, Append(Last(@), e))]
  /\ UNCHANGED <<deskVars, pull, merged, pageVars, requests>>
Elsewhere(n) ==
  /\ pull[n] = "open" /\ pull' = [pull EXCEPT ![n] = "closed"]
  /\ UNCHANGED <<deskVars, branch, merged, pageVars, requests>>

ReviewNext ==
  \/ Reject \/ Cancel \/ ReadList \/ Undo \/ Leave \/ Return \/ Meanwhile
  \/ \E n \in PRs : Approve(n) \/ AskReject(n) \/ Trim(n) \/ Select(n) \/ ReadDetail(n) \/ Elsewhere(n)
  \/ \E n \in PRs, i \in 1..Cardinality(Entries) : Toggle(n, i)
  \/ \E n \in PRs, e \in Entries : Push(n, e)
  \/ \E k \in DOMAIN sent, ok \in BOOLEAN : Decided(k, ok)
  \/ \E ok \in BOOLEAN : TrimAnswered(ok)

ReviewSpec == ReviewInit /\ [][ReviewNext]_reviewVars

----------------------------------------------------------------------------
\* A merge ships exactly the entries whose boxes were checked on the head the
\* reviewer saw, whatever was pushed, decided elsewhere, trimmed or revisited
\* between the click and the request (approve, approveDictPR).
MergedAsReviewed ==
  \A m \in merged : ToSet(m.result) = {branch[m.pr][m.head][i] : i \in m.keep}

\* A decision shown before it is sent is still to be answered: it waits or is
\* under way, and an undo, a failure or an answer takes it off the page
\* (delayed).
ShownIsPending ==
  here => \A n \in PRs : optimistic[n] # None =>
    \/ pending = n /\ Mine(held)
    \/ \E k \in DOMAIN sent : sent[k].pr = n /\ Mine(sent[k])

\* One visit never decides a pull request twice: while a decision of this visit
\* waits or is under way, no other is offered (markOptimistic, items).
OneDecisionPerVisit ==
  here => \A n \in PRs :
    Cardinality({k \in DOMAIN sent : sent[k].pr = n /\ Mine(sent[k])})
      + (IF pending = n /\ Mine(held) THEN 1 ELSE 0) <= 1
=============================================================================

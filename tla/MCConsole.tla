----------------------------- MODULE MCConsole -----------------------------
(***************************************************************************)
(* The pages of the admin console, in one run.  A page is unmounted before *)
(* the next is shown, so each behaviour is one page's, chosen at the       *)
(* start.  The permissions page has its own variables, at rest in the      *)
(* behaviours of the others; the variables of another page's module are    *)
(* v1, v2, ... in their order.  Two and Members are the same.              *)
(***************************************************************************)
EXTENDS AdminMembers, TLC

CONSTANTS
  Pulls, Entries, NewEntries,  \* pull requests; their entries, and those not in the base
  Pull,                        \* the one of the behaviours with only one
  Issue, StatusChange, OtherChanges,  \* what the crash page's toasts are about
  Two,                         \* the words, and the notifications
  Notices, Releases, Issues,
  Preferences, Devices,        \* of the admin's own profile
  Accounts, Reasons,           \* of the users page
  MaxItem, Hits, Chips,        \* the community's items, those a search finds, its filters
  BatchLimit, ListLimit,       \* words per request, notifications in the list
  PageSize,                    \* community items on a page
  MaxRows, Backfill,           \* rows of the log kept; lines of a first connection
  Window, MaxAge,              \* how far back that looks, and a resumption
  LogPage, LogPages,           \* lines of a query; queries of a poll
  Overlap, MaxLag,             \* how far a poll looks back; the lag that skips
  MaxLine, MaxLate, MaxEvents, MaxConnections,
  MaxSent, MaxHead, MaxVisits, MaxStatuses, MaxOpened, MaxTyped, MaxWritten,
  MaxCalls, MaxSpread, MaxEdits, MaxMarks, MaxFailures, MaxReviews, MaxElsewhere

\* A filter of the log that shows every second line.
Shows(filter, line) == filter = "all" \/ line % 2 = 0

VARIABLES
  page,  \* the page open
  v1, v2, v3, v4, v5, v6, v7, v8, v9, v10, v11, v12, v13, v14, v15, v16,
  v17, v18, v19, v20, v21, v22, v23, v24, v25, v26

D == INSTANCE DictReview WITH
  Acts <- Pulls, Undoables <- {}, MaxWire <- MaxSent, New <- NewEntries,
  current <- v1, open <- v2, noticeOpen <- v3, pending <- v4, timers <- v5,
  wire <- v6, reversing <- v7, owed <- v8, session <- v9, screen <- v10,
  leaving <- v11, awaited <- v12, pull <- v13, branch <- v14, merged <- v15,
  list <- v16, detail <- v17, optimistic <- v18, overrides <- v19, card <-
  v20, here <- v21, visit <- v22, asking <- v23, trimming <- v24, held <-
  v25, sent <- v26

\* The console around its pages: their toasts, and the sign-out.
O == INSTANCE Toasts WITH
  Acts <- Pulls, Undoables <- {StatusChange} \cup OtherChanges, MaxWire <- MaxSent,
  current <- v1, open <- v2, noticeOpen <- v3, pending <- v4, timers <- v5,
  wire <- v6, reversing <- v7, owed <- v8, session <- v9, screen <- v10,
  leaving <- v11, awaited <- v12

K == INSTANCE CrashDesk WITH
  Acts <- {Issue}, Change <- StatusChange,
  Undoables <- {StatusChange} \cup OtherChanges,
  MaxWire <- MaxSent, MaxChanges <- MaxStatuses, MaxIssues <- MaxOpened,
  current <- v1, open <- v2, noticeOpen <- v3, pending <- v4, timers <- v5,
  wire <- v6, reversing <- v7, owed <- v8, session <- v9, screen <- v10,
  leaving <- v11, awaited <- v12, status <- v13, recorded <- v14, opened <-
  v15, lost <- v16, row <- v17, override <- v18, link <- v19, changes <-
  v20, from <- v21, here <- v22, visit <- v23, began <- v24

L == INSTANCE LogStream WITH
  Filters <- {"all", "even"}, Matches <- Shows, PageSize <- LogPage,
  Pages <- LogPages,
  MaxWire <- MaxEvents,
  clock <- v1, stored <- v2, late <- v3, tail <- v4, wire <- v5, typed <-
  v6, filter <- v7, cursor <- v8, rows <- v9, buffer <- v10, paused <- v11,
  status <- v12, connections <- v13, cut <- v14

I == INSTANCE IssueTriage WITH
  Filters <- {"open", "all"},
  issue <- v1, rows <- v2, filter <- v3, selected <- v4, busy <- v5, asking
  <- v6, calls <- v7, offer <- v8, made <- v9, changed <- v10

W == INSTANCE WordList WITH
  Words <- Two, Filters <- {Two} \cup {{w} : w \in Two}, Limit <- BatchLimit,
  level <- v1, rows <- v2, filter <- v3, selected <- v4, busy <- v5, asking
  <- v6, adding <- v7, edits <- v8, told <- v9, made <- v10

N == INSTANCE NoticeDesk WITH
  MaxText <- MaxTyped,
  status <- v1, text <- v2, pushed <- v3, undone <- v4, items <- v5, form <-
  v6, asking <- v7, writing <- v8, archiving <- v9, typed <- v10, elsewhere
  <- v11

Z == INSTANCE ReleaseDesk WITH
  MaxText <- MaxWritten,
  github <- v1, history <- v2, dialog <- v3, asking <- v4, requests <- v5,
  written <- v6, elsewhere <- v7

B == INSTANCE NotificationBell WITH
  Notes <- Two, Limit <- ListLimit, MaxWire <- MaxMarks,
  stamp <- v1, committed <- v2, before <- v3, marks <- v4, open <- v5, list
  <- v6, polled <- v7, wire <- v8, settling <- v9, opened <- v10, clicked <-
  v11, listed <- v12

M == INSTANCE Profile WITH
  Keys <- Preferences, Sessions <- Devices,
  profile <- v1, shown <- v2, refetch <- v3, failed <- v4, changes <- v5,
  issued <- v6, cut <- v7, made <- v8, failures <- v9

U == INSTANCE UserAccounts WITH
  Users <- Accounts,
  account <- v1, rows <- v2, detail <- v3, asking <- v4, calls <- v5, toast
  <- v6, made <- v7, elsewhere <- v8, unknown <- v9

Y == INSTANCE CommunityBrowse WITH
  MaxWire <- MaxReviews,
  moderation <- v1, status <- v2, page <- v3, typed <- v4, q <- v5, timer <-
  v6, list <- v7, fell <- v8, calls <- v9, elsewhere <- v10

\* The behaviours of the review.  With one pull request the others stay as they
\* are; with all of them nobody pushes and the page is not left.
OnePull ==
  /\ v20 = Pull
  /\ \A n \in Pulls \ {Pull} : v13[n] = "open" /\ \E e \in NewEntries : v14[n] = << <<e>> >>
AllPulls == v21 /\ \A n \in Pulls : \E e \in NewEntries : v14[n] = << <<e>> >>

\* What a page's module has no variable for.
Blank25 == v25 = None /\ v26 = None
Blank15 == v15 = None /\ v16 = None /\ v17 = None /\ v18 = None /\ v19 =
  None /\ v20 = None /\ v21 = None /\ v22 = None /\ v23 = None /\ v24 = None
  /\ Blank25
Blank13 == v13 = None /\ v14 = None /\ Blank15
Blank12 == v12 = None /\ Blank13
Blank11 == v11 = None /\ Blank12
Blank10 == v10 = None /\ Blank11
Blank8 == v8 = None /\ v9 = None /\ Blank10
rest25 == <<v25, v26>>
rest15 == <<v15, v16, v17, v18, v19, v20, v21, v22, v23, v24, rest25>>
rest13 == <<v13, v14, rest15>>
rest12 == <<v12, rest13>>
rest11 == <<v11, rest12>>
rest10 == <<v10, rest11>>
rest8 == <<v8, v9, rest10>>
pageVars == <<v1, v2, v3, v4, v5, v6, v7, rest8>>
vars == <<page, memberVars, pageVars>>

Init ==
  /\ MembersInit
  /\ \/ page = "perm" /\ v1 = None /\ v2 = None /\ v3 = None /\ v4 = None /\ v5 = None /\
        v6 = None /\ v7 = None /\ Blank8
     \/ page = "shell" /\ O!ToastInit /\ Blank13
     \/ page = "dictpr" /\ D!ReviewInit /\ OnePull
     \/ page = "dictprs" /\ D!ReviewInit /\ AllPulls
     \/ page = "crash" /\ K!DeskInit /\ Blank25
     \/ page = "logs" /\ L!Init /\ Blank15
     \/ page = "issues" /\ I!TriageInit /\ Blank11
     \/ page = "words" /\ W!WordInit /\ Blank11
     \/ page = "notice" /\ N!NoticeInit /\ Blank12
     \/ page = "release" /\ Z!ReleaseInit /\ Blank8
     \/ page = "bell" /\ B!BellInit /\ Blank13
     \/ page = "me" /\ M!ProfileInit /\ Blank10
     \/ page = "users" /\ U!UsersInit /\ Blank10
     \/ page = "community" /\ Y!BrowseInit /\ Blank11

OtherPage ==
  \/ page = "shell" /\ O!ToastNext /\ UNCHANGED rest13
  \/ page = "dictpr" /\ D!ReviewNext /\ OnePull'
  \/ page = "dictprs" /\ D!ReviewNext /\ AllPulls'
  \/ page = "crash" /\ K!DeskNext /\ UNCHANGED rest25
  \/ page = "logs" /\ L!Next /\ UNCHANGED rest15
  \/ page = "issues" /\ I!TriageNext /\ UNCHANGED rest11
  \/ page = "words" /\ W!WordNext /\ UNCHANGED rest11
  \/ page = "notice" /\ N!NoticeNext /\ UNCHANGED rest12
  \/ page = "release" /\ Z!ReleaseNext /\ UNCHANGED rest8
  \/ page = "bell" /\ B!BellNext /\ UNCHANGED rest13
  \/ page = "me" /\ M!ProfileNext /\ UNCHANGED rest10
  \/ page = "users" /\ U!UsersNext /\ UNCHANGED rest10
  \/ page = "community" /\ Y!BrowseNext /\ UNCHANGED rest11

Next ==
  /\ UNCHANGED page
  /\ \/ page = "perm" /\ MembersNext /\ UNCHANGED pageVars
     \/ OtherPage /\ UNCHANGED memberVars

Reviews == {"dictpr", "dictprs"}

Spec == Init /\ [][Next]_vars

Symmetry == Permutations(Two) \cup Permutations(Owners)

ASSUME ConsoleAssumption ==
  /\ O!ToastAssumption /\ D!ToastAssumption /\ K!ToastAssumption /\ K!DeskAssumption
  /\ L!StreamAssumption /\ Y!BrowseAssumption

\* No state, page or refetch is the absence of one.
ASSUME StateAssumption ==
  /\ None \notin {"merged", "closed", "open", "known", "fixed"} /\ None \notin Nat
  /\ None \notin [read : BOOLEAN, data : {None} \cup
                    [prefs : [Preferences -> BOOLEAN], sessions : SUBSET Devices, token : Nat]]

\* A form of the release page is not the absence of one.
ASSUME FormAssumption ==
  None \notin [op : {"notes", "trigger"}, release : Releases, text : Nat]

\* Nor is a question about words.
ASSUME QuestionAssumption == None \notin [targets : SUBSET Two, batch : BOOLEAN]

\* Or about issues.
ASSUME CloseAssumption ==
  None \notin [rows : UNION {[S -> [closed : BOOLEAN, dup : BOOLEAN, triaged : BOOLEAN,
                                    assigned : BOOLEAN]] : S \in SUBSET Issues},
               batch : BOOLEAN]

----------------------------------------------------------------------------
\* A decision delayed for its undo is sent exactly once or undone, no visit of
\* the page decides a pull request twice, and a crash group gets one issue
\* (ToastProvider, markOptimistic, createAdminCrashIssue).
DecidedOnce ==
  /\ page = "shell" => O!ToastTypeOK /\ O!SentOrUndone /\ O!WindowIsOwn
  /\ page \in Reviews => D!ToastTypeOK /\ D!SentOrUndone /\ D!WindowIsOwn /\ D!OneDecisionPerVisit
  /\ page = "crash" => K!ToastTypeOK /\ K!SentOrUndone /\ K!WindowIsOwn /\ K!OneIssue

\* A merge ships the entries checked on the head the reviewer saw (approve,
\* approveDictPR).
MergedAsReviewed == page \in Reviews => D!MergedAsReviewed

\* What a page shows before the server has it is on its way; once nothing is under
\* way it shows what the server has, and a page of it that exists (delayed,
\* setStatus, Preferences, refresh, lastPage).
ShownIsServed ==
  /\ page \in Reviews => D!ShownIsPending
  /\ page = "crash" => K!ShownIsPending
  /\ page = "me" => M!IdleShowsServer
  /\ page = "users" => U!QuietShowsServer
  /\ page = "community" => Y!NeverPastTheLast

\* The live log is in order, without doubles, and between the oldest row it holds
\* and its cursor misses no line that it does not report as missing, except those
\* that LogStream names (mergeRows, pollLogs, adminLogsStream).
LogIsComplete == page = "logs" => L!RowsInOrder /\ L!NoneSkipped

\* An undo returns each issue to its own state and assignee, and no failure,
\* cancelled dialog or row that left keeps the batch buttons disabled (apply,
\* triage, runBatch).
BatchesEndAsMeant ==
  /\ page = "issues" => I!UndoRestores /\ I!BusyEnds
  /\ page = "words" => W!BusyEnds

\* What a page reports as done was done: to every word of a batch, and for the
\* form that closes (setLevels, removeWords, FormDialog).
ToldIsDone ==
  /\ page = "words" => W!ToldIsDone
  /\ page = "release" => Z!OwnDialogCloses

\* A notice is pushed once, with the text that is published (actionPublishNotice).
PushedIsPublished == page = "notice" => N!PushedIsPublished

\* A notification is read only because the admin opened it or marked it, or a
\* later one on screen, and it stays read (adminNotificationsRead).
ReadWasMeant ==
  /\ [](page = "bell" => B!ReadWasMeant)
  /\ [][page = "bell" => B!StaysRead]_vars
=============================================================================

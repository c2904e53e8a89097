# A verification project for msime-backend

msime-backend is the cloud service of the MSIME input method: accounts and
sessions, the users' dictionaries and their synchronisation, community content
and its moderation, dictionary submissions as GitHub pull requests, AI skin
generation, an admin console, and a command line client. Several replicas of
one Go program (`cmd/msime-server`) share a PostgreSQL database; there is no
other shared state, so almost everything hard in it is a matter of SQL
transactions of several statements that interleave, of row and advisory locks,
of replicas that die between two transactions, and of answers that get lost.

Paths below are relative to `src/`. `PROJECT.json` maps every definition to the
lines it models. The largest part of the JavaScript is the admin console
(`admin-web/src`), React pages over the handlers of `internal/account/admin_*.go`
and `internal/server/admin_*.go`; what is hard there is a page that is as old as
its last fetch, requests that overtake each other, and dialogs, undos and page
changes in between.

## 1. Inventory

### Components that are modelled

| Component | State | Operations | What is hard | Modules |
|---|---|---|---|---|
| Session tokens (`internal/account/store.go`) | `auth_sessions`, `auth_used_refresh`, `auth_users.banned_at`; the client's pair | login, authenticate, refresh, logout, ban, unban, account deletion, prune | a refresh is five statements under READ COMMITTED; replay, grace period, lost answers, several tabs | `TokenRotation`, `SessionPromise`, `RefreshProofs` |
| Sign-in (`store.go`, `http.go`, `admin_users_ext.go`) | `auth_challenges`, `auth_identities`, `auth_users`, sessions | begin, attempt, complete, link, ban, unban, delete | five kinds of locks; concurrent logins with one code; first sign-ins of one identity; ban during login; a deadlock | `AuthLogin`, `AuthLoginProofs` |
| Shared skin jobs (`account/skin_jobs.go`, `server/skin_jobs_shared.go`) | `skin_jobs` rows, one worker per accepted job | create under caps, heartbeat, finish, poll, delete, prune, shutdown | replica crash, stale heartbeats, caps over all replicas, unknown commits | `SkinJobs`, `JobPromise`, `ReplicasProofs` |
| Status probe (`server/admin_status.go`, `account/admin_metrics.go`) | session advisory lock, verdicts per minute, daily counters, incidents | lead, judge, open, resolve, record | leadership lost unnoticed; two transactions per judgement; administrators beside the probe | `StatusProbe`, `ReplicasProofs` |
| Command line session (`cmd/msime-cloud/session.go`, `main.go`) | `credentials.json`, lock file | sign-in, logout, refresh under the lock file | processes, stale locks, crashes, slow requests | `CliCredentials`, `RefreshProofs` |
| Community review (`account/admin_moderation.go`, `admin_users_ext.go`, `community_resources.go`, `community_candidate.go`, `admin-web/src/pages/community`) | `moderation`, `previous_moderation`, `moderation_reason` of every item, `banned_at`; the cards on moderators' screens | upload, edit, delete, approve, remove, restore, undo, ban, unban | a ban removes what is published while moderators act; cards go stale; undos carry old state | `CommunityModeration`, `CommunityModerationProofs` |
| User dictionary (`account/dictionary_*.go`, `ranking.go`, `positions.go`, `snapshot_*.go`, `community_resource_apply.go`) | five tables per user and a revision; copies on devices | edit, import, word pack, managed edit, selection, position, candidate deletion, export, restore, snapshot, change feed | seven writers keep five tables and a log in step; devices page while others edit | `UserDictionary`, `UserDictionaryProofs` |
| Dictionary submissions (`server/word_submissions*.go`, `account/shared_lock.go`, `server/admin_dict_prs.go`) | files, branches and pull requests at GitHub, a session advisory lock | submit to the rolling pull request; trim, approve, reject it | every call to GitHub is a step; the lock can be lost; a call without an answer may be applied later; reviewers take no lock | `DictSubmissions`, `DictSubmissionsProofs` |

Of the admin console, where `pages/...`, `ui/...` and `shell/...` are below
`admin-web/src`:

| Component | State | Operations | What is hard | Modules |
|---|---|---|---|---|
| Toasts and sign-out (`ui/toast.tsx`, `api/client.ts`, `auth.tsx`) | the toast, a decision held back for four seconds, requests under way, the session | decide, offer, undo, flush, hide, log in and out | timer, undo, the next toast, page hiding and sign-out meet | `Toasts`, `DecisionProofs` |
| Dictionary pull requests (`pages/dictpr`, `server/admin_dict_prs.go`) | list, detail, checked boxes per head, branch and pull request at GitHub | approve, reject, trim, check, leave and return | boxes are numbers into a head that moves on | `DictReview`, `DecisionProofs` |
| Crash groups (`pages/crash`, `admin_crash_*.go`) | status, override, link to the issue | set status, undo, create the issue | optimistic values, an issue recorded or lost | `CrashDesk`, `DecisionProofs` |
| Issues (`pages/issues`, `ui/data-table.tsx`, `server/admin_issues.go`) | rows, filter, selection, calls, the undo offered | triage, assign, duplicate, close, reopen, in batches, and undo | stale rows, partial failure, undo of a part | `IssueTriage`, `ConsoleProofs` |
| Live log (`pages/logs`, `api/logs.ts`, `server/admin_logs.go`) | rows, pause buffer, cursor, the stream | connect, backfill, resume, poll, break, pause, filter, retry | late lines, overlap, full pages, failing queries, resumption, gaps | `LogStream` |
| Sensitive words (`pages/words`, `account/sensitive_words.go`) | rows, selection, batches in chunks, the form | add, set level, delete, in batches | a later chunk fails | `WordList`, `ConsoleProofs` |
| Notices (`pages/notice`, `account/admin_notices.go`) | drafts, form, requests | save, publish, archive, edit | two administrators, late answers, a push in the transaction | `NoticeDesk`, `ConsoleProofs` |
| Releases (`pages/release`, `server/admin_releases.go`) | releases at GitHub, dialog, requests | edit notes, withdraw, trigger | read and patch are two requests | `ReleaseDesk`, `ConsoleProofs` |
| Notifications (`shell/notifications.tsx`, `account/admin_notifications.go`) | notifications, watermark, marks, the bell | insert, commit, open, mark one, mark all, poll | stamped at insertion, visible at commit | `NotificationBell`, `ConsoleProofs` |
| Own profile (`pages/me`, `account/admin_me.go`) | preferences, sessions, token; one cached copy | switch, revoke, regenerate, refetch | optimistic updates with rollback beside refetches | `Profile`, `DecisionProofs` |
| Users (`pages/users`, `admin_users_ext.go`) | account, list, drawer, toast | ban, unban, sign out, undo | list and drawer of different ages | `UserAccounts`, `DecisionProofs` |
| Community list (`pages/community`, `account/admin.go`) | URL, search box and its timer, page, last list | search, turn, review | an item leaves the last page | `CommunityBrowse`, `DecisionProofs` |
| Roles and members (`pages/perm`, `admin_members.go`, `admin_permissions.go`, `admin_auth.go`) | members, sessions, matrix, audit log | add, enable, disable, revoke, set role, toggle a cell, sign in | a sign-in beside the change; two owners | `AdminMembers`, `ConsoleProofs` |

### Not modelled

| Component | State and operations | Why not |
|---|---|---|
| The rest of community content (`community*.go`) | downloads, ratings, saves, reports, categories, private libraries, visibility | counters and quotas beside the review; open |
| The cache of the sensitive words, service metrics, rate limits, upload slots, in-process skin jobs, clipboard, preferences | caches and counters per replica, one mutex or one statement each | open, see the plan |
| Read-only pages (cloud, overview, status, downloads, search) | they show what they read | no state of their own |
| Layout, theme, charts | rendering | nothing depends on it |
| Translation, transcription, chat, GitHub client, engine, skin catalog | requests to services outside the repository | I/O |

What the modelled components leave out is in the notes of
`PROJECT.json`: permission checks of single requests, the parsing of files,
expiry of admin sessions, the loopback sign-in of the command line.

### How the components interact

Every request is authenticated against `auth_sessions` (session tokens), which
only sign-in inserts into. `auth_users` is the point where they meet: refresh
reads `banned_at`, sign-in takes the row FOR SHARE, a ban and a deletion take
it FOR UPDATE, and every edit of personal data takes it FOR UPDATE first
(`userDataTransaction`), which serialises the edits of one user. Community
word packs are applied to the user dictionary. A ban ends the sessions of an
account and takes down what it has published, in one transaction. The status
probe and the skin jobs use only their own tables. The pages of the console share the toast, the
session and React Query's cache; a page is unmounted before the next is shown,
so two pages meet only in a toast, where the decision held back for one of them
is sent while another is open. The pages of dictionary pull requests and crash
groups are therefore written over `Toasts`. The command line client is a client of the
session endpoints and has to cope with their answers (200, 401, 409
"superseded").

## 2. The models

Common conventions. A transaction is split into steps exactly where another
transaction can come in between: at its statements when they read something
another may commit, in one action when locks taken first exclude that. A row
lock is derived from the steps of the transactions that hold it. Time is a
clock or an age in ticks. Random ids and tokens are fresh values. Validation
of texts, wording, and HTTP are left out. Definitions marked `Mutant` next to
the operator they would replace are plausible bugs; each property is shown to
notice one of them.

**TokenRotation.** A pair is a number. `sess` is `auth_sessions`, `used` is
`auth_used_refresh`, `jar` the pair the client keeps, `req` the refreshes in
flight. `Store.Refresh` is `Begin`, `SelectRow` (SELECT ... FOR UPDATE, waits
for the row), `Rotate`, `CheckUsed`, `Revoke`; `banned_at` is read from the
snapshot of the first statement while the row is re-read after a wait, as
PostgreSQL does. With `StaleCopies` any pair ever issued may be presented;
`LossyReplies` loses answers. `SessionPromise` is what clients are promised:
start, renew, end; `KeepsPromise` is the refinement, with a session current
while its row is open.

**AuthLogin.** Challenges, identities, users and one request per login:
`Attempt`, `CheckPrincipal`, `CheckCredential`, `Consume`, `Identify`,
`ReadAccount`, `CommitLogin`, each of which may fail. Locks: the deleted
challenge row, the advisory lock of the identity, FOR SHARE on the user.
`BeginBan`/`CommitBan` and account deletion take FOR UPDATE; a deletion
cascades to challenges, which can deadlock with a linking login, and
`ResolveDeadlock` is PostgreSQL's choice of a victim.

**SkinJobs.** `row` is the table, `work` the workers: creation (caps counted
and inserted under an advisory lock with the transaction's start time), start
of the worker, heartbeats, finish, poll, delete, prune, shutdown, crash.
`outages` is chosen at Init: in those behaviours statements may fail and a
commit may be unknown to the replica. `JobPromise` is what polling may show.

**StatusProbe.** One service. `probe` is what a replica believes and has read,
`holder` who really has the advisory lock, `verdict` the stored verdicts,
`open` the automatic incident. The judgement reads earlier verdicts, opens or
resolves, then records, in separate transactions. `faults` is chosen at Init.
Its names (`Probers`, `ProbeNext`, `ProbeSpec`) differ from those of SkinJobs, so
that one module can extend both.

**CliCredentials.** The file is one variable, the lock file another; each
system call that others can come between is an action. The server is
TokenRotation in short. `failures` counts crashes and lost requests; `slow` remembers
that a request took longer than a lock takes to become stale. Its names
(`CommandNext`, `SignIns`) differ from those of TokenRotation, which MCClients
extends as well.

**UserDictionary.** Every edit is one action because `userDataTransaction`
locks the user first. `dict` has the state's revision, `entries`
(`user_dictionary_entries`), `tables` (overlay, positions, selections) and the
change `log`. `Edited` is `dictionaryEdit`, used by edits, imports and word
packs; managed edits, selections, positions and candidate deletions write the
tables on their own, as in the code. `Restored` gives the rows of a snapshot
revisions by their place in the file. A device takes a snapshot (`FullSync`)
or the next change (`Page`). The engine's ranking is an arbitrary choice of
new weights for words it finds. Edits that are given the state's revision are
made by a device that is up to date (`Current`).

**CommunityModeration.** `rows` is the community tables by id: owner, versions
(`created`, `updated`, as numbers of uploads), whether the word list flags the
content, and the three columns of moderation. The operators on rows
(`Approved`, `Removed`, `Restored`, `ReviewAgain`) are the CASEs of the UPDATE
statements. `desk` is one page of the console per moderator: the card it
loaded (`Look`), the request under way, and the toast that offers to undo.
Approvals and restores are two statements, the guard that locks the owner FOR
SHARE (`Guard`) and the update (`Update`), and may fail between them; a removal
(`TakeDown`) and an undo of a review (`UndoReview`) are one statement and have
no guard; undoing a removal (`UndoRemove`) is a restore. What an author does, a
ban and an unban take the account FOR UPDATE and wait for the share lock. Three
variables are history: `reviewed`, the versions that were approved while on
screen; `before`, the state a ban took an item from; `lapses`, whether one of
two things has happened that the code has no guard against: an update has hit a
row whose owner its guard had not locked, because the row did not exist or was
another's at the guard ("guard"), or an undo has changed an item that was no
longer as the moderator had left it ("undo"). Left out: batches of several ids,
approvals without a pin (the console always sends one), the word list's own
changes, account deletion, private items and the reports that lead moderators
to an item.

**DictSubmissions.** `main`, `branch` and `pulls` are the repository: a file is
the sequence of its entries, a blob SHA is that content, a commit SHA the number
of commits on its branch, a branch is named after the second it was made in. A
write is a record, and a call that writes has three outcomes: `Lands`, `Refused`
by what GitHub compares (the blob SHA of a file, the head of a merge, the name of
a branch), or `Unknown`, after which the write is in `late`, from where GitHub
may apply it at any time (`Arrive`). `sub` is a submission: `Submit` takes the
lock, then `List`, `Read`, `Branch`, `Put`, `Open` are the calls of
`wordSubmitter.submit` in their order, with the answer each failure gives.
`LoseLock` ends the database session of the holder, which goes on without
knowing. `rev` is a review: `Look` is what the page read; `Keep`, `ApproveAll`
and `Reject` are `prepareKeep` and `openDictPull`; `Trim` is one commit of
`trimFiles`, `Decide` the merge or the close. `ByHand` is a maintainer on GitHub.
Every request runs on a replica of its own, so the mutexes of a process do not
help. The history `wrote` says whose entry reached a branch, `merges` what each
merge was to bring and brought. Left out: titles, comments, the audit log, the
copy kept for the submitter's note, the validation of entries, submissions of
several lines, and edits of the branch by maintainers. `DictReview` is the other
half, the page of one reviewer with its undo and its checked boxes.

**The console.** A page is a cached copy of what the server has, which each
module keeps beside the server's state: reading the list is an action of its
own (`Read`, `ReadPage`, `Refreshed`), so that every button acts on a copy of
any age. A request is a record from the click until its answer; the handler
runs in between, in one action where it is one transaction, and its answer may
be lost. A handler of several requests or statements that others can come
between is as many actions: `ReadRelease` and `Patch`; `Begin`, `Update`,
`Delete` and `Commit` of a change of members; `Allow`, `Insert` and `SignedIn`
of a sign-in. Other administrators are the same actions, or `Elsewhere` where
only their effect matters.

- `Toasts`: `pending` is the decision that waits, `timers` those whose timer is
  set, `wire` what was sent. `Flush` is `flush`, called by the timer, the next
  toast, page hiding and sign-out. No time is modelled: a timer may fire
  whenever it is set.
- `DictReview` (over `Toasts`): `pull` and `branch` are GitHub; checked boxes
  are kept per head and index, as in the page; `Accepts` is the check of the
  head, `Merge` what approval ships.
- `CrashDesk` (over `Toasts`): one crash group; the optimistic status, the
  undo of a change, the issue that waits and may not be recorded.
- `IssueTriage`: `Call` is what a batch sends, `Effect` what GitHub does per
  issue, `Partial` its failures, `Undoable` the rows the undo is offered for.
- `LogStream`: `Connect` is `adminLogsStream` up to its loop, with the backfill
  (`Begin`) or from the client's cursor (`Resume`); `Poll` is one turn of the loop
  with `pollLogs`: `SkipAhead`, what is asked for (`Unread`), and the pages, which
  all come (`Answered`) or fail after some (`Failed`). `tail` is `logTail`;
  `MergeRows` is `mergeRows`; `cursor` and `buffer` are the page's resume point and
  pause buffer. A line is its instant, of which there is one line at most, and the
  instants are the nanoseconds of the code. `cut` remembers which lines no stream
  has to show any more (see `LogIsComplete`).
- In `WordList` a word is a row of `admin_sensitive_words`, by its id, as the page
  and the actions name it.
- `WordList`, `NoticeDesk`, `ReleaseDesk`, `NotificationBell`, `Profile`,
  `UserAccounts`, `CommunityBrowse`, `AdminMembers`: as in the inventory, their
  handlers named for what they do, with `history`-like variables (`told`,
  `pushed`, `listed`, `issued`, `lifted`) for what the properties compare.
- `AdminMembers` counts the eras of a member's credentials in `cleared`; a
  session is the era it began in.

**MCConsole** instantiates all of them but AdminMembers, which it extends. Since
a page is unmounted before the next is shown, a behaviour is one page's, chosen
at Init. The permissions page has its own variables, at rest on the other pages;
the variables of another page's module are `v1`, `v2`, ... there, and those it
has no use for are `None`. The review has two kinds of behaviours: with one pull
request that gets several heads and boxes while the others rest (`OnePull`), and
with all of them, which share the toast, while nobody pushes and the page is not
left (`AllPulls`). The page "shell" is no page but what is around all of them:
`Toasts` on its own, with the sign-out, which takes every page away. What the pages
are about and the bounds of their modules are constants of MCConsole, so that what
is proved of it holds for every value of them. Its assumptions besides the pages' own (`StateAssumption`,
`FormAssumption`, `QuestionAssumption`, `CloseAssumption`) only say that `None`, the
absence of a state, a profile, a form or a question, is not one.

**MCReplicas**, **MCWrites**, **MCClients** and **MCLiveness** compose modules in
the same way: SkinJobs and StatusProbe; TokenRotation and DictSubmissions;
CliCredentials and the tabs of TokenRotation; TokenRotation, AuthLogin and
CliCredentials under fairness. These components share no state, so a behaviour
is one component's, with the other at rest. MCReplicas and MCClients extend both
their components, so that the properties of the runs are the definitions of the
component modules, which the theorems name.

## 3. The runs

| Run | Instance | What it asks |
|---|---|---|
| `sessions` | sessions: 2 of one user, 2 refreshes, clock to 3 so that sessions expire and are pruned, 3 pairs, every old pair may come back, answers get lost; submissions: 2 visitors and 2 reviewers of whom 3 act, 2 files, 2 entries, branches named after 2 seconds, 1 failure | `OneSuccessor`, `LateReplayEndsFamily`, `RevokedForGood`, `NoTokensForBanned`, and `KeepsPromise`, the refinement of SessionPromise; `AnswersAreTrue`, `RepositoryIsKept` and `ReviewedOnly`, see below |
| `login` | 3 logins, 3 challenges, 2 identities, 2 users, ban, unban, deletion | a verified challenge is spent, for one session at most (`SpentOnce`); bans are complete; an identity has one account; linking stays with the account that started it |
| `replicas` | jobs: 2 jobs, 2 owners, 2 replicas, caps of 1, lifetime 4, clock to 5; probe: 2 replicas, 6 minutes, incident after 3 bad, resolved after 2 good | caps at every moment; jobs settle (`JobsSettle`); polls only move forward (`KeepsPromise`, JobPromise); a minute counts once, with the streak of the stored verdicts (`MinutesCountOnce`); incidents follow streaks and, while nothing fails, administrators (`IncidentsFollowStreaks`) |
| `clients` | commands: 3 commands, 2 sessions, 3 tokens, 1 failure, a lock stale after 1 tick, requests of up to 2; tabs: 3 clients of one jar, round trip 1, grace 3, clock to 6, 4 pairs | the token kept is the newest while nothing fails, however long requests take, and none is replayed until one outlasts the lock (`NewestIsKept`); tabs that refresh at once never log out |
| `liveness` | 1 session and 2 refreshes; 2 logins, 2 challenges, 1 identity; 2 commands with 1 failure | every accepted request ends (`EveryRequestEnds`), every wait for the lock file ends |
| `dictionary` | 2 words (one in the base dictionary), 2 weights, 1 position, 1 device; edits until the log has 4 changes, restores beyond | the overlay is the projection of the log; a device that saw every change agrees; what is exported can be restored; a revision identifies the content of an entry |
| `moderation` | 2 authors, 1 id, 2 moderators, 2 uploads, symmetric | nothing of a banned author is public; approved content was reviewed in that version; an unban gives back what the ban took; an undo puts back the card |
| `console` | one page per behaviour, see below | see below |
| `probe_overridden` | 2 replicas, 4 minutes | finding 1 |
| `cli_slow` | 2 commands, requests longer than the lock's age | finding 2 |
| `moderation_undo` | 1 author, 1 id, 1 moderator, 2 uploads | finding 3 |
| `console_release` | 1 release, 2 texts, 1 other administrator | finding 4 |

Both halves of `sessions` are about writes that may have happened although
nobody was told. Of submissions it asks:

- `AnswersAreTrue`: a visitor told that nothing was written can submit again,
  because nothing was and nothing will be; one who is given a pull request has
  the entry on its branch.
- `RepositoryIsKept`: no file of a branch or of the base holds an entry twice,
  even when a submission goes on without its lock or a write is applied late;
  and while nothing fails there is one rolling pull request, not two.
- `ReviewedOnly`: a merge by a review brings the entries the reviewer kept and
  none that landed since; an entry disappears from a branch only by a review that
  saw it and did not keep it. Between two commits of a trim a submission may
  land in another file, where the blob SHA does not help: the parent of the
  commit does.

The properties of `console`:

- `DecidedOnce`: a decision held back for its undo is sent once or undone, also
  when a sign-out or a hidden page sends it early, its undo window is its own, no
  visit decides a pull request twice, and a crash group gets one issue.
- `MergedAsReviewed`: a merge ships the entries checked, on the head seen.
- `ShownIsServed`: a value shown before the server has it is on its way; with
  nothing under way the page shows the server's state, and a page of the list
  that exists.
- `LogIsComplete`: rows in order, none twice, and between the oldest row held and
  the cursor none missing unless the page says so, through breaks, pauses, failed
  queries, full pages and skips. The code has exceptions, which `cut` names and the
  property leaves out: a resumption goes back an hour at most and sends no gap
  event for what is older, nor for the instant of the cursor itself; if the
  query of the backfill fails it is not repeated; a late line is looked for during
  the overlap only, not at all while the stream catches up after full pages, and
  not before the cursor of a resumption. See "Not kept by the code" in section 4.
- `BatchesEndAsMeant`: an undo gives each issue its own previous state and
  assignee, where the page had shown it rightly; no failure, cancelled dialog or
  row that left keeps the batch buttons disabled for good.
- `ToldIsDone`: success is reported only of what was done, and closes only the
  form it was sent from.
- `PushedIsPublished`: a notice is pushed once, with the text published.
- `ReadWasMeant`: read means opened, marked, or older than something on screen
  that was marked, and stays.
- `MembersAsDecided`: no session of a member predates the last deletion of
  their credentials, whatever sign-ins were under way; the limit holds over
  concurrent additions; the audit log replays to the matrix.

**Bounds.** Two of each actor is where races appear; `login` needs three
logins, because one to make the account, one to link and one to interfere are
different. The clocks reach past every period of the instance once (grace,
session, lease, stale, lock age, lifetime of a job), so both sides of each
comparison occur. The tabs have a grace of 3 ticks because their claim is about
half of it. The probe runs for six minutes so that a streak can open an
incident, end and start again. In `dictionary`, four changes allow edit, export,
edit, restore and an edit after it; one position for two words makes
displacement happen. In `moderation` the statements of different ids do not
meet, so that one id is enough; two authors may hold it one after the other,
and two moderators may hold cards of different age; an upload and one edit, or
two uploads, make a card stale. The limit of 100000 entries is `MaxEntries`;
with two words it is not met there.

Of submissions and reviews three act, in any mix, because the races are between
two of a kind, or between one and a submission that lost its lock or a write
that comes late; two files make a trim of two commits; two branch names let a
second pull request be opened; one failure is a lost lock, a crash or a write of
unknown outcome, and a maintainer may merge or close at any time. With a pull
request at the start, the case of a second submission needs only one more.

In `console` the pages meet another administrator, at least once per behaviour. Two
heads and two visits are one more than the reviewer has seen; four instants after
the first fill pages of two lines (one page per poll), overflow a list of two, let
a stream fall behind by more than the lag of one and skip a line or more, and put a
cursor out of reach of a resumption (`MaxAge` 2); one line may be late. `MaxAge`,
`Window` and `Backfill` are limits of the code as well, `LogPage` and `LogPages` its
rate limit. Two roles make a member change from one to the other; two words in
chunks of one make a batch whose second half fails; two calls make a batch and its
undo; two texts tell the published from the typed; two notifications commit in
either order; two items on pages of one empty the second; two members with a limit
of one meet it (`BatchLimit` and `ListLimit` are limits of the code, smaller here).
`MaxTime`, `MaxPairs`, `MaxMinute`, `MaxTokens`, `MaxVersions`, `MaxFailures`,
`MaxLog`, `MaxWire`, `MaxHead`, `MaxVisits`, `MaxCalls`, `MaxEdits`, `MaxChanges`,
`MaxIssues`, `MaxElsewhere`, `MaxText`, `MaxSpread`, `MaxItem`, `MaxConnections`,
`MaxSecond`, `MaxRequests`, `MaxTyped`, `MaxWritten`, `MaxMarks`, `MaxSent`,
`MaxStatuses`, `MaxOpened`, `MaxReviews`, `MaxLine`, `MaxLate`, `MaxEvents` and
`MaxFaults` are the bounds that stand for no limit of the code. Deadlock is not
checked, because at these bounds the systems may stop.

**What these instances do not show.** With `MaxSent` 1 no second decision is sent
while one is on its way, so that only `OnceDecided` (section 5) says for any
bound that a visit decides a pull request once. With one issue no batch fails in part;
`BatchesAlwaysEnd` is about any number of issues. With one cell that
can be revoked, no owner clicks another one and then the first again while its change
is under way, but two owners click it at once; `MembersDecided` (section 5) is about any
cells. That a crash group gets one
issue rests on the advisory lock under which it is created, which the model never
loses. `TabsNeverLogOut` is about answers that arrive, since a lost one does sign
the tabs out; lost answers are in the other half, `LateReplayEndsFamily` in `sessions`.
That only the user who began a linking login completes it is a guard
(`CheckPrincipal`), which `LinkedToStarter` takes as given. The personal access tokens
of administrators are not modelled.

**Fairness.** Only `liveness` assumes any. A request the server has accepted
runs to its end (a Go handler has no reason to stop); strong fairness, because
PostgreSQL queues the waiters of a lock, so that a waiter is not overtaken for
ever. A client gets an answer or gives up. An administrator's transaction ends
in one handler. For the command line, a live process goes on, and time passes.
Nothing assumes that users act, that crashes stop or that requests succeed.

## 4. Findings

1. `probe_overridden`. A comment says that an incident opened in a bad streak
   is not opened again after an administrator resolves it while the service is
   still failing (`account/admin_metrics.go:226`). Opening the incident and
   recording the verdict that remembers it are two transactions
   (`server/admin_status.go:374`): when the second fails, or the answer of the
   first is lost, the next probe does not know of it and opens it again. While
   nothing fails the promise holds (`CalmAdminNotOverridden`, in `replicas`).
2. `cli_slow`. `store.lock` is said to serialise refreshes across processes
   (`cmd/msime-cloud/session.go:109`), a lock older than a minute being that of
   a dead process (line 36). A request may take five minutes
   (`main.go:56`), so a slow refresh is joined by a second one.
3. `moderation_undo`. After an author's edit "restoring it later never publishes
   the unreviewed edit as approved" (`account/admin_moderation.go:585`). An
   approved item is removed; a moderator loads its card; the author edits it, so
   that its restore state is pending; the moderator restores it and undoes
   that. The undo sends the restore state of the card, approved
   (`admin-web/src/pages/community/actions.ts:52`), which the UPDATE takes as it
   is (line 333), and the next restore publishes the edit as approved. Neither
   a restore nor an undo is pinned to a version as an approval is.

4. `console_release`. "A withdrawn release keeps its withdrawal block in front
   of the new text" (`server/admin_releases.go:611`). The handler reads the
   release and patches its body in a second request, with the block it found in
   the first (line 634). A withdrawal by another administrator in between loses
   its block.

More statements of the sources do not hold in every behaviour; they are written
down in the modules, marked "Not kept by the code", without a run:

- `Toasts.LogoutFindsNoneWaiting` (`auth.tsx:48`): a decision made while the
  sign-out awaits the earlier ones is still waiting when the session ends.
- `CrashDesk.NotOfferedAgain` (`pages/crash/actions.ts:19`): the address of an
  issue that was not recorded is kept until the page is left.
- `IssueTriage.UndoReturnsAll` (`pages/issues/index.tsx:152`): rows that were
  not as the page showed them are reversed from what it showed.
- `NotificationBell.ArrivedLaterStaysUnread` (`shell/notifications.tsx:43`): a
  notification stamped before the newest on screen may commit after it.
- `LogStream`: "reconnect with the cursor and go on where it broke"
  (`pages/logs/index.tsx:162`), "the lines after the cursor" (`server/admin_logs.go:512`).
  A page that was away for more than an hour goes on an hour ago (line 609) and is
  told of no gap: its rows continue as if nothing were between. A line at the very
  instant of the cursor is left out, since a poll ends before the instant at which
  it puts the cursor (line 528) and a resumption begins after it (line 687). After
  a backfill that failed (line 693) the cursor is at the present already; if
  the look-back of the first poll fills its pages, `max` (line 554) keeps it there,
  and the lines between the last one read and the cursor are never read. `cut`
  contains these lines.
- `UserAccounts.RebanKeepsReason` (`pages/users/actions.ts:55`): from a list
  older than the last ban, the undo of an unban carries the reason of that list.

- `DictSubmissions`: "a merged or closed pull request is never reused"
  (`server/word_submissions_github.go:110`). A submission lists the open pull
  requests and writes several calls later. When the one it found is merged or
  closed in between, the write still lands on its branch, and the visitor is
  given its number.

Two gaps of the review were met and are conditions of its properties, not runs. The
guard of an approval or a restore locks the owners of the rows it finds: if the
author deletes a removed item before the guard, and publishes it again and is
banned before the update, the update makes an item of a banned author public.
And undoing an approval leaves the reason as it is, which brings the
automatic warning back only if no removal and restore, or ban and unban, has
cleared it meanwhile.

## 5. What is proved

### TokenRotation

`RefreshProofs` proves, for any finite number of refreshes and any number
of users, sessions, ticks and pairs, from `RotationAssumption` only:

- `TypeCorrect`: `Spec => []TypeOK`, which includes the foreign key of used
  tokens on sessions;
- `RotatedAtMostOnce`: `Spec => []OneSuccessor`;
- `RevocationIsFinal`: `Spec => RevokedForGood`;
- `ReplayEndsFamily`: `Spec => []LateReplayEndsFamily`;
- `BannedGetNoTokens`: `Spec => NoTokensForBanned`;
- `PromiseKept`: `Spec => KeepsPromise`, the refinement of SessionPromise;
- `TabsStaySignedIn`: `SharedJar => (Spec => TabsNeverLogOut)`;
- `Invariance`: `Spec => []IInv`.

`RotationAssumption` says that there is a user, that `NoSession` is no session,
that the requests are finitely many and that periods and bounds are numbers.
The number of pairs is bounded for TLC; the proof is for every bound.

None of these properties is inductive. `IInv == TypeOK /\ LockInv /\
PairInv` is:

- `LockInv`: no two transactions hold the same row; one that is about to rotate
  holds an open row that still has the pair the transaction presented. This is
  the fact the code relies on when it updates by id without looking again.
- `PairInv`: pairs are handed out in order and are unique to a row; what was
  rotated is older than what it was rotated into, and than what the row has.

`OneSuccessor` follows: a second rotation of a pair needs a row that has it
again, and the row only ever has newer ones. `RevokedForGood` follows from
`LockInv`: revocation waits for the row lock, so no transaction that may still
write holds the row. The proofs go action by action.

`ReplayEndsFamily` needs what a request still knows when it looks the used token
up in a second statement (`ReplayInv`): no session that was live when it began has
the pair it presented, for the pairs that are handed out later are new. So the
family it then revokes is the only one, and it stays over. `BannedGetNoTokens`
needs `BanInv`, that no open session is a banned user's, and that a rotation finds its
row open under the lock. `PromiseKept` maps an open row with its pair to a
current session and takes each statement to start, renew, end or a stutter;
that the pair of a renewal is fresh is `PairInv`.

`TabsNeverLogOut` is a claim about durations, with the hypothesis `SharedJar ==
~StaleCopies /\ ~LossyReplies /\ Latency + Latency < Grace`: the tabs present what is
in the jar they share, every answer reaches it, and a round trip takes less than
half of the grace period. All three are needed: a copy that is older than the jar,
or a jar that missed an answer, presents a pair of any age, and the code then ends
the session as it means to. The `clients` run is an instance. `TabInv` has that an
open session's jar holds its pair, or the pair rotated last while the answer is on
its way (`JarInv`); so what a request presents was rotated at most a round trip
before it was sent (`SinceInv`), it takes at most another (`TimeInv`), and its
lookup finds the pair within the grace (`SafeFor`). `OwnInv` and `OnceInv` keep the
sessions apart: a pair belongs to one, and on its way to the jar it is nowhere else.

### AuthLogin

`AuthLoginProofs` proves, for any logins, challenges, identities and users, from
`LoginAssumption` only (some attempt is allowed, `None` is none of them):

- `ChallengesSpentOnce`: `Spec => []SpentOnce`;
- `AccountsReachable`: `Spec => []NoOrphanAccount`;
- `LinksStayHome`: `Spec => []LinkedToStarter`;
- `BansAreComplete`: `Spec => BanIsComplete`;
- `LoginInvariance`: `Spec => []IInv`.

`IInv` is about the five kinds of locks. `LoginInv` says what each step of a login
has read and still holds: its challenge while it is in the transaction, that its
identity still leads nowhere while it is about to create an account, its user
not banned before the commit. `Apart` says of two logins that they are not in one
challenge's transaction, nor past one identity's advisory lock, nor both given
tokens for one challenge. `AdminInv` says that who has locked a user to ban or
delete has nobody else at the row. The victim of a deadlock ends like a
transaction that failed.

### Shared skin jobs and the status probe

`ReplicasProofs` proves, for any jobs, owners, replicas, caps and periods, from
`SkinJobsAssumption` only (`None` is no owner and no replica, the numbers are
numbers):

- `CapsAlwaysHold`: `Spec => []CapsHold`;
- `JobsAlwaysSettle`: `Spec => []JobsSettle`;
- `PollingKeepsPromise`: `Spec => KeepsPromise`, the refinement of JobPromise;
- `JobInvariance`: `Spec => []IInv`.

`IInv` has, per job, that times run behind the clock, that a worker does not
outlive its timeout, and what each write left (`JobInv`), the caps themselves, and
that the rows are finitely many: only what was inserted is there, although the ids
are not bounded. Between insertions the rows that count only get fewer, since
neither a heartbeat nor a result brings a stale row back; and an insertion
counts first, at the start of its transaction, when no fewer rows were live.

And, for any replicas, thresholds and minutes, from `ProbeAssumption` only (`Free`
is no replica, the thresholds are positive):

- `MinutesAlwaysCountOnce`: `ProbeSpec => []MinutesCountOnce`;
- `IncidentsAlwaysFollowStreaks`: `ProbeSpec => IncidentsFollowStreaks`;
- `ProbeInvariance`: `ProbeSpec => []ProbesInv`, and `CalmInvariance`:
  `ProbeSpec => []CalmInv`.

`ProbesInv` says that a replica past its confirmation holds the lock or lost it this
minute, and builds on the newest verdict before this minute (`ProbeInv`); and
that a stored streak has its verdicts behind it (`VerdictInv`, by induction over the
steps, not over the streak). That an administrator is not overridden holds only
while nothing fails (finding 1 is the rest) and needs `CalmInv`: then one replica
judges a minute, and an incident of the streak is known to the newest verdict
or to the judgement about to store it.

### CliCredentials

`RefreshProofs` proves, for any commands and bounds, from
`CredentialsAssumption` (the sessions and the bounds are numbers):

- `NewestAlwaysKept`: `CommandSpec => []NewestIsKept`;
- `CredentialsInvariance`: `CommandSpec => []CommandInv`.

Nothing is assumed of the times: a request may take five minutes and a lock is
stale after one (finding 2). Two things are promised while no process died and no
answer was lost. Until a request outlasts the lock (`slow`), no command replays a
token: one command is past the lock, its lock is no older than its request
(`Serialized`), and what is in the file, or in its hands, is good (`Newest`). And also
afterwards, with several refreshers: a token that a command brings is known to
nobody else, so that it stays the newest until it is put (`Unspent`), and what is
in the file is good or about to be replaced (`Replaced`), so that what is kept when
all is quiet can be refreshed. `clients` has requests that outlast the lock.

### UserDictionary

`UserDictionaryProofs` proves all that `dictionary` checks, for any keys, weights,
positions, packs, devices and bounds, from `DictionaryAssumption` only (the keys are
finitely many, packs and texts are sequences of keys with weights, weights, positions
and counts are positive numbers, the bounds are numbers):

- `OverlayAlwaysFollowsLog`: `Spec => []OverlayFollowsLog`;
- `DevicesAlwaysAgree`: `Spec => []CaughtUpDevicesAgree`;
- `ExportAlwaysRestorable`: `Spec => []ExportIsRestorable`;
- `RevisionAlwaysTellsContent`: `Spec => RevisionTellsContent`.

The first two rest on one fact, `Follows(t, x)`: the changes after the revision of
a copy `x` lead, change by change, from `x` to the tables of `t`. `IInv` says so
of every device, and of an empty copy at revision 0 (`Fresh`), from which the overlay
is what the log gives each key (`GoodProjects`). A row names its revision before the
next change is logged, so that a page of the log takes a device one change on. `IInv`
also says that the log's revisions increase (`LogOK`), that entries and overlay agree
and ids differ (`EntriesOK`), that a position is held by one word (`PlacesOK`), and
that there are not too many entries. `ExportIsRestorable` is these last three, and
the lemmas about writers (`EditedOK`, `ManagedOther`, `PlacedOK`, `RankedOK`, ...) say
that each keeps all of `Good` and that what it does to an entry has a new
revision (`Later`), which is `RevisionTellsContent`.

A restore writes one change for each record of a file, so the copies in between have
only a part of the file's tables: `RestoredOK` follows them, record by record, from
the reset to the whole file. A pack is as many edits as it has entries. The
recursive function that applies them exists (`StepsExist`), by the smallest number of
entries for which it would not; with an operator for the step that would be an
induction theorem that the provers cannot use, here the step is a function.

### CommunityModeration

`CommunityModerationProofs` proves, for any number of authors, ids and
moderators and every bound on uploads, from `ModerationAssumption` only (there
is an id, `NoUser` is no author, the bound is a number) and `NoRowAssumption`
(`NoRow` is no row):

- `TypeCorrect`: `Spec => []TypeOK`, with "an item has a restore state exactly
  while it is removed";
- `BansHold`: `Spec => []BannedOwnersHidden`;
- `ReviewHolds`: `Spec => []ApprovedWasReviewed`;
- `UnbanHolds`: `Spec => UnbanRestoresBanned`;
- `UndoHolds`: `Spec => UndoPutsBack`;
- `Invariance`: `Spec => []IInv`, and `MarksKept`: `Spec => []KeepInv`.

`BannedOwnersHidden` is not inductive: it needs to know that nobody can be
banned between the statements of an approval. `IInv == TypeOK /\ DeskInv /\
LockInv /\ BannedOwnersHidden`, where `DeskInv` says that a page that is not
idle shows a card and `LockInv` that the author a guard has locked is not
banned: a ban waits for the share lock. An update that publishes an item then
either hits the locked author's row, or is a lapse. `ReviewHolds` rests on a
second invariant, `ReviewInv`: not only what is approved, but every removed row
that would be restored as approved, is in a reviewed version, and so is what a
card may put back. Ban, unban and removals
move an item between the two, and an edit leaves neither.

`UnbanHolds` and `UndoHolds` are about two moments far apart, and rest on a third
invariant, `KeepInv`. For an item (`RowInv`): what a ban marked carries the mark
and the state it was in, and nothing else carries the mark. For a page
(`PageInv`): as long as the row of the card has not changed since the moderator
acted, it is what the action left of the card, so that what the undo sends fits
it. An undo that hits a changed item breaks the marks; such a lapse is the
condition of `UnbanRestoresBanned`.

### DictSubmissions

`DictSubmissionsProofs` proves, for any visitors, reviewers, files, entries and
bounds, from `SubmissionAssumption` only (the entries are finitely many, `Nobody`
is no visitor, the files are in an order, the bounds are numbers):

- `SubmissionInvariance`: `DictSpec => []IInv`;
- `AnswersHold`: `DictSpec => []AnswersAreTrue`;
- `OneRollingHolds`: `DictSpec => []OneRolling`;
- `RepositoryAlwaysKept`: `DictSpec => []RepositoryIsKept`;
- `OnlyReviewedMerged`: `DictSpec => ReviewedOnly`.

An answer has to be true at once and for good, so `IInv` says what each step of a
submission knows: before `Put` its entry is on no branch, from `Open` on it is
(`Knows`); the pull request it goes by exists and has the branch it writes to
(`Names`); and only visitors who were told that the outcome is unknown have an
entry among the writes nobody waits for (`LateIsUncertain`). GitHub never
renames a pull request, which carries `Names` over the steps of everybody else.
The lock plays no part in it: the answers are true even when the lock is lost.

`OneRolling` is where the lock is needed. `CalmInv` says that, while nothing has
failed, a submission between its first call and its answer holds the lock, and
that one that has found no open pull request knows that none is open until it
opens its own: nobody else opens one, and reviewers and maintainers only close
them.

That no entry is doubled and none lost or merged unseen is a third invariant,
`RepoInv`, which compares entries. What keeps the writers apart is what GitHub
compares, so it says what each write under way knows, late ones included. A
submission appends an entry to a file that it has read without it (`SubOK`), and
the blob SHA has the file as it was read. A review knows a head that is its
branch's or older, and while it is the branch's, the branch holds what the page
showed, or, once the trim has begun, what is wanted in each file the trim is
through with (`RevOK`). A branch that changes has a new head (`Onward`), so this
survives the writes of everybody else, and a trim that lands on another parent
stops. A merge names a head, at which the branch is what the merge wants
(`WriteOK`).

What a trim leaves of a file is the kept places in their order. The model takes them
by `InOrder` and `PartAt`, because the provers cannot expand SelectSeq and SortSeq.
That a finite set of places has exactly one order is an induction over its size:
the induction theorems cannot be used, since they take an operator, but a smallest
counterexample can (`LeastOf`, from WFMin).

### AdminMembers

`ConsoleProofs` proves, for any owners, roles and cells and any bound on
changes, from `MembersAssumption` only (the members are finitely many, the limit
is a number):

- `MembersInvariance`: `MembersSpec => []IInv`;
- `MembersStartAfresh`: `MembersSpec => []SessionsStartAfresh`;
- `MembersWithinLimit`: `MembersSpec => []WithinLimit`;
- `MembersDecided`: `MembersSpec => []MembersAsDecided`, all that `console` checks of
  the page;
- `ConsoleMembersDecided`: `Spec => []MembersAsDecided`, the same of MCConsole, where
  the page is one of many.

`SessionsStartAfresh` is not inductive: the deletion of a member's sessions
takes those it sees when the statement runs and is committed later.
`IInv == TypeOK /\ OneHolder /\ DeadAreAll /\ SessionsStartAfresh`, where
`OneHolder` says that of the sign-ins and the changes at most one holds the row
of a member, and `DeadAreAll` that a change that has deleted has seen all the
sessions there are: one that is being inserted would hold the row.
`MembersWithinLimit` rests on the advisory lock instead: `LInv == OneChange /\
StaysAccepted /\ WithinLimit`, one change past the lock at a time, so that what
it has counted still holds when it commits. That the audit log replays to the
matrix is inductive with the types of what is sent (`LogInv`): the entry and the
cell are written together, and a cell that stays as it is leaves no entry.

### Console

`ConsoleProofs` proves five properties of MCConsole, the one of AdminMembers above
and, for any words, issues, notices, releases, notifications and bounds:

- `PushesArePublished`: `Spec => []PushedIsPublished`;
- `BatchesAlwaysEnd`: `Spec => []BatchesEndAsMeant`;
- `MessagesAreTrue`: `Spec => []ToldIsDone`;
- `MarksAreMeant`: `Spec => ReadWasMeant`.

Each page has an invariant of its own, and a page that is not open is not asked
for it. `NoticeInv`: what was pushed is published and stays. `ReleaseInv`: a form
that was sent is open as it was sent, so that its answer closes no other.
`WordInv`: each word that a batch is through with has the level the batch gave it,
or is gone, unless somebody else changed it since; a chunk that failed leaves
its words. `IssueInv`: what a request found of an issue is what the issue was before
the request's effect, until somebody else changes it (`CallInv`), and so is what
an undo is offered for (`UndoInv`). `BellInv`: what is marked was opened or is no newer
than a notification on screen that was marked; the newest of a list
exists because only finitely many have been inserted, however many there may be.

`DecisionProofs` proves three more, of the pages that show what the server does not
have yet, for any pull requests, entries, boxes, groups, accounts, preferences,
devices and items and any bounds:

- `OnceDecided`: `Spec => []DecidedOnce`;
- `ReviewedMerges`: `Spec => []MergedAsReviewed`;
- `ServedShows`: `Spec => []ShownIsServed`.

For `Toasts` by itself (page "shell") its properties with its types are inductive as
they stand (`ToastInv`): whatever shows the next toast sends the decision that waits
first. The pages over `Toasts` need more. `ReviewInv`: branches only grow, commit by commit, so
what the page, a question, the decision that waits and those sent say of a head
stays true of that head (`SeenInv`), and a merge brought the boxes kept of the head it
names (`BranchInv`); and while the page is there it shows exactly the outcomes of
the decisions of this visit still to be answered, one for each pull request
(`OutcomeInv`), which is why none is decided twice. `DeskInv`: a crash group without a
recorded issue has none unless one was lost (`OpenedInv`), and a value shown early
has a change or an issue of this visit to be answered (`CrashShown`). `RowsInv`: of an
account that nobody else has changed, list and drawer have what the server has,
unless a request was served whose answer is still to come. `ProfileInv`: a profile, or
one that a refetch has read, is wrong only about what a request changed whose answer
is still to come or was lost (`Settled`). `BrowseInv`: a list without
items is one of a search without hits, or of a page past the last.

### What is only model-checked

- Liveness (`EveryRequestEnds`, `EveryWaitEnds`): fairness and ENABLED are
  beyond the prover.
- `LogIsComplete`, the live log of the console. A page of lines is merged by a fold
  (FoldSeq) whose step inserts a line and cuts off the oldest. The fold of the
  library is a recursive function that is chosen, so that even its first step needs
  the theorem that such a function exists, which takes an operator.

## 6. Plan

What is not modelled yet, in the order of what it would add:

1. The cache of the sensitive words and the flush of the service metrics: caches
   and counters per replica, as part of MCReplicas.
2. Rate limits, in-process skin jobs (against `JobPromise`, too), clipboard and
   preferences, the rest of community content.
3. Proofs: the live log, with its fold written as the packs of UserDictionary are.

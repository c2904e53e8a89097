--------------------------- MODULE DictSubmissions ---------------------------
(***************************************************************************)
(* Dictionary entries on their way into the repository on GitHub: visitors *)
(* submit them to a rolling pull request (word_submissions_github.go),     *)
(* reviewers trim, approve or reject it (admin_dict_prs.go).  Each request *)
(* runs in a replica of its own, so only the lock in the database and what *)
(* GitHub compares keep them apart; reviewers take no lock.                *)
(*                                                                         *)
(* A file is the sequence of its entries, its blob SHA that content, a     *)
(* commit SHA the number of commits on its branch.  Titles, comments, the  *)
(* audit log and the copy kept for the submitter's note are left out.      *)
(***************************************************************************)
EXTENDS Naturals, FiniteSets, Sequences, SequencesExt

CONSTANTS
  Visitors, Reviewers,  \* requests: submissions, and reviews
  Lines,                \* entries
  FileOrder,            \* the submission files, in the order of submissionKinds
  Nobody,               \* the lock is free
  MaxSecond,            \* bound: seconds a branch can be named after
  MaxRequests,          \* bound: submissions and reviews together
  MaxFaults             \* bound: lost sessions, crashes and unknown outcomes

Files == Range(FileOrder)

ASSUME SubmissionAssumption ==
  /\ IsFiniteSet(Lines) /\ Nobody \notin Visitors /\ FileOrder \in Seq(Files)
  /\ MaxSecond \in Nat \ {0} /\ MaxRequests \in Nat /\ MaxFaults \in Nat

VARIABLES
  main,     \* GitHub: the files of the base branch
  branch,   \* GitHub: name -> [start, files, head]
  pulls,    \* GitHub: the pull requests, [name, base, state] by number
  late,     \* writes nobody waits for any more, which GitHub may still apply
  second,   \* the time
  lock,     \* the visitor that holds the advisory lock
  failures,   \* failures that may still happen
  sub,      \* a submission's step and what it has read
  rev,      \* a review's step and what it has read
  wrote,    \* history: submissions whose entry reached a branch
  merges    \* history: what a review's merge brought, and what it was to bring

github == <<main, branch, pulls, late>>
history == <<wrote, merges>>
dictVars == <<github, second, lock, failures, sub, rev, history>>

Empty == [f \in Files |-> <<>>]
NoSub == [step |-> "idle", file |-> "", line |-> "", pull |-> 0, name |-> 0,
          start |-> <<>>, seen |-> <<>>, answer |-> ""]
NoRev == [step |-> "idle", op |-> "", pull |-> 0, head |-> 0, files |-> Empty,
          base |-> Empty, keep |-> {}, todo |-> <<>>]

Begun == {r \in Visitors : sub[r].step # "idle"} \cup {v \in Reviewers : rev[v].step # "idle"}
MayBegin == Cardinality(Begun) < MaxRequests

OneLine(f, l) == [Empty EXCEPT ![f] = <<l>>]

\* The repository has no rolling pull request, or one with an entry.
DictInit ==
  /\ main = Empty /\ late = {} /\ second = 1 /\ lock = Nobody /\ failures = MaxFaults
  /\ \/ branch = <<>> /\ pulls = <<>>
     \/ \E f \in Files, l \in Lines :
          /\ branch = [n \in {0} |-> [start |-> Empty, files |-> OneLine(f, l), head |-> 1]]
          /\ pulls = <<[name |-> 0, base |-> Empty, state |-> "open"]>>
  /\ sub = [r \in Visitors |-> NoSub] /\ rev = [v \in Reviewers |-> NoRev]
  /\ wrote = {} /\ merges = {}

----------------------------------------------------------------------------
(* GitHub.  A write is a record; w.type says which.                        *)

IsOpen(n) == n \in DOMAIN pulls /\ pulls[n].state = "open"
Content(n) == branch[pulls[n].name].files

\* A squash merge takes a file from the side that changed it.
Mergeable(b) ==
  \A f \in Files : b.files[f] = b.start[f] \/ main[f] \in {b.start[f], b.files[f]}
Squashed(b) == [f \in Files |-> IF b.files[f] = b.start[f] THEN main[f] ELSE b.files[f]]

\* The blob SHA in the write is the file's on the branch.
SameBlob(w) == w.name \in DOMAIN branch /\ branch[w.name].files[w.file] = w.old

Takes(w) ==
  CASE w.type = "branch" -> w.name \notin DOMAIN branch
    [] w.type = "put"    -> SameBlob(w)
    [] w.type = "open"   -> /\ w.name \in DOMAIN branch
                            /\ ~\E n \in DOMAIN pulls : IsOpen(n) /\ pulls[n].name = w.name
    [] w.type = "merge"  -> /\ IsOpen(w.pull) /\ branch[pulls[w.pull].name].head = w.head
                            /\ Mergeable(branch[pulls[w.pull].name])
    [] w.type = "close"  -> pulls[w.pull].state # "merged"

Commit(b, f, new) == [b EXCEPT !.files[f] = new, !.head = @ + 1]

NewBranch(name, start) ==
  [n \in DOMAIN branch \cup {name} |->
     IF n = name THEN [start |-> start, files |-> start, head |-> 0] ELSE branch[n]]

Applies(w) ==
  /\ branch' = CASE w.type = "branch" -> NewBranch(w.name, w.start)
                 [] w.type = "put" ->
                      [branch EXCEPT ![w.name] = Commit(@, w.file, w.new)]
                 [] OTHER -> branch
  /\ pulls' = CASE w.type = "open" ->
                     Append(pulls, [name |-> w.name, base |-> main, state |-> "open"])
                [] w.type = "merge" -> [pulls EXCEPT ![w.pull].state = "merged"]
                [] w.type = "close" -> [pulls EXCEPT ![w.pull].state = "closed"]
                [] OTHER -> pulls
  /\ main' = IF w.type = "merge" THEN Squashed(branch[pulls[w.pull].name]) ELSE main
  /\ wrote' = IF w.type = "put" THEN wrote \cup w.by ELSE wrote
  /\ merges' = IF w.type = "merge"
               THEN merges \cup {[want |-> w.want, got |-> Content(w.pull)]} ELSE merges

Lands(w) == Takes(w) /\ Applies(w) /\ UNCHANGED <<late, failures>>
Refused(w) == ~Takes(w) /\ UNCHANGED <<github, failures, history>>
\* No answer, or a 5xx: GitHub never applies the write, or does so later.
Unknown(w) ==
  /\ failures > 0 /\ failures' = failures - 1 /\ late' = late \cup {w}
  /\ UNCHANGED <<main, branch, pulls, history>>

Arrive(w) ==
  /\ Takes(w) /\ Applies(w) /\ late' = late \ {w}
  /\ UNCHANGED <<second, lock, failures, sub, rev>>

\* A maintainer merges or closes a pull request on GitHub.
ByHand(n) ==
  /\ IsOpen(n)
  /\ \/ pulls' = [pulls EXCEPT ![n].state = "closed"] /\ UNCHANGED main
     \/ /\ Mergeable(branch[pulls[n].name])
        /\ pulls' = [pulls EXCEPT ![n].state = "merged"]
        /\ main' = Squashed(branch[pulls[n].name])
  /\ UNCHANGED <<branch, late, second, lock, failures, sub, rev, history>>

Later ==
  /\ second < MaxSecond /\ second' = second + 1
  /\ UNCHANGED <<github, lock, failures, sub, rev, history>>

----------------------------------------------------------------------------
(* A submission.                                                           *)

Step(r, s) == sub[r].step = s
Go(r, s) == sub' = [sub EXCEPT ![r].step = s] /\ UNCHANGED lock
Released(r) == IF lock = r THEN Nobody ELSE lock
Answered(r, a) ==
  sub' = [sub EXCEPT ![r] = [NoSub EXCEPT !.step = "done", !.answer = a]] /\ lock' = Released(r)
Quiet == UNCHANGED <<second, rev>>

Unlocked == lock = Nobody

\* WaitLock took the lock, or gave up after its wait or for an error.
Submit(r, f, l) ==
  /\ Step(r, "idle") /\ MayBegin /\ Unlocked /\ lock' = r
  /\ sub' = [sub EXCEPT ![r] = [@ EXCEPT !.step = "list", !.file = f, !.line = l]]
  /\ Quiet /\ UNCHANGED <<github, failures, history>>
Busy(r) ==
  /\ Step(r, "idle") /\ MayBegin /\ Answered(r, "busy")
  /\ Quiet /\ UNCHANGED <<github, failures, history>>

\* The oldest open pull request from a branch of ours.
Rolling ==
  LET open == {n \in DOMAIN pulls : IsOpen(n)} IN
  IF open = {} THEN 0 ELSE CHOOSE n \in open : \A m \in open : n <= m

List(r) ==
  /\ Step(r, "list")
  /\ sub' = [sub EXCEPT ![r].pull = Rolling, ![r].step = "read"] /\ UNCHANGED lock
  /\ Quiet /\ UNCHANGED <<github, failures, history>>

\* Mutant of Listed: the entry is looked for on the base branch.
ListedOnBase(r, at) == sub[r].line \in Range(main[sub[r].file]) /\ at # <<>>

Listed(r, at) == sub[r].line \in Range(at[sub[r].file])

\* The file on the pull request's branch, or at the tip of the base branch with
\* the name of a branch to start there.
Read(r) ==
  LET q == sub[r]
      at == IF q.pull = 0 THEN main ELSE Content(q.pull)
  IN
  /\ Step(r, "read")
  /\ IF Listed(r, at)
     THEN Answered(r, "listed")
     ELSE /\ sub' = [sub EXCEPT ![r] =
                       [@ EXCEPT !.step = IF q.pull = 0 THEN "branch" ELSE "put",
                                 !.name = IF q.pull = 0 THEN second ELSE pulls[q.pull].name,
                                 !.start = at, !.seen = at[q.file]]]
          /\ UNCHANGED lock
  /\ Quiet /\ UNCHANGED <<github, failures, history>>

\* A call that fails before anything could be written.
Unavailable(r) ==
  /\ sub[r].step \in {"list", "read", "branch", "put"} /\ Answered(r, "unavailable")
  /\ Quiet /\ UNCHANGED <<github, failures, history>>

Branch(r) ==
  LET w == [type |-> "branch", name |-> sub[r].name, start |-> sub[r].start] IN
  /\ Step(r, "branch")
  /\ \/ Lands(w) /\ Go(r, "put")
     \/ Refused(w) /\ Answered(r, "conflict")
     \/ Unknown(w) /\ Answered(r, "unavailable")
  /\ Quiet

\* The answer names the pull request.
Created(r, n) ==
  /\ sub' = [sub EXCEPT ![r] = [NoSub EXCEPT !.step = "done", !.answer = "created",
                                            !.pull = n, !.name = sub[r].name]]
  /\ lock' = Released(r)

\* Mutant of GaveUp: the visitor is told to try again.
GaveUpBefore(r) == Answered(r, "unavailable")

\* The write that carries the entry may have been applied.
GaveUp(r) == Answered(r, "uncertain")

Put(r) ==
  LET q == sub[r]
      w == [type |-> "put", name |-> q.name, file |-> q.file, old |-> q.seen,
            new |-> Append(q.seen, q.line), by |-> {r}]
  IN
  /\ Step(r, "put")
  /\ \/ Lands(w) /\ IF q.pull = 0 THEN Go(r, "open") ELSE Created(r, q.pull)
     \/ Refused(w) /\ Answered(r, "conflict")
     \/ Unknown(w) /\ GaveUp(r)
  /\ Quiet

\* The entry is committed: whatever fails from here on is uncertain.
Open(r) ==
  LET w == [type |-> "open", name |-> sub[r].name] IN
  /\ Step(r, "open")
  /\ \/ Lands(w) /\ Created(r, Len(pulls) + 1)
     \/ Unknown(w) /\ GaveUp(r)
     \/ GaveUp(r) /\ UNCHANGED <<github, failures, history>>
  /\ Quiet

\* The database ends the session that holds the lock; a replica dies.
LoseLock ==
  /\ lock # Nobody /\ lock' = Nobody /\ failures > 0 /\ failures' = failures - 1
  /\ UNCHANGED <<github, second, sub, rev, history>>
Die(r) ==
  /\ sub[r].step \notin {"idle", "done"} /\ Answered(r, "none")
  /\ failures > 0 /\ failures' = failures - 1
  /\ UNCHANGED <<github, second, rev, history>>

----------------------------------------------------------------------------
(* A review.                                                               *)

\* The lines the head adds: each line of the base cancels one equal line.
Copies(x, s, n) == Cardinality({i \in 1..n : s[i] = x})
Added(base, files) ==
  {p \in UNION {{f} \X DOMAIN files[f] : f \in Files} :
     Copies(files[p[1]][p[2]], files[p[1]], p[2])
       > Copies(files[p[1]][p[2]], base[p[1]], Len(base[p[1]]))}

\* A set of places, in order (SetToSortSeq, in a form the provers can expand).
InOrder(S) ==
  CHOOSE at \in [1..Cardinality(S) -> S] : \A i, j \in DOMAIN at : i < j => at[i] < at[j]

\* What a sequence has at these places.
PartAt(s, S) == LET at == InOrder(S) IN [k \in DOMAIN at |-> s[at[k]]]

\* What is left of file f when the reviewer keeps these of the added lines.
Left(base, files, keep, f) ==
  PartAt(files[f],
         {i \in DOMAIN files[f] : <<f, i>> \in keep \/ <<f, i>> \notin Added(base, files)})
Wanted(v) == [f \in Files |-> Left(rev[v].base, rev[v].files, rev[v].keep, f)]

Rest == UNCHANGED <<second, lock, sub>>
Ends(v) == rev' = [rev EXCEPT ![v] = [NoRev EXCEPT !.step = "done"]]

\* The page reads a pull request and its entries at its head.
Look(v, n) ==
  /\ rev[v].step = "idle" /\ MayBegin /\ n \in DOMAIN pulls
  /\ rev' = [rev EXCEPT ![v] =
               [@ EXCEPT !.step = "seen", !.pull = n, !.head = branch[pulls[n].name].head,
                         !.files = Content(n), !.base = pulls[n].base]]
  /\ Rest /\ UNCHANGED <<github, failures, history>>

Current(v) == IsOpen(rev[v].pull) /\ branch[pulls[rev[v].pull].name].head = rev[v].head

\* The files a trim rewrites, in order.
Changed(v, keep) ==
  LET changed == {f \in Files : Left(rev[v].base, rev[v].files, keep, f) # rev[v].files[f]}
  IN  PartAt(FileOrder, {i \in DOMAIN FileOrder : FileOrder[i] \in changed})

\* A trim, or an approval with the entries to keep: on the head that was seen.
Keep(v) ==
  /\ rev[v].step = "seen" /\ Current(v)
  /\ \E op \in {"approve", "trim"}, keep \in SUBSET Added(rev[v].base, rev[v].files) \ {{}} :
       rev' = [rev EXCEPT ![v] = [@ EXCEPT !.op = op, !.keep = keep, !.step = "write",
                                           !.todo = Changed(v, keep)]]
  /\ Rest /\ UNCHANGED <<github, failures, history>>

\* An approval without a list and a head keeps every entry there is by now.
ApproveAll(v) ==
  LET n == rev[v].pull IN
  /\ rev[v].step = "seen" /\ IsOpen(n) /\ Added(pulls[n].base, Content(n)) # {}
  /\ rev' = [rev EXCEPT ![v] =
               [@ EXCEPT !.op = "approve", !.step = "write", !.files = Content(n),
                         !.base = pulls[n].base, !.head = branch[pulls[n].name].head,
                         !.keep = Added(pulls[n].base, Content(n))]]
  /\ Rest /\ UNCHANGED <<github, failures, history>>

Reject(v) ==
  /\ rev[v].step = "seen" /\ Current(v)
  /\ rev' = [rev EXCEPT ![v].op = "reject", ![v].step = "write"]
  /\ Rest /\ UNCHANGED <<github, failures, history>>

\* Mutant of OnHead: the parent of the commit is not looked at.
OnAnyParent(v) == rev[v].todo # <<>>

\* The commit sits directly on the head the review expects.
OnHead(v) == branch[pulls[rev[v].pull].name].head = rev[v].head

\* One commit per file.  A commit on another parent means that something else
\* landed: nothing more is written.
Trim(v) ==
  LET f == Head(rev[v].todo)
      w == [type |-> "put", name |-> pulls[rev[v].pull].name, file |-> f,
            old |-> rev[v].files[f], new |-> Wanted(v)[f], by |-> {}]
  IN
  /\ rev[v].step = "write" /\ rev[v].todo # <<>>
  /\ \/ /\ Lands(w)
        /\ rev' = [rev EXCEPT ![v] =
                     IF OnHead(v)
                     THEN [rev[v] EXCEPT !.head = branch'[w.name].head,
                                         !.todo = Tail(rev[v].todo)]
                     ELSE [NoRev EXCEPT !.step = "done"]]
     \/ (Refused(w) \/ Unknown(w)) /\ Ends(v)
  /\ Rest

\* The last write: the merge compares the head, closing compares nothing.
Decide(v) ==
  LET n == rev[v].pull
      w == IF rev[v].op = "approve"
           THEN [type |-> "merge", pull |-> n, head |-> rev[v].head, want |-> Wanted(v)]
           ELSE [type |-> "close", pull |-> n]
  IN
  /\ rev[v].step = "write" /\ rev[v].todo = <<>> /\ Ends(v)
  /\ IF rev[v].op = "trim" THEN UNCHANGED <<github, failures, history>>
     ELSE Lands(w) \/ Refused(w) \/ Unknown(w)
  /\ Rest

\* The head is another one, or a call fails before the next write.
Stop(v) ==
  /\ rev[v].step \in {"seen", "write"} /\ Ends(v)
  /\ Rest /\ UNCHANGED <<github, failures, history>>

----------------------------------------------------------------------------
DictNext ==
  \/ Later \/ LoseLock
  \/ \E w \in late : Arrive(w)
  \/ \E n \in DOMAIN pulls : ByHand(n)
  \/ \E r \in Visitors :
       \/ \E f \in Files, l \in Lines : Submit(r, f, l)
       \/ Busy(r) \/ List(r) \/ Read(r) \/ Unavailable(r) \/ Branch(r) \/ Put(r)
       \/ Open(r) \/ Die(r)
  \/ \E v \in Reviewers :
       \/ \E n \in DOMAIN pulls : Look(v, n)
       \/ Keep(v) \/ ApproveAll(v) \/ Reject(v) \/ Trim(v) \/ Decide(v) \/ Stop(v)

DictSpec == DictInit /\ [][DictNext]_dictVars

----------------------------------------------------------------------------
\* A visitor told that nothing was written may submit again: nothing was, and
\* nothing will be.  One given a pull request has the entry on its branch
\* (submitWords).
AnswersAreTrue ==
  \A r \in Visitors :
    /\ sub[r].answer \in {"busy", "listed", "conflict", "unavailable"} =>
         r \notin wrote /\ ~\E w \in late : w.type = "put" /\ r \in w.by
    /\ sub[r].answer = "created" => r \in wrote /\ pulls[sub[r].pull].name = sub[r].name

\* Not kept by the code when the pull request a submission has listed is merged or
\* closed before the write: "a merged or closed pull request is never reused".
NeverReused ==
  [][\A r \in Visitors :
       sub[r].answer # "created" /\ sub'[r].answer = "created" =>
         pulls'[sub'[r].pull].state = "open"]_dictVars

SubmissionTypeOK ==
  /\ main \in [Files -> Seq(Lines)]
  /\ \A n \in DOMAIN branch : branch[n].files \in [Files -> Seq(Lines)] /\ n \in 0..MaxSecond
  /\ \A n \in DOMAIN pulls : pulls[n].name \in DOMAIN branch
  /\ lock \in Visitors \cup {Nobody} /\ failures \in 0..MaxFaults

NoDuplicates ==
  /\ \A n \in DOMAIN branch, f \in Files : IsInjective(branch[n].files[f])
  /\ \A f \in Files : IsInjective(main[f])

OneRolling ==
  failures = MaxFaults => Cardinality({n \in DOMAIN pulls : IsOpen(n)}) <= 1

\* No file holds an entry twice, whatever was submitted at once, trimmed, or
\* written after its answer was given up on; and while nothing fails there is one
\* rolling pull request, on any number of replicas (WaitLock, submit).
RepositoryIsKept == SubmissionTypeOK /\ NoDuplicates /\ OneRolling

DroppedWasSeen ==
  \A n \in DOMAIN branch, f \in Files :
    \A l \in Range(branch[n].files[f]) \ Range(branch'[n].files[f]) :
      \/ \E v \in Reviewers : l \in Range(rev[v].files[f]) \ Range(Wanted(v)[f])
      \/ \E w \in late : w.type = "put" /\ l \in Range(w.old) \ Range(w.new)

\* A review merges the entries it kept and nothing that landed since it read
\* them, and an entry leaves a branch only by a review that saw it and did not
\* keep it (trimFiles, approveDictPR).
ReviewedOnly ==
  /\ [](\A m \in merges : m.got = m.want)
  /\ [][DroppedWasSeen]_dictVars
=============================================================================

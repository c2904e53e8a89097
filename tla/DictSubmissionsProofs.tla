------------------------ MODULE DictSubmissionsProofs ------------------------
(***************************************************************************)
(* For any visitors, reviewers, files and entries, and any number of       *)
(* failures: what a visitor is told of a submission is true (AnswersHold), *)
(* the repository holds no entry twice (RepositoryAlwaysKept), and a       *)
(* review merges what it kept of what it saw (OnlyReviewedMerged).  The    *)
(* first rests on what each step knows of the writes before it and on      *)
(* GitHub's never renaming a pull request (IInv), the others on a head's   *)
(* naming the content that a write has seen (RepoInv).  Only that there is *)
(* one rolling pull request rests on the lock (CalmInv).                   *)
(***************************************************************************)
EXTENDS DictSubmissions, SequenceTheorems, FiniteSetTheorems, WellFoundedInduction, TLAPS

NothingWritten == {"busy", "listed", "conflict", "unavailable"}
Fields == {"step", "file", "line", "pull", "name", "start", "seen", "answer"}

PullsShape ==
  /\ \E S : pulls \in Seq(S)
  /\ \A n \in DOMAIN pulls : DOMAIN pulls[n] = {"name", "base", "state"}

\* What a step of the submission, or its answer, says of the writes.
Knows(r) ==
  /\ DOMAIN sub[r] = Fields
  /\ sub[r].step # "done" => sub[r].answer = ""
  /\ sub[r].step \in {"idle", "list", "read", "branch", "put"} => r \notin wrote
  /\ sub[r].step = "open" => r \in wrote
  /\ sub[r].answer \in NothingWritten => r \notin wrote
  /\ sub[r].answer = "created" => r \in wrote

\* A pull request that a submission goes by is there, with the branch it writes to.
Names(r) ==
  /\ sub[r].step \in {"read", "put"} /\ sub[r].pull # 0 => sub[r].pull \in DOMAIN pulls
  /\ sub[r].step = "put" /\ sub[r].pull # 0 => pulls[sub[r].pull].name = sub[r].name
  /\ sub[r].step = "branch" => sub[r].pull = 0
  /\ sub[r].answer = "created" =>
       sub[r].pull \in DOMAIN pulls /\ pulls[sub[r].pull].name = sub[r].name

\* Only visitors who were told so have an entry under way.
LateIsUncertain ==
  \A w \in late : w.type = "put" => \A r \in w.by : r \in Visitors /\ sub[r].answer = "uncertain"

IInv ==
  /\ PullsShape
  /\ DOMAIN sub = Visitors
  /\ \A r \in Visitors : Knows(r)
  /\ \A r \in Visitors : Names(r)
  /\ LateIsUncertain

----------------------------------------------------------------------------
(* GitHub's side of a step.                                                *)

\* Pull requests stay, under their names.
Kept ==
  /\ DOMAIN pulls \subseteq DOMAIN pulls'
  /\ \A n \in DOMAIN pulls : pulls'[n].name = pulls[n].name

LEMMA SameKept == PullsShape /\ pulls' = pulls => PullsShape' /\ Kept
BY DEF PullsShape, Kept

LEMMA AppendKept ==
  ASSUME PullsShape, NEW e, DOMAIN e = {"name", "base", "state"}, pulls' = Append(pulls, e)
  PROVE  /\ PullsShape' /\ Kept
         /\ Len(pulls) + 1 \in DOMAIN pulls' /\ pulls'[Len(pulls) + 1] = e
<1>1. PICK S : pulls \in Seq(S) BY DEF PullsShape
<1> DEFINE T == S \cup {e}
<1>2. pulls \in Seq(T) BY <1>1
<1>3. e \in T OBVIOUS
<1> HIDE DEF T
<1>4. /\ pulls' \in Seq(T) /\ Len(pulls') = Len(pulls) + 1
      /\ \A i \in 1..Len(pulls) : pulls'[i] = pulls[i]
      /\ pulls'[Len(pulls) + 1] = e
  BY <1>2, <1>3, AppendProperties
<1>5. DOMAIN pulls = 1..Len(pulls) /\ DOMAIN pulls' = 1..Len(pulls') /\ Len(pulls) \in Nat
  BY <1>2, <1>4
<1>6. \A n \in DOMAIN pulls' : n \in DOMAIN pulls \/ n = Len(pulls) + 1
  BY <1>4, <1>5
<1>7. \A n \in DOMAIN pulls' : DOMAIN pulls'[n] = {"name", "base", "state"}
  BY <1>4, <1>5, <1>6 DEF PullsShape
<1>8. PullsShape' BY <1>4, <1>7 DEF PullsShape
<1> QED BY <1>4, <1>5, <1>8 DEF Kept

LEMMA StateKept ==
  ASSUME PullsShape, NEW n, NEW s, pulls' = [pulls EXCEPT ![n].state = s]
  PROVE  PullsShape' /\ Kept
<1>1. PICK S : pulls \in Seq(S) BY DEF PullsShape
<1>2. CASE n \in DOMAIN pulls
  <2> DEFINE e == [pulls[n] EXCEPT !.state = s]
             T == S \cup {e}
  <2>1. DOMAIN e = {"name", "base", "state"} /\ e.name = pulls[n].name
    BY <1>2 DEF PullsShape
  <2>2. pulls' = [pulls EXCEPT ![n] = e] OBVIOUS
  <2>3. pulls \in Seq(T) /\ e \in T BY <1>1
  <2> HIDE DEF e, T
  <2>4. n \in 1..Len(pulls) BY <1>1, <1>2
  <2>5. /\ pulls' \in Seq(T) /\ Len(pulls') = Len(pulls)
        /\ \A j \in 1..Len(pulls) : pulls'[j] = IF j = n THEN e ELSE pulls[j]
    BY <2>2, <2>3, <2>4, ExceptSeq
  <2>6. DOMAIN pulls = 1..Len(pulls) /\ DOMAIN pulls' = 1..Len(pulls)
    BY <1>1, <2>5
  <2> QED BY <2>1, <2>5, <2>6 DEF PullsShape, Kept
<1>3. CASE n \notin DOMAIN pulls
  <2>1. pulls' = pulls BY <1>1, <1>3
  <2> QED BY <2>1, SameKept
<1> QED BY <1>2, <1>3

LEMMA AppliesKept ==
  ASSUME PullsShape, NEW w, Applies(w)
  PROVE  PullsShape' /\ Kept
<1>1. CASE w.type = "open"
  <2> DEFINE e == [name |-> w.name, base |-> main, state |-> "open"]
  <2>1. DOMAIN e = {"name", "base", "state"} OBVIOUS
  <2>2. pulls' = Append(pulls, e) BY <1>1 DEF Applies
  <2> HIDE DEF e
  <2> QED BY <2>1, <2>2, AppendKept
<1>2. CASE w.type = "merge"
  <2>1. pulls' = [pulls EXCEPT ![w.pull].state = "merged"] BY <1>2 DEF Applies
  <2> QED BY <2>1, StateKept
<1>3. CASE w.type = "close"
  <2>1. pulls' = [pulls EXCEPT ![w.pull].state = "closed"] BY <1>3 DEF Applies
  <2> QED BY <2>1, StateKept
<1>4. CASE w.type \notin {"open", "merge", "close"}
  <2>1. pulls' = pulls BY <1>4 DEF Applies
  <2> QED BY <2>1, SameKept
<1> QED BY <1>1, <1>2, <1>3, <1>4

LEMMA AppliesWrote ==
  ASSUME NEW w, Applies(w)
  PROVE  wrote' = IF w.type = "put" THEN wrote \cup w.by ELSE wrote
BY DEF Applies

----------------------------------------------------------------------------
(* The frame of a step: what it leaves of the others.                      *)

LEMMA OthersKnow ==
  ASSUME IInv, NEW q \in Visitors, sub'[q] = sub[q], Kept, q \in wrote' <=> q \in wrote
  PROVE  Knows(q)' /\ Names(q)'
<1>1. Knows(q) /\ Names(q) BY DEF IInv
<1>2. Knows(q)' BY <1>1 DEF Knows
<1>3. Names(q)' BY <1>1 DEF Names, Kept
<1> QED BY <1>2, <1>3

LEMMA VisitorStep ==
  ASSUME IInv, PullsShape', Kept,
         NEW r \in Visitors, NEW new, sub' = [sub EXCEPT ![r] = new],
         sub[r].step # "done",
         wrote' = wrote \/ wrote' = wrote \cup {r},
         \A w \in late' : w \in late \/ (w.type = "put" => w.by = {r} /\ new.answer = "uncertain"),
         Knows(r)', Names(r)'
  PROVE  IInv'
<1>1. DOMAIN sub' = Visitors /\ sub'[r] = new BY DEF IInv
<1>2. \A q \in Visitors : q # r => sub'[q] = sub[q] BY DEF IInv
<1>3. \A q \in Visitors : Knows(q)' /\ Names(q)' BY <1>2, OthersKnow
<1>4. ASSUME NEW w \in late', w.type = "put", NEW q \in w.by
      PROVE  q \in Visitors /\ sub'[q].answer = "uncertain"
  <2>1. CASE w \in late
    <3>1. q \in Visitors /\ sub[q].answer = "uncertain" BY <1>4, <2>1 DEF IInv, LateIsUncertain
    <3>2. q # r BY <3>1 DEF IInv, Knows
    <3> QED BY <1>2, <3>1, <3>2
  <2>2. CASE w \notin late BY <1>1, <1>4, <2>2
  <2> QED BY <2>1, <2>2
<1>5. LateIsUncertain' BY <1>4 DEF LateIsUncertain
<1> QED BY <1>1, <1>3, <1>5 DEF IInv

LEMMA OtherStep ==
  ASSUME IInv, PullsShape', Kept, sub' = sub, wrote \subseteq wrote',
         \A q \in wrote' : q \in wrote \/ (q \in Visitors => sub[q].answer = "uncertain"),
         \A w \in late' : w \in late \/ (w.type = "put" => w.by = {})
  PROVE  IInv'
<1>1. ASSUME NEW q \in Visitors PROVE Knows(q)' /\ Names(q)'
  <2>1. CASE q \in wrote' <=> q \in wrote BY <2>1, OthersKnow
  <2>2. CASE q \in wrote' /\ q \notin wrote
    <3>1. sub[q].answer = "uncertain" BY <2>2
    <3>2. sub[q].step = "done" BY <3>1 DEF IInv, Knows
    <3>3. Knows(q)' BY <3>1, <3>2 DEF IInv, Knows, NothingWritten
    <3>4. Names(q)' BY <3>1, <3>2 DEF Names
    <3> QED BY <3>3, <3>4
  <2> QED BY <2>1, <2>2
<1>2. LateIsUncertain' BY DEF IInv, LateIsUncertain
<1> QED BY <1>1, <1>2 DEF IInv

----------------------------------------------------------------------------
(* The calls of a submission.                                              *)

LEMMA RollingIsThere ==
  ASSUME PullsShape, {n \in DOMAIN pulls : IsOpen(n)} # {}
  PROVE  Rolling \in DOMAIN pulls /\ Rolling # 0
<1> DEFINE Opens == {n \in DOMAIN pulls : IsOpen(n)}
<1>1. Opens # {} OBVIOUS
<1>2. PICK S : pulls \in Seq(S) BY DEF PullsShape
<1>3. DOMAIN pulls = 1..Len(pulls) /\ Len(pulls) \in Nat BY <1>2
<1>4. \A n \in Opens : n \in Nat BY <1>3
<1> HIDE DEF Opens
<1>5. PICK n \in Opens : \A m \in Opens : <<m, n>> \notin OpToRel(<, Nat)
  BY <1>1, <1>4, WFMin, NatLessThanWellFounded, Zenon
<1>6. \A m \in Opens : ~(m < n) BY <1>4, <1>5, Zenon DEF OpToRel
<1>7. \A m \in Opens : n <= m BY <1>4, <1>6
<1>8. Rolling = CHOOSE k \in Opens : \A m \in Opens : k <= m
  BY <1>1, Zenon DEF Rolling, Opens
<1>9. Rolling \in Opens BY <1>7, <1>8, Zenon
<1> QED BY <1>3, <1>9 DEF Opens

\* The record an answer leaves.
LEMMA AnswerRecord ==
  ASSUME NEW a
  PROVE  LET new == [NoSub EXCEPT !.step = "done", !.answer = a] IN
         DOMAIN new = Fields /\ new.step = "done" /\ new.answer = a
BY DEF NoSub, Fields

\* An answer that names no pull request.
LEMMA AnswersStep ==
  ASSUME IInv, PullsShape', Kept, NEW r \in Visitors, sub[r].step # "done",
         NEW a, Answered(r, a), a # "created",
         wrote' = wrote \/ wrote' = wrote \cup {r},
         \A w \in late' : w \in late \/ (w.type = "put" => w.by = {r} /\ a = "uncertain"),
         a \in NothingWritten => r \notin wrote'
  PROVE  IInv'
<1> DEFINE new == [NoSub EXCEPT !.step = "done", !.answer = a]
<1>1. DOMAIN new = Fields /\ new.step = "done" /\ new.answer = a BY AnswerRecord
<1>2. sub' = [sub EXCEPT ![r] = new] BY DEF Answered
<1> HIDE DEF new
<1>3. sub'[r] = new BY <1>2 DEF IInv
<1>4. Knows(r)' BY <1>1, <1>3 DEF Knows
<1>5. Names(r)' BY <1>1, <1>3 DEF Names
<1> QED BY <1>1, <1>2, <1>4, <1>5, VisitorStep

\* The next step, with what the submission has read.
LEMMA GoesOn ==
  ASSUME IInv, PullsShape', Kept, NEW r \in Visitors, sub[r].step # "done",
         NEW new, sub' = [sub EXCEPT ![r] = new],
         DOMAIN new = Fields, new.answer = "", new.step # "done",
         late' = late,
         \/ wrote' = wrote /\ new.step \in {"list", "read", "branch", "put"} /\ r \notin wrote
         \/ wrote' = wrote \cup {r} /\ new.step = "open",
         new.step \in {"read", "put"} /\ new.pull # 0 => new.pull \in DOMAIN pulls',
         new.step = "put" /\ new.pull # 0 => pulls'[new.pull].name = new.name,
         new.step = "branch" => new.pull = 0
  PROVE  IInv'
<1>1. sub'[r] = new BY DEF IInv
<1>2. Knows(r)' BY <1>1 DEF Knows, NothingWritten
<1>3. Names(r)' BY <1>1 DEF Names
<1> QED BY <1>2, <1>3, VisitorStep

\* The answer that names a pull request.
LEMMA CreatedStep ==
  ASSUME IInv, PullsShape', Kept, NEW r \in Visitors, sub[r].step # "done",
         NEW n, Created(r, n), late' = late, r \in wrote',
         wrote' = wrote \/ wrote' = wrote \cup {r},
         n \in DOMAIN pulls', pulls'[n].name = sub[r].name
  PROVE  IInv'
<1> DEFINE new == [NoSub EXCEPT !.step = "done", !.answer = "created", !.pull = n,
                                !.name = sub[r].name]
<1>1. /\ DOMAIN new = Fields /\ new.step = "done" /\ new.answer = "created"
      /\ new.pull = n /\ new.name = sub[r].name
  BY DEF NoSub, Fields
<1>2. sub' = [sub EXCEPT ![r] = new] BY DEF Created
<1> HIDE DEF new
<1>3. sub'[r] = new BY <1>2 DEF IInv
<1>4. Knows(r)' BY <1>1, <1>3 DEF Knows, NothingWritten
<1>5. Names(r)' BY <1>1, <1>3 DEF Names
<1> QED BY <1>1, <1>2, <1>4, <1>5, VisitorStep

----------------------------------------------------------------------------
(* The invariant, action by action.                                        *)

LEMMA InitIInv == DictInit => IInv
<1> SUFFICES ASSUME DictInit PROVE IInv OBVIOUS
<1>1. PullsShape
  <2>1. CASE pulls = <<>>
    <3>1. pulls \in Seq({}) BY <2>1
    <3> QED BY <2>1, <3>1 DEF PullsShape
  <2>2. CASE pulls = <<[name |-> 0, base |-> Empty, state |-> "open"]>>
    <3> DEFINE e == [name |-> 0, base |-> Empty, state |-> "open"]
    <3>1. DOMAIN e = {"name", "base", "state"} OBVIOUS
    <3>2. pulls = <<e>> BY <2>2
    <3> HIDE DEF e
    <3>3. pulls \in Seq({e}) /\ DOMAIN pulls = 1..1 /\ pulls[1] = e BY <3>2
    <3> QED BY <3>1, <3>3 DEF PullsShape
  <2> QED BY <2>1, <2>2 DEF DictInit
<1>2. DOMAIN sub = Visitors /\ \A r \in Visitors : sub[r] = NoSub BY DEF DictInit
<1>3. /\ DOMAIN NoSub = Fields /\ NoSub.step = "idle" /\ NoSub.answer = "" BY DEF NoSub, Fields
<1>4. \A r \in Visitors : Knows(r) BY <1>2, <1>3 DEF Knows, DictInit, NothingWritten
<1>5. \A r \in Visitors : Names(r) BY <1>2, <1>3 DEF Names
<1>6. LateIsUncertain BY DEF DictInit, LateIsUncertain
<1> QED BY <1>1, <1>2, <1>4, <1>5, <1>6 DEF IInv

\* A step that writes nothing and is no visitor's.
LEMMA QuietStep ==
  ASSUME IInv, UNCHANGED <<pulls, late, sub, wrote>>
  PROVE  IInv'
BY SameKept, OtherStep DEF IInv

LEMMA ArriveStep ==
  ASSUME IInv, NEW w \in late, Arrive(w)
  PROVE  IInv'
<1>1. PullsShape' /\ Kept BY AppliesKept DEF Arrive, IInv
<1>2. wrote' = IF w.type = "put" THEN wrote \cup w.by ELSE wrote BY AppliesWrote DEF Arrive
<1>3. \A q \in wrote' : q \in wrote \/ (q \in Visitors => sub[q].answer = "uncertain")
  BY <1>2 DEF IInv, LateIsUncertain
<1>4. sub' = sub /\ late' \subseteq late BY DEF Arrive
<1>5. wrote \subseteq wrote' BY <1>2
<1> QED BY <1>1, <1>3, <1>4, <1>5, OtherStep

LEMMA ByHandStep ==
  ASSUME IInv, NEW n \in DOMAIN pulls, ByHand(n)
  PROVE  IInv'
<1>1. PICK s \in {"closed", "merged"} : pulls' = [pulls EXCEPT ![n].state = s] BY DEF ByHand
<1>2. PullsShape' /\ Kept BY <1>1, StateKept DEF IInv
<1>3. UNCHANGED <<late, sub, wrote>> BY DEF ByHand, history
<1> QED BY <1>2, <1>3, OtherStep

\* A review's write carries no visitor's entry.
LEMMA ReviewWrites ==
  ASSUME IInv, sub' = sub, NEW w, w.type = "put" => w.by = {},
         Lands(w) \/ Refused(w) \/ Unknown(w)
  PROVE  IInv'
<1>1. CASE Lands(w)
  <2>1. PullsShape' /\ Kept BY <1>1, AppliesKept DEF Lands, IInv
  <2>2. wrote' = wrote BY <1>1, AppliesWrote DEF Lands
  <2>3. late' = late BY <1>1 DEF Lands
  <2> QED BY <2>1, <2>2, <2>3, OtherStep
<1>2. CASE Refused(w)
  <2>1. UNCHANGED <<pulls, late, wrote>> BY <1>2 DEF Refused, github, history
  <2> QED BY <2>1, QuietStep
<1>3. CASE Unknown(w)
  <2>1. pulls' = pulls /\ wrote' = wrote /\ late' = late \cup {w}
    BY <1>3 DEF Unknown, history
  <2>2. PullsShape' /\ Kept BY <2>1, SameKept DEF IInv
  <2> QED BY <2>1, <2>2, OtherStep
<1> QED BY <1>1, <1>2, <1>3

LEMMA TrimStep ==
  ASSUME IInv, NEW v \in Reviewers, Trim(v)
  PROVE  IInv'
<1> DEFINE f == Head(rev[v].todo)
           w == [type |-> "put", name |-> pulls[rev[v].pull].name, file |-> f,
                 old |-> rev[v].files[f], new |-> Wanted(v)[f], by |-> {}]
<1>1. w.by = {} OBVIOUS
<1>2. Lands(w) \/ Refused(w) \/ Unknown(w) BY DEF Trim
<1>3. sub' = sub BY DEF Trim, Rest
<1> HIDE DEF w
<1> QED BY <1>1, <1>2, <1>3, ReviewWrites

LEMMA DecideStep ==
  ASSUME IInv, NEW v \in Reviewers, Decide(v)
  PROVE  IInv'
<1> DEFINE n == rev[v].pull
           w == IF rev[v].op = "approve"
                THEN [type |-> "merge", pull |-> n, head |-> rev[v].head, want |-> Wanted(v)]
                ELSE [type |-> "close", pull |-> n]
<1>1. w.type # "put" OBVIOUS
<1>2. sub' = sub BY DEF Decide, Rest
<1>3. UNCHANGED <<github, failures, history>> \/ Lands(w) \/ Refused(w) \/ Unknown(w)
  BY DEF Decide
<1> HIDE DEF w
<1>4. CASE UNCHANGED <<github, failures, history>>
  BY <1>2, <1>4, QuietStep DEF github, history
<1> QED BY <1>1, <1>2, <1>3, <1>4, ReviewWrites

LEMMA SubmitStep ==
  ASSUME IInv, NEW r \in Visitors, NEW f, NEW l, Submit(r, f, l)
  PROVE  IInv'
<1> DEFINE new == [sub[r] EXCEPT !.step = "list", !.file = f, !.line = l]
<1>1. Knows(r) /\ DOMAIN sub = Visitors BY DEF IInv
<1>2. sub[r].step = "idle" /\ sub[r].answer = "" /\ r \notin wrote
  BY <1>1 DEF Submit, Step, Knows
<1>3. DOMAIN new = Fields /\ new.step = "list" /\ new.answer = "" BY <1>1, <1>2 DEF Knows, Fields
<1>4. sub' = [sub EXCEPT ![r] = new] BY <1>1 DEF Submit
<1>5. UNCHANGED <<pulls, late, wrote>> BY DEF Submit, github, history
<1>6. PullsShape' /\ Kept BY <1>5, SameKept DEF IInv
<1> HIDE DEF new
<1> QED BY <1>2, <1>3, <1>4, <1>5, <1>6, GoesOn

LEMMA BusyStep ==
  ASSUME IInv, NEW r \in Visitors, Busy(r)
  PROVE  IInv'
<1>1. sub[r].step = "idle" /\ r \notin wrote BY DEF Busy, Step, IInv, Knows
<1>2. UNCHANGED <<pulls, late, wrote>> /\ Answered(r, "busy") BY DEF Busy, github, history
<1>3. PullsShape' /\ Kept BY <1>2, SameKept DEF IInv
<1> QED BY <1>1, <1>2, <1>3, AnswersStep

LEMMA ListStep ==
  ASSUME IInv, NEW r \in Visitors, List(r)
  PROVE  IInv'
<1> DEFINE new == [sub[r] EXCEPT !.pull = Rolling, !.step = "read"]
<1>1. Knows(r) /\ DOMAIN sub = Visitors /\ PullsShape BY DEF IInv
<1>2. sub[r].step = "list" /\ sub[r].answer = "" /\ r \notin wrote BY <1>1 DEF List, Step, Knows
<1>3. DOMAIN new = Fields /\ new.step = "read" /\ new.answer = "" /\ new.pull = Rolling
  BY <1>1, <1>2 DEF Knows, Fields
<1>4. sub' = [sub EXCEPT ![r] = new] BY <1>1 DEF List
<1>5. UNCHANGED <<pulls, late, wrote>> BY DEF List, github, history
<1>6. PullsShape' /\ Kept BY <1>5, SameKept DEF IInv
<1>7. Rolling # 0 => Rolling \in DOMAIN pulls' BY <1>1, <1>5, RollingIsThere DEF Rolling
<1> HIDE DEF new
<1> QED BY <1>2, <1>3, <1>4, <1>5, <1>6, <1>7, GoesOn

LEMMA ReadStep ==
  ASSUME IInv, NEW r \in Visitors, Read(r)
  PROVE  IInv'
<1> DEFINE q == sub[r]
           at == IF q.pull = 0 THEN main ELSE Content(q.pull)
           new == [q EXCEPT !.step = IF q.pull = 0 THEN "branch" ELSE "put",
                            !.name = IF q.pull = 0 THEN second ELSE pulls[q.pull].name,
                            !.start = at, !.seen = at[q.file]]
<1>1. Knows(r) /\ Names(r) /\ DOMAIN sub = Visitors BY DEF IInv
<1>2. q.step = "read" /\ q.answer = "" /\ r \notin wrote BY <1>1 DEF Read, Step, Knows
<1>3. UNCHANGED <<pulls, late, wrote>> BY DEF Read, github, history
<1>4. PullsShape' /\ Kept BY <1>3, SameKept DEF IInv
<1>5. CASE Answered(r, "listed") BY <1>2, <1>3, <1>4, <1>5, AnswersStep
<1>6. CASE sub' = [sub EXCEPT ![r] = new]
  <2>1. /\ DOMAIN new = Fields /\ new.answer = "" /\ new.pull = q.pull
        /\ new.step = IF q.pull = 0 THEN "branch" ELSE "put"
        /\ new.name = IF q.pull = 0 THEN second ELSE pulls[q.pull].name
    BY <1>1, <1>2 DEF Knows, Fields
  <2>2. new.pull # 0 => new.pull \in DOMAIN pulls' BY <1>1, <1>2, <1>3, <2>1 DEF Names
  <2>3. new.pull # 0 => pulls'[new.pull].name = new.name BY <1>3, <2>1
  <2> HIDE DEF new
  <2> QED BY <1>2, <1>3, <1>4, <1>6, <2>1, <2>2, <2>3, GoesOn
<1>7. Answered(r, "listed") \/ sub' = [sub EXCEPT ![r] = new] BY DEF Read
<1> QED BY <1>5, <1>6, <1>7

LEMMA UnavailableStep ==
  ASSUME IInv, NEW r \in Visitors, Unavailable(r)
  PROVE  IInv'
<1>1. sub[r].step # "done" /\ r \notin wrote BY DEF Unavailable, IInv, Knows
<1>2. UNCHANGED <<pulls, late, wrote>> /\ Answered(r, "unavailable")
  BY DEF Unavailable, github, history
<1>3. PullsShape' /\ Kept BY <1>2, SameKept DEF IInv
<1> QED BY <1>1, <1>2, <1>3, AnswersStep

LEMMA DieStep ==
  ASSUME IInv, NEW r \in Visitors, Die(r)
  PROVE  IInv'
<1>1. UNCHANGED <<pulls, late, wrote>> /\ Answered(r, "none") /\ sub[r].step # "done"
  BY DEF Die, github, history
<1>2. PullsShape' /\ Kept BY <1>1, SameKept DEF IInv
<1> QED BY <1>1, <1>2, AnswersStep DEF NothingWritten

\* A step to the next call.
LEMMA GoRecord ==
  ASSUME IInv, NEW r \in Visitors, NEW s, Go(r, s)
  PROVE  LET new == [sub[r] EXCEPT !.step = s] IN
         /\ sub' = [sub EXCEPT ![r] = new]
         /\ DOMAIN new = Fields /\ new.step = s /\ new.answer = sub[r].answer
         /\ new.pull = sub[r].pull /\ new.name = sub[r].name
BY DEF Go, IInv, Knows, Fields

LEMMA BranchStep ==
  ASSUME IInv, NEW r \in Visitors, Branch(r)
  PROVE  IInv'
<1> DEFINE w == [type |-> "branch", name |-> sub[r].name, start |-> sub[r].start]
           new == [sub[r] EXCEPT !.step = "put"]
<1>1. sub[r].step = "branch" /\ sub[r].answer = "" /\ r \notin wrote /\ sub[r].pull = 0
  BY DEF Branch, Step, IInv, Knows, Names
<1>2. w.type = "branch" OBVIOUS
<1>3. \/ Lands(w) /\ Go(r, "put")
      \/ Refused(w) /\ Answered(r, "conflict")
      \/ Unknown(w) /\ Answered(r, "unavailable")
  BY DEF Branch
<1> HIDE DEF w
<1>4. CASE Lands(w) /\ Go(r, "put")
  <2>1. PullsShape' /\ Kept BY <1>4, AppliesKept DEF Lands, IInv
  <2>2. wrote' = wrote /\ late' = late BY <1>2, <1>4, AppliesWrote DEF Lands
  <2>3. /\ sub' = [sub EXCEPT ![r] = new] /\ DOMAIN new = Fields /\ new.step = "put"
        /\ new.answer = "" /\ new.pull = 0
    BY <1>1, <1>4, GoRecord
  <2> HIDE DEF new
  <2> QED BY <1>1, <2>1, <2>2, <2>3, GoesOn
<1>5. CASE Refused(w) /\ Answered(r, "conflict")
  <2>1. UNCHANGED <<pulls, late, wrote>> BY <1>5 DEF Refused, github, history
  <2>2. PullsShape' /\ Kept BY <2>1, SameKept DEF IInv
  <2> QED BY <1>1, <1>5, <2>1, <2>2, AnswersStep
<1>6. CASE Unknown(w) /\ Answered(r, "unavailable")
  <2>1. UNCHANGED <<pulls, wrote>> /\ late' = late \cup {w} BY <1>6 DEF Unknown, history
  <2>2. PullsShape' /\ Kept BY <2>1, SameKept DEF IInv
  <2> QED BY <1>1, <1>2, <1>6, <2>1, <2>2, AnswersStep
<1> QED BY <1>3, <1>4, <1>5, <1>6

LEMMA PutStep ==
  ASSUME IInv, NEW r \in Visitors, Put(r)
  PROVE  IInv'
<1> DEFINE q == sub[r]
           w == [type |-> "put", name |-> q.name, file |-> q.file, old |-> q.seen,
                 new |-> Append(q.seen, q.line), by |-> {r}]
           new == [sub[r] EXCEPT !.step = "open"]
<1>1. /\ q.step = "put" /\ q.answer = "" /\ r \notin wrote
      /\ q.pull # 0 => q.pull \in DOMAIN pulls /\ pulls[q.pull].name = q.name
  BY DEF Put, Step, IInv, Knows, Names
<1>2. w.type = "put" /\ w.by = {r} OBVIOUS
<1>3. \/ Lands(w) /\ IF q.pull = 0 THEN Go(r, "open") ELSE Created(r, q.pull)
      \/ Refused(w) /\ Answered(r, "conflict")
      \/ Unknown(w) /\ Answered(r, "uncertain")
  BY DEF Put, GaveUp
<1> HIDE DEF w
<1>4. CASE Lands(w)
  <2>1. PullsShape' /\ Kept BY <1>4, AppliesKept DEF Lands, IInv
  <2>2. wrote' = wrote \cup {r} /\ late' = late BY <1>2, <1>4, AppliesWrote DEF Lands
  <2>3. CASE Go(r, "open")
    <3>1. /\ sub' = [sub EXCEPT ![r] = new] /\ DOMAIN new = Fields /\ new.step = "open"
          /\ new.answer = ""
      BY <1>1, <2>3, GoRecord
    <3> HIDE DEF new
    <3> QED BY <1>1, <2>1, <2>2, <3>1, GoesOn
  <2>4. CASE q.pull # 0 /\ Created(r, q.pull)
    <3>1. q.pull \in DOMAIN pulls' /\ pulls'[q.pull].name = q.name BY <1>1, <2>1, <2>4 DEF Kept
    <3> QED BY <1>1, <2>1, <2>2, <2>4, <3>1, CreatedStep
  <2>5. ~Refused(w) BY <1>4 DEF Lands, Refused
  <2>6. CASE Unknown(w) /\ Answered(r, "uncertain")
    BY <1>1, <2>1, <2>2, <2>6, AnswersStep DEF NothingWritten
  <2> QED BY <1>3, <2>3, <2>4, <2>5, <2>6
<1>5. CASE Refused(w) /\ Answered(r, "conflict")
  <2>1. UNCHANGED <<pulls, late, wrote>> BY <1>5 DEF Refused, github, history
  <2>2. PullsShape' /\ Kept BY <2>1, SameKept DEF IInv
  <2> QED BY <1>1, <1>5, <2>1, <2>2, AnswersStep
<1>6. CASE Unknown(w) /\ Answered(r, "uncertain")
  <2>1. UNCHANGED <<pulls, wrote>> /\ late' = late \cup {w} BY <1>6 DEF Unknown, history
  <2>2. PullsShape' /\ Kept BY <2>1, SameKept DEF IInv
  <2> QED BY <1>1, <1>2, <1>6, <2>1, <2>2, AnswersStep DEF NothingWritten
<1> QED BY <1>3, <1>4, <1>5, <1>6

LEMMA OpenStep ==
  ASSUME IInv, NEW r \in Visitors, Open(r)
  PROVE  IInv'
<1> DEFINE w == [type |-> "open", name |-> sub[r].name]
           e == [name |-> w.name, base |-> main, state |-> "open"]
<1>1. sub[r].step = "open" /\ r \in wrote BY DEF Open, Step, IInv, Knows
<1>2. w.type = "open" /\ w.name = sub[r].name /\ e.name = w.name
      /\ DOMAIN e = {"name", "base", "state"}
  OBVIOUS
<1>3. \/ Lands(w) /\ Created(r, Len(pulls) + 1)
      \/ Unknown(w) /\ Answered(r, "uncertain")
      \/ UNCHANGED <<github, failures, history>> /\ Answered(r, "uncertain")
  BY DEF Open, GaveUp
<1>4. Lands(w) => pulls' = Append(pulls, e) BY <1>2 DEF Lands, Applies
<1> HIDE DEF w, e
<1>5. CASE Lands(w) /\ Created(r, Len(pulls) + 1)
  <2>1. /\ PullsShape' /\ Kept
        /\ Len(pulls) + 1 \in DOMAIN pulls' /\ pulls'[Len(pulls) + 1] = e
    BY <1>2, <1>4, <1>5, AppendKept DEF IInv
  <2>2. wrote' = wrote /\ late' = late BY <1>2, <1>5, AppliesWrote DEF Lands
  <2> QED BY <1>1, <1>2, <1>5, <2>1, <2>2, CreatedStep
<1>6. CASE Unknown(w) /\ Answered(r, "uncertain")
  <2>1. UNCHANGED <<pulls, wrote>> /\ late' = late \cup {w} BY <1>6 DEF Unknown, history
  <2>2. PullsShape' /\ Kept BY <2>1, SameKept DEF IInv
  <2> QED BY <1>1, <1>2, <1>6, <2>1, <2>2, AnswersStep DEF NothingWritten
<1>7. CASE UNCHANGED <<github, failures, history>> /\ Answered(r, "uncertain")
  <2>1. UNCHANGED <<pulls, late, wrote>> BY <1>7 DEF github, history
  <2>2. PullsShape' /\ Kept BY <2>1, SameKept DEF IInv
  <2> QED BY <1>1, <1>7, <2>1, <2>2, AnswersStep DEF NothingWritten
<1> QED BY <1>3, <1>5, <1>6, <1>7

LEMMA StepIInv == IInv /\ [DictNext]_dictVars => IInv'
<1> SUFFICES ASSUME IInv, [DictNext]_dictVars PROVE IInv' OBVIOUS
<1>1. CASE UNCHANGED dictVars BY <1>1, QuietStep DEF dictVars, github, history
<1>2. CASE Later \/ LoseLock
  <2>1. UNCHANGED <<pulls, late, sub, wrote>> BY <1>2 DEF Later, LoseLock, github, history
  <2> QED BY <2>1, QuietStep
<1>3. CASE \E w \in late : Arrive(w) BY <1>3, ArriveStep
<1>4. CASE \E n \in DOMAIN pulls : ByHand(n) BY <1>4, ByHandStep
<1>5. ASSUME NEW r \in Visitors,
             \/ \E f \in Files, l \in Lines : Submit(r, f, l)
             \/ Busy(r) \/ List(r) \/ Read(r) \/ Unavailable(r) \/ Branch(r) \/ Put(r)
             \/ Open(r) \/ Die(r)
      PROVE  IInv'
  BY <1>5, SubmitStep, BusyStep, ListStep, ReadStep, UnavailableStep, BranchStep, PutStep,
     OpenStep, DieStep
<1>6. ASSUME NEW v \in Reviewers,
             \/ \E n \in DOMAIN pulls : Look(v, n)
             \/ Keep(v) \/ ApproveAll(v) \/ Reject(v) \/ Stop(v)
      PROVE  IInv'
  <2>1. UNCHANGED <<pulls, late, sub, wrote>>
    BY <1>6 DEF Look, Keep, ApproveAll, Reject, Stop, Rest, github, history
  <2> QED BY <2>1, QuietStep
<1>7. ASSUME NEW v \in Reviewers, Trim(v) \/ Decide(v) PROVE IInv'
  BY <1>7, TrimStep, DecideStep
<1> QED BY <1>1, <1>2, <1>3, <1>4, <1>5, <1>6, <1>7 DEF DictNext

\* The writes are as each submission knows them, on the pull requests it goes by.
THEOREM SubmissionInvariance == DictSpec => []IInv
BY InitIInv, StepIInv, PTL DEF DictSpec

LEMMA IInvAnswers == IInv => AnswersAreTrue
<1> SUFFICES ASSUME IInv, NEW r \in Visitors
             PROVE  /\ sub[r].answer \in NothingWritten =>
                         r \notin wrote /\ ~\E w \in late : w.type = "put" /\ r \in w.by
                    /\ sub[r].answer = "created" =>
                         r \in wrote /\ pulls[sub[r].pull].name = sub[r].name
  BY DEF AnswersAreTrue, NothingWritten
<1>1. Knows(r) /\ Names(r) BY DEF IInv
<1>2. ASSUME sub[r].answer \in NothingWritten, NEW w \in late, w.type = "put", r \in w.by
      PROVE  FALSE
  BY <1>2 DEF IInv, LateIsUncertain, NothingWritten
<1> QED BY <1>1, <1>2 DEF Knows, Names

\* A visitor told that nothing was written may submit again: nothing was, and
\* nothing will be; one given a pull request has the entry on its branch (submit).
THEOREM AnswersHold == DictSpec => []AnswersAreTrue
BY SubmissionInvariance, IInvAnswers, PTL

----------------------------------------------------------------------------
(* One rolling pull request.  While nothing fails, the lock keeps the      *)
(* submissions apart, and one that found no open pull request knows that   *)
(* there is none until it has opened its own.                              *)

NoneOpen == \A n \in DOMAIN pulls : pulls[n].state # "open"
AtMostOne ==
  \A m, n \in DOMAIN pulls : pulls[m].state = "open" /\ pulls[n].state = "open" => m = n

Working(r) == sub[r].step \in {"list", "read", "branch", "put", "open"}

Alone(r) ==
  /\ Working(r) => lock = r
  /\ sub[r].step \in {"read", "branch", "put"} /\ sub[r].pull = 0 => NoneOpen
  /\ sub[r].step = "open" => NoneOpen

CalmInv ==
  /\ failures \in Nat /\ failures <= MaxFaults
  /\ failures = MaxFaults => late = {} /\ AtMostOne /\ \A r \in Visitors : Alone(r)

\* No pull request is opened.
Fewer ==
  \A n \in DOMAIN pulls' :
    n \in DOMAIN pulls /\ (pulls'[n].state = "open" => pulls[n].state = "open")

LEMMA FewerOpen ==
  ASSUME Fewer
  PROVE  (NoneOpen => NoneOpen') /\ (AtMostOne => AtMostOne')
BY DEF Fewer, NoneOpen, AtMostOne

LEMMA StateFewer ==
  ASSUME PullsShape, NEW n, NEW s, s # "open", pulls' = [pulls EXCEPT ![n].state = s]
  PROVE  Fewer
<1>1. DOMAIN pulls' = DOMAIN pulls OBVIOUS
<1>2. \A m \in DOMAIN pulls : m # n => pulls'[m] = pulls[m] OBVIOUS
<1>3. n \in DOMAIN pulls => pulls'[n].state = s
  <2> SUFFICES ASSUME n \in DOMAIN pulls PROVE pulls'[n].state = s OBVIOUS
  <2>1. pulls'[n] = [pulls[n] EXCEPT !.state = s] OBVIOUS
  <2>2. "state" \in DOMAIN pulls[n] BY DEF PullsShape
  <2> QED BY <2>1, <2>2
<1> QED BY <1>1, <1>2, <1>3 DEF Fewer

LEMMA SameFewer == pulls' = pulls => Fewer
BY DEF Fewer

LEMMA AppliesFewer ==
  ASSUME PullsShape, NEW w, Applies(w), w.type # "open"
  PROVE  Fewer
<1>1. CASE w.type = "merge"
  <2>1. pulls' = [pulls EXCEPT ![w.pull].state = "merged"] BY <1>1 DEF Applies
  <2> QED BY <2>1, StateFewer
<1>2. CASE w.type = "close"
  <2>1. pulls' = [pulls EXCEPT ![w.pull].state = "closed"] BY <1>2 DEF Applies
  <2> QED BY <2>1, StateFewer
<1>3. CASE w.type \notin {"merge", "close"}
  <2>1. pulls' = pulls BY <1>3 DEF Applies
  <2> QED BY <2>1, SameFewer
<1> QED BY <1>1, <1>2, <1>3

\* After a failure nothing is claimed.
LEMMA FailureStep ==
  ASSUME CalmInv, failures > 0, failures' = failures - 1
  PROVE  CalmInv'
BY SubmissionAssumption DEF CalmInv

LEMMA CalmOther ==
  ASSUME CalmInv, Fewer, failures' = failures, late' \subseteq late, sub' = sub, lock' = lock
  PROVE  CalmInv'
<1>1. \A r \in Visitors : Alone(r) => Alone(r)' BY FewerOpen DEF Alone, Working
<1> QED BY <1>1, FewerOpen DEF CalmInv

LEMMA CalmVisitor ==
  ASSUME IInv, CalmInv, Fewer, failures' = failures, late' \subseteq late,
         NEW r \in Visitors, NEW new, sub' = [sub EXCEPT ![r] = new],
         lock' = lock \/ lock' = Released(r),
         failures = MaxFaults => Alone(r)'
  PROVE  CalmInv'
<1>1. \A q \in Visitors : q # r => sub'[q] = sub[q] BY DEF IInv
<1>2. ASSUME failures = MaxFaults, NEW q \in Visitors, q # r PROVE Alone(q)'
  <2>1. Alone(q) BY <1>2 DEF CalmInv
  <2>2. lock = q => lock' = q BY <1>2 DEF Released
  <2> QED BY <1>1, <1>2, <2>1, <2>2, FewerOpen DEF Alone, Working
<1>3. failures = MaxFaults => \A q \in Visitors : Alone(q)' BY <1>2
<1> QED BY <1>3, FewerOpen DEF CalmInv

LEMMA CalmAnswers ==
  ASSUME IInv, CalmInv, Fewer, failures' = failures, late' \subseteq late,
         NEW r \in Visitors, NEW a, Answered(r, a)
  PROVE  CalmInv'
<1> DEFINE new == [NoSub EXCEPT !.step = "done", !.answer = a]
<1>1. new.step = "done" BY AnswerRecord
<1>2. sub' = [sub EXCEPT ![r] = new] /\ lock' = Released(r) BY DEF Answered
<1> HIDE DEF new
<1>3. sub'[r] = new BY <1>2 DEF IInv
<1>4. Alone(r)' BY <1>1, <1>3 DEF Alone, Working
<1> QED BY <1>2, <1>4, CalmVisitor

LEMMA CalmSubmit ==
  ASSUME IInv, CalmInv, NEW r \in Visitors, NEW f, NEW l, Submit(r, f, l)
  PROVE  CalmInv'
<1>1. UNCHANGED <<pulls, late, failures>> /\ lock = Nobody /\ lock' = r
  BY DEF Submit, Unlocked, github
<1>2. sub'[r].step = "list" /\ \A q \in Visitors : q # r => sub'[q] = sub[q]
  BY DEF Submit, IInv, Knows, Fields
<1>3. ASSUME failures = MaxFaults, NEW q \in Visitors PROVE Alone(q)'
  <2>1. CASE q = r BY <1>1, <1>2, <2>1 DEF Alone, Working
  <2>2. CASE q # r
    <3>1. Alone(q) /\ lock # q BY <1>1, <1>3, SubmissionAssumption DEF CalmInv
    <3>2. ~Working(q) /\ sub'[q] = sub[q] BY <1>2, <2>2, <3>1 DEF Alone
    <3> QED BY <3>2 DEF Alone, Working
  <2> QED BY <2>1, <2>2
<1>4. Fewer BY <1>1, SameFewer
<1> QED BY <1>1, <1>3, <1>4, FewerOpen DEF CalmInv

LEMMA CalmList ==
  ASSUME IInv, CalmInv, NEW r \in Visitors, List(r)
  PROVE  CalmInv'
<1> DEFINE new == [sub[r] EXCEPT !.pull = Rolling, !.step = "read"]
<1>1. sub[r].step = "list" /\ DOMAIN sub[r] = Fields BY DEF List, Step, IInv, Knows
<1>2. new.pull = Rolling /\ new.step = "read" BY <1>1 DEF Fields
<1>3. sub' = [sub EXCEPT ![r] = new] /\ UNCHANGED <<pulls, late, failures, lock>>
  BY DEF List, github
<1> HIDE DEF new
<1>4. sub'[r] = new BY <1>3 DEF IInv
<1>5. Rolling = 0 => NoneOpen
  <2> SUFFICES ASSUME Rolling = 0 PROVE NoneOpen OBVIOUS
  <2>1. {n \in DOMAIN pulls : IsOpen(n)} = {} BY RollingIsThere DEF IInv
  <2> QED BY <2>1 DEF NoneOpen, IsOpen
<1>6. Fewer BY <1>3, SameFewer
<1>7. failures = MaxFaults => Alone(r)'
  BY <1>1, <1>2, <1>3, <1>4, <1>5 DEF CalmInv, Alone, Working, NoneOpen
<1> QED BY <1>3, <1>6, <1>7, CalmVisitor

LEMMA CalmRead ==
  ASSUME IInv, CalmInv, NEW r \in Visitors, Read(r)
  PROVE  CalmInv'
<1> DEFINE q == sub[r]
           at == IF q.pull = 0 THEN main ELSE Content(q.pull)
           new == [q EXCEPT !.step = IF q.pull = 0 THEN "branch" ELSE "put",
                            !.name = IF q.pull = 0 THEN second ELSE pulls[q.pull].name,
                            !.start = at, !.seen = at[q.file]]
<1>1. q.step = "read" /\ DOMAIN q = Fields BY DEF Read, Step, IInv, Knows
<1>2. UNCHANGED <<pulls, late, failures>> BY DEF Read, github
<1>3. Fewer BY <1>2, SameFewer
<1>4. CASE Answered(r, "listed") BY <1>2, <1>3, <1>4, CalmAnswers
<1>5. CASE sub' = [sub EXCEPT ![r] = new] /\ lock' = lock
  <2>1. new.pull = q.pull /\ new.step \in {"branch", "put"} BY <1>1 DEF Fields
  <2> HIDE DEF new
  <2>2. sub'[r] = new BY <1>5 DEF IInv
  <2>3. failures = MaxFaults => Alone(r)'
    BY <1>1, <1>2, <1>5, <2>1, <2>2 DEF CalmInv, Alone, Working, NoneOpen
  <2> QED BY <1>2, <1>3, <1>5, <2>3, CalmVisitor
<1>6. Answered(r, "listed") \/ (sub' = [sub EXCEPT ![r] = new] /\ lock' = lock) BY DEF Read
<1> QED BY <1>4, <1>5, <1>6

LEMMA CalmGo ==
  ASSUME IInv, CalmInv, Fewer, failures' = failures, late' \subseteq late,
         NEW r \in Visitors, NEW s, Go(r, s),
         \/ s = "put" /\ sub[r].step = "branch"
         \/ s = "open" /\ sub[r].step = "put" /\ sub[r].pull = 0
  PROVE  CalmInv'
<1> DEFINE new == [sub[r] EXCEPT !.step = s]
<1>1. /\ sub' = [sub EXCEPT ![r] = new] /\ new.step = s /\ new.pull = sub[r].pull
  BY GoRecord
<1>2. lock' = lock BY DEF Go
<1> HIDE DEF new
<1>3. sub'[r] = new BY <1>1 DEF IInv
<1>4. failures = MaxFaults => Alone(r)'
  BY <1>1, <1>2, <1>3, FewerOpen DEF CalmInv, Alone, Working
<1> QED BY <1>1, <1>2, <1>4, CalmVisitor

LEMMA CalmBranch ==
  ASSUME IInv, CalmInv, NEW r \in Visitors, Branch(r)
  PROVE  CalmInv'
<1> DEFINE w == [type |-> "branch", name |-> sub[r].name, start |-> sub[r].start]
<1>1. w.type = "branch" /\ sub[r].step = "branch" BY DEF Branch, Step
<1>2. \/ Lands(w) /\ Go(r, "put")
      \/ Refused(w) /\ Answered(r, "conflict")
      \/ Unknown(w)
  BY DEF Branch
<1> HIDE DEF w
<1>3. CASE Lands(w) /\ Go(r, "put")
  <2>1. Fewer BY <1>1, <1>3, AppliesFewer DEF Lands, IInv
  <2> QED BY <1>1, <1>3, <2>1, CalmGo DEF Lands
<1>4. CASE Refused(w) /\ Answered(r, "conflict")
  BY <1>4, SameFewer, CalmAnswers DEF Refused, github
<1>5. CASE Unknown(w) BY <1>5, FailureStep DEF Unknown
<1> QED BY <1>2, <1>3, <1>4, <1>5

\* The answer that names a pull request, while none is opened.
LEMMA CalmCreated ==
  ASSUME IInv, CalmInv, Fewer, failures' = failures, late' \subseteq late,
         NEW r \in Visitors, NEW n, Created(r, n)
  PROVE  CalmInv'
<1> DEFINE new == [NoSub EXCEPT !.step = "done", !.answer = "created", !.pull = n,
                                !.name = sub[r].name]
<1>1. new.step = "done" BY DEF NoSub
<1>2. sub' = [sub EXCEPT ![r] = new] /\ lock' = Released(r) BY DEF Created
<1> HIDE DEF new
<1>3. sub'[r] = new BY <1>2 DEF IInv
<1>4. Alone(r)' BY <1>1, <1>3 DEF Alone, Working
<1> QED BY <1>2, <1>4, CalmVisitor

LEMMA CalmPut ==
  ASSUME IInv, CalmInv, NEW r \in Visitors, Put(r)
  PROVE  CalmInv'
<1> DEFINE q == sub[r]
           w == [type |-> "put", name |-> q.name, file |-> q.file, old |-> q.seen,
                 new |-> Append(q.seen, q.line), by |-> {r}]
<1>1. w.type = "put" /\ q.step = "put" BY DEF Put, Step
<1>2. \/ Lands(w) /\ q.pull = 0 /\ Go(r, "open")
      \/ Lands(w) /\ Created(r, q.pull)
      \/ Refused(w) /\ Answered(r, "conflict")
      \/ Unknown(w)
  BY DEF Put
<1> HIDE DEF w
<1>3. CASE Lands(w) /\ q.pull = 0 /\ Go(r, "open")
  <2>1. Fewer BY <1>1, <1>3, AppliesFewer DEF Lands, IInv
  <2> QED BY <1>1, <1>3, <2>1, CalmGo DEF Lands
<1>4. CASE Lands(w) /\ Created(r, q.pull)
  <2>1. Fewer BY <1>1, <1>4, AppliesFewer DEF Lands, IInv
  <2> QED BY <1>4, <2>1, CalmCreated DEF Lands
<1>5. CASE Refused(w) /\ Answered(r, "conflict")
  BY <1>5, SameFewer, CalmAnswers DEF Refused, github
<1>6. CASE Unknown(w) BY <1>6, FailureStep DEF Unknown
<1> QED BY <1>2, <1>3, <1>4, <1>5, <1>6

\* The one that opens a pull request holds the lock, and there was none.
LEMMA CalmOpens ==
  ASSUME IInv, CalmInv, NEW r \in Visitors, sub[r].step = "open",
         NEW w, w.type = "open", Lands(w), Created(r, Len(pulls) + 1)
  PROVE  CalmInv'
<1> DEFINE e == [name |-> w.name, base |-> main, state |-> "open"]
<1>1. DOMAIN e = {"name", "base", "state"} OBVIOUS
<1>2. pulls' = Append(pulls, e) BY DEF Lands, Applies
<1>3. late' = late /\ failures' = failures BY DEF Lands
<1> HIDE DEF e
<1>4. /\ \A n \in DOMAIN pulls : pulls'[n] = pulls[n]
      /\ \A n \in DOMAIN pulls' : n \in DOMAIN pulls \/ n = Len(pulls) + 1
  <2>1. PICK S : pulls \in Seq(S) BY DEF IInv, PullsShape
  <2> DEFINE T == S \cup {e}
  <2>2. pulls \in Seq(T) /\ e \in T BY <2>1
  <2> HIDE DEF T
  <2>3. /\ pulls' \in Seq(T) /\ Len(pulls') = Len(pulls) + 1
        /\ \A n \in 1..Len(pulls) : pulls'[n] = pulls[n]
    BY <1>2, <2>2, AppendProperties
  <2>4. DOMAIN pulls = 1..Len(pulls) /\ DOMAIN pulls' = 1..Len(pulls') /\ Len(pulls) \in Nat
    BY <2>2, <2>3
  <2> QED BY <2>3, <2>4
<1>5. sub'[r].step = "done" /\ \A q \in Visitors : q # r => sub'[q] = sub[q]
  BY DEF Created, NoSub, IInv
<1>6. ASSUME failures = MaxFaults PROVE AtMostOne' /\ \A q \in Visitors : Alone(q)'
  <2>1. NoneOpen /\ lock = r BY <1>6 DEF CalmInv, Alone, Working
  <2>2. AtMostOne' BY <1>4, <2>1 DEF NoneOpen, AtMostOne
  <2>3. ASSUME NEW q \in Visitors PROVE Alone(q)'
    <3>1. CASE q = r BY <1>5, <3>1 DEF Alone, Working
    <3>2. CASE q # r
      <4>1. ~Working(q) BY <1>6, <2>1, <3>2 DEF CalmInv, Alone
      <4> QED BY <1>5, <3>2, <4>1 DEF Alone, Working
    <3> QED BY <3>1, <3>2
  <2> QED BY <2>2, <2>3
<1> QED BY <1>3, <1>6 DEF CalmInv

LEMMA CalmOpen ==
  ASSUME IInv, CalmInv, NEW r \in Visitors, Open(r)
  PROVE  CalmInv'
<1> DEFINE w == [type |-> "open", name |-> sub[r].name]
<1>1. w.type = "open" /\ sub[r].step = "open" BY DEF Open, Step
<1>2. \/ Lands(w) /\ Created(r, Len(pulls) + 1)
      \/ Unknown(w)
      \/ UNCHANGED <<github, failures, history>> /\ Answered(r, "uncertain")
  BY DEF Open, GaveUp
<1> HIDE DEF w
<1>3. CASE Lands(w) /\ Created(r, Len(pulls) + 1) BY <1>1, <1>3, CalmOpens
<1>4. CASE Unknown(w) BY <1>4, FailureStep DEF Unknown
<1>5. CASE UNCHANGED <<github, failures, history>> /\ Answered(r, "uncertain")
  BY <1>5, SameFewer, CalmAnswers DEF github
<1> QED BY <1>2, <1>3, <1>4, <1>5

LEMMA CalmReviewWrites ==
  ASSUME IInv, CalmInv, UNCHANGED <<sub, lock>>, NEW w, w.type # "open",
         Lands(w) \/ Refused(w) \/ Unknown(w)
  PROVE  CalmInv'
<1>1. CASE Lands(w)
  <2>1. Fewer BY <1>1, AppliesFewer DEF Lands, IInv
  <2> QED BY <1>1, <2>1, CalmOther DEF Lands
<1>2. CASE Refused(w) BY <1>2, SameFewer, CalmOther DEF Refused, github
<1>3. CASE Unknown(w) BY <1>3, FailureStep DEF Unknown
<1> QED BY <1>1, <1>2, <1>3

LEMMA CalmTrim ==
  ASSUME IInv, CalmInv, NEW v \in Reviewers, Trim(v)
  PROVE  CalmInv'
<1> DEFINE f == Head(rev[v].todo)
           w == [type |-> "put", name |-> pulls[rev[v].pull].name, file |-> f,
                 old |-> rev[v].files[f], new |-> Wanted(v)[f], by |-> {}]
<1>1. w.type # "open" OBVIOUS
<1>2. Lands(w) \/ Refused(w) \/ Unknown(w) BY DEF Trim
<1>3. UNCHANGED <<sub, lock>> BY DEF Trim, Rest
<1> HIDE DEF w
<1> QED BY <1>1, <1>2, <1>3, CalmReviewWrites

LEMMA CalmDecide ==
  ASSUME IInv, CalmInv, NEW v \in Reviewers, Decide(v)
  PROVE  CalmInv'
<1> DEFINE n == rev[v].pull
           w == IF rev[v].op = "approve"
                THEN [type |-> "merge", pull |-> n, head |-> rev[v].head, want |-> Wanted(v)]
                ELSE [type |-> "close", pull |-> n]
<1>1. w.type # "open" OBVIOUS
<1>2. UNCHANGED <<sub, lock>> BY DEF Decide, Rest
<1>3. UNCHANGED <<github, failures, history>> \/ Lands(w) \/ Refused(w) \/ Unknown(w)
  BY DEF Decide
<1> HIDE DEF w
<1>4. CASE UNCHANGED <<github, failures, history>>
  BY <1>2, <1>4, SameFewer, CalmOther DEF github
<1> QED BY <1>1, <1>2, <1>3, <1>4, CalmReviewWrites

LEMMA InitCalm == DictInit => CalmInv
<1> SUFFICES ASSUME DictInit PROVE CalmInv OBVIOUS
<1>1. failures = MaxFaults /\ late = {} BY DEF DictInit
<1>2. AtMostOne
  <2>1. CASE pulls = <<>> BY <2>1 DEF AtMostOne
  <2>2. CASE pulls = <<[name |-> 0, base |-> Empty, state |-> "open"]>>
    <3> DEFINE e == [name |-> 0, base |-> Empty, state |-> "open"]
    <3>1. pulls = <<e>> BY <2>2
    <3> HIDE DEF e
    <3>2. DOMAIN pulls = {1} BY <3>1
    <3> QED BY <3>2 DEF AtMostOne
  <2> QED BY <2>1, <2>2 DEF DictInit
<1>3. \A r \in Visitors : sub[r].step = "idle" BY DEF DictInit, NoSub
<1>4. \A r \in Visitors : Alone(r) BY <1>3 DEF Alone, Working
<1> QED BY <1>1, <1>2, <1>4, SubmissionAssumption DEF CalmInv

LEMMA StepCalm == IInv /\ CalmInv /\ [DictNext]_dictVars => CalmInv'
<1> SUFFICES ASSUME IInv, CalmInv, [DictNext]_dictVars PROVE CalmInv' OBVIOUS
<1> USE SameFewer, CalmOther
<1>1. CASE UNCHANGED dictVars BY <1>1 DEF dictVars, github
<1>2. CASE Later BY <1>2 DEF Later, github
<1>3. CASE LoseLock BY <1>3, FailureStep DEF LoseLock
<1>4. ASSUME NEW w \in late, Arrive(w) PROVE CalmInv'
  BY <1>4 DEF Arrive, CalmInv
<1>5. ASSUME NEW n \in DOMAIN pulls, ByHand(n) PROVE CalmInv'
  <2>1. PICK s \in {"closed", "merged"} : pulls' = [pulls EXCEPT ![n].state = s]
    BY <1>5 DEF ByHand
  <2>2. Fewer BY <2>1, StateFewer DEF IInv
  <2> QED BY <1>5, <2>2 DEF ByHand
<1>6. ASSUME NEW r \in Visitors,
             \/ \E f \in Files, l \in Lines : Submit(r, f, l)
             \/ List(r) \/ Read(r) \/ Branch(r) \/ Put(r) \/ Open(r)
      PROVE  CalmInv'
  BY <1>6, CalmSubmit, CalmList, CalmRead, CalmBranch, CalmPut, CalmOpen
<1>7. ASSUME NEW r \in Visitors, Busy(r) \/ Unavailable(r) PROVE CalmInv'
  BY <1>7, CalmAnswers DEF Busy, Unavailable, github
<1>8. ASSUME NEW r \in Visitors, Die(r) PROVE CalmInv' BY <1>8, FailureStep DEF Die
<1>9. ASSUME NEW v \in Reviewers,
             \/ \E n \in DOMAIN pulls : Look(v, n)
             \/ Keep(v) \/ ApproveAll(v) \/ Reject(v) \/ Stop(v)
      PROVE  CalmInv'
  <2>1. UNCHANGED <<pulls, late, failures, sub, lock>>
    BY <1>9 DEF Look, Keep, ApproveAll, Reject, Stop, Rest, github
  <2> QED BY <2>1
<1>10. ASSUME NEW v \in Reviewers, Trim(v) \/ Decide(v) PROVE CalmInv'
  BY <1>10, CalmTrim, CalmDecide
<1> QED BY <1>1, <1>2, <1>3, <1>4, <1>5, <1>6, <1>7, <1>8, <1>9, <1>10 DEF DictNext

LEMMA CalmIsOne == IInv /\ CalmInv => OneRolling
<1> SUFFICES ASSUME IInv, CalmInv, failures = MaxFaults
             PROVE  Cardinality({n \in DOMAIN pulls : IsOpen(n)}) <= 1
  BY DEF OneRolling
<1> DEFINE Opens == {n \in DOMAIN pulls : IsOpen(n)}
<1>1. \A m, n \in Opens : m = n BY DEF CalmInv, AtMostOne, IsOpen
<1>2. CASE Opens = {} BY <1>2, FS_EmptySet
<1>3. CASE Opens # {}
  <2>1. PICK n : n \in Opens BY <1>3
  <2>2. Opens = {n} BY <1>1, <2>1
  <2> HIDE DEF Opens
  <2>3. Cardinality(Opens) = 1 BY <2>2, FS_Singleton
  <2> QED BY <2>3 DEF Opens
<1> QED BY <1>2, <1>3

\* While no call fails, no replica dies and no lock is lost, any number of
\* submissions on any number of replicas share one pull request (WaitLock, submit).
THEOREM OneRollingHolds == DictSpec => []OneRolling
<1>1. DictInit => IInv /\ CalmInv BY InitIInv, InitCalm
<1>2. IInv /\ CalmInv /\ [DictNext]_dictVars => (IInv /\ CalmInv)' BY StepIInv, StepCalm
<1> QED BY <1>1, <1>2, CalmIsOne, PTL DEF DictSpec

----------------------------------------------------------------------------
(* Places in order, and what a sequence has at them (InOrder, PartAt).      *)

\* Counting down ends.
LEMMA LeastOf ==
  ASSUME NEW S \in SUBSET Nat, S # {}
  PROVE  \E n \in S : \A m \in S : n <= m
<1>1. PICK n \in S : \A m \in S : <<m, n>> \notin OpToRel(<, Nat)
  BY WFMin, NatLessThanWellFounded, Zenon
<1>2. \A m \in S : ~(m < n) BY <1>1, Zenon DEF OpToRel
<1>3. \A m \in S : n <= m BY <1>2
<1> QED BY <1>3

Increasing(at) == \A i, j \in DOMAIN at : i < j => at[i] < at[j]

\* A set of places of a given size has an order: if some had none, the smallest
\* of them would have one, its first place before the rest.
LEMMA OrderExists ==
  ASSUME NEW S \in SUBSET Nat, IsFiniteSet(S)
  PROVE  \E at \in [1..Cardinality(S) -> S] : Increasing(at)
<1> DEFINE Good(n) == \A T \in SUBSET Nat : IsFiniteSet(T) /\ Cardinality(T) = n =>
                        \E at \in [1..n -> T] : Increasing(at)
           Bad == {n \in Nat : ~Good(n)}
<1>1. Bad = {}
  <2> SUFFICES ASSUME Bad # {} PROVE FALSE OBVIOUS
  <2>1. Bad \in SUBSET Nat OBVIOUS
  <2>2. PICK n \in Bad : \A m \in Bad : n <= m
    <3> HIDE DEF Bad
    <3> QED BY <2>1, LeastOf
  <2>3. PICK T \in SUBSET Nat : /\ IsFiniteSet(T) /\ Cardinality(T) = n
                                /\ ~\E at \in [1..n -> T] : Increasing(at)
    OBVIOUS
  <2>4. n # 0
    <3> SUFFICES ASSUME n = 0 PROVE FALSE OBVIOUS
    <3>1. [i \in 1..0 |-> 0] \in [1..n -> T] OBVIOUS
    <3>2. Increasing([i \in 1..0 |-> 0]) BY DEF Increasing
    <3> QED BY <2>3, <3>1, <3>2
  <2>5. T # {} BY <2>3, <2>4, FS_EmptySet
  <2>6. PICK t \in T : \A u \in T : t <= u BY <2>5, LeastOf
  <2>7. T \ {t} \in SUBSET Nat /\ IsFiniteSet(T \ {t}) /\ Cardinality(T \ {t}) = n - 1
    BY <2>3, <2>6, FS_RemoveElement
  <2>8. n - 1 \in Nat /\ n - 1 \notin Bad
    <3>1. n \in Nat OBVIOUS
    <3> HIDE DEF Bad
    <3> QED BY <3>1, <2>2, <2>4
  <2>9. Good(n - 1) BY <2>8
  <2>10. PICK g \in [1..(n - 1) -> T \ {t}] : Increasing(g)
    <3> HIDE DEF Bad
    <3> QED BY <2>7, <2>9
  <2> DEFINE h == [i \in 1..n |-> IF i = 1 THEN t ELSE g[i - 1]]
  <2>11. \A i \in 1..n : i # 1 => i - 1 \in 1..(n - 1) /\ g[i - 1] \in T /\ g[i - 1] # t
    BY <2>8, <2>10
  <2>12. h \in [1..n -> T] BY <2>11
  <2>13. Increasing(h)
    <3> SUFFICES ASSUME NEW i \in 1..n, NEW j \in 1..n, i < j PROVE h[i] < h[j]
      BY <2>12 DEF Increasing
    <3>1. j # 1 /\ h[j] = g[j - 1] /\ g[j - 1] \in T /\ g[j - 1] # t BY <2>11
    <3>2. CASE i = 1
      <4>1. t <= g[j - 1] /\ t \in Nat /\ g[j - 1] \in Nat BY <2>6, <3>1
      <4> QED BY <3>1, <3>2, <4>1
    <3>3. CASE i # 1
      <4>1. i - 1 \in DOMAIN g /\ j - 1 \in DOMAIN g /\ i - 1 < j - 1 BY <2>10, <2>11, <3>1, <3>3
      <4>2. g[i - 1] < g[j - 1] BY <2>10, <4>1 DEF Increasing
      <4> QED BY <3>1, <3>3, <4>2
    <3> QED BY <3>2, <3>3
  <2> HIDE DEF h
  <2> QED BY <2>3, <2>12, <2>13
<1>2. Cardinality(S) \in Nat BY FS_CardinalityType
<1>3. Good(Cardinality(S)) BY <1>1, <1>2
<1> QED BY <1>3

LEMMA InOrderIs ==
  ASSUME NEW S \in SUBSET Nat, IsFiniteSet(S)
  PROVE  /\ Cardinality(S) \in Nat /\ InOrder(S) \in [1..Cardinality(S) -> S]
         /\ Increasing(InOrder(S))
         /\ \A i, j \in 1..Cardinality(S) : InOrder(S)[i] = InOrder(S)[j] => i = j
         /\ \A x \in S : \E i \in 1..Cardinality(S) : InOrder(S)[i] = x
<1> DEFINE n == Cardinality(S)
           D == 1..n
           at == InOrder(S)
<1>1. n \in Nat BY FS_CardinalityType
<1>2. at \in [D -> S] /\ Increasing(at) BY OrderExists DEF InOrder, Increasing
<1> HIDE DEF at
<1>3. \A i, j \in D : at[i] = at[j] => i = j
  <2> SUFFICES ASSUME NEW i \in D, NEW j \in D, at[i] = at[j] PROVE i = j OBVIOUS
  <2>1. at[i] \in Nat /\ at[j] \in Nat BY <1>2
  <2>2. ~(i < j) /\ ~(j < i)
    BY <1>2, <2>1 DEF Increasing
  <2> QED BY <1>1, <2>2
<1>4. at \in Injection(D, S) BY <1>2, <1>3 DEF Injection, IsInjective
<1>5. IsFiniteSet(D) /\ Cardinality(D) = n
  BY <1>1, FS_Interval
<1>6. at \in Surjection(D, S)
  <2> HIDE DEF D
  <2> QED BY <1>4, <1>5, FS_Injection
<1>7. \A x \in S : \E i \in D : at[i] = x BY <1>6 DEF Surjection
<1> QED BY <1>1, <1>2, <1>3, <1>7 DEF at

\* All places in order are the places.
LEMMA InOrderAll ==
  ASSUME NEW n \in Nat
  PROVE  InOrder(1..n) = [i \in 1..n |-> i]
<1> DEFINE D == 1..n
           at == InOrder(D)
           Moved == {i \in D : at[i] # i}
<1>1. D \in SUBSET Nat /\ IsFiniteSet(D) /\ Cardinality(D) = n BY FS_Interval
<1>2. /\ at \in [D -> D] /\ Increasing(at)
      /\ \A i, j \in D : at[i] = at[j] => i = j
      /\ \A x \in D : \E i \in D : at[i] = x
  <2> HIDE DEF D
  <2>1. D = 1..Cardinality(D) BY <1>1 DEF D
  <2> QED BY <1>1, <2>1, InOrderIs, Zenon
<1> HIDE DEF at
<1>3. Moved = {}
  <2> SUFFICES ASSUME Moved # {} PROVE FALSE OBVIOUS
  <2>1. Moved \in SUBSET Nat OBVIOUS
  <2>2. PICK i \in Moved : \A j \in Moved : i <= j
    <3> HIDE DEF Moved
    <3> QED BY <2>1, LeastOf
  <2>3. i \in D /\ at[i] \in D /\ at[i] # i BY <1>2
  <2>4. \A j \in D : j < i => at[j] = j BY <2>2
  <2>5. ~(at[i] < i)
    <3> SUFFICES ASSUME at[i] < i PROVE FALSE OBVIOUS
    <3>1. at[at[i]] = at[i] BY <2>3, <2>4
    <3> QED BY <1>2, <2>3, <3>1
  <2>6. PICK j \in D : at[j] = i BY <1>2, <2>3
  <2>7. ~(j < i) /\ j # i BY <2>3, <2>4, <2>6
  <2>8. at[i] < at[j] BY <1>2, <2>3, <2>6, <2>7 DEF Increasing
  <2> QED BY <2>3, <2>5, <2>6, <2>8
<1> QED BY <1>2, <1>3 DEF at

\* What a part of a sequence is: its elements at the places, as often as they
\* are there, and the whole of it when it has all places.
LEMMA PartIs ==
  ASSUME NEW T, NEW s \in Seq(T), NEW S \in SUBSET DOMAIN s
  PROVE  /\ PartAt(s, S) \in Seq(T)
         /\ Range(PartAt(s, S)) = {s[i] : i \in S}
         /\ IsInjective(s) => IsInjective(PartAt(s, S))
         /\ PartAt(s, DOMAIN s) = s
<1> DEFINE n == Cardinality(S)
           at == InOrder(S)
           part == [k \in DOMAIN at |-> s[at[k]]]
<1>1. DOMAIN s = 1..Len(s) /\ Len(s) \in Nat OBVIOUS
<1>2. S \in SUBSET Nat /\ IsFiniteSet(S)
  <2>1. IsFiniteSet(1..Len(s)) BY <1>1, FS_Interval
  <2>2. IsFiniteSet(S) BY <1>1, <2>1, FS_Subset
  <2> QED BY <1>1, <2>2
<1>3. /\ n \in Nat /\ at \in [1..n -> S]
      /\ \A i, j \in 1..n : at[i] = at[j] => i = j
      /\ \A x \in S : \E i \in 1..n : at[i] = x
  BY <1>2, InOrderIs
<1>4. PartAt(s, S) = part BY DEF PartAt
<1> HIDE DEF n, at
<1>5. part \in [1..n -> T] BY <1>1, <1>3
<1>6. part \in Seq(T) BY <1>3, <1>5
<1>7. Range(part) = {s[i] : i \in S} BY <1>3 DEF Range
<1>8. IsInjective(s) => IsInjective(part)
  BY <1>3 DEF IsInjective
<1>9. PartAt(s, DOMAIN s) = s
  <2>1. InOrder(1..Len(s)) = [i \in 1..Len(s) |-> i] BY <1>1, InOrderAll
  <2>2. PartAt(s, DOMAIN s) = [k \in 1..Len(s) |-> s[k]] BY <1>1, <2>1 DEF PartAt
  <2> QED BY <1>1, <2>2
<1> QED BY <1>4, <1>6, <1>7, <1>8, <1>9

----------------------------------------------------------------------------
(* What the repository holds, and what the writes under way would put there. *)

ProperSeq == {x \in Seq(Lines) : IsInjective(x)}
ProperFiles == [Files -> ProperSeq]
BranchRow == [start : ProperFiles, files : ProperFiles, head : Nat]

\* The branch of a pull request.
Behind(n) == branch[pulls[n].name]

GithubOK ==
  /\ main \in ProperFiles
  /\ DOMAIN branch \subseteq 0..MaxSecond
  /\ \A n \in DOMAIN branch : branch[n] \in BranchRow
  /\ \A n \in DOMAIN pulls : pulls[n].name \in DOMAIN branch /\ pulls[n].base \in ProperFiles
  /\ \A m \in merges : m.got = m.want

\* A merge names a head, and at that head the branch is what it wants.
WriteOK(w) ==
  /\ w.type \in {"branch", "put", "open", "merge", "close"}
  /\ w.type = "branch" => w.name \in 0..MaxSecond /\ w.start \in ProperFiles
  /\ w.type = "put" => w.file \in Files /\ w.new \in ProperSeq
  /\ w.type \in {"merge", "close"} => w.pull \in DOMAIN pulls
  /\ w.type = "merge" =>
       /\ w.head \in Nat /\ w.head <= Behind(w.pull).head
       /\ Behind(w.pull).head = w.head => Content(w.pull) = w.want

RestOK == second \in 1..MaxSecond /\ lock \in Visitors \cup {Nobody} /\ failures \in 0..MaxFaults

\* A submission adds an entry that the file it read does not have.
SubOK(r) ==
  /\ sub[r].step \in {"list", "read", "branch", "put", "open"} =>
       sub[r].file \in Files /\ sub[r].line \in Lines
  /\ sub[r].step = "branch" => sub[r].name \in 0..MaxSecond /\ sub[r].start \in ProperFiles
  /\ sub[r].step \in {"branch", "put"} =>
       sub[r].seen \in ProperSeq /\ sub[r].line \notin Range(sub[r].seen)

ReviewFields == {"step", "op", "pull", "head", "files", "base", "keep", "todo"}

\* While the branch is at the head a review knows, it holds what was seen there, or
\* what is wanted in every file that is not to be rewritten any more.
RevOK(v) ==
  /\ DOMAIN rev[v] = ReviewFields
  /\ rev[v].step \in {"idle", "seen"} => rev[v].todo = <<>>
  /\ rev[v].step \in {"seen", "write"} =>
       /\ rev[v].pull \in DOMAIN pulls /\ rev[v].files \in ProperFiles /\ rev[v].todo \in Seq(Files)
       /\ rev[v].head \in Nat /\ rev[v].head <= Behind(rev[v].pull).head
  /\ rev[v].step = "seen" /\ Behind(rev[v].pull).head = rev[v].head =>
       Content(rev[v].pull) = rev[v].files
  /\ rev[v].step = "write" /\ rev[v].op \in {"approve", "trim"}
       /\ Behind(rev[v].pull).head = rev[v].head =>
       \A f \in Files : f \notin Range(rev[v].todo) => Content(rev[v].pull)[f] = Wanted(v)[f]

RepoInv ==
  /\ GithubOK /\ RestOK /\ \A w \in late : WriteOK(w)
  /\ \A r \in Visitors : SubOK(r)
  /\ DOMAIN rev = Reviewers /\ \A v \in Reviewers : RevOK(v)

\* Branches stay, and a branch that changes has a new head.
Onward ==
  /\ DOMAIN branch \subseteq DOMAIN branch'
  /\ \A n \in DOMAIN branch :
       branch'[n] = branch[n] \/ branch'[n].head = branch[n].head + 1
  /\ Kept

LEMMA EmptyProper ==
  Empty \in ProperFiles /\ \A f \in Files, l \in Lines : OneLine(f, l) \in ProperFiles
<1>1. <<>> \in ProperSeq BY DEF ProperSeq, IsInjective
<1>2. \A l \in Lines : <<l>> \in ProperSeq
  <2> SUFFICES ASSUME NEW l \in Lines PROVE <<l>> \in ProperSeq OBVIOUS
  <2>1. <<l>> \in Seq(Lines) /\ DOMAIN <<l>> = {1} OBVIOUS
  <2> QED BY <2>1 DEF ProperSeq, IsInjective
<1>3. Empty \in ProperFiles BY <1>1 DEF Empty, ProperFiles
<1>4. ASSUME NEW f \in Files, NEW l \in Lines PROVE OneLine(f, l) \in ProperFiles
  BY <1>1, <1>2 DEF OneLine, Empty, ProperFiles
<1> QED BY <1>3, <1>4

LEMMA RepoInit == DictInit => RepoInv
<1> SUFFICES ASSUME DictInit PROVE RepoInv OBVIOUS
<1>1. \/ branch = <<>> /\ pulls = <<>>
      \/ \E f \in Files, l \in Lines :
           /\ branch = [n \in {0} |-> [start |-> Empty, files |-> OneLine(f, l), head |-> 1]]
           /\ pulls = <<[name |-> 0, base |-> Empty, state |-> "open"]>>
  BY DEF DictInit
<1>2. GithubOK
  <2>1. main \in ProperFiles /\ merges = {} BY EmptyProper DEF DictInit
  <2>2. CASE branch = <<>> /\ pulls = <<>>
    <3>1. DOMAIN branch = {} /\ DOMAIN pulls = {} BY <2>2
    <3> QED BY <2>1, <3>1 DEF GithubOK
  <2>3. ASSUME NEW f \in Files, NEW l \in Lines,
               branch = [n \in {0} |-> [start |-> Empty, files |-> OneLine(f, l), head |-> 1]],
               pulls = <<[name |-> 0, base |-> Empty, state |-> "open"]>>
        PROVE  GithubOK
    <3> DEFINE row == [start |-> Empty, files |-> OneLine(f, l), head |-> 1]
               e == [name |-> 0, base |-> Empty, state |-> "open"]
    <3>1. row \in BranchRow BY EmptyProper DEF BranchRow
    <3>2. DOMAIN branch = {0} /\ branch[0] = row BY <2>3
    <3>3. e.name = 0 /\ e.base = Empty /\ pulls = <<e>> BY <2>3
    <3> HIDE DEF row, e
    <3>4. DOMAIN pulls = {1} /\ pulls[1] = e BY <3>3
    <3>5. 0 \in 0..MaxSecond BY SubmissionAssumption
    <3> QED BY <2>1, <3>1, <3>2, <3>3, <3>4, <3>5, EmptyProper DEF GithubOK
  <2> QED BY <1>1, <2>2, <2>3
<1>3. RestOK /\ late = {} BY SubmissionAssumption DEF RestOK, DictInit
<1>4. ASSUME NEW r \in Visitors PROVE SubOK(r)
  <2>1. sub[r] = NoSub BY DEF DictInit
  <2>2. NoSub.step = "idle" BY DEF NoSub
  <2> QED BY <2>1, <2>2 DEF SubOK
<1>5. DOMAIN rev = Reviewers BY DEF DictInit
<1>6. ASSUME NEW v \in Reviewers PROVE RevOK(v)
  <2>1. rev[v] = NoRev BY DEF DictInit
  <2>2. DOMAIN NoRev = ReviewFields /\ NoRev.step = "idle" /\ NoRev.todo = <<>>
    BY DEF NoRev, ReviewFields
  <2> QED BY <2>1, <2>2 DEF RevOK
<1> QED BY <1>2, <1>3, <1>4, <1>5, <1>6 DEF RepoInv

LEMMA WriteStays ==
  ASSUME GithubOK, Onward, NEW w, WriteOK(w)
  PROVE  WriteOK(w)'
<1>1. CASE w.type = "merge"
  <2>1. /\ w.pull \in DOMAIN pulls /\ w.pull \in DOMAIN pulls'
        /\ pulls'[w.pull].name = pulls[w.pull].name
        /\ pulls[w.pull].name \in DOMAIN branch /\ branch[pulls[w.pull].name] \in BranchRow
    BY <1>1 DEF WriteOK, Onward, Kept, GithubOK
  <2>2. branch[pulls[w.pull].name].head \in Nat BY <2>1 DEF BranchRow
  <2> QED BY <1>1, <2>1, <2>2 DEF WriteOK, Onward, Behind, Content
<1>2. CASE w.type # "merge"
  BY <1>2 DEF WriteOK, Onward, Kept
<1> QED BY <1>1, <1>2

LEMMA RevStays ==
  ASSUME GithubOK, Onward, NEW v, RevOK(v), rev'[v] = rev[v]
  PROVE  RevOK(v)'
<1>1. Wanted(v)' = Wanted(v) BY DEF Wanted
<1>2. CASE rev[v].step \in {"seen", "write"}
  <2> DEFINE n == rev[v].pull
  <2>1. /\ n \in DOMAIN pulls /\ n \in DOMAIN pulls' /\ pulls'[n].name = pulls[n].name
        /\ pulls[n].name \in DOMAIN branch /\ branch[pulls[n].name] \in BranchRow
        /\ rev[v].head \in Nat /\ rev[v].head <= branch[pulls[n].name].head
    BY <1>2 DEF RevOK, Onward, Kept, GithubOK, Behind
  <2>2. branch[pulls[n].name].head \in Nat BY <2>1 DEF BranchRow
  <2>3. \/ branch'[pulls'[n].name] = branch[pulls[n].name]
        \/ /\ branch'[pulls'[n].name].head = branch[pulls[n].name].head + 1
           /\ branch'[pulls'[n].name].head # rev[v].head
    BY <2>1, <2>2 DEF Onward
  <2>4. rev[v].head <= branch'[pulls'[n].name].head BY <2>1, <2>2, <2>3
  <2> QED BY <1>1, <1>2, <2>1, <2>3, <2>4 DEF RevOK, Behind, Content
<1>3. CASE rev[v].step \notin {"seen", "write"}
  BY <1>3 DEF RevOK
<1> QED BY <1>2, <1>3

LEMMA RepoFrame ==
  ASSUME RepoInv, GithubOK', Onward, RestOK', DOMAIN rev' = Reviewers,
         \A w \in late' : w \in late \/ WriteOK(w)',
         \A r \in Visitors : sub'[r] = sub[r] \/ SubOK(r)',
         \A v \in Reviewers : rev'[v] = rev[v] \/ RevOK(v)'
  PROVE  RepoInv'
<1>1. \A w \in late' : WriteOK(w)' BY WriteStays DEF RepoInv
<1>2. \A r \in Visitors : SubOK(r)' BY DEF RepoInv, SubOK
<1>3. \A v \in Reviewers : RevOK(v)' BY RevStays DEF RepoInv
<1> QED BY <1>1, <1>2, <1>3 DEF RepoInv

LEMMA CommitRow ==
  ASSUME NEW b \in BranchRow, NEW f \in Files, NEW x \in ProperSeq
  PROVE  /\ Commit(b, f, x) \in BranchRow /\ Commit(b, f, x).head = b.head + 1
         /\ Commit(b, f, x).files = [b.files EXCEPT ![f] = x]
<1> DEFINE files == [b.files EXCEPT ![f] = x]
           new == Commit(b, f, x)
<1>1. b.files \in [Files -> ProperSeq] /\ b.start \in ProperFiles /\ b.head \in Nat
  BY DEF BranchRow, ProperFiles
<1>2. files \in ProperFiles BY <1>1 DEF ProperFiles
<1>3. DOMAIN b = {"start", "files", "head"} BY DEF BranchRow
<1>4. /\ DOMAIN new = {"start", "files", "head"}
      /\ new.start = b.start /\ new.files = files /\ new.head = b.head + 1
  BY <1>3 DEF Commit
<1>5. new = [start |-> new.start, files |-> new.files, head |-> new.head]
  <2>1. new = [k \in {"start", "files", "head"} |-> new[k]] BY <1>3 DEF Commit
  <2> HIDE DEF new
  <2> QED BY <2>1
<1> HIDE DEF new, files
<1>6. new \in BranchRow BY <1>1, <1>2, <1>4, <1>5 DEF BranchRow
<1> QED BY <1>4, <1>6 DEF new, files

\* GitHub keeps its promises when a write is applied.
LEMMA AppliesOK ==
  ASSUME IInv, RepoInv, NEW w, WriteOK(w), Takes(w), Applies(w)
  PROVE  GithubOK' /\ Onward
<1>1. Kept /\ PullsShape BY AppliesKept DEF IInv
<1>2. GithubOK BY DEF RepoInv
<1>3. CASE w.type = "branch"
  <2> DEFINE row == [start |-> w.start, files |-> w.start, head |-> 0]
  <2>1. row \in BranchRow BY <1>3 DEF WriteOK, BranchRow
  <2>2. branch' = [n \in DOMAIN branch \cup {w.name} |-> IF n = w.name THEN row ELSE branch[n]]
    BY <1>3 DEF Applies, NewBranch
  <2> HIDE DEF row
  <2>3. w.name \notin DOMAIN branch /\ w.name \in 0..MaxSecond BY <1>3 DEF Takes, WriteOK
  <2>4. UNCHANGED <<main, pulls, merges>> BY <1>3 DEF Applies
  <2>5. Onward BY <1>1, <2>2, <2>3 DEF Onward
  <2>6. GithubOK' BY <1>2, <2>1, <2>2, <2>3, <2>4 DEF GithubOK
  <2> QED BY <2>5, <2>6
<1>4. CASE w.type = "put"
  <2> DEFINE b == branch[w.name]
             new == Commit(b, w.file, w.new)
  <2>1. w.name \in DOMAIN branch /\ b \in BranchRow BY <1>2, <1>4 DEF Takes, SameBlob, GithubOK
  <2>2. branch' = [branch EXCEPT ![w.name] = new] BY <1>4 DEF Applies
  <2>3. new \in BranchRow /\ new.head = b.head + 1
    BY <1>4, <2>1, CommitRow DEF WriteOK
  <2> HIDE DEF b, new
  <2>4. UNCHANGED <<main, pulls, merges>> BY <1>4 DEF Applies
  <2>5. DOMAIN branch' = DOMAIN branch /\ branch'[w.name] = new
        /\ \A n \in DOMAIN branch : n # w.name => branch'[n] = branch[n]
    BY <2>1, <2>2
  <2>6. Onward BY <1>1, <2>3, <2>5 DEF Onward, b
  <2>7. GithubOK' BY <1>2, <2>3, <2>4, <2>5 DEF GithubOK
  <2> QED BY <2>6, <2>7
<1>5. CASE w.type = "open"
  <2> DEFINE e == [name |-> w.name, base |-> main, state |-> "open"]
  <2>1. e.name = w.name /\ e.base = main /\ DOMAIN e = {"name", "base", "state"} OBVIOUS
  <2>2. UNCHANGED <<main, branch, merges>> /\ pulls' = Append(pulls, e) BY <1>5 DEF Applies
  <2>3. w.name \in DOMAIN branch BY <1>5 DEF Takes
  <2> HIDE DEF e
  <2>4. PICK S : pulls \in Seq(S) BY <1>1 DEF PullsShape
  <2>5. /\ DOMAIN pulls' = 1..(Len(pulls) + 1) /\ DOMAIN pulls = 1..Len(pulls) /\ Len(pulls) \in Nat
        /\ \A n \in 1..Len(pulls) : pulls'[n] = pulls[n]
        /\ pulls'[Len(pulls) + 1] = e
    BY <2>2, <2>4
  <2>6. \A n \in DOMAIN pulls' : pulls'[n] = e \/ (n \in DOMAIN pulls /\ pulls'[n] = pulls[n])
    BY <2>5
  <2>7. Onward BY <1>1, <2>2 DEF Onward
  <2>8. GithubOK' BY <1>2, <2>1, <2>2, <2>3, <2>6 DEF GithubOK
  <2> QED BY <2>7, <2>8
<1>6. CASE w.type \in {"merge", "close"}
  <2>1. branch' = branch BY <1>6 DEF Applies
  <2>2. PICK s : pulls' = [pulls EXCEPT ![w.pull].state = s] BY <1>6 DEF Applies
  <2>3. \A n \in DOMAIN pulls' : n \in DOMAIN pulls /\ pulls'[n].base = pulls[n].base
    BY <1>1, <2>2 DEF PullsShape
  <2>4. w.pull \in DOMAIN pulls BY <1>6 DEF WriteOK
  <2>5. Behind(w.pull) \in BranchRow BY <1>2, <2>4 DEF GithubOK, Behind
  <2>6. Squashed(Behind(w.pull)) \in ProperFiles
    BY <1>2, <2>5 DEF Squashed, GithubOK, BranchRow, ProperFiles
  <2>7. main' \in ProperFiles BY <1>2, <1>6, <2>6 DEF Applies, GithubOK, Behind
  <2>8. \A m \in merges' : m.got = m.want
    <3>1. CASE w.type = "merge"
      <4>1. Content(w.pull) = w.want BY <3>1 DEF Takes, WriteOK, Behind
      <4>2. merges' = merges \cup {[want |-> w.want, got |-> Content(w.pull)]} BY <3>1 DEF Applies
      <4> QED BY <1>2, <4>1, <4>2 DEF GithubOK
    <3>2. CASE w.type = "close"
      <4>1. merges' = merges BY <3>2 DEF Applies
      <4> QED BY <1>2, <4>1 DEF GithubOK
    <3> QED BY <1>6, <3>1, <3>2
  <2>9. Onward BY <1>1, <2>1 DEF Onward
  <2>10. GithubOK' BY <1>1, <1>2, <2>1, <2>3, <2>7, <2>8 DEF GithubOK, Kept
  <2> QED BY <2>9, <2>10
<1> QED BY <1>3, <1>4, <1>5, <1>6 DEF WriteOK

LEMMA SameOK ==
  ASSUME GithubOK, PullsShape, UNCHANGED <<main, branch, pulls, merges>>
  PROVE  GithubOK' /\ Onward
<1>1. Kept BY SameKept
<1>2. GithubOK' BY DEF GithubOK
<1> QED BY <1>1, <1>2 DEF Onward

\* Whatever comes of a write, the repository is in order, and so is a write that is left under way.
LEMMA OutcomeOK ==
  ASSUME IInv, RepoInv, NEW w, WriteOK(w), Lands(w) \/ Refused(w) \/ Unknown(w)
  PROVE  /\ GithubOK' /\ Onward /\ failures' \in 0..MaxFaults
         /\ \A x \in late' : x \in late \/ WriteOK(x)'
<1>1. GithubOK /\ failures \in 0..MaxFaults /\ PullsShape BY DEF RepoInv, RestOK, IInv
<1>2. CASE Lands(w)
  BY <1>1, <1>2, AppliesOK DEF Lands
<1>3. CASE Refused(w)
  BY <1>1, <1>3, SameOK DEF Refused, github, history
<1>4. CASE Unknown(w)
  <2>1. GithubOK' /\ Onward /\ late' = late \cup {w} BY <1>1, <1>4, SameOK DEF Unknown, history
  <2>2. \A x \in late' : x \in late \/ x = w BY <2>1
  <2>3. \A x \in late' : x \in late \/ (WriteOK(x) /\ WriteOK(x)') BY <1>1, <2>1, <2>2, WriteStays
  <2>4. failures' \in 0..MaxFaults BY <1>1, <1>4, SubmissionAssumption DEF Unknown
  <2> QED BY <2>1, <2>3, <2>4
<1> QED BY <1>2, <1>3, <1>4

LEMMA RepoQuiet ==
  ASSUME IInv, RepoInv, UNCHANGED <<github, merges, rev>>, RestOK',
         \A r \in Visitors : sub'[r] = sub[r] \/ SubOK(r)'
  PROVE  RepoInv'
<1>1. UNCHANGED <<main, branch, pulls, late, merges, rev>> BY DEF github
<1>2. GithubOK' /\ Onward BY <1>1, SameOK DEF RepoInv, IInv
<1> QED BY <1>1, <1>2, RepoFrame DEF RepoInv

\* One visitor's record is replaced.
LEMMA OneSub ==
  ASSUME IInv, NEW r \in Visitors, NEW new, sub' = [sub EXCEPT ![r] = new]
  PROVE  sub'[r] = new /\ \A q \in Visitors : q # r => sub'[q] = sub[q]
BY DEF IInv

\* An answer leaves a submission that claims nothing.
LEMMA AnswerSub ==
  ASSUME IInv, RepoInv, NEW r \in Visitors,
         (\E a : Answered(r, a)) \/ (\E n : Created(r, n))
  PROVE  /\ lock' \in Visitors \cup {Nobody}
         /\ \A q \in Visitors : sub'[q] = sub[q] \/ SubOK(q)'
<1>1. \E new : new.step = "done" /\ sub' = [sub EXCEPT ![r] = new]
  <2>1. ASSUME NEW a, Answered(r, a) PROVE \E new : new.step = "done" /\ sub' = [sub EXCEPT ![r] = new]
    <3> DEFINE new == [NoSub EXCEPT !.step = "done", !.answer = a]
    <3>1. new.step = "done" BY DEF NoSub
    <3>2. sub' = [sub EXCEPT ![r] = new] BY <2>1 DEF Answered
    <3> HIDE DEF new
    <3> QED BY <3>1, <3>2
  <2>2. ASSUME NEW n, Created(r, n) PROVE \E new : new.step = "done" /\ sub' = [sub EXCEPT ![r] = new]
    <3> DEFINE new == [NoSub EXCEPT !.step = "done", !.answer = "created", !.pull = n,
                                    !.name = sub[r].name]
    <3>1. new.step = "done" BY DEF NoSub
    <3>2. sub' = [sub EXCEPT ![r] = new] BY <2>2 DEF Created
    <3> HIDE DEF new
    <3> QED BY <3>1, <3>2
  <2> QED BY <2>1, <2>2
<1>2. PICK new : new.step = "done" /\ sub' = [sub EXCEPT ![r] = new] BY <1>1
<1>3. sub'[r] = new /\ \A q \in Visitors : q # r => sub'[q] = sub[q] BY <1>2, OneSub
<1>4. SubOK(r)' BY <1>2, <1>3 DEF SubOK
<1>5. lock' \in Visitors \cup {Nobody} BY DEF Answered, Created, Released, RepoInv, RestOK
<1> QED BY <1>3, <1>4, <1>5

\* A visitor's step that writes nothing.
LEMMA RepoReads ==
  ASSUME IInv, RepoInv, NEW r \in Visitors,
         \/ \E f \in Files, l \in Lines : Submit(r, f, l)
         \/ Busy(r) \/ List(r) \/ Read(r) \/ Unavailable(r) \/ Die(r)
  PROVE  RepoInv'
<1>1. UNCHANGED <<github, merges, second, rev>>
  BY DEF Submit, Busy, List, Read, Unavailable, Die, Quiet, history
<1>2. failures' \in 0..MaxFaults /\ failures \in 0..MaxFaults
      /\ second \in 1..MaxSecond /\ lock \in Visitors \cup {Nobody}
  <2>1. failures \in 0..MaxFaults /\ second \in 1..MaxSecond /\ lock \in Visitors \cup {Nobody}
    BY DEF RepoInv, RestOK
  <2>2. failures' = failures \/ (failures > 0 /\ failures' = failures - 1)
    BY DEF Submit, Busy, List, Read, Unavailable, Die
  <2> QED BY <2>1, <2>2, SubmissionAssumption
<1>3. Knows(r) /\ Names(r) /\ SubOK(r) /\ DOMAIN sub = Visitors BY DEF IInv, RepoInv
<1>4. SUFFICES lock' \in Visitors \cup {Nobody} /\ \A q \in Visitors : sub'[q] = sub[q] \/ SubOK(q)'
  BY <1>1, <1>2, RepoQuiet DEF RestOK
<1>5. CASE (\E a : Answered(r, a))
  BY <1>5, AnswerSub
<1>6. ASSUME NEW f \in Files, NEW l \in Lines, Submit(r, f, l)
      PROVE  lock' \in Visitors \cup {Nobody} /\ \A q \in Visitors : sub'[q] = sub[q] \/ SubOK(q)'
  <2> DEFINE new == [sub[r] EXCEPT !.step = "list", !.file = f, !.line = l]
  <2>1. new.step = "list" /\ new.file = f /\ new.line = l BY <1>3 DEF Knows, Fields
  <2>2. sub' = [sub EXCEPT ![r] = new] /\ lock' = r BY <1>3, <1>6 DEF Submit
  <2> HIDE DEF new
  <2>3. sub'[r] = new /\ \A q \in Visitors : q # r => sub'[q] = sub[q] BY <2>2, OneSub
  <2>4. SubOK(r)' BY <2>1, <2>3 DEF SubOK
  <2> QED BY <2>2, <2>3, <2>4
<1>7. CASE List(r)
  <2> DEFINE new == [sub[r] EXCEPT !.pull = Rolling, !.step = "read"]
  <2>1. new.step = "read" /\ new.file = sub[r].file /\ new.line = sub[r].line BY <1>3 DEF Knows, Fields
  <2>2. sub' = [sub EXCEPT ![r] = new] /\ lock' = lock /\ sub[r].step = "list"
    BY <1>3, <1>7 DEF List, Step
  <2> HIDE DEF new
  <2>3. sub'[r] = new /\ \A q \in Visitors : q # r => sub'[q] = sub[q] BY <2>2, OneSub
  <2>4. SubOK(r)' BY <1>3, <2>1, <2>2, <2>3 DEF SubOK
  <2> QED BY <1>2, <2>2, <2>3, <2>4
<1>8. CASE Read(r) /\ ~\E a : Answered(r, a)
  <2> DEFINE q == sub[r]
             at == IF q.pull = 0 THEN main ELSE Content(q.pull)
             new == [q EXCEPT !.step = IF q.pull = 0 THEN "branch" ELSE "put",
                              !.name = IF q.pull = 0 THEN second ELSE pulls[q.pull].name,
                              !.start = at, !.seen = at[q.file]]
  <2>1. /\ new.step = (IF q.pull = 0 THEN "branch" ELSE "put")
        /\ new.file = q.file /\ new.line = q.line /\ new.start = at /\ new.seen = at[q.file]
        /\ q.pull = 0 => new.name = second
    BY <1>3 DEF Knows, Fields
  <2>2. /\ sub' = [sub EXCEPT ![r] = new] /\ lock' = lock /\ sub[r].step = "read"
        /\ ~(q.line \in Range(at[q.file]))
    BY <1>3, <1>8 DEF Read, Step, Listed
  <2>3. at \in ProperFiles
    <3>1. CASE q.pull = 0
      BY <3>1 DEF RepoInv, GithubOK
    <3>2. CASE q.pull # 0
      <4>1. q.pull \in DOMAIN pulls BY <1>3, <2>2, <3>2 DEF Names
      <4>2. branch[pulls[q.pull].name] \in BranchRow BY <4>1 DEF RepoInv, GithubOK
      <4> QED BY <3>2, <4>2 DEF Content, BranchRow
    <3> QED BY <3>1, <3>2
  <2>4. q.file \in Files /\ q.line \in Lines BY <1>3, <2>2 DEF SubOK
  <2>5. at[q.file] \in ProperSeq BY <2>3, <2>4 DEF ProperFiles
  <2>6. second \in 0..MaxSecond BY <1>2
  <2> HIDE DEF new, at
  <2>7. sub'[r] = new /\ \A x \in Visitors : x # r => sub'[x] = sub[x] BY <2>2, OneSub
  <2>8. SubOK(r)' BY <2>1, <2>2, <2>3, <2>4, <2>5, <2>6, <2>7 DEF SubOK
  <2> QED BY <1>2, <2>2, <2>7, <2>8
<1> QED BY <1>5, <1>6, <1>7, <1>8 DEF Busy, Unavailable, Die

LEMMA AppendProper ==
  ASSUME NEW s \in ProperSeq, NEW l \in Lines, l \notin Range(s)
  PROVE  Append(s, l) \in ProperSeq
<1> DEFINE new == Append(s, l)
<1>1. s \in Seq(Lines) /\ Len(s) \in Nat /\ DOMAIN s = 1..Len(s) BY DEF ProperSeq
<1>2. /\ new \in Seq(Lines) /\ DOMAIN new = 1..(Len(s) + 1)
      /\ \A i \in 1..Len(s) : new[i] = s[i] /\ s[i] # l
      /\ new[Len(s) + 1] = l
  BY <1>1, AppendProperties DEF Range
<1> HIDE DEF new
<1>3. \A i, j \in 1..Len(s) : s[i] = s[j] => i = j BY <1>1 DEF ProperSeq, IsInjective
<1>4. \A i \in DOMAIN new : i \in 1..Len(s) \/ i = Len(s) + 1 BY <1>1, <1>2
<1>5. IsInjective(new) BY <1>2, <1>3, <1>4 DEF IsInjective
<1> QED BY <1>2, <1>5 DEF ProperSeq, new

\* A visitor's step that writes.
LEMMA RepoWrites ==
  ASSUME IInv, RepoInv, NEW r \in Visitors, Branch(r) \/ Put(r) \/ Open(r)
  PROVE  RepoInv'
<1>1. UNCHANGED <<second, rev>> BY DEF Branch, Put, Open, Quiet
<1>2. second \in 1..MaxSecond /\ lock \in Visitors \cup {Nobody} BY DEF RepoInv, RestOK
<1>3. Knows(r) /\ SubOK(r) /\ DOMAIN sub = Visitors BY DEF IInv, RepoInv
<1>4. SUFFICES /\ GithubOK' /\ Onward /\ failures' \in 0..MaxFaults
               /\ \A x \in late' : x \in late \/ WriteOK(x)'
               /\ lock' \in Visitors \cup {Nobody} /\ \A q \in Visitors : sub'[q] = sub[q] \/ SubOK(q)'
  BY <1>1, <1>2, RepoFrame DEF RestOK, RepoInv
<1>5. ASSUME NEW s \in {"put", "open"}, Go(r, s),
             s = "put" => sub[r].step = "branch", s = "open" => sub[r].step = "put"
      PROVE  lock' \in Visitors \cup {Nobody} /\ \A q \in Visitors : sub'[q] = sub[q] \/ SubOK(q)'
  <2> DEFINE new == [sub[r] EXCEPT !.step = s]
  <2>1. /\ new.step = s /\ new.file = sub[r].file /\ new.line = sub[r].line /\ new.seen = sub[r].seen
    BY <1>3 DEF Knows, Fields
  <2>2. sub' = [sub EXCEPT ![r] = new] /\ lock' = lock BY <1>3, <1>5 DEF Go
  <2> HIDE DEF new
  <2>3. sub'[r] = new /\ \A q \in Visitors : q # r => sub'[q] = sub[q] BY <2>2, OneSub
  <2>4. SubOK(r)' BY <1>3, <1>5, <2>1, <2>3 DEF SubOK
  <2> QED BY <1>2, <2>2, <2>3, <2>4
<1>6. CASE Branch(r)
  <2> DEFINE w == [type |-> "branch", name |-> sub[r].name, start |-> sub[r].start]
  <2>1. sub[r].step = "branch" BY <1>6 DEF Branch, Step
  <2>2. WriteOK(w) BY <1>3, <2>1 DEF WriteOK, SubOK
  <2>3. \/ Lands(w) /\ Go(r, "put")
        \/ (Refused(w) \/ Unknown(w)) /\ \E a : Answered(r, a)
    BY <1>6 DEF Branch
  <2> HIDE DEF w
  <2> QED BY <1>5, <2>1, <2>2, <2>3, OutcomeOK, AnswerSub
<1>7. CASE Put(r)
  <2> DEFINE q == sub[r]
             w == [type |-> "put", name |-> q.name, file |-> q.file, old |-> q.seen,
                   new |-> Append(q.seen, q.line), by |-> {r}]
  <2>1. q.step = "put" BY <1>7 DEF Put, Step
  <2>2. q.file \in Files /\ q.line \in Lines /\ q.seen \in ProperSeq /\ q.line \notin Range(q.seen)
    BY <1>3, <2>1 DEF SubOK
  <2>3. Append(q.seen, q.line) \in ProperSeq BY <2>2, AppendProper
  <2>4. WriteOK(w) BY <2>2, <2>3 DEF WriteOK
  <2>5. \/ Lands(w) /\ (Go(r, "open") \/ \E n : Created(r, n))
        \/ (Refused(w) \/ Unknown(w)) /\ \E a : Answered(r, a)
    BY <1>7 DEF Put, GaveUp
  <2> HIDE DEF w
  <2> QED BY <1>5, <2>1, <2>4, <2>5, OutcomeOK, AnswerSub
<1>8. CASE Open(r)
  <2> DEFINE w == [type |-> "open", name |-> sub[r].name]
  <2>1. WriteOK(w) BY DEF WriteOK
  <2>2. \/ (Lands(w) \/ Unknown(w)) /\ ((\E a : Answered(r, a)) \/ \E n : Created(r, n))
        \/ UNCHANGED <<github, failures, history>> /\ \E a : Answered(r, a)
    BY <1>8 DEF Open, GaveUp
  <2> HIDE DEF w
  <2>3. CASE UNCHANGED <<github, failures, history>>
    <3>1. GithubOK' /\ Onward /\ UNCHANGED <<late, failures>>
      BY <2>3, SameOK DEF github, history, RepoInv, IInv
    <3>2. (\E a : Answered(r, a)) \/ \E n : Created(r, n) BY <2>2
    <3> QED BY <3>1, <3>2, AnswerSub DEF RepoInv, RestOK
  <2>4. CASE Lands(w) \/ Unknown(w)
    <3>1. (\E a : Answered(r, a)) \/ \E n : Created(r, n) BY <2>2
    <3> QED BY <2>1, <2>4, <3>1, OutcomeOK, AnswerSub
  <2> QED BY <2>2, <2>3, <2>4
<1> QED BY <1>6, <1>7, <1>8

LEMMA RepoReviewed ==
  ASSUME RepoInv, NEW v \in Reviewers, NEW new, rev' = [rev EXCEPT ![v] = new],
         GithubOK', Onward, Rest, failures' \in 0..MaxFaults,
         \A x \in late' : x \in late \/ WriteOK(x)',
         rev'[v] = new => RevOK(v)'
  PROVE  RepoInv'
<1>1. DOMAIN rev = Reviewers BY DEF RepoInv
<1>2. DOMAIN rev' = Reviewers /\ rev'[v] = new /\ \A u \in Reviewers : u # v => rev'[u] = rev[u] BY <1>1
<1>3. UNCHANGED <<second, lock, sub>> BY DEF Rest
<1>4. RestOK' BY <1>3 DEF RestOK, RepoInv
<1> QED BY <1>2, <1>3, <1>4, RepoFrame

\* A review that is over claims nothing.
LEMMA RepoEnds ==
  ASSUME RepoInv, NEW v \in Reviewers, Ends(v),
         GithubOK', Onward, Rest, failures' \in 0..MaxFaults,
         \A x \in late' : x \in late \/ WriteOK(x)'
  PROVE  RepoInv'
<1> DEFINE new == [NoRev EXCEPT !.step = "done"]
<1>1. DOMAIN new = ReviewFields /\ new.step = "done" BY DEF NoRev, ReviewFields
<1>2. rev' = [rev EXCEPT ![v] = new] BY DEF Ends
<1> HIDE DEF new
<1>3. rev'[v] = new => RevOK(v)' BY <1>1 DEF RevOK
<1> QED BY <1>2, <1>3, RepoReviewed

\* A pull request's branch, as a review finds it.
LEMMA BehindIs ==
  ASSUME RepoInv, NEW n \in DOMAIN pulls
  PROVE  /\ Behind(n) \in BranchRow /\ Behind(n).head \in Nat /\ Content(n) \in ProperFiles
         /\ Content(n) = Behind(n).files /\ pulls[n].name \in DOMAIN branch
<1>1. branch[pulls[n].name] \in BranchRow /\ pulls[n].name \in DOMAIN branch BY DEF RepoInv, GithubOK
<1> QED BY <1>1 DEF Behind, Content, BranchRow

\* What a review leaves of a file is a proper file; all of it when it keeps all.
LEMMA LeftIs ==
  ASSUME NEW base, NEW files \in ProperFiles, NEW keep, NEW f \in Files
  PROVE  /\ Left(base, files, keep, f) \in ProperSeq
         /\ Left(base, files, Added(base, files), f) = files[f]
<1> DEFINE stays == {i \in DOMAIN files[f] : <<f, i>> \in keep \/ <<f, i>> \notin Added(base, files)}
<1>1. files[f] \in Seq(Lines) /\ IsInjective(files[f]) BY DEF ProperFiles, ProperSeq
<1>2. stays \in SUBSET DOMAIN files[f] OBVIOUS
<1>3. Left(base, files, keep, f) = PartAt(files[f], stays) BY DEF Left
<1> HIDE DEF stays
<1>4. Left(base, files, keep, f) \in ProperSeq BY <1>1, <1>2, <1>3, PartIs DEF ProperSeq
<1>5. Left(base, files, Added(base, files), f) = PartAt(files[f], DOMAIN files[f])
  <2>1. {i \in DOMAIN files[f] : <<f, i>> \in Added(base, files) \/ <<f, i>> \notin Added(base, files)}
        = DOMAIN files[f]
    OBVIOUS
  <2> QED BY <2>1 DEF Left
<1>6. PartAt(files[f], DOMAIN files[f]) = files[f] BY <1>1, PartIs
<1> QED BY <1>4, <1>5, <1>6

\* A trim rewrites the files that change, and no other.
LEMMA ChangedIs ==
  ASSUME NEW v, NEW keep
  PROVE  /\ Changed(v, keep) \in Seq(Files)
         /\ \A f \in Files : f \notin Range(Changed(v, keep)) =>
              Left(rev[v].base, rev[v].files, keep, f) = rev[v].files[f]
<1> DEFINE changed == {f \in Files : Left(rev[v].base, rev[v].files, keep, f) # rev[v].files[f]}
           at == {i \in DOMAIN FileOrder : FileOrder[i] \in changed}
<1>1. FileOrder \in Seq(Files) BY SubmissionAssumption
<1>2. at \in SUBSET DOMAIN FileOrder OBVIOUS
<1>3. Changed(v, keep) = PartAt(FileOrder, at) BY DEF Changed
<1>4. \A f \in changed : \E i \in at : FileOrder[i] = f BY DEF Files, Range
<1> HIDE DEF at
<1>5. Changed(v, keep) \in Seq(Files) /\ Range(Changed(v, keep)) = {FileOrder[i] : i \in at}
  BY <1>1, <1>2, <1>3, PartIs
<1>6. \A f \in changed : f \in Range(Changed(v, keep)) BY <1>4, <1>5
<1> QED BY <1>5, <1>6

\* A review's step that writes nothing.
LEMMA RepoLooks ==
  ASSUME IInv, RepoInv, NEW v \in Reviewers,
         \/ \E n \in DOMAIN pulls : Look(v, n)
         \/ Keep(v) \/ ApproveAll(v) \/ Reject(v) \/ Stop(v)
  PROVE  RepoInv'
<1>1. Rest /\ UNCHANGED <<github, failures, history>>
  BY DEF Look, Keep, ApproveAll, Reject, Stop
<1>2. GithubOK' /\ Onward /\ late' = late
  BY <1>1, SameOK DEF github, history, RepoInv, IInv
<1>3. failures' \in 0..MaxFaults BY <1>1 DEF RepoInv, RestOK
<1>4. RevOK(v) /\ DOMAIN rev = Reviewers BY DEF RepoInv
<1>5. UNCHANGED <<branch, pulls>> BY <1>1 DEF github
<1>6. ASSUME NEW n \in DOMAIN pulls, Look(v, n) PROVE RepoInv'
  <2> DEFINE new == [rev[v] EXCEPT !.step = "seen", !.pull = n, !.head = branch[pulls[n].name].head,
                                   !.files = Content(n), !.base = pulls[n].base]
  <2>1. /\ DOMAIN new = ReviewFields /\ new.step = "seen" /\ new.pull = n /\ new.head = Behind(n).head
        /\ new.files = Content(n) /\ new.todo = rev[v].todo
    BY <1>4 DEF RevOK, ReviewFields, Behind
  <2>2. rev' = [rev EXCEPT ![v] = new] /\ rev[v].step = "idle" BY <1>4, <1>6 DEF Look
  <2>3. rev[v].todo = <<>> BY <1>4, <2>2 DEF RevOK
  <2> HIDE DEF new
  <2>4. rev'[v] = new => RevOK(v)'
    <3> SUFFICES ASSUME rev'[v] = new PROVE RevOK(v)' OBVIOUS
    <3>1. Behind(n)' = Behind(n) /\ Content(n)' = Content(n) BY <1>5 DEF Behind, Content
    <3>2. <<>> \in Seq(Files) OBVIOUS
    <3>3. Content(n) \in ProperFiles /\ Behind(n).head \in Nat BY BehindIs
    <3>4. new.todo = <<>> /\ n \in DOMAIN pulls' BY <1>5, <2>1, <2>3
    <3> QED BY <2>1, <3>1, <3>2, <3>3, <3>4 DEF RevOK
  <2> QED BY <1>1, <1>2, <1>3, <2>2, <2>4, RepoReviewed
<1>7. CASE Keep(v)
  <2>1. PICK op \in {"approve", "trim"},
             keep \in SUBSET Added(rev[v].base, rev[v].files) \ {{}} :
          rev' = [rev EXCEPT ![v] = [@ EXCEPT !.op = op, !.keep = keep, !.step = "write",
                                              !.todo = Changed(v, keep)]]
    BY <1>7 DEF Keep
  <2> DEFINE new == [rev[v] EXCEPT !.op = op, !.keep = keep, !.step = "write",
                                   !.todo = Changed(v, keep)]
             n == rev[v].pull
  <2>2. rev' = [rev EXCEPT ![v] = new] BY <1>4, <2>1
  <2>3. /\ DOMAIN new = ReviewFields /\ new.op = op /\ new.keep = keep /\ new.step = "write"
        /\ new.todo = Changed(v, keep) /\ new.pull = n /\ new.head = rev[v].head
        /\ new.files = rev[v].files /\ new.base = rev[v].base
    BY <1>4 DEF RevOK, ReviewFields
  <2> HIDE DEF new
  <2>4. /\ n \in DOMAIN pulls /\ rev[v].files \in ProperFiles /\ Content(n) = rev[v].files
        /\ rev[v].head \in Nat /\ rev[v].head <= Behind(n).head
    BY <1>4, <1>7 DEF Keep, Current, RevOK, Behind
  <2>5. rev'[v] = new => RevOK(v)'
    <3> SUFFICES ASSUME rev'[v] = new PROVE RevOK(v)' OBVIOUS
    <3>1. UNCHANGED <<Behind(n), Content(n)>> BY <1>5, <2>3 DEF Behind, Content
    <3>2. \A f \in Files : Wanted(v)'[f] = Left(rev[v].base, rev[v].files, keep, f)
      BY <2>3 DEF Wanted
    <3>3. \A f \in Files : f \notin Range(new.todo) => Content(n)[f] = Wanted(v)'[f]
      BY <2>3, <2>4, <3>2, ChangedIs
    <3>4. new.todo \in Seq(Files) BY <2>3, ChangedIs
    <3> QED BY <1>5, <2>3, <2>4, <3>1, <3>3, <3>4 DEF RevOK
  <2> QED BY <1>1, <1>2, <1>3, <2>2, <2>5, RepoReviewed
<1>8. CASE ApproveAll(v)
  <2> DEFINE n == rev[v].pull
             new == [rev[v] EXCEPT !.op = "approve", !.step = "write", !.files = Content(n),
                                   !.base = pulls[n].base, !.head = branch[pulls[n].name].head,
                                   !.keep = Added(pulls[n].base, Content(n))]
  <2>1. rev' = [rev EXCEPT ![v] = new] /\ rev[v].step = "seen" BY <1>4, <1>8 DEF ApproveAll
  <2>2. /\ DOMAIN new = ReviewFields /\ new.step = "write" /\ new.todo = rev[v].todo
        /\ new.pull = n /\ new.head = Behind(n).head /\ new.files = Content(n)
        /\ new.base = pulls[n].base /\ new.keep = Added(pulls[n].base, Content(n))
    BY <1>4 DEF RevOK, ReviewFields, Behind
  <2> HIDE DEF new
  <2>3. n \in DOMAIN pulls /\ rev[v].todo = <<>> BY <1>4, <2>1 DEF RevOK
  <2>4. Content(n) \in ProperFiles /\ Behind(n).head \in Nat BY <2>3, BehindIs
  <2>5. rev'[v] = new => RevOK(v)'
    <3> SUFFICES ASSUME rev'[v] = new PROVE RevOK(v)' OBVIOUS
    <3>1. UNCHANGED <<Behind(n), Content(n)>> BY <1>5, <2>2 DEF Behind, Content
    <3>2. \A f \in Files : Wanted(v)'[f] = Left(new.base, new.files, new.keep, f)
      BY DEF Wanted
    <3>3. \A f \in Files : Content(n)[f] = Wanted(v)'[f]
      BY <2>2, <2>4, <3>2, LeftIs
    <3>4. new.todo \in Seq(Files) BY <2>2, <2>3
    <3> QED BY <1>5, <2>2, <2>3, <2>4, <3>1, <3>3, <3>4 DEF RevOK
  <2> QED BY <1>1, <1>2, <1>3, <2>1, <2>5, RepoReviewed
<1>9. CASE Reject(v)
  <2> DEFINE new == [rev[v] EXCEPT !.op = "reject", !.step = "write"]
             n == rev[v].pull
  <2>1. rev' = [rev EXCEPT ![v] = new] /\ rev[v].step = "seen"
    BY <1>4, <1>9 DEF Reject, RevOK, ReviewFields
  <2>2. /\ DOMAIN new = ReviewFields /\ new.step = "write" /\ new.op = "reject"
        /\ new.todo = rev[v].todo /\ new.pull = n /\ new.head = rev[v].head /\ new.files = rev[v].files
    BY <1>4 DEF RevOK, ReviewFields
  <2> HIDE DEF new
  <2>3. rev'[v] = new => RevOK(v)'
    <3> SUFFICES ASSUME rev'[v] = new PROVE RevOK(v)' OBVIOUS
    <3>1. UNCHANGED <<Behind(n), Content(n)>> BY <1>5, <2>2 DEF Behind, Content
    <3> QED BY <1>4, <1>5, <2>1, <2>2, <3>1 DEF RevOK
  <2> QED BY <1>1, <1>2, <1>3, <2>1, <2>3, RepoReviewed
<1>10. CASE Stop(v)
  BY <1>1, <1>2, <1>3, <1>10, RepoEnds DEF Stop
<1> QED BY <1>6, <1>7, <1>8, <1>9, <1>10

\* The commit of a trim brings its file to what is wanted, on the head the review knows.
LEMMA RepoTrim ==
  ASSUME IInv, RepoInv, NEW v \in Reviewers, Trim(v)
  PROVE  RepoInv'
<1> DEFINE n == rev[v].pull
           f == Head(rev[v].todo)
           want == Wanted(v)[f]
           w == [type |-> "put", name |-> pulls[rev[v].pull].name, file |-> f,
                 old |-> rev[v].files[f], new |-> want, by |-> {}]
           new == [rev[v] EXCEPT !.head = branch'[w.name].head, !.todo = Tail(rev[v].todo)]
<1>1. /\ rev[v].step = "write" /\ rev[v].todo # <<>> /\ Rest
      /\ \/ /\ Lands(w)
            /\ rev' = [rev EXCEPT ![v] =
                         IF OnHead(v) THEN new ELSE [NoRev EXCEPT !.step = "done"]]
         \/ (Refused(w) \/ Unknown(w)) /\ Ends(v)
  BY DEF Trim
<1>2. RevOK(v) /\ n \in DOMAIN pulls /\ rev[v].todo \in Seq(Files) /\ rev[v].files \in ProperFiles
      /\ rev[v].head \in Nat
  BY <1>1 DEF RepoInv, RevOK
<1>3. f \in Files /\ Tail(rev[v].todo) \in Seq(Files)
      /\ \A g \in Range(rev[v].todo) : g = f \/ g \in Range(Tail(rev[v].todo))
  <2>1. /\ Len(rev[v].todo) \in Nat \ {0} /\ DOMAIN rev[v].todo = 1..Len(rev[v].todo)
        /\ Tail(rev[v].todo) \in Seq(Files) /\ f = rev[v].todo[1] /\ f \in Files
        /\ Len(Tail(rev[v].todo)) = Len(rev[v].todo) - 1
        /\ \A i \in 1..Len(Tail(rev[v].todo)) : Tail(rev[v].todo)[i] = rev[v].todo[i + 1]
    BY <1>1, <1>2, HeadTailProperties
  <2>2. ASSUME NEW i \in DOMAIN rev[v].todo, i # 1
        PROVE  rev[v].todo[i] \in Range(Tail(rev[v].todo))
    <3>1. i - 1 \in 1..Len(Tail(rev[v].todo)) /\ Tail(rev[v].todo)[i - 1] = rev[v].todo[i]
      BY <2>1, <2>2
    <3>2. DOMAIN Tail(rev[v].todo) = 1..Len(Tail(rev[v].todo)) BY <2>1
    <3> QED BY <3>1, <3>2 DEF Range
  <2> QED BY <2>1, <2>2 DEF Range
<1>4. want \in ProperSeq BY <1>2, <1>3, LeftIs DEF Wanted
<1>5. WriteOK(w) BY <1>3, <1>4 DEF WriteOK
<1>6. w.type = "put" /\ w.name = pulls[n].name /\ w.file = f /\ w.new = want OBVIOUS
<1>7. DOMAIN new = ReviewFields /\ new.step = "write" /\ new.op = rev[v].op /\ new.pull = n
      /\ new.files = rev[v].files /\ new.base = rev[v].base /\ new.keep = rev[v].keep
      /\ new.todo = Tail(rev[v].todo) /\ new.head = branch'[w.name].head
  <2> DEFINE h == branch'[w.name].head
             rest == Tail(rev[v].todo)
  <2>1. new = [rev[v] EXCEPT !.head = h, !.todo = rest] OBVIOUS
  <2>2. DOMAIN rev[v] = {"step", "op", "pull", "head", "files", "base", "keep", "todo"}
    BY <1>2 DEF RevOK, ReviewFields
  <2>3. h = branch'[w.name].head /\ rest = Tail(rev[v].todo) OBVIOUS
  <2> HIDE DEF new, h, rest, w
  <2>4. DOMAIN new = ReviewFields /\ new.head = h /\ new.todo = rest
        /\ new.step = rev[v].step /\ new.op = rev[v].op /\ new.pull = rev[v].pull
        /\ new.files = rev[v].files /\ new.base = rev[v].base /\ new.keep = rev[v].keep
    BY <2>1, <2>2 DEF ReviewFields
  <2> QED BY <1>1, <2>3, <2>4
<1> HIDE DEF w, new, f, want
<1>8. GithubOK' /\ Onward /\ failures' \in 0..MaxFaults /\ \A x \in late' : x \in late \/ WriteOK(x)'
  BY <1>1, <1>5, OutcomeOK
<1>9. CASE Ends(v) BY <1>1, <1>8, <1>9, RepoEnds
<1>10. CASE /\ Lands(w)
           /\ rev' = [rev EXCEPT ![v] =
                        IF OnHead(v) THEN new ELSE [NoRev EXCEPT !.step = "done"]]
  <2>1. CASE ~OnHead(v)
    BY <1>1, <1>8, <1>10, <2>1, RepoEnds DEF Ends
  <2>2. CASE OnHead(v)
    <3>1. rev' = [rev EXCEPT ![v] = new] BY <1>10, <2>2
    <3>2. branch' = [branch EXCEPT ![w.name] = Commit(branch[w.name], f, want)] /\ pulls' = pulls
      BY <1>6, <1>10 DEF Lands, Applies
    <3>3. /\ Behind(n) \in BranchRow /\ pulls[n].name \in DOMAIN branch /\ Content(n) \in ProperFiles
          /\ Content(n) = Behind(n).files
      BY <1>2, BehindIs
    <3>4. /\ Behind(n)' = Commit(Behind(n), f, want) /\ Content(n)' = Behind(n)'.files
          /\ new.head = Behind(n)'.head
      BY <1>6, <1>7, <3>1, <3>2, <3>3 DEF Behind, Content, RepoInv
    <3>5. Behind(n)'.head \in Nat /\ Content(n)' = [Content(n) EXCEPT ![f] = want]
      <4>1. /\ Commit(Behind(n), f, want) \in BranchRow
            /\ Commit(Behind(n), f, want).files = [Behind(n).files EXCEPT ![f] = want]
        BY <1>3, <1>4, <3>3, CommitRow
      <4> QED BY <3>3, <3>4, <4>1 DEF BranchRow
    <3>6. rev'[v] = new => RevOK(v)'
      <4> SUFFICES ASSUME rev'[v] = new PROVE RevOK(v)' OBVIOUS
      <4>1. Wanted(v)' = Wanted(v) BY <1>7 DEF Wanted
      <4>2. rev[v].op \in {"approve", "trim"} =>
              \A g \in Files : g \notin Range(new.todo) => Content(n)'[g] = Wanted(v)[g]
        <5> SUFFICES ASSUME rev[v].op \in {"approve", "trim"}, NEW g \in Files, g \notin Range(new.todo)
                     PROVE  Content(n)'[g] = Wanted(v)[g]
          OBVIOUS
        <5>1. DOMAIN Content(n) = Files BY <3>3 DEF ProperFiles
        <5>2. CASE g = f BY <3>5, <5>1, <5>2 DEF want
        <5>3. CASE g # f
          <6>1. g \notin Range(rev[v].todo) BY <1>3, <1>7, <5>3
          <6>2. Behind(n).head = rev[v].head BY <2>2 DEF OnHead, Behind
          <6>3. Content(n)[g] = Wanted(v)[g] BY <1>1, <1>2, <6>1, <6>2 DEF RevOK
          <6> QED BY <3>5, <5>1, <5>3, <6>3
        <5> QED BY <5>2, <5>3
      <4>3. n \in DOMAIN pulls' /\ new.todo \in Seq(Files) /\ new.files \in ProperFiles
        BY <1>2, <1>3, <1>7, <3>2
      <4>4. Behind(rev[v].pull)' = Behind(n)' /\ rev'[v].pull = n BY <1>7
      <4> QED BY <1>7, <3>4, <3>5, <4>1, <4>2, <4>3, <4>4 DEF RevOK
    <3> QED BY <1>1, <1>8, <3>1, <3>6, RepoReviewed
  <2> QED BY <2>1, <2>2
<1> QED BY <1>1, <1>9, <1>10

\* A merge wants what the branch holds at the head it names.
LEMMA RepoDecide ==
  ASSUME IInv, RepoInv, NEW v \in Reviewers, Decide(v)
  PROVE  RepoInv'
<1> DEFINE n == rev[v].pull
           w == IF rev[v].op = "approve"
                THEN [type |-> "merge", pull |-> n, head |-> rev[v].head, want |-> Wanted(v)]
                ELSE [type |-> "close", pull |-> n]
<1>1. /\ rev[v].step = "write" /\ rev[v].todo = <<>> /\ Ends(v) /\ Rest
      /\ UNCHANGED <<github, failures, history>> \/ Lands(w) \/ Refused(w) \/ Unknown(w)
  BY DEF Decide
<1>2. RevOK(v) /\ n \in DOMAIN pulls /\ rev[v].head \in Nat /\ rev[v].head <= Behind(n).head
  BY <1>1 DEF RepoInv, RevOK
<1>3. rev[v].op = "approve" /\ Behind(n).head = rev[v].head => Content(n) = Wanted(v)
  <2> SUFFICES ASSUME rev[v].op = "approve", Behind(n).head = rev[v].head PROVE Content(n) = Wanted(v)
    OBVIOUS
  <2>1. \A f \in Files : f \notin Range(rev[v].todo) BY <1>1 DEF Range
  <2>2. \A f \in Files : Content(n)[f] = Wanted(v)[f] BY <1>1, <1>2, <2>1 DEF RevOK
  <2>3. Content(n) \in [Files -> ProperSeq] BY <1>2, BehindIs DEF ProperFiles
  <2> QED BY <2>2, <2>3 DEF Wanted
<1>4. WriteOK(w)
  <2>1. CASE rev[v].op = "approve"
    BY <1>2, <1>3, <2>1 DEF WriteOK
  <2>2. CASE rev[v].op # "approve"
    BY <1>2, <2>2 DEF WriteOK
  <2> QED BY <2>1, <2>2
<1> HIDE DEF w
<1>5. CASE UNCHANGED <<github, failures, history>>
  <2>1. GithubOK' /\ Onward /\ UNCHANGED <<late, failures>>
    BY <1>5, SameOK DEF github, history, RepoInv, IInv
  <2> QED BY <1>1, <2>1, RepoEnds DEF RepoInv, RestOK
<1>6. CASE Lands(w) \/ Refused(w) \/ Unknown(w)
  BY <1>1, <1>4, <1>6, OutcomeOK, RepoEnds
<1> QED BY <1>1, <1>5, <1>6

\* A write nobody waits for any more is applied.
LEMMA RepoArrive ==
  ASSUME IInv, RepoInv, NEW w \in late, Arrive(w)
  PROVE  RepoInv'
<1>1. WriteOK(w) /\ Takes(w) /\ Applies(w) BY DEF Arrive, RepoInv
<1>2. GithubOK' /\ Onward BY <1>1, AppliesOK
<1>3. UNCHANGED <<second, lock, failures, sub, rev>> /\ late' \subseteq late BY DEF Arrive
<1>4. RestOK' BY <1>3 DEF RestOK, RepoInv
<1> QED BY <1>2, <1>3, <1>4, RepoFrame DEF RepoInv

LEMMA RepoByHand ==
  ASSUME IInv, RepoInv, NEW n \in DOMAIN pulls, ByHand(n)
  PROVE  RepoInv'
<1>1. PICK s \in {"closed", "merged"} : pulls' = [pulls EXCEPT ![n].state = s] BY DEF ByHand
<1>2. Kept BY <1>1, StateKept DEF IInv
<1>3. UNCHANGED <<branch, late, second, lock, failures, sub, rev, merges>> BY DEF ByHand, history
<1>4. Onward BY <1>2, <1>3 DEF Onward
<1>5. \A m \in DOMAIN pulls' : m \in DOMAIN pulls /\ pulls'[m].base = pulls[m].base
  BY <1>1 DEF IInv, PullsShape
<1>6. main' \in ProperFiles
  <2>1. Behind(n) \in BranchRow /\ main \in ProperFiles BY BehindIs DEF RepoInv, GithubOK
  <2>2. Squashed(Behind(n)) \in ProperFiles BY <2>1 DEF Squashed, BranchRow, ProperFiles
  <2>3. main' = main \/ main' = Squashed(Behind(n)) BY DEF ByHand, Behind
  <2> QED BY <2>1, <2>2, <2>3
<1>7. GithubOK' BY <1>2, <1>3, <1>5, <1>6 DEF GithubOK, RepoInv, Kept
<1>8. RestOK' BY <1>3 DEF RestOK, RepoInv
<1> QED BY <1>3, <1>4, <1>7, <1>8, RepoFrame DEF RepoInv

LEMMA RepoStep == IInv /\ RepoInv /\ [DictNext]_dictVars => RepoInv'
<1> SUFFICES ASSUME IInv, RepoInv, [DictNext]_dictVars PROVE RepoInv' OBVIOUS
<1>1. CASE UNCHANGED dictVars
  <2>1. UNCHANGED <<github, second, lock, failures, sub, rev, merges>> BY <1>1 DEF dictVars, history
  <2>2. RestOK' BY <2>1 DEF RestOK, RepoInv
  <2> QED BY <2>1, <2>2, RepoQuiet
<1>2. CASE Later \/ LoseLock
  <2>1. UNCHANGED <<github, sub, rev, merges>> BY <1>2 DEF Later, LoseLock, history
  <2>2. RestOK' BY <1>2, SubmissionAssumption DEF RestOK, RepoInv, Later, LoseLock
  <2> QED BY <2>1, <2>2, RepoQuiet
<1>3. ASSUME NEW r \in Visitors,
             \/ \E f \in Files, l \in Lines : Submit(r, f, l)
             \/ Busy(r) \/ List(r) \/ Read(r) \/ Unavailable(r) \/ Branch(r) \/ Put(r)
             \/ Open(r) \/ Die(r)
      PROVE  RepoInv'
  BY <1>3, RepoReads, RepoWrites
<1>4. ASSUME NEW v \in Reviewers,
             \/ \E n \in DOMAIN pulls : Look(v, n)
             \/ Keep(v) \/ ApproveAll(v) \/ Reject(v) \/ Trim(v) \/ Decide(v) \/ Stop(v)
      PROVE  RepoInv'
  BY <1>4, RepoLooks, RepoTrim, RepoDecide
<1> QED BY <1>1, <1>2, <1>3, <1>4, RepoArrive, RepoByHand DEF DictNext

LEMMA RepoIsKept == RepoInv => SubmissionTypeOK /\ NoDuplicates
<1> SUFFICES ASSUME RepoInv PROVE SubmissionTypeOK /\ NoDuplicates OBVIOUS
<1>1. \A x \in ProperFiles : x \in [Files -> Seq(Lines)] /\ \A f \in Files : IsInjective(x[f])
  BY DEF ProperFiles, ProperSeq
<1>2. main \in ProperFiles /\ \A n \in DOMAIN branch : branch[n].files \in ProperFiles
  BY DEF RepoInv, GithubOK, BranchRow
<1>3. SubmissionTypeOK BY <1>1, <1>2 DEF SubmissionTypeOK, RepoInv, RestOK, GithubOK
<1>4. NoDuplicates BY <1>1, <1>2 DEF NoDuplicates
<1> QED BY <1>3, <1>4

\* For any number of submissions, reviews, replicas, files and failures: the
\* repository never holds an entry twice, and while nothing fails there is one
\* rolling pull request (WaitLock, submit, trimFiles).
THEOREM RepositoryAlwaysKept == DictSpec => []RepositoryIsKept
<1>1. DictInit => IInv /\ CalmInv /\ RepoInv BY InitIInv, InitCalm, RepoInit
<1>2. IInv /\ CalmInv /\ RepoInv /\ [DictNext]_dictVars => (IInv /\ CalmInv /\ RepoInv)'
  BY StepIInv, StepCalm, RepoStep
<1>3. IInv /\ CalmInv /\ RepoInv => RepositoryIsKept BY CalmIsOne, RepoIsKept DEF RepositoryIsKept
<1> QED BY <1>1, <1>2, <1>3, PTL DEF DictSpec

\* Only a commit takes an entry from a branch: one that a review was to drop, or a
\* write under way.
LEMMA AppliesDrops ==
  ASSUME RepoInv, NEW w, WriteOK(w), Takes(w), Applies(w),
         NEW n \in DOMAIN branch, NEW f \in Files,
         NEW l \in Range(branch[n].files[f]) \ Range(branch'[n].files[f])
  PROVE  w.type = "put" /\ f = w.file /\ l \in Range(w.old) \ Range(w.new)
<1>1. CASE w.type = "branch"
  <2>1. branch'[n] = branch[n] BY <1>1 DEF Takes, Applies, NewBranch
  <2> QED BY <2>1
<1>2. CASE w.type = "put"
  <2> DEFINE b == branch[w.name]
  <2>1. w.name \in DOMAIN branch /\ b.files[w.file] = w.old BY <1>2 DEF Takes, SameBlob
  <2>2. b \in BranchRow /\ w.file \in Files /\ w.new \in ProperSeq
    BY <1>2, <2>1 DEF RepoInv, GithubOK, WriteOK
  <2>3. branch' = [branch EXCEPT ![w.name] = Commit(b, w.file, w.new)] BY <1>2 DEF Applies
  <2>4. Commit(b, w.file, w.new).files = [b.files EXCEPT ![w.file] = w.new] BY <2>2, CommitRow
  <2>5. b.files \in [Files -> ProperSeq] BY <2>2 DEF BranchRow, ProperFiles
  <2> HIDE DEF b
  <2>6. n = w.name /\ branch[n] = b BY <2>3 DEF b
  <2>7. branch'[n].files = [b.files EXCEPT ![w.file] = w.new] BY <2>3, <2>4, <2>6
  <2>8. f = w.file BY <2>5, <2>6, <2>7
  <2> QED BY <1>2, <2>1, <2>2, <2>5, <2>6, <2>7, <2>8
<1>3. CASE w.type \in {"open", "merge", "close"}
  <2>1. branch' = branch BY <1>3 DEF Applies
  <2> QED BY <2>1
<1> QED BY <1>1, <1>2, <1>3 DEF WriteOK

LEMMA DropsStep == IInv /\ RepoInv /\ [DictNext]_dictVars => DroppedWasSeen
<1> SUFFICES ASSUME IInv, RepoInv, [DictNext]_dictVars,
                    NEW n \in DOMAIN branch, NEW f \in Files,
                    NEW l \in Range(branch[n].files[f]) \ Range(branch'[n].files[f])
             PROVE  \/ \E v \in Reviewers : l \in Range(rev[v].files[f]) \ Range(Wanted(v)[f])
                    \/ \E w \in late : w.type = "put" /\ l \in Range(w.old) \ Range(w.new)
  BY DEF DroppedWasSeen
<1>1. ASSUME NEW w, WriteOK(w), Lands(w) \/ Refused(w) \/ Unknown(w)
      PROVE  Lands(w) /\ w.type = "put" /\ f = w.file /\ l \in Range(w.old) \ Range(w.new)
  <2>1. CASE Lands(w) BY <1>1, <2>1, AppliesDrops DEF Lands
  <2>2. CASE Refused(w) \/ Unknown(w)
    <3>1. branch' = branch BY <2>2 DEF Refused, Unknown, github
    <3> QED BY <3>1
  <2> QED BY <1>1, <2>1, <2>2
<1>2. CASE branch' = branch BY <1>2
<1>3. ASSUME NEW w \in late, Arrive(w) PROVE w.type = "put" /\ l \in Range(w.old) \ Range(w.new)
  BY <1>3, AppliesDrops DEF Arrive, RepoInv
<1>4. ASSUME NEW r \in Visitors, Branch(r) PROVE FALSE
  <2> DEFINE w == [type |-> "branch", name |-> sub[r].name, start |-> sub[r].start]
  <2>1. SubOK(r) /\ sub[r].step = "branch" BY <1>4 DEF Branch, Step, RepoInv
  <2>2. WriteOK(w) /\ w.type = "branch" BY <2>1 DEF WriteOK, SubOK
  <2>3. Lands(w) \/ Refused(w) \/ Unknown(w) BY <1>4 DEF Branch
  <2> HIDE DEF w
  <2> QED BY <1>1, <2>2, <2>3
<1>5. ASSUME NEW r \in Visitors, Put(r) PROVE FALSE
  <2> DEFINE q == sub[r]
             w == [type |-> "put", name |-> q.name, file |-> q.file, old |-> q.seen,
                   new |-> Append(q.seen, q.line), by |-> {r}]
  <2>1. SubOK(r) /\ q.step = "put" BY <1>5 DEF Put, Step, RepoInv
  <2>2. q.file \in Files /\ q.line \in Lines /\ q.seen \in ProperSeq /\ q.line \notin Range(q.seen)
    BY <2>1 DEF SubOK
  <2>3. Append(q.seen, q.line) \in ProperSeq BY <2>2, AppendProper
  <2>4. WriteOK(w) BY <2>2, <2>3 DEF WriteOK
  <2>5. Lands(w) \/ Refused(w) \/ Unknown(w) BY <1>5 DEF Put
  <2>6. w.old = q.seen /\ w.new = Append(q.seen, q.line) OBVIOUS
  <2>7. Range(q.seen) \subseteq Range(Append(q.seen, q.line))
    <3>1. q.seen \in Seq(Lines) BY <2>2 DEF ProperSeq
    <3>2. \A i \in DOMAIN q.seen :
            i \in DOMAIN Append(q.seen, q.line) /\ Append(q.seen, q.line)[i] = q.seen[i]
      BY <2>2, <3>1, AppendProperties
    <3> QED BY <3>2 DEF Range
  <2> HIDE DEF w
  <2>8. l \in Range(w.old) \ Range(w.new) BY <1>1, <2>4, <2>5
  <2> QED BY <2>6, <2>7, <2>8
<1>6. ASSUME NEW r \in Visitors, Open(r) PROVE FALSE
  <2> DEFINE w == [type |-> "open", name |-> sub[r].name]
  <2>1. WriteOK(w) /\ w.type = "open" BY DEF WriteOK
  <2>2. Lands(w) \/ Refused(w) \/ Unknown(w) \/ branch' = branch
    BY <1>6 DEF Open, github
  <2> HIDE DEF w
  <2> QED BY <1>1, <1>2, <2>1, <2>2
<1>7. ASSUME NEW v \in Reviewers, Trim(v)
      PROVE  l \in Range(rev[v].files[f]) \ Range(Wanted(v)[f])
  <2> DEFINE g == Head(rev[v].todo)
             w == [type |-> "put", name |-> pulls[rev[v].pull].name, file |-> g,
                   old |-> rev[v].files[g], new |-> Wanted(v)[g], by |-> {}]
  <2>1. /\ rev[v].todo # <<>> /\ rev[v].todo \in Seq(Files) /\ rev[v].files \in ProperFiles
        /\ Lands(w) \/ Refused(w) \/ Unknown(w)
    BY <1>7 DEF Trim, RepoInv, RevOK
  <2>2. g \in Files BY <2>1, HeadTailProperties
  <2>3. Wanted(v)[g] \in ProperSeq BY <2>1, <2>2, LeftIs DEF Wanted
  <2>4. WriteOK(w) BY <2>2, <2>3 DEF WriteOK
  <2>5. w.file = g /\ w.old = rev[v].files[g] /\ w.new = Wanted(v)[g] OBVIOUS
  <2> HIDE DEF w, g
  <2> QED BY <1>1, <2>1, <2>4, <2>5
<1>8. ASSUME NEW v \in Reviewers, Decide(v) PROVE FALSE
  <2>1. branch' = branch BY <1>8 DEF Decide, Lands, Applies, Refused, Unknown, github
  <2> QED BY <2>1
<1> QED
  BY <1>2, <1>3, <1>4, <1>5, <1>6, <1>7, <1>8
  DEF DictNext, Later, LoseLock, ByHand, Submit, Busy, List, Read, Unavailable, Die, Look, Keep,
      ApproveAll, Reject, Stop, github, dictVars

\* For any number of submissions, reviews, files and failures: what a review merges
\* is what it kept of what it saw, and an entry leaves a branch only by a review that
\* saw it and did not keep it (trimFiles, approveDictPR).
THEOREM OnlyReviewedMerged == DictSpec => ReviewedOnly
<1>1. DictInit => IInv /\ RepoInv BY InitIInv, RepoInit
<1>2. IInv /\ RepoInv /\ [DictNext]_dictVars => (IInv /\ RepoInv)' BY StepIInv, RepoStep
<1>3. RepoInv => \A m \in merges : m.got = m.want BY DEF RepoInv, GithubOK
<1>4. IInv /\ RepoInv /\ [DictNext]_dictVars => DroppedWasSeen BY DropsStep
<1> QED BY <1>1, <1>2, <1>3, <1>4, PTL DEF DictSpec, ReviewedOnly
=============================================================================

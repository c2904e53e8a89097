--------------------------- MODULE DecisionProofs ---------------------------
(***************************************************************************)
(* For any pull requests, groups, accounts, preferences and items: what    *)
(* the console delays is sent once or undone, a merge ships what the       *)
(* reviewer saw, and what a page shows is what the server has or is on its *)
(* way there.  Page by page, with the invariant each needs of its own      *)
(* variables; the theorems are at the end.  ConsoleProofs has the other    *)
(* pages.                                                                  *)
(***************************************************************************)
EXTENDS MCConsole, SequenceTheorems, FiniteSetTheorems, TLAPS

\* The pages' modules count as this one does.
LEMMA SameCount == \A S : D!Cardinality(S) = Cardinality(S)
BY DEF D!Cardinality, Cardinality

\* The element's place in the set's order.
Rank(S, j) == Cardinality({k \in S : k <= j})

LEMMA RankStep ==
  ASSUME NEW S \in SUBSET Nat, IsFiniteSet(S), NEW j \in S
  PROVE  /\ Rank(S, j) \in 1..Cardinality(S)
         /\ \A i \in S : i < j => Rank(S, i) < Rank(S, j)
<1> DEFINE upto(i) == {k \in S : k <= i}
<1>1. ASSUME NEW i \in S
      PROVE  IsFiniteSet(upto(i)) /\ Cardinality(upto(i)) \in Nat
             /\ Cardinality(upto(i)) <= Cardinality(S) /\ upto(i) # {}
  <2>1. i \in upto(i) /\ upto(i) \in SUBSET S
    OBVIOUS
  <2> QED BY <2>1, FS_Subset, FS_CardinalityType
<1>2. Rank(S, j) \in 1..Cardinality(S)
  <2>1. Cardinality(upto(j)) # 0
    BY <1>1, FS_EmptySet
  <2>2. Cardinality(S) \in Nat
    BY FS_CardinalityType
  <2> QED BY <1>1, <2>1, <2>2 DEF Rank
<1>3. ASSUME NEW i \in S, i < j
      PROVE  Rank(S, i) < Rank(S, j)
  <2>1. upto(i) \in SUBSET upto(j) /\ j \in upto(j) /\ j \notin upto(i)
    <3>1. \A k \in S : k \in Int
      OBVIOUS
    <3>2. \A k \in S : k <= i => k <= j
      BY <1>3, <3>1
    <3>3. j <= j /\ ~(j <= i)
      BY <1>3, <3>1
    <3> QED BY <3>2, <3>3
  <2> HIDE DEF upto
  <2>3. IsFiniteSet(upto(j))
    BY <1>1
  <2>4. \A T : T \in SUBSET upto(j) =>
          Cardinality(T) <= Cardinality(upto(j)) /\ (Cardinality(upto(j)) = Cardinality(T) => upto(j) = T)
    BY <2>3, FS_Subset
  <2>2. Cardinality(upto(i)) <= Cardinality(upto(j)) /\ Cardinality(upto(j)) # Cardinality(upto(i))
    BY <2>1, <2>4
  <2> USE DEF upto
  <2> QED BY <1>1, <1>3, <2>2 DEF Rank
<1> QED BY <1>2, <1>3

\* Every place up to the size of a finite set is taken, by one element.
LEMMA RankOnto ==
  ASSUME NEW S \in SUBSET Nat, IsFiniteSet(S), NEW i \in 1..Cardinality(S)
  PROVE  \E j \in S : Rank(S, j) = i
<1> DEFINE place == [j \in S |-> Rank(S, j)]
           places == 1..Cardinality(S)
<1>1. Cardinality(S) \in Nat
  BY FS_CardinalityType
<1>2. IsFiniteSet(places) /\ Cardinality(places) = Cardinality(S)
  BY <1>1, FS_Interval
<1>3. place \in [S -> places]
  BY RankStep
<1>4. \A j, k \in S : place[j] = place[k] => j = k
  <2> SUFFICES ASSUME NEW j \in S, NEW k \in S, j < k PROVE place[j] # place[k]
    OBVIOUS
  <2>1. Rank(S, j) < Rank(S, k) /\ Rank(S, j) \in Int /\ Rank(S, k) \in Int
    BY <1>1, RankStep
  <2> QED BY <2>1
<1>5. place \in Injection(S, places)
  BY <1>3, <1>4 DEF Injection, IsInjective
<1>6. place \in Surjection(S, places)
  BY <1>2, <1>5, FS_Injection
<1> QED BY <1>6 DEF Surjection

\* A sequence without its k-th element.
Without(s, k) == SubSeq(s, 1, k - 1) \o SubSeq(s, k + 1, Len(s))

LEMMA WithoutOne ==
  ASSUME NEW S, NEW s \in Seq(S), NEW k \in 1..Len(s)
  PROVE  /\ Without(s, k) \in Seq(S) /\ Len(Without(s, k)) = Len(s) - 1
         /\ \A i \in 1..Len(s) - 1 : Without(s, k)[i] = s[IF i < k THEN i ELSE i + 1]
<1> DEFINE a == SubSeq(s, 1, k - 1)
           b == SubSeq(s, k + 1, Len(s))
<1>1. Len(s) \in Nat /\ \A i \in 1..Len(s) : s[i] \in S
  BY ElementOfSeq
<1>2. /\ a \in Seq(S) /\ Len(a) = k - 1
      /\ \A i \in 1..k - 1 : a[i] = s[i]
  <2>1. \A i \in 1..k - 1 : s[i] \in S
    BY <1>1
  <2>2. /\ a \in Seq(S) /\ Len(a) = (IF 1 <= k - 1 THEN (k - 1) - 1 + 1 ELSE 0)
        /\ \A i \in 1..(k - 1) - 1 + 1 : a[i] = s[1 + i - 1]
    BY <2>1, SubSeqProperties
  <2> QED BY <2>2
<1>3. /\ b \in Seq(S) /\ Len(b) = Len(s) - k
      /\ \A i \in 1..Len(s) - k : b[i] = s[i + k]
  <2>1. \A i \in k + 1..Len(s) : s[i] \in S
    BY <1>1
  <2>2. /\ b \in Seq(S) /\ Len(b) = (IF k + 1 <= Len(s) THEN Len(s) - (k + 1) + 1 ELSE 0)
        /\ \A i \in 1..Len(s) - (k + 1) + 1 : b[i] = s[(k + 1) + i - 1]
    BY <1>1, <2>1, SubSeqProperties
  <2> QED BY <1>1, <2>2
<1> HIDE DEF a, b
<1>4. /\ a \o b \in Seq(S) /\ Len(a \o b) = Len(a) + Len(b)
      /\ \A i \in 1..Len(a) + Len(b) : (a \o b)[i] = IF i <= Len(a) THEN a[i] ELSE b[i - Len(a)]
  BY <1>2, <1>3, ConcatProperties
<1>5. \A i \in 1..Len(s) - 1 : (a \o b)[i] = s[IF i < k THEN i ELSE i + 1]
  BY <1>1, <1>2, <1>3, <1>4
<1>6. Without(s, k) = a \o b
  BY DEF Without, a, b
<1>7. Len(a) + Len(b) = Len(s) - 1
  BY <1>1, <1>2, <1>3
<1> QED BY <1>4, <1>5, <1>6, <1>7

\* The others are still there.
LEMMA WithoutKeeps ==
  ASSUME NEW S, NEW s \in Seq(S), NEW k \in 1..Len(s), NEW j \in 1..Len(s), j # k
  PROVE  \E i \in 1..Len(Without(s, k)) : Without(s, k)[i] = s[j]
<1>1. Len(s) \in Nat /\ k \in Int /\ j \in Int
  OBVIOUS
<1>2. /\ Len(Without(s, k)) = Len(s) - 1
      /\ \A i \in 1..Len(s) - 1 : Without(s, k)[i] = s[IF i < k THEN i ELSE i + 1]
  BY WithoutOne
<1>3. CASE j < k
  <2>1. j \in 1..Len(s) - 1 /\ Without(s, k)[j] = s[j]
    BY <1>1, <1>2, <1>3
  <2> QED BY <1>2, <2>1
<1>4. CASE k < j
  <2>1. j - 1 \in 1..Len(s) - 1 /\ ~(j - 1 < k) /\ (j - 1) + 1 = j
    BY <1>1, <1>4
  <2>2. Without(s, k)[j - 1] = s[j]
    BY <1>2, <2>1
  <2> QED BY <1>2, <2>1, <2>2
<1> QED BY <1>1, <1>3, <1>4

-----------------------------------------------------------------------------
\* The toasts and the sign-out around every page.
ToastInv == O!ToastTypeOK /\ O!SentOrUndone /\ O!WindowIsOwn

LEMMA ToastInit == O!ToastInit => ToastInv
<1> SUFFICES ASSUME O!ToastInit PROVE ToastInv
  OBVIOUS
<1>1. None \notin Pulls
  BY ConsoleAssumption DEF ConsoleAssumption, O!ToastAssumption
<1>2. v6 \in [Pulls -> Nat] /\ v8 \in [Pulls -> Int] /\ O!SentOrUndone
  BY <1>1 DEF O!ToastInit, O!SentOrUndone
<1>3. O!WindowIsOwn
  BY <1>1 DEF O!ToastInit, O!WindowIsOwn
<1>4. O!ToastTypeOK
  BY <1>2 DEF O!ToastInit, O!ToastTypeOK
<1> QED BY <1>2, <1>3, <1>4 DEF ToastInv

\* The requests and debts after what waits is sent.
LEMMA ToastSent ==
  ASSUME ToastInv
  PROVE  /\ O!AtPending(v6, 1) \in [Pulls -> Nat] /\ O!AtPending(v8, -1) \in [Pulls -> Int]
         /\ \A a \in Pulls : O!AtPending(v8, -1)[a] = 0
BY ConsoleAssumption
DEF ConsoleAssumption, O!ToastAssumption, ToastInv, O!ToastTypeOK, O!SentOrUndone, O!AtPending

LEMMA ToastFlush ==
  ASSUME ToastInv, O!Flush
  PROVE  /\ v4' = None /\ v5' = {} /\ v6' \in [Pulls -> Nat] /\ v8' \in [Pulls -> Int]
         /\ \A a \in Pulls : v8'[a] = 0
BY ConsoleAssumption, ToastSent
DEF ConsoleAssumption, O!ToastAssumption, O!Flush, ToastInv, O!WindowIsOwn

LEMMA ToastPlain ==
  ASSUME ToastInv, O!Plain, UNCHANGED v4
  PROVE  /\ v1' \in Pulls \cup ({StatusChange} \cup OtherChanges) \cup {"text", None}
         /\ v2' \in BOOLEAN /\ v3' \in BOOLEAN
         /\ v4 # None => v1' = v4
         /\ (v2' /\ v1' \in Pulls) => v4 = v1'
<1>1. v2 \in BOOLEAN /\ v3 \in BOOLEAN
  BY DEF ToastInv, O!ToastTypeOK
<1>2. CASE v4 = None
  <2>1. v2' = TRUE /\ v3' = v3
    BY <1>2 DEF O!Plain
  <2>2. v1' \notin Pulls /\ v1' \in {"text"}
    BY <1>2, ConsoleAssumption DEF ConsoleAssumption, O!Plain, O!ToastAssumption
  <2> QED BY <1>1, <1>2, <2>1, <2>2
<1>3. CASE v4 # None
  <2>1. v1' = v1 /\ v2' = v2 /\ v3' = TRUE
    BY <1>3 DEF O!Plain
  <2>2. v1' \in Pulls \cup ({StatusChange} \cup OtherChanges) \cup {"text", None}
    BY <2>1 DEF ToastInv, O!ToastTypeOK
  <2> QED BY <1>1, <1>3, <2>1, <2>2 DEF ToastInv, O!WindowIsOwn
<1> QED BY <1>2, <1>3

USE ConsoleAssumption DEF ConsoleAssumption, ToastInv, O!ToastTypeOK, O!SentOrUndone, O!WindowIsOwn, O!ToastAssumption

LEMMA ToastDecide ==
  ASSUME ToastInv, NEW a \in Pulls, O!Decide(a), UNCHANGED O!authVars
  PROVE  ToastInv'
BY ConsoleAssumption, ToastSent DEF ConsoleAssumption, O!Decide, O!authVars

LEMMA ToastOffer ==
  ASSUME ToastInv, NEW u \in {StatusChange} \cup OtherChanges, O!Offer(u), UNCHANGED O!authVars
  PROVE  ToastInv'
BY ConsoleAssumption, ToastFlush DEF ConsoleAssumption, O!Offer, O!authVars

LEMMA ToastMessages ==
  ASSUME ToastInv, UNCHANGED O!authVars,
         O!Say \/ O!Hide \/ O!HideNotice \/ O!UndoAction
           \/ \E u \in {StatusChange} \cup OtherChanges : O!Reversed(u)
  PROVE  ToastInv'
<1>1. CASE O!Say \/ \E u \in {StatusChange} \cup OtherChanges : O!Reversed(u)
  <2>1. O!Plain /\ UNCHANGED <<v4, v5, v6, v8>> /\ v7' \subseteq v7
    BY <1>1 DEF O!Say, O!Reversed
  <2>2. O!SentOrUndone' /\ O!WindowIsOwn'
    BY <2>1, ToastPlain
  <2>3. O!ToastTypeOK'
    BY <2>1, ToastPlain DEF O!authVars
  <2> QED BY <2>2, <2>3
<1>2. CASE O!Hide \/ O!HideNotice \/ O!UndoAction
  <2>1. UNCHANGED <<v1, v4, v5, v6, v8>>
    BY <1>2 DEF O!Hide, O!HideNotice, O!UndoAction
  <2>2. v2' \in {v2, FALSE} /\ v3' \in {v3, FALSE} /\ v7' \subseteq {StatusChange} \cup OtherChanges
    BY <1>2 DEF O!Hide, O!HideNotice, O!UndoAction
  <2>3. O!SentOrUndone' /\ O!WindowIsOwn'
    <3>1. v2' => v2
      BY <1>2 DEF O!Hide, O!HideNotice, O!UndoAction
    <3> QED BY <2>1, <3>1
  <2>4. O!ToastTypeOK'
    BY <2>1, <2>2 DEF O!authVars
  <2> QED BY <2>3, <2>4
<1> QED BY <1>1, <1>2

LEMMA ToastTimers ==
  ASSUME ToastInv, UNCHANGED O!authVars,
         O!PageHide \/ \E a \in Pulls : O!CommitTimer(a)
  PROVE  ToastInv'
<1>1. CASE O!PageHide
  BY <1>1, ConsoleAssumption, ToastFlush DEF ConsoleAssumption, O!PageHide, O!authVars
<1>2. ASSUME NEW a \in Pulls, O!CommitTimer(a) PROVE ToastInv'
  BY <1>2, ConsoleAssumption, ToastSent DEF ConsoleAssumption, O!CommitTimer, O!authVars
<1> QED BY <1>1, <1>2

LEMMA ToastUndo ==
  ASSUME ToastInv, UNCHANGED O!authVars, O!UndoDecision
  PROVE  ToastInv'
<1>1. /\ v4 = v1 /\ v1 \in Pulls /\ v8' = [v8 EXCEPT ![v1] = @ - 1]
      /\ v4' = None /\ v5' = v5 \ {v1} /\ v1' = "text" /\ v2' = TRUE
      /\ UNCHANGED <<v3, v6, v7>>
  BY DEF O!UndoDecision
<1>2. O!WindowIsOwn'
  BY <1>1
<1>3. v8' \in [Pulls -> Int] /\ O!SentOrUndone'
  BY <1>1
<1>4. O!ToastTypeOK'
  BY <1>1, <1>3 DEF O!authVars
<1> QED BY <1>2, <1>3, <1>4

LEMMA ToastAnswer ==
  ASSUME ToastInv, NEW a \in Pulls, NEW ok \in BOOLEAN, O!Answered(a, ok), UNCHANGED <<v9, v11>>,
         v10' \in BOOLEAN, v12' \in Pulls \cup {None}
  PROVE  ToastInv'
BY ConsoleAssumption, ToastPlain DEF ConsoleAssumption, O!Answered

LEMMA ToastAuth ==
  ASSUME ToastInv, O!AuthStep
  PROVE  ToastInv'
<1>1. CASE O!Logout
  <2>1. v11' = "flushing" /\ v12' = v4 /\ UNCHANGED <<v1, v3, v7, v9, v10>>
    BY <1>1 DEF O!Logout
  <2>2. v2' \in BOOLEAN /\ O!Flush
    BY <1>1 DEF O!Logout
  <2>3. O!SentOrUndone' /\ O!WindowIsOwn'
    <3>1. v2' => v2 /\ (v4 = None \/ v1 # v4)
      BY <1>1 DEF O!Logout
    <3> QED BY <2>1, <2>2, <3>1, ToastFlush
  <2>4. O!ToastTypeOK'
    BY <2>1, <2>2, ToastFlush
  <2> QED BY <2>3, <2>4
<1>2. CASE O!LogoutRequest \/ O!LogoutAnswered \/ O!Expire \/ O!Login
  <2>1. UNCHANGED <<v1, v2, v3, v4, v5, v6, v7, v8, v12>>
    BY <1>2 DEF O!LogoutRequest, O!LogoutAnswered, O!Expire, O!Login, O!toastVars
  <2>2. v9' \in {v9, TRUE, FALSE} /\ v10' \in {v10, TRUE, FALSE} /\ v11' \in {v11, "posting", "no"}
    BY <1>2 DEF O!LogoutRequest, O!LogoutAnswered, O!Expire, O!Login
  <2>3. O!SentOrUndone' /\ O!WindowIsOwn'
    BY <2>1
  <2>4. O!ToastTypeOK'
    BY <2>1, <2>2
  <2> QED BY <2>3, <2>4
<1> QED BY <1>1, <1>2 DEF O!AuthStep

LEMMA ToastStep ==
  ASSUME ToastInv, O!ToastNext
  PROVE  ToastInv'
<1>1. CASE UNCHANGED O!authVars /\ (O!ToastStep \/ O!UndoDecision \/ \E a \in Pulls : O!Decide(a))
  BY <1>1, ToastDecide, ToastOffer, ToastMessages, ToastTimers, ToastUndo DEF O!ToastStep
<1>2. ASSUME NEW a \in Pulls, NEW ok \in BOOLEAN, O!Heard(a, ok) PROVE ToastInv'
  <2>1. v12' \in Pulls \cup {None} /\ UNCHANGED <<v9, v11>>
    BY <1>2 DEF O!Heard
  <2>2. v10' \in BOOLEAN
    BY <1>2 DEF O!Heard
  <2> QED BY <1>2, <2>1, <2>2, ToastAnswer DEF O!Heard
<1> QED BY <1>1, <1>2, ToastAuth DEF O!ToastNext

HIDE ConsoleAssumption DEF ConsoleAssumption, ToastInv, O!ToastTypeOK, O!SentOrUndone,
  O!WindowIsOwn, O!ToastAssumption

-----------------------------------------------------------------------------
\* The review of pull requests.
Decision == [pr : Pulls, next : {"merged", "closed"}, keep : SUBSET Nat, head : Nat, visit : Nat]

\* The boxes are those of entries the branch has at that head.
SeenOn(branch, n, head, keep) ==
  head \in 1..Len(branch[n]) /\ keep \subseteq 1..Len(branch[n][head])

BranchInv ==
  /\ v14 \in [Pulls -> Seq(Seq(Entries))] /\ \A n \in Pulls : Len(v14[n]) >= 1
  /\ \A m \in v15 :
       /\ m.pr \in Pulls /\ SeenOn(v14, m.pr, m.head, m.keep)
       /\ D!ToSet(m.result) = {v14[m.pr][m.head][i] : i \in m.keep}

\* What the page and its requests say of a branch is what it had.
SeenInv(branch) ==
  /\ DOMAIN v17 = Pulls /\ \A n \in Pulls : v17[n] # None => v17[n].head \in 1..Len(branch[n])
  /\ v20 \in Pulls
  /\ v23 # None => v23.pr \in Pulls /\ v23.head \in 1..Len(branch[v23.pr])
  /\ v24 # None => v24.pr \in Pulls /\ SeenOn(branch, v24.pr, v24.head, v24.keep)
  /\ v4 # None => v25 \in Decision /\ v25.pr = v4 /\ SeenOn(branch, v4, v25.head, v25.keep)
  /\ v26 \in Seq(Decision)
  /\ \A k \in 1..Len(v26) : SeenOn(branch, v26[k].pr, v26[k].head, v26[k].keep)

VisitInv ==
  /\ v21 \in BOOLEAN /\ v22 \in Nat
  /\ v4 # None => v25.visit <= v22
  /\ \A k \in 1..Len(v26) : v26[k].visit <= v22

\* A decision of this visit on n waits; the k-th of those sent is one.
OwnWaits(n) == v4 = n /\ v25.visit = v22
Own(sent, n, k) == sent[k].pr = n /\ sent[k].visit = v22
SomeOwn(sent, n) == \E k \in 1..Len(sent) : Own(sent, n, k)
OneOwn(sent, n) == \A j, k \in 1..Len(sent) : Own(sent, n, j) /\ Own(sent, n, k) => j = k

\* While the page is there it shows exactly the outcomes of the decisions of
\* this visit still to be answered, of which each pull request has one.
OutcomeInv ==
  /\ v18 \in [Pulls -> {"merged", "closed", None}]
  /\ ~v21 => \A n \in Pulls : v18[n] = None
  /\ v21 => \A n \in Pulls :
       /\ v18[n] # None <=> OwnWaits(n) \/ SomeOwn(v26, n)
       /\ OwnWaits(n) => ~SomeOwn(v26, n)
       /\ OneOwn(v26, n)
  /\ v21 /\ v23 # None => v18[v23.pr] = None

ReviewToast == ToastInv /\ v7 = {} /\ v1 \in Pulls \cup {"text", None}

ReviewInv == ReviewToast /\ BranchInv /\ SeenInv(v14) /\ VisitInv /\ OutcomeInv

\* A branch only grows, commit by commit.
Grows ==
  /\ v14' \in [Pulls -> Seq(Seq(Entries))]
  /\ \A n \in Pulls :
       Len(v14[n]) <= Len(v14'[n]) /\ \A h \in 1..Len(v14[n]) : v14'[n][h] = v14[n][h]

LEMMA BranchLen ==
  ASSUME BranchInv, NEW n \in Pulls
  PROVE  /\ v14[n] \in Seq(Seq(Entries)) /\ Len(v14[n]) \in Nat \ {0}
         /\ \A h \in 1..Len(v14[n]) : v14[n][h] \in Seq(Entries) /\ Len(v14[n][h]) \in Nat
<1>1. v14[n] \in Seq(Seq(Entries)) /\ Len(v14[n]) >= 1
  BY DEF BranchInv
<1>2. Len(v14[n]) \in Nat
  BY <1>1
<1>3. ASSUME NEW h \in 1..Len(v14[n]) PROVE v14[n][h] \in Seq(Entries) /\ Len(v14[n][h]) \in Nat
  <2>1. v14[n][h] \in Seq(Entries)
    BY <1>1, ElementOfSeq
  <2> QED BY <2>1
<1> QED BY <1>1, <1>2, <1>3

LEMMA SameGrows == BranchInv /\ UNCHANGED v14 => Grows
<1> SUFFICES ASSUME BranchInv, v14' = v14 PROVE Grows
  OBVIOUS
<1>1. \A n \in Pulls : Len(v14[n]) \in Nat
  BY BranchLen
<1> QED BY <1>1 DEF BranchInv, Grows

LEMMA AppendGrows ==
  ASSUME BranchInv, NEW n \in Pulls, NEW e \in Seq(Entries),
         v14' = [v14 EXCEPT ![n] = Append(@, e)]
  PROVE  Grows /\ Len(v14'[n]) = Len(v14[n]) + 1 /\ v14'[n][Len(v14'[n])] = e
<1>1. \A m \in Pulls : v14[m] \in Seq(Seq(Entries)) /\ Len(v14[m]) \in Nat
  BY BranchLen
<1>2. /\ v14'[n] = Append(v14[n], e) /\ \A m \in Pulls \ {n} : v14'[m] = v14[m]
      /\ DOMAIN v14' = Pulls
  BY DEF BranchInv
<1>3. /\ Append(v14[n], e) \in Seq(Seq(Entries))
      /\ Len(Append(v14[n], e)) = Len(v14[n]) + 1
      /\ Append(v14[n], e)[Len(v14[n]) + 1] = e
      /\ \A h \in 1..Len(v14[n]) : Append(v14[n], e)[h] = v14[n][h]
  BY <1>1, AppendProperties
<1>4. v14' \in [Pulls -> Seq(Seq(Entries))]
  BY <1>1, <1>2, <1>3 DEF BranchInv
<1>5. \A m \in Pulls :
        Len(v14[m]) <= Len(v14'[m]) /\ \A h \in 1..Len(v14[m]) : v14'[m][h] = v14[m][h]
  BY <1>1, <1>2, <1>3
<1> QED BY <1>2, <1>3, <1>4, <1>5 DEF Grows

LEMMA GrowsSeen ==
  ASSUME BranchInv, Grows, NEW n \in Pulls, NEW head, NEW keep
  PROVE  /\ head \in 1..Len(v14[n]) => head \in 1..Len(v14'[n])
         /\ SeenOn(v14, n, head, keep) =>
              /\ SeenOn(v14', n, head, keep)
              /\ v14'[n][head] = v14[n][head]
<1>1. /\ Len(v14[n]) \in Nat /\ Len(v14[n]) <= Len(v14'[n]) /\ Len(v14'[n]) \in Nat
      /\ \A h \in 1..Len(v14[n]) : v14'[n][h] = v14[n][h]
  <2>1. v14'[n] \in Seq(Seq(Entries))
    BY DEF Grows
  <2>2. Len(v14'[n]) \in Nat
    BY <2>1
  <2> QED BY <2>2, BranchLen DEF Grows
<1>2. head \in 1..Len(v14[n]) => head \in 1..Len(v14'[n]) /\ v14'[n][head] = v14[n][head]
  BY <1>1
<1> QED BY <1>2 DEF SeenOn

\* A trim's commit has the entries kept, in their order; none leaves the branch.
LEMMA KeptEntries ==
  ASSUME BranchInv, NEW b, b.pr \in Pulls, SeenOn(v14, b.pr, b.head, b.keep)
  PROVE  /\ IsFiniteSet(b.keep) /\ D!Kept(b) \in Seq(Entries)
         /\ D!ToSet(D!Kept(b)) = {v14[b.pr][b.head][i] : i \in b.keep}
<1> DEFINE line == v14[b.pr][b.head]
           size == Cardinality(b.keep)
           at(i) == CHOOSE j \in b.keep : D!Cardinality({k \in b.keep : k <= j}) = i
<1>1. line \in Seq(Entries) /\ Len(line) \in Nat /\ b.keep \subseteq 1..Len(line)
  BY BranchLen DEF SeenOn
<1>2. IsFiniteSet(b.keep) /\ size \in Nat /\ b.keep \in SUBSET Nat
  <2>1. IsFiniteSet(1..Len(line))
    BY <1>1, FS_Interval
  <2>2. b.keep \in SUBSET (1..Len(line)) /\ 1..Len(line) \subseteq Nat
    BY <1>1
  <2>3. IsFiniteSet(b.keep)
    BY <2>1, <2>2, FS_Subset
  <2> QED BY <2>2, <2>3, FS_CardinalityType
<1>3. \A i \in 1..size : at(i) \in b.keep /\ Rank(b.keep, at(i)) = i
  <2> SUFFICES ASSUME NEW i \in 1..size PROVE at(i) \in b.keep /\ Rank(b.keep, at(i)) = i
    OBVIOUS
  <2>1. \A j : Rank(b.keep, j) = D!Cardinality({k \in b.keep : k <= j})
    BY SameCount DEF Rank
  <2>2. \E j \in b.keep : D!Cardinality({k \in b.keep : k <= j}) = i
    BY <1>2, <2>1, RankOnto
  <2>3. at(i) \in b.keep /\ D!Cardinality({k \in b.keep : k <= at(i)}) = i
    BY <2>2
  <2> QED BY <2>1, <2>3
<1>4. \A j \in b.keep : at(Rank(b.keep, j)) = j
  <2> SUFFICES ASSUME NEW j \in b.keep PROVE at(Rank(b.keep, j)) = j
    OBVIOUS
  <2>1. Rank(b.keep, j) \in 1..size
    BY <1>2, RankStep
  <2> DEFINE k == at(Rank(b.keep, j))
  <2>2. k \in b.keep /\ Rank(b.keep, k) = Rank(b.keep, j)
    BY <1>3, <2>1
  <2> HIDE DEF k
  <2>3. ~(k < j) /\ ~(j < k)
    <3>1. Rank(b.keep, k) \in Int /\ Rank(b.keep, j) \in Int
      BY <1>2, <2>1, <2>2
    <3> QED BY <1>2, <2>2, <3>1, RankStep
  <2>4. k \in Int /\ j \in Int
    BY <1>2, <2>2
  <2>5. k = j
    BY <2>3, <2>4
  <2> QED BY <2>5 DEF k
<1>5. D!Kept(b) = [i \in 1..size |-> line[at(i)]]
  BY SameCount DEF D!Kept
<1> HIDE DEF at
<1>6. \A j \in b.keep : line[j] \in Entries
  BY <1>1, ElementOfSeq
<1>7. D!Kept(b) \in [1..size -> Entries]
  BY <1>3, <1>5, <1>6
<1>8. D!Kept(b) \in Seq(Entries)
  BY <1>2, <1>7, IsASeq
<1>9. D!ToSet(D!Kept(b)) = {line[at(i)] : i \in 1..size}
  BY <1>5 DEF D!ToSet
<1>10. {line[at(i)] : i \in 1..size} = {line[j] : j \in b.keep}
  <2>1. \A j \in b.keep : Rank(b.keep, j) \in 1..size
    BY <1>2, RankStep
  <2> QED BY <1>3, <1>4, <2>1
<1> QED BY <1>2, <1>8, <1>9, <1>10

LEMMA TrimGrows ==
  ASSUME BranchInv, NEW b, b.pr \in Pulls, SeenOn(v14, b.pr, b.head, b.keep), v14' = D!Trimmed(b)
  PROVE  /\ Grows
         /\ b.head = Len(v14[b.pr]) =>
              D!ToSet(D!Last(v14'[b.pr])) = {v14'[b.pr][b.head][i] : i \in b.keep}
<1> DEFINE line == v14[b.pr][b.head]
<1>1. line \in Seq(Entries) /\ Len(line) \in Nat /\ b.keep \in SUBSET (1..Len(line))
  BY BranchLen DEF SeenOn
<1>2. CASE Cardinality(b.keep) < Len(line)
  <2>1. v14' = [v14 EXCEPT ![b.pr] = Append(@, D!Kept(b))]
    BY <1>2, SameCount DEF D!Trimmed
  <2>2. D!Kept(b) \in Seq(Entries) /\ D!ToSet(D!Kept(b)) = {v14[b.pr][b.head][i] : i \in b.keep}
    BY KeptEntries
  <2>3. Grows /\ v14'[b.pr][Len(v14'[b.pr])] = D!Kept(b)
    BY <2>1, <2>2, AppendGrows
  <2> HIDE DEF line
  <2>4. v14'[b.pr][b.head] = v14[b.pr][b.head]
    BY <2>3, GrowsSeen
  <2> QED BY <2>2, <2>3, <2>4 DEF D!Last
<1>3. CASE ~(Cardinality(b.keep) < Len(line))
  <2>1. v14' = v14 /\ Grows
    BY <1>3, SameGrows, SameCount DEF D!Trimmed
  <2>2. b.keep = 1..Len(line)
    <3> HIDE DEF line
    <3>1. IsFiniteSet(1..Len(line)) /\ Cardinality(1..Len(line)) = Len(line)
      BY <1>1, FS_Interval
    <3>2. Cardinality(b.keep) <= Len(line) /\ (Cardinality(1..Len(line)) = Cardinality(b.keep) => 1..Len(line) = b.keep)
      BY <1>1, <3>1, FS_Subset
    <3>3. Cardinality(b.keep) \in Nat
      BY <1>1, <3>1, FS_Subset, FS_CardinalityType
    <3> QED BY <1>1, <1>3, <3>1, <3>2, <3>3
  <2>3. ASSUME b.head = Len(v14[b.pr])
        PROVE  D!ToSet(D!Last(v14'[b.pr])) = {v14'[b.pr][b.head][i] : i \in b.keep}
    <3>1. D!Last(v14'[b.pr]) = line /\ v14'[b.pr][b.head] = line
      BY <2>1, <2>3 DEF D!Last
    <3>2. DOMAIN line = 1..Len(line)
      BY <1>1
    <3> QED BY <2>2, <3>1, <3>2 DEF D!ToSet
  <2> QED BY <2>1, <2>3
<1> QED BY <1>2, <1>3

LEMMA GrowsSeenInv ==
  ASSUME BranchInv, SeenInv(v14), Grows
  PROVE  SeenInv(v14')
<1>1. v26 \in Seq(Decision) /\ \A k \in 1..Len(v26) : v26[k].pr \in Pulls
  <2>1. \A k \in 1..Len(v26) : v26[k] \in Decision
    BY ElementOfSeq DEF SeenInv
  <2> QED BY <2>1 DEF SeenInv, Decision
<1>2. v4 # None => v4 \in Pulls
  BY DEF SeenInv, Decision
<1>3. \A n \in Pulls : \A head : head \in 1..Len(v14[n]) => head \in 1..Len(v14'[n])
  BY GrowsSeen
<1>4. \A n \in Pulls : \A head, keep : SeenOn(v14, n, head, keep) => SeenOn(v14', n, head, keep)
  BY GrowsSeen
<1> QED BY <1>1, <1>2, <1>3, <1>4 DEF SeenInv

\* What waits joins those sent.
LEMMA OwnMoved ==
  ASSUME v26 \in Seq(Decision), v25 \in Decision, v4 # None, v25.pr = v4,
         NEW s, s = Append(v26, v25), NEW n \in Pulls
  PROVE  /\ SomeOwn(s, n) <=> OwnWaits(n) \/ SomeOwn(v26, n)
         /\ OneOwn(v26, n) /\ (OwnWaits(n) => ~SomeOwn(v26, n)) => OneOwn(s, n)
<1>1. /\ Len(v26) \in Nat /\ Len(s) = Len(v26) + 1 /\ s[Len(v26) + 1] = v25
      /\ \A k \in 1..Len(v26) : s[k] = v26[k]
  BY AppendProperties
<1>2. \A k \in 1..Len(s) : Own(s, n, k) <=> IF k = Len(v26) + 1 THEN OwnWaits(n) ELSE Own(v26, n, k)
  BY <1>1 DEF Own, OwnWaits
<1>3. 1..Len(s) = 1..Len(v26) \cup {Len(v26) + 1} /\ Len(v26) + 1 \notin 1..Len(v26)
  BY <1>1
<1> QED BY <1>2, <1>3 DEF SomeOwn, OneOwn

\* One of those sent is answered.
LEMMA OwnRemoved ==
  ASSUME v26 \in Seq(Decision), NEW k \in 1..Len(v26), NEW n \in Pulls
  PROVE  OneOwn(v26, n) =>
           /\ SomeOwn(Without(v26, k), n) <=> SomeOwn(v26, n) /\ ~Own(v26, n, k)
           /\ OneOwn(Without(v26, k), n)
<1> DEFINE s == Without(v26, k)
           old(i) == IF i < k THEN i ELSE i + 1
<1>1. /\ Len(v26) \in Nat /\ Len(s) = Len(v26) - 1
      /\ \A i \in 1..Len(v26) - 1 : s[i] = v26[old(i)]
  BY WithoutOne
<1>2. \A i \in 1..Len(s) : old(i) \in 1..Len(v26) \ {k} /\ (Own(s, n, i) <=> Own(v26, n, old(i)))
  BY <1>1 DEF Own
<1>3. \A i, j \in 1..Len(s) : old(i) = old(j) => i = j
  BY <1>1
<1>4. \A j \in 1..Len(v26) \ {k} : \E i \in 1..Len(s) : old(i) = j
  <2> SUFFICES ASSUME NEW j \in 1..Len(v26) \ {k} PROVE \E i \in 1..Len(s) : old(i) = j
    OBVIOUS
  <2>1. CASE j < k
    <3>1. j \in 1..Len(s) /\ old(j) = j
      BY <1>1, <2>1
    <3> QED BY <3>1
  <2>2. CASE ~(j < k)
    <3>1. j - 1 \in 1..Len(s) /\ old(j - 1) = j
      BY <1>1, <2>2
    <3> QED BY <3>1
  <2> QED BY <2>1, <2>2
<1> HIDE DEF s, old
<1>5. ASSUME OneOwn(v26, n)
      PROVE  SomeOwn(s, n) <=> SomeOwn(v26, n) /\ ~Own(v26, n, k)
  <2>1. SomeOwn(s, n) => SomeOwn(v26, n) /\ ~Own(v26, n, k)
    BY <1>2, <1>5 DEF SomeOwn, OneOwn
  <2>2. SomeOwn(v26, n) /\ ~Own(v26, n, k) => SomeOwn(s, n)
    BY <1>2, <1>4 DEF SomeOwn
  <2> QED BY <2>1, <2>2
<1>6. OneOwn(v26, n) => OneOwn(s, n)
  BY <1>2, <1>3 DEF OneOwn
<1> QED BY <1>5, <1>6 DEF s

-----------------------------------------------------------------------------
\* Toasts of the review are toasts of the console without undoable actions.
LEMMA ReviewToastSteps ==
  ASSUME ReviewToast, UNCHANGED D!authVars,
         \/ D!PageHide \/ D!UndoDecision
         \/ \E n \in Pulls : D!Decide(n) \/ D!CommitTimer(n) \/ \E ok \in BOOLEAN : D!Answered(n, ok)
         \/ D!Plain /\ UNCHANGED <<v4, v5, v6, v7, v8>>
  PROVE  ReviewToast'
<1>1. v7' = v7
  BY DEF D!PageHide, D!UndoDecision, D!Decide, D!CommitTimer, D!Answered
<1>2. v1' \in Pulls \cup {"text", None}
  <2>1. CASE D!PageHide \/ \E n \in Pulls : D!Decide(n) \/ D!CommitTimer(n)
    BY <2>1 DEF ReviewToast, D!PageHide, D!Decide, D!CommitTimer
  <2>2. CASE D!UndoDecision \/ D!Plain \/ \E n \in Pulls, ok \in BOOLEAN : D!Answered(n, ok)
    <3>1. v1' \in {v1, "text"}
      BY <2>2 DEF D!UndoDecision, D!Answered, D!Plain
    <3> QED BY <3>1 DEF ReviewToast
  <2> QED BY <2>1, <2>2
<1>3. UNCHANGED O!authVars
  BY DEF D!authVars, O!authVars
<1>4. ToastInv /\ v12 \in Pulls \cup {None} /\ v10 \in BOOLEAN
  BY DEF ReviewToast, ToastInv, O!ToastTypeOK
<1>5. CASE D!PageHide \/ \E n \in Pulls : D!CommitTimer(n)
  <2>1. O!PageHide \/ \E n \in Pulls : O!CommitTimer(n)
    BY <1>5 DEF D!PageHide, O!PageHide, D!Flush, O!Flush, D!CommitTimer, O!CommitTimer, D!AtPending, O!AtPending
  <2> QED BY <1>1, <1>2, <1>3, <1>4, <2>1, ToastTimers DEF ReviewToast
<1>6. CASE D!UndoDecision
  <2>1. O!UndoDecision
    BY <1>6 DEF D!UndoDecision, O!UndoDecision
  <2> QED BY <1>1, <1>2, <1>3, <1>4, <2>1, ToastUndo DEF ReviewToast
<1>7. CASE \E n \in Pulls : D!Decide(n)
  <2>1. \E n \in Pulls : O!Decide(n)
    BY <1>7 DEF D!Decide, O!Decide, D!AtPending, O!AtPending
  <2> QED BY <1>1, <1>2, <1>3, <1>4, <2>1, ToastDecide DEF ReviewToast
<1>8. CASE \E n \in Pulls, ok \in BOOLEAN : D!Answered(n, ok)
  <2>1. \E n \in Pulls, ok \in BOOLEAN : O!Answered(n, ok)
    BY <1>8 DEF D!Answered, O!Answered, D!Plain, O!Plain
  <2>2. UNCHANGED <<v9, v11>> /\ v10' \in BOOLEAN /\ v12' \in Pulls \cup {None}
    BY <1>4 DEF D!authVars
  <2> QED BY <1>1, <1>2, <1>4, <2>1, <2>2, ToastAnswer DEF ReviewToast
<1>9. CASE D!Plain /\ UNCHANGED <<v4, v5, v6, v7, v8>>
  <2>1. O!Plain
    BY <1>9 DEF D!Plain, O!Plain
  <2>2. UNCHANGED <<v9, v10, v11, v12>>
    BY DEF D!authVars
  <2>3. O!SentOrUndone' /\ O!WindowIsOwn'
    BY <1>4, <1>9, <2>1, ToastPlain DEF ToastInv, O!SentOrUndone, O!WindowIsOwn
  <2>4. O!ToastTypeOK'
    BY <1>4, <1>9, <2>1, <2>2, ToastPlain DEF ToastInv, O!ToastTypeOK
  <2> QED BY <1>1, <1>2, <2>3, <2>4 DEF ReviewToast, ToastInv
<1> QED BY <1>5, <1>6, <1>7, <1>8, <1>9
\* What waits is sent by the next decision, its timer or the page's end.
LEMMA ReviewSends ==
  ASSUME ReviewToast, D!Sends, v6' = D!AtPending(v6, 1)
  PROVE  v26' = IF v4 # None THEN Append(v26, v25) ELSE v26
<1>1. v6 \in [Pulls -> Nat] /\ v4 \in Pulls \cup {None}
  BY DEF ReviewToast, ToastInv, O!ToastTypeOK
<1>2. v4 # None => v6'[v4] > v6[v4]
  BY <1>1 DEF D!AtPending
<1> QED BY <1>2 DEF D!Sends

LEMMA ReviewDelayed ==
  ASSUME ReviewInv, NEW n \in Pulls, NEW next \in {"merged", "closed"}, NEW keep, NEW head,
         SeenOn(v14, n, head, keep), v21 => v18[n] = None,
         D!Delayed(n, next, keep, head), v23' = None
  PROVE  ReviewInv'
<1> DEFINE b == [pr |-> n, next |-> next, keep |-> keep, head |-> head, visit |-> v22]
<1>1. ReviewToast /\ BranchInv /\ SeenInv(v14) /\ VisitInv /\ OutcomeInv
  BY DEF ReviewInv
<1>2. /\ D!Decide(n) /\ D!Sends /\ v25' = b /\ v4' = n /\ v6' = D!AtPending(v6, 1)
      /\ v18' = (IF v21 THEN [v18 EXCEPT ![n] = next] ELSE v18)
      /\ UNCHANGED <<v14, v15, v17, v20, v21, v22, v24>> /\ UNCHANGED D!authVars
  BY DEF D!Delayed, D!Decide, D!githubVars, D!cache, D!stay
<1>3. ReviewToast'
  BY <1>1, <1>2, ReviewToastSteps
<1>4. v26' = IF v4 # None THEN Append(v26, v25) ELSE v26
  BY <1>1, <1>2, ReviewSends
<1>5. b \in Decision /\ SeenOn(v14, n, b.head, b.keep)
  <2>1. Len(v14[n]) \in Nat /\ Len(v14[n][head]) \in Nat
    BY <1>1, BranchLen DEF SeenOn
  <2>2. head \in Nat /\ keep \in SUBSET Nat
    BY <2>1 DEF SeenOn
  <2> QED BY <1>1, <2>2 DEF Decision, VisitInv
<1>6. /\ v26' \in Seq(Decision)
      /\ \A k \in 1..Len(v26') : /\ SeenOn(v14, v26'[k].pr, v26'[k].head, v26'[k].keep)
                                 /\ v26'[k].visit <= v22
  <2>1. CASE v4 = None
    BY <1>1, <1>4, <2>1 DEF SeenInv, VisitInv
  <2>2. CASE v4 # None
    <3>1. v25 \in Decision /\ v25.pr = v4 /\ SeenOn(v14, v25.pr, v25.head, v25.keep) /\ v25.visit <= v22
      BY <1>1, <2>2 DEF SeenInv, VisitInv
    <3>2. /\ v26' \in Seq(Decision) /\ Len(v26) \in Nat /\ Len(v26') = Len(v26) + 1
          /\ v26'[Len(v26) + 1] = v25 /\ \A k \in 1..Len(v26) : v26'[k] = v26[k]
      BY <1>1, <1>4, <2>2, <3>1, AppendProperties DEF SeenInv
    <3> QED BY <1>1, <3>1, <3>2 DEF SeenInv, VisitInv
  <2> QED BY <2>1, <2>2
<1>7. SeenInv(v14)' /\ BranchInv' /\ VisitInv'
  <2>1. SeenInv(v14)'
    BY <1>1, <1>2, <1>5, <1>6 DEF SeenInv
  <2>2. BranchInv'
    BY <1>1, <1>2 DEF BranchInv
  <2>3. VisitInv'
    BY <1>1, <1>2, <1>6 DEF VisitInv
  <2> QED BY <2>1, <2>2, <2>3
<1>8. \A m \in Pulls :
        /\ v21 => (SomeOwn(v26', m) <=> OwnWaits(m) \/ SomeOwn(v26, m)) /\ OneOwn(v26', m)
  <2>1. CASE v4 = None
    <3>1. None \notin Pulls
      BY ConsoleAssumption DEF ConsoleAssumption, O!ToastAssumption
    <3> QED BY <1>1, <1>4, <2>1, <3>1 DEF OutcomeInv, OwnWaits
  <2>2. CASE v4 # None
    BY <1>1, <1>4, <2>2, OwnMoved DEF OutcomeInv, SeenInv
  <2> QED BY <2>1, <2>2
<1>9. OutcomeInv'
  <2>1. v18' \in [Pulls -> {"merged", "closed", None}]
    BY <1>1, <1>2 DEF OutcomeInv
  <2>2. ~v21' => \A m \in Pulls : v18'[m] = None
    BY <1>1, <1>2 DEF OutcomeInv
  <2>3. ASSUME v21', NEW m \in Pulls
        PROVE  /\ v18'[m] # None <=> OwnWaits(m)' \/ SomeOwn(v26, m)'
               /\ OwnWaits(m)' => ~SomeOwn(v26, m)'
               /\ OneOwn(v26, m)'
    <3>1. v21 /\ v18[n] = None
      BY <1>2, <2>3
    <3>2. (SomeOwn(v26, m)' <=> SomeOwn(v26', m)) /\ (OneOwn(v26, m)' <=> OneOwn(v26', m))
      BY <1>2 DEF SomeOwn, OneOwn, Own
    <3>3. OwnWaits(m)' <=> m = n
      BY <1>2 DEF OwnWaits
    <3>4. ~OwnWaits(n) /\ ~SomeOwn(v26, n)
      BY <1>1, <3>1 DEF OutcomeInv
    <3>5. v18'[m] = IF m = n THEN next ELSE v18[m]
      BY <1>1, <1>2, <3>1 DEF OutcomeInv
    <3>6. next # None
      BY StateAssumption
    <3> QED BY <1>1, <1>8, <3>1, <3>2, <3>3, <3>4, <3>5, <3>6 DEF OutcomeInv
  <2>4. v23' = None
    OBVIOUS
  <2> QED BY <2>1, <2>2, <2>3, <2>4 DEF OutcomeInv
<1> QED BY <1>3, <1>7, <1>9 DEF ReviewInv

\* What the page reads again is what the branch has.
LEMMA ReviewRefreshed ==
  ASSUME BranchInv, SeenInv(v14), Grows, D!Refreshed
  PROVE  DOMAIN v17' = Pulls /\ \A n \in Pulls : v17'[n] # None => v17'[n].head \in 1..Len(v14'[n])
<1>1. \A n \in Pulls : v17[n] # None => v17[n].head \in 1..Len(v14'[n])
  BY GrowsSeenInv DEF SeenInv
<1>2. \A n \in Pulls : Len(v14'[n]) \in 1..Len(v14'[n])
  <2> SUFFICES ASSUME NEW n \in Pulls PROVE Len(v14'[n]) \in 1..Len(v14'[n])
    OBVIOUS
  <2>1. v14'[n] \in Seq(Seq(Entries)) /\ Len(v14[n]) <= Len(v14'[n])
    BY DEF Grows
  <2>2. Len(v14'[n]) \in Nat
    BY <2>1
  <2> QED BY <2>1, <2>2, BranchLen
<1>3. \A n \in Pulls : (D!View(n))'.head = Len(v14'[n])
  BY DEF D!View
<1> QED BY <1>1, <1>2, <1>3 DEF SeenInv, D!Refreshed, D!cache, D!PRs

\* A decision of the server keeps what is merged in step with its branch.
LEMMA BranchGrown ==
  ASSUME BranchInv, Grows,
         \/ v15' = v15
         \/ \E m : /\ v15' = v15 \cup {m}
                   /\ m.pr \in Pulls /\ SeenOn(v14, m.pr, m.head, m.keep)
                   /\ D!ToSet(m.result) = {v14'[m.pr][m.head][i] : i \in m.keep}
  PROVE  BranchInv'
<1>1. v14' \in [Pulls -> Seq(Seq(Entries))] /\ \A n \in Pulls : Len(v14'[n]) >= 1
  <2> SUFFICES ASSUME NEW n \in Pulls PROVE Len(v14'[n]) >= 1
    BY DEF Grows
  <2>1. v14'[n] \in Seq(Seq(Entries)) /\ Len(v14[n]) <= Len(v14'[n])
    BY DEF Grows
  <2>2. Len(v14'[n]) \in Nat
    BY <2>1
  <2> QED BY <2>1, <2>2, BranchLen
<1>2. ASSUME NEW m, m.pr \in Pulls, SeenOn(v14, m.pr, m.head, m.keep)
      PROVE  SeenOn(v14', m.pr, m.head, m.keep) /\ v14'[m.pr][m.head] = v14[m.pr][m.head]
  BY <1>2, GrowsSeen
<1>3. ASSUME NEW m \in v15
      PROVE  /\ m.pr \in Pulls /\ SeenOn(v14', m.pr, m.head, m.keep)
             /\ D!ToSet(m.result) = {v14'[m.pr][m.head][i] : i \in m.keep}
  <2>1. /\ m.pr \in Pulls /\ SeenOn(v14, m.pr, m.head, m.keep)
        /\ D!ToSet(m.result) = {v14[m.pr][m.head][i] : i \in m.keep}
    BY DEF BranchInv
  <2> QED BY <1>2, <2>1
<1> QED BY <1>1, <1>2, <1>3 DEF BranchInv

LEMMA ReviewDecided ==
  ASSUME ReviewInv, NEW k \in DOMAIN v26, NEW ok \in BOOLEAN, D!Decided(k, ok)
  PROVE  ReviewInv'
<1> DEFINE b == v26[k]
<1>1. ReviewToast /\ BranchInv /\ SeenInv(v14) /\ VisitInv /\ OutcomeInv
  BY DEF ReviewInv
<1>2. v26 \in Seq(Decision) /\ k \in 1..Len(v26) /\ DOMAIN v26 = 1..Len(v26)
  BY <1>1 DEF SeenInv
<1>3. b \in Decision /\ b.pr \in Pulls /\ SeenOn(v14, b.pr, b.head, b.keep)
  <2>1. b \in Decision
    BY <1>2, ElementOfSeq
  <2> QED BY <1>1, <1>2, <2>1 DEF Decision, SeenInv
<1>4. /\ D!Answered(b.pr, ok) /\ v26' = Without(v26, k) /\ D!Refreshed
      /\ \/ D!Accepts(b) /\ (D!Merge(b) \/ D!Close(b))
         \/ D!Accepts(b) /\ v14' = D!Trimmed(b) /\ UNCHANGED v15
         \/ UNCHANGED <<v14, v15>>
      /\ v18' = (IF D!Mine(b) THEN [v18 EXCEPT ![b.pr] = None] ELSE v18)
      /\ UNCHANGED <<v20, v21, v22, v23, v24, v25>> /\ UNCHANGED D!authVars
  BY DEF D!Decided, D!RemoveAt, Without, D!githubVars, D!stay, D!dialogs
<1> HIDE DEF b
<1>5. ReviewToast' /\ v4' = v4
  BY <1>1, <1>3, <1>4, ReviewToastSteps DEF D!Answered
<1>6. Grows /\ BranchInv'
  <2>1. CASE D!Accepts(b) /\ D!Merge(b)
    <3>1. v14' = D!Trimmed(b) /\ b.head = Len(v14[b.pr])
      BY <2>1 DEF D!Accepts, D!Merge
    <3>2. Grows /\ D!ToSet(D!Last(v14'[b.pr])) = {v14'[b.pr][b.head][i] : i \in b.keep}
      BY <1>1, <1>3, <3>1, TrimGrows
    <3> DEFINE m == [pr |-> b.pr, keep |-> b.keep, head |-> b.head, result |-> D!Last(v14'[b.pr])]
    <3>3. v15' = v15 \cup {m}
      BY <2>1 DEF D!Merge
    <3>4. m.pr = b.pr /\ m.keep = b.keep /\ m.head = b.head /\ m.result = D!Last(v14'[b.pr])
      OBVIOUS
    <3> HIDE DEF m
    <3> QED BY <1>1, <1>3, <3>2, <3>3, <3>4, BranchGrown
  <2>2. CASE D!Accepts(b) /\ D!Close(b)
    BY <1>1, <2>2, SameGrows, BranchGrown DEF D!Close
  <2>3. CASE v14' = D!Trimmed(b) /\ UNCHANGED v15
    BY <1>1, <1>3, <2>3, TrimGrows, BranchGrown
  <2>4. CASE UNCHANGED <<v14, v15>>
    BY <1>1, <2>4, SameGrows, BranchGrown
  <2> QED BY <1>4, <2>1, <2>2, <2>3, <2>4
<1>7. /\ v26' \in Seq(Decision) /\ Len(v26') = Len(v26) - 1
      /\ \A i \in 1..Len(v26') : \E j \in 1..Len(v26) : v26'[i] = v26[j]
  <2>1. /\ v26' \in Seq(Decision) /\ Len(v26') = Len(v26) - 1 /\ Len(v26) \in Nat
        /\ \A i \in 1..Len(v26) - 1 : v26'[i] = v26[IF i < k THEN i ELSE i + 1]
    <3>1. /\ Without(v26, k) \in Seq(Decision) /\ Len(Without(v26, k)) = Len(v26) - 1
          /\ \A i \in 1..Len(v26) - 1 : Without(v26, k)[i] = v26[IF i < k THEN i ELSE i + 1]
      BY <1>2, WithoutOne
    <3>2. Len(v26) \in Nat
      BY <1>2
    <3> QED BY <1>4, <3>1, <3>2
  <2>3. k \in Int /\ 1 <= k /\ k <= Len(v26)
    BY <1>2, <2>1
  <2>2. \A i \in 1..Len(v26) - 1 : (IF i < k THEN i ELSE i + 1) \in 1..Len(v26)
    BY <2>1, <2>3
  <2> QED BY <2>1, <2>2
<1>8. SeenInv(v14)'
  <2>1. SeenInv(v14')
    BY <1>1, <1>6, GrowsSeenInv
  <2>2. DOMAIN v17' = Pulls /\ \A n \in Pulls : v17'[n] # None => v17'[n].head \in 1..Len(v14'[n])
    BY <1>1, <1>4, <1>6, ReviewRefreshed
  <2> QED BY <1>4, <1>5, <1>7, <2>1, <2>2 DEF SeenInv
<1>9. VisitInv'
  BY <1>1, <1>4, <1>5, <1>7 DEF VisitInv
<1>10. OutcomeInv'
  <2>1. v18' \in [Pulls -> {"merged", "closed", None}]
    BY <1>1, <1>4 DEF OutcomeInv
  <2>2. ~v21' => \A n \in Pulls : v18'[n] = None
    BY <1>1, <1>4 DEF OutcomeInv, D!Mine
  <2>3. v21' /\ v23' # None => v18'[v23'.pr] = None
    <3>1. v18'[v23.pr] \in {v18[v23.pr], None}
      BY <1>1, <1>4 DEF OutcomeInv
    <3> QED BY <1>1, <1>4, <3>1 DEF OutcomeInv
  <2>4. ASSUME v21', NEW n \in Pulls
        PROVE  /\ v18'[n] # None <=> OwnWaits(n)' \/ SomeOwn(v26, n)'
               /\ OwnWaits(n)' => ~SomeOwn(v26, n)'
               /\ OneOwn(v26, n)'
    <3>1. v21
      BY <1>4, <2>4
    <3>2. (OwnWaits(n)' <=> OwnWaits(n)) /\ (SomeOwn(v26, n)' <=> SomeOwn(Without(v26, k), n))
          /\ (OneOwn(v26, n)' <=> OneOwn(Without(v26, k), n))
      BY <1>4, <1>5 DEF OwnWaits, SomeOwn, OneOwn, Own
    <3>3. /\ SomeOwn(Without(v26, k), n) <=> SomeOwn(v26, n) /\ ~Own(v26, n, k)
          /\ OneOwn(Without(v26, k), n)
      BY <1>1, <1>2, <3>1, OwnRemoved DEF OutcomeInv
    <3>4. Own(v26, n, k) <=> n = b.pr /\ D!Mine(b)
      BY <3>1 DEF Own, D!Mine, b
    <3>5. Own(v26, n, k) => SomeOwn(v26, n)
      BY <1>2 DEF SomeOwn
    <3>6. v18'[n] = IF Own(v26, n, k) THEN None ELSE v18[n]
      BY <1>1, <1>4, <3>4 DEF OutcomeInv
    <3> QED BY <1>1, <3>1, <3>2, <3>3, <3>5, <3>6 DEF OutcomeInv
  <2> QED BY <2>1, <2>2, <2>3, <2>4 DEF OutcomeInv
<1> QED BY <1>5, <1>6, <1>8, <1>9, <1>10 DEF ReviewInv

\* What was started is left alone.
LEMMA SameOutcome ==
  OutcomeInv /\ UNCHANGED <<v4, v18, v21, v22, v25, v26>> /\ v23' \in {v23, None} => OutcomeInv'
BY DEF OutcomeInv, OwnWaits, SomeOwn, OneOwn, Own

LEMMA ReviewTrimmed ==
  ASSUME ReviewInv, NEW ok \in BOOLEAN, D!TrimAnswered(ok)
  PROVE  ReviewInv'
<1>1. ReviewToast /\ BranchInv /\ SeenInv(v14) /\ VisitInv /\ OutcomeInv
  BY DEF ReviewInv
<1>2. /\ v24 # None /\ v24' = None
      /\ v14' = v14 \/ v14' = D!Trimmed(v24)
      /\ D!Plain /\ UNCHANGED <<v4, v5, v6, v7, v8>> /\ UNCHANGED D!authVars /\ D!Refreshed
      /\ UNCHANGED <<v15, v18, v20, v21, v22, v23, v25, v26>>
  BY DEF D!TrimAnswered, D!stay, D!requests
<1>3. ReviewToast'
  BY <1>1, <1>2, ReviewToastSteps
<1>4. Grows /\ BranchInv'
  <2>1. v24.pr \in Pulls /\ SeenOn(v14, v24.pr, v24.head, v24.keep)
    BY <1>1, <1>2 DEF SeenInv
  <2>2. Grows
    BY <1>1, <1>2, <2>1, SameGrows, TrimGrows
  <2> QED BY <1>1, <1>2, <2>2, BranchGrown
<1>5. SeenInv(v14)'
  <2>1. SeenInv(v14')
    BY <1>1, <1>4, GrowsSeenInv
  <2>2. DOMAIN v17' = Pulls /\ \A n \in Pulls : v17'[n] # None => v17'[n].head \in 1..Len(v14'[n])
    BY <1>1, <1>2, <1>4, ReviewRefreshed
  <2> QED BY <1>2, <2>1, <2>2 DEF SeenInv
<1>6. VisitInv' /\ OutcomeInv'
  <2>1. VisitInv'
    BY <1>1, <1>2 DEF VisitInv
  <2> QED BY <1>1, <1>2, <2>1, SameOutcome
<1> QED BY <1>3, <1>4, <1>5, <1>6 DEF ReviewInv

LEMMA ReviewUndo == ReviewInv /\ D!Undo => ReviewInv'
<1> SUFFICES ASSUME ReviewInv, D!Undo PROVE ReviewInv'
  OBVIOUS
<1>1. ReviewToast /\ BranchInv /\ SeenInv(v14) /\ VisitInv /\ OutcomeInv
  BY DEF ReviewInv
<1>2. /\ D!UndoDecision /\ UNCHANGED D!authVars
      /\ v18' = (IF D!Mine(v25) THEN [v18 EXCEPT ![v1] = None] ELSE v18)
      /\ UNCHANGED <<v14, v15, v17, v20, v21, v22, v23, v24, v26>>
  BY DEF D!Undo, D!githubVars, D!cache, D!stay, D!dialogs
<1>3. ReviewToast'
  BY <1>1, <1>2, ReviewToastSteps
<1>4. v4 = v1 /\ v1 \in Pulls /\ v4' = None /\ v4 # None
  BY <1>1, <1>2, ConsoleAssumption DEF ConsoleAssumption, D!UndoDecision, ReviewToast, ToastInv, O!WindowIsOwn, O!ToastAssumption
<1>5. SeenInv(v14)' /\ BranchInv' /\ VisitInv'
  <2>1. SeenInv(v14)'
    BY <1>1, <1>2, <1>4 DEF SeenInv
  <2>2. BranchInv' /\ VisitInv'
    BY <1>1, <1>2, <1>4 DEF BranchInv, VisitInv
  <2> QED BY <2>1, <2>2
<1>6. OutcomeInv'
  <2>1. v18' \in [Pulls -> {"merged", "closed", None}]
    BY <1>1, <1>2 DEF OutcomeInv
  <2>2. ~v21' => \A n \in Pulls : v18'[n] = None
    BY <1>1, <1>2 DEF OutcomeInv, D!Mine
  <2>3. v21' /\ v23' # None => v18'[v23'.pr] = None
    <3>1. v18'[v23.pr] \in {v18[v23.pr], None}
      BY <1>1, <1>2 DEF OutcomeInv
    <3> QED BY <1>1, <1>2, <3>1 DEF OutcomeInv
  <2>4. ASSUME v21', NEW n \in Pulls
        PROVE  /\ v18'[n] # None <=> OwnWaits(n)' \/ SomeOwn(v26, n)'
               /\ OwnWaits(n)' => ~SomeOwn(v26, n)'
               /\ OneOwn(v26, n)'
    <3>1. v21
      BY <1>2, <2>4
    <3>2. ~OwnWaits(n)' /\ (SomeOwn(v26, n)' <=> SomeOwn(v26, n)) /\ (OneOwn(v26, n)' <=> OneOwn(v26, n))
      <4>1. None \notin Pulls
        BY ConsoleAssumption DEF ConsoleAssumption, O!ToastAssumption
      <4> QED BY <1>2, <1>4, <4>1 DEF OwnWaits, SomeOwn, OneOwn, Own
    <3>3. OwnWaits(n) <=> n = v1 /\ D!Mine(v25)
      BY <1>4, <3>1 DEF OwnWaits, D!Mine
    <3>4. v18'[n] = IF OwnWaits(n) THEN None ELSE v18[n]
      BY <1>1, <1>2, <3>3 DEF OutcomeInv
    <3> QED BY <1>1, <3>1, <3>2, <3>4 DEF OutcomeInv
  <2> QED BY <2>1, <2>2, <2>3, <2>4 DEF OutcomeInv
<1> QED BY <1>3, <1>5, <1>6 DEF ReviewInv

LEMMA ReviewMeanwhile == ReviewInv /\ D!Meanwhile => ReviewInv'
<1> SUFFICES ASSUME ReviewInv, D!Meanwhile PROVE ReviewInv'
  OBVIOUS
<1>1. ReviewToast /\ BranchInv /\ SeenInv(v14) /\ VisitInv /\ OutcomeInv
  BY DEF ReviewInv
<1>2. /\ D!PageHide \/ \E n \in Pulls : D!CommitTimer(n)
      /\ D!Sends /\ UNCHANGED D!authVars
      /\ UNCHANGED <<v14, v15, v17, v18, v20, v21, v22, v23, v24>>
  BY DEF D!Meanwhile, D!PRs, D!pageVars, D!githubVars, D!cache, D!stay, D!dialogs
<1>3. ReviewToast'
  BY <1>1, <1>2, ReviewToastSteps
<1>4. v4 # None /\ v4' = None /\ v6' = D!AtPending(v6, 1)
  <2>1. v5 = {v4} \ {None}
    BY <1>1 DEF ReviewToast, ToastInv, O!WindowIsOwn
  <2> QED BY <1>2, <2>1 DEF D!PageHide, D!CommitTimer, D!Flush
<1>5. v26' = Append(v26, v25)
  BY <1>1, <1>2, <1>4, ReviewSends
<1>6. v25 \in Decision /\ v25.pr = v4 /\ SeenOn(v14, v25.pr, v25.head, v25.keep) /\ v25.visit <= v22
  BY <1>1, <1>4 DEF SeenInv, VisitInv
<1>7. /\ v26' \in Seq(Decision) /\ Len(v26) \in Nat /\ Len(v26') = Len(v26) + 1
      /\ v26'[Len(v26) + 1] = v25 /\ \A k \in 1..Len(v26) : v26'[k] = v26[k]
  BY <1>1, <1>5, <1>6, AppendProperties DEF SeenInv
<1>8. SeenInv(v14)' /\ BranchInv' /\ VisitInv'
  <2>1. SeenInv(v14)'
    BY <1>1, <1>2, <1>4, <1>6, <1>7 DEF SeenInv
  <2>2. BranchInv'
    BY <1>1, <1>2 DEF BranchInv
  <2>3. VisitInv'
    BY <1>1, <1>2, <1>4, <1>6, <1>7 DEF VisitInv
  <2> QED BY <2>1, <2>2, <2>3
<1>9. OutcomeInv'
  <2>1. ASSUME v21', NEW n \in Pulls
        PROVE  /\ v18'[n] # None <=> OwnWaits(n)' \/ SomeOwn(v26, n)'
               /\ OwnWaits(n)' => ~SomeOwn(v26, n)'
               /\ OneOwn(v26, n)'
    <3>1. v21
      BY <1>2, <2>1
    <3>2. ~OwnWaits(n)' /\ (SomeOwn(v26, n)' <=> SomeOwn(v26', n)) /\ (OneOwn(v26, n)' <=> OneOwn(v26', n))
      <4>1. None \notin Pulls
        BY ConsoleAssumption DEF ConsoleAssumption, O!ToastAssumption
      <4> QED BY <1>2, <1>4, <4>1 DEF OwnWaits, SomeOwn, OneOwn, Own
    <3>3. (SomeOwn(v26', n) <=> OwnWaits(n) \/ SomeOwn(v26, n)) /\ OneOwn(v26', n)
      BY <1>1, <1>4, <1>5, <1>6, <3>1, OwnMoved DEF OutcomeInv, SeenInv
    <3> QED BY <1>1, <1>2, <3>1, <3>2, <3>3 DEF OutcomeInv
  <2> QED BY <1>1, <1>2, <2>1 DEF OutcomeInv
<1> QED BY <1>3, <1>8, <1>9 DEF ReviewInv

LEMMA SameToast ==
  ReviewToast /\ UNCHANGED D!deskVars => ReviewToast'
BY DEF ReviewToast, ToastInv, O!ToastTypeOK, O!SentOrUndone, O!WindowIsOwn,
       D!deskVars, D!toastVars, D!authVars

LEMMA ReviewStay ==
  ASSUME ReviewInv, D!Leave \/ D!Return
  PROVE  ReviewInv'
<1>1. ReviewToast /\ BranchInv /\ SeenInv(v14) /\ VisitInv /\ OutcomeInv
  BY DEF ReviewInv
<1>2. /\ UNCHANGED D!deskVars /\ UNCHANGED <<v4, v14, v15, v17, v20, v23, v24, v25, v26>>
      /\ \/ v21 /\ v21' = FALSE /\ v18' = [n \in Pulls |-> None] /\ v22' = v22
         \/ ~v21 /\ v21' = TRUE /\ v18' = v18 /\ v22' = v22 + 1
  BY DEF D!Leave, D!Return, D!deskVars, D!toastVars, D!githubVars, D!cache, D!dialogs, D!requests, D!PRs
<1>3. SeenInv(v14)' /\ BranchInv' /\ VisitInv' /\ ReviewToast'
  <2>1. SeenInv(v14)'
    BY <1>1, <1>2 DEF SeenInv
  <2>2. BranchInv'
    BY <1>1, <1>2 DEF BranchInv
  <2>3. v22 \in Nat /\ v22' \in {v22, v22 + 1} /\ v21' \in BOOLEAN
    BY <1>1, <1>2 DEF VisitInv
  <2>4. (v4 # None => v25.visit \in Nat) /\ \A k \in 1..Len(v26) : v26[k].visit \in Nat
    <3>1. \A k \in 1..Len(v26) : v26[k] \in Decision
      BY <1>1, ElementOfSeq DEF SeenInv
    <3> QED BY <1>1, <3>1 DEF SeenInv, Decision
  <2>5. VisitInv'
    BY <1>1, <1>2, <2>3, <2>4 DEF VisitInv
  <2> QED BY <1>1, <1>2, <2>1, <2>2, <2>5, SameToast
<1>4. OutcomeInv'
  <2>1. CASE v21'
    <3>1. ~v21 /\ v18' = v18 /\ v22' = v22 + 1 /\ \A n \in Pulls : v18[n] = None
      BY <1>1, <1>2, <2>1 DEF OutcomeInv
    <3>2. (v4 # None => v25.visit # v22') /\ \A k \in 1..Len(v26) : v26[k].visit # v22'
      <4>1. (v4 # None => v25.visit \in Nat) /\ \A k \in 1..Len(v26) : v26[k].visit \in Nat
        <5>1. \A k \in 1..Len(v26) : v26[k] \in Decision
          BY <1>1, ElementOfSeq DEF SeenInv
        <5> QED BY <1>1, <5>1 DEF SeenInv, Decision
      <4> QED BY <1>1, <3>1, <4>1 DEF VisitInv
    <3>3. \A n \in Pulls : ~OwnWaits(n)' /\ \A k \in 1..Len(v26') : ~Own(v26, n, k)'
      <4>1. None \notin Pulls
        BY ConsoleAssumption DEF ConsoleAssumption, O!ToastAssumption
      <4> QED BY <1>2, <3>2, <4>1 DEF OwnWaits, Own
    <3>4. \A n \in Pulls : ~SomeOwn(v26, n)' /\ OneOwn(v26, n)'
      BY <3>3 DEF SomeOwn, OneOwn
    <3>5. v23' # None => v23'.pr \in Pulls
      BY <1>1, <1>2 DEF SeenInv
    <3> QED BY <1>1, <2>1, <3>1, <3>3, <3>4, <3>5 DEF OutcomeInv
  <2>2. CASE ~v21'
    BY <1>1, <1>2, <2>2 DEF OutcomeInv
  <2> QED BY <2>1, <2>2
<1> QED BY <1>3, <1>4 DEF ReviewInv

\* Nothing was decided, sent or answered.
LEMMA ReviewQuiet ==
  ASSUME ReviewInv, UNCHANGED D!deskVars, Grows, BranchInv',
         UNCHANGED <<v18, v21, v22, v25, v26>>,
         v20' \in Pulls, v23' \in {v23, None},
         DOMAIN v17' = Pulls /\ \A n \in Pulls : v17'[n] # None => v17'[n].head \in 1..Len(v14'[n]),
         v24' # v24 => v24'.pr \in Pulls /\ SeenOn(v14', v24'.pr, v24'.head, v24'.keep)
  PROVE  ReviewInv'
<1>1. ReviewToast /\ BranchInv /\ SeenInv(v14) /\ VisitInv /\ OutcomeInv
  BY DEF ReviewInv
<1>2. v4' = v4
  BY DEF D!deskVars, D!toastVars
<1>3. SeenInv(v14')
  BY <1>1, GrowsSeenInv
<1>4. SeenInv(v14)'
  BY <1>2, <1>3 DEF SeenInv
<1>5. VisitInv' /\ OutcomeInv'
  BY <1>1, <1>2, SameOutcome DEF VisitInv
<1> QED BY <1>1, <1>4, <1>5, SameToast DEF ReviewInv

LEMMA ReviewReads ==
  ASSUME ReviewInv, D!ReadList \/ (\E n \in Pulls : D!ReadDetail(n) \/ D!Select(n) \/ D!Elsewhere(n))
                      \/ D!Cancel \/ \E n \in Pulls, i \in 1..D!Cardinality(Entries) : D!Toggle(n, i)
  PROVE  ReviewInv'
<1>1. BranchInv /\ SeenInv(v14)
  BY DEF ReviewInv
<1>2. /\ UNCHANGED D!deskVars /\ UNCHANGED <<v14, v15, v18, v21, v22, v24, v25, v26>>
      /\ v20' \in Pulls /\ v23' \in {v23, None}
      /\ v17' = v17 \/ \E n \in Pulls : v17' = [v17 EXCEPT ![n] = D!View(n)]
  BY <1>1 DEF SeenInv, D!ReadList, D!ReadDetail, D!Select, D!Elsewhere, D!Cancel, D!Toggle,
        D!githubVars, D!cache, D!stay, D!dialogs, D!requests, D!pageVars
<1>3. Grows /\ BranchInv'
  BY <1>1, <1>2, SameGrows, BranchGrown
<1>4. DOMAIN v17' = Pulls /\ \A n \in Pulls : v17'[n] # None => v17'[n].head \in 1..Len(v14'[n])
  <2>1. \A n \in Pulls : D!View(n).head \in 1..Len(v14[n])
    BY <1>1, BranchLen DEF D!View
  <2> QED BY <1>1, <1>2, <2>1 DEF SeenInv
<1>5. UNCHANGED <<v18, v21, v22, v25, v26>> /\ v24' = v24 /\ v20' \in Pulls /\ v23' \in {v23, None}
  BY <1>2
<1>6. UNCHANGED D!deskVars
  BY <1>2
<1> QED BY <1>3, <1>4, <1>5, <1>6, ReviewQuiet

LEMMA ReviewPush ==
  ASSUME ReviewInv, NEW n \in Pulls, NEW e \in Entries, D!Push(n, e)
  PROVE  ReviewInv'
<1>1. BranchInv /\ SeenInv(v14)
  BY DEF ReviewInv
<1>2. /\ UNCHANGED D!deskVars /\ UNCHANGED <<v15, v17, v18, v20, v21, v22, v23, v24, v25, v26>>
      /\ v14' = [v14 EXCEPT ![n] = Append(@, Append(D!Last(@), e))]
  BY DEF D!Push, D!pageVars, D!cache, D!stay, D!dialogs, D!requests
<1>3. Append(D!Last(v14[n]), e) \in Seq(Entries)
  <2>1. D!Last(v14[n]) \in Seq(Entries)
    BY <1>1, BranchLen DEF D!Last
  <2> QED BY <2>1, AppendProperties
<1>4. Grows /\ BranchInv'
  <2>1. v14' = [v14 EXCEPT ![n] = Append(@, Append(D!Last(v14[n]), e))]
    BY <1>1, <1>2 DEF BranchInv
  <2>2. Grows
    BY <1>1, <1>3, <2>1, AppendGrows
  <2> QED BY <1>1, <1>2, <2>2, BranchGrown
<1>5. SeenInv(v14')
  BY <1>1, <1>4, GrowsSeenInv
<1>6. UNCHANGED <<v18, v21, v22, v25, v26>> /\ v24' = v24 /\ v20' \in Pulls /\ v23' \in {v23, None}
  BY <1>1, <1>2 DEF SeenInv
<1>7. DOMAIN v17' = Pulls /\ \A m \in Pulls : v17'[m] # None => v17'[m].head \in 1..Len(v14'[m])
  BY <1>2, <1>5 DEF SeenInv
<1>8. UNCHANGED D!deskVars
  BY <1>2
<1> QED BY <1>4, <1>6, <1>7, <1>8, ReviewQuiet

\* What a click starts is about the head the detail shows.
LEMMA ReviewClicks ==
  ASSUME ReviewInv, NEW n \in Pulls, D!Approve(n) \/ D!AskReject(n) \/ D!Trim(n)
  PROVE  ReviewInv'
<1>1. ReviewToast /\ BranchInv /\ SeenInv(v14) /\ VisitInv /\ OutcomeInv
  BY DEF ReviewInv
<1>2. v21 /\ v23 = None /\ v17[n] # None /\ v18[n] = None
  <2>1. v21 /\ v23 = None /\ D!IsOpen(n)
    BY DEF D!Approve, D!AskReject, D!Trim, D!CanWrite
  <2>2. v18[n] \in {"merged", "closed", None}
    BY <1>1 DEF OutcomeInv
  <2> QED BY <2>1, <2>2, StateAssumption DEF D!IsOpen, D!Shown
<1>3. SeenOn(v14, n, v17[n].head, D!Keep(n)) /\ SeenOn(v14, n, v17[n].head, {})
  BY <1>1, <1>2 DEF SeenInv, SeenOn, D!Keep, D!Indexes
<1>4. CASE D!Approve(n)
  <2>1. D!Delayed(n, "merged", D!Keep(n), v17[n].head) /\ v23' = None
    BY <1>2, <1>4 DEF D!Approve
  <2> QED BY <1>2, <1>3, <2>1, ReviewDelayed
<1>5. CASE D!AskReject(n)
  <2>1. /\ v23' = [pr |-> n, head |-> v17[n].head] /\ UNCHANGED D!deskVars
        /\ UNCHANGED <<v4, v14, v15, v17, v18, v20, v21, v22, v24, v25, v26>>
    BY <1>5 DEF D!AskReject, D!deskVars, D!toastVars, D!githubVars, D!cache, D!stay, D!requests
  <2>2. v23'.pr = n /\ v23'.head = v17[n].head
    BY <2>1
  <2>3. SeenInv(v14)'
    BY <1>1, <1>3, <2>1, <2>2 DEF SeenInv, SeenOn
  <2>4. BranchInv' /\ VisitInv' /\ ReviewToast'
    BY <1>1, <2>1, SameToast DEF BranchInv, VisitInv
  <2>5. OutcomeInv'
    BY <1>1, <1>2, <2>1, <2>2 DEF OutcomeInv, OwnWaits, SomeOwn, OneOwn, Own
  <2> QED BY <2>3, <2>4, <2>5 DEF ReviewInv
<1>6. CASE D!Trim(n)
  <2>1. /\ v24' = [pr |-> n, keep |-> D!Keep(n), head |-> v17[n].head, visit |-> v22]
        /\ UNCHANGED D!deskVars
        /\ UNCHANGED <<v14, v15, v17, v18, v20, v21, v22, v23, v25, v26>>
    BY <1>6 DEF D!Trim, D!githubVars, D!cache, D!stay, D!requests
  <2>2. v24'.pr = n /\ v24'.keep = D!Keep(n) /\ v24'.head = v17[n].head
    BY <2>1
  <2>3. Grows /\ BranchInv'
    BY <1>1, <2>1, SameGrows, BranchGrown
  <2>4. v20' \in Pulls /\ DOMAIN v17' = Pulls
        /\ \A m \in Pulls : v17'[m] # None => v17'[m].head \in 1..Len(v14'[m])
    BY <1>1, <2>1 DEF SeenInv
  <2>5. SeenOn(v14', v24'.pr, v24'.head, v24'.keep)
    BY <1>3, <2>1, <2>2
  <2> QED BY <2>1, <2>2, <2>3, <2>4, <2>5, ReviewQuiet
<1> QED BY <1>4, <1>5, <1>6

LEMMA ReviewReject == ReviewInv /\ D!Reject => ReviewInv'
<1> SUFFICES ASSUME ReviewInv, D!Reject PROVE ReviewInv'
  OBVIOUS
<1>1. /\ D!Delayed(v23.pr, "closed", {}, v23.head) /\ v23 # None /\ v23' = None
  BY DEF D!Reject
<1>2. /\ v23.pr \in Pulls /\ SeenOn(v14, v23.pr, v23.head, {})
      /\ v21 => v18[v23.pr] = None
  BY <1>1 DEF ReviewInv, SeenInv, SeenOn, OutcomeInv
<1>3. "closed" \in {"merged", "closed"}
  OBVIOUS
<1>4. \A next \in {"merged", "closed"} :
        D!Delayed(v23.pr, next, {}, v23.head) => ReviewInv'
  BY <1>1, <1>2, ReviewDelayed
<1> QED BY <1>1, <1>3, <1>4

LEMMA ReviewStep == ReviewInv /\ D!ReviewNext => ReviewInv'
<1> SUFFICES ASSUME ReviewInv, D!ReviewNext PROVE ReviewInv'
  OBVIOUS
<1>1. CASE D!Reject \/ D!Undo \/ D!Leave \/ D!Return \/ D!Meanwhile
  BY <1>1, ReviewReject, ReviewUndo, ReviewStay, ReviewMeanwhile
<1>2. CASE D!ReadList \/ (\E n \in Pulls : D!ReadDetail(n) \/ D!Select(n) \/ D!Elsewhere(n))
             \/ D!Cancel \/ \E n \in Pulls, i \in 1..D!Cardinality(Entries) : D!Toggle(n, i)
  BY <1>2, ReviewReads
<1>3. CASE \E n \in Pulls : D!Approve(n) \/ D!AskReject(n) \/ D!Trim(n)
  BY <1>3, ReviewClicks
<1>4. CASE \E n \in Pulls, e \in Entries : D!Push(n, e)
  BY <1>4, ReviewPush
<1>5. CASE \E k \in DOMAIN v26, ok \in BOOLEAN : D!Decided(k, ok)
  BY <1>5, ReviewDecided
<1>6. CASE \E ok \in BOOLEAN : D!TrimAnswered(ok)
  BY <1>6, ReviewTrimmed
<1> QED BY <1>1, <1>2, <1>3, <1>4, <1>5, <1>6 DEF D!ReviewNext, D!PRs

LEMMA ReviewStarts == D!ReviewInit => ReviewInv
<1> SUFFICES ASSUME D!ReviewInit PROVE ReviewInv
  OBVIOUS
<1>1. D!ToastInit
  BY DEF D!ReviewInit
<1>2. O!ToastInit /\ v7 = {} /\ v1 = None /\ v4 = None
  BY <1>1 DEF D!ToastInit, O!ToastInit
<1>3. ReviewToast
  BY <1>2, ToastInit DEF ReviewToast
<1>4. /\ v14 \in [Pulls -> {<< <<e>> >> : e \in Entries}] /\ v15 = {} /\ v21 = TRUE /\ v22 = 1
      /\ v17 = [n \in Pulls |-> None] /\ v18 = [n \in Pulls |-> None] /\ v20 \in Pulls
      /\ v23 = None /\ v24 = None /\ v26 = <<>>
  BY DEF D!ReviewInit, D!PRs
<1>5. v26 \in Seq(Decision) /\ Len(v26) = 0
  BY <1>4, EmptySeq
<1>6. BranchInv
  <2> DEFINE first(e) == << <<e>> >>
  <2>1. \A e \in Entries : first(e) \in Seq(Seq(Entries)) /\ Len(first(e)) = 1
    OBVIOUS
  <2>2. v14 \in [Pulls -> {first(e) : e \in Entries}]
    BY <1>4
  <2> HIDE DEF first
  <2>3. ASSUME NEW n \in Pulls PROVE v14[n] \in Seq(Seq(Entries)) /\ Len(v14[n]) = 1
    <3>1. v14[n] \in {first(e) : e \in Entries}
      BY <2>2
    <3>2. PICK e \in Entries : v14[n] = first(e)
      BY <3>1
    <3>3. first(e) \in Seq(Seq(Entries)) /\ Len(first(e)) = 1
      BY <2>1
    <3> QED BY <3>2, <3>3
  <2>4. v14 \in [Pulls -> Seq(Seq(Entries))]
    BY <2>2, <2>3
  <2>5. v15 = {}
    BY <1>4
  <2>6. \A n \in Pulls : Len(v14[n]) >= 1
    BY <2>3
  <2>7. \A m \in v15 :
          /\ m.pr \in Pulls /\ SeenOn(v14, m.pr, m.head, m.keep)
          /\ D!ToSet(m.result) = {v14[m.pr][m.head][i] : i \in m.keep}
    BY <2>5
  <2> QED BY <2>4, <2>6, <2>7 DEF BranchInv
<1>7. SeenInv(v14) /\ VisitInv
  BY <1>2, <1>4, <1>5 DEF SeenInv, VisitInv
<1>8. OutcomeInv
  <2>1. None \notin Pulls
    BY ConsoleAssumption DEF ConsoleAssumption, O!ToastAssumption
  <2>2. \A n \in Pulls : ~OwnWaits(n) /\ ~SomeOwn(v26, n) /\ OneOwn(v26, n)
    BY <1>2, <1>5, <2>1 DEF OwnWaits, SomeOwn, OneOwn
  <2> QED BY <1>4, <2>2 DEF OutcomeInv
<1> QED BY <1>3, <1>6, <1>7, <1>8 DEF ReviewInv

LEMMA ReviewToasts ==
  ReviewInv => D!ToastTypeOK /\ D!SentOrUndone /\ D!WindowIsOwn
BY DEF ReviewInv, ReviewToast, ToastInv, O!ToastTypeOK, O!SentOrUndone, O!WindowIsOwn,
       D!ToastTypeOK, D!SentOrUndone, D!WindowIsOwn

LEMMA ReviewMerges == ReviewInv => D!MergedAsReviewed
BY DEF ReviewInv, BranchInv, D!MergedAsReviewed

LEMMA ReviewShows == ReviewInv => D!ShownIsPending
<1> SUFFICES ASSUME ReviewInv, v21, NEW n \in Pulls, v18[n] # None
             PROVE  \/ v4 = n /\ D!Mine(v25)
                    \/ \E k \in DOMAIN v26 : v26[k].pr = n /\ D!Mine(v26[k])
  BY DEF D!ShownIsPending, D!PRs
<1>1. OwnWaits(n) \/ SomeOwn(v26, n)
  BY DEF ReviewInv, OutcomeInv
<1>2. DOMAIN v26 = 1..Len(v26)
  BY DEF ReviewInv, SeenInv
<1> QED BY <1>1, <1>2 DEF OwnWaits, SomeOwn, Own, D!Mine

LEMMA ReviewDecides == ReviewInv => D!OneDecisionPerVisit
<1> SUFFICES ASSUME ReviewInv, v21, NEW n \in Pulls
             PROVE  D!Cardinality({k \in DOMAIN v26 : v26[k].pr = n /\ D!Mine(v26[k])})
                      + (IF v4 = n /\ D!Mine(v25) THEN 1 ELSE 0) <= 1
  BY DEF D!OneDecisionPerVisit, D!PRs
<1> DEFINE own == {k \in DOMAIN v26 : v26[k].pr = n /\ D!Mine(v26[k])}
<1>1. own = {k \in 1..Len(v26) : Own(v26, n, k)} /\ (v4 = n /\ D!Mine(v25) <=> OwnWaits(n))
  BY DEF ReviewInv, SeenInv, Own, OwnWaits, D!Mine
<1>2. OneOwn(v26, n) /\ (OwnWaits(n) => ~SomeOwn(v26, n))
  BY DEF ReviewInv, OutcomeInv
<1>3. CASE SomeOwn(v26, n)
  <2>1. PICK k \in 1..Len(v26) : Own(v26, n, k)
    BY <1>3 DEF SomeOwn
  <2>2. own = {k}
    BY <1>1, <1>2, <2>1 DEF OneOwn
  <2>3. D!Cardinality(own) = 1
    BY <2>2, SameCount, FS_Singleton
  <2> QED BY <1>1, <1>2, <1>3, <2>3
<1>4. CASE ~SomeOwn(v26, n)
  <2>1. own = {}
    BY <1>1, <1>4 DEF SomeOwn
  <2>2. D!Cardinality(own) = 0
    BY <2>1, SameCount, FS_EmptySet
  <2> QED BY <2>2
<1> QED BY <1>3, <1>4

-----------------------------------------------------------------------------
\* The crash groups: their toasts again, with an issue as the delayed decision.
CrashInv == K!ToastTypeOK /\ K!SentOrUndone /\ K!WindowIsOwn

LEMMA CrashInit == K!ToastInit => CrashInv
<1> SUFFICES ASSUME K!ToastInit PROVE CrashInv
  OBVIOUS
<1>1. None \notin {Issue}
  BY ConsoleAssumption DEF ConsoleAssumption, K!ToastAssumption
<1>2. v6 \in [{Issue} -> Nat] /\ v8 \in [{Issue} -> Int] /\ K!SentOrUndone
  BY <1>1 DEF K!ToastInit, K!SentOrUndone
<1>3. K!WindowIsOwn
  BY <1>1 DEF K!ToastInit, K!WindowIsOwn
<1>4. K!ToastTypeOK
  BY <1>2 DEF K!ToastInit, K!ToastTypeOK
<1> QED BY <1>2, <1>3, <1>4 DEF CrashInv

\* The requests and debts after what waits is sent.
LEMMA CrashSent ==
  ASSUME CrashInv
  PROVE  /\ K!AtPending(v6, 1) \in [{Issue} -> Nat] /\ K!AtPending(v8, -1) \in [{Issue} -> Int]
         /\ \A a \in {Issue} : K!AtPending(v8, -1)[a] = 0
BY ConsoleAssumption
DEF ConsoleAssumption, K!ToastAssumption, CrashInv, K!ToastTypeOK, K!SentOrUndone, K!AtPending

LEMMA CrashFlush ==
  ASSUME CrashInv, K!Flush
  PROVE  /\ v4' = None /\ v5' = {} /\ v6' \in [{Issue} -> Nat] /\ v8' \in [{Issue} -> Int]
         /\ \A a \in {Issue} : v8'[a] = 0
BY ConsoleAssumption, CrashSent
DEF ConsoleAssumption, K!ToastAssumption, K!Flush, CrashInv, K!WindowIsOwn

LEMMA CrashPlain ==
  ASSUME CrashInv, K!Plain, UNCHANGED v4
  PROVE  /\ v1' \in {Issue} \cup ({StatusChange} \cup OtherChanges) \cup {"text", None}
         /\ v2' \in BOOLEAN /\ v3' \in BOOLEAN
         /\ v4 # None => v1' = v4
         /\ (v2' /\ v1' \in {Issue}) => v4 = v1'
<1>1. v2 \in BOOLEAN /\ v3 \in BOOLEAN
  BY DEF CrashInv, K!ToastTypeOK
<1>2. CASE v4 = None
  <2>1. v2' = TRUE /\ v3' = v3
    BY <1>2 DEF K!Plain
  <2>2. v1' \notin {Issue} /\ v1' \in {"text"}
    BY <1>2, ConsoleAssumption DEF ConsoleAssumption, K!Plain, K!ToastAssumption
  <2> QED BY <1>1, <1>2, <2>1, <2>2
<1>3. CASE v4 # None
  <2>1. v1' = v1 /\ v2' = v2 /\ v3' = TRUE
    BY <1>3 DEF K!Plain
  <2>2. v1' \in {Issue} \cup ({StatusChange} \cup OtherChanges) \cup {"text", None}
    BY <2>1 DEF CrashInv, K!ToastTypeOK
  <2> QED BY <1>1, <1>3, <2>1, <2>2 DEF CrashInv, K!WindowIsOwn
<1> QED BY <1>2, <1>3

USE ConsoleAssumption DEF ConsoleAssumption, CrashInv, K!ToastTypeOK, K!SentOrUndone, K!WindowIsOwn, K!ToastAssumption

LEMMA CrashDecide ==
  ASSUME CrashInv, NEW a \in {Issue}, K!Decide(a), UNCHANGED K!authVars
  PROVE  CrashInv'
BY ConsoleAssumption, CrashSent DEF ConsoleAssumption, K!Decide, K!authVars

LEMMA CrashOffer ==
  ASSUME CrashInv, NEW u \in {StatusChange} \cup OtherChanges, K!Offer(u), UNCHANGED K!authVars
  PROVE  CrashInv'
BY ConsoleAssumption, CrashFlush DEF ConsoleAssumption, K!Offer, K!authVars

LEMMA CrashMessages ==
  ASSUME CrashInv, UNCHANGED K!authVars,
         K!Say \/ K!Hide \/ K!HideNotice \/ K!UndoAction
           \/ \E u \in {StatusChange} \cup OtherChanges : K!Reversed(u)
  PROVE  CrashInv'
<1>1. CASE K!Say \/ \E u \in {StatusChange} \cup OtherChanges : K!Reversed(u)
  <2>1. K!Plain /\ UNCHANGED <<v4, v5, v6, v8>> /\ v7' \subseteq v7
    BY <1>1 DEF K!Say, K!Reversed
  <2>2. K!SentOrUndone' /\ K!WindowIsOwn'
    BY <2>1, CrashPlain
  <2>3. K!ToastTypeOK'
    BY <2>1, CrashPlain DEF K!authVars
  <2> QED BY <2>2, <2>3
<1>2. CASE K!Hide \/ K!HideNotice \/ K!UndoAction
  <2>1. UNCHANGED <<v1, v4, v5, v6, v8>>
    BY <1>2 DEF K!Hide, K!HideNotice, K!UndoAction
  <2>2. v2' \in {v2, FALSE} /\ v3' \in {v3, FALSE} /\ v7' \subseteq {StatusChange} \cup OtherChanges
    BY <1>2 DEF K!Hide, K!HideNotice, K!UndoAction
  <2>3. K!SentOrUndone' /\ K!WindowIsOwn'
    <3>1. v2' => v2
      BY <1>2 DEF K!Hide, K!HideNotice, K!UndoAction
    <3> QED BY <2>1, <3>1
  <2>4. K!ToastTypeOK'
    BY <2>1, <2>2 DEF K!authVars
  <2> QED BY <2>3, <2>4
<1> QED BY <1>1, <1>2

LEMMA CrashTimers ==
  ASSUME CrashInv, UNCHANGED K!authVars,
         K!PageHide \/ \E a \in {Issue} : K!CommitTimer(a)
  PROVE  CrashInv'
<1>1. CASE K!PageHide
  BY <1>1, ConsoleAssumption, CrashFlush DEF ConsoleAssumption, K!PageHide, K!authVars
<1>2. ASSUME NEW a \in {Issue}, K!CommitTimer(a) PROVE CrashInv'
  BY <1>2, ConsoleAssumption, CrashSent DEF ConsoleAssumption, K!CommitTimer, K!authVars
<1> QED BY <1>1, <1>2

LEMMA CrashUndo ==
  ASSUME CrashInv, UNCHANGED K!authVars, K!UndoDecision
  PROVE  CrashInv'
<1>1. /\ v4 = v1 /\ v1 \in {Issue} /\ v8' = [v8 EXCEPT ![v1] = @ - 1]
      /\ v4' = None /\ v5' = v5 \ {v1} /\ v1' = "text" /\ v2' = TRUE
      /\ UNCHANGED <<v3, v6, v7>>
  BY DEF K!UndoDecision
<1>2. K!WindowIsOwn'
  BY <1>1
<1>3. v8' \in [{Issue} -> Int] /\ K!SentOrUndone'
  BY <1>1
<1>4. K!ToastTypeOK'
  BY <1>1, <1>3 DEF K!authVars
<1> QED BY <1>2, <1>3, <1>4

LEMMA CrashAnswer ==
  ASSUME CrashInv, NEW a \in {Issue}, NEW ok \in BOOLEAN, K!Answered(a, ok), UNCHANGED <<v9, v11>>,
         v10' \in BOOLEAN, v12' \in {Issue} \cup {None}
  PROVE  CrashInv'
BY ConsoleAssumption, CrashPlain DEF ConsoleAssumption, K!Answered

HIDE ConsoleAssumption DEF ConsoleAssumption, CrashInv, K!ToastTypeOK, K!SentOrUndone,
  K!WindowIsOwn, K!ToastAssumption

\* The desk's change of status is one of its undoable actions.
LEMMA CrashToastStep ==
  ASSUME CrashInv, UNCHANGED K!authVars,
         \/ K!PageHide \/ K!Hide \/ K!UndoDecision \/ K!UndoAction
         \/ K!Decide(Issue) \/ K!CommitTimer(Issue) \/ K!Reversed(StatusChange)
         \/ \E ok \in BOOLEAN : K!Answered(Issue, ok)
         \/ \E u \in {StatusChange} \cup OtherChanges : K!Offer(u)
         \/ K!Plain /\ UNCHANGED <<v4, v5, v6, v7, v8>>
  PROVE  CrashInv'
<1>1. UNCHANGED <<v9, v10, v11, v12>>
  BY DEF K!authVars
<1>2. v10 \in BOOLEAN /\ v12 \in {Issue} \cup {None}
  BY DEF CrashInv, K!ToastTypeOK
<1>3. CASE \E ok \in BOOLEAN : K!Answered(Issue, ok)
  BY <1>1, <1>2, <1>3, CrashAnswer
<1>4. CASE K!Plain /\ UNCHANGED <<v4, v5, v6, v7, v8>>
  <2>1. K!SentOrUndone' /\ K!WindowIsOwn'
    BY <1>4, CrashPlain DEF CrashInv, K!SentOrUndone, K!WindowIsOwn
  <2>2. K!ToastTypeOK'
    BY <1>1, <1>4, CrashPlain DEF CrashInv, K!ToastTypeOK
  <2> QED BY <2>1, <2>2 DEF CrashInv
<1>5. CASE K!Decide(Issue)
  BY <1>5, CrashDecide
<1>6. CASE K!UndoDecision
  BY <1>6, CrashUndo
<1>7. CASE K!PageHide \/ K!CommitTimer(Issue)
  BY <1>7, CrashTimers
<1>8. CASE K!Hide \/ K!UndoAction \/ K!Reversed(StatusChange)
  BY <1>8, CrashMessages
<1>9. CASE \E u \in {StatusChange} \cup OtherChanges : K!Offer(u)
  BY <1>9, CrashOffer
<1> QED BY <1>3, <1>4, <1>5, <1>6, <1>7, <1>8, <1>9

-----------------------------------------------------------------------------
CrashTypeOK ==
  /\ v14 \in BOOLEAN /\ v15 \in Nat /\ v16 \in BOOLEAN
  /\ v20 \in Seq([to : {"open", "known", "fixed"}, visit : Nat]) /\ v23 \in Nat
  /\ v24 \in Seq(Nat)

\* A group without a recorded issue has none, unless one was lost.
OpenedInv == ~v16 => v15 <= 1 /\ (~v14 => v15 = 0)

\* A change or an issue of this visit is still to be answered.
ChangeOwn == \E k \in 1..Len(v20) : K!Mine(v20[k].visit)
IssueOwn == \E k \in 1..Len(v24) : K!Mine(v24[k])
CrashShown == v18 # None => ChangeOwn \/ IssueOwn

DeskInv == CrashInv /\ CrashTypeOK /\ OpenedInv /\ CrashShown

CrashChange == [to : {"open", "known", "fixed"}, visit : Nat]

LEMMA CrashOpens ==
  ASSUME CrashTypeOK, OpenedInv, K!OpensIssue
  PROVE  OpenedInv' /\ v14' \in BOOLEAN /\ v15' \in Nat /\ v16' \in BOOLEAN
<1>1. ~v14 /\ v15' = v15 + 1 /\ v15 \in Nat /\ v14 \in BOOLEAN /\ v16 \in BOOLEAN
  BY DEF CrashTypeOK, K!OpensIssue
<1>2. CASE v14' = TRUE /\ UNCHANGED v16
  BY <1>1, <1>2 DEF OpenedInv
<1>3. CASE v16' = TRUE /\ UNCHANGED v14
  BY <1>1, <1>3 DEF OpenedInv
<1> QED BY <1>2, <1>3 DEF K!OpensIssue

\* The first element removed was not this visit's, or nothing is shown.
LEMMA ChangeAnswered ==
  ASSUME CrashTypeOK, NEW k \in 1..Len(v20), v20' = Without(v20, k), UNCHANGED <<v22, v23>>,
         ChangeOwn, ~K!Mine(v20[k].visit)
  PROVE  ChangeOwn'
<1>1. PICK j \in 1..Len(v20) : K!Mine(v20[j].visit)
  BY DEF ChangeOwn
<1>2. v20 \in Seq(CrashChange) /\ j # k
  BY <1>1 DEF CrashTypeOK, CrashChange
<1>3. PICK i \in 1..Len(Without(v20, k)) : Without(v20, k)[i] = v20[j]
  BY <1>2, WithoutKeeps
<1> QED BY <1>1, <1>3 DEF ChangeOwn, K!Mine

LEMMA IssueGone ==
  ASSUME CrashTypeOK, NEW k \in 1..Len(v24), v24' = Without(v24, k), UNCHANGED <<v22, v23>>,
         IssueOwn, ~K!Mine(v24[k])
  PROVE  IssueOwn'
<1>1. PICK j \in 1..Len(v24) : K!Mine(v24[j])
  BY DEF IssueOwn
<1>2. v24 \in Seq(Nat) /\ j # k
  BY <1>1 DEF CrashTypeOK
<1>3. PICK i \in 1..Len(Without(v24, k)) : Without(v24, k)[i] = v24[j]
  BY <1>2, WithoutKeeps
<1> QED BY <1>1, <1>3 DEF IssueOwn, K!Mine

LEMMA FrontIsWithout ==
  ASSUME NEW s \in Seq(Nat)
  PROVE  /\ K!Front(s) \in Seq(Nat)
         /\ s # <<>> => Len(s) \in 1..Len(s) /\ K!Front(s) = Without(s, Len(s)) /\ K!Last(s) = s[Len(s)]
<1>1. Len(s) \in Nat /\ \A i \in 1..Len(s) : s[i] \in Nat
  BY ElementOfSeq
<1>2. K!Front(s) = SubSeq(s, 1, Len(s) - 1) /\ K!Last(s) = s[Len(s)]
  BY DEF K!Front, K!Last
<1>3. SubSeq(s, 1, Len(s) - 1) \in Seq(Nat)
  <2>1. \A i \in 1..Len(s) - 1 : s[i] \in Nat
    BY <1>1
  <2> QED BY <1>1, <2>1, SubSeqProperties
<1>4. ASSUME s # <<>>
      PROVE  Len(s) \in 1..Len(s) /\ K!Front(s) = Without(s, Len(s))
  <2>1. Len(s) \in 1..Len(s)
    BY <1>1, <1>4, EmptySeq
  <2>2. SubSeq(s, Len(s) + 1, Len(s)) = <<>>
    BY <1>1, SubSeqEmpty
  <2>3. SubSeq(s, 1, Len(s) - 1) \o <<>> = SubSeq(s, 1, Len(s) - 1)
    BY <1>3, ConcatEmptySeq
  <2> QED BY <1>2, <2>1, <2>2, <2>3 DEF Without
<1> QED BY <1>2, <1>3, <1>4

-----------------------------------------------------------------------------
LEMMA DeskStarts == K!DeskInit => DeskInv
<1> SUFFICES ASSUME K!DeskInit PROVE DeskInv
  OBVIOUS
<1>1. K!ToastInit /\ v14 = FALSE /\ v15 = 0 /\ v16 = FALSE /\ v18 = None
      /\ v20 = <<>> /\ v23 = 1 /\ v24 = <<>>
  BY DEF K!DeskInit
<1>2. CrashTypeOK
  BY <1>1, EmptySeq DEF CrashTypeOK
<1> QED BY <1>1, <1>2, CrashInit DEF DeskInv, OpenedInv, CrashShown

LEMMA DeskChanges ==
  ASSUME DeskInv,
         \/ \E to \in {"open", "known", "fixed"} : K!SetStatus(to)
         \/ \E k \in DOMAIN v20, ok \in BOOLEAN : K!StatusChanged(k, ok)
  PROVE  DeskInv'
<1>1. CrashInv /\ CrashTypeOK /\ OpenedInv /\ (v18 # None => ChangeOwn \/ IssueOwn)
      /\ v20 \in Seq(CrashChange)
  BY DEF DeskInv, CrashShown, CrashTypeOK, CrashChange
<1>2. ASSUME NEW to \in {"open", "known", "fixed"}, K!SetStatus(to) PROVE DeskInv'
  <2> DEFINE c == [to |-> to, visit |-> v23]
  <2>1. /\ v20' = Append(v20, c) /\ v22 /\ UNCHANGED K!deskVars
        /\ UNCHANGED <<v14, v15, v16, v22, v23, v24>>
    BY <1>2 DEF K!SetStatus, K!serverVars
  <2>2. c \in CrashChange /\ c.visit = v23
    BY <1>1 DEF CrashTypeOK, CrashChange
  <2> HIDE DEF c
  <2>3. /\ v20' \in Seq(CrashChange) /\ Len(v20) \in Nat /\ Len(v20') = Len(v20) + 1
        /\ v20'[Len(v20) + 1] = c
    BY <1>1, <2>1, <2>2, AppendProperties
  <2>4. CrashTypeOK' /\ OpenedInv'
    BY <1>1, <2>1, <2>3 DEF CrashTypeOK, OpenedInv, CrashChange
  <2>5. ChangeOwn'
    <3>1. Len(v20) + 1 \in 1..Len(v20')
      BY <2>3
    <3> QED BY <2>1, <2>2, <2>3, <3>1 DEF ChangeOwn, K!Mine
  <2>6. CrashInv'
    BY <1>1, <2>1 DEF K!deskVars, K!toastVars, K!authVars, CrashInv, K!ToastTypeOK, K!SentOrUndone, K!WindowIsOwn
  <2> QED BY <2>4, <2>5, <2>6 DEF DeskInv, CrashShown
<1>3. ASSUME NEW k \in DOMAIN v20, NEW ok \in BOOLEAN, K!StatusChanged(k, ok) PROVE DeskInv'
  <2>1. k \in 1..Len(v20)
    BY <1>1
  <2>2. /\ v20' = Without(v20, k) /\ v18' = (IF K!Mine(v20[k].visit) THEN None ELSE v18)
        /\ UNCHANGED K!authVars /\ UNCHANGED <<v14, v15, v16, v22, v23, v24>>
        /\ K!Offer(StatusChange) \/ (K!Plain /\ UNCHANGED <<v4, v5, v6, v7, v8>>)
    <3>1. /\ v20' = Without(v20, k) /\ v18' = (IF K!Mine(v20[k].visit) THEN None ELSE v18)
          /\ UNCHANGED K!authVars /\ UNCHANGED <<v14, v15, v16, v22, v23, v24>>
      BY <1>3 DEF K!StatusChanged, K!RemoveAt, Without, K!ClearFor
    <3>2. K!Offer(StatusChange) \/ (K!Plain /\ UNCHANGED <<v4, v5, v6, v7, v8>>)
      <4>1. CASE ok
        BY <1>3, <4>1 DEF K!StatusChanged
      <4>2. CASE ~ok
        BY <1>3, <4>2 DEF K!StatusChanged
      <4> QED BY <4>1, <4>2
    <3> QED BY <3>1, <3>2
  <2>3. CrashInv'
    BY <1>1, <2>2, CrashToastStep
  <2>4. Without(v20, k) \in Seq(CrashChange)
    BY <1>1, <2>1, WithoutOne
  <2>5. CrashTypeOK' /\ OpenedInv'
    BY <1>1, <2>2, <2>4 DEF CrashTypeOK, OpenedInv, CrashChange
  <2>6. v18' # None => ChangeOwn' \/ IssueOwn'
    <3> SUFFICES ASSUME v18' # None PROVE ChangeOwn' \/ IssueOwn'
      OBVIOUS
    <3>1. ~K!Mine(v20[k].visit) /\ v18 # None
      BY <2>2
    <3>2. CASE ChangeOwn
      BY <1>1, <2>1, <2>2, <3>1, <3>2, ChangeAnswered
    <3>3. CASE IssueOwn
      BY <2>2, <3>3 DEF IssueOwn, K!Mine
    <3> QED BY <1>1, <3>1, <3>2, <3>3
  <2> QED BY <2>3, <2>5, <2>6 DEF DeskInv, CrashShown
<1> QED BY <1>2, <1>3

LEMMA DeskIssues ==
  ASSUME DeskInv,
         K!CreateIssue \/ K!UndoIssue \/ \E k \in DOMAIN v24, ok \in BOOLEAN : K!IssueAnswered(k, ok)
  PROVE  DeskInv'
<1>1. CrashInv /\ CrashTypeOK /\ OpenedInv /\ (v18 # None => ChangeOwn \/ IssueOwn)
      /\ v24 \in Seq(Nat) /\ v23 \in Nat
  BY DEF DeskInv, CrashShown, CrashTypeOK
<1>2. CASE K!CreateIssue
  <2>1. /\ K!Decide(Issue) /\ UNCHANGED K!authVars /\ v24' = Append(v24, v23) /\ v22
        /\ UNCHANGED <<v14, v15, v16, v20, v22, v23>>
    BY <1>2 DEF K!CreateIssue, K!CanCreate, K!serverVars
  <2>2. CrashInv'
    BY <1>1, <2>1, CrashToastStep
  <2>3. /\ v24' \in Seq(Nat) /\ Len(v24) \in Nat /\ Len(v24') = Len(v24) + 1
        /\ v24'[Len(v24) + 1] = v23
    BY <1>1, <2>1, AppendProperties
  <2>4. CrashTypeOK' /\ OpenedInv'
    BY <1>1, <2>1, <2>3 DEF CrashTypeOK, OpenedInv
  <2>5. IssueOwn'
    <3>1. Len(v24) + 1 \in 1..Len(v24')
      BY <2>3
    <3> QED BY <2>1, <2>3, <3>1 DEF IssueOwn, K!Mine
  <2> QED BY <2>2, <2>4, <2>5 DEF DeskInv, CrashShown
<1>3. CASE K!UndoIssue
  <2>1. /\ K!UndoDecision /\ UNCHANGED K!authVars /\ v24' = K!Front(v24)
        /\ v18' = (IF K!Mine(K!Last(v24)) THEN None ELSE v18)
        /\ UNCHANGED <<v14, v15, v16, v20, v22, v23>>
    BY <1>3 DEF K!UndoIssue, K!serverVars, K!ClearFor
  <2>2. CrashInv'
    BY <1>1, <2>1, CrashToastStep
  <2>3. CrashTypeOK' /\ OpenedInv'
    BY <1>1, <2>1, FrontIsWithout DEF CrashTypeOK, OpenedInv
  <2>4. v18' # None => ChangeOwn' \/ IssueOwn'
    <3> SUFFICES ASSUME v18' # None PROVE ChangeOwn' \/ IssueOwn'
      OBVIOUS
    <3>1. ~K!Mine(K!Last(v24)) /\ v18 # None
      BY <2>1
    <3>2. CASE ChangeOwn
      BY <2>1, <3>2 DEF ChangeOwn, K!Mine
    <3>3. CASE IssueOwn
      <4>1. v24 # <<>>
        BY <1>1, <3>3, EmptySeq DEF IssueOwn
      <4>2. /\ Len(v24) \in 1..Len(v24) /\ v24' = Without(v24, Len(v24)) /\ ~K!Mine(v24[Len(v24)])
        BY <1>1, <2>1, <3>1, <4>1, FrontIsWithout
      <4> QED BY <1>1, <2>1, <3>3, <4>2, IssueGone
    <3> QED BY <1>1, <3>1, <3>2, <3>3
  <2> QED BY <2>2, <2>3, <2>4 DEF DeskInv, CrashShown
<1>4. ASSUME NEW k \in DOMAIN v24, NEW ok \in BOOLEAN, K!IssueAnswered(k, ok) PROVE DeskInv'
  <2>1. k \in 1..Len(v24)
    BY <1>1
  <2>2. /\ K!Answered(Issue, ok) /\ UNCHANGED K!authVars /\ v24' = Without(v24, k)
        /\ v18' = (IF K!Mine(v24[k]) THEN None ELSE v18)
        /\ K!OpensIssue \/ UNCHANGED <<v14, v15, v16>>
        /\ UNCHANGED <<v20, v22, v23>>
    BY <1>4 DEF K!IssueAnswered, K!RemoveAt, Without, K!ClearFor, K!serverVars
  <2>3. CrashInv'
    BY <1>1, <2>2, CrashToastStep
  <2>4. Without(v24, k) \in Seq(Nat)
    BY <1>1, <2>1, WithoutOne
  <2>5. OpenedInv' /\ v14' \in BOOLEAN /\ v15' \in Nat /\ v16' \in BOOLEAN
    BY <1>1, <2>2, CrashOpens DEF CrashTypeOK, OpenedInv
  <2>6. CrashTypeOK'
    BY <1>1, <2>2, <2>4, <2>5 DEF CrashTypeOK
  <2>7. v18' # None => ChangeOwn' \/ IssueOwn'
    <3> SUFFICES ASSUME v18' # None PROVE ChangeOwn' \/ IssueOwn'
      OBVIOUS
    <3>1. ~K!Mine(v24[k]) /\ v18 # None
      BY <2>2
    <3>2. CASE ChangeOwn
      BY <2>2, <3>2 DEF ChangeOwn, K!Mine
    <3>3. CASE IssueOwn
      BY <1>1, <2>1, <2>2, <3>1, <3>3, IssueGone
    <3> QED BY <1>1, <3>1, <3>2, <3>3
  <2> QED BY <2>3, <2>5, <2>6, <2>7 DEF DeskInv, CrashShown
<1> QED BY <1>2, <1>3, <1>4

LEMMA DeskOthers ==
  ASSUME DeskInv,
         K!Read \/ K!UndoStatus \/ K!Meanwhile \/ K!Leave \/ K!Return \/ K!Elsewhere
           \/ \E ok \in BOOLEAN : K!StatusReversed(ok)
  PROVE  DeskInv'
<1>1. CrashInv /\ CrashTypeOK /\ OpenedInv /\ (v18 # None => ChangeOwn \/ IssueOwn) /\ v23 \in Nat
  BY DEF DeskInv, CrashShown, CrashTypeOK
<1>2. CASE K!UndoStatus \/ K!Meanwhile \/ \E ok \in BOOLEAN : K!StatusReversed(ok)
  <2>1. /\ UNCHANGED K!authVars /\ UNCHANGED <<v14, v15, v16, v18, v20, v22, v23, v24>>
        /\ \/ K!UndoAction \/ K!Reversed(StatusChange)
           \/ K!PageHide \/ K!Hide \/ K!CommitTimer(Issue)
           \/ \E u \in {StatusChange} \cup OtherChanges : K!Offer(u)
    BY <1>2 DEF K!UndoStatus, K!StatusReversed, K!Meanwhile, K!serverVars, K!pageVars
  <2>2. CrashInv'
    BY <1>1, <2>1, CrashToastStep
  <2>3. CrashTypeOK' /\ OpenedInv' /\ (v18' # None => ChangeOwn' \/ IssueOwn')
    BY <1>1, <2>1 DEF CrashTypeOK, OpenedInv, ChangeOwn, IssueOwn, K!Mine
  <2> QED BY <2>2, <2>3 DEF DeskInv, CrashShown
<1>3. CASE K!Read \/ K!Leave \/ K!Return \/ K!Elsewhere
  <2>1. /\ UNCHANGED K!deskVars /\ UNCHANGED <<v20, v24>> /\ v23' \in {v23, v23 + 1}
        /\ K!OpensIssue \/ UNCHANGED <<v14, v15, v16>>
        /\ \/ v18' = v18 /\ UNCHANGED <<v22, v23>>
           \/ v18' = None
           \/ v18' = v18 /\ ~v22
    BY <1>3 DEF K!Read, K!Leave, K!Return, K!Elsewhere, K!serverVars, K!pageVars
  <2>2. CrashInv'
    BY <1>1, <2>1 DEF K!deskVars, K!toastVars, K!authVars, CrashInv, K!ToastTypeOK, K!SentOrUndone, K!WindowIsOwn
  <2>3. CrashTypeOK' /\ OpenedInv'
    <3>1. OpenedInv' /\ v14' \in BOOLEAN /\ v15' \in Nat /\ v16' \in BOOLEAN
      BY <1>1, <2>1, CrashOpens DEF CrashTypeOK, OpenedInv
    <3> QED BY <1>1, <2>1, <3>1 DEF CrashTypeOK
  <2>4. v18' # None => ChangeOwn' \/ IssueOwn'
    <3>1. ~v22 => ~ChangeOwn /\ ~IssueOwn
      BY DEF ChangeOwn, IssueOwn, K!Mine
    <3>2. UNCHANGED <<v22, v23>> => (ChangeOwn => ChangeOwn') /\ (IssueOwn => IssueOwn')
      BY <2>1 DEF ChangeOwn, IssueOwn, K!Mine
    <3> QED BY <1>1, <2>1, <3>1, <3>2
  <2> QED BY <2>2, <2>3, <2>4 DEF DeskInv, CrashShown
<1> QED BY <1>2, <1>3

LEMMA DeskStep == DeskInv /\ K!DeskNext => DeskInv'
BY DeskChanges, DeskIssues, DeskOthers DEF K!DeskNext

LEMMA DeskShows == DeskInv => K!ShownIsPending
BY DEF DeskInv, CrashTypeOK, CrashShown, ChangeOwn, IssueOwn, K!ShownIsPending

LEMMA DeskToasts == DeskInv => K!ToastTypeOK /\ K!SentOrUndone /\ K!WindowIsOwn
BY DEF DeskInv, CrashInv

LEMMA DeskOneIssue == DeskInv => K!OneIssue
BY DEF DeskInv, CrashTypeOK, OpenedInv, K!OneIssue

-----------------------------------------------------------------------------
\* The users page: the list and the drawer.
\* No answer of a request the server took is awaited for this account.
NoneDone(u) == \A c \in v5 : ~(c.user = u /\ c.state = "done")

\* What the page has of an account nobody else changed is what the server has,
\* but for requests done whose answer, and refetch, is still to come.
RowsInv ==
  /\ DOMAIN v1 = Accounts
  /\ v3 # None => {"user", "row"} \subseteq DOMAIN v3
  /\ \A c \in v5 : {"user", "state"} \subseteq DOMAIN c
  /\ \A u \in Accounts \ v9 : NoneDone(u) =>
       /\ v2[u] = v1[u]
       /\ v3 # None /\ v3.user = u /\ v3.row # None => v3.row = v1[u]

LEMMA RowsStart == U!UsersInit => RowsInv
BY DEF U!UsersInit, RowsInv, NoneDone

\* A request more, or one that is not done fewer, settles no account.
LEMMA RowsCalls ==
  ASSUME RowsInv, UNCHANGED <<v1, v2, v3, v9>>,
         \A c \in v5' : {"user", "state"} \subseteq DOMAIN c,
         \A c \in v5 : c.state = "done" => c \in v5'
  PROVE  RowsInv'
BY DEF RowsInv, NoneDone

LEMMA RowsCall ==
  ASSUME RowsInv, NEW op, NEW u, NEW reason, NEW seen, NEW lifted, NEW undo,
         U!Call(op, u, reason, seen, lifted, undo), UNCHANGED <<v1, v2, v3, v9>>
  PROVE  RowsInv'
<1>1. PICK n : v5' = v5 \cup {[n |-> n, op |-> op, user |-> u, reason |-> reason, seen |-> seen,
                           lifted |-> lifted, undo |-> undo, state |-> "sent"]}
  BY DEF U!Call
<1>2. \A c \in v5' : {"user", "state"} \subseteq DOMAIN c
  BY <1>1 DEF RowsInv
<1> QED BY <1>1, <1>2, RowsCalls

LEMMA RowsRequests ==
  ASSUME RowsInv,
         \/ \E u \in Accounts : U!Unban(u) \/ \E op \in {"ban", "revoke"} : U!Ask(u, op)
         \/ \E reason \in Reasons : U!Confirm(reason)
         \/ U!Cancel \/ U!Undo \/ U!ToastGone
  PROVE  RowsInv'
<1>1. UNCHANGED <<v1, v2, v3, v9>>
  BY DEF U!Unban, U!Ask, U!Confirm, U!Cancel, U!Undo, U!ToastGone
<1>2. v5' = v5 \/ \E op, u, reason, seen, lifted, undo : U!Call(op, u, reason, seen, lifted, undo)
  BY DEF U!Unban, U!Ask, U!Confirm, U!Cancel, U!Undo, U!ToastGone
<1>3. CASE v5' = v5
  BY <1>1, <1>3, RowsCalls DEF RowsInv
<1> QED BY <1>1, <1>2, <1>3, RowsCall

LEMMA RowsRead ==
  ASSUME RowsInv, U!ReadRows \/ U!CloseDrawer \/ U!ReadDetail \/ \E u \in Accounts : U!OpenDrawer(u)
  PROVE  RowsInv'
<1>1. UNCHANGED <<v1, v5>>
  BY DEF U!ReadRows, U!CloseDrawer, U!ReadDetail, U!OpenDrawer
<1>2. DOMAIN v1' = Accounts /\ \A c \in v5' : {"user", "state"} \subseteq DOMAIN c
  BY <1>1 DEF RowsInv
<1>3. v3' # None => {"user", "row"} \subseteq DOMAIN v3'
  BY DEF RowsInv, U!ReadRows, U!CloseDrawer, U!ReadDetail, U!OpenDrawer
<1>4. ASSUME NEW u \in Accounts \ v9', NoneDone(u)'
      PROVE  /\ v2'[u] = v1'[u]
             /\ v3' # None /\ v3'.user = u /\ v3'.row # None => v3'.row = v1'[u]
  <2>0. NoneDone(u)
    BY <1>1, <1>4 DEF NoneDone
  <2>1. CASE U!ReadRows
    BY <1>4, <2>0, <2>1 DEF U!ReadRows, RowsInv
  <2>2. CASE U!CloseDrawer
    BY <1>4, <2>0, <2>2 DEF U!CloseDrawer, RowsInv
  <2>3. CASE U!ReadDetail
    BY <1>4, <2>0, <2>3 DEF U!ReadDetail, RowsInv
  <2>4. CASE \E w \in Accounts : U!OpenDrawer(w)
    BY <1>4, <2>0, <2>4 DEF U!OpenDrawer, RowsInv
  <2> QED BY <2>1, <2>2, <2>3, <2>4
<1> QED BY <1>2, <1>3, <1>4 DEF RowsInv

\* Only a request served makes the server differ from the page, about its account.
LEMMA RowsServe ==
  ASSUME RowsInv, NEW c \in v5, U!Serve(c)
  PROVE  RowsInv'
<1>1. {"user", "state"} \subseteq DOMAIN c /\ c.state = "sent" /\ UNCHANGED <<v2, v3, v9>>
  BY DEF RowsInv, U!Serve
<1>2. CASE v1' = v1 /\ v5' = (v5 \ {c}) \cup {[c EXCEPT !.state = "refused"]}
  <2>1. \A d \in v5' : {"user", "state"} \subseteq DOMAIN d
    BY <1>1, <1>2 DEF RowsInv
  <2>2. \A d \in v5 : d.state = "done" => d \in v5'
    BY <1>1, <1>2
  <2> QED BY <1>1, <1>2, <2>1, <2>2, RowsCalls
<1>3. ASSUME NEW lifted, NEW after, v1' = [v1 EXCEPT ![c.user] = after],
             v5' = (v5 \ {c}) \cup {[c EXCEPT !.state = "done", !.lifted = lifted]}
      PROVE  RowsInv'
  <2> DEFINE d == [c EXCEPT !.state = "done", !.lifted = lifted]
  <2>1. d.state = "done" /\ d.user = c.user /\ {"user", "state"} \subseteq DOMAIN d
    BY <1>1
  <2>2. v5' = (v5 \ {c}) \cup {d}
    BY <1>3
  <2> HIDE DEF d
  <2>3. \A u \in Accounts : NoneDone(u)' => u # c.user /\ NoneDone(u)
    BY <1>1, <2>1, <2>2 DEF NoneDone
  <2>4. DOMAIN v1' = Accounts /\ \A u \in Accounts : u # c.user => v1'[u] = v1[u]
    BY <1>3 DEF RowsInv
  <2>5. \A e \in v5' : {"user", "state"} \subseteq DOMAIN e
    BY <2>1, <2>2 DEF RowsInv
  <2> QED BY <1>1, <2>3, <2>4, <2>5 DEF RowsInv
<1>4. \/ v1' = v1 /\ v5' = (v5 \ {c}) \cup {[c EXCEPT !.state = "refused"]}
      \/ \E lifted, after :
           /\ v1' = [v1 EXCEPT ![c.user] = after]
           /\ v5' = (v5 \ {c}) \cup {[c EXCEPT !.state = "done", !.lifted = lifted]}
  <2>1. CASE v1' = v1 /\ U!Become(c, [c EXCEPT !.state = "refused"])
    BY <2>1 DEF U!Become
  <2>2. CASE /\ U!Act(c.op, c.user, c.reason)
             /\ U!Become(c, [c EXCEPT !.state = "done",
                               !.lifted = IF c.op = "unban" THEN v1[c.user].reason ELSE @])
    <3> DEFINE l == IF c.op = "unban" THEN v1[c.user].reason ELSE c.lifted
               a == U!After(c.op, c.reason, v1[c.user])
    <3>1. v1' = [v1 EXCEPT ![c.user] = a]
      BY <2>2 DEF U!Act
    <3>2. v5' = (v5 \ {c}) \cup {[c EXCEPT !.state = "done", !.lifted = l]}
      BY <2>2 DEF U!Become
    <3> HIDE DEF l, a
    <3> QED BY <3>1, <3>2
  <2> QED BY <2>1, <2>2 DEF U!Serve
<1> QED BY <1>2, <1>3, <1>4

\* A refetch that fails leaves every account unread.
LEMMA RowsAnswered ==
  ASSUME RowsInv, NEW c \in v5, NEW ok \in BOOLEAN, U!Answered(c, ok)
  PROVE  RowsInv'
<1>1. v1' = v1 /\ {"user", "state"} \subseteq DOMAIN c
  BY DEF RowsInv, U!Answered
<1>2. v5' = (v5 \ {c}) \cup {[c EXCEPT !.state = "cut"]} \/ v5' = v5 \ {c}
  BY DEF U!Answered, U!Become
<1>3. \A d \in v5' : {"user", "state"} \subseteq DOMAIN d
  BY <1>1, <1>2 DEF RowsInv
<1>4. PICK read \in BOOLEAN :
        /\ v2' = IF read THEN v1 ELSE v2
        /\ v3' = IF read /\ v3 # None THEN [v3 EXCEPT !.row = v1[v3.user]] ELSE v3
        /\ v9' = IF read THEN {} ELSE Accounts
  BY DEF U!Answered
<1>5. CASE read
  BY <1>1, <1>3, <1>4, <1>5 DEF RowsInv
<1>6. CASE ~read
  BY <1>1, <1>3, <1>4, <1>6 DEF RowsInv
<1> QED BY <1>5, <1>6

\* What nobody told the page of is unknown.
LEMMA RowsElsewhere ==
  ASSUME RowsInv,
         (\E u \in Accounts : U!Elsewhere(u)) \/ (\E c \in v5 : U!Late(c))
  PROVE  RowsInv'
<1>1. PICK u : v9' = v9 \cup {u} /\ (v1' = v1 \/ \E after : v1' = [v1 EXCEPT ![u] = after])
  <2>1. ASSUME NEW w, NEW op, NEW reason, U!Act(op, w, reason)
        PROVE  \E after : v1' = [v1 EXCEPT ![w] = after]
    <3> DEFINE a == U!After(op, reason, v1[w])
    <3>1. v1' = [v1 EXCEPT ![w] = a]
      BY <2>1 DEF U!Act
    <3> HIDE DEF a
    <3> QED BY <3>1
  <2>2. CASE \E w \in Accounts : U!Elsewhere(w)
    <3>1. PICK w \in Accounts : U!Elsewhere(w)
      BY <2>2
    <3>2. CASE \E op \in {"ban", "unban", "revoke"}, reason \in Reasons : U!Act(op, w, reason)
      BY <2>1, <3>1, <3>2 DEF U!Elsewhere
    <3>3. CASE v1' = [v1 EXCEPT ![w].live = TRUE]
      <4> DEFINE a == [v1[w] EXCEPT !.live = TRUE]
      <4>1. v1' = [v1 EXCEPT ![w] = a]
        BY <3>3
      <4> HIDE DEF a
      <4> QED BY <3>1, <4>1 DEF U!Elsewhere
    <3> QED BY <3>1, <3>2, <3>3 DEF U!Elsewhere
  <2>3. CASE \E c \in v5 : U!Late(c)
    BY <2>1, <2>3 DEF U!Late
  <2> QED BY <2>2, <2>3
<1>2. /\ UNCHANGED <<v2, v3>>
      /\ \A c \in v5' : c \in v5
      /\ \A c \in v5 : c.state = "done" => c \in v5'
  BY DEF U!Elsewhere, U!Late
<1>3. DOMAIN v1' = Accounts /\ \A w \in Accounts : w # u => v1'[w] = v1[w]
  BY <1>1 DEF RowsInv
<1>4. \A w : NoneDone(w)' => NoneDone(w)
  BY <1>2 DEF NoneDone
<1> QED BY <1>1, <1>2, <1>3, <1>4 DEF RowsInv

LEMMA RowsStep == RowsInv /\ U!UsersNext => RowsInv'
BY RowsRequests, RowsRead, RowsServe, RowsAnswered, RowsElsewhere DEF U!UsersNext

LEMMA RowsShow == RowsInv => U!QuietShowsServer
BY DEF RowsInv, NoneDone, U!QuietShowsServer

-----------------------------------------------------------------------------
\* The admin's own profile.
AProfile == [prefs : [Preferences -> BOOLEAN], sessions : SUBSET Devices, token : Nat]
AChange ==
  [n : Nat, op : {"pref"}, on : Preferences, value : BOOLEAN, before : AProfile,
   state : {"sent", "done", "refused", "cut"}]
  \cup [n : Nat, op : {"revoke"}, on : Devices, value : BOOLEAN, before : AProfile,
   state : {"sent", "done", "refused", "cut"}]
  \cup [n : Nat, op : {"token"}, on : {"token"}, value : Nat, before : AProfile,
   state : {"sent", "done", "refused", "cut"}]

\* What a profile says of a preference, a session or the token is what the
\* database has.
Agrees(d, x) ==
  /\ x \in Preferences => d.prefs[x] = v1.prefs[x]
  /\ x \in d.sessions <=> x \in v1.sessions
  /\ x = "token" => d.token = v1.token

\* A profile is wrong only about what a request changed whose answer, and refetch,
\* is still to come, or was lost.
Settled(d) ==
  \A x \in (Preferences \cup Devices \cup {"token"}) \ v7 :
    Agrees(d, x) \/ \E c \in v5 : c.state = "done" /\ c.on = x

ProfileInv ==
  /\ v1 \in AProfile /\ v2 \in AProfile /\ v4 \in BOOLEAN /\ v8 \in Nat
  /\ v5 \subseteq AChange /\ \A c \in v5 : c.state = "cut" => c.on \in v7
  /\ \/ v3 = None \/ v3 = M!Asked
     \/ v3 = [read |-> TRUE, data |-> v3.data] /\ v3.data \in AProfile /\ Settled(v3.data)
  /\ v3 = None /\ ~v4 /\ (\A c \in v5 : c.op = "pref" => c.state = "cut") => Settled(v2)

LEMMA ProfileStart == M!ProfileInit => ProfileInv
<1> SUFFICES ASSUME M!ProfileInit PROVE ProfileInv
  OBVIOUS
<1>1. v1 \in AProfile /\ v2 = v1 /\ v3 = None /\ v4 = FALSE /\ v5 = {} /\ v7 = {} /\ v8 = 0
  BY DEF M!ProfileInit, AProfile
<1>2. Settled(v2)
  BY <1>1 DEF Settled, Agrees
<1> QED BY <1>1, <1>2 DEF ProfileInv

\* A refetch is not none.
LEMMA RefetchIsOne ==
  M!Asked # None /\ \A d \in AProfile : [read |-> TRUE, data |-> d] # None
<1>1. None \notin [read : BOOLEAN, data : {None} \cup AProfile]
  BY StateAssumption DEF AProfile
<1> HIDE DEF AProfile
<1>2. M!Asked \in [read : BOOLEAN, data : {None} \cup AProfile]
  BY DEF M!Asked
<1>3. \A d \in AProfile : [read |-> TRUE, data |-> d] \in [read : BOOLEAN, data : {None} \cup AProfile]
  OBVIOUS
<1> QED BY <1>1, <1>2, <1>3

\* One more request that is not done leaves what is settled.
LEMMA SettledStays ==
  ASSUME NEW d, Settled(d), v1' = v1, v7 \subseteq v7',
         \A c \in v5 : c.state = "done" => c \in v5' \/ c.on \in v7'
  PROVE  Settled(d)'
BY DEF Settled, Agrees

LEMMA ChangeStarts ==
  ASSUME ProfileInv, NEW op, NEW on, NEW value, M!Start(op, on, value),
         \/ op = "pref" /\ on \in Preferences /\ value \in BOOLEAN
         \/ op = "revoke" /\ on \in Devices /\ value \in BOOLEAN
         \/ op = "token" /\ on = "token" /\ value \in Nat
  PROVE  /\ v1' = v1 /\ v4' = v4 /\ v7' = v7 /\ v8' \in Nat
         /\ v5' \subseteq AChange /\ v5 \subseteq v5'
         /\ \A c \in v5' : c.state = "cut" => c.on \in v7'
         /\ op = "pref" => \E c \in v5' : c.op = "pref" /\ c.state # "cut"
<1> DEFINE new == [n |-> v8', op |-> op, on |-> on, value |-> value, before |-> v2, state |-> "sent"]
<1>1. v5' = v5 \cup {new} /\ v8' \in Nat /\ UNCHANGED <<v1, v4, v7>>
  BY DEF M!Start, ProfileInv
<1>2. v2 \in AProfile
  BY DEF ProfileInv
<1>3. new.state = "sent" /\ new.op = op
  OBVIOUS
<1>4. new \in AChange
  <2> HIDE DEF AProfile
  <2>1. CASE op = "pref" /\ on \in Preferences /\ value \in BOOLEAN
    BY <1>1, <1>2, <2>1 DEF AChange
  <2>2. CASE op = "revoke" /\ on \in Devices /\ value \in BOOLEAN
    BY <1>1, <1>2, <2>2 DEF AChange
  <2>3. CASE op = "token" /\ on = "token" /\ value \in Nat
    BY <1>1, <1>2, <2>3 DEF AChange
  <2> QED BY <2>1, <2>2, <2>3
<1> HIDE DEF new
<1> QED BY <1>1, <1>3, <1>4 DEF ProfileInv

\* A switch turned shows what its request will bring, a refetch being to come.
LEMMA ProfileSwitch ==
  ASSUME ProfileInv, NEW k \in Preferences, M!SetPref(k)
  PROVE  ProfileInv'
<1>1. v2 \in AProfile /\ v1 \in AProfile /\ v4 \in BOOLEAN
  BY DEF ProfileInv
<1>2. M!Start("pref", k, ~v2.prefs[k]) /\ v2' = [v2 EXCEPT !.prefs[k] = ~@] /\ v3' = None
  BY DEF M!SetPref
<1>3. /\ v1' = v1 /\ v4' = v4 /\ v7' = v7 /\ v8' \in Nat /\ v5' \subseteq AChange
      /\ \A c \in v5' : c.state = "cut" => c.on \in v7'
      /\ \E c \in v5' : c.op = "pref" /\ c.state # "cut"
  BY <1>2, ChangeStarts
<1>4. v2' \in AProfile
  BY <1>1, <1>2 DEF AProfile
<1> QED BY <1>1, <1>2, <1>3, <1>4 DEF ProfileInv

LEMMA ProfileAsks ==
  ASSUME ProfileInv, M!RegenerateToken \/ \E s \in Devices : M!RevokeSession(s)
  PROVE  ProfileInv'
<1>1. \E op, on, value :
        /\ M!Start(op, on, value)
        /\ \/ op = "revoke" /\ on \in Devices /\ value \in BOOLEAN
           \/ op = "token" /\ on = "token" /\ value \in Nat
  <2>1. CASE M!RegenerateToken
    <3>1. M!Start("token", "token", v8 + 1) /\ v8 + 1 \in Nat
      BY <2>1 DEF M!RegenerateToken, ProfileInv
    <3> QED BY <3>1
  <2>2. CASE \E s \in Devices : M!RevokeSession(s)
    <3>1. PICK s \in Devices : M!Start("revoke", s, FALSE)
      BY <2>2 DEF M!RevokeSession
    <3> QED BY <3>1
  <2> QED BY <2>1, <2>2
<1>2. UNCHANGED <<v2, v3>>
  BY DEF M!RegenerateToken, M!RevokeSession
<1>3. /\ v1' = v1 /\ v4' = v4 /\ v7' = v7 /\ v8' \in Nat /\ v5' \subseteq AChange /\ v5 \subseteq v5'
      /\ \A c \in v5' : c.state = "cut" => c.on \in v7'
  BY <1>1, ChangeStarts
<1>4. \A d : Settled(d) => Settled(d)'
  BY <1>3, SettledStays
<1> QED BY <1>2, <1>3, <1>4 DEF ProfileInv

\* The database moves only under a request that is done from then on, or was cut.
LEMMA ProfileApplied ==
  ASSUME ProfileInv, NEW c \in v5, M!Apply(c)
  PROVE  /\ v1' \in AProfile
         /\ \A d \in AProfile : \A x : Agrees(d, x) /\ x # c.on => Agrees(d, x)'
<1>1. v1 \in AProfile /\ c \in AChange
  BY DEF ProfileInv
<1>2. CASE c.op = "pref"
  <2>1. c.on \in Preferences /\ c.value \in BOOLEAN
    BY <1>1, <1>2 DEF AChange
  <2>2. v1' = [v1 EXCEPT !.prefs[c.on] = c.value]
    BY <1>2 DEF M!Apply
  <2>3. v1' \in AProfile
    BY <1>1, <2>1, <2>2 DEF AProfile
  <2>4. v1'.sessions = v1.sessions /\ v1'.token = v1.token
        /\ \A k \in Preferences : k # c.on => v1'.prefs[k] = v1.prefs[k]
    BY <1>1, <2>2 DEF AProfile
  <2> QED BY <2>3, <2>4 DEF Agrees
<1>3. CASE c.op = "revoke"
  <2>1. v1' = [v1 EXCEPT !.sessions = @ \ {c.on}]
    BY <1>3 DEF M!Apply
  <2>2. v1' \in AProfile
    BY <1>1, <2>1 DEF AProfile
  <2>3. v1'.prefs = v1.prefs /\ v1'.token = v1.token /\ v1'.sessions = v1.sessions \ {c.on}
    BY <1>1, <2>1 DEF AProfile
  <2> QED BY <2>2, <2>3 DEF Agrees
<1>4. CASE c.op = "token"
  <2>1. v1' = [v1 EXCEPT !.token = c.value]
    BY <1>4 DEF M!Apply
  <2>0. c.on = "token" /\ c.value \in Nat
    BY <1>1, <1>4 DEF AChange
  <2>2. v1' \in AProfile
    BY <1>1, <2>0, <2>1 DEF AProfile
  <2>3. v1'.prefs = v1.prefs /\ v1'.sessions = v1.sessions
    BY <1>1, <2>1 DEF AProfile
  <2> QED BY <2>0, <2>2, <2>3 DEF Agrees
<1> QED BY <1>1, <1>2, <1>3, <1>4 DEF AChange

\* A request that becomes another of its kind.
LEMMA ChangeBecomes ==
  ASSUME ProfileInv, NEW c \in v5, NEW s \in {"done", "refused", "cut"}, c.state = "sent",
         M!Become(c, s), s = "cut" => c.on \in v7', v7 \subseteq v7'
  PROVE  /\ v5' \subseteq AChange /\ \A d \in v5' : d.state = "cut" => d.on \in v7'
         /\ \A d \in v5 : d # c => d \in v5'
         /\ s # "cut" => \E d \in v5' : d.op = c.op /\ d.on = c.on /\ d.state = s
<1> DEFINE new == [c EXCEPT !.state = s]
<1>1. v5' = (v5 \ {c}) \cup {new}
  BY DEF M!Become
<1>2. c \in AChange
  BY DEF ProfileInv
<1>3. new \in AChange /\ new.state = s /\ new.on = c.on /\ new.op = c.op
  BY <1>2 DEF AChange
<1> HIDE DEF new
<1> QED BY <1>1, <1>3 DEF ProfileInv

LEMMA ProfileServed ==
  ASSUME ProfileInv, NEW c \in v5, M!Serve(c)
  PROVE  ProfileInv'
<1>1. c.state = "sent" /\ UNCHANGED <<v2, v3, v4, v7, v8>>
  BY DEF M!Serve
<1>2. \/ M!Apply(c) /\ M!Become(c, "done")
      \/ v1' = v1 /\ M!Become(c, "refused")
  BY DEF M!Serve
<1>3. /\ v5' \subseteq AChange /\ \A d \in v5' : d.state = "cut" => d.on \in v7'
      /\ \A d \in v5 : d # c => d \in v5'
      /\ \E d \in v5' : d.op = c.op /\ d.state # "cut"
  BY <1>1, <1>2, ChangeBecomes
<1>4. v1' \in AProfile
  BY <1>2, ProfileApplied DEF ProfileInv
<1>5. ASSUME NEW d \in AProfile, Settled(d) PROVE Settled(d)'
  <2>1. CASE v1' = v1
    BY <1>1, <1>3, <1>5, <2>1, SettledStays
  <2>2. CASE M!Apply(c) /\ M!Become(c, "done")
    <3>1. \A x : Agrees(d, x) /\ x # c.on => Agrees(d, x)'
      BY <2>2, ProfileApplied
    <3>2. \E e \in v5' : e.on = c.on /\ e.state = "done"
      BY <1>1, <2>2, ChangeBecomes
    <3> QED BY <1>1, <1>3, <1>5, <3>1, <3>2 DEF Settled
  <2> QED BY <1>2, <2>1, <2>2
<1>6. (\A d \in v5' : d.op = "pref" => d.state = "cut") => \A d \in v5 : d.op = "pref" => d.state = "cut"
  BY <1>3
<1> QED BY <1>1, <1>3, <1>4, <1>5, <1>6 DEF ProfileInv

LEMMA ProfileLate ==
  ASSUME ProfileInv, NEW c \in v5, M!Late(c)
  PROVE  ProfileInv'
<1>1. c.state = "cut" /\ v5' = v5 \ {c} /\ UNCHANGED <<v2, v3, v4, v7, v8>> /\ c.on \in v7
  BY DEF M!Late, ProfileInv
<1>2. v1' = v1 \/ M!Apply(c)
  BY DEF M!Late
<1>3. v1' \in AProfile
  BY <1>2, ProfileApplied DEF ProfileInv
<1>4. ASSUME NEW d \in AProfile, Settled(d) PROVE Settled(d)'
  <2>1. \A x \in (Preferences \cup Devices \cup {"token"}) \ v7 : Agrees(d, x) => Agrees(d, x)'
    BY <1>1, <1>2, ProfileApplied DEF Agrees
  <2>2. \A e \in v5 : e.state = "done" => e \in v5'
    BY <1>1
  <2> QED BY <1>1, <1>4, <2>1, <2>2 DEF Settled
<1>5. (\A d \in v5' : d.op = "pref" => d.state = "cut") => \A d \in v5 : d.op = "pref" => d.state = "cut"
  BY <1>1
<1> QED BY <1>1, <1>3, <1>4, <1>5 DEF ProfileInv

\* The refetch that a request handled leads to brings what it changed.
LEMMA ProfileAnswered ==
  ASSUME ProfileInv, NEW c \in v5, NEW ok \in BOOLEAN, M!Answered(c, ok)
  PROVE  ProfileInv'
<1>1. /\ c.state # "cut" /\ (ok => c.state = "done") /\ v1' = v1 /\ v4' = v4 /\ v8' = v8
      /\ v7' = IF c.state = "sent" \/ (c.op = "token" /\ c.state = "done" /\ ~ok) THEN v7 \cup {c.on} ELSE v7
      /\ v2' = IF c.op = "pref" /\ ~ok THEN c.before ELSE v2
      /\ v3' = IF c.op = "token" /\ ~ok THEN v3 ELSE M!Asked
  BY DEF M!Answered
<1>2. v5' \subseteq AChange /\ (\A d \in v5' : d.state = "cut" => d.on \in v7') /\ \A d \in v5 : d # c => d \in v5'
  <2>1. CASE c.state = "sent"
    <3>1. M!Become(c, "cut") /\ c.on \in v7' /\ v7 \subseteq v7'
      BY <1>1, <2>1 DEF M!Answered
    <3> QED BY <2>1, <3>1, ChangeBecomes
  <2>2. CASE c.state # "sent"
    <3>1. v5' = v5 \ {c} /\ v7 \subseteq v7'
      BY <1>1, <2>2 DEF M!Answered
    <3> QED BY <3>1 DEF ProfileInv
  <2> QED BY <2>1, <2>2
<1>3. v2' \in AProfile
  <2>1. c \in AChange /\ v2 \in AProfile
    BY DEF ProfileInv
  <2>2. c.before \in AProfile
    BY <2>1 DEF AChange
  <2> QED BY <1>1, <2>1, <2>2
<1>4. v1' \in AProfile /\ v4' \in BOOLEAN /\ v8' \in Nat
  BY <1>1 DEF ProfileInv
<1>5. CASE ~(c.op = "token" /\ ~ok)
  <2>1. v3' = M!Asked /\ v3' # None
    BY <1>1, <1>5, RefetchIsOne
  <2> QED BY <1>2, <1>3, <1>4, <2>1 DEF ProfileInv, M!Asked
<1>6. CASE c.op = "token" /\ ~ok
  <2>1. v3' = v3 /\ v2' = v2 /\ v7 \subseteq v7' /\ (c.state = "done" => c.on \in v7')
    BY <1>1, <1>6
  <2>2. \A d \in AProfile : Settled(d) => Settled(d)'
    BY <1>1, <1>2, <2>1, SettledStays
  <2>3. (\A d \in v5' : d.op = "pref" => d.state = "cut") => \A d \in v5 : d.op = "pref" => d.state = "cut"
    BY <1>2, <1>6
  <2>4. \/ v3' = None \/ v3' = M!Asked
        \/ v3' = [read |-> TRUE, data |-> v3'.data] /\ v3'.data \in AProfile /\ Settled(v3.data)'
    BY <2>1, <2>2 DEF ProfileInv
  <2>5. v3 = None /\ ~v4 /\ (\A d \in v5 : d.op = "pref" => d.state = "cut") => Settled(v2)'
    BY <2>1, <2>2 DEF ProfileInv
  <2>6. v3' = None /\ ~v4' /\ (\A d \in v5' : d.op = "pref" => d.state = "cut") => Settled(v2)'
    BY <1>1, <2>1, <2>3, <2>5
  <2> QED BY <1>2, <1>3, <1>4, <2>4, <2>6 DEF ProfileInv, M!Asked
<1> QED BY <1>5, <1>6

LEMMA ProfileFetches ==
  ASSUME ProfileInv, M!Read \/ M!Arrive \/ M!FailRefetch \/ M!Done
  PROVE  ProfileInv'
<1>1. UNCHANGED <<v1, v5, v7, v8>>
  BY DEF M!Read, M!Arrive, M!FailRefetch, M!Done
<1>2. \A d : Settled(d) => Settled(d)'
  BY <1>1, SettledStays
<1>3. /\ v1' \in AProfile /\ v8' \in Nat /\ v5' \subseteq AChange
      /\ \A c \in v5' : c.state = "cut" => c.on \in v7'
  BY <1>1 DEF ProfileInv
<1>4. CASE M!Read
  <2>1. v3' = [read |-> TRUE, data |-> v1] /\ UNCHANGED <<v2, v4>> /\ v1 \in AProfile
    BY <1>4 DEF M!Read, ProfileInv
  <2>2. v3'.data = v1 /\ v3' # None
    BY <2>1, RefetchIsOne
  <2>3. Settled(v1)
    BY DEF Settled, Agrees
  <2>4. v2' \in AProfile /\ v4' \in BOOLEAN
    BY <2>1 DEF ProfileInv
  <2>5. v3'.data \in AProfile /\ Settled(v3.data)'
    <3>1. Settled(v1)'
      BY <1>1, <2>3 DEF Settled, Agrees
    <3> QED BY <1>1, <2>1, <2>2, <3>1 DEF Settled, Agrees
  <2> QED BY <1>3, <2>1, <2>2, <2>4, <2>5 DEF ProfileInv
<1>5. CASE M!Arrive
  <2>1. v2' = v3.data /\ v3' = None /\ v4' = FALSE
    BY <1>5 DEF M!Arrive
  <2>2. v3.data \in AProfile /\ Settled(v3.data)
    BY <1>5 DEF M!Arrive, M!Asked, ProfileInv
  <2>3. Settled(v2)'
    BY <1>1, <2>1, <2>2 DEF Settled, Agrees
  <2> QED BY <1>3, <2>1, <2>2, <2>3 DEF ProfileInv
<1>6. CASE M!FailRefetch
  BY <1>3, <1>6 DEF M!FailRefetch, ProfileInv
<1>7. CASE M!Done
  <2>1. UNCHANGED <<v2, v3, v4>>
    BY <1>7 DEF M!Done
  <2> QED BY <1>1, <1>2, <1>3, <2>1 DEF ProfileInv, M!Asked
<1> QED BY <1>4, <1>5, <1>6, <1>7

LEMMA ProfileStep == ProfileInv /\ M!ProfileNext => ProfileInv'
BY ProfileSwitch, ProfileAsks, ProfileServed, ProfileLate, ProfileAnswered, ProfileFetches
DEF M!ProfileNext

LEMMA ProfileShows == ProfileInv => M!IdleShowsServer
<1> SUFFICES ASSUME ProfileInv, \A c \in v5 : c.state = "cut", v3 = None, ~v4
             PROVE  /\ \A k \in Preferences \ v7 : v2.prefs[k] = v1.prefs[k]
                    /\ v2.sessions \ v7 = v1.sessions \ v7
                    /\ "token" \notin v7 => v2.token = v1.token
  BY DEF M!IdleShowsServer
<1>1. \A x \in (Preferences \cup Devices \cup {"token"}) \ v7 : Agrees(v2, x)
  BY DEF ProfileInv, Settled
<1>2. v2.sessions \subseteq Devices /\ v1.sessions \subseteq Devices
  BY DEF ProfileInv, AProfile
<1> QED BY <1>1, <1>2 DEF Agrees

-----------------------------------------------------------------------------
\* The community's list.
\* A list that shows none of its items is past the last page.
BrowseInv ==
  /\ v3 \in Nat \ {0}
  /\ v8 = None \/ v8 = v3 \/ v3 = 1
  /\ v7 # None =>
       /\ v7.total \in Nat /\ v7.key.page \in Nat \ {0}
       /\ v7.items = {} => v7.total = 0 \/ v7.key.page > (v7.total + PageSize - 1) \div PageSize

\* The last page: none of the items is past it.
LEMMA PagesBound ==
  ASSUME NEW t \in Nat
  PROVE  (t + PageSize - 1) \div PageSize \in Nat
         /\ (t # 0 => (t + PageSize - 1) \div PageSize # 0)
<1>1. PageSize \in Nat \ {0}
  BY ConsoleAssumption DEF ConsoleAssumption, Y!BrowseAssumption
<1> QED BY <1>1

\* A page up to the last has an item: the first of it.
LEMMA PageHasItems ==
  ASSUME NEW S \in SUBSET Nat, IsFiniteSet(S), NEW p \in Nat \ {0},
         p <= (Cardinality(S) + PageSize - 1) \div PageSize, Cardinality(S) # 0
  PROVE  \E i \in S : Cardinality({j \in S : j < i}) \div PageSize = p - 1
<1>1. PageSize \in Nat \ {0} /\ Cardinality(S) \in Nat
  BY ConsoleAssumption, FS_CardinalityType DEF ConsoleAssumption, Y!BrowseAssumption
<1> DEFINE d == PageSize
           t == Cardinality(S)
           q == p - 1
           r == q * d + 1
<1>2. d \in Nat \ {0} /\ t \in Nat \ {0} /\ q \in Nat /\ p = q + 1 /\ p <= (t + d - 1) \div d
  BY <1>1
<1> HIDE DEF d, t, q
<1>3. r \in 1..t
  <2>1. p * d <= t + d - 1
    BY <1>2
  <2>2. (q + 1) * d = q * d + d
    BY <1>2
  <2>3. q * d \in Nat
    BY <1>2
  <2>4. q * d + 1 <= t
    BY <1>2, <2>1, <2>2, <2>3
  <2> QED BY <1>2, <2>3, <2>4
<1>4. PICK i \in S : Rank(S, i) = r
  BY <1>3, RankOnto DEF t
<1>5. Cardinality({j \in S : j < i}) = q * d
  <2> DEFINE before == {j \in S : j < i}
             upto == {j \in S : j <= i}
  <2>1. upto = before \cup {i} /\ i \notin before /\ before \in SUBSET S
    <3>1. \A j \in S : j \in Int /\ i \in Int
      OBVIOUS
    <3>2. \A j \in S : j <= i <=> j < i \/ j = i
      BY <3>1
    <3>3. ~(i < i)
      BY <3>1
    <3> QED BY <3>2, <3>3
  <2> HIDE DEF before, upto
  <2>2. IsFiniteSet(before)
    BY <2>1, FS_Subset
  <2>3. Cardinality(upto) = Cardinality(before) + 1 /\ Cardinality(before) \in Nat
    BY <2>1, <2>2, FS_AddElement, FS_CardinalityType
  <2>4. Cardinality(upto) = r
    BY <1>4 DEF Rank, upto
  <2>5. q * d \in Nat
    BY <1>2
  <2>6. Cardinality(before) = q * d
    BY <2>3, <2>4, <2>5
  <2> QED BY <2>6 DEF before
<1>6. (q * d) \div d = q
  BY <1>2
<1> QED BY <1>5, <1>6 DEF d, q

\* The pages' modules count as this one does.
LEMMA SameCountListed == \A S : Y!Cardinality(S) = Cardinality(S)
BY DEF Y!Cardinality, Cardinality

\* A list read shows none of its items only past the last page.
LEMMA ListIsPage ==
  ASSUME v3 \in Nat \ {0}
  PROVE  LET l == Y!Listed(Y!Key) IN
         /\ l.total \in Nat /\ l.key = Y!Key /\ l.key.page = v3
         /\ l.items = {} => l.total = 0 \/ v3 > (l.total + PageSize - 1) \div PageSize
<1> DEFINE all == Y!Filtered(Y!Key)
           l == Y!Listed(Y!Key)
<1>1. l = [key |-> Y!Key, total |-> Cardinality(all),
           items |-> {i \in all : Cardinality({j \in all : j < i}) \div PageSize = Y!Key.page - 1}]
  BY SameCountListed DEF Y!Listed
<1>2. Y!Key.page = v3
  BY DEF Y!Key
<1>3. all \in SUBSET (1..MaxItem) /\ MaxItem \in Nat
  BY ConsoleAssumption DEF ConsoleAssumption, Y!BrowseAssumption, Y!Filtered, Y!Items
<1> HIDE DEF all, l
<1>4. all \in SUBSET Nat /\ IsFiniteSet(all)
  <2>1. IsFiniteSet(1..MaxItem)
    BY <1>3, FS_Interval
  <2>2. IsFiniteSet(all)
    BY <1>3, <2>1, FS_Subset
  <2>3. all \in SUBSET Nat
    BY <1>3
  <2> QED BY <2>2, <2>3
<1>5. Cardinality(all) \in Nat
  BY <1>4, FS_CardinalityType
<1>6. PageSize \in Nat \ {0} /\ (Cardinality(all) + PageSize - 1) \div PageSize \in Nat
  BY <1>5, PagesBound, ConsoleAssumption DEF ConsoleAssumption, Y!BrowseAssumption
<1>7. ASSUME l.items = {}, Cardinality(all) # 0
      PROVE  v3 > (Cardinality(all) + PageSize - 1) \div PageSize
  <2> SUFFICES ASSUME v3 <= (Cardinality(all) + PageSize - 1) \div PageSize PROVE FALSE
    BY <1>6
  <2>1. PICK i \in all : Cardinality({j \in all : j < i}) \div PageSize = v3 - 1
    BY <1>4, <1>7, PageHasItems
  <2>2. l.items = {k \in all : Cardinality({j \in all : j < k}) \div PageSize = v3 - 1}
    BY <1>1, <1>2
  <2> QED BY <1>7, <2>1, <2>2
<1>8. l.total = Cardinality(all) /\ l.key = Y!Key
  BY <1>1
<1> QED BY <1>2, <1>5, <1>7, <1>8 DEF l


LEMMA BrowseStart == Y!BrowseInit => BrowseInv
BY ConsoleAssumption DEF ConsoleAssumption, Y!BrowseAssumption, Y!BrowseInit, BrowseInv

\* The effect has run: no fallback is left to do on a page with more than one.
LEMMA NoneFell ==
  ASSUME BrowseInv, Y!Rendered, v3 # 1, v7 # None, v7.total # 0
  PROVE  Y!LastPage = None
<1> SUFFICES ASSUME Y!LastPage # None PROVE FALSE
  OBVIOUS
<1>1. v7.key = Y!Key /\ v7.items = {} /\ Y!LastPage = Y!Pages
  BY DEF Y!LastPage
<1>2. v8 = Y!Pages
  BY <1>1 DEF Y!Rendered
<1>3. v8 = v3
  BY <1>1, <1>2 DEF BrowseInv
<1>4. v7.key.page = v3
  BY <1>1 DEF Y!Key
<1>5. v3 > (v7.total + PageSize - 1) \div PageSize
  BY <1>1, <1>4 DEF BrowseInv
<1>6. v3 = (v7.total + PageSize - 1) \div PageSize
  BY <1>2, <1>3 DEF Y!Pages
<1>7. v3 \in Nat
  BY DEF BrowseInv
<1> QED BY <1>5, <1>6, <1>7

LEMMA PagesIsPage ==
  ASSUME BrowseInv, v7 # None
  PROVE  Y!Pages \in Nat \ {0}
<1>1. v7.total \in Nat
  BY DEF BrowseInv
<1> QED BY <1>1, PagesBound DEF Y!Pages

\* A list read is of the page.
LEMMA BrowseList ==
  ASSUME BrowseInv, v7' \in {v7, Y!Listed(Y!Key)}, UNCHANGED <<v3, v8>>
  PROVE  BrowseInv'
<1>1. v3 \in Nat \ {0}
  BY DEF BrowseInv
<1> DEFINE l == Y!Listed(Y!Key)
<1>2. /\ l.total \in Nat /\ l.key.page = v3
      /\ l.items = {} => l.total = 0 \/ v3 > (l.total + PageSize - 1) \div PageSize
  BY <1>1, ListIsPage
<1>3. v7' \in {v7, l}
  OBVIOUS
<1> HIDE DEF l
<1>4. CASE v7' = v7
  BY <1>4 DEF BrowseInv
<1>5. CASE v7' = l
  BY <1>1, <1>2, <1>5 DEF BrowseInv
<1> QED BY <1>3, <1>4, <1>5

LEMMA BrowseMoves ==
  ASSUME BrowseInv,
         \/ Y!FallBack \/ Y!Applied
         \/ \E s \in Chips : Y!SetStatus(s)
         \/ \E to \in {v3 - 1, v3 + 1} : Y!Turn(to)
  PROVE  BrowseInv'
<1>1. v7' = v7
  BY DEF Y!FallBack, Y!Applied, Y!SetStatus, Y!Turn
<1> SUFFICES v3' \in Nat \ {0} /\ (v8' = None \/ v8' = v3' \/ v3' = 1)
  BY <1>1 DEF BrowseInv
<1>2. v3 \in Nat \ {0} /\ (v8 = None \/ v8 = v3 \/ v3 = 1)
  BY DEF BrowseInv
<1>3. CASE Y!FallBack
  <2>1. CASE Y!LastPage = None
    BY <1>2, <1>3, <2>1 DEF Y!FallBack
  <2>2. CASE Y!LastPage # None
    <3>1. v7 # None /\ Y!LastPage = Y!Pages
      BY <2>2 DEF Y!LastPage
    <3>2. Y!LastPage \in Nat \ {0}
      BY <3>1, PagesIsPage
    <3>3. v3' = Y!LastPage /\ v8' = Y!LastPage
      BY <1>3, <2>2 DEF Y!FallBack
    <3> QED BY <3>2, <3>3
  <2> QED BY <2>1, <2>2
<1>4. CASE Y!Applied \/ \E s \in Chips : Y!SetStatus(s)
  BY <1>2, <1>4 DEF Y!Applied, Y!SetStatus
<1>5. CASE \E to \in {v3 - 1, v3 + 1} : Y!Turn(to)
  <2>1. PICK to \in {v3 - 1, v3 + 1} : Y!Turn(to)
    BY <1>5
  <2>2. Y!Rendered /\ v7 # None /\ v7.total > PageSize /\ v3' = to /\ v8' = v8
        /\ ((to = v3 - 1 /\ v3 > 1) \/ to = v3 + 1)
    BY <2>1 DEF Y!Turn
  <2>3. v3' \in Nat \ {0}
    BY <1>2, <2>2
  <2>4. v7.total # 0
    <3>1. PageSize \in Nat /\ v7.total \in Nat
      BY <2>2, ConsoleAssumption DEF ConsoleAssumption, Y!BrowseAssumption, BrowseInv
    <3> QED BY <2>2, <3>1
  <2>5. v8 = None
    <3>1. CASE v3 # 1
      <4>1. Y!LastPage = None
        BY <2>2, <2>4, <3>1, NoneFell
      <4> QED BY <2>2, <4>1 DEF Y!Rendered
    <3>2. CASE v3 = 1
      <4>1. ~(v3 > 1)
        BY <3>2
      <4> QED BY <2>2, <4>1 DEF Y!Rendered, Y!LastPage
    <3> QED BY <3>1, <3>2
  <2> QED BY <2>2, <2>3, <2>5
<1> QED BY <1>3, <1>4, <1>5

LEMMA BrowseStep == BrowseInv /\ Y!BrowseNext => BrowseInv'
<1> SUFFICES ASSUME BrowseInv, Y!BrowseNext PROVE BrowseInv'
  OBVIOUS
<1>1. CASE \/ Y!FallBack \/ Y!Applied
           \/ \E s \in Chips : Y!SetStatus(s)
           \/ \E to \in {v3 - 1, v3 + 1} : Y!Turn(to)
  BY <1>1, BrowseMoves
<1>2. CASE \/ Y!Read \/ Y!Type
           \/ \E i \in Y!Items :
                \/ \E to \in {"pending", "approved", "removed"} : Y!Review(i, to)
                \/ \E state \in {"pending", "gone"} : Y!Elsewhere(i, state)
           \/ \E c \in v9 : Y!Serve(c) \/ Y!Answered(c)
  <2>1. UNCHANGED <<v3, v8>> /\ v7' \in {v7, Y!Listed(Y!Key)}
    BY <1>2 DEF Y!Read, Y!Type, Y!Review, Y!Elsewhere, Y!Serve, Y!Answered, Y!url
  <2> QED BY <2>1, BrowseList
<1> QED BY <1>1, <1>2 DEF Y!BrowseNext

LEMMA BrowseShows == BrowseInv => Y!NeverPastTheLast
<1> SUFFICES ASSUME BrowseInv, v7 # None, v7.key = Y!Key, Y!Rendered, v7.items = {}, v3 # 1
             PROVE  FALSE
  BY DEF Y!NeverPastTheLast
<1>1. v3 \in Nat \ {0} /\ v3 > 1
  BY DEF BrowseInv
<1>2. Y!LastPage = Y!Pages /\ Y!Pages \in Nat \ {0}
  BY <1>1, PagesIsPage DEF Y!LastPage
<1>3. v8 = Y!Pages /\ v8 # None
  BY <1>2, StateAssumption DEF Y!Rendered
<1>4. v8 = v3
  BY <1>3 DEF BrowseInv
<1>5. v7.total # 0
  BY <1>1, <1>3, <1>4 DEF Y!Pages
<1>6. Y!LastPage = None
  BY <1>5, NoneFell
<1> QED BY <1>2, <1>3, <1>6 DEF Y!Rendered

-----------------------------------------------------------------------------
\* The console.
ShownInv ==
  /\ page = "shell" => ToastInv
  /\ page \in Reviews => ReviewInv
  /\ page = "crash" => DeskInv
  /\ page = "users" => RowsInv
  /\ page = "me" => ProfileInv
  /\ page = "community" => BrowseInv

LEMMA ShownStarts == Init => ShownInv
BY ToastInit, ReviewStarts, DeskStarts, RowsStart, ProfileStart, BrowseStart DEF Init, ShownInv, Reviews

\* The invariants are about the pages' variables alone.
LEMMA DecisionsStay ==
  ASSUME UNCHANGED pageVars
  PROVE  /\ ToastInv => ToastInv'
         /\ ReviewInv => ReviewInv'
         /\ DeskInv => DeskInv'
<1>1. UNCHANGED <<v1, v2, v3, v4, v5, v6, v7, v8, v9, v10, v11, v12, v13, v14, v15, v16,
                  v17, v18, v19, v20, v21, v22, v23, v24, v25, v26>>
  BY DEF pageVars, rest8, rest10, rest11, rest12, rest13, rest15, rest25
<1>2. ToastInv => ToastInv'
  BY <1>1 DEF ToastInv, O!ToastTypeOK, O!SentOrUndone, O!WindowIsOwn
<1>3. ReviewInv => ReviewInv'
  <2>1. ReviewToast => ReviewToast'
    BY <1>1, <1>2 DEF ReviewToast
  <2>2. BranchInv => BranchInv'
    BY <1>1 DEF BranchInv, SeenOn
  <2>3. SeenInv(v14) => SeenInv(v14)'
    BY <1>1 DEF SeenInv, SeenOn
  <2>4. VisitInv => VisitInv'
    BY <1>1 DEF VisitInv
  <2>5. OutcomeInv => OutcomeInv'
    BY <1>1 DEF OutcomeInv, OwnWaits, SomeOwn, OneOwn, Own
  <2> QED BY <2>1, <2>2, <2>3, <2>4, <2>5 DEF ReviewInv
<1>4. DeskInv => DeskInv'
  <2>1. CrashInv => CrashInv'
    BY <1>1 DEF CrashInv, K!ToastTypeOK, K!SentOrUndone, K!WindowIsOwn
  <2>2. CrashTypeOK /\ OpenedInv => CrashTypeOK' /\ OpenedInv'
    BY <1>1 DEF CrashTypeOK, OpenedInv
  <2>3. CrashShown => CrashShown'
    BY <1>1 DEF CrashShown, ChangeOwn, IssueOwn, K!Mine
  <2> QED BY <2>1, <2>2, <2>3 DEF DeskInv
<1> QED BY <1>2, <1>3, <1>4

LEMMA ListsStay ==
  ASSUME UNCHANGED pageVars
  PROVE  /\ RowsInv => RowsInv'
         /\ ProfileInv => ProfileInv'
         /\ BrowseInv => BrowseInv'
<1>1. UNCHANGED <<v1, v2, v3, v4, v5, v6, v7, v8, v9>>
  BY DEF pageVars, rest8
<1>2. RowsInv => RowsInv'
  BY <1>1 DEF RowsInv, NoneDone
<1>3. ProfileInv => ProfileInv'
  BY <1>1 DEF ProfileInv, Settled, Agrees, M!Asked
<1>4. BrowseInv => BrowseInv'
  BY <1>1 DEF BrowseInv
<1> QED BY <1>2, <1>3, <1>4

\* A step is one of the page open, or leaves every page.
LEMMA ShownStep == ShownInv /\ [Next]_vars => ShownInv'
<1> SUFFICES ASSUME ShownInv, [Next]_vars PROVE ShownInv'
  OBVIOUS
<1>1. page' = page
  BY DEF Next, vars
<1>2. CASE UNCHANGED pageVars
  BY <1>1, <1>2, DecisionsStay, ListsStay DEF ShownInv
<1>3. CASE OtherPage
  <2>1. page = "shell" => O!ToastNext
    BY <1>3 DEF OtherPage
  <2>2. page \in Reviews => D!ReviewNext
    BY <1>3 DEF OtherPage, Reviews
  <2>3. page = "crash" => K!DeskNext
    BY <1>3 DEF OtherPage
  <2>4. /\ page = "users" => U!UsersNext
        /\ page = "me" => M!ProfileNext
        /\ page = "community" => Y!BrowseNext
    BY <1>3 DEF OtherPage
  <2> QED BY <1>1, <2>1, <2>2, <2>3, <2>4, ToastStep, ReviewStep, DeskStep, RowsStep, ProfileStep, BrowseStep
      DEF ShownInv
<1> QED BY <1>2, <1>3 DEF Next, vars

LEMMA ShownAlways == Spec => []ShownInv
BY ShownStarts, ShownStep, PTL DEF Spec

\* The delayed decisions of the console are sent exactly once or undone, its
\* toasts close none but their own, and no visit decides a pull request twice.
THEOREM OnceDecided == Spec => []DecidedOnce
<1>1. ShownInv => DecidedOnce
  <2> SUFFICES ASSUME ShownInv PROVE DecidedOnce
    OBVIOUS
  <2>1. page = "shell" => O!ToastTypeOK /\ O!SentOrUndone /\ O!WindowIsOwn
    BY DEF ShownInv, ToastInv
  <2>2. page \in Reviews => D!ToastTypeOK /\ D!SentOrUndone /\ D!WindowIsOwn /\ D!OneDecisionPerVisit
    BY ReviewToasts, ReviewDecides DEF ShownInv
  <2>3. page = "crash" => K!ToastTypeOK /\ K!SentOrUndone /\ K!WindowIsOwn /\ K!OneIssue
    BY DeskToasts, DeskOneIssue DEF ShownInv
  <2> QED BY <2>1, <2>2, <2>3 DEF DecidedOnce
<1> QED BY <1>1, ShownAlways, PTL

\* A merge ships the entries the reviewer kept of the head the reviewer saw,
\* whatever was pushed since.
THEOREM ReviewedMerges == Spec => []MergedAsReviewed
<1>1. ShownInv => MergedAsReviewed
  BY ReviewMerges DEF ShownInv, MergedAsReviewed
<1> QED BY <1>1, ShownAlways, PTL

\* What a page shows before the server has it is on its way, and a page with
\* nothing under way shows what the server has.
THEOREM ServedShows == Spec => []ShownIsServed
<1>1. ShownInv => ShownIsServed
  <2> SUFFICES ASSUME ShownInv PROVE ShownIsServed
    OBVIOUS
  <2>1. page \in Reviews => D!ShownIsPending
    BY ReviewShows DEF ShownInv
  <2>2. page = "crash" => K!ShownIsPending
    BY DeskShows DEF ShownInv
  <2>3. /\ page = "me" => M!IdleShowsServer
        /\ page = "users" => U!QuietShowsServer
        /\ page = "community" => Y!NeverPastTheLast
    BY ProfileShows, RowsShow, BrowseShows DEF ShownInv
  <2> QED BY <2>1, <2>2, <2>3 DEF ShownIsServed
<1> QED BY <1>1, ShownAlways, PTL
=============================================================================

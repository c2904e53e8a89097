---------------------------- MODULE ConsoleProofs ----------------------------
(***************************************************************************)
(* For any words, issues, notices, releases, notifications, owners and     *)
(* members: what the pages of the console promise of every behaviour.      *)
(* Page by page, with the invariant each needs of its own variables; the   *)
(* theorems combine those into the properties of the whole console.        *)
(* DecisionProofs has the pages that show a decision before the server has *)
(* it.                                                                     *)
(***************************************************************************)
EXTENDS MCConsole, SequenceTheorems, FiniteSetTheorems, TLAPS

-----------------------------------------------------------------------------
\* The permissions page.  A sign-in and a change that lock the same row exclude
\* each other, so what a change deletes is all there is when it commits.
Change == [op : {"add", "enable", "disable", "revoke", "set_role"}, on : Members,
           role : Roles \cup {None},
           step : {"sent", "begun", "updated", "deleted", "done", "refused"},
           dead : SUBSET Nat]

TypeOK ==
  /\ row \in [Members -> [state : {"none", "on", "off"}, role : Roles \cup {None}]]
  /\ sessions \in [Members -> SUBSET Nat]
  /\ cleared \in [Members -> Nat]
  /\ signin \in [Members -> {"idle", "allowed", "inserted"}]
  /\ change \in [Owners -> Change \cup {None}]

\* The owner's change holds the lock of m's row.
Holds(o, m) ==
  change[o] # None /\ change[o].on = m /\ change[o].step \in {"updated", "deleted"}

\* The lock of a row has one holder: a sign-in, or one change.
OneHolder ==
  \A m \in Members :
    /\ signin[m] = "inserted" => \A o \in Owners : ~Holds(o, m)
    /\ \A o, p \in Owners : Holds(o, m) /\ Holds(p, m) => o = p

\* A change that has deleted the sessions it saw has seen all there are.
DeadAreAll ==
  \A o \in Owners :
    At(o, "deleted") /\ Clears(change[o]) => sessions[change[o].on] \subseteq change[o].dead

IInv == TypeOK /\ OneHolder /\ DeadAreAll /\ SessionsStartAfresh

----------------------------------------------------------------------------
LEMMA InitIInv == MembersInit => IInv
BY DEF MembersInit, IInv, TypeOK, OneHolder, Holds, DeadAreAll, At, SessionsStartAfresh

\* A step of a change that touches no row, session or lock keeps the invariant.
LEMMA StepIInv ==
  ASSUME IInv, NEW o \in Owners, change[o] # None,
         NEW s \in {"begun", "done", "refused"}, Step(o, s),
         UNCHANGED <<row, sessions, cleared, signin>>
  PROVE  IInv'
<1> USE DEF IInv, Step
<1>1. TypeOK'
  BY DEF TypeOK, Change
<1>2. change'[o].step = s /\ \A p \in Owners \ {o} : change'[p] = change[p]
  BY DEF TypeOK, Change
<1>3. \A p \in Owners, m \in Members : Holds(p, m)' => Holds(p, m)
  BY <1>2 DEF TypeOK, Holds
<1>4. OneHolder'
  BY <1>3 DEF OneHolder
<1>5. DeadAreAll'
  BY <1>2 DEF DeadAreAll, At, Clears
<1>6. SessionsStartAfresh'
  BY DEF SessionsStartAfresh
<1> QED BY <1>1, <1>4, <1>5, <1>6

LEMMA SubmitIInv ==
  ASSUME IInv, NEW o \in Owners, NEW op \in {"add", "enable", "disable", "revoke", "set_role"},
         NEW m \in Members, NEW role \in Roles \cup {None}, Submit(o, op, m, role)
  PROVE  IInv'
<1> USE DEF IInv, Submit
<1>1. TypeOK'
  BY DEF TypeOK, Change
<1>2. change'[o].step = "sent" /\ \A p \in Owners \ {o} : change'[p] = change[p]
  BY DEF TypeOK, Change
<1>3. \A p \in Owners, n \in Members : Holds(p, n)' => Holds(p, n)
  BY <1>2 DEF TypeOK, Holds
<1>4. OneHolder'
  BY <1>3 DEF OneHolder
<1>5. DeadAreAll'
  BY <1>2 DEF DeadAreAll, At, Clears
<1>6. SessionsStartAfresh'
  BY DEF SessionsStartAfresh
<1> QED BY <1>1, <1>4, <1>5, <1>6

\* The row is written only while nobody else holds its lock.
LEMMA UpdateIInv ==
  ASSUME IInv, NEW o \in Owners, Update(o) PROVE IInv'
<1>1. CASE Step(o, "done") \/ Step(o, "refused")
  BY <1>1, StepIInv DEF Update, At
<1>2. CASE Step(o, "updated")
  <2> USE <1>2 DEF Step, IInv
  <2> DEFINE m == change[o].on
  <2>1. change[o] \in Change /\ change[o] # None /\ ~Locked(m)
    BY DEF Update, At, TypeOK
  <2>2. TypeOK'
    BY <2>1 DEF TypeOK, Change, Update
  <2>3. /\ change'[o].step = "updated" /\ change'[o].on = m
        /\ \A p \in Owners \ {o} : change'[p] = change[p]
    BY <2>1 DEF TypeOK, Change
  <2>4. \A p \in Owners, n \in Members : Holds(p, n)' => Holds(p, n) \/ (p = o /\ n = m)
    BY <2>3 DEF Holds
  <2>5. signin[m] # "inserted" /\ \A p \in Owners : ~Holds(p, m)
    BY <2>1 DEF Locked, Holds
  <2>6. OneHolder'
    BY <2>4, <2>5, signin' = signin DEF OneHolder, Update
  <2>7. DeadAreAll'
    BY <2>3 DEF DeadAreAll, At, Clears, Update
  <2>8. SessionsStartAfresh'
    BY DEF SessionsStartAfresh, Update
  <2> QED BY <2>2, <2>6, <2>7, <2>8
<1> QED BY <1>1, <1>2 DEF Update

\* What is deleted is all there is.
LEMMA DeleteIInv ==
  ASSUME IInv, NEW o \in Owners, Delete(o) PROVE IInv'
<1> USE DEF IInv, Delete
<1> DEFINE dead == IF Clears(change[o]) THEN sessions[change[o].on] ELSE {}
<1>1. change[o] \in Change /\ change[o].step = "updated"
  BY DEF At, TypeOK
<1>2. dead \in SUBSET Nat
  BY <1>1 DEF TypeOK, Change
<1>3. change' = [change EXCEPT ![o] = [[change[o] EXCEPT !.step = "deleted"] EXCEPT !.dead = dead]]
  BY <1>1 DEF TypeOK, Change
<1>4. /\ change'[o].step = "deleted" /\ change'[o].on = change[o].on
      /\ change'[o].op = change[o].op /\ change'[o].dead = dead
      /\ \A p \in Owners \ {o} : change'[p] = change[p]
  BY <1>1, <1>3 DEF TypeOK, Change
<1>5. TypeOK'
  BY <1>1, <1>2, <1>3 DEF TypeOK, Change
<1>6. \A p \in Owners, n \in Members : Holds(p, n)' => Holds(p, n)
  BY <1>1, <1>4 DEF Holds, At
<1>7. OneHolder'
  BY <1>6 DEF OneHolder
<1>8. DeadAreAll'
  BY <1>4 DEF DeadAreAll, At, Clears
<1>9. SessionsStartAfresh'
  BY DEF SessionsStartAfresh
<1> QED BY <1>5, <1>7, <1>8, <1>9

\* The sessions go with the commit, and the member's next era begins.
LEMMA CommitIInv ==
  ASSUME IInv, NEW o \in Owners, Commit(o) PROVE IInv'
<1> USE DEF IInv, Commit
<1> DEFINE c == change[o]
           m == change[o].on
<1>1. c \in Change /\ c # None /\ c.step = "deleted" /\ m \in Members
  BY DEF At, TypeOK, Change
<1>2. /\ change'[o].step = "done" /\ \A p \in Owners \ {o} : change'[p] = change[p]
      /\ row' = [row EXCEPT ![m] = After(c)]
      /\ sessions' = [sessions EXCEPT ![m] = @ \ c.dead]
      /\ cleared' = [cleared EXCEPT ![m] = IF Clears(c) THEN @ + 1 ELSE @]
  BY <1>1 DEF Step, TypeOK, Change
<1>3. /\ c.op = "set_role" => After(c).state = row[m].state
      /\ c.op = "add" \/ c.op = "set_role" =>
           After(c) \in [state : {"none", "on", "off"}, role : Roles \cup {None}]
  BY <1>1 DEF After, TypeOK, Change
<1>4. After(c) \in [state : {"none", "on", "off"}, role : Roles \cup {None}]
  BY <1>1, <1>3 DEF After, TypeOK, Change
<1>5. TypeOK'
  <2>1. change' \in [Owners -> Change \cup {None}]
    BY <1>1 DEF Step, TypeOK, Change
  <2>2. row' \in [Members -> [state : {"none", "on", "off"}, role : Roles \cup {None}]]
    BY <1>2, <1>4 DEF TypeOK
  <2>3. sessions' \in [Members -> SUBSET Nat] /\ cleared' \in [Members -> Nat]
    BY <1>1, <1>2 DEF TypeOK
  <2> QED BY <2>1, <2>2, <2>3 DEF TypeOK
<1>6. \A p \in Owners, n \in Members : Holds(p, n)' => Holds(p, n) /\ p # o
  BY <1>2 DEF Holds
<1>7. OneHolder'
  BY <1>6 DEF OneHolder
<1>8. DeadAreAll'
  BY <1>1, <1>2 DEF DeadAreAll, At, Clears, TypeOK, Change
<1>9. SessionsStartAfresh'
  <2> SUFFICES ASSUME NEW n \in Members, row'[n].state # "none"
               PROVE  sessions'[n] \subseteq {cleared'[n]}
    BY DEF SessionsStartAfresh
  <2>1. CASE n # m
    BY <1>1, <1>2, <2>1 DEF SessionsStartAfresh, TypeOK
  <2>2. CASE n = m /\ Clears(c)
    <3>1. sessions[m] \subseteq c.dead
      BY <1>1, <2>2 DEF DeadAreAll, At
    <3>2. sessions'[m] = {}
      BY <1>1, <1>2, <3>1 DEF TypeOK
    <3> QED BY <2>2, <3>2
  <2>3. CASE n = m /\ ~Clears(c)
    BY <1>1, <1>2, <1>3, <2>3 DEF SessionsStartAfresh, TypeOK, Clears
  <2> QED BY <2>1, <2>2, <2>3
<1> QED BY <1>5, <1>7, <1>8, <1>9

LEMMA AnsweredIInv ==
  ASSUME IInv, NEW o \in Owners, Answered(o) PROVE IInv'
<1> USE DEF IInv, Answered
<1>1. change'[o] = None /\ \A p \in Owners \ {o} : change'[p] = change[p]
  BY DEF TypeOK
<1>2. TypeOK'
  BY DEF TypeOK
<1>3. \A p \in Owners, n \in Members : Holds(p, n)' => Holds(p, n)
  BY <1>1 DEF Holds
<1>4. OneHolder'
  BY <1>3 DEF OneHolder
<1>5. DeadAreAll'
  BY <1>1 DEF DeadAreAll, At, Clears
<1>6. SessionsStartAfresh'
  BY DEF SessionsStartAfresh
<1> QED BY <1>2, <1>4, <1>5, <1>6

\* A session is inserted, and committed, while no change holds the row.
LEMMA SignInIInv ==
  ASSUME IInv, NEW m \in Members, Allow(m) \/ Insert(m) \/ SignedIn(m) PROVE IInv'
<1> USE DEF IInv
<1>1. CASE Allow(m)
  BY <1>1 DEF Allow, TypeOK, OneHolder, Holds, DeadAreAll, At, Clears, SessionsStartAfresh
<1>2. CASE Insert(m)
  <2>1. \A o \in Owners : ~Holds(o, m)
    BY <1>2 DEF Insert, Locked, Holds
  <2> QED
    BY <1>2, <2>1 DEF Insert, TypeOK, OneHolder, Holds, DeadAreAll, At, Clears, SessionsStartAfresh
<1>3. CASE SignedIn(m)
  <2> USE <1>3 DEF SignedIn
  <2>1. \A o \in Owners : ~Holds(o, m)
    BY DEF OneHolder
  <2>2. \A n \in Members : sessions'[n] \subseteq sessions[n] \cup (IF n = m THEN {cleared[n]} ELSE {})
    BY DEF TypeOK
  <2>3. TypeOK'
    BY DEF TypeOK
  <2>4. OneHolder'
    BY <2>1 DEF OneHolder, Holds, TypeOK
  <2>5. DeadAreAll'
    <3> SUFFICES ASSUME NEW o \in Owners, At(o, "deleted"), Clears(change[o])
                 PROVE  sessions'[change[o].on] \subseteq change[o].dead
      BY DEF DeadAreAll, At, Clears
    <3>1. change[o].on \in Members /\ change[o].on # m
      BY <2>1 DEF At, Holds, TypeOK, Change
    <3> QED BY <2>2, <3>1 DEF DeadAreAll
  <2>6. SessionsStartAfresh'
    BY <2>2 DEF SessionsStartAfresh
  <2> QED BY <2>3, <2>4, <2>5, <2>6
<1> QED BY <1>1, <1>2, <1>3

\* A step that leaves members, sessions and changes alone.
LEMMA OtherIInv ==
  ASSUME IInv, UNCHANGED <<row, sessions, cleared, signin, change>> PROVE IInv'
BY DEF IInv, TypeOK, OneHolder, Holds, DeadAreAll, At, Clears, SessionsStartAfresh

LEMMA NextIInv == IInv /\ [MembersNext]_memberVars => IInv'
<1> SUFFICES ASSUME IInv, [MembersNext]_memberVars PROVE IInv'
  OBVIOUS
<1>1. CASE UNCHANGED memberVars
  BY <1>1, OtherIInv DEF memberVars
<1>2. ASSUME NEW o \in Owners, Begin(o) PROVE IInv'
  BY <1>2, StepIInv DEF Begin, At
<1>3. ASSUME NEW o \in Owners, Fail(o) PROVE IInv'
  BY <1>3, StepIInv DEF Fail
<1>4. ASSUME NEW o \in Owners,
             \/ ReadPage(o) \/ (\E cell \in Cells : Toggle(o, cell))
             \/ \E t \in toggles[o] : ServeToggle(o, t) \/ ToggleAnswered(o, t)
      PROVE IInv'
  BY <1>4, OtherIInv DEF ReadPage, Toggle, ServeToggle, ToggleAnswered
<1>5. ASSUME NEW o \in Owners,
             \/ \E op \in {"enable", "disable", "revoke"}, m \in Members : Submit(o, op, m, None)
             \/ \E op \in {"add", "set_role"}, m \in Members, role \in Roles : Submit(o, op, m, role)
      PROVE IInv'
  BY <1>5, SubmitIInv
<1> QED
  BY <1>1, <1>2, <1>3, <1>4, <1>5, UpdateIInv, DeleteIInv, CommitIInv, AnsweredIInv, SignInIInv
  DEF MembersNext

\* The inductive invariant: types, one holder of each row's lock, and no session
\* beside those a change deletes (AdminMembersHTTP, CreateAdminSession).
THEOREM MembersInvariance == MembersSpec => []IInv
BY InitIInv, NextIInv, PTL DEF MembersSpec

\* "historical credentials never regain access": whatever sign-ins were under way
\* while an owner added, enabled, disabled or signed out a member, the member's
\* sessions are from after the last time (AdminMembersHTTP).
THEOREM MembersStartAfresh == MembersSpec => []SessionsStartAfresh
<1>1. IInv => SessionsStartAfresh
  BY DEF IInv
<1> QED BY <1>1, MembersInvariance, PTL

----------------------------------------------------------------------------
\* The limit.  Changes of members follow one another, so the count that a new
\* member was accepted on is the count it is added to.
Present == {m \in Members : row[m].state # "none"}
Busy(o) == change[o] # None /\ change[o].step \in {"begun", "updated", "deleted"}

OneChange == \A o, p \in Owners : Busy(o) /\ Busy(p) => o = p

StaysAccepted ==
  \A o \in Owners :
    change[o] # None /\ change[o].step \in {"updated", "deleted"} => Accepted(change[o])

LInv == OneChange /\ StaysAccepted /\ WithinLimit

LEMMA InitLInv == Limit \in Nat /\ MembersInit => LInv
<1> SUFFICES ASSUME Limit \in Nat, MembersInit PROVE LInv
  OBVIOUS
<1>1. OneChange /\ StaysAccepted
  BY DEF MembersInit, OneChange, Busy, StaysAccepted
<1>2. {m \in Members : row[m].state # "none"} = {}
  BY DEF MembersInit
<1> QED BY <1>1, <1>2, FS_EmptySet DEF LInv, WithinLimit

\* A change that no longer writes, or does not yet, and rows that stay.
LEMMA RowsStayLInv ==
  ASSUME IInv, LInv, row' = row, NEW o \in Owners,
         \A p \in Owners \ {o} : change'[p] = change[p],
         Busy(o)' => \A p \in Owners \ {o} : ~Busy(p),
         change'[o] # None /\ change'[o].step \in {"updated", "deleted"} => Accepted(change'[o])
  PROVE  LInv'
<1>1. OneChange'
  BY DEF LInv, OneChange, Busy
<1>2. StaysAccepted'
  BY DEF LInv, StaysAccepted, Accepted
<1>3. WithinLimit'
  BY DEF LInv, WithinLimit
<1> QED BY <1>1, <1>2, <1>3 DEF LInv

\* A new step of one change, its other fields as they were.
LEMMA StepLInv ==
  ASSUME IInv, LInv, row' = row, NEW o \in Owners, change[o] # None,
         NEW s \in {"begun", "updated", "done", "refused"}, Step(o, s),
         s = "begun" => \A p \in Owners : ~Busy(p),
         s = "updated" => Busy(o) /\ Accepted(change[o])
  PROVE  LInv'
<1>1. /\ change'[o].step = s /\ change'[o].op = change[o].op /\ change'[o].on = change[o].on
      /\ \A p \in Owners \ {o} : change'[p] = change[p]
  BY DEF Step, IInv, TypeOK, Change
<1>2. Busy(o)' => \A p \in Owners \ {o} : ~Busy(p)
  BY <1>1 DEF Busy, LInv, OneChange
<1>3. s = "updated" => Accepted(change'[o])
  BY <1>1 DEF Accepted
<1> QED BY <1>1, <1>2, <1>3, RowsStayLInv

LEMMA DeleteLInv ==
  ASSUME IInv, LInv, NEW o \in Owners, Delete(o) PROVE LInv'
<1>1. change[o] \in Change /\ change[o] # None /\ change[o].step = "updated"
  BY DEF Delete, At, IInv, TypeOK
<1> DEFINE dead == IF Clears(change[o]) THEN sessions[change[o].on] ELSE {}
<1>2. change' = [change EXCEPT ![o] = [[change[o] EXCEPT !.step = "deleted"] EXCEPT !.dead = dead]]
  BY <1>1 DEF Delete, IInv, TypeOK, Change
<1>3. /\ change'[o].op = change[o].op /\ change'[o].on = change[o].on
      /\ \A p \in Owners \ {o} : change'[p] = change[p]
  BY <1>1, <1>2 DEF IInv, TypeOK, Change
<1>4. Busy(o) /\ \A p \in Owners \ {o} : ~Busy(p)
  BY <1>1 DEF LInv, OneChange, Busy
<1>5. Accepted(change'[o])
  BY <1>1, <1>3 DEF LInv, StaysAccepted, Accepted
<1> QED BY <1>3, <1>4, <1>5, RowsStayLInv DEF Delete

\* One more member, below the limit, or none.
LEMMA CommitLInv ==
  ASSUME IInv, LInv, IsFiniteSet(Members), Limit \in Nat, NEW o \in Owners, Commit(o)
  PROVE  LInv'
<1> DEFINE c == change[o]
           m == change[o].on
<1>1. c \in Change /\ c # None /\ c.step = "deleted" /\ m \in Members
  BY DEF Commit, At, IInv, TypeOK, Change
<1>2. /\ change'[o].step = "done" /\ \A p \in Owners \ {o} : change'[p] = change[p]
      /\ row' = [row EXCEPT ![m] = After(c)]
  BY <1>1 DEF Commit, Step, IInv, TypeOK, Change
<1>3. \A p \in Owners : ~Busy(p)'
  BY <1>1, <1>2 DEF LInv, OneChange, Busy
<1>4. OneChange' /\ StaysAccepted'
  BY <1>3 DEF OneChange, StaysAccepted, Busy
<1>5. Accepted(c)
  BY <1>1 DEF LInv, StaysAccepted
<1>6. IsFiniteSet(Present) /\ Cardinality(Present) \in Nat
  BY FS_Subset, FS_CardinalityType DEF Present
<1>7. WithinLimit'
  <2>1. CASE c.op = "add"
    <3>1. m \notin Present /\ Cardinality(Present) < Limit
      BY <1>5, <2>1 DEF Accepted, Present
    <3>2. Present' = Present \cup {m}
      BY <1>1, <1>2, <2>1 DEF Present, After, IInv, TypeOK
    <3>3. Cardinality(Present') = Cardinality(Present) + 1
      BY <1>6, <3>1, <3>2, FS_AddElement
    <3> QED BY <1>6, <3>1, <3>3 DEF WithinLimit, Present
  <2>2. CASE c.op # "add"
    <3>1. m \in Present
      BY <1>1, <1>5, <2>2 DEF Accepted, Present
    <3>2. After(c).state # "none"
      BY <1>1, <2>2, <3>1 DEF After, Present, Change, IInv, TypeOK
    <3>3. Present' = Present
      BY <1>1, <1>2, <3>1, <3>2 DEF Present, IInv, TypeOK
    <3> QED BY <3>3 DEF LInv, WithinLimit, Present
  <2> QED BY <2>1, <2>2
<1> QED BY <1>4, <1>7 DEF LInv

LEMMA NextLInv ==
  IsFiniteSet(Members) /\ Limit \in Nat /\ IInv /\ LInv /\ [MembersNext]_memberVars => LInv'
<1> SUFFICES ASSUME IsFiniteSet(Members), Limit \in Nat, IInv, LInv, [MembersNext]_memberVars
             PROVE  LInv'
  OBVIOUS
<1>1. ASSUME row' = row, change' = change PROVE LInv'
  BY <1>1 DEF LInv, OneChange, Busy, StaysAccepted, Accepted, WithinLimit
<1>2. ASSUME NEW o \in Owners, Begin(o) PROVE LInv'
  <2>1. \A p \in Owners : ~Busy(p)
    BY <1>2 DEF Begin, At, Busy
  <2> QED BY <1>2, <2>1, StepLInv DEF Begin, At
<1>3. ASSUME NEW o \in Owners, Update(o) PROVE LInv'
  <2>1. Busy(o) /\ change[o] # None
    BY <1>3 DEF Update, At, Busy
  <2>2. CASE Step(o, "done") \/ Step(o, "refused")
    BY <1>3, <2>1, <2>2, StepLInv DEF Update
  <2>3. CASE Step(o, "updated") /\ Accepted(change[o])
    BY <1>3, <2>1, <2>3, StepLInv DEF Update
  <2> QED BY <1>3, <2>2, <2>3 DEF Update
<1>4. ASSUME NEW o \in Owners, Fail(o) PROVE LInv'
  BY <1>4, StepLInv DEF Fail
<1>5. ASSUME NEW o \in Owners, Answered(o) PROVE LInv'
  <2>1. change'[o] = None /\ \A p \in Owners \ {o} : change'[p] = change[p]
    BY <1>5 DEF Answered, IInv, TypeOK
  <2> QED BY <1>5, <2>1, RowsStayLInv DEF Answered, Busy
<1>6. ASSUME NEW o \in Owners, NEW op, NEW m, NEW role, Submit(o, op, m, role) PROVE LInv'
  <2>1. change'[o].step = "sent" /\ \A p \in Owners \ {o} : change'[p] = change[p]
    BY <1>6 DEF Submit, IInv, TypeOK
  <2> QED BY <1>6, <2>1, RowsStayLInv DEF Submit, Busy
<1>7. ASSUME NEW o \in Owners,
             \/ ReadPage(o) \/ (\E cell \in Cells : Toggle(o, cell))
             \/ \E t \in toggles[o] : ServeToggle(o, t) \/ ToggleAnswered(o, t)
      PROVE LInv'
  BY <1>1, <1>7 DEF ReadPage, Toggle, ServeToggle, ToggleAnswered
<1>8. ASSUME NEW m \in Members, Allow(m) \/ Insert(m) \/ SignedIn(m) PROVE LInv'
  BY <1>1, <1>8 DEF Allow, Insert, SignedIn
<1>9. CASE UNCHANGED memberVars
  BY <1>1, <1>9 DEF memberVars
<1>10. ASSUME NEW o \in Owners,
             \/ \E op \in {"enable", "disable", "revoke"}, m \in Members : Submit(o, op, m, None)
             \/ \E op \in {"add", "set_role"}, m \in Members, role \in Roles : Submit(o, op, m, role)
      PROVE LInv'
  BY <1>6, <1>10
<1> QED
  BY <1>2, <1>3, <1>4, <1>5, <1>7, <1>8, <1>9, <1>10, DeleteLInv, CommitLInv DEF MembersNext

\* Owners who add members at the same time never exceed the limit: the count is
\* taken under the lock that the insertion holds (AdminMembersHTTP).
THEOREM MembersWithinLimit == MembersSpec => []WithinLimit
<1>1. MembersInit => LInv
  BY InitLInv, MembersAssumption
<1>2. IInv /\ LInv /\ [MembersNext]_memberVars => LInv'
  BY NextLInv, MembersAssumption
<1>3. LInv => WithinLimit
  BY DEF LInv
<1> QED BY <1>1, <1>2, <1>3, MembersInvariance, PTL DEF MembersSpec

----------------------------------------------------------------------------
\* The audit log: an entry is written with the change of its cell, and only when
\* the cell changes.
Toggled == [n : Int, cell : Cells, grant : BOOLEAN, latest : BOOLEAN, state : {"sent", "done"}]

LogInv ==
  /\ audit \in Seq([cell : Cells, grant : BOOLEAN])
  /\ toggles \in [Owners -> SUBSET Toggled] /\ made \in Int
  /\ AuditReplaysMatrix

LEMMA InitLogInv == MembersInit => LogInv
<1> SUFFICES ASSUME MembersInit PROVE LogInv
  OBVIOUS
<1>1. audit = <<>> /\ matrix = Protected /\ made = 0 /\ toggles = [o \in Owners |-> {}]
  BY DEF MembersInit
<1>2. AuditReplaysMatrix
  BY <1>1 DEF AuditReplaysMatrix, Granted
<1> QED BY <1>1, <1>2 DEF LogInv

LEMMA ToggleLogInv ==
  ASSUME LogInv, NEW o \in Owners, NEW cell \in Cells, Toggle(o, cell) PROVE LogInv'
<1> DEFINE new == [n |-> made', cell |-> cell, grant |-> cell \notin shown[o].matrix,
                   latest |-> TRUE, state |-> "sent"]
           older == {[t EXCEPT !.latest = FALSE] : t \in toggles[o]}
<1>1. made' \in Int /\ UNCHANGED <<audit, matrix>>
  BY DEF LogInv, Toggle
<1>2. (cell \notin shown[o].matrix) \in BOOLEAN
  OBVIOUS
<1>3. new \in Toggled
  BY <1>1, <1>2 DEF Toggled
<1>4. older \in SUBSET Toggled
  <2>1. toggles[o] \in SUBSET Toggled
    BY DEF LogInv
  <2>2. \A t \in Toggled : [t EXCEPT !.latest = FALSE] \in Toggled
    BY DEF Toggled
  <2> QED BY <2>1, <2>2
<1>5. toggles' = [toggles EXCEPT ![o] = older \cup {new}]
  BY DEF Toggle
<1>6. toggles' \in [Owners -> SUBSET Toggled]
  <2> HIDE DEF new, older
  <2> QED BY <1>3, <1>4, <1>5 DEF LogInv
<1>7. AuditReplaysMatrix'
  BY <1>1 DEF LogInv, AuditReplaysMatrix, Granted
<1> QED BY <1>1, <1>6, <1>7 DEF LogInv

\* What a replay leaves, one entry later.
LEMMA AppendGranted ==
  ASSUME NEW e \in [cell : Cells, grant : BOOLEAN],
         audit \in Seq([cell : Cells, grant : BOOLEAN]), audit' = Append(audit, e),
         NEW n \in Nat, n = Len(audit), NEW cell
  PROVE  /\ \A i \in 1..(n + 1) : Granted(cell, i)' <=> Granted(cell, i)
         /\ e.cell = cell => (Granted(cell, n + 2)' <=> e.grant)
         /\ e.cell # cell => (Granted(cell, n + 2)' <=> Granted(cell, n + 1))
<1>1. audit'[n + 1] = e /\ \A i \in 1..n : audit'[i] = audit[i]
  OBVIOUS
<1>2. \A i \in 1..(n + 1) : Granted(cell, i)' <=> Granted(cell, i)
  <2> SUFFICES ASSUME NEW i \in 1..(n + 1) PROVE Granted(cell, i)' <=> Granted(cell, i)
    OBVIOUS
  <2>1. \A j \in 1..(i - 1) :
          audit'[j] = audit[j] /\ \A k \in (j + 1)..(i - 1) : audit'[k] = audit[k]
    BY <1>1
  <2>2. \A j \in 1..(i - 1) :
          (\A k \in (j + 1)..(i - 1) : audit'[k].cell # cell)
            <=> \A k \in (j + 1)..(i - 1) : audit[k].cell # cell
    BY <2>1, Zenon
  <2> QED BY <2>1, <2>2, Zenon DEF Granted
<1>3. CASE e.cell = cell
  <2>1. \A j \in 1..n : ~\A k \in (j + 1)..(n + 1) : audit'[k].cell # cell
    BY <1>1, <1>3
  <2>2. n + 2 - 1 = n + 1 /\ (n + 1 + 1)..(n + 1) = {} /\ \A j \in 1..(n + 1) : j \in 1..n \/ j = n + 1
    OBVIOUS
  <2>3. Granted(cell, n + 2)' <=> e.grant
    BY <1>1, <1>3, <2>1, <2>2 DEF Granted
  <2> QED BY <1>2, <1>3, <2>3
<1>4. CASE e.cell # cell
  <2>1. /\ \A j \in 1..n :
             /\ audit'[j] = audit[j]
             /\ (\A k \in (j + 1)..(n + 1) : audit'[k].cell # cell)
                  <=> \A k \in (j + 1)..n : audit[k].cell # cell
        /\ audit'[n + 1].cell # cell
    <3>1. \A j \in 1..n : \A k \in (j + 1)..(n + 1) : k = n + 1 \/ k \in (j + 1)..n
      OBVIOUS
    <3>2. \A j \in 1..n : \A k \in (j + 1)..n : k \in (j + 1)..(n + 1) /\ audit'[k] = audit[k]
      BY <1>1
    <3> QED BY <1>1, <1>4, <3>1, <3>2, Zenon
  <2>2. n + 2 - 1 = n + 1 /\ n + 1 - 1 = n /\ \A j \in 1..(n + 1) : j \in 1..n \/ j = n + 1
    OBVIOUS
  <2>3. Granted(cell, n + 2)' <=> Granted(cell, n + 1)
    BY <2>1, <2>2 DEF Granted
  <2> QED BY <1>2, <1>4, <2>3
<1> QED BY <1>2, <1>3, <1>4

LEMMA ServeLogInv ==
  ASSUME LogInv, NEW o \in Owners, NEW t \in toggles[o], ServeToggle(o, t) PROVE LogInv'
<1> DEFINE served == [t EXCEPT !.state = "done"]
           e == [cell |-> t.cell, grant |-> t.grant]
<1>1. t \in Toggled
  BY DEF LogInv
<1>2. served \in Toggled /\ e \in [cell : Cells, grant : BOOLEAN]
  BY <1>1 DEF Toggled
<1>3. toggles' = [toggles EXCEPT ![o] = (@ \ {t}) \cup {served}] /\ made' = made
  BY DEF ServeToggle
<1>4. toggles' \in [Owners -> SUBSET Toggled]
  <2> HIDE DEF served
  <2> QED BY <1>2, <1>3 DEF LogInv
<1>5. CASE matrix' = matrix
  <2>1. audit' = audit
    BY <1>5 DEF ServeToggle
  <2>2. AuditReplaysMatrix'
    BY <1>5, <2>1 DEF LogInv, AuditReplaysMatrix, Granted
  <2> QED BY <1>3, <1>4, <2>1, <2>2 DEF LogInv
<1>6. CASE matrix' # matrix
  <2>1. audit' = Append(audit, e)
    BY <1>6 DEF ServeToggle
  <2> PICK n \in Nat : n = Len(audit)
    BY DEF LogInv
  <2>2. /\ audit' \in Seq([cell : Cells, grant : BOOLEAN]) /\ Len(audit') = n + 1
        /\ audit'[n + 1] = e /\ DOMAIN audit' = 1..(n + 1) /\ DOMAIN audit = 1..n
        /\ \A i \in 1..n : audit'[i] = audit[i]
    <3> HIDE DEF e
    <3> QED BY <1>2, <2>1 DEF LogInv
  <2>3. /\ e.cell = t.cell /\ e.grant = t.grant /\ t.grant \in BOOLEAN
    BY <1>1 DEF Toggled
  <2>4. /\ t.cell \in matrix <=> ~t.grant
        /\ t.cell \in matrix' <=> t.grant
        /\ \A c \in Cells \ {t.cell} : c \in matrix' <=> c \in matrix
    BY <1>6, <2>3 DEF ServeToggle
  <2>5. AuditReplaysMatrix'
    <3> SUFFICES ASSUME NEW c \in Cells \ Protected
                 PROVE  /\ \A i \in 1..(n + 1) :
                             audit'[i].cell = c => (audit'[i].grant <=> ~Granted(c, i)')
                        /\ c \in matrix' <=> Granted(c, n + 2)'
      <4>1. \A c \in Cells \ Protected : Granted(c, Len(audit) + 1)' <=> Granted(c, n + 2)'
        BY <2>2 DEF Granted
      <4> QED BY <2>2, <4>1 DEF AuditReplaysMatrix
    <3>1. /\ \A i \in 1..(n + 1) : Granted(c, i)' <=> Granted(c, i)
          /\ e.cell = c => (Granted(c, n + 2)' <=> e.grant)
          /\ e.cell # c => (Granted(c, n + 2)' <=> Granted(c, n + 1))
      <4> HIDE DEF e
      <4> QED BY <1>2, <2>1, AppendGranted DEF LogInv
    <3>2. /\ \A i \in 1..n : audit[i].cell = c => (audit[i].grant <=> ~Granted(c, i))
          /\ c \in matrix <=> Granted(c, n + 1)
      BY <2>2 DEF LogInv, AuditReplaysMatrix
    <3> HIDE DEF e
    <3> QED BY <2>2, <2>3, <2>4, <3>1, <3>2
  <2> QED BY <1>3, <1>4, <2>2, <2>5 DEF LogInv
<1> QED BY <1>5, <1>6

LEMMA NextLogInv == LogInv /\ [MembersNext]_memberVars => LogInv'
<1> SUFFICES ASSUME LogInv, [MembersNext]_memberVars PROVE LogInv'
  OBVIOUS
<1>1. ASSUME UNCHANGED <<matrix, audit>>, toggles' \in [Owners -> SUBSET Toggled], made' \in Int
      PROVE  LogInv'
  BY <1>1 DEF LogInv, AuditReplaysMatrix, Granted
<1>2. ASSUME UNCHANGED <<matrix, audit, toggles, made>> PROVE LogInv'
  BY <1>1, <1>2 DEF LogInv
<1>3. CASE UNCHANGED memberVars
  BY <1>2, <1>3 DEF memberVars
<1>4. ASSUME NEW o \in Owners,
             \/ ReadPage(o) \/ Begin(o) \/ Update(o) \/ Delete(o) \/ Commit(o) \/ Fail(o)
             \/ Answered(o)
      PROVE  LogInv'
  BY <1>2, <1>4 DEF ReadPage, Begin, Update, Delete, Commit, Fail, Answered
<1>5. ASSUME NEW o \in Owners,
             \/ \E op \in {"enable", "disable", "revoke"}, m \in Members : Submit(o, op, m, None)
             \/ \E op \in {"add", "set_role"}, m \in Members, role \in Roles : Submit(o, op, m, role)
      PROVE  LogInv'
  BY <1>1, <1>5 DEF Submit, LogInv
<1>6. ASSUME NEW o \in Owners, NEW t \in toggles[o], ToggleAnswered(o, t) PROVE LogInv'
  BY <1>1, <1>6 DEF ToggleAnswered, LogInv
<1>7. ASSUME NEW m \in Members, Allow(m) \/ Insert(m) \/ SignedIn(m) PROVE LogInv'
  BY <1>2, <1>7 DEF Allow, Insert, SignedIn
<1> QED
  BY <1>3, <1>4, <1>5, <1>6, <1>7, ToggleLogInv, ServeLogInv DEF MembersNext

\* What an owner decides about members and permissions holds, for any number of
\* each: historical credentials never regain access, the limit is kept, and the
\* audit log replays to the matrix, although owners change the same rows and cells
\* from pages that are out of date (AdminMembersHTTP, adminPermissionsAction).
THEOREM MembersDecided == MembersSpec => []MembersAsDecided
<1>1. LogInv => AuditReplaysMatrix
  BY DEF LogInv
<1>2. MembersSpec => []LogInv
  BY InitLogInv, NextLogInv, PTL DEF MembersSpec
<1>3. SessionsStartAfresh /\ WithinLimit /\ AuditReplaysMatrix => MembersAsDecided
  BY DEF MembersAsDecided
<1> QED BY <1>1, <1>2, <1>3, MembersStartAfresh, MembersWithinLimit, PTL

\* A step of another page leaves the members as they are.
LEMMA MembersAlone == Spec => MembersSpec
<1>1. Init => MembersInit
  BY DEF Init
<1>2. [Next]_vars => [MembersNext]_memberVars
  BY DEF Next, vars
<1> QED BY <1>1, <1>2, PTL DEF Spec, MembersSpec

\* The same of the console: no other page of it touches members or permissions.
THEOREM ConsoleMembersDecided == Spec => []MembersAsDecided
BY MembersAlone, MembersDecided, PTL

-----------------------------------------------------------------------------
\* The notice page.  A notice that was pushed is published, and stays.
NoticeInv ==
  /\ v1 \in [Notices -> {"none", "draft", "live", "archived"}]
  /\ DOMAIN v2 = Notices /\ DOMAIN v3 = Notices
  /\ \A n \in Notices : DOMAIN v3[n] = {"times", "text"} /\ v3[n].times \in Nat
  /\ N!PushedIsPublished

LEMMA NoticeSaved ==
  ASSUME NoticeInv, NEW id, NEW value, N!Save(id, value) PROVE NoticeInv'
<1> SUFFICES ASSUME NEW n \in Notices, v1[n] \in {"none", "draft"},
                    v1' = [v1 EXCEPT ![n] = "draft"], v2' = [v2 EXCEPT ![n] = value],
                    UNCHANGED <<v3, v4>>
             PROVE  NoticeInv'
  BY DEF N!Save
<1> QED BY DEF NoticeInv, N!PushedIsPublished

LEMMA NoticePublished ==
  ASSUME NoticeInv, NEW id, NEW value, NEW push, N!Publish(id, value, push) PROVE NoticeInv'
<1> DEFINE once(n) == [times |-> v3[n].times + 1, text |-> value]
<1>1. PICK n \in Notices :
        /\ v1[n] \in {"none", "draft"}
        /\ v3' = IF push THEN [v3 EXCEPT ![n] = once(n)] ELSE v3
        /\ \/ /\ v1' = [v1 EXCEPT ![n] = "live"] /\ v2' = [v2 EXCEPT ![n] = value]
              /\ UNCHANGED v4
           \/ push /\ v4' = v4 \cup {n} /\ UNCHANGED <<v1, v2>>
  BY DEF N!Publish
<1>2. n \in v4 \/ v3[n].times = 0
  BY <1>1 DEF NoticeInv, N!PushedIsPublished
<1>3. once(n).times \in Nat /\ (n \in v4 \/ once(n).times = 1) /\ once(n).text = value
      /\ DOMAIN once(n) = {"times", "text"}
  BY <1>2 DEF NoticeInv
<1>4. \/ v3' = v3
      \/ v3' = [v3 EXCEPT ![n] = once(n)]
  BY <1>1
<1>5. v3'[n] \in {v3[n], once(n)} /\ (push => v3'[n] = once(n))
      /\ \A m \in Notices \ {n} : v3'[m] = v3[m]
  BY <1>1 DEF NoticeInv
<1> HIDE DEF once
<1>6. /\ v1' \in [Notices -> {"none", "draft", "live", "archived"}]
      /\ DOMAIN v2' = Notices /\ DOMAIN v3' = Notices
      /\ \A m \in Notices : DOMAIN v3'[m] = {"times", "text"} /\ v3'[m].times \in Nat
  BY <1>1, <1>3, <1>4, <1>5 DEF NoticeInv
<1>7. ASSUME NEW m \in Notices \ v4'
      PROVE  /\ v3'[m].times <= 1
             /\ v3'[m].times = 1 => v1'[m] \in {"live", "archived"} /\ v2'[m] = v3'[m].text
  <2>1. CASE m = n
    <3>1. n \notin v4 /\ v1'[n] = "live" /\ v2'[n] = value
      BY <1>1, <1>7, <2>1 DEF NoticeInv
    <3> QED BY <1>2, <1>3, <1>5, <2>1, <3>1
  <2>2. CASE m # n
    <3>1. m \notin v4 /\ v3'[m] = v3[m] /\ v1'[m] = v1[m] /\ v2'[m] = v2[m]
      BY <1>1, <1>5, <1>7, <2>2 DEF NoticeInv
    <3> QED BY <3>1 DEF NoticeInv, N!PushedIsPublished
  <2> QED BY <2>1, <2>2
<1> QED BY <1>6, <1>7 DEF NoticeInv, N!PushedIsPublished

LEMMA NoticeStep == NoticeInv /\ N!NoticeNext => NoticeInv'
<1> SUFFICES ASSUME NoticeInv, N!NoticeNext PROVE NoticeInv'
  OBVIOUS
<1>1. ASSUME UNCHANGED N!table PROVE NoticeInv'
  BY <1>1 DEF N!table, NoticeInv, N!PushedIsPublished
<1>2. ASSUME NEW n \in Notices, N!Archive(n) PROVE NoticeInv'
  BY <1>2 DEF N!Archive, NoticeInv, N!PushedIsPublished
<1>3. CASE N!ServeWrite
  BY <1>3, NoticeSaved, NoticePublished DEF N!ServeWrite
<1>4. CASE N!ServeArchive
  <2>1. N!Archive(v9.id)
    BY <1>4 DEF N!ServeArchive
  <2>2. v9.id \in Notices \/ v1' = v1
    BY <2>1 DEF N!Archive, NoticeInv
  <2>3. CASE v1' = v1
    BY <2>1, <2>3 DEF N!Archive, NoticeInv, N!PushedIsPublished
  <2> QED BY <1>2, <2>1, <2>2, <2>3
<1>5. ASSUME NEW n \in Notices, N!Elsewhere(n) PROVE NoticeInv'
  BY <1>2, <1>5, NoticeSaved, NoticePublished DEF N!Elsewhere
<1>6. CASE N!ReadList \/ N!Type \/ N!CancelEdit
  BY <1>1, <1>6 DEF N!ReadList, N!Type, N!CancelEdit
<1>7. ASSUME NEW to, N!StartWrite(to) PROVE NoticeInv'
  BY <1>1, <1>7 DEF N!StartWrite
<1>8. ASSUME NEW n, N!AskArchive(n) \/ N!Edit(n) \/ N!Focus(n) PROVE NoticeInv'
  BY <1>1, <1>8 DEF N!AskArchive, N!Edit, N!Focus
<1>9. ASSUME NEW ok, N!Answer(ok) \/ N!Written(ok) \/ N!Archived(ok) PROVE NoticeInv'
  BY <1>1, <1>9 DEF N!Answer, N!Written, N!Archived
<1> QED BY <1>3, <1>4, <1>5, <1>6, <1>7, <1>8, <1>9 DEF N!NoticeNext

\* Whatever admins save, publish and archive at once, and however many answers and
\* commits are lost, a notice is pushed at most once, with the text that is published
\* (actionPublishNotice).
THEOREM PushesArePublished == Spec => []PushedIsPublished
<1> DEFINE Inv == page = "notice" => NoticeInv
<1>1. Init => Inv
  BY DEF Init, N!NoticeInit, NoticeInv, N!PushedIsPublished
<1>2. Inv /\ [Next]_vars => Inv'
  <2> SUFFICES ASSUME NoticeInv, page = "notice", page' = page, [Next]_vars PROVE NoticeInv'
    BY DEF Next, vars
  <2>1. CASE UNCHANGED vars
    BY <2>1 DEF vars, pageVars, NoticeInv, N!PushedIsPublished
  <2>2. CASE Next
    BY <2>2, NoticeStep DEF Next, OtherPage
  <2> QED BY <2>1, <2>2
<1>3. Inv => PushedIsPublished
  BY DEF NoticeInv, PushedIsPublished
<1> QED BY <1>1, <1>2, <1>3, PTL DEF Spec

-----------------------------------------------------------------------------
\* The release page.  A form that was sent is open, as it was sent.
Form == [op : {"notes", "trigger"}, release : Releases, text : Nat]

ReleaseInv ==
  /\ v6 \in Nat
  /\ v3 # None => /\ v3 = [op |-> v3.op, release |-> v3.release, text |-> v3.text]
                  /\ v3.op \in {"notes", "trigger"} /\ v3.release \in Releases
  /\ DOMAIN v5 = Z!Slots /\ v5 = [s \in Z!Slots |-> v5[s]]
  /\ \A s \in Z!Slots : v5[s] # None =>
       v5[s] = [op |-> v5[s].op, release |-> v5[s].release, text |-> v5[s].text,
                stage |-> v5[s].stage, seen |-> v5[s].seen]
  /\ Z!OwnDialogCloses

LEMMA ReleaseSent ==
  ASSUME ReleaseInv, NEW slot \in Z!Slots \ {"dialog"}, NEW op, NEW r, NEW text,
         Z!Send(slot, op, r, text), v6' \in Nat, UNCHANGED v3
  PROVE  ReleaseInv'
<1> DEFINE q == [op |-> op, release |-> r, text |-> text, stage |-> "sent", seen |-> None]
<1>1. v5' = [v5 EXCEPT ![slot] = q]
  BY DEF Z!Send
<1>2. q = [op |-> q.op, release |-> q.release, text |-> q.text, stage |-> q.stage,
           seen |-> q.seen]
  OBVIOUS
<1> HIDE DEF q
<1> QED BY <1>1, <1>2 DEF ReleaseInv, Z!OwnDialogCloses, Z!Slots

\* A request goes on, or is answered, and stays the one it was.
LEMMA ReleaseGoesOn ==
  ASSUME ReleaseInv, NEW slot \in Z!Slots, v5[slot] # None, NEW stage, NEW seen,
         v5' = [v5 EXCEPT ![slot].stage = stage] \/
         v5' = [v5 EXCEPT ![slot].stage = stage, ![slot].seen = seen],
         UNCHANGED <<v3, v6>>
  PROVE  ReleaseInv'
<1> DEFINE q(t) == [op |-> v5[slot].op, release |-> v5[slot].release, text |-> v5[slot].text,
                    stage |-> stage, seen |-> t]
<1>1. PICK t : v5' = [v5 EXCEPT ![slot] = q(t)]
  BY DEF ReleaseInv
<1>2. /\ q(t) = [op |-> q(t).op, release |-> q(t).release, text |-> q(t).text,
                 stage |-> q(t).stage, seen |-> q(t).seen]
      /\ q(t).op = v5[slot].op /\ q(t).release = v5[slot].release
  OBVIOUS
<1> HIDE DEF q
<1>3. v5'[slot] = q(t) /\ \A s \in Z!Slots \ {slot} : v5'[s] = v5[s]
  BY <1>1 DEF ReleaseInv
<1> QED BY <1>1, <1>2, <1>3 DEF ReleaseInv, Z!OwnDialogCloses, Z!Slots

LEMMA ReleaseStep == ReleaseInv /\ Z!ReleaseNext => ReleaseInv'
<1> SUFFICES ASSUME ReleaseInv, Z!ReleaseNext PROVE ReleaseInv'
  OBVIOUS
<1>1. CASE Z!ReadHistory
  BY <1>1 DEF Z!ReadHistory, ReleaseInv, Z!OwnDialogCloses
<1>2. CASE Z!TypeText
  <2> DEFINE form == [op |-> v3.op, release |-> v3.release, text |-> v6']
  <2>1. v3 # None /\ v3' = form /\ v6' \in Nat /\ v5' = v5
    BY <1>2 DEF Z!TypeText, ReleaseInv
  <2>2. form \in Form /\ form.op = v3.op /\ form.release = v3.release
    BY <2>1 DEF ReleaseInv, Form
  <2> HIDE DEF form
  <2>3. form # None /\ form = [op |-> form.op, release |-> form.release, text |-> form.text]
    BY <2>2, FormAssumption DEF Form
  <2> QED BY <2>1, <2>2, <2>3 DEF ReleaseInv, Z!OwnDialogCloses
<1>3. CASE Z!Submit
  <2> DEFINE q == [op |-> v3.op, release |-> v3.release, text |-> v3.text,
                   stage |-> "sent", seen |-> None]
  <2>1. v3 # None /\ v5' = [v5 EXCEPT !["dialog"] = q] /\ UNCHANGED <<v3, v6>>
    BY <1>3 DEF Z!Submit, Z!Send
  <2>2. /\ q = [op |-> q.op, release |-> q.release, text |-> q.text, stage |-> q.stage,
                seen |-> q.seen]
        /\ q.op = v3.op /\ q.release = v3.release
    OBVIOUS
  <2> HIDE DEF q
  <2>3. v5'["dialog"] = q /\ \A s \in Z!Slots \ {"dialog"} : v5'[s] = v5[s]
    BY <2>1 DEF ReleaseInv, Z!Slots
  <2> QED BY <2>1, <2>2, <2>3 DEF ReleaseInv, Z!OwnDialogCloses, Z!Slots
<1>4. CASE Z!CloseDialog
  BY <1>4 DEF Z!CloseDialog, ReleaseInv, Z!OwnDialogCloses
<1>5. ASSUME NEW r \in Releases, NEW op \in {"notes", "trigger"}, Z!OpenDialog(op, r)
      PROVE  ReleaseInv'
  <2> DEFINE form == [op |-> op, release |-> r, text |-> v2[r].text]
  <2>1. v3 = None /\ v3' = form /\ UNCHANGED <<v5, v6>>
    BY <1>5 DEF Z!OpenDialog
  <2>2. form.op = op /\ form.release = r
        /\ form = [op |-> form.op, release |-> form.release, text |-> form.text]
    OBVIOUS
  <2> HIDE DEF form
  <2> QED BY <2>1, <2>2 DEF ReleaseInv, Z!OwnDialogCloses
<1>6. ASSUME NEW r \in Releases, Z!AskWithdraw(r) PROVE ReleaseInv'
  BY <1>6 DEF Z!AskWithdraw, ReleaseInv, Z!OwnDialogCloses
<1>7. ASSUME NEW r \in Releases, NEW op \in {"notes", "withdraw"}, Z!Elsewhere(op, r)
      PROVE  ReleaseInv'
  BY <1>7, ReleaseSent DEF Z!Elsewhere, ReleaseInv, Z!Slots
<1>8. ASSUME NEW ok \in BOOLEAN, Z!AnswerWithdraw(ok) PROVE ReleaseInv'
  <2>1. v6' \in Nat /\ v6' = v6 /\ v3' = v3
    BY <1>8 DEF Z!AnswerWithdraw, ReleaseInv
  <2>2. CASE ok
    BY <1>8, <2>1, <2>2, ReleaseSent DEF Z!AnswerWithdraw, Z!Slots
  <2>3. CASE ~ok
    BY <1>8, <2>1, <2>3 DEF Z!AnswerWithdraw, ReleaseInv, Z!OwnDialogCloses
  <2> QED BY <2>2, <2>3
<1>9. ASSUME NEW slot \in Z!Slots, Z!ReadRelease(slot) \/ Z!Patch(slot) PROVE ReleaseInv'
  <2>1. /\ v5[slot] # None /\ UNCHANGED <<v3, v6>>
        /\ \/ \E stage : v5' = [v5 EXCEPT ![slot].stage = stage]
           \/ v5' = [v5 EXCEPT ![slot].stage = "read", ![slot].seen = v1[v5[slot].release]]
    BY <1>9 DEF Z!ReadRelease, Z!Patch, Z!To
  <2> QED BY <2>1, ReleaseGoesOn
<1>10. ASSUME NEW slot \in Z!Slots, NEW ok \in BOOLEAN, Z!Answer(slot, ok) PROVE ReleaseInv'
  <2>1. v5' = [v5 EXCEPT ![slot] = None] /\ v6' = v6 /\ v3' \in {v3, None}
        /\ (slot # "dialog" => v3' = v3)
    BY <1>10 DEF Z!Answer
  <2>2. v5'[slot] = None /\ \A s \in Z!Slots \ {slot} : v5'[s] = v5[s]
    BY <2>1 DEF ReleaseInv
  <2> QED BY <2>1, <2>2 DEF ReleaseInv, Z!OwnDialogCloses, Z!Slots
<1> QED
  BY <1>1, <1>2, <1>3, <1>4, <1>5, <1>6, <1>7, <1>8, <1>9, <1>10 DEF Z!ReleaseNext

-----------------------------------------------------------------------------
\* A sequence without its k-th element, as RemoveAt leaves it.
AllBut(s, k, t) ==
  /\ \A j \in DOMAIN t : \E i \in DOMAIN s \ {k} : t[j] = s[i]
  /\ \A i \in DOMAIN s \ {k} : \E j \in DOMAIN t : t[j] = s[i]

LEMMA Removed ==
  ASSUME NEW S, NEW s \in Seq(S), NEW k \in DOMAIN s, NEW t,
         t = SubSeq(s, 1, k - 1) \o SubSeq(s, k + 1, Len(s))
  PROVE  t \in Seq(S) /\ AllBut(s, k, t)
<1> DEFINE n == Len(s)
           front == SubSeq(s, 1, k - 1)
           back == SubSeq(s, k + 1, n)
<1>1. n \in Nat /\ DOMAIN s = 1..n /\ k \in 1..n /\ \A i \in 1..n : s[i] \in S
  BY LenProperties, ElementOfSeq
<1>n. n \in Nat /\ k \in 1..n
  BY <1>1
<1>2. /\ front \in Seq(S) /\ Len(front) = k - 1
      /\ \A i \in 1..(k - 1) : front[i] = s[i]
  <2> HIDE DEF n
  <2>1. k - 1 \in Int /\ \A i \in 1..(k - 1) : s[i] \in S /\ 1 + i - 1 = i
    BY <1>1
  <2>2. /\ front \in Seq(S) /\ Len(front) = IF 1 <= k - 1 THEN k - 1 - 1 + 1 ELSE 0
        /\ \A i \in 1..(k - 1 - 1 + 1) : front[i] = s[1 + i - 1]
    BY <2>1, SubSeqProperties
  <2> HIDE DEF front
  <2> QED BY <1>1, <2>1, <2>2
<1>3. /\ back \in Seq(S) /\ Len(back) = n - k
      /\ \A i \in 1..(n - k) : back[i] = s[k + i]
  <2> HIDE DEF n
  <2>1. k + 1 \in Int /\ n \in Int /\ \A i \in (k + 1)..n : s[i] \in S
    BY <1>1
  <2>2. /\ back \in Seq(S) /\ Len(back) = IF k + 1 <= n THEN n - (k + 1) + 1 ELSE 0
        /\ \A i \in 1..(n - (k + 1) + 1) : back[i] = s[k + 1 + i - 1]
    BY <2>1, SubSeqProperties
  <2>3. \A i \in 1..(n - k) : k + 1 + i - 1 = k + i /\ i \in 1..(n - (k + 1) + 1)
    BY <1>1
  <2> HIDE DEF back
  <2> QED BY <1>1, <2>2, <2>3
<1>4. t = front \o back
  OBVIOUS
<1> HIDE DEF n, front, back
<1>5. /\ t \in Seq(S) /\ Len(t) = Len(front) + Len(back)
      /\ \A j \in 1..Len(front) + Len(back) :
           t[j] = IF j <= Len(front) THEN front[j] ELSE back[j - Len(front)]
  <2>1. /\ front \o back \in Seq(S) /\ Len(front \o back) = Len(front) + Len(back)
        /\ \A j \in 1..Len(front) + Len(back) :
             (front \o back)[j] = IF j <= Len(front) THEN front[j] ELSE back[j - Len(front)]
    BY <1>2, <1>3, ConcatProperties
  <2> QED BY <1>4, <2>1, Zenon
<1>6. Len(front) + Len(back) = n - 1
  BY <1>1, <1>2, <1>3
<1>7. \A j \in 1..(n - 1) : t[j] = IF j <= k - 1 THEN front[j] ELSE back[j - (k - 1)]
  BY <1>2, <1>5, <1>6, Zenon
<1>8. DOMAIN t = 1..(n - 1)
  <2>1. DOMAIN t = 1..Len(t)
    BY <1>5, LenProperties
  <2> QED BY <1>5, <1>6, <2>1, Zenon
<1>9. ASSUME NEW j \in 1..(n - 1) PROVE t[j] = IF j < k THEN s[j] ELSE s[j + 1]
  <2>1. CASE j < k
    <3>1. j \in 1..(k - 1) /\ j <= k - 1
      BY <1>1, <2>1
    <3> QED BY <1>2, <1>7, <2>1, <3>1, Zenon
  <2>2. CASE ~(j < k)
    <3>1. j - (k - 1) \in 1..(n - k) /\ k + (j - (k - 1)) = j + 1 /\ ~(j <= k - 1)
      BY ONLY <1>n, <1>9, <2>2
    <3> QED BY <1>3, <1>7, <2>2, <3>1, Zenon
  <2> QED BY <2>1, <2>2
<1>10. ASSUME NEW j \in DOMAIN t PROVE \E i \in DOMAIN s \ {k} : t[j] = s[i]
  <2>1. CASE j < k
    <3>1. j \in 1..n /\ j # k
      BY <1>1, <1>8, <2>1
    <3> QED BY <1>1, <1>8, <1>9, <2>1, <3>1, Zenon
  <2>2. CASE ~(j < k)
    <3>0. j \in 1..(n - 1)
      BY <1>8
    <3>1. j + 1 \in 1..n /\ j + 1 # k
      BY ONLY <1>n, <2>2, <3>0
    <3> QED BY <1>1, <1>8, <1>9, <2>2, <3>1, Zenon
  <2> QED BY <2>1, <2>2
<1>11. ASSUME NEW i \in DOMAIN s \ {k} PROVE \E j \in DOMAIN t : t[j] = s[i]
  <2>1. CASE i < k
    <3>1. i \in 1..(n - 1)
      BY <1>1, <2>1
    <3> QED BY <1>8, <1>9, <2>1, <3>1, Zenon
  <2>2. CASE ~(i < k)
    <3>1. i - 1 \in 1..(n - 1) /\ ~(i - 1 < k) /\ (i - 1) + 1 = i
      BY <1>1, <2>2
    <3>2. t[i - 1] = s[i]
      BY <1>9, <3>1, Zenon
    <3> QED BY <1>8, <3>1, <3>2, Zenon
  <2> QED BY <2>1, <2>2
<1> QED BY <1>5, <1>10, <1>11 DEF AllBut
\* A map of them.
LEMMA Mapped ==
  ASSUME NEW S, NEW s \in Seq(S), NEW t, DOMAIN t = DOMAIN s, t = [k \in DOMAIN s |-> t[k]],
         \A k \in DOMAIN s : t[k] \in S
  PROVE  t \in Seq(S)
<1>1. Len(s) \in Nat /\ DOMAIN s = 1..Len(s)
  OBVIOUS
<1>2. t \in [1..Len(s) -> S]
  BY <1>1
<1> QED BY <1>1, <1>2, SeqDef

-----------------------------------------------------------------------------
\* The sensitive words.  What a batch is through with has the level it gave or is
\* gone, unless it was changed since.
Level == W!Levels \cup {None}
WordEdit == [to : Level, targets : SUBSET Two, todo : SUBSET Two, batch : BOOLEAN,
             over : SUBSET Two]
WordQuestion == [targets : SUBSET Two, batch : BOOLEAN]

Through(e, w) == w \in e.targets /\ w \notin e.todo /\ w \notin e.over

WordInv ==
  /\ v1 \in [Two -> Level] /\ v9 \in [Two -> Level \cup {"nothing"}]
  /\ v4 \in SUBSET Two /\ v5 \in BOOLEAN
  /\ v6 # None => v6 \in WordQuestion
  /\ v8 \in Seq(WordEdit)
  /\ \A k \in DOMAIN v8, w \in Two : Through(v8[k], w) => v1[w] \in {v8[k].to, None}
  /\ W!ToldIsDone /\ W!BusyEnds

\* A change of some words is over for the requests that do not know of it.
LEMMA WordsOver ==
  ASSUME NEW edits \in Seq(WordEdit), NEW ids \in SUBSET Two, NEW m, m = W!Over(edits, ids)
  PROVE  /\ m \in Seq(WordEdit) /\ DOMAIN m = DOMAIN edits
         /\ \A k \in DOMAIN m :
              /\ m[k].to = edits[k].to /\ m[k].batch = edits[k].batch
              /\ m[k].targets = edits[k].targets /\ m[k].over = edits[k].over \cup ids
              /\ \A w \in Two : Through(m[k], w) => Through(edits[k], w) /\ w \notin ids
<1>1. DOMAIN m = DOMAIN edits /\ m = [k \in DOMAIN edits |-> m[k]]
      /\ \A k \in DOMAIN edits : m[k] = [edits[k] EXCEPT !.over = @ \cup ids]
  BY DEF W!Over
<1>2. \A k \in DOMAIN edits : edits[k] \in WordEdit
  OBVIOUS
<1>3. ASSUME NEW k \in DOMAIN edits
      PROVE  /\ m[k] \in WordEdit /\ m[k].to = edits[k].to /\ m[k].batch = edits[k].batch
             /\ m[k].targets = edits[k].targets /\ m[k].todo = edits[k].todo
             /\ m[k].over = edits[k].over \cup ids
  <2>1. edits[k] \in WordEdit /\ m[k] = [edits[k] EXCEPT !.over = @ \cup ids]
    BY <1>1, <1>2
  <2> QED BY <2>1 DEF WordEdit
<1>4. m \in Seq(WordEdit)
  BY <1>1, <1>3, Mapped
<1> QED BY <1>1, <1>3, <1>4 DEF Through

LEMMA WordsChanged ==
  ASSUME WordInv, NEW ids \in SUBSET Two,
         v8' = W!Over(v8, ids), UNCHANGED <<v4, v5, v6>>,
         v1' \in [Two -> Level], v9' \in [Two -> Level \cup {"nothing"}],
         \A w \in Two \ ids : v1'[w] = v1[w] /\ v9'[w] = v9[w],
         \A w \in ids : v9'[w] \in {"nothing", v1'[w]}
  PROVE  WordInv'
<1>1. v8 \in Seq(WordEdit)
  BY DEF WordInv
<1>2. /\ v8' \in Seq(WordEdit) /\ DOMAIN v8' = DOMAIN v8
      /\ \A k \in DOMAIN v8' :
           /\ v8'[k].to = v8[k].to /\ v8'[k].batch = v8[k].batch
           /\ \A w \in Two : Through(v8'[k], w) => Through(v8[k], w) /\ w \notin ids
  BY <1>1, WordsOver
<1>3. W!ToldIsDone'
  BY DEF WordInv, W!ToldIsDone
<1>4. W!BusyEnds'
  BY <1>2 DEF WordInv, W!BusyEnds
<1> QED BY <1>2, <1>3, <1>4 DEF WordInv

\* A request is answered: the others stay.
LEMMA WordAnswered ==
  ASSUME NEW edits \in Seq(WordEdit), NEW k \in DOMAIN edits, NEW lev, NEW busy, NEW ask,
         v8' = W!RemoveAt(edits, k),
         \A j \in DOMAIN edits, w \in Two :
           Through(edits[j], w) => lev[w] \in {edits[j].to, None},
         busy => (ask # None /\ ask.batch) \/ \E j \in DOMAIN edits : edits[j].batch,
         v1' = lev, v6' = ask, v5' = (busy /\ ~edits[k].batch)
  PROVE  /\ v8' \in Seq(WordEdit)
         /\ \A j \in DOMAIN v8', w \in Two : Through(v8'[j], w) => v1'[w] \in {v8'[j].to, None}
         /\ W!BusyEnds'
<1>0. v8' = SubSeq(edits, 1, k - 1) \o SubSeq(edits, k + 1, Len(edits))
  BY DEF W!RemoveAt
<1>1. v8' \in Seq(WordEdit) /\ AllBut(edits, k, v8')
  BY <1>0, Removed
<1>2. W!BusyEnds'
  <2>1. SUFFICES ASSUME busy, ~edits[k].batch, ~(ask # None /\ ask.batch)
                 PROVE  \E j \in DOMAIN v8' : v8'[j].batch
    BY DEF W!BusyEnds
  <2>2. PICK i \in DOMAIN edits \ {k} : edits[i].batch
    BY <2>1
  <2> QED BY <1>1, <2>2 DEF AllBut
<1> QED BY <1>1, <1>2 DEF AllBut

\* A request is made, of which nothing is through yet.
LEMMA WordSent ==
  ASSUME WordInv, NEW to \in Level, NEW targets \in SUBSET Two, NEW batch \in BOOLEAN,
         W!Edit(to, targets, batch), UNCHANGED <<v1, v4, v9>>, v5' \in BOOLEAN,
         v6' # None => v6' \in WordQuestion,
         v5' => batch \/ (v6' # None /\ v6'.batch) \/ \E k \in DOMAIN v8 : v8[k].batch
  PROVE  WordInv'
<1> DEFINE e == [to |-> to, targets |-> targets, todo |-> targets, batch |-> batch,
                 over |-> {}]
<1>1. v8' = Append(v8, e)
  BY DEF W!Edit
<1>2. e \in WordEdit /\ e.to = to /\ e.batch = batch /\ \A w : ~Through(e, w)
  BY DEF WordEdit, Through
<1> HIDE DEF e
<1>3. v8 \in Seq(WordEdit)
  BY DEF WordInv
<1>4. /\ v8' \in Seq(WordEdit) /\ DOMAIN v8' = DOMAIN v8 \cup {Len(v8) + 1}
      /\ v8'[Len(v8) + 1] = e /\ \A k \in DOMAIN v8 : v8'[k] = v8[k]
  BY <1>1, <1>2, <1>3
<1>5. ASSUME NEW k \in DOMAIN v8', NEW w \in Two, Through(v8'[k], w)
      PROVE  v1'[w] \in {v8'[k].to, None}
  BY <1>2, <1>4, <1>5 DEF WordInv
<1>6. W!BusyEnds'
  BY <1>2, <1>4 DEF W!BusyEnds
<1> QED BY <1>4, <1>5, <1>6 DEF WordInv, W!ToldIsDone

LEMMA WordAsked ==
  ASSUME WordInv, NEW targets \in SUBSET Two, NEW batch \in BOOLEAN, v6 = None,
         v6' = [targets |-> targets, batch |-> batch], v5' = (v5 \/ batch),
         UNCHANGED <<v1, v4, v8, v9>>
  PROVE  WordInv'
<1>1. v6' \in WordQuestion /\ v6'.batch = batch
  BY DEF WordQuestion
<1>2. v6' # None
  BY <1>1, QuestionAssumption DEF WordQuestion
<1>3. v5' \in BOOLEAN /\ W!BusyEnds'
  BY <1>1, <1>2 DEF WordInv, W!BusyEnds
<1> QED BY <1>1, <1>3 DEF WordInv, W!ToldIsDone

LEMMA WordStarted ==
  ASSUME WordInv, NEW to \in Level, NEW targets \in SUBSET Two, NEW batch \in BOOLEAN,
         W!Start(to, targets, batch)
  PROVE  WordInv'
<1>1. v6 = None /\ v5' = (v5 \/ batch) /\ UNCHANGED <<v1, v4, v9>>
  BY DEF W!Start, W!page
<1>2. CASE to = None
  BY <1>1, <1>2, WordAsked DEF W!Start
<1>3. CASE to # None
  <2>1. W!Edit(to, targets, batch) /\ v6' = None
    BY <1>1, <1>3 DEF W!Start
  <2>2. v5' \in BOOLEAN /\ (v5' => batch \/ \E k \in DOMAIN v8 : v8[k].batch)
    BY <1>1 DEF WordInv, W!BusyEnds
  <2>3. v6' # None => v6' \in WordQuestion
    BY <2>1
  <2>4. v5' => batch \/ (v6' # None /\ v6'.batch) \/ \E k \in DOMAIN v8 : v8[k].batch
    BY <2>2
  <2> QED BY <1>1, <2>1, <2>2, <2>3, <2>4, WordSent, Zenon
<1> QED BY <1>2, <1>3

\* A chunk of request k goes through.
LEMMA WordChunk ==
  ASSUME WordInv, NEW k \in DOMAIN v8, NEW ids \in SUBSET v8[k].todo, W!NextChunk(k, ids)
  PROVE  WordInv'
<1> DEFINE e == v8[k]
           f == [e EXCEPT !.todo = @ \ ids]
<1>1. e \in WordEdit /\ v8 \in Seq(WordEdit) /\ ids \in SUBSET Two
  <2>1. v8 \in Seq(WordEdit) /\ e \in WordEdit
    BY DEF WordInv
  <2> QED BY <2>1 DEF WordEdit
<1>2. /\ f \in WordEdit /\ f.to = e.to /\ f.batch = e.batch /\ f.targets = e.targets
      /\ f.todo = e.todo \ ids /\ f.over = e.over
  BY <1>1 DEF WordEdit
<1>3. /\ v8' = [W!Over(v8, ids) EXCEPT ![k] = f] /\ UNCHANGED <<v4, v5, v6>>
      /\ v1' = [w \in Two |-> IF w \in ids /\ v1[w] # None THEN e.to ELSE v1[w]]
      /\ v9' = [w \in Two |-> IF w \in ids THEN "nothing" ELSE v9[w]]
  BY DEF W!NextChunk, W!Change, W!page
<1> HIDE DEF f
<1>4. /\ v1' \in [Two -> Level] /\ v9' \in [Two -> Level \cup {"nothing"}]
      /\ \A w \in Two \ ids : v1'[w] = v1[w] /\ v9'[w] = v9[w]
      /\ \A w \in ids : v9'[w] = "nothing" /\ v1'[w] \in {e.to, None}
  BY <1>1, <1>3 DEF WordInv, WordEdit
<1>5. \A j \in DOMAIN v8 : v8[j] \in WordEdit
  BY DEF WordInv
<1>6. /\ DOMAIN v8' = DOMAIN v8 /\ v8' = [j \in DOMAIN v8 |-> v8'[j]] /\ v8'[k] = f
      /\ \A j \in DOMAIN v8 \ {k} : v8'[j] = [v8[j] EXCEPT !.over = @ \cup ids]
  BY <1>3 DEF W!Over
<1>7. ASSUME NEW j \in DOMAIN v8 \ {k}
      PROVE  /\ v8'[j] \in WordEdit /\ v8'[j].to = v8[j].to /\ v8'[j].batch = v8[j].batch
             /\ v8'[j].targets = v8[j].targets /\ v8'[j].todo = v8[j].todo
             /\ v8'[j].over = v8[j].over \cup ids
  BY <1>1, <1>5, <1>6 DEF WordEdit
<1>8. v8' \in Seq(WordEdit)
  BY <1>1, <1>2, <1>6, <1>7, Mapped
<1>9. ASSUME NEW j \in DOMAIN v8', NEW w \in Two, Through(v8'[j], w)
      PROVE  v1'[w] \in {v8'[j].to, None}
  <2>1. CASE w \in ids /\ j = k
    BY <1>2, <1>4, <1>6, <2>1
  <2>2. CASE w \notin ids /\ j = k
    <3>1. Through(v8[k], w)
      BY <1>2, <1>6, <1>9, <2>2 DEF Through
    <3> QED BY <1>2, <1>4, <1>6, <2>2, <3>1 DEF WordInv
  <2>3. CASE j # k
    <3>1. w \notin ids /\ Through(v8[j], w) /\ j \in DOMAIN v8
      BY <1>6, <1>7, <1>9, <2>3 DEF Through
    <3> QED BY <1>4, <1>6, <1>7, <2>3, <3>1 DEF WordInv
  <2> QED BY <2>1, <2>2, <2>3
<1>10. W!BusyEnds'
  <2>1. \A j \in DOMAIN v8 : v8'[j].batch = v8[j].batch
    BY <1>2, <1>6, <1>7
  <2> QED BY <1>3, <1>6, <2>1 DEF WordInv, W!BusyEnds
<1>11. W!ToldIsDone'
  BY <1>4 DEF WordInv, W!ToldIsDone
<1> QED BY <1>3, <1>4, <1>8, <1>9, <1>10, <1>11 DEF WordInv

\* A chunk fails, done or not, and its request with it.
LEMMA WordFailed ==
  ASSUME WordInv, NEW k \in DOMAIN v8, NEW ids \in SUBSET v8[k].todo, W!FailedChunk(k, ids)
  PROVE  WordInv'
<1>1. /\ v8 \in Seq(WordEdit) /\ v8[k] \in WordEdit
      /\ \A j \in DOMAIN v8, w \in Two : Through(v8[j], w) => v1[w] \in {v8[j].to, None}
      /\ v5 => (v6 # None /\ v6.batch) \/ \E j \in DOMAIN v8 : v8[j].batch
  BY DEF WordInv, W!BusyEnds
<1>2. ids \in SUBSET Two /\ v8[k].to \in Level
  BY <1>1 DEF WordEdit
<1>3. v4' \in SUBSET Two /\ v6' = v6 /\ v5' = (v5 /\ ~v8[k].batch)
  BY DEF W!FailedChunk, W!Pruned, WordInv
<1>4. v5' \in BOOLEAN
  BY <1>1, <1>3 DEF WordInv, WordEdit
<1>5. CASE UNCHANGED <<v1, v9>> /\ v8' = W!RemoveAt(v8, k)
  <2>1. /\ v8' \in Seq(WordEdit)
        /\ \A j \in DOMAIN v8', w \in Two : Through(v8'[j], w) => v1'[w] \in {v8'[j].to, None}
        /\ W!BusyEnds'
    BY <1>1, <1>3, <1>5, WordAnswered
  <2> QED BY <1>3, <1>4, <1>5, <2>1 DEF WordInv, W!ToldIsDone
<1>6. CASE W!Change(ids, v8[k].to) /\ v8' = W!RemoveAt(W!Over(v8, ids), k)
  <2> DEFINE m == W!Over(v8, ids)
  <2>1. /\ m \in Seq(WordEdit) /\ DOMAIN m = DOMAIN v8
        /\ \A j \in DOMAIN m :
             /\ m[j].to = v8[j].to /\ m[j].batch = v8[j].batch
             /\ \A w \in Two : Through(m[j], w) => Through(v8[j], w) /\ w \notin ids
    BY <1>1, <1>2, WordsOver
  <2>2. /\ v1' = [w \in Two |-> IF w \in ids /\ v1[w] # None THEN v8[k].to ELSE v1[w]]
        /\ v9' = [w \in Two |-> IF w \in ids THEN "nothing" ELSE v9[w]]
        /\ v8' = W!RemoveAt(m, k)
    BY <1>6 DEF W!Change
  <2> HIDE DEF m
  <2>3. /\ v1' \in [Two -> Level] /\ v9' \in [Two -> Level \cup {"nothing"}]
        /\ \A w \in Two \ ids : v1'[w] = v1[w] /\ v9'[w] = v9[w]
        /\ \A w \in ids : v9'[w] = "nothing"
    BY <1>2, <2>2 DEF WordInv
  <2>4. \A j \in DOMAIN m, w \in Two : Through(m[j], w) => v1'[w] \in {m[j].to, None}
    BY <1>1, <2>1, <2>3
  <2>5. v5 => (v6 # None /\ v6.batch) \/ \E j \in DOMAIN m : m[j].batch
    BY <1>1, <2>1
  <2>6. v5' = (v5 /\ ~m[k].batch) /\ k \in DOMAIN m
    BY <1>3, <2>1
  <2>7. /\ v8' \in Seq(WordEdit)
        /\ \A j \in DOMAIN v8', w \in Two : Through(v8'[j], w) => v1'[w] \in {v8'[j].to, None}
        /\ W!BusyEnds'
    BY <1>3, <2>1, <2>2, <2>4, <2>5, <2>6, WordAnswered
  <2>8. W!ToldIsDone'
    BY <2>3 DEF WordInv, W!ToldIsDone
  <2> QED BY <1>3, <1>4, <2>3, <2>7, <2>8 DEF WordInv
<1> QED BY <1>5, <1>6 DEF W!FailedChunk

\* All chunks went through: what the page says is so.
LEMMA WordFinished ==
  ASSUME WordInv, NEW k \in DOMAIN v8, W!Finished(k) PROVE WordInv'
<1>1. /\ v8 \in Seq(WordEdit) /\ v8[k] \in WordEdit
      /\ \A j \in DOMAIN v8, w \in Two : Through(v8[j], w) => v1[w] \in {v8[j].to, None}
      /\ v5 => (v6 # None /\ v6.batch) \/ \E j \in DOMAIN v8 : v8[j].batch
  BY DEF WordInv, W!BusyEnds
<1>2. /\ v4' \in SUBSET Two /\ v6' = v6 /\ v1' = v1 /\ v5' = (v5 /\ ~v8[k].batch)
      /\ v8' = W!RemoveAt(v8, k) /\ v8[k].todo = {}
      /\ v9' = [w \in Two |-> IF w \in v8[k].targets \ v8[k].over THEN v8[k].to ELSE v9[w]]
  BY DEF W!Finished, WordInv
<1>3. v5' \in BOOLEAN /\ v9' \in [Two -> Level \cup {"nothing"}]
  BY <1>1, <1>2 DEF WordInv, WordEdit
<1>4. /\ v8' \in Seq(WordEdit)
      /\ \A j \in DOMAIN v8', w \in Two : Through(v8'[j], w) => v1'[w] \in {v8'[j].to, None}
      /\ W!BusyEnds'
  BY <1>1, <1>2, WordAnswered
<1>5. W!ToldIsDone'
  <2> SUFFICES ASSUME NEW w \in Two, v9'[w] # "nothing"
               PROVE  v1'[w] = v9'[w] \/ v1'[w] = None
    BY DEF W!ToldIsDone
  <2>1. CASE w \in v8[k].targets \ v8[k].over
    <3>1. Through(v8[k], w) /\ v9'[w] = v8[k].to
      BY <1>2, <2>1 DEF Through
    <3> QED BY <1>1, <1>2, <3>1
  <2>2. CASE w \notin v8[k].targets \ v8[k].over
    BY <1>2, <2>2 DEF WordInv, W!ToldIsDone
  <2> QED BY <2>1, <2>2
<1> QED BY <1>2, <1>3, <1>4, <1>5 DEF WordInv

LEMMA WordStep == WordInv /\ W!WordNext => WordInv'
<1> SUFFICES ASSUME WordInv, W!WordNext PROVE WordInv'
  OBVIOUS
<1>1. ASSUME v4' \in SUBSET Two, UNCHANGED <<v1, v5, v6, v8, v9>> PROVE WordInv'
  BY <1>1 DEF WordInv, W!ToldIsDone, W!BusyEnds
<1>2. CASE W!Read
  BY <1>1, <1>2 DEF W!Read, W!Pruned, WordInv
<1>3. ASSUME NEW f, W!SetFilter(f) PROVE WordInv'
  BY <1>1, <1>3 DEF W!SetFilter, W!Pruned, WordInv
<1>4. ASSUME NEW w \in Two, W!Toggle(w) \/ W!Add(w) PROVE WordInv'
  BY <1>1, <1>4 DEF W!Toggle, W!Add, W!page, WordInv
<1>5. CASE W!Confirm
  <2>1. /\ v6 # None /\ v6 \in WordQuestion /\ v6' = None /\ UNCHANGED <<v1, v4, v5, v9>>
        /\ W!Edit(None, v6.targets, v6.batch)
    BY <1>5 DEF W!Confirm, W!page, WordInv
  <2>2. v6.targets \in SUBSET Two /\ v6.batch \in BOOLEAN /\ None \in Level
    BY <2>1 DEF WordQuestion, Level
  <2>3. v5' \in BOOLEAN /\ (v5' => v6.batch \/ \E k \in DOMAIN v8 : v8[k].batch)
    BY <2>1 DEF WordInv, W!BusyEnds
  <2>4. v5' => v6.batch \/ (v6' # None /\ v6'.batch) \/ \E k \in DOMAIN v8 : v8[k].batch
    BY <2>3
  <2>5. v6' # None => v6' \in WordQuestion
    BY <2>1
  <2> QED BY <2>1, <2>2, <2>3, <2>4, <2>5, WordSent, Zenon
<1>6. CASE W!Cancel
  <2>1. /\ v6 # None /\ v6 \in WordQuestion /\ v6' = None /\ v5' = (v5 /\ ~v6.batch)
        /\ UNCHANGED <<v1, v4, v8, v9>>
    BY <1>6 DEF W!Cancel, W!page, WordInv
  <2>2. v5' \in BOOLEAN
    BY <2>1 DEF WordInv, WordQuestion
  <2>3. W!BusyEnds'
    BY <2>1 DEF WordInv, W!BusyEnds
  <2> QED BY <2>1, <2>2, <2>3 DEF WordInv, W!ToldIsDone
<1>7. ASSUME NEW w \in Two, W!ToggleLevel(w) \/ W!RemoveWord(w) PROVE WordInv'
  <2>1. \E to \in Level : W!Start(to, {w}, FALSE)
    <3>1. {"block", "review", None} \subseteq Level
      BY DEF Level, W!Levels
    <3> QED BY <1>7, <3>1 DEF W!ToggleLevel, W!RemoveWord
  <2> QED BY <2>1, WordStarted
<1>8. ASSUME NEW to \in Level, W!Batch(to) PROVE WordInv'
  <2>1. W!Start(to, v4, TRUE) /\ v4 \in SUBSET Two
    BY <1>8 DEF W!Batch, WordInv
  <2> QED BY <2>1, WordStarted
<1>9. ASSUME NEW to \in Level, NEW w \in Two, W!Elsewhere(w, to) PROVE WordInv'
  <2>1. /\ v1' = [v1 EXCEPT ![w] = to] /\ v9' = [v9 EXCEPT ![w] = "nothing"]
        /\ v8' = W!Over(v8, {w}) /\ UNCHANGED <<v4, v5, v6>>
    BY <1>9 DEF W!Elsewhere, W!page
  <2>2. /\ v1' \in [Two -> Level] /\ v9' \in [Two -> Level \cup {"nothing"}]
        /\ \A x \in Two \ {w} : v1'[x] = v1[x] /\ v9'[x] = v9[x]
        /\ \A x \in {w} : v9'[x] \in {"nothing", v1'[x]}
    BY <2>1 DEF WordInv
  <2> QED BY <2>1, <2>2, WordsChanged
<1>10. ASSUME NEW w \in Two, NEW l \in W!Levels, W!Added(w, l) PROVE WordInv'
  <2>1. v4' \in SUBSET Two /\ UNCHANGED <<v5, v6>>
    BY <1>10 DEF W!Added, W!Pruned, WordInv
  <2>2. CASE UNCHANGED <<v1, v9, v8>>
    BY <1>1, <2>1, <2>2
  <2>3. ASSUME v1' = [v1 EXCEPT ![w] = l], v8' = W!Over(v8, {w}),
               NEW a \in {l, "nothing"}, v9' = [v9 EXCEPT ![w] = a]
        PROVE  WordInv'
    <3>1. v8 \in Seq(WordEdit) /\ l \in Level
      BY DEF WordInv, Level
    <3>2. /\ v1' \in [Two -> Level] /\ v9' \in [Two -> Level \cup {"nothing"}]
          /\ \A x \in Two \ {w} : v1'[x] = v1[x] /\ v9'[x] = v9[x]
          /\ v9'[w] \in {"nothing", v1'[w]}
      BY <2>3, <3>1 DEF WordInv
    <3>3. /\ v8' \in Seq(WordEdit) /\ DOMAIN v8' = DOMAIN v8
          /\ \A k \in DOMAIN v8' :
               /\ v8'[k].to = v8[k].to /\ v8'[k].batch = v8[k].batch
               /\ \A x \in Two : Through(v8'[k], x) => Through(v8[k], x) /\ x \notin {w}
      BY <2>3, <3>1, WordsOver
    <3>4. \A k \in DOMAIN v8', x \in Two : Through(v8'[k], x) => v1'[x] \in {v8'[k].to, None}
      BY <3>2, <3>3 DEF WordInv
    <3>5. W!ToldIsDone'
      BY <3>2 DEF WordInv, W!ToldIsDone
    <3>6. W!BusyEnds'
      BY <2>1, <3>3 DEF WordInv, W!BusyEnds
    <3> QED BY <2>1, <3>2, <3>3, <3>4, <3>5, <3>6 DEF WordInv
  <2> QED BY <1>10, <2>2, <2>3 DEF W!Added
<1>11. ASSUME NEW k \in DOMAIN v8, NEW ids \in W!Chunks(v8[k]),
              W!NextChunk(k, ids) \/ W!FailedChunk(k, ids)
       PROVE  WordInv'
  <2>1. ids \in SUBSET v8[k].todo
    BY DEF W!Chunks
  <2> QED BY <1>11, <2>1, WordChunk, WordFailed
<1> QED
  BY <1>2, <1>3, <1>4, <1>5, <1>6, <1>7, <1>8, <1>9, <1>10, <1>11, WordFinished
     DEF W!WordNext, Level

-----------------------------------------------------------------------------
\* The issues.  What a request found is what the issue was before its effect, until
\* somebody else changes it.
IssueRecord == [closed : BOOLEAN, dup : BOOLEAN, triaged : BOOLEAN, assigned : BOOLEAN]
IssueRows == UNION {[S -> IssueRecord] : S \in SUBSET Issues}
IssueActions == {"triage", "untriage", "mark_dup", "close", "reopen"}
IssueCall == [action : IssueActions, rows : IssueRows, batch : BOOLEAN, undo : BOOLEAN,
              before : IssueRows, served : BOOLEAN, failed : SUBSET Issues]
IssueOffer == [action : IssueActions, rows : IssueRows, before : IssueRows]
IssueQuestion == [rows : IssueRows, batch : BOOLEAN]
Undoables == {"triage", "mark_dup", "close"}

\* The undo of action a, of rows that it can be undone for, is still to be served.
UndoInv(c, iss) ==
  /\ DOMAIN c.rows \subseteq DOMAIN iss /\ DOMAIN c.before \subseteq DOMAIN c.rows
  /\ \E a \in Undoables :
       /\ c.action = I!UndoOf(a) /\ \A i \in DOMAIN c.rows : I!Undoable(a, c.rows[i])
       /\ \A i \in DOMAIN c.before : iss[i] = I!Effect(a, c.before[i], TRUE)

CallInv(c, iss) ==
  /\ DOMAIN c.rows \subseteq DOMAIN iss /\ DOMAIN c.before \subseteq DOMAIN c.rows
  /\ ~c.undo => /\ c.action # "untriage"
                /\ ~c.served => DOMAIN c.before = {}
                /\ \A i \in DOMAIN c.before : iss[i] = I!Effect(c.action, c.before[i], TRUE)
  /\ c.undo /\ ~c.served => UndoInv(c, iss)
  /\ c.undo /\ c.served => \A i \in DOMAIN c.before :
       c.before[i] = c.rows[i] => /\ I!State(iss[i]) = I!State(c.before[i])
                                  /\ iss[i].assigned = c.before[i].assigned

IssueInv ==
  /\ v1 \in IssueRows /\ v2 \in IssueRows /\ DOMAIN v2 \subseteq DOMAIN v1
  /\ v4 \in SUBSET DOMAIN v2 /\ v5 \in BOOLEAN
  /\ v6 # None => v6 \in IssueQuestion /\ DOMAIN v6.rows \subseteq DOMAIN v1
  /\ v7 \in Seq(IssueCall) /\ \A k \in DOMAIN v7 : CallInv(v7[k], v1)
  /\ v8 # None => v8 \in IssueOffer /\ UndoInv(v8, v1)
  /\ I!BusyEnds

LEMMA RowsAre ==
  ASSUME NEW f PROVE f \in IssueRows <=>
    /\ f = [i \in DOMAIN f |-> f[i]] /\ DOMAIN f \in SUBSET Issues
    /\ \A i \in DOMAIN f : f[i] \in IssueRecord
<1>1. ASSUME f \in IssueRows
      PROVE  /\ f = [i \in DOMAIN f |-> f[i]] /\ DOMAIN f \in SUBSET Issues
             /\ \A i \in DOMAIN f : f[i] \in IssueRecord
  <2>1. PICK S \in SUBSET Issues : f \in [S -> IssueRecord]
    BY <1>1 DEF IssueRows
  <2> QED BY <2>1
<1>2. ASSUME f = [i \in DOMAIN f |-> f[i]], DOMAIN f \in SUBSET Issues,
             \A i \in DOMAIN f : f[i] \in IssueRecord
      PROVE  f \in IssueRows
  <2>1. f \in [DOMAIN f -> IssueRecord]
    BY <1>2
  <2> QED BY <1>2, <2>1 DEF IssueRows
<1> QED BY <1>1, <1>2

LEMMA RowsRestricted ==
  ASSUME NEW f \in IssueRows, NEW S \in SUBSET DOMAIN f, NEW g, g = I!Restrict(f, S)
  PROVE  g \in IssueRows /\ DOMAIN g = S /\ \A i \in S : g[i] = f[i]
<1>1. g = [i \in S |-> f[i]]
  BY DEF I!Restrict
<1>2. DOMAIN f \in SUBSET Issues /\ \A i \in S : f[i] \in IssueRecord
  BY RowsAre
<1>3. DOMAIN g = S /\ g = [i \in DOMAIN g |-> g[i]] /\ \A i \in S : g[i] = f[i]
  BY <1>1
<1> QED BY <1>2, <1>3, RowsAre

LEMMA Effects ==
  ASSUME NEW a \in IssueActions, NEW v \in IssueRecord, NEW keep \in BOOLEAN
  PROVE  /\ I!Effect(a, v, keep) \in IssueRecord /\ I!Partial(a, v) \in IssueRecord
         /\ a # "untriage" => I!Effect(a, v, keep) = I!Effect(a, v, TRUE)
BY DEF IssueActions, IssueRecord, I!Effect, I!Partial

LEMMA UndoReverses ==
  ASSUME NEW a \in Undoables, NEW v \in IssueRecord, I!Undoable(a, v),
         NEW w, w = I!Effect(I!UndoOf(a), I!Effect(a, v, TRUE), v.assigned)
  PROVE  I!State(w) = I!State(v) /\ w.assigned = v.assigned
<1>1. CASE a = "triage"
  <2>1. /\ I!UndoOf(a) = "untriage" /\ I!State(v) = "new"
        /\ I!Effect(a, v, TRUE) = [v EXCEPT !.triaged = TRUE, !.assigned = TRUE]
    BY <1>1 DEF I!UndoOf, I!Undoable, I!Effect
  <2>2. ~v.closed /\ ~v.triaged
    BY <2>1 DEF I!State, IssueRecord
  <2>3. w = [[v EXCEPT !.triaged = TRUE, !.assigned = TRUE]
               EXCEPT !.triaged = FALSE, !.assigned = @ /\ v.assigned]
    BY <2>1 DEF I!Effect
  <2>4. ~w.closed /\ ~w.triaged /\ w.assigned = v.assigned
    BY <2>2, <2>3 DEF IssueRecord
  <2> QED BY <2>1, <2>4 DEF I!State
<1>2. CASE a = "mark_dup" \/ a = "close"
  <2>1. I!UndoOf(a) = "reopen" /\ ~v.closed
    BY <1>2 DEF I!UndoOf, I!Undoable, I!IsOpen, I!State
  <2>2. \/ I!Effect(a, v, TRUE) = [v EXCEPT !.dup = TRUE, !.closed = TRUE]
        \/ I!Effect(a, v, TRUE) = [v EXCEPT !.closed = TRUE]
    BY <1>2 DEF I!Effect
  <2>3. w = [I!Effect(a, v, TRUE) EXCEPT !.dup = FALSE, !.closed = FALSE]
    BY <2>1 DEF I!Effect
  <2>4. ~w.closed /\ w.triaged = v.triaged /\ w.assigned = v.assigned
    BY <2>2, <2>3 DEF IssueRecord
  <2> QED BY <2>1, <2>4 DEF I!State
<1> QED BY <1>1, <1>2 DEF Undoables

\* Somebody changes some issues: requests and the undo offered forget what those were.
Forgets(f, is, g) ==
  g \in IssueRows /\ DOMAIN g = DOMAIN f \ is /\ \A i \in DOMAIN g : g[i] = f[i]

LEMMA BeforeTouched ==
  ASSUME NEW f \in IssueRows, NEW is \in SUBSET Issues
  PROVE  Forgets(f, is, I!Without(f, is))
<1> DEFINE g == I!Without(f, is)
<1>1. g = I!Restrict(f, DOMAIN f \ is)
  BY DEF I!Without
<1> QED BY <1>1, RowsRestricted DEF Forgets

LEMMA CallTouched ==
  ASSUME NEW c \in IssueCall, NEW iss, NEW new, NEW is \in SUBSET Issues, CallInv(c, iss),
         DOMAIN new = DOMAIN iss, \A i \in DOMAIN iss \ is : new[i] = iss[i],
         NEW d, d = [c EXCEPT !.before = I!Without(@, is)]
  PROVE  d \in IssueCall /\ CallInv(d, new) /\ d.batch = c.batch
<1> DEFINE g == I!Without(c.before, is)
<1>1. c.before \in IssueRows
  BY DEF IssueCall
<1>2. Forgets(c.before, is, g)
  BY <1>1, BeforeTouched
<1>3. d = [c EXCEPT !.before = g]
  OBVIOUS
<1> HIDE DEF g
<1>4. /\ d \in IssueCall /\ d.before = g /\ d.action = c.action /\ d.rows = c.rows
      /\ d.batch = c.batch /\ d.undo = c.undo /\ d.served = c.served
  BY <1>2, <1>3 DEF IssueCall, Forgets
<1>5. \A i \in DOMAIN g : new[i] = iss[i] /\ g[i] = c.before[i] /\ i \in DOMAIN c.before
  BY <1>2 DEF CallInv, Forgets
<1>6. DOMAIN d.rows \subseteq DOMAIN new /\ DOMAIN d.before \subseteq DOMAIN d.rows
  BY <1>2, <1>4 DEF CallInv, Forgets
<1>7. ASSUME c.undo, ~c.served PROVE UndoInv(d, new)
  <2>1. PICK a \in Undoables :
          /\ c.action = I!UndoOf(a) /\ \A i \in DOMAIN c.rows : I!Undoable(a, c.rows[i])
          /\ \A i \in DOMAIN c.before : iss[i] = I!Effect(a, c.before[i], TRUE)
    BY <1>7 DEF CallInv, UndoInv
  <2>2. \A i \in DOMAIN d.before : new[i] = I!Effect(a, d.before[i], TRUE)
    BY <1>4, <1>5, <2>1
  <2> QED BY <1>4, <1>6, <2>1, <2>2 DEF UndoInv
<1>8. ~d.undo => /\ d.action # "untriage"
                 /\ ~d.served => DOMAIN d.before = {}
                 /\ \A i \in DOMAIN d.before : new[i] = I!Effect(d.action, d.before[i], TRUE)
  BY <1>4, <1>5 DEF CallInv
<1>9. d.undo /\ d.served => \A i \in DOMAIN d.before :
       d.before[i] = d.rows[i] => /\ I!State(new[i]) = I!State(d.before[i])
                                  /\ new[i].assigned = d.before[i].assigned
  BY <1>4, <1>5 DEF CallInv
<1>10. CallInv(d, new)
  BY <1>4, <1>6, <1>7, <1>8, <1>9 DEF CallInv
<1> QED BY <1>4, <1>10

LEMMA OfferTouched ==
  ASSUME IssueInv, NEW is \in SUBSET Issues, I!OfferTouched(is),
         DOMAIN v1' = DOMAIN v1, \A i \in DOMAIN v1 \ is : v1'[i] = v1[i]
  PROVE  v8' # None => v8' \in IssueOffer /\ UndoInv(v8', v1')
<1> SUFFICES ASSUME v8' # None PROVE v8' \in IssueOffer /\ UndoInv(v8', v1')
  OBVIOUS
<1> DEFINE g == I!Without(v8.before, is)
<1>1. v8 # None /\ v8' = [v8 EXCEPT !.before = g]
  BY DEF I!OfferTouched
<1>2. v8 \in IssueOffer /\ UndoInv(v8, v1)
  BY <1>1 DEF IssueInv
<1>3. v8.before \in IssueRows
  BY <1>2 DEF IssueOffer
<1>4. Forgets(v8.before, is, g)
  BY <1>3, BeforeTouched
<1> HIDE DEF g
<1>5. /\ v8' \in IssueOffer /\ v8'.before = g /\ v8'.action = v8.action
      /\ v8'.rows = v8.rows
  BY <1>1, <1>2, <1>4 DEF IssueOffer, Forgets
<1>6. \A i \in DOMAIN g : v1'[i] = v1[i] /\ g[i] = v8.before[i] /\ i \in DOMAIN v8.before
  BY <1>2, <1>4 DEF UndoInv, Forgets
<1>7. PICK a \in Undoables :
        /\ v8.action = I!UndoOf(a) /\ \A i \in DOMAIN v8.rows : I!Undoable(a, v8.rows[i])
        /\ \A i \in DOMAIN v8.before : v1[i] = I!Effect(a, v8.before[i], TRUE)
  BY <1>2 DEF UndoInv
<1>8. \A i \in DOMAIN v8'.before : v1'[i] = I!Effect(a, v8'.before[i], TRUE)
  BY <1>5, <1>6, <1>7
<1>9. DOMAIN v8'.rows \subseteq DOMAIN v1' /\ DOMAIN v8'.before \subseteq DOMAIN v8'.rows
  BY <1>2, <1>4, <1>5 DEF UndoInv, Forgets
<1> QED BY <1>5, <1>7, <1>8, <1>9 DEF UndoInv

\* A request is answered: the others stay.
LEMMA CallAnswered ==
  ASSUME IssueInv, NEW k \in DOMAIN v7, v7' = I!RemoveAt(v7, k), UNCHANGED <<v1, v6>>,
         v5' = (v5 /\ ~v7[k].batch)
  PROVE  /\ v5' \in BOOLEAN /\ v7' \in Seq(IssueCall)
         /\ (\A j \in DOMAIN v7' : CallInv(v7'[j], v1')) /\ I!BusyEnds'
<1>0. v7' = SubSeq(v7, 1, k - 1) \o SubSeq(v7, k + 1, Len(v7))
  BY DEF I!RemoveAt
<1>1. v7 \in Seq(IssueCall)
  BY DEF IssueInv
<1>2. v7' \in Seq(IssueCall) /\ AllBut(v7, k, v7')
  BY <1>0, <1>1, Removed
<1>3. v7[k] \in IssueCall
  BY <1>1
<1>4. v5' \in BOOLEAN
  BY <1>3 DEF IssueInv, IssueCall
<1>5. I!BusyEnds'
  <2>1. SUFFICES ASSUME v5, ~v7[k].batch, ~(v6 # None /\ v6.batch)
                 PROVE  \E j \in DOMAIN v7' : v7'[j].batch
    BY DEF I!BusyEnds
  <2>2. PICK i \in DOMAIN v7 \ {k} : v7[i].batch
    BY <2>1 DEF IssueInv, I!BusyEnds
  <2> QED BY <1>2, <2>2 DEF AllBut
<1>6. \A j \in DOMAIN v7' : CallInv(v7'[j], v1)
  BY <1>2 DEF AllBut, IssueInv
<1> QED BY <1>2, <1>4, <1>5, <1>6

LEMMA NoRows == <<>> \in IssueRows /\ DOMAIN <<>> = {}
<1>1. DOMAIN <<>> = {} /\ <<>> = [i \in {} |-> <<>>[i]]
  OBVIOUS
<1> QED BY <1>1, RowsAre

LEMMA ViewIsRead ==
  ASSUME v1 \in IssueRows, UNCHANGED <<v1, v3>>
  PROVE  I!View' = I!View /\ I!View \in IssueRows /\ DOMAIN I!View \subseteq DOMAIN v1
<1> DEFINE S == {i \in DOMAIN v1 : I!InFilter(v1[i])}
<1>1. I!View = I!Restrict(v1, S) /\ S \in SUBSET DOMAIN v1
  BY DEF I!View
<1>2. I!View' = I!View
  BY DEF I!View, I!InFilter
<1> HIDE DEF S
<1> QED BY <1>1, <1>2, RowsRestricted

\* A request is made.
LEMMA IssueSent ==
  ASSUME IssueInv, NEW action \in IssueActions, NEW which \in IssueRows, NEW batch \in BOOLEAN,
         NEW undo \in BOOLEAN, NEW before \in IssueRows,
         I!Call(action, which, batch, undo, before),
         DOMAIN which \subseteq DOMAIN v1, DOMAIN before \subseteq DOMAIN which,
         ~undo => action # "untriage" /\ DOMAIN before = {},
         undo => v8 # None /\ action = v8.action /\ which = v8.rows /\ before = v8.before,
         UNCHANGED <<v1, v2, v4>>, v5' \in BOOLEAN, v8' \in {v8, None},
         v6' # None => v6' \in IssueQuestion /\ DOMAIN v6'.rows \subseteq DOMAIN v1,
         v5' => batch \/ (v6' # None /\ v6'.batch) \/ \E k \in DOMAIN v7 : v7[k].batch
  PROVE  IssueInv'
<1> DEFINE c == [action |-> action, rows |-> which, batch |-> batch, undo |-> undo,
                 before |-> before, served |-> FALSE, failed |-> {}]
<1>1. v7' = Append(v7, c)
  BY DEF I!Call
<1>2. /\ c \in IssueCall /\ c.batch = batch /\ c.undo = undo /\ ~c.served
      /\ c.before = before /\ c.rows = which /\ c.action = action
  BY DEF IssueCall
<1> HIDE DEF c
<1>3. undo => UndoInv(c, v1)
  BY <1>2 DEF UndoInv, IssueInv
<1>4. CallInv(c, v1)
  BY <1>2, <1>3 DEF CallInv
<1>5. v7 \in Seq(IssueCall)
  BY DEF IssueInv
<1>6. /\ v7' \in Seq(IssueCall) /\ DOMAIN v7' = DOMAIN v7 \cup {Len(v7) + 1}
      /\ v7'[Len(v7) + 1] = c /\ \A k \in DOMAIN v7 : v7'[k] = v7[k]
  BY <1>1, <1>2, <1>5
<1>7. \A k \in DOMAIN v7' : CallInv(v7'[k], v1)
  BY <1>4, <1>6 DEF IssueInv
<1>8. I!BusyEnds'
  BY <1>2, <1>6 DEF I!BusyEnds
<1>9. v8' # None => v8' \in IssueOffer /\ UndoInv(v8', v1)
  BY DEF IssueInv
<1> QED BY <1>6, <1>7, <1>8, <1>9 DEF IssueInv

LEMMA IssueStarted ==
  ASSUME IssueInv, NEW action \in IssueActions, action # "untriage",
         NEW which \in SUBSET DOMAIN v2, NEW batch \in BOOLEAN, I!Start(action, which, batch)
  PROVE  IssueInv'
<1> DEFINE r == I!Restrict(v2, which)
<1>1. /\ v6 = None /\ v5' = (v5 \/ batch) /\ UNCHANGED <<v1, v2, v4, v8>>
      /\ v2 \in IssueRows /\ DOMAIN v2 \subseteq DOMAIN v1
  BY DEF I!Start, I!table, IssueInv
<1>2. r \in IssueRows /\ DOMAIN r = which
  BY <1>1, RowsRestricted
<1>3. /\ DOMAIN r \subseteq DOMAIN v1 /\ v5' \in BOOLEAN
      /\ v5' => batch \/ \E k \in DOMAIN v7 : v7[k].batch
  BY <1>1, <1>2 DEF IssueInv, I!BusyEnds
<1>4. CASE action = "close"
  <2>1. v6' = [rows |-> r, batch |-> batch] /\ v7' = v7
    BY <1>4 DEF I!Start
  <2> HIDE DEF r
  <2>2. v6' \in IssueQuestion /\ v6'.batch = batch /\ v6'.rows = r
    BY <1>2, <2>1 DEF IssueQuestion
  <2>3. v6' # None
    BY <2>2, CloseAssumption DEF IssueQuestion, IssueRows, IssueRecord
  <2>4. I!BusyEnds'
    BY <1>3, <2>1, <2>2, <2>3 DEF I!BusyEnds
  <2> QED BY <1>1, <1>2, <1>3, <2>1, <2>2, <2>4 DEF IssueInv
<1>5. CASE action # "close"
  <2>1. I!Call(action, r, batch, FALSE, <<>>) /\ v6' = None
    BY <1>1, <1>5 DEF I!Start
  <2> HIDE DEF r
  <2>2. DOMAIN <<>> \subseteq DOMAIN r
    BY NoRows
  <2>3. v5' => batch \/ (v6' # None /\ v6'.batch) \/ \E k \in DOMAIN v7 : v7[k].batch
    BY <1>3
  <2>4. v8' \in {v8, None} /\ UNCHANGED <<v1, v2, v4>>
    BY <1>1
  <2> QED BY <1>2, <1>3, <2>1, <2>2, <2>3, <2>4, NoRows, IssueSent
<1> QED BY <1>4, <1>5

\* The dialog of closing is confirmed, and the undo of the toast is taken.
LEMMA IssueConfirmed == ASSUME IssueInv, I!Confirm PROVE IssueInv'
<1>1. /\ v6 # None /\ v6' = None /\ UNCHANGED <<v1, v2, v4, v5, v8>>
      /\ I!Call("close", v6.rows, v6.batch, FALSE, <<>>)
  BY DEF I!Confirm, I!table
<1>2. v6 \in IssueQuestion /\ DOMAIN v6.rows \subseteq DOMAIN v1
  BY <1>1 DEF IssueInv
<1>3. v6.rows \in IssueRows /\ v6.batch \in BOOLEAN /\ "close" \in IssueActions
  BY <1>2 DEF IssueQuestion, IssueActions
<1>4. v5' \in BOOLEAN /\ (v5' => v6.batch \/ (v6' # None /\ v6'.batch)
                                 \/ \E k \in DOMAIN v7 : v7[k].batch)
  BY <1>1 DEF IssueInv, I!BusyEnds
<1>5. DOMAIN <<>> \subseteq DOMAIN v6.rows
  BY NoRows
<1> QED BY <1>1, <1>2, <1>3, <1>4, <1>5, NoRows, IssueSent

LEMMA IssueUndone == ASSUME IssueInv, I!Undo PROVE IssueInv'
<1>1. /\ v8 # None /\ v8' = None /\ UNCHANGED <<v1, v2, v4, v5, v6>>
      /\ I!Call(v8.action, v8.rows, FALSE, TRUE, v8.before)
  BY DEF I!Undo, I!table, I!dialog
<1>2. v8 \in IssueOffer /\ UndoInv(v8, v1)
  BY <1>1 DEF IssueInv
<1>3. /\ v8.action \in IssueActions /\ v8.rows \in IssueRows /\ v8.before \in IssueRows
      /\ DOMAIN v8.rows \subseteq DOMAIN v1 /\ DOMAIN v8.before \subseteq DOMAIN v8.rows
  BY <1>2 DEF IssueOffer, UndoInv
<1>4. v5' \in BOOLEAN /\ (v5' => (v6' # None /\ v6'.batch) \/ \E k \in DOMAIN v7 : v7[k].batch)
  BY <1>1 DEF IssueInv, I!BusyEnds
<1>5. v6' # None => v6' \in IssueQuestion /\ DOMAIN v6'.rows \subseteq DOMAIN v1
  BY <1>1 DEF IssueInv
<1> QED BY <1>1, <1>3, <1>4, <1>5, IssueSent

LEMMA CallsTouched ==
  ASSUME IssueInv, NEW new, NEW is \in SUBSET Issues,
         DOMAIN new = DOMAIN v1, \A i \in DOMAIN v1 \ is : new[i] = v1[i],
         NEW t, t = I!Touched(v7, is)
  PROVE  /\ t \in Seq(IssueCall) /\ DOMAIN t = DOMAIN v7
         /\ \A k \in DOMAIN v7 :
              t[k] \in IssueCall /\ CallInv(t[k], new) /\ t[k].batch = v7[k].batch
<1>1. v7 \in Seq(IssueCall) /\ \A k \in DOMAIN v7 : v7[k] \in IssueCall /\ CallInv(v7[k], v1)
  BY DEF IssueInv
<1>2. /\ DOMAIN t = DOMAIN v7 /\ t = [k \in DOMAIN v7 |-> t[k]]
      /\ \A k \in DOMAIN v7 : t[k] = [v7[k] EXCEPT !.before = I!Without(@, is)]
  BY DEF I!Touched
<1>3. ASSUME NEW k \in DOMAIN v7
      PROVE  t[k] \in IssueCall /\ CallInv(t[k], new) /\ t[k].batch = v7[k].batch
  <2>1. /\ v7[k] \in IssueCall /\ CallInv(v7[k], v1)
        /\ t[k] = [v7[k] EXCEPT !.before = I!Without(@, is)]
    BY <1>1, <1>2
  <2> QED BY <2>1, CallTouched
<1> QED BY <1>1, <1>2, <1>3, Mapped

\* The server changes some of the issues of request k, and finds them as they are.
LEMMA IssueServed ==
  ASSUME IssueInv, NEW k \in DOMAIN v7, I!Serve(k) PROVE IssueInv'
<1> DEFINE c == v7[k]
           t == I!Touched(v7, DOMAIN c.rows)
<1>1. /\ v7 \in Seq(IssueCall) /\ c \in IssueCall /\ CallInv(c, v1) /\ v1 \in IssueRows
      /\ ~c.served /\ I!OfferTouched(DOMAIN c.rows) /\ UNCHANGED <<v2, v4, v5, v6>>
  BY DEF I!Serve, I!table, I!dialog, IssueInv
<1>2. PICK failed \in SUBSET DOMAIN c.rows, part \in BOOLEAN :
        LET left(i) == IF part THEN I!Partial(c.action, v1[i]) ELSE v1[i]
            done == DOMAIN c.rows \ failed
        IN
        /\ v1' = [i \in DOMAIN v1 |->
                    CASE i \in done   -> I!Effect(c.action, v1[i], c.rows[i].assigned)
                      [] i \in failed -> left(i)
                      [] OTHER        -> v1[i]]
        /\ v7' = [t EXCEPT ![k] =
                    [c EXCEPT !.served = TRUE, !.failed = failed,
                              !.before = IF c.undo THEN I!Restrict(@, done \cap DOMAIN @)
                                         ELSE I!Restrict(v1, done)]]
  BY DEF I!Serve
<1> DEFINE done == DOMAIN c.rows \ failed
           before == IF c.undo THEN I!Restrict(c.before, done \cap DOMAIN c.before)
                     ELSE I!Restrict(v1, done)
           d == [c EXCEPT !.served = TRUE, !.failed = failed, !.before = before]
<1>3. v7' = [t EXCEPT ![k] = d]
  BY <1>2
<1>4. /\ c.action \in IssueActions /\ c.rows \in IssueRows /\ c.before \in IssueRows
      /\ c.undo \in BOOLEAN /\ DOMAIN c.rows \subseteq DOMAIN v1
      /\ DOMAIN c.before \subseteq DOMAIN c.rows /\ done \subseteq DOMAIN c.rows
  BY <1>1 DEF IssueCall, CallInv
<1>5. /\ DOMAIN v1 \in SUBSET Issues /\ \A i \in DOMAIN v1 : v1[i] \in IssueRecord
      /\ \A i \in DOMAIN c.rows : c.rows[i] \in IssueRecord /\ c.rows[i].assigned \in BOOLEAN
  <2>1. /\ DOMAIN v1 \in SUBSET Issues /\ \A i \in DOMAIN v1 : v1[i] \in IssueRecord
        /\ \A i \in DOMAIN c.rows : c.rows[i] \in IssueRecord
    BY <1>1, <1>4, RowsAre
  <2> QED BY <2>1 DEF IssueRecord
<1>6. /\ DOMAIN v1' = DOMAIN v1 /\ v1' = [i \in DOMAIN v1 |-> v1'[i]]
      /\ \A i \in done : v1'[i] = I!Effect(c.action, v1[i], c.rows[i].assigned)
      /\ \A i \in failed : v1'[i] \in {I!Partial(c.action, v1[i]), v1[i]}
      /\ \A i \in DOMAIN v1 \ DOMAIN c.rows : v1'[i] = v1[i]
  BY <1>2, <1>4
<1>7. \A i \in DOMAIN v1 : v1'[i] \in IssueRecord
  <2> SUFFICES ASSUME NEW i \in DOMAIN v1 PROVE v1'[i] \in IssueRecord
    OBVIOUS
  <2>1. v1[i] \in IssueRecord
    BY <1>5
  <2>2. I!Partial(c.action, v1[i]) \in IssueRecord
    BY <1>4, <2>1, Effects
  <2>3. ASSUME i \in done PROVE v1'[i] \in IssueRecord
    <3>1. /\ v1'[i] = I!Effect(c.action, v1[i], c.rows[i].assigned)
          /\ c.rows[i].assigned \in BOOLEAN
      BY <1>5, <1>6, <2>3
    <3>2. I!Effect(c.action, v1[i], c.rows[i].assigned) \in IssueRecord
      BY <1>4, <2>1, <3>1, Effects
    <3> QED BY <3>1, <3>2
  <2> QED BY <1>6, <2>1, <2>2, <2>3
<1>8. v1' \in IssueRows
  BY <1>5, <1>6, <1>7, RowsAre
<1>9. /\ t \in Seq(IssueCall) /\ DOMAIN t = DOMAIN v7
      /\ \A j \in DOMAIN v7 :
           t[j] \in IssueCall /\ CallInv(t[j], v1') /\ t[j].batch = v7[j].batch
  <2>1. DOMAIN c.rows \in SUBSET Issues
    BY <1>4, <1>5
  <2> QED BY <1>6, <2>1, CallsTouched
<1>10. /\ before \in IssueRows /\ DOMAIN before \subseteq done
       /\ \A i \in DOMAIN before :
            before[i] = IF c.undo THEN c.before[i] ELSE v1[i]
       /\ c.undo => DOMAIN before \subseteq DOMAIN c.before
  <2>1. CASE c.undo
    <3>1. done \cap DOMAIN c.before \in SUBSET DOMAIN c.before
      OBVIOUS
    <3> QED BY <1>4, <2>1, <3>1, RowsRestricted
  <2>2. CASE ~c.undo
    <3>1. done \in SUBSET DOMAIN v1
      BY <1>4
    <3> QED BY <1>1, <2>2, <3>1, RowsRestricted
  <2> QED BY <2>1, <2>2
<1>11. failed \in SUBSET Issues
  BY <1>4, <1>5
<1> HIDE DEF t, before
<1>12. /\ d \in IssueCall /\ d.batch = c.batch /\ d.undo = c.undo /\ d.served
       /\ d.before = before /\ d.rows = c.rows /\ d.action = c.action
  BY <1>1, <1>10, <1>11 DEF IssueCall
<1> HIDE DEF d
<1>13. ASSUME ~c.undo, NEW i \in DOMAIN before
       PROVE  v1'[i] = I!Effect(c.action, before[i], TRUE)
  <2>1. c.action # "untriage"
    BY <1>1, <1>13 DEF CallInv
  <2>2. i \in done /\ before[i] = v1[i] /\ i \in DOMAIN v1 /\ i \in DOMAIN c.rows
    BY <1>4, <1>10, <1>13
  <2>3. v1'[i] = I!Effect(c.action, v1[i], c.rows[i].assigned)
    BY <1>6, <2>2
  <2>4. v1[i] \in IssueRecord /\ c.rows[i].assigned \in BOOLEAN
    BY <1>5, <2>2
  <2>5. I!Effect(c.action, v1[i], c.rows[i].assigned) = I!Effect(c.action, v1[i], TRUE)
    BY <1>4, <2>1, <2>4, Effects
  <2> QED BY <2>2, <2>3, <2>5
<1>14. ASSUME c.undo, NEW i \in DOMAIN before, before[i] = c.rows[i]
       PROVE  /\ I!State(v1'[i]) = I!State(before[i])
              /\ v1'[i].assigned = before[i].assigned
  <2>1. PICK a \in Undoables :
          /\ c.action = I!UndoOf(a) /\ \A j \in DOMAIN c.rows : I!Undoable(a, c.rows[j])
          /\ \A j \in DOMAIN c.before : v1[j] = I!Effect(a, c.before[j], TRUE)
    BY <1>1, <1>14 DEF CallInv, UndoInv
  <2>2. /\ i \in done /\ before[i] = c.before[i] /\ i \in DOMAIN c.rows
        /\ i \in DOMAIN c.before /\ before[i] \in IssueRecord
    BY <1>4, <1>5, <1>10, <1>14
  <2>3. v1'[i] = I!Effect(I!UndoOf(a), I!Effect(a, before[i], TRUE), before[i].assigned)
    BY <1>6, <1>14, <2>1, <2>2
  <2>4. I!Undoable(a, before[i])
    BY <1>14, <2>1, <2>2
  <2> QED BY <2>2, <2>3, <2>4, UndoReverses
<1>15. CallInv(d, v1')
  <2>1. DOMAIN d.rows \subseteq DOMAIN v1' /\ DOMAIN d.before \subseteq DOMAIN d.rows
    BY <1>4, <1>6, <1>10, <1>12
  <2>2. ~d.undo => d.action # "untriage"
    BY <1>1, <1>12 DEF CallInv
  <2> QED BY <1>12, <1>13, <1>14, <2>1, <2>2 DEF CallInv
<1>16. /\ DOMAIN v7' = DOMAIN v7 /\ v7' \in Seq(IssueCall)
       /\ v7'[k] = d /\ \A j \in DOMAIN v7 \ {k} : v7'[j] = t[j]
  BY <1>3, <1>9, <1>12
<1>17. \A j \in DOMAIN v7 : CallInv(v7'[j], v1') /\ v7'[j].batch = v7[j].batch
  BY <1>9, <1>12, <1>15, <1>16
<1>18. I!BusyEnds'
  BY <1>1, <1>16, <1>17 DEF IssueInv, I!BusyEnds
<1>19. v8' # None => v8' \in IssueOffer /\ UndoInv(v8', v1')
  <2>1. DOMAIN c.rows \in SUBSET Issues
    BY <1>4, <1>5
  <2> QED BY <1>1, <1>6, <2>1, OfferTouched
<1> QED BY <1>1, <1>6, <1>8, <1>16, <1>17, <1>18, <1>19 DEF IssueInv

\* Its answer arrives, or is lost.
LEMMA IssueAnswered ==
  ASSUME IssueInv, NEW k \in DOMAIN v7, I!Answered(k) PROVE IssueInv'
<1> DEFINE c == v7[k]
           undo == {i \in DOMAIN c.rows \ c.failed : I!Undoable(c.action, c.rows[i])}
           r == I!Restrict(c.rows, undo)
           b == I!Restrict(c.before, DOMAIN c.before \cap undo)
<1>1. /\ v1 \in IssueRows /\ c \in IssueCall /\ CallInv(c, v1) /\ c.served
      /\ UNCHANGED <<v1, v3, v6>> /\ v7' = I!RemoveAt(v7, k) /\ v2' \in {v2, I!View'}
      /\ v4' = (IF c.batch THEN {} ELSE v4 \cap DOMAIN v2') /\ v5' = (v5 /\ ~c.batch)
      /\ \/ v8' = None
         \/ /\ ~c.undo /\ I!UndoOf(c.action) # None
            /\ v8' = [action |-> I!UndoOf(c.action), rows |-> r, before |-> b]
  BY DEF I!Answered, I!Refreshed, IssueInv
<1>2. v2' \in IssueRows /\ DOMAIN v2' \subseteq DOMAIN v1
  BY <1>1, ViewIsRead DEF IssueInv
<1>3. v4' \in SUBSET DOMAIN v2'
  BY <1>1
<1>4. /\ v5' \in BOOLEAN /\ v7' \in Seq(IssueCall)
      /\ (\A j \in DOMAIN v7' : CallInv(v7'[j], v1')) /\ I!BusyEnds'
  BY <1>1, CallAnswered
<1>5. /\ c.rows \in IssueRows /\ c.before \in IssueRows /\ c.action \in IssueActions
      /\ DOMAIN c.rows \subseteq DOMAIN v1 /\ DOMAIN c.before \subseteq DOMAIN c.rows
  BY <1>1 DEF IssueCall, CallInv
<1>6. r \in IssueRows /\ DOMAIN r = undo /\ \A i \in undo : r[i] = c.rows[i]
  <2>1. undo \in SUBSET DOMAIN c.rows
    OBVIOUS
  <2> QED BY <1>5, <2>1, RowsRestricted
<1>7. /\ b \in IssueRows /\ DOMAIN b = DOMAIN c.before \cap undo
      /\ \A i \in DOMAIN b : b[i] = c.before[i]
  <2>1. DOMAIN c.before \cap undo \in SUBSET DOMAIN c.before
    OBVIOUS
  <2> QED BY <1>5, <2>1, RowsRestricted
<1>8. \A i \in undo : i \in DOMAIN v1 /\ I!Undoable(c.action, c.rows[i])
  BY <1>5
<1> HIDE DEF undo, r, b
<1>9. ASSUME ~c.undo, I!UndoOf(c.action) # None,
             v8' = [action |-> I!UndoOf(c.action), rows |-> r, before |-> b]
      PROVE  v8' \in IssueOffer /\ UndoInv(v8', v1)
  <2>1. c.action \in Undoables /\ I!UndoOf(c.action) \in IssueActions
    BY <1>5, <1>9 DEF I!UndoOf, Undoables, IssueActions
  <2>2. /\ v8' \in IssueOffer /\ v8'.action = I!UndoOf(c.action) /\ v8'.rows = r
        /\ v8'.before = b
    BY <1>6, <1>7, <1>9, <2>1 DEF IssueOffer
  <2>3. \A i \in DOMAIN b : v1[i] = I!Effect(c.action, b[i], TRUE)
    BY <1>1, <1>7, <1>9 DEF CallInv
  <2>4. \A i \in DOMAIN r : I!Undoable(c.action, r[i])
    BY <1>6, <1>8
  <2>5. DOMAIN r \subseteq DOMAIN v1 /\ DOMAIN b \subseteq DOMAIN r
    BY <1>6, <1>7, <1>8
  <2> QED BY <2>1, <2>2, <2>3, <2>4, <2>5 DEF UndoInv
<1>10. v8' # None => v8' \in IssueOffer /\ UndoInv(v8', v1')
  BY <1>1, <1>9
<1>11. v6' # None => v6' \in IssueQuestion /\ DOMAIN v6'.rows \subseteq DOMAIN v1'
  BY <1>1 DEF IssueInv
<1> QED BY <1>1, <1>2, <1>3, <1>4, <1>10, <1>11 DEF IssueInv

LEMMA IssueFailed ==
  ASSUME IssueInv, NEW k \in DOMAIN v7, I!Failed(k) PROVE IssueInv'
<1>1. /\ v1 \in IssueRows /\ UNCHANGED <<v1, v3, v6>> /\ v7' = I!RemoveAt(v7, k)
      /\ v2' \in {v2, I!View'} /\ v4' = v4 \cap DOMAIN v2' /\ v5' = (v5 /\ ~v7[k].batch)
      /\ v8' = None
  BY DEF I!Failed, I!Refreshed, I!Pruned, IssueInv
<1>2. v2' \in IssueRows /\ DOMAIN v2' \subseteq DOMAIN v1
  BY <1>1, ViewIsRead DEF IssueInv
<1>3. /\ v5' \in BOOLEAN /\ v7' \in Seq(IssueCall)
      /\ (\A j \in DOMAIN v7' : CallInv(v7'[j], v1')) /\ I!BusyEnds'
  BY <1>1, CallAnswered
<1> QED BY <1>1, <1>2, <1>3 DEF IssueInv

\* Somebody else acts on an issue.
LEMMA IssueElsewhere ==
  ASSUME IssueInv, NEW i \in DOMAIN v1, NEW action \in IssueActions, I!Elsewhere(i, action)
  PROVE  IssueInv'
<1>1. /\ v1' = [v1 EXCEPT ![i] = I!Effect(action, v1[i], FALSE)] /\ v1 \in IssueRows
      /\ v7' = I!Touched(v7, {i}) /\ I!OfferTouched({i}) /\ UNCHANGED <<v2, v4, v5, v6>>
  BY DEF I!Elsewhere, I!table, I!dialog, IssueInv
<1>2. /\ {i} \in SUBSET Issues /\ DOMAIN v1 \in SUBSET Issues
      /\ \A j \in DOMAIN v1 : v1[j] \in IssueRecord
      /\ v1 = [j \in DOMAIN v1 |-> v1[j]]
  BY <1>1, RowsAre
<1>3. I!Effect(action, v1[i], FALSE) \in IssueRecord
  BY <1>2, Effects
<1>4. /\ DOMAIN v1' = DOMAIN v1 /\ v1' = [j \in DOMAIN v1 |-> v1'[j]]
      /\ \A j \in DOMAIN v1 \ {i} : v1'[j] = v1[j]
      /\ \A j \in DOMAIN v1 : v1'[j] \in IssueRecord
  BY <1>1, <1>2, <1>3
<1>5. v1' \in IssueRows
  BY <1>2, <1>4, RowsAre
<1>6. /\ v7' \in Seq(IssueCall) /\ DOMAIN v7' = DOMAIN v7
      /\ \A k \in DOMAIN v7 :
           v7'[k] \in IssueCall /\ CallInv(v7'[k], v1') /\ v7'[k].batch = v7[k].batch
  BY <1>1, <1>2, <1>4, CallsTouched
<1>7. v8' # None => v8' \in IssueOffer /\ UndoInv(v8', v1')
  BY <1>1, <1>2, <1>4, OfferTouched
<1>8. I!BusyEnds'
  BY <1>1, <1>6 DEF IssueInv, I!BusyEnds
<1> QED BY <1>1, <1>4, <1>5, <1>6, <1>7, <1>8 DEF IssueInv

LEMMA IssueStep == IssueInv /\ I!TriageNext => IssueInv'
<1> SUFFICES ASSUME IssueInv, I!TriageNext PROVE IssueInv'
  OBVIOUS
<1>1. ASSUME UNCHANGED <<v1, v7>>, v2' \in IssueRows, DOMAIN v2' \subseteq DOMAIN v1,
             v4' \in SUBSET DOMAIN v2', v8' \in {v8, None},
             \/ UNCHANGED <<v5, v6>>
             \/ v6 # None /\ v6' = None /\ v5' = (v5 /\ ~v6.batch)
      PROVE  IssueInv'
  <2>1. v5' \in BOOLEAN
    BY <1>1 DEF IssueInv, IssueQuestion
  <2>2. I!BusyEnds'
    BY <1>1 DEF IssueInv, I!BusyEnds
  <2> QED BY <1>1, <2>1, <2>2 DEF IssueInv
<1>2. CASE I!Read
  <2>1. v2' = I!View /\ v4' = v4 \cap DOMAIN v2' /\ UNCHANGED <<v1, v3, v5, v6, v7, v8>>
    BY <1>2 DEF I!Read, I!Pruned, I!dialog
  <2>2. v2' \in IssueRows /\ DOMAIN v2' \subseteq DOMAIN v1
    BY <2>1, ViewIsRead DEF IssueInv
  <2> QED BY <1>1, <2>1, <2>2
<1>3. ASSUME NEW f, I!SetFilter(f) PROVE IssueInv'
  BY <1>1, <1>3 DEF I!SetFilter, I!dialog, IssueInv
<1>4. ASSUME NEW i, I!Toggle(i) PROVE IssueInv'
  <2>1. v4' \in SUBSET DOMAIN v2
    BY <1>4 DEF I!Toggle, IssueInv
  <2> QED BY <1>1, <1>4, <2>1 DEF I!Toggle, I!dialog, IssueInv
<1>5. CASE I!Cancel \/ I!ToastGone
  BY <1>1, <1>5 DEF I!Cancel, I!ToastGone, I!table, I!dialog, IssueInv
<1>6. ASSUME NEW action \in {"triage", "mark_dup", "close", "reopen"},
             \/ I!Batch(action) \/ \E i \in DOMAIN v1 : I!One(action, i)
      PROVE  IssueInv'
  <2>1. action \in IssueActions /\ action # "untriage"
    BY DEF IssueActions
  <2>2. CASE I!Batch(action)
    <3>1. I!Chosen(action) \in SUBSET DOMAIN v2 /\ I!Start(action, I!Chosen(action), TRUE)
      BY <2>2 DEF I!Batch, I!Chosen, IssueInv
    <3> QED BY <2>1, <3>1, IssueStarted
  <2>3. ASSUME NEW i \in DOMAIN v1, I!One(action, i) PROVE IssueInv'
    <3>1. {i} \in SUBSET DOMAIN v2 /\ I!Start(action, {i}, FALSE)
      BY <2>3 DEF I!One
    <3> QED BY <2>1, <3>1, IssueStarted
  <2> QED BY <1>6, <2>2, <2>3
<1>7. ASSUME NEW action \in {"triage", "mark_dup", "close", "reopen"},
             NEW i \in DOMAIN v1, I!Elsewhere(i, action)
      PROVE  IssueInv'
  <2>1. action \in IssueActions
    BY DEF IssueActions
  <2> QED BY <1>7, <2>1, IssueElsewhere
<1> QED
  BY <1>2, <1>3, <1>4, <1>5, <1>6, <1>7, IssueConfirmed, IssueUndone, IssueServed,
     IssueAnswered, IssueFailed DEF I!TriageNext

LEMMA IssueStart == I!TriageInit => IssueInv
<1> SUFFICES ASSUME I!TriageInit PROVE IssueInv
  OBVIOUS
<1>1. PICK some \in SUBSET Issues : v1 \in
        [some -> {I!Fresh, [I!Fresh EXCEPT !.assigned = TRUE],
                  [I!Fresh EXCEPT !.closed = TRUE]}]
  BY DEF I!TriageInit
<1>2. v1 \in [some -> IssueRecord]
  <2>1. /\ I!Fresh \in IssueRecord /\ [I!Fresh EXCEPT !.assigned = TRUE] \in IssueRecord
        /\ [I!Fresh EXCEPT !.closed = TRUE] \in IssueRecord
    BY DEF I!Fresh, IssueRecord
  <2> QED BY <1>1, <2>1
<1>3. v1 \in IssueRows
  BY <1>2 DEF IssueRows
<1>4. /\ v2 = I!View /\ v4 = {} /\ v5 = FALSE /\ v6 = None /\ v7 = <<>> /\ v8 = None
  BY DEF I!TriageInit
<1>5. v2 \in IssueRows /\ DOMAIN v2 \subseteq DOMAIN v1
  <2> DEFINE S == {i \in DOMAIN v1 : I!InFilter(v1[i])}
  <2>1. v2 = I!Restrict(v1, S) /\ S \in SUBSET DOMAIN v1
    BY <1>4 DEF I!View
  <2> HIDE DEF S
  <2> QED BY <1>3, <2>1, RowsRestricted
<1>6. v7 \in Seq(IssueCall) /\ DOMAIN v7 = {}
  BY <1>4
<1> QED BY <1>3, <1>4, <1>5, <1>6 DEF IssueInv, I!BusyEnds

LEMMA WordStart == W!WordInit => WordInv
<1> SUFFICES ASSUME W!WordInit PROVE WordInv
  OBVIOUS
<1>1. /\ v1 \in [Two -> {"review", None}] /\ v4 = {} /\ v5 = FALSE /\ v6 = None
      /\ v8 = <<>> /\ v9 = [w \in Two |-> "nothing"]
  BY DEF W!WordInit
<1>2. v8 \in Seq(WordEdit) /\ DOMAIN v8 = {}
  BY <1>1
<1> QED BY <1>1, <1>2 DEF WordInv, Level, W!Levels, W!ToldIsDone, W!BusyEnds

-----------------------------------------------------------------------------
\* What the two pages with batches, and the release page, keep in the console.
BatchInv ==
  /\ page = "issues" => IssueInv
  /\ page = "words" => WordInv
  /\ page = "release" => ReleaseInv

LEMMA BatchStart == Init => BatchInv
<1> SUFFICES ASSUME Init PROVE BatchInv
  OBVIOUS
<1>1. page = "release" => ReleaseInv
  <2> SUFFICES ASSUME Z!ReleaseInit PROVE ReleaseInv
    BY DEF Init
  <2>1. v3 = None /\ v5 = [s \in Z!Slots |-> None] /\ v6 = 0
    BY DEF Z!ReleaseInit
  <2> QED BY <2>1 DEF ReleaseInv, Z!OwnDialogCloses, Z!Slots
<1> QED BY <1>1, IssueStart, WordStart DEF Init, BatchInv

LEMMA BatchStep == BatchInv /\ [Next]_vars => BatchInv'
<1> SUFFICES ASSUME BatchInv, [Next]_vars, page' = page PROVE BatchInv'
  BY DEF Next, vars
<1>1. CASE UNCHANGED vars
  BY <1>1 DEF vars, pageVars, rest8, rest10, BatchInv, IssueInv, I!BusyEnds,
     WordInv, W!ToldIsDone, W!BusyEnds, ReleaseInv, Z!OwnDialogCloses
<1>2. CASE Next
  <2>1. page = "issues" => IssueInv'
    BY <1>2, IssueStep DEF Next, OtherPage, BatchInv
  <2>2. page = "words" => WordInv'
    BY <1>2, WordStep DEF Next, OtherPage, BatchInv
  <2>3. page = "release" => ReleaseInv'
    BY <1>2, ReleaseStep DEF Next, OtherPage, BatchInv
  <2> QED BY <2>1, <2>2, <2>3 DEF BatchInv
<1> QED BY <1>1, <1>2

\* However the requests of batches and undos interleave, fail and lose their answers,
\* with edits elsewhere: an undo returns each issue to its own state and assignee, and
\* the batch buttons are free again (apply, triage, runBatch).
THEOREM BatchesAlwaysEnd == Spec => []BatchesEndAsMeant
<1>1. BatchInv => BatchesEndAsMeant
  BY DEF BatchInv, IssueInv, CallInv, WordInv, BatchesEndAsMeant, I!UndoRestores, I!Undone,
     I!Returned
<1> QED BY <1>1, BatchStart, BatchStep, PTL DEF Spec

\* A success message about words is true, in however many chunks the batch went, and an
\* answer closes no form but its own (setLevels, removeWords, FormDialog).
THEOREM MessagesAreTrue == Spec => []ToldIsDone
<1>1. BatchInv => ToldIsDone
  BY DEF BatchInv, WordInv, ReleaseInv, ToldIsDone
<1> QED BY <1>1, BatchStart, BatchStep, PTL DEF Spec

-----------------------------------------------------------------------------
\* The bell.  Every set of inserted notifications has a newest one, as stamps grow.
Stamped == {n \in Two : v1[n] # 0}
HaveNewest ==
  \A S \in SUBSET Stamped : S # {} => \E n \in S : \A m \in S : v1[m] <= v1[n]

BellInv ==
  /\ IsFiniteSet(Stamped) /\ HaveNewest
  /\ v1 \in [Two -> Nat] /\ \A n \in Two : v1[n] <= Cardinality(Stamped)
  /\ v2 \in SUBSET Stamped /\ v11 \in SUBSET Stamped
  /\ v3 \in Nat /\ (v3 = 0 \/ \E m \in v11 : v3 = v1[m])
  /\ v4 \subseteq v10
  /\ v6 # None => v6.items \subseteq v2
  /\ \A r \in v8 : IF r.all THEN r.id \in v11 ELSE r.id \in v10

\* The cardinality that the bell's module means is the usual one.
LEMMA SameCardinality == ASSUME NEW S PROVE B!Cardinality(S) = Cardinality(S)
BY Zenon DEF B!Cardinality, Cardinality

LEMMA NewestIsOne ==
  ASSUME BellInv, NEW S \in SUBSET Stamped, S # {} PROVE B!Newest(S) \in S
<1>1. \E n \in S : \A m \in S : v1[m] <= v1[n]
  BY DEF BellInv, HaveNewest
<1> QED BY <1>1 DEF B!Newest

LEMMA BellStart == B!BellInit => BellInv
<1> SUFFICES ASSUME B!BellInit PROVE BellInv
  OBVIOUS
<1>1. Stamped = {}
  BY DEF B!BellInit, Stamped
<1>2. IsFiniteSet(Stamped) /\ Cardinality(Stamped) = 0
  BY <1>1, FS_EmptySet
<1> QED BY <1>1, <1>2 DEF B!BellInit, BellInv, HaveNewest

LEMMA BellInserts == ASSUME BellInv, NEW n \in Two, B!Insert(n) PROVE BellInv'
<1> DEFINE stamps == Cardinality(Stamped)
<1>1. /\ v1[n] = 0 /\ v1' = [v1 EXCEPT ![n] = 1 + stamps]
      /\ UNCHANGED <<v2, v3, v4, v6, v8, v10, v11>>
  <2>1. {m \in Two : v1[m] # 0} = Stamped
    BY DEF Stamped
  <2> DEFINE G == {m \in Two : v1[m] # 0}
  <2>2. v1[n] = 0 /\ v1' = [v1 EXCEPT ![n] = 1 + B!Cardinality(G)]
    BY Zenon DEF B!Insert
  <2> HIDE DEF G
  <2>3. G = Stamped
    BY <2>1 DEF G
  <2>4. UNCHANGED <<v2, v3, v4, v6, v8, v10, v11>>
    BY DEF B!Insert, B!history
  <2> QED BY <2>2, <2>3, <2>4, SameCardinality
<1>2. stamps \in Nat
  BY FS_CardinalityType DEF BellInv
<1> HIDE DEF stamps
<1>3. /\ n \notin Stamped /\ Stamped' = Stamped \cup {n} /\ v1' \in [Two -> Nat]
      /\ v1'[n] = 1 + stamps /\ \A m \in Two \ {n} : v1'[m] = v1[m]
  BY <1>1, <1>2 DEF Stamped, BellInv
<1>4. IsFiniteSet(Stamped') /\ Cardinality(Stamped') = stamps + 1
  BY <1>3, FS_AddElement DEF BellInv, stamps
<1>5. \A m \in Two : v1'[m] <= stamps + 1
  BY <1>2, <1>3 DEF BellInv, stamps
<1>6. HaveNewest'
  <2> SUFFICES ASSUME NEW S \in SUBSET Stamped', S # {}
               PROVE  \E x \in S : \A m \in S : v1'[m] <= v1'[x]
    BY DEF HaveNewest
  <2>0. S \subseteq Two
    BY DEF Stamped
  <2>1. CASE n \in S
    BY <1>2, <1>3, <1>5, <2>0, <2>1
  <2>2. CASE n \notin S
    <3>1. S \in SUBSET Stamped
      BY <1>3, <2>2
    <3>2. PICK x \in S : \A m \in S : v1[m] <= v1[x]
      BY <3>1 DEF BellInv, HaveNewest
    <3>3. \A m \in S : v1'[m] = v1[m]
      BY <1>3, <2>0, <2>2
    <3> QED BY <3>2, <3>3
  <2> QED BY <2>1, <2>2
<1>7. v3' = 0 \/ \E m \in v11' : v3' = v1'[m]
  BY <1>1, <1>3 DEF BellInv, Stamped
<1>8. \A m \in Two : v1'[m] <= Cardinality(Stamped')
  BY <1>4, <1>5
<1> QED BY <1>1, <1>3, <1>4, <1>6, <1>7, <1>8 DEF BellInv

\* The server is done with a request.
LEMMA BellServes ==
  ASSUME BellInv, NEW r \in v8, B!Serve(r)
  PROVE  BellInv' /\ B!StaysRead
<1>1. /\ v8' = v8 \ {r} /\ UNCHANGED <<v1, v2, v6, v10, v11>>
      /\ IF r.all THEN B!ReadUpTo(r.id) ELSE B!Mark(r.id)
  BY DEF B!Serve, B!history
<1>2. Stamped' = Stamped /\ (HaveNewest <=> HaveNewest') /\ v2 \in SUBSET Two
  BY <1>1 DEF Stamped, HaveNewest, BellInv
<1>3. \A n \in Two : v1[n] \in Nat
  BY DEF BellInv
<1>4. CASE r.all
  <2>1. /\ r.id \in v11 /\ r.id \in Two /\ v3' = IF v1[r.id] > v3 THEN v1[r.id] ELSE v3
        /\ v4' = {m \in v4 : v1[m] > v3'}
    BY <1>1, <1>4 DEF BellInv, Stamped, B!ReadUpTo
  <2>2. /\ v3 \in Nat /\ v3' \in Nat /\ v3 <= v3'
        /\ v3' = 0 \/ \E m \in v11' : v3' = v1'[m]
    BY <1>1, <1>3, <2>1 DEF BellInv
  <2>3. BellInv'
    BY <1>1, <1>2, <2>1, <2>2 DEF BellInv
  <2>4. B!StaysRead
    BY <1>1, <1>2, <1>3, <2>1, <2>2 DEF B!StaysRead, B!Read
  <2> QED BY <2>3, <2>4
<1>5. CASE ~r.all
  <2>1. r.id \in v10 /\ v4' = v4 \cup {r.id} /\ v3' = v3
    BY <1>1, <1>5 DEF BellInv, B!Mark
  <2> QED BY <1>1, <1>2, <2>1 DEF BellInv, B!StaysRead, B!Read
<1> QED BY <1>4, <1>5

LEMMA BellStep ==
  ASSUME BellInv, B!BellNext \/ UNCHANGED <<v1, v2, v3, v4, v6, v8, v10, v11>>
  PROVE  BellInv' /\ B!StaysRead
<1>1. ASSUME UNCHANGED <<v1, v3, v4>> PROVE B!StaysRead
  BY <1>1 DEF B!StaysRead, B!Read
<1>2. ASSUME UNCHANGED <<v1, v3, v4>>, v2 \subseteq v2', v2' \subseteq Stamped,
             v6' # None => v6'.items \subseteq v2',
             v10 \subseteq v10', v11 \subseteq v11', v11' \subseteq Stamped,
             \A r \in v8' : r \in v8 \/ IF r.all THEN r.id \in v11' ELSE r.id \in v10'
      PROVE  BellInv' /\ B!StaysRead
  <2>1. Stamped' = Stamped /\ (HaveNewest <=> HaveNewest')
    BY <1>2 DEF Stamped, HaveNewest
  <2>2. v3' = 0 \/ \E m \in v11' : v3' = v1'[m]
    BY <1>2 DEF BellInv
  <2>3. \A r \in v8' : IF r.all THEN r.id \in v11' ELSE r.id \in v10'
    BY <1>2 DEF BellInv
  <2> QED BY <1>1, <1>2, <2>1, <2>2, <2>3 DEF BellInv
<1>3. CASE UNCHANGED <<v1, v2, v3, v4, v6, v8, v10, v11>>
  BY <1>2, <1>3 DEF BellInv
<1>4. ASSUME NEW n \in Two, B!Insert(n) PROVE BellInv' /\ B!StaysRead
  <2>1. \A m \in v2 : v1'[m] = v1[m]
    BY <1>4 DEF B!Insert, BellInv, Stamped
  <2> QED BY <1>4, <2>1, BellInserts DEF B!Insert, B!StaysRead, B!Read
<1>5. ASSUME NEW n \in Two, B!Commit(n) PROVE BellInv' /\ B!StaysRead
  BY <1>2, <1>5 DEF B!Commit, B!history, BellInv, Stamped
<1>6. ASSUME NEW n \in Two, B!OpenItem(n) PROVE BellInv' /\ B!StaysRead
  BY <1>2, <1>6 DEF B!OpenItem, B!server, B!Mutate, BellInv
<1>7. ASSUME NEW r \in v8, B!Lose(r) PROVE BellInv' /\ B!StaysRead
  BY <1>2, <1>7 DEF B!Lose, B!server, B!history, BellInv
<1>8. CASE B!Toggle \/ B!Poll
  BY <1>2, <1>8 DEF B!Toggle, B!Poll, B!server, B!history, BellInv
<1>9. CASE B!Fetch \/ B!Settle
  <2>1. B!Listing.items \subseteq v2
    BY DEF B!Listing
  <2> QED BY <1>2, <1>9, <2>1 DEF B!Fetch, B!Settle, B!server, B!history, BellInv
<1>10. CASE B!MarkAll
  <2>1. v6 # None /\ v6.items # {} /\ v6.items \in SUBSET Stamped
    BY <1>10 DEF B!MarkAll, BellInv
  <2>2. B!Newest(v6.items) \in Stamped
    BY <2>1, NewestIsOne
  <2> DEFINE newest == B!Newest(v6.items)
  <2>3. /\ UNCHANGED <<v1, v2, v3, v4, v6, v10>> /\ v11' = v11 \cup {newest}
        /\ v8' = v8 \cup {[all |-> TRUE, id |-> newest]}
    BY <1>10 DEF B!MarkAll, B!Mutate, B!server
  <2> HIDE DEF newest
  <2>4. newest \in Stamped
    BY <2>2 DEF newest
  <2> QED BY <1>2, <2>3, <2>4 DEF BellInv
<1> QED
  BY <1>3, <1>4, <1>5, <1>6, <1>7, <1>8, <1>9, <1>10, BellServes DEF B!BellNext

\* What is read was meant to be.
LEMMA BellMeans == BellInv => B!ReadWasMeant
<1> SUFFICES ASSUME BellInv, NEW n \in v2, B!Read(n), n \notin v10
             PROVE  \E m \in v11 : v1[n] <= v1[m]
  BY DEF B!ReadWasMeant
<1>1. v1[n] \in Nat /\ v1[n] # 0 /\ v1[n] <= v3
  BY DEF BellInv, Stamped, B!Read
<1> QED BY <1>1 DEF BellInv

\* However late a list, a request or its answer is, nothing becomes read that the admin
\* did not open or mark all read with, and nothing read becomes unread
\* (adminNotificationsRead).
THEOREM MarksAreMeant == Spec => ReadWasMeant
<1> DEFINE Inv == page = "bell" => BellInv
<1>1. Init => Inv
  BY BellStart DEF Init
<1>2. Inv /\ [Next]_vars => Inv' /\ [page = "bell" => B!StaysRead]_vars
  <2> SUFFICES ASSUME Inv, [Next]_vars PROVE Inv' /\ (page = "bell" => B!StaysRead)
    OBVIOUS
  <2> SUFFICES ASSUME BellInv, page = "bell", page' = page PROVE BellInv' /\ B!StaysRead
    BY DEF Next, vars
  <2>1. B!BellNext \/ UNCHANGED <<v1, v2, v3, v4, v6, v8, v10, v11>>
    BY DEF Next, OtherPage, vars, pageVars, rest8, rest10, rest11
  <2> QED BY <2>1, BellStep
<1>3. Inv => (page = "bell" => B!ReadWasMeant)
  BY BellMeans
<1> QED BY <1>1, <1>2, <1>3, PTL DEF Spec, ReadWasMeant
=============================================================================

--------------------------- MODULE RefreshProofs ---------------------------
(***************************************************************************)
(* Theorems about refreshing: the server's rotation of refresh tokens, for *)
(* every number of users, sessions, concurrent requests and for every      *)
(* grace period and lifetime; and the credentials file of the command line *)
(* client, for any number of commands and whatever the times.  While no    *)
(* process died and no answer was lost, a new token that a command brings  *)
(* is seen by nobody else before it is put, so the token kept is the       *)
(* newest of its session or about to be replaced by it, even when a slow   *)
(* request let a second refresher in.  Until the first such request the    *)
(* lock of the file has one holder and nobody removes it.                  *)
(***************************************************************************)
EXTENDS TokenRotation, CliCredentials, FiniteSetTheorems, TLAPS

\* The row lock of a session has at most one holder; a request that is about
\* to rotate holds the lock of an open session whose current pair it presents;
\* any other request that holds a lock holds that of a revoked session.
LockInv ==
  /\ \A q, r \in Requests :
       req[q].lock = req[r].lock /\ req[q].lock \in Sessions => q = r
  /\ \A r \in Requests :
       /\ req[r].step = "rotate" =>
            /\ req[r].lock \in Sessions
            /\ sess[req[r].lock].state = "open"
            /\ sess[req[r].lock].pair = req[r].pair
            /\ req[r].pair # 0
       /\ req[r].lock \in Sessions =>
            /\ req[r].step \in {"rotate", "check", "revoke"}
            /\ req[r].step # "rotate" => sess[req[r].lock].state = "revoked"

\* Pairs are issued once, and a rotated pair is nobody's current pair any more.
PairInv ==
  /\ \A s \in Sessions :
       /\ sess[s].pair <= issued
       /\ sess[s].state = "absent" <=> sess[s].pair = 0
  /\ \A s, t \in Sessions :
       sess[s].pair = sess[t].pair /\ sess[s].pair # 0 => s = t
  /\ \A a \in lineage :
       /\ a.old <= issued
       /\ \A s \in Sessions : a.old # sess[s].pair
  /\ \A a, b \in lineage : a.old = b.old => a.new = b.new

IInv == TypeOK /\ LockInv /\ PairInv

\* The bound on pairs leaves room for a login.
LEMMA RoomLeaves ==
  ASSUME Room, issued \in Nat
  PROVE  issued < MaxPairs
<1> DEFINE busy == {r \in Requests : req[r].step # "idle"}
<1>1. IsFiniteSet(busy)
  BY FS_Subset, RotationAssumption
<1>2. Cardinality(busy) \in Nat
  BY <1>1, FS_CardinalityType
<1> QED
  BY <1>2, RotationAssumption DEF Room

\* The initial state satisfies the invariant.
LEMMA InitIInv == Init => IInv
<1> SUFFICES ASSUME Init PROVE IInv
  OBVIOUS
<1>1. (CHOOSE u \in Users : TRUE) \in Users
  BY RotationAssumption
<1>2. TypeOK
  BY <1>1, RotationAssumption
  DEF Init, TypeOK, Row, RowStates, UsedRow, Request, Steps, Answers,
      IdleRequest, Pairs, Stored
<1>3. LockInv
  BY RotationAssumption DEF Init, LockInv, IdleRequest
<1>4. PairInv
  BY DEF Init, PairInv
<1> QED
  BY <1>2, <1>3, <1>4 DEF IInv


----------------------------------------------------------------------------
\* A transaction that ends leaves a well-formed request without a lock.
LEMMA AnswerType ==
  ASSUME TypeOK, NEW r \in Requests, NEW a \in Answers,
         NEW n \in 0..MaxPairs, Answer(r, a, n)
  PROVE  req' \in [Requests -> Request]
<1> DEFINE q == [req[r] EXCEPT !.step = "done", !.lock = NoSession,
                               !.answer = a, !.got = n]
<1>1. req \in [Requests -> Request]
  BY DEF TypeOK
<1>2. q \in Request
  BY <1>1 DEF Request, Steps
<1>3. req' = [req EXCEPT ![r] = q]
  BY <1>1 DEF Answer
<1> QED
  BY <1>1, <1>2, <1>3

\* A transaction that goes on, with or without a row lock, is well-formed.
LEMMA GoOnType ==
  ASSUME TypeOK, NEW r \in Requests, NEW st \in Steps,
         NEW s \in Sessions \cup {NoSession},
         \/ req' = [req EXCEPT ![r].step = st]
         \/ req' = [req EXCEPT ![r].lock = s, ![r].step = st]
  PROVE  req' \in [Requests -> Request]
<1>1. req \in [Requests -> Request]
  BY DEF TypeOK
<1>2. [req[r] EXCEPT !.step = st] \in Request
  BY <1>1 DEF Request
<1>3. [req[r] EXCEPT !.lock = s, !.step = st] \in Request
  BY <1>1 DEF Request
<1>4. CASE req' = [req EXCEPT ![r].step = st]
  BY <1>1, <1>2, <1>4
<1>5. CASE req' = [req EXCEPT ![r].lock = s, ![r].step = st]
  <2>1. req' = [req EXCEPT ![r] = [req[r] EXCEPT !.lock = s, !.step = st]]
    BY <1>1, <1>5
  <2> QED
    BY <1>1, <1>3, <2>1
<1> QED
  BY <1>4, <1>5

LEMMA EndedType ==
  ASSUME TypeOK, NEW r \in Requests
  PROVE  Ended(r) \in Request
<1>1. req[r].lock \in Sessions \cup {NoSession}
  BY DEF TypeOK, Request
<1>2. IdleRequest \in Request
  BY RotationAssumption DEF IdleRequest, Request, Steps, Answers
<1> QED
  BY <1>1, <1>2 DEF Ended, Request

\* Ending sessions keeps the rows well-formed.
LEMMA RevokeRowsType ==
  ASSUME TypeOK, NEW S \in SUBSET Sessions, RevokeRows(S)
  PROVE  /\ sess' \in [Sessions -> Row]
         /\ \A s \in Sessions : Stored(s) => Stored(s)'
BY DEF TypeOK, Row, RowStates, RevokeRows, Stored

LEMMA DropRowsType ==
  ASSUME TypeOK, NEW S \in SUBSET Sessions, DropRows(S)
  PROVE  TypeOK'
BY DEF TypeOK, Row, RowStates, DropRows, UsedRow, Stored

\* Every step keeps the types and the foreign key.
LEMMA TypeStep == IInv /\ [Next]_vars => TypeOK'
<1> SUFFICES ASSUME IInv, [Next]_vars PROVE TypeOK'
  OBVIOUS
<1> USE RotationAssumption
<1>t. TypeOK
  BY DEF IInv
<1>1. ASSUME NEW s \in Sessions, NEW u \in Users, LogIn(s, u) PROVE TypeOK'
  <2>1. issued + 1 \in Pairs
    BY <1>t, <1>1, RoomLeaves DEF LogIn, TypeOK, Pairs
  <2> QED
    BY <1>t, <1>1, <2>1 DEF LogIn, TypeOK, Row, RowStates, Pairs, Stored
<1>2. ASSUME NEW r \in Requests, NEW s \in Sessions, NEW n \in Pairs,
             Send(r, s, n)
      PROVE TypeOK'
  <2> DEFINE q == [req[r] EXCEPT !.step = "sent", !.pair = n, !.session = s,
                                 !.sentAt = now]
  <2>1. req \in [Requests -> Request] /\ now \in Nat
    BY <1>t DEF TypeOK
  <2>a. n \in 0..MaxPairs /\ "sent" \in Steps /\ req[r] \in Request
    BY <2>1 DEF Pairs, Steps
  <2>2. q \in Request
    BY <2>1, <2>a DEF Request
  <2>3. req' = [req EXCEPT ![r] = q]
    BY <1>2, <2>1 DEF Send
  <2>4. req' \in [Requests -> Request]
    BY <2>1, <2>2, <2>3
  <2> QED
    BY <1>t, <1>2, <2>4 DEF Send, TypeOK, Stored
<1>3. ASSUME NEW r \in Requests, Begin(r) PROVE TypeOK'
  <2> DEFINE q == [req[r] EXCEPT !.step = "select", !.began = now,
                                 !.sawBanned = banned]
  <2>1. req \in [Requests -> Request] /\ now \in Nat /\ banned \in SUBSET Users
    BY <1>t DEF TypeOK
  <2>2. q \in Request
    BY <2>1 DEF Request, Steps
  <2>3. req' = [req EXCEPT ![r] = q]
    BY <1>3, <2>1 DEF Begin
  <2>4. req' \in [Requests -> Request]
    BY <2>1, <2>2, <2>3
  <2> QED
    BY <1>t, <1>3, <2>4 DEF Begin, TypeOK, Stored
<1>4. ASSUME NEW r \in Requests, SelectRow(r) PROVE TypeOK'
  <2>1. req' \in [Requests -> Request]
    <3>1. CASE \A s \in Sessions : ~Matches(r, s)
      BY <1>t, <1>4, <3>1, GoOnType DEF SelectRow, Steps
    <3>2. ASSUME NEW s \in Sessions, Answer(r, "banned", 0)
          PROVE req' \in [Requests -> Request]
      BY <1>t, <3>2, AnswerType DEF Answers
    <3>3. ASSUME NEW s \in Sessions,
                 req' = [req EXCEPT ![r].lock = s, ![r].step = AfterSelect(s)]
          PROVE req' \in [Requests -> Request]
      BY <1>t, <3>3, GoOnType DEF Steps, AfterSelect
    <3> QED
      BY <1>4, <3>1, <3>2, <3>3 DEF SelectRow
  <2> QED
    BY <1>t, <1>4, <2>1 DEF SelectRow, TypeOK, Stored
<1>5. ASSUME NEW r \in Requests, Rotate(r) PROVE TypeOK'
  <2> DEFINE s == req[r].lock
  <2>1. /\ s \in Sessions
        /\ sess[s].state = "open"
        /\ req[r].pair \in Pairs
        /\ req[r].began \in Nat
    BY <1>5, <1>t DEF Rotate, IInv, LockInv, TypeOK, Request, Pairs
  <2>2. issued + 1 \in Pairs
    BY <1>5, <1>t DEF Rotate, TypeOK, Pairs
  <2>3. req' \in [Requests -> Request]
    BY <1>t, <1>5, <2>2, AnswerType DEF Rotate, Answers, Pairs
  <2>4. /\ sess' \in [Sessions -> Row]
        /\ \A t \in Sessions : Stored(t) => Stored(t)'
    BY <1>t, <1>5, <2>1, <2>2
    DEF Rotate, TypeOK, Row, RowStates, Earlier, Stored, Pairs
  <2>5. /\ used' \in SUBSET UsedRow
        /\ \A u \in used' : Stored(u.session)'
    BY <1>t, <1>5, <2>1, <2>4 DEF Rotate, TypeOK, UsedRow, Stored
  <2>6. lineage' \in SUBSET [old: Pairs, new: Pairs]
    BY <1>t, <1>5, <2>1, <2>2 DEF Rotate, TypeOK
  <2> QED
    BY <1>t, <1>5, <2>2, <2>3, <2>4, <2>5, <2>6 DEF Rotate, TypeOK, Pairs
<1>6. ASSUME NEW r \in Requests, CheckUsed(r) PROVE TypeOK'
  <2>1. req' \in [Requests -> Request]
    <3>1. CASE JustRotated(r)
      BY <1>t, <1>6, <3>1, AnswerType DEF CheckUsed, Answers
    <3>2. CASE ~JustRotated(r)
      BY <1>t, <1>6, <3>2 DEF CheckUsed, TypeOK, Request, Steps
    <3> QED
      BY <3>1, <3>2
  <2> QED
    BY <1>t, <1>6, <2>1 DEF CheckUsed, TypeOK, Stored
<1>7. ASSUME NEW r \in Requests, Revoke(r) PROVE TypeOK'
  <2>1. req' \in [Requests -> Request]
    BY <1>t, <1>7, AnswerType DEF Revoke, Answers
  <2>2. /\ sess' \in [Sessions -> Row]
        /\ \A t \in Sessions : Stored(t) => Stored(t)'
    BY <1>t, <1>7 DEF Revoke, TypeOK, Row, RowStates, Stored
  <2> QED
    BY <1>t, <1>7, <2>1, <2>2 DEF Revoke, TypeOK, Stored, UsedRow
<1>8. ASSUME NEW r \in Requests, Abort(r) PROVE TypeOK'
  <2>1. req' \in [Requests -> Request]
    BY <1>t, <1>8, AnswerType DEF Abort, Answers
  <2> QED
    BY <1>t, <1>8, <2>1 DEF Abort, TypeOK, Stored
<1>9. ASSUME NEW r \in Requests, Deliver(r) PROVE TypeOK'
  <2>1. Ended(r) \in Request
    BY <1>t, EndedType
  <2>2. req[r].got \in 0..MaxPairs
    BY <1>t DEF TypeOK, Request
  <2>3. req' \in [Requests -> Request] /\ jar' \in [Sessions -> 0..MaxPairs]
    BY <1>t, <1>9, <2>1, <2>2 DEF Deliver, TypeOK
  <2> QED
    BY <1>t, <1>9, <2>3 DEF Deliver, TypeOK, Stored
<1>10. ASSUME NEW r \in Requests, LoseReply(r) PROVE TypeOK'
  BY <1>t, <1>10, EndedType DEF LoseReply, TypeOK, Stored
<1>11. ASSUME NEW s \in Sessions, LogOut(s) PROVE TypeOK'
  BY <1>t, <1>11, RevokeRowsType DEF LogOut, TypeOK, Stored, UsedRow
<1>12. ASSUME NEW s \in Sessions, LogOutAll(s) PROVE TypeOK'
  BY <1>t, <1>12, RevokeRowsType
  DEF LogOutAll, SessionsOf, TypeOK, Stored, UsedRow
<1>13. ASSUME NEW s \in Sessions, DeleteUser(s) PROVE TypeOK'
  BY <1>t, <1>13, DropRowsType DEF DeleteUser, SessionsOf
<1>14. ASSUME NEW u \in Users, Ban(u) PROVE TypeOK'
  BY <1>t, <1>14, RevokeRowsType DEF Ban, SessionsOf, TypeOK, Stored, UsedRow
<1>15. ASSUME NEW u \in Users, Unban(u) PROVE TypeOK'
  BY <1>t, <1>15 DEF Unban, TypeOK, Stored
<1>16. CASE Prune
  BY <1>t, <1>16, DropRowsType DEF Prune
<1>17. CASE Tick
  BY <1>t, <1>17 DEF Tick, TypeOK, Stored
<1>18. CASE UNCHANGED vars
  BY <1>t, <1>18 DEF vars, TypeOK, Stored
<1> QED
  BY <1>1, <1>2, <1>3, <1>4, <1>5, <1>6, <1>7, <1>8, <1>9, <1>10, <1>11,
     <1>12, <1>13, <1>14, <1>15, <1>16, <1>17, <1>18
  DEF Next, Serve

----------------------------------------------------------------------------
\* A request that holds no lock has none recorded.
LEMMA NoLockYet ==
  ASSUME TypeOK, LockInv, NEW r \in Requests,
         req[r].step \in {"idle", "sent", "select", "done"}
  PROVE  req[r].lock = NoSession
<1>1. req[r].lock \in Sessions \cup {NoSession}
  BY DEF TypeOK, Request
<1> QED
  BY <1>1 DEF LockInv

\* LockInv survives when no request changes and locked rows keep their state.
LEMMA LockFrame ==
  ASSUME LockInv, req' = req,
         \A s \in Sessions : Locked(s) => sess'[s] = sess[s]
  PROVE  LockInv'
BY DEF LockInv, Locked

\* LockInv survives when one request ends up without a lock, not rotating,
\* and the rows the others hold keep their state.
LEMMA LockRelease ==
  ASSUME TypeOK, LockInv, NEW r \in Requests, NEW q,
         req' = [req EXCEPT ![r] = q],
         q.lock = NoSession, q.step # "rotate",
         \A s \in Sessions : ~UnlockedFor(r, s) => sess'[s] = sess[s]
  PROVE  LockInv'
<1>1. \A x \in Requests : req'[x] = IF x = r THEN q ELSE req[x]
  BY DEF TypeOK
<1> QED
  BY <1>1, RotationAssumption DEF LockInv, UnlockedFor

LEMMA AnswerReleases ==
  ASSUME TypeOK, LockInv, NEW r \in Requests, NEW a, NEW n, Answer(r, a, n),
         \A s \in Sessions : ~UnlockedFor(r, s) => sess'[s] = sess[s]
  PROVE  LockInv'
<1> DEFINE q == [req[r] EXCEPT !.step = "done", !.lock = NoSession,
                               !.answer = a, !.got = n]
<1>1. req' = [req EXCEPT ![r] = q]
  BY DEF Answer, TypeOK
<1>2. q.lock = NoSession /\ q.step = "done"
  BY DEF TypeOK, Request
<1> HIDE DEF q
<1> QED
  BY <1>1, <1>2, LockRelease

\* Every step keeps the discipline of the row locks.
LEMMA LockStep == IInv /\ [Next]_vars => LockInv'
<1> SUFFICES ASSUME IInv, [Next]_vars PROVE LockInv'
  OBVIOUS
<1>t. TypeOK /\ LockInv
  BY DEF IInv
<1>r. req \in [Requests -> Request] /\ sess \in [Sessions -> Row]
  BY <1>t DEF TypeOK
<1>1. ASSUME NEW s \in Sessions, NEW u \in Users, LogIn(s, u) PROVE LockInv'
  <2>1. ~Locked(s)
    BY <1>t, <1>1 DEF LogIn, Locked, LockInv
  <2> QED
    BY <1>t, <1>r, <1>1, <2>1, LockFrame DEF LogIn
<1>2. ASSUME NEW r \in Requests, NEW s \in Sessions, NEW n \in Pairs,
             Send(r, s, n)
      PROVE LockInv'
  <2> DEFINE q == [req[r] EXCEPT !.step = "sent", !.pair = n, !.session = s,
                                 !.sentAt = now]
  <2>1. req' = [req EXCEPT ![r] = q] /\ sess' = sess
    BY <1>r, <1>2 DEF Send
  <2>2. q.lock = NoSession /\ q.step = "sent"
    BY <1>t, <1>r, <1>2, NoLockYet DEF Send, Request
  <2> HIDE DEF q
  <2> QED
    BY <1>t, <2>1, <2>2, LockRelease
<1>3. ASSUME NEW r \in Requests, Begin(r) PROVE LockInv'
  <2> DEFINE q == [req[r] EXCEPT !.step = "select", !.began = now,
                                 !.sawBanned = banned]
  <2>1. req' = [req EXCEPT ![r] = q] /\ sess' = sess
    BY <1>r, <1>3 DEF Begin
  <2>2. q.lock = NoSession /\ q.step = "select"
    BY <1>t, <1>r, <1>3, NoLockYet DEF Begin, Request
  <2> HIDE DEF q
  <2> QED
    BY <1>t, <2>1, <2>2, LockRelease
<1>4. ASSUME NEW r \in Requests, SelectRow(r) PROVE LockInv'
  <2>1. sess' = sess /\ req[r].lock = NoSession
    BY <1>t, <1>4, NoLockYet DEF SelectRow
  <2>2. CASE req' = [req EXCEPT ![r].step = "check"]
    <3> DEFINE q == [req[r] EXCEPT !.step = "check"]
    <3>1. req' = [req EXCEPT ![r] = q] /\ q.lock = NoSession
          /\ q.step = "check"
      BY <1>r, <2>1, <2>2 DEF Request
    <3> HIDE DEF q
    <3> QED
      BY <1>t, <2>1, <3>1, LockRelease
  <2>3. CASE Answer(r, "banned", 0)
    BY <1>t, <2>1, <2>3, AnswerReleases
  <2>4. ASSUME NEW s \in Sessions, Matches(r, s), UnlockedFor(r, s),
               req' = [req EXCEPT ![r].lock = s, ![r].step = AfterSelect(s)]
        PROVE LockInv'
    <3>1. \A x \in Requests :
            /\ req'[x].lock = IF x = r THEN s ELSE req[x].lock
            /\ req'[x].pair = req[x].pair
            /\ req'[x].step =
                 IF x = r
                 THEN IF sess[s].state = "revoked" THEN "check" ELSE "rotate"
                 ELSE req[x].step
      BY <1>r, <2>4 DEF Request, AfterSelect
    <3>2. /\ sess[s].state \in {"open", "revoked"}
          /\ sess[s].pair = req[r].pair
      BY <2>4 DEF Matches, Stored
    <3>3. req[r].pair # 0
      BY <3>2, <1>4 DEF IInv, PairInv
    <3>4. \A x \in Requests \ {r} : req[x].lock # s
      BY <2>4 DEF UnlockedFor
    <3>5. \A x, y \in Requests :
            req'[x].lock = req'[y].lock /\ req'[x].lock \in Sessions => x = y
      BY <1>t, <3>1, <3>4 DEF LockInv
    <3>6. \A x \in Requests :
       /\ req'[x].step = "rotate" =>
            /\ req'[x].lock \in Sessions
            /\ sess[req'[x].lock].state = "open"
            /\ sess[req'[x].lock].pair = req'[x].pair
            /\ req'[x].pair # 0
       /\ req'[x].lock \in Sessions =>
            /\ req'[x].step \in {"rotate", "check", "revoke"}
            /\ req'[x].step # "rotate" => sess[req'[x].lock].state = "revoked"
      <4> TAKE x \in Requests
      <4>1. CASE x = r
        BY <3>1, <3>2, <3>3, <4>1
      <4>2. CASE x # r
        BY <1>t, <3>1, <4>2 DEF LockInv
      <4> QED
        BY <4>1, <4>2
    <3> QED
      BY <2>1, <3>5, <3>6 DEF LockInv
  <2> QED
    BY <1>4, <2>2, <2>3, <2>4 DEF SelectRow
<1>5. ASSUME NEW r \in Requests, Rotate(r) PROVE LockInv'
  <2>1. req[r].lock \in Sessions
    BY <1>t, <1>5 DEF Rotate, LockInv
  <2>2. \A s \in Sessions : ~UnlockedFor(r, s) => sess'[s] = sess[s]
    BY <1>t, <1>r, <1>5, <2>1 DEF Rotate, LockInv, UnlockedFor
  <2> QED
    BY <1>t, <1>5, <2>2, AnswerReleases DEF Rotate
<1>6. ASSUME NEW r \in Requests, CheckUsed(r) PROVE LockInv'
  <2>1. CASE Answer(r, "superseded", 0)
    BY <1>t, <1>6, <2>1, AnswerReleases DEF CheckUsed
  <2>2. CASE req' = [req EXCEPT ![r].step = "revoke"]
    <3>1. \A x \in Requests :
            /\ req'[x].lock = req[x].lock
            /\ req'[x].pair = req[x].pair
            /\ req'[x].step = IF x = r THEN "revoke" ELSE req[x].step
      BY <1>r, <2>2 DEF Request
    <3>2. sess' = sess /\ req[r].step = "check"
      BY <1>6 DEF CheckUsed
    <3> QED
      BY <1>t, <3>1, <3>2 DEF LockInv
  <2> QED
    BY <1>6, <2>1, <2>2 DEF CheckUsed
<1>7. ASSUME NEW r \in Requests, Revoke(r) PROVE LockInv'
  <2>1. \A s \in Sessions : ~UnlockedFor(r, s) => sess'[s] = sess[s]
    BY <1>7 DEF Revoke
  <2> QED
    BY <1>t, <1>7, <2>1, AnswerReleases DEF Revoke
<1>8. ASSUME NEW r \in Requests, Abort(r) PROVE LockInv'
  BY <1>t, <1>8, AnswerReleases DEF Abort
<1>9. ASSUME NEW r \in Requests, Deliver(r) \/ LoseReply(r) PROVE LockInv'
  <2>1. Ended(r).lock = NoSession /\ Ended(r).step = "idle"
    BY <1>t, <1>9, NoLockYet DEF Deliver, LoseReply, Ended, IdleRequest
  <2> QED
    BY <1>t, <1>9, <2>1, LockRelease DEF Deliver, LoseReply
<1>10. ASSUME NEW s \in Sessions, LogOut(s) PROVE LockInv'
  BY <1>t, <1>10, LockFrame DEF LogOut, RevokeRows
<1>11. ASSUME NEW s \in Sessions, LogOutAll(s) PROVE LockInv'
  BY <1>t, <1>11, LockFrame DEF LogOutAll, RevokeRows
<1>12. ASSUME NEW s \in Sessions, DeleteUser(s) PROVE LockInv'
  BY <1>t, <1>12, LockFrame DEF DeleteUser, DropRows
<1>13. ASSUME NEW u \in Users, Ban(u) PROVE LockInv'
  BY <1>t, <1>13, LockFrame DEF Ban, RevokeRows
<1>14. CASE Prune
  BY <1>t, <1>14, LockFrame DEF Prune, DropRows
<1>15. ASSUME sess' = sess, req' = req PROVE LockInv'
  BY <1>t, <1>15, LockFrame
<1> QED
  BY <1>1, <1>2, <1>3, <1>4, <1>5, <1>6, <1>7, <1>8, <1>9, <1>10, <1>11,
     <1>12, <1>13, <1>14, <1>15
  DEF Next, Serve, Unban, Tick, vars

----------------------------------------------------------------------------
\* PairInv survives a step that gives no session another pair.
LEMMA PairFrame ==
  ASSUME PairInv, UNCHANGED <<issued, lineage>>,
         \A s \in Sessions :
           /\ sess'[s].pair = sess[s].pair
           /\ sess'[s].state = "absent" <=> sess[s].state = "absent"
  PROVE  PairInv'
BY DEF PairInv

\* Revoking and dropping rows gives no session another pair.
LEMMA EndingKeepsPairs ==
  ASSUME TypeOK, NEW S \in SUBSET Sessions, RevokeRows(S) \/ DropRows(S),
         S \subseteq {s \in Sessions : sess[s].state # "absent"}
  PROVE  \A s \in Sessions :
           /\ sess'[s].pair = sess[s].pair
           /\ sess'[s].state = "absent" <=> sess[s].state = "absent"
BY DEF TypeOK, Row, RevokeRows, DropRows

\* Every step keeps pairs unique and rotated pairs out of use.
LEMMA PairStep == IInv /\ [Next]_vars => PairInv'
<1> SUFFICES ASSUME IInv, [Next]_vars PROVE PairInv'
  OBVIOUS
<1>t. TypeOK /\ LockInv /\ PairInv
  BY DEF IInv
<1>r. sess \in [Sessions -> Row] /\ issued \in Nat
  BY <1>t, RotationAssumption DEF TypeOK
<1>p. \A s \in Sessions : sess[s].pair \in Nat
  BY <1>r, RotationAssumption DEF Row
<1>1. ASSUME NEW s \in Sessions, NEW u \in Users, LogIn(s, u) PROVE PairInv'
  <2>1. \A t \in Sessions :
          /\ sess'[t].pair = IF t = s THEN issued + 1 ELSE sess[t].pair
          /\ sess'[t].state = IF t = s THEN "open" ELSE sess[t].state
    BY <1>r, <1>1 DEF LogIn
  <2>2. issued' = issued + 1 /\ lineage' = lineage
    BY <1>1 DEF LogIn
  <2>3. \A a \in lineage : a.old \in Nat /\ a.old <= issued
    BY <1>t DEF TypeOK, PairInv, Pairs
  <2> QED
    BY <1>t, <1>r, <1>p, <2>1, <2>2, <2>3 DEF PairInv
<1>2. ASSUME NEW r \in Requests, Rotate(r) PROVE PairInv'
  <2> DEFINE s == req[r].lock
             old == req[r].pair
  <2>1. /\ s \in Sessions
        /\ sess[s].state = "open"
        /\ sess[s].pair = old
        /\ old # 0
    BY <1>t, <1>2 DEF Rotate, LockInv
  <2>2. \A t \in Sessions :
          /\ sess'[t].pair = IF t = s THEN issued + 1 ELSE sess[t].pair
          /\ sess'[t].state = sess[t].state
    BY <1>r, <1>2, <2>1 DEF Rotate, Row
  <2>3. /\ issued' = issued + 1
        /\ lineage' = lineage \cup {[old |-> old, new |-> issued + 1]}
    BY <1>2 DEF Rotate
  <2>4. \A a \in lineage : a.old \in Nat /\ a.old <= issued /\ a.old # old
    BY <1>t, <2>1 DEF TypeOK, PairInv, Pairs
  <2>5. \A t \in Sessions \ {s} : sess[t].pair # old
    BY <1>t, <2>1 DEF PairInv
  <2>6. old \in Nat /\ old <= issued
    BY <1>t, <1>p, <2>1 DEF PairInv
  <2>7. \A t \in Sessions :
          /\ sess'[t].pair <= issued'
          /\ sess'[t].state = "absent" <=> sess'[t].pair = 0
    BY <1>t, <1>r, <1>p, <2>1, <2>2, <2>3 DEF PairInv
  <2>8. \A t, v \in Sessions :
          sess'[t].pair = sess'[v].pair /\ sess'[t].pair # 0 => t = v
    BY <1>t, <1>r, <1>p, <2>2 DEF PairInv
  <2>9. \A a \in lineage' :
          /\ a.old <= issued'
          /\ \A t \in Sessions : a.old # sess'[t].pair
    <3>1. ASSUME NEW a \in lineage
          PROVE a.old <= issued' /\ \A t \in Sessions : a.old # sess'[t].pair
      BY <1>t, <1>r, <2>2, <2>3, <2>4 DEF PairInv
    <3>2. old <= issued' /\ \A t \in Sessions : old # sess'[t].pair
      BY <1>r, <2>2, <2>3, <2>5, <2>6
    <3> QED
      BY <2>3, <3>1, <3>2
  <2>10. \A a, b \in lineage' : a.old = b.old => a.new = b.new
    BY <1>t, <2>3, <2>4 DEF PairInv
  <2> QED
    BY <2>7, <2>8, <2>9, <2>10 DEF PairInv
<1>3. ASSUME NEW r \in Requests, Revoke(r) PROVE PairInv'
  <2>1. \A t \in FamilyOf(r) : t \in Sessions /\ sess[t].state # "absent"
    BY <1>t DEF FamilyOf, TypeOK, UsedRow, Stored
  <2>2. \A t \in Sessions :
          /\ sess'[t].pair = sess[t].pair
          /\ sess'[t].state = "absent" <=> sess[t].state = "absent"
    BY <1>r, <1>3, <2>1 DEF Revoke, Row
  <2> QED
    BY <1>t, <1>3, <2>2, PairFrame DEF Revoke
<1>4. ASSUME NEW s \in Sessions, LogOut(s) PROVE PairInv'
  <2>1. {s} \subseteq {t \in Sessions : sess[t].state # "absent"}
    BY <1>4 DEF LogOut, Accepts
  <2> QED
    BY <1>t, <1>4, <2>1, EndingKeepsPairs, PairFrame DEF LogOut
<1>5. ASSUME NEW S \in SUBSET Sessions, RevokeRows(S) \/ DropRows(S),
             \A s \in S : Stored(s), UNCHANGED <<issued, lineage>>
      PROVE  PairInv'
  <2>1. S \subseteq {t \in Sessions : sess[t].state # "absent"}
    BY <1>5 DEF Stored
  <2> QED
    BY <1>t, <1>5, <2>1, EndingKeepsPairs, PairFrame
<1>6. ASSUME NEW s \in Sessions, LogOutAll(s) \/ DeleteUser(s) PROVE PairInv'
  <2> DEFINE S == SessionsOf(sess[s].user)
  <2>1. S \in SUBSET Sessions /\ \A t \in S : Stored(t)
    BY DEF SessionsOf
  <2>2. RevokeRows(S) \/ DropRows(S)
    BY <1>6 DEF LogOutAll, DeleteUser
  <2>3. UNCHANGED <<issued, lineage>>
    BY <1>6 DEF LogOutAll, DeleteUser, DropRows
  <2> HIDE DEF S
  <2> QED
    BY <1>5, <2>1, <2>2, <2>3
<1>7. ASSUME NEW u \in Users, Ban(u) PROVE PairInv'
  BY <1>5, <1>7 DEF Ban, SessionsOf
<1>8. CASE Prune
  <2> DEFINE S == {s \in Sessions : Stored(s) /\ sess[s].end < now}
  <2>1. DropRows(S) /\ UNCHANGED <<issued, lineage>>
    BY <1>8 DEF Prune, DropRows
  <2>2. S \in SUBSET Sessions /\ \A t \in S : Stored(t)
    OBVIOUS
  <2> HIDE DEF S
  <2> QED
    BY <1>5, <2>1, <2>2
<1>9. ASSUME UNCHANGED <<sess, issued, lineage>> PROVE PairInv'
  BY <1>t, <1>9, PairFrame
<1> QED
  BY <1>1, <1>2, <1>3, <1>4, <1>6, <1>7, <1>8, <1>9
  DEF Next, Serve, Send, Begin, SelectRow, CheckUsed, Abort, Deliver,
      LoseReply, Unban, Tick, vars

----------------------------------------------------------------------------
\* The inductive invariant holds of the service, for any number of users,
\* sessions and concurrent refreshes.
THEOREM Invariance == Spec => []IInv
<1>1. IInv /\ [Next]_vars => IInv'
  BY TypeStep, LockStep, PairStep DEF IInv
<1> QED
  BY InitIInv, <1>1, PTL DEF Spec

\* Rows, used tokens and requests keep their shape, and a used token always
\* refers to a stored session.
THEOREM TypeCorrect == Spec => []TypeOK
<1>1. IInv => TypeOK
  BY DEF IInv
<1> QED
  BY Invariance, <1>1, PTL

\* A refresh token is exchanged at most once, whatever refreshes, logouts,
\* bans and deletions run beside it.
THEOREM RotatedAtMostOnce == Spec => []OneSuccessor
<1>1. IInv => OneSuccessor
  BY DEF IInv, PairInv, OneSuccessor
<1> QED
  BY Invariance, <1>1, PTL

----------------------------------------------------------------------------
Over(s) == sess[s].state \in {"revoked", "deleted"}

StaysOver ==
  \A s \in Sessions : Over(s) =>
    /\ sess'[s].state \in {sess[s].state, "deleted"}
    /\ sess'[s].pair = sess[s].pair

\* No step opens a session that is over or gives it another pair: the only
\* step that stores a pair in an existing row is a rotation, which holds the
\* lock of an open session.
LEMMA OverStep == IInv /\ [Next]_vars => StaysOver
<1> SUFFICES ASSUME IInv, [Next]_vars, NEW s \in Sessions, Over(s)
             PROVE  /\ sess'[s].state \in {sess[s].state, "deleted"}
                    /\ sess'[s].pair = sess[s].pair
  BY DEF StaysOver
<1> DEFINE Kept == /\ sess'[s].state \in {sess[s].state, "deleted"}
                   /\ sess'[s].pair = sess[s].pair
<1>r. sess \in [Sessions -> Row] /\ sess[s] \in Row
  BY DEF IInv, TypeOK
<1>1. ASSUME NEW t \in Sessions, NEW u \in Users, LogIn(t, u) PROVE Kept
  BY <1>r, <1>1 DEF LogIn, Over
<1>2. ASSUME NEW r \in Requests, Rotate(r) PROVE Kept
  <2>1. req[r].lock # s
    BY <1>2 DEF Rotate, IInv, LockInv, Over
  <2> QED
    BY <1>r, <1>2, <2>1 DEF Rotate
<1>3. ASSUME NEW r \in Requests, Revoke(r) PROVE Kept
  <2>1. s \in FamilyOf(r) => sess[s].state = "revoked"
    BY DEF FamilyOf, IInv, TypeOK, Stored, Over
  <2> QED
    BY <1>r, <1>3, <2>1 DEF Revoke, Row
<1>4. ASSUME NEW S \in SUBSET Sessions, RevokeRows(S) PROVE Kept
  BY <1>r, <1>4 DEF RevokeRows, Row, Stored, Over
<1>5. ASSUME NEW S \in SUBSET Sessions, DropRows(S) PROVE Kept
  BY <1>r, <1>5 DEF DropRows, Row
<1>6. ASSUME sess' = sess PROVE Kept
  BY <1>6
<1> QED
  BY <1>1, <1>2, <1>3, <1>4, <1>5, <1>6
  DEF Next, Serve, Send, Begin, SelectRow, CheckUsed, Abort, Deliver,
      LoseReply, LogOut, LogOutAll, DeleteUser, Ban, Unban, Prune, Tick,
      SessionsOf, vars

\* Revocation is final: no interleaving reopens a session that was logged
\* out, banned, revoked for replay or deleted, nor renews its tokens.
THEOREM RevocationIsFinal == Spec => RevokedForGood
<1>1. IInv /\ [Next]_vars =>
        [\A s \in Sessions : sess[s].state \in {"revoked", "deleted"} =>
           /\ sess'[s].state \in {sess[s].state, "deleted"}
           /\ sess'[s].pair = sess[s].pair]_vars
  BY OverStep DEF StaysOver, Over
<1> QED
  BY Invariance, <1>1, PTL DEF Spec, RevokedForGood

----------------------------------------------------------------------------
\* What a refresh that found no live session for its token still knows when it
\* revokes the family of the token, and when it has answered "invalid".
Unmatched(r) ==
  \A s \in Sessions :
    sess[s].state = "open" /\ sess[s].pair = req[r].pair =>
      sess[s].end <= req[r].began

FamilyOver(r) ==
  \A u \in used : u.pair = req[r].pair =>
    \/ sess[u.session].state # "open"
    \/ sess[u.session].end <= req[r].began

Knows(r) ==
  /\ req[r].pair <= issued /\ req[r].got <= issued
  /\ req[r].step \in {"check", "revoke"} => Unmatched(r)
  /\ req[r].answer = "invalid" =>
       req[r].step = "done" /\ Unmatched(r) /\ FamilyOver(r)

ReplayInv ==
  /\ \A s \in Sessions : jar[s] <= issued
  /\ \A r \in Requests : Knows(r)

\* A ban leaves its user no open session, and no sign-in opens one under it.
BanInv == \A s \in Sessions : sess[s].state = "open" => sess[s].user \notin banned

\* A refresh keeps what it knows in a step that leaves it alone, opens no session but
\* with a new pair and files no other use.
LEMMA KnowsFrame ==
  ASSUME TypeOK, TypeOK', NEW r \in Requests, Knows(r), req'[r] = req[r],
         issued <= issued', used' \subseteq used,
         \A s \in Sessions :
           \/ sess'[s] = sess[s]
           \/ sess'[s].state # "open"
           \/ sess[s].state = "absent" /\ sess'[s].pair = issued + 1
  PROVE  Knows(r)'
<1>1. /\ req[r].pair \in Nat /\ req[r].got \in Nat
      /\ issued \in Nat /\ issued' \in Nat
  BY RotationAssumption DEF TypeOK, Request
<1>2. req'[r].pair <= issued' /\ req'[r].got <= issued' /\ req[r].pair <= issued
  BY <1>1 DEF Knows
<1>3. Unmatched(r) => Unmatched(r)'
  BY <1>1, <1>2 DEF Unmatched
<1>4. FamilyOver(r) => FamilyOver(r)'
  BY DEF FamilyOver, TypeOK, UsedRow, Stored
<1> QED
  BY <1>2, <1>3, <1>4 DEF Knows

LEMMA ReplayInit == Init => ReplayInv /\ BanInv
BY RotationAssumption DEF Init, ReplayInv, BanInv, Knows, IdleRequest

LEMMA KnowsStep ==
  IInv /\ IInv' /\ ReplayInv /\ [Next]_vars => \A r \in Requests : Knows(r)'
<1> SUFFICES ASSUME IInv, IInv', ReplayInv, [Next]_vars, NEW r \in Requests
             PROVE  Knows(r)'
  OBVIOUS
<1>t. TypeOK /\ TypeOK' /\ LockInv /\ PairInv
  BY DEF IInv
<1>k. Knows(r)
  BY DEF ReplayInv
<1>r. /\ req \in [Requests -> Request] /\ req[r] \in Request
      /\ sess \in [Sessions -> Row] /\ issued \in Nat
      /\ \A s \in Sessions : sess[s] \in Row
  BY <1>t, RotationAssumption DEF TypeOK
<1>1. ASSUME NEW s \in Sessions, NEW u \in Users, LogIn(s, u) PROVE Knows(r)'
  BY <1>t, <1>k, <1>r, <1>1, KnowsFrame DEF LogIn
<1>2. ASSUME NEW q \in Requests, NEW s \in Sessions, NEW n \in Pairs, Send(q, s, n)
      PROVE  Knows(r)'
  <2>1. n <= issued
    BY <1>2 DEF Send, ReplayInv, Pairs
  <2> QED
    BY <1>t, <1>k, <1>r, <1>2, KnowsFrame DEF Send, Knows, Request
<1>3. ASSUME NEW q \in Requests, Begin(q) PROVE Knows(r)'
  BY <1>t, <1>k, <1>r, <1>3, KnowsFrame DEF Begin, Knows, Request
<1>4. ASSUME NEW q \in Requests, SelectRow(q) PROVE Knows(r)'
  <2>0. UNCHANGED <<sess, used, issued>> /\ req[q].step = "select"
    BY <1>4 DEF SelectRow
  <2>1. CASE q # r
    <3>1. req'[r] = req[r]
      BY <1>r, <1>4, <2>1 DEF SelectRow, Answer
    <3> QED
      BY <1>t, <1>k, <1>r, <2>0, <3>1, KnowsFrame
  <2>2. ASSUME q = r, \A s \in Sessions : ~Matches(r, s),
               req' = [req EXCEPT ![r].step = "check"]
        PROVE  Knows(r)'
    <3>1. Unmatched(r)
      BY <1>r, <2>2 DEF Matches, Stored, Unmatched, Row, Request
    <3> QED
      BY <1>k, <1>r, <2>0, <2>2, <3>1 DEF Knows, Unmatched, Request
  <2>3. ASSUME q = r, Answer(r, "banned", 0) PROVE Knows(r)'
    BY <1>k, <1>r, <2>0, <2>3 DEF Answer, Knows, Request
  <2>4. ASSUME q = r, NEW s \in Sessions, Matches(r, s),
               req' = [req EXCEPT ![r].lock = s, ![r].step = AfterSelect(s)]
        PROVE  Knows(r)'
    <3>1. sess[s].state = "revoked" => Unmatched(r)
      BY <1>t, <1>r, <2>4 DEF Matches, Stored, Unmatched, PairInv, Row
    <3> QED
      BY <1>k, <1>r, <2>0, <2>4, <3>1
      DEF AfterSelect, Knows, Unmatched, Request
  <2> QED
    BY <1>4, <2>1, <2>2, <2>3, <2>4 DEF SelectRow
<1>5. ASSUME NEW q \in Requests, Rotate(q) PROVE Knows(r)'
  <2> DEFINE s == req[q].lock
  <2>1. /\ s \in Sessions /\ sess[s].state = "open"
        /\ sess[s].pair = req[q].pair
    BY <1>t, <1>5 DEF Rotate, LockInv
  <2>2. /\ issued' = issued + 1
        /\ used' = used \cup
             {[pair |-> req[q].pair, session |-> s, at |-> req[q].began]}
        /\ \A t \in Sessions :
             /\ sess'[t].state = sess[t].state /\ sess'[t].end = sess[t].end
             /\ sess'[t].pair = IF t = s THEN issued + 1 ELSE sess[t].pair
    BY <1>r, <1>5, <2>1 DEF Rotate, Row
  <2> HIDE DEF s
  <2>3. Unmatched(r) => \A t \in Sessions :
          sess'[t].state = "open" /\ sess'[t].pair = req[r].pair =>
            sess'[t].end <= req[r].began
    BY <1>k, <1>r, <2>2 DEF Unmatched, Knows, Request
  <2>4. Unmatched(r) /\ FamilyOver(r) => \A u \in used' : u.pair = req[r].pair =>
          \/ sess'[u.session].state # "open"
          \/ sess'[u.session].end <= req[r].began
    <3>1. \A u \in used : u.session \in Sessions
      BY <1>t DEF TypeOK, UsedRow
    <3> QED
      BY <2>1, <2>2, <3>1 DEF Unmatched, FamilyOver
  <2>5. CASE q # r
    <3>1. req'[r] = req[r]
      BY <1>r, <1>5, <2>5 DEF Rotate, Answer
    <3> QED
      BY <1>k, <1>r, <2>2, <2>3, <2>4, <3>1
      DEF Knows, Unmatched, FamilyOver, Request
  <2>6. CASE q = r
    BY <1>k, <1>r, <1>5, <2>2, <2>6 DEF Rotate, Answer, Knows, Request
  <2> QED
    BY <2>5, <2>6
<1>6. ASSUME NEW q \in Requests, CheckUsed(q) PROVE Knows(r)'
  <2>0. UNCHANGED <<sess, used, issued>> /\ req[q].step = "check"
    BY <1>6 DEF CheckUsed
  <2>1. CASE q # r
    <3>1. req'[r] = req[r]
      BY <1>r, <1>6, <2>1 DEF CheckUsed, Answer
    <3> QED
      BY <1>t, <1>k, <1>r, <2>0, <3>1, KnowsFrame
  <2>2. ASSUME q = r, Answer(r, "superseded", 0) PROVE Knows(r)'
    BY <1>k, <1>r, <2>0, <2>2 DEF Answer, Knows, Request
  <2>3. ASSUME q = r, req' = [req EXCEPT ![r].step = "revoke"] PROVE Knows(r)'
    BY <1>k, <1>r, <2>0, <2>3 DEF Knows, Unmatched, Request
  <2> QED
    BY <1>6, <2>1, <2>2, <2>3 DEF CheckUsed
<1>7. ASSUME NEW q \in Requests, Revoke(q) PROVE Knows(r)'
  <2>1. /\ \A s \in Sessions :
             /\ sess'[s].pair = sess[s].pair /\ sess'[s].end = sess[s].end
             /\ sess'[s].state =
                  IF s \in FamilyOf(q) THEN "revoked" ELSE sess[s].state
        /\ used' = used /\ issued' = issued
    BY <1>r, <1>7 DEF Revoke, Row
  <2>2. \A u \in used : u.session \in Sessions
    BY <1>t DEF TypeOK, UsedRow
  <2>3. Unmatched(r) => \A s \in Sessions :
          sess'[s].state = "open" /\ sess'[s].pair = req[r].pair =>
            sess'[s].end <= req[r].began
    BY <2>1 DEF Unmatched
  <2>4. CASE q # r
    <3>1. req'[r] = req[r]
      BY <1>r, <1>7, <2>4 DEF Revoke, Answer
    <3> QED
      BY <1>k, <2>1, <2>2, <2>3, <3>1 DEF Knows, Unmatched, FamilyOver
  <2>5. CASE q = r
    <3>1. /\ req'[r].pair = req[r].pair /\ req'[r].began = req[r].began
          /\ req'[r].step = "done" /\ req'[r].got = 0
      BY <1>r, <1>7, <2>5 DEF Revoke, Answer, Request
    <3>2. Unmatched(r)
      BY <1>k, <1>7, <2>5 DEF Revoke, Knows
    <3>3. \A u \in used' : u.pair = req'[r].pair => sess'[u.session].state = "revoked"
      BY <2>1, <2>2, <2>5, <3>1 DEF FamilyOf
    <3> QED
      BY <1>k, <1>r, <2>1, <2>3, <3>1, <3>2, <3>3 DEF Knows, Unmatched, FamilyOver
  <2> QED
    BY <2>4, <2>5
<1>8. ASSUME NEW q \in Requests, Abort(q) PROVE Knows(r)'
  BY <1>t, <1>k, <1>r, <1>8, KnowsFrame DEF Abort, Answer, Knows, Request
<1>9. ASSUME NEW q \in Requests, Deliver(q) \/ LoseReply(q) PROVE Knows(r)'
  BY <1>t, <1>k, <1>r, <1>9, KnowsFrame DEF Deliver, LoseReply, Ended, IdleRequest, Knows, Request
<1>10. ASSUME NEW S \in SUBSET Sessions, RevokeRows(S),
              UNCHANGED <<req, issued, used>>
       PROVE  Knows(r)'
  BY <1>t, <1>k, <1>r, <1>10, KnowsFrame DEF RevokeRows, Row
<1>11. ASSUME NEW S \in SUBSET Sessions, DropRows(S) PROVE Knows(r)'
  BY <1>t, <1>k, <1>r, <1>11, KnowsFrame DEF DropRows, Row
<1>12. ASSUME UNCHANGED <<sess, req, issued, used>> PROVE Knows(r)'
  BY <1>t, <1>k, <1>r, <1>12, KnowsFrame
<1> QED
  BY <1>1, <1>2, <1>3, <1>4, <1>5, <1>6, <1>7, <1>8, <1>9, <1>10, <1>11, <1>12
  DEF Next, Serve, LogOut, LogOutAll, DeleteUser, Ban, Unban, Prune, Tick,
      SessionsOf, vars

LEMMA ReplayStep == IInv /\ IInv' /\ ReplayInv /\ [Next]_vars => ReplayInv'
<1> SUFFICES ASSUME IInv, IInv', ReplayInv, [Next]_vars, NEW s \in Sessions
             PROVE  jar'[s] <= issued'
  BY KnowsStep DEF ReplayInv
<1>1. /\ jar \in [Sessions -> 0..MaxPairs] /\ issued \in Nat /\ issued' \in Nat
      /\ jar[s] <= issued
  BY RotationAssumption DEF IInv, TypeOK, ReplayInv
<1>2. \A r \in Requests : req[r].got <= issued
  BY DEF ReplayInv, Knows
<1>3. ASSUME NEW t \in Sessions, NEW u \in Users, LogIn(t, u) PROVE jar'[s] <= issued'
  BY <1>1, <1>3 DEF LogIn
<1>4. ASSUME NEW r \in Requests, Rotate(r) PROVE jar'[s] <= issued'
  BY <1>1, <1>4 DEF Rotate
<1>5. ASSUME NEW r \in Requests, Deliver(r) PROVE jar'[s] <= issued'
  BY <1>1, <1>2, <1>5 DEF Deliver
<1>6. CASE UNCHANGED <<jar, issued>>
  BY <1>1, <1>6
<1> QED
  BY <1>3, <1>4, <1>5, <1>6
  DEF Next, Serve, Send, Begin, SelectRow, CheckUsed, Revoke, Abort, LoseReply,
      LogOut, LogOutAll, DeleteUser, Ban, Unban, Prune, DropRows, Tick, vars

\* A refresh that ends "invalid" after its token had been rotated leaves no usable session
\* of the family behind, whatever other refreshes run beside it.
THEOREM ReplayEndsFamily == Spec => []LateReplayEndsFamily
<1>1. IInv /\ IInv' /\ ReplayInv /\ [Next]_vars => ReplayInv'
  BY ReplayStep
<1>2. Init => ReplayInv
  BY ReplayInit
<1>3. ReplayInv => LateReplayEndsFamily
  BY DEF ReplayInv, Knows, FamilyOver, LateReplayEndsFamily
<1> QED
  BY Invariance, <1>1, <1>2, <1>3, PTL DEF Spec

----------------------------------------------------------------------------
\* Signing in needs an account that is not banned, and a ban ends every session of its
\* user before it commits.
LEMMA BanStep == IInv /\ BanInv /\ [Next]_vars => BanInv'
<1> SUFFICES ASSUME IInv, BanInv, [Next]_vars PROVE BanInv'
  OBVIOUS
<1>r. /\ sess \in [Sessions -> Row] /\ \A s \in Sessions : sess[s] \in Row
  BY DEF IInv, TypeOK
<1>1. ASSUME NEW s \in Sessions, NEW u \in Users, LogIn(s, u) PROVE BanInv'
  BY <1>r, <1>1 DEF LogIn, BanInv
<1>2. ASSUME NEW r \in Requests, Rotate(r) PROVE BanInv'
  BY <1>r, <1>2 DEF Rotate, BanInv, Row
<1>3. ASSUME NEW r \in Requests, Revoke(r) PROVE BanInv'
  BY <1>r, <1>3 DEF Revoke, BanInv, Row
<1>4. ASSUME NEW S \in SUBSET Sessions, RevokeRows(S), banned' = banned PROVE BanInv'
  BY <1>r, <1>4 DEF RevokeRows, BanInv, Row
<1>5. ASSUME NEW S \in SUBSET Sessions, DropRows(S) PROVE BanInv'
  BY <1>r, <1>5 DEF DropRows, BanInv, Row
<1>6. ASSUME NEW u \in Users, Ban(u) PROVE BanInv'
  BY <1>r, <1>6 DEF Ban, RevokeRows, SessionsOf, Stored, BanInv, Row
<1>7. ASSUME NEW u \in Users, Unban(u) PROVE BanInv'
  BY <1>7 DEF Unban, BanInv
<1>8. CASE UNCHANGED <<sess, banned>>
  BY <1>8 DEF BanInv
<1> QED
  BY <1>1, <1>2, <1>3, <1>4, <1>5, <1>6, <1>7, <1>8
  DEF Next, Serve, Send, Begin, SelectRow, CheckUsed, Abort, Deliver, LoseReply,
      LogOut, LogOutAll, DeleteUser, Prune, Tick, SessionsOf, vars

TokensUnbanned ==
  \A r \in Requests :
    req[r].answer # "tokens" /\ req'[r].answer = "tokens" =>
      sess[req[r].lock].user \notin banned

\* Only a rotation answers with tokens, and it holds the row of an open session.
LEMMA TokensStep == IInv /\ BanInv /\ [Next]_vars => TokensUnbanned
<1> SUFFICES ASSUME IInv, BanInv, [Next]_vars, NEW r \in Requests,
                    req[r].answer # "tokens", req'[r].answer = "tokens"
             PROVE  sess[req[r].lock].user \notin banned
  BY DEF TokensUnbanned
<1>r. req \in [Requests -> Request] /\ \A q \in Requests : req[q] \in Request
  BY DEF IInv, TypeOK
<1>1. ASSUME NEW q \in Requests, Rotate(q) PROVE sess[req[r].lock].user \notin banned
  <2>1. q = r
    BY <1>r, <1>1 DEF Rotate, Answer, Request
  <2> QED
    BY <1>1, <2>1 DEF Rotate, IInv, LockInv, BanInv
<1>2. ASSUME NEW q \in Requests, NEW a, NEW n, Answer(q, a, n), a # "tokens" PROVE FALSE
  BY <1>r, <1>2 DEF Answer, Request
<1>3. ASSUME NEW q \in Requests, SelectRow(q) PROVE FALSE
  <2>1. ~Answer(q, "banned", 0)
    BY <1>2
  <2>2. ASSUME NEW st, req' = [req EXCEPT ![q].step = st] PROVE FALSE
    BY <1>r, <2>2 DEF Request
  <2>3. ASSUME NEW s, NEW st, req' = [req EXCEPT ![q].lock = s, ![q].step = st]
        PROVE  FALSE
    BY <1>r, <2>3 DEF Request
  <2> QED
    BY <1>3, <2>1, <2>2, <2>3 DEF SelectRow
<1>4. ASSUME NEW q \in Requests, CheckUsed(q) PROVE FALSE
  <2>1. ~Answer(q, "superseded", 0)
    BY <1>2
  <2> QED
    BY <1>r, <1>4, <2>1 DEF CheckUsed, Request
<1>5. ASSUME NEW q \in Requests, Revoke(q) \/ Abort(q) PROVE FALSE
  BY <1>2, <1>5 DEF Revoke, Abort
<1>6. ASSUME NEW q \in Requests, NEW s \in Sessions, NEW n \in Pairs, Send(q, s, n)
      PROVE  FALSE
  BY <1>r, <1>6 DEF Send, Request
<1>7. ASSUME NEW q \in Requests, Begin(q) \/ Deliver(q) \/ LoseReply(q) PROVE FALSE
  BY <1>r, <1>7 DEF Begin, Deliver, LoseReply, Ended, IdleRequest, Request
<1>8. CASE req' = req
  BY <1>8
<1> QED
  BY <1>1, <1>3, <1>4, <1>5, <1>6, <1>7, <1>8
  DEF Next, Serve, LogIn, LogOut, LogOutAll, DeleteUser, Ban, Unban, Prune, DropRows,
      Tick, vars

\* No refresh is answered with tokens after the ban of its user committed, although it
\* reads banned_at before it locks the session.
THEOREM BannedGetNoTokens == Spec => NoTokensForBanned
<1>1. Init => BanInv
  BY ReplayInit
<1>2. IInv /\ BanInv /\ [Next]_vars => BanInv'
  BY BanStep
<1>3. IInv /\ BanInv /\ [Next]_vars =>
        [\A r \in Requests :
           req[r].answer # "tokens" /\ req'[r].answer = "tokens" =>
             sess[req[r].lock].user \notin banned]_vars
  BY TokensStep DEF TokensUnbanned
<1> QED
  BY Invariance, <1>1, <1>2, <1>3, PTL DEF Spec, NoTokensForBanned

----------------------------------------------------------------------------
LEMMA PromiseInit == Init => Promise!Init
BY DEF Init, Promise!Init, statusBar, currentBar, spentBar

\* A new pair is fresh.
LEMMA NextPairFresh ==
  ASSUME IInv PROVE Promise!Fresh(issued + 1)
BY RotationAssumption
DEF IInv, TypeOK, PairInv, Row, Promise!Fresh, currentBar, spentBar

\* Steps that only end sessions end them in the promise.
LEMMA EndStep ==
  ASSUME IInv, issued' = issued, sess' \in [Sessions -> Row],
         \A s \in Sessions :
           /\ sess'[s].pair = sess[s].pair
           /\ \/ sess'[s].state = sess[s].state
              \/ sess'[s].state \in {"revoked", "deleted"} /\ Stored(s)
  PROVE  Promise!Next
<1> DEFINE S == {s \in Sessions : sess[s].state = "open" /\ sess'[s].state # "open"}
<1>1. S \in SUBSET Sessions
  OBVIOUS
<1>r. sess \in [Sessions -> Row]
  BY DEF IInv, TypeOK
<1>2. \A s \in Sessions :
        /\ s \in S => sess[s].state = "open" /\ sess'[s].state \in {"revoked", "deleted"}
        /\ s \notin S =>
             /\ sess'[s].state = "absent" <=> sess[s].state = "absent"
             /\ sess'[s].state = "open" <=> sess[s].state = "open"
             /\ sess'[s].pair = sess[s].pair
  BY DEF Stored
<1> HIDE DEF S
<1>3. statusBar' = [s \in Sessions |-> IF s \in S THEN "over" ELSE statusBar[s]]
  BY <1>2 DEF statusBar
<1>4. currentBar' = [s \in Sessions |-> IF s \in S THEN {} ELSE currentBar[s]]
  BY <1>2 DEF currentBar
<1>5. \A s \in S : statusBar[s] = "live" /\ currentBar[s] = {sess[s].pair}
  BY <1>1, <1>2 DEF statusBar, currentBar
<1>6. spentBar' = spentBar \cup UNION {currentBar[s] : s \in S}
  <2>1. \A s \in S : sess[s].pair \in 1..issued
    BY <1>1, <1>2, <1>r, RotationAssumption DEF IInv, TypeOK, PairInv, Row
  <2>2. UNION {currentBar[s] : s \in S} = {sess[s].pair : s \in S}
    BY <1>5
  <2>3. \A s, t \in Sessions :
          sess[s].pair = sess[t].pair /\ sess[s].state = "open" => s = t
    BY <1>r DEF IInv, PairInv
  <2>4. ASSUME NEW n \in spentBar' PROVE n \in spentBar \/ \E s \in S : n = sess[s].pair
    BY <1>2, <2>4 DEF spentBar
  <2>5. ASSUME NEW n \in spentBar PROVE n \in spentBar'
    BY <1>1, <1>2, <2>5 DEF spentBar
  <2>6. ASSUME NEW s \in S PROVE sess[s].pair \in spentBar'
    BY <1>1, <1>2, <2>1, <2>3 DEF spentBar
  <2> QED
    BY <2>2, <2>4, <2>5, <2>6
<1>7. Promise!End(S)
  BY <1>3, <1>4, <1>5, <1>6 DEF Promise!End
<1> QED
  BY <1>1, <1>7, Zenon DEF Promise!Next, Promise!End

\* A sign-in starts a session of the promise.
LEMMA StartStep ==
  ASSUME IInv, IInv', NEW s \in Sessions, NEW u \in Users, LogIn(s, u)
  PROVE  Promise!Next
<1>r. sess \in [Sessions -> Row] /\ sess' \in [Sessions -> Row] /\ issued \in Nat
  BY RotationAssumption DEF IInv, TypeOK
<1>1. issued + 1 \in Pairs
  BY <1>r, RoomLeaves, RotationAssumption DEF LogIn, Pairs
<1>2. /\ sess[s].state = "absent" /\ sess'[s].state = "open"
      /\ sess'[s].pair = issued + 1 /\ issued' = issued + 1
      /\ \A t \in Sessions \ {s} : sess'[t] = sess[t]
  BY <1>r, <1>1 DEF LogIn
<1>3. Promise!Fresh(issued + 1)
  BY NextPairFresh
<1>4. Promise!Start(s, issued + 1)
  <2>1. statusBar' = [statusBar EXCEPT ![s] = "live"] /\ statusBar[s] = "none"
    BY <1>2 DEF statusBar
  <2>2. currentBar' = [currentBar EXCEPT ![s] = {issued + 1}]
    BY <1>2 DEF currentBar
  <2>3. spentBar' = spentBar
    BY <1>r, <1>2 DEF spentBar
  <2> QED
    BY <1>3, <2>1, <2>2, <2>3 DEF Promise!Start
<1> QED
  BY <1>1, <1>4, Zenon DEF Promise!Next, Promise!Start

\* A rotation renews one.
LEMMA RenewStep ==
  ASSUME IInv, NEW r \in Requests, Rotate(r)
  PROVE  Promise!Next
<1> DEFINE s == req[r].lock
<1>r. /\ sess \in [Sessions -> Row] /\ \A t \in Sessions : sess[t] \in Row
      /\ issued \in Nat
  BY RotationAssumption DEF IInv, TypeOK
<1>1. issued + 1 \in Pairs
  BY <1>r, RotationAssumption DEF Rotate, Pairs
<1>2. /\ s \in Sessions
      /\ sess[s].state = "open" /\ sess'[s].state = "open"
      /\ sess'[s].pair = issued + 1 /\ issued' = issued + 1
      /\ \A t \in Sessions \ {s} : sess'[t] = sess[t]
  BY <1>r DEF Rotate, IInv, LockInv, Row
<1> HIDE DEF s
<1>3. Promise!Fresh(issued + 1)
  BY NextPairFresh
<1>4. Promise!Renew(s, issued + 1)
  <2>1. statusBar' = statusBar /\ statusBar[s] = "live"
    BY <1>2 DEF statusBar
  <2>2. /\ currentBar' = [currentBar EXCEPT ![s] = {issued + 1}]
        /\ currentBar[s] = {sess[s].pair}
    BY <1>2 DEF currentBar
  <2>3. spentBar' = spentBar \cup {sess[s].pair}
    <3>1. sess[s].pair \in 1..issued
      BY <1>2, RotationAssumption DEF IInv, TypeOK, PairInv, Row
    <3>2. \A t \in Sessions : sess[t].pair = sess[s].pair => s = t
      BY <1>2 DEF IInv, PairInv
    <3>3. \A t \in Sessions : sess[t].pair <= issued
      BY DEF IInv, PairInv
    <3> QED
      BY <1>r, <1>2, <3>1, <3>2, <3>3 DEF spentBar
  <2> QED
    BY <1>2, <1>3, <2>1, <2>2, <2>3 DEF Promise!Renew
<1> QED
  BY <1>1, <1>2, <1>4, Zenon DEF Promise!Next, Promise!Renew

\* Every step of the service is a step of the promise, or none.
LEMMA PromiseStep ==
  IInv /\ IInv' /\ [Next]_vars => [Promise!Next]_<<statusBar, currentBar, spentBar>>
<1> SUFFICES ASSUME IInv, IInv', [Next]_vars
             PROVE  Promise!Next \/ UNCHANGED <<statusBar, currentBar, spentBar>>
  OBVIOUS
<1>r. /\ sess \in [Sessions -> Row] /\ \A s \in Sessions : sess[s] \in Row
      /\ sess' \in [Sessions -> Row]
  BY DEF IInv, TypeOK
<1>1. ASSUME NEW r \in Requests, Revoke(r) PROVE Promise!Next
  <2>1. \A s \in FamilyOf(r) : Stored(s)
    BY DEF FamilyOf, IInv, TypeOK
  <2> QED
    BY <1>r, <1>1, <2>1, EndStep DEF Revoke, Row
<1>2. ASSUME NEW S \in SUBSET Sessions, RevokeRows(S), issued' = issued PROVE Promise!Next
  BY <1>r, <1>2, EndStep DEF RevokeRows, Row
<1>3. ASSUME NEW S \in SUBSET Sessions, DropRows(S), \A s \in S : Stored(s)
      PROVE  Promise!Next
  BY <1>r, <1>3, EndStep DEF DropRows, Row
<1>4. ASSUME NEW s \in Sessions, DeleteUser(s) PROVE Promise!Next
  BY <1>3, <1>4 DEF DeleteUser, SessionsOf
<1>5. CASE Prune
  BY <1>3, <1>5 DEF Prune
<1>6. ASSUME NEW s \in Sessions, LogOut(s) \/ LogOutAll(s) PROVE Promise!Next
  BY <1>2, <1>6 DEF LogOut, LogOutAll, SessionsOf
<1>7. ASSUME NEW u \in Users, Ban(u) PROVE Promise!Next
  BY <1>2, <1>7 DEF Ban, SessionsOf
<1>8. CASE UNCHANGED <<sess, issued>>
  BY <1>8 DEF statusBar, currentBar, spentBar
<1> QED
  BY <1>1, <1>4, <1>5, <1>6, <1>7, <1>8, StartStep, RenewStep
  DEF Next, Serve, Send, Begin, SelectRow, CheckUsed, Abort, Deliver, LoseReply,
      Unban, Tick, vars

\* The transactions implement the promise of the session store: a session starts once, is
\* renewed only by exchanging the pair it has for one never handed out, and when it is over
\* it stays over.
THEOREM PromiseKept == Spec => KeepsPromise
<1>1. Init => Promise!Init
  BY PromiseInit
<1>2. IInv /\ IInv' /\ [Next]_vars => [Promise!Next]_<<statusBar, currentBar, spentBar>>
  BY PromiseStep
<1> QED
  BY Invariance, <1>1, <1>2, PTL DEF Spec, KeepsPromise, Promise!Spec

----------------------------------------------------------------------------
\* The answer with the new pair is under way.
Undelivered(r) == req[r].step = "done" /\ req[r].answer = "tokens"

\* The pair was issued to the session and to no other.
Owns(s, n) ==
  /\ n \in 1..issued /\ sess[s].state # "absent"
  /\ \A t \in Sessions : sess[t].pair = n => t = s
  /\ \A u \in used : u.pair = n => u.session = s

\* Time does not pass a request by.
TimeInv ==
  \A r \in Requests : req[r].step # "idle" =>
    /\ req[r].sentAt <= now /\ now <= req[r].sentAt + Latency
    /\ req[r].step # "sent" => req[r].sentAt <= req[r].began /\ req[r].began <= now

OwnInv ==
  /\ \A s \in Sessions : jar[s] # 0 => Owns(s, jar[s])
  /\ \A r \in Requests : req[r].step # "idle" =>
       req[r].session \in Sessions /\ Owns(req[r].session, req[r].pair)
  /\ \A r \in Requests : Undelivered(r) => Owns(req[r].session, req[r].got)
  /\ \A u \in used : u.pair <= issued

\* A pair on its way to the jar is nowhere else.
OnceInv ==
  \A q \in Requests : Undelivered(q) =>
    /\ \A s \in Sessions : jar[s] # req[q].got
    /\ \A r \in Requests : req[r].step # "idle" => req[r].pair # req[q].got
    /\ \A r \in Requests : Undelivered(r) /\ req[r].got = req[q].got => r = q

\* The jar of an open session has its pair, or the one rotated last while the
\* answer is on its way.
JarInv ==
  \A s \in Sessions : sess[s].state = "open" =>
    /\ \A q \in Requests : Undelivered(q) /\ req[q].session = s => req[q].got = sess[s].pair
    /\ \/ jar[s] = sess[s].pair
       \/ \E q \in Requests, u \in used :
            /\ Undelivered(q) /\ req[q].session = s
            /\ u.pair = jar[s] /\ u.session = s /\ u.at >= req[q].sentAt

\* A request presents its session's pair, or one rotated at most a round trip
\* before it was sent.
SinceInv ==
  \A r \in Requests : req[r].step # "idle" /\ sess[req[r].session].state = "open" =>
    \/ req[r].pair = sess[req[r].session].pair
    \/ \E u \in used : u.pair = req[r].pair /\ u.session = req[r].session
                       /\ u.at + Latency >= req[r].sentAt

\* Its session is alive for the request.
Alive(r) ==
  sess[req[r].session].state = "open" /\ sess[req[r].session].end > req[r].began

SafeFor(r) ==
  /\ req[r].step \in {"check", "revoke"} /\ Alive(r) => req[r].pair # sess[req[r].session].pair
  /\ req[r].step = "revoke" => ~Alive(r)

TabInv == TimeInv /\ OwnInv /\ OnceInv /\ JarInv /\ SinceInv /\ \A r \in Requests : SafeFor(r)

\* Clients that share one jar, whose answers all arrive.
SharedJar == ~StaleCopies /\ ~LossyReplies /\ Latency + Latency < Grace

LEMMA TabStart == Init => TabInv
BY DEF Init, IdleRequest, TabInv, TimeInv, OwnInv, OnceInv, JarInv, SinceInv, SafeFor, Undelivered, Owns

\* A request goes on, to no new pair.
Moves(r) ==
  /\ req[r].step # "idle" /\ req'[r].step \notin {"idle", "sent"}
  /\ req'[r].pair = req[r].pair /\ req'[r].session = req[r].session /\ req'[r].sentAt = req[r].sentAt
  /\ ~Undelivered(r) /\ ~Undelivered(r)'
  /\ req[r].sentAt <= req'[r].began /\ req'[r].began <= now
  /\ SafeFor(r)'

\* Sessions end, with or without their used tokens.
RowsEnd ==
  /\ \A s \in Sessions :
       \/ sess'[s] = sess[s]
       \/ /\ sess'[s].state \in {"revoked", "deleted"} /\ sess[s].state # "absent"
          /\ sess'[s].pair = sess[s].pair
  /\ used' \subseteq used
  /\ \A u \in used : sess'[u.session].state = "open" => u \in used'

LEMMA TabFrame ==
  ASSUME IInv, TabInv, UNCHANGED <<now, issued, jar>>, RowsEnd,
         \A r \in Requests : req'[r] = req[r] \/ Moves(r)
  PROVE  TabInv'
<1>1. \A r \in Requests :
        /\ Undelivered(r)' <=> Undelivered(r)
        /\ Undelivered(r) => req'[r] = req[r]
        /\ req'[r].step # "idle" <=> req[r].step # "idle"
        /\ req'[r].step # "idle" => req'[r].pair = req[r].pair /\ req'[r].session = req[r].session
                                    /\ req'[r].sentAt = req[r].sentAt
  BY DEF Moves, Undelivered
<1>2. \A s \in Sessions :
        /\ sess'[s].pair = sess[s].pair /\ (sess'[s].state = "absent" <=> sess[s].state = "absent")
        /\ sess'[s].state = "open" => sess'[s] = sess[s]
  BY DEF RowsEnd
<1>3. TimeInv'
  <2> SUFFICES ASSUME NEW r \in Requests, req'[r].step # "idle"
               PROVE  /\ req'[r].sentAt <= now /\ now <= req'[r].sentAt + Latency
                      /\ req'[r].step # "sent" => req'[r].sentAt <= req'[r].began /\ req'[r].began <= now
    BY DEF TimeInv
  <2> QED BY <1>1 DEF TabInv, TimeInv, Moves
<1>4. \A s \in Sessions, n \in Nat : Owns(s, n) => Owns(s, n)'
  BY <1>2 DEF Owns, RowsEnd
<1>5. OwnInv'
  <2>1. \A s \in Sessions : jar[s] \in Nat
    BY RotationAssumption DEF IInv, TypeOK
  <2>2. \A r \in Requests : req[r].pair \in Nat /\ req[r].got \in Nat
    BY RotationAssumption DEF IInv, TypeOK, Request
  <2>3. \A s \in Sessions : jar'[s] # 0 => Owns(s, jar[s])'
    BY <1>4, <2>1 DEF TabInv, OwnInv
  <2>4. ASSUME NEW r \in Requests, req'[r].step # "idle"
        PROVE  req'[r].session \in Sessions /\ Owns(req[r].session, req[r].pair)'
    <3>1. req[r].session \in Sessions /\ Owns(req[r].session, req[r].pair)
      BY <1>1, <2>4 DEF TabInv, OwnInv
    <3> QED BY <1>1, <1>4, <2>2, <2>4, <3>1 DEF Owns
  <2>5. ASSUME NEW r \in Requests, Undelivered(r)'
        PROVE  Owns(req[r].session, req[r].got)'
    <3>1. req'[r] = req[r] /\ Undelivered(r)
      BY <1>1, <2>5
    <3>2. req[r].session \in Sessions /\ Owns(req[r].session, req[r].got)
      BY <3>1 DEF TabInv, OwnInv, Undelivered
    <3> QED BY <1>4, <2>2, <3>1, <3>2 DEF Owns
  <2>6. \A u \in used' : u.pair <= issued'
    BY DEF TabInv, OwnInv, RowsEnd
  <2> QED BY <2>3, <2>4, <2>5, <2>6 DEF OwnInv
<1>6. OnceInv'
  BY <1>1 DEF TabInv, OnceInv
<1>7. JarInv'
  <2> SUFFICES ASSUME NEW s \in Sessions, sess'[s].state = "open"
               PROVE  /\ \A q \in Requests : Undelivered(q)' /\ req'[q].session = s => req'[q].got = sess'[s].pair
                      /\ \/ jar'[s] = sess'[s].pair
                         \/ \E q \in Requests, u \in used' :
                              /\ Undelivered(q)' /\ req'[q].session = s
                              /\ u.pair = jar'[s] /\ u.session = s /\ u.at >= req'[q].sentAt
    BY DEF JarInv
  <2>1. sess'[s] = sess[s]
    BY <1>2
  <2>2. \A q \in Requests : Undelivered(q)' => req'[q] = req[q] /\ Undelivered(q)
    BY <1>1
  <2>3. \A q \in Requests : Undelivered(q)' /\ req'[q].session = s => req'[q].got = sess'[s].pair
    BY <2>1, <2>2 DEF TabInv, JarInv
  <2>4. \A u \in used : u.session = s => u \in used'
    BY DEF RowsEnd
  <2>5. CASE jar[s] = sess[s].pair
    BY <2>1, <2>3, <2>5
  <2>6. CASE jar[s] # sess[s].pair
    <3>1. PICK q \in Requests, u \in used :
            /\ Undelivered(q) /\ req[q].session = s
            /\ u.pair = jar[s] /\ u.session = s /\ u.at >= req[q].sentAt
      BY <2>1, <2>6 DEF TabInv, JarInv
    <3>2. req'[q] = req[q] /\ Undelivered(q)' /\ u \in used'
      BY <1>1, <2>4, <3>1
    <3> QED BY <2>3, <3>1, <3>2
  <2> QED BY <2>5, <2>6
<1>8. SinceInv'
  <2> SUFFICES ASSUME NEW r \in Requests, req'[r].step # "idle", sess'[req'[r].session].state = "open"
               PROVE  \/ req'[r].pair = sess'[req'[r].session].pair
                      \/ \E u \in used' : u.pair = req'[r].pair /\ u.session = req'[r].session
                                          /\ u.at + Latency >= req'[r].sentAt
    BY DEF SinceInv
  <2>1. /\ req[r].step # "idle" /\ req[r].session \in Sessions /\ req'[r].pair = req[r].pair
        /\ req'[r].session = req[r].session /\ req'[r].sentAt = req[r].sentAt
    BY <1>1 DEF TabInv, OwnInv
  <2>2. sess'[req[r].session] = sess[req[r].session]
    BY <1>2, <2>1
  <2>3. \A u \in used : u.session = req[r].session => u \in used'
    BY <2>1 DEF RowsEnd
  <2>4. \/ req[r].pair = sess[req[r].session].pair
        \/ \E u \in used : u.pair = req[r].pair /\ u.session = req[r].session
                           /\ u.at + Latency >= req[r].sentAt
    BY <2>1, <2>2 DEF TabInv, SinceInv
  <2> QED BY <2>1, <2>2, <2>3, <2>4
<1>9. ASSUME NEW r \in Requests PROVE SafeFor(r)'
  <2>1. CASE Moves(r)
    BY <2>1 DEF Moves
  <2>2. CASE req'[r] = req[r] /\ req[r].step # "idle"
    <3>1. req[r].session \in Sessions /\ SafeFor(r)
      BY <2>2 DEF TabInv, OwnInv
    <3>2. Alive(r)' => Alive(r) /\ sess'[req[r].session] = sess[req[r].session]
      BY <1>2, <2>2, <3>1 DEF Alive
    <3> QED BY <2>2, <3>1, <3>2 DEF SafeFor
  <2>3. CASE req'[r] = req[r] /\ req[r].step = "idle"
    BY <2>3 DEF SafeFor
  <2> QED BY <2>1, <2>2, <2>3
<1> QED BY <1>3, <1>5, <1>6, <1>7, <1>8, <1>9 DEF TabInv

\* An answer that carries no tokens leaves nothing to deliver.
LEMMA AnswerMoves ==
  ASSUME IInv, TabInv, NEW r \in Requests, NEW a \in {"banned", "superseded", "invalid"},
         req[r].step \in {"select", "check", "revoke"}, Answer(r, a, 0)
  PROVE  \A x \in Requests : req'[x] = req[x] \/ Moves(x)
<1>1. req \in [Requests -> Request] /\ req[r] \in Request
  BY DEF IInv, TypeOK
<1>2. \A x \in Requests : x # r => req'[x] = req[x]
  BY <1>1 DEF Answer
<1>3. /\ req'[r].step = "done" /\ req'[r].answer = a /\ req'[r].pair = req[r].pair
      /\ req'[r].session = req[r].session /\ req'[r].sentAt = req[r].sentAt
      /\ req'[r].began = req[r].began
  BY <1>1 DEF Answer, Request
<1>4. req[r].sentAt <= req[r].began /\ req[r].began <= now
  BY DEF TabInv, TimeInv
<1>5. Moves(r)
  BY <1>3, <1>4 DEF Moves, Undelivered, SafeFor
<1> QED BY <1>2, <1>5

\* So does a statement that leads to the next.
LEMMA StepMoves ==
  ASSUME IInv, TabInv, NEW r \in Requests, NEW st \in {"check", "revoke", "rotate"},
         NEW l \in Sessions \cup {NoSession}, req[r].step \in {"select", "check"},
         \/ req' = [req EXCEPT ![r].step = st]
         \/ req' = [req EXCEPT ![r].lock = l, ![r].step = st],
         UNCHANGED sess,
         st \in {"check", "revoke"} /\ Alive(r) => req[r].pair # sess[req[r].session].pair,
         st = "revoke" => ~Alive(r)
  PROVE  \A x \in Requests : req'[x] = req[x] \/ Moves(x)
<1>1. req \in [Requests -> Request] /\ req[r] \in Request
  BY DEF IInv, TypeOK
<1>2. \A x \in Requests : x # r => req'[x] = req[x]
  BY <1>1
<1>3. /\ req'[r].step = st /\ req'[r].pair = req[r].pair
      /\ req'[r].session = req[r].session /\ req'[r].sentAt = req[r].sentAt
      /\ req'[r].began = req[r].began
  BY <1>1 DEF Request
<1>4. req[r].sentAt <= req[r].began /\ req[r].began <= now
  BY DEF TabInv, TimeInv
<1>5. SafeFor(r)'
  BY <1>3 DEF SafeFor, Alive
<1>6. Moves(r)
  BY <1>3, <1>4, <1>5 DEF Moves, Undelivered
<1> QED BY <1>2, <1>6

\* A token is rotated less than Grace before a tab that still presents it begins.
LEMMA NeverTooLate ==
  ASSUME SharedJar, IInv, TabInv, NEW r \in Requests, req[r].step = "check", ~JustRotated(r)
  PROVE  ~Alive(r)
<1> SUFFICES ASSUME Alive(r) PROVE FALSE
  OBVIOUS
<1>1. req[r].pair # sess[req[r].session].pair /\ sess[req[r].session].state = "open"
  BY DEF TabInv, SafeFor, Alive
<1>2. PICK u \in used : u.pair = req[r].pair /\ u.session = req[r].session
                        /\ u.at + Latency >= req[r].sentAt
  BY <1>1 DEF TabInv, SinceInv
<1>3. req[r].began <= now /\ now <= req[r].sentAt + Latency
  BY DEF TabInv, TimeInv
<1>4. u.at \in Nat /\ req[r].sentAt \in Nat /\ req[r].began \in Nat /\ now \in Nat
  BY DEF IInv, TypeOK, UsedRow, Request
<1>5. u.at + Grace > req[r].began
  BY <1>2, <1>3, <1>4, RotationAssumption DEF SharedJar
<1> QED BY <1>2, <1>5 DEF JustRotated, Alive

LEMMA TabServe ==
  ASSUME SharedJar, IInv, TabInv, NEW r \in Requests,
         Begin(r) \/ SelectRow(r) \/ CheckUsed(r) \/ Revoke(r)
  PROVE  TabInv'
<1>1. req \in [Requests -> Request] /\ req[r] \in Request /\ sess \in [Sessions -> Row] /\ now \in Nat
  BY DEF IInv, TypeOK
<1>2. UNCHANGED <<now, issued, jar, used>>
  BY DEF Begin, SelectRow, CheckUsed, Revoke
<1>3. req[r].step # "idle" => req[r].session \in Sessions /\ Owns(req[r].session, req[r].pair)
  BY DEF TabInv, OwnInv
<1>4. CASE Begin(r)
  <2>1. /\ req'[r].step = "select" /\ req'[r].pair = req[r].pair
        /\ req'[r].session = req[r].session /\ req'[r].sentAt = req[r].sentAt
        /\ req'[r].began = now /\ req[r].step = "sent"
    BY <1>1, <1>4 DEF Begin, Request
  <2>2. Moves(r)
    <3>1. req[r].sentAt <= now
      BY <2>1 DEF TabInv, TimeInv
    <3> QED BY <1>1, <2>1, <3>1 DEF Moves, Undelivered, SafeFor
  <2>3. \A x \in Requests : req'[x] = req[x] \/ Moves(x)
    BY <1>1, <1>4, <2>2 DEF Begin
  <2>4. RowsEnd
    BY <1>2, <1>4 DEF Begin, RowsEnd
  <2> QED BY <1>2, <2>3, <2>4, TabFrame
<1>5. CASE SelectRow(r)
  <2>1. RowsEnd /\ req[r].step = "select" /\ UNCHANGED sess
    BY <1>2, <1>5 DEF SelectRow, RowsEnd
  <2>2. CASE (\A s \in Sessions : ~Matches(r, s)) /\ req' = [req EXCEPT ![r].step = "check"]
    <3>1. Alive(r) => req[r].pair # sess[req[r].session].pair
      BY <1>3, <2>1, <2>2 DEF Alive, Matches, Stored
    <3> QED BY <1>2, <2>1, <2>2, <3>1, StepMoves, TabFrame
  <2>3. CASE Answer(r, "banned", 0)
    BY <1>2, <2>1, <2>3, AnswerMoves, TabFrame
  <2>4. ASSUME NEW s \in Sessions, Matches(r, s), req' = [req EXCEPT ![r].lock = s, ![r].step = AfterSelect(s)]
        PROVE  TabInv'
    <3>1. s = req[r].session
      BY <1>3, <2>1, <2>4 DEF Matches, Owns
    <3>2. AfterSelect(s) \in {"check", "rotate"} /\ (AfterSelect(s) = "check" => ~Alive(r))
      BY <3>1 DEF AfterSelect, Alive
    <3>3. PICK st \in {"check", "rotate"} : st = AfterSelect(s)
      BY <3>2
    <3>4. req' = [req EXCEPT ![r].lock = s, ![r].step = st]
      BY <2>4, <3>3
    <3>5. \A x \in Requests : req'[x] = req[x] \/ Moves(x)
      BY <2>1, <3>2, <3>3, <3>4, StepMoves
    <3> QED BY <1>2, <2>1, <3>5, TabFrame
  <2> QED BY <1>5, <2>2, <2>3, <2>4 DEF SelectRow
<1>6. CASE CheckUsed(r)
  <2>1. RowsEnd /\ req[r].step = "check" /\ UNCHANGED sess
    BY <1>2, <1>6 DEF CheckUsed, RowsEnd
  <2>2. CASE Answer(r, "superseded", 0)
    BY <1>2, <2>1, <2>2, AnswerMoves, TabFrame
  <2>3. CASE ~JustRotated(r) /\ req' = [req EXCEPT ![r].step = "revoke"]
    <3>1. ~Alive(r)
      BY <2>1, <2>3, NeverTooLate
    <3> QED BY <1>2, <2>1, <2>3, <3>1, StepMoves, TabFrame
  <2> QED BY <1>6, <2>2, <2>3 DEF CheckUsed
<1>7. CASE Revoke(r)
  <2>1. Answer(r, "invalid", 0) /\ req[r].step = "revoke"
    BY <1>7 DEF Revoke
  <2>2. \A s \in Sessions : s \in FamilyOf(r) => sess[s].state # "absent"
    BY DEF FamilyOf, IInv, TypeOK, Stored
  <2>3. RowsEnd
    BY <1>1, <1>2, <1>7, <2>2 DEF Revoke, RowsEnd, Row
  <2> QED BY <1>2, <2>1, <2>3, AnswerMoves, TabFrame
<1> QED BY <1>4, <1>5, <1>6, <1>7

\* Sessions end beside the requests.
LEMMA TabEnds ==
  ASSUME IInv, TabInv,
         \/ \E s \in Sessions : LogOut(s) \/ LogOutAll(s) \/ DeleteUser(s)
         \/ \E u \in Users : Ban(u) \/ Unban(u)
         \/ Prune \/ UNCHANGED vars
  PROVE  TabInv'
<1>1. UNCHANGED <<now, issued, jar, req>>
  BY DEF LogOut, LogOutAll, DeleteUser, Ban, Unban, Prune, DropRows, vars
<1>2. \/ UNCHANGED <<sess, used>>
      \/ \E S \in SUBSET Sessions : RevokeRows(S) /\ UNCHANGED used
      \/ \E S \in SUBSET Sessions : DropRows(S) /\ \A s \in S : Stored(s)
  <2>1. ASSUME NEW s \in Sessions, LogOut(s) \/ LogOutAll(s) \/ DeleteUser(s)
        PROVE  \E S \in SUBSET Sessions : \/ RevokeRows(S) /\ UNCHANGED used
                                          \/ DropRows(S) /\ \A t \in S : Stored(t)
    <3>1. SessionsOf(sess[s].user) \in SUBSET Sessions /\ {s} \in SUBSET Sessions
          /\ \A t \in SessionsOf(sess[s].user) : Stored(t)
      BY DEF SessionsOf
    <3> QED BY <2>1, <3>1 DEF LogOut, LogOutAll, DeleteUser
  <2>2. ASSUME NEW u \in Users, Ban(u) PROVE \E S \in SUBSET Sessions : RevokeRows(S) /\ UNCHANGED used
    <3>1. SessionsOf(u) \in SUBSET Sessions
      BY DEF SessionsOf
    <3> QED BY <2>2, <3>1 DEF Ban
  <2>3. CASE Prune
    <3> DEFINE S == {s \in Sessions : Stored(s) /\ sess[s].end < now}
    <3>1. S \in SUBSET Sessions /\ \A s \in S : Stored(s)
      OBVIOUS
    <3>2. DropRows(S)
      BY <2>3 DEF Prune
    <3> HIDE DEF S
    <3> QED BY <3>1, <3>2
  <2>4. CASE UNCHANGED vars \/ \E u \in Users : Unban(u)
    BY <2>4 DEF vars, Unban
  <2> QED BY <2>1, <2>2, <2>3, <2>4
<1>3. RowsEnd
  BY <1>2 DEF IInv, TypeOK, Row, RowsEnd, RevokeRows, DropRows, Stored
<1> QED BY <1>1, <1>3, TabFrame

LEMMA TabTick ==
  ASSUME SharedJar, IInv, TabInv, Tick
  PROVE  TabInv'
<1>1. UNCHANGED <<sess, used, issued, req, jar>> /\ now' = now + 1
      /\ \A r \in Requests : req[r].step # "idle" => now < req[r].sentAt + Latency
  BY DEF Tick, SharedJar
<1>2. now \in Nat /\ \A r \in Requests : req[r].sentAt \in Nat /\ req[r].began \in Nat
  BY DEF IInv, TypeOK, Request
<1>3. TimeInv'
  <2> SUFFICES ASSUME NEW r \in Requests, req[r].step # "idle"
               PROVE  /\ req[r].sentAt <= now + 1 /\ now + 1 <= req[r].sentAt + Latency
                      /\ req[r].step # "sent" => req[r].sentAt <= req[r].began /\ req[r].began <= now + 1
    BY <1>1 DEF TimeInv
  <2>1. /\ req[r].sentAt <= now /\ now < req[r].sentAt + Latency
        /\ req[r].step # "sent" => req[r].sentAt <= req[r].began /\ req[r].began <= now
    BY <1>1 DEF TabInv, TimeInv
  <2> QED BY <1>2, <2>1, RotationAssumption
<1>4. OwnInv' /\ OnceInv'
  BY <1>1 DEF TabInv, OwnInv, OnceInv, Owns, Undelivered
<1>5. JarInv'
  BY <1>1 DEF TabInv, JarInv, Undelivered
<1>6. SinceInv' /\ \A r \in Requests : SafeFor(r)'
  BY <1>1 DEF TabInv, SinceInv, SafeFor, Alive
<1> QED BY <1>3, <1>4, <1>5, <1>6 DEF TabInv

\* What a session owns stays its own beside a pair never issued before.
LEMMA OwnsStays ==
  ASSUME IInv, NEW s \in Sessions, NEW n \in Nat, Owns(s, n), issued' \in {issued, issued + 1},
         \A t \in Sessions : \/ sess'[t].pair = sess[t].pair /\ (sess[t].state # "absent" => sess'[t].state # "absent")
                             \/ sess'[t].pair = issued + 1 /\ sess'[t].state # "absent",
         \A u \in used' : u \in used \/ (u.pair = n => u.session = s)
  PROVE  Owns(s, n)'
<1>1. issued \in Nat
  BY RotationAssumption DEF IInv, TypeOK
<1>2. n # issued + 1 /\ n \in 1..issued'
  BY <1>1 DEF Owns
<1> QED BY <1>2 DEF Owns

\* A pair issued now is its session's alone.
LEMMA OwnsNext ==
  ASSUME IInv, OwnInv, NEW s \in Sessions, issued' = issued + 1, sess'[s].state # "absent",
         \A t \in Sessions \ {s} : sess'[t] = sess[t],
         \A u \in used' : u \in used \/ u.session = s
  PROVE  \A n \in Nat : n = issued + 1 => Owns(s, n)'
<1>1. issued \in Nat /\ \A t \in Sessions : sess[t].pair \in Nat
  BY RotationAssumption DEF IInv, TypeOK, Row
<1>2. issued + 1 \in 1..issued' /\ \A t \in Sessions : sess[t].pair # issued + 1
  BY <1>1 DEF IInv, PairInv
<1>3. \A u \in used : u.pair # issued + 1
  <2>1. \A u \in used : u.pair \in Nat /\ u.pair <= issued
    BY DEF OwnInv, IInv, TypeOK, UsedRow, Pairs
  <2> QED BY <1>1, <2>1
<1> QED BY <1>2, <1>3 DEF Owns

LEMMA TabLogIn ==
  ASSUME IInv, TabInv, NEW s \in Sessions, NEW u \in Users, LogIn(s, u)
  PROVE  TabInv'
<1>1. /\ sess[s].state = "absent" /\ issued' = issued + 1 /\ UNCHANGED <<now, used, req>>
      /\ sess'[s].state = "open" /\ sess'[s].pair = issued + 1 /\ jar'[s] = issued + 1
      /\ \A t \in Sessions \ {s} : sess'[t] = sess[t] /\ jar'[t] = jar[t]
  BY DEF LogIn, IInv, TypeOK
<1>2. issued \in Nat /\ (\A t \in Sessions : jar[t] \in Nat)
      /\ \A r \in Requests : req[r].pair \in Nat /\ req[r].got \in Nat
  BY RotationAssumption DEF IInv, TypeOK, Request
<1>3. \A t \in Sessions, n \in Nat : Owns(t, n) => t # s /\ Owns(t, n)' /\ n <= issued
  <2> SUFFICES ASSUME NEW t \in Sessions, NEW n \in Nat, Owns(t, n)
               PROVE  t # s /\ Owns(t, n)' /\ n <= issued
    OBVIOUS
  <2>1. t # s /\ n <= issued
    BY <1>1, <1>2 DEF Owns
  <2>2. Owns(t, n)'
    BY <1>1, OwnsStays
  <2> QED BY <2>1, <2>2
<1>4. \A n \in Nat : n = issued + 1 => Owns(s, n)'
  BY <1>1, OwnsNext DEF TabInv
<1>5. TimeInv'
  BY <1>1 DEF TabInv, TimeInv
<1>6. \A r \in Requests : req[r].step # "idle" =>
        /\ req[r].session \in Sessions \ {s} /\ Owns(req[r].session, req[r].pair)'
        /\ req[r].pair # issued + 1
  <2> SUFFICES ASSUME NEW r \in Requests, req[r].step # "idle"
               PROVE  /\ req[r].session \in Sessions \ {s} /\ Owns(req[r].session, req[r].pair)'
                      /\ req[r].pair # issued + 1
    OBVIOUS
  <2>1. req[r].session \in Sessions /\ Owns(req[r].session, req[r].pair)
    BY DEF TabInv, OwnInv
  <2>2. req[r].session # s /\ req[r].pair <= issued
    BY <1>2, <1>3, <2>1
  <2>3. Owns(req[r].session, req[r].pair)'
    BY <1>1, <1>2, <1>3, <2>1 DEF Owns
  <2> QED BY <1>2, <2>1, <2>2, <2>3
<1>7. \A r \in Requests : Undelivered(r) => Owns(req[r].session, req[r].got)' /\ req[r].got # issued + 1
  <2> SUFFICES ASSUME NEW r \in Requests, Undelivered(r)
               PROVE  Owns(req[r].session, req[r].got)' /\ req[r].got # issued + 1
    OBVIOUS
  <2>1. req[r].session \in Sessions /\ Owns(req[r].session, req[r].got)
    BY <1>6 DEF TabInv, OwnInv, Undelivered
  <2>2. req[r].got <= issued
    BY <1>2, <1>3, <2>1
  <2>3. Owns(req[r].session, req[r].got)'
    BY <1>1, <1>2, <1>3, <2>1 DEF Owns
  <2> QED BY <1>2, <2>2, <2>3
<1>8. \A r \in Requests : Undelivered(r)' <=> Undelivered(r)
  BY <1>1 DEF Undelivered
<1>9. OwnInv'
  <2>1. \A t \in Sessions : jar'[t] # 0 => Owns(t, jar[t])'
    <3> SUFFICES ASSUME NEW t \in Sessions, jar'[t] # 0 PROVE Owns(t, jar[t])'
      OBVIOUS
    <3>1. CASE t = s
      BY <1>1, <1>2, <1>4, <3>1 DEF Owns
    <3>2. CASE t # s
      BY <1>1, <1>2, <1>3, <3>2 DEF TabInv, OwnInv, Owns
    <3> QED BY <3>1, <3>2
  <2>2. \A r \in Requests : req'[r].step # "idle" =>
          req'[r].session \in Sessions /\ Owns(req[r].session, req[r].pair)'
    BY <1>1, <1>6
  <2>3. \A r \in Requests : Undelivered(r)' => Owns(req[r].session, req[r].got)'
    BY <1>7, <1>8
  <2>4. \A w \in used' : w.pair <= issued'
    <3>1. \A w \in used : w.pair \in Nat /\ w.pair <= issued
      BY DEF TabInv, OwnInv, IInv, TypeOK, UsedRow, Pairs
    <3> QED BY <1>1, <1>2, <3>1
  <2> QED BY <2>1, <2>2, <2>3, <2>4 DEF OwnInv
<1>10. OnceInv'
  <2> SUFFICES ASSUME NEW q \in Requests, Undelivered(q)
               PROVE  /\ \A t \in Sessions : jar'[t] # req[q].got
                      /\ \A r \in Requests : req[r].step # "idle" => req[r].pair # req[q].got
                      /\ \A r \in Requests : Undelivered(r) /\ req[r].got = req[q].got => r = q
    BY <1>1, <1>8 DEF OnceInv
  <2>1. \A t \in Sessions : jar[t] # req[q].got
    BY DEF TabInv, OnceInv
  <2>2. \A t \in Sessions : jar'[t] # req[q].got
    BY <1>1, <1>7, <2>1
  <2> QED BY <2>2 DEF TabInv, OnceInv
<1>11. JarInv'
  <2> SUFFICES ASSUME NEW t \in Sessions, sess'[t].state = "open"
               PROVE  /\ \A q \in Requests : Undelivered(q) /\ req[q].session = t => req[q].got = sess'[t].pair
                      /\ \/ jar'[t] = sess'[t].pair
                         \/ \E q \in Requests, w \in used :
                              /\ Undelivered(q) /\ req[q].session = t
                              /\ w.pair = jar'[t] /\ w.session = t /\ w.at >= req[q].sentAt
    BY <1>1, <1>8 DEF JarInv
  <2>1. CASE t = s
    BY <1>1, <1>6, <2>1 DEF Undelivered
  <2>2. CASE t # s
    BY <1>1, <2>2 DEF TabInv, JarInv
  <2> QED BY <2>1, <2>2
<1>12. SinceInv' /\ \A r \in Requests : SafeFor(r)'
  <2>1. \A r \in Requests : req[r].step # "idle" => sess'[req[r].session] = sess[req[r].session]
    BY <1>1, <1>6
  <2> QED BY <1>1, <2>1 DEF TabInv, SinceInv, SafeFor, Alive
<1> QED BY <1>5, <1>9, <1>10, <1>11, <1>12 DEF TabInv

\* A client sends what its jar holds.
LEMMA TabSend ==
  ASSUME SharedJar, IInv, TabInv, NEW r \in Requests, NEW s \in Sessions, NEW n \in Pairs, Send(r, s, n)
  PROVE  TabInv'
<1>1. /\ req[r].step = "idle" /\ jar[s] # 0 /\ n = jar[s] /\ UNCHANGED <<now, sess, used, issued, jar>>
      /\ req'[r].step = "sent" /\ req'[r].pair = n /\ req'[r].session = s /\ req'[r].sentAt = now
      /\ \A q \in Requests \ {r} : req'[q] = req[q]
  BY DEF Send, SharedJar, IInv, TypeOK, Request
<1>2. now \in Nat /\ Latency \in Nat /\ (\A u \in used : u.at \in Nat)
      /\ \A q \in Requests : req[q].sentAt \in Nat
  BY RotationAssumption DEF IInv, TypeOK, UsedRow, Request
<1>3. ~Undelivered(r) /\ ~Undelivered(r)' /\ \A q \in Requests : Undelivered(q)' <=> Undelivered(q)
  BY <1>1 DEF Undelivered
<1>4. \A t \in Sessions, m \in Pairs \cup {0} : Owns(t, m)' <=> Owns(t, m)
  BY <1>1 DEF Owns
<1>5. Owns(s, n)
  BY <1>1 DEF TabInv, OwnInv
<1>6. TimeInv'
  <2> SUFFICES ASSUME NEW q \in Requests, req'[q].step # "idle"
               PROVE  /\ req'[q].sentAt <= now /\ now <= req'[q].sentAt + Latency
                      /\ req'[q].step # "sent" => req'[q].sentAt <= req'[q].began /\ req'[q].began <= now
    BY <1>1 DEF TimeInv
  <2>1. CASE q = r
    BY <1>1, <1>2, <2>1
  <2>2. CASE q # r
    BY <1>1, <2>2 DEF TabInv, TimeInv
  <2> QED BY <2>1, <2>2
<1>7. OwnInv'
  <2>1. \A t \in Sessions : jar'[t] # 0 => Owns(t, jar[t])'
    BY <1>1 DEF TabInv, OwnInv, Owns
  <2>2. \A q \in Requests : req'[q].step # "idle" =>
          req'[q].session \in Sessions /\ Owns(req[q].session, req[q].pair)'
    <3> SUFFICES ASSUME NEW q \in Requests, req'[q].step # "idle"
                 PROVE  req'[q].session \in Sessions /\ Owns(req[q].session, req[q].pair)'
      OBVIOUS
    <3>1. CASE q = r
      BY <1>1, <1>5, <3>1 DEF Owns
    <3>2. CASE q # r
      BY <1>1, <3>2 DEF TabInv, OwnInv, Owns
    <3> QED BY <3>1, <3>2
  <2>3. \A q \in Requests : Undelivered(q)' => Owns(req[q].session, req[q].got)'
    <3> SUFFICES ASSUME NEW q \in Requests, Undelivered(q)'
                 PROVE  Owns(req[q].session, req[q].got)'
      OBVIOUS
    <3>1. q # r /\ req'[q] = req[q] /\ Owns(req[q].session, req[q].got)
      BY <1>1, <1>3 DEF TabInv, OwnInv
    <3> QED BY <1>1, <3>1 DEF Owns
  <2>4. \A u \in used' : u.pair <= issued'
    BY <1>1 DEF TabInv, OwnInv
  <2> QED BY <2>1, <2>2, <2>3, <2>4 DEF OwnInv
<1>8. OnceInv'
  <2> SUFFICES ASSUME NEW q \in Requests, Undelivered(q)'
               PROVE  /\ \A t \in Sessions : jar'[t] # req'[q].got
                      /\ \A x \in Requests : req'[x].step # "idle" => req'[x].pair # req'[q].got
                      /\ \A x \in Requests : Undelivered(x)' /\ req'[x].got = req'[q].got => x = q
    BY DEF OnceInv
  <2>1. q # r /\ Undelivered(q) /\ req'[q] = req[q]
    BY <1>1, <1>3
  <2>2. /\ \A t \in Sessions : jar[t] # req[q].got
        /\ \A x \in Requests : req[x].step # "idle" => req[x].pair # req[q].got
        /\ \A x \in Requests : Undelivered(x) /\ req[x].got = req[q].got => x = q
    BY <2>1 DEF TabInv, OnceInv
  <2> QED BY <1>1, <1>3, <2>1, <2>2
<1>9. JarInv'
  <2>1. \A q \in Requests : Undelivered(q) => req'[q] = req[q]
    BY <1>1, <1>3
  <2> SUFFICES ASSUME NEW t \in Sessions, sess[t].state = "open"
               PROVE  /\ \A q \in Requests : Undelivered(q)' /\ req'[q].session = t => req'[q].got = sess[t].pair
                      /\ \/ jar[t] = sess[t].pair
                         \/ \E q \in Requests, u \in used :
                              /\ Undelivered(q)' /\ req'[q].session = t
                              /\ u.pair = jar[t] /\ u.session = t /\ u.at >= req'[q].sentAt
    BY <1>1 DEF JarInv
  <2>2. /\ \A q \in Requests : Undelivered(q) /\ req[q].session = t => req[q].got = sess[t].pair
        /\ \/ jar[t] = sess[t].pair
           \/ \E q \in Requests, u \in used :
                /\ Undelivered(q) /\ req[q].session = t
                /\ u.pair = jar[t] /\ u.session = t /\ u.at >= req[q].sentAt
    BY DEF TabInv, JarInv
  <2> QED BY <1>3, <2>1, <2>2
<1>10. SinceInv'
  <2> SUFFICES ASSUME NEW q \in Requests, req'[q].step # "idle", sess[req'[q].session].state = "open"
               PROVE  \/ req'[q].pair = sess[req'[q].session].pair
                      \/ \E u \in used : u.pair = req'[q].pair /\ u.session = req'[q].session
                                         /\ u.at + Latency >= req'[q].sentAt
    BY <1>1 DEF SinceInv
  <2>1. CASE q # r
    BY <1>1, <2>1 DEF TabInv, SinceInv
  <2>2. CASE q = r /\ jar[s] # sess[s].pair
    <3>1. PICK x \in Requests, u \in used :
            /\ Undelivered(x) /\ req[x].session = s
            /\ u.pair = jar[s] /\ u.session = s /\ u.at >= req[x].sentAt
      BY <1>1, <2>2 DEF TabInv, JarInv
    <3>2. now <= req[x].sentAt + Latency
      BY <3>1 DEF TabInv, TimeInv, Undelivered
    <3>3. u.at + Latency >= now
      BY <1>2, <3>1, <3>2
    <3> QED BY <1>1, <2>2, <3>1, <3>3
  <2> QED BY <1>1, <2>1, <2>2
<1>11. ASSUME NEW q \in Requests PROVE SafeFor(q)'
  <2>1. CASE q = r
    BY <1>1, <2>1 DEF SafeFor
  <2>2. CASE q # r
    BY <1>1, <2>2 DEF TabInv, SafeFor, Alive
  <2> QED BY <2>1, <2>2
<1> QED BY <1>6, <1>7, <1>8, <1>9, <1>10, <1>11 DEF TabInv

\* The answer is stored.
LEMMA TabDeliver ==
  ASSUME IInv, TabInv, NEW r \in Requests, Deliver(r)
  PROVE  TabInv'
<1>1. /\ req[r].step = "done" /\ UNCHANGED <<now, sess, used, issued>> /\ req'[r].step = "idle"
      /\ \A q \in Requests \ {r} : req'[q] = req[q]
  BY DEF Deliver, Ended, IdleRequest, IInv, TypeOK
<1>2. \A t \in Sessions : jar'[t] = IF Undelivered(r) /\ t = req[r].session THEN req[r].got ELSE jar[t]
  BY <1>1 DEF Deliver, Undelivered, IInv, TypeOK
<1>3. \A q \in Requests : Undelivered(q)' <=> Undelivered(q) /\ q # r
  BY <1>1 DEF Undelivered
<1>4. TimeInv'
  <2> SUFFICES ASSUME NEW q \in Requests, req'[q].step # "idle"
               PROVE  /\ req'[q].sentAt <= now /\ now <= req'[q].sentAt + Latency
                      /\ req'[q].step # "sent" => req'[q].sentAt <= req'[q].began /\ req'[q].began <= now
    BY <1>1 DEF TimeInv
  <2>1. req'[q] = req[q]
    BY <1>1
  <2> QED BY <2>1 DEF TabInv, TimeInv
<1>5. OwnInv'
  <2>1. \A t \in Sessions : jar'[t] # 0 => Owns(t, jar[t])'
    <3> SUFFICES ASSUME NEW t \in Sessions, jar'[t] # 0 PROVE Owns(t, jar[t])'
      OBVIOUS
    <3>1. CASE Undelivered(r) /\ t = req[r].session
      <4>1. jar'[t] = req[r].got /\ Owns(t, req[r].got)
        BY <1>2, <3>1 DEF TabInv, OwnInv
      <4> QED BY <1>1, <4>1 DEF Owns
    <3>2. CASE ~(Undelivered(r) /\ t = req[r].session)
      <4>1. jar'[t] = jar[t] /\ Owns(t, jar[t])
        BY <1>2, <3>2 DEF TabInv, OwnInv
      <4> QED BY <1>1, <4>1 DEF Owns
    <3> QED BY <3>1, <3>2
  <2>2. \A q \in Requests : req'[q].step # "idle" =>
          req'[q].session \in Sessions /\ Owns(req[q].session, req[q].pair)'
    <3> SUFFICES ASSUME NEW q \in Requests, req'[q].step # "idle"
                 PROVE  req'[q].session \in Sessions /\ Owns(req[q].session, req[q].pair)'
      OBVIOUS
    <3>1. req'[q] = req[q] /\ req[q].session \in Sessions /\ Owns(req[q].session, req[q].pair)
      BY <1>1 DEF TabInv, OwnInv
    <3> QED BY <1>1, <3>1 DEF Owns
  <2>3. \A q \in Requests : Undelivered(q)' => Owns(req[q].session, req[q].got)'
    <3> SUFFICES ASSUME NEW q \in Requests, Undelivered(q)'
                 PROVE  Owns(req[q].session, req[q].got)'
      OBVIOUS
    <3>1. req'[q] = req[q] /\ Owns(req[q].session, req[q].got)
      BY <1>1, <1>3 DEF TabInv, OwnInv
    <3> QED BY <1>1, <3>1 DEF Owns
  <2>4. \A u \in used' : u.pair <= issued'
    BY <1>1 DEF TabInv, OwnInv
  <2> QED BY <2>1, <2>2, <2>3, <2>4 DEF OwnInv
<1>6. OnceInv'
  <2> SUFFICES ASSUME NEW q \in Requests, Undelivered(q)'
               PROVE  /\ \A t \in Sessions : jar'[t] # req'[q].got
                      /\ \A x \in Requests : req'[x].step # "idle" => req'[x].pair # req'[q].got
                      /\ \A x \in Requests : Undelivered(x)' /\ req'[x].got = req'[q].got => x = q
    BY DEF OnceInv
  <2>1. q # r /\ Undelivered(q) /\ req'[q] = req[q]
    BY <1>1, <1>3
  <2>2. /\ \A t \in Sessions : jar[t] # req[q].got
        /\ \A x \in Requests : req[x].step # "idle" => req[x].pair # req[q].got
        /\ \A x \in Requests : Undelivered(x) /\ req[x].got = req[q].got => x = q
    BY <2>1 DEF TabInv, OnceInv
  <2> QED BY <1>1, <1>2, <1>3, <2>1, <2>2
<1>7. JarInv'
  <2> SUFFICES ASSUME NEW t \in Sessions, sess[t].state = "open"
               PROVE  /\ \A q \in Requests : Undelivered(q)' /\ req'[q].session = t => req'[q].got = sess[t].pair
                      /\ \/ jar'[t] = sess[t].pair
                         \/ \E q \in Requests, u \in used :
                              /\ Undelivered(q)' /\ req'[q].session = t
                              /\ u.pair = jar'[t] /\ u.session = t /\ u.at >= req'[q].sentAt
    BY <1>1 DEF JarInv
  <2>1. /\ \A q \in Requests : Undelivered(q) /\ req[q].session = t => req[q].got = sess[t].pair
        /\ \/ jar[t] = sess[t].pair
           \/ \E q \in Requests, u \in used :
                /\ Undelivered(q) /\ req[q].session = t
                /\ u.pair = jar[t] /\ u.session = t /\ u.at >= req[q].sentAt
    BY DEF TabInv, JarInv
  <2> QED BY <1>1, <1>2, <1>3, <2>1
<1>8. SinceInv'
  <2> SUFFICES ASSUME NEW q \in Requests, req'[q].step # "idle", sess[req'[q].session].state = "open"
               PROVE  \/ req'[q].pair = sess[req'[q].session].pair
                      \/ \E u \in used : u.pair = req'[q].pair /\ u.session = req'[q].session
                                         /\ u.at + Latency >= req'[q].sentAt
    BY <1>1 DEF SinceInv
  <2>1. req'[q] = req[q]
    BY <1>1
  <2> QED BY <2>1 DEF TabInv, SinceInv
<1>9. ASSUME NEW q \in Requests PROVE SafeFor(q)'
  <2>1. CASE q = r
    BY <1>1, <2>1 DEF SafeFor
  <2>2. CASE q # r
    BY <1>1, <2>2 DEF TabInv, SafeFor, Alive
  <2> QED BY <2>1, <2>2
<1> QED BY <1>4, <1>5, <1>6, <1>7, <1>8, <1>9 DEF TabInv

\* A rotation: the old pair is filed as used now, the new one is on its way.
LEMMA TabRotate ==
  ASSUME IInv, TabInv, NEW r \in Requests, Rotate(r)
  PROVE  TabInv'
<1>a. req[r].lock \in Sessions
  BY DEF Rotate, IInv, LockInv
<1>b. PICK s \in Sessions : s = req[r].lock
  BY <1>a
<1> DEFINE row == [pair |-> req[r].pair, session |-> s, at |-> req[r].began]
<1>1. /\ s \in Sessions /\ sess[s].state = "open" /\ sess[s].pair = req[r].pair /\ s = req[r].session
      /\ req[r].step = "rotate"
  <2>1. req[r].step = "rotate"
    BY DEF Rotate
  <2>2. s \in Sessions /\ sess[s].state = "open" /\ sess[s].pair = req[r].pair
    BY <1>b, <2>1 DEF IInv, LockInv
  <2>3. Owns(req[r].session, req[r].pair)
    BY <2>1 DEF TabInv, OwnInv
  <2> QED BY <2>1, <2>2, <2>3 DEF Owns
<1>2. /\ issued' = issued + 1 /\ used' = used \cup {row} /\ UNCHANGED <<now, jar>>
      /\ \A t \in Sessions \ {s} : sess'[t] = sess[t]
      /\ sess'[s].pair = issued + 1 /\ sess'[s].state = "open" /\ sess'[s].end = sess[s].end
  <2>1. sess \in [Sessions -> Row] /\ sess[s] \in Row
    BY <1>1 DEF IInv, TypeOK
  <2> QED BY <1>b, <1>1, <2>1 DEF Rotate, Row
<1>3. /\ \A q \in Requests \ {r} : req'[q] = req[q]
      /\ req'[r].step = "done" /\ req'[r].answer = "tokens" /\ req'[r].got = issued + 1
      /\ req'[r].pair = req[r].pair /\ req'[r].session = s /\ req'[r].sentAt = req[r].sentAt
      /\ req'[r].began = req[r].began
  <2>1. req \in [Requests -> Request] /\ req[r] \in Request
    BY DEF IInv, TypeOK
  <2> QED BY <1>1, <2>1 DEF Rotate, Answer, Request
<1>4. ~Undelivered(r) /\ Undelivered(r)' /\ \A q \in Requests \ {r} : Undelivered(q)' <=> Undelivered(q)
  BY <1>1, <1>3 DEF Undelivered
<1>5. /\ issued \in Nat /\ now \in Nat /\ Latency \in Nat /\ (\A t \in Sessions : jar[t] \in Nat)
      /\ \A q \in Requests : /\ req[q].pair \in Nat /\ req[q].got \in Nat
                             /\ req[q].sentAt \in Nat /\ req[q].began \in Nat
  BY RotationAssumption DEF IInv, TypeOK, Request
<1>6. \A u \in used : u.at \in Nat /\ u.pair \in Nat /\ u.pair <= issued
  BY DEF IInv, TypeOK, UsedRow, Pairs, TabInv, OwnInv
<1> HIDE DEF row
<1>7. row.pair = req[r].pair /\ row.session = s /\ row.at = req[r].began
  BY DEF row
<1>8. \A q \in Requests : /\ req'[q].step # "idle" <=> req[q].step # "idle"
                          /\ req'[q].pair = req[q].pair /\ req'[q].sentAt = req[q].sentAt
                          /\ req'[q].session = req[q].session
  BY <1>1, <1>3
<1>9. \A t \in Sessions, n \in Nat : Owns(t, n) => Owns(t, n)' /\ n <= issued
  <2> SUFFICES ASSUME NEW t \in Sessions, NEW n \in Nat, Owns(t, n)
               PROVE  Owns(t, n)' /\ n <= issued
    OBVIOUS
  <2>1. n <= issued
    BY <1>5 DEF Owns
  <2>2. \A u \in used' : u \in used \/ (u.pair = n => u.session = t)
    BY <1>1, <1>2, <1>7 DEF Owns
  <2>3. \A x \in Sessions : \/ sess'[x].pair = sess[x].pair /\ (sess[x].state # "absent" => sess'[x].state # "absent")
                            \/ sess'[x].pair = issued + 1 /\ sess'[x].state # "absent"
    BY <1>1, <1>2
  <2>4. Owns(t, n)'
    BY <1>2, <2>2, <2>3, OwnsStays
  <2> QED BY <2>1, <2>4
<1>10. \A n \in Nat : n = issued + 1 => Owns(s, n)'
  <2>1. \A u \in used' : u \in used \/ u.session = s
    BY <1>2, <1>7
  <2>2. OwnInv /\ sess'[s].state # "absent"
    BY <1>2 DEF TabInv
  <2> QED BY <1>1, <1>2, <2>1, <2>2, OwnsNext
<1>11. \A q \in Requests : req[q].step # "idle" =>
         /\ req[q].session \in Sessions /\ Owns(req[q].session, req[q].pair)
         /\ req[q].pair <= issued
  BY <1>5, <1>9 DEF TabInv, OwnInv
<1>12. \A q \in Requests : Undelivered(q) =>
         /\ req[q].session \in Sessions \ {s} /\ Owns(req[q].session, req[q].got)
         /\ req[q].got <= issued
  <2> SUFFICES ASSUME NEW q \in Requests, Undelivered(q)
               PROVE  /\ req[q].session \in Sessions \ {s} /\ Owns(req[q].session, req[q].got)
                      /\ req[q].got <= issued
    OBVIOUS
  <2>1. req[q].session \in Sessions /\ Owns(req[q].session, req[q].got)
    BY <1>11 DEF TabInv, OwnInv, Undelivered
  <2>2. req[q].session # s
    BY <1>1 DEF TabInv, JarInv, OnceInv
  <2> QED BY <1>5, <1>9, <2>1, <2>2
<1>13. TimeInv'
  <2> SUFFICES ASSUME NEW q \in Requests, req'[q].step # "idle"
               PROVE  /\ req'[q].sentAt <= now /\ now <= req'[q].sentAt + Latency
                      /\ req'[q].step # "sent" => req'[q].sentAt <= req'[q].began /\ req'[q].began <= now
    BY <1>2 DEF TimeInv
  <2>1. req[q].step # "idle" /\ (req'[q].step # "sent" => req[q].step # "sent") /\ req'[q].began = req[q].began
    BY <1>1, <1>3
  <2> QED BY <1>8, <2>1 DEF TabInv, TimeInv
<1>14. OwnInv'
  <2>1. \A t \in Sessions : jar'[t] # 0 => Owns(t, jar[t])'
    BY <1>2, <1>5, <1>9 DEF TabInv, OwnInv, Owns
  <2>2. \A q \in Requests : req'[q].step # "idle" =>
          req'[q].session \in Sessions /\ Owns(req[q].session, req[q].pair)'
    <3> SUFFICES ASSUME NEW q \in Requests, req'[q].step # "idle"
                 PROVE  req'[q].session \in Sessions /\ Owns(req[q].session, req[q].pair)'
      OBVIOUS
    <3>1. req'[q].session = req[q].session /\ req'[q].pair = req[q].pair /\ req[q].session \in Sessions
          /\ req[q].pair \in Nat /\ Owns(req[q].session, req[q].pair)
      BY <1>5, <1>8, <1>11
    <3> QED BY <1>9, <3>1 DEF Owns
  <2>3. \A q \in Requests : Undelivered(q)' => Owns(req[q].session, req[q].got)'
    <3> SUFFICES ASSUME NEW q \in Requests, Undelivered(q)'
                 PROVE  Owns(req[q].session, req[q].got)'
      OBVIOUS
    <3>1. CASE q = r
      BY <1>3, <1>5, <1>10, <3>1 DEF Owns
    <3>2. CASE q # r
      <4>1. req'[q] = req[q] /\ req[q].session \in Sessions /\ Owns(req[q].session, req[q].got)
        BY <1>3, <1>4, <1>12, <3>2
      <4> QED BY <1>5, <1>9, <4>1 DEF Owns
    <3> QED BY <3>1, <3>2
  <2>4. \A u \in used' : u.pair <= issued'
    <3>1. row.pair <= issued + 1
      BY <1>1, <1>5, <1>7, <1>11
    <3> QED BY <1>2, <1>5, <1>6, <3>1
  <2> QED BY <2>1, <2>2, <2>3, <2>4 DEF OwnInv
<1>15. OnceInv'
  <2>1. \A t \in Sessions : jar[t] <= issued
    <3> SUFFICES ASSUME NEW t \in Sessions PROVE jar[t] <= issued
      OBVIOUS
    <3>1. jar[t] = 0 \/ Owns(t, jar[t])
      BY DEF TabInv, OwnInv
    <3> QED BY <1>5, <1>9, <3>1
  <2> SUFFICES ASSUME NEW q \in Requests, Undelivered(q)'
               PROVE  /\ \A t \in Sessions : jar[t] # req'[q].got
                      /\ \A x \in Requests : req[x].step # "idle" => req[x].pair # req'[q].got
                      /\ \A x \in Requests : Undelivered(x)' /\ req'[x].got = req'[q].got => x = q
    BY <1>2, <1>8 DEF OnceInv
  <2>2. CASE q = r
    BY <1>3, <1>4, <1>5, <1>11, <1>12, <2>1, <2>2
  <2>3. CASE q # r
    <3>1. Undelivered(q) /\ req'[q] = req[q] /\ req[q].got # issued + 1
      BY <1>3, <1>4, <1>5, <1>12, <2>3
    <3>2. /\ \A t \in Sessions : jar[t] # req[q].got
          /\ \A x \in Requests : req[x].step # "idle" => req[x].pair # req[q].got
          /\ \A x \in Requests : Undelivered(x) /\ req[x].got = req[q].got => x = q
      BY <3>1 DEF TabInv, OnceInv
    <3> QED BY <1>3, <1>4, <3>1, <3>2
  <2> QED BY <2>2, <2>3
<1>16. JarInv'
  <2> SUFFICES ASSUME NEW t \in Sessions, sess'[t].state = "open"
               PROVE  /\ \A q \in Requests : Undelivered(q)' /\ req'[q].session = t => req'[q].got = sess'[t].pair
                      /\ \/ jar[t] = sess'[t].pair
                         \/ \E q \in Requests, u \in used' :
                              /\ Undelivered(q)' /\ req'[q].session = t
                              /\ u.pair = jar[t] /\ u.session = t /\ u.at >= req'[q].sentAt
    BY <1>2 DEF JarInv
  <2>1. CASE t = s
    <3>1. \A q \in Requests : Undelivered(q)' /\ req'[q].session = t => q = r
      BY <1>4, <1>8, <1>12, <2>1
    <3>2. jar[s] = req[r].pair
      BY <1>1, <1>12 DEF TabInv, JarInv
    <3>3. req[r].sentAt <= req[r].began
      BY <1>1 DEF TabInv, TimeInv
    <3>4. row \in used' /\ row.at >= req'[r].sentAt
      BY <1>2, <1>5, <1>7, <1>8, <3>3
    <3> QED BY <1>2, <1>3, <1>4, <1>7, <2>1, <3>1, <3>2, <3>4
  <2>2. CASE t # s
    <3>1. \A q \in Requests : (Undelivered(q)' /\ req'[q].session = t) <=> (Undelivered(q) /\ req[q].session = t)
      BY <1>3, <1>4, <1>8, <2>2
    <3>2. \A q \in Requests : Undelivered(q) => req'[q] = req[q]
      BY <1>3, <1>4
    <3>3. sess'[t] = sess[t]
      BY <1>2, <2>2
    <3>4. \A u \in used : u \in used'
      BY <1>2
    <3>5. /\ \A q \in Requests : Undelivered(q) /\ req[q].session = t => req[q].got = sess[t].pair
          /\ \/ jar[t] = sess[t].pair
             \/ \E q \in Requests, u \in used :
                  /\ Undelivered(q) /\ req[q].session = t
                  /\ u.pair = jar[t] /\ u.session = t /\ u.at >= req[q].sentAt
      BY <3>3 DEF TabInv, JarInv
    <3> QED BY <3>1, <3>2, <3>3, <3>4, <3>5
  <2> QED BY <2>1, <2>2
<1>17. SinceInv'
  <2> SUFFICES ASSUME NEW q \in Requests, req[q].step # "idle", sess'[req[q].session].state = "open"
               PROVE  \/ req[q].pair = sess'[req[q].session].pair
                      \/ \E u \in used' : u.pair = req[q].pair /\ u.session = req[q].session
                                          /\ u.at + Latency >= req[q].sentAt
    BY <1>8 DEF SinceInv
  <2>1. req[q].session \in Sessions
    BY <1>11
  <2>2. sess[req[q].session].state = "open"
    BY <1>1, <1>2, <2>1
  <2>3. CASE req[q].pair # sess[req[q].session].pair
    BY <1>2, <2>2, <2>3 DEF TabInv, SinceInv
  <2>4. CASE req[q].pair = sess[req[q].session].pair /\ req[q].session # s
    BY <1>2, <2>1, <2>4
  <2>5. CASE req[q].pair = sess[req[q].session].pair /\ req[q].session = s
    <3>1. req[q].sentAt <= now /\ now <= req[r].sentAt + Latency /\ req[r].sentAt <= req[r].began
      BY <1>1 DEF TabInv, TimeInv
    <3>2. row.at + Latency >= req[q].sentAt
      BY <1>5, <1>7, <3>1
    <3>3. row \in used' /\ row.pair = req[q].pair /\ row.session = req[q].session
      BY <1>1, <1>2, <1>7, <2>5
    <3> QED BY <3>2, <3>3
  <2> QED BY <2>3, <2>4, <2>5
<1>18. ASSUME NEW q \in Requests PROVE SafeFor(q)'
  <2>1. CASE q = r
    BY <1>3, <2>1 DEF SafeFor
  <2>2. CASE q # r /\ req[q].step # "idle"
    <3>1. req'[q] = req[q] /\ SafeFor(q) /\ req[q].session \in Sessions /\ req[q].pair # issued + 1
      BY <1>3, <1>5, <1>11, <2>2 DEF TabInv
    <3>2. Alive(q)' <=> Alive(q)
      BY <1>1, <1>2, <3>1 DEF Alive
    <3>3. sess'[req[q].session].pair \in {issued + 1, sess[req[q].session].pair}
      BY <1>2, <3>1
    <3> QED BY <3>1, <3>2, <3>3 DEF SafeFor
  <2>3. CASE q # r /\ req[q].step = "idle"
    BY <1>3, <2>3 DEF SafeFor
  <2> QED BY <2>1, <2>2, <2>3
<1> QED BY <1>13, <1>14, <1>15, <1>16, <1>17, <1>18 DEF TabInv

LEMMA TabStep == SharedJar /\ IInv /\ TabInv /\ [Next]_vars => TabInv'
<1> SUFFICES ASSUME SharedJar, IInv, TabInv, [Next]_vars PROVE TabInv'
  OBVIOUS
<1>1. ASSUME NEW r \in Requests, Serve(r) \/ Abort(r) \/ Deliver(r) \/ LoseReply(r)
      PROVE  TabInv'
  <2>1. ~Abort(r) /\ ~LoseReply(r)
    BY DEF SharedJar, Abort, LoseReply
  <2> QED BY <1>1, <2>1, TabServe, TabRotate, TabDeliver DEF Serve
<1> QED
  BY <1>1, TabLogIn, TabSend, TabEnds, TabTick DEF Next

\* No request revokes a session that is alive for it.
SparesLive ==
  \A r \in Requests, s \in Sessions :
    req[r].step = "revoke" /\ req'[r].step = "done" =>
      (sess[s].state = "open" /\ sess[s].end > req[r].began => sess'[s].state = "open")

LEMMA TabSpares == IInv /\ TabInv /\ [Next]_vars => SparesLive
<1> SUFFICES ASSUME IInv, TabInv, [Next]_vars, NEW r \in Requests, NEW s \in Sessions,
                    req[r].step = "revoke", req'[r].step = "done",
                    sess[s].state = "open", sess[s].end > req[r].began
             PROVE  sess'[s].state = "open"
  BY DEF SparesLive
<1>1. req \in [Requests -> Request] /\ sess \in [Sessions -> Row]
  BY DEF IInv, TypeOK
<1>2. CASE Revoke(r)
  <2>1. req[r].session \in Sessions /\ Owns(req[r].session, req[r].pair) /\ ~Alive(r)
    BY DEF TabInv, OwnInv, SafeFor
  <2>2. s # req[r].session
    BY <2>1 DEF Alive
  <2>3. s \notin FamilyOf(r)
    BY <2>1, <2>2 DEF FamilyOf, Owns
  <2> QED BY <1>1, <1>2, <2>3 DEF Revoke
<1>3. ASSUME NEW q \in Requests, Serve(q) \/ Abort(q) \/ Deliver(q) \/ LoseReply(q), ~Revoke(r)
      PROVE  sess' = sess
  <2>1. CASE q = r
    BY <1>1, <1>3, <2>1
    DEF Serve, Begin, SelectRow, Rotate, CheckUsed, Abort, Deliver, LoseReply
  <2>2. CASE q # r
    <3>1. req'[r] = req[r]
      BY <1>1, <1>3, <2>2
      DEF Serve, Begin, SelectRow, Rotate, CheckUsed, Revoke, Answer, Abort, Deliver, LoseReply
    <3> QED BY <3>1
  <2> QED BY <2>1, <2>2
<1>4. ASSUME NEW q \in Requests, NEW t \in Sessions, NEW n \in Pairs, Send(q, t, n)
      PROVE  sess' = sess
  BY <1>4 DEF Send
<1>5. ASSUME req' = req PROVE sess' = sess
  BY <1>5
<1> QED
  BY <1>2, <1>3, <1>4, <1>5
  DEF Next, LogIn, LogOut, LogOutAll, DeleteUser, DropRows, Ban, Unban, Prune, Tick, vars

\* The grace period does its work, for any number of tabs, requests and
\* sessions and any lifetimes: tabs that share one jar and whose answers
\* arrive never sign their own user out by refreshing at the same time, as
\* long as two round trips take less than the grace period.
THEOREM TabsStaySignedIn == SharedJar => (Spec => TabsNeverLogOut)
<1> SUFFICES ASSUME SharedJar PROVE Spec => TabsNeverLogOut
  OBVIOUS
<1>1. TabInv /\ IInv /\ [Next]_vars => TabInv'
  BY TabStep
<1>2. SparesLive =>
        \A r \in Requests, s \in Sessions :
          req[r].step = "revoke" /\ req'[r].step = "done" =>
            (sess[s].state = "open" /\ sess[s].end > req[r].began => sess'[s].state = "open")
  BY DEF SparesLive
<1> QED
  BY <1>1, <1>2, TabStart, TabSpares, Invariance, PTL DEF Spec, TabsNeverLogOut

----------------------------------------------------------------------------
(* The credentials file of the command line client.                        *)

\* What a command knows: it sends a token, and gets none, or one the server issued.
Known ==
  \A c \in Commands :
    /\ cmd[c].step \notin {"idle", "forget"} => cmd[c].used \in Tokens
    /\ cmd[c].got # NoToken => cmd[c].got[2] <= newest[cmd[c].got[1]]
    /\ cmd[c].step \notin {"received", "unlock"} => cmd[c].got = NoToken

\* The lock is younger than the request it is held for.
Held(c) ==
  /\ lock.exists /\ lock.age <= LockStale
  /\ cmd[c].step = "locked" => lock.age = 0
  /\ cmd[c].step = "sent" => lock.age <= cmd[c].age /\ cmd[c].age <= LockStale

\* A lock is held by the one command that took it, and nobody sees it stale.
Serialized ==
  /\ lock.exists => \E c \in Commands : Refreshing(c)
  /\ \A c \in Commands : cmd[c].step # "remove" /\ (Refreshing(c) => Held(c))
  /\ OneRefresher

\* A token that can be refreshed, unless its session was ended.
Good(t) == t # NoToken => t[1] \in over \/ t[2] = newest[t[1]]

\* The token kept is good, except while the one that replaces it is on its way.
Newest ==
  /\ (\A c \in Commands : cmd[c].step # "received") => Good(kept)
  /\ \A c \in Commands :
       /\ cmd[c].step = "sent" => Good(cmd[c].used)
       /\ cmd[c].step = "received" => Good(cmd[c].got)

\* A command that is to send the token it read, and one that brings a new one.
Spending(c) == cmd[c].step \in {"locking", "remove", "locked", "sent"}
Brings(c) == cmd[c].step = "received" /\ cmd[c].got # NoToken

\* A token is used after the server issued it.
Issued ==
  \A c \in Commands :
    cmd[c].step \notin {"idle", "forget"} => cmd[c].used[2] <= newest[cmd[c].used[1]]

\* The token a command brings is known to nobody else, so that it is the newest of
\* its session until it is put, lock or no lock.
Unspent ==
  \A c \in Commands : Brings(c) =>
    /\ cmd[c].got[2] = newest[cmd[c].got[1]]
    /\ kept # cmd[c].got
    /\ \A d \in Commands :
         /\ Spending(d) => cmd[d].used # cmd[c].got
         /\ Brings(d) /\ cmd[d].got = cmd[c].got => d = c

\* A token kept is good or will be replaced by a good one.
Replaced ==
  kept # NoToken =>
    \/ kept[1] \in over
    \/ kept[2] = newest[kept[1]]
    \/ \E c \in Commands : Brings(c) /\ cmd[c].got[1] = kept[1]

CommandInv ==
  /\ CredentialsTypeOK /\ Known /\ Issued /\ Unspent
  /\ failures = 0 => Replaced
  /\ failures = 0 /\ ~slow => Serialized /\ Newest

LEMMA InitCommandInv == CommandInit => CommandInv
<1> SUFFICES ASSUME CommandInit PROVE CommandInv
  OBVIOUS
<1>1. \A c \in Commands : cmd[c] = Idle
  BY DEF CommandInit
<1>2. Idle \in Command
  BY DEF Idle, Command, CommandSteps
<1>3. CredentialsTypeOK
  <2>1. slow \in BOOLEAN
    BY DEF CommandInit
  <2>2. /\ kept = NoToken /\ lock \in [exists : BOOLEAN, age : Nat]
        /\ newest \in [SignIns -> 0..MaxTokens] /\ over = {} /\ failures = 0
    BY CredentialsAssumption DEF CommandInit, NoLock
  <2>3. cmd \in [Commands -> Command]
    BY <1>2 DEF CommandInit
  <2> QED BY <2>1, <2>2, <2>3, CredentialsAssumption DEF CredentialsTypeOK
<1>4. Known
  BY <1>1 DEF Known, Idle
<1>5. Serialized
  BY <1>1 DEF CommandInit, NoLock, Serialized, Refreshing, OneRefresher, Idle
<1>6. Newest
  BY <1>1 DEF CommandInit, Newest, Good, Idle
<1>7. Issued /\ Unspent /\ Replaced
  BY <1>1 DEF CommandInit, Issued, Unspent, Brings, Replaced, Idle
<1> QED BY <1>3, <1>4, <1>5, <1>6, <1>7 DEF CommandInv

\* No token is the absence of one.
LEMMA TokenFacts ==
  /\ NoToken \notin Tokens
  /\ \A t \in Tokens : t[1] \in SignIns /\ t[2] \in 1..MaxTokens
  /\ \A s \in SignIns, n \in 1..MaxTokens :
       <<s, n>> \in Tokens /\ <<s, n>>[1] = s /\ <<s, n>>[2] = n
BY CredentialsAssumption DEF NoToken, Tokens

\* One command goes on: what is left to show of the others, which stay as they are.
LEMMA OneMoves ==
  ASSUME CredentialsTypeOK, Known, NEW c \in Commands, NEW r \in Command,
         cmd' = [cmd EXCEPT ![c] = r],
         r.step \notin {"idle", "forget"} => r.used \in Tokens,
         r.got # NoToken => r.got[2] <= newest'[r.got[1]],
         r.step \notin {"received", "unlock"} => r.got = NoToken,
         \A s \in SignIns : newest[s] <= newest'[s],
         newest' \in [SignIns -> 0..MaxTokens]
  PROVE  cmd' \in [Commands -> Command] /\ Known'
<1>1. cmd' \in [Commands -> Command]
  BY DEF CredentialsTypeOK
<1>2. cmd'[c] = r /\ \A d \in Commands \ {c} : cmd'[d] = cmd[d]
  BY DEF CredentialsTypeOK
<1>3. \A d \in Commands \ {c} :
        /\ cmd'[d].step \notin {"idle", "forget"} => cmd'[d].used \in Tokens
        /\ cmd'[d].got # NoToken => cmd'[d].got[2] <= newest'[cmd'[d].got[1]]
        /\ cmd'[d].step \notin {"received", "unlock"} => cmd'[d].got = NoToken
  <2> SUFFICES ASSUME NEW d \in Commands \ {c}, cmd[d].got # NoToken
               PROVE  cmd[d].got[2] <= newest'[cmd[d].got[1]]
    BY <1>2 DEF Known
  <2>1. cmd[d].got \in Tokens /\ cmd[d].got[2] <= newest[cmd[d].got[1]]
    BY DEF CredentialsTypeOK, Command, Known
  <2>2. cmd[d].got[1] \in SignIns /\ cmd[d].got[2] \in Nat
    BY <2>1, TokenFacts, CredentialsAssumption
  <2>3. newest[cmd[d].got[1]] \in Nat /\ newest'[cmd[d].got[1]] \in Nat
    <3>1. newest \in [SignIns -> 0..MaxTokens] /\ MaxTokens \in Nat
      BY CredentialsAssumption DEF CredentialsTypeOK
    <3> QED BY <2>2, <3>1
  <2> QED BY <2>1, <2>2, <2>3
<1> QED BY <1>1, <1>2, <1>3 DEF Known

\* Types, of every step, whatever died or failed.
LEMMA CommandTypeStep == CredentialsTypeOK /\ Known /\ [CommandNext]_commandVars => CredentialsTypeOK' /\ Known'
<1> SUFFICES ASSUME CredentialsTypeOK, Known, [CommandNext]_commandVars PROVE CredentialsTypeOK' /\ Known'
  OBVIOUS
<1>0. /\ MaxTokens \in Nat \ {0} /\ MaxFailures \in Nat
      /\ newest \in [SignIns -> 0..MaxTokens] /\ cmd \in [Commands -> Command]
      /\ kept \in Tokens \cup {NoToken} /\ failures \in 0..MaxFailures
      /\ lock \in [exists : BOOLEAN, age : Nat] /\ over \in SUBSET SignIns
      /\ kept # NoToken => kept[2] <= newest[kept[1]]
      /\ slow \in BOOLEAN
  BY CredentialsAssumption DEF CredentialsTypeOK
<1>a. \A s \in SignIns : newest[s] \in 0..MaxTokens /\ newest[s] <= newest[s]
  BY <1>0
\* A command moves, and the server stays as it is.
<1>b. ASSUME NEW c \in Commands, NEW r \in Command, cmd' = [cmd EXCEPT ![c] = r],
             r.step \notin {"idle", "forget"} => r.used \in Tokens,
             r.got # NoToken => r.got[2] <= newest[r.got[1]],
             r.step \notin {"received", "unlock"} => r.got = NoToken,
             newest' = newest
      PROVE  cmd' \in [Commands -> Command] /\ Known'
  BY <1>0, <1>a, <1>b, OneMoves
<1>c. ASSUME NEW c \in Commands, NEW step \in CommandSteps, Goto(c, step), newest' = newest,
             step \in {"idle", "forget"} \/ cmd[c].step \notin {"idle", "forget"},
             step \in {"received", "unlock"} \/ cmd[c].step \notin {"received", "unlock"}
      PROVE  cmd' \in [Commands -> Command] /\ Known'
  <2> DEFINE r == [cmd[c] EXCEPT !.step = step]
  <2>1. cmd[c] \in Command
    BY <1>0
  <2>2. r \in Command /\ r.step = step /\ r.used = cmd[c].used /\ r.got = cmd[c].got
    BY <2>1, <1>c DEF Command
  <2>3. cmd' = [cmd EXCEPT ![c] = r]
    BY <1>c DEF Goto
  <2>4. /\ r.step \notin {"idle", "forget"} => r.used \in Tokens
        /\ r.got # NoToken => r.got[2] <= newest[r.got[1]]
        /\ r.step \notin {"received", "unlock"} => r.got = NoToken
    BY <1>c, <2>2 DEF Known
  <2> HIDE DEF r
  <2> QED BY <1>b, <1>c, <2>2, <2>3, <2>4
<1>d. ASSUME NEW c \in Commands, cmd' = [cmd EXCEPT ![c] = Idle], newest' = newest
      PROVE  cmd' \in [Commands -> Command] /\ Known'
  <2>1. Idle \in Command /\ Idle.step = "idle" /\ Idle.got = NoToken
    BY DEF Idle, Command, CommandSteps
  <2> QED BY <1>b, <1>d, <2>1
<1>1. CASE UNCHANGED commandVars
  BY <1>1 DEF commandVars, CredentialsTypeOK, Known
<1>2. ASSUME NEW c \in Commands, NEW s \in SignIns, SignIn(c, s) PROVE CredentialsTypeOK' /\ Known'
  <2>1. newest' = [newest EXCEPT ![s] = 1] /\ newest[s] = 0 /\ kept' = <<s, 1>>
        /\ UNCHANGED <<lock, over, cmd, failures, slow>>
    BY <1>2 DEF SignIn
  <2>2. newest' \in [SignIns -> 0..MaxTokens] /\ \A t \in SignIns : newest[t] <= newest'[t]
    BY <1>0, <1>a, <2>1
  <2>3. kept' \in Tokens /\ kept'[2] <= newest'[kept'[1]]
    BY <1>0, <2>1, TokenFacts
  <2>4. cmd[c] \in Command /\ cmd' = [cmd EXCEPT ![c] = cmd[c]]
    BY <1>0, <2>1
  <2>5. cmd[c].got # NoToken => cmd[c].got[2] <= newest'[cmd[c].got[1]]
    <3> SUFFICES ASSUME cmd[c].got # NoToken PROVE cmd[c].got[2] <= newest'[cmd[c].got[1]]
      OBVIOUS
    <3>1. cmd[c].got \in Tokens /\ cmd[c].got[2] <= newest[cmd[c].got[1]]
      BY <2>4 DEF Command, Known
    <3>2. cmd[c].got[1] \in SignIns /\ cmd[c].got[2] \in 1..MaxTokens
      BY <3>1, TokenFacts
    <3> QED BY <1>0, <2>2, <3>1, <3>2
  <2>6. cmd' \in [Commands -> Command] /\ Known'
    BY <2>2, <2>4, <2>5, OneMoves DEF Known
  <2> QED BY <1>0, <2>1, <2>2, <2>3, <2>6 DEF CredentialsTypeOK
<1>3. ASSUME NEW c \in Commands, SignOut(c) PROVE CredentialsTypeOK' /\ Known'
  <2>1. kept[1] \in SignIns
    BY <1>0, <1>3, TokenFacts DEF SignOut
  <2>2. cmd' \in [Commands -> Command] /\ Known'
    BY <1>3, <1>c DEF SignOut, CommandSteps
  <2> QED BY <1>0, <1>3, <2>1, <2>2 DEF SignOut, CredentialsTypeOK
<1>4. ASSUME NEW c \in Commands, Forget(c) PROVE CredentialsTypeOK' /\ Known'
  BY <1>0, <1>4, <1>d DEF Forget, CredentialsTypeOK
<1>5. ASSUME NEW c \in Commands, NeedRefresh(c) PROVE CredentialsTypeOK' /\ Known'
  <2> DEFINE r == [cmd[c] EXCEPT !.step = "locking", !.used = kept]
  <2>1. cmd[c] \in Command /\ kept \in Tokens
    BY <1>0, <1>5 DEF NeedRefresh
  <2>2. r \in Command /\ r.used = kept /\ r.got = cmd[c].got
    BY <2>1 DEF Command, CommandSteps
  <2>3. cmd' = [cmd EXCEPT ![c] = r] /\ UNCHANGED <<kept, lock, newest, over, failures, slow>>
    BY <1>5 DEF NeedRefresh
  <2>4. r.got = NoToken
    BY <1>5, <2>2 DEF Known, NeedRefresh
  <2>5. cmd' \in [Commands -> Command] /\ Known'
    <3> HIDE DEF r
    <3> QED BY <1>b, <2>1, <2>2, <2>3, <2>4
  <2> QED BY <1>0, <2>3, <2>5 DEF CredentialsTypeOK
<1>6. ASSUME NEW c \in Commands, TryLock(c) PROVE CredentialsTypeOK' /\ Known'
  <2>1. cmd' \in [Commands -> Command] /\ Known'
    BY <1>6, <1>c, <1>d DEF TryLock, CommandSteps
  <2>2. lock' \in [exists : BOOLEAN, age : Nat]
    <3>1. [exists |-> TRUE, age |-> 0] \in [exists : BOOLEAN, age : Nat]
      OBVIOUS
    <3>2. lock' \in {[exists |-> TRUE, age |-> 0], lock}
      BY <1>6 DEF TryLock
    <3> QED BY <1>0, <3>1, <3>2, Zenon
  <2> QED BY <1>0, <1>6, <2>1, <2>2 DEF TryLock, CredentialsTypeOK
<1>7. ASSUME NEW c \in Commands, RemoveStale(c) PROVE CredentialsTypeOK' /\ Known'
  <2>1. cmd' \in [Commands -> Command] /\ Known'
    BY <1>7, <1>c DEF RemoveStale, CommandSteps
  <2> QED BY <1>0, <1>7, <2>1 DEF RemoveStale, CredentialsTypeOK, NoLock
<1>8. ASSUME NEW c \in Commands, Reread(c) PROVE CredentialsTypeOK' /\ Known'
  <2> DEFINE step == IF StillKept(c) THEN "sent" ELSE "unlock"
             r == [cmd[c] EXCEPT !.step = step, !.age = 0]
  <2>1. cmd[c] \in Command /\ step \in CommandSteps
    BY <1>0 DEF CommandSteps
  <2>2. r \in Command /\ r.used = cmd[c].used /\ r.got = cmd[c].got
    <3> HIDE DEF step
    <3> QED BY <2>1 DEF Command
  <2>3. cmd' = [cmd EXCEPT ![c] = r] /\ UNCHANGED <<kept, lock, newest, over, failures, slow>>
    BY <1>0, <1>8 DEF Reread
  <2>4. r.used \in Tokens /\ r.got = NoToken
    BY <1>8, <2>2 DEF Known, Reread
  <2>5. cmd' \in [Commands -> Command] /\ Known'
    <3> HIDE DEF r
    <3> QED BY <1>b, <2>2, <2>3, <2>4
  <2> QED BY <1>0, <2>3, <2>5 DEF CredentialsTypeOK
<1>9. ASSUME NEW c \in Commands, ServeRefresh(c) PROVE CredentialsTypeOK' /\ Known'
  <2> DEFINE s == cmd[c].used[1]
             n == cmd[c].used[2]
  <2>1. cmd[c] \in Command /\ s \in SignIns /\ n \in 1..MaxTokens /\ cmd[c].step = "sent"
    BY <1>0, <1>9, TokenFacts DEF Known, ServeRefresh
  <2>2. CASE /\ Goto(c, "received") \/ Goto(c, "unlock")
             /\ over' \in {over, over \cup {s}} /\ UNCHANGED <<newest, kept, lock, failures, slow>>
    <3>1. newest' = newest /\ over' \in SUBSET SignIns /\ UNCHANGED <<kept, lock, failures, slow>>
      BY <1>0, <2>1, <2>2
    <3>2. cmd' \in [Commands -> Command] /\ Known'
      BY <1>c, <2>1, <2>2, <3>1 DEF CommandSteps
    <3> QED BY <1>0, <3>1, <3>2 DEF CredentialsTypeOK
  <2>3. CASE /\ n = newest[s] /\ n < MaxTokens /\ newest' = [newest EXCEPT ![s] = n + 1]
             /\ cmd' = [cmd EXCEPT ![c].step = "received", ![c].got = <<s, n + 1>>]
             /\ UNCHANGED <<over, kept, lock, failures, slow>>
    <3> DEFINE r == [cmd[c] EXCEPT !.step = "received", !.got = <<s, n + 1>>]
    <3>1. <<s, n + 1>> \in Tokens
      BY <2>1, <2>3, <1>0, TokenFacts
    <3>2. r \in Command /\ r.used = cmd[c].used /\ r.got = <<s, n + 1>> /\ r.step = "received"
      <4> HIDE DEF s, n
      <4> QED BY <2>1, <3>1 DEF Command, CommandSteps
    <3>3. cmd' = [cmd EXCEPT ![c] = r]
      BY <1>0, <2>3
    <3>4. newest' \in [SignIns -> 0..MaxTokens] /\ newest'[s] = n + 1
          /\ \A t \in SignIns : newest[t] <= newest'[t]
      <4> HIDE DEF s, n
      <4> QED BY <1>0, <1>a, <2>1, <2>3
    <3>5. r.used \in Tokens /\ r.got[2] <= newest'[r.got[1]]
      BY <2>1, <3>2, <3>4, <1>0 DEF Known
    <3>6. cmd' \in [Commands -> Command] /\ Known'
      <4> HIDE DEF r, s, n
      <4> QED BY <3>2, <3>3, <3>4, <3>5, OneMoves
    <3>7. kept # NoToken => kept[2] <= newest'[kept[1]]
      <4> SUFFICES ASSUME kept # NoToken PROVE kept[2] <= newest'[kept[1]]
        OBVIOUS
      <4>1. kept[1] \in SignIns /\ kept[2] \in 1..MaxTokens /\ kept[2] <= newest[kept[1]]
        BY <1>0, TokenFacts
      <4> QED BY <1>0, <3>4, <4>1
    <3> QED BY <1>0, <2>3, <3>4, <3>6, <3>7 DEF CredentialsTypeOK
  <2> QED BY <1>9, <2>2, <2>3 DEF ServeRefresh
<1>10. ASSUME NEW c \in Commands, Put(c) PROVE CredentialsTypeOK' /\ Known'
  <2>1. cmd' \in [Commands -> Command] /\ Known'
    BY <1>10, <1>c DEF Put, CommandSteps
  <2>2. cmd[c] \in Command /\ kept' = cmd[c].got /\ UNCHANGED <<lock, newest, over, failures, slow>>
    BY <1>0, <1>10 DEF Put
  <2>3. kept' \in Tokens \cup {NoToken} /\ (kept' # NoToken => kept'[2] <= newest'[kept'[1]])
    BY <2>2 DEF Command, Known
  <2> QED BY <1>0, <2>1, <2>2, <2>3 DEF CredentialsTypeOK
<1>11. ASSUME NEW c \in Commands, Unlock(c) PROVE CredentialsTypeOK' /\ Known'
  BY <1>0, <1>11, <1>d DEF Unlock, CredentialsTypeOK, NoLock
<1>12. ASSUME NEW c \in Commands, Crash(c) PROVE CredentialsTypeOK' /\ Known'
  <2>1. cmd' \in [Commands -> Command] /\ Known'
    BY <1>12, <1>d DEF Crash
  <2> QED BY <1>0, <1>12, <2>1 DEF Crash, CredentialsTypeOK
<1>13. ASSUME NEW c \in Commands, RequestFails(c) PROVE CredentialsTypeOK' /\ Known'
  <2>1. cmd' \in [Commands -> Command] /\ Known'
    BY <1>13, <1>c DEF RequestFails, CommandSteps
  <2> QED BY <1>0, <1>13, <2>1 DEF RequestFails, CredentialsTypeOK
<1>14. ASSUME TimePasses PROVE CredentialsTypeOK' /\ Known'
  <2>1. LockWait \in Nat /\ RequestTime \in Nat /\ LockStale \in Nat
    BY CredentialsAssumption
  <2>2. \A a \in Nat, m \in Nat : Older(a, m) \in Nat
    BY DEF Older
  <2>3. lock' \in [exists : BOOLEAN, age : Nat]
    BY <1>0, <1>14, <2>1, <2>2 DEF TimePasses
  <2>4. \A c \in Commands :
          /\ cmd'[c] \in Command /\ cmd'[c].step = cmd[c].step
          /\ cmd'[c].used = cmd[c].used /\ cmd'[c].got = cmd[c].got
    BY <1>0, <1>14, <2>1, <2>2 DEF TimePasses, Command
  <2>5. cmd' \in [Commands -> Command]
    BY <1>14, <2>4 DEF TimePasses
  <2>6. Known'
    BY <1>14, <2>4 DEF Known, TimePasses
  <2> QED BY <1>0, <1>14, <2>3, <2>5, <2>6 DEF TimePasses, CredentialsTypeOK
<1> QED
  BY <1>1, <1>2, <1>3, <1>4, <1>5, <1>6, <1>7, <1>8, <1>9, <1>10, <1>11, <1>12, <1>13, <1>14
  DEF CommandNext, Step

----------------------------------------------------------------------------
\* The steps of the tokens under way, with the lock or without it.

\* A command goes on with the token it read or reads the one kept now, and brings
\* no other token than before.
Follows(c) ==
  /\ Brings(c)' => Brings(c) /\ cmd'[c].got = cmd[c].got
  /\ Spending(c)' => cmd'[c].used = kept \/ (Spending(c) /\ cmd'[c].used = cmd[c].used)
  /\ cmd'[c].step \notin {"idle", "forget"} =>
       \/ kept # NoToken /\ cmd'[c].used = kept
       \/ cmd[c].step \notin {"idle", "forget"} /\ cmd'[c].used = cmd[c].used

LEMMA QuietStep ==
  ASSUME CredentialsTypeOK, Issued, Unspent, newest' = newest,
         \A c \in Commands : Follows(c),
         kept' # kept => \A c \in Commands : Brings(c)' => kept' # cmd[c].got
  PROVE  Issued' /\ Unspent'
<1>1. Issued'
  BY DEF Issued, Follows, CredentialsTypeOK
<1>2. ASSUME NEW c \in Commands, Brings(c)'
      PROVE  /\ cmd'[c].got[2] = newest'[cmd'[c].got[1]]
             /\ kept' # cmd'[c].got
             /\ \A d \in Commands :
                  /\ Spending(d)' => cmd'[d].used # cmd'[c].got
                  /\ Brings(d)' /\ cmd'[d].got = cmd'[c].got => d = c
  <2>1. Brings(c) /\ cmd'[c].got = cmd[c].got
    BY <1>2 DEF Follows
  <2>2. cmd[c].got[2] = newest[cmd[c].got[1]] /\ kept # cmd[c].got
    BY <2>1 DEF Unspent
  <2>3. kept' # cmd[c].got
    BY <1>2, <2>2
  <2>4. ASSUME NEW d \in Commands
        PROVE  /\ Spending(d)' => cmd'[d].used # cmd[c].got
               /\ Brings(d)' /\ cmd'[d].got = cmd[c].got => d = c
    BY <2>1, <2>2, <2>4 DEF Follows, Unspent
  <2> QED BY <2>1, <2>2, <2>3, <2>4
<1> QED BY <1>1, <1>2 DEF Unspent

\* A token newer than all of its session was seen by nobody.
LEMMA Unseen ==
  ASSUME CredentialsTypeOK, Known, Issued, NEW s \in SignIns, NEW n \in Nat, newest[s] < n
  PROVE  /\ kept # <<s, n>>
         /\ \A c \in Commands :
              /\ cmd[c].step \notin {"idle", "forget"} => cmd[c].used # <<s, n>>
              /\ cmd[c].got # <<s, n>>
<1>1. newest[s] \in Nat /\ ~(n <= newest[s]) /\ <<s, n>>[1] = s /\ <<s, n>>[2] = n
  BY CredentialsAssumption DEF CredentialsTypeOK
<1>2. <<s, n>> # NoToken
  BY <1>1, CredentialsAssumption DEF NoToken
<1> QED BY <1>1, <1>2 DEF CredentialsTypeOK, Known, Issued

LEMMA UnspentStep ==
  ASSUME CredentialsTypeOK, Known, Issued, Unspent, [CommandNext]_commandVars
  PROVE  Issued' /\ Unspent'
<1>0. /\ newest \in [SignIns -> 0..MaxTokens] /\ cmd \in [Commands -> Command]
      /\ MaxTokens \in Nat \ {0}
  BY CredentialsAssumption DEF CredentialsTypeOK
<1>a. ASSUME NEW c \in Commands, cmd'[c] = cmd[c] PROVE Follows(c)
  BY <1>a DEF Follows, Brings, Spending
\* One command moves.
<1>b. ASSUME NEW c \in Commands, \A d \in Commands \ {c} : cmd'[d] = cmd[d], Follows(c),
             newest' = newest,
             kept' # kept => \A d \in Commands : Brings(d)' => kept' # cmd[d].got
      PROVE  Issued' /\ Unspent'
  <2>1. \A d \in Commands : Follows(d)
    BY <1>a, <1>b
  <2> QED BY <1>b, <2>1, QuietStep
<1>c. ASSUME NEW c \in Commands, NEW step \in CommandSteps, Goto(c, step),
             step \in {"idle", "forget"} \/ cmd[c].step \notin {"idle", "forget"},
             step \in {"locking", "remove", "locked", "sent"} => Spending(c),
             step = "received" => cmd[c].step = "received" \/ cmd[c].got = NoToken
      PROVE  Follows(c) /\ \A d \in Commands \ {c} : cmd'[d] = cmd[d]
  <2>1. /\ cmd'[c].step = step /\ cmd'[c].used = cmd[c].used /\ cmd'[c].got = cmd[c].got
        /\ \A d \in Commands \ {c} : cmd'[d] = cmd[d]
    BY <1>0, <1>c DEF Goto, Command
  <2> QED BY <1>c, <2>1 DEF Follows, Brings, Spending
<1>d. ASSUME NEW c \in Commands, cmd' = [cmd EXCEPT ![c] = Idle]
      PROVE  Follows(c) /\ \A d \in Commands \ {c} : cmd'[d] = cmd[d]
  <2>1. cmd'[c].step = "idle" /\ \A d \in Commands \ {c} : cmd'[d] = cmd[d]
    BY <1>0, <1>d DEF Idle
  <2> QED BY <2>1 DEF Follows, Brings, Spending
<1>1. CASE UNCHANGED commandVars
  BY <1>1 DEF commandVars, Issued, Unspent, Brings, Spending
<1>2. ASSUME NEW c \in Commands, NEW s \in SignIns, SignIn(c, s) PROVE Issued' /\ Unspent'
  <2>1. /\ newest[s] = 0 /\ newest' = [newest EXCEPT ![s] = 1] /\ kept' = <<s, 1>>
        /\ cmd' = cmd
    BY <1>2 DEF SignIn
  <2>2. \A t \in SignIns : newest'[t] = (IF t = s THEN 1 ELSE newest[t]) /\ newest[t] \in Nat
    BY <1>0, <2>1
  <2>3. \A d \in Commands : cmd[d].got # <<s, 1>>
    <3>1. newest[s] < 1
      BY <2>1
    <3> QED BY <3>1, Unseen
  <2>4. Issued'
    <3> SUFFICES ASSUME NEW d \in Commands, cmd[d].step \notin {"idle", "forget"}
                 PROVE  cmd[d].used[2] <= newest'[cmd[d].used[1]]
      BY <2>1 DEF Issued
    <3>1. cmd[d].used \in Tokens /\ cmd[d].used[2] <= newest[cmd[d].used[1]]
      BY DEF Known, Issued
    <3>2. cmd[d].used[1] \in SignIns /\ cmd[d].used[2] \in 1..MaxTokens
      BY <3>1, TokenFacts
    <3> QED BY <1>0, <2>1, <2>2, <3>1, <3>2
  <2>5. Unspent'
    <3> SUFFICES ASSUME NEW d \in Commands, Brings(d)
                 PROVE  cmd[d].got[2] = newest'[cmd[d].got[1]]
      BY <2>1, <2>3 DEF Unspent, Brings, Spending
    <3>1. cmd[d].got \in Tokens /\ cmd[d].got[2] = newest[cmd[d].got[1]]
      BY <1>0 DEF Brings, Unspent, Command
    <3>2. cmd[d].got[1] \in SignIns /\ cmd[d].got[2] \in 1..MaxTokens
      BY <3>1, TokenFacts
    <3> QED BY <1>0, <2>1, <2>2, <3>1, <3>2
  <2> QED BY <2>4, <2>5
<1>3. ASSUME NEW c \in Commands, SignOut(c) PROVE Issued' /\ Unspent'
  BY <1>3, <1>b, <1>c DEF SignOut, CommandSteps
<1>4. ASSUME NEW c \in Commands, Forget(c) PROVE Issued' /\ Unspent'
  <2>1. Follows(c) /\ \A d \in Commands \ {c} : cmd'[d] = cmd[d]
    BY <1>4, <1>d DEF Forget
  <2>2. kept' = NoToken /\ newest' = newest
    BY <1>4 DEF Forget
  <2>3. \A d \in Commands : Brings(d)' => cmd[d].got # NoToken
    BY <1>a, <2>1 DEF Follows, Brings
  <2> QED BY <1>b, <2>1, <2>2, <2>3
<1>5. ASSUME NEW c \in Commands, NeedRefresh(c) PROVE Issued' /\ Unspent'
  <2>1. /\ cmd'[c].step = "locking" /\ cmd'[c].used = kept /\ kept # NoToken
        /\ \A d \in Commands \ {c} : cmd'[d] = cmd[d]
        /\ UNCHANGED <<kept, newest>>
    BY <1>0, <1>5 DEF NeedRefresh, Command
  <2>2. Follows(c)
    BY <2>1 DEF Follows, Brings
  <2> QED BY <1>b, <2>1, <2>2
<1>6. ASSUME NEW c \in Commands, TryLock(c) PROVE Issued' /\ Unspent'
  <2>1. Follows(c) /\ \A d \in Commands \ {c} : cmd'[d] = cmd[d]
    BY <1>6, <1>c, <1>d DEF TryLock, CommandSteps, Spending
  <2> QED BY <1>6, <1>b, <2>1 DEF TryLock
<1>7. ASSUME NEW c \in Commands, RemoveStale(c) PROVE Issued' /\ Unspent'
  BY <1>7, <1>b, <1>c DEF RemoveStale, CommandSteps, Spending
<1>8. ASSUME NEW c \in Commands, Reread(c) PROVE Issued' /\ Unspent'
  <2>1. /\ cmd[c].step = "locked" /\ cmd'[c].step \in {"sent", "unlock"}
        /\ cmd'[c].used = cmd[c].used /\ cmd'[c].got = cmd[c].got
        /\ \A d \in Commands \ {c} : cmd'[d] = cmd[d]
        /\ UNCHANGED <<kept, newest>>
    BY <1>0, <1>8 DEF Reread, Command
  <2>2. Follows(c)
    BY <2>1 DEF Follows, Brings, Spending
  <2> QED BY <1>b, <2>1, <2>2
<1>9. ASSUME NEW c \in Commands, ServeRefresh(c) PROVE Issued' /\ Unspent'
  <2> DEFINE s == cmd[c].used[1]
             n == cmd[c].used[2]
  <2>1. /\ cmd[c] \in Command /\ s \in SignIns /\ n \in 1..MaxTokens /\ cmd[c].step = "sent"
        /\ cmd[c].got = NoToken /\ kept' = kept
    BY <1>0, <1>9, TokenFacts DEF Known, ServeRefresh
  <2>2. CASE (Goto(c, "received") \/ Goto(c, "unlock")) /\ newest' = newest
    <3>1. Follows(c) /\ \A d \in Commands \ {c} : cmd'[d] = cmd[d]
      BY <1>c, <2>1, <2>2 DEF CommandSteps
    <3> QED BY <1>b, <2>1, <2>2, <3>1
  <2>3. CASE /\ n = newest[s] /\ newest' = [newest EXCEPT ![s] = n + 1]
             /\ cmd' = [cmd EXCEPT ![c].step = "received", ![c].got = <<s, n + 1>>]
    <3>1. /\ cmd'[c].step = "received" /\ cmd'[c].got = <<s, n + 1>>
          /\ cmd'[c].used = cmd[c].used
          /\ \A d \in Commands \ {c} : cmd'[d] = cmd[d]
      BY <1>0, <2>1, <2>3 DEF Command
    <3>2. \A t \in SignIns : newest'[t] = (IF t = s THEN n + 1 ELSE newest[t]) /\ newest[t] \in Nat
      BY <1>0, <2>1, <2>3
    <3>3. /\ kept # <<s, n + 1>>
          /\ \A d \in Commands :
               /\ cmd[d].step \notin {"idle", "forget"} => cmd[d].used # <<s, n + 1>>
               /\ cmd[d].got # <<s, n + 1>>
      <4>1. newest[s] < n + 1 /\ n + 1 \in Nat
        BY <2>1, <2>3
      <4> QED BY <2>1, <4>1, Unseen
    <3>4. Issued'
      <4> SUFFICES ASSUME NEW d \in Commands, cmd[d].step \notin {"idle", "forget"}
                   PROVE  cmd[d].used[2] <= newest'[cmd[d].used[1]]
        BY <2>1, <3>1 DEF Issued
      <4>1. cmd[d].used \in Tokens /\ cmd[d].used[2] <= newest[cmd[d].used[1]]
        BY DEF Known, Issued
      <4>2. cmd[d].used[1] \in SignIns /\ cmd[d].used[2] \in 1..MaxTokens
        BY <4>1, TokenFacts
      <4> QED BY <1>0, <2>1, <2>3, <3>2, <4>1, <4>2
    <3>5. ASSUME NEW d \in Commands \ {c}, Brings(d)
          PROVE  /\ cmd[d].got[2] = newest'[cmd[d].got[1]] /\ cmd[d].got # <<s, n + 1>>
                 /\ cmd[d].got # cmd[c].used
      <4>1. /\ cmd[d].got \in Tokens /\ cmd[d].got[2] = newest[cmd[d].got[1]]
            /\ cmd[d].got # cmd[c].used
        BY <1>0, <2>1, <3>5 DEF Brings, Unspent, Command, Spending
      <4>2. cmd[d].got[1] \in SignIns /\ cmd[d].got[2] \in 1..MaxTokens
        BY <4>1, TokenFacts
      <4>3. cmd[d].got = <<cmd[d].got[1], cmd[d].got[2]>> /\ cmd[c].used = <<s, n>>
        BY <1>0, <1>9, <4>1 DEF Tokens, Known, ServeRefresh
      <4>4. cmd[d].got[1] # s
        BY <2>3, <4>1, <4>3
      <4> QED BY <3>2, <3>3, <4>1, <4>2, <4>4
    <3>6. \A d \in Commands : Spending(d)' => d # c /\ Spending(d) /\ cmd'[d].used = cmd[d].used
      BY <3>1 DEF Spending
    <3>7. \A d \in Commands \ {c} : (Brings(d)' <=> Brings(d)) /\ cmd'[d].got = cmd[d].got
      BY <3>1 DEF Brings
    <3>8. <<s, n + 1>>[1] = s /\ <<s, n + 1>>[2] = n + 1 /\ newest'[s] = n + 1
      BY <2>1, <3>2
    <3>9. ASSUME NEW d \in Commands, Brings(d)'
          PROVE  /\ cmd'[d].got[2] = newest'[cmd'[d].got[1]]
                 /\ kept' # cmd'[d].got
                 /\ \A e \in Commands :
                      /\ Spending(e)' => cmd'[e].used # cmd'[d].got
                      /\ Brings(e)' /\ cmd'[e].got = cmd'[d].got => e = d
      <4>1. CASE d = c
        BY <2>1, <3>1, <3>3, <3>5, <3>6, <3>7, <3>8, <4>1 DEF Spending
      <4>2. CASE d # c
        <5>1. Brings(d) /\ cmd'[d].got = cmd[d].got
          BY <3>7, <3>9, <4>2
        <5> QED BY <2>1, <3>1, <3>5, <3>6, <3>7, <4>2, <5>1 DEF Unspent
      <4> QED BY <4>1, <4>2
    <3> QED BY <3>4, <3>9 DEF Unspent
  <2> QED BY <1>9, <2>2, <2>3 DEF ServeRefresh
<1>10. ASSUME NEW c \in Commands, Put(c) PROVE Issued' /\ Unspent'
  <2>1. cmd[c].step = "received" /\ kept' = cmd[c].got /\ newest' = newest
    BY <1>10 DEF Put
  <2>2. Follows(c) /\ \A d \in Commands \ {c} : cmd'[d] = cmd[d]
    BY <1>10, <1>c, <2>1 DEF Put, CommandSteps
  <2>3. ~Brings(c)'
    BY <1>0, <1>10 DEF Put, Goto, Brings
  <2>4. \A d \in Commands : Brings(d)' => d # c /\ Brings(d)
    BY <2>2, <2>3 DEF Brings
  <2>5. \A d \in Commands : Brings(d)' => kept' # cmd[d].got
    BY <2>1, <2>4 DEF Unspent, Brings
  <2> QED BY <1>b, <2>1, <2>2, <2>5
<1>11. ASSUME NEW c \in Commands, Unlock(c) PROVE Issued' /\ Unspent'
  BY <1>11, <1>b, <1>d DEF Unlock
<1>12. ASSUME NEW c \in Commands, Crash(c) PROVE Issued' /\ Unspent'
  BY <1>12, <1>b, <1>d DEF Crash
<1>13. ASSUME NEW c \in Commands, RequestFails(c) PROVE Issued' /\ Unspent'
  BY <1>13, <1>b, <1>c DEF RequestFails, CommandSteps
<1>14. ASSUME TimePasses PROVE Issued' /\ Unspent'
  <2>1. \A c \in Commands :
          cmd'[c].step = cmd[c].step /\ cmd'[c].used = cmd[c].used /\ cmd'[c].got = cmd[c].got
    BY <1>0, <1>14 DEF TimePasses, Command
  <2>2. \A c \in Commands : Follows(c)
    BY <2>1 DEF Follows, Brings, Spending
  <2> QED BY <1>14, <2>2, QuietStep DEF TimePasses
<1> QED
  BY <1>1, <1>2, <1>3, <1>4, <1>5, <1>6, <1>7, <1>8, <1>9, <1>10, <1>11, <1>12, <1>13, <1>14
  DEF CommandNext, Step

\* While no answer is lost, what replaces a token that was exchanged is on its way.
LEMMA ReplacedStep ==
  ASSUME CredentialsTypeOK, Known, Unspent, Replaced,
         failures = 0, failures' = 0, [CommandNext]_commandVars
  PROVE  Replaced'
<1>0. /\ newest \in [SignIns -> 0..MaxTokens] /\ cmd \in [Commands -> Command]
      /\ kept \in Tokens \cup {NoToken} /\ over \in SUBSET SignIns
  BY DEF CredentialsTypeOK
\* Nobody drops a token that is on its way.
<1>a. ASSUME over \subseteq over', newest' = newest, kept' \in {kept, NoToken},
             \A d \in Commands : Brings(d) => Brings(d)' /\ cmd'[d].got = cmd[d].got
      PROVE  Replaced'
  BY <1>a DEF Replaced
\* A command that brings nothing moves.
<1>b. ASSUME NEW c \in Commands, NEW r, cmd[c].step # "received", cmd' = [cmd EXCEPT ![c] = r],
             over \subseteq over', newest' = newest, kept' \in {kept, NoToken}
      PROVE  Replaced'
  <2>1. \A d \in Commands : Brings(d) => Brings(d)' /\ cmd'[d].got = cmd[d].got
    BY <1>0, <1>b DEF Brings
  <2> QED BY <1>a, <1>b, <2>1
<1>c. ASSUME NEW c \in Commands, NEW step, cmd[c].step # "received", Goto(c, step),
             over \subseteq over', newest' = newest, kept' \in {kept, NoToken}
      PROVE  Replaced'
  BY <1>b, <1>c DEF Goto
<1>1. CASE UNCHANGED commandVars
  BY <1>1 DEF commandVars, Replaced, Brings
<1>2. ASSUME NEW c \in Commands, NEW s \in SignIns, SignIn(c, s) PROVE Replaced'
  <2>1. kept' = <<s, 1>> /\ newest' = [newest EXCEPT ![s] = 1]
    BY <1>2 DEF SignIn
  <2>2. kept'[2] = newest'[kept'[1]]
    BY <1>0, <2>1
  <2> QED BY <2>2 DEF Replaced
<1>3. ASSUME NEW c \in Commands, SignOut(c) PROVE Replaced'
  BY <1>3, <1>c DEF SignOut
<1>4. ASSUME NEW c \in Commands, Forget(c) PROVE Replaced'
  BY <1>4, <1>b DEF Forget
<1>5. ASSUME NEW c \in Commands, NeedRefresh(c) PROVE Replaced'
  BY <1>5, <1>b DEF NeedRefresh
<1>6. ASSUME NEW c \in Commands, TryLock(c) PROVE Replaced'
  BY <1>6, <1>b, <1>c DEF TryLock
<1>7. ASSUME NEW c \in Commands, RemoveStale(c) PROVE Replaced'
  BY <1>7, <1>c DEF RemoveStale
<1>8. ASSUME NEW c \in Commands, Reread(c) PROVE Replaced'
  <2>1. /\ cmd[c].step = "locked" /\ \A d \in Commands \ {c} : cmd'[d] = cmd[d]
        /\ UNCHANGED <<kept, newest, over>>
    BY <1>0, <1>8 DEF Reread
  <2> QED BY <1>a, <2>1 DEF Brings
<1>9. ASSUME NEW c \in Commands, ServeRefresh(c) PROVE Replaced'
  <2> DEFINE s == cmd[c].used[1]
             n == cmd[c].used[2]
  <2>1. /\ cmd[c] \in Command /\ s \in SignIns /\ n \in 1..MaxTokens /\ cmd[c].step = "sent"
        /\ kept' = kept /\ over \subseteq over'
    BY <1>0, <1>9, TokenFacts DEF Known, ServeRefresh
  <2>2. CASE (Goto(c, "received") \/ Goto(c, "unlock")) /\ newest' = newest
    BY <1>c, <2>1, <2>2
  <2>3. CASE /\ newest' = [newest EXCEPT ![s] = n + 1]
             /\ cmd' = [cmd EXCEPT ![c].step = "received", ![c].got = <<s, n + 1>>]
    <3>1. /\ cmd'[c].step = "received" /\ cmd'[c].got = <<s, n + 1>>
          /\ \A d \in Commands \ {c} : cmd'[d] = cmd[d]
      BY <1>0, <2>1, <2>3 DEF Command
    <3>2. Brings(c)' /\ cmd'[c].got[1] = s
      <4>1. <<s, n + 1>> # NoToken
        BY <2>1, CredentialsAssumption DEF NoToken
      <4> QED BY <3>1, <4>1 DEF Brings
    <3>3. ASSUME kept # NoToken, kept[1] # s, kept[1] \notin over
          PROVE  \/ kept[2] = newest'[kept[1]]
                 \/ \E d \in Commands : Brings(d)' /\ cmd'[d].got[1] = kept[1]
      <4>1. kept[1] \in SignIns
        BY <1>0, <3>3, TokenFacts
      <4>2. newest'[kept[1]] = newest[kept[1]]
        BY <1>0, <2>3, <3>3, <4>1
      <4>3. \A d \in Commands : Brings(d) => Brings(d)' /\ cmd'[d].got = cmd[d].got
        BY <2>1, <3>1 DEF Brings
      <4> QED BY <3>3, <4>2, <4>3 DEF Replaced
    <3> QED BY <2>1, <3>2, <3>3 DEF Replaced
  <2> QED BY <1>9, <2>2, <2>3 DEF ServeRefresh
<1>10. ASSUME NEW c \in Commands, Put(c) PROVE Replaced'
  BY <1>10 DEF Put, Replaced, Unspent, Brings
<1>11. ASSUME NEW c \in Commands, Unlock(c) PROVE Replaced'
  BY <1>11, <1>b DEF Unlock
<1>12. ASSUME NEW c \in Commands, Crash(c) \/ RequestFails(c) PROVE FALSE
  BY <1>12 DEF Crash, RequestFails
<1>13. ASSUME TimePasses PROVE Replaced'
  <2>1. \A c \in Commands : cmd'[c].step = cmd[c].step /\ cmd'[c].got = cmd[c].got
    BY <1>0, <1>13 DEF TimePasses, Command
  <2> QED BY <1>13, <1>a, <2>1 DEF Brings, TimePasses
<1> QED
  BY <1>1, <1>2, <1>3, <1>4, <1>5, <1>6, <1>7, <1>8, <1>9, <1>10, <1>11, <1>12, <1>13
  DEF CommandNext, Step

----------------------------------------------------------------------------
\* The step lemmas below are about behaviours without failures and without slow requests;
\* each says what the lock and the tokens are after one kind of step.

\* Commands whose steps matter neither to the lock nor to a token under way.
Aside(c) == cmd[c].step \in {"idle", "forget", "locking"}

\* What was good stays good.
GoodStays ==
  \A t \in Tokens : t[1] \in over \/ t[2] = newest[t[1]] => t[1] \in over' \/ t[2] = newest'[t[1]]

\* A command that is and stays aside.
LEMMA AsideMoves ==
  ASSUME CredentialsTypeOK, Serialized, Newest, NEW c \in Commands, Aside(c),
         \A d \in Commands \ {c} : cmd'[d] = cmd[d], Aside(c)',
         UNCHANGED lock, GoodStays, kept' = kept \/ Good(kept)'
  PROVE  Serialized' /\ Newest'
<1> USE DEF Aside
<1>1. \A d \in Commands : ~Aside(d) => d # c
  OBVIOUS
<1>2. \A d \in Commands : Refreshing(d)' <=> Refreshing(d)
  BY DEF Refreshing
<1>3. \A d \in Commands : (Refreshing(d) => d # c) /\ (Held(d) => d = c \/ Held(d)')
  BY DEF Refreshing, Held
<1>4. Serialized'
  BY <1>2, <1>3 DEF Serialized, OneRefresher
<1>5. \A d \in Commands : cmd[d].used \in Tokens \cup {NoToken} /\ cmd[d].got \in Tokens \cup {NoToken}
  BY DEF CredentialsTypeOK, Command
<1>6. kept \in Tokens \cup {NoToken}
  BY DEF CredentialsTypeOK
<1>7. ASSUME \A d \in Commands : cmd'[d].step # "received" PROVE Good(kept)'
  <2>1. Good(kept)
    BY <1>7 DEF Newest
  <2> QED BY <1>6, <2>1 DEF Good, GoodStays
<1>8. ASSUME NEW d \in Commands
      PROVE  /\ cmd'[d].step = "sent" => Good(cmd[d].used)'
             /\ cmd'[d].step = "received" => Good(cmd[d].got)'
  <2>1. CASE d = c
    BY <2>1
  <2>2. CASE d # c
    <3>1. /\ cmd[d].step = "sent" => Good(cmd[d].used)
          /\ cmd[d].step = "received" => Good(cmd[d].got)
      BY DEF Newest
    <3> QED BY <1>5, <2>2, <3>1 DEF Good, GoodStays
  <2> QED BY <2>1, <2>2
<1> QED BY <1>4, <1>7, <1>8 DEF Newest

\* The command that holds the lock goes on holding it.
LEMMA HolderMoves ==
  ASSUME Serialized, NEW c \in Commands, Refreshing(c),
         \A d \in Commands \ {c} : cmd'[d] = cmd[d],
         Refreshing(c)', Held(c)',
         cmd'[c].step # "received" => Good(kept)',
         cmd'[c].step = "sent" => Good(cmd[c].used)',
         cmd'[c].step = "received" => Good(cmd[c].got)'
  PROVE  Serialized' /\ Newest'
<1>1. \A d \in Commands \ {c} : ~Refreshing(d) /\ ~Refreshing(d)' /\ cmd'[d].step # "remove"
  BY DEF Serialized, OneRefresher, Refreshing
<1>2. Serialized'
  BY <1>1, Zenon DEF Serialized, OneRefresher, Held, Refreshing
<1>3. \A d \in Commands \ {c} : cmd'[d].step \notin {"sent", "received"}
  BY <1>1 DEF Refreshing
<1> QED BY <1>2, <1>3 DEF Newest

\* Who sees a lock sees a fresh one.
LEMMA NeverStale == CredentialsTypeOK /\ Serialized => ~Stale
<1> SUFFICES ASSUME CredentialsTypeOK, Serialized, lock.exists PROVE ~(lock.age > LockStale)
  BY DEF Stale
<1>1. lock.age \in Nat /\ lock.age <= LockStale
  BY DEF CredentialsTypeOK, Serialized, Held
<1> QED BY <1>1, CredentialsAssumption

LEMMA SafeStep ==
  ASSUME CredentialsTypeOK, Known, Serialized, Newest,
         failures = 0, failures' = 0, ~slow', [CommandNext]_commandVars
  PROVE  Serialized' /\ Newest'
<1>0. /\ MaxTokens \in Nat \ {0}
      /\ newest \in [SignIns -> 0..MaxTokens] /\ cmd \in [Commands -> Command]
      /\ kept \in Tokens \cup {NoToken}
      /\ lock \in [exists : BOOLEAN, age : Nat] /\ over \in SUBSET SignIns
  BY CredentialsAssumption DEF CredentialsTypeOK
<1>a. ASSUME NEW c \in Commands, NEW step \in CommandSteps, Goto(c, step)
      PROVE  /\ cmd'[c].step = step /\ cmd'[c].used = cmd[c].used /\ cmd'[c].got = cmd[c].got
             /\ cmd'[c].age = cmd[c].age /\ \A d \in Commands \ {c} : cmd'[d] = cmd[d]
  BY <1>0, <1>a DEF Goto, Command
<1>b. ASSUME NEW c \in Commands, cmd' = [cmd EXCEPT ![c] = Idle]
      PROVE  cmd'[c] = Idle /\ cmd'[c].step = "idle" /\ \A d \in Commands \ {c} : cmd'[d] = cmd[d]
  BY <1>0, <1>b DEF Idle
<1>c. UNCHANGED <<over, newest>> => GoodStays
  BY DEF GoodStays
<1>1. CASE UNCHANGED commandVars
  BY <1>1 DEF commandVars, Serialized, OneRefresher, Refreshing, Held, Newest, Good
<1>2. ASSUME NEW c \in Commands, NEW s \in SignIns, SignIn(c, s) PROVE Serialized' /\ Newest'
  <2>1. newest' = [newest EXCEPT ![s] = 1] /\ newest[s] = 0 /\ kept' = <<s, 1>>
        /\ UNCHANGED <<lock, over, cmd>> /\ Aside(c) /\ Aside(c)'
    BY <1>2 DEF SignIn, Aside
  <2>2. GoodStays
    <3> SUFFICES ASSUME NEW t \in Tokens, t[2] = newest[t[1]] PROVE t[2] = newest'[t[1]]
      BY <2>1 DEF GoodStays
    <3>1. t[1] \in SignIns /\ t[2] \in 1..MaxTokens
      BY TokenFacts
    <3> QED BY <1>0, <2>1, <3>1
  <2>3. Good(kept)'
    BY <1>0, <2>1, TokenFacts DEF Good
  <2> QED BY <2>1, <2>2, <2>3, AsideMoves
<1>3. ASSUME NEW c \in Commands, SignOut(c) PROVE Serialized' /\ Newest'
  <2>1. over \subseteq over' /\ UNCHANGED <<kept, lock, newest>> /\ Aside(c)
    BY <1>3 DEF SignOut, Aside
  <2>2. Aside(c)' /\ \A d \in Commands \ {c} : cmd'[d] = cmd[d]
    BY <1>3, <1>a DEF SignOut, Aside, CommandSteps
  <2>3. GoodStays
    BY <2>1 DEF GoodStays
  <2> QED BY <2>1, <2>2, <2>3, AsideMoves
<1>4. ASSUME NEW c \in Commands, Forget(c) PROVE Serialized' /\ Newest'
  <2>1. Aside(c) /\ Aside(c)' /\ Good(kept)' /\ UNCHANGED <<lock, newest, over>>
        /\ \A d \in Commands \ {c} : cmd'[d] = cmd[d]
    BY <1>4, <1>b DEF Forget, Aside, Good
  <2> QED BY <1>c, <2>1, AsideMoves
<1>5. ASSUME NEW c \in Commands, NeedRefresh(c) PROVE Serialized' /\ Newest'
  <2>1. cmd'[c].step = "locking" /\ \A d \in Commands \ {c} : cmd'[d] = cmd[d]
    BY <1>0, <1>5 DEF NeedRefresh, Command
  <2>2. Aside(c) /\ Aside(c)' /\ UNCHANGED <<kept, lock, newest, over>>
    BY <1>5, <2>1 DEF NeedRefresh, Aside
  <2> QED BY <1>c, <2>1, <2>2, AsideMoves
<1>6. ASSUME NEW c \in Commands, TryLock(c) PROVE Serialized' /\ Newest'
  <2>1. CASE LockFree /\ lock' = [exists |-> TRUE, age |-> 0] /\ Goto(c, "locked")
    <3>1. cmd'[c].step = "locked" /\ \A d \in Commands \ {c} : cmd'[d] = cmd[d]
      BY <1>a, <2>1 DEF CommandSteps
    <3>2. \A d \in Commands : ~Refreshing(d) /\ cmd[d].step # "remove"
      BY <2>1 DEF LockFree, Serialized, Held
    <3>3. \A d \in Commands : (Refreshing(d)' <=> d = c) /\ cmd'[d].step # "remove"
      BY <3>1, <3>2 DEF Refreshing
    <3>4. Held(c)'
      BY <2>1, <3>1, CredentialsAssumption DEF Held
    <3>5. Serialized'
      BY <2>1, <3>3, <3>4 DEF Serialized, OneRefresher
    <3>6. \A d \in Commands : cmd[d].step # "received" /\ cmd'[d].step \notin {"sent", "received"}
      BY <3>1, <3>2 DEF Refreshing
    <3>7. UNCHANGED <<kept, newest, over>>
      BY <1>6 DEF TryLock
    <3> QED BY <3>5, <3>6, <3>7 DEF Newest, Good
  <2>2. CASE cmd' = [cmd EXCEPT ![c] = Idle] /\ UNCHANGED lock
    <3>1. Aside(c) /\ Aside(c)' /\ UNCHANGED <<kept, newest, over>>
          /\ \A d \in Commands \ {c} : cmd'[d] = cmd[d]
      BY <1>6, <1>b, <2>2 DEF TryLock, Aside
    <3> QED BY <1>c, <2>2, <3>1, AsideMoves
  <2> QED BY <1>6, <2>1, <2>2, NeverStale DEF TryLock
<1>7. ASSUME NEW c \in Commands, RemoveStale(c) PROVE Serialized' /\ Newest'
  BY <1>7 DEF RemoveStale, Serialized
<1>8. ASSUME NEW c \in Commands, Reread(c) PROVE Serialized' /\ Newest'
  <2>1. cmd[c].step = "locked" /\ Refreshing(c) /\ UNCHANGED <<kept, lock, newest, over>>
    BY <1>8 DEF Reread, Refreshing
  <2>2. /\ cmd'[c].step = (IF StillKept(c) THEN "sent" ELSE "unlock") /\ cmd'[c].age = 0
        /\ cmd'[c].used = cmd[c].used
        /\ \A d \in Commands \ {c} : cmd'[d] = cmd[d]
    BY <1>0, <1>8 DEF Reread, Command
  <2>3. Held(c)'
    BY <2>1, <2>2, CredentialsAssumption DEF Serialized, Held
  <2>4. \A d \in Commands : cmd[d].step # "received"
    BY <2>1 DEF Serialized, OneRefresher, Refreshing
  <2>5. Good(kept) /\ Good(kept)'
    BY <2>1, <2>4 DEF Newest, Good
  <2>6. cmd'[c].step = "sent" => Good(cmd[c].used)'
    BY <2>1, <2>2, <2>5 DEF StillKept, Good
  <2>7. Refreshing(c)' /\ cmd'[c].step # "received"
    BY <2>2 DEF Refreshing
  <2> QED BY <2>1, <2>2, <2>3, <2>5, <2>6, <2>7, HolderMoves
<1>9. ASSUME NEW c \in Commands, ServeRefresh(c) PROVE Serialized' /\ Newest'
  <2> DEFINE s == cmd[c].used[1]
             n == cmd[c].used[2]
  <2>1. /\ cmd[c] \in Command /\ s \in SignIns /\ n \in 1..MaxTokens /\ cmd[c].step = "sent"
        /\ Refreshing(c) /\ Held(c)
    BY <1>0, <1>9, TokenFacts DEF Known, ServeRefresh, Serialized, Refreshing
  <2>2. s \in over \/ n = newest[s]
    BY <1>0, <1>9, <2>1, TokenFacts DEF Newest, Good, Known, ServeRefresh
  <2>3. UNCHANGED <<kept, lock>>
    BY <1>9 DEF ServeRefresh
  <2>4. CASE s \in over /\ Goto(c, "received") /\ UNCHANGED <<newest, over>>
    <3>1. /\ cmd'[c].step = "received" /\ cmd'[c].got = cmd[c].got
          /\ \A d \in Commands \ {c} : cmd'[d] = cmd[d]
      BY <1>a, <2>4 DEF CommandSteps
    <3>2. cmd[c].got = NoToken
      BY <2>1 DEF Known
    <3>3. Refreshing(c)' /\ Held(c)' /\ Good(cmd[c].got)'
      BY <2>1, <2>3, <3>1, <3>2 DEF Held, Refreshing, Good
    <3> QED BY <2>1, <3>1, <3>3, HolderMoves
  <2>5. CASE /\ n = newest[s] /\ n < MaxTokens /\ newest' = [newest EXCEPT ![s] = n + 1]
             /\ cmd' = [cmd EXCEPT ![c].step = "received", ![c].got = <<s, n + 1>>]
             /\ UNCHANGED over
    <3>1. /\ cmd'[c].step = "received" /\ cmd'[c].got = <<s, n + 1>>
          /\ \A d \in Commands \ {c} : cmd'[d] = cmd[d]
      BY <1>0, <2>1, <2>5 DEF Command
    <3>2. newest'[s] = n + 1 /\ <<s, n + 1>>[1] = s /\ <<s, n + 1>>[2] = n + 1
      BY <1>0, <2>1, <2>5
    <3>3. Refreshing(c)' /\ Held(c)' /\ Good(cmd[c].got)'
      BY <2>1, <2>3, <3>1, <3>2 DEF Held, Refreshing, Good
    <3> QED BY <2>1, <3>1, <3>3, HolderMoves
  <2> QED BY <1>9, <1>0, <2>1, <2>2, <2>4, <2>5 DEF ServeRefresh
<1>10. ASSUME NEW c \in Commands, Put(c) PROVE Serialized' /\ Newest'
  <2>1. /\ cmd[c].step = "received" /\ Refreshing(c) /\ Held(c)
        /\ kept' = cmd[c].got /\ UNCHANGED <<lock, newest, over>>
    BY <1>10 DEF Put, Refreshing, Serialized
  <2>2. cmd'[c].step = "unlock" /\ \A d \in Commands \ {c} : cmd'[d] = cmd[d]
    BY <1>10, <1>a DEF Put, CommandSteps
  <2>3. Good(kept)'
    BY <2>1 DEF Newest, Good
  <2>4. Refreshing(c)' /\ Held(c)'
    BY <2>1, <2>2 DEF Held, Refreshing
  <2> QED BY <2>1, <2>2, <2>3, <2>4, HolderMoves
<1>11. ASSUME NEW c \in Commands, Unlock(c) PROVE Serialized' /\ Newest'
  <2>1. /\ Refreshing(c) /\ cmd[c].step = "unlock" /\ lock'.exists = FALSE
        /\ UNCHANGED <<kept, newest, over>>
    BY <1>11 DEF Unlock, Refreshing, NoLock
  <2>2. cmd'[c].step = "idle" /\ \A d \in Commands \ {c} : cmd'[d] = cmd[d]
    BY <1>11, <1>b DEF Unlock
  <2>3. \A d \in Commands \ {c} : ~Refreshing(d) /\ cmd[d].step # "remove"
    BY <2>1 DEF Serialized, OneRefresher
  <2>4. \A d \in Commands : ~Refreshing(d)' /\ cmd'[d].step \notin {"remove", "sent", "received"}
    BY <2>2, <2>3 DEF Refreshing
  <2>5. \A d \in Commands : cmd[d].step # "received"
    BY <2>1, <2>3 DEF Refreshing
  <2>6. Serialized'
    BY <2>1, <2>4 DEF Serialized, OneRefresher
  <2> QED BY <2>1, <2>4, <2>5, <2>6 DEF Newest, Good
<1>12. ASSUME NEW c \in Commands, Crash(c) \/ RequestFails(c) PROVE FALSE
  BY <1>12 DEF Crash, RequestFails
<1>13. ASSUME TimePasses PROVE Serialized' /\ Newest'
  <2>0. \A c \in Commands : cmd'[c].step = "sent" => ~(cmd'[c].age > LockStale)
    BY <1>13 DEF TimePasses
  <2>1. \A c \in Commands :
          /\ cmd'[c].step = cmd[c].step /\ cmd'[c].used = cmd[c].used /\ cmd'[c].got = cmd[c].got
          /\ cmd[c].step = "sent" =>
               /\ cmd'[c].age = Older(cmd[c].age, LockWait + RequestTime)
               /\ cmd[c].age < RequestTime /\ ~(cmd'[c].age > LockStale)
    BY <1>0, <1>13, <2>0 DEF TimePasses, Command
  <2>2. lock'.exists = lock.exists /\ (lock.exists => lock'.age = Older(lock.age, LockStale))
    BY <1>0, <1>13 DEF TimePasses
  <2>3. \A c \in Commands : Refreshing(c)' <=> Refreshing(c)
    BY <2>1 DEF Refreshing
  <2>4. ASSUME NEW c \in Commands, Refreshing(c) PROVE Held(c)'
    <3>1. cmd[c].step = "sent" /\ Held(c)
      BY <1>13, <2>4 DEF TimePasses, Refreshing, Serialized
    <3>2. lock.exists /\ lock.age <= cmd[c].age /\ cmd[c].age < RequestTime
      BY <2>1, <3>1 DEF Held
    <3>3. cmd[c].age \in Nat /\ lock.age \in Nat
      BY <1>0 DEF Command
    <3>4. cmd'[c].age = cmd[c].age + 1 /\ lock'.age = lock.age + 1
      BY <2>1, <2>2, <3>1, <3>2, <3>3, CredentialsAssumption DEF Older
    <3> QED BY <2>1, <2>2, <3>1, <3>2, <3>3, <3>4, CredentialsAssumption DEF Held
  <2>5. Serialized'
    BY <2>1, <2>2, <2>3, <2>4 DEF Serialized, OneRefresher
  <2>6. Newest'
    BY <1>13, <2>1 DEF Newest, Good, TimePasses
  <2> QED BY <2>5, <2>6
<1> QED
  BY <1>1, <1>2, <1>3, <1>4, <1>5, <1>6, <1>7, <1>8, <1>9, <1>10, <1>11, <1>12, <1>13
  DEF CommandNext, Step

\* The inductive invariant.  The tokens: one that a command brings is the newest of
\* its session, and the one kept is good or about to be replaced, as long as no answer
\* is lost (refresh, put).  The lock: while besides no request outlasts it, it has one
\* holder and is never stale (lock).
THEOREM CredentialsInvariance == CommandSpec => []CommandInv
<1>1. CommandInv /\ [CommandNext]_commandVars => CommandInv'
  <2> SUFFICES ASSUME CommandInv, [CommandNext]_commandVars PROVE CommandInv'
    OBVIOUS
  <2>1. CredentialsTypeOK' /\ Known'
    BY CommandTypeStep DEF CommandInv
  <2>2. Issued' /\ Unspent'
    BY UnspentStep DEF CommandInv
  <2>3. failures' = 0 => failures = 0
    <3>1. failures \in Nat
      BY CredentialsAssumption DEF CommandInv, CredentialsTypeOK
    <3>2. failures' \in {failures, failures + 1}
      <4>1. ASSUME NEW c \in Commands, Step(c) PROVE failures' = failures
        BY <4>1 DEF Step, Forget, TryLock, RemoveStale, Reread, ServeRefresh, Put, Unlock
      <4> QED
        BY <4>1
        DEF CommandNext, commandVars, SignIn, SignOut, NeedRefresh, Crash, RequestFails, TimePasses
    <3> QED BY <3>1, <3>2
  <2>4. ~slow' => ~slow
    <3>1. ASSUME NEW c \in Commands, Step(c) PROVE slow' = slow
      BY <3>1 DEF Step, Forget, TryLock, RemoveStale, Reread, ServeRefresh, Put, Unlock
    <3>2. CASE TimePasses
      BY <3>2 DEF TimePasses
    <3> QED
      BY <3>1, <3>2
      DEF CommandNext, commandVars, SignIn, SignOut, NeedRefresh, Crash, RequestFails
  <2>5. failures' = 0 => Replaced'
    BY <2>3, ReplacedStep DEF CommandInv
  <2>6. failures' = 0 /\ ~slow' => Serialized' /\ Newest'
    BY <2>3, <2>4, SafeStep DEF CommandInv
  <2> QED BY <2>1, <2>2, <2>5, <2>6 DEF CommandInv
<1> QED BY <1>1, InitCommandInv, PTL DEF CommandSpec

\* Whatever the times and however many commands run at once: as long as no process died
\* and no answer was lost, the token kept when no command runs can be refreshed, also
\* after requests that outlasted the lock and let a second refresher in; and until the
\* first such request no command sends a token that was exchanged before, which would
\* end the session (session, lock, store.put).
THEOREM NewestAlwaysKept == CommandSpec => []NewestIsKept
<1>1. CommandInv => NewestIsKept
  <2> SUFFICES ASSUME CommandInv PROVE NewestIsKept
    OBVIOUS
  <2>1. \A c \in Commands : cmd[c].step = "sent" => cmd[c].used # NoToken
    BY TokenFacts DEF CommandInv, Known
  <2>2. NoReplay
    BY <2>1 DEF CommandInv, Newest, Good, NoReplay
  <2>3. KeptIsNewest
    BY DEF CommandInv, Replaced, Brings, KeptIsNewest
  <2> QED BY <2>2, <2>3 DEF CommandInv, NewestIsKept
<1> QED BY <1>1, CredentialsInvariance, PTL
=============================================================================

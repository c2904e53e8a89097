-------------------------- MODULE AuthLoginProofs --------------------------
(***************************************************************************)
(* Theorems about the sign-in, for any number of accounts, identities,     *)
(* challenges and login requests, beside bans, deletions of accounts and   *)
(* connections that fail at any moment.                                    *)
(***************************************************************************)
EXTENDS AuthLogin, TLAPS

\* The step in which a login has locked its identity.
Settling(l) == login[l].step \in {"account", "commit"}

\* What a login knows at its step: the challenge it deletes is still there,
\* the identity it found has not been given to anybody since, and the account
\* it is about to enter is not banned.
LoginInv(l) ==
  /\ login[l].answer # "none" <=> login[l].step = "done"
  /\ login[l].step \notin {"idle", "done"} => login[l].challenge \in Challenges
  /\ login[l].step = "consume" \/ InTransaction(l) => login[l].as \in Identities
  /\ InTransaction(l) =>
       challenge[login[l].challenge].state \in {"live", "expired"}
  /\ Settling(l) =>
       /\ login[l].uid = None => identity[login[l].as] = None
       /\ login[l].link # None => login[l].uid \in {login[l].link, None}
  /\ login[l].step = "commit" => Account(l) \notin banned
  /\ login[l].answer \in {"tokens", "banned"} =>
       /\ login[l].challenge \in Challenges
       /\ challenge[login[l].challenge].state = "gone"
  /\ login[l].answer = "tokens" /\ login[l].link # None =>
       session[l].user \in {login[l].link, None}
  /\ session[l].state = "open" => session[l].user \in exists \ banned

\* The locks: two transactions never hold one challenge or one identity, and
\* a challenge has given at most one session.
Apart(l, m) ==
  /\ InTransaction(l) /\ InTransaction(m)
       /\ login[l].challenge = login[m].challenge => l = m
  /\ Settling(l) /\ Settling(m) /\ login[l].as = login[m].as => l = m
  /\ login[l].answer = "tokens" /\ login[m].answer = "tokens"
       /\ login[l].challenge = login[m].challenge => l = m

\* Whoever holds a user row to ban or delete it found it there and not
\* banned, and nobody is about to sign in to it.
AdminInv(u) ==
  admin[u] # "none" => u \in exists \ banned /\ ~SharedUser(u)

IInv ==
  /\ TypeOK
  /\ exists \subseteq known
  /\ \A l \in Logins : LoginInv(l)
  /\ \A l, m \in Logins : Apart(l, m)
  /\ \A u \in Users : AdminInv(u)
  /\ NoOrphanAccount

----------------------------------------------------------------------------
\* A login that ends keeps its challenge and its link and forgets the rest.
LEMMA EndShape ==
  ASSUME TypeOK, NEW l \in Logins, NEW a \in Answers, End(l, a)
  PROVE  /\ login' \in [Logins -> Login]
         /\ \A k \in Logins \ {l} : login'[k] = login[k]
         /\ login'[l].step = "done" /\ login'[l].answer = a
         /\ login'[l].as = None /\ login'[l].uid = None
         /\ login'[l].challenge = login[l].challenge
         /\ login'[l].link = login[l].link
BY DEF TypeOK, Login, Steps, End

\* One that goes on to another step keeps all else.
LEMMA GoShape ==
  ASSUME TypeOK, NEW l \in Logins, NEW s \in Steps,
         login' = [login EXCEPT ![l].step = s]
  PROVE  /\ login' \in [Logins -> Login]
         /\ \A k \in Logins \ {l} : login'[k] = login[k]
         /\ login'[l].step = s /\ login'[l].answer = login[l].answer
         /\ login'[l].as = login[l].as /\ login'[l].uid = login[l].uid
         /\ login'[l].challenge = login[l].challenge
         /\ login'[l].link = login[l].link
BY DEF TypeOK, Login

LEMMA AccountType ==
  ASSUME TypeOK, NEW l \in Logins
  PROVE  Account(l) \in Users \cup {None}
BY DEF TypeOK, Login, Account

LEMMA DropShape ==
  ASSUME TypeOK, NEW c \in Challenges, Drop(c)
  PROVE  /\ challenge' \in [Challenges -> Challenge]
         /\ \A d \in Challenges \ {c} : challenge'[d] = challenge[d]
         /\ challenge'[c].state = "gone"
BY DEF TypeOK, Challenge, Drop

LEMMA InitTypeOK == Init => TypeOK
BY LoginAssumption DEF Init, TypeOK, Challenge, Session, Login, Steps, Answers, Jobs

\* The ban and the deletion find their user as AdminInv says, so that a banned user
\* stays a stored one; the login that is in a transaction has a challenge.
LEMMA TypeStep == IInv /\ [Next]_vars => TypeOK'
<1> SUFFICES ASSUME IInv, [Next]_vars PROVE TypeOK'
  OBVIOUS
<1> USE LoginAssumption
<1>t. /\ TypeOK
      /\ challenge \in [Challenges -> Challenge] /\ identity \in [Identities -> Users \cup {None}]
      /\ exists \in SUBSET Users /\ banned \in SUBSET exists
      /\ session \in [Logins -> Session] /\ login \in [Logins -> Login]
      /\ admin \in [Users -> Jobs] /\ known \in SUBSET Users
      /\ \A l \in Logins : login[l] \in Login /\ session[l] \in Session
      /\ \A c \in Challenges : challenge[c] \in Challenge
  BY DEF IInv, TypeOK
<1>a. \A a \in {"none", "tokens", "invalid", "conflict", "banned", "error"} : a \in Answers
  BY DEF Answers
<1>l. ASSUME NEW l \in Logins
      PROVE  /\ login[l].step \notin {"idle", "done"} => login[l].challenge \in Challenges
             /\ login[l].step = "consume" \/ InTransaction(l) => login[l].as \in Identities
  BY <1>l DEF IInv, LoginInv
<1>1. ASSUME NEW c \in Challenges, Begin(c) PROVE TypeOK'
  <2>1. PICK u \in Users \cup {None}, i \in Identities \cup {None},
             state \in {"live", "gone"} :
          challenge' = [challenge EXCEPT
            ![c] = [@ EXCEPT !.state = state, !.link = u, !.subject = i]]
    BY <1>1 DEF Begin
  <2> DEFINE q == [challenge[c] EXCEPT !.state = state, !.link = u, !.subject = i]
  <2>2. q \in Challenge
    BY <1>t DEF Challenge
  <2>3. challenge' = [challenge EXCEPT ![c] = q]
    BY <2>1
  <2> HIDE DEF q
  <2> QED
    BY <1>t, <1>1, <2>2, <2>3 DEF Begin, TypeOK
<1>2. ASSUME NEW c \in Challenges, ExpireChallenge(c) PROVE TypeOK'
  <2>1. challenge' \in [Challenges -> Challenge]
    BY <1>t, <1>2 DEF ExpireChallenge, Challenge
  <2> QED
    BY <1>t, <1>2, <2>1 DEF ExpireChallenge, TypeOK
<1>3. ASSUME NEW c \in Challenges, NEW l \in Logins, Attempt(l, c) PROVE TypeOK'
  <2>1. CASE Allowed(c)
    <3>1. challenge' \in [Challenges -> Challenge]
      BY <1>t, <1>3, <2>1 DEF Attempt, Allowed, Challenge
    <3> DEFINE r == [login[l] EXCEPT !.challenge = c, !.link = challenge[c].link,
                       !.step = IF challenge[c].link = None
                                THEN "check" ELSE "principal"]
    <3>0. /\ challenge[c].link \in Users \cup {None}
          /\ "check" \in Steps /\ "principal" \in Steps
      BY <1>t DEF Challenge, Steps
    <3>2. r \in Login
      BY <1>t, <3>0 DEF Login
    <3>3. login' = [login EXCEPT ![l] = r]
      BY <1>3, <2>1 DEF Attempt
    <3> HIDE DEF r
    <3> QED
      BY <1>t, <1>3, <3>1, <3>2, <3>3 DEF Attempt, TypeOK
  <2>2. CASE ~Allowed(c)
    <3>1. login' \in [Logins -> Login]
      BY <1>t, <1>a, <1>3, <2>2, EndShape DEF Attempt
    <3> QED
      BY <1>t, <1>3, <2>2, <3>1 DEF Attempt, TypeOK
  <2> QED
    BY <2>1, <2>2
<1>4. ASSUME NEW l \in Logins, CheckPrincipal(l) PROVE TypeOK'
  <2>1. login' \in [Logins -> Login]
    BY <1>t, <1>a, <1>4, EndShape, GoShape DEF CheckPrincipal, Steps
  <2> QED
    BY <1>t, <1>4, <2>1 DEF CheckPrincipal, TypeOK
<1>5. ASSUME NEW l \in Logins, CheckCredential(l) PROVE TypeOK'
  <2>1. CASE End(l, "invalid")
    BY <1>t, <1>a, <1>5, <2>1, EndShape DEF CheckCredential, TypeOK
  <2>2. ASSUME NEW i \in Identities,
               login' = [login EXCEPT ![l].step = "consume", ![l].as = i]
        PROVE  TypeOK'
    <3> DEFINE r == [login[l] EXCEPT !.step = "consume", !.as = i]
    <3>1. r \in Login
      BY <1>t DEF Login, Steps
    <3>2. login' = [login EXCEPT ![l] = r]
      BY <1>t, <2>2 DEF Login
    <3> HIDE DEF r
    <3> QED
      BY <1>t, <1>5, <3>1, <3>2 DEF CheckCredential, TypeOK
  <2> QED
    BY <1>5, <2>1, <2>2 DEF CheckCredential
<1>6. ASSUME NEW l \in Logins, Consume(l) PROVE TypeOK'
  <2>1. login' \in [Logins -> Login]
    BY <1>t, <1>a, <1>6, EndShape, GoShape DEF Consume, Steps
  <2> QED
    BY <1>t, <1>6, <2>1 DEF Consume, TypeOK
<1>7. ASSUME NEW l \in Logins, Identify(l) PROVE TypeOK'
  <2>1. CASE Conflict(l)
    BY <1>t, <1>a, <1>7, <2>1, EndShape DEF Identify, TypeOK
  <2>2. CASE ~Conflict(l)
    <3>1. identity[login[l].as] \in Users \cup {None}
      BY <1>t, <1>l, <1>7 DEF Identify, InTransaction
    <3>2. login' \in [Logins -> Login]
      BY <1>t, <1>7, <2>2, <3>1 DEF Identify, Login, Steps
    <3> QED
      BY <1>t, <1>7, <3>2 DEF Identify, TypeOK
  <2> QED
    BY <2>1, <2>2
<1>8. ASSUME NEW l \in Logins, ReadAccount(l) PROVE TypeOK'
  <2>1. login[l].challenge \in Challenges
    BY <1>l, <1>8 DEF ReadAccount
  <2>2. challenge' \in [Challenges -> Challenge]
    BY <1>t, <1>8, <2>1, DropShape DEF ReadAccount
  <2>3. login' \in [Logins -> Login]
    BY <1>t, <1>a, <1>8, EndShape, GoShape DEF ReadAccount, Steps
  <2> QED
    BY <1>t, <1>8, <2>2, <2>3 DEF ReadAccount, TypeOK
<1>9. ASSUME NEW l \in Logins, CommitLogin(l) PROVE TypeOK'
  <2>1. login[l].challenge \in Challenges /\ login[l].as \in Identities
    BY <1>l, <1>9 DEF CommitLogin, InTransaction
  <2>2. PICK u \in Owners(l) :
          IF Account(l) # None /\ u \notin exists
          THEN /\ End(l, "error")
               /\ UNCHANGED <<challenge, identity, exists, session, known>>
          ELSE /\ exists' = exists \cup {u}
               /\ known' = known \cup {u}
               /\ identity' = IF login[l].uid = None
                              THEN [identity EXCEPT ![login[l].as] = u]
                              ELSE identity
               /\ session' = [session EXCEPT ![l] = [state |-> "open", user |-> u]]
               /\ Drop(login[l].challenge)
               /\ End(l, "tokens")
    BY <1>9 DEF CommitLogin
  <2>3. u \in Users
    BY <1>t, AccountType DEF Owners
  <2>4. UNCHANGED <<banned, admin>>
    BY <1>9 DEF CommitLogin
  <2>5. CASE Account(l) # None /\ u \notin exists
    BY <1>t, <1>a, <2>2, <2>4, <2>5, EndShape DEF TypeOK
  <2>6. CASE ~(Account(l) # None /\ u \notin exists)
    <3>1. challenge' \in [Challenges -> Challenge]
      BY <1>t, <2>1, <2>2, <2>6, DropShape
    <3>2. login' \in [Logins -> Login]
      BY <1>t, <1>a, <2>2, <2>6, EndShape
    <3>3. session' \in [Logins -> Session]
      BY <1>t, <2>2, <2>3, <2>6 DEF Session
    <3>4. identity' \in [Identities -> Users \cup {None}]
      BY <1>t, <2>2, <2>3, <2>6
    <3> QED
      BY <1>t, <2>2, <2>3, <2>4, <2>6, <3>1, <3>2, <3>3, <3>4 DEF TypeOK
  <2> QED
    BY <2>5, <2>6
<1>10. ASSUME NEW l \in Logins, AbortLogin(l) PROVE TypeOK'
  BY <1>t, <1>a, <1>10, EndShape DEF AbortLogin, TypeOK
<1>11. ASSUME NEW l \in Logins, LogOut(l) PROVE TypeOK'
  <2>1. session' \in [Logins -> Session]
    BY <1>t, <1>11 DEF LogOut, Session
  <2> QED
    BY <1>t, <1>11, <2>1 DEF LogOut, TypeOK
<1>12. ASSUME NEW u \in Users, BeginBan(u) \/ BeginDelete(u) \/ AbortAdmin(u)
       PROVE  TypeOK'
  BY <1>t, <1>12 DEF BeginBan, BeginDelete, AbortAdmin, TypeOK, Jobs
<1>13. ASSUME NEW u \in Users, CommitBan(u) PROVE TypeOK'
  <2>1. u \in exists
    BY <1>13 DEF CommitBan, IInv, AdminInv
  <2>2. session' \in [Logins -> Session]
    BY <1>t, <1>13 DEF CommitBan, Session
  <2> QED
    BY <1>t, <1>13, <2>1, <2>2 DEF CommitBan, TypeOK, Jobs
<1>14. ASSUME NEW u \in Users, Unban(u) PROVE TypeOK'
  BY <1>t, <1>14 DEF Unban, TypeOK
<1>15. ASSUME NEW u \in Users, CommitDelete(u) PROVE TypeOK'
  <2>1. u \notin banned
    BY <1>15 DEF CommitDelete, IInv, AdminInv
  <2>2. session' \in [Logins -> Session]
    BY <1>t, <1>15 DEF CommitDelete, Session
  <2>3. challenge' \in [Challenges -> Challenge]
    BY <1>t, <1>15 DEF CommitDelete, Challenge
  <2> QED
    BY <1>t, <1>15, <2>1, <2>2, <2>3 DEF CommitDelete, TypeOK, Jobs
<1>16. CASE UNCHANGED vars
  BY <1>t, <1>16 DEF TypeOK, vars
<1> QED
  BY <1>1, <1>2, <1>3, <1>4, <1>5, <1>6, <1>7, <1>8, <1>9, <1>10, <1>11, <1>12,
     <1>13, <1>14, <1>15, <1>16
  DEF Next, Step, ResolveDeadlock

----------------------------------------------------------------------------
\* What IInv says of the types, for the steps below.
LEMMA Facts ==
  ASSUME IInv
  PROVE  /\ TypeOK
         /\ challenge \in [Challenges -> Challenge]
         /\ identity \in [Identities -> Users \cup {None}]
         /\ exists \in SUBSET Users /\ banned \in SUBSET exists
         /\ session \in [Logins -> Session] /\ login \in [Logins -> Login]
         /\ admin \in [Users -> Jobs] /\ known \in SUBSET Users
         /\ None \notin Users /\ None \notin Identities /\ None \notin Challenges
         /\ None \notin banned
         /\ exists \subseteq known
         /\ \A l \in Logins : login[l].answer \in Answers /\ LoginInv(l)
         /\ \A a \in {"none", "tokens", "invalid", "conflict", "banned", "error"} :
              a \in Answers
         /\ \A s \in {"idle", "principal", "check", "consume", "identify", "account",
                      "commit", "done"} : s \in Steps
BY LoginAssumption DEF IInv, TypeOK, Login, Answers, Steps

\* A login keeps its invariant in a step of somebody else that deletes no challenge
\* it holds, gives its identity to nobody and bans nobody it is about to enter.
LEMMA LoginFrame ==
  ASSUME TypeOK, NEW k \in Logins, LoginInv(k), login'[k] = login[k],
         \/ session'[k] = session[k]
         \/ session'[k].state # "open" /\ session'[k].user \in {session[k].user, None},
         \A c \in Challenges :
           \/ challenge'[c].state = challenge[c].state
           \/ /\ challenge[c].state # "gone"
              /\ InTransaction(k) /\ login[k].challenge = c =>
                   challenge'[c].state \in {"live", "expired"},
         Settling(k) => identity'[login[k].as] \in {identity[login[k].as], None},
         session'[k].state = "open" => session[k].user \in exists' \ banned',
         login[k].step = "commit" => Account(k) \notin banned'
  PROVE  LoginInv(k)'
BY DEF LoginInv, InTransaction, Settling, Account

\* A login that fails, whatever it held.
LEMMA LoginFails ==
  ASSUME IInv, NEW l \in Logins, NEW a \in {"invalid", "conflict", "error"},
         End(l, a), UNCHANGED <<challenge, identity, exists, banned, session>>
  PROVE  \A k \in Logins : LoginInv(k)'
<1>f. TypeOK /\ a \in Answers /\ \A k \in Logins : LoginInv(k)
  BY Facts
<1>1. ASSUME NEW k \in Logins PROVE LoginInv(k)'
  <2>1. CASE k # l
    <3>1. login'[k] = login[k]
      BY <1>f, <2>1, EndShape
    <3> QED
      BY <1>f, <3>1, LoginFrame DEF LoginInv
  <2>2. CASE k = l
    BY <1>f, <2>2, EndShape DEF LoginInv, InTransaction, Settling
  <2> QED
    BY <2>1, <2>2
<1> QED
  BY <1>1

LEMMA InitLogins == Init => \A l \in Logins : LoginInv(l)
BY DEF Init, LoginInv, InTransaction, Settling

LEMMA LoginStep == IInv /\ [Next]_vars => \A k \in Logins : LoginInv(k)'
<1> SUFFICES ASSUME IInv, [Next]_vars, NEW k \in Logins PROVE LoginInv(k)'
  OBVIOUS
<1>f. /\ TypeOK /\ LoginInv(k)
      /\ challenge \in [Challenges -> Challenge]
      /\ identity \in [Identities -> Users \cup {None}]
      /\ exists \in SUBSET Users /\ banned \in SUBSET exists
      /\ session \in [Logins -> Session] /\ login \in [Logins -> Login]
      /\ None \notin Users /\ None \notin banned /\ exists \subseteq known
      /\ \A l \in Logins : LoginInv(l)
  BY Facts
<1>n. \A a \in {"none", "tokens", "invalid", "conflict", "banned", "error"} : a \in Answers
  BY Facts
<1>s. \A s \in {"idle", "principal", "check", "consume", "identify", "account",
               "commit", "done"} : s \in Steps
  BY Facts
<1>1. ASSUME NEW c \in Challenges, Begin(c) PROVE LoginInv(k)'
  <2>1. UNCHANGED <<identity, exists, banned, session, login>> /\ challenge[c].state = "unsent"
    BY <1>1 DEF Begin
  <2>2. \A d \in Challenges \ {c} : challenge'[d] = challenge[d]
    BY <1>f, <1>1 DEF Begin
  <2>3. InTransaction(k) => login[k].challenge # c
    BY <1>f, <2>1 DEF LoginInv
  <2> QED
    BY <1>f, <2>1, <2>2, <2>3, LoginFrame DEF LoginInv
<1>2. ASSUME NEW c \in Challenges, ExpireChallenge(c) PROVE LoginInv(k)'
  <2>1. UNCHANGED <<identity, exists, banned, session, login>> /\ challenge[c].state = "live"
    BY <1>2 DEF ExpireChallenge
  <2>2. /\ \A d \in Challenges \ {c} : challenge'[d] = challenge[d]
        /\ challenge'[c].state = "expired"
    BY <1>f, <1>2 DEF ExpireChallenge, Challenge
  <2> QED
    BY <1>f, <2>1, <2>2, LoginFrame DEF LoginInv
<1>3. ASSUME NEW c \in Challenges, NEW l \in Logins, Attempt(l, c) PROVE LoginInv(k)'
  <2>0. UNCHANGED <<identity, exists, banned, session>> /\ login[l].step = "idle"
    BY <1>3 DEF Attempt
  <2>1. CASE ~Allowed(c)
    <3>1. End(l, "invalid") /\ UNCHANGED challenge
      BY <1>3, <2>1 DEF Attempt
    <3> QED
      BY <2>0, <3>1, LoginFails
  <2>2. CASE Allowed(c)
    <3>1. \A d \in Challenges : challenge'[d].state = challenge[d].state
      BY <1>f, <1>3, <2>2 DEF Attempt, Challenge
    <3>2. CASE k # l
      <4>1. login'[k] = login[k]
        BY <1>f, <1>3, <2>2, <3>2 DEF Attempt
      <4> QED
        BY <1>f, <2>0, <3>1, <4>1, LoginFrame DEF LoginInv
    <3>3. CASE k = l
      <4> DEFINE s == IF challenge[c].link = None THEN "check" ELSE "principal"
      <4>0. login' = [login EXCEPT
              ![k] = [@ EXCEPT !.challenge = c, !.link = challenge[c].link, !.step = s]]
        BY <1>3, <2>2, <3>3 DEF Attempt
      <4>s. s \in {"check", "principal"}
        OBVIOUS
      <4> HIDE DEF s
      <4>1. /\ login'[k].step \in {"check", "principal"}
            /\ login'[k].challenge = c /\ login'[k].answer = login[k].answer
        BY <1>f, <4>0, <4>s DEF Login
      <4>2. login[k].answer = "none" /\ session'[k] = session[k]
        BY <1>f, <2>0, <3>3 DEF LoginInv
      <4> QED
        BY <1>f, <2>0, <4>1, <4>2 DEF LoginInv, InTransaction, Settling
    <3> QED
      BY <3>2, <3>3
  <2> QED
    BY <2>1, <2>2
<1>4. ASSUME NEW l \in Logins, CheckPrincipal(l) PROVE LoginInv(k)'
  <2>0. UNCHANGED <<challenge, identity, exists, banned, session>> /\ login[l].step = "principal"
    BY <1>4 DEF CheckPrincipal
  <2>1. CASE End(l, "invalid")
    BY <2>0, <2>1, LoginFails
  <2>2. CASE login' = [login EXCEPT ![l].step = "check"]
    <3>1. CASE k # l
      BY <1>f, <2>0, <2>2, <3>1, LoginFrame DEF LoginInv
    <3>2. CASE k = l
      BY <1>f, <1>s, <2>0, <2>2, <3>2, GoShape DEF LoginInv, InTransaction, Settling
    <3> QED
      BY <3>1, <3>2
  <2> QED
    BY <1>4, <2>1, <2>2 DEF CheckPrincipal
<1>5. ASSUME NEW l \in Logins, CheckCredential(l) PROVE LoginInv(k)'
  <2>0. UNCHANGED <<challenge, identity, exists, banned, session>> /\ login[l].step = "check"
    BY <1>5 DEF CheckCredential
  <2>1. CASE End(l, "invalid")
    BY <2>0, <2>1, LoginFails
  <2>2. ASSUME NEW i \in Identities,
               login' = [login EXCEPT ![l].step = "consume", ![l].as = i]
        PROVE  LoginInv(k)'
    <3>1. CASE k # l
      BY <1>f, <2>0, <2>2, <3>1, LoginFrame DEF LoginInv
    <3>2. CASE k = l
      <4>1. /\ login'[k].step = "consume" /\ login'[k].as = i
            /\ login'[k].answer = login[k].answer
            /\ login'[k].challenge = login[k].challenge
        BY <1>f, <2>2, <3>2 DEF Login
      <4> QED
        BY <1>f, <2>0, <3>2, <4>1 DEF LoginInv, InTransaction, Settling
    <3> QED
      BY <3>1, <3>2
  <2> QED
    BY <1>5, <2>1, <2>2 DEF CheckCredential
<1>6. ASSUME NEW l \in Logins, Consume(l) PROVE LoginInv(k)'
  <2>0. UNCHANGED <<challenge, identity, exists, banned, session>> /\ login[l].step = "consume"
    BY <1>6 DEF Consume
  <2>1. CASE End(l, "invalid")
    BY <2>0, <2>1, LoginFails
  <2>2. CASE /\ challenge[login[l].challenge].state = "live"
             /\ login' = [login EXCEPT ![l].step = "identify"]
    <3>1. CASE k # l
      BY <1>f, <2>0, <2>2, <3>1, LoginFrame DEF LoginInv
    <3>2. CASE k = l
      BY <1>f, <1>s, <2>0, <2>2, <3>2, GoShape DEF LoginInv, InTransaction, Settling
    <3> QED
      BY <3>1, <3>2
  <2> QED
    BY <1>6, <2>1, <2>2 DEF Consume
<1>7. ASSUME NEW l \in Logins, Identify(l) PROVE LoginInv(k)'
  <2>0. UNCHANGED <<challenge, identity, exists, banned, session>> /\ login[l].step = "identify"
    BY <1>7 DEF Identify
  <2>1. CASE Conflict(l)
    <3>1. End(l, "conflict")
      BY <1>7, <2>1 DEF Identify
    <3> QED
      BY <2>0, <3>1, LoginFails
  <2>2. CASE ~Conflict(l)
    <3>0. login' = [login EXCEPT ![l].step = "account",
                                 ![l].uid = identity[login[l].as]]
      BY <1>7, <2>2 DEF Identify
    <3>1. CASE k # l
      BY <1>f, <2>0, <3>0, <3>1, LoginFrame DEF LoginInv
    <3>2. CASE k = l
      <4>1. /\ login'[k].step = "account" /\ login'[k].uid = identity[login[k].as]
            /\ login'[k].answer = login[k].answer /\ login'[k].as = login[k].as
            /\ login'[k].challenge = login[k].challenge /\ login'[k].link = login[k].link
        BY <1>f, <3>0, <3>2 DEF Login
      <4> QED
        BY <1>f, <2>0, <2>2, <3>2, <4>1
        DEF LoginInv, InTransaction, Settling, Conflict
    <3> QED
      BY <3>1, <3>2
  <2> QED
    BY <2>1, <2>2
<1>8. ASSUME NEW l \in Logins, ReadAccount(l) PROVE LoginInv(k)'
  <2> DEFINE c == login[l].challenge
  <2>0. /\ UNCHANGED <<identity, exists, banned, session>> /\ login[l].step = "account"
        /\ c \in Challenges /\ InTransaction(l) /\ challenge[c].state # "gone"
    BY <1>f, <1>8 DEF ReadAccount, LoginInv, InTransaction
  <2>1. CASE Account(l) \in banned
    <3>0. End(l, "banned") /\ Drop(c)
      BY <1>8, <2>1 DEF ReadAccount
    <3>1. CASE k # l
      <4>1. login'[k] = login[k]
        BY <1>f, <1>n, <3>0, <3>1, EndShape
      <4>2. /\ \A d \in Challenges \ {c} : challenge'[d] = challenge[d]
            /\ challenge'[c].state = "gone"
        BY <1>f, <2>0, <3>0, DropShape
      <4>3. InTransaction(k) => login[k].challenge # c
        BY <2>0, <3>1 DEF IInv, Apart
      <4> HIDE DEF c
      <4> QED
        BY <1>f, <2>0, <4>1, <4>2, <4>3, LoginFrame DEF LoginInv
    <3>2. CASE k = l
      <4>1. /\ login'[k].step = "done" /\ login'[k].answer = "banned"
            /\ login'[k].challenge = c /\ challenge'[c].state = "gone"
        BY <1>f, <1>n, <2>0, <3>0, <3>2, EndShape, DropShape
      <4> QED
        BY <1>f, <2>0, <3>2, <4>1 DEF LoginInv, InTransaction, Settling
    <3> QED
      BY <3>1, <3>2
  <2>2. CASE Account(l) \notin banned
    <3>0. login' = [login EXCEPT ![l].step = "commit"] /\ UNCHANGED challenge
      BY <1>8, <2>2 DEF ReadAccount
    <3>1. CASE k # l
      BY <1>f, <2>0, <3>0, <3>1, LoginFrame DEF LoginInv
    <3>2. CASE k = l
      BY <1>f, <1>s, <2>0, <2>2, <3>0, <3>2, GoShape
      DEF LoginInv, InTransaction, Settling, Account
    <3> QED
      BY <3>1, <3>2
  <2> QED
    BY <2>1, <2>2
<1>9. ASSUME NEW l \in Logins, CommitLogin(l) PROVE LoginInv(k)'
  <2> DEFINE c == login[l].challenge
  <2>0. /\ UNCHANGED <<banned, admin>> /\ login[l].step = "commit"
        /\ c \in Challenges /\ InTransaction(l) /\ challenge[c].state # "gone"
        /\ login[l].as \in Identities /\ Settling(l)
    BY <1>f, <1>9 DEF CommitLogin, LoginInv, InTransaction, Settling
  <2>1. PICK u \in Owners(l) :
          IF Account(l) # None /\ u \notin exists
          THEN /\ End(l, "error")
               /\ UNCHANGED <<challenge, identity, exists, session, known>>
          ELSE /\ exists' = exists \cup {u}
               /\ known' = known \cup {u}
               /\ identity' = IF login[l].uid = None
                              THEN [identity EXCEPT ![login[l].as] = u]
                              ELSE identity
               /\ session' = [session EXCEPT ![l] = [state |-> "open", user |-> u]]
               /\ Drop(c)
               /\ End(l, "tokens")
    BY <1>9 DEF CommitLogin
  <2>2. CASE Account(l) # None /\ u \notin exists
    BY <2>0, <2>1, <2>2, LoginFails
  <2>3. CASE ~(Account(l) # None /\ u \notin exists)
    <3>0. /\ exists' = exists \cup {u}
          /\ identity' = IF login[l].uid = None
                         THEN [identity EXCEPT ![login[l].as] = u] ELSE identity
          /\ session' = [session EXCEPT ![l] = [state |-> "open", user |-> u]]
          /\ Drop(c) /\ End(l, "tokens")
      BY <2>1, <2>3
    <3>1. CASE k # l
      <4>1. login'[k] = login[k] /\ session'[k] = session[k]
        BY <1>f, <1>n, <3>0, <3>1, EndShape
      <4>2. /\ \A d \in Challenges \ {c} : challenge'[d] = challenge[d]
            /\ challenge'[c].state = "gone"
        BY <1>f, <2>0, <3>0, DropShape
      <4>3. InTransaction(k) => login[k].challenge # c
        BY <2>0, <3>1 DEF IInv, Apart
      <4>4. Settling(k) => identity'[login[k].as] = identity[login[k].as]
        BY <1>f, <2>0, <3>0, <3>1 DEF IInv, Apart, LoginInv, InTransaction, Settling
      <4>5. exists \subseteq exists' /\ banned' = banned
        BY <2>0, <3>0
      <4> HIDE DEF c
      <4> QED
        BY <1>f, <4>1, <4>2, <4>3, <4>4, <4>5, <2>0, LoginFrame DEF LoginInv
    <3>2. CASE k = l
      <4>1. /\ login'[k].step = "done" /\ login'[k].answer = "tokens"
            /\ login'[k].challenge = c /\ challenge'[c].state = "gone"
            /\ login'[k].link = login[k].link
        BY <1>f, <1>n, <2>0, <3>0, <3>2, EndShape, DropShape
      <4>2. session'[k].user = u /\ u \in exists'
        BY <1>f, <3>0, <3>2
      <4>3. u \notin banned /\ (login[l].link # None => u = login[l].link)
        BY <1>f, <2>0 DEF Owners, Account, LoginInv
      <4> QED
        BY <1>f, <2>0, <3>2, <4>1, <4>2, <4>3 DEF LoginInv, InTransaction, Settling
    <3> QED
      BY <3>1, <3>2
  <2> QED
    BY <2>2, <2>3
<1>10. ASSUME NEW l \in Logins, AbortLogin(l) PROVE LoginInv(k)'
  BY <1>10, LoginFails DEF AbortLogin
<1>11. ASSUME NEW l \in Logins, LogOut(l) PROVE LoginInv(k)'
  <2>1. UNCHANGED <<challenge, identity, exists, banned, login>>
    BY <1>11 DEF LogOut
  <2>2. \/ session'[k] = session[k]
        \/ session'[k].state = "revoked" /\ session'[k].user = session[k].user
    BY <1>f, <1>11 DEF LogOut, Session
  <2> QED
    BY <1>f, <2>1, <2>2, LoginFrame DEF LoginInv
<1>12. ASSUME NEW u \in Users, BeginBan(u) \/ BeginDelete(u) \/ AbortAdmin(u)
       PROVE  LoginInv(k)'
  <2>1. UNCHANGED <<challenge, identity, exists, banned, session, login>>
    BY <1>12 DEF BeginBan, BeginDelete, AbortAdmin
  <2> QED
    BY <1>f, <2>1, LoginFrame DEF LoginInv
<1>13. ASSUME NEW u \in Users, CommitBan(u) PROVE LoginInv(k)'
  <2>1. UNCHANGED <<challenge, identity, exists, login>> /\ banned' = banned \cup {u}
    BY <1>13 DEF CommitBan
  <2>2. \/ session'[k] = session[k] /\ (session[k].state = "open" => session[k].user # u)
        \/ session'[k].state = "revoked" /\ session'[k].user = session[k].user
    BY <1>f, <1>13 DEF CommitBan, Session
  <2>3. login[k].step = "commit" => Account(k) # u
    BY <1>13 DEF CommitBan, IInv, AdminInv, SharedUser
  <2> QED
    BY <1>f, <2>1, <2>2, <2>3, LoginFrame DEF LoginInv
<1>14. ASSUME NEW u \in Users, Unban(u) PROVE LoginInv(k)'
  <2>1. UNCHANGED <<challenge, identity, exists, session, login>> /\ banned' = banned \ {u}
    BY <1>14 DEF Unban
  <2> QED
    BY <1>f, <2>1, LoginFrame DEF LoginInv
<1>15. ASSUME NEW u \in Users, CommitDelete(u) PROVE LoginInv(k)'
  <2>0. UNCHANGED <<banned, login>> /\ exists' = exists \ {u}
    BY <1>15 DEF CommitDelete
  <2>1. \/ session'[k] = session[k] /\ session[k].user # u
        \/ session'[k] = [state |-> "none", user |-> None]
    BY <1>f, <1>15 DEF CommitDelete
  <2>2. \A c \in Challenges :
          \/ challenge'[c].state = challenge[c].state
          \/ challenge[c].state # "gone" /\ ~ChallengeLocked(c)
    BY <1>f, <1>15 DEF CommitDelete, LinkChallenges
  <2>3. \A i \in Identities : identity'[i] \in {identity[i], None}
    BY <1>f, <1>15 DEF CommitDelete
  <2>4. Settling(k) => login[k].as \in Identities
    BY <1>f DEF LoginInv, InTransaction, Settling
  <2> QED
    BY <1>f, <2>0, <2>1, <2>2, <2>3, <2>4, LoginFrame DEF LoginInv, ChallengeLocked
<1>16. CASE UNCHANGED vars
  BY <1>f, <1>16, LoginFrame DEF vars, LoginInv
<1> QED
  BY <1>1, <1>2, <1>3, <1>4, <1>5, <1>6, <1>7, <1>8, <1>9, <1>10, <1>11, <1>12,
     <1>13, <1>14, <1>15, <1>16
  DEF Next, Step, ResolveDeadlock

----------------------------------------------------------------------------
\* What the locks of a login and its answer stand for does not grow.
Held(k) ==
  /\ InTransaction(k)' =>
       InTransaction(k) /\ login'[k].challenge = login[k].challenge
  /\ Settling(k)' => Settling(k) /\ login'[k].as = login[k].as
  /\ login'[k].answer = "tokens" =>
       login[k].answer = "tokens" /\ login'[k].challenge = login[k].challenge

LEMMA HeldWhenKept ==
  ASSUME NEW k \in Logins, login'[k] = login[k]
  PROVE  Held(k)
BY DEF Held, InTransaction, Settling

LEMMA HeldWhenOver ==
  ASSUME TypeOK, NEW l \in Logins, NEW a \in Answers \ {"tokens"}, End(l, a)
  PROVE  \A k \in Logins : Held(k)
<1>1. ASSUME NEW k \in Logins, k # l PROVE Held(k)
  BY <1>1, EndShape, HeldWhenKept
<1>2. Held(l)
  BY EndShape DEF Held, InTransaction, Settling
<1> QED
  BY <1>1, <1>2

LEMMA ApartFrame ==
  ASSUME NEW l \in Logins, NEW m \in Logins, Apart(l, m), Held(l), Held(m)
  PROVE  Apart(l, m)'
BY DEF Apart, Held

LEMMA InitApart == Init => \A l, m \in Logins : Apart(l, m)
BY DEF Init, Apart, InTransaction, Settling

\* A login takes a lock only when nobody holds it, and gets tokens only for a challenge
\* that was there until now.
LEMMA ApartStep == IInv /\ [Next]_vars => \A k, m \in Logins : Apart(k, m)'
<1> SUFFICES ASSUME IInv, [Next]_vars, NEW k \in Logins, NEW m \in Logins
             PROVE  Apart(k, m)'
  OBVIOUS
<1>f. /\ TypeOK /\ login \in [Logins -> Login]
      /\ \A l \in Logins : LoginInv(l)
  BY Facts
<1>n. \A a \in {"none", "tokens", "invalid", "conflict", "banned", "error"} : a \in Answers
  BY Facts
<1>s. \A s \in {"idle", "principal", "check", "consume", "identify", "account",
               "commit", "done"} : s \in Steps
  BY Facts
<1>a. Apart(k, m) /\ \A l \in Logins : Apart(k, l) /\ Apart(l, m)
  BY DEF IInv
<1>e. ASSUME NEW l \in Logins, NEW a \in {"invalid", "conflict", "banned", "error"},
             End(l, a)
      PROVE  Apart(k, m)'
  BY <1>f, <1>n, <1>a, <1>e, HeldWhenOver, ApartFrame
<1>0. CASE UNCHANGED login
  BY <1>a, <1>0, HeldWhenKept, ApartFrame
<1>3. ASSUME NEW c \in Challenges, NEW l \in Logins, Attempt(l, c) PROVE Apart(k, m)'
  <2>1. CASE Allowed(c)
    <3>0. login[l].step = "idle" /\ login[l].answer = "none"
      BY <1>f, <1>3 DEF Attempt, LoginInv
    <3>1. \A x \in Logins \ {l} : login'[x] = login[x]
      BY <1>f, <1>3, <2>1 DEF Attempt
    <3>2. Held(l)
      <4> DEFINE s == IF challenge[c].link = None THEN "check" ELSE "principal"
      <4>0. login' = [login EXCEPT
              ![l] = [@ EXCEPT !.challenge = c, !.link = challenge[c].link, !.step = s]]
        BY <1>3, <2>1 DEF Attempt
      <4>s. s \in {"check", "principal"}
        OBVIOUS
      <4> HIDE DEF s
      <4>1. login'[l].step \in {"check", "principal"} /\ login'[l].answer = "none"
        BY <1>f, <3>0, <4>0, <4>s DEF Login
      <4> QED
        BY <4>1 DEF Held, InTransaction, Settling
    <3> QED
      BY <1>a, <3>1, <3>2, HeldWhenKept, ApartFrame
  <2>2. CASE ~Allowed(c)
    BY <1>3, <1>e, <2>2 DEF Attempt
  <2> QED
    BY <2>1, <2>2
<1>4. ASSUME NEW l \in Logins, CheckPrincipal(l) PROVE Apart(k, m)'
  <2>1. CASE login' = [login EXCEPT ![l].step = "check"]
    <3>1. \A x \in Logins \ {l} : login'[x] = login[x]
      BY <1>f, <1>s, <2>1, GoShape
    <3>2. Held(l)
      BY <1>f, <1>s, <1>4, <2>1, GoShape
      DEF CheckPrincipal, Held, InTransaction, Settling
    <3> QED
      BY <1>a, <3>1, <3>2, HeldWhenKept, ApartFrame
  <2> QED
    BY <1>4, <1>e, <2>1 DEF CheckPrincipal
<1>5. ASSUME NEW l \in Logins, CheckCredential(l) PROVE Apart(k, m)'
  <2>1. ASSUME NEW i \in Identities,
               login' = [login EXCEPT ![l].step = "consume", ![l].as = i]
        PROVE  Apart(k, m)'
    <3>1. \A x \in Logins \ {l} : login'[x] = login[x]
      BY <1>f, <2>1
    <3>2. /\ login'[l].step = "consume" /\ login'[l].answer = login[l].answer
          /\ login'[l].challenge = login[l].challenge
      BY <1>f, <2>1 DEF Login
    <3>3. Held(l)
      BY <3>2 DEF Held, InTransaction, Settling
    <3> QED
      BY <1>a, <3>1, <3>3, HeldWhenKept, ApartFrame
  <2> QED
    BY <1>5, <1>e, <2>1 DEF CheckCredential
<1>6. ASSUME NEW l \in Logins, Consume(l) PROVE Apart(k, m)'
  <2>1. CASE login' = [login EXCEPT ![l].step = "identify"]
    <3>1. \A x \in Logins \ {l} : login'[x] = login[x]
      BY <1>f, <1>s, <2>1, GoShape
    <3>2. /\ login'[l].step = "identify" /\ login'[l].answer = login[l].answer
          /\ login'[l].challenge = login[l].challenge
      BY <1>f, <1>s, <2>1, GoShape
    <3>3. \A x \in Logins : InTransaction(x) => login[x].challenge # login[l].challenge
      BY <1>6 DEF Consume, ChallengeLocked
    <3> QED
      BY <1>a, <3>1, <3>2, <3>3 DEF Apart, InTransaction, Settling
  <2> QED
    BY <1>6, <1>e, <2>1 DEF Consume
<1>7. ASSUME NEW l \in Logins, Identify(l) PROVE Apart(k, m)'
  <2>1. CASE login' = [login EXCEPT ![l].step = "account",
                                    ![l].uid = identity[login[l].as]]
    <3>1. \A x \in Logins \ {l} : login'[x] = login[x]
      BY <1>f, <2>1
    <3>2. /\ login'[l].step = "account" /\ login'[l].answer = login[l].answer
          /\ login'[l].challenge = login[l].challenge /\ login'[l].as = login[l].as
      BY <1>f, <2>1 DEF Login
    <3>3. \A x \in Logins : Settling(x) => login[x].as # login[l].as
      BY <1>7 DEF Identify, IdentityLocked, Settling
    <3>4. login[l].step = "identify"
      BY <1>7 DEF Identify
    <3> QED
      BY <1>a, <3>1, <3>2, <3>3, <3>4 DEF Apart, InTransaction, Settling
  <2> QED
    BY <1>7, <1>e, <2>1 DEF Identify
<1>8. ASSUME NEW l \in Logins, ReadAccount(l) PROVE Apart(k, m)'
  <2>1. CASE login' = [login EXCEPT ![l].step = "commit"]
    <3>1. \A x \in Logins \ {l} : login'[x] = login[x]
      BY <1>f, <1>s, <2>1, GoShape
    <3>2. Held(l)
      BY <1>f, <1>s, <1>8, <2>1, GoShape DEF ReadAccount, Held, InTransaction, Settling
    <3> QED
      BY <1>a, <3>1, <3>2, HeldWhenKept, ApartFrame
  <2> QED
    BY <1>8, <1>e, <2>1 DEF ReadAccount
<1>9. ASSUME NEW l \in Logins, CommitLogin(l) PROVE Apart(k, m)'
  <2>1. CASE End(l, "tokens")
    <3>1. \A x \in Logins \ {l} : login'[x] = login[x]
      BY <1>f, <1>n, <2>1, EndShape
    <3>2. /\ login'[l].step = "done" /\ login'[l].answer = "tokens"
          /\ login'[l].challenge = login[l].challenge
      BY <1>f, <1>n, <2>1, EndShape
    <3>3. challenge[login[l].challenge].state # "gone"
      BY <1>f, <1>9 DEF CommitLogin, LoginInv, InTransaction
    <3>4. \A x \in Logins :
            login[x].answer = "tokens" => login[x].challenge # login[l].challenge
      BY <1>f, <3>3 DEF LoginInv
    <3> QED
      BY <1>a, <3>1, <3>2, <3>4 DEF Apart, InTransaction, Settling
  <2> QED
    BY <1>9, <1>e, <2>1 DEF CommitLogin
<1>10. ASSUME NEW l \in Logins, AbortLogin(l) PROVE Apart(k, m)'
  BY <1>10, <1>e DEF AbortLogin
<1> QED
  BY <1>0, <1>3, <1>4, <1>5, <1>6, <1>7, <1>8, <1>9, <1>10
  DEF Next, Step, ResolveDeadlock, Begin, ExpireChallenge, LogOut, BeginBan, CommitBan,
      Unban, BeginDelete, CommitDelete, AbortAdmin, vars

----------------------------------------------------------------------------
LEMMA CommitsAfterRead ==
  ASSUME IInv, [Next]_vars, NEW l \in Logins, login'[l].step = "commit"
  PROVE  \/ login[l].step = "commit" /\ Account(l)' = Account(l)
         \/ /\ Account(l)' = Account(l) /\ Account(l) \notin banned
            /\ Account(l) # None => admin[Account(l)] = "none"
            /\ UNCHANGED <<exists, banned, admin>>
<1>f. /\ TypeOK /\ login \in [Logins -> Login]
  BY Facts
<1>n. \A a \in {"none", "tokens", "invalid", "conflict", "banned", "error"} : a \in Answers
  BY Facts
<1>s. \A s \in {"idle", "principal", "check", "consume", "identify", "account",
               "commit", "done"} : s \in Steps
  BY Facts
<1>e. \A k \in Logins, a \in {"invalid", "conflict", "banned", "error", "tokens"} :
        End(k, a) => k # l
  BY <1>f, <1>n, EndShape
<1>k. ASSUME login'[l] = login[l]
      PROVE  login[l].step = "commit" /\ Account(l)' = Account(l)
  BY <1>k DEF Account
<1>1. ASSUME NEW k \in Logins, NEW a \in {"invalid", "conflict", "banned", "error", "tokens"},
             End(k, a)
      PROVE  login'[l] = login[l]
  <2>1. k # l
    BY <1>1, <1>e
  <2> QED
    BY <1>f, <1>n, <1>1, <2>1, EndShape
<1>3. ASSUME NEW c \in Challenges, NEW k \in Logins, Attempt(k, c)
      PROVE  login'[l] = login[l]
  <2>1. CASE Allowed(c)
    <3> DEFINE s == IF challenge[c].link = None THEN "check" ELSE "principal"
    <3>0. login' = [login EXCEPT
            ![k] = [@ EXCEPT !.challenge = c, !.link = challenge[c].link, !.step = s]]
      BY <1>3, <2>1 DEF Attempt
    <3>s. s # "commit"
      OBVIOUS
    <3> HIDE DEF s
    <3> QED
      BY <1>f, <3>0, <3>s DEF Login
  <2> QED
    BY <1>1, <1>3, <2>1 DEF Attempt
<1>4. ASSUME NEW k \in Logins, NEW s \in {"check", "identify"},
             login' = [login EXCEPT ![k].step = s]
      PROVE  login'[l] = login[l]
  BY <1>f, <1>s, <1>4, GoShape
<1>5. ASSUME NEW k \in Logins, CheckCredential(k)
      PROVE  login'[l] = login[l]
  <2>1. ASSUME NEW i \in Identities,
               login' = [login EXCEPT ![k].step = "consume", ![k].as = i]
        PROVE  login'[l] = login[l]
    BY <1>f, <2>1 DEF Login
  <2> QED
    BY <1>1, <1>5, <2>1 DEF CheckCredential
<1>7. ASSUME NEW k \in Logins, Identify(k)
      PROVE  login'[l] = login[l]
  <2>1. CASE login' = [login EXCEPT ![k].step = "account",
                                    ![k].uid = identity[login[k].as]]
    BY <1>f, <2>1 DEF Login
  <2> QED
    BY <1>1, <1>7, <2>1 DEF Identify
<1>8. ASSUME NEW k \in Logins, ReadAccount(k), login'[l] # login[l]
      PROVE  /\ Account(l)' = Account(l) /\ Account(l) \notin banned
             /\ Account(l) # None => admin[Account(l)] = "none"
             /\ UNCHANGED <<exists, banned, admin>>
  <2>1. /\ login' = [login EXCEPT ![k].step = "commit"] /\ Account(k) \notin banned
    BY <1>1, <1>8 DEF ReadAccount
  <2>2. k = l
    BY <1>f, <1>8, <2>1
  <2>3. Account(l)' = Account(l)
    BY <1>f, <1>s, <2>1, <2>2, GoShape DEF Account
  <2> QED
    BY <1>8, <2>1, <2>2, <2>3 DEF ReadAccount, UpdatedUser
<1> QED
  BY <1>k, <1>1, <1>3, <1>4, <1>5, <1>7, <1>8
  DEF Next, Step, ResolveDeadlock, Begin, ExpireChallenge, LogOut, BeginBan, CommitBan,
      Unban, BeginDelete, CommitDelete, AbortAdmin, vars, CheckPrincipal, Consume,
      CommitLogin, AbortLogin

\* The user row is locked FOR UPDATE or FOR SHARE, never both, and a locked user stays.
LEMMA AdminStep == IInv /\ [Next]_vars => \A u \in Users : AdminInv(u)'
<1> SUFFICES ASSUME IInv, [Next]_vars, NEW u \in Users, admin'[u] # "none"
             PROVE  (u \in exists \ banned /\ ~SharedUser(u))'
  BY DEF AdminInv
<1>f. /\ TypeOK /\ admin \in [Users -> Jobs] /\ AdminInv(u) /\ None \notin Users
      /\ banned \in SUBSET exists
  BY Facts DEF IInv
<1>c. \A l \in Logins :
        login'[l].step = "commit" =>
          \/ login[l].step = "commit" /\ Account(l)' = Account(l)
          \/ /\ Account(l)' = Account(l) /\ Account(l) \notin banned
             /\ Account(l) # None => admin[Account(l)] = "none"
             /\ UNCHANGED <<exists, banned, admin>>
  BY CommitsAfterRead
<1>1. ASSUME u \in exists' \ banned', UNCHANGED admin PROVE ~SharedUser(u)'
  BY <1>f, <1>1, <1>c DEF AdminInv, SharedUser
<1>2. ASSUME NEW l \in Logins, Step(l) PROVE (u \in exists \ banned /\ ~SharedUser(u))'
  <2>1. exists \subseteq exists' /\ UNCHANGED <<banned, admin>>
    BY <1>2 DEF Step, CheckPrincipal, CheckCredential, Consume, Identify, ReadAccount,
                CommitLogin
  <2> QED
    BY <1>1, <1>f, <2>1 DEF AdminInv
<1>3. CASE UNCHANGED <<exists, banned, admin>>
  BY <1>1, <1>f, <1>3 DEF AdminInv
<1>4. ASSUME NEW v \in Users,
             BeginBan(v) \/ BeginDelete(v) \/ CommitBan(v) \/ CommitDelete(v) \/ AbortAdmin(v)
      PROVE  (u \in exists \ banned /\ ~SharedUser(u))'
  <2>0. UNCHANGED login
    BY <1>4 DEF BeginBan, BeginDelete, CommitBan, CommitDelete, AbortAdmin
  <2>1. SharedUser(u)' = SharedUser(u)
    BY <2>0 DEF SharedUser, Account
  <2>2. CASE v # u
    <3>1. admin'[u] = admin[u]
      BY <1>f, <1>4, <2>2 DEF BeginBan, BeginDelete, CommitBan, CommitDelete, AbortAdmin
    <3>2. u \in exists \ banned /\ ~SharedUser(u)
      BY <1>f, <3>1 DEF AdminInv
    <3> QED
      BY <1>4, <2>1, <2>2, <3>2
      DEF BeginBan, BeginDelete, CommitBan, CommitDelete, AbortAdmin
  <2>3. CASE v = u
    <3>1. BeginBan(u) \/ BeginDelete(u)
      BY <1>f, <1>4, <2>3 DEF CommitBan, CommitDelete, AbortAdmin
    <3>2. u \in exists \ banned /\ ~SharedUser(u)
      BY <1>f, <3>1 DEF BeginBan, BeginDelete, SignedIn, IInv, LoginInv
    <3> QED
      BY <2>1, <3>1, <3>2 DEF BeginBan, BeginDelete
  <2> QED
    BY <2>2, <2>3
<1>5. ASSUME NEW v \in Users, Unban(v) PROVE (u \in exists \ banned /\ ~SharedUser(u))'
  BY <1>1, <1>f, <1>5 DEF Unban, AdminInv
<1> QED
  BY <1>2, <1>3, <1>4, <1>5
  DEF Next, ResolveDeadlock, Begin, ExpireChallenge, Attempt, AbortLogin, LogOut, vars

\* A new account comes with its identity, and an identity is never taken from one.
LEMMA OrphanStep == IInv /\ [Next]_vars => NoOrphanAccount'
<1> SUFFICES ASSUME IInv, [Next]_vars, NEW u \in exists'
             PROVE  \E i \in Identities : identity'[i] = u
  BY DEF NoOrphanAccount
<1>f. /\ TypeOK /\ identity \in [Identities -> Users \cup {None}]
      /\ exists \in SUBSET Users /\ None \notin Users
      /\ \A l \in Logins : LoginInv(l)
  BY Facts
<1>0. CASE UNCHANGED <<exists, identity>>
  BY <1>0 DEF IInv, NoOrphanAccount
<1>1. ASSUME NEW l \in Logins, CommitLogin(l), ~UNCHANGED <<exists, identity>>
      PROVE  \E i \in Identities : identity'[i] = u
  <2>1. PICK v \in Owners(l) :
          /\ Account(l) # None => v \in exists
          /\ exists' = exists \cup {v}
          /\ identity' = IF login[l].uid = None
                         THEN [identity EXCEPT ![login[l].as] = v] ELSE identity
    BY <1>1 DEF CommitLogin
  <2>2. login[l].as \in Identities /\ (login[l].uid = None => identity[login[l].as] = None)
    BY <1>f, <1>1 DEF CommitLogin, LoginInv, InTransaction, Settling
  <2>3. CASE u \in exists
    <3>1. PICK i \in Identities : identity[i] = u
      BY <2>3 DEF IInv, NoOrphanAccount
    <3> QED
      BY <1>f, <2>1, <2>2, <2>3, <3>1
  <2>4. CASE u \notin exists
    <3>1. u = v /\ login[l].uid = None
      BY <2>1, <2>4 DEF Account
    <3> QED
      BY <1>f, <2>1, <2>2, <3>1
  <2> QED
    BY <2>3, <2>4
<1>2. ASSUME NEW v \in Users, CommitDelete(v) PROVE \E i \in Identities : identity'[i] = u
  <2>1. u \in exists /\ u # v
    BY <1>2 DEF CommitDelete
  <2>2. PICK i \in Identities : identity[i] = u
    BY <2>1 DEF IInv, NoOrphanAccount
  <2> QED
    BY <1>2, <2>1, <2>2 DEF CommitDelete
<1> QED
  BY <1>0, <1>1, <1>2
  DEF Next, Step, ResolveDeadlock, Begin, ExpireChallenge, Attempt, CheckPrincipal,
      CheckCredential, Consume, Identify, ReadAccount, AbortLogin, LogOut, BeginBan,
      CommitBan, Unban, BeginDelete, AbortAdmin, vars

LEMMA KnownStep == IInv /\ [Next]_vars => exists' \subseteq known'
<1> SUFFICES ASSUME IInv, [Next]_vars PROVE exists' \subseteq known'
  OBVIOUS
<1>0. exists \subseteq known
  BY DEF IInv
<1>1. ASSUME NEW l \in Logins, CommitLogin(l) PROVE exists' \subseteq known'
  BY <1>0, <1>1 DEF CommitLogin
<1> QED
  BY <1>0, <1>1
  DEF Next, Step, ResolveDeadlock, Begin, ExpireChallenge, Attempt, CheckPrincipal,
      CheckCredential, Consume, Identify, ReadAccount, AbortLogin, LogOut, BeginBan,
      CommitBan, Unban, BeginDelete, CommitDelete, AbortAdmin, vars

----------------------------------------------------------------------------
\* The inductive invariant: types; a login in its transaction holds a challenge that
\* is there, an identity nobody else is given, and in its last step an account that is
\* not banned; at most one transaction per challenge and per identity; a user row that
\* is locked for a ban or a deletion is there, not banned, and shared with no login.
THEOREM LoginInvariance == Spec => []IInv
<1>1. Init => IInv
  BY InitTypeOK, InitLogins, InitApart DEF Init, IInv, AdminInv, NoOrphanAccount
<1>2. IInv /\ [Next]_vars => IInv'
  BY TypeStep, KnownStep, LoginStep, ApartStep, AdminStep, OrphanStep DEF IInv
<1> QED
  BY <1>1, <1>2, PTL DEF Spec

\* However many requests present a verified challenge at the same time, one of them
\* gets a session, and the challenge is used up by a success and by the refusal of a
\* banned account (completeWith deletes it in its own transaction).
THEOREM ChallengesSpentOnce == Spec => []SpentOnce
<1>1. IInv => SpentOnce
  BY DEF IInv, SpentOnce, OneSessionPerChallenge, VerifiedIsSpent, Apart, LoginInv
<1> QED
  BY <1>1, LoginInvariance, PTL

\* Concurrent first sign-ins of an identity make one account, and deleting accounts
\* takes no identity from another one.
THEOREM AccountsReachable == Spec => []NoOrphanAccount
<1>1. IInv => NoOrphanAccount
  BY DEF IInv
<1> QED
  BY <1>1, LoginInvariance, PTL

\* A login that links ends in the account it was started from.
THEOREM LinksStayHome == Spec => []LinkedToStarter
<1>1. IInv => LinkedToStarter
  BY DEF IInv, LinkedToStarter, LoginInv
<1> QED
  BY <1>1, LoginInvariance, PTL

\* A step gives no identity to a banned account: the login that inserts it has shared
\* the user row since it read that the account is not banned.
LEMMA LinksNotBanned ==
  ASSUME IInv, [Next]_vars, NEW i \in Identities, identity'[i] # identity[i]
  PROVE  identity'[i] \notin banned
<1>f. /\ TypeOK /\ identity \in [Identities -> Users \cup {None}]
      /\ exists \in SUBSET Users /\ banned \in SUBSET exists /\ exists \subseteq known
      /\ None \notin banned /\ \A l \in Logins : LoginInv(l)
  BY Facts
<1>1. ASSUME NEW l \in Logins, CommitLogin(l) PROVE identity'[i] \notin banned
  <2>1. PICK u \in Owners(l) : identity' = [identity EXCEPT ![login[l].as] = u]
    BY <1>1 DEF CommitLogin
  <2>2. u \notin banned
    BY <1>f, <1>1 DEF CommitLogin, Owners, LoginInv
  <2> QED
    BY <1>f, <2>1, <2>2
<1>2. ASSUME NEW u \in Users, CommitDelete(u) PROVE identity'[i] \notin banned
  BY <1>f, <1>2 DEF CommitDelete
<1> QED
  BY <1>1, <1>2
  DEF Next, Step, ResolveDeadlock, Begin, ExpireChallenge, Attempt, CheckPrincipal,
      CheckCredential, Consume, Identify, ReadAccount, AbortLogin, LogOut, BeginBan,
      CommitBan, Unban, BeginDelete, AbortAdmin, vars

\* A ban leaves no session open, whatever sign-ins were under way, and the banned
\* account gains no identity.
THEOREM BansAreComplete == Spec => BanIsComplete
<1>1. IInv => \A l \in Logins : session[l].state = "open" => session[l].user \notin banned
  BY DEF IInv, LoginInv
<1>2. IInv /\ [Next]_vars =>
        [\A i \in Identities :
           identity'[i] # identity[i] => identity'[i] \notin banned]_vars
  BY LinksNotBanned
<1> QED
  BY <1>1, <1>2, LoginInvariance, PTL DEF Spec, BanIsComplete
=============================================================================

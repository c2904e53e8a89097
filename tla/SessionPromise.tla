--------------------------- MODULE SessionPromise ---------------------------
(***************************************************************************)
(* What the session store promises its clients (docs/user-auth.md, the     *)
(* login, refresh and logout endpoints): a session starts once, is renewed *)
(* by exchanging its current token for one never handed out before, and    *)
(* once it is over it stays over.  A token that was exchanged, or whose    *)
(* session is over, never works again.                                     *)
(***************************************************************************)
EXTENDS FiniteSets

CONSTANTS Sessions, Tokens

VARIABLES
  status,   \* "none", "live" or "over", by session
  current,  \* the set holding the token a session accepts, empty if none
  spent     \* tokens that work no longer

Fresh(t) == t \notin spent /\ \A s \in Sessions : t \notin current[s]

Init ==
  /\ status = [s \in Sessions |-> "none"]
  /\ current = [s \in Sessions |-> {}]
  /\ spent = {}

Start(s, t) ==
  /\ status[s] = "none"
  /\ Fresh(t)
  /\ status' = [status EXCEPT ![s] = "live"]
  /\ current' = [current EXCEPT ![s] = {t}]
  /\ UNCHANGED spent

Renew(s, t) ==
  /\ status[s] = "live"
  /\ Fresh(t)
  /\ current' = [current EXCEPT ![s] = {t}]
  /\ spent' = spent \cup current[s]
  /\ UNCHANGED status

\* A logout, a ban, a replay or the end of their time ends some live sessions.
End(S) ==
  /\ \A s \in S : status[s] = "live"
  /\ status' = [s \in Sessions |-> IF s \in S THEN "over" ELSE status[s]]
  /\ current' = [s \in Sessions |-> IF s \in S THEN {} ELSE current[s]]
  /\ spent' = spent \cup UNION {current[s] : s \in S}

Next ==
  \/ \E s \in Sessions, t \in Tokens : Start(s, t) \/ Renew(s, t)
  \/ \E S \in SUBSET Sessions : End(S)

Spec == Init /\ [][Next]_<<status, current, spent>>
=============================================================================

------------------------------ MODULE MCWrites ------------------------------
(***************************************************************************)
(* Writes that may have happened although their answer was lost, in one    *)
(* run: refreshes of sessions, and commits to the dictionary's repository. *)
(* The two share no state, so each behaviour is one of either component,   *)
(* chosen at the start, with the other at rest.                            *)
(***************************************************************************)
EXTENDS TokenRotation, DictSubmissions

VARIABLE running   \* the component

rotationVars == vars

WritesInit ==
  /\ running \in {"sessions", "submissions"} /\ Init /\ DictInit
  /\ running = "sessions" => pulls = <<>>

Refreshes == running = "sessions" /\ Next /\ UNCHANGED <<running, dictVars>>

Submissions == running = "submissions" /\ DictNext /\ UNCHANGED <<running, rotationVars>>

WritesNext == Refreshes \/ Submissions

WritesSpec == WritesInit /\ [][WritesNext]_<<running, rotationVars, dictVars>>

TwoFiles == <<"words", "english">>

\* The sets of one component may have the values of the other's.
Symmetry == Permutations(Requests) \cup Permutations(Sessions) \cup Permutations(Lines)
=============================================================================

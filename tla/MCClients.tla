----------------------------- MODULE MCClients -----------------------------
(***************************************************************************)
(* Clients that share one refresh token and refresh it at the same time,   *)
(* in one run: commands with the credentials file, and browser tabs with   *)
(* the cookie.  The two share no state, so each behaviour is one of either *)
(* component, chosen at the start, with the other at rest.                 *)
(***************************************************************************)
EXTENDS TokenRotation, CliCredentials, TLC

VARIABLE running  \* the component

clientVars == <<running, commandVars, vars>>

ClientInit == running \in {"commands", "tabs"} /\ CommandInit /\ Init

CommandLine == running = "commands" /\ CommandNext /\ UNCHANGED <<running, vars>>

Tabs == running = "tabs" /\ Next /\ UNCHANGED <<running, commandVars>>

ClientNext == CommandLine \/ Tabs

ClientSpec == ClientInit /\ [][ClientNext]_clientVars

\* As many tabs as commands.
Symmetry == Permutations(Commands)
=============================================================================

-------------------------- MODULE MCCliCredentials --------------------------
EXTENDS CliCredentials, TLC

Symmetry == Permutations(Commands)
=============================================================================

---------------------------- MODULE MCAuthLogin ----------------------------
EXTENDS AuthLogin, TLC

Symmetry == Permutations(Users) \cup Permutations(Identities)
              \cup Permutations(Challenges) \cup Permutations(Logins)
=============================================================================

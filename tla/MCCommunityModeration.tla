----------------------- MODULE MCCommunityModeration -----------------------
EXTENDS CommunityModeration, TLC

Symmetry == Permutations(Moderators) \cup Permutations(Users)
=============================================================================

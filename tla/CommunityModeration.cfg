SPECIFICATION Spec
CONSTANTS
  Users = {u1, u2}
  Items = {i1}
  Moderators = {m1, m2}
  NoRow = NoRow
  NoUser = NoUser
  MaxVersions = 2
INVARIANTS TypeOK BannedOwnersHidden ApprovedWasReviewed
PROPERTIES UnbanRestoresBanned UndoPutsBack
SYMMETRY Symmetry
CHECK_DEADLOCK FALSE

SPECIFICATION Spec
CONSTANTS
  Users = {u1}
  Items = {i1}
  Moderators = {m1}
  NoRow = NoRow
  NoUser = NoUser
  MaxVersions = 2
INVARIANT EditsAreReviewed
CHECK_DEADLOCK FALSE

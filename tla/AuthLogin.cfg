SPECIFICATION Spec
CONSTANTS
  Users = {u1, u2}
  Identities = {i1, i2}
  Challenges = {c1, c2, c3}
  Logins = {l1, l2, l3}
  MaxAttempts = 2
  None = None
INVARIANTS SpentOnce NoOrphanAccount LinkedToStarter
PROPERTIES BanIsComplete
SYMMETRY Symmetry
CHECK_DEADLOCK FALSE

SPECIFICATION ClientSpec
CONSTANTS
  Commands = {c1, c2, c3}
  SignIns = {1, 2}
  LockStale = 1
  LockWait = 0
  RequestTime = 2
  MaxTokens = 3
  MaxFailures = 1
  Users = {"u1"}
  Sessions = {"s1"}
  Requests = {c1, c2, c3}
  NoSession = "none"
  Grace = 3
  AccessTTL = 2
  SessionTTL = 4
  FreshTTL = 1
  StaleCopies = FALSE
  LossyReplies = FALSE
  Latency = 1
  MaxTime = 6
  MaxPairs = 4
INVARIANTS NewestIsKept
PROPERTIES TabsNeverLogOut
SYMMETRY Symmetry
CHECK_DEADLOCK FALSE

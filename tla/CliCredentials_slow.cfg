SPECIFICATION CommandSpec
CONSTANTS
  Commands = {c1, c2}
  SignIns = {1}
  LockStale = 2
  LockWait = 1
  RequestTime = 4
  MaxTokens = 3
  MaxFailures = 0
INVARIANTS OneRefresher
CHECK_DEADLOCK FALSE

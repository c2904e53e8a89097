SPECIFICATION ReplicaSpec
CONSTANTS
  Jobs = {j1, j2}
  Owners = {o1, o2}
  Replicas = {r1, r2}
  None = None
  Total = 1
  PerOwner = 1
  Stale = 1
  TTL = 4
  Timeout = 1
  MaxTime = 5
  Probers = {r1, r2}
  Free = Free
  OpenAfter = 3
  ResolveAfter = 2
  Lookback = 2
  MaxMinute = 6
INVARIANTS CapsHold JobsSettle MinutesCountOnce
PROPERTIES KeepsPromise IncidentsFollowStreaks
SYMMETRY Symmetry
CHECK_DEADLOCK FALSE

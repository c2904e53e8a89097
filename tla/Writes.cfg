SPECIFICATION WritesSpec
CONSTANTS
  Users = {u1}
  Sessions = {s1, s2}
  Requests = {r1, r2}
  NoSession = None
  Grace = 1
  AccessTTL = 1
  SessionTTL = 2
  FreshTTL = 1
  StaleCopies = TRUE
  LossyReplies = TRUE
  Latency = 9
  MaxTime = 3
  MaxPairs = 3
  Visitors = {r1, r2}
  Reviewers = {s1, s2}
  Lines = {e1, e2}
  FileOrder <- TwoFiles
  Nobody = None
  MaxSecond = 2
  MaxRequests = 3
  MaxFaults = 1
INVARIANTS
  TypeOK OneSuccessor LateReplayEndsFamily
  AnswersAreTrue RepositoryIsKept
PROPERTIES
  RevokedForGood NoTokensForBanned KeepsPromise ReviewedOnly
SYMMETRY Symmetry
CHECK_DEADLOCK FALSE

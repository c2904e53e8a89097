SPECIFICATION Spec
CONSTANTS
  None = None
  Pulls = {Pull, Other}
  Pull = Pull
  Entries = {"known", "new"}
  NewEntries = {"new"}
  Issue = Issue
  StatusChange = StatusChange
  OtherChanges = {}
  Two = {x1, x2}
  Notices = {"notice"}
  Releases = {"v2"}
  Issues = {"#1"}
  Preferences = {"notify"}
  Devices = {"phone"}
  Accounts = {"user"}
  Reasons = {"spam", "abuse"}
  MaxItem = 2
  Hits = {2}
  Chips = {"pending", "all"}
  PageSize = 1
  MaxRows = 2
  Backfill = 1
  Window = 2
  MaxAge = 2
  LogPage = 2
  LogPages = 1
  Overlap = 1
  MaxLag = 1
  MaxLine = 5
  MaxLate = 1
  MaxEvents = 1
  MaxConnections = 2
  MaxSent = 1
  MaxHead = 2
  MaxVisits = 2
  MaxStatuses = 1
  MaxOpened = 2
  MaxFailures = 1
  MaxReviews = 1
  BatchLimit = 1
  ListLimit = 1
  MaxTyped = 2
  MaxWritten = 1
  MaxCalls = 2
  MaxSpread = 2
  MaxEdits = 2
  MaxMarks = 2
  MaxElsewhere = 1
  Owners = {o1, o2}
  Members = {x1, x2}
  Roles = {"reviewer", "viewer"}
  Cells = {"ban users", "manage permissions"}
  Protected = {"manage permissions"}
  Limit = 1
  MaxChanges = 3
SYMMETRY Symmetry
INVARIANTS
  DecidedOnce
  MergedAsReviewed
  ShownIsServed
  LogIsComplete
  BatchesEndAsMeant
  ToldIsDone
  PushedIsPublished
  MembersAsDecided
PROPERTIES ReadWasMeant
CHECK_DEADLOCK FALSE

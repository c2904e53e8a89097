SPECIFICATION Spec
CONSTANTS
  Keys = {"a", "b"}
  Base = {"b"}
  Weights = {1, 2}
  Positions = {1}
  Counts = {1}
  MaxEntries = 2
  Packs <- MCPacks
  Devices = {"d1"}
  MaxLog = 4
INVARIANTS OverlayFollowsLog CaughtUpDevicesAgree ExportIsRestorable
PROPERTIES RevisionTellsContent
CHECK_DEADLOCK FALSE

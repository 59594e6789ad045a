SPECIFICATION FairSpec
CONSTANTS
  p1 = p1 p2 = p2
  None = None
  Procs = {p1, p2}
  Dirs = {1, 2, 3}
  Found = {1, 2}
  Reservable = {2}
  Initial = {{1, 3}, {}}
  EnvDir = None
  Jobs <- OneAndNone
  Commands <- AllCommands
  MaxCommands = 2
  MaxCrashes = 1
CHECK_DEADLOCK FALSE
INVARIANTS TypeOK DeletedStays NoLostRow
PROPERTIES DeleteSparesChoice RefreshEnds

SPECIFICATION Spec
CONSTANTS
  None = None
  Shim = Shim
  Clsw = Clsw
  Linked = Linked
  Loop = Loop
  MaxUpdates = 4
  MaxCrashes = 2
CHECK_DEADLOCK FALSE
INVARIANTS TypeOK
PROPERTIES NothingLost KeepsClaude ForcedSucceeds

SPECIFICATION Spec
CONSTANTS
  p1 = p1 p2 = p2 k1 = k1 r1 = r1 r2 = r2
  None = None
  Starts = {p1, p2}
  Kills = {k1}
  Runs = {r1, r2}
  MaxFaults = 1
SYMMETRY Symmetric
CHECK_DEADLOCK FALSE
INVARIANTS TypeOK EnvOwn NothingLeft
PROPERTIES SuccessIsOwn Reachable

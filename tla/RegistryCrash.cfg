SPECIFICATION Spec
CONSTANTS
  a = a b = b t1 = t1 t2 = t2 p1 = p1 p2 = p2 p3 = p3 r1 = r1 r2 = r2 r3 = r3
  None = None
  Names = {a, b}
  Threads = {t1}
  Clis = {p1, p2}
  Runners = {r1, r2}
  Prefixed = {a, b}
  FdVisible = TRUE
  Commands <- StartKillRestart
  Initial <- NoneLive
  MaxCrashes = 1
SYMMETRY Symmetry
CHECK_DEADLOCK FALSE
INVARIANT IInv

SPECIFICATION FairSpec
CONSTANTS
  a = a b = b t1 = t1 t2 = t2 p1 = p1 p2 = p2 p3 = p3 r1 = r1 r2 = r2 r3 = r3
  None = None
  Names = {a, b}
  Threads = {t1}
  Clis = {p1}
  Runners = {r1, r2, r3}
  Prefixed = {a, b}
  FdVisible = TRUE
  Commands <- StartRestart
  Initial <- OneLive
  MaxCrashes = 0
CHECK_DEADLOCK FALSE
PROPERTY CommandsEnd DuplicatesEnd

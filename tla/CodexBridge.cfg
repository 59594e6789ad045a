SPECIFICATION FairSpec
CONSTANTS
  c1 = c1 c2 = c2 t1 = t1
  None = None
  Conns = {c1, c2}
  Threads = {t1}
  MaxRequests = 3
  MaxPending = 2
CHECK_DEADLOCK FALSE
INVARIANTS TypeOK NeverBehindClient NothingLeft
PROPERTIES LatestSpec ClosedEnds

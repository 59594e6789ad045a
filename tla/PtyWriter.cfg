SPECIFICATION FairSpec
CONSTANTS
  e1 = e1 e2 = e2
  None = None
  Senders = {e1, e2}
  Size = 2
  Pastes = 2
CHECK_DEADLOCK FALSE
INVARIANTS TypeOK Acknowledged Unspliced
PROPERTIES DeliverySpec EnqueueReturns TornCloses

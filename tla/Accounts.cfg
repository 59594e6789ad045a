SPECIFICATION Spec
CONSTANTS
  n1 = n1 n2 = n2 l1 = l1 l2 = l2 l3 = l3 p1 = p1 p2 = p2 e1 = e1 e2 = e2
  None = None
  Anonymous = e2
  Procs = {p1, p2}
  Slots = {n1, n2}
  Logins = {l1, l2, l3}
  Email <- Emails
  Stored <- Both
  InUse = l1
  MaxVersion = 2
  MaxCrashes = 1
  MaxCommands = 3
SYMMETRY Symmetry
CHECK_DEADLOCK FALSE
INVARIANTS TypeOK NewestKept
PROPERTIES SwitchKeeps SlotKeepsOwner

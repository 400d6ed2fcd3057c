CONSTANTS
  gp = gp
  lp = lp
  t1 = t1
  t2 = t2
  Party <- MCParty
  Tab <- MCTab
  SeatOf <- MCSeatOf
  Read <- MCRead
  Writers <- MCOwnTab
  Watched = gp
  MaxTip = 1
  MaxCommands = 1
  None = None
  Unanswered = Unanswered
SPECIFICATION Spec
INVARIANTS NextReadSeesWrite
CHECK_DEADLOCK FALSE

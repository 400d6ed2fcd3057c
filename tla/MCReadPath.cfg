CONSTANTS
  gp = gp
  lp = lp
  t1 = t1
  t2 = t2
  Party <- MCParty
  Tab <- MCTab
  SeatOf <- MCSeatOf
  Read <- MCRead
  Writers <- OtherTab
  Watched = gp
  MaxTip = 1
  MaxCommands = 1
  None = None
  Unanswered = Unanswered
SPECIFICATION FairSpec
INVARIANTS TypeOK OwnSnapshotsOnly FreshWhenSettled
PROPERTIES WritesAreSeen
CHECK_DEADLOCK FALSE

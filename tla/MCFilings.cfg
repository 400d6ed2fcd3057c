CONSTANTS
  gp = gp
  b1 = b1
  b2 = b2
  lp1 = lp1
  lp2 = lp2
  Party <- MCParty
  Admin = gp
  Buyer <- MCBuyer
  BidId <- TwoIds
  Pcts <- MCPcts
  Capacities <- MCCapacities
  Elector <- MCElector
  ElectionId <- OneId
  Positions <- MCPositions
  Splits <- MCSplits
  Whole = 10
  Scale = 1000
SPECIFICATION FilingSpec
INVARIANTS FilingTypeOK FillsTakeThePool FillsWithinCapacity LeadComesFirst TotalsTieOut
CHECK_DEADLOCK FALSE

CONSTANTS
  gp = gp
  chair = chair
  member = member
  outsider = outsider
  Party <- MCParty
  Admin = gp
  Buyer <- MCBuyer
  BidId <- OneId
  Pcts <- MCPcts
  Capacities <- MCCapacities
  Roster <- MCRoster
  Recusable <- MCRecusable
  Whole = 10
SPECIFICATION RecusalSpec
PROPERTIES GrantsRecuseBidders
CHECK_DEADLOCK FALSE

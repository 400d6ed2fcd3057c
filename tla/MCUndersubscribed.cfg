CONSTANTS
  gp = gp
  lp = lp
  valuer = valuer
  usdc = usdc
  unit = unit
  d1 = d1
  d2 = d2
  i1 = i1
  i2 = i2
  Party <- MCParty
  Admin = gp
  Inst <- MCInst
  Mints <- RoomMints
  Legs <- GateLegs
  Delegates <- MCLP
  MaxCid = 3
  LP <- NoOne
  MaxInterest = 1
  Deals <- CloseDeals
  DocId <- MCDocId
  Docs <- CloseDocs
  Published <- RoomDocs
  Archivable <- NoOne
  Bases <- CloseBases
  MaxBases = 1
  Whole = 10
  Unit = unit
  Prices <- NoOne
  NoPrice = NoPrice
  OpeningStages <- OpenedAtSetup
  Buyer <- MCLP
  BidId <- RoomIds
  Pcts <- RoomPcts
  Capacities <- RoomCapacities
  Elector <- MCLP
  ElectionId <- RoomIds
  Positions <- RoomPositions
  Splits <- RoomSplits
  Scale = 1000
SPECIFICATION RoomSpec
PROPERTIES ClosesSubscribed
CHECK_DEADLOCK FALSE

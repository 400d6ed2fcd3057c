CONSTANTS
  gp = gp
  lp = lp
  valuer = valuer
  usdc = usdc
  unit = unit
  d1 = d1
  d2 = d2
  i1 = i1
  i2 = i2
  Party <- MCParty
  Admin = gp
  Inst <- MCInst
  Mints <- BackdoorMints
  Legs <- BackdoorLegs
  Delegates <- MCLP
  MaxCid = 3
  LP <- NoOne
  MaxInterest = 1
  Deals <- CloseDeals
  DocId <- MCDocId
  Docs <- CloseDocs
  Published <- CloseDocs
  Archivable <- NoOne
  Bases <- CloseBases
  MaxBases = 1
  Whole = 10
  Unit = unit
  Prices <- NoOne
  NoPrice = NoPrice
  OpeningStages <- OpenedAtSetup
SPECIFICATION Spec
PROPERTIES LegsMoveInCloseOnly
CHECK_DEADLOCK FALSE

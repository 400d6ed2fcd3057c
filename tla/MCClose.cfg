CONSTANTS
  gp = gp
  lp = lp
  valuer = valuer
  usdc = usdc
  unit = unit
  d1 = d1
  d2 = d2
  i1 = i1
  i2 = i2
  Party <- MCParty
  Admin = gp
  Inst <- MCInst
  Mints <- MCMints
  Legs <- MCLegs
  Delegates <- MCLP
  MaxCid = 6
  LP <- MCLP
  MaxInterest = 1
  Deals <- CloseDeals
  DocId <- MCDocId
  Docs <- CloseDocs
  Published <- CloseDocs
  Archivable <- NoOne
  Bases <- CloseBases
  MaxBases = 1
  Whole = 10
  Unit = unit
  Prices <- ClosePrices
  NoPrice = NoPrice
  OpeningStages <- OpenedEitherWay
SPECIFICATION Spec
INVARIANTS DealTypeOK ConsentAndPriceFirst
PROPERTIES EndedDealsRest UnitsMatchPrice
CHECK_DEADLOCK FALSE

CONSTANTS
  gp = gp
  lp = lp
  valuer = valuer
  usdc = usdc
  unit = unit
  d1 = d1
  d2 = d2
  i1 = i1
  i2 = i2
  Party <- MCParty
  Admin = gp
  Inst <- MCInst
  Mints <- GateMints
  Legs <- GateLegs
  Delegates <- MCLP
  MaxCid = 5
  LP <- NoOne
  MaxInterest = 1
  Deals <- GateDeals
  DocId <- MCDocId
  Docs <- GateDocs
  Published <- GatePublished
  Archivable <- GateArchivable
  Bases <- GateBases
  MaxBases = 1
  Whole = 10
  Unit = unit
  Prices <- NoOne
  NoPrice = NoPrice
  OpeningStages <- OpenedAtSetup
SPECIFICATION Spec
INVARIANTS OneCloseEach ReceiptsRestOnFacts
PROPERTIES ClosesOnActiveFacts EndsAsPromised
CHECK_DEADLOCK FALSE

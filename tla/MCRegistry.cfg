CONSTANTS
  gp = gp
  lp = lp
  buyer = buyer
  usdc = usdc
  unit = unit
  Party <- MCParty
  Admin = gp
  Inst <- MCInst
  Mints <- MCMints
  Legs <- MCLegs
  Delegates <- MCParty
  MaxCid = 6
SPECIFICATION RegSpec
INVARIANTS RegTypeOK NoDoubleSpend
PROPERTIES TransferByAgreement ConservesValue
CHECK_DEADLOCK FALSE

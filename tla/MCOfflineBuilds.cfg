SPECIFICATION Spec
CONSTANTS
  Tabs = {"t1", "t2"}
  Transports = {channel, storage}
  Pages <- MCPages
  MaxInFlight = 1
  MaxCrossed = 1
  Whole = 100
  Deals <- MCDeals
  Personas <- MCPersonas
  PortalPrices = {96, 100}
  PortalCapacities = {500}
  PortalBallots = {"split"}
  Rolls = {430}
  ProtoDeals <- MCProtoDeals
  ProtoPrices = {96}
  ProtoCapacities = {4}
  ProtoBallots = {"exit"}
  Amounts <- MCAmounts
  MaxEpoch = 2
  MaxHandlers = 2
  Navs <- MCNavs
  Clearing = 96
  Browsers = {"w1", "w2"}
  Visits <- MCVisits
  MaxLogins = 2
  MaxUpsets = 1
SYMMETRY TransportsAlike
CONSTRAINT Followed
INVARIANTS TypeOK GatesInOrder AllocationIsCurrent LegsTieOut PagesServe TabsKeepUp SettlesAtOnce CloseIsWithinReach SealedBehindTotals ScriptsProveTheClose WindowsAreCurrent
PROPERTIES SandboxEndsAsPromised StepperNeverGoesBack

SPECIFICATION Spec
CONSTANTS
  ali = ali  sara = sara  plus = plus  box = box  nick = nick
  o1 = o1  o2 = o2  o3 = o3
  named = named  keyed = keyed  shelf = shelf  r1 = r1  r2 = r2
  None = None
  Users = {ali, sara}
  Operations = {o1, o2}
  Plans = {box}
  Panels = {shelf}
  StockRows = {r1, r2}
  CustomNames = {}
  Offers <- TermsOffers
  PanelType <- MCPanelType
  HomePanel <- MCHomePanel
  Referrer <- MCReferrer
  RolesOf <- MCRolesOf
  StandingsOf <- MCStandings
  CreditLimit <- MCCredit
  InitialBalance <- MCLowBalance
  Adjustments <- OneAdjustment
  PurchaseCashback = 10
  ReferralPercent = 10
  MaxOpenOperations = 2
  MaxServices = 3
  TestsPerUser = 1
  Capacity <- MCCapacity3
  CouponMaxUses = 0
  CouponPerUser = 1
  Outcomes = {"ok", "failed"}
  MaxVersion = 1
  MaxCrashes = 1
INVARIANTS Solvent StockAccounted
PROPERTIES BalanceExplained ImplementsEscrow
CHECK_DEADLOCK FALSE

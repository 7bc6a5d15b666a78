SPECIFICATION FairSpec
CONSTANTS
  ali = ali  sara = sara  plus = plus  box = box  nick = nick
  o1 = o1  o2 = o2  o3 = o3
  named = named  keyed = keyed  shelf = shelf  r1 = r1  r2 = r2
  None = None
  Users = {ali}
  Operations = {o1}
  Plans = {plus}
  Panels = {named}
  StockRows = {}
  CustomNames = {}
  Offers <- PairOffers
  PanelType <- MCPanelType
  HomePanel <- MCHomePanel
  Referrer <- MCReferrer
  RolesOf <- MCCustomers
  StandingsOf <- MCMembers
  CreditLimit <- MCCredit
  InitialBalance <- MCBalance
  Adjustments <- NoAdjustments
  PurchaseCashback = 10
  ReferralPercent = 10
  MaxOpenOperations = 2
  MaxServices = 3
  TestsPerUser = 1
  Capacity <- MCCapacity3
  CouponMaxUses = 0
  CouponPerUser = 1
  Outcomes = {"ok"}
  MaxVersion = 0
  MaxCrashes = 0
PROPERTIES FaultFreePurchaseSettles
CHECK_DEADLOCK FALSE

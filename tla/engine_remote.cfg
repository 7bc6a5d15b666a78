SPECIFICATION FairSpec
CONSTANTS
  ali = ali  sara = sara  plus = plus  box = box  nick = nick
  o1 = o1  o2 = o2  o3 = o3
  named = named  keyed = keyed  shelf = shelf  r1 = r1  r2 = r2
  None = None
  Users = {ali, sara}
  Operations = {o1, o2}
  Plans = {plus}
  Panels = {named, keyed}
  StockRows = {}
  CustomNames = {nick}
  Offers <- RemoteOffers
  PanelType <- MCPanelType
  HomePanel <- MCHomePanel
  Referrer <- MCReferrer
  RolesOf <- MCCustomers
  StandingsOf <- MCMembers
  CreditLimit <- MCCredit
  InitialBalance <- MCBalance
  Adjustments <- NoAdjustments
  PurchaseCashback = 10
  ReferralPercent = 10
  MaxOpenOperations = 2
  MaxServices = 3
  TestsPerUser = 1
  Capacity <- MCCapacity3
  CouponMaxUses = 1
  CouponPerUser = 1
  Outcomes <- AllOutcomes
  MaxVersion = 1
  MaxCrashes = 1
INVARIANTS TypeOK LedgerMatchesStatus ReservationsAccounted AccountsAccounted
PROPERTIES QueuedComesToRest EndsAreProved TerminalForever
CHECK_DEADLOCK FALSE

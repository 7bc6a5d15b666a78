SPECIFICATION MCSpec
CONSTANTS
  first = first  second = second
  o1 = o1  o2 = o2
  None = None  Gone = Gone
  Accounts = {first, second}
  Tokens <- MCTokens
  Operations = {o1, o2}
  Offers <- Buyers
  MaxQuantity = 2
  MaxFailures = 1
INVARIANTS TypeOK SlotsAccounted
PROPERTIES OldLinksDie PaidMeansSlots RefundKillsLink
CHECK_DEADLOCK FALSE

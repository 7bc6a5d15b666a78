SPECIFICATION MCSpec
CONSTANTS
  first = first  second = second
  o1 = o1  o2 = o2
  None = None  Gone = Gone
  Accounts = {first}
  Tokens <- MCTokens
  Operations = {o1, o2}
  Offers <- Buyers
  MaxQuantity = 2
  MaxFailures = 0
PROPERTIES ExpiredWithItsSlot
CHECK_DEADLOCK FALSE

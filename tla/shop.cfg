SPECIFICATION FairSpec
CONSTANTS
  Users = {u1}
  Orders = {o1, o2}
  Products = {book}
  Ready = {book}
  Price <- OnePrice
  InitialStock = 1
  InitialPoints = 4
  MaxUses = 1
  Reductions <- BothOrNone
  CouponPercent = 50
  PointsPercent = 50
  EarnUnit = 5
  o1 = o1
  o2 = o2
  MethodOf <- MethodByOrder
  MaxLines = 1
  MaxQuantity = 1
  MaxUnpaid = 2
  MaxChanges = 1
  MaxEvictions = 1
  None = None
CHECK_DEADLOCK FALSE
INVARIANTS ReservationsAccounted DeliveredAsPaid
PROPERTY ReservationsEnd

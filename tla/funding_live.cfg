SPECIFICATION FairSpec
CONSTANTS
  ali = ali  sara = sara
  None = None
  Users = {ali}
  Payments = {p1, p2}
  Nonces = {n1, n2}
  Charges = {c1, c2}
  Transfers = {t1}
  Terms <- LiveTerms
  Cashback <- MCCashback
  Outcomes = {"ok"}
  MaxPending = 2
  MaxCrashes = 1
PROPERTIES MoneyArrives
CHECK_DEADLOCK FALSE

SPECIFICATION Spec
CONSTANTS
  ali = ali  sara = sara
  None = None
  Users = {ali, sara}
  Payments = {p1, p2}
  Nonces = {n1, n2}
  Charges = {c1}
  Transfers = {t1}
  Terms <- EveryTerm
  Cashback <- MCCashback
  Outcomes = {"ok", "failed", "lost"}
  MaxPending = 2
  MaxCrashes = 1
INVARIANTS TypeOK CreditMatchesPaid PaidWasProved OneKeyOnePayment LedgerMatchesPaid
PROPERTIES PaidForever
CHECK_DEADLOCK FALSE

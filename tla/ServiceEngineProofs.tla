------------------------- MODULE ServiceEngineProofs -------------------------
(***************************************************************************)
(* Theorems about ServiceEngine for every value of its constants that      *)
(* satisfies the assumptions: the order of an operation's statuses, the    *)
(* refinement of the escrow, and the accounts of money, coupon and stock,  *)
(* which rest on the inductive invariant IInv; then what it makes on the   *)
(* panels: the accounts it creates, the calls it gives up on, and the      *)
(* proofs with which operations end.                                       *)
(***************************************************************************)
EXTENDS ServiceEngine, SumProofs

(* Every operation, and every service, keeps the quote it was made from.   *)
QuoteInv ==
  /\ \A o \in Existing : quote[o] # None
  /\ \A a \in Accounts : service[a] # None => quote[a[1]] # None
  /\ \A o \in Operations :
       quote[o] # None =>
         /\ quote[o].service # None <=> Kind(o) = "renew"
         /\ quote[o].service # None => quote[quote[o].service[1]] # None

(* The running task works on one "sending" operation and never past the    *)
(* last of its accounts.                                                   *)
TaskInv ==
  /\ running = None <=> step = "idle"
  /\ \A o \in Operations : operation[o].status = "queued" => operation[o].results = 0
  /\ running # None =>
       /\ operation[running].status = "sending"
       /\ step = "look" => operation[running].results < Quantity(running)
       /\ step \in {"create", "finish"} => operation[running].inFlight \in 1 .. Quantity(running)
       /\ step \in {"read", "update", "confirm"} => quote[running].service # None

(* A commission is posted with a settlement or not at all.                 *)
CommissionInv ==
  \A o \in Operations : <<"commission", o>> \in ledger => operation[o].status = "done"

(* A user has only the roles an administrator may give.                    *)
RoleInv ==
  \A u \in Users : account[u].role = "credit_agent" => "credit_agent" \in RolesOf[u]

LedgerInv == LedgerMatchesStatus /\ CommissionInv

IInv == TypeOK /\ QuoteInv /\ TaskInv /\ LedgerInv /\ RoleInv

-----------------------------------------------------------------------------
(* Facts about the operators *)

LEMMA OfferType ==
  ASSUME TypeOK, NEW o \in Operations, quote[o] # None
  PROVE  /\ User(o) \in Users
         /\ Kind(o) \in Kinds
         /\ Panel(o) \in Panels
         /\ Quantity(o) \in Indexes
         /\ Amount(o) \in Nat
         /\ Offer(o) \in Offers
         /\ Offer(o).name \in CustomNames \union {None}
         /\ Offer(o).plan \in Plans
BY RowsAssumption DEF TypeOK, QuoteRow, User, Kind, Panel, Quantity, Amount, Offer

(* An operation and an index name an account.                              *)
LEMMA AccountsType ==
  ASSUME NEW o \in Operations, NEW k \in Indexes
  PROVE  <<o, k>> \in Accounts
BY DEF Accounts

(* The key of an account of a quoted operation is a key.                   *)
LEMMA KeyType ==
  ASSUME TypeOK, NEW a \in Accounts, quote[a[1]] # None
  PROVE  RemoteKey(a) \in Keys
<1>1. a[1] \in Operations /\ a[2] \in 0 .. MaxQuantity
  BY DEF Accounts, Indexes, MaxQuantity
<1>2. QED
  BY <1>1, OfferType DEF RemoteKey, Keys, MaxQuantity

(* A percentage of an amount is between nothing and the amount.            *)
LEMMA PercentBounds ==
  ASSUME NEW amount \in Nat, NEW rate \in 0 .. 100
  PROVE  Percent(amount, rate) \in 0 .. amount
<1>1. amount * rate \in Nat /\ amount * rate <= amount * 100
  OBVIOUS
<1>2. QED
  BY <1>1 DEF Percent

(* Cash back and commission are at most the price of the operation.        *)
LEMMA MoneyTypes ==
  ASSUME TypeOK, NEW o \in Operations, quote[o] # None
  PROVE  /\ Cashback(o) \in 0 .. Amount(o)
         /\ Commission(o) \in 0 .. Amount(o)
         /\ Commissioned(o) => Referrer[User(o)] \in Users
<1>1. Amount(o) \in Nat /\ User(o) \in Users
  BY OfferType
<1>2. QED
  BY <1>1, PercentBounds, MoneyAssumption DEF Cashback, Commission, Commissioned

(* What a new event does to the wallets, row by row.                       *)
LEMMA PostRows ==
  ASSUME NEW wallets \in [Users -> AccountRow], NEW event, NEW u \in Users,
         NEW delta \in Int, NEW hold \in Int, event \notin ledger
  PROVE  Post(wallets, event, u, delta, hold) =
           [v \in Users |-> IF v = u
                            THEN [balance |-> wallets[u].balance + delta,
                                  held |-> wallets[u].held + hold,
                                  role |-> wallets[u].role, standing |-> wallets[u].standing]
                            ELSE wallets[v]]
<1>1. wallets[u] \in [balance : Int, held : Int, role : Roles, standing : Standings]
  BY DEF AccountRow
<1>2. Post(wallets, event, u, delta, hold)
        = [wallets EXCEPT ![u] = [[wallets[u] EXCEPT !.balance = @ + delta] EXCEPT !.held = @ + hold]]
  BY DEF Post
<1>3. [[wallets[u] EXCEPT !.balance = @ + delta] EXCEPT !.held = @ + hold]
        = [balance |-> wallets[u].balance + delta, held |-> wallets[u].held + hold,
           role |-> wallets[u].role, standing |-> wallets[u].standing]
  <2>. DEFINE row == [wallets[u] EXCEPT !.balance = @ + delta]
  <2>1. row = [balance |-> wallets[u].balance + delta, held |-> wallets[u].held,
               role |-> wallets[u].role, standing |-> wallets[u].standing]
    BY <1>1
  <2>2. row \in [balance : Int, held : Int, role : Roles, standing : Standings] /\ row.held = wallets[u].held
    BY <1>1, <2>1
  <2>. HIDE DEF row
  <2>3. [row EXCEPT !.held = row.held + hold]
          = [balance |-> wallets[u].balance + delta, held |-> wallets[u].held + hold,
             role |-> wallets[u].role, standing |-> wallets[u].standing]
    BY <1>1, <2>1, <2>2
  <2>4. QED
    BY <2>3 DEF row
<1>4. QED
  BY <1>2, <1>3

(* Posting keeps the type of the wallets and every role.                   *)
LEMMA PostType ==
  ASSUME NEW wallets \in [Users -> AccountRow], NEW event, NEW u \in Users,
         NEW delta \in Int, NEW hold \in Int
  PROVE  /\ Post(wallets, event, u, delta, hold) \in [Users -> AccountRow]
         /\ \A v \in Users : Post(wallets, event, u, delta, hold)[v].role = wallets[v].role
<1>1. CASE event \in ledger
  BY <1>1 DEF Post
<1>2. CASE event \notin ledger
  BY <1>2, PostRows DEF AccountRow
<1>3. QED
  BY <1>1, <1>2

(* An operation row with one field replaced.                               *)
LEMMA RowFields ==
  ASSUME NEW op \in OperationRow
  PROVE  /\ \A v \in Status : [op EXCEPT !.status = v] \in OperationRow
         /\ \A v \in {"none", "cancelled", "failed"} : [op EXCEPT !.reason = v] \in OperationRow
         /\ \A v \in 0 .. MaxQuantity : [op EXCEPT !.results = v] \in OperationRow
         /\ \A v \in 0 .. MaxQuantity : [op EXCEPT !.created = v] \in OperationRow
         /\ \A v \in 0 .. MaxQuantity : [op EXCEPT !.inFlight = v] \in OperationRow
         /\ \A v \in Nat : [op EXCEPT !.before = v] \in OperationRow
         /\ \A v \in Nat : [op EXCEPT !.desired = v] \in OperationRow
         /\ \A v \in Nat : [op EXCEPT !.createdAt = v] \in OperationRow
         /\ \A v \in BOOLEAN : [op EXCEPT !.dispatched = v] \in OperationRow
         /\ \A v \in SUBSET StockRows : [op EXCEPT !.stock = v] \in OperationRow
BY DEF OperationRow

(* The rows after the status of one operation was set.                     *)
LEMMA EndedRows ==
  ASSUME TypeOK, NEW o \in Operations, NEW status \in Status,
         NEW reason \in {"none", "cancelled", "failed"},
         operation' = [operation EXCEPT ![o].status = status, ![o].reason = reason]
  PROVE  /\ operation' \in [Operations -> OperationRow]
         /\ \A p \in Operations :
              /\ operation'[p].status = IF p = o THEN status ELSE operation[p].status
              /\ operation'[p].results = operation[p].results
<1>. DEFINE row == [operation[o] EXCEPT !.status = status]
<1>1. operation[o] \in OperationRow
  BY DEF TypeOK
<1>2. row \in OperationRow /\ row.status = status /\ row.results = operation[o].results
  <2>1. row \in OperationRow
    BY <1>1, RowFields
  <2>2. row.status = status /\ row.results = operation[o].results
    BY <1>1 DEF OperationRow
  <2>3. QED
    BY <2>1, <2>2
<1>3. operation' = [operation EXCEPT ![o] = [row EXCEPT !.reason = reason]]
  OBVIOUS
<1>. HIDE DEF row
<1>4. /\ [row EXCEPT !.reason = reason] \in OperationRow
      /\ [row EXCEPT !.reason = reason].status = status
      /\ [row EXCEPT !.reason = reason].results = operation[o].results
  <2>1. [row EXCEPT !.reason = reason] \in OperationRow
    BY <1>2, RowFields
  <2>2. /\ [row EXCEPT !.reason = reason].status = status
        /\ [row EXCEPT !.reason = reason].results = operation[o].results
    BY <1>2 DEF OperationRow
  <2>3. QED
    BY <2>1, <2>2
<1>5. QED
  BY <1>3, <1>4 DEF TypeOK

(* The four events of an operation are ledger events.                      *)
LEMMA LedgerEventType ==
  ASSUME NEW o \in Operations
  PROVE  /\ <<"hold", o>> \in LedgerEvents    /\ <<"settle", o>> \in LedgerEvents
         /\ <<"release", o>> \in LedgerEvents /\ <<"commission", o>> \in LedgerEvents
BY DEF LedgerEvents

(* Dropping a reservation keeps the coupon's type.                         *)
LEMMA DropReservationType ==
  ASSUME TypeOK, NEW o \in Operations
  PROVE  DropReservation(coupon, o) \in [reserved : Nat, used : Nat, uses : [Users -> Nat]]
<1>1. coupon \in [reserved : Nat, used : Nat, uses : [Users -> Nat]]
  BY DEF TypeOK
<1>2. QED
  BY <1>1 DEF DropReservation

(* What a release changes, and the types it keeps.                         *)
LEMMA ReleaseFacts ==
  ASSUME TypeOK, NEW o \in Operations, quote[o] # None,
         NEW reason \in {"cancelled", "failed"}, ReleaseOperation(o, reason)
  PROVE  /\ operation' \in [Operations -> OperationRow]
         /\ \A p \in Operations :
              /\ operation'[p].status = IF p = o THEN "failed" ELSE operation[p].status
              /\ operation'[p].results = operation[p].results
         /\ account' \in [Users -> AccountRow]
         /\ \A u \in Users : account'[u].role = account[u].role
         /\ stock' \in [StockRows -> StockRow]
         /\ coupon' \in [reserved : Nat, used : Nat, uses : [Users -> Nat]]
         /\ ledger' = ledger \union {<<"release", o>>}
         /\ ledger' \subseteq LedgerEvents
         /\ service' = service
<1>1. User(o) \in Users /\ Amount(o) \in Nat
  BY OfferType
<1>2. /\ operation' \in [Operations -> OperationRow]
      /\ \A p \in Operations :
           /\ operation'[p].status = IF p = o THEN "failed" ELSE operation[p].status
           /\ operation'[p].results = operation[p].results
  BY EndedRows DEF ReleaseOperation, Status, Open
<1>3. /\ account' \in [Users -> AccountRow]
      /\ \A u \in Users : account'[u].role = account[u].role
  <2>. DEFINE released == Post(account, <<"release", o>>, User(o), 0, -Amount(o))
  <2>1. /\ released \in [Users -> AccountRow]
        /\ \A u \in Users : released[u].role = account[u].role
    BY <1>1, PostType DEF TypeOK
  <2>. HIDE DEF released
  <2>2. account' = released
    BY DEF ReleaseOperation, ReleaseHold, released
  <2>3. QED
    BY <2>1, <2>2
<1>4. stock' \in [StockRows -> StockRow]
  BY DEF ReleaseOperation, FreeRows, NoStock, StockRow, TypeOK
<1>5. coupon' \in [reserved : Nat, used : Nat, uses : [Users -> Nat]]
  BY DropReservationType DEF ReleaseOperation
<1>6. QED
  BY <1>2, <1>3, <1>4, <1>5, LedgerEventType DEF ReleaseOperation, TypeOK

(* What a settlement changes, and the types it keeps.                      *)
LEMMA FinalizeFacts ==
  ASSUME TypeOK, NEW o \in Operations, quote[o] # None, FinalizeOperation(o)
  PROVE  /\ operation' \in [Operations -> OperationRow]
         /\ \A p \in Operations :
              operation'[p].status = IF p = o THEN "done" ELSE operation[p].status
         /\ \A p \in Operations : p # o => operation'[p] = operation[p]
         /\ account' \in [Users -> AccountRow]
         /\ \A u \in Users : account'[u].role = account[u].role
         /\ stock' \in [StockRows -> StockRow]
         /\ coupon' \in [reserved : Nat, used : Nat, uses : [Users -> Nat]]
         /\ ledger' \subseteq LedgerEvents
         /\ service' \in [Accounts -> Users \union {None}]
         /\ \A a \in Accounts : service'[a] # None => service[a] # None \/ a[1] = o
<1>1. /\ User(o) \in Users /\ Amount(o) \in Nat /\ Quantity(o) \in 0 .. MaxQuantity
      /\ Cashback(o) \in Int /\ Commission(o) \in Int
      /\ Commissioned(o) => Referrer[User(o)] \in Users
  BY OfferType, MoneyTypes DEF Indexes, MaxQuantity
<1>2. /\ operation' \in [Operations -> OperationRow]
      /\ \A p \in Operations :
           operation'[p].status = IF p = o THEN "done" ELSE operation[p].status
      /\ \A p \in Operations : p # o => operation'[p] = operation[p]
  <2>. DEFINE row == [operation[o] EXCEPT !.status = "done"]
  <2>1. operation[o] \in OperationRow
    BY DEF TypeOK
  <2>2. row \in OperationRow /\ row.status = "done"
    <3>1. "done" \in Status
      BY DEF Status
    <3>2. row \in OperationRow
      BY <2>1, <3>1, RowFields
    <3>3. QED
      BY <2>1, <3>2 DEF OperationRow
  <2>3. operation' = [operation EXCEPT ![o] = [row EXCEPT !.results = Quantity(o)]]
    BY DEF FinalizeOperation
  <2>. HIDE DEF row
  <2>4. /\ [row EXCEPT !.results = Quantity(o)] \in OperationRow
        /\ [row EXCEPT !.results = Quantity(o)].status = "done"
    BY <1>1, <2>2, RowFields DEF OperationRow
  <2>5. QED
    BY <2>3, <2>4 DEF TypeOK
<1>3. /\ account' \in [Users -> AccountRow]
      /\ \A u \in Users : account'[u].role = account[u].role
  <2>. DEFINE settled == Post(account, <<"settle", o>>, User(o), Cashback(o) - Amount(o), -Amount(o))
  <2>1. /\ settled \in [Users -> AccountRow]
        /\ \A u \in Users : settled[u].role = account[u].role
    BY <1>1, PostType DEF TypeOK
  <2>. HIDE DEF settled
  <2>2. Commissioned(o) =>
          /\ Post(settled, <<"commission", o>>, Referrer[User(o)], Commission(o), 0) \in [Users -> AccountRow]
          /\ \A u \in Users : Post(settled, <<"commission", o>>, Referrer[User(o)], Commission(o), 0)[u].role
                                = settled[u].role
    BY <1>1, <2>1, PostType
  <2>3. account' = IF Commissioned(o)
                   THEN Post(settled, <<"commission", o>>, Referrer[User(o)], Commission(o), 0)
                   ELSE settled
    BY DEF FinalizeOperation, SettledAccounts, settled
  <2>4. QED
    BY <2>1, <2>2, <2>3
<1>4. stock' \in [StockRows -> StockRow]
  BY DEF FinalizeOperation, StockRow, TypeOK
<1>5. coupon' \in [reserved : Nat, used : Nat, uses : [Users -> Nat]]
  <2>1. coupon \in [reserved : Nat, used : Nat, uses : [Users -> Nat]]
    BY DEF TypeOK
  <2>2. DropReservation(coupon, o) \in [reserved : Nat, used : Nat, uses : [Users -> Nat]]
    BY DropReservationType
  <2>. DEFINE c == DropReservation(coupon, o)
              d == [c EXCEPT !.used = @ + 1]
  <2>. HIDE DEF c
  <2>3. d \in [reserved : Nat, used : Nat, uses : [Users -> Nat]]
    BY <2>2 DEF c
  <2>4. coupon' = IF Offer(o).coupon THEN [d EXCEPT !.uses[User(o)] = @ + 1] ELSE coupon
    BY DEF FinalizeOperation, c
  <2>. HIDE DEF d
  <2>5. QED
    BY <1>1, <2>1, <2>3, <2>4
<1>6. ledger' \subseteq LedgerEvents
  BY LedgerEventType DEF FinalizeOperation, TypeOK
<1>7. /\ service' \in [Accounts -> Users \union {None}]
      /\ \A a \in Accounts : service'[a] # None => service[a] # None \/ a[1] = o
  BY <1>1 DEF FinalizeOperation, AccountsOf, TypeOK
<1>8. QED
  BY <1>2, <1>3, <1>4, <1>5, <1>6, <1>7

-----------------------------------------------------------------------------
(* The ways an operation ends preserve the invariant *)

(* The types of what a panel keeps.                                        *)
ExternalOK ==
  /\ remote \in [Keys -> RemoteUser]
  /\ wire \subseteq PanelCall
  /\ calls \in [Accounts -> Nat]

(* A release of an open operation preserves the invariant.                 *)
LEMMA ReleasePreserves ==
  ASSUME IInv, ExternalOK', NEW o \in Operations, operation[o].status \in Open,
         NEW reason \in {"cancelled", "failed"}, ReleaseOperation(o, reason),
         UNCHANGED <<plan, panel, quote, crashes>>, running' = None, step' = "idle"
  PROVE  IInv'
<1>1. quote[o] # None
  BY DEF IInv, QuoteInv, Existing, Open
<1>2. /\ operation' \in [Operations -> OperationRow]
      /\ \A p \in Operations :
           /\ operation'[p].status = IF p = o THEN "failed" ELSE operation[p].status
           /\ operation'[p].results = operation[p].results
      /\ account' \in [Users -> AccountRow]
      /\ \A u \in Users : account'[u].role = account[u].role
      /\ stock' \in [StockRows -> StockRow]
      /\ coupon' \in [reserved : Nat, used : Nat, uses : [Users -> Nat]]
      /\ ledger' = ledger \union {<<"release", o>>}
      /\ ledger' \subseteq LedgerEvents
      /\ service' = service
  BY <1>1, ReleaseFacts DEF IInv
<1>3. TypeOK'
  BY <1>2 DEF IInv, TypeOK, ExternalOK, Steps
<1>4. QuoteInv'
  BY <1>2 DEF IInv, QuoteInv, Existing, Open, Kind, Offer
<1>5. TaskInv'
  BY <1>2 DEF IInv, TaskInv
<1>6. LedgerInv'
  BY <1>2 DEF IInv, LedgerInv, LedgerMatchesStatus, CommissionInv, Open
<1>7. RoleInv'
  BY <1>2 DEF IInv, RoleInv
<1>8. QED
  BY <1>3, <1>4, <1>5, <1>6, <1>7 DEF IInv

(* A settlement of an open operation preserves the invariant.              *)
LEMMA FinalizePreserves ==
  ASSUME IInv, ExternalOK', NEW o \in Operations, operation[o].status \in Open,
         FinalizeOperation(o),
         UNCHANGED <<plan, panel, quote, crashes>>, running' = None, step' = "idle"
  PROVE  IInv'
<1>1. quote[o] # None
  BY DEF IInv, QuoteInv, Existing, Open
<1>2. /\ operation' \in [Operations -> OperationRow]
      /\ \A p \in Operations :
           operation'[p].status = IF p = o THEN "done" ELSE operation[p].status
      /\ \A p \in Operations : p # o => operation'[p] = operation[p]
      /\ account' \in [Users -> AccountRow]
      /\ \A u \in Users : account'[u].role = account[u].role
      /\ stock' \in [StockRows -> StockRow]
      /\ coupon' \in [reserved : Nat, used : Nat, uses : [Users -> Nat]]
      /\ ledger' \subseteq LedgerEvents
      /\ service' \in [Accounts -> Users \union {None}]
      /\ \A a \in Accounts : service'[a] # None => service[a] # None \/ a[1] = o
  BY <1>1, FinalizeFacts DEF IInv
<1>3. TypeOK'
  BY <1>2 DEF IInv, TypeOK, ExternalOK, Steps
<1>4. QuoteInv'
  BY <1>1, <1>2 DEF IInv, QuoteInv, Existing, Open, Kind, Offer
<1>5. TaskInv'
  BY <1>2 DEF IInv, TaskInv
<1>6. LedgerInv'
  <2>1. ledger' = ledger \union {<<"settle", o>>}
                         \union (IF Commissioned(o) THEN {<<"commission", o>>} ELSE {})
    BY DEF FinalizeOperation
  <2>2. QED
    BY <1>2, <2>1 DEF IInv, LedgerInv, LedgerMatchesStatus, CommissionInv, Open
<1>7. RoleInv'
  BY <1>2 DEF IInv, RoleInv
<1>8. QED
  BY <1>3, <1>4, <1>5, <1>6, <1>7 DEF IInv

(* A step that changes nothing but the operation row, which stays open, and *)
(* the task.                                                               *)
LEMMA RowStepPreserves ==
  ASSUME IInv, ExternalOK', NEW o \in Operations, NEW op \in OperationRow,
         operation' = [operation EXCEPT ![o] = op],
         operation[o].status \in Open, op.status \in {"sending", "review"},
         running' \in Operations \union {None}, step' \in Steps,
         running' = None <=> step' = "idle",
         running' # None =>
           /\ running' = o /\ op.status = "sending"
           /\ step' = "look" => op.results < Quantity(o)
           /\ step' \in {"create", "finish"} => op.inFlight \in 1 .. Quantity(o)
           /\ step' \in {"read", "update", "confirm"} => quote[o].service # None,
         crashes' \in 0 .. MaxCrashes,
         UNCHANGED <<plan, panel, quote, account, ledger, coupon, stock, service>>
  PROVE  IInv'
<1>1. /\ operation' \in [Operations -> OperationRow]
      /\ \A p \in Operations : p # o => operation'[p] = operation[p]
      /\ operation'[o] = op
  BY DEF IInv, TypeOK
<1>2. TypeOK'
  BY <1>1 DEF IInv, TypeOK, ExternalOK
<1>3. QuoteInv'
  BY <1>1 DEF IInv, QuoteInv, Existing, Open, Kind, Offer
<1>4. TaskInv'
  BY <1>1 DEF IInv, TaskInv, Quantity, Offer
<1>5. LedgerInv'
  BY <1>1 DEF IInv, LedgerInv, LedgerMatchesStatus, CommissionInv, Open
<1>6. RoleInv'
  BY DEF IInv, RoleInv
<1>7. QED
  BY <1>2, <1>3, <1>4, <1>5, <1>6 DEF IInv

(* The catch of the task preserves the invariant.                          *)
LEMMA FailsPreserves ==
  ASSUME IInv, ExternalOK', NEW o \in Operations, running = o,
         NEW outcome, NEW held, Fails(o, outcome, held)
  PROVE  IInv'
<1>1. operation[o] \in OperationRow /\ operation[o].status = "sending"
  BY RowsAssumption DEF IInv, TypeOK, TaskInv
<1>2. CASE Unsafe(operation[o], outcome, held)
  <2>. DEFINE op == [operation[o] EXCEPT !.status = "review"]
  <2>1. op \in OperationRow /\ op.status = "review"
    <3>1. "review" \in Status
      BY DEF Status, Open
    <3>2. op \in OperationRow
      BY <1>1, <3>1, RowFields
    <3>3. QED
      BY <1>1, <3>2 DEF OperationRow
  <2>2. operation' = [operation EXCEPT ![o] = op]
    BY <1>2 DEF Fails
  <2>. HIDE DEF op
  <2>3. QED
    BY <1>1, <1>2, <2>1, <2>2, RowStepPreserves DEF Fails, TaskEnds, IInv, TypeOK, Open, Steps
<1>3. CASE ~Unsafe(operation[o], outcome, held)
  BY <1>1, <1>3, ReleasePreserves DEF Fails, TaskEnds, Open
<1>4. QED
  BY <1>2, <1>3

(* A step of the task that goes on preserves the invariant.                *)
LEMMA ContinuesPreserves ==
  ASSUME IInv, ExternalOK', NEW o \in Operations, running = o,
         NEW op \in OperationRow, op.status = "sending",
         NEW s \in Steps \ {"idle"}, Continues(o, op, s),
         s = "look" => op.results < Quantity(o),
         s \in {"create", "finish"} => op.inFlight \in 1 .. Quantity(o),
         s \in {"read", "update", "confirm"} => quote[o].service # None
  PROVE  IInv'
<1>1. operation[o].status = "sending" /\ o # None
  BY RowsAssumption DEF IInv, TaskInv
<1>2. QED
  BY <1>1, RowStepPreserves DEF Continues, Advance, IInv, TypeOK, Open

-----------------------------------------------------------------------------
(* The actions of customers and administrators *)

LEMMA ExternalUnchanged ==
  ASSUME TypeOK, UNCHANGED external
  PROVE  ExternalOK'
BY DEF TypeOK, ExternalOK, external

(* An adjustment of a wallet preserves the invariant.                      *)
LEMMA AdjustWalletPreserves ==
  ASSUME IInv, NEW adj \in Adjustments, AdjustWallet(adj)
  PROVE  IInv'
<1>1. adj.user \in Users /\ adj.amount \in Int /\ <<"admin", adj.id>> \in LedgerEvents
  BY MoneyAssumption DEF LedgerEvents
<1>2. /\ account' \in [Users -> AccountRow]
      /\ \A u \in Users : account'[u].role = account[u].role
  BY <1>1, PostType DEF AdjustWallet, IInv, TypeOK
<1>3. TypeOK'
  BY <1>1, <1>2 DEF IInv, TypeOK, AdjustWallet, task, external
<1>4. QuoteInv'
  BY DEF IInv, QuoteInv, Existing, Kind, Offer, AdjustWallet
<1>5. TaskInv'
  BY DEF IInv, TaskInv, Quantity, Offer, AdjustWallet, task
<1>6. LedgerInv'
  BY DEF IInv, LedgerInv, LedgerMatchesStatus, CommissionInv, AdjustWallet
<1>7. RoleInv'
  BY <1>2 DEF IInv, RoleInv
<1>8. QED
  BY <1>3, <1>4, <1>5, <1>6, <1>7 DEF IInv

(* A change of role preserves the invariant.                               *)
LEMMA UpdateAccountPreserves ==
  ASSUME IInv, NEW u \in Users, NEW role \in RolesOf[u], UpdateAccount(u, role)
  PROVE  IInv'
<1>1. account' \in [Users -> AccountRow]
  BY MoneyAssumption DEF UpdateAccount, IInv, TypeOK, AccountRow
<1>2. \A v \in Users : account'[v].role = IF v = u THEN role ELSE account[v].role
  BY DEF UpdateAccount, IInv, TypeOK, AccountRow
<1>3. TypeOK'
  BY <1>1 DEF IInv, TypeOK, UpdateAccount, task, external
<1>4. QuoteInv' /\ TaskInv' /\ LedgerInv'
  BY DEF IInv, QuoteInv, TaskInv, LedgerInv, LedgerMatchesStatus, CommissionInv,
         Existing, Kind, Quantity, Offer, UpdateAccount, task
<1>5. RoleInv'
  BY <1>2 DEF IInv, RoleInv
<1>6. QED
  BY <1>3, <1>4, <1>5 DEF IInv

(* A change of standing preserves the invariant.                           *)
LEMMA SetStandingPreserves ==
  ASSUME IInv, NEW u \in Users, NEW standing \in StandingsOf[u], SetStanding(u, standing)
  PROVE  IInv'
<1>1. /\ account' \in [Users -> AccountRow]
      /\ \A v \in Users : account'[v].role = account[v].role
  BY MoneyAssumption DEF SetStanding, IInv, TypeOK, AccountRow
<1>2. TypeOK'
  BY <1>1 DEF IInv, TypeOK, SetStanding, task, external
<1>3. QuoteInv' /\ TaskInv' /\ LedgerInv'
  BY DEF IInv, QuoteInv, TaskInv, LedgerInv, LedgerMatchesStatus, CommissionInv,
         Existing, Kind, Quantity, Offer, SetStanding, task
<1>4. RoleInv'
  BY <1>1 DEF IInv, RoleInv
<1>5. QED
  BY <1>2, <1>3, <1>4 DEF IInv

(* The catalogue and the panels are no part of what is kept invariant.     *)
LEMMA CataloguePreserves ==
  ASSUME IInv, TypeOK',
         UNCHANGED <<quote, operation, account, ledger, coupon, service, task>>
  PROVE  IInv'
BY DEF IInv, QuoteInv, TaskInv, LedgerInv, LedgerMatchesStatus, CommissionInv, RoleInv,
       Existing, Kind, Quantity, Offer, task

(* Saving a plan preserves the invariant.                                  *)
LEMMA SavePlanPreserves ==
  ASSUME IInv, NEW p \in Plans, NEW enabled \in BOOLEAN, SavePlan(p, enabled)
  PROVE  IInv'
<1>1. plan' \in [Plans -> [version : 0 .. MaxVersion, enabled : BOOLEAN]]
  BY BoundsAssumption DEF IInv, TypeOK, SavePlan
<1>2. TypeOK'
  BY <1>1 DEF IInv, TypeOK, SavePlan, task, external
<1>3. QED
  BY <1>2, CataloguePreserves DEF SavePlan

(* Deleting a panel preserves the invariant.                               *)
LEMMA DeletePanelPreserves ==
  ASSUME IInv, NEW p \in Panels, DeletePanel(p)
  PROVE  IInv'
<1>1. TypeOK'
  BY DEF IInv, TypeOK, DeletePanel, task, external
<1>2. QED
  BY <1>1, CataloguePreserves DEF DeletePanel

(* Setting the status of a stock row preserves the invariant.              *)
LEMMA SetStockPreserves ==
  ASSUME IInv, NEW r \in StockRows, NEW from,
         NEW to \in {"available", "disabled", "delivered"}, SetStock(r, from, to)
  PROVE  IInv'
<1>1. stock' \in [StockRows -> StockRow]
  BY DEF IInv, TypeOK, SetStock, StockRow
<1>2. TypeOK'
  BY <1>1 DEF IInv, TypeOK, SetStock, task, external
<1>3. QED
  BY <1>2, CataloguePreserves DEF SetStock

(* A new quote preserves the invariant.                                    *)
LEMMA QuotePreserves ==
  ASSUME IInv, NEW o \in Operations, NEW offer \in Offers, NEW s \in Accounts \union {None},
         Quote(o, offer, s)
  PROVE  IInv'
<1>. DEFINE row == [offer |-> offer, service |-> s, version |-> plan[offer.plan].version,
                    role |-> account[offer.user].role, live |-> TRUE]
<1>1. /\ offer.user \in Users /\ offer.plan \in Plans
      /\ None \notin Users /\ None \notin Accounts
  BY RowsAssumption
<1>2. row \in QuoteRow /\ row # None
  <2>1. row \in QuoteRow
    BY <1>1 DEF IInv, TypeOK, QuoteRow, AccountRow
  <2>2. row \in [offer : Offers, service : Accounts \union {None}, version : Nat,
                 role : Roles, live : BOOLEAN]
    BY <2>1, BoundsAssumption DEF QuoteRow
  <2>3. QED
    BY <2>1, <2>2, RowsAssumption
<1>3. row.offer = offer /\ row.service = s
  OBVIOUS
<1>4. s # None <=> offer.kind = "renew"
  BY <1>1 DEF Quote, ServicesOf
<1>5. s # None => s \in Accounts /\ quote[s[1]] # None
  BY <1>1 DEF Quote, ServicesOf, IInv, QuoteInv
<1>6. quote' = [quote EXCEPT ![o] = row] /\ quote[o] = None
  BY DEF Quote
<1>. HIDE DEF row
<1>7. \A p \in Operations : quote'[p] = IF p = o THEN row ELSE quote[p]
  BY <1>6 DEF IInv, TypeOK
<1>8. TypeOK'
  <2>1. quote' \in [Operations -> QuoteRow \union {None}]
    BY <1>2, <1>6 DEF IInv, TypeOK
  <2>2. QED
    BY <2>1 DEF IInv, TypeOK, Quote, task, external
<1>9. QuoteInv'
  <2>1. \A a \in Accounts : a[1] \in Operations
    BY DEF Accounts
  <2>2. \A a \in Accounts : quote[a[1]] # None => quote'[a[1]] # None
    BY <1>2, <1>7, <2>1
  <2>3. (\A p \in Existing : quote[p] # None)'
    BY <1>2, <1>7 DEF Quote, IInv, QuoteInv, Existing
  <2>4. (\A a \in Accounts : service[a] # None => quote[a[1]] # None)'
    BY <2>2 DEF Quote, IInv, QuoteInv
  <2>5. ASSUME NEW p \in Operations, quote'[p] # None
        PROVE  /\ quote'[p].service # None <=> quote'[p].offer.kind = "renew"
               /\ quote'[p].service # None => quote'[quote'[p].service[1]] # None
    <3>1. CASE p = o
      BY <1>3, <1>4, <1>5, <1>7, <2>2, <3>1
    <3>2. CASE p # o
      <4>1. quote'[p] = quote[p] /\ quote[p] \in QuoteRow
        BY <1>7, <2>5, <3>2 DEF IInv, TypeOK
      <4>2. quote[p].service \in Accounts \union {None}
        BY <4>1 DEF QuoteRow
      <4>3. QED
        BY <2>2, <2>5, <4>1, <4>2 DEF IInv, QuoteInv, Kind, Offer
    <3>3. QED
      BY <3>1, <3>2
  <2>6. QED
    BY <2>3, <2>4, <2>5 DEF QuoteInv, Kind, Offer
<1>10. TaskInv'
  BY DEF Quote, IInv, TaskInv, task
<1>11. LedgerInv' /\ RoleInv'
  BY DEF Quote, IInv, LedgerInv, LedgerMatchesStatus, CommissionInv, RoleInv
<1>12. QED
  BY <1>8, <1>9, <1>10, <1>11 DEF IInv

(* The end of a quote preserves the invariant.                             *)
LEMMA QuoteExpiresPreserves ==
  ASSUME IInv, NEW o \in Operations, QuoteExpires(o)
  PROVE  IInv'
<1>. DEFINE row == [quote[o] EXCEPT !.live = FALSE]
<1>1. quote[o] \in QuoteRow
  BY DEF QuoteExpires, IInv, TypeOK
<1>2. row \in QuoteRow /\ row.offer = quote[o].offer /\ row.service = quote[o].service
  BY <1>1 DEF QuoteRow
<1>3. row # None
  <2>1. row \in [offer : Offers, service : Accounts \union {None}, version : Nat,
                 role : Roles, live : BOOLEAN]
    BY <1>2, BoundsAssumption DEF QuoteRow
  <2>2. QED
    BY <2>1, RowsAssumption
<1>4. quote' = [quote EXCEPT ![o] = row]
  BY DEF QuoteExpires
<1>. HIDE DEF row
<1>5. \A p \in Operations :
        /\ quote'[p] = None <=> quote[p] = None
        /\ quote[p] # None => /\ quote'[p].offer = quote[p].offer
                              /\ quote'[p].service = quote[p].service
  BY <1>2, <1>3, <1>4 DEF QuoteExpires, IInv, TypeOK
<1>6. TypeOK'
  <2>1. quote' \in [Operations -> QuoteRow \union {None}]
    BY <1>2, <1>4 DEF IInv, TypeOK
  <2>2. QED
    BY <2>1 DEF IInv, TypeOK, QuoteExpires, task, external
<1>7. QuoteInv'
  <2>1. \A a \in Accounts : a[1] \in Operations
    BY DEF Accounts
  <2>2. \A p \in Operations : quote[p] # None => quote[p].service \in Accounts \union {None}
    BY DEF IInv, TypeOK, QuoteRow
  <2>3. QED
    BY <1>5, <2>1, <2>2 DEF QuoteExpires, IInv, QuoteInv, Existing, Kind, Offer
<1>8. TaskInv'
  <2>1. running # None => quote[running] # None /\ running \in Operations
    BY DEF IInv, TypeOK, TaskInv, QuoteInv, Existing
  <2>2. QED
    BY <1>5, <2>1 DEF QuoteExpires, IInv, TaskInv, Quantity, Offer, task
<1>9. LedgerInv' /\ RoleInv'
  BY DEF QuoteExpires, IInv, LedgerInv, LedgerMatchesStatus, CommissionInv, RoleInv
<1>10. QED
  BY <1>6, <1>7, <1>8, <1>9 DEF IInv

(* The operations can be counted.                                          *)
LEMMA ExistingIsFinite ==
  Cardinality(Existing) \in Nat
<1>1. IsFiniteSet(Existing)
  BY RowsAssumption, FS_Subset DEF Existing
<1>2. QED
  BY <1>1, FS_CardinalityType

(* The row a purchase writes has its type.                                 *)
LEMMA FreshRow ==
  ASSUME NEW rows \in SUBSET StockRows, NEW n \in Nat
  PROVE  LET op == [FreshOperation EXCEPT !.stock = rows, !.createdAt = n] IN
         /\ op \in OperationRow
         /\ op.status = "queued"
         /\ op.results = 0
<1>. DEFINE row == [FreshOperation EXCEPT !.stock = rows]
<1>1. FreshOperation \in OperationRow
  BY DEF FreshOperation, OperationRow, Status, Open, MaxQuantity
<1>2. row \in OperationRow /\ row.status = "queued" /\ row.results = 0
  BY <1>1, RowFields DEF FreshOperation
<1>. HIDE DEF row
<1>3. [row EXCEPT !.createdAt = n] \in OperationRow
  BY <1>2, RowFields
<1>4. /\ [row EXCEPT !.createdAt = n].status = "queued"
      /\ [row EXCEPT !.createdAt = n].results = 0
  BY <1>2 DEF OperationRow
<1>5. QED
  BY <1>3, <1>4 DEF row

(* A purchase preserves the invariant.                                     *)
LEMMA PurchasePreserves ==
  ASSUME IInv, NEW o \in Operations, NEW rows \in SUBSET StockRows, Purchase(o, rows)
  PROVE  IInv'
<1>. DEFINE n  == Cardinality(Existing) + 1
            op == [FreshOperation EXCEPT !.stock = rows, !.createdAt = n]
<1>1. quote[o] # None /\ operation[o].status = "none"
  BY DEF Purchase, Existing
<1>2. op \in OperationRow /\ op.status = "queued" /\ op.results = 0
  <2>1. n \in Nat
    BY ExistingIsFinite
  <2>. HIDE DEF n
  <2>2. QED
    BY <2>1, FreshRow
<1>3. operation' = [operation EXCEPT ![o] = op]
  BY DEF Purchase
<1>. HIDE DEF op
<1>4. /\ operation' \in [Operations -> OperationRow]
      /\ \A p \in Operations : p # o => operation'[p] = operation[p]
      /\ operation'[o] = op
  BY <1>2, <1>3 DEF IInv, TypeOK
<1>5. /\ account' \in [Users -> AccountRow]
      /\ \A u \in Users : account'[u].role = account[u].role
  <2>1. User(o) \in Users /\ Amount(o) \in Int
    BY <1>1, OfferType DEF IInv
  <2>. DEFINE held == Post(account, <<"hold", o>>, User(o), 0, Amount(o))
  <2>2. /\ held \in [Users -> AccountRow]
        /\ \A u \in Users : held[u].role = account[u].role
    BY <2>1, PostType DEF IInv, TypeOK
  <2>. HIDE DEF held
  <2>3. account' = held
    BY DEF Purchase, held
  <2>4. QED
    BY <2>2, <2>3
<1>6. coupon' \in [reserved : Nat, used : Nat, uses : [Users -> Nat]]
  BY DEF Purchase, IInv, TypeOK
<1>7. stock' \in [StockRows -> StockRow]
  BY DEF Purchase, IInv, TypeOK, StockRow
<1>8. TypeOK'
  BY <1>4, <1>5, <1>6, <1>7, LedgerEventType DEF Purchase, IInv, TypeOK, task, external
<1>9. QuoteInv'
  BY <1>1, <1>4 DEF Purchase, IInv, QuoteInv, Existing, Kind, Offer
<1>10. TaskInv'
  BY <1>2, <1>4 DEF Purchase, IInv, TaskInv, Quantity, Offer, task
<1>11. LedgerInv'
  BY <1>1, <1>2, <1>4 DEF Purchase, IInv, LedgerInv, LedgerMatchesStatus, CommissionInv
<1>12. RoleInv'
  BY <1>5 DEF IInv, RoleInv
<1>13. QED
  BY <1>8, <1>9, <1>10, <1>11, <1>12 DEF IInv

(* A cancellation preserves the invariant.                                 *)
LEMMA CancelOperationPreserves ==
  ASSUME IInv, NEW o \in Operations, CancelOperation(o)
  PROVE  IInv'
<1>1. ExternalOK'
  BY ExternalUnchanged DEF CancelOperation, IInv
<1>2. running' = None /\ step' = "idle"
  BY DEF CancelOperation, IInv, TaskInv, task
<1>3. QED
  BY <1>1, <1>2, ReleasePreserves DEF CancelOperation, Open

(* A reconciliation preserves the invariant.                               *)
LEMMA ReconcileOperationPreserves ==
  ASSUME IInv, NEW o \in Operations, ReconcileOperation(o)
  PROVE  IInv'
<1>1. ExternalOK'
  BY ExternalUnchanged DEF ReconcileOperation, IInv
<1>2. running' = None /\ step' = "idle"
  BY DEF ReconcileOperation, IInv, TaskInv, task
<1>3. QED
  BY <1>1, <1>2, FinalizePreserves DEF ReconcileOperation, Open

-----------------------------------------------------------------------------
(* The steps of the engine *)

(* An operation row whose status only is replaced.                         *)
LEMMA StatusRow ==
  ASSUME TypeOK, NEW o \in Operations, NEW status \in {"sending", "review"}
  PROVE  LET op == [operation[o] EXCEPT !.status = status] IN
         op \in OperationRow /\ op.status = status /\ op.results = operation[o].results
<1>1. operation[o] \in OperationRow /\ status \in Status
  BY DEF TypeOK, Status, Open
<1>2. [operation[o] EXCEPT !.status = status] \in OperationRow
  BY <1>1, RowFields
<1>3. QED
  BY <1>1, <1>2 DEF OperationRow

(* The start of a task, or the parking of an interrupted one, preserves the invariant. *)
LEMMA ProcessOperationPreserves ==
  ASSUME IInv, NEW o \in Operations, ProcessOperation(o)
  PROVE  IInv'
<1>1. CASE Interrupted(o)
  <2>. DEFINE op == [operation[o] EXCEPT !.status = "review"]
  <2>1. op \in OperationRow /\ op.status = "review"
    BY StatusRow DEF IInv
  <2>2. operation' = [operation EXCEPT ![o] = op]
    BY <1>1 DEF Interrupted
  <2>3. ExternalOK'
    BY <1>1, ExternalUnchanged DEF Interrupted, IInv
  <2>4. running' = None /\ step' = "idle" /\ crashes' \in 0 .. MaxCrashes
    BY <1>1 DEF Interrupted, IInv, TypeOK, TaskInv, task
  <2>. HIDE DEF op
  <2>5. QED
    BY <1>1, <2>1, <2>2, <2>3, <2>4, RowStepPreserves DEF Interrupted, Open, Steps
<1>2. CASE Begin(o)
  <2>. DEFINE op == [operation[o] EXCEPT !.status = "sending"]
  <2>1. op \in OperationRow /\ op.status = "sending" /\ op.results = operation[o].results
    BY StatusRow DEF IInv
  <2>2. operation' = [operation EXCEPT ![o] = op]
    BY <1>2 DEF Begin
  <2>3. ExternalOK'
    BY <1>2, ExternalUnchanged DEF Begin, IInv
  <2>4. /\ quote[o] # None /\ operation[o].results = 0
        /\ Kind(o) = "renew" => quote[o].service # None
    BY <1>2 DEF Begin, IInv, QuoteInv, TaskInv, Existing
  <2>5. Quantity(o) \in Indexes /\ o # None
    BY <2>4, OfferType, RowsAssumption DEF IInv
  <2>6. /\ running' = o /\ step' \in {"fill", "read", "look"} /\ crashes' \in 0 .. MaxCrashes
        /\ step' = "read" => Kind(o) = "renew"
    BY <1>2 DEF Begin, IInv, TypeOK
  <2>. HIDE DEF op
  <2>7. step' = "look" => op.results < Quantity(o)
    BY <2>1, <2>4, <2>5 DEF Indexes
  <2>8. QED
    BY <1>2, <2>1, <2>2, <2>3, <2>4, <2>5, <2>6, <2>7, RowStepPreserves DEF Begin, Open, Steps
<1>3. QED
  BY <1>1, <1>2 DEF ProcessOperation

(* What holds at every step of the task.                                   *)
LEMMA TaskFacts ==
  ASSUME IInv, NEW o \in Operations, running = o
  PROVE  /\ o # None /\ quote[o] # None
         /\ operation[o] \in OperationRow /\ operation[o].status = "sending"
         /\ Quantity(o) \in Indexes
         /\ step = "look" => operation[o].results < Quantity(o)
         /\ step \in {"create", "finish"} => operation[o].inFlight \in 1 .. Quantity(o)
         /\ step \in {"read", "update", "confirm"} =>
              /\ quote[o].service \in Accounts
              /\ RemoteKey(quote[o].service) \in Keys
<1>1. o # None /\ operation[o].status = "sending"
  BY RowsAssumption DEF IInv, TaskInv
<1>2. quote[o] # None
  BY <1>1 DEF IInv, QuoteInv, Existing
<1>3. quote[o].service \in Accounts \union {None}
  BY <1>2 DEF IInv, TypeOK, QuoteRow
<1>4. quote[o].service # None =>
        quote[o].service \in Accounts /\ RemoteKey(quote[o].service) \in Keys
  BY <1>2, <1>3, KeyType DEF IInv, QuoteInv
<1>5. QED
  BY <1>1, <1>2, <1>4, OfferType DEF IInv, TypeOK, TaskInv

(* Filling an operation from stock preserves the invariant.                *)
LEMMA FillFromStockPreserves ==
  ASSUME IInv, NEW o \in Operations, NEW outcome, FillFromStock(o, outcome)
  PROVE  IInv'
<1>1. running = o /\ ExternalOK'
  BY ExternalUnchanged DEF FillFromStock, At, IInv
<1>2. CASE Continues(o, operation[o], "commit")
  BY <1>1, <1>2, TaskFacts, ContinuesPreserves DEF Steps
<1>3. CASE \E held \in 0 .. Quantity(o) - 1 : Fails(o, "failed", held)
  BY <1>1, <1>3, FailsPreserves
<1>4. QED
  BY <1>2, <1>3 DEF FillFromStock

(* The look-up before a creation preserves the invariant.                  *)
LEMMA LookForAccountPreserves ==
  ASSUME IInv, NEW o \in Operations, NEW outcome, LookForAccount(o, outcome)
  PROVE  IInv'
<1>. DEFINE k  == operation[o].results + 1
            op == [operation[o] EXCEPT !.inFlight = k]
<1>1. running = o /\ step = "look" /\ ExternalOK'
  BY ExternalUnchanged DEF LookForAccount, At, IInv
<1>2. /\ k \in 1 .. Quantity(o) /\ k \in 0 .. MaxQuantity
      /\ operation[o] \in OperationRow /\ operation[o].status = "sending"
  BY <1>1, TaskFacts DEF OperationRow, Indexes, MaxQuantity
<1>. HIDE DEF k
<1>3. op \in OperationRow /\ op.status = "sending" /\ op.inFlight = k
  <2>1. op \in OperationRow
    BY <1>2, RowFields
  <2>2. op.status = "sending" /\ op.inFlight = k
    BY <1>2 DEF OperationRow
  <2>3. QED
    BY <2>1, <2>2
<1>4. Continues(o, op, "create") \/ \E result : Fails(o, result, 0)
  BY DEF LookForAccount, k
<1>. HIDE DEF op
<1>5. CASE Continues(o, op, "create")
  BY <1>1, <1>2, <1>3, <1>5, ContinuesPreserves DEF Steps
<1>6. CASE \E result : Fails(o, result, 0)
  BY <1>1, <1>6, FailsPreserves
<1>7. QED
  BY <1>4, <1>5, <1>6

(* A panel that carries out a call keeps the type of its users.            *)
LEMMA EffectType ==
  ASSUME TypeOK, NEW call \in PanelCall
  PROVE  Effect(call) \in [Keys -> RemoteUser]
BY DEF TypeOK, Effect, PanelCall, RemoteUser

(* A call, whatever its outcome, keeps the types of the panels' side.      *)
LEMMA PanelReceivesType ==
  ASSUME TypeOK, NEW a \in Accounts, NEW call \in PanelCall, NEW outcome,
         PanelReceives(a, call, outcome)
  PROVE  ExternalOK'
<1>1. Effect(call) \in [Keys -> RemoteUser]
  BY EffectType
<1>2. QED
  BY <1>1 DEF PanelReceives, ExternalOK, TypeOK

(* The calls the engine makes have the type of calls.                      *)
LEMMA CallTypes ==
  ASSUME IInv, NEW o \in Operations, running = o
  PROVE  /\ step = "create" => /\ <<o, operation[o].inFlight>> \in Accounts
                               /\ CreateCall(o) \in PanelCall
         /\ step = "update" => /\ <<o, 1>> \in Accounts
                               /\ UpdateCall(o) \in PanelCall
<1>1. CASE step = "create"
  <2>1. <<o, operation[o].inFlight>> \in Accounts
    <3>1. operation[o].inFlight \in Indexes
      BY <1>1, TaskFacts DEF Indexes, MaxQuantity
    <3>2. QED
      BY <3>1, AccountsType
  <2>2. RemoteKey(<<o, operation[o].inFlight>>) \in Keys
    BY <2>1, TaskFacts, KeyType DEF IInv
  <2>3. QED
    BY <1>1, <2>1, <2>2 DEF CreateCall, PanelCall
<1>2. CASE step = "update"
  <2>1. <<o, 1>> \in Accounts
    <3>1. 1 \in Indexes
      BY DEF Indexes, MaxQuantity
    <3>2. QED
      BY <3>1, AccountsType
  <2>2. RemoteKey(quote[o].service) \in Keys /\ operation[o].desired \in Nat
    BY <1>2, TaskFacts DEF OperationRow
  <2>3. QED
    BY <1>2, <2>1, <2>2 DEF UpdateCall, PanelCall
<1>3. QED
  BY <1>1, <1>2

(* The creation of an account preserves the invariant.                     *)
LEMMA CreateAccountPreserves ==
  ASSUME IInv, NEW o \in Operations, NEW outcome, CreateAccount(o, outcome)
  PROVE  IInv'
<1>. DEFINE k  == operation[o].inFlight
            op == [operation[o] EXCEPT !.created = k]
<1>1. running = o /\ step = "create"
  BY DEF CreateAccount, At
<1>2. ExternalOK'
  BY <1>1, CallTypes, PanelReceivesType DEF CreateAccount, IInv
<1>3. /\ k \in 1 .. Quantity(o) /\ k \in 0 .. MaxQuantity
      /\ operation[o] \in OperationRow /\ operation[o].status = "sending"
  BY <1>1, TaskFacts DEF OperationRow, Indexes, MaxQuantity
<1>4. op \in OperationRow /\ op.status = "sending" /\ op.inFlight = k
  <2>1. op \in OperationRow
    BY <1>3, RowFields
  <2>2. QED
    BY <1>3, <2>1 DEF OperationRow
<1>5. Continues(o, op, "finish") \/ Fails(o, outcome, 0)
  BY DEF CreateAccount
<1>. HIDE DEF op
<1>6. CASE Continues(o, op, "finish")
  BY <1>1, <1>2, <1>3, <1>4, <1>6, ContinuesPreserves DEF Steps
<1>7. CASE Fails(o, outcome, 0)
  BY <1>1, <1>2, <1>7, FailsPreserves
<1>8. QED
  BY <1>5, <1>6, <1>7

(* The end of a creation preserves the invariant.                          *)
LEMMA FinishCreatePreserves ==
  ASSUME IInv, NEW o \in Operations, NEW outcome, FinishCreate(o, outcome)
  PROVE  IInv'
<1>. DEFINE k   == operation[o].inFlight
            row == [operation[o] EXCEPT !.results = k]
            op  == [row EXCEPT !.inFlight = 0]
            s   == IF k = Quantity(o) THEN "commit" ELSE "look"
<1>1. running = o /\ step = "finish" /\ ExternalOK'
  BY ExternalUnchanged DEF FinishCreate, At, IInv
<1>2. /\ k \in 1 .. Quantity(o) /\ k \in 0 .. MaxQuantity /\ 0 \in 0 .. MaxQuantity
      /\ operation[o] \in OperationRow /\ operation[o].status = "sending"
      /\ Quantity(o) \in Nat
  BY <1>1, TaskFacts DEF OperationRow, Indexes, MaxQuantity
<1>3. row \in OperationRow /\ row.status = "sending" /\ row.results = k
  <2>1. row \in OperationRow
    BY <1>2, RowFields
  <2>2. QED
    BY <1>2, <2>1 DEF OperationRow
<1>4. Continues(o, op, s) \/ Fails(o, outcome, 0)
  BY DEF FinishCreate
<1>. HIDE DEF row
<1>5. op \in OperationRow /\ op.status = "sending" /\ op.results = k
  <2>1. op \in OperationRow
    BY <1>2, <1>3, RowFields
  <2>2. QED
    BY <1>3, <2>1 DEF OperationRow
<1>6. /\ s \in {"commit", "look"}
      /\ s = "look" => k < Quantity(o)
  BY <1>2
<1>. HIDE DEF op, s
<1>7. CASE Continues(o, op, s)
  BY <1>1, <1>5, <1>6, <1>7, ContinuesPreserves DEF Steps
<1>8. CASE Fails(o, outcome, 0)
  BY <1>1, <1>8, FailsPreserves
<1>9. QED
  BY <1>4, <1>7, <1>8

(* The read before a renewal preserves the invariant.                      *)
LEMMA ReadServicePreserves ==
  ASSUME IInv, NEW o \in Operations, NEW outcome, ReadService(o, outcome)
  PROVE  IInv'
<1>. DEFINE level == remote[RemoteKey(quote[o].service)].level
            goal  == level + 1
            read  == [operation[o] EXCEPT !.before = level]
            aimed == [read EXCEPT !.desired = goal]
            op    == [aimed EXCEPT !.dispatched = TRUE]
<1>1. running = o /\ step = "read" /\ ExternalOK'
  BY ExternalUnchanged DEF ReadService, At, IInv
<1>2. /\ level \in Nat /\ goal \in Nat /\ operation[o] \in OperationRow /\ operation[o].status = "sending"
      /\ quote[o].service # None
  BY <1>1, TaskFacts, RowsAssumption DEF IInv, TypeOK, RemoteUser
<1>3. Continues(o, op, "update") \/ \E result : Fails(o, result, 0)
  BY DEF ReadService
<1>. HIDE DEF level, goal
<1>4. read \in OperationRow /\ read.status = "sending"
  <2>1. read \in OperationRow
    BY <1>2, RowFields
  <2>2. QED
    BY <1>2, <2>1 DEF OperationRow
<1>. HIDE DEF read
<1>5. aimed \in OperationRow /\ aimed.status = "sending"
  <2>1. aimed \in OperationRow
    BY <1>2, <1>4, RowFields
  <2>2. QED
    BY <1>4, <2>1 DEF OperationRow
<1>. HIDE DEF aimed
<1>6. op \in OperationRow /\ op.status = "sending"
  <2>1. op \in OperationRow
    BY <1>5, RowFields
  <2>2. QED
    BY <1>5, <2>1 DEF OperationRow
<1>. HIDE DEF op
<1>7. CASE Continues(o, op, "update")
  BY <1>1, <1>2, <1>6, <1>7, ContinuesPreserves DEF Steps
<1>8. CASE \E result : Fails(o, result, 0)
  BY <1>1, <1>8, FailsPreserves
<1>9. QED
  BY <1>3, <1>7, <1>8

(* The update of a renewal preserves the invariant.                        *)
LEMMA UpdateServicePreserves ==
  ASSUME IInv, NEW o \in Operations, NEW outcome, UpdateService(o, outcome)
  PROVE  IInv'
<1>1. running = o /\ step = "update"
  BY DEF UpdateService, At
<1>2. ExternalOK'
  BY <1>1, CallTypes, PanelReceivesType DEF UpdateService, IInv
<1>3. /\ operation[o] \in OperationRow /\ operation[o].status = "sending"
      /\ quote[o].service # None
  BY <1>1, TaskFacts, RowsAssumption
<1>4. CASE Continues(o, operation[o], "confirm")
  BY <1>1, <1>2, <1>3, <1>4, ContinuesPreserves DEF Steps
<1>5. CASE Fails(o, outcome, 0)
  BY <1>1, <1>2, <1>5, FailsPreserves
<1>6. QED
  BY <1>4, <1>5 DEF UpdateService

(* The read after a renewal preserves the invariant.                       *)
LEMMA ConfirmUpdatePreserves ==
  ASSUME IInv, NEW o \in Operations, NEW outcome, ConfirmUpdate(o, outcome)
  PROVE  IInv'
<1>1. running = o /\ ExternalOK'
  BY ExternalUnchanged DEF ConfirmUpdate, At, IInv
<1>2. CASE Continues(o, operation[o], "commit")
  BY <1>1, <1>2, TaskFacts, ContinuesPreserves DEF Steps
<1>3. CASE Fails(o, outcome, 0)
  BY <1>1, <1>3, FailsPreserves
<1>4. QED
  BY <1>2, <1>3 DEF ConfirmUpdate

(* The commit of the task preserves the invariant.                         *)
LEMMA CommitPreserves ==
  ASSUME IInv, NEW o \in Operations, Commit(o)
  PROVE  IInv'
<1>1. running = o /\ ExternalOK' /\ operation[o].status \in Open
  BY ExternalUnchanged, TaskFacts DEF Commit, At, IInv, Open
<1>2. CASE Finalizable(o)
  BY <1>1, <1>2, FinalizePreserves DEF Commit, TaskEnds
<1>3. CASE ~Finalizable(o)
  BY <1>1, <1>3, FailsPreserves DEF Commit
<1>4. QED
  BY <1>2, <1>3

(* An eviction preserves the invariant.                                    *)
LEMMA CrashPreserves ==
  ASSUME IInv, Crash
  PROVE  IInv'
<1>1. running \in Operations
  BY DEF Crash, IInv, TypeOK
<1>2. ExternalOK'
  <2>1. CASE UNCHANGED external
    BY <2>1, ExternalUnchanged DEF IInv
  <2>2. CASE \E outcome \in Outcomes \intersect Uncertain :
               step = "create" /\ PanelReceives(<<running, operation[running].inFlight>>,
                                                CreateCall(running), outcome)
    BY <1>1, <2>2, CallTypes, PanelReceivesType DEF IInv
  <2>3. CASE \E outcome \in Outcomes \intersect Uncertain :
               step = "update" /\ PanelReceives(<<running, 1>>, UpdateCall(running), outcome)
    BY <1>1, <2>3, CallTypes, PanelReceivesType DEF IInv
  <2>4. QED
    BY <2>1, <2>2, <2>3 DEF Crash
<1>3. crashes' \in 0 .. MaxCrashes
  BY BoundsAssumption DEF Crash, IInv, TypeOK
<1>4. TypeOK'
  BY <1>2, <1>3 DEF Crash, TaskEnds, durable, IInv, TypeOK, ExternalOK, Steps
<1>5. TaskInv'
  BY DEF Crash, TaskEnds, durable, IInv, TaskInv
<1>6. QuoteInv' /\ LedgerInv' /\ RoleInv'
  BY DEF Crash, durable, IInv, QuoteInv, LedgerInv, LedgerMatchesStatus, CommissionInv,
         RoleInv, Existing, Kind, Offer
<1>7. QED
  BY <1>4, <1>5, <1>6 DEF IInv

(* A call that takes effect late preserves the invariant.                  *)
LEMMA LateEffectPreserves ==
  ASSUME IInv, NEW call \in wire, LateEffect(call)
  PROVE  IInv'
<1>1. call \in PanelCall
  BY DEF IInv, TypeOK
<1>2. Effect(call) \in [Keys -> RemoteUser]
  BY <1>1, EffectType DEF IInv
<1>3. TypeOK'
  BY <1>2 DEF LateEffect, IInv, TypeOK, durable, task
<1>4. QED
  BY <1>3, CataloguePreserves DEF LateEffect, durable

(* Every step of the task preserves the invariant.                         *)
LEMMA TaskStepPreserves ==
  ASSUME IInv, NEW o \in Operations, TaskStep(o)
  PROVE  IInv'
BY LookForAccountPreserves, FinishCreatePreserves, ReadServicePreserves, ConfirmUpdatePreserves,
   CreateAccountPreserves, UpdateServicePreserves, FillFromStockPreserves, CommitPreserves
   DEF TaskStep

-----------------------------------------------------------------------------
(* The invariant *)

LEMMA InitIInv == Init => IInv
<1>. SUFFICES ASSUME Init PROVE IInv
  OBVIOUS
<1>1. Existing = {}
  BY DEF Init, Existing, NoOperation, FreshOperation
<1>2. operation \in [Operations -> OperationRow]
  <2>1. FreshOperation \in OperationRow
    BY DEF FreshOperation, OperationRow, Status, Open, MaxQuantity
  <2>2. "none" \in Status
    BY DEF Status
  <2>3. NoOperation \in OperationRow
    BY <2>1, <2>2, RowFields DEF NoOperation
  <2>4. QED
    BY <2>3 DEF Init
<1>3. \A o \in Operations : operation[o].status = "none"
  BY DEF Init, NoOperation, FreshOperation
<1>4. TypeOK
  <2>1. account \in [Users -> AccountRow]
    BY MoneyAssumption DEF Init, AccountRow, Roles, Standings
  <2>2. plan \in [Plans -> [version : 0 .. MaxVersion, enabled : BOOLEAN]] /\ crashes \in 0 .. MaxCrashes
    BY BoundsAssumption DEF Init
  <2>3. remote \in [Keys -> RemoteUser] /\ wire \subseteq PanelCall /\ calls \in [Accounts -> Nat]
    BY DEF Init, NoAccount, RemoteUser
  <2>4. stock \in [StockRows -> StockRow] /\ coupon \in [reserved : Nat, used : Nat, uses : [Users -> Nat]]
    BY DEF Init, NoStock, StockRow
  <2>5. /\ panel \subseteq Panels /\ quote \in [Operations -> QuoteRow \union {None}]
        /\ ledger \subseteq LedgerEvents /\ service \in [Accounts -> Users \union {None}]
        /\ running \in Operations \union {None} /\ step \in Steps
    BY DEF Init, Steps
  <2>6. QED
    BY <1>2, <2>1, <2>2, <2>3, <2>4, <2>5 DEF TypeOK
<1>5. QuoteInv
  BY <1>1 DEF Init, QuoteInv
<1>6. TaskInv
  BY <1>3 DEF Init, TaskInv
<1>7. LedgerInv
  BY <1>3 DEF Init, LedgerInv, LedgerMatchesStatus, CommissionInv
<1>8. RoleInv
  BY DEF Init, RoleInv
<1>9. QED
  BY <1>4, <1>5, <1>6, <1>7, <1>8 DEF IInv

(* Every step of the specification preserves the invariant.                *)
LEMMA NextIInv == IInv /\ [Next]_vars => IInv'
<1>. SUFFICES ASSUME IInv, [Next]_vars PROVE IInv'
  OBVIOUS
<1>1. CASE Tick
  BY <1>1, ProcessOperationPreserves DEF Tick, Runnable
<1>2. CASE Engine
  BY <1>2, TaskStepPreserves DEF Engine
<1>3. CASE Customer
  <2>1. ASSUME Unquoted # {}, NEW offer \in Offers, NEW s \in Accounts \union {None},
               Quote(CHOOSE o \in Unquoted : TRUE, offer, s)
        PROVE  IInv'
    BY <2>1, QuotePreserves DEF Unquoted
  <2>2. QED
    BY <1>3, <2>1, QuoteExpiresPreserves, PurchasePreserves, CancelOperationPreserves DEF Customer
<1>4. CASE Administrator
  <2>1. ASSUME NEW r \in StockRows, DisableStock(r) \/ ManualStockSale(r)
        PROVE  IInv'
    BY <2>1, SetStockPreserves DEF DisableStock, ManualStockSale
  <2>2. QED
    BY <1>4, <2>1, AdjustWalletPreserves, UpdateAccountPreserves, SetStandingPreserves,
       SavePlanPreserves, DeletePanelPreserves, ProcessOperationPreserves, ReconcileOperationPreserves
       DEF Administrator
<1>5. CASE Crash
  BY <1>5, CrashPreserves
<1>6. CASE \E call \in wire : LateEffect(call)
  BY <1>6, LateEffectPreserves
<1>7. CASE UNCHANGED vars
  <2>1. TypeOK'
    BY <1>7 DEF vars, durable, task, external, IInv, TypeOK
  <2>2. QED
    BY <1>7, <2>1, CataloguePreserves DEF vars, durable, task
<1>8. QED
  BY <1>1, <1>2, <1>3, <1>4, <1>5, <1>6, <1>7 DEF Next

(* The invariant holds in every behaviour of the engine.                   *)
THEOREM Invariance == Spec => []IInv
BY InitIInv, NextIInv, PTL DEF Spec

(* Every variable keeps its type, in every behaviour of the engine.        *)
THEOREM TypeCorrect == Spec => []TypeOK
<1>1. IInv => TypeOK
  BY DEF IInv
<1>2. QED
  BY <1>1, Invariance, PTL

(* In every behaviour the ledger holds the reservation of each operation,  *)
(* the settlement of exactly the done ones and the release of exactly the  *)
(* failed ones: none is paid and released, none is paid for twice.         *)
THEOREM LedgerTellsStatus == Spec => []LedgerMatchesStatus
<1>1. IInv => LedgerMatchesStatus
  BY DEF IInv, LedgerInv
<1>2. QED
  BY <1>1, Invariance, PTL

-----------------------------------------------------------------------------
(* What has ended stays as it ended *)

Ended(o) == operation[o].status \in {"done", "failed"}

(* A step changes at most one operation, which has not ended.              *)
RowsKept == \A p \in Operations : Ended(p) => operation'[p] = operation[p]

(* A step that changes one row, of an operation still open, keeps what has ended. *)
LEMMA RowChangeKeeps ==
  ASSUME TypeOK, NEW o \in Operations, ~Ended(o),
         \A p \in Operations : p # o => operation'[p] = operation[p]
  PROVE  RowsKept
BY DEF RowsKept

(* A step of the task keeps what has ended.                                *)
LEMMA TaskKeepsEnded ==
  ASSUME IInv, NEW o \in Operations, TaskStep(o)
  PROVE  RowsKept
<1>1. running = o
  BY DEF TaskStep, LookForAccount, FinishCreate, ReadService, ConfirmUpdate, CreateAccount,
         UpdateService, FillFromStock, Commit, At
<1>2. ~Ended(o)
  BY <1>1, TaskFacts DEF Ended
<1>3. ASSUME NEW op, NEW s, Continues(o, op, s)
      PROVE  RowsKept
  BY <1>2, <1>3, RowChangeKeeps DEF Continues, IInv, TypeOK
<1>4. ASSUME NEW outcome, NEW held, Fails(o, outcome, held)
      PROVE  RowsKept
  BY <1>2, <1>4, RowChangeKeeps DEF Fails, ReleaseOperation, IInv, TypeOK
<1>5. ASSUME FinalizeOperation(o)
      PROVE  RowsKept
  BY <1>2, <1>5, RowChangeKeeps DEF FinalizeOperation, IInv, TypeOK
<1>6. ASSUME NEW outcome, LookForAccount(o, outcome)
      PROVE  RowsKept
  BY <1>3, <1>4, <1>6 DEF LookForAccount
<1>7. ASSUME NEW outcome, FinishCreate(o, outcome)
      PROVE  RowsKept
  BY <1>3, <1>4, <1>7 DEF FinishCreate
<1>8. ASSUME NEW outcome, ReadService(o, outcome)
      PROVE  RowsKept
  BY <1>3, <1>4, <1>8 DEF ReadService
<1>9. ASSUME NEW outcome, CreateAccount(o, outcome) \/ UpdateService(o, outcome)
                           \/ ConfirmUpdate(o, outcome) \/ FillFromStock(o, outcome)
      PROVE  RowsKept
  BY <1>3, <1>4, <1>9 DEF CreateAccount, UpdateService, ConfirmUpdate, FillFromStock
<1>10. ASSUME Commit(o)
       PROVE  RowsKept
  BY <1>4, <1>5, <1>10 DEF Commit
<1>11. QED
  BY <1>6, <1>7, <1>8, <1>9, <1>10 DEF TaskStep

(* Every step keeps what has ended.                                        *)
LEMMA NextKeepsEnded == IInv /\ [Next]_vars => RowsKept
<1>. SUFFICES ASSUME IInv, [Next]_vars PROVE RowsKept
  OBVIOUS
<1>1. ASSUME UNCHANGED operation PROVE RowsKept
  BY <1>1 DEF RowsKept
<1>2. ASSUME NEW o \in Operations, ProcessOperation(o) PROVE RowsKept
  BY <1>2, RowChangeKeeps DEF ProcessOperation, Interrupted, Begin, Ended, IInv, TypeOK
<1>3. ASSUME NEW o \in Operations, NEW rows, Purchase(o, rows) PROVE RowsKept
  BY <1>3, RowChangeKeeps DEF Purchase, Existing, Ended, IInv, TypeOK
<1>4. ASSUME NEW o \in Operations, CancelOperation(o) PROVE RowsKept
  BY <1>4, RowChangeKeeps DEF CancelOperation, ReleaseOperation, Ended, IInv, TypeOK
<1>5. ASSUME NEW o \in Operations, ReconcileOperation(o) PROVE RowsKept
  BY <1>5, RowChangeKeeps DEF ReconcileOperation, FinalizeOperation, Ended, IInv, TypeOK
<1>6. CASE Tick
  BY <1>2, <1>6 DEF Tick, Runnable
<1>7. CASE Engine
  BY <1>7, TaskKeepsEnded DEF Engine
<1>8. CASE Customer
  BY <1>1, <1>3, <1>4, <1>8 DEF Customer, Quote, QuoteExpires
<1>9. CASE Administrator
  BY <1>1, <1>2, <1>5, <1>9 DEF Administrator, AdjustWallet, UpdateAccount, SetStanding,
     SavePlan, DeletePanel, DisableStock, ManualStockSale, SetStock
<1>10. CASE Crash \/ (\E call \in wire : LateEffect(call)) \/ UNCHANGED vars
  BY <1>1, <1>10 DEF Crash, LateEffect, durable, vars
<1>11. QED
  BY <1>6, <1>7, <1>8, <1>9, <1>10 DEF Next

(* A done or failed operation never changes again: not by a repeated run,  *)
(* a reconciliation, a cancellation or a step of the task.                 *)
THEOREM EndedForever == Spec => TerminalForever
<1>1. IInv /\ [Next]_vars =>
        [\A o \in Operations :
           operation[o].status \in {"done", "failed"} => operation'[o] = operation[o]]_vars
  BY NextKeepsEnded DEF RowsKept, Ended
<1>2. QED
  BY <1>1, Invariance, PTL DEF Spec, TerminalForever

-----------------------------------------------------------------------------
(* The engine implements Escrow *)

LEMMA EndingsPost ==
  ASSUME IInv, NEW o \in Operations, operation[o].status \in Open
  PROVE  /\ quote[o] # None
         /\ User(o) \in Users /\ Amount(o) \in Nat
         /\ <<"settle", o>> \notin ledger /\ <<"release", o>> \notin ledger
         /\ <<"commission", o>> \notin ledger
         /\ OrderView[o] = [phase |-> "reserved", payer |-> User(o), price |-> Amount(o)]
         /\ Money!Placed(o, "reserved")
<1>1. quote[o] # None
  BY DEF IInv, QuoteInv, Existing, Open
<1>2. User(o) \in Users /\ Amount(o) \in Nat
  BY <1>1, OfferType DEF IInv
<1>3. /\ <<"settle", o>> \notin ledger /\ <<"release", o>> \notin ledger
      /\ <<"commission", o>> \notin ledger
  BY DEF IInv, LedgerInv, LedgerMatchesStatus, CommissionInv, Open
<1>4. OrderView[o] = [phase |-> "reserved", payer |-> User(o), price |-> Amount(o)]
  BY DEF OrderView, Phase, Open
<1>5. OrderView[o] # None
  <2>1. OrderView[o] \in [phase : {"reserved", "settled", "released"}, payer : Users, price : Nat]
    BY <1>2, <1>4
  <2>2. QED
    BY <2>1, RowsAssumption
<1>6. QED
  BY <1>1, <1>2, <1>3, <1>4, <1>5 DEF Money!Placed

(* What a new event does to balances and holds.                            *)
Moved(after, before, u, delta, hold) ==
  \A v \in Users :
    /\ after[v].balance = IF v = u THEN before[u].balance + delta ELSE before[v].balance
    /\ after[v].held = IF v = u THEN before[u].held + hold ELSE before[v].held

(* A new event moves the wallet it is posted to.                           *)
LEMMA PostView ==
  ASSUME NEW wallets \in [Users -> AccountRow], NEW event, event \notin ledger, NEW u \in Users,
         NEW delta \in Int, NEW hold \in Int
  PROVE  Moved(Post(wallets, event, u, delta, hold), wallets, u, delta, hold)
BY PostRows DEF Moved

(* Orders keep their payer and price as long as quotes keep their offers.  *)
LEMMA OrderStep ==
  ASSUME IInv, NEW o \in Operations, NEW phase,
         operation[o].status # "none", operation'[o].status # "none",
         Phase(operation'[o].status) = phase,
         \A p \in Operations : p # o => operation'[p].status = operation[p].status,
         UNCHANGED quote
  PROVE  OrderView' = [OrderView EXCEPT ![o].phase = phase]
<1>1. \A p \in Operations : User(p)' = User(p) /\ Amount(p)' = Amount(p)
  BY DEF User, Amount, Offer
<1>2. OrderView'[o] = [OrderView[o] EXCEPT !.phase = phase]
  BY <1>1 DEF OrderView
<1>3. \A p \in Operations : p # o => OrderView'[p] = OrderView[p]
  BY <1>1 DEF OrderView
<1>4. QED
  BY <1>2, <1>3 DEF OrderView

(* A release gives back what the operation holds, and nothing else moves.  *)
LEMMA ReleaseMoney ==
  ASSUME IInv, NEW o \in Operations, operation[o].status \in Open,
         NEW reason \in {"cancelled", "failed"}, ReleaseOperation(o, reason)
  PROVE  \A v \in Users :
           /\ account'[v].balance = account[v].balance
           /\ account'[v].held = IF v = User(o) THEN account[v].held - Amount(o) ELSE account[v].held
<1>. DEFINE u == User(o)
            event == <<"release", o>>
            back == -Amount(o)
<1>1. u \in Users /\ Amount(o) \in Nat /\ event \notin ledger
  BY EndingsPost
<1>2. u \in Users /\ Amount(o) \in Nat /\ back \in Int /\ event \notin ledger
  BY <1>1
<1>3. /\ account \in [Users -> AccountRow]
      /\ \A v \in Users : account[v].balance \in Int /\ account[v].held \in Int
  BY DEF IInv, TypeOK, AccountRow
<1>4. account' = Post(account, event, u, 0, back)
  BY DEF ReleaseOperation, ReleaseHold
<1>. HIDE DEF u, event, back
<1>5. Moved(account', account, u, 0, back)
  BY <1>2, <1>3, <1>4, PostView
<1>6. QED
  BY <1>2, <1>3, <1>5 DEF Moved, back, u

(* A release of the engine is a release of the contract.                   *)
LEMMA ReleaseIsRelease ==
  ASSUME IInv, NEW o \in Operations, operation[o].status \in Open,
         NEW reason \in {"cancelled", "failed"}, ReleaseOperation(o, reason), UNCHANGED quote
  PROVE  Money!Next
<1>1. /\ quote[o] # None
      /\ User(o) \in Users /\ Amount(o) \in Nat /\ <<"release", o>> \notin ledger
      /\ OrderView[o] = [phase |-> "reserved", payer |-> User(o), price |-> Amount(o)]
      /\ Money!Placed(o, "reserved")
  BY EndingsPost
<1>2. \A p \in Operations :
        operation'[p].status = IF p = o THEN "failed" ELSE operation[p].status
  BY <1>1, ReleaseFacts DEF IInv
<1>3. OrderView' = [OrderView EXCEPT ![o].phase = "released"]
  BY <1>2, OrderStep DEF Phase, Open
<1>4. \A v \in Users :
        /\ account'[v].balance = account[v].balance
        /\ account'[v].held = IF v = User(o) THEN account[v].held - Amount(o) ELSE account[v].held
  BY ReleaseMoney
<1>5. WalletView' = [WalletView EXCEPT ![User(o)].held = @ - Amount(o)]
  <2>1. \A v \in Users : WalletView[v] = [balance |-> account[v].balance, held |-> account[v].held]
    BY DEF WalletView
  <2>. DEFINE w == WalletView[User(o)]
  <2>2. /\ w = [balance |-> account[User(o)].balance, held |-> account[User(o)].held]
        /\ w.held = account[User(o)].held
    BY <1>1, <2>1
  <2>. HIDE DEF w
  <2>3. [w EXCEPT !.held = w.held - Amount(o)]
          = [balance |-> account[User(o)].balance, held |-> account[User(o)].held - Amount(o)]
    BY <2>2
  <2>4. QED
    BY <1>1, <1>4, <2>3 DEF WalletView, w
<1>6. Money!Release(o)
  BY <1>1, <1>3, <1>5 DEF Money!Release
<1>7. QED
  BY <1>1, <1>6 DEF Money!Next

(* The user a settlement pays a commission to.                             *)
Beneficiary(o) == IF Commissioned(o) THEN Referrer[User(o)] ELSE None

(* A settlement takes the price less the cash back from the customer, gives *)
(* the commission to the beneficiary, and ends the hold.                   *)
LEMMA SettlementMoney ==
  ASSUME IInv, NEW o \in Operations, operation[o].status \in Open, FinalizeOperation(o)
  PROVE  \A v \in Users :
           /\ account'[v].balance =
                account[v].balance + (IF v = User(o) THEN Cashback(o) - Amount(o) ELSE 0)
                                   + (IF v = Beneficiary(o) THEN Commission(o) ELSE 0)
           /\ account'[v].held = IF v = User(o) THEN account[v].held - Amount(o) ELSE account[v].held
<1>. DEFINE u       == User(o)
            price   == Amount(o)
            friend  == Beneficiary(o)
            bonus   == Commission(o)
            delta   == Cashback(o) - price
            back    == -price
            paid    == <<"settle", o>>
            settled == Post(account, paid, u, delta, back)
<1>1. /\ quote[o] # None /\ u \in Users /\ price \in Nat
      /\ paid \notin ledger /\ <<"commission", o>> \notin ledger
  BY EndingsPost
<1>2. /\ Cashback(o) \in Nat /\ bonus \in Nat /\ delta \in Int /\ back \in Int
      /\ Commissioned(o) => friend \in Users
      /\ ~Commissioned(o) => friend \notin Users
  BY <1>1, MoneyTypes, RowsAssumption DEF IInv, Beneficiary
<1>3. /\ account \in [Users -> AccountRow]
      /\ \A v \in Users : account[v].balance \in Int /\ account[v].held \in Int
  BY DEF IInv, TypeOK, AccountRow
<1>4. account' = IF Commissioned(o)
                 THEN Post(settled, <<"commission", o>>, friend, bonus, 0)
                 ELSE settled
  BY DEF FinalizeOperation, SettledAccounts, Beneficiary
<1>. HIDE DEF delta, back, paid, settled, price, u, friend, bonus
<1>5. settled \in [Users -> AccountRow] /\ Moved(settled, account, u, delta, back)
  BY <1>1, <1>2, <1>3, PostType, PostView DEF settled
<1>6. \A v \in Users : settled[v].balance \in Int /\ settled[v].held \in Int
  BY <1>5 DEF AccountRow
<1>7. \A v \in Users :
        /\ account'[v].balance = settled[v].balance + IF v = friend THEN bonus ELSE 0
        /\ account'[v].held = settled[v].held
  <2>1. CASE Commissioned(o)
    <3>1. Moved(account', settled, friend, bonus, 0)
      BY <1>1, <1>2, <1>4, <1>5, <2>1, PostView
    <3>2. QED
      BY <1>2, <1>6, <3>1 DEF Moved
  <2>2. CASE ~Commissioned(o)
    BY <1>2, <1>4, <1>6, <2>2
  <2>3. QED
    BY <2>1, <2>2
<1>8. \A v \in Users :
        /\ account'[v].balance = account[v].balance + (IF v = u THEN delta ELSE 0)
                                                   + (IF v = friend THEN bonus ELSE 0)
        /\ account'[v].held = IF v = u THEN account[v].held - price ELSE account[v].held
  <2>1. \A v \in Users :
          /\ settled[v].balance = account[v].balance + (IF v = u THEN delta ELSE 0)
          /\ settled[v].held = IF v = u THEN account[v].held - price ELSE account[v].held
    BY <1>1, <1>2, <1>3, <1>5 DEF Moved, back
  <2>2. QED
    BY <1>7, <2>1
<1>9. QED
  BY <1>8 DEF u, delta, price, friend, bonus

(* A settlement of the engine is a settlement of the contract.             *)
LEMMA FinalizeIsSettle ==
  ASSUME IInv, NEW o \in Operations, operation[o].status \in Open,
         FinalizeOperation(o), UNCHANGED quote
  PROVE  Money!Next
<1>. DEFINE u       == User(o)
            price   == Amount(o)
            rebate  == Cashback(o)
            friend  == IF Commissioned(o) THEN Referrer[u] ELSE u
            bonus   == IF Commissioned(o) THEN Commission(o) ELSE 0
            charged == [WalletView EXCEPT ![u] = [balance |-> @.balance + rebate - price,
                                                  held    |-> @.held - price]]
<1>1. /\ quote[o] # None
      /\ u \in Users /\ price \in Nat
      /\ OrderView[o] = [phase |-> "reserved", payer |-> u, price |-> price]
      /\ Money!Placed(o, "reserved")
  BY EndingsPost
<1>2. /\ rebate \in 0 .. price /\ bonus \in 0 .. price /\ friend \in Users
  BY <1>1, MoneyTypes DEF IInv
<1>3. \A v \in Users : account[v].balance \in Int /\ account[v].held \in Int
  BY DEF IInv, TypeOK, AccountRow
<1>4. \A p \in Operations :
        operation'[p].status = IF p = o THEN "done" ELSE operation[p].status
  BY <1>1, FinalizeFacts DEF IInv
<1>5. OrderView' = [OrderView EXCEPT ![o].phase = "settled"]
  BY <1>4, OrderStep DEF Phase, Open
<1>6. \A v \in Users :
        /\ account'[v].balance =
             account[v].balance + (IF v = u THEN rebate - price ELSE 0)
                                + (IF v = Beneficiary(o) THEN Commission(o) ELSE 0)
        /\ account'[v].held = IF v = u THEN account[v].held - price ELSE account[v].held
  BY SettlementMoney
<1>7. \A v \in Users :
        (IF v = Beneficiary(o) THEN Commission(o) ELSE 0) = IF v = friend THEN bonus ELSE 0
  BY RowsAssumption DEF Beneficiary
<1>. HIDE DEF rebate, price, u
<1>. HIDE DEF friend, bonus
<1>8. \A v \in Users : charged[v] = IF v = u
                                     THEN [balance |-> account[u].balance + rebate - price,
                                           held    |-> account[u].held - price]
                                     ELSE [balance |-> account[v].balance, held |-> account[v].held]
  BY <1>1 DEF WalletView
<1>9. charged = [v \in Users |-> charged[v]]
  BY DEF WalletView
<1>. HIDE DEF charged
<1>10. rebate \in Int /\ price \in Int /\ bonus \in Int /\ u \in Users
  BY <1>1, <1>2
<1>11. \A v \in Users :
         /\ charged[v] = [balance |-> charged[v].balance, held |-> charged[v].held]
         /\ charged[v].balance = account[v].balance + IF v = u THEN rebate - price ELSE 0
         /\ charged[v].held = IF v = u THEN account[v].held - price ELSE account[v].held
  <2>1. ASSUME NEW v \in Users, v = u
        PROVE  /\ charged[v] = [balance |-> charged[v].balance, held |-> charged[v].held]
               /\ charged[v].balance = account[v].balance + (rebate - price)
               /\ charged[v].held = account[v].held - price
    <3>1. charged[v] = [balance |-> account[v].balance + rebate - price,
                        held |-> account[v].held - price]
      BY <1>8, <2>1
    <3>2. account[v].balance \in Int
      BY <1>3
    <3>3. account[v].balance + rebate - price = account[v].balance + (rebate - price)
      BY <1>10, <3>2
    <3>4. QED
      BY <3>1, <3>3
  <2>2. ASSUME NEW v \in Users, v # u
        PROVE  /\ charged[v] = [balance |-> charged[v].balance, held |-> charged[v].held]
               /\ charged[v].balance = account[v].balance + 0
               /\ charged[v].held = account[v].held
    <3>1. charged[v] = [balance |-> account[v].balance, held |-> account[v].held]
      BY <1>8, <2>2
    <3>2. account[v].balance + 0 = account[v].balance
      BY <1>3
    <3>3. QED
      BY <3>1, <3>2
  <2>3. SUFFICES ASSUME NEW v \in Users
                 PROVE  /\ charged[v] = [balance |-> charged[v].balance, held |-> charged[v].held]
                        /\ charged[v].balance = account[v].balance + IF v = u THEN rebate - price ELSE 0
                        /\ charged[v].held = IF v = u THEN account[v].held - price ELSE account[v].held
    OBVIOUS
  <2>4. CASE v = u
    BY <2>1, <2>4
  <2>5. CASE v # u
    BY <2>2, <2>5
  <2>6. QED
    BY <2>4, <2>5
<1>12. \A v \in Users :
         /\ charged[v].balance \in Int
         /\ account'[v].balance = charged[v].balance + IF v = friend THEN bonus ELSE 0
         /\ account'[v].held = charged[v].held
  <2>. DEFINE cost(v)  == IF v = u THEN rebate - price ELSE 0
              extra(v) == IF v = friend THEN bonus ELSE 0
  <2>1. \A v \in Users : cost(v) \in Int /\ extra(v) \in Int
    BY <1>10
  <2>2. \A v \in Users : /\ account'[v].balance = account[v].balance + cost(v) + extra(v)
                         /\ charged[v].balance = account[v].balance + cost(v)
    BY <1>6, <1>7, <1>11
  <2>. HIDE DEF cost, extra
  <2>3. \A v \in Users : /\ charged[v].balance \in Int
                         /\ account'[v].balance = charged[v].balance + extra(v)
    BY <1>3, <2>1, <2>2
  <2>4. QED
    BY <1>6, <1>11, <2>3 DEF extra
<1>13. WalletView' = [charged EXCEPT ![friend].balance = @ + bonus]
  <2>. DEFINE w == charged[friend]
  <2>1. w = [balance |-> w.balance, held |-> w.held]
    BY <1>2, <1>11
  <2>. HIDE DEF w
  <2>2. [w EXCEPT !.balance = w.balance + bonus] = [balance |-> w.balance + bonus, held |-> w.held]
    BY <2>1
  <2>3. [charged EXCEPT ![friend].balance = @ + bonus]
          = [v \in Users |-> IF v = friend THEN [w EXCEPT !.balance = w.balance + bonus] ELSE charged[v]]
    BY <1>2, <1>9 DEF w
  <2>4. \A v \in Users :
          [balance |-> account'[v].balance, held |-> account'[v].held]
            = IF v = friend THEN [balance |-> w.balance + bonus, held |-> w.held] ELSE charged[v]
    <3>1. ASSUME NEW v \in Users, v = friend
          PROVE  account'[v].balance = w.balance + bonus /\ account'[v].held = w.held
      BY <1>12, <3>1 DEF w
    <3>2. ASSUME NEW v \in Users, v # friend
          PROVE  account'[v].balance = charged[v].balance /\ account'[v].held = charged[v].held
      BY <1>12, <3>2
    <3>3. QED
      BY <1>11, <3>1, <3>2
  <2>5. QED
    BY <2>2, <2>3, <2>4 DEF WalletView
<1>14. Money!Settle(o, rebate, friend, bonus)
  <2>1. OrderView[o].payer = u /\ OrderView[o].price = price
    BY <1>1
  <2>2. QED
    BY <1>5, <1>13, <2>1 DEF Money!Settle, charged
<1>15. QED
  <2>1. OrderView[o].price = price
    BY <1>1
  <2>2. QED
    BY <1>1, <1>2, <1>14, <2>1 DEF Money!Next

(* What a user may owe now is within the debt the user may ever have.      *)
LEMMA CreditIsBounded ==
  ASSUME IInv, NEW u \in Users
  PROVE  Credit(u) \in Nat /\ MaxDebt[u] \in Nat /\ Credit(u) <= MaxDebt[u]
BY MoneyAssumption DEF Credit, MaxDebt, IInv, RoleInv

(* A purchase holds its price, and nothing else moves.                     *)
LEMMA PurchaseMoney ==
  ASSUME IInv, NEW o \in Operations, NEW rows \in SUBSET StockRows, Purchase(o, rows)
  PROVE  \A v \in Users :
           /\ account'[v].balance = account[v].balance
           /\ account'[v].held = IF v = User(o) THEN account[v].held + Amount(o) ELSE account[v].held
<1>. DEFINE u == User(o)
            price == Amount(o)
<1>1. u \in Users /\ price \in Nat /\ <<"hold", o>> \notin ledger
  BY OfferType DEF Purchase, Existing, IInv, LedgerInv, LedgerMatchesStatus
<1>2. /\ account \in [Users -> AccountRow]
      /\ \A v \in Users : account[v].balance \in Int /\ account[v].held \in Int
  BY DEF IInv, TypeOK, AccountRow
<1>3. account' = Post(account, <<"hold", o>>, u, 0, price)
  BY DEF Purchase
<1>4. Moved(account', account, u, 0, price)
  BY <1>1, <1>2, <1>3, PostView
<1>5. QED
  BY <1>2, <1>4 DEF Moved

(* A purchase is a reservation of the contract.                            *)
LEMMA PurchaseIsReserve ==
  ASSUME IInv, NEW o \in Operations, NEW rows \in SUBSET StockRows, Purchase(o, rows)
  PROVE  Money!Next
<1>. DEFINE u == User(o)
            price == Amount(o)
<1>1. quote[o] # None /\ operation[o].status = "none" /\ Covered(u, 0, price)
  BY DEF Purchase, Existing, MayPurchase
<1>2. u \in Users /\ price \in Nat /\ Offer(o) \in Offers /\ <<"hold", o>> \notin ledger
  BY <1>1, OfferType DEF IInv, LedgerInv, LedgerMatchesStatus
<1>3. /\ account \in [Users -> AccountRow]
      /\ \A v \in Users : account[v].balance \in Int /\ account[v].held \in Int
  BY DEF IInv, TypeOK, AccountRow
<1>4. /\ operation'[o].status = "queued"
      /\ \A p \in Operations : p # o => operation'[p] = operation[p]
  BY ExistingIsFinite, FreshRow DEF Purchase, FreshOperation, IInv, TypeOK
<1>5. OrderView' = [OrderView EXCEPT ![o] = [phase |-> "reserved", payer |-> u, price |-> price]]
  <2>1. \A p \in Operations : User(p)' = User(p) /\ Amount(p)' = Amount(p)
    BY DEF Purchase, User, Amount, Offer
  <2>2. QED
    BY <1>1, <1>4, <2>1 DEF OrderView, Phase
<1>6. OrderView[o] = None
  BY <1>1 DEF OrderView
<1>7. \A v \in Users :
        /\ account'[v].balance = account[v].balance
        /\ account'[v].held = IF v = u THEN account[v].held + price ELSE account[v].held
  BY PurchaseMoney
<1>. HIDE DEF u, price
<1>8. WalletView' = [WalletView EXCEPT ![u].held = @ + price]
  <2>. DEFINE w == WalletView[u]
  <2>1. /\ w = [balance |-> account[u].balance, held |-> account[u].held]
        /\ w.held = account[u].held /\ w.balance = account[u].balance
    BY <1>2 DEF WalletView
  <2>. HIDE DEF w
  <2>2. [w EXCEPT !.held = w.held + price]
          = [balance |-> account[u].balance, held |-> account[u].held + price]
    BY <2>1
  <2>3. QED
    BY <1>2, <1>7, <2>2 DEF WalletView, w
<1>9. price > 0 => Money!Affords(u, price)
  <2>1. WalletView[u].balance = account[u].balance /\ WalletView[u].held = account[u].held
    BY <1>2 DEF WalletView
  <2>2. QED
    BY <1>1, <1>2, <1>3, <2>1, CreditIsBounded DEF Covered, Money!Affords
<1>10. Money!Reserve(o, u, price)
  BY <1>5, <1>6, <1>8, <1>9 DEF Money!Reserve
<1>11. price \in {offer.amount : offer \in Offers}
  BY <1>2 DEF price, Amount
<1>12. QED
  BY <1>2, <1>10, <1>11 DEF Money!Next

(* An adjustment changes one balance.                                      *)
LEMMA AdjustMoney ==
  ASSUME IInv, NEW adj \in Adjustments, AdjustWallet(adj)
  PROVE  \A v \in Users :
           /\ account'[v].balance = IF v = adj.user THEN account[v].balance + adj.amount
                                                    ELSE account[v].balance
           /\ account'[v].held = account[v].held
<1>. DEFINE u == adj.user
            delta == adj.amount
            event == <<"admin", adj.id>>
<1>1. u \in Users /\ delta \in Int /\ event \notin ledger
  BY MoneyAssumption DEF AdjustWallet
<1>2. /\ account \in [Users -> AccountRow]
      /\ \A v \in Users : account[v].balance \in Int /\ account[v].held \in Int
  BY DEF IInv, TypeOK, AccountRow
<1>3. account' = Post(account, event, u, delta, 0)
  BY DEF AdjustWallet
<1>. HIDE DEF u, delta, event
<1>4. Moved(account', account, u, delta, 0)
  BY <1>1, <1>2, <1>3, PostView
<1>5. QED
  BY <1>2, <1>4 DEF Moved, u, delta

(* An administrator's adjustment is one of the contract.                   *)
LEMMA AdjustWalletIsAdjust ==
  ASSUME IInv, NEW adj \in Adjustments, AdjustWallet(adj)
  PROVE  Money!Next
<1>. DEFINE u == adj.user
            delta == adj.amount
<1>1. /\ u \in Users /\ delta \in Int /\ <<"admin", adj.id>> \notin ledger
      /\ Covered(u, delta, 0)
  BY MoneyAssumption DEF AdjustWallet
<1>2. /\ account \in [Users -> AccountRow]
      /\ \A v \in Users : account[v].balance \in Int /\ account[v].held \in Int
  BY DEF IInv, TypeOK, AccountRow
<1>3. OrderView' = OrderView
  BY DEF AdjustWallet, OrderView, User, Amount, Offer
<1>4. \A v \in Users :
        /\ account'[v].balance = IF v = u THEN account[v].balance + delta ELSE account[v].balance
        /\ account'[v].held = account[v].held
  BY AdjustMoney
<1>. HIDE DEF u, delta
<1>. DEFINE w == WalletView[u]
<1>5. /\ w = [balance |-> account[u].balance, held |-> account[u].held]
      /\ w.held = account[u].held /\ w.balance = account[u].balance
  BY <1>1 DEF WalletView
<1>6. WalletView' = [WalletView EXCEPT ![u].balance = @ + delta]
  <2>. HIDE DEF w
  <2>1. [w EXCEPT !.balance = w.balance + delta]
          = [balance |-> account[u].balance + delta, held |-> account[u].held]
    BY <1>5
  <2>2. QED
    BY <1>1, <1>4, <2>1 DEF WalletView, w
<1>7. delta < 0 => Money!Affords(u, -delta)
  BY <1>1, <1>2, <1>5, CreditIsBounded DEF Covered, Money!Affords
<1>8. Money!Adjust(u, delta)
  BY <1>3, <1>6, <1>7 DEF Money!Adjust
<1>9. QED
  BY <1>1, <1>8 DEF Money!Next, delta

(* A step that moves no money and ends no operation.                       *)
LEMMA NoMoneyMoves ==
  ASSUME IInv,
         \A u \in Users : /\ account'[u].balance = account[u].balance
                          /\ account'[u].held = account[u].held,
         \A o \in Operations :
           /\ operation'[o].status = "none" <=> operation[o].status = "none"
           /\ Phase(operation'[o].status) = Phase(operation[o].status)
           /\ o \in Existing => quote'[o].offer = quote[o].offer
  PROVE  UNCHANGED Money!vars
<1>1. \A o \in Existing : User(o)' = User(o) /\ Amount(o)' = Amount(o)
  BY DEF User, Amount, Offer, Existing
<1>2. OrderView' = OrderView
  BY <1>1 DEF OrderView, Existing
<1>3. WalletView' = WalletView
  BY DEF WalletView
<1>4. QED
  BY <1>2, <1>3 DEF Money!vars

(* A step that changes only the row of one open operation, which stays open. *)
LEMMA OpenRowMovesNoMoney ==
  ASSUME IInv, NEW o \in Operations, operation[o].status \in Open,
         operation'[o].status \in Open,
         \A p \in Operations : p # o => operation'[p] = operation[p],
         UNCHANGED <<quote, account>>
  PROVE  UNCHANGED Money!vars
<1>1. /\ Phase(operation[o].status) = "reserved" /\ Phase(operation'[o].status) = "reserved"
      /\ operation[o].status # "none" /\ operation'[o].status # "none"
  BY DEF Phase, Open
<1>2. QED
  BY <1>1, NoMoneyMoves

(* A step of the task settles, releases or leaves money alone.             *)
LEMMA TaskIsMoneyStep ==
  ASSUME IInv, NEW o \in Operations, TaskStep(o)
  PROVE  Money!Next \/ UNCHANGED Money!vars
<1>. DEFINE Goal == Money!Next \/ UNCHANGED Money!vars
<1>1. running = o
  BY DEF TaskStep, LookForAccount, FinishCreate, ReadService, ConfirmUpdate, CreateAccount,
         UpdateService, FillFromStock, Commit, At
<1>2. operation[o] \in OperationRow /\ operation[o].status = "sending" /\ operation[o].status \in Open
  BY <1>1, TaskFacts DEF Open
<1>3. ASSUME NEW op, op.status = "sending", NEW s, Continues(o, op, s)
      PROVE  Goal
  BY <1>2, <1>3, OpenRowMovesNoMoney DEF Continues, Open, IInv, TypeOK
<1>4. ASSUME NEW outcome, NEW held, Fails(o, outcome, held)
      PROVE  Goal
  <2>1. CASE Unsafe(operation[o], outcome, held)
    <3>1. /\ operation'[o].status = "review"
          /\ \A p \in Operations : p # o => operation'[p] = operation[p]
      BY <1>2, <1>4, <2>1 DEF Fails, IInv, TypeOK, OperationRow
    <3>2. QED
      BY <1>2, <1>4, <2>1, <3>1, OpenRowMovesNoMoney DEF Fails, Open
  <2>2. CASE ~Unsafe(operation[o], outcome, held)
    BY <1>2, <1>4, <2>2, ReleaseIsRelease DEF Fails
  <2>3. QED
    BY <2>1, <2>2
<1>. HIDE DEF Goal
<1>5. ASSUME NEW outcome, LookForAccount(o, outcome)
      PROVE  Goal
  <2>. DEFINE op == [operation[o] EXCEPT !.inFlight = operation[o].results + 1]
  <2>1. op.status = "sending"
    BY <1>2 DEF OperationRow
  <2>2. Continues(o, op, "create") \/ \E result : Fails(o, result, 0)
    BY <1>5 DEF LookForAccount
  <2>. HIDE DEF op
  <2>3. QED
    BY <1>3, <1>4, <2>1, <2>2
<1>6. ASSUME NEW outcome, CreateAccount(o, outcome)
      PROVE  Goal
  <2>. DEFINE op == [operation[o] EXCEPT !.created = operation[o].inFlight]
  <2>1. op.status = "sending"
    BY <1>2 DEF OperationRow
  <2>2. Continues(o, op, "finish") \/ Fails(o, outcome, 0)
    BY <1>6 DEF CreateAccount
  <2>. HIDE DEF op
  <2>3. QED
    BY <1>3, <1>4, <2>1, <2>2
<1>7. ASSUME NEW outcome, FinishCreate(o, outcome)
      PROVE  Goal
  <2>. DEFINE k == operation[o].inFlight
              op == [operation[o] EXCEPT !.results = k, !.inFlight = 0]
  <2>1. op.status = "sending"
    BY <1>2 DEF OperationRow
  <2>2. (\E s : Continues(o, op, s)) \/ Fails(o, outcome, 0)
    BY <1>7 DEF FinishCreate
  <2>. HIDE DEF op
  <2>3. QED
    BY <1>3, <1>4, <2>1, <2>2
<1>8. ASSUME NEW outcome, ReadService(o, outcome)
      PROVE  Goal
  <2>. DEFINE now == remote[RemoteKey(quote[o].service)]
              op  == [operation[o] EXCEPT !.before = now.level, !.desired = now.level + 1,
                                          !.dispatched = TRUE]
  <2>1. op.status = "sending"
    BY <1>2 DEF OperationRow
  <2>2. Continues(o, op, "update") \/ \E result : Fails(o, result, 0)
    BY <1>8 DEF ReadService
  <2>. HIDE DEF op
  <2>3. QED
    BY <1>3, <1>4, <2>1, <2>2
<1>9. ASSUME NEW outcome, UpdateService(o, outcome) \/ ConfirmUpdate(o, outcome)
                           \/ FillFromStock(o, outcome)
      PROVE  Goal
  <2>1. \/ \E s : Continues(o, operation[o], s)
        \/ \E result, held : Fails(o, result, held)
    BY <1>9 DEF UpdateService, ConfirmUpdate, FillFromStock
  <2>2. QED
    BY <1>2, <1>3, <1>4, <2>1
<1>10. ASSUME Commit(o)
       PROVE  Goal
  BY <1>2, <1>4, <1>10, FinalizeIsSettle DEF Commit, Goal
<1>11. QED
  BY <1>5, <1>6, <1>7, <1>8, <1>9, <1>10 DEF TaskStep, Goal

(* Every step of the engine is a step of the contract or leaves money alone. *)
LEMMA NextIsMoneyStep == IInv /\ [Next]_vars => [Money!Next]_(Money!vars)
<1>. SUFFICES ASSUME IInv, [Next]_vars PROVE Money!Next \/ UNCHANGED Money!vars
  OBVIOUS
<1>1. ASSUME UNCHANGED <<operation, quote>>,
             \A u \in Users : /\ account'[u].balance = account[u].balance
                              /\ account'[u].held = account[u].held
      PROVE  UNCHANGED Money!vars
  BY <1>1, NoMoneyMoves
<1>2. ASSUME NEW o \in Operations, ProcessOperation(o)
      PROVE  UNCHANGED Money!vars
  <2>1. /\ operation[o].status \in Open /\ operation'[o].status \in Open
        /\ \A p \in Operations : p # o => operation'[p] = operation[p]
    BY <1>2 DEF ProcessOperation, Interrupted, Begin, IInv, TypeOK, OperationRow, Open
  <2>2. QED
    BY <1>2, <2>1, OpenRowMovesNoMoney DEF ProcessOperation, Interrupted, Begin
<1>3. ASSUME NEW o \in Operations, NEW offer, NEW s, Quote(o, offer, s)
      PROVE  UNCHANGED Money!vars
  <2>1. \A p \in Existing : quote'[p] = quote[p]
    BY <1>3 DEF Quote, IInv, TypeOK, QuoteInv, Existing
  <2>2. QED
    BY <1>3, <2>1, NoMoneyMoves DEF Quote
<1>4. ASSUME NEW o \in Operations, QuoteExpires(o)
      PROVE  UNCHANGED Money!vars
  <2>1. \A p \in Existing : quote'[p] = quote[p]
    BY <1>4 DEF QuoteExpires, IInv, TypeOK, Existing
  <2>2. QED
    BY <1>4, <2>1, NoMoneyMoves DEF QuoteExpires
<1>5. ASSUME NEW u \in Users, NEW role, UpdateAccount(u, role) \/ SetStanding(u, role)
      PROVE  UNCHANGED Money!vars
  <2>1. \A v \in Users : /\ account'[v].balance = account[v].balance
                         /\ account'[v].held = account[v].held
    BY <1>5 DEF UpdateAccount, SetStanding, IInv, TypeOK, AccountRow
  <2>2. QED
    BY <1>1, <1>5, <2>1 DEF UpdateAccount, SetStanding
<1>6. ASSUME NEW o \in Operations, CancelOperation(o)
      PROVE  Money!Next
  BY <1>6, ReleaseIsRelease DEF CancelOperation, Open
<1>7. ASSUME NEW o \in Operations, ReconcileOperation(o)
      PROVE  Money!Next
  BY <1>7, FinalizeIsSettle DEF ReconcileOperation, Open
<1>8. CASE Tick
  BY <1>2, <1>8 DEF Tick, Runnable
<1>9. CASE Engine
  BY <1>9, TaskIsMoneyStep DEF Engine
<1>10. CASE Customer
  <2>1. ASSUME Unquoted # {}, NEW offer \in Offers, NEW s \in Accounts \union {None},
               Quote(CHOOSE o \in Unquoted : TRUE, offer, s)
        PROVE  UNCHANGED Money!vars
    BY <2>1, <1>3 DEF Unquoted
  <2>2. QED
    BY <1>4, <1>6, <1>10, <2>1, PurchaseIsReserve DEF Customer
<1>11. CASE Administrator
  <2>1. ASSUME NEW p \in Plans, NEW enabled \in BOOLEAN, SavePlan(p, enabled)
        PROVE  UNCHANGED Money!vars
    BY <1>1, <2>1 DEF SavePlan
  <2>2. ASSUME NEW p \in Panels, DeletePanel(p)
        PROVE  UNCHANGED Money!vars
    BY <1>1, <2>2 DEF DeletePanel
  <2>3. ASSUME NEW r \in StockRows, DisableStock(r) \/ ManualStockSale(r)
        PROVE  UNCHANGED Money!vars
    BY <1>1, <2>3 DEF DisableStock, ManualStockSale, SetStock
  <2>4. QED
    BY <1>2, <1>5, <1>7, <1>11, <2>1, <2>2, <2>3, AdjustWalletIsAdjust DEF Administrator
<1>12. CASE Crash \/ (\E call \in wire : LateEffect(call)) \/ UNCHANGED vars
  BY <1>1, <1>12 DEF Crash, LateEffect, durable, vars
<1>13. QED
  BY <1>8, <1>9, <1>10, <1>11, <1>12 DEF Next

(* The engine implements Escrow: every step of it, a crash or a late answer *)
(* included, reserves, settles, releases or adjusts once, or moves no money. *)
THEOREM EngineImplementsEscrow == Spec => ImplementsEscrow
<1>1. Init => Money!Init
  BY DEF Init, Money!Init, WalletView, OrderView, NoOperation, FreshOperation
<1>2. QED
  BY <1>1, NextIsMoneyStep, Invariance, PTL DEF Spec, ImplementsEscrow, Money!Spec

-----------------------------------------------------------------------------
(* No wallet sinks below the debt its owner may have *)

Wallets == [Users -> [balance : Int, held : Int]]
Covers(wallet) == \A u \in Users : wallet[u].balance - wallet[u].held >= -MaxDebt[u]

(* A hold that is covered keeps the wallets above the debt limit.          *)
LEMMA HeldChange ==
  ASSUME NEW before \in Wallets, Covers(before), MaxDebt \in [Users -> Nat],
         NEW u \in Users, NEW amount \in Int,
         amount > 0 => before[u].balance - before[u].held - amount >= -MaxDebt[u]
  PROVE  Covers([before EXCEPT ![u].held = @ + amount])
<1>. DEFINE after == [before EXCEPT ![u].held = @ + amount]
<1>1. \A v \in Users :
        /\ before[v].balance \in Int /\ before[v].held \in Int /\ MaxDebt[v] \in Nat
        /\ after[v].balance = before[v].balance
        /\ after[v].held = IF v = u THEN before[v].held + amount ELSE before[v].held
  BY DEF Wallets
<1>2. QED
  BY <1>1 DEF Covers

(* A change of balance that is covered keeps the wallets above the debt limit. *)
LEMMA BalanceChange ==
  ASSUME NEW before \in Wallets, Covers(before), MaxDebt \in [Users -> Nat],
         NEW u \in Users, NEW amount \in Int,
         amount < 0 => before[u].balance - before[u].held + amount >= -MaxDebt[u]
  PROVE  Covers([before EXCEPT ![u].balance = @ + amount])
<1>. DEFINE after == [before EXCEPT ![u].balance = @ + amount]
<1>1. \A v \in Users :
        /\ before[v].balance \in Int /\ before[v].held \in Int /\ MaxDebt[v] \in Nat
        /\ after[v].held = before[v].held
        /\ after[v].balance = IF v = u THEN before[v].balance + amount ELSE before[v].balance
  BY DEF Wallets
<1>2. QED
  BY <1>1 DEF Covers

(* A settlement keeps the wallets above the debt limit.                    *)
LEMMA SettlementChange ==
  ASSUME NEW before \in Wallets, Covers(before), MaxDebt \in [Users -> Nat],
         NEW u \in Users, NEW price \in Nat, NEW rebate \in Nat
  PROVE  LET after == [before EXCEPT ![u] = [balance |-> @.balance + rebate - price,
                                             held    |-> @.held - price]] IN
         after \in Wallets /\ Covers(after)
<1>. DEFINE after == [before EXCEPT ![u] = [balance |-> @.balance + rebate - price,
                                            held    |-> @.held - price]]
<1>1. \A v \in Users :
        /\ before[v].balance \in Int /\ before[v].held \in Int /\ MaxDebt[v] \in Nat
        /\ after[v].balance = IF v = u THEN before[v].balance + rebate - price ELSE before[v].balance
        /\ after[v].held = IF v = u THEN before[v].held - price ELSE before[v].held
  BY DEF Wallets
<1>2. after \in Wallets
  BY DEF Wallets
<1>3. QED
  BY <1>1, <1>2 DEF Covers

(* A step of the contract keeps every wallet above its debt limit.         *)
LEMMA MoneyStepKeepsSolvent ==
  ASSUME TypeOK, Solvent, [Money!Next]_(Money!vars),
         \A o \in Existing : User(o) \in Users /\ Amount(o) \in Nat
  PROVE  Solvent'
<1>1. WalletView \in Wallets /\ Covers(WalletView)
  BY DEF Wallets, Covers, WalletView, Solvent, TypeOK, AccountRow
<1>2. MaxDebt \in [Users -> Nat]
  BY MoneyAssumption DEF MaxDebt
<1>3. SUFFICES Covers(WalletView')
  BY DEF Covers, WalletView, Solvent
<1>4. \A o \in Operations : Money!Placed(o, "reserved") =>
        OrderView[o].payer \in Users /\ OrderView[o].price \in Nat
  BY DEF Money!Placed, OrderView, Existing
<1>5. ASSUME NEW o \in Operations, NEW u \in Users,
             NEW price \in {offer.amount : offer \in Offers}, Money!Reserve(o, u, price)
      PROVE  Covers(WalletView')
  <2>1. price \in Int
    BY RowsAssumption
  <2>2. QED
    BY <1>1, <1>2, <1>5, <2>1, HeldChange DEF Money!Reserve, Money!Affords
<1>6. ASSUME NEW o \in Operations, Money!Placed(o, "reserved"), Money!Release(o)
      PROVE  Covers(WalletView')
  <2>. DEFINE u == OrderView[o].payer
              amount == -OrderView[o].price
  <2>1. u \in Users /\ amount \in Int /\ ~(amount > 0) /\ OrderView[o].price \in Nat
    BY <1>4, <1>6
  <2>2. WalletView[u].held \in Int
    BY <1>1, <2>1 DEF Wallets
  <2>3. WalletView' = [WalletView EXCEPT ![u].held = @ + amount]
    BY <1>6, <2>1, <2>2 DEF Money!Release
  <2>. HIDE DEF u, amount
  <2>4. QED
    BY <1>1, <1>2, <2>1, <2>3, HeldChange
<1>7. ASSUME NEW o \in Operations, Money!Placed(o, "reserved"),
             NEW rebate \in 0 .. OrderView[o].price, NEW bonus \in 0 .. OrderView[o].price,
             NEW friend \in Users, Money!Settle(o, rebate, friend, bonus)
      PROVE  Covers(WalletView')
  <2>. DEFINE u == OrderView[o].payer
              price == OrderView[o].price
              charged == [WalletView EXCEPT ![u] = [balance |-> @.balance + rebate - price,
                                                    held    |-> @.held - price]]
  <2>1. u \in Users /\ price \in Nat /\ rebate \in Nat /\ bonus \in Int /\ ~(bonus < 0)
    BY <1>4, <1>7
  <2>2. WalletView' = [charged EXCEPT ![friend].balance = @ + bonus]
    BY <1>7 DEF Money!Settle
  <2>. HIDE DEF u, price
  <2>3. charged \in Wallets /\ Covers(charged)
    BY <1>1, <1>2, <2>1, SettlementChange
  <2>. HIDE DEF charged
  <2>4. QED
    BY <1>2, <2>1, <2>2, <2>3, BalanceChange
<1>8. ASSUME NEW u \in Users, NEW delta \in {adj.amount : adj \in Adjustments}, Money!Adjust(u, delta)
      PROVE  Covers(WalletView')
  <2>1. delta \in Int
    BY MoneyAssumption
  <2>2. WalletView[u].balance \in Int /\ WalletView[u].held \in Int
    BY <1>1 DEF Wallets
  <2>3. delta < 0 => WalletView[u].balance - WalletView[u].held + delta >= -MaxDebt[u]
    BY <1>2, <1>8, <2>1, <2>2 DEF Money!Adjust, Money!Affords
  <2>4. QED
    BY <1>1, <1>2, <1>8, <2>1, <2>3, BalanceChange DEF Money!Adjust
<1>9. CASE UNCHANGED Money!vars
  BY <1>1, <1>9 DEF Money!vars
<1>10. QED
  BY <1>5, <1>6, <1>7, <1>8, <1>9 DEF Money!Next

(* What a user spends and reserves never passes the balance by more than   *)
(* the debt that user may ever be allowed, for any prices, rebates, roles  *)
(* and order of reservations, settlements and adjustments.                 *)
THEOREM AlwaysSolvent == Spec => []Solvent
<1>1. Init => Solvent
  BY MoneyAssumption DEF Init, Solvent, MaxDebt
<1>2. IInv /\ IInv' /\ Solvent /\ [Next]_vars => Solvent'
  <2>1. ASSUME IInv, NEW o \in Existing
        PROVE  User(o) \in Users /\ Amount(o) \in Nat
    BY <2>1, OfferType DEF IInv, QuoteInv, Existing
  <2>2. QED
    BY <2>1, NextIsMoneyStep, MoneyStepKeepsSolvent DEF IInv
<1>3. QED
  BY <1>1, <1>2, Invariance, PTL DEF Spec

-----------------------------------------------------------------------------
(***************************************************************************)
(* What the engine keeps account of: the money held and spent, the         *)
(* counters of the coupon and the stock rows are at any time those of the  *)
(* operations there are.  First: what a step can do.                       *)
(***************************************************************************)

(* An open operation ends: it is released or settled.                      *)
Releases(o) == \E reason \in {"cancelled", "failed"} : ReleaseOperation(o, reason)
Ends(o) ==
  /\ operation[o].status \in Open
  /\ UNCHANGED quote
  /\ Releases(o) \/ FinalizeOperation(o)

(* Nothing is reserved, ended or paid, and no reserved stock row changes.  *)
Quiet ==
  /\ \A u \in Users : /\ account'[u].balance = account[u].balance
                      /\ account'[u].held = account[u].held
  /\ UNCHANGED <<ledger, coupon>>
  /\ \A p \in Operations :
       /\ \/ operation'[p].status = operation[p].status
          \/ operation[p].status \in Open /\ operation'[p].status \in Open
       /\ operation'[p].stock = operation[p].stock
       /\ p \in Existing => quote'[p].offer = quote[p].offer
  /\ \A r \in StockRows :
       \/ stock'[r] = stock[r]
       \/ /\ stock[r].status \in {"available", "disabled"}
          /\ stock'[r].status # "reserved"

Accounted ==
  \/ Quiet
  \/ \E adj \in Adjustments : AdjustWallet(adj)
  \/ \E o \in Operations, rows \in SUBSET StockRows : Purchase(o, rows)
  \/ \E o \in Operations : Ends(o)

(* A step that changes one row, which stays open and keeps its stock.      *)
LEMMA OpenRowIsQuiet ==
  ASSUME IInv, NEW o \in Operations, operation[o].status \in Open,
         NEW op, op.status \in Open, op.stock = operation[o].stock,
         operation' = [operation EXCEPT ![o] = op],
         UNCHANGED <<quote, account, ledger, coupon, stock>>
  PROVE  Quiet
<1>1. \A p \in Operations : operation'[p] = IF p = o THEN op ELSE operation[p]
  BY DEF IInv, TypeOK
<1>2. QED
  BY <1>1 DEF Quiet

(* The catch of the task parks the operation or releases it.               *)
LEMMA FailsIsAccounted ==
  ASSUME IInv, NEW o \in Operations, operation[o].status \in Open,
         NEW outcome, NEW held, Fails(o, outcome, held)
  PROVE  Quiet \/ Ends(o)
<1>1. CASE Unsafe(operation[o], outcome, held)
  <2>. DEFINE op == [operation[o] EXCEPT !.status = "review"]
  <2>1. op.status \in Open /\ op.stock = operation[o].stock
    BY DEF Open, IInv, TypeOK, OperationRow
  <2>2. operation' = [operation EXCEPT ![o] = op]
    BY <1>1 DEF Fails
  <2>. HIDE DEF op
  <2>3. QED
    BY <1>1, <2>1, <2>2, OpenRowIsQuiet DEF Fails
<1>2. CASE ~Unsafe(operation[o], outcome, held)
  BY <1>2 DEF Fails, Ends, Releases
<1>3. QED
  BY <1>1, <1>2

(* A step of the task is quiet or ends its operation.                      *)
LEMMA TaskIsAccounted ==
  ASSUME IInv, NEW o \in Operations, TaskStep(o)
  PROVE  Quiet \/ Ends(o)
<1>. DEFINE row == operation[o]
            Goal == Quiet \/ Ends(o)
<1>1. running = o
  BY DEF TaskStep, LookForAccount, FinishCreate, ReadService, ConfirmUpdate, CreateAccount,
         UpdateService, FillFromStock, Commit, At
<1>2. row \in OperationRow /\ row.status = "sending" /\ row.status \in Open
  BY <1>1, TaskFacts DEF Open
<1>3. ASSUME NEW op, op.status = "sending", op.stock = row.stock, NEW s, Continues(o, op, s)
      PROVE  Goal
  <2>1. op.status \in Open /\ operation[o].status \in Open
    BY <1>2, <1>3 DEF Open
  <2>2. /\ operation' = [operation EXCEPT ![o] = op]
        /\ UNCHANGED <<quote, account, ledger, coupon, stock>>
    BY <1>3 DEF Continues
  <2>3. Quiet
    BY <1>3, <2>1, <2>2, OpenRowIsQuiet
  <2>4. QED
    BY <2>3
<1>4. ASSUME NEW outcome, NEW held, Fails(o, outcome, held)
      PROVE  Goal
  BY <1>2, <1>4, FailsIsAccounted
<1>. HIDE DEF Goal
<1>5. ASSUME NEW outcome, LookForAccount(o, outcome)
      PROVE  Goal
  <2>. DEFINE op == [row EXCEPT !.inFlight = row.results + 1]
  <2>1. op.status = "sending" /\ op.stock = row.stock
    BY <1>2 DEF OperationRow
  <2>2. Continues(o, op, "create") \/ \E result : Fails(o, result, 0)
    BY <1>5 DEF LookForAccount
  <2>. HIDE DEF op
  <2>3. QED
    BY <1>3, <1>4, <2>1, <2>2
<1>6. ASSUME NEW outcome, CreateAccount(o, outcome)
      PROVE  Goal
  <2>. DEFINE op == [row EXCEPT !.created = row.inFlight]
  <2>1. op.status = "sending" /\ op.stock = row.stock
    BY <1>2 DEF OperationRow
  <2>2. Continues(o, op, "finish") \/ Fails(o, outcome, 0)
    BY <1>6 DEF CreateAccount
  <2>. HIDE DEF op
  <2>3. QED
    BY <1>3, <1>4, <2>1, <2>2
<1>7. ASSUME NEW outcome, FinishCreate(o, outcome)
      PROVE  Goal
  <2>. DEFINE k == row.inFlight
              op == [row EXCEPT !.results = k, !.inFlight = 0]
  <2>1. op.status = "sending" /\ op.stock = row.stock
    BY <1>2 DEF OperationRow
  <2>2. (\E s : Continues(o, op, s)) \/ Fails(o, outcome, 0)
    BY <1>7 DEF FinishCreate
  <2>. HIDE DEF op
  <2>3. QED
    BY <1>3, <1>4, <2>1, <2>2
<1>8. ASSUME NEW outcome, ReadService(o, outcome)
      PROVE  Goal
  <2>. DEFINE now == remote[RemoteKey(quote[o].service)]
              op  == [row EXCEPT !.before = now.level, !.desired = now.level + 1,
                                 !.dispatched = TRUE]
  <2>1. op.status = "sending" /\ op.stock = row.stock
    BY <1>2 DEF OperationRow
  <2>2. Continues(o, op, "update") \/ \E result : Fails(o, result, 0)
    BY <1>8 DEF ReadService
  <2>. HIDE DEF op
  <2>3. QED
    BY <1>3, <1>4, <2>1, <2>2
<1>9. ASSUME NEW outcome, UpdateService(o, outcome) \/ ConfirmUpdate(o, outcome)
                           \/ FillFromStock(o, outcome)
      PROVE  Goal
  <2>1. \/ \E s : Continues(o, row, s)
        \/ \E result, held : Fails(o, result, held)
    BY <1>9 DEF UpdateService, ConfirmUpdate, FillFromStock
  <2>2. QED
    BY <1>2, <1>3, <1>4, <2>1
<1>10. ASSUME Commit(o)
       PROVE  Goal
  BY <1>2, <1>4, <1>10 DEF Commit, Goal, Ends
<1>11. QED
  BY <1>5, <1>6, <1>7, <1>8, <1>9, <1>10 DEF TaskStep, Goal

(* Every step is quiet, adjusts a wallet, purchases or ends an operation.  *)
LEMMA NextIsAccounted == IInv /\ [Next]_vars => Accounted
<1>. SUFFICES ASSUME IInv, [Next]_vars PROVE Accounted
  OBVIOUS
<1>1. ASSUME UNCHANGED <<operation, quote, account, ledger, coupon, stock>>
      PROVE  Quiet
  BY <1>1 DEF Quiet
<1>2. ASSUME NEW o \in Operations, ProcessOperation(o)
      PROVE  Quiet
  <2>1. ASSUME NEW status \in {"sending", "review"}, operation[o].status \in Open,
               operation' = [operation EXCEPT ![o].status = status],
               UNCHANGED <<quote, account, ledger, coupon, stock>>
        PROVE  Quiet
    <3>. DEFINE op == [operation[o] EXCEPT !.status = status]
    <3>1. op.status \in Open /\ op.stock = operation[o].stock
      BY DEF Open, IInv, TypeOK, OperationRow
    <3>2. operation' = [operation EXCEPT ![o] = op]
      BY <2>1
    <3>. HIDE DEF op
    <3>3. QED
      BY <2>1, <3>1, <3>2, OpenRowIsQuiet
  <2>2. QED
    BY <1>2, <2>1 DEF ProcessOperation, Interrupted, Begin, Open
<1>3. ASSUME UNCHANGED <<operation, account, ledger, coupon, stock>>,
             \A p \in Existing : quote'[p].offer = quote[p].offer
      PROVE  Quiet
  BY <1>3 DEF Quiet
<1>4. ASSUME NEW o \in Operations, NEW offer, NEW s, Quote(o, offer, s)
      PROVE  Quiet
  <2>1. \A p \in Existing : quote'[p] = quote[p]
    BY <1>4 DEF Quote, IInv, TypeOK, QuoteInv, Existing
  <2>2. QED
    BY <1>3, <1>4, <2>1 DEF Quote
<1>5. ASSUME NEW o \in Operations, QuoteExpires(o)
      PROVE  Quiet
  <2>1. \A p \in Existing : quote'[p] = quote[p]
    BY <1>5 DEF QuoteExpires, IInv, TypeOK, Existing
  <2>2. QED
    BY <1>3, <1>5, <2>1 DEF QuoteExpires
<1>6. ASSUME NEW u \in Users, NEW role, UpdateAccount(u, role) \/ SetStanding(u, role)
      PROVE  Quiet
  <2>1. \A v \in Users : /\ account'[v].balance = account[v].balance
                         /\ account'[v].held = account[v].held
    BY <1>6 DEF UpdateAccount, SetStanding, IInv, TypeOK, AccountRow
  <2>2. QED
    BY <1>6, <2>1 DEF UpdateAccount, SetStanding, Quiet
<1>7. ASSUME NEW r \in StockRows, DisableStock(r) \/ ManualStockSale(r)
      PROVE  Quiet
  <2>1. PICK from \in {"available", "disabled"}, to \in {"available", "disabled", "delivered"} :
          SetStock(r, from, to)
    BY <1>7 DEF DisableStock, ManualStockSale
  <2>2. \A q \in StockRows : /\ q # r => stock'[q] = stock[q]
                             /\ stock[r].status = from /\ stock'[r].status = to
    BY <2>1 DEF SetStock, IInv, TypeOK, StockRow
  <2>3. QED
    BY <2>1, <2>2 DEF SetStock, Quiet
<1>8. ASSUME NEW o \in Operations, CancelOperation(o)
      PROVE  Ends(o)
  BY <1>8 DEF CancelOperation, Ends, Releases, Open
<1>9. ASSUME NEW o \in Operations, ReconcileOperation(o)
      PROVE  Ends(o)
  BY <1>9 DEF ReconcileOperation, Ends, Open
<1>10. CASE Tick
  BY <1>2, <1>10 DEF Tick, Runnable, Accounted
<1>11. CASE Engine
  BY <1>11, TaskIsAccounted DEF Engine, Accounted
<1>12. CASE Customer
  <2>1. ASSUME Unquoted # {}, NEW offer \in Offers, NEW s \in Accounts \union {None},
               Quote(CHOOSE o \in Unquoted : TRUE, offer, s)
        PROVE  Quiet
    BY <1>4, <2>1 DEF Unquoted
  <2>2. QED
    BY <1>5, <1>8, <1>12, <2>1 DEF Customer, Accounted
<1>13. CASE Administrator
  <2>1. ASSUME NEW p, NEW enabled, SavePlan(p, enabled) PROVE Quiet
    BY <1>1, <2>1 DEF SavePlan
  <2>2. ASSUME NEW p, DeletePanel(p) PROVE Quiet
    BY <1>1, <2>2 DEF DeletePanel
  <2>3. QED
    BY <1>2, <1>6, <1>7, <1>9, <1>13, <2>1, <2>2 DEF Administrator, Accounted
<1>14. CASE Crash \/ (\E call \in wire : LateEffect(call)) \/ UNCHANGED vars
  BY <1>1, <1>14 DEF Crash, LateEffect, durable, vars, Accounted
<1>15. QED
  BY <1>10, <1>11, <1>12, <1>13, <1>14 DEF Next

-----------------------------------------------------------------------------
(* The sets of open and of done operations *)

OpenOps == {p \in Operations : operation[p].status \in Open}
DoneOps == {p \in Operations : operation[p].status = "done"}

OffersKept == \A p \in OpenOps \union DoneOps : Offer(p)' = Offer(p)

(* Every set of operations is finite.                                      *)
LEMMA OperationsAreFinite ==
  ASSUME NEW S \in SUBSET Operations
  PROVE  IsFiniteSet(S) /\ Cardinality(S) \in Nat
BY RowsAssumption, FS_Subset, FS_CardinalityType

(* The operations with a coupon, those of a user, and both.                *)
Coupons == {p \in Operations : Offer(p).coupon}
Of(u)   == {p \in Operations : User(p) = u}
SpentBy(u) == DoneOps \intersect Coupons \intersect Of(u)

(* The sets of the properties in terms of these.                           *)
Sets ==
  /\ OpenOps \intersect DoneOps = {}
  /\ OpenOps \union DoneOps \subseteq Existing /\ Existing \subseteq Operations
  /\ \A u : OpenOf(u) = OpenOps \intersect Of(u)
  /\ \A u : SettledOf(u) = DoneOps \intersect Of(u)
  /\ \A u : UsingCoupon(u) = OpenOps \intersect Coupons \intersect Of(u)
  /\ Using(Open) = OpenOps \intersect Coupons
  /\ Using({"done"}) = DoneOps \intersect Coupons
  /\ \A u : {p \in Using(Open \union {"done"}) : User(p) = u} = UsingCoupon(u) \union SpentBy(u)

(* So they are, before a step and after it.                                *)
LEMMA SetsHold == Sets /\ Sets'
BY DEF Sets, OpenOps, DoneOps, Existing, OpenOf, SettledOf, UsingCoupon, Using, Open,
       SpentBy, Coupons, Of

(* An operation that keeps its offer stays in both.                        *)
LEMMA OfferLabels ==
  ASSUME NEW p \in Operations, Offer(p)' = Offer(p)
  PROVE  /\ p \in Coupons' <=> p \in Coupons
         /\ \A u : p \in Of(u)' <=> p \in Of(u)
BY DEF Coupons, Of, User

(* A quiet step and an adjustment leave both sets alone.                   *)
LEMMA QuietSets ==
  ASSUME IInv, Quiet \/ \E adj \in Adjustments : AdjustWallet(adj)
  PROVE  OpenOps' = OpenOps /\ DoneOps' = DoneOps /\ OffersKept
<1>1. CASE Quiet
  BY <1>1 DEF Quiet, OpenOps, DoneOps, OffersKept, Existing, Offer, Open
<1>2. CASE \E adj \in Adjustments : AdjustWallet(adj)
  BY <1>2 DEF AdjustWallet, OpenOps, DoneOps, OffersKept, Offer
<1>3. QED
  BY <1>1, <1>2

(* A purchase opens an operation.                                          *)
LEMMA PurchaseSets ==
  ASSUME IInv, NEW o \in Operations, NEW rows \in SUBSET StockRows, Purchase(o, rows)
  PROVE  /\ OpenOps' = OpenOps \union {o} /\ DoneOps' = DoneOps
         /\ o \notin OpenOps /\ o \notin DoneOps
         /\ \A p \in Operations : Offer(p)' = Offer(p)
         /\ quote[o] # None
         /\ operation'[o].stock = rows
         /\ \A p \in Operations : p # o => operation'[p] = operation[p]
<1>. DEFINE n  == Cardinality(Existing) + 1
            op == [FreshOperation EXCEPT !.stock = rows, !.createdAt = n]
<1>1. operation' = [operation EXCEPT ![o] = op] /\ operation[o].status = "none"
  BY DEF Purchase, Existing
<1>2. op.status = "queued" /\ op.stock = rows
  BY DEF FreshOperation
<1>. HIDE DEF op
<1>3. \A p \in Operations : operation'[p] = IF p = o THEN op ELSE operation[p]
  BY <1>1 DEF IInv, TypeOK
<1>4. QED
  BY <1>1, <1>2, <1>3 DEF OpenOps, DoneOps, Open, Purchase, Offer

(* An ending keeps the stock of every row of operations.                   *)
LEMMA EndingRows ==
  ASSUME IInv, NEW o \in Operations, Ends(o)
  PROVE  /\ \A p \in Operations : /\ operation'[p].stock = operation[p].stock
                                  /\ p # o => operation'[p] = operation[p]
         /\ Releases(o) => operation'[o].status = "failed"
         /\ FinalizeOperation(o) => operation'[o].status = "done"
         /\ quote[o] # None
<1>1. operation[o] \in OperationRow
  BY DEF IInv, TypeOK
<1>2. quote[o] # None
  BY DEF Ends, IInv, QuoteInv, Existing, Open
<1>3. ASSUME NEW row, NEW status, NEW v,
             row = [operation[o] EXCEPT !.status = status]
      PROVE  /\ row.stock = operation[o].stock
             /\ [row EXCEPT !.reason = v].stock = row.stock
             /\ [row EXCEPT !.results = v].stock = row.stock
             /\ [row EXCEPT !.reason = v].status = status
             /\ [row EXCEPT !.results = v].status = status
  BY <1>1, <1>3 DEF OperationRow
<1>4. CASE Releases(o)
  <2>1. PICK reason \in {"cancelled", "failed"} : ReleaseOperation(o, reason)
    BY <1>4 DEF Releases
  <2>. DEFINE row == [operation[o] EXCEPT !.status = "failed"]
  <2>2. operation' = [operation EXCEPT ![o] = [row EXCEPT !.reason = reason]]
    BY <2>1 DEF ReleaseOperation
  <2>3. /\ [row EXCEPT !.reason = reason].stock = operation[o].stock
        /\ [row EXCEPT !.reason = reason].status = "failed"
    BY <1>3
  <2>. HIDE DEF row
  <2>4. /\ \A p \in Operations : p # o => operation'[p] = operation[p]
        /\ operation'[o] = [row EXCEPT !.reason = reason]
    BY <2>2 DEF IInv, TypeOK
  <2>5. ~FinalizeOperation(o)
    <3>1. FinalizeOperation(o) => operation'[o].status = "done"
      BY <1>2, FinalizeFacts DEF IInv
    <3>2. QED
      BY <2>3, <2>4, <3>1
  <2>6. QED
    BY <1>2, <2>3, <2>4, <2>5
<1>5. CASE FinalizeOperation(o) /\ ~Releases(o)
  <2>. DEFINE row == [operation[o] EXCEPT !.status = "done"]
  <2>1. operation' = [operation EXCEPT ![o] = [row EXCEPT !.results = Quantity(o)]]
    BY <1>5 DEF FinalizeOperation
  <2>2. /\ [row EXCEPT !.results = Quantity(o)].stock = operation[o].stock
        /\ [row EXCEPT !.results = Quantity(o)].status = "done"
    BY <1>3
  <2>. HIDE DEF row
  <2>3. /\ \A p \in Operations : p # o => operation'[p] = operation[p]
        /\ operation'[o] = [row EXCEPT !.results = Quantity(o)]
    BY <2>1 DEF IInv, TypeOK
  <2>4. QED
    BY <1>2, <1>5, <2>2, <2>3
<1>6. QED
  BY <1>4, <1>5 DEF Ends

(* An ending closes an operation, and a settlement adds it to the done ones. *)
LEMMA EndingSets ==
  ASSUME IInv, NEW o \in Operations, Ends(o)
  PROVE  /\ o \in OpenOps /\ o \notin DoneOps
         /\ OpenOps' = OpenOps \ {o}
         /\ Releases(o) => DoneOps' = DoneOps
         /\ FinalizeOperation(o) => DoneOps' = DoneOps \union {o}
         /\ \A p \in Operations : Offer(p)' = Offer(p)
         /\ quote[o] # None
BY EndingRows DEF Ends, OpenOps, DoneOps, Open, Offer

-----------------------------------------------------------------------------
(* The money held *)

HeldIsReserved ==
  \A u \in Users :
    account[u].held = SumFunctionOnSet([o \in OpenOf(u) |-> Amount(o)], OpenOf(u))

(* Prices of operations that exist are natural numbers.                    *)
LEMMA PriceType ==
  ASSUME IInv, NEW o \in Existing
  PROVE  User(o) \in Users /\ Amount(o) \in Nat
BY OfferType DEF IInv, QuoteInv, Existing

(* What a user holds after a step that opens no operation and closes none. *)
LEMMA SameHeld ==
  ASSUME IInv, HeldIsReserved, OpenOps' = OpenOps, OffersKept,
         \A u \in Users : account'[u].held = account[u].held
  PROVE  HeldIsReserved'
<1>. SUFFICES ASSUME NEW u \in Users
              PROVE  account'[u].held = SumFunctionOnSet([o \in OpenOf(u) |-> Amount(o)], OpenOf(u))'
  BY DEF HeldIsReserved
<1>1. OpenOf(u)' = OpenOf(u) /\ \A o \in OpenOf(u) : Amount(o)' = Amount(o)
  BY DEF OffersKept, OpenOps, OpenOf, User, Amount
<1>2. [o \in OpenOf(u) |-> Amount(o)]' = [o \in OpenOf(u) |-> Amount(o)]
  BY <1>1
<1>3. QED
  BY <1>1, <1>2 DEF HeldIsReserved

(* A purchase adds one summand.                                            *)
LEMMA PurchaseHeld ==
  ASSUME IInv, HeldIsReserved, NEW o \in Operations, NEW rows \in SUBSET StockRows,
         Purchase(o, rows)
  PROVE  HeldIsReserved'
<1>. SUFFICES ASSUME NEW u \in Users
              PROVE  account'[u].held = SumFunctionOnSet([p \in OpenOf(u) |-> Amount(p)], OpenOf(u))'
  BY DEF HeldIsReserved
<1>. DEFINE S == OpenOf(u)
            f == [p \in OpenOf(u) |-> Amount(p)]
            g == f'
<1>1. /\ OpenOps' = OpenOps \union {o} /\ o \notin OpenOps /\ quote[o] # None
      /\ \A p \in Operations : User(p)' = User(p) /\ Amount(p)' = Amount(p)
  BY PurchaseSets DEF User, Amount
<1>2. /\ S' = IF u = User(o) THEN S \union {o} ELSE S
      /\ o \notin S /\ S \subseteq Operations
  BY <1>1 DEF OpenOf, OpenOps
<1>3. \A p \in S : f[p] \in Int
  BY PriceType DEF OpenOf, Existing, Open
<1>4. \A p \in S' : g[p] = Amount(p)
  BY <1>1, <1>2
<1>5. \A p \in S : f[p] = Amount(p)
  OBVIOUS
<1>6. Amount(o) \in Int
  BY <1>1, OfferType DEF IInv
<1>7. IsFiniteSet(S)
  BY <1>2, OperationsAreFinite
<1>8. account[u].held = SumFunctionOnSet(f, S)
  BY DEF HeldIsReserved
<1>9. account'[u].held = IF u = User(o) THEN account[u].held + Amount(o) ELSE account[u].held
  BY PurchaseMoney
<1>. HIDE DEF S, f, g
<1>10. SumFunctionOnSet(g, S) = SumFunctionOnSet(f, S)
  BY <1>2, <1>4, <1>5, <1>7, SumAgree
<1>11. CASE u = User(o)
  <2>1. \A p \in S \union {o} : g[p] \in Int
    BY <1>2, <1>3, <1>4, <1>5, <1>6, <1>11
  <2>2. SumFunctionOnSet(g, S \union {o}) = g[o] + SumFunctionOnSet(g, S)
    BY <1>2, <1>7, <2>1, SumWith
  <2>3. SumFunctionOnSet(f, S) \in Int
    BY <1>3, <1>7, SumInt
  <2>4. account'[u].held = SumFunctionOnSet(g, S')
    BY <1>2, <1>4, <1>6, <1>8, <1>9, <1>10, <1>11, <2>2, <2>3
  <2>5. QED
    BY <2>4 DEF S, f, g
<1>12. CASE u # User(o)
  <2>1. account'[u].held = SumFunctionOnSet(g, S')
    BY <1>2, <1>8, <1>9, <1>10, <1>12
  <2>2. QED
    BY <2>1 DEF S, f, g
<1>13. QED
  BY <1>11, <1>12

(* An ending takes one summand out.                                        *)
LEMMA EndingHeld ==
  ASSUME IInv, HeldIsReserved, NEW o \in Operations, Ends(o)
  PROVE  HeldIsReserved'
<1>. SUFFICES ASSUME NEW u \in Users
              PROVE  account'[u].held = SumFunctionOnSet([p \in OpenOf(u) |-> Amount(p)], OpenOf(u))'
  BY DEF HeldIsReserved
<1>. DEFINE S == OpenOf(u)
            f == [p \in OpenOf(u) |-> Amount(p)]
            g == f'
<1>1. /\ o \in OpenOps /\ OpenOps' = OpenOps \ {o}
      /\ \A p \in Operations : User(p)' = User(p) /\ Amount(p)' = Amount(p)
  BY EndingSets DEF User, Amount
<1>2. /\ S' = S \ {o} /\ S \subseteq Operations
      /\ o \in S <=> u = User(o)
  BY <1>1 DEF OpenOf, OpenOps
<1>3. \A p \in S : f[p] \in Int /\ f[p] = Amount(p)
  BY PriceType DEF OpenOf, Existing, Open
<1>4. \A p \in S' : g[p] = Amount(p)
  BY <1>1, <1>2
<1>5. IsFiniteSet(S) /\ IsFiniteSet(S')
  BY <1>2, OperationsAreFinite
<1>6. account[u].held = SumFunctionOnSet(f, S)
  BY DEF HeldIsReserved
<1>7. account'[u].held = IF u = User(o) THEN account[u].held - Amount(o) ELSE account[u].held
  BY ReleaseMoney, SettlementMoney DEF Ends, Releases
<1>. HIDE DEF S, f, g
<1>8. SumFunctionOnSet(g, S') = SumFunctionOnSet(f, S')
  BY <1>2, <1>3, <1>4, <1>5, SumAgree
<1>9. CASE u = User(o)
  <2>1. SumFunctionOnSet(f, S) = f[o] + SumFunctionOnSet(f, S \ {o})
    BY <1>2, <1>3, <1>5, <1>9, SumWithout
  <2>2. SumFunctionOnSet(f, S \ {o}) \in Int /\ f[o] \in Int /\ f[o] = Amount(o)
    BY <1>2, <1>3, <1>5, <1>9, SumInt
  <2>3. account'[u].held = SumFunctionOnSet(g, S')
    BY <1>2, <1>6, <1>7, <1>8, <1>9, <2>1, <2>2
  <2>4. QED
    BY <2>3 DEF S, f, g
<1>10. CASE u # User(o)
  <2>1. S' = S
    BY <1>2, <1>10
  <2>2. account'[u].held = SumFunctionOnSet(g, S')
    BY <1>6, <1>7, <1>8, <1>10, <2>1
  <2>3. QED
    BY <2>2 DEF S, f, g
<1>11. QED
  BY <1>9, <1>10

-----------------------------------------------------------------------------
(* The coupon *)

CouponCounted ==
  /\ coupon.reserved = Cardinality(Using(Open))
  /\ coupon.used = Cardinality(Using({"done"}))
  /\ \A u \in Users : coupon.uses[u] = Cardinality(SpentBy(u))

CouponLimits ==
  /\ CouponMaxUses > 0 => coupon.used + coupon.reserved <= CouponMaxUses
  /\ \A u \in Users : Cardinality(UsingCoupon(u) \union SpentBy(u)) <= CouponPerUser

CouponInv == CouponCounted /\ CouponLimits

(* The coupon's row.                                                       *)
LEMMA CouponFields ==
  ASSUME TypeOK
  PROVE  /\ coupon = [reserved |-> coupon.reserved, used |-> coupon.used, uses |-> coupon.uses]
         /\ coupon.reserved \in Nat /\ coupon.used \in Nat /\ coupon.uses \in [Users -> Nat]
BY DEF TypeOK

(* Nothing is counted anew when no operation opens or ends.                *)
LEMMA SameCoupon ==
  ASSUME CouponInv, OpenOps' = OpenOps, DoneOps' = DoneOps, OffersKept, UNCHANGED coupon
  PROVE  CouponInv'
<1>1. /\ Using(Open)' = Using(Open) /\ Using({"done"})' = Using({"done"})
      /\ \A u \in Users : UsingCoupon(u)' = UsingCoupon(u) /\ SpentBy(u)' = SpentBy(u)
  <2>1. \A p \in OpenOps \union DoneOps : /\ p \in Coupons' <=> p \in Coupons
                                          /\ \A u : p \in Of(u)' <=> p \in Of(u)
    BY OfferLabels DEF OffersKept, OpenOps, DoneOps
  <2>2. QED
    BY <2>1, SetsHold DEF Sets, SpentBy
<1>2. QED
  BY <1>1 DEF CouponInv, CouponCounted, CouponLimits

(* A purchase reserves one use, within both limits.                        *)
LEMMA PurchaseCoupon ==
  ASSUME IInv, CouponInv, NEW o \in Operations, NEW rows \in SUBSET StockRows, Purchase(o, rows)
  PROVE  CouponInv'
<1>1. /\ OpenOps' = OpenOps \union {o} /\ DoneOps' = DoneOps
      /\ o \notin OpenOps /\ o \notin DoneOps /\ quote[o] # None
      /\ \A p \in Operations : /\ p \in Coupons' <=> p \in Coupons
                               /\ \A u : p \in Of(u)' <=> p \in Of(u)
  BY PurchaseSets, OfferLabels
<1>2. /\ OpenOps \subseteq Operations /\ DoneOps \subseteq Operations
      /\ Offer(o).coupon <=> o \in Coupons
      /\ \A u : u = User(o) <=> o \in Of(u)
  BY DEF OpenOps, DoneOps, Coupons, Of
<1>3. /\ Using({"done"})' = Using({"done"})
      /\ \A u \in Users : SpentBy(u)' = SpentBy(u)
  BY <1>1, <1>2, SetsHold DEF Sets, SpentBy
<1>4. CASE ~Offer(o).coupon
  <2>1. /\ Using(Open)' = Using(Open)
        /\ \A u \in Users : UsingCoupon(u)' = UsingCoupon(u)
    <3>1. OpenOps' \intersect Coupons' = OpenOps \intersect Coupons
      BY <1>1, <1>2, <1>4
    <3>2. \A u : OpenOps' \intersect Coupons' \intersect Of(u)'
                  = OpenOps \intersect Coupons \intersect Of(u)
      BY <1>1, <1>2, <3>1
    <3>3. QED
      BY <3>1, <3>2, SetsHold DEF Sets
  <2>2. coupon' = coupon
    BY <1>4 DEF Purchase
  <2>3. QED
    BY <1>3, <2>1, <2>2 DEF CouponInv, CouponCounted, CouponLimits
<1>5. CASE Offer(o).coupon
  <2>1. /\ Using(Open)' = Using(Open) \union {o} /\ o \notin Using(Open)
        /\ \A u \in Users : UsingCoupon(u)' = IF u = User(o) THEN UsingCoupon(u) \union {o}
                                                              ELSE UsingCoupon(u)
        /\ \A u \in Users : o \notin UsingCoupon(u)
    <3>1. /\ OpenOps' \intersect Coupons' = (OpenOps \intersect Coupons) \union {o}
          /\ o \notin OpenOps \intersect Coupons
      BY <1>1, <1>2, <1>5
    <3>2. \A u : /\ OpenOps' \intersect Coupons' \intersect Of(u)'
                      = IF u = User(o) THEN (OpenOps \intersect Coupons \intersect Of(u)) \union {o}
                                       ELSE OpenOps \intersect Coupons \intersect Of(u)
                 /\ o \notin OpenOps \intersect Coupons \intersect Of(u)
      BY <1>1, <1>2, <3>1
    <3>3. QED
      BY <3>1, <3>2, SetsHold DEF Sets
  <2>2. /\ coupon' = [coupon EXCEPT !.reserved = @ + 1]
        /\ CouponAvailable(User(o))
    BY <1>5 DEF Purchase, MayPurchase
  <2>3. /\ coupon'.reserved = coupon.reserved + 1
        /\ coupon'.used = coupon.used /\ coupon'.uses = coupon.uses
    BY <2>2, CouponFields DEF IInv
  <2>4. /\ Using(Open) \subseteq Operations
        /\ \A u \in Users : UsingCoupon(u) \subseteq Operations /\ SpentBy(u) \subseteq Operations
    BY <1>2, SetsHold DEF Sets, SpentBy
  <2>5. Cardinality(Using(Open) \union {o}) = Cardinality(Using(Open)) + 1
    BY <2>1, <2>4, OperationsAreFinite, FS_AddElement
  <2>6. CouponCounted'
    BY <1>3, <2>1, <2>3, <2>5 DEF CouponInv, CouponCounted
  <2>7. CouponMaxUses > 0 => coupon'.used + coupon'.reserved <= CouponMaxUses
    BY <2>2, <2>3, CouponFields, BoundsAssumption DEF CouponAvailable, IInv
  <2>8. ASSUME NEW u \in Users
        PROVE  Cardinality(UsingCoupon(u)' \union SpentBy(u)') <= CouponPerUser
    <3>1. CASE u # User(o)
      BY <1>3, <2>1, <3>1 DEF CouponInv, CouponLimits
    <3>2. CASE u = User(o)
      <4>. DEFINE A == UsingCoupon(u)
                  B == SpentBy(u)
      <4>1. /\ IsFiniteSet(A) /\ IsFiniteSet(B) /\ IsFiniteSet(A \union B)
            /\ Cardinality(A) \in Nat /\ Cardinality(B) \in Nat
        <5>1. A \in SUBSET Operations /\ B \in SUBSET Operations
                /\ A \union B \in SUBSET Operations
          BY <2>4
        <5>2. QED
          BY <5>1, OperationsAreFinite
      <4>2. o \notin A \union B /\ A \intersect B = {}
        BY <1>1, <2>1, SetsHold DEF Sets, SpentBy
      <4>3. Cardinality(A) + Cardinality(B) < CouponPerUser
        BY <2>2, <3>2, <4>1, BoundsAssumption DEF CouponAvailable, CouponInv, CouponCounted
      <4>4. UsingCoupon(u)' \union SpentBy(u)' = (A \union B) \union {o}
        BY <1>3, <2>1, <3>2
      <4>. HIDE DEF A, B
      <4>5. Cardinality(A \union B) = Cardinality(A) + Cardinality(B)
        <5>1. Cardinality(A \union B) = Cardinality(A) + Cardinality(B) - Cardinality({})
          BY <4>1, <4>2, FS_Union
        <5>2. QED
          BY <4>1, <5>1, FS_EmptySet
      <4>6. Cardinality((A \union B) \union {o}) = Cardinality(A \union B) + 1
        BY <4>1, <4>2, FS_AddElement
      <4>7. QED
        <5>1. Cardinality((A \union B) \union {o}) <= CouponPerUser
          BY <4>1, <4>3, <4>5, <4>6, BoundsAssumption
        <5>2. QED
          BY <4>4, <5>1
    <3>3. QED
      BY <3>1, <3>2
  <2>9. CouponLimits'
    BY <2>7, <2>8 DEF CouponLimits
  <2>10. QED
    BY <2>6, <2>9 DEF CouponInv
<1>6. QED
  BY <1>4, <1>5

(* The counters after the reservation of a use is dropped.                 *)
LEMMA DropFields ==
  ASSUME TypeOK, NEW o \in Operations, Offer(o).coupon, coupon.reserved > 0
  PROVE  DropReservation(coupon, o) =
           [reserved |-> coupon.reserved - 1, used |-> coupon.used, uses |-> coupon.uses]
BY CouponFields DEF DropReservation

(* An ending gives the reserved use back or makes it a use.                *)
LEMMA EndingCoupon ==
  ASSUME IInv, CouponInv, NEW o \in Operations, Ends(o)
  PROVE  CouponInv'
<1>1. /\ o \in OpenOps /\ o \notin DoneOps /\ quote[o] # None
      /\ OpenOps' = OpenOps \ {o}
      /\ Releases(o) => DoneOps' = DoneOps
      /\ FinalizeOperation(o) => DoneOps' = DoneOps \union {o}
      /\ \A p \in Operations : /\ p \in Coupons' <=> p \in Coupons
                               /\ \A u : p \in Of(u)' <=> p \in Of(u)
  BY EndingSets, OfferLabels
<1>2. /\ OpenOps \subseteq Operations /\ DoneOps \subseteq Operations
      /\ Offer(o).coupon <=> o \in Coupons
      /\ \A u : u = User(o) <=> o \in Of(u)
  BY DEF OpenOps, DoneOps, Coupons, Of
<1>3. /\ Using(Open) \subseteq Operations /\ Using({"done"}) \subseteq Operations
      /\ \A u \in Users : UsingCoupon(u) \subseteq Operations /\ SpentBy(u) \subseteq Operations
  BY <1>2, SetsHold DEF Sets, SpentBy
<1>4. /\ IsFiniteSet(Using(Open)) /\ IsFiniteSet(Using({"done"}))
      /\ Cardinality(Using(Open)) \in Nat /\ Cardinality(Using({"done"})) \in Nat
      /\ \A u \in Users : IsFiniteSet(SpentBy(u)) /\ IsFiniteSet(UsingCoupon(u) \union SpentBy(u))
  <2>1. \A u \in Users : UsingCoupon(u) \union SpentBy(u) \in SUBSET Operations
    BY <1>3
  <2>2. QED
    BY <1>3, <2>1, OperationsAreFinite
<1>5. CASE ~Offer(o).coupon
  <2>1. /\ Using(Open)' = Using(Open) /\ Using({"done"})' = Using({"done"})
        /\ \A u \in Users : UsingCoupon(u)' = UsingCoupon(u) /\ SpentBy(u)' = SpentBy(u)
    <3>1. /\ OpenOps' \intersect Coupons' = OpenOps \intersect Coupons
          /\ DoneOps' \intersect Coupons' = DoneOps \intersect Coupons
      BY <1>1, <1>2, <1>5 DEF Ends
    <3>2. \A u : /\ OpenOps' \intersect Coupons' \intersect Of(u)'
                     = OpenOps \intersect Coupons \intersect Of(u)
                 /\ DoneOps' \intersect Coupons' \intersect Of(u)'
                     = DoneOps \intersect Coupons \intersect Of(u)
      BY <1>1, <1>2, <3>1
    <3>3. QED
      BY <3>1, <3>2, SetsHold DEF Sets, SpentBy
  <2>2. coupon' = coupon
    BY <1>5 DEF Ends, Releases, ReleaseOperation, FinalizeOperation, DropReservation
  <2>3. QED
    BY <2>1, <2>2 DEF CouponInv, CouponCounted, CouponLimits
<1>6. CASE Offer(o).coupon
  <2>1. /\ Using(Open)' = Using(Open) \ {o} /\ o \in Using(Open) /\ o \notin Using({"done"})
        /\ \A u \in Users : UsingCoupon(u)' = UsingCoupon(u) \ {o}
        /\ \A u \in Users : o \in UsingCoupon(u) <=> u = User(o)
        /\ \A u \in Users : o \notin SpentBy(u)
    BY <1>1, <1>2, <1>6, SetsHold DEF Sets, SpentBy
  <2>2. Cardinality(Using(Open) \ {o}) = Cardinality(Using(Open)) - 1
    BY <1>4, <2>1, FS_RemoveElement
  <2>3. Cardinality(Using(Open)) > 0
    <3>1. Cardinality(Using(Open) \ {o}) \in Nat
      BY <1>3, OperationsAreFinite
    <3>2. QED
      BY <1>4, <2>2, <3>1
  <2>4. DropReservation(coupon, o) =
          [reserved |-> coupon.reserved - 1, used |-> coupon.used, uses |-> coupon.uses]
    BY <1>6, <2>3, DropFields DEF IInv, CouponInv, CouponCounted
  <2>5. /\ coupon.reserved \in Nat /\ coupon.used \in Nat /\ coupon.uses \in [Users -> Nat]
        /\ User(o) \in Users
    BY <1>1, CouponFields, OfferType DEF IInv
  <2>6. CASE Releases(o)
    <3>1. coupon' = [reserved |-> coupon.reserved - 1, used |-> coupon.used, uses |-> coupon.uses]
      BY <2>4, <2>6 DEF Releases, ReleaseOperation
    <3>2. /\ Using({"done"})' = Using({"done"})
          /\ \A u \in Users : SpentBy(u)' = SpentBy(u)
      BY <1>1, <1>2, <2>6, SetsHold DEF Sets, SpentBy
    <3>3. CouponCounted'
      BY <2>1, <2>2, <3>1, <3>2 DEF CouponInv, CouponCounted
    <3>4. CouponMaxUses > 0 => coupon'.used + coupon'.reserved <= CouponMaxUses
      BY <2>5, <3>1, BoundsAssumption DEF CouponInv, CouponLimits
    <3>5. ASSUME NEW u \in Users
          PROVE  Cardinality(UsingCoupon(u)' \union SpentBy(u)') <= CouponPerUser
      <4>1. UsingCoupon(u)' \union SpentBy(u)' \subseteq UsingCoupon(u) \union SpentBy(u)
        BY <2>1, <3>2
      <4>. DEFINE A == UsingCoupon(u) \union SpentBy(u)
                  B == UsingCoupon(u)' \union SpentBy(u)'
      <4>2. IsFiniteSet(A) /\ Cardinality(A) <= CouponPerUser
        BY <1>4 DEF CouponInv, CouponLimits
      <4>. HIDE DEF A, B
      <4>3. Cardinality(B) <= Cardinality(A) /\ Cardinality(A) \in Nat /\ Cardinality(B) \in Nat
        BY <4>1, <4>2, FS_Subset, FS_CardinalityType DEF A, B
      <4>4. QED
        BY <4>2, <4>3, BoundsAssumption DEF A, B
    <3>6. QED
      BY <3>3, <3>4, <3>5 DEF CouponInv, CouponLimits
  <2>7. CASE FinalizeOperation(o)
    <3>. DEFINE c == DropReservation(coupon, o)
                d == [c EXCEPT !.used = @ + 1]
    <3>1. d = [reserved |-> coupon.reserved - 1, used |-> coupon.used + 1, uses |-> coupon.uses]
      BY <2>4
    <3>2. coupon' = [d EXCEPT !.uses[User(o)] = @ + 1]
      BY <1>6, <2>7 DEF FinalizeOperation
    <3>. HIDE DEF d
    <3>3. /\ coupon'.reserved = coupon.reserved - 1 /\ coupon'.used = coupon.used + 1
          /\ coupon'.uses = [coupon.uses EXCEPT ![User(o)] = @ + 1]
      BY <3>1, <3>2
    <3>4. \A u \in Users : coupon'.uses[u] = IF u = User(o) THEN coupon.uses[u] + 1 ELSE coupon.uses[u]
      BY <2>5, <3>3
    <3>5. /\ Using({"done"})' = Using({"done"}) \union {o}
          /\ \A u \in Users : SpentBy(u)' = IF u = User(o) THEN SpentBy(u) \union {o} ELSE SpentBy(u)
      BY <1>1, <1>2, <1>6, <2>7, SetsHold DEF Sets, SpentBy
    <3>6. /\ Cardinality(Using({"done"}) \union {o}) = Cardinality(Using({"done"})) + 1
          /\ \A u \in Users : Cardinality(SpentBy(u) \union {o}) = Cardinality(SpentBy(u)) + 1
      BY <1>4, <2>1, FS_AddElement
    <3>7. CouponCounted'
      BY <2>1, <2>2, <3>3, <3>4, <3>5, <3>6 DEF CouponInv, CouponCounted
    <3>8. CouponMaxUses > 0 => coupon'.used + coupon'.reserved <= CouponMaxUses
      BY <2>5, <3>3, BoundsAssumption DEF CouponInv, CouponLimits
    <3>9. \A u \in Users : UsingCoupon(u)' \union SpentBy(u)' = UsingCoupon(u) \union SpentBy(u)
      BY <2>1, <3>5
    <3>10. QED
      BY <3>7, <3>8, <3>9 DEF CouponInv, CouponLimits
  <2>8. QED
    BY <2>6, <2>7 DEF Ends
<1>7. QED
  BY <1>5, <1>6

-----------------------------------------------------------------------------
ReservedInv == HeldIsReserved /\ CouponInv

(* Every step keeps what reserves what.                                    *)
LEMMA NextReserved == IInv /\ ReservedInv /\ [Next]_vars => ReservedInv'
<1>. SUFFICES ASSUME IInv, ReservedInv, [Next]_vars PROVE ReservedInv'
  OBVIOUS
<1>1. CASE Quiet
  BY <1>1, QuietSets, SameHeld, SameCoupon DEF Quiet, ReservedInv
<1>2. ASSUME NEW adj \in Adjustments, AdjustWallet(adj)
      PROVE  ReservedInv'
  <2>1. UNCHANGED coupon /\ \A u \in Users : account'[u].held = account[u].held
    BY <1>2, AdjustMoney DEF AdjustWallet
  <2>2. QED
    BY <1>2, <2>1, QuietSets, SameHeld, SameCoupon DEF ReservedInv
<1>3. QED
  BY <1>1, <1>2, NextIsAccounted, PurchaseHeld, PurchaseCoupon, EndingHeld, EndingCoupon
     DEF Accounted, ReservedInv

(* What the open operations reserve is what is reserved, in every          *)
(* behaviour: the money held for each user is the total of that user's     *)
(* open operations, and the coupon's counters are those of the operations  *)
(* that use it, within its limits, whatever is released, settled, parked   *)
(* or interrupted.                                                         *)
THEOREM ReservationsExplained == Spec => []ReservationsAccounted
<1>1. Init => ReservedInv
  <2>. SUFFICES ASSUME Init PROVE ReservedInv
    OBVIOUS
  <2>1. OpenOps = {} /\ DoneOps = {}
    BY DEF Init, OpenOps, DoneOps, Open, NoOperation, FreshOperation
  <2>2. /\ Using(Open) = {} /\ Using({"done"}) = {}
        /\ \A u : OpenOf(u) = {} /\ SpentBy(u) = {} /\ UsingCoupon(u) \union SpentBy(u) = {}
    BY <2>1, SetsHold DEF Sets, SpentBy
  <2>3. HeldIsReserved
    BY <2>2, SumEmpty DEF HeldIsReserved, Init
  <2>4. CouponInv
    <3>1. /\ coupon.reserved = 0 /\ coupon.used = 0
          /\ \A u \in Users : coupon.uses[u] = 0
      BY DEF Init
    <3>2. Cardinality({}) = 0
      BY FS_EmptySet
    <3>3. CouponCounted
      BY <2>2, <3>1, <3>2 DEF CouponCounted
    <3>4. CouponLimits
      BY <2>2, <3>1, <3>2, BoundsAssumption DEF CouponLimits
    <3>5. QED
      BY <3>3, <3>4 DEF CouponInv
  <2>5. QED
    BY <2>3, <2>4 DEF ReservedInv
<1>2. ReservedInv => ReservationsAccounted
  BY SetsHold DEF Sets, ReservedInv, HeldIsReserved, CouponInv, CouponCounted, CouponLimits,
     ReservationsAccounted
<1>3. QED
  BY <1>1, <1>2, NextReserved, Invariance, PTL DEF Spec

-----------------------------------------------------------------------------
(* The money spent *)

CostOf(u)  == [o \in SettledOf(u) |-> Amount(o) - Cashback(o)]
BonusOf(u) == [o \in ReferredBy(u) |-> Commission(o)]
DeltaOf(u) == [adj \in PostedTo(u) |-> adj.amount]

Spent(u)    == SumFunctionOnSet(CostOf(u), SettledOf(u))
Earned(u)   == SumFunctionOnSet(BonusOf(u), ReferredBy(u))
Adjusted(u) == SumFunctionOnSet(DeltaOf(u), PostedTo(u))

PostedFinite == \A u \in Users : IsFiniteSet(PostedTo(u))

Referred(u) == {p \in Operations : Referrer[User(p)] = u /\ <<"commission", p>> \in ledger}

(* The done operations of a user, and those that paid the user.            *)
DoneSets == \A u : /\ SettledOf(u) = DoneOps \intersect Of(u)
                   /\ ReferredBy(u) = DoneOps \intersect Referred(u)

(* The sets that the sums are over are those of the done operations.       *)
LEMMA DoneSetsHold == DoneSets /\ DoneSets'
BY DEF DoneSets, SettledOf, ReferredBy, DoneOps, Existing, Of, Referred

(* What a kept offer keeps.                                                *)
LEMMA OfferMoney ==
  ASSUME NEW p \in Operations, Offer(p)' = Offer(p)
  PROVE  /\ User(p)' = User(p) /\ Amount(p)' = Amount(p)
         /\ Cashback(p)' = Cashback(p) /\ Commission(p)' = Commission(p)
         /\ \A u : p \in Of(u)' <=> p \in Of(u)
BY DEF User, Amount, Cashback, Commission, Of

SameCommission(p) == <<"commission", p>> \in ledger' <=> <<"commission", p>> \in ledger

(* What a kept offer and a kept commission keep.                           *)
LEMMA OfferReferral ==
  ASSUME NEW p \in Operations, Offer(p)' = Offer(p), SameCommission(p), NEW u
  PROVE  p \in Referred(u)' <=> p \in Referred(u)
BY DEF User, Referred, SameCommission

(* What the summands are.                                                  *)
LEMMA SummandTypes ==
  ASSUME IInv, NEW u
  PROVE  /\ IsFiniteSet(SettledOf(u)) /\ IsFiniteSet(ReferredBy(u))
         /\ \A o \in SettledOf(u) : CostOf(u)[o] = Amount(o) - Cashback(o) /\ CostOf(u)[o] \in Int
         /\ \A o \in ReferredBy(u) : BonusOf(u)[o] = Commission(o) /\ BonusOf(u)[o] \in Int
         /\ Spent(u) \in Int /\ Earned(u) \in Int
<1>1. SettledOf(u) \subseteq Existing /\ ReferredBy(u) \subseteq Existing /\ Existing \subseteq Operations
  BY DEF SettledOf, ReferredBy, Existing
<1>2. IsFiniteSet(SettledOf(u)) /\ IsFiniteSet(ReferredBy(u))
  BY <1>1, OperationsAreFinite
<1>3. \A o \in Existing : Amount(o) - Cashback(o) \in Int /\ Commission(o) \in Int
  BY OfferType, MoneyTypes DEF IInv, QuoteInv, Existing
<1>4. /\ \A o \in SettledOf(u) : CostOf(u)[o] = Amount(o) - Cashback(o) /\ CostOf(u)[o] \in Int
      /\ \A o \in ReferredBy(u) : BonusOf(u)[o] = Commission(o) /\ BonusOf(u)[o] \in Int
  BY <1>1, <1>3 DEF CostOf, BonusOf
<1>5. QED
  BY <1>2, <1>4, SumInt DEF Spent, Earned

(* While nothing is settled the two sums stay.                             *)
LEMMA SameSums ==
  ASSUME DoneOps' = DoneOps, OffersKept, \A o \in Operations : SameCommission(o), NEW u
  PROVE  Spent(u)' = Spent(u) /\ Earned(u)' = Earned(u)
<1>1. \A p \in DoneOps : /\ Amount(p)' = Amount(p)
                         /\ Cashback(p)' = Cashback(p) /\ Commission(p)' = Commission(p)
                         /\ p \in Of(u)' <=> p \in Of(u)
                         /\ p \in Referred(u)' <=> p \in Referred(u)
  BY OfferMoney, OfferReferral DEF OffersKept, DoneOps
<1>2. /\ SettledOf(u)' = SettledOf(u) /\ ReferredBy(u)' = ReferredBy(u)
      /\ SettledOf(u) \subseteq DoneOps /\ ReferredBy(u) \subseteq DoneOps
  BY <1>1, DoneSetsHold DEF DoneSets
<1>3. CostOf(u)' = CostOf(u) /\ BonusOf(u)' = BonusOf(u)
  BY <1>1, <1>2 DEF CostOf, BonusOf
<1>4. QED
  BY <1>2, <1>3 DEF Spent, Earned

(* A settlement adds one cost and, where it is due, one commission.        *)
LEMMA SettledSums ==
  ASSUME IInv, IInv', NEW o \in Operations, Ends(o), FinalizeOperation(o), NEW u \in Users
  PROVE  /\ Spent(u)' = Spent(u) + IF u = User(o) THEN Amount(o) - Cashback(o) ELSE 0
         /\ Earned(u)' = Earned(u) + IF u = Beneficiary(o) THEN Commission(o) ELSE 0
<1>. DEFINE S == SettledOf(u)
            R == ReferredBy(u)
            f == CostOf(u)
            g == BonusOf(u)
            T == S'
            Q == R'
            h == f'
            k == g'
<1>1. /\ DoneOps' = DoneOps \union {o} /\ o \notin DoneOps /\ quote[o] # None
      /\ \A p \in Operations : Offer(p)' = Offer(p)
  BY EndingSets
<1>2. /\ T = IF u = User(o) THEN S \union {o} ELSE S
      /\ Q = IF u = Beneficiary(o) THEN R \union {o} ELSE R
      /\ o \notin S /\ o \notin R /\ S \subseteq Operations /\ R \subseteq Operations
  <2>1. \A p \in Operations : /\ p \in Of(u)' <=> p \in Of(u)
                              /\ p # o => (p \in Referred(u)' <=> p \in Referred(u))
    <3>1. \A p \in Operations : p # o => SameCommission(p)
      BY DEF FinalizeOperation, SameCommission
    <3>2. QED
      BY <1>1, <3>1, OfferMoney, OfferReferral
  <2>2. /\ u = User(o) <=> o \in Of(u)
        /\ u = Beneficiary(o) <=> o \in Referred(u)'
        /\ DoneOps \subseteq Operations
    <3>1. <<"commission", o>> \notin ledger
      BY EndingsPost DEF Ends
    <3>2. <<"commission", o>> \in ledger' <=> Commissioned(o)
      BY <3>1 DEF FinalizeOperation
    <3>3. User(o)' = User(o)
      BY <1>1, OfferMoney
    <3>4. QED
      BY <3>2, <3>3, RowsAssumption DEF Of, Referred, DoneOps, Beneficiary
  <2>3. /\ S = DoneOps \intersect Of(u) /\ T = DoneOps' \intersect Of(u)'
        /\ R = DoneOps \intersect Referred(u) /\ Q = DoneOps' \intersect Referred(u)'
    BY DoneSetsHold DEF DoneSets
  <2>. HIDE DEF S, R, f, g, T, Q, h, k
  <2>4. T = (IF u = User(o) THEN S \union {o} ELSE S) /\ o \notin S /\ S \subseteq Operations
    BY <1>1, <2>1, <2>2, <2>3
  <2>5. Q = (IF u = Beneficiary(o) THEN R \union {o} ELSE R) /\ o \notin R /\ R \subseteq Operations
    BY <1>1, <2>1, <2>2, <2>3
  <2>6. QED
    BY <2>4, <2>5
<1>3. /\ IsFiniteSet(S) /\ IsFiniteSet(R)
      /\ \A p \in S : f[p] = Amount(p) - Cashback(p) /\ f[p] \in Int
      /\ \A p \in R : g[p] = Commission(p) /\ g[p] \in Int
      /\ Spent(u) \in Int /\ Earned(u) \in Int
  BY SummandTypes
<1>4. /\ \A p \in T : h[p] = Amount(p) - Cashback(p)
      /\ \A p \in Q : k[p] = Commission(p)
  <2>1. \A p \in Operations : /\ Amount(p)' = Amount(p) /\ Cashback(p)' = Cashback(p)
                              /\ Commission(p)' = Commission(p)
    BY <1>1, OfferMoney
  <2>2. T \subseteq Operations /\ Q \subseteq Operations
    BY <1>2
  <2>3. QED
    BY <2>1, <2>2 DEF CostOf, BonusOf
<1>5. /\ Spent(u) = SumFunctionOnSet(f, S) /\ Earned(u) = SumFunctionOnSet(g, R)
      /\ Spent(u)' = SumFunctionOnSet(h, T) /\ Earned(u)' = SumFunctionOnSet(k, Q)
  BY DEF Spent, Earned
<1>6. Amount(o) - Cashback(o) \in Int /\ Commission(o) \in Int
  BY <1>1, OfferType, MoneyTypes DEF IInv
<1>. HIDE DEF S, R, f, g, T, Q, h, k
<1>7. /\ S \subseteq T /\ R \subseteq Q
  BY <1>2
<1>8. SumFunctionOnSet(h, S) = SumFunctionOnSet(f, S) /\ SumFunctionOnSet(k, R) = SumFunctionOnSet(g, R)
  <2>1. (\A p \in S : h[p] = f[p]) /\ (\A p \in R : k[p] = g[p])
    BY <1>3, <1>4, <1>7
  <2>2. SumFunctionOnSet(h, S) = SumFunctionOnSet(f, S)
    BY <1>3, <2>1, SumAgree
  <2>3. SumFunctionOnSet(k, R) = SumFunctionOnSet(g, R)
    BY <1>3, <2>1, SumAgree
  <2>4. QED
    BY <2>2, <2>3
<1>9. Spent(u)' = Spent(u) + IF u = User(o) THEN Amount(o) - Cashback(o) ELSE 0
  <2>1. CASE u = User(o)
    <3>1. T = S \union {o} /\ h[o] = Amount(o) - Cashback(o)
      BY <1>2, <1>4, <2>1
    <3>2. \A p \in S \union {o} : h[p] \in Int
      BY <1>3, <1>4, <1>6, <3>1
    <3>3. SumFunctionOnSet(h, S \union {o}) = h[o] + SumFunctionOnSet(h, S)
      BY <1>2, <1>3, <3>2, SumWith
    <3>4. Spent(u)' = (Amount(o) - Cashback(o)) + Spent(u)
      BY <1>5, <1>8, <3>1, <3>3
    <3>5. QED
      BY <1>3, <1>6, <2>1, <3>4
  <2>2. CASE u # User(o)
    <3>1. Spent(u)' = Spent(u)
      BY <1>2, <1>5, <1>8, <2>2
    <3>2. QED
      BY <1>3, <2>2, <3>1
  <2>3. QED
    BY <2>1, <2>2
<1>10. Earned(u)' = Earned(u) + IF u = Beneficiary(o) THEN Commission(o) ELSE 0
  <2>1. CASE u = Beneficiary(o)
    <3>1. Q = R \union {o} /\ k[o] = Commission(o)
      BY <1>2, <1>4, <2>1
    <3>2. \A p \in R \union {o} : k[p] \in Int
      BY <1>3, <1>4, <1>6, <3>1
    <3>3. SumFunctionOnSet(k, R \union {o}) = k[o] + SumFunctionOnSet(k, R)
      BY <1>2, <1>3, <3>2, SumWith
    <3>4. Earned(u)' = Commission(o) + Earned(u)
      BY <1>5, <1>8, <3>1, <3>3
    <3>5. QED
      BY <1>3, <1>6, <2>1, <3>4
  <2>2. CASE u # Beneficiary(o)
    <3>1. Earned(u)' = Earned(u)
      BY <1>2, <1>5, <1>8, <2>2
    <3>2. QED
      BY <1>3, <2>2, <3>1
  <2>3. QED
    BY <2>1, <2>2
<1>11. QED
  BY <1>9, <1>10

(* The sum of the adjustments posted is an integer.                        *)
LEMMA AdjustedType ==
  ASSUME PostedFinite, NEW u \in Users
  PROVE  /\ IsFiniteSet(PostedTo(u))
         /\ \A adj \in PostedTo(u) : DeltaOf(u)[adj] = adj.amount /\ DeltaOf(u)[adj] \in Int
         /\ Adjusted(u) \in Int
<1>1. \A adj \in PostedTo(u) : DeltaOf(u)[adj] = adj.amount /\ DeltaOf(u)[adj] \in Int
  BY MoneyAssumption DEF PostedTo, DeltaOf
<1>2. IsFiniteSet(PostedTo(u))
  BY DEF PostedFinite
<1>3. QED
  BY <1>1, <1>2, SumInt DEF Adjusted

(* Only an adjustment posts an adjustment.                                 *)
LEMMA SameAdjusted ==
  ASSUME Quiet \/ (\E o \in Operations : \E rows : Purchase(o, rows)) \/ (\E o \in Operations : Ends(o)),
         NEW u
  PROVE  PostedTo(u)' = PostedTo(u) /\ Adjusted(u)' = Adjusted(u)
<1>1. \A id : <<"admin", id>> \in ledger' <=> <<"admin", id>> \in ledger
  <2>1. CASE Quiet
    BY <2>1 DEF Quiet
  <2>2. CASE \E o \in Operations : \E rows : Purchase(o, rows)
    BY <2>2 DEF Purchase
  <2>3. CASE \E o \in Operations : Ends(o)
    <3>1. PICK o \in Operations : Releases(o) \/ FinalizeOperation(o)
      BY <2>3 DEF Ends
    <3>2. \/ ledger' = ledger \union {<<"release", o>>}
          \/ \E more \in SUBSET {<<"commission", o>>} : ledger' = ledger \union {<<"settle", o>>} \union more
      BY <3>1 DEF Releases, ReleaseOperation, FinalizeOperation
    <3>3. QED
      BY <3>2
  <2>4. QED
    BY <2>1, <2>2, <2>3
<1>2. PostedTo(u)' = PostedTo(u)
  BY <1>1 DEF PostedTo
<1>3. DeltaOf(u)' = DeltaOf(u)
  BY <1>2 DEF DeltaOf
<1>4. QED
  BY <1>2, <1>3 DEF Adjusted

(* Only a settlement posts a commission.                                   *)
LEMMA SameCommissions ==
  ASSUME \/ Quiet \/ (\E adj \in Adjustments : AdjustWallet(adj))
         \/ (\E o \in Operations : \E rows : Purchase(o, rows)) \/ (\E o \in Operations : Releases(o))
  PROVE  \A o \in Operations : SameCommission(o)
<1>1. CASE Quiet
  BY <1>1 DEF Quiet, SameCommission
<1>2. CASE \E adj \in Adjustments : AdjustWallet(adj)
  BY <1>2 DEF AdjustWallet, SameCommission
<1>3. CASE \E o \in Operations : \E rows : Purchase(o, rows)
  BY <1>3 DEF Purchase, SameCommission
<1>4. CASE \E o \in Operations : Releases(o)
  BY <1>4 DEF Releases, ReleaseOperation, SameCommission
<1>5. QED
  BY <1>1, <1>2, <1>3, <1>4

(* An adjustment posts itself, once.                                       *)
LEMMA AdjustedSum ==
  ASSUME PostedFinite, NEW adj \in Adjustments, AdjustWallet(adj), NEW u \in Users
  PROVE  /\ IsFiniteSet(PostedTo(u)')
         /\ Adjusted(u)' = Adjusted(u) + IF u = adj.user THEN adj.amount ELSE 0
<1>. DEFINE S == PostedTo(u)
            f == DeltaOf(u)
            T == S'
            g == f'
<1>1. T = IF u = adj.user THEN S \union {adj} ELSE S
  <2>1. \A other \in Adjustments :
          <<"admin", other.id>> \in ledger' <=> <<"admin", other.id>> \in ledger \/ other = adj
    BY MoneyAssumption DEF AdjustWallet
  <2>2. QED
    BY <2>1 DEF PostedTo
<1>2. adj \notin S
  BY DEF AdjustWallet, PostedTo
<1>3. /\ IsFiniteSet(S) /\ Adjusted(u) \in Int
      /\ \A other \in S : f[other] = other.amount /\ f[other] \in Int
  BY AdjustedType
<1>4. \A other \in T : g[other] = other.amount
  BY DEF DeltaOf
<1>5. adj.amount \in Int
  BY MoneyAssumption
<1>6. Adjusted(u) = SumFunctionOnSet(f, S) /\ Adjusted(u)' = SumFunctionOnSet(g, T)
  BY DEF Adjusted
<1>. HIDE DEF S, f, T, g
<1>7. IsFiniteSet(T)
  BY <1>1, <1>3, FS_AddElement
<1>8. SumFunctionOnSet(g, S) = SumFunctionOnSet(f, S)
  <2>1. \A other \in S : g[other] = f[other]
    BY <1>1, <1>3, <1>4
  <2>2. QED
    BY <1>3, <2>1, SumAgree
<1>9. CASE u = adj.user
  <2>1. T = S \union {adj} /\ g[adj] = adj.amount
    BY <1>1, <1>4, <1>9
  <2>2. \A other \in S \union {adj} : g[other] \in Int
    BY <1>3, <1>4, <1>5, <2>1
  <2>3. SumFunctionOnSet(g, S \union {adj}) = g[adj] + SumFunctionOnSet(g, S)
    BY <1>2, <1>3, <2>2, SumWith
  <2>4. Adjusted(u)' = adj.amount + Adjusted(u)
    BY <1>6, <1>8, <2>1, <2>3
  <2>5. Adjusted(u)' = Adjusted(u) + adj.amount
    BY <1>3, <1>5, <2>4
  <2>6. QED
    BY <1>7, <1>9, <2>5 DEF T, S
<1>10. CASE u # adj.user
  <2>1. Adjusted(u)' = Adjusted(u)
    BY <1>1, <1>6, <1>8, <1>10
  <2>2. QED
    BY <1>3, <1>7, <1>10, <2>1 DEF T, S
<1>11. QED
  BY <1>9, <1>10

MoneyInv ==
  /\ PostedFinite
  /\ \A u \in Users :
       account[u].balance = InitialBalance[u] + Adjusted(u) - Spent(u) + Earned(u)

(* Every step moves a balance by what it posts.                            *)
LEMMA NextMoney == IInv /\ IInv' /\ MoneyInv /\ [Next]_vars => MoneyInv'
<1>. SUFFICES ASSUME IInv, IInv', MoneyInv, [Next]_vars, NEW u \in Users
              PROVE  /\ IsFiniteSet(PostedTo(u)')
                     /\ account'[u].balance = InitialBalance[u] + Adjusted(u)' - Spent(u)' + Earned(u)'
  BY DEF MoneyInv, PostedFinite
<1>. DEFINE Goal == /\ IsFiniteSet(PostedTo(u)')
                    /\ account'[u].balance = InitialBalance[u] + Adjusted(u)' - Spent(u)' + Earned(u)'
<1>1. /\ Spent(u) \in Int /\ Earned(u) \in Int /\ Adjusted(u) \in Int /\ InitialBalance[u] \in Int
      /\ IsFiniteSet(PostedTo(u))
      /\ account[u].balance = InitialBalance[u] + Adjusted(u) - Spent(u) + Earned(u)
  BY SummandTypes, AdjustedType, MoneyAssumption DEF MoneyInv
<1>2. ASSUME account'[u].balance = account[u].balance,
             DoneOps' = DoneOps, OffersKept, \A o \in Operations : SameCommission(o),
             PostedTo(u)' = PostedTo(u), Adjusted(u)' = Adjusted(u)
      PROVE  Goal
  BY <1>1, <1>2, SameSums
<1>3. CASE Quiet
  BY <1>2, <1>3, QuietSets, SameAdjusted, SameCommissions DEF Quiet
<1>4. ASSUME NEW adj \in Adjustments, AdjustWallet(adj)
      PROVE  Goal
  <2>1. Spent(u)' = Spent(u) /\ Earned(u)' = Earned(u)
    BY <1>4, QuietSets, SameSums, SameCommissions
  <2>2. /\ IsFiniteSet(PostedTo(u)')
        /\ Adjusted(u)' = Adjusted(u) + IF u = adj.user THEN adj.amount ELSE 0
    BY <1>4, AdjustedSum DEF MoneyInv
  <2>3. account'[u].balance = IF u = adj.user THEN account[u].balance + adj.amount ELSE account[u].balance
    BY <1>4, AdjustMoney
  <2>4. adj.amount \in Int
    BY MoneyAssumption
  <2>5. QED
    BY <1>1, <2>1, <2>2, <2>3, <2>4
<1>5. ASSUME NEW o \in Operations, NEW rows \in SUBSET StockRows, Purchase(o, rows)
      PROVE  Goal
  <2>1. DoneOps' = DoneOps /\ OffersKept
    BY <1>5, PurchaseSets DEF OffersKept, OpenOps, DoneOps
  <2>2. account'[u].balance = account[u].balance
    BY <1>5, PurchaseMoney
  <2>3. QED
    BY <1>2, <1>5, <2>1, <2>2, SameAdjusted, SameCommissions
<1>6. ASSUME NEW o \in Operations, Ends(o), Releases(o)
      PROVE  Goal
  <2>1. DoneOps' = DoneOps /\ OffersKept
    BY <1>6, EndingSets DEF OffersKept, OpenOps, DoneOps
  <2>2. account'[u].balance = account[u].balance
    BY <1>6, ReleaseMoney DEF Ends, Releases
  <2>3. QED
    BY <1>2, <1>6, <2>1, <2>2, SameAdjusted, SameCommissions
<1>7. ASSUME NEW o \in Operations, Ends(o), FinalizeOperation(o)
      PROVE  Goal
  <2>. DEFINE cost  == Amount(o) - Cashback(o)
              bonus == Commission(o)
  <2>1. /\ PostedTo(u)' = PostedTo(u) /\ Adjusted(u)' = Adjusted(u)
    BY <1>7, SameAdjusted
  <2>2. /\ Spent(u)' = Spent(u) + IF u = User(o) THEN cost ELSE 0
        /\ Earned(u)' = Earned(u) + IF u = Beneficiary(o) THEN bonus ELSE 0
    BY <1>7, SettledSums
  <2>3. account'[u].balance =
          account[u].balance + (IF u = User(o) THEN Cashback(o) - Amount(o) ELSE 0)
                             + (IF u = Beneficiary(o) THEN bonus ELSE 0)
    BY <1>7, SettlementMoney DEF Ends
  <2>4. /\ cost \in Int /\ bonus \in Int /\ Cashback(o) - Amount(o) = -cost
    BY <1>7, EndingSets, OfferType, MoneyTypes DEF IInv
  <2>5. account'[u].balance = account[u].balance - (IF u = User(o) THEN cost ELSE 0)
                              + (IF u = Beneficiary(o) THEN bonus ELSE 0)
    BY <1>1, <2>3, <2>4
  <2>. HIDE DEF cost, bonus
  <2>6. account'[u].balance = InitialBalance[u] + Adjusted(u)' - Spent(u)' + Earned(u)'
    BY <1>1, <2>1, <2>2, <2>4, <2>5
  <2>7. QED
    BY <1>1, <2>1, <2>6
<1>8. QED
  BY <1>3, <1>4, <1>5, <1>6, <1>7, NextIsAccounted DEF Accounted, Ends

(* A commission is posted in the step that settles its operation, for a    *)
(* referrer who is another, known and not banned, and in no other step.    *)
LEMMA NextEarned == IInv /\ [Next]_vars => [CommissionEarned]_vars
<1>. SUFFICES ASSUME IInv, [Next]_vars, NEW o \in Operations
              PROVE  <<"commission", o>> \in ledger' \ ledger <=>
                       /\ operation[o].status # "done" /\ operation'[o].status = "done"
                       /\ ReferralPercent > 0
                       /\ \E u \in Users \ {User(o)} :
                            Referrer[User(o)] = u /\ account[u].standing = "member"
  BY DEF CommissionEarned
<1>1. ASSUME SameCommission(o), operation[o].status # "done" => operation'[o].status # "done"
      PROVE  /\ ~(<<"commission", o>> \in ledger' \ ledger)
             /\ ~(operation[o].status # "done" /\ operation'[o].status = "done")
  BY <1>1 DEF SameCommission
<1>2. CASE Quiet
  BY <1>1, <1>2, SameCommissions DEF Quiet, Open
<1>3. CASE \E adj \in Adjustments : AdjustWallet(adj)
  BY <1>1, <1>3, SameCommissions DEF AdjustWallet
<1>4. ASSUME NEW p \in Operations, NEW rows \in SUBSET StockRows, Purchase(p, rows)
      PROVE  SameCommission(o) /\ (operation[o].status # "done" => operation'[o].status # "done")
  BY <1>4, SameCommissions, PurchaseSets DEF DoneOps
<1>5. ASSUME NEW p \in Operations, Ends(p), Releases(p)
      PROVE  SameCommission(o) /\ (operation[o].status # "done" => operation'[o].status # "done")
  BY <1>5, SameCommissions, EndingSets DEF DoneOps
<1>6. ASSUME NEW p \in Operations, Ends(p), FinalizeOperation(p), p # o
      PROVE  SameCommission(o) /\ (operation[o].status # "done" => operation'[o].status # "done")
  BY <1>6, EndingSets DEF DoneOps, FinalizeOperation, SameCommission
<1>7. ASSUME Ends(o), FinalizeOperation(o)
      PROVE  /\ <<"commission", o>> \in ledger' \ ledger <=> Commissioned(o)
             /\ operation[o].status # "done" /\ operation'[o].status = "done"
  <2>1. <<"commission", o>> \notin ledger
    BY <1>7, EndingsPost DEF Ends
  <2>2. QED
    BY <1>7, <2>1, EndingSets DEF DoneOps, FinalizeOperation
<1>8. quote[o] # None => (Commissioned(o) <=>
        /\ ReferralPercent > 0
        /\ \E u \in Users \ {User(o)} : Referrer[User(o)] = u /\ account[u].standing = "member")
  BY OfferType, MoneyAssumption, RowsAssumption DEF IInv, Commissioned, Admitted
<1>9. ASSUME NEW p \in Operations, Ends(p)
      PROVE  p = o => quote[o] # None
  BY <1>9, EndingSets
<1>10. QED
  BY <1>1, <1>2, <1>3, <1>4, <1>5, <1>6, <1>7, <1>8, <1>9, NextIsAccounted DEF Accounted, Ends

(* In every behaviour a balance is the opening one, plus the adjustments,  *)
(* less what each settled operation cost once, plus the commissions the    *)
(* settled operations of others earned; and an operation earns one in the  *)
(* step that settles it, for a referrer other than the buyer, known and    *)
(* not banned at that moment: no settlement is counted twice or lost.      *)
THEOREM BalancesExplained == Spec => BalanceExplained
<1>1. Init => MoneyInv
  <2>. SUFFICES ASSUME Init, NEW u \in Users
                PROVE  /\ IsFiniteSet(PostedTo(u))
                       /\ account[u].balance = InitialBalance[u] + Adjusted(u) - Spent(u) + Earned(u)
    BY DEF MoneyInv, PostedFinite
  <2>1. DoneOps = {} /\ PostedTo(u) = {}
    BY DEF Init, DoneOps, NoOperation, FreshOperation, PostedTo
  <2>2. SettledOf(u) = {} /\ ReferredBy(u) = {}
    BY <2>1, DoneSetsHold DEF DoneSets
  <2>3. Spent(u) = 0 /\ Earned(u) = 0 /\ Adjusted(u) = 0
    BY <2>1, <2>2, SumEmpty DEF Spent, Earned, Adjusted
  <2>4. account[u].balance = InitialBalance[u] /\ InitialBalance[u] \in Int
    BY MoneyAssumption DEF Init
  <2>5. QED
    BY <2>1, <2>3, <2>4, FS_EmptySet
<1>2. MoneyInv => Explained
  BY DEF MoneyInv, Explained, Spent, Earned, Adjusted, CostOf, BonusOf, DeltaOf
<1>3. QED
  BY <1>1, <1>2, NextMoney, NextEarned, Invariance, PTL DEF Spec, BalanceExplained

-----------------------------------------------------------------------------
(* The stock rows *)

Reserved(r, p)  == stock[r] = [status |-> "reserved", operation |-> p]
Delivered(r, p) == stock[r] = [status |-> "delivered", operation |-> p]

(* What a row says.                                                        *)
LEMMA RowSays ==
  ASSUME NEW r, NEW p
  PROVE  /\ Reserved(r, p)  => stock[r].status = "reserved" /\ stock[r].operation = p
         /\ Delivered(r, p) => stock[r].status = "delivered" /\ stock[r].operation = p
BY DEF Reserved, Delivered

(* What a purchase and an ending do to the rows.                           *)
LEMMA PurchaseStock ==
  ASSUME IInv, NEW o \in Operations, NEW rows \in SUBSET StockRows, Purchase(o, rows)
  PROVE  /\ \A r \in rows : stock[r].status = "available" /\ Reserved(r, o)'
         /\ \A r \in StockRows \ rows : stock'[r] = stock[r]
BY DEF Purchase, Reserved

(* An end gives the stock rows of its operation back or delivers them.     *)
LEMMA EndingStock ==
  ASSUME IInv, NEW o \in Operations, Ends(o)
  PROVE  /\ Releases(o) => \A r \in StockRows :
              stock'[r] = IF r \in operation[o].stock /\ Reserved(r, o) THEN NoStock ELSE stock[r]
         /\ FinalizeOperation(o) => \A r \in StockRows :
              stock'[r] = IF r \in operation[o].stock THEN [stock[r] EXCEPT !.status = "delivered"]
                                                      ELSE stock[r]
BY DEF Releases, ReleaseOperation, FreeRows, FinalizeOperation, Reserved

(* Every step keeps the account of the rows.                               *)
LEMMA NextStock == IInv /\ StockAccounted /\ [Next]_vars => StockAccounted'
<1>. SUFFICES ASSUME IInv, StockAccounted, [Next]_vars PROVE StockAccounted'
  OBVIOUS
<1>. DEFINE Handed == \A p \in Operations, r \in StockRows :
                        r \in operation[p].stock =>
                          /\ p \in OpenOps => Reserved(r, p)
                          /\ p \in DoneOps => Delivered(r, p)
            NoneLeft == \A r \in StockRows :
                          stock[r].status = "reserved" =>
                            \E p \in OpenOps : r \in operation[p].stock
<1>1. (StockAccounted <=> Handed /\ NoneLeft) /\ (StockAccounted <=> Handed /\ NoneLeft)'
  BY DEF StockAccounted, OpenOps, DoneOps, Reserved, Delivered
<1>2. Handed /\ NoneLeft
  BY <1>1
<1>3. SUFFICES Handed' /\ NoneLeft'
  BY <1>1
<1>4. CASE Quiet
  <2>1. /\ \A p \in Operations : operation'[p].stock = operation[p].stock
        /\ OpenOps' = OpenOps /\ DoneOps' = DoneOps
        /\ \A r \in StockRows : \/ stock'[r] = stock[r]
                                \/ /\ stock[r].status \in {"available", "disabled"}
                                   /\ stock'[r].status # "reserved"
    BY <1>4, QuietSets DEF Quiet
  <2>2. Handed'
    BY <1>2, <2>1 DEF Reserved, Delivered
  <2>3. NoneLeft'
    BY <1>2, <2>1 DEF OpenOps
  <2>4. QED
    BY <2>2, <2>3
<1>5. CASE \E adj \in Adjustments : AdjustWallet(adj)
  BY <1>2, <1>5 DEF AdjustWallet, OpenOps, DoneOps, Reserved, Delivered
<1>6. ASSUME NEW o \in Operations, NEW rows \in SUBSET StockRows, Purchase(o, rows)
      PROVE  Handed' /\ NoneLeft'
  <2>1. /\ OpenOps' = OpenOps \union {o} /\ DoneOps' = DoneOps
        /\ o \notin OpenOps /\ o \notin DoneOps
        /\ operation'[o].stock = rows
        /\ \A p \in Operations : p # o => operation'[p] = operation[p]
    BY <1>6, PurchaseSets
  <2>2. /\ \A r \in rows : stock[r].status = "available" /\ Reserved(r, o)'
        /\ \A r \in StockRows \ rows : stock'[r] = stock[r]
    BY <1>6, PurchaseStock
  <2>3. ASSUME NEW p \in Operations, NEW r \in StockRows, r \in operation'[p].stock
        PROVE  /\ p \in OpenOps' => Reserved(r, p)'
               /\ p \in DoneOps' => Delivered(r, p)'
    <3>1. CASE p = o
      BY <2>1, <2>2, <2>3, <3>1
    <3>2. CASE p # o
      <4>1. r \in operation[p].stock /\ (p \in OpenOps' <=> p \in OpenOps)
        BY <2>1, <2>3, <3>2
      <4>2. p \in OpenOps \/ p \in DoneOps => r \notin rows
        BY <1>2, <2>2, <4>1, RowSays
      <4>3. QED
        BY <1>2, <2>1, <2>2, <4>1, <4>2 DEF Reserved, Delivered
    <3>3. QED
      BY <3>1, <3>2
  <2>4. NoneLeft'
    <3>1. SUFFICES ASSUME NEW r \in StockRows, stock'[r].status = "reserved"
                   PROVE  \E p \in OpenOps' : r \in operation'[p].stock
      OBVIOUS
    <3>2. CASE r \in rows
      BY <2>1, <3>2
    <3>3. CASE r \notin rows
      <4>1. PICK p \in OpenOps : r \in operation[p].stock
        BY <1>2, <2>2, <3>1, <3>3
      <4>2. p # o /\ p \in Operations
        BY <2>1 DEF OpenOps
      <4>3. QED
        BY <2>1, <4>1, <4>2
    <3>4. QED
      BY <3>2, <3>3
  <2>5. QED
    BY <2>3, <2>4
<1>7. ASSUME NEW o \in Operations, Ends(o)
      PROVE  Handed' /\ NoneLeft'
  <2>1. /\ o \in OpenOps /\ o \notin DoneOps
        /\ OpenOps' = OpenOps \ {o}
        /\ Releases(o) => DoneOps' = DoneOps
        /\ FinalizeOperation(o) => DoneOps' = DoneOps \union {o}
        /\ Releases(o) \/ FinalizeOperation(o)
        /\ OpenOps \subseteq Operations /\ OpenOps \intersect DoneOps = {}
    BY <1>7, EndingSets DEF Ends, OpenOps, DoneOps, Open
  <2>2. \A p \in Operations : operation'[p].stock = operation[p].stock
    BY <1>7, EndingRows
  <2>3. \A r \in StockRows : r \notin operation[o].stock => stock'[r] = stock[r]
    BY <1>7, <2>1, EndingStock
  <2>4. \A r \in StockRows : r \in operation[o].stock => Reserved(r, o)
    BY <1>2, <2>1
  <2>5. \A r \in StockRows : r \in operation[o].stock => stock'[r].status # "reserved"
    <3>1. SUFFICES ASSUME NEW r \in StockRows, r \in operation[o].stock
                   PROVE  stock'[r].status # "reserved"
      OBVIOUS
    <3>2. CASE Releases(o)
      BY <1>7, <2>4, <3>1, <3>2, EndingStock DEF NoStock
    <3>3. CASE FinalizeOperation(o)
      <4>1. stock'[r] = [stock[r] EXCEPT !.status = "delivered"]
        BY <1>7, <3>1, <3>3, EndingStock
      <4>2. stock[r] \in StockRow
        BY DEF IInv, TypeOK
      <4>3. QED
        BY <4>1, <4>2 DEF StockRow
    <3>4. QED
      BY <2>1, <3>2, <3>3
  <2>6. \A r \in StockRows : r \in operation[o].stock /\ o \in DoneOps' => Delivered(r, o)'
    <3>1. SUFFICES ASSUME NEW r \in StockRows, r \in operation[o].stock, o \in DoneOps'
                   PROVE  Delivered(r, o)'
      OBVIOUS
    <3>2. FinalizeOperation(o)
      BY <2>1, <3>1
    <3>3. stock'[r] = [stock[r] EXCEPT !.status = "delivered"]
      BY <1>7, <3>1, <3>2, EndingStock
    <3>4. stock[r] = [status |-> "reserved", operation |-> o]
      BY <2>4, <3>1 DEF Reserved
    <3>5. [stock[r] EXCEPT !.status = "delivered"] = [status |-> "delivered", operation |-> o]
      BY <3>4
    <3>6. QED
      BY <3>3, <3>5 DEF Delivered
  <2>7. Handed'
    <3>1. SUFFICES ASSUME NEW p \in Operations, NEW r \in StockRows, r \in operation'[p].stock
                   PROVE  /\ p \in OpenOps' => Reserved(r, p)'
                          /\ p \in DoneOps' => Delivered(r, p)'
      OBVIOUS
    <3>2. CASE p = o
      BY <2>1, <2>2, <2>6, <3>1, <3>2
    <3>3. CASE p # o
      <4>1. /\ p \in OpenOps' => p \in OpenOps
            /\ p \in DoneOps' => p \in DoneOps
            /\ r \in operation[p].stock
        BY <2>1, <2>2, <3>1, <3>3
      <4>2. p \in OpenOps \union DoneOps => r \notin operation[o].stock
        BY <1>2, <2>4, <3>3, <4>1, RowSays
      <4>3. stock'[r] = stock[r] \/ (p \notin OpenOps' /\ p \notin DoneOps')
        BY <2>3, <4>1, <4>2
      <4>4. QED
        BY <1>2, <4>1, <4>3 DEF Reserved, Delivered
    <3>4. QED
      BY <3>2, <3>3
  <2>8. NoneLeft'
    <3>1. SUFFICES ASSUME NEW r \in StockRows, stock'[r].status = "reserved"
                   PROVE  \E p \in OpenOps' : r \in operation'[p].stock
      OBVIOUS
    <3>2. r \notin operation[o].stock
      BY <2>5, <3>1
    <3>3. PICK p \in OpenOps : r \in operation[p].stock
      BY <1>2, <2>3, <3>1, <3>2
    <3>4. QED
      BY <2>1, <2>2, <3>2, <3>3
  <2>9. QED
    BY <2>7, <2>8
<1>8. QED
  BY <1>4, <1>5, <1>6, <1>7, NextIsAccounted DEF Accounted

(* In every behaviour the stock rows are those of the operations: an open  *)
(* operation holds its rows reserved, a done one had its own delivered,    *)
(* and no row stays reserved for an operation that ended.                  *)
THEOREM StockExplained == Spec => []StockAccounted
<1>1. Init => StockAccounted
  BY DEF Init, StockAccounted, NoOperation, FreshOperation, NoStock, Open
<1>2. QED
  BY <1>1, NextStock, Invariance, PTL DEF Spec

-----------------------------------------------------------------------------
(* On the panels                                                           *)

(* The inductive invariant *)

Target(o) == quote[o].service
Marked(a) == remote[RemoteKey(a)].marker = a

(* What the running task has done when it is about to take a step.         *)
StepInv ==
  running # None =>
    LET op == operation[running] IN
    /\ step = "fill" => Type(running) = "stock"
    /\ step \in {"look", "create", "finish"} => Type(running) # "stock" /\ Target(running) = None
    /\ step \in {"create", "finish"} => op.inFlight = op.results + 1
    /\ step \in {"read", "update", "confirm"} => Type(running) # "stock"
    /\ step \in {"update", "confirm"} => op.dispatched
    /\ step = "commit" => \/ Type(running) = "stock"
                          \/ Target(running) # None /\ op.dispatched
                          \/ Target(running) = None /\ op.results = Quantity(running)

(* An operation that waits has called no panel.                            *)
FreshInv ==
  \A o \in Operations :
    operation[o].status \in {"none", "queued"} =>
      operation[o].results = 0 /\ operation[o].created = 0 /\ ~operation[o].dispatched

(* An operation holds as many stock rows as it sells.                      *)
HandedInv == \A o \in Existing : Cardinality(operation[o].stock) = StockNeeded(o)

(* A renewal is of a service there is, on the panel of the offer, and a    *)
(* service has one open renewal at most.                                   *)
TargetInv ==
  /\ \A o \in Operations :
       quote[o] # None /\ Target(o) # None =>
         service[Target(o)] # None /\ Panel(Target(o)[1]) = Panel(o)
  /\ \A o, p \in Operations :
       /\ operation[o].status \in Open /\ operation[p].status \in Open
       /\ Target(o) # None /\ Target(p) = Target(o)
       => p = o

(* An account on a panel, and a call that would create one, is that of an  *)
(* operation that buys it there.                                           *)
PaidFor(a, k) ==
  /\ quote[a[1]] # None /\ a[2] <= Quantity(a[1])
  /\ k = RemoteKey(a)
  /\ Type(a[1]) # "stock" /\ Target(a[1]) = None
MarkInv ==
  /\ \A k \in Keys : remote[k].marker # None => PaidFor(remote[k].marker, k)
  /\ \A call \in wire : call.marker # None => PaidFor(call.marker, call.key)

(* Nothing of an operation is on a panel or on its way to one ...          *)
Clean(o) ==
  /\ \A k \in Keys : remote[k].marker \notin {o} \X Indexes
  /\ \A call \in wire : call.marker \notin {o} \X Indexes

(* ... before it creates its first account, and after the engine itself    *)
(* has released it.                                                        *)
Untouched(o) ==
  \/ operation[o].status \in {"none", "queued"}
  \/ operation[o].status = "failed" /\ operation[o].reason = "failed"
  \/ running = o /\ operation[o].results = 0 /\ operation[o].created = 0
CleanInv == \A o \in Operations : Untouched(o) => Clean(o)

(* An account no call was made for yet.                                    *)
Uncalled(o, i) ==
  \/ operation[o].status \in {"none", "queued"}
  \/ /\ running = o
     /\ \/ step \in {"look", "create"} /\ i > operation[o].results
        \/ step = "finish" /\ i > operation[o].inFlight
        \/ step \in {"read", "update"}
CallsInv ==
  \A o \in Operations, i \in Indexes :
    calls[<<o, i>>] <= 1 /\ (Uncalled(o, i) => calls[<<o, i>>] = 0)

(* The accounts the running task has created, and all that were sold, are  *)
(* on their panels.                                                        *)
MadeInv ==
  running # None /\ Type(running) # "stock" /\ Target(running) = None =>
    \A i \in Indexes :
      i <= operation[running].results \/ (step = "finish" /\ i = operation[running].inFlight) =>
        Marked(<<running, i>>)
SoldInv == \A a \in Accounts : service[a] # None /\ Type(a[1]) # "stock" => Marked(a)

(* A late update is of a renewal that was dispatched; unless the service   *)
(* is overtaken that renewal is open, and the account as it found it.      *)
Tainted(s) == \E p \in Operations : /\ operation[p].status = "failed" /\ operation[p].dispatched
                                    /\ Target(p) = s
Updates(p) == {call \in wire : call.marker = None /\ call.by = p}
LateOf(call, p) ==
  /\ quote[p] # None /\ Target(p) # None /\ Type(p) # "stock"
  /\ operation[p].dispatched
  /\ call.key = RemoteKey(Target(p)) /\ call.level = operation[p].desired
StillLate(p) ==
  ~Tainted(Target(p)) =>
    /\ operation[p].status \in Open
    /\ remote[RemoteKey(Target(p))].level = operation[p].before
    /\ operation[p].desired = operation[p].before + 1
LateInv ==
  /\ \A call \in wire : call.marker = None => LateOf(call, call.by) /\ StillLate(call.by)
  /\ \A o \in Operations :
       operation[o].status \in {"none", "queued"} \/ running = o => Updates(o) = {}

(* What the running renewal knows of the account it renews.                *)
RenewInv ==
  running # None /\ Type(running) # "stock" /\ Target(running) # None /\ ~Tainted(Target(running)) =>
    LET op == operation[running]
        level == remote[RemoteKey(Target(running))].level IN
    /\ step = "update" => level = op.before /\ op.desired = op.before + 1
    /\ step \in {"confirm", "commit"} => level >= op.desired

PanelInv == StepInv /\ FreshInv /\ HandedInv /\ TargetInv /\ MarkInv /\ CleanInv /\ CallsInv
            /\ MadeInv /\ SoldInv /\ LateInv /\ RenewInv

-----------------------------------------------------------------------------
(* What a step does to one row of operations *)

Rest(o) == \A p \in Operations : p # o => operation'[p] = operation[p]

(* All but the status, the reason and the progress stay.                   *)
StockKept(o)    == operation'[o].stock = operation[o].stock
RenewalKept(o)  == LET old == operation[o]  new == operation'[o] IN
  new.dispatched = old.dispatched /\ new.before = old.before /\ new.desired = old.desired
ProgressKept(o) == LET old == operation[o]  new == operation'[o] IN
  new.results = old.results /\ new.created = old.created /\ new.inFlight = old.inFlight
RowKept(o) == StockKept(o) /\ RenewalKept(o) /\ ProgressKept(o)

TaskKept == UNCHANGED <<running, step>>

(* Nothing but a quote changes; a new quote of a renewal is of a service   *)
(* there is, on the panel of the offer.                                    *)
Aside ==
  /\ UNCHANGED <<operation, service, external>> /\ TaskKept
  /\ \A p \in Operations :
       LET s == quote'[p].service IN
       quote[p] = None /\ quote'[p] # None /\ s # None =>
         service[s] # None /\ Panel(s[1]) = quote'[p].offer.panel

Buys(o) ==
  /\ running = None /\ UNCHANGED <<quote, service, external>> /\ TaskKept
  /\ operation[o].status = "none" /\ quote[o] # None /\ MayPurchase(o)
  /\ Rest(o)
  /\ LET new == operation'[o] IN
     /\ new.status = "queued" /\ new.results = 0 /\ new.created = 0 /\ ~new.dispatched
     /\ Cardinality(new.stock) = StockNeeded(o)

Parks(o) ==
  /\ running = None /\ UNCHANGED <<quote, service, external>> /\ TaskKept
  /\ operation[o].status = "sending" /\ operation'[o].status = "review"
  /\ Rest(o) /\ RowKept(o)

Starts(o) ==
  /\ running = None /\ UNCHANGED <<quote, service, external>>
  /\ operation[o].status = "queued" /\ operation'[o].status = "sending"
  /\ Rest(o) /\ RowKept(o)
  /\ running' = o
  /\ step' = IF Type(o) = "stock" THEN "fill" ELSE IF Kind(o) = "renew" THEN "read" ELSE "look"

Cancels(o) ==
  /\ running = None /\ UNCHANGED <<quote, service, external>> /\ TaskKept
  /\ operation[o].status = "queued" \/ (operation[o].status = "review" /\ ProvedAbsent(o))
  /\ operation'[o].status = "failed" /\ operation'[o].reason = "cancelled"
  /\ Rest(o) /\ RowKept(o)

(* An operation is paid: by the task or by an administrator.               *)
Pays(o) ==
  /\ UNCHANGED <<quote, external>>
  /\ running' = None /\ step' = "idle"
  /\ operation'[o].status = "done"
  /\ Rest(o) /\ StockKept(o) /\ RenewalKept(o)
  /\ Target(o) # None => UNCHANGED service
  /\ Target(o) = None =>
       \A a \in Accounts : service'[a] = IF a \in AccountsOf(o) THEN User(o) ELSE service[a]
Commits(o)    == running = o /\ step = "commit" /\ Pays(o)
Reconciles(o) == /\ running = None /\ operation[o].status \in {"review", "sending"}
                 /\ Type(o) # "stock" /\ Confirmed(o)
                 /\ Pays(o)

(* The task ends without a payment: its operation stays "sending" after a  *)
(* crash, is parked, or, when nothing of it can be on a panel, released.   *)
Quits(o) ==
  /\ running = o /\ UNCHANGED <<quote, service>>
  /\ running' = None /\ step' = "idle"
  /\ Rest(o) /\ RowKept(o)
  /\ \/ operation'[o].status \in {"sending", "review"}
     \/ /\ operation'[o].status = "failed"
        /\ operation[o].results = 0 /\ operation[o].created = 0 /\ ~operation[o].dispatched
QuitsAside(o) == Quits(o) /\ UNCHANGED external
QuitsCreating(o, outcome) ==
  /\ Quits(o) /\ step = "create" /\ outcome # "ok"
  /\ PanelReceives(<<o, operation[o].inFlight>>, CreateCall(o), outcome)
  /\ operation'[o].status = "failed" => outcome = "rejected"
QuitsUpdating(o, outcome) ==
  /\ Quits(o) /\ step = "update" /\ outcome # "ok"
  /\ PanelReceives(<<o, 1>>, UpdateCall(o), outcome)

(* The task goes on.                                                       *)
Goes(o, from, to) ==
  /\ running = o /\ running' = o /\ step = from /\ step' = to
  /\ UNCHANGED <<quote, service>>
  /\ operation'[o].status = "sending"
  /\ Rest(o) /\ StockKept(o)
Passes(o) ==
  /\ Goes(o, "fill", "commit") \/ Goes(o, "confirm", "commit")
  /\ RowKept(o) /\ UNCHANGED external
Looks(o) ==
  /\ Goes(o, "look", "create") /\ RenewalKept(o) /\ UNCHANGED external
  /\ LET old == operation[o]  new == operation'[o] IN
     /\ new.inFlight = old.results + 1
     /\ new.results = old.results /\ new.created = old.created
Creates(o) ==
  /\ Goes(o, "create", "finish") /\ RenewalKept(o)
  /\ remote[CreateCall(o).key] = NoAccount
  /\ PanelReceives(<<o, operation[o].inFlight>>, CreateCall(o), "ok")
  /\ LET old == operation[o]  new == operation'[o] IN
     /\ new.created = old.inFlight
     /\ new.results = old.results /\ new.inFlight = old.inFlight
Finishes(o) ==
  /\ \/ Goes(o, "finish", "commit") /\ operation[o].inFlight = Quantity(o)
     \/ Goes(o, "finish", "look")
  /\ RenewalKept(o) /\ UNCHANGED external
  /\ LET old == operation[o]  new == operation'[o] IN
     new.results = old.inFlight
Reads(o) ==
  /\ Goes(o, "read", "update") /\ ProgressKept(o) /\ UNCHANGED external
  /\ LET level == remote[RemoteKey(Target(o))].level
         new   == operation'[o] IN
     new.before = level /\ new.desired = level + 1 /\ new.dispatched
SetsTarget(o) ==
  /\ Goes(o, "update", "confirm") /\ RowKept(o)
  /\ PanelReceives(<<o, 1>>, UpdateCall(o), "ok")

Arrives(call) ==
  /\ UNCHANGED <<quote, operation, service, calls>> /\ TaskKept
  /\ remote' = Effect(call) /\ wire' = wire \ {call}

TaskMoves(o) ==
  \/ Commits(o) \/ QuitsAside(o)
  \/ \E outcome \in AnyOutcome : QuitsCreating(o, outcome) \/ QuitsUpdating(o, outcome)
  \/ Passes(o) \/ Looks(o) \/ Creates(o) \/ Finishes(o) \/ Reads(o) \/ SetsTarget(o)

Moves ==
  \/ Aside
  \/ \E o \in Operations : \/ Buys(o) \/ Parks(o) \/ Starts(o) \/ Cancels(o) \/ Reconciles(o)
                          \/ TaskMoves(o)
  \/ \E call \in wire : Arrives(call)

(* The terms of a quote stay as long as it does.                           *)
TermsKept ==
  \A p \in Operations :
    quote[p] # None => /\ quote'[p] # None /\ quote'[p].offer = quote[p].offer
                       /\ quote'[p].service = quote[p].service

-----------------------------------------------------------------------------
(* Every step is one of these *)

(* What replacing a field of a row leaves.                                 *)
LEMMA StatusField ==
  ASSUME NEW row \in OperationRow, NEW v
  PROVE  LET new == [row EXCEPT !.status = v] IN
         /\ new.status = v /\ new.reason = row.reason /\ new.stock = row.stock
         /\ new.results = row.results /\ new.created = row.created
         /\ new.inFlight = row.inFlight
         /\ new.dispatched = row.dispatched /\ new.before = row.before /\ new.desired = row.desired
         /\ v \in Status => new \in OperationRow
BY DEF OperationRow

(* What a row keeps when one of its fields changes.                        *)
LEMMA ReasonField ==
  ASSUME NEW row \in OperationRow, NEW v
  PROVE  LET new == [row EXCEPT !.reason = v] IN
         /\ new.reason = v /\ new.status = row.status /\ new.stock = row.stock
         /\ new.results = row.results /\ new.created = row.created
         /\ new.inFlight = row.inFlight
         /\ new.dispatched = row.dispatched /\ new.before = row.before /\ new.desired = row.desired
BY DEF OperationRow

(* The same of the index in flight.                                        *)
LEMMA InFlightField ==
  ASSUME NEW row \in OperationRow, NEW v
  PROVE  LET new == [row EXCEPT !.inFlight = v] IN
         /\ new.inFlight = v /\ new.status = row.status /\ new.stock = row.stock
         /\ new.results = row.results /\ new.created = row.created
         /\ new.dispatched = row.dispatched /\ new.before = row.before /\ new.desired = row.desired
BY DEF OperationRow

(* The same of the accounts created.                                       *)
LEMMA CreatedField ==
  ASSUME NEW row \in OperationRow, NEW v
  PROVE  LET new == [row EXCEPT !.created = v] IN
         /\ new.created = v /\ new.status = row.status /\ new.stock = row.stock
         /\ new.results = row.results /\ new.inFlight = row.inFlight
         /\ new.dispatched = row.dispatched /\ new.before = row.before /\ new.desired = row.desired
BY DEF OperationRow

(* The same of the number of results.                                      *)
LEMMA ResultsField ==
  ASSUME NEW row \in OperationRow, NEW v
  PROVE  LET new == [row EXCEPT !.results = v] IN
         /\ new.results = v /\ new.status = row.status /\ new.stock = row.stock
         /\ new.dispatched = row.dispatched /\ new.before = row.before /\ new.desired = row.desired
         /\ v \in 0 .. MaxQuantity => new \in OperationRow
BY DEF OperationRow

(* The same of what is noted before a renewal is sent.                     *)
LEMMA RenewalFields ==
  ASSUME NEW row \in OperationRow, NEW before \in Nat, NEW desired \in Nat
  PROVE  LET new == [row EXCEPT !.before = before, !.desired = desired, !.dispatched = TRUE] IN
         /\ new.before = before /\ new.desired = desired /\ new.dispatched
         /\ new.status = row.status /\ new.stock = row.stock
         /\ new.results = row.results /\ new.created = row.created
         /\ new.inFlight = row.inFlight
BY DEF OperationRow

(* The row that is replaced, and the others.                               *)
LEMMA OneRow ==
  ASSUME TypeOK, NEW o \in Operations, NEW op, operation' = [operation EXCEPT ![o] = op]
  PROVE  operation[o] \in OperationRow /\ operation'[o] = op /\ Rest(o)
BY DEF TypeOK, Rest

(* A new status keeps the rest of the row.                                 *)
LEMMA StatusMoves ==
  ASSUME TypeOK, NEW o \in Operations, NEW status,
         operation' = [operation EXCEPT ![o].status = status]
  PROVE  Rest(o) /\ RowKept(o) /\ operation'[o].status = status
<1>. DEFINE op == [operation[o] EXCEPT !.status = status]
<1>1. operation' = [operation EXCEPT ![o] = op] /\ operation[o] \in OperationRow
  BY DEF TypeOK
<1>2. /\ op.status = status /\ op.stock = operation[o].stock
      /\ op.results = operation[o].results /\ op.created = operation[o].created
      /\ op.inFlight = operation[o].inFlight /\ op.dispatched = operation[o].dispatched
      /\ op.before = operation[o].before /\ op.desired = operation[o].desired
  BY <1>1, StatusField
<1>. HIDE DEF op
<1>3. QED
  BY <1>1, <1>2, OneRow DEF RowKept, StockKept, RenewalKept, ProgressKept

(* A release changes the status and the reason of its row.                 *)
LEMMA ReleaseMoves ==
  ASSUME TypeOK, NEW o \in Operations, NEW reason, ReleaseOperation(o, reason)
  PROVE  /\ Rest(o) /\ RowKept(o) /\ UNCHANGED service
         /\ operation'[o].status = "failed" /\ operation'[o].reason = reason
<1>. DEFINE row == [operation[o] EXCEPT !.status = "failed"]
            op  == [row EXCEPT !.reason = reason]
<1>1. operation[o] \in OperationRow /\ "failed" \in Status
  BY DEF TypeOK, Status
<1>2. /\ row \in OperationRow
      /\ row.status = "failed" /\ row.stock = operation[o].stock
      /\ row.results = operation[o].results /\ row.created = operation[o].created
      /\ row.inFlight = operation[o].inFlight /\ row.dispatched = operation[o].dispatched
      /\ row.before = operation[o].before /\ row.desired = operation[o].desired
  BY <1>1, StatusField
<1>3. operation' = [operation EXCEPT ![o] = op] /\ UNCHANGED service
  BY DEF ReleaseOperation
<1>. HIDE DEF row
<1>4. /\ op.status = row.status /\ op.reason = reason /\ op.stock = row.stock
      /\ op.results = row.results /\ op.created = row.created
      /\ op.inFlight = row.inFlight /\ op.dispatched = row.dispatched
      /\ op.before = row.before /\ op.desired = row.desired
  BY <1>2, ReasonField
<1>. HIDE DEF op
<1>5. QED
  BY <1>2, <1>3, <1>4, OneRow DEF RowKept, StockKept, RenewalKept, ProgressKept

(* A settlement writes its row and its services.                           *)
LEMMA FinalizeMoves ==
  ASSUME TypeOK, NEW o \in Operations, quote[o] # None, FinalizeOperation(o),
         UNCHANGED <<quote, external>>, running' = None, step' = "idle"
  PROVE  Pays(o)
<1>. DEFINE row == [operation[o] EXCEPT !.status = "done"]
            op  == [row EXCEPT !.results = Quantity(o)]
<1>1. operation[o] \in OperationRow /\ "done" \in Status
  BY DEF TypeOK, Status
<1>2. /\ row \in OperationRow
      /\ row.status = "done" /\ row.stock = operation[o].stock
      /\ row.dispatched = operation[o].dispatched
      /\ row.before = operation[o].before /\ row.desired = operation[o].desired
  BY <1>1, StatusField
<1>3. operation' = [operation EXCEPT ![o] = op]
  BY DEF FinalizeOperation
<1>. HIDE DEF row
<1>4. /\ op.status = row.status /\ op.stock = row.stock
      /\ op.dispatched = row.dispatched
      /\ op.before = row.before /\ op.desired = row.desired
  BY <1>2, ResultsField
<1>5. /\ quote[o].service # None => UNCHANGED service
      /\ quote[o].service = None =>
           \A a \in Accounts : service'[a] = IF a \in AccountsOf(o) THEN User(o) ELSE service[a]
  BY DEF FinalizeOperation
<1>. HIDE DEF op
<1>6. QED
  BY <1>2, <1>3, <1>4, <1>5, OneRow DEF Pays, StockKept, RenewalKept, Target

(* The catch of the task parks the operation, or releases it where nothing *)
(* of it can be on a panel.                                                *)
LEMMA FailsMoves ==
  ASSUME IInv, NEW o \in Operations, running = o, NEW outcome, NEW held \in Nat,
         Fails(o, outcome, held)
  PROVE  /\ Quits(o)
         /\ operation'[o].status = "failed" =>
              /\ outcome \notin Uncertain
              /\ operation[o].inFlight # 0 => outcome = "rejected"
<1>1. operation[o] \in OperationRow /\ TypeOK
  BY DEF IInv, TypeOK
<1>2. CASE Unsafe(operation[o], outcome, held)
  <2>1. /\ operation' = [operation EXCEPT ![o].status = "review"]
        /\ running' = None /\ step' = "idle" /\ UNCHANGED <<quote, service>>
    BY <1>2 DEF Fails, TaskEnds
  <2>2. QED
    BY <1>1, <2>1, StatusMoves DEF Quits
<1>3. CASE ~Unsafe(operation[o], outcome, held)
  <2>1. /\ ReleaseOperation(o, "failed")
        /\ running' = None /\ step' = "idle" /\ UNCHANGED quote
    BY <1>3 DEF Fails, TaskEnds
  <2>2. /\ outcome \notin Uncertain
        /\ operation[o].results = 0 /\ operation[o].created = 0 /\ ~operation[o].dispatched
        /\ operation[o].inFlight # 0 => outcome = "rejected"
    BY <1>1, <1>3 DEF Unsafe, OperationRow, MaxQuantity
  <2>3. QED
    BY <1>1, <2>1, <2>2, ReleaseMoves DEF Quits
<1>4. QED
  BY <1>2, <1>3

(* A step of the task that goes on.                                        *)
LEMMA ContinuesMoves ==
  ASSUME IInv, NEW o \in Operations, running = o, NEW op, NEW s, Continues(o, op, s),
         op.status = "sending", op.stock = operation[o].stock
  PROVE  operation'[o] = op /\ Goes(o, step, s)
BY OneRow DEF Continues, Advance, Goes, StockKept, IInv

(* Each step of the task is one of its moves.                              *)
LEMMA TaskStepMoves ==
  ASSUME IInv, NEW o \in Operations, TaskStep(o)
  PROVE  TaskMoves(o)
<1>. DEFINE row == operation[o]
<1>1. /\ running = o
      /\ Outcomes \subseteq AnyOutcome
  BY BoundsAssumption
     DEF TaskStep, LookForAccount, FinishCreate, ReadService, ConfirmUpdate, CreateAccount,
         UpdateService, FillFromStock, Commit, At
<1>2. row \in OperationRow /\ row.status = "sending" /\ TypeOK /\ quote[o] # None
  BY <1>1, TaskFacts DEF IInv
<1>3. ASSUME UNCHANGED external, NEW outcome, NEW held \in Nat, Fails(o, outcome, held)
      PROVE  TaskMoves(o)
  BY <1>1, <1>3, FailsMoves DEF QuitsAside, TaskMoves
<1>4. ASSUME UNCHANGED external, NEW s, Continues(o, row, s), step = "fill" \/ step = "confirm",
             s = "commit"
      PROVE  TaskMoves(o)
  <2>1. operation'[o] = row /\ Goes(o, step, s)
    BY <1>1, <1>2, <1>4, ContinuesMoves
  <2>2. QED
    BY <1>4, <2>1 DEF Passes, RowKept, StockKept, RenewalKept, ProgressKept, TaskMoves
<1>5. ASSUME NEW outcome, LookForAccount(o, outcome)
      PROVE  TaskMoves(o)
  <2>. DEFINE k  == row.results + 1
              op == [row EXCEPT !.inFlight = k]
  <2>1. step = "look" /\ UNCHANGED external
    BY <1>5 DEF LookForAccount, At
  <2>2. CASE Continues(o, op, "create")
    <3>1. /\ op.inFlight = k /\ op.status = row.status /\ op.stock = row.stock
          /\ op.results = row.results /\ op.created = row.created
          /\ op.dispatched = row.dispatched /\ op.before = row.before /\ op.desired = row.desired
      BY <1>2, InFlightField
    <3>. HIDE DEF op
    <3>2. operation'[o] = op /\ Goes(o, step, "create")
      BY <1>1, <1>2, <2>2, <3>1, ContinuesMoves
    <3>3. QED
      BY <2>1, <3>1, <3>2 DEF Looks, RenewalKept, TaskMoves
  <2>3. CASE \E result : Fails(o, result, 0)
    BY <1>3, <2>1, <2>3
  <2>4. QED
    BY <1>5, <2>2, <2>3 DEF LookForAccount
<1>6. ASSUME NEW outcome \in AnyOutcome, CreateAccount(o, outcome)
      PROVE  TaskMoves(o)
  <2>. DEFINE k  == row.inFlight
              op == [row EXCEPT !.created = k]
  <2>1. /\ step = "create" /\ k # 0
        /\ PanelReceives(<<o, k>>, CreateCall(o), outcome)
        /\ outcome = "ok" => remote[CreateCall(o).key] = NoAccount
    BY <1>1, <1>6, TaskFacts DEF CreateAccount, At
  <2>2. CASE outcome = "ok" /\ Continues(o, op, "finish")
    <3>1. /\ op.created = k /\ op.status = row.status /\ op.stock = row.stock
          /\ op.results = row.results /\ op.inFlight = row.inFlight
          /\ op.dispatched = row.dispatched /\ op.before = row.before /\ op.desired = row.desired
      BY <1>2, CreatedField
    <3>. HIDE DEF op
    <3>2. operation'[o] = op /\ Goes(o, step, "finish")
      BY <1>1, <1>2, <2>2, <3>1, ContinuesMoves
    <3>3. QED
      BY <2>1, <2>2, <3>1, <3>2 DEF Creates, RenewalKept, TaskMoves
  <2>3. CASE outcome # "ok" /\ Fails(o, outcome, 0)
    BY <1>1, <2>1, <2>3, FailsMoves DEF QuitsCreating, TaskMoves
  <2>4. QED
    BY <1>6, <2>2, <2>3 DEF CreateAccount
<1>7. ASSUME NEW outcome, FinishCreate(o, outcome)
      PROVE  TaskMoves(o)
  <2>. DEFINE k  == row.inFlight
              op == [row EXCEPT !.results = k, !.inFlight = 0]
              to == IF k = Quantity(o) THEN "commit" ELSE "look"
  <2>1. step = "finish" /\ UNCHANGED external
    BY <1>7 DEF FinishCreate, At
  <2>2. CASE Continues(o, op, to)
    <3>. DEFINE half == [row EXCEPT !.results = k]
    <3>1. /\ half \in OperationRow
          /\ half.results = k /\ half.status = row.status /\ half.stock = row.stock
          /\ half.dispatched = row.dispatched /\ half.before = row.before
          /\ half.desired = row.desired
      BY <1>2, ResultsField DEF OperationRow
    <3>2. op = [half EXCEPT !.inFlight = 0]
      OBVIOUS
    <3>. HIDE DEF half
    <3>3. /\ op.results = k /\ op.status = row.status /\ op.stock = row.stock
          /\ op.dispatched = row.dispatched /\ op.before = row.before /\ op.desired = row.desired
      BY <3>1, <3>2, InFlightField
    <3>. HIDE DEF op
    <3>4. operation'[o] = op /\ Goes(o, step, to)
      BY <1>1, <1>2, <2>2, <3>3, ContinuesMoves
    <3>5. QED
      BY <2>1, <3>3, <3>4 DEF Finishes, RenewalKept, TaskMoves
  <2>3. CASE \E result : Fails(o, result, 0)
    BY <1>3, <2>1, <2>3
  <2>4. QED
    BY <1>7, <2>2, <2>3 DEF FinishCreate
<1>8. ASSUME NEW outcome, ReadService(o, outcome)
      PROVE  TaskMoves(o)
  <2>. DEFINE level == remote[RemoteKey(Target(o))].level
              op    == [row EXCEPT !.before = level, !.desired = level + 1, !.dispatched = TRUE]
  <2>1. step = "read" /\ UNCHANGED external
    BY <1>8 DEF ReadService, At
  <2>2. CASE Continues(o, op, "update")
    <3>1. level \in Nat
      BY <1>1, <1>2, <2>1, TaskFacts DEF Target, TypeOK, RemoteUser
    <3>2. /\ op.before = level /\ op.desired = level + 1 /\ op.dispatched
          /\ op.status = row.status /\ op.stock = row.stock
          /\ op.results = row.results /\ op.created = row.created
          /\ op.inFlight = row.inFlight
      <4>. HIDE DEF level
      <4>1. QED
        BY <1>2, <3>1, RenewalFields
    <3>. HIDE DEF op
    <3>3. operation'[o] = op /\ Goes(o, step, "update")
      BY <1>1, <1>2, <2>2, <3>2, ContinuesMoves
    <3>4. QED
      BY <2>1, <3>2, <3>3 DEF Reads, ProgressKept, TaskMoves
  <2>3. CASE \E result : Fails(o, result, 0)
    BY <1>3, <2>1, <2>3
  <2>4. QED
    BY <1>8, <2>2, <2>3 DEF ReadService, Target
<1>9. ASSUME NEW outcome \in AnyOutcome, UpdateService(o, outcome)
      PROVE  TaskMoves(o)
  <2>1. step = "update" /\ PanelReceives(<<o, 1>>, UpdateCall(o), outcome)
    BY <1>9 DEF UpdateService, At
  <2>2. CASE outcome = "ok" /\ Continues(o, row, "confirm")
    <3>1. operation'[o] = row /\ Goes(o, step, "confirm")
      BY <1>1, <1>2, <2>2, ContinuesMoves
    <3>2. QED
      BY <2>1, <2>2, <3>1
         DEF SetsTarget, RowKept, StockKept, RenewalKept, ProgressKept, TaskMoves
  <2>3. CASE outcome # "ok" /\ Fails(o, outcome, 0)
    BY <1>1, <2>1, <2>3, FailsMoves DEF QuitsUpdating, TaskMoves
  <2>4. QED
    BY <1>9, <2>2, <2>3 DEF UpdateService
<1>10. ASSUME NEW outcome, ConfirmUpdate(o, outcome)
       PROVE  TaskMoves(o)
  <2>1. step = "confirm" /\ UNCHANGED external
    BY <1>10 DEF ConfirmUpdate, At
  <2>2. QED
    BY <1>3, <1>4, <1>10, <2>1 DEF ConfirmUpdate
<1>11. ASSUME NEW outcome, FillFromStock(o, outcome)
       PROVE  TaskMoves(o)
  <2>1. step = "fill" /\ UNCHANGED external
    BY <1>11 DEF FillFromStock, At
  <2>2. \A held \in 0 .. Quantity(o) - 1 : held \in Nat
    BY <1>1, TaskFacts DEF Indexes, MaxQuantity
  <2>3. QED
    BY <1>3, <1>4, <1>11, <2>1, <2>2 DEF FillFromStock
<1>12. ASSUME Commit(o)
       PROVE  TaskMoves(o)
  <2>1. step = "commit" /\ UNCHANGED external
    BY <1>12 DEF Commit, At
  <2>2. CASE FinalizeOperation(o) /\ TaskEnds /\ UNCHANGED quote
    BY <1>1, <1>2, <2>1, <2>2, FinalizeMoves DEF Commits, TaskEnds, TaskMoves
  <2>3. CASE Fails(o, "failed", 1)
    BY <1>3, <2>1, <2>3
  <2>4. QED
    BY <1>12, <2>2, <2>3 DEF Commit
<1>13. QED
  BY <1>1, <1>5, <1>6, <1>7, <1>8, <1>9, <1>10, <1>11, <1>12 DEF TaskStep, ReadOutcomes

(* The terms of every quote stay.                                          *)
LEMMA NextTerms == IInv /\ [Next]_vars => TermsKept
<1>. SUFFICES ASSUME IInv, [Next]_vars PROVE TermsKept
  OBVIOUS
<1>1. CASE UNCHANGED quote
  BY <1>1 DEF TermsKept
<1>2. ASSUME NEW o \in Operations, NEW offer, NEW s, Quote(o, offer, s)
      PROVE  TermsKept
  BY <1>2 DEF Quote, TermsKept, IInv, TypeOK
<1>3. ASSUME NEW o \in Operations, QuoteExpires(o)
      PROVE  TermsKept
  <2>. DEFINE row == [quote[o] EXCEPT !.live = FALSE]
  <2>1. quote[o] \in QuoteRow
    BY <1>3 DEF QuoteExpires, IInv, TypeOK
  <2>2. row \in QuoteRow /\ row.offer = quote[o].offer /\ row.service = quote[o].service
    BY <2>1 DEF QuoteRow
  <2>3. row # None
    <3>1. row \in [offer : Offers, service : Accounts \union {None}, version : Nat,
                   role : Roles, live : BOOLEAN]
      BY <2>2, BoundsAssumption DEF QuoteRow
    <3>2. QED
      BY <3>1, RowsAssumption
  <2>4. quote' = [quote EXCEPT ![o] = row]
    BY <1>3 DEF QuoteExpires
  <2>. HIDE DEF row
  <2>5. QED
    BY <2>2, <2>3, <2>4 DEF TermsKept, IInv, TypeOK
<1>4. CASE Tick
  BY <1>1, <1>4 DEF Tick, ProcessOperation, Interrupted, Begin
<1>5. CASE Engine
  BY <1>1, <1>5, TaskStepMoves
     DEF Engine, TaskMoves, Commits, Pays, QuitsAside, QuitsCreating, QuitsUpdating, Quits,
         Passes, Looks, Creates, Finishes, Reads, SetsTarget, Goes
<1>6. CASE Customer
  <2>1. ASSUME Unquoted # {}, NEW offer \in Offers, NEW s \in Accounts \union {None},
               Quote(CHOOSE o \in Unquoted : TRUE, offer, s)
        PROVE  TermsKept
    BY <1>2, <2>1 DEF Unquoted
  <2>2. QED
    BY <1>1, <1>3, <1>6, <2>1 DEF Customer, Purchase, CancelOperation
<1>7. CASE Administrator
  BY <1>1, <1>7 DEF Administrator, AdjustWallet, UpdateAccount, SetStanding, SavePlan, DeletePanel,
     DisableStock, ManualStockSale, SetStock, ProcessOperation, Interrupted, Begin,
     ReconcileOperation
<1>8. CASE Crash \/ (\E call \in wire : LateEffect(call)) \/ UNCHANGED vars
  BY <1>1, <1>8 DEF Crash, LateEffect, durable, vars
<1>9. QED
  BY <1>4, <1>5, <1>6, <1>7, <1>8 DEF Next

(* A quote changes nothing else.                                           *)
LEMMA QuoteIsAside ==
  ASSUME IInv, NEW o \in Operations, NEW offer \in Offers, NEW s \in Accounts \union {None},
         Quote(o, offer, s)
  PROVE  Aside
<1>. DEFINE row == [offer |-> offer, service |-> s, version |-> plan[offer.plan].version,
                    role |-> account[offer.user].role, live |-> TRUE]
<1>1. offer.user \in Users /\ None \notin Users /\ None \notin Accounts
  BY RowsAssumption
<1>2. quote' = [quote EXCEPT ![o] = row] /\ quote[o] = None
  BY DEF Quote
<1>3. row.offer = offer /\ row.service = s
  OBVIOUS
<1>. HIDE DEF row
<1>4. \A p \in Operations : quote'[p] = IF p = o THEN row ELSE quote[p]
  BY <1>2 DEF IInv, TypeOK
<1>5. s # None => service[s] # None /\ Panel(s[1]) = offer.panel
  BY <1>1 DEF Quote, ServicesOf
<1>6. ASSUME NEW p \in Operations, quote[p] = None, quote'[p] # None, quote'[p].service # None
      PROVE  /\ service[quote'[p].service] # None
             /\ Panel(quote'[p].service[1]) = quote'[p].offer.panel
  <2>1. p = o /\ quote'[p] = row
    BY <1>4, <1>6
  <2>2. QED
    BY <1>3, <1>5, <1>6, <2>1
<1>7. QED
  BY <1>6 DEF Aside, Quote, task, TaskKept

(* A purchase opens one row.                                               *)
LEMMA PurchaseBuys ==
  ASSUME IInv, NEW o \in Operations, NEW rows \in SUBSET StockRows, Purchase(o, rows)
  PROVE  Buys(o)
<1>. DEFINE half == [FreshOperation EXCEPT !.stock = rows]
            n    == Cardinality(Existing) + 1
            op   == [half EXCEPT !.createdAt = n]
<1>1. operation' = [operation EXCEPT ![o] = op]
  BY DEF Purchase
<1>2. /\ half.status = "queued" /\ half.results = 0 /\ half.created = 0 /\ ~half.dispatched
      /\ half.stock = rows
      /\ half \in [status : {"queued"}, createdAt : {0}, inFlight : {0}, created : {0},
                   results : {0}, dispatched : {FALSE}, before : {0}, desired : {0},
                   stock : {rows}, reason : {"none"}]
  BY DEF FreshOperation
<1>. HIDE DEF half, n
<1>3. /\ op.status = "queued" /\ op.results = 0 /\ op.created = 0 /\ ~op.dispatched
      /\ op.stock = rows
  BY <1>2
<1>. HIDE DEF op
<1>4. operation'[o] = op /\ Rest(o)
  BY <1>1, OneRow DEF IInv
<1>5. operation[o].status = "none"
  BY DEF Purchase, Existing
<1>6. QED
  BY <1>3, <1>4, <1>5 DEF Buys, Purchase, TaskKept, task

(* Every step is one of the moves.                                         *)
LEMMA NextMoves == IInv /\ [Next]_vars => Moves
<1>. SUFFICES ASSUME IInv, [Next]_vars PROVE Moves
  OBVIOUS
<1>0. TypeOK
  BY DEF IInv
<1>1. ASSUME UNCHANGED <<quote, operation, service, running, step, external>>
      PROVE  Moves
  BY <1>1 DEF Aside, TaskKept, Moves
<1>2. ASSUME NEW o \in Operations, Interrupted(o)
      PROVE  Moves
  <2>1. operation' = [operation EXCEPT ![o].status = "review"]
    BY <1>2 DEF Interrupted
  <2>2. Rest(o) /\ RowKept(o) /\ operation'[o].status = "review"
    BY <1>0, <2>1, StatusMoves
  <2>3. Parks(o)
    BY <1>2, <2>2 DEF Interrupted, Parks, TaskKept, task
  <2>4. QED
    BY <2>3 DEF Moves
<1>3. ASSUME NEW o \in Operations, Begin(o)
      PROVE  Moves
  <2>1. operation' = [operation EXCEPT ![o].status = "sending"]
    BY <1>3 DEF Begin
  <2>2. Rest(o) /\ RowKept(o) /\ operation'[o].status = "sending"
    BY <1>0, <2>1, StatusMoves
  <2>3. Starts(o)
    BY <1>3, <2>2 DEF Begin, Starts
  <2>4. QED
    BY <2>3 DEF Moves
<1>4. ASSUME NEW o \in Operations, CancelOperation(o)
      PROVE  Moves
  <2>1. Rest(o) /\ RowKept(o) /\ UNCHANGED service
        /\ operation'[o].status = "failed" /\ operation'[o].reason = "cancelled"
    BY <1>0, <1>4, ReleaseMoves DEF CancelOperation
  <2>2. Cancels(o)
    BY <1>4, <2>1 DEF CancelOperation, Cancels, TaskKept, task
  <2>3. QED
    BY <2>2 DEF Moves
<1>5. ASSUME NEW o \in Operations, ReconcileOperation(o)
      PROVE  Moves
  <2>1. quote[o] # None /\ running' = None /\ step' = "idle"
    BY <1>5 DEF ReconcileOperation, IInv, QuoteInv, TaskInv, Existing, task
  <2>2. Reconciles(o)
    BY <1>0, <1>5, <2>1, FinalizeMoves DEF ReconcileOperation, Reconciles
  <2>3. QED
    BY <2>2 DEF Moves
<1>6. CASE Tick
  BY <1>2, <1>3, <1>6 DEF Tick, Runnable, ProcessOperation
<1>7. CASE Engine
  BY <1>7, TaskStepMoves DEF Engine, Moves
<1>8. CASE Customer
  <2>1. ASSUME Unquoted # {}, NEW offer \in Offers, NEW s \in Accounts \union {None},
               Quote(CHOOSE o \in Unquoted : TRUE, offer, s)
        PROVE  Moves
    BY <2>1, QuoteIsAside DEF Unquoted, Moves
  <2>2. ASSUME NEW o \in Operations, QuoteExpires(o)
        PROVE  Moves
    <3>1. \A p \in Operations : quote[p] = None => quote'[p] = None
      BY <2>2 DEF QuoteExpires, IInv, TypeOK
    <3>2. QED
      BY <2>2, <3>1 DEF QuoteExpires, Aside, TaskKept, task, Moves
  <2>3. QED
    BY <1>4, <1>8, <2>1, <2>2, PurchaseBuys DEF Customer, Moves
<1>9. CASE Administrator
  BY <1>1, <1>2, <1>3, <1>5, <1>9
     DEF Administrator, AdjustWallet, UpdateAccount, SetStanding, SavePlan, DeletePanel,
         DisableStock, ManualStockSale, SetStock, ProcessOperation, task
<1>10. CASE Crash
  <2>1. /\ running \in Operations /\ operation[running].status = "sending"
        /\ Uncertain \subseteq AnyOutcome /\ "ok" \notin Uncertain
    BY <1>10 DEF Crash, IInv, TypeOK, TaskInv, Uncertain, AnyOutcome
  <2>2. Quits(running)
    BY <1>10, <2>1
       DEF Crash, Quits, TaskEnds, durable, Rest, RowKept, StockKept, RenewalKept, ProgressKept
  <2>3. TaskMoves(running)
    BY <1>10, <2>1, <2>2
       DEF Crash, QuitsAside, QuitsCreating, QuitsUpdating, TaskMoves, durable
  <2>4. QED
    BY <2>1, <2>3 DEF Moves
<1>11. CASE \E call \in wire : LateEffect(call)
  BY <1>11 DEF LateEffect, Arrives, durable, task, TaskKept, Moves
<1>12. CASE UNCHANGED vars
  BY <1>1, <1>12 DEF vars, durable, task
<1>13. QED
  BY <1>6, <1>7, <1>8, <1>9, <1>10, <1>11, <1>12 DEF Next

(* What the terms of an operation fix.                                     *)
LEMMA TermsFix ==
  ASSUME TermsKept, NEW p \in Operations, quote[p] # None
  PROVE  /\ quote'[p] # None
         /\ Offer(p)' = Offer(p) /\ Panel(p)' = Panel(p) /\ Type(p)' = Type(p)
         /\ Kind(p)' = Kind(p) /\ Quantity(p)' = Quantity(p) /\ User(p)' = User(p)
         /\ Target(p)' = Target(p)
         /\ StockNeeded(p)' = StockNeeded(p)
BY DEF TermsKept, Offer, Panel, Type, Kind, Quantity, User, Target, StockNeeded

(* The user of an account on its panel does not change.                    *)
LEMMA KeyFix ==
  ASSUME TermsKept, NEW a, a[1] \in Operations, quote[a[1]] # None
  PROVE  RemoteKey(a)' = RemoteKey(a)
BY TermsFix DEF RemoteKey, Panel, Offer

(* Operations that exist have a quote, which is a renewal or not.          *)
LEMMA Quoted ==
  ASSUME IInv, NEW o \in Operations, operation[o].status # "none"
  PROVE  /\ quote[o] # None
         /\ Target(o) \in Accounts \union {None}
         /\ Kind(o) = "renew" <=> Target(o) # None
         /\ Target(o) # None => Target(o)[1] \in Operations /\ quote[Target(o)[1]] # None
<1>1. quote[o] # None
  BY DEF IInv, QuoteInv, Existing
<1>2. Target(o) \in Accounts \union {None}
  BY <1>1 DEF IInv, TypeOK, QuoteRow, Target
<1>3. QED
  BY <1>1, <1>2 DEF IInv, QuoteInv, Target, Accounts

-----------------------------------------------------------------------------
(* The task *)

(* What the task has done stays what it is about to step from.             *)
LEMMA NextStepInv == IInv /\ StepInv /\ FreshInv /\ Moves /\ TermsKept => StepInv'
<1>. SUFFICES ASSUME IInv, StepInv, FreshInv, Moves, TermsKept PROVE StepInv'
  OBVIOUS
<1>1. CASE running' = None
  BY <1>1 DEF StepInv
<1>2. ASSUME NEW o \in Operations, running' = o, quote[o] # None,
             LET op == operation'[o] IN
             /\ step' = "fill" => Type(o) = "stock"
             /\ step' \in {"look", "create", "finish"} => Type(o) # "stock" /\ Target(o) = None
             /\ step' \in {"create", "finish"} => op.inFlight = op.results + 1
             /\ step' \in {"read", "update", "confirm"} => Type(o) # "stock"
             /\ step' \in {"update", "confirm"} => op.dispatched
             /\ step' = "commit" => \/ Type(o) = "stock"
                                    \/ Target(o) # None /\ op.dispatched
                                    \/ Target(o) = None /\ op.results = Quantity(o)
      PROVE  StepInv'
  BY <1>2, TermsFix DEF StepInv
<1>3. ASSUME UNCHANGED operation, TaskKept, running # None
      PROVE  StepInv'
  <2>1. PICK o \in Operations : o = running /\ quote[o] # None
    BY <1>3, TaskFacts DEF IInv, TypeOK
  <2>2. running' = o /\ step' = step /\ operation'[o] = operation[o]
    BY <1>3, <2>1 DEF TaskKept
  <2>3. QED
    BY <1>2, <1>3, <2>1, <2>2 DEF StepInv
<1>4. ASSUME NEW o \in Operations, Starts(o)
      PROVE  StepInv'
  <2>1. quote[o] # None /\ (Kind(o) = "renew" <=> Target(o) # None)
    BY <1>4, Quoted DEF Starts
  <2>2. QED
    BY <1>2, <1>4, <2>1 DEF Starts
<1>5. ASSUME NEW o \in Operations, TaskMoves(o)
      PROVE  StepInv'
  <2>1. CASE running' = None
    BY <1>1, <2>1
  <2>2. CASE running' # None
    <3>1. running = o /\ running' = o /\ o # None
      BY <1>5, <2>2
         DEF TaskMoves, Commits, Pays, QuitsAside, QuitsCreating, QuitsUpdating, Quits,
             Passes, Looks, Creates, Finishes, Reads, SetsTarget, Goes
    <3>2. quote[o] # None /\ operation[o] \in OperationRow
      BY <3>1, TaskFacts
    <3>3. step \in {"read", "update", "confirm"} => Target(o) # None
      BY <3>1 DEF IInv, TaskInv, Target
    <3>4. CASE Passes(o)
      BY <1>2, <3>1, <3>2, <3>3, <3>4 DEF StepInv, Passes, Goes, RowKept, RenewalKept
    <3>5. CASE Looks(o)
      BY <1>2, <3>1, <3>2, <3>5 DEF StepInv, Looks, Goes
    <3>6. CASE Creates(o)
      BY <1>2, <3>1, <3>2, <3>6 DEF StepInv, Creates, Goes
    <3>7. CASE Finishes(o)
      BY <1>2, <3>1, <3>2, <3>7 DEF StepInv, Finishes, Goes
    <3>8. CASE Reads(o)
      BY <1>2, <3>1, <3>2, <3>8 DEF StepInv, Reads, Goes
    <3>9. CASE SetsTarget(o)
      BY <1>2, <3>1, <3>2, <3>9 DEF StepInv, SetsTarget, Goes, RowKept, RenewalKept
    <3>10. QED
      BY <1>5, <2>2, <3>1, <3>4, <3>5, <3>6, <3>7, <3>8, <3>9
         DEF TaskMoves, Commits, Pays, QuitsAside, QuitsCreating, QuitsUpdating, Quits
  <2>3. QED
    BY <2>1, <2>2
<1>6. ASSUME NEW o \in Operations, Buys(o) \/ Parks(o) \/ Cancels(o) \/ Reconciles(o)
      PROVE  StepInv'
  BY <1>1, <1>6 DEF Buys, Parks, Cancels, Reconciles, Pays, TaskKept
<1>7. CASE Aside \/ \E call \in wire : Arrives(call)
  BY <1>1, <1>3, <1>7 DEF Aside, Arrives, TaskKept
<1>8. QED
  BY <1>4, <1>5, <1>6, <1>7 DEF Moves

(* One row changes at most; what is left open or ended stays so.           *)
RowMoves(o) ==
  /\ Rest(o)
  /\ \/ Buys(o)
     \/ /\ operation[o].status \in Open /\ StockKept(o)
        /\ operation'[o].status \notin {"none", "queued"}
(* A step changes the row of one operation at most.                        *)
LEMMA MovesRows ==
  ASSUME IInv, Moves
  PROVE  UNCHANGED operation \/ \E o \in Operations : RowMoves(o)
<1>1. ASSUME NEW o \in Operations, Parks(o) \/ Starts(o) \/ Cancels(o) \/ Reconciles(o)
      PROVE  RowMoves(o)
  BY <1>1 DEF Parks, Starts, Cancels, Reconciles, Pays, RowMoves, RowKept, Open
<1>2. ASSUME NEW o \in Operations, TaskMoves(o)
      PROVE  RowMoves(o)
  <2>1. running = o
    BY <1>2 DEF TaskMoves, Commits, QuitsAside, QuitsCreating, QuitsUpdating, Quits,
         Passes, Looks, Creates, Finishes, Reads, SetsTarget, Goes
  <2>2. operation[o].status \in Open
    BY <2>1, TaskFacts DEF Open
  <2>3. QED
    BY <1>2, <2>2
       DEF TaskMoves, Commits, Pays, QuitsAside, QuitsCreating, QuitsUpdating, Quits,
           Passes, Looks, Creates, Finishes, Reads, SetsTarget, Goes, RowMoves, RowKept
<1>3. QED
  BY <1>1, <1>2 DEF Moves, Aside, Arrives, RowMoves, Buys

(* An operation that waits stays as it was written.                        *)
LEMMA NextFreshInv == IInv /\ FreshInv /\ Moves => FreshInv'
<1>. SUFFICES ASSUME IInv, FreshInv, Moves PROVE FreshInv'
  OBVIOUS
<1>1. CASE UNCHANGED operation
  BY <1>1 DEF FreshInv
<1>2. ASSUME NEW o \in Operations, RowMoves(o)
      PROVE  FreshInv'
  BY <1>2 DEF RowMoves, Buys, Rest, FreshInv
<1>3. QED
  BY <1>1, <1>2, MovesRows

(* No row of stock is added to an operation or taken from it.              *)
LEMMA NextHandedInv == IInv /\ HandedInv /\ Moves /\ TermsKept => HandedInv'
<1>. SUFFICES ASSUME IInv, HandedInv, Moves, TermsKept PROVE HandedInv'
  OBVIOUS
<1>1. \A p \in Existing : StockNeeded(p)' = StockNeeded(p)
  BY TermsFix, Quoted DEF Existing
<1>2. CASE UNCHANGED operation
  BY <1>1, <1>2 DEF HandedInv, Existing
<1>3. ASSUME NEW o \in Operations, RowMoves(o)
      PROVE  HandedInv'
  <2>1. \A p \in Operations : p # o => operation'[p] = operation[p]
    BY <1>3 DEF RowMoves, Rest
  <2>2. Cardinality(operation'[o].stock) = StockNeeded(o)'
    <3>1. CASE Buys(o)
      BY <3>1, TermsFix DEF Buys
    <3>2. CASE operation[o].status \in Open /\ StockKept(o)
      BY <1>1, <3>2 DEF HandedInv, Existing, StockKept, Open
    <3>3. QED
      BY <1>3, <3>1, <3>2 DEF RowMoves
  <2>3. QED
    BY <1>1, <2>1, <2>2 DEF HandedInv, Existing
<1>4. QED
  BY <1>2, <1>3, MovesRows

-----------------------------------------------------------------------------
(* Services and their renewals *)

(* Who owns a service afterwards: the owner before, or the one who pays.   *)
Sells(o) ==
  /\ Pays(o) /\ Target(o) = None
  /\ (running = o /\ step = "commit") \/ Confirmed(o)
(* A step changes the services of one sale at most.                        *)
LEMMA MovesServices ==
  ASSUME IInv, Moves
  PROVE  UNCHANGED service \/ \E o \in Operations : Sells(o) /\ operation[o].status \in Open
<1>1. ASSUME NEW o \in Operations, Pays(o)
      PROVE  UNCHANGED service \/ Target(o) = None
  BY <1>1 DEF Pays
<1>2. ASSUME NEW o \in Operations, Commits(o) \/ Reconciles(o)
      PROVE  UNCHANGED service \/ (Sells(o) /\ operation[o].status \in Open)
  BY <1>1, <1>2, TaskFacts DEF Commits, Reconciles, Sells, Open
<1>3. QED
  BY <1>2 DEF Moves, Aside, Buys, Parks, Starts, Cancels, Arrives, TaskMoves, QuitsAside,
     QuitsCreating, QuitsUpdating, Quits, Passes, Looks, Creates, Finishes, Reads, SetsTarget, Goes

(* A service that exists stays.                                            *)
LEMMA ServicesStay ==
  ASSUME IInv, Moves
  PROVE  \A a \in Accounts : service[a] # None => service'[a] # None
<1>1. ASSUME NEW o \in Operations, Sells(o), operation[o].status \in Open
      PROVE  \A a \in Accounts : service[a] # None => service'[a] # None
  <2>1. User(o) # None
    BY <1>1, Quoted, OfferType, RowsAssumption DEF IInv, Open
  <2>2. QED
    BY <1>1, <2>1 DEF Sells, Pays
<1>2. QED
  BY <1>1, MovesServices

(* A new quote comes in a step of its own.                                 *)
LEMMA NewQuote ==
  ASSUME Moves, ~UNCHANGED quote
  PROVE  Aside
BY DEF Moves, Buys, Parks, Starts, Cancels, Arrives, Reconciles, TaskMoves, Commits, Pays, QuitsAside,
   QuitsCreating, QuitsUpdating, Quits, Passes, Looks, Creates, Finishes, Reads, SetsTarget, Goes

(* The first part: what a renewal renews is there.                         *)
TargetKnown(p) ==
  quote[p] # None /\ Target(p) # None =>
    service[Target(p)] # None /\ Panel(Target(p)[1]) = Panel(p)
OneRenewal ==
  \A o, p \in Operations :
    /\ operation[o].status \in Open /\ operation[p].status \in Open
    /\ Target(o) # None /\ Target(p) = Target(o)
    => p = o

(* Every step keeps the targets of renewals.                               *)
LEMMA NextTargetInv == IInv /\ IInv' /\ TargetInv /\ Moves /\ TermsKept => TargetInv'
<1>. SUFFICES ASSUME IInv, IInv', TargetInv, Moves, TermsKept PROVE TargetInv'
  OBVIOUS
<1>1. /\ TargetInv => OneRenewal /\ \A p \in Operations : TargetKnown(p)
      /\ OneRenewal' /\ (\A p \in Operations : TargetKnown(p)') => TargetInv'
  BY DEF TargetInv, OneRenewal, TargetKnown
<1>2. ASSUME NEW p \in Operations
      PROVE  TargetKnown(p)'
  <2>1. SUFFICES ASSUME quote'[p] # None, Target(p)' # None
                 PROVE  /\ service'[Target(p)'] # None
                        /\ quote'[Target(p)'[1]].offer.panel = quote'[p].offer.panel
    BY DEF TargetKnown, Panel, Offer
  <2>2. PICK s : s = Target(p)'
    OBVIOUS
  <2>3. s \in Accounts
    BY <2>1, <2>2 DEF Target, IInv, TypeOK, QuoteRow
  <2>4. service[s] # None /\ service'[s] # None /\ quote[s[1]].offer.panel = quote'[p].offer.panel
    <3>1. CASE quote[p] # None
      <4>1. s = Target(p) /\ quote'[p].offer.panel = quote[p].offer.panel
        BY <2>2, <3>1, TermsFix DEF TermsKept
      <4>2. service[s] # None /\ quote[s[1]].offer.panel = quote[p].offer.panel
        BY <1>1, <2>1, <2>2, <3>1, <4>1 DEF TargetKnown, Panel, Offer
      <4>3. QED
        BY <2>3, <4>1, <4>2, ServicesStay
    <3>2. CASE quote[p] = None
      <4>1. Aside
        BY <2>1, <3>2, NewQuote
      <4>2. QED
        BY <2>1, <2>2, <3>2, <4>1 DEF Aside, Target, Panel, Offer
    <3>3. QED
      BY <3>1, <3>2
  <2>5. s[1] \in Operations /\ quote[s[1]] # None
    BY <2>3, <2>4 DEF IInv, QuoteInv, Accounts
  <2>6. quote'[s[1]].offer = quote[s[1]].offer
    BY <2>5 DEF TermsKept
  <2>7. QED
    BY <2>2, <2>4, <2>6
<1>3. OneRenewal'
  <2>1. \A p \in Operations : operation[p].status \in Open => Target(p)' = Target(p)
    BY Quoted, TermsFix DEF Open
  <2>2. CASE UNCHANGED operation
    BY <1>1, <2>1, <2>2 DEF OneRenewal, Open
  <2>3. ASSUME NEW o \in Operations, RowMoves(o)
        PROVE  OneRenewal'
    <3>1. \A p \in Operations : p # o => operation'[p] = operation[p]
      BY <2>3 DEF RowMoves, Rest
    <3>2. CASE operation[o].status \in Open
      BY <1>1, <2>1, <3>1, <3>2 DEF OneRenewal, Open
    <3>3. CASE Buys(o)
      <4>1. \A p \in Operations : Target(p)' = Target(p)
        BY <3>3 DEF Buys, Target
      <4>2. Target(o) # None =>
              \A p \in Operations : operation[p].status \in Open => Target(p) # Target(o)
        BY <3>3 DEF Buys, MayPurchase, Target
      <4>3. QED
        BY <1>1, <3>1, <4>1, <4>2 DEF OneRenewal, Open
    <3>4. QED
      BY <2>3, <3>2, <3>3 DEF RowMoves
  <2>4. QED
    BY <2>2, <2>3, MovesRows
<1>4. QED
  BY <1>1, <1>2, <1>3

-----------------------------------------------------------------------------
(* What reaches the panels *)

(* A call changes the user of its key: a creation only where there is none *)
(* yet, an update the level of the user there is.                          *)
LEMMA EffectRows ==
  ASSUME TypeOK, NEW call \in PanelCall, NEW k \in Keys
  PROVE  /\ Effect(call)[k] # remote[k] => k = call.key
         /\ Effect(call)[k].marker # remote[k].marker =>
              /\ remote[k].marker = None
              /\ call.marker # None /\ Effect(call)[k].marker = call.marker
         /\ call.marker # None /\ remote[k].marker # None => Effect(call)[k] = remote[k]
         /\ call.marker # None /\ k = call.key /\ remote[k] = NoAccount =>
              Effect(call)[k].marker = call.marker
         /\ call.marker = None /\ k = call.key /\ remote[k].marker # None =>
              Effect(call)[k].level = call.level
<1>1. remote \in [Keys -> RemoteUser] /\ call.key \in Keys /\ remote[k] \in RemoteUser
  BY DEF TypeOK, PanelCall
<1>2. remote[k].marker # None => remote[k] # NoAccount
  BY DEF NoAccount
<1>3. CASE call.marker # None /\ remote[call.key] = NoAccount
  BY <1>1, <1>2, <1>3 DEF Effect, NoAccount
<1>4. CASE call.marker = None /\ remote[call.key] # NoAccount
  BY <1>1, <1>2, <1>4 DEF Effect, RemoteUser
<1>5. CASE Effect(call) = remote /\ ~(call.marker # None /\ remote[call.key] = NoAccount)
           /\ ~(call.marker = None /\ remote[call.key] # NoAccount)
  BY <1>1, <1>2, <1>5
<1>6. QED
  BY <1>3, <1>4, <1>5 DEF Effect

(* The calls that can change something: those given up on, and the one the *)
(* running task makes.                                                     *)
MakesCall(o, call) ==
  /\ running = o
  /\ \/ step = "create" /\ call = CreateCall(o)
     \/ step = "update" /\ call = UpdateCall(o)
Carries(call) ==
  /\ remote' = remote \/ remote' = Effect(call)
  /\ wire' \subseteq wire \union {call}
(* The panels change only by carrying out a call.                          *)
LEMMA MovesCarry ==
  ASSUME IInv, Moves
  PROVE  \/ UNCHANGED <<remote, wire>>
         \/ \E call \in wire : Arrives(call)
         \/ \E o \in Operations, call \in PanelCall : Carries(call) /\ MakesCall(o, call)
<1>1. ASSUME NEW o \in Operations, NEW call, NEW a, NEW outcome, MakesCall(o, call),
             PanelReceives(a, call, outcome)
      PROVE  Carries(call) /\ call \in PanelCall
  BY <1>1, CallTypes DEF MakesCall, PanelReceives, Carries
<1>2. ASSUME NEW o \in Operations, NEW outcome, QuitsCreating(o, outcome)
      PROVE  \E call \in PanelCall : Carries(call) /\ MakesCall(o, call)
  <2>1. MakesCall(o, CreateCall(o))
    BY <1>2 DEF QuitsCreating, Quits, MakesCall
  <2>2. PanelReceives(<<o, operation[o].inFlight>>, CreateCall(o), outcome)
    BY <1>2 DEF QuitsCreating
  <2>3. Carries(CreateCall(o)) /\ CreateCall(o) \in PanelCall
    BY <1>1, <2>1, <2>2
  <2>4. QED
    BY <2>1, <2>3
<1>3. ASSUME NEW o \in Operations, NEW outcome, QuitsUpdating(o, outcome)
      PROVE  \E call \in PanelCall : Carries(call) /\ MakesCall(o, call)
  <2>1. MakesCall(o, UpdateCall(o))
    BY <1>3 DEF QuitsUpdating, Quits, MakesCall
  <2>2. PanelReceives(<<o, 1>>, UpdateCall(o), outcome)
    BY <1>3 DEF QuitsUpdating
  <2>3. Carries(UpdateCall(o)) /\ UpdateCall(o) \in PanelCall
    BY <1>1, <2>1, <2>2
  <2>4. QED
    BY <2>1, <2>3
<1>4. ASSUME NEW o \in Operations, Creates(o)
      PROVE  \E call \in PanelCall : Carries(call) /\ MakesCall(o, call)
  <2>1. MakesCall(o, CreateCall(o))
    BY <1>4 DEF Creates, Goes, MakesCall
  <2>2. PanelReceives(<<o, operation[o].inFlight>>, CreateCall(o), "ok")
    BY <1>4 DEF Creates
  <2>3. Carries(CreateCall(o)) /\ CreateCall(o) \in PanelCall
    BY <1>1, <2>1, <2>2
  <2>4. QED
    BY <2>1, <2>3
<1>5. ASSUME NEW o \in Operations, SetsTarget(o)
      PROVE  \E call \in PanelCall : Carries(call) /\ MakesCall(o, call)
  <2>1. MakesCall(o, UpdateCall(o))
    BY <1>5 DEF SetsTarget, Goes, MakesCall
  <2>2. PanelReceives(<<o, 1>>, UpdateCall(o), "ok")
    BY <1>5 DEF SetsTarget
  <2>3. Carries(UpdateCall(o)) /\ UpdateCall(o) \in PanelCall
    BY <1>1, <2>1, <2>2
  <2>4. QED
    BY <2>1, <2>3
<1>6. ASSUME NEW o \in Operations, TaskMoves(o)
      PROVE  \/ UNCHANGED <<remote, wire>>
             \/ \E call \in PanelCall : Carries(call) /\ MakesCall(o, call)
  BY <1>2, <1>3, <1>4, <1>5, <1>6
     DEF TaskMoves, Commits, Pays, QuitsAside, Passes, Looks, Finishes, Reads, external
<1>7. QED
  BY <1>6 DEF Moves, Aside, Buys, Parks, Starts, Cancels, Reconciles, Pays, external

(* Either way one call is carried out at most.                             *)
LEMMA ArrivesCarries ==
  ASSUME IInv, NEW call \in wire, Arrives(call)
  PROVE  call \in PanelCall /\ Carries(call)
BY DEF Arrives, Carries, IInv, TypeOK

(* The same, with the call named.                                          *)
LEMMA MovesExternal ==
  ASSUME IInv, Moves
  PROVE  \/ UNCHANGED <<remote, wire>>
         \/ \E call \in PanelCall :
              /\ Carries(call)
              /\ call \in wire \/ \E o \in Operations : MakesCall(o, call)
BY MovesCarry, ArrivesCarries

(* A user of a panel keeps its marker.                                     *)
MarkersStay == \A k \in Keys : remote[k].marker # None => remote'[k].marker = remote[k].marker
(* No step takes the marker of a user away.                                *)
LEMMA NextMarkersStay == IInv /\ Moves => MarkersStay
BY MovesExternal, EffectRows DEF Carries, MarkersStay, IInv

(* A call that would create an account is for one that is bought.          *)
LEMMA CallsArePaidFor ==
  ASSUME IInv, StepInv, MarkInv, NEW call,
         call \in wire \/ \E o \in Operations : MakesCall(o, call),
         call.marker # None
  PROVE  PaidFor(call.marker, call.key)
<1>1. CASE call \in wire
  BY <1>1 DEF MarkInv
<1>2. ASSUME NEW o \in Operations, MakesCall(o, call)
      PROVE  PaidFor(call.marker, call.key)
  <2>1. running = o /\ step = "create" /\ call = CreateCall(o)
    BY <1>2 DEF MakesCall, UpdateCall
  <2>. DEFINE a == <<o, operation[o].inFlight>>
  <2>2. call.marker = a /\ call.key = RemoteKey(a)
    BY <2>1 DEF CreateCall
  <2>3. quote[o] # None /\ operation[o].inFlight <= Quantity(o)
    BY <2>1, TaskFacts
  <2>4. Type(o) # "stock" /\ Target(o) = None
    BY <2>1, <2>3, RowsAssumption DEF StepInv, IInv, TaskInv
  <2>5. QED
    BY <2>2, <2>3, <2>4 DEF PaidFor
<1>3. QED
  BY <1>1, <1>2

(* It stays bought.                                                        *)
LEMMA PaidForStays ==
  ASSUME TermsKept, NEW a \in Accounts, NEW k, PaidFor(a, k)
  PROVE  PaidFor(a, k)'
<1>1. PICK o \in Operations : o = a[1] /\ quote[o] # None
  BY DEF PaidFor, Accounts
<1>2. /\ quote'[o] # None /\ Quantity(o)' = Quantity(o)
      /\ Type(o)' = Type(o) /\ Target(o)' = Target(o)
  BY <1>1, TermsFix
<1>3. RemoteKey(a)' = RemoteKey(a)
  BY <1>1, KeyFix
<1>4. QED
  BY <1>1, <1>2, <1>3 DEF PaidFor

(* Every step keeps the markers.                                           *)
LEMMA NextMarkInv == IInv /\ IInv' /\ StepInv /\ MarkInv /\ Moves /\ TermsKept => MarkInv'
<1>. SUFFICES ASSUME IInv, IInv', StepInv, MarkInv, Moves, TermsKept PROVE MarkInv'
  OBVIOUS
<1>1. /\ \A k \in Keys : remote[k].marker \in Accounts \union {None}
      /\ \A call \in PanelCall : call.marker \in Accounts \union {None}
      /\ wire \subseteq PanelCall
  BY DEF IInv, TypeOK, RemoteUser, PanelCall
<1>2. ASSUME NEW a, NEW k, PaidFor(a, k), a \in Accounts
      PROVE  PaidFor(a, k)'
  BY <1>2, PaidForStays
<1>3. CASE UNCHANGED <<remote, wire>>
  BY <1>1, <1>2, <1>3 DEF MarkInv
<1>4. ASSUME NEW call \in PanelCall, Carries(call),
             call \in wire \/ \E o \in Operations : MakesCall(o, call)
      PROVE  MarkInv'
  <2>1. call.marker # None => PaidFor(call.marker, call.key)
    BY <1>4, CallsArePaidFor
  <2>2. ASSUME NEW k \in Keys, NEW a, a = remote'[k].marker, a # None
        PROVE  PaidFor(a, k)'
    <3>1. a = remote[k].marker \/ (a = call.marker /\ k = call.key)
      BY <1>4, <2>2, EffectRows DEF Carries, IInv
    <3>2. PaidFor(a, k) /\ a \in Accounts
      BY <1>1, <2>1, <2>2, <3>1 DEF MarkInv
    <3>3. QED
      BY <1>2, <3>2
  <2>3. ASSUME NEW other \in wire', NEW a, NEW k, a = other.marker, k = other.key, a # None
        PROVE  PaidFor(a, k)'
    <3>1. other \in wire \/ other = call
      BY <1>4, <2>3 DEF Carries
    <3>2. PaidFor(a, k) /\ a \in Accounts
      BY <1>1, <2>1, <2>3, <3>1 DEF MarkInv
    <3>3. QED
      BY <1>2, <3>2
  <2>4. QED
    BY <2>2, <2>3 DEF MarkInv
<1>5. QED
  BY <1>3, <1>4, MovesExternal

-----------------------------------------------------------------------------
(* What is on the panels of an operation *)

(* What is untouched after a step was untouched before it.                 *)
LEMMA UntouchedBefore ==
  ASSUME IInv, StepInv, Moves, NEW o \in Operations, Untouched(o)'
  PROVE  Untouched(o)
<1>1. CASE operation'[o] = operation[o] /\ running' = running
  BY <1>1 DEF Untouched
<1>2. ASSUME NEW q \in Operations,
             Buys(q) \/ Parks(q) \/ Cancels(q) \/ Reconciles(q) \/ Starts(q)
      PROVE  Untouched(o)
  BY <1>2, RowsAssumption
     DEF Untouched, Buys, Parks, Cancels, Reconciles, Pays, Starts, Rest, TaskKept
<1>3. ASSUME NEW q \in Operations, TaskMoves(q)
      PROVE  Untouched(o)
  <2>1. /\ running = q /\ Rest(q) /\ running' \in {q, None}
        /\ operation'[q].status \notin {"none", "queued"}
    BY <1>3 DEF TaskMoves, Commits, Pays, QuitsAside, QuitsCreating, QuitsUpdating, Quits,
         Passes, Looks, Creates, Finishes, Reads, SetsTarget, Goes
  <2>2. CASE o # q
    BY <2>1, <2>2, RowsAssumption DEF Untouched, Rest
  <2>3. CASE o = q
    <3>1. step \in {"create", "finish"} => operation[o].inFlight # 0
      BY <2>1, <2>3, TaskFacts
    <3>2. operation'[o].status = "failed" \/ running' = o
      BY <2>1, <2>3, RowsAssumption DEF Untouched
    <3>3. operation[o].results = 0 /\ operation[o].created = 0
      <4>1. CASE operation'[o].status = "failed"
        BY <1>3, <2>3, <4>1
           DEF TaskMoves, Commits, Pays, QuitsAside, QuitsCreating, QuitsUpdating, Quits,
               Passes, Looks, Creates, Finishes, Reads, SetsTarget, Goes
      <4>2. CASE operation'[o].status # "failed"
        <5>1. running' = o /\ operation'[o].results = 0 /\ operation'[o].created = 0
          BY <2>1, <2>3, <4>2 DEF Untouched
        <5>2. o # None
          BY RowsAssumption
        <5>3. QED
          BY <1>3, <2>3, <3>1, <5>1, <5>2
             DEF TaskMoves, Commits, Pays, QuitsAside, QuitsCreating, QuitsUpdating, Quits,
                 Passes, Looks, Creates, Finishes, Reads, SetsTarget, Goes, RowKept, ProgressKept
      <4>3. QED
        BY <4>1, <4>2
    <3>4. QED
      BY <2>1, <2>3, <3>3 DEF Untouched
  <2>4. QED
    BY <2>2, <2>3
<1>4. QED
  BY <1>1, <1>2, <1>3 DEF Moves, Aside, Arrives, TaskKept

(* And what is being created is touched.                                   *)
LEMMA CreatingTouches ==
  ASSUME IInv, Moves, NEW o \in Operations, Untouched(o)', running = o, step = "create"
  PROVE  UNCHANGED <<remote, wire>> \/ \E call \in wire : Arrives(call)
<1>1. operation[o].inFlight # 0 /\ o # None /\ operation[o].status = "sending"
  BY TaskFacts
<1>2. ASSUME TaskMoves(o)
      PROVE  UNCHANGED <<remote, wire>>
  <2>1. CASE QuitsAside(o)
    BY <2>1 DEF QuitsAside, external
  <2>2. ASSUME NEW outcome, QuitsCreating(o, outcome)
        PROVE  UNCHANGED <<remote, wire>>
    <3>1. operation'[o].status = "failed"
      BY <1>1, <2>2 DEF QuitsCreating, Quits, Untouched
    <3>2. outcome = "rejected"
      BY <2>2, <3>1 DEF QuitsCreating
    <3>3. QED
      BY <2>2, <3>2 DEF QuitsCreating, PanelReceives
  <2>3. ~Creates(o)
    BY <1>1 DEF Creates, Goes, Untouched
  <2>4. QED
    BY <1>2, <2>1, <2>2, <2>3
       DEF TaskMoves, Commits, QuitsUpdating, Passes, Looks, Finishes, Reads, SetsTarget, Goes
<1>3. ASSUME NEW q \in Operations, TaskMoves(q)
      PROVE  q = o
  BY <1>3 DEF TaskMoves, Commits, QuitsAside, QuitsCreating, QuitsUpdating, Quits,
       Passes, Looks, Creates, Finishes, Reads, SetsTarget, Goes
<1>4. QED
  BY <1>1, <1>2, <1>3 DEF Moves, Aside, Buys, Parks, Starts, Cancels, Reconciles, external

(* Nothing is on a panel of an operation that is untouched.                *)
LEMMA NextCleanInv == IInv /\ StepInv /\ CleanInv /\ Moves => CleanInv'
<1>. SUFFICES ASSUME IInv, StepInv, CleanInv, Moves, NEW o \in Operations, Untouched(o)'
              PROVE  Clean(o)'
  BY DEF CleanInv
<1>1. Clean(o)
  BY UntouchedBefore DEF CleanInv
<1>2. CASE UNCHANGED <<remote, wire>>
  BY <1>1, <1>2 DEF Clean
<1>3. ASSUME NEW call \in PanelCall, Carries(call), call.marker \notin {o} \X Indexes
      PROVE  Clean(o)'
  <2>1. \A k \in Keys : remote'[k].marker = remote[k].marker \/ remote'[k].marker = call.marker
    BY <1>3, EffectRows DEF Carries, IInv
  <2>2. wire' \subseteq wire \union {call}
    BY <1>3 DEF Carries
  <2>3. QED
    BY <1>1, <1>3, <2>1, <2>2 DEF Clean
<1>4. ASSUME NEW call \in PanelCall, Carries(call), call \in wire
      PROVE  Clean(o)'
  BY <1>1, <1>3, <1>4 DEF Clean
<1>5. ASSUME NEW call \in PanelCall, Carries(call), NEW q \in Operations, MakesCall(q, call)
      PROVE  Clean(o)'
  <2>1. CASE call.marker \notin {o} \X Indexes
    BY <1>3, <1>5, <2>1
  <2>2. CASE call.marker \in {o} \X Indexes
    <3>1. None \notin {o} \X Indexes
      BY RowsAssumption DEF Accounts
    <3>2. step = "create" /\ call.marker = <<q, operation[q].inFlight>>
      BY <1>5, <2>2, <3>1 DEF MakesCall, UpdateCall, CreateCall
    <3>3. q = o /\ running = o
      BY <1>5, <2>2, <3>2 DEF MakesCall
    <3>4. CASE \E other \in wire : Arrives(other)
      <4>1. PICK other \in wire : Arrives(other)
        BY <3>4
      <4>2. other \in PanelCall /\ Carries(other)
        BY <4>1, ArrivesCarries
      <4>3. QED
        BY <1>4, <4>2
    <3>5. QED
      BY <1>2, <3>2, <3>3, <3>4, CreatingTouches
  <2>3. QED
    BY <2>1, <2>2
<1>6. QED
  BY <1>2, <1>4, <1>5, MovesExternal

-----------------------------------------------------------------------------
(* How often a panel is called *)

(* The account the running task makes a call for.                          *)
CalledFor(o, i) ==
  /\ running = o
  /\ \/ step = "create" /\ i = operation[o].inFlight
     \/ step = "update" /\ i = 1
(* The number of calls for an account grows by those made for it.          *)
LEMMA MovesCalls ==
  ASSUME IInv, Moves, NEW o \in Operations, NEW i \in Indexes
  PROVE  \/ calls'[<<o, i>>] = calls[<<o, i>>]
         \/ CalledFor(o, i) /\ calls'[<<o, i>>] = calls[<<o, i>>] + 1
<1>1. <<o, i>> \in Accounts /\ calls \in [Accounts -> Nat]
  BY AccountsType DEF IInv, TypeOK
<1>2. ASSUME NEW q, NEW j, CalledFor(q, j), NEW call, NEW outcome,
             PanelReceives(<<q, j>>, call, outcome)
      PROVE  \/ calls'[<<o, i>>] = calls[<<o, i>>]
             \/ CalledFor(o, i) /\ calls'[<<o, i>>] = calls[<<o, i>>] + 1
  <2>1. calls' = calls \/ calls' = [calls EXCEPT ![<<q, j>>] = @ + 1]
    BY <1>2 DEF PanelReceives
  <2>2. CASE q = o /\ j = i
    BY <1>1, <1>2, <2>1, <2>2
  <2>3. CASE <<q, j>> # <<o, i>>
    BY <1>1, <2>1, <2>3
  <2>4. QED
    BY <2>2, <2>3
<1>3. ASSUME NEW q \in Operations, TaskMoves(q)
      PROVE  \/ calls'[<<o, i>>] = calls[<<o, i>>]
             \/ CalledFor(o, i) /\ calls'[<<o, i>>] = calls[<<o, i>>] + 1
  <2>1. ASSUME NEW outcome, QuitsCreating(q, outcome)
        PROVE  \E j, call : CalledFor(q, j) /\ PanelReceives(<<q, j>>, call, outcome)
    BY <2>1 DEF QuitsCreating, Quits, CalledFor
  <2>2. ASSUME NEW outcome, QuitsUpdating(q, outcome)
        PROVE  \E j, call : CalledFor(q, j) /\ PanelReceives(<<q, j>>, call, outcome)
    BY <2>2 DEF QuitsUpdating, Quits, CalledFor
  <2>3. ASSUME Creates(q)
        PROVE  \E j, call : CalledFor(q, j) /\ PanelReceives(<<q, j>>, call, "ok")
    BY <2>3 DEF Creates, Goes, CalledFor
  <2>4. ASSUME SetsTarget(q)
        PROVE  \E j, call : CalledFor(q, j) /\ PanelReceives(<<q, j>>, call, "ok")
    BY <2>4 DEF SetsTarget, Goes, CalledFor
  <2>5. \/ UNCHANGED calls
        \/ \E j, call, outcome : CalledFor(q, j) /\ PanelReceives(<<q, j>>, call, outcome)
    BY <1>3, <2>1, <2>2, <2>3, <2>4
       DEF TaskMoves, Commits, Pays, QuitsAside, Passes, Looks, Finishes, Reads, external
  <2>6. QED
    BY <1>2, <2>5
<1>4. QED
  BY <1>3 DEF Moves, Aside, Buys, Parks, Starts, Cancels, Reconciles, Pays, Arrives, external

(* An operation whose task runs after a step was started by it, or was     *)
(* running: then the task went on, or the step was of something else.      *)
LEMMA TaskGoesOn ==
  ASSUME Moves, NEW o \in Operations, o # None, running' = o
  PROVE  \/ Starts(o) \/ TaskMoves(o)
         \/ (running = o /\ (Aside \/ \E call \in wire : Arrives(call)))
<1>1. CASE Aside \/ \E call \in wire : Arrives(call)
  BY <1>1 DEF Aside, Arrives, TaskKept
<1>2. ASSUME NEW q \in Operations, Buys(q) \/ Parks(q) \/ Cancels(q) \/ Reconciles(q)
      PROVE  FALSE
  BY <1>2 DEF Buys, Parks, Cancels, Reconciles, Pays, TaskKept
<1>3. ASSUME NEW q \in Operations, Starts(q)
      PROVE  q = o
  BY <1>3 DEF Starts
<1>4. ASSUME NEW q \in Operations, TaskMoves(q)
      PROVE  q = o
  BY <1>4 DEF TaskMoves, Commits, Pays, QuitsAside, QuitsCreating, QuitsUpdating, Quits,
     Passes, Looks, Creates, Finishes, Reads, SetsTarget, Goes
<1>5. QED
  BY <1>1, <1>2, <1>3, <1>4 DEF Moves

(* Then its row is of one being sent, as it was or on its way.             *)
LEMMA TaskWasOpen ==
  ASSUME IInv, Moves, NEW o \in Operations, o # None, running' = o
  PROVE  operation[o].status \notin {"none", "done", "failed"}
<1>1. CASE Starts(o)
  BY <1>1 DEF Starts
<1>2. ASSUME running = o
      PROVE  operation[o].status \notin {"none", "done", "failed"}
  BY <1>2 DEF IInv, TaskInv
<1>3. CASE TaskMoves(o)
  <2>1. running = o
    BY <1>3 DEF TaskMoves, Commits, QuitsAside, QuitsCreating, QuitsUpdating, Quits,
       Passes, Looks, Creates, Finishes, Reads, SetsTarget, Goes
  <2>2. QED
    BY <1>2, <2>1
<1>4. QED
  BY <1>1, <1>2, <1>3, TaskGoesOn

(* The account a call is made for had none.                                *)
LEMMA CalledOnce ==
  ASSUME IInv, StepInv, NEW o \in Operations, NEW i \in Indexes, CalledFor(o, i)
  PROVE  Uncalled(o, i)
<1>1. operation[o].results \in Int /\ o # None
  BY TaskFacts DEF CalledFor, OperationRow, MaxQuantity
<1>2. QED
  BY <1>1 DEF CalledFor, StepInv, Uncalled

(* An account without a call had none before, and gets none in this step.  *)
LEMMA UncalledBefore ==
  ASSUME IInv, StepInv, Moves, NEW o \in Operations, NEW i \in Indexes, Uncalled(o, i)'
  PROVE  Uncalled(o, i) /\ (~CalledFor(o, i) \/ UNCHANGED calls)
<1>1. /\ o # None /\ i \in Int
      /\ running = o => /\ operation[o].status = "sending" /\ operation[o].results \in Int
                        /\ operation[o].inFlight \in Int
                        /\ step \in {"create", "finish"} =>
                             operation[o].inFlight = operation[o].results + 1
  BY RowsAssumption, TaskFacts DEF Indexes, MaxQuantity, OperationRow, StepInv
<1>2. CASE operation'[o].status \in {"none", "queued"}
  <2>1. operation[o].status \in {"none", "queued"}
    BY <1>2, MovesRows DEF RowMoves, Rest, Buys
  <2>2. QED
    BY <1>1, <2>1 DEF Uncalled, CalledFor
<1>3. CASE running' = o /\ operation'[o].status \notin {"none", "queued"}
  <2>1. CASE Starts(o)
    BY <1>1, <1>3, <2>1 DEF Starts, Uncalled, CalledFor
  <2>2. CASE TaskMoves(o)
    <3>1. CASE Passes(o) \/ Creates(o) \/ SetsTarget(o)
      BY <1>1, <1>3, <2>2, <3>1
         DEF Passes, Creates, SetsTarget, Goes, Uncalled, CalledFor
    <3>2. CASE Looks(o)
      BY <1>1, <1>3, <3>2 DEF Looks, Goes, Uncalled, CalledFor
    <3>3. CASE Finishes(o)
      BY <1>1, <1>3, <3>3 DEF Finishes, Goes, Uncalled, CalledFor
    <3>4. CASE Reads(o)
      BY <1>1, <1>3, <3>4 DEF Reads, Goes, Uncalled, CalledFor
    <3>5. QED
      BY <1>1, <1>3, <2>2, <3>1, <3>2, <3>3, <3>4
         DEF TaskMoves, Commits, Pays, QuitsAside, QuitsCreating, QuitsUpdating, Quits
  <2>3. CASE Aside \/ \E call \in wire : Arrives(call)
    <3>1. UNCHANGED <<operation, running, step, calls>>
      BY <2>3 DEF Arrives, Aside, TaskKept, external
    <3>2. QED
      BY <3>1 DEF Uncalled
  <2>4. QED
    BY <1>1, <1>3, <2>1, <2>2, <2>3, TaskGoesOn
<1>4. QED
  BY <1>2, <1>3 DEF Uncalled

(* Every step keeps the bound on calls.                                    *)
LEMMA NextCallsInv == IInv /\ StepInv /\ CallsInv /\ Moves => CallsInv'
<1>. SUFFICES ASSUME IInv, StepInv, CallsInv, Moves, NEW o \in Operations, NEW i \in Indexes
              PROVE  /\ calls'[<<o, i>>] <= 1
                     /\ Uncalled(o, i)' => calls'[<<o, i>>] = 0
  BY DEF CallsInv
<1>1. calls[<<o, i>>] <= 1 /\ (Uncalled(o, i) => calls[<<o, i>>] = 0)
  BY DEF CallsInv
<1>2. CASE calls'[<<o, i>>] = calls[<<o, i>>]
  BY <1>1, <1>2, UncalledBefore
<1>3. CASE CalledFor(o, i) /\ calls'[<<o, i>>] = calls[<<o, i>>] + 1
  <2>1. calls[<<o, i>>] = 0
    BY <1>1, <1>3, CalledOnce
  <2>2. calls' # calls
    BY <1>3, <2>1
  <2>3. ~Uncalled(o, i)'
    BY <1>3, <2>2, UncalledBefore
  <2>4. QED
    BY <1>3, <2>1, <2>3
<1>4. QED
  BY <1>2, <1>3, MovesCalls

-----------------------------------------------------------------------------
(* The accounts that were created and sold *)

(* An account that is on its panel stays there.                            *)
LEMMA MarkedStays ==
  ASSUME IInv, MarkersStay, TermsKept,
         NEW a \in Accounts, quote[a[1]] # None, Marked(a)
  PROVE  Marked(a)'
<1>1. RemoteKey(a) \in Keys /\ a # None
  BY KeyType, RowsAssumption DEF IInv
<1>2. RemoteKey(a)' = RemoteKey(a)
  BY KeyFix DEF Accounts
<1>3. QED
  BY <1>1, <1>2 DEF Marked, MarkersStay

(* The account the running task creates is on its panel afterwards.        *)
LEMMA CreatesMarks ==
  ASSUME IInv, TermsKept, NEW o \in Operations, Creates(o), NEW n, n = operation[o].inFlight
  PROVE  Marked(<<o, n>>)'
<1>1. running = o /\ step = "create"
  BY DEF Creates, Goes
<1>2. PICK a \in Accounts : a = <<o, n>>
  BY <1>1, CallTypes
<1>3. CreateCall(o) \in PanelCall /\ quote[a[1]] # None /\ a[1] \in Operations
  BY <1>1, <1>2, CallTypes, TaskFacts
<1>4. CreateCall(o).marker = a /\ CreateCall(o).key = RemoteKey(a) /\ a # None
  BY <1>2, RowsAssumption DEF CreateCall
<1>5. RemoteKey(a) \in Keys /\ RemoteKey(a)' = RemoteKey(a)
  BY <1>3, KeyType, KeyFix DEF IInv
<1>6. remote' = Effect(CreateCall(o)) /\ remote[RemoteKey(a)] = NoAccount
  BY <1>4 DEF Creates, PanelReceives
<1>7. remote'[RemoteKey(a)].marker = a
  BY <1>3, <1>4, <1>5, <1>6, EffectRows DEF IInv
<1>8. QED
  BY <1>2, <1>5, <1>7 DEF Marked

(* What the running task has created is on the panel.                      *)
LEMMA NextMadeInv ==
  IInv /\ StepInv /\ FreshInv /\ MadeInv /\ Moves /\ TermsKept /\ MarkersStay => MadeInv'
<1>. SUFFICES ASSUME IInv, StepInv, FreshInv, MadeInv, Moves, TermsKept, MarkersStay
              PROVE  MadeInv'
  OBVIOUS
<1>1. SUFFICES ASSUME NEW o \in Operations, o # None, running' = o, NEW i \in Indexes,
                      Type(o)' # "stock", Target(o)' = None,
                      \/ i <= operation'[o].results
                      \/ step' = "finish" /\ i = operation'[o].inFlight
               PROVE  Marked(<<o, i>>)'
  <2>1. CASE running' = None
    BY <2>1 DEF MadeInv
  <2>2. CASE running' # None
    <3>1. PICK o : o = running'
      OBVIOUS
    <3>2. o \in Operations /\ o # None
      <4>1. CASE running = None
        BY <2>2, <3>1, <4>1 DEF Moves, Aside, Buys, Parks, Starts, Cancels, Reconciles, Pays,
           TaskKept, Arrives, TaskMoves, Commits, QuitsAside, QuitsCreating, QuitsUpdating, Quits,
           Passes, Looks, Creates, Finishes, Reads, SetsTarget, Goes
      <4>2. CASE running # None
        BY <2>2, <3>1, <4>2 DEF Moves, Aside, Buys, Parks, Starts, Cancels, Reconciles, Pays,
           TaskKept, Arrives, TaskMoves, Commits, QuitsAside, QuitsCreating, QuitsUpdating, Quits,
           Passes, Looks, Creates, Finishes, Reads, SetsTarget, Goes, IInv, TypeOK
      <4>3. QED
        BY <4>1, <4>2
    <3>3. QED
      BY <1>1, <3>1, <3>2 DEF MadeInv, Type, Panel, Offer, Target
  <2>3. QED
    BY <2>1, <2>2
<1>2. <<o, i>> \in Accounts /\ i \in Int /\ i > 0
  <2>1. i \in Int /\ i > 0
    BY DEF Indexes, MaxQuantity
  <2>2. QED
    BY <2>1, AccountsType
<1>3. ASSUME quote[o] # None, Marked(<<o, i>>)
      PROVE  Marked(<<o, i>>)'
  <2>1. PICK a \in Accounts : a = <<o, i>>
    BY <1>2
  <2>2. Marked(a)'
    BY <1>3, <2>1, MarkedStays
  <2>3. QED
    BY <2>1, <2>2
<1>4. ASSUME running = o, \/ i <= operation[o].results
                          \/ step = "finish" /\ i = operation[o].inFlight
      PROVE  Marked(<<o, i>>)'
  <2>1. quote[o] # None
    BY <1>4, TaskFacts
  <2>2. Type(o) # "stock" /\ Target(o) = None
    BY <1>1, <2>1, TermsFix
  <2>3. QED
    BY <1>1, <1>3, <1>4, <2>1, <2>2 DEF MadeInv
<1>5. CASE Aside \/ \E call \in wire : Arrives(call)
  BY <1>1, <1>4, <1>5 DEF Aside, Arrives, TaskKept
<1>6. CASE Starts(o)
  BY <1>1, <1>2, <1>6 DEF Starts, RowKept, ProgressKept, FreshInv
<1>7. CASE TaskMoves(o)
  <2>1. running = o
    BY <1>7 DEF TaskMoves, Commits, QuitsAside, QuitsCreating, QuitsUpdating, Quits,
         Passes, Looks, Creates, Finishes, Reads, SetsTarget, Goes
  <2>2. /\ operation[o].results \in Int /\ operation[o].inFlight \in Int
        /\ step = "finish" => operation[o].inFlight = operation[o].results + 1
    BY <1>1, <2>1, TaskFacts DEF OperationRow, MaxQuantity, StepInv
  <2>3. CASE Passes(o) \/ Looks(o) \/ Reads(o) \/ SetsTarget(o)
    BY <1>1, <1>4, <2>1, <2>3
       DEF Passes, Looks, Reads, SetsTarget, Goes, RowKept, ProgressKept
  <2>4. CASE Creates(o)
    <3>1. CASE i <= operation[o].results
      BY <1>4, <2>1, <3>1
    <3>2. CASE i = operation[o].inFlight
      BY <2>4, <3>2, CreatesMarks
    <3>3. QED
      BY <1>1, <2>4, <3>1, <3>2 DEF Creates
  <2>5. CASE Finishes(o)
    BY <1>1, <1>2, <1>4, <2>1, <2>2, <2>5 DEF Finishes, Goes
  <2>6. QED
    BY <1>1, <1>7, <2>3, <2>4, <2>5
       DEF TaskMoves, Commits, Pays, QuitsAside, QuitsCreating, QuitsUpdating, Quits
<1>8. QED
  BY <1>1, <1>5, <1>6, <1>7, TaskGoesOn

(* What is sold is on its panel.                                           *)
LEMMA SoldIsMade ==
  ASSUME IInv, StepInv, MadeInv, NEW o \in Operations, Sells(o), operation[o].status \in Open,
         Type(o) # "stock", NEW a \in AccountsOf(o)
  PROVE  Marked(a)
<1>1. quote[o] # None /\ Quantity(o) \in Indexes
  BY Quoted, OfferType DEF Open, IInv
<1>2. PICK i \in Indexes : a = <<o, i>> /\ i <= Quantity(o)
  BY <1>1 DEF AccountsOf, Indexes, MaxQuantity
<1>3. CASE running = o /\ step = "commit"
  BY <1>2, <1>3, TaskFacts DEF Sells, StepInv, MadeInv
<1>4. CASE Confirmed(o)
  <2>1. quote[o].service = None
    BY DEF Sells, Target
  <2>2. remote[RemoteKey(a)] = [marker |-> a, level |-> 1]
    BY <1>4, <2>1 DEF Confirmed
  <2>3. QED
    BY <2>2 DEF Marked
<1>5. QED
  BY <1>3, <1>4 DEF Sells

(* An account that was sold stays on its panel.                            *)
LEMMA NextSoldInv ==
  IInv /\ StepInv /\ MadeInv /\ SoldInv /\ Moves /\ TermsKept /\ MarkersStay => SoldInv'
<1>. SUFFICES ASSUME IInv, StepInv, MadeInv, SoldInv, Moves, TermsKept, MarkersStay,
                     NEW a \in Accounts, service'[a] # None, Type(a[1])' # "stock"
              PROVE  Marked(a)'
  BY DEF SoldInv
<1>1. CASE service[a] # None
  <2>1. a[1] \in Operations /\ quote[a[1]] # None
    BY <1>1 DEF IInv, QuoteInv, Accounts
  <2>2. Type(a[1])' = Type(a[1])
    BY <2>1, TermsFix
  <2>3. QED
    BY <1>1, <2>1, <2>2, MarkedStays DEF SoldInv
<1>2. CASE service[a] = None
  <2>1. PICK o \in Operations : Sells(o) /\ operation[o].status \in Open
    BY <1>2, MovesServices
  <2>2. a \in AccountsOf(o) /\ a[1] = o
    BY <1>2, <2>1 DEF Sells, Pays, AccountsOf
  <2>3. quote[o] # None
    BY <2>1, Quoted DEF Open
  <2>4. Type(o)' = Type(o) /\ Type(a[1])' = Type(o)'
    BY <2>2, <2>3, TermsFix DEF Type, Panel, Offer
  <2>5. QED
    BY <2>1, <2>2, <2>3, <2>4, SoldIsMade, MarkedStays
<1>3. QED
  BY <1>1, <1>2

-----------------------------------------------------------------------------
(* Renewals and their late updates *)

(* A service that was overtaken stays so.                                  *)
LEMMA TaintedStays ==
  ASSUME IInv, RowsKept, TermsKept, NEW s, Tainted(s)
  PROVE  Tainted(s)'
<1>1. PICK p \in Operations :
        operation[p].status = "failed" /\ operation[p].dispatched /\ Target(p) = s
  BY DEF Tainted
<1>2. operation'[p] = operation[p]
  BY <1>1 DEF RowsKept, Ended
<1>3. Target(p)' = Target(p)
  BY <1>1, Quoted, TermsFix
<1>4. QED
  BY <1>1, <1>2, <1>3 DEF Tainted

(* The service a renewal renews was sold, and is on its panel.             *)
LEMMA RenewedIsSold ==
  ASSUME IInv, TargetInv, SoldInv, NEW p \in Operations,
         quote[p] # None, Target(p) # None, Type(p) # "stock"
  PROVE  /\ Target(p) \in Accounts /\ Target(p)[1] \in Operations /\ quote[Target(p)[1]] # None
         /\ RemoteKey(Target(p)) \in Keys /\ Marked(Target(p))
<1>1. PICK s : s = Target(p)
  OBVIOUS
<1>2. s \in Accounts /\ s[1] \in Operations
  BY <1>1 DEF IInv, TypeOK, QuoteRow, Target, Accounts
<1>3. service[s] # None /\ Panel(s[1]) = Panel(p)
  BY <1>1 DEF TargetInv
<1>4. quote[s[1]] # None
  BY <1>2, <1>3 DEF IInv, QuoteInv
<1>5. Marked(s)
  BY <1>2, <1>3 DEF SoldInv, Type
<1>6. RemoteKey(s) \in Keys
  BY <1>2, <1>4, KeyType DEF IInv
<1>7. QED
  BY <1>1, <1>2, <1>4, <1>5, <1>6

(* An update, late or just made, is of the renewal that made it.           *)
LEMMA UpdateIsOf ==
  ASSUME IInv, StepInv, LateInv, NEW call \in PanelCall, call.marker = None,
         call \in wire \/ \E o \in Operations : MakesCall(o, call)
  PROVE  /\ call.by \in Operations /\ LateOf(call, call.by)
         /\ call \in wire \/ (running = call.by /\ call = UpdateCall(call.by))
<1>1. CASE call \in wire
  BY <1>1 DEF LateInv, PanelCall
<1>2. ASSUME NEW o \in Operations, MakesCall(o, call)
      PROVE  call.by = o /\ LateOf(call, o) /\ running = o /\ call = UpdateCall(o)
  <2>1. running = o
    BY <1>2 DEF MakesCall
  <2>2. ~(step = "create" /\ call = CreateCall(o))
    <3>1. step = "create" => CreateCall(o).marker # None
      BY <2>1, CallTypes, RowsAssumption DEF CreateCall
    <3>2. QED
      BY <3>1
  <2>3. step = "update" /\ call = UpdateCall(o)
    BY <1>2, <2>2 DEF MakesCall
  <2>4. call.by = o /\ call.key = RemoteKey(Target(o)) /\ call.level = operation[o].desired
    BY <2>3 DEF UpdateCall, Target
  <2>5. quote[o] # None /\ Target(o) # None /\ o # None
    BY <2>1, <2>3, TaskFacts, RowsAssumption DEF Target
  <2>6. QED
    BY <2>1, <2>3, <2>4, <2>5 DEF LateOf, StepInv
<1>3. QED
  BY <1>1, <1>2

(* Only an update of the same service changes an account that was sold.    *)
LEMMA LevelStays ==
  ASSUME IInv, StepInv, TargetInv, SoldInv, LateInv,
         NEW call \in PanelCall, Carries(call),
         call \in wire \/ \E o \in Operations : MakesCall(o, call),
         NEW s \in Accounts, RemoteKey(s) \in Keys, Marked(s),
         call.marker = None => Target(call.by) # s
  PROVE  remote'[RemoteKey(s)] = remote[RemoteKey(s)]
<1>1. s # None /\ remote[RemoteKey(s)].marker = s
  BY RowsAssumption DEF Marked
<1>2. CASE call.marker # None
  BY <1>1, <1>2, EffectRows DEF Carries, IInv
<1>3. CASE call.marker = None
  <2>1. call.by \in Operations /\ LateOf(call, call.by)
    BY <1>3, UpdateIsOf
  <2>2. PICK t : t = Target(call.by)
    OBVIOUS
  <2>3. Marked(t) /\ call.key = RemoteKey(t)
    BY <2>1, <2>2, RenewedIsSold DEF LateOf
  <2>4. call.key # RemoteKey(s)
    BY <1>1, <1>3, <2>2, <2>3 DEF Marked
  <2>5. QED
    BY <2>4, EffectRows DEF Carries, IInv
<1>4. QED
  BY <1>2, <1>3

(* Two open renewals of one service are one.                               *)
LEMMA RenewalsAreOne ==
  ASSUME TargetInv, NEW p \in Operations, NEW q \in Operations,
         operation[p].status \in Open, operation[q].status \in Open,
         Target(p) # None, Target(q) = Target(p)
  PROVE  q = p
BY DEF TargetInv

(* A renewal the task does not work on keeps its target.                   *)
LEMMA RenewalStays ==
  ASSUME IInv, Moves, NEW p \in Operations, running # p,
         operation[p].status \notin {"none", "queued"}
  PROVE  /\ RenewalKept(p) /\ running' # p
         /\ operation'[p].status \notin {"none", "queued"}
         /\ \/ operation'[p].status = operation[p].status
            \/ Parks(p) \/ Cancels(p) \/ Reconciles(p)
<1>1. p # None
  BY RowsAssumption
<1>2. ASSUME NEW q \in Operations, Buys(q) \/ Parks(q) \/ Starts(q) \/ Cancels(q) \/ Reconciles(q)
      PROVE  /\ RenewalKept(p) /\ running' # p
             /\ operation'[p].status \notin {"none", "queued"}
             /\ \/ operation'[p].status = operation[p].status
                \/ Parks(p) \/ Cancels(p) \/ Reconciles(p)
  <2>1. CASE q = p
    BY <1>1, <1>2, <2>1 DEF Buys, Parks, Starts, Cancels, Reconciles, Pays, TaskKept, RowKept
  <2>2. CASE q # p
    BY <1>1, <1>2, <2>2 DEF Buys, Parks, Starts, Cancels, Reconciles, Pays, TaskKept, Rest, RenewalKept
  <2>3. QED
    BY <2>1, <2>2
<1>3. ASSUME NEW q \in Operations, TaskMoves(q)
      PROVE  operation'[p] = operation[p] /\ running' # p
  BY <1>1, <1>3
     DEF TaskMoves, Commits, Pays, QuitsAside, QuitsCreating, QuitsUpdating, Quits, Rest,
         Passes, Looks, Creates, Finishes, Reads, SetsTarget, Goes
<1>4. ASSUME UNCHANGED operation, TaskKept
      PROVE  operation'[p] = operation[p] /\ running' # p
  BY <1>4 DEF TaskKept
<1>5. QED
  BY <1>2, <1>3, <1>4 DEF Moves, Aside, Arrives, RenewalKept

(* An update is given up on when the task quits updating.                  *)
LEMMA NewUpdate ==
  ASSUME IInv, Moves, NEW call \in wire', call \notin wire, call.marker = None
  PROVE  \E o \in Operations : QuitsUpdating(o, "late") /\ call = UpdateCall(o)
<1>1. ASSUME NEW o \in Operations, TaskMoves(o)
      PROVE  QuitsUpdating(o, "late") /\ call = UpdateCall(o)
  <2>1. ASSUME NEW outcome, QuitsCreating(o, outcome)
        PROVE  FALSE
    <3>1. running = o /\ step = "create"
      BY <2>1 DEF QuitsCreating, Quits
    <3>2. CreateCall(o).marker # None
      BY <3>1, CallTypes, RowsAssumption DEF CreateCall
    <3>3. QED
      BY <2>1, <3>2 DEF QuitsCreating, PanelReceives
  <2>2. ASSUME NEW outcome, QuitsUpdating(o, outcome)
        PROVE  outcome = "late" /\ call = UpdateCall(o)
    BY <2>2 DEF QuitsUpdating, PanelReceives
  <2>3. QED
    BY <1>1, <2>1, <2>2
       DEF TaskMoves, Commits, Pays, QuitsAside, Passes, Looks, Creates, Finishes, Reads,
           SetsTarget, PanelReceives, external
<1>2. QED
  BY <1>1 DEF Moves, Aside, Buys, Parks, Starts, Cancels, Reconciles, Pays, Arrives, external

(* A late update that stays late is still of an open renewal, and the      *)
(* account is as that renewal found it, unless the service is overtaken.   *)
LEMMA OldLateStays ==
  ASSUME IInv, StepInv, TargetInv, SoldInv, LateInv, Moves, TermsKept, RowsKept,
         NEW call \in wire, call \in wire', call.marker = None
  PROVE  LateOf(call, call.by)' /\ StillLate(call.by)'
<1>1. PICK p \in Operations : p = call.by
  BY DEF IInv, TypeOK, PanelCall
<1>2. call \in PanelCall /\ LateOf(call, p) /\ StillLate(p)
  BY <1>1 DEF IInv, TypeOK, LateInv
<1>3. running # p /\ operation[p].status \notin {"none", "queued"}
  <2>1. call \in Updates(p)
    BY <1>1 DEF Updates
  <2>2. QED
    BY <2>1 DEF LateInv
<1>4. RenewalKept(p)
  BY <1>3, RenewalStays
<1>5. PICK s : s = Target(p) /\ Target(p)' = s
  BY <1>2, TermsFix DEF LateOf
<1>6. /\ s \in Accounts /\ s # None /\ RemoteKey(s) \in Keys /\ Marked(s)
      /\ RemoteKey(s)' = RemoteKey(s)
  BY <1>2, <1>5, RenewedIsSold, KeyFix DEF LateOf
<1>7. LateOf(call, p)'
  BY <1>2, <1>4, <1>5, <1>6, TermsFix DEF LateOf, RenewalKept
<1>8. ASSUME ~Tainted(s)'
      PROVE  /\ operation'[p].status \in Open
             /\ remote'[RemoteKey(s)].level = operation'[p].before
             /\ operation'[p].desired = operation'[p].before + 1
  <2>1. ~Tainted(s)
    BY <1>8, TaintedStays
  <2>2. /\ operation[p].status \in Open
        /\ remote[RemoteKey(s)].level = operation[p].before
        /\ operation[p].desired = operation[p].before + 1
    BY <1>2, <1>5, <2>1 DEF StillLate
  <2>3. operation[p] \in OperationRow
    BY DEF IInv, TypeOK
  <2>4. operation'[p].status \in Open
    <3>1. ~Cancels(p)
      BY <1>2, <1>4, <1>5, <1>8 DEF Cancels, Tainted, LateOf, RenewalKept
    <3>2. ~Reconciles(p)
      BY <1>5, <1>6, <2>2, <2>3 DEF Reconciles, Confirmed, Target, OperationRow
    <3>3. QED
      BY <1>3, <2>2, <3>1, <3>2, RenewalStays DEF Parks, Open
  <2>5. remote'[RemoteKey(s)] = remote[RemoteKey(s)]
    <3>1. CASE UNCHANGED <<remote, wire>>
      BY <3>1
    <3>2. ASSUME NEW other \in PanelCall, Carries(other),
                 other \in wire \/ \E o \in Operations : MakesCall(o, other),
                 other # call
          PROVE  remote'[RemoteKey(s)] = remote[RemoteKey(s)]
      <4>1. other.marker = None => Target(other.by) # s
        <5>1. SUFFICES ASSUME other.marker = None, Target(other.by) = s PROVE FALSE
          OBVIOUS
        <5>2. PICK q \in Operations : q = other.by /\ LateOf(other, q)
          BY <3>2, <5>1, UpdateIsOf
        <5>3. operation[q].status \in Open
          <6>1. CASE other \in wire
            BY <2>1, <5>1, <5>2, <6>1 DEF LateInv, StillLate
          <6>2. CASE running = q
            BY <6>2, TaskFacts DEF Open
          <6>3. QED
            BY <3>2, <5>1, <5>2, <6>1, <6>2, UpdateIsOf
        <5>4. q = p
          BY <1>5, <1>6, <2>2, <5>1, <5>2, <5>3, RenewalsAreOne
        <5>5. other = call
          <6>1. /\ other.key = call.key /\ other.level = call.level
                /\ other.marker = call.marker /\ other.by = call.by
            BY <1>1, <1>2, <5>1, <5>2, <5>4 DEF LateOf
          <6>2. QED
            BY <1>2, <3>2, <6>1 DEF PanelCall
        <5>6. QED
          BY <3>2, <5>5
      <4>2. QED
        BY <1>6, <3>2, <4>1, LevelStays
    <3>3. CASE \E other \in wire : Arrives(other)
      <4>1. PICK other \in wire : Arrives(other)
        BY <3>3
      <4>2. other \in PanelCall /\ Carries(other) /\ other # call
        BY <4>1, ArrivesCarries DEF Arrives
      <4>3. QED
        BY <3>2, <4>1, <4>2
    <3>4. CASE \E o \in Operations, other \in PanelCall : Carries(other) /\ MakesCall(o, other)
      <4>1. PICK o \in Operations, other \in PanelCall : Carries(other) /\ MakesCall(o, other)
        BY <3>4
      <4>2. CASE other # call
        BY <3>2, <4>1, <4>2
      <4>3. CASE other = call
        <5>1. running = o /\ (other = CreateCall(o) \/ other = UpdateCall(o))
          BY <4>1 DEF MakesCall
        <5>2. other.by = o
          BY <5>1 DEF CreateCall, UpdateCall
        <5>3. QED
          BY <1>1, <1>3, <4>3, <5>1, <5>2
      <4>4. QED
        BY <4>2, <4>3
    <3>5. QED
      BY <3>1, <3>3, <3>4, MovesCarry
  <2>6. QED
    BY <1>4, <2>2, <2>4, <2>5 DEF RenewalKept
<1>9. StillLate(p)'
  BY <1>5, <1>6, <1>8 DEF StillLate
<1>10. QED
  BY <1>1, <1>7, <1>9

(* An update the task has just given up on is of the renewal it quits.     *)
LEMMA NewLateHolds ==
  ASSUME IInv, StepInv, TargetInv, SoldInv, RenewInv, TermsKept, RowsKept,
         NEW p \in Operations, QuitsUpdating(p, "late"),
         NEW call, call = UpdateCall(p)
  PROVE  LateOf(call, p)' /\ StillLate(p)'
<1>1. running = p /\ step = "update" /\ p # None /\ quote[p] # None /\ Target(p) # None
  BY TaskFacts, RowsAssumption DEF QuitsUpdating, Quits, Target
<1>2. Type(p) # "stock" /\ operation[p].dispatched
  BY <1>1 DEF StepInv
<1>3. RenewalKept(p) /\ operation'[p].status \in Open
  BY <1>2 DEF QuitsUpdating, Quits, RowKept, Open
<1>4. PICK s : s = Target(p) /\ Target(p)' = s
  BY <1>1, TermsFix
<1>5. RemoteKey(s)' = RemoteKey(s)
  BY <1>1, <1>2, <1>4, RenewedIsSold, KeyFix
<1>6. LateOf(call, p)'
  BY <1>1, <1>2, <1>3, <1>4, <1>5, TermsFix DEF LateOf, UpdateCall, Target, RenewalKept
<1>7. ASSUME ~Tainted(s)'
      PROVE  /\ remote'[RemoteKey(s)].level = operation'[p].before
             /\ operation'[p].desired = operation'[p].before + 1
  <2>1. ~Tainted(s)
    BY <1>7, TaintedStays
  <2>2. remote[RemoteKey(s)].level = operation[p].before /\ operation[p].desired = operation[p].before + 1
    BY <1>1, <1>2, <1>4, <2>1 DEF RenewInv
  <2>3. remote' = remote
    BY DEF QuitsUpdating, PanelReceives
  <2>4. QED
    BY <1>3, <2>2, <2>3 DEF RenewalKept
<1>8. QED
  BY <1>3, <1>4, <1>5, <1>6, <1>7 DEF StillLate

(* Every step keeps what late calls may still do.                          *)
LEMMA NextLateInv ==
  IInv /\ IInv' /\ StepInv /\ TargetInv /\ SoldInv /\ LateInv /\ RenewInv /\ Moves /\ TermsKept /\ RowsKept
    => LateInv'
<1>. SUFFICES ASSUME IInv, IInv', StepInv, TargetInv, SoldInv, LateInv, RenewInv, Moves, TermsKept,
                     RowsKept
              PROVE  LateInv'
  OBVIOUS
<1>1. ASSUME NEW call \in wire', call.marker = None
      PROVE  LateOf(call, call.by)' /\ StillLate(call.by)'
  <2>1. CASE call \in wire
    BY <1>1, <2>1, OldLateStays
  <2>2. CASE call \notin wire
    <3>1. PICK p \in Operations : QuitsUpdating(p, "late") /\ call = UpdateCall(p)
      BY <1>1, <2>2, NewUpdate
    <3>2. call.by = p
      BY <3>1 DEF UpdateCall
    <3>3. QED
      BY <3>1, <3>2, NewLateHolds
  <2>3. QED
    BY <2>1, <2>2
<1>2. ASSUME NEW o \in Operations, operation'[o].status \in {"none", "queued"} \/ running' = o,
             NEW call \in wire', call.marker = None, call.by = o
      PROVE  FALSE
  <2>1. CASE call \in wire
    <3>1. call \in Updates(o)
      BY <1>2, <2>1 DEF Updates
    <3>2. running # o /\ operation[o].status \notin {"none", "queued"}
      BY <3>1 DEF LateInv
    <3>3. QED
      BY <1>2, <3>2, RenewalStays
  <2>2. CASE call \notin wire
    <3>1. PICK p \in Operations : QuitsUpdating(p, "late") /\ call = UpdateCall(p)
      BY <1>2, <2>2, NewUpdate
    <3>2. o = p /\ o # None
      BY <1>2, <3>1, RowsAssumption DEF UpdateCall
    <3>3. step = "update" /\ running = o
      BY <3>1, <3>2 DEF QuitsUpdating, Quits
    <3>4. QED
      BY <1>2, <3>1, <3>2, <3>3 DEF QuitsUpdating, Quits, StepInv
  <2>3. QED
    BY <2>1, <2>2
<1>3. QED
  BY <1>1, <1>2 DEF LateInv, Updates

(* While the task renews a service, the account is as it read it, then at  *)
(* its target.                                                             *)
LEMMA NextRenewInv ==
  IInv /\ IInv' /\ StepInv /\ TargetInv /\ SoldInv /\ LateInv /\ RenewInv /\ Moves /\ TermsKept /\ RowsKept
    => RenewInv'
<1>. SUFFICES ASSUME IInv, IInv', StepInv, TargetInv, SoldInv, LateInv, RenewInv, Moves, TermsKept,
                     RowsKept
              PROVE  RenewInv'
  OBVIOUS
<1>. DEFINE Knows(s, p) ==
       LET op == operation[p]  level == remote[RemoteKey(s)].level IN
       /\ step = "update" => level = op.before /\ op.desired = op.before + 1
       /\ step \in {"confirm", "commit"} => level >= op.desired
<1>1. SUFFICES ASSUME NEW p \in Operations, p # None, running' = p,
                      NEW s, s = Target(p)', s # None, ~Tainted(s)', Type(p)' # "stock"
               PROVE  Knows(s, p)'
  <2>1. CASE running' = None
    BY <2>1 DEF RenewInv
  <2>2. CASE running' # None
    <3>1. PICK p \in Operations : p = running'
      BY <2>2 DEF IInv, TypeOK
    <3>2. PICK s : s = Target(p)'
      OBVIOUS
    <3>3. QED
      BY <1>1, <2>2, <3>1, <3>2 DEF RenewInv, Target, Type, Panel, Offer
  <2>3. QED
    BY <2>1, <2>2
<1>2. /\ quote[p] # None /\ Target(p) = s /\ Type(p) # "stock" /\ ~Tainted(s)
      /\ operation[p].status \in Open
  <2>1. operation[p].status \notin {"none", "done", "failed"}
    BY <1>1, TaskWasOpen
  <2>2. quote[p] # None
    BY <2>1, Quoted
  <2>3. operation[p] \in OperationRow
    BY DEF IInv, TypeOK
  <2>4. QED
    BY <1>1, <2>1, <2>2, <2>3, TermsFix, TaintedStays DEF OperationRow, Status
<1>3. /\ s \in Accounts /\ RemoteKey(s) \in Keys /\ Marked(s)
      /\ RemoteKey(s)' = RemoteKey(s)
  BY <1>1, <1>2, RenewedIsSold, KeyFix
<1>4. running = p => Knows(s, p)
  BY <1>1, <1>2 DEF RenewInv
<1>. HIDE DEF Knows
<1>5. ASSUME UNCHANGED <<operation, running, step>>, remote'[RemoteKey(s)] = remote[RemoteKey(s)]
      PROVE  Knows(s, p)'
  BY <1>1, <1>3, <1>4, <1>5 DEF Knows
<1>6. CASE Aside
  BY <1>5, <1>6 DEF Aside, TaskKept, external
<1>7. CASE \E call \in wire : Arrives(call)
  <2>1. PICK call \in wire : Arrives(call)
    BY <1>7
  <2>2. call \in PanelCall /\ Carries(call)
    BY <2>1, ArrivesCarries
  <2>3. call.marker = None => Target(call.by) # s
    <3>1. SUFFICES ASSUME call.marker = None, Target(call.by) = s PROVE FALSE
      OBVIOUS
    <3>2. call.by \in Operations /\ StillLate(call.by)
      BY <2>2, <3>1 DEF LateInv, PanelCall
    <3>3. operation[call.by].status \in Open
      BY <1>2, <3>1, <3>2 DEF StillLate
    <3>4. call.by = p
      BY <1>1, <1>2, <3>1, <3>2, <3>3, RenewalsAreOne
    <3>5. running = p
      BY <1>1, <2>1 DEF Arrives, TaskKept
    <3>6. call \in Updates(p)
      BY <3>1, <3>4 DEF Updates
    <3>7. QED
      BY <3>5, <3>6 DEF LateInv
  <2>4. remote'[RemoteKey(s)] = remote[RemoteKey(s)]
    BY <1>3, <2>2, <2>3, LevelStays
  <2>5. QED
    BY <1>5, <2>1, <2>4 DEF Arrives, TaskKept
<1>8. CASE Starts(p)
  BY <1>1, <1>2, <1>8, Quoted DEF Starts, Knows, Open
<1>9. CASE TaskMoves(p)
  <2>1. running = p
    BY <1>9 DEF TaskMoves, Commits, QuitsAside, QuitsCreating, QuitsUpdating, Quits,
         Passes, Looks, Creates, Finishes, Reads, SetsTarget, Goes
  <2>2. step \notin {"fill", "look", "create", "finish"}
    BY <1>1, <1>2, <2>1 DEF StepInv
  <2>3. CASE Passes(p)
    BY <1>3, <1>4, <2>1, <2>2, <2>3
       DEF Passes, Goes, RowKept, RenewalKept, external, Knows
  <2>4. CASE Reads(p)
    <3>1. step' = "update" /\ remote' = remote
      BY <2>4 DEF Reads, Goes, external
    <3>2. operation'[p].before = remote[RemoteKey(s)].level
          /\ operation'[p].desired = remote[RemoteKey(s)].level + 1
      BY <1>2, <2>4 DEF Reads
    <3>3. QED
      BY <1>3, <3>1, <3>2 DEF Knows
  <2>5. CASE SetsTarget(p)
    <3>1. step = "update" /\ step' = "confirm" /\ remote' = Effect(UpdateCall(p))
          /\ operation'[p].desired = operation[p].desired
      BY <2>5 DEF SetsTarget, Goes, PanelReceives, RowKept, RenewalKept
    <3>2. UpdateCall(p) \in PanelCall
      BY <2>1, <3>1, CallTypes
    <3>3. UpdateCall(p).marker = None /\ UpdateCall(p).key = RemoteKey(s)
          /\ UpdateCall(p).level = operation[p].desired
      BY <1>2 DEF UpdateCall, Target
    <3>4. remote[RemoteKey(s)].marker # None
      BY <1>1, <1>3 DEF Marked
    <3>5. remote'[RemoteKey(s)].level = operation[p].desired
      BY <1>3, <3>1, <3>2, <3>3, <3>4, EffectRows DEF IInv
    <3>6. operation[p].desired \in Int
      BY DEF IInv, TypeOK, OperationRow
    <3>7. QED
      BY <1>3, <3>1, <3>5, <3>6 DEF Knows
  <2>6. QED
    BY <1>1, <1>9, <2>2, <2>3, <2>4, <2>5
       DEF TaskMoves, Commits, Pays, QuitsAside, QuitsCreating, QuitsUpdating, Quits,
           Looks, Creates, Finishes, Goes
<1>10. QED
  BY <1>1, <1>6, <1>7, <1>8, <1>9, TaskGoesOn

-----------------------------------------------------------------------------
(* The invariant, and what it shows *)

(* Before the first step nothing is bought and the panels are empty.       *)
LEMMA InitPanelInv == Init => PanelInv
<1>. SUFFICES ASSUME Init PROVE PanelInv
  OBVIOUS
<1>1. running = None /\ wire = {} /\ \A k \in Keys : remote[k] = NoAccount
  BY DEF Init
<1>2. \A o \in Operations :
        /\ quote[o] = None
        /\ operation[o].status = "none" /\ operation[o].results = 0
        /\ operation[o].created = 0 /\ ~operation[o].dispatched
  BY DEF Init, NoOperation, FreshOperation
<1>3. \A k \in Keys : remote[k].marker = None
  BY <1>1 DEF NoAccount
<1>4. StepInv /\ MadeInv /\ RenewInv
  BY <1>1 DEF StepInv, MadeInv, RenewInv
<1>5. FreshInv /\ HandedInv
  BY <1>2 DEF FreshInv, HandedInv, Existing
<1>6. TargetInv
  BY <1>2 DEF TargetInv, Open
<1>7. MarkInv
  BY <1>1, <1>3 DEF MarkInv
<1>8. CleanInv
  <2>1. \A o \in Operations : None \notin {o} \X Indexes
    BY RowsAssumption DEF Accounts
  <2>2. QED
    BY <1>1, <1>3, <2>1 DEF CleanInv, Clean
<1>9. CallsInv
  <2>1. SUFFICES ASSUME NEW o \in Operations, NEW i \in Indexes
                 PROVE  calls[<<o, i>>] <= 1 /\ calls[<<o, i>>] = 0
    BY DEF CallsInv
  <2>2. <<o, i>> \in Accounts /\ calls = [a \in Accounts |-> 0]
    BY AccountsType DEF Init
  <2>3. calls[<<o, i>>] = 0
    BY <2>2
  <2>4. QED
    BY <2>3
<1>10. SoldInv
  BY DEF Init, SoldInv
<1>11. LateInv
  BY <1>1 DEF LateInv, Updates
<1>12. QED
  BY <1>4, <1>5, <1>6, <1>7, <1>8, <1>9, <1>10, <1>11 DEF PanelInv

(* Every step keeps what the engine knows of the panels.                   *)
LEMMA NextPanelInv == IInv /\ PanelInv /\ [Next]_vars => PanelInv'
<1>. SUFFICES ASSUME IInv, PanelInv, [Next]_vars PROVE PanelInv'
  OBVIOUS
<1>1. IInv' /\ Moves /\ TermsKept /\ RowsKept
  BY NextIInv, NextMoves, NextTerms, NextKeepsEnded
<1>2. MarkersStay
  BY <1>1, NextMarkersStay
<1>3. StepInv' /\ FreshInv' /\ HandedInv' /\ TargetInv'
  BY <1>1, NextStepInv, NextFreshInv, NextHandedInv, NextTargetInv DEF PanelInv
<1>4. MarkInv' /\ CleanInv' /\ CallsInv'
  BY <1>1, NextMarkInv, NextCleanInv, NextCallsInv DEF PanelInv
<1>5. MadeInv' /\ SoldInv'
  BY <1>1, <1>2, NextMadeInv, NextSoldInv DEF PanelInv
<1>6. LateInv' /\ RenewInv'
  BY <1>1, NextLateInv, NextRenewInv DEF PanelInv
<1>7. QED
  BY <1>3, <1>4, <1>5, <1>6 DEF PanelInv

(* The invariant holds in every behaviour of the engine.                   *)
THEOREM PanelInvariance == Spec => [](IInv /\ PanelInv)
BY InitIInv, NextIInv, InitPanelInv, NextPanelInv, PTL DEF Spec

(* In every behaviour the accounts on the panels are those that were paid  *)
(* for: a release decided by the engine leaves no account and no call that *)
(* would make one, a sold service has the account created for it, and no   *)
(* account gets two creating or changing calls.                            *)
THEOREM AccountsExplained == Spec => []AccountsAccounted
<1>1. IInv /\ PanelInv => AccountsAccounted
  <2>. SUFFICES ASSUME IInv, PanelInv PROVE AccountsAccounted
    OBVIOUS
  <2>1. ASSUME NEW o \in Operations, operation[o].status = "failed", operation[o].reason = "failed"
        PROVE  Clean(o)
    BY <2>1 DEF PanelInv, CleanInv, Untouched
  <2>2. ASSUME NEW a \in Accounts
        PROVE  calls[a] <= 1
    <3>1. PICK o \in Operations, i \in Indexes : a = <<o, i>>
      BY DEF Accounts
    <3>2. QED
      BY <3>1 DEF PanelInv, CallsInv
  <2>3. QED
    BY <2>1, <2>2 DEF AccountsAccounted, Clean, PanelInv, SoldInv, Marked
<1>2. QED
  BY <1>1, PanelInvariance, PTL

(* What is proved of an operation when it ends.                            *)
PaidProved(o) ==
  IF Type(o) = "stock" THEN Cardinality(operation[o].stock) = Quantity(o)
  ELSE IF Kind(o) = "renew"
  THEN /\ operation[o].dispatched
       /\ \/ remote[RemoteKey(quote[o].service)].level >= operation[o].desired
          \/ Overtaken(o)
  ELSE \A a \in AccountsOf(o) : remote[RemoteKey(a)].marker = a
ReleaseProved(o) ==
  IF Kind(o) = "renew" /\ operation[o].dispatched
  THEN remote[RemoteKey(quote[o].service)].level = operation[o].before
  ELSE \A k \in Keys : remote'[k].marker \notin {o} \X Indexes

(* An operation is paid for by the task or by an administrator.            *)
LEMMA PaysIsProved ==
  ASSUME IInv, PanelInv, NEW o \in Operations, Commits(o) \/ Reconciles(o)
  PROVE  PaidProved(o)
<1>1. operation[o].status \in Open /\ o \in Existing
  BY TaskFacts DEF Commits, Reconciles, Open, Existing
<1>2. Kind(o) = "renew" <=> Target(o) # None
  BY <1>1, Quoted DEF Existing
<1>3. CASE Type(o) = "stock"
  BY <1>1, <1>3 DEF PanelInv, HandedInv, StockNeeded, PaidProved
<1>4. CASE Type(o) # "stock" /\ Target(o) # None
  <2>1. CASE Commits(o)
    <3>1. operation[o].dispatched
      BY <1>4, <2>1, TaskFacts DEF Commits, PanelInv, StepInv
    <3>2. Tainted(Target(o)) \/ remote[RemoteKey(Target(o))].level >= operation[o].desired
      BY <1>4, <2>1, TaskFacts DEF Commits, PanelInv, RenewInv
    <3>3. QED
      BY <1>2, <1>4, <3>1, <3>2 DEF PaidProved, Overtaken, Tainted, Target
  <2>2. CASE Reconciles(o)
    <3>1. /\ operation[o].dispatched
          /\ remote[RemoteKey(quote[o].service)].level = operation[o].desired
      BY <1>4, <2>2 DEF Reconciles, Confirmed, Target
    <3>2. operation[o].desired \in Int
      BY DEF IInv, TypeOK, OperationRow
    <3>3. QED
      BY <1>2, <1>4, <3>1, <3>2 DEF PaidProved
  <2>3. QED
    BY <2>1, <2>2
<1>5. CASE Type(o) # "stock" /\ Target(o) = None
  <2>1. Sells(o)
    BY <1>5 DEF Commits, Reconciles, Sells
  <2>2. \A a \in AccountsOf(o) : Marked(a)
    BY <1>1, <1>5, <2>1, SoldIsMade DEF PanelInv
  <2>3. QED
    BY <1>2, <1>5, <2>2 DEF PaidProved, Marked
<1>6. QED
  BY <1>3, <1>4, <1>5

(* What an administrator cancels is proved absent.                         *)
LEMMA CancelIsProved ==
  ASSUME IInv, PanelInv, NEW o \in Operations, Cancels(o)
  PROVE  ReleaseProved(o)
<1>1. operation[o].status # "none" /\ remote' = remote
  BY DEF Cancels, external
<1>2. Kind(o) = "renew" <=> Target(o) # None
  BY <1>1, Quoted
<1>3. CASE operation[o].status = "queued"
  <2>1. ~operation[o].dispatched /\ Clean(o)
    BY <1>3 DEF PanelInv, FreshInv, CleanInv, Untouched
  <2>2. QED
    BY <1>1, <2>1 DEF ReleaseProved, Clean
<1>4. CASE ProvedAbsent(o) /\ Kind(o) = "renew" /\ operation[o].dispatched
  BY <1>2, <1>4 DEF ProvedAbsent, ReleaseProved, Target
<1>5. CASE ProvedAbsent(o) /\ ~(Kind(o) = "renew" /\ operation[o].dispatched)
  <2>1. ASSUME NEW k \in Keys, remote[k].marker \in {o} \X Indexes
        PROVE  FALSE
    <3>1. PICK a \in Accounts : a = remote[k].marker /\ a[1] = o /\ a # None
      BY <2>1, RowsAssumption DEF Accounts
    <3>2. PaidFor(a, k)
      BY <3>1 DEF PanelInv, MarkInv
    <3>3. Target(o) = None /\ Type(o) # "stock" /\ k = RemoteKey(a)
      BY <3>1, <3>2 DEF PaidFor
    <3>4. a \in AccountsOf(o)
      <4>1. PICK i \in Indexes : a = <<o, i>>
        BY <3>1 DEF Accounts
      <4>2. quote[o] # None /\ Quantity(o) \in Indexes /\ i <= Quantity(o)
        BY <3>1, <3>2, <4>1, OfferType DEF PaidFor, IInv
      <4>3. i \in 1 .. Quantity(o)
        BY <4>2 DEF Indexes, MaxQuantity
      <4>4. QED
        BY <4>1, <4>3 DEF AccountsOf
    <3>5. remote[k] = NoAccount
      BY <1>5, <3>3, <3>4 DEF ProvedAbsent, Target
    <3>6. QED
      BY <3>1, <3>5 DEF NoAccount
  <2>2. QED
    BY <1>1, <1>5, <2>1 DEF ReleaseProved
<1>6. QED
  BY <1>3, <1>4, <1>5 DEF Cancels

(* What the engine itself releases has reached no panel.                   *)
LEMMA QuitIsProved ==
  ASSUME IInv, PanelInv, NEW o \in Operations, TaskMoves(o),
         operation'[o].status = "failed"
  PROVE  ReleaseProved(o)
<1>1. CASE QuitsAside(o)
  BY <1>1 DEF QuitsAside, Quits, external, PanelInv, CleanInv, Untouched, Clean, ReleaseProved
<1>2. ASSUME NEW outcome, QuitsCreating(o, outcome)
      PROVE  ReleaseProved(o)
  <2>1. remote' = remote
    BY <1>2 DEF QuitsCreating, PanelReceives
  <2>2. QED
    BY <1>2, <2>1 DEF QuitsCreating, Quits, PanelInv, CleanInv, Untouched, Clean, ReleaseProved
<1>3. ASSUME NEW outcome, QuitsUpdating(o, outcome)
      PROVE  FALSE
  BY <1>3, TaskFacts DEF QuitsUpdating, Quits, PanelInv, StepInv
<1>4. QED
  BY <1>1, <1>2, <1>3
     DEF TaskMoves, Commits, Pays, Passes, Looks, Creates, Finishes, Reads, SetsTarget, Goes

(* The moves that end an operation.                                        *)
LEMMA WhoEnds ==
  ASSUME IInv, Moves, NEW o \in Operations
  PROVE  /\ operation[o].status # "done" /\ operation'[o].status = "done" =>
              Commits(o) \/ Reconciles(o)
         /\ operation[o].status # "failed" /\ operation'[o].status = "failed" =>
              Cancels(o) \/ TaskMoves(o)
<1>1. ASSUME NEW q \in Operations, Buys(q) \/ Parks(q) \/ Starts(q), operation'[o] # operation[o]
      PROVE  operation'[o].status \notin {"done", "failed"}
  BY <1>1 DEF Buys, Parks, Starts, Rest
<1>2. ASSUME NEW q \in Operations, Cancels(q) \/ Reconciles(q) \/ TaskMoves(q),
             operation'[o] # operation[o]
      PROVE  o = q
  BY <1>2 DEF Cancels, Reconciles, Pays, TaskMoves, Commits, QuitsAside, QuitsCreating,
     QuitsUpdating, Quits, Passes, Looks, Creates, Finishes, Reads, SetsTarget, Goes, Rest
<1>3. operation'[o].status = "done" => ~Cancels(o)
  BY DEF Cancels
<1>4. operation'[o].status = "failed" => ~Reconciles(o)
  BY DEF Reconciles, Pays
<1>5. operation'[o].status = "done" /\ TaskMoves(o) => Commits(o)
  BY DEF TaskMoves, QuitsAside, QuitsCreating, QuitsUpdating, Quits, Passes, Looks, Creates,
     Finishes, Reads, SetsTarget, Goes
<1>6. QED
  BY <1>1, <1>2, <1>3, <1>4, <1>5 DEF Moves, Aside, Arrives

(* In every behaviour an operation ends with a proof: it is paid for only  *)
(* when what it pays for is there, and released only when none of it is.   *)
THEOREM EndsWithProof == Spec => EndsAreProved
<1>. DEFINE Proven ==
       \A o \in Operations :
         /\ operation[o].status # "done" /\ operation'[o].status = "done" => PaidProved(o)
         /\ operation[o].status # "failed" /\ operation'[o].status = "failed" => ReleaseProved(o)
<1>1. ASSUME IInv, PanelInv, [Next]_vars
      PROVE  Proven
  <2>1. Moves
    BY <1>1, NextMoves
  <2>2. QED
    BY <1>1, <2>1, WhoEnds, PaysIsProved, CancelIsProved, QuitIsProved
<1>2. Proven => [\A o \in Operations :
       /\ operation[o].status # "done" /\ operation'[o].status = "done" =>
            IF Type(o) = "stock" THEN Cardinality(operation[o].stock) = Quantity(o)
            ELSE IF Kind(o) = "renew"
            THEN /\ operation[o].dispatched
                 /\ \/ remote[RemoteKey(quote[o].service)].level >= operation[o].desired
                    \/ Overtaken(o)
            ELSE \A a \in AccountsOf(o) : remote[RemoteKey(a)].marker = a
       /\ operation[o].status # "failed" /\ operation'[o].status = "failed" =>
            IF Kind(o) = "renew" /\ operation[o].dispatched
            THEN remote[RemoteKey(quote[o].service)].level = operation[o].before
            ELSE \A k \in Keys : remote'[k].marker \notin {o} \X Indexes]_vars
  BY DEF PaidProved, ReleaseProved
<1>3. QED
  BY <1>1, <1>2, PanelInvariance, PTL DEF Spec, EndsAreProved
=============================================================================

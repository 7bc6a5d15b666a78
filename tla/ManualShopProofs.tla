--------------------------- MODULE ManualShopProofs ---------------------------
(***************************************************************************)
(* Theorems about ManualShop for every value of its constants that         *)
(* satisfies the assumption: orders are paid for and delivered as they     *)
(* say, and shelf, coupon and points are explained by the orders.          *)
(***************************************************************************)
EXTENDS ManualShop, SumProofs

TypeOK ==
  /\ product \in [Products -> [stock : Nat, price : Price, hidden : BOOLEAN]]
  /\ coupon \in [used : Nat, reserved : Nat, hidden : BOOLEAN]
  /\ points \in [Users -> Nat]
  /\ cart \in [Users -> [items : Items, coupon : BOOLEAN, points : BOOLEAN]]
  /\ flow \in [Users -> Dialogue \union {None}]
  /\ order \in [Orders -> OrderRow \union {None}]
  /\ task \in Delivery \union {None}
  /\ bank \in [Orders -> {"none", "paid"}]
  /\ member \in [Users -> BOOLEAN]
  /\ given \in [Orders -> [Products -> Nat]]
  /\ supply \in [Products -> Int]
  /\ again \in SUBSET Orders

(* How the flags of an order go together: what it gave back and took again *)
(* follows from its status, and so does what was checked on the way.       *)
RowInv(o) ==
  LET row == order[o] IN
  /\ row.late => row.status \in Paid
  /\ row.settled => row.coupon /\ row.status \in Paid
  /\ row.couponReleased => row.released
  /\ row.released => row.status \notin Paid
  /\ row.status = "receipt_review" => row.receipt
  /\ row.status = "payment_review" => bank[o] = "paid"

(* The events of points that were booked.                                  *)
EventInv ==
  \A o \in Orders :
    /\ <<"spend", o>> \in events => o \in Placed
    /\ <<"refundpoints", o>> \in events => o \in Placed /\ (order[o].released \/ order[o].late)
    /\ <<"order", o>> \in events => o \in Placed /\ order[o].status \in Paid

(* A delivery is of a paid order, and an item on its way is marked so.     *)
TaskInv ==
  task # None =>
    /\ task.order \in Placed /\ order[task.order].status \in Paid
    /\ task.at \in Ready => order[task.order].sent[task.at] = "sending"

(* What is pending, or on its way, was not given; nothing is given twice.  *)
Ungiven(o, p) ==
  \/ o \notin Placed
  \/ order[o].sent[p] = "pending"
  \/ task # None /\ task.order = o /\ task.at = p
GivenInv ==
  \A o \in Orders \ again, p \in Products : given[o][p] <= 1 /\ (Ungiven(o, p) => given[o][p] = 0)

IInv ==
  /\ TypeOK /\ (\A o \in Placed : RowInv(o)) /\ EventInv
  /\ TaskInv /\ GivenInv /\ DeliveredAsPaid /\ ReservationsAccounted

(* A row after a change of an order that is neither made, approved nor     *)
(* released: it says the same about goods, money and points.               *)
SameTerms(new, row) ==
  /\ new.user = row.user /\ new.items = row.items /\ new.total = row.total
  /\ new.coupon = row.coupon /\ new.points = row.points /\ new.method = row.method
SameFlags(new, row) ==
  /\ new.released = row.released /\ new.couponReleased = row.couponReleased
  /\ new.settled = row.settled /\ new.source = row.source /\ new.late = row.late
Alike(new, row) ==
  /\ SameTerms(new, row) /\ SameFlags(new, row)
  /\ new.status \in Paid <=> row.status \in Paid
  /\ row.receipt => new.receipt

(* What steps do to deliveries: an item is given once, while it is on its  *)
(* way, and nothing given becomes pending but by an administrator.         *)
DeliverStep ==
  /\ again \subseteq again'
  /\ \A o \in Placed : o \in Placed' /\ (order[o].status \in Paid => order'[o].status \in Paid)
  /\ \A o \in Orders, p \in Products :
       \/ given'[o][p] = given[o][p]
       \/ /\ given'[o][p] = given[o][p] + 1 /\ o \in Placed /\ order[o].status \in Paid
          /\ Ungiven(o, p) /\ (o \notin again' => ~Ungiven(o, p)')
  /\ \A o \in Orders \ again', p \in Products : Ungiven(o, p)' => Ungiven(o, p)

(* What steps do to the accounts, of which an order is the only one that   *)
(* changes: what it holds more, the shelf, the coupon and the points lack. *)
Moved(o) ==
  /\ \A p \in Products :
       product'[p].stock + HeldItems(o, p)' - supply'[p] = product[p].stock + HeldItems(o, p) - supply[p]
  /\ \A u \in Users :
       ~LateFor(u)' =>
         points'[u] + HeldPoints(o, u)' - EarnedPoints(o, u)'
           = points[u] + HeldPoints(o, u) - EarnedPoints(o, u)
One(yes) == IF yes THEN 1 ELSE 0
Counted(o) ==
  /\ coupon'.used - One(o \in Settled') = coupon.used - One(o \in Settled)
  /\ ~LateCoupon' =>
       coupon'.reserved - One(o \in Reserving') = coupon.reserved - One(o \in Reserving)
       /\ coupon'.used + coupon'.reserved <= MaxUses
Balanced(o) ==
  /\ \A x \in Orders \ {o} : order'[x] = order[x]
  /\ order'[o] # None /\ (o \in Placed /\ order[o].late =>
       order'[o].late /\ order'[o].user = order[o].user /\ order'[o].coupon = order[o].coupon)
  /\ Moved(o) /\ Counted(o)

-----------------------------------------------------------------------------
(* Rows *)

(* The row of an order that was made.                                      *)
LEMMA PlacedRow ==
  ASSUME TypeOK, NEW o \in Placed
  PROVE  o \in Orders /\ order[o] \in OrderRow
BY DEF TypeOK, Placed

(* Saving a row.                                                           *)
LEMMA SavedRow ==
  ASSUME TypeOK, NEW o \in Orders, NEW row \in OrderRow, order' = [order EXCEPT ![o] = row]
  PROVE  /\ order' \in [Orders -> OrderRow \union {None}]
         /\ order'[o] = row /\ \A x \in Orders \ {o} : order'[x] = order[x]
         /\ Placed' = Placed \union {o}
<1>1. row # None
  BY ShopAssumption
<1>. HIDE DEF OrderRow
<1>2. /\ order' \in [Orders -> OrderRow \union {None}]
      /\ order'[o] = row /\ \A x \in Orders \ {o} : order'[x] = order[x]
  BY DEF TypeOK
<1>3. QED
  BY <1>1, <1>2 DEF Placed

(* What replacing fields of a row leaves.                                  *)
LEMMA StatusField ==
  ASSUME NEW row \in OrderRow, NEW v \in Statuses
  PROVE  LET new == [row EXCEPT !.status = v] IN
         /\ new \in OrderRow /\ new.status = v /\ new.sent = row.sent
         /\ SameTerms(new, row) /\ SameFlags(new, row) /\ new.receipt = row.receipt
BY DEF OrderRow, SameTerms, SameFlags

(* The fields that say nothing about goods, money and points.              *)
LEMMA SideFields ==
  ASSUME NEW row \in OrderRow, NEW v \in BOOLEAN, NEW new,
         \/ new = [row EXCEPT !.overdue = v] \/ new = [row EXCEPT !.authority = v]
         \/ new = [row EXCEPT !.locked = v]
  PROVE  /\ new \in OrderRow /\ new.status = row.status /\ new.sent = row.sent
         /\ SameTerms(new, row) /\ SameFlags(new, row) /\ new.receipt = row.receipt
<1>1. CASE new = [row EXCEPT !.overdue = v]
  BY <1>1 DEF OrderRow, SameTerms, SameFlags
<1>2. CASE new = [row EXCEPT !.authority = v]
  BY <1>2 DEF OrderRow, SameTerms, SameFlags
<1>3. CASE new = [row EXCEPT !.locked = v]
  BY <1>3 DEF OrderRow, SameTerms, SameFlags
<1>4. QED
  BY <1>1, <1>2, <1>3

(* The receipt and the marks of the items.                                 *)
LEMMA ReceiptField ==
  ASSUME NEW row \in OrderRow
  PROVE  LET new == [row EXCEPT !.status = "receipt_review", !.receipt = TRUE] IN
         /\ new \in OrderRow /\ new.status = "receipt_review" /\ new.sent = row.sent
         /\ SameTerms(new, row) /\ SameFlags(new, row) /\ new.receipt
BY DEF OrderRow, SameTerms, SameFlags, Statuses

LEMMA SentField ==
  ASSUME NEW row \in OrderRow,
         NEW v \in [Products -> {"none", "pending", "sending", "sent", "review"}]
  PROVE  LET new == [row EXCEPT !.sent = v] IN
         /\ new \in OrderRow /\ new.status = row.status /\ new.sent = v
         /\ SameTerms(new, row) /\ SameFlags(new, row) /\ new.receipt = row.receipt
BY DEF OrderRow, SameTerms, SameFlags

(* The row of an order that was approved.                                  *)
LEMMA ApprovedFields ==
  ASSUME NEW row \in OrderRow, NEW source \in {"free", "gateway", "admin"}
  PROVE  LET new == [row EXCEPT !.status = "paid", !.released = FALSE, !.couponReleased = FALSE,
                       !.settled = row.coupon, !.source = source, !.late = row.released] IN
         /\ new \in OrderRow /\ new.status = "paid" /\ new.sent = row.sent
         /\ SameTerms(new, row) /\ new.receipt = row.receipt
         /\ ~new.released /\ ~new.couponReleased
         /\ new.settled = row.coupon /\ new.source = source /\ new.late = row.released
BY DEF OrderRow, SameTerms, Statuses

-----------------------------------------------------------------------------
(* The price of a cart *)

(* A share of an amount is an amount that is not greater.                  *)
LEMMA ShareBounds ==
  ASSUME NEW n \in Nat, NEW c \in 0 .. 100
  PROVE  (n * c) \div 100 \in Nat /\ (n * c) \div 100 <= n
<1>1. n * c \in Nat /\ n * c <= n * 100
  <2>1. c \in Nat /\ c <= 100 /\ 100 - c \in Nat
    OBVIOUS
  <2>2. n * (100 - c) \in Nat
    BY <2>1
  <2>3. n * 100 = n * c + n * (100 - c)
    BY <2>1
  <2>4. QED
    BY <2>1, <2>2, <2>3
<1>. DEFINE m == n * c
<1>. HIDE DEF m
<1>2. m \in Nat /\ m <= n * 100
  BY <1>1 DEF m
<1>3. m \div 100 \in Nat /\ m \div 100 <= n
  BY <1>2
<1>4. QED
  BY <1>3 DEF m

(* What an order made from a cart would say is well formed: no discount    *)
(* and no points take more than there is to pay.                           *)
LEMMA CartQuoteType ==
  ASSUME TypeOK, NEW u \in Users
  PROVE  /\ CartQuote(u) \in Quote
         /\ CartQuote(u).items = cart[u].items /\ CartQuote(u).coupon = cart[u].coupon
<1>. DEFINE c == cart[u]
            price == [p \in Products |-> IF c.items[p] > 0 THEN product[p].price ELSE 0]
            worth == [p \in Products |-> price[p] * c.items[p]]
            subtotal == SumFunctionOnSet(worth, Products)
            discount == IF c.coupon THEN (subtotal * CouponPercent) \div 100 ELSE 0
            cap == ((subtotal - discount) * PointsPercent) \div 100
            used == IF c.points THEN Min({points[u], cap}) ELSE 0
<1>1. /\ c.items \in [Products -> Nat] /\ c.coupon \in BOOLEAN /\ c.points \in BOOLEAN
      /\ points[u] \in Nat
  BY DEF TypeOK, Items
<1>. HIDE DEF c
<1>2. \A p \in Products : product[p].price \in Nat
  BY ShopAssumption DEF TypeOK
<1>3. price \in [Products -> Nat]
  BY <1>2
<1>. HIDE DEF price
<1>4. \A p \in Products : worth[p] \in Nat
  BY <1>1, <1>3
<1>. HIDE DEF worth
<1>5. subtotal \in Nat
  BY <1>4, SumNat, ShopAssumption
<1>. HIDE DEF subtotal
<1>6. discount \in Nat /\ discount <= subtotal
  BY <1>5, ShareBounds, ShopAssumption
<1>. HIDE DEF discount
<1>7. subtotal - discount \in Nat
  BY <1>5, <1>6
<1>8. cap \in Nat /\ cap <= subtotal - discount
  BY <1>7, ShareBounds, ShopAssumption
<1>. HIDE DEF cap
<1>9. used \in Nat /\ used <= cap
  <2>1. Min({points[u], cap}) \in {points[u], cap} /\ Min({points[u], cap}) <= cap
    <3>1. \E x \in {points[u], cap} : \A y \in {points[u], cap} : x <= y
      <4>1. CASE points[u] <= cap
        BY <1>1, <1>8, <4>1
      <4>2. CASE cap <= points[u]
        BY <1>1, <1>8, <4>2
      <4>3. QED
        BY <1>1, <1>8, <4>1, <4>2
    <3>2. QED
      BY <3>1 DEF Min
  <2>2. QED
    BY <1>1, <1>8, <2>1
<1>. HIDE DEF used
<1>10. subtotal - discount - used \in Nat
  BY <1>7, <1>8, <1>9
<1>11. CartQuote(u) = [items |-> c.items, price |-> price, coupon |-> c.coupon, points |-> used,
                       total |-> subtotal - discount - used]
  BY DEF CartQuote, c, price, worth, subtotal, discount, cap, used
<1>12. CartQuote(u).items = c.items /\ CartQuote(u).coupon = c.coupon
  BY <1>11
<1>13. QED
  BY <1>1, <1>3, <1>9, <1>10, <1>11, <1>12 DEF Quote, Items, c

-----------------------------------------------------------------------------
(* Accounts *)

(* What an order holds and earned is an amount, now and after a step.      *)
LEMMA RowAmounts ==
  ASSUME NEW row \in OrderRow
  PROVE  /\ \A p \in Products : row.items[p] \in Nat
         /\ row.points \in Nat /\ row.total \in Nat /\ row.total \div EarnUnit \in Nat
<1>1. row.items \in [Products -> Nat] /\ row.points \in Nat /\ row.total \in Nat
  BY DEF OrderRow, Items
<1>2. EarnUnit \in Nat /\ EarnUnit > 0
  BY ShopAssumption
<1>3. row.total \div EarnUnit \in Nat
  BY <1>1, <1>2
<1>4. QED
  BY <1>1, <1>3

LEMMA AmountTypes ==
  ASSUME TypeOK, NEW o \in Orders
  PROVE  /\ \A p \in Products : HeldItems(o, p) \in Nat
         /\ \A u : HeldPoints(o, u) \in Nat /\ EarnedPoints(o, u) \in Nat
<1>1. o \in Placed => order[o] \in OrderRow
  BY PlacedRow
<1>2. QED
  BY <1>1, RowAmounts DEF HeldItems, HeldPoints, EarnedPoints, Holds

LEMMA AmountTypesNext ==
  ASSUME TypeOK', NEW o \in Orders
  PROVE  /\ \A p \in Products : HeldItems(o, p)' \in Nat
         /\ \A u : HeldPoints(o, u)' \in Nat /\ EarnedPoints(o, u)' \in Nat
<1>1. o \in Placed' => order'[o] \in OrderRow
  BY DEF TypeOK, Placed
<1>2. QED
  BY <1>1, RowAmounts DEF HeldItems, HeldPoints, EarnedPoints, Holds

(* The orders that count are finitely many.                                *)
LEMMA CountedFinite ==
  /\ IsFiniteSet(Settled) /\ IsFiniteSet(Reserving)
  /\ Settled \subseteq Orders /\ Reserving \subseteq Orders
BY ShopAssumption, FS_Subset DEF Settled, Reserving, Placed

(* A set that differs in one element has one element more or less.         *)
LEMMA CountChanges ==
  ASSUME NEW S, NEW T, IsFiniteSet(S), NEW a, S \ {a} = T \ {a}
  PROVE  /\ IsFiniteSet(T)
         /\ Cardinality(T) - One(a \in T) = Cardinality(S) - One(a \in S)
         /\ Cardinality(S) \in Nat /\ (a \in S => Cardinality(S) >= 1)
<1>. DEFINE R == S \ {a}
<1>1. IsFiniteSet(R) /\ Cardinality(R) \in Nat
  BY FS_RemoveElement, FS_CardinalityType
<1>2. ASSUME NEW U, U \ {a} = R
      PROVE  IsFiniteSet(U) /\ Cardinality(U) = Cardinality(R) + One(a \in U)
  <2>1. CASE a \in U
    <3>1. U = R \union {a} /\ a \notin R
      BY <1>2, <2>1
    <3>. HIDE DEF R
    <3>2. QED
      BY <1>1, <2>1, <3>1, FS_AddElement DEF One
  <2>2. CASE a \notin U
    <3>1. U = R
      BY <1>2, <2>2
    <3>. HIDE DEF R
    <3>2. QED
      BY <1>1, <2>2, <3>1 DEF One
  <2>3. QED
    BY <2>1, <2>2
<1>3. /\ IsFiniteSet(T) /\ Cardinality(T) = Cardinality(R) + One(a \in T)
      /\ Cardinality(S) = Cardinality(R) + One(a \in S)
  BY <1>2
<1>. HIDE DEF R
<1>4. QED
  BY <1>1, <1>3 DEF One

(* When one order moves goods and points between itself and the shop, the  *)
(* shelf, the coupon and the points stay explained by all orders.          *)
LEMMA BalancedPreserves ==
  ASSUME IInv, TypeOK', NEW o \in Orders, Balanced(o)
  PROVE  ReservationsAccounted'
<1>. USE DEF IInv
<1>1. /\ IsFiniteSet(Orders) /\ MaxUses \in Nat /\ InitialPoints \in Nat
      /\ \A x \in Orders \ {o} : order'[x] = order[x]
  BY ShopAssumption DEF Balanced
<1>2. ASSUME NEW p \in Products
      PROVE  /\ product'[p].stock + SumFunctionOnSet([x \in Orders |-> HeldItems(x, p)'], Orders) = supply'[p]
             /\ product'[p].stock >= 0
  <2>. DEFINE f == [x \in Orders |-> HeldItems(x, p)]
              g == [x \in Orders |-> HeldItems(x, p)']
  <2>1. \A x \in Orders : f[x] \in Int /\ g[x] \in Int
    BY AmountTypes, AmountTypesNext
  <2>2. \A x \in Orders \ {o} : f[x] = g[x]
    BY <1>1 DEF HeldItems, Holds, Placed
  <2>3. f[o] = HeldItems(o, p) /\ g[o] = HeldItems(o, p)'
    OBVIOUS
  <2>4. product[p].stock + SumFunctionOnSet(f, Orders) = supply[p]
    BY DEF ReservationsAccounted
  <2>. HIDE DEF f, g
  <2>5. SumFunctionOnSet(g, Orders) = SumFunctionOnSet(f, Orders) + (g[o] - f[o])
    BY <1>1, <2>1, <2>2, SumChange
  <2>6. SumFunctionOnSet(f, Orders) \in Int
    BY <1>1, <2>1, SumInt
  <2>7. product[p].stock \in Nat /\ product'[p].stock \in Nat /\ supply[p] \in Int /\ supply'[p] \in Int
    BY DEF TypeOK
  <2>8. product'[p].stock + g[o] - supply'[p] = product[p].stock + f[o] - supply[p]
    BY <2>3 DEF Balanced, Moved
  <2>9. product'[p].stock + SumFunctionOnSet(g, Orders) = supply'[p]
    <3>1. f[o] \in Int /\ g[o] \in Int
      BY <2>1
    <3>. DEFINE rest == product[p].stock     left == product'[p].stock
                whole == supply[p]           now == supply'[p]
                sum == SumFunctionOnSet(f, Orders)
                fo == f[o]   go == g[o]
    <3>2. /\ rest + sum = whole /\ left + go - now = rest + fo - whole
          /\ rest \in Int /\ left \in Int /\ whole \in Int /\ now \in Int /\ sum \in Int
          /\ fo \in Int /\ go \in Int
      BY <2>4, <2>6, <2>7, <2>8, <3>1
    <3>. HIDE DEF rest, left, whole, now, fo, go
    <3>3. left + (sum + (go - fo)) = now
      <4>. HIDE DEF sum
      <4>1. QED
        BY <3>2
    <3>4. QED
      BY <2>5, <3>3 DEF left, now, fo, go
  <2>10. QED
    BY <2>7, <2>9 DEF g
<1>3. Settled' \ {o} = Settled \ {o} /\ Reserving' \ {o} = Reserving \ {o}
  BY <1>1 DEF Settled, Reserving, Placed
<1>4. coupon'.used = Cardinality(Settled')
  <2>1. Cardinality(Settled') - One(o \in Settled') = Cardinality(Settled) - One(o \in Settled)
    BY <1>3, CountChanges, CountedFinite
  <2>2. coupon.used = Cardinality(Settled)
    BY DEF ReservationsAccounted
  <2>3. coupon'.used - One(o \in Settled') = coupon.used - One(o \in Settled)
    BY DEF Balanced, Counted
  <2>4. Cardinality(Settled') \in Nat
    BY <1>3, CountChanges, CountedFinite, FS_CardinalityType
  <2>5. coupon'.used \in Nat /\ coupon.used \in Nat
    BY DEF TypeOK
  <2>6. QED
    BY <2>1, <2>2, <2>3, <2>4, <2>5 DEF One
<1>5. ASSUME ~LateCoupon'
      PROVE  coupon'.reserved = Cardinality(Reserving') /\ coupon'.used + coupon'.reserved <= MaxUses
  <2>1. ~LateCoupon
    BY <1>1, <1>5 DEF LateCoupon, Placed, Balanced
  <2>2. Cardinality(Reserving') - One(o \in Reserving') = Cardinality(Reserving) - One(o \in Reserving)
    BY <1>3, CountChanges, CountedFinite
  <2>3. coupon.reserved = Cardinality(Reserving)
    BY <2>1 DEF ReservationsAccounted
  <2>4. /\ coupon'.reserved - One(o \in Reserving') = coupon.reserved - One(o \in Reserving)
        /\ coupon'.used + coupon'.reserved <= MaxUses
    BY <1>5 DEF Balanced, Counted
  <2>5. Cardinality(Reserving') \in Nat
    BY <1>3, CountChanges, CountedFinite, FS_CardinalityType
  <2>6. coupon'.reserved \in Nat /\ coupon.reserved \in Nat
    BY DEF TypeOK
  <2>7. QED
    BY <2>2, <2>3, <2>4, <2>5, <2>6 DEF One
<1>6. ASSUME NEW u \in Users, ~LateFor(u)'
      PROVE  points'[u] + SumFunctionOnSet([x \in Orders |-> HeldPoints(x, u)'], Orders)
               = InitialPoints + SumFunctionOnSet([x \in Orders |-> EarnedPoints(x, u)'], Orders)
  <2>. DEFINE f == [x \in Orders |-> HeldPoints(x, u)]
              g == [x \in Orders |-> HeldPoints(x, u)']
              h == [x \in Orders |-> EarnedPoints(x, u)]
              k == [x \in Orders |-> EarnedPoints(x, u)']
  <2>0. ~LateFor(u)
    BY <1>1, <1>6 DEF LateFor, Placed, Balanced
  <2>1. \A x \in Orders : f[x] \in Int /\ g[x] \in Int /\ h[x] \in Int /\ k[x] \in Int
    BY AmountTypes, AmountTypesNext
  <2>2. \A x \in Orders \ {o} : f[x] = g[x] /\ h[x] = k[x]
    BY <1>1 DEF HeldPoints, EarnedPoints, Holds, Placed
  <2>3. /\ f[o] = HeldPoints(o, u) /\ g[o] = HeldPoints(o, u)'
        /\ h[o] = EarnedPoints(o, u) /\ k[o] = EarnedPoints(o, u)'
    OBVIOUS
  <2>4. points[u] + SumFunctionOnSet(f, Orders) = InitialPoints + SumFunctionOnSet(h, Orders)
    BY <2>0 DEF ReservationsAccounted
  <2>. HIDE DEF f, g, h, k
  <2>5. /\ SumFunctionOnSet(g, Orders) = SumFunctionOnSet(f, Orders) + (g[o] - f[o])
        /\ SumFunctionOnSet(k, Orders) = SumFunctionOnSet(h, Orders) + (k[o] - h[o])
    <3>1. SumFunctionOnSet(g, Orders) = SumFunctionOnSet(f, Orders) + (g[o] - f[o])
      BY <1>1, <2>1, <2>2, SumChange
    <3>2. SumFunctionOnSet(k, Orders) = SumFunctionOnSet(h, Orders) + (k[o] - h[o])
      BY <1>1, <2>1, <2>2, SumChange
    <3>3. QED
      BY <3>1, <3>2
  <2>6. SumFunctionOnSet(f, Orders) \in Int /\ SumFunctionOnSet(h, Orders) \in Int
    BY <1>1, <2>1, SumInt
  <2>7. points[u] \in Nat /\ points'[u] \in Nat
    BY DEF TypeOK
  <2>8. points'[u] + g[o] - k[o] = points[u] + f[o] - h[o]
    BY <1>6, <2>3 DEF Balanced, Moved
  <2>9. points'[u] + SumFunctionOnSet(g, Orders) = InitialPoints + SumFunctionOnSet(k, Orders)
    BY <1>1, <2>1, <2>4, <2>5, <2>6, <2>7, <2>8
  <2>10. QED
    BY <2>9 DEF g, k
<1>7. QED
  BY <1>2, <1>4, <1>5, <1>6 DEF ReservationsAccounted

(* A step that touches no order, and moves goods only between the shelf    *)
(* and what was put on it.                                                 *)
LEMMA CalmPreserves ==
  ASSUME IInv, TypeOK', UNCHANGED <<order, points>>,
         coupon'.used = coupon.used, coupon'.reserved = coupon.reserved,
         \A p \in Products : product'[p].stock - supply'[p] = product[p].stock - supply[p]
  PROVE  ReservationsAccounted'
<1>. USE DEF IInv
<1>1. ASSUME NEW p \in Products
      PROVE  /\ product'[p].stock + SumFunctionOnSet([x \in Orders |-> HeldItems(x, p)'], Orders) = supply'[p]
             /\ product'[p].stock >= 0
  <2>. DEFINE f == [x \in Orders |-> HeldItems(x, p)]
  <2>1. [x \in Orders |-> HeldItems(x, p)'] = f
    BY DEF HeldItems, Holds, Placed
  <2>2. product[p].stock + SumFunctionOnSet(f, Orders) = supply[p]
    BY DEF ReservationsAccounted
  <2>3. \A x \in Orders : f[x] \in Int
    BY AmountTypes
  <2>. HIDE DEF f
  <2>4. SumFunctionOnSet(f, Orders) \in Int
    BY <2>3, SumInt, ShopAssumption
  <2>5. product[p].stock \in Nat /\ product'[p].stock \in Nat /\ supply[p] \in Int /\ supply'[p] \in Int
    BY DEF TypeOK
  <2>6. product'[p].stock + SumFunctionOnSet(f, Orders) = supply'[p]
    BY <2>2, <2>4, <2>5
  <2>7. QED
    BY <2>1, <2>5, <2>6
<1>2. /\ coupon'.used = Cardinality(Settled')
      /\ ~LateCoupon' => /\ coupon'.reserved = Cardinality(Reserving')
                         /\ coupon'.used + coupon'.reserved <= MaxUses
  <2>1. Settled' = Settled /\ Reserving' = Reserving /\ (LateCoupon' <=> LateCoupon)
    BY DEF Settled, Reserving, LateCoupon, Placed
  <2>2. QED
    BY <2>1 DEF ReservationsAccounted
<1>3. ASSUME NEW u \in Users, ~LateFor(u)'
      PROVE  points'[u] + SumFunctionOnSet([x \in Orders |-> HeldPoints(x, u)'], Orders)
               = InitialPoints + SumFunctionOnSet([x \in Orders |-> EarnedPoints(x, u)'], Orders)
  <2>1. /\ [x \in Orders |-> HeldPoints(x, u)'] = [x \in Orders |-> HeldPoints(x, u)]
        /\ [x \in Orders |-> EarnedPoints(x, u)'] = [x \in Orders |-> EarnedPoints(x, u)]
        /\ ~LateFor(u)
    BY <1>3 DEF HeldPoints, EarnedPoints, Holds, Placed, LateFor
  <2>2. QED
    BY <2>1 DEF ReservationsAccounted
<1>4. QED
  BY <1>1, <1>2, <1>3 DEF ReservationsAccounted

-----------------------------------------------------------------------------
(* Payments and deliveries *)

(* The two halves of DeliveredAsPaid.                                      *)
PaidFor(o) ==
  order[o].status \in Paid =>
    /\ ~order[o].released
    /\ \/ order[o].source = "free" /\ order[o].total = 0
       \/ order[o].source = "gateway" /\ bank[o] = "paid"
       \/ order[o].source = "admin" /\ (order[o].receipt \/ bank[o] = "paid")
GivenForPaid ==
  \A o \in Orders, p \in Products :
    /\ given[o][p] > 0 => order[o] # None /\ order[o].status \in Paid
    /\ given[o][p] > 1 => o \in again

(* They are the two halves, before and after a step.                       *)
LEMMA TwoHalves ==
  /\ DeliveredAsPaid <=> (\A o \in Placed : PaidFor(o)) /\ GivenForPaid
  /\ DeliveredAsPaid' <=> (\A o \in Placed' : PaidFor(o)') /\ GivenForPaid'
BY DEF DeliveredAsPaid, PaidFor, GivenForPaid

BankKept == \A o \in Orders : bank[o] = "paid" => bank'[o] = "paid"

(* The rows that did not change are still in order.                        *)
LEMMA OthersFine ==
  ASSUME IInv, NEW o \in Orders, \A x \in Orders \ {o} : order'[x] = order[x], BankKept,
         o \in Placed' => RowInv(o)' /\ PaidFor(o)'
  PROVE  \A x \in Placed' : RowInv(x)' /\ PaidFor(x)'
<1>. SUFFICES ASSUME NEW x \in Placed', x # o PROVE RowInv(x)' /\ PaidFor(x)'
  OBVIOUS
<1>1. x \in Placed /\ x \in Orders /\ order'[x] = order[x]
  BY DEF Placed
<1>2. RowInv(x) /\ PaidFor(x)
  BY <1>1, TwoHalves DEF IInv
<1>3. QED
  BY <1>1, <1>2 DEF RowInv, PaidFor, BankKept

(* What is given is given once, for an order that is paid.                 *)
LEMMA DeliverPreserves ==
  ASSUME IInv, TypeOK', DeliverStep
  PROVE  GivenInv' /\ GivenForPaid'
<1>1. GivenInv /\ GivenForPaid
  BY TwoHalves DEF IInv
<1>2. \A o \in Orders, p \in Products : given[o][p] \in Nat /\ given'[o][p] \in Nat
  BY DEF IInv, TypeOK
<1>3. ASSUME NEW o \in Orders \ again', NEW p \in Products
      PROVE  given'[o][p] <= 1 /\ (Ungiven(o, p)' => given'[o][p] = 0)
  <2>1. /\ o \in Orders \ again
        /\ given[o][p] <= 1 /\ (Ungiven(o, p) => given[o][p] = 0)
        /\ Ungiven(o, p)' => Ungiven(o, p)
    BY <1>1 DEF DeliverStep, GivenInv
  <2>2. CASE given'[o][p] = given[o][p]
    BY <2>1, <2>2
  <2>3. CASE given'[o][p] = given[o][p] + 1 /\ Ungiven(o, p) /\ ~Ungiven(o, p)'
    BY <2>1, <2>3
  <2>4. QED
    BY <2>2, <2>3 DEF DeliverStep
<1>4. ASSUME NEW o \in Orders, NEW p \in Products
      PROVE  /\ given'[o][p] > 0 => order'[o] # None /\ order'[o].status \in Paid
             /\ given'[o][p] > 1 => o \in again'
  <2>1. given'[o][p] > 0 => o \in Placed /\ order[o].status \in Paid
    BY <1>1, <1>2 DEF DeliverStep, GivenForPaid, Placed
  <2>2. o \in Placed /\ order[o].status \in Paid => order'[o] # None /\ order'[o].status \in Paid
    BY DEF DeliverStep, Placed
  <2>3. given'[o][p] > 1 => o \in again'
    BY <1>2, <1>3
  <2>4. QED
    BY <2>1, <2>2, <2>3
<1>. HIDE DEF IInv
<1>5. GivenInv'
  BY <1>3 DEF GivenInv
<1>6. GivenForPaid'
  BY <1>4 DEF GivenForPaid
<1>7. QED
  BY <1>5, <1>6

(* A step that leaves the deliveries alone, and no paid order unpaid.      *)
LEMMA NotDelivering ==
  ASSUME IInv, NEW o \in Orders, \A x \in Orders \ {o} : order'[x] = order[x],
         order'[o] # None, o \in Placed => order'[o].sent = order[o].sent,
         o \in Placed /\ order[o].status \in Paid => order'[o].status \in Paid,
         UNCHANGED <<given, again>>, task' = task \/ task'.at = "gate"
  PROVE  DeliverStep
<1>1. Placed \subseteq Placed'
  BY DEF Placed
<1>2. \A x \in Placed : order[x].status \in Paid => order'[x].status \in Paid
  BY DEF Placed
<1>3. ASSUME NEW x \in Orders, NEW p \in Products, Ungiven(x, p)'
      PROVE  Ungiven(x, p)
  <2>1. p # "gate"
    BY ShopAssumption
  <2>2. x \in Placed => order'[x].sent = order[x].sent
    BY DEF Placed
  <2>3. QED
    BY <1>1, <1>3, <2>1, <2>2 DEF Ungiven
<1>4. QED
  BY <1>1, <1>2, <1>3 DEF DeliverStep

-----------------------------------------------------------------------------
(* Steps that change a row and no account *)

(* A row that says the same about goods, money and points leaves the       *)
(* accounts balanced.                                                      *)
LEMMA AlikeBalances ==
  ASSUME IInv, NEW o \in Placed, \A x \in Orders \ {o} : order'[x] = order[x],
         order'[o] # None, Alike(order'[o], order[o]),
         UNCHANGED <<product, coupon, points, supply>>
  PROVE  Balanced(o)
<1>1. Placed' = Placed /\ o \in Orders
  BY DEF Placed
<1>2. /\ \A p \in Products : HeldItems(o, p)' = HeldItems(o, p)
      /\ \A u : HeldPoints(o, u)' = HeldPoints(o, u) /\ EarnedPoints(o, u)' = EarnedPoints(o, u)
  BY <1>1 DEF HeldItems, HeldPoints, EarnedPoints, Holds, Alike, SameTerms, SameFlags
<1>3. (o \in Settled' <=> o \in Settled) /\ (o \in Reserving' <=> o \in Reserving)
  BY <1>1 DEF Settled, Reserving, Alike, SameTerms, SameFlags
<1>4. ~LateCoupon' => ~LateCoupon
  BY <1>1 DEF LateCoupon, Alike, SameTerms, SameFlags, Placed
<1>5. Moved(o)
  BY <1>2 DEF Moved
<1>6. Counted(o)
  BY <1>3, <1>4 DEF Counted, One, IInv, ReservationsAccounted
<1>7. QED
  BY <1>5, <1>6 DEF Balanced, Alike, SameTerms, SameFlags

(* Such a step keeps the invariant when the deliveries do.                 *)
LEMMA TouchPreserves ==
  ASSUME IInv, TypeOK', NEW o \in Placed, \A x \in Orders \ {o} : order'[x] = order[x],
         order'[o] # None, Alike(order'[o], order[o]),
         order'[o].status = "receipt_review" => order'[o].receipt,
         order'[o].status = "payment_review" => bank[o] = "paid",
         UNCHANGED <<product, coupon, points, events, supply, bank>>,
         TaskInv', DeliverStep
  PROVE  IInv'
<1>1. o \in Orders /\ Placed' = Placed
  BY DEF Placed
<1>2. RowInv(o) /\ PaidFor(o) /\ BankKept
  BY TwoHalves DEF IInv, BankKept
<1>3. RowInv(o)'
  BY <1>2 DEF RowInv, Alike, SameTerms, SameFlags
<1>4. PaidFor(o)'
  BY <1>2 DEF PaidFor, Alike, SameTerms, SameFlags
<1>5. \A x \in Placed' : RowInv(x)' /\ PaidFor(x)'
  BY <1>1, <1>2, <1>3, <1>4, OthersFine
<1>6. EventInv'
  BY <1>1 DEF IInv, EventInv, Alike, SameFlags
<1>7. ReservationsAccounted'
  BY <1>1, AlikeBalances, BalancedPreserves
<1>8. GivenInv' /\ GivenForPaid'
  BY DeliverPreserves
<1>9. QED
  BY <1>5, <1>6, <1>7, <1>8, TwoHalves DEF IInv

-----------------------------------------------------------------------------
(* Steps that change no order *)

(* A step beside the orders keeps the invariant.                           *)
LEMMA AsidePreserves ==
  ASSUME IInv, TypeOK', UNCHANGED <<order, points, events, task, given, again>>, BankKept,
         coupon'.used = coupon.used, coupon'.reserved = coupon.reserved,
         \A p \in Products : product'[p].stock - supply'[p] = product[p].stock - supply[p]
  PROVE  IInv'
<1>1. Placed' = Placed
  BY DEF Placed
<1>2. \A x \in Placed' : RowInv(x)' /\ PaidFor(x)'
  <2>. SUFFICES ASSUME NEW x \in Placed PROVE RowInv(x)' /\ PaidFor(x)'
    BY <1>1
  <2>1. RowInv(x) /\ PaidFor(x) /\ x \in Orders
    BY TwoHalves DEF IInv, Placed
  <2>2. QED
    BY <2>1 DEF RowInv, PaidFor, BankKept
<1>3. EventInv' /\ TaskInv'
  BY <1>1 DEF IInv, EventInv, TaskInv
<1>4. GivenInv' /\ GivenForPaid'
  <2>1. GivenInv /\ GivenForPaid
    BY TwoHalves DEF IInv
  <2>2. QED
    BY <1>1, <2>1 DEF GivenInv, GivenForPaid, Ungiven
<1>5. ReservationsAccounted'
  BY CalmPreserves
<1>6. QED
  BY <1>2, <1>3, <1>4, <1>5, TwoHalves DEF IInv

(* A step that only changes a cart or a dialogue.                          *)
LEMMA SetCartPreserves ==
  ASSUME IInv, NEW u \in Users, NEW c \in [items : Items, coupon : BOOLEAN, points : BOOLEAN],
         SetCart(u, c)
  PROVE  IInv'
<1>1. /\ UNCHANGED <<product, coupon, points, events, order, flow, task, bank, member, given, supply, again>>
      /\ cart' = [cart EXCEPT ![u] = c]
  BY DEF SetCart, rows, history
<1>2. TypeOK'
  <2>1. cart' \in [Users -> [items : Items, coupon : BOOLEAN, points : BOOLEAN]]
    BY <1>1 DEF IInv, TypeOK
  <2>2. QED
    BY <1>1, <2>1 DEF IInv, TypeOK
<1>3. QED
  BY <1>1, <1>2, AsidePreserves DEF BankKept

LEMMA SetFlowPreserves ==
  ASSUME IInv, NEW u \in Users, NEW f \in Dialogue \union {None}, SetFlow(u, f)
  PROVE  IInv'
<1>1. /\ UNCHANGED <<product, coupon, points, events, order, cart, task, bank, member, given, supply, again>>
      /\ flow' = [flow EXCEPT ![u] = f]
  BY DEF SetFlow, rows, history
<1>2. TypeOK'
  <2>1. flow' \in [Users -> Dialogue \union {None}]
    BY <1>1 DEF IInv, TypeOK
  <2>2. QED
    BY <1>1, <2>1 DEF IInv, TypeOK
<1>3. QED
  BY <1>1, <1>2, AsidePreserves DEF BankKept

(* The customer fills his cart.                                            *)
LEMMA CartPreserves ==
  ASSUME IInv, NEW u \in Users,
         \/ ChooseReductions(u) \/ \E p \in Products : AddToCart(u, p) \/ TakeFromCart(u, p)
  PROVE  IInv'
<1>. DEFINE C == [items : Items, coupon : BOOLEAN, points : BOOLEAN]
<1>1. cart[u] \in C
  BY DEF IInv, TypeOK
<1>2. \A p \in Products, n \in Nat : [cart[u] EXCEPT !.items[p] = n] \in C
  BY <1>1 DEF Items
<1>3. \A r \in Reductions : [cart[u] EXCEPT !.coupon = r.coupon, !.points = r.points] \in C
  <2>1. \A r \in Reductions : r.coupon \in BOOLEAN /\ r.points \in BOOLEAN
    BY ShopAssumption
  <2>2. QED
    BY <1>1, <2>1
<1>4. CASE ChooseReductions(u)
  <2>1. PICK r \in Reductions :
          SetCart(u, [cart[u] EXCEPT !.coupon = r.coupon, !.points = r.points])
    BY <1>4 DEF ChooseReductions
  <2>2. QED
    BY <1>3, <2>1, SetCartPreserves
<1>5. CASE \E p \in Products : AddToCart(u, p)
  <2>1. PICK p \in Products : SetCart(u, [cart[u] EXCEPT !.items[p] = cart[u].items[p] + 1])
    BY <1>5 DEF AddToCart
  <2>2. cart[u].items[p] + 1 \in Nat
    BY <1>1 DEF Items
  <2>3. QED
    BY <1>2, <2>1, <2>2, SetCartPreserves
<1>6. CASE \E p \in Products : TakeFromCart(u, p)
  <2>1. PICK p \in Products : TakeFromCart(u, p)
    BY <1>6
  <2>2. PICK n \in {0, cart[u].items[p] - 1} : SetCart(u, [cart[u] EXCEPT !.items[p] = n])
    BY <2>1 DEF TakeFromCart
  <2>3. n \in Nat
    BY <1>1, <2>1 DEF Items, Lines, TakeFromCart
  <2>4. QED
    BY <1>2, <2>2, <2>3, SetCartPreserves
<1>7. QED
  BY <1>4, <1>5, <1>6

(* He starts an order, gives his details, or leaves it.                    *)
LEMMA DialoguePreserves ==
  ASSUME IInv, NEW u \in Users,
         \/ GiveDetails(u) \/ CancelDialogue(u) \/ \E o \in Orders : StartCheckout(u, o)
  PROVE  IInv'
<1>1. flow[u] \in Dialogue \union {None}
  BY DEF IInv, TypeOK
<1>2. CASE GiveDetails(u)
  <2>1. [flow[u] EXCEPT !.step = "confirm"] \in Dialogue
    BY <1>1, <1>2 DEF GiveDetails, Dialogue
  <2>2. PICK f \in {[flow[u] EXCEPT !.step = "confirm"], None} : SetFlow(u, f)
    BY <1>2 DEF GiveDetails
  <2>3. QED
    BY <2>1, <2>2, SetFlowPreserves
<1>3. CASE CancelDialogue(u)
  BY <1>3, SetFlowPreserves DEF CancelDialogue
<1>4. CASE \E o \in Orders : StartCheckout(u, o)
  <2>1. PICK o \in Orders : SetFlow(u, [step |-> "details", order |-> o, signature |-> CartQuote(u)])
    BY <1>4 DEF StartCheckout
  <2>2. CartQuote(u) \in Quote
    BY CartQuoteType DEF IInv
  <2>3. [step |-> "details", order |-> o, signature |-> CartQuote(u)] \in Dialogue
    BY <2>2 DEF Dialogue
  <2>4. QED
    BY <2>1, <2>3, SetFlowPreserves
<1>5. QED
  BY <1>2, <1>3, <1>4

(* An administrator changes a product or the coupon; what he puts on the   *)
(* shelf or takes from it is supply.                                       *)
LEMMA SaveProductPreserves ==
  ASSUME IInv, NEW p \in Products, SaveProduct(p)
  PROVE  IInv'
<1>1. PICK price \in Price, stock \in {product[p].stock, InitialStock}, hidden \in BOOLEAN :
        /\ product' = [product EXCEPT ![p] = [stock |-> stock, price |-> price, hidden |-> hidden]]
        /\ supply' = [supply EXCEPT ![p] = @ + stock - product[p].stock]
  BY DEF SaveProduct
<1>2. product \in [Products -> [stock : Nat, price : Price, hidden : BOOLEAN]] /\ supply \in [Products -> Int]
  BY DEF IInv, TypeOK
<1>3. stock \in Nat /\ product[p].stock \in Nat
  BY <1>2, ShopAssumption
<1>4. /\ product' \in [Products -> [stock : Nat, price : Price, hidden : BOOLEAN]]
      /\ supply' \in [Products -> Int]
  <2>1. product' \in [Products -> [stock : Nat, price : Price, hidden : BOOLEAN]]
    BY <1>1, <1>2, <1>3
  <2>2. supply[p] + stock - product[p].stock \in Int
    BY <1>2, <1>3
  <2>3. supply' \in [Products -> Int]
    BY <1>1, <1>2, <2>2
  <2>4. QED
    BY <2>1, <2>3
<1>5. \A q \in Products : product'[q].stock - supply'[q] = product[q].stock - supply[q]
  <2>. SUFFICES ASSUME NEW q \in Products
                PROVE  product'[q].stock - supply'[q] = product[q].stock - supply[q]
    OBVIOUS
  <2>1. CASE q = p
    <3>1. product'[p].stock = stock /\ supply'[p] = supply[p] + stock - product[p].stock
      BY <1>1, <1>2
    <3>2. supply[p] \in Int
      BY <1>2
    <3>3. stock - (supply[p] + stock - product[p].stock) = product[p].stock - supply[p]
      BY <1>3, <3>2
    <3>4. QED
      BY <2>1, <3>1, <3>3
  <2>2. CASE q # p
    BY <1>1, <1>2, <2>2
  <2>3. QED
    BY <2>1, <2>2
<1>6. UNCHANGED <<coupon, points, events, order, cart, flow, task, bank, member, given, again>>
  BY DEF SaveProduct
<1>7. TypeOK'
  BY <1>4, <1>6 DEF IInv, TypeOK
<1>8. QED
  BY <1>5, <1>6, <1>7, AsidePreserves DEF BankKept

(* The coupon, the bank, and who is in the channels.                       *)
LEMMA OutsidePreserves ==
  ASSUME IInv,
         \/ SaveCoupon \/ (\E o \in Orders : BankPays(o)) \/ \E u \in Users : MembershipChanges(u)
  PROVE  IInv'
<1>1. CASE SaveCoupon
  <2>1. coupon' \in [used : Nat, reserved : Nat, hidden : BOOLEAN]
        /\ coupon'.used = coupon.used /\ coupon'.reserved = coupon.reserved
    BY <1>1 DEF SaveCoupon, IInv, TypeOK
  <2>2. UNCHANGED <<product, points, events, order, cart, flow, task, bank, member, given, supply, again>>
    BY <1>1 DEF SaveCoupon, history
  <2>3. TypeOK'
    BY <2>1, <2>2 DEF IInv, TypeOK
  <2>4. QED
    BY <2>1, <2>2, <2>3, AsidePreserves DEF BankKept
<1>2. CASE \E o \in Orders : BankPays(o)
  <2>1. PICK o \in Orders : bank' = [bank EXCEPT ![o] = "paid"]
    BY <1>2 DEF BankPays
  <2>2. UNCHANGED <<product, coupon, points, events, order, cart, flow, task, member, given, supply, again>>
    BY <1>2 DEF BankPays, rows, history
  <2>3. bank' \in [Orders -> {"none", "paid"}] /\ BankKept
    BY <2>1 DEF IInv, TypeOK, BankKept
  <2>4. TypeOK'
    BY <2>2, <2>3 DEF IInv, TypeOK
  <2>5. QED
    BY <2>2, <2>3, <2>4, AsidePreserves
<1>3. CASE \E u \in Users : MembershipChanges(u)
  <2>1. PICK u \in Users : member' = [member EXCEPT ![u] = ~@]
    BY <1>3 DEF MembershipChanges
  <2>2. UNCHANGED <<product, coupon, points, events, order, cart, flow, task, bank, given, supply, again>>
    BY <1>3 DEF MembershipChanges, rows, history
  <2>3. member' \in [Users -> BOOLEAN]
    BY <2>1 DEF IInv, TypeOK
  <2>4. TypeOK'
    BY <2>2, <2>3 DEF IInv, TypeOK
  <2>5. QED
    BY <2>2, <2>4, AsidePreserves DEF BankKept
<1>4. QED
  BY <1>1, <1>2, <1>3

-----------------------------------------------------------------------------
(* Steps that change a row *)

(* A row that is saved and keeps the marks of its items.                   *)
LEMMA RowPreserves ==
  ASSUME IInv, NEW o \in Placed, NEW row \in OrderRow, order' = [order EXCEPT ![o] = row],
         Alike(row, order[o]), row.sent = order[o].sent,
         row.status = "receipt_review" => row.receipt,
         row.status = "payment_review" => bank[o] = "paid",
         UNCHANGED <<product, coupon, points, events, cart, flow, task, bank, member, given, supply, again>>
  PROVE  IInv'
<1>1. /\ o \in Orders /\ row # None
      /\ order' \in [Orders -> OrderRow \union {None}]
      /\ order'[o] = row /\ \A x \in Orders \ {o} : order'[x] = order[x]
      /\ Placed' = Placed
  BY SavedRow, ShopAssumption DEF IInv, Placed
<1>2. TypeOK'
  BY <1>1 DEF IInv, TypeOK
<1>3. TaskInv'
  BY <1>1 DEF IInv, TaskInv, Alike, Placed
<1>4. DeliverStep
  BY <1>1, NotDelivering DEF Alike
<1>5. QED
  BY <1>1, <1>2, <1>3, <1>4, TouchPreserves

(* Receipts, the gateway, the clock, and the progress of a paid order.     *)
LEMMA ProgressPreserves ==
  ASSUME IInv, NEW o \in Orders,
         \/ SendReceipt(o) \/ StartPayment(o) \/ TimePasses(o)
         \/ \E s \in {"preparing", "shipped", "delivered"} : AdminProgresses(o, s)
  PROVE  IInv'
<1>1. o \in Placed /\ order[o] \in OrderRow /\ RowInv(o)
  BY PlacedRow DEF IInv, SendReceipt, StartPayment, TimePasses, AdminProgresses
<1>2. UNCHANGED <<product, coupon, points, events, cart, flow, task, bank, member, given, supply, again>>
  BY DEF SendReceipt, StartPayment, TimePasses, AdminProgresses, SetOrder, history
<1>3. CASE SendReceipt(o)
  <2>. DEFINE row == [order[o] EXCEPT !.status = "receipt_review", !.receipt = TRUE]
  <2>1. order' = [order EXCEPT ![o] = row] /\ order[o].status = "awaiting_payment"
    BY <1>3 DEF SendReceipt, SetOrder
  <2>2. /\ row \in OrderRow /\ row.sent = order[o].sent /\ row.status = "receipt_review" /\ row.receipt
        /\ SameTerms(row, order[o]) /\ SameFlags(row, order[o])
    BY <1>1, ReceiptField
  <2>. HIDE DEF row
  <2>3. Alike(row, order[o])
    BY <2>1, <2>2 DEF Alike, Paid
  <2>4. QED
    BY <1>1, <1>2, <2>1, <2>2, <2>3, RowPreserves
<1>4. ASSUME StartPayment(o) \/ TimePasses(o)
      PROVE  IInv'
  <2>1. PICK row : /\ order' = [order EXCEPT ![o] = row]
                   /\ \/ row = [order[o] EXCEPT !.authority = TRUE]
                      \/ row = [order[o] EXCEPT !.overdue = TRUE]
    BY <1>4 DEF StartPayment, TimePasses, SetOrder
  <2>2. /\ row \in OrderRow /\ row.status = order[o].status /\ row.sent = order[o].sent
        /\ SameTerms(row, order[o]) /\ SameFlags(row, order[o]) /\ row.receipt = order[o].receipt
    BY <1>1, <2>1, SideFields
  <2>3. Alike(row, order[o])
    BY <2>2 DEF Alike
  <2>4. /\ row.status = "receipt_review" => row.receipt
        /\ row.status = "payment_review" => bank[o] = "paid"
    BY <1>1, <2>2 DEF RowInv
  <2>5. QED
    BY <1>1, <1>2, <2>1, <2>2, <2>3, <2>4, RowPreserves
<1>5. CASE \E s \in {"preparing", "shipped", "delivered"} : AdminProgresses(o, s)
  <2>1. PICK s \in {"preparing", "shipped", "delivered"} :
          order' = [order EXCEPT ![o] = [order[o] EXCEPT !.status = s]]
    BY <1>5 DEF AdminProgresses, SetOrder
  <2>. DEFINE row == [order[o] EXCEPT !.status = s]
  <2>2. order[o].status \in Paid
    BY <1>5 DEF AdminProgresses
  <2>3. s \in Statuses /\ s \in Paid
    BY DEF Statuses, Paid
  <2>4. /\ row \in OrderRow /\ row.status = s /\ row.sent = order[o].sent
        /\ SameTerms(row, order[o]) /\ SameFlags(row, order[o]) /\ row.receipt = order[o].receipt
    BY <1>1, <2>3, StatusField
  <2>5. order' = [order EXCEPT ![o] = row]
    BY <2>1
  <2>. HIDE DEF row
  <2>6. Alike(row, order[o])
    BY <2>2, <2>3, <2>4 DEF Alike
  <2>7. QED
    BY <1>1, <1>2, <2>4, <2>5, <2>6, RowPreserves
<1>6. QED
  BY <1>3, <1>4, <1>5

-----------------------------------------------------------------------------
(* Deliveries *)

(* A step of a delivery keeps the invariant when it gives as it should.    *)
LEMMA DeliveryPreserves ==
  ASSUME IInv, task # None, NEW row \in OrderRow, NEW at \in {"gate", "send", "end"} \union Ready,
         DeliveryStep(row, at), Alike(row, order[task.order]),
         at \in Ready => row.sent[at] = "sending",
         given' \in [Orders -> [Products -> Nat]],
         \A o \in Orders, p \in Products :
            \/ given'[o][p] = given[o][p]
            \/ /\ o = task.order /\ p = task.at /\ at = "send"
               /\ given'[o][p] = given[o][p] + 1 /\ row.sent[p] # "pending",
         \A p \in Products :
            row.sent[p] = "pending" \/ at = p => Ungiven(task.order, p)
  PROVE  IInv'
<1>0. PICK o : o = task.order
  OBVIOUS
<1>1. /\ o \in Placed /\ o \in Orders /\ order[o].status \in Paid /\ row.status \in Paid
      /\ task.at \in {"gate", "send"} \union Ready
  BY <1>0 DEF IInv, TypeOK, TaskInv, Delivery, Placed, Alike
<1>2. /\ order' = [order EXCEPT ![o] = row]
      /\ task' = IF at = "end" THEN None ELSE [order |-> o, at |-> at]
      /\ UNCHANGED <<product, coupon, points, events, cart, flow, bank, member, supply, again>>
  BY <1>0 DEF DeliveryStep, SetOrder
<1>3. /\ row # None
      /\ order' \in [Orders -> OrderRow \union {None}]
      /\ order'[o] = row /\ \A x \in Orders \ {o} : order'[x] = order[x]
      /\ Placed' = Placed
  <2>1. TypeOK
    BY DEF IInv
  <2>2. /\ order' \in [Orders -> OrderRow \union {None}]
        /\ order'[o] = row /\ \A x \in Orders \ {o} : order'[x] = order[x]
        /\ Placed' = Placed \union {o}
    BY <1>1, <1>2, <2>1, SavedRow
  <2>3. QED
    BY <1>1, <2>2, ShopAssumption
<1>4. /\ at # "end" => task' # None /\ task'.order = o /\ task'.at = at /\ task' \in Delivery
      /\ at = "end" => task' = None
  <2>1. at # "end" => [order |-> o, at |-> at] \in Delivery
    BY <1>1 DEF Delivery
  <2>2. QED
    BY <1>2, <2>1, ShopAssumption
<1>5. TypeOK'
  BY <1>2, <1>3, <1>4 DEF IInv, TypeOK
<1>6. TaskInv'
  <2>1. "gate" \notin Ready /\ "send" \notin Ready
    BY ShopAssumption
  <2>2. QED
    BY <1>1, <1>3, <1>4, <2>1 DEF TaskInv
<1>7. DeliverStep
  <2>1. \A x \in Placed : x \in Placed' /\ (order[x].status \in Paid => order'[x].status \in Paid)
    BY <1>1, <1>3 DEF Placed
  <2>2. ASSUME NEW x \in Orders, NEW p \in Products, Ungiven(x, p)'
        PROVE  Ungiven(x, p)
    <3>1. CASE x = o
      BY <1>0, <1>1, <1>3, <1>4, <2>2, <3>1 DEF Ungiven
    <3>2. CASE x # o
      BY <1>3, <1>4, <2>2, <3>2 DEF Ungiven
    <3>3. QED
      BY <3>1, <3>2
  <2>3. ASSUME NEW x \in Orders, NEW p \in Products, given'[x][p] # given[x][p]
        PROVE  /\ given'[x][p] = given[x][p] + 1 /\ x \in Placed /\ order[x].status \in Paid
               /\ Ungiven(x, p) /\ ~Ungiven(x, p)'
    <3>1. /\ x = o /\ p = task.at /\ given'[x][p] = given[x][p] + 1 /\ at = "send"
          /\ row.sent[p] # "pending"
      BY <1>0, <2>3
    <3>2. p # "send"
      BY ShopAssumption
    <3>3. ~Ungiven(x, p)'
      BY <1>1, <1>3, <1>4, <3>1, <3>2 DEF Ungiven
    <3>4. QED
      BY <1>0, <1>1, <3>1, <3>3 DEF Ungiven
  <2>4. again \subseteq again'
    BY <1>2
  <2>5. QED
    BY <2>1, <2>2, <2>3, <2>4 DEF DeliverStep
<1>8. row.status # "receipt_review" /\ row.status # "payment_review"
  BY <1>1 DEF Paid
<1>9. QED
  BY <1>0, <1>1, <1>2, <1>3, <1>5, <1>6, <1>7, <1>8, TouchPreserves

(* The marks of the items of an order.                                     *)
LEMMA SentType ==
  ASSUME TypeOK, NEW o \in Placed
  PROVE  order[o].sent \in [Products -> {"none", "pending", "sending", "sent", "review"}]
BY PlacedRow DEF OrderRow

(* The delivery passes the gate, or is held back there.                    *)
LEMMA PassGatePreserves == IInv /\ PassGate => IInv'
<1>. SUFFICES ASSUME IInv, PassGate PROVE IInv'
  OBVIOUS
<1>1. PICK o : o = task.order
  OBVIOUS
<1>2. /\ task # None /\ task.at = "gate" /\ UNCHANGED given
      /\ o \in Placed /\ order[o] \in OrderRow
  BY <1>1, PlacedRow DEF PassGate, IInv, TaskInv
<1>3. order[o].locked \in BOOLEAN
  BY <1>2 DEF OrderRow
<1>4. PICK v \in BOOLEAN, at \in {"send", "end"} : DeliveryStep([order[o] EXCEPT !.locked = v], at)
  <2>1. CASE PendingItems(o) # {} /\ ~member[order[o].user]
    BY <1>1, <2>1 DEF PassGate
  <2>2. CASE ~(PendingItems(o) # {} /\ ~member[order[o].user])
    <3>1. CASE PendingItems(o) = {}
      BY <1>1, <1>3, <2>2, <3>1 DEF PassGate
    <3>2. CASE PendingItems(o) # {}
      BY <1>1, <2>2, <3>2 DEF PassGate
    <3>3. QED
      BY <3>1, <3>2
  <2>3. QED
    BY <2>1, <2>2
<1>. DEFINE row == [order[o] EXCEPT !.locked = v]
<1>5. /\ row \in OrderRow /\ row.status = order[o].status /\ row.sent = order[o].sent
      /\ SameTerms(row, order[o]) /\ SameFlags(row, order[o]) /\ row.receipt = order[o].receipt
  BY <1>2, SideFields
<1>. HIDE DEF row
<1>6. Alike(row, order[o])
  BY <1>5 DEF Alike
<1>7. /\ at \notin Ready /\ at \notin Products /\ at \in {"gate", "send", "end"} \union Ready
      /\ given' \in [Orders -> [Products -> Nat]]
  BY <1>2, ShopAssumption DEF IInv, TypeOK
<1>8. \A p \in Products : row.sent[p] = "pending" \/ at = p => Ungiven(o, p)
  BY <1>5, <1>7 DEF Ungiven
<1>9. DeliveryStep(row, at)
  BY <1>4 DEF row
<1>10. QED
  BY <1>1, <1>2, <1>5, <1>6, <1>7, <1>8, <1>9, DeliveryPreserves

(* An item is marked, then sent and marked with the answer.                *)
LEMMA ItemPreserves ==
  ASSUME IInv, NEW p \in Ready, StartItem(p) \/ FinishItem(p)
  PROVE  IInv'
<1>1. PICK o : o = task.order
  OBVIOUS
<1>2. /\ task # None /\ o \in Placed /\ o \in Orders /\ order[o] \in OrderRow /\ p \in Products
      /\ order[o].sent \in [Products -> {"none", "pending", "sending", "sent", "review"}]
  BY <1>1, PlacedRow, SentType, ShopAssumption DEF StartItem, FinishItem, IInv, TaskInv
<1>3. ASSUME NEW v \in {"sending", "sent", "review"}
      PROVE  LET row == [order[o] EXCEPT !.sent[p] = v] IN
             /\ row \in OrderRow /\ Alike(row, order[o]) /\ row.sent[p] = v
             /\ \A q \in Products \ {p} : row.sent[q] = order[o].sent[q]
  <2>. DEFINE marks == [order[o].sent EXCEPT ![p] = v]
  <2>1. marks \in [Products -> {"none", "pending", "sending", "sent", "review"}]
    BY <1>2
  <2>2. marks[p] = v /\ \A q \in Products \ {p} : marks[q] = order[o].sent[q]
    BY <1>2
  <2>. HIDE DEF marks
  <2>. DEFINE row == [order[o] EXCEPT !.sent = marks]
  <2>3. /\ row \in OrderRow /\ row.status = order[o].status /\ row.sent = marks
        /\ SameTerms(row, order[o]) /\ SameFlags(row, order[o]) /\ row.receipt = order[o].receipt
    BY <1>2, <2>1, SentField
  <2>4. [order[o] EXCEPT !.sent[p] = v] = row
    BY DEF marks
  <2>. HIDE DEF row
  <2>5. QED
    BY <2>2, <2>3, <2>4 DEF Alike
<1>4. CASE StartItem(p)
  <2>. DEFINE row == [order[o] EXCEPT !.sent[p] = "sending"]
  <2>1. /\ row \in OrderRow /\ Alike(row, order[o]) /\ row.sent[p] = "sending"
        /\ \A q \in Products \ {p} : row.sent[q] = order[o].sent[q]
    BY <1>3
  <2>2. DeliveryStep(row, p) /\ order[o].sent[p] = "pending" /\ given' = given
    BY <1>1, <1>4 DEF StartItem, PendingItems
  <2>. HIDE DEF row
  <2>3. given' \in [Orders -> [Products -> Nat]]
    BY <2>2 DEF IInv, TypeOK
  <2>4. \A q \in Products : row.sent[q] = "pending" \/ p = q => Ungiven(o, q)
    BY <2>1, <2>2 DEF Ungiven
  <2>5. \A x \in Orders, q \in Products :
          \/ given'[x][q] = given[x][q]
          \/ /\ x = task.order /\ q = task.at /\ p = "send"
             /\ given'[x][q] = given[x][q] + 1 /\ row.sent[q] # "pending"
    BY <2>2
  <2>6. \A q \in Products : row.sent[q] = "pending" \/ p = q => Ungiven(task.order, q)
    BY <1>1, <2>4
  <2>7. Alike(row, order[task.order]) /\ p \in {"gate", "send", "end"} \union Ready
    BY <1>1, <2>1
  <2>8. QED
    BY <1>2, <2>1, <2>2, <2>3, <2>5, <2>6, <2>7, DeliveryPreserves
<1>5. CASE FinishItem(p)
  <2>1. PICK answer \in {"sent", "refused", "unknown"} :
          /\ given' = [given EXCEPT ![o][p] = IF answer = "refused" THEN @ ELSE @ + 1]
          /\ DeliveryStep([order[o] EXCEPT !.sent[p] = IF answer = "sent" THEN "sent" ELSE "review"], "send")
    BY <1>1, <1>5 DEF FinishItem
  <2>2. PICK v \in {"sending", "sent", "review"} :
          v # "sending" /\ v = IF answer = "sent" THEN "sent" ELSE "review"
    OBVIOUS
  <2>. DEFINE row == [order[o] EXCEPT !.sent[p] = v]
  <2>3. /\ row \in OrderRow /\ Alike(row, order[o]) /\ row.sent[p] = v
        /\ \A q \in Products \ {p} : row.sent[q] = order[o].sent[q]
    BY <1>3
  <2>4. DeliveryStep(row, "send") /\ task.at = p
    BY <1>5, <2>1, <2>2 DEF FinishItem
  <2>. HIDE DEF row
  <2>5. given \in [Orders -> [Products -> Nat]]
    BY DEF IInv, TypeOK
  <2>6. /\ given' \in [Orders -> [Products -> Nat]]
        /\ \A x \in Orders, q \in Products :
             \/ given'[x][q] = given[x][q]
             \/ x = o /\ q = p /\ given'[x][q] = given[x][q] + 1
    <3>1. PICK n \in Nat : n = (IF answer = "refused" THEN given[o][p] ELSE given[o][p] + 1)
      BY <1>2, <2>5
    <3>2. given' = [given EXCEPT ![o][p] = n]
      BY <2>1, <3>1
    <3>3. n = given[o][p] \/ n = given[o][p] + 1
      BY <3>1
    <3>4. given' \in [Orders -> [Products -> Nat]]
      BY <1>2, <2>5, <3>2
    <3>5. QED
      BY <1>2, <2>5, <3>2, <3>3, <3>4
  <2>7. \A q \in Products : row.sent[q] = "pending" \/ "send" = q => Ungiven(o, q)
    BY <2>2, <2>3, ShopAssumption DEF Ungiven
  <2>8. "send" \notin Ready
    BY ShopAssumption
  <2>9. row.sent[p] # "pending"
    BY <2>2, <2>3
  <2>10. \A x \in Orders, q \in Products :
           \/ given'[x][q] = given[x][q]
           \/ /\ x = task.order /\ q = task.at /\ "send" = "send"
              /\ given'[x][q] = given[x][q] + 1 /\ row.sent[q] # "pending"
    BY <1>1, <2>4, <2>6, <2>9
  <2>11. \A q \in Products : row.sent[q] = "pending" \/ "send" = q => Ungiven(task.order, q)
    BY <1>1, <2>7
  <2>12. Alike(row, order[task.order])
    BY <1>1, <2>3
  <2>13. QED
    BY <1>2, <2>3, <2>4, <2>6, <2>8, <2>10, <2>11, <2>12, DeliveryPreserves
<1>6. QED
  BY <1>4, <1>5

(* The end of a delivery.                                                  *)
LEMMA FinishDeliveryPreserves == IInv /\ FinishDelivery => IInv'
<1>. SUFFICES ASSUME IInv, FinishDelivery PROVE IInv'
  OBVIOUS
<1>1. PICK o : o = task.order
  OBVIOUS
<1>2. /\ task # None /\ UNCHANGED given
      /\ o \in Placed /\ order[o] \in OrderRow /\ order[o].status \in Paid
  BY <1>1, PlacedRow DEF FinishDelivery, IInv, TaskInv
<1>3. order[o].status \in Statuses /\ "delivered" \in Statuses /\ "delivered" \in Paid
  BY <1>2 DEF OrderRow, Statuses, Paid
<1>4. PICK v \in Statuses : v \in Paid /\ DeliveryStep([order[o] EXCEPT !.status = v], "end")
  <2>1. CASE \A p \in Lines(order[o].items) : order[o].sent[p] = "sent"
    BY <1>1, <1>3, <2>1 DEF FinishDelivery
  <2>2. CASE ~\A p \in Lines(order[o].items) : order[o].sent[p] = "sent"
    BY <1>1, <1>2, <1>3, <2>2 DEF FinishDelivery
  <2>3. QED
    BY <2>1, <2>2
<1>. DEFINE row == [order[o] EXCEPT !.status = v]
<1>5. /\ row \in OrderRow /\ row.status = v /\ row.sent = order[o].sent
      /\ SameTerms(row, order[o]) /\ SameFlags(row, order[o]) /\ row.receipt = order[o].receipt
  BY <1>2, StatusField
<1>6. DeliveryStep(row, "end")
  BY <1>4
<1>. HIDE DEF row
<1>7. Alike(row, order[o])
  BY <1>2, <1>4, <1>5 DEF Alike
<1>8. /\ "end" \notin Ready /\ "end" \notin Products
      /\ given' \in [Orders -> [Products -> Nat]]
  BY <1>2, ShopAssumption DEF IInv, TypeOK
<1>9. \A p \in Products : row.sent[p] = "pending" \/ "end" = p => Ungiven(o, p)
  BY <1>5, <1>8 DEF Ungiven
<1>10. QED
  BY <1>1, <1>2, <1>5, <1>6, <1>7, <1>8, <1>9, DeliveryPreserves

(* Marks are set by the tick or by an administrator.                       *)
LEMMA MarksPreserve ==
  ASSUME IInv, NEW o \in Orders, TickReviews(o) \/ AdminDeliversAgain(o)
  PROVE  IInv'
<1>. DEFINE Marks == [Products -> {"none", "pending", "sending", "sent", "review"}]
<1>1. /\ task = None /\ o \in Placed /\ order[o] \in OrderRow /\ order[o].status \in Paid
      /\ order[o].sent \in Marks /\ TypeOK
  BY PlacedRow, SentType DEF IInv, TickReviews, AdminDeliversAgain, Idle
<1>2. PICK marks \in Marks :
        /\ order' = [order EXCEPT ![o] = [order[o] EXCEPT !.sent = marks]]
        /\ TickReviews(o) => \A p \in Products : marks[p] = "pending" => order[o].sent[p] = "pending"
  <2>1. CASE TickReviews(o)
    <3>. DEFINE marks == [p \in Products |-> IF order[o].sent[p] = "sending" THEN "review"
                                             ELSE order[o].sent[p]]
    <3>1. marks \in Marks /\ \A p \in Products : marks[p] = "pending" => order[o].sent[p] = "pending"
      BY <1>1
    <3>2. order' = [order EXCEPT ![o] = [order[o] EXCEPT !.sent = marks]]
      BY <2>1 DEF TickReviews, SetOrder
    <3>3. QED
      BY <3>1, <3>2
  <2>2. CASE AdminDeliversAgain(o) /\ ~TickReviews(o)
    <3>. DEFINE marks == [p \in Products |->
                  IF p \in Ready \cap Lines(order[o].items) /\ order[o].sent[p] # "sent" THEN "pending"
                  ELSE order[o].sent[p]]
    <3>1. marks \in Marks
      BY <1>1
    <3>2. order' = [order EXCEPT ![o] = [order[o] EXCEPT !.sent = marks]]
      BY <2>2 DEF AdminDeliversAgain, SetOrder
    <3>3. QED
      BY <2>2, <3>1, <3>2
  <2>3. QED
    BY <2>1, <2>2
<1>. DEFINE row == [order[o] EXCEPT !.sent = marks]
<1>3. /\ row \in OrderRow /\ row.status = order[o].status /\ row.sent = marks
      /\ SameTerms(row, order[o]) /\ SameFlags(row, order[o]) /\ row.receipt = order[o].receipt
  BY <1>1, SentField
<1>4. order' = [order EXCEPT ![o] = row]
  BY <1>2
<1>. HIDE DEF row, Marks
<1>5. /\ order' \in [Orders -> OrderRow \union {None}]
      /\ order'[o] = row /\ \A x \in Orders \ {o} : order'[x] = order[x]
      /\ Placed' = Placed \union {o}
  BY <1>1, <1>3, <1>4, SavedRow
<1>6. Placed' = Placed /\ row # None
  BY <1>1, <1>3, <1>5, ShopAssumption
<1>7. /\ UNCHANGED <<product, coupon, points, events, cart, flow, bank, member, given, supply>>
      /\ \/ TickReviews(o) /\ UNCHANGED <<task, again>>
         \/ AdminDeliversAgain(o) /\ task' = [order |-> o, at |-> "gate"] /\ again' = again \union {o}
  BY DEF TickReviews, AdminDeliversAgain, SetOrder, history
<1>8. task' \in Delivery \union {None} /\ again' \in SUBSET Orders
  BY <1>1, <1>7 DEF TypeOK, Delivery
<1>9. TypeOK'
  BY <1>1, <1>5, <1>7, <1>8 DEF TypeOK
<1>10. "gate" \notin Products /\ "gate" \notin Ready
  BY ShopAssumption
<1>11. task' = None \/ task' = [order |-> o, at |-> "gate"]
  BY <1>1, <1>7
<1>12. TaskInv'
  BY <1>1, <1>3, <1>5, <1>6, <1>10, <1>11 DEF TaskInv
<1>13. DeliverStep
  <2>1. again \subseteq again'
    BY <1>7
  <2>2. \A x \in Placed : x \in Placed' /\ (order[x].status \in Paid => order'[x].status \in Paid)
    BY <1>1, <1>3, <1>5, <1>6 DEF Placed
  <2>3. ASSUME NEW x \in Orders \ again', NEW p \in Products, Ungiven(x, p)'
        PROVE  Ungiven(x, p)
    <3>1. CASE x = o
      <4>1. TickReviews(o)
        BY <1>7, <2>3, <3>1
      <4>2. order'[o].sent[p] = "pending"
        BY <1>6, <1>10, <1>11, <2>3, <3>1, <1>1 DEF Ungiven
      <4>3. QED
        BY <1>2, <1>3, <1>5, <3>1, <4>1, <4>2 DEF Ungiven
    <3>2. CASE x # o
      BY <1>5, <1>6, <1>10, <1>11, <2>3, <3>2 DEF Ungiven
    <3>3. QED
      BY <3>1, <3>2
  <2>4. QED
    BY <1>7, <2>1, <2>2, <2>3 DEF DeliverStep
<1>14. Alike(order'[o], order[o])
  BY <1>3, <1>5 DEF Alike
<1>15. order'[o].status # "receipt_review" /\ order'[o].status # "payment_review"
  BY <1>1, <1>3, <1>5 DEF Paid
<1>16. QED
  BY <1>1, <1>5, <1>6, <1>7, <1>9, <1>12, <1>13, <1>14, <1>15, TouchPreserves

(* A delivery is taken up again, or lost with what was on its way.         *)
LEMMA TaskPreserves ==
  ASSUME IInv, Evict \/ \E o \in Orders : RetryLocked(o)
  PROVE  IInv'
<1>1. /\ UNCHANGED <<product, coupon, points, events, order, cart, flow, bank, member, supply, again>>
      /\ Placed' = Placed
  BY DEF Evict, RetryLocked, rows, history, Placed
<1>2. /\ task' \in Delivery \union {None} /\ TaskInv'
      /\ task' = None \/ task'.at = "gate"
  <2>1. CASE Evict
    BY <2>1 DEF Evict, TaskInv
  <2>2. CASE \E o \in Orders : RetryLocked(o)
    <3>1. PICK o \in Orders : /\ o \in Placed /\ order[o].status \in Paid
                              /\ task' = [order |-> o, at |-> "gate"]
      BY <2>2 DEF RetryLocked
    <3>2. "gate" \notin Ready
      BY ShopAssumption
    <3>3. task' \in Delivery
      BY <3>1 DEF Delivery
    <3>4. TaskInv'
      BY <1>1, <3>1, <3>2 DEF TaskInv
    <3>5. QED
      BY <3>1, <3>3, <3>4
  <2>3. QED
    BY <2>1, <2>2
<1>3. \/ given' = given
      \/ /\ task # None /\ task' = None /\ task.at \in Ready
         /\ given' = [given EXCEPT ![task.order][task.at] = @ + 1]
  BY DEF Evict, RetryLocked, history
<1>4. /\ given' \in [Orders -> [Products -> Nat]]
      /\ \A o \in Orders, p \in Products :
           \/ given'[o][p] = given[o][p]
           \/ /\ task # None /\ task' = None /\ o = task.order /\ p = task.at /\ p \in Ready
              /\ given'[o][p] = given[o][p] + 1
  <2>1. given \in [Orders -> [Products -> Nat]]
    BY DEF IInv, TypeOK
  <2>2. CASE given' = given
    BY <2>1, <2>2
  <2>3. CASE given' # given
    <3>1. PICK o, p : o = task.order /\ p = task.at
      OBVIOUS
    <3>2. task \in Delivery /\ o \in Orders /\ p \in Products
      BY <1>3, <2>3, <3>1, ShopAssumption DEF IInv, TypeOK, Delivery
    <3>3. PICK n \in Nat : n = given[o][p] + 1
      BY <2>1, <3>2
    <3>4. given' = [given EXCEPT ![o][p] = n]
      BY <1>3, <2>3, <3>1, <3>3
    <3>5. given' \in [Orders -> [Products -> Nat]]
      BY <2>1, <3>2, <3>4
    <3>6. QED
      BY <1>3, <2>1, <2>3, <3>1, <3>2, <3>3, <3>4, <3>5
  <2>4. QED
    BY <2>2, <2>3
<1>5. TypeOK'
  BY <1>1, <1>2, <1>4 DEF IInv, TypeOK
<1>6. DeliverStep
  <2>1. \A x \in Placed : x \in Placed' /\ (order[x].status \in Paid => order'[x].status \in Paid)
    BY <1>1
  <2>2. "gate" \notin Products
    BY ShopAssumption
  <2>3. \A x \in Orders, p \in Products : Ungiven(x, p)' => Ungiven(x, p)
    BY <1>1, <1>2, <2>2 DEF Ungiven
  <2>4. ASSUME NEW x \in Orders, NEW p \in Products, given'[x][p] # given[x][p]
        PROVE  /\ given'[x][p] = given[x][p] + 1 /\ x \in Placed /\ order[x].status \in Paid
               /\ Ungiven(x, p) /\ ~Ungiven(x, p)'
    <3>1. /\ task # None /\ task' = None /\ x = task.order /\ p = task.at /\ p \in Ready
          /\ given'[x][p] = given[x][p] + 1
      BY <1>4, <2>4
    <3>2. x \in Placed /\ order[x].status \in Paid /\ order[x].sent[p] = "sending"
      BY <3>1 DEF IInv, TaskInv
    <3>3. QED
      BY <1>1, <3>1, <3>2 DEF Ungiven
  <2>5. QED
    BY <1>1, <2>1, <2>3, <2>4 DEF DeliverStep
<1>7. GivenInv' /\ GivenForPaid'
  BY <1>5, <1>6, DeliverPreserves
<1>8. \A x \in Placed' : RowInv(x)' /\ PaidFor(x)'
  <2>. SUFFICES ASSUME NEW x \in Placed PROVE RowInv(x)' /\ PaidFor(x)'
    BY <1>1
  <2>1. RowInv(x) /\ PaidFor(x)
    BY TwoHalves DEF IInv
  <2>2. QED
    BY <1>1, <2>1 DEF RowInv, PaidFor
<1>9. EventInv'
  BY <1>1 DEF IInv, EventInv
<1>10. ReservationsAccounted'
  BY <1>1, <1>5, CalmPreserves
<1>11. QED
  BY <1>2, <1>5, <1>7, <1>8, <1>9, <1>10, TwoHalves DEF IInv

-----------------------------------------------------------------------------
(* Steps that move goods, coupon and points *)

(* What a step has to show that changes one order and the accounts.        *)
LEMMA OrderPreserves ==
  ASSUME IInv, TypeOK', NEW o \in Orders, Balanced(o), RowInv(o)', PaidFor(o)', BankKept,
         EventInv', TaskInv', DeliverStep
  PROVE  IInv'
<1>1. \A x \in Orders \ {o} : order'[x] = order[x]
  BY DEF Balanced
<1>2. \A x \in Placed' : RowInv(x)' /\ PaidFor(x)'
  BY <1>1, OthersFine
<1>3. GivenInv' /\ GivenForPaid'
  BY DeliverPreserves
<1>4. ReservationsAccounted'
  BY BalancedPreserves
<1>5. QED
  BY <1>2, <1>3, <1>4, TwoHalves DEF IInv

(* An order that is not paid has not been settled, is not late, and its    *)
(* points were booked back only if it was released.                        *)
LEMMA UnpaidRow ==
  ASSUME IInv, NEW o \in Placed, order[o].status \notin Paid
  PROVE  /\ o \in Orders /\ order[o] \in OrderRow /\ order[o] # None /\ TypeOK
         /\ ~order[o].settled /\ ~order[o].late
         /\ order[o].couponReleased => order[o].released
         /\ <<"order", o>> \notin events
         /\ <<"refundpoints", o>> \in events => order[o].released
<1>1. RowInv(o) /\ o \in Orders /\ order[o] # None
  BY DEF IInv, Placed
<1>2. QED
  BY <1>1, PlacedRow DEF IInv, RowInv, EventInv

(* The coupon's reservation of such an order can be taken back.            *)
LEMMA ReservedOnce ==
  ASSUME IInv, NEW o \in Reserving, ~LateCoupon
  PROVE  coupon.reserved >= 1 /\ coupon.used + coupon.reserved <= MaxUses
<1>1. coupon.reserved = Cardinality(Reserving) /\ coupon.used + coupon.reserved <= MaxUses
  BY DEF IInv, ReservationsAccounted
<1>2. Cardinality(Reserving) >= 1
  BY CountedFinite, CountChanges
<1>3. QED
  BY <1>1, <1>2

(* What a step does to the points of one user.                             *)
LEMMA PointsMove ==
  ASSUME points \in [Users -> Nat], NEW u \in Users, NEW n \in Nat, points' = [points EXCEPT ![u] = n]
  PROVE  points' \in [Users -> Nat] /\ points'[u] = n /\ \A v \in Users \ {u} : points'[v] = points[v]
OBVIOUS

(* What a step does to the shelf.                                          *)
LEMMA StockMove ==
  ASSUME product \in [Products -> [stock : Nat, price : Price, hidden : BOOLEAN]],
         NEW n \in [Products -> Nat],
         product' = [p \in Products |-> [product[p] EXCEPT !.stock = n[p]]]
  PROVE  /\ product' \in [Products -> [stock : Nat, price : Price, hidden : BOOLEAN]]
         /\ \A p \in Products : product'[p].stock = n[p]
OBVIOUS

(* What a step does to the coupon.                                         *)
LEMMA CouponMove ==
  ASSUME coupon \in [used : Nat, reserved : Nat, hidden : BOOLEAN], NEW n \in Nat, NEW m \in Nat,
         coupon' = [coupon EXCEPT !.used = n, !.reserved = m]
  PROVE  /\ coupon' \in [used : Nat, reserved : Nat, hidden : BOOLEAN]
         /\ coupon'.used = n /\ coupon'.reserved = m
OBVIOUS

(* An order gives back what it held: once.                                 *)
LEMMA ReleasesPreserves ==
  ASSUME IInv, task = None, NEW o \in Placed, NEW status \in {"cancelled", "rejected", "expired"},
         Releases(o, status)
  PROVE  IInv'
<1>. DEFINE old == order[o]
            event == <<"refundpoints", o>>
<1>1. /\ old.status \in Open /\ old.status \notin Paid /\ status \in Statuses /\ status \notin Paid
      /\ UNCHANGED <<cart, flow, task, bank, member, given, supply, again>>
  BY DEF Releases, history, Open, Paid, Statuses
<1>2. /\ o \in Orders /\ old \in OrderRow /\ TypeOK /\ ~old.settled /\ ~old.late
      /\ old.couponReleased => old.released
      /\ <<"order", o>> \notin events /\ (event \in events => old.released)
  BY <1>1, UnpaidRow
<1>3. CASE old.released
  <2>. DEFINE row == [old EXCEPT !.status = status]
  <2>1. order' = [order EXCEPT ![o] = row] /\ UNCHANGED <<product, coupon, points, events>>
    BY <1>3 DEF Releases
  <2>2. /\ row \in OrderRow /\ row.status = status /\ row.sent = old.sent
        /\ SameTerms(row, old) /\ SameFlags(row, old) /\ row.receipt = old.receipt
    BY <1>1, <1>2, StatusField
  <2>. HIDE DEF row
  <2>3. Alike(row, old)
    BY <1>1, <2>2 DEF Alike
  <2>4. QED
    BY <1>1, <2>1, <2>2, <2>3, RowPreserves
<1>4. CASE ~old.released
  <2>0. PICK back \in BOOLEAN : back = (old.coupon /\ ~old.settled)
    OBVIOUS
  <2>. DEFINE row == [old EXCEPT !.status = status, !.released = TRUE, !.couponReleased = back]
  <2>1. /\ product' = [p \in Products |-> [product[p] EXCEPT !.stock = product[p].stock + old.items[p]]]
        /\ coupon' = IF old.coupon
                     THEN [coupon EXCEPT !.reserved = IF @ = 0 THEN 0 ELSE @ - 1] ELSE coupon
        /\ points' = [points EXCEPT ![old.user] = Rewarded(old.user, old.points, event)]
        /\ events' = events \cup Booked(old.points, event)
        /\ order' = [order EXCEPT ![o] = row]
    BY <1>2, <1>4, <2>0 DEF Releases
  <2>2. /\ old.user \in Users /\ old.points \in Nat /\ old.coupon \in BOOLEAN
        /\ old.items \in [Products -> Nat] /\ back = old.coupon
    BY <1>2, <2>0 DEF OrderRow, Items
  <2>3. /\ row \in OrderRow /\ row.status = status /\ row.sent = old.sent
        /\ SameTerms(row, old) /\ row.receipt = old.receipt
        /\ row.released /\ row.couponReleased = old.coupon
        /\ row.settled = old.settled /\ row.source = old.source /\ row.late = old.late
    <3>1. old \in OrderRow
      BY <1>2
    <3>2. /\ row \in OrderRow /\ row.status = status /\ row.sent = old.sent
          /\ SameTerms(row, old) /\ row.receipt = old.receipt
          /\ row.released /\ row.couponReleased = back
          /\ row.settled = old.settled /\ row.source = old.source /\ row.late = old.late
      <4>. HIDE DEF old
      <4>1. QED
        BY <1>1, <3>1 DEF OrderRow, SameTerms
    <3>3. QED
      BY <2>2, <3>2
  <2>. HIDE DEF row
  <2>4. /\ order' \in [Orders -> OrderRow \union {None}]
        /\ order'[o] = row /\ \A x \in Orders \ {o} : order'[x] = order[x]
        /\ Placed' = Placed
    <3>1. Placed' = Placed \union {o}
          /\ order' \in [Orders -> OrderRow \union {None}]
          /\ order'[o] = row /\ \A x \in Orders \ {o} : order'[x] = order[x]
      BY <1>2, <2>1, <2>3, SavedRow
    <3>2. QED
      BY <3>1
  <2>5. /\ product' \in [Products -> [stock : Nat, price : Price, hidden : BOOLEAN]]
        /\ \A p \in Products : product'[p].stock = product[p].stock + old.items[p]
    <3>. DEFINE n == [p \in Products |-> product[p].stock + old.items[p]]
    <3>1. product \in [Products -> [stock : Nat, price : Price, hidden : BOOLEAN]]
      BY <1>2 DEF TypeOK
    <3>2. n \in [Products -> Nat]
      BY <2>2, <3>1
    <3>3. product' = [p \in Products |-> [product[p] EXCEPT !.stock = n[p]]]
      BY <2>1
    <3>4. \A p \in Products : n[p] = product[p].stock + old.items[p]
      OBVIOUS
    <3>. HIDE DEF n
    <3>5. QED
      BY <3>1, <3>2, <3>3, <3>4, StockMove
  <2>6. /\ coupon' \in [used : Nat, reserved : Nat, hidden : BOOLEAN] /\ coupon'.used = coupon.used
        /\ ~old.coupon => coupon'.reserved = coupon.reserved
        /\ old.coupon /\ coupon.reserved >= 1 => coupon'.reserved = coupon.reserved - 1
    <3>1. coupon \in [used : Nat, reserved : Nat, hidden : BOOLEAN]
      BY <1>2 DEF TypeOK
    <3>2. QED
      BY <2>1, <3>1
  <2>7. /\ points' \in [Users -> Nat] /\ points'[old.user] = points[old.user] + old.points
        /\ \A v \in Users \ {old.user} : points'[v] = points[v]
    <3>1. points \in [Users -> Nat]
      BY <1>2 DEF TypeOK
    <3>2. Rewarded(old.user, old.points, event) = points[old.user] + old.points
      BY <1>2, <1>4 DEF Rewarded
    <3>3. points[old.user] + old.points \in Nat
      BY <2>2, <3>1
    <3>4. QED
      BY <2>1, <2>2, <3>1, <3>2, <3>3, PointsMove
  <2>8. TypeOK'
    BY <1>1, <1>2, <2>4, <2>5, <2>6, <2>7 DEF TypeOK
  <2>9. Balanced(o)
    <3>1. Moved(o)
      <4>1. ASSUME NEW p \in Products
            PROVE  product'[p].stock + HeldItems(o, p)' - supply'[p]
                     = product[p].stock + HeldItems(o, p) - supply[p]
        <5>1. HeldItems(o, p) = old.items[p] /\ HeldItems(o, p)' = 0
          BY <1>4, <2>3, <2>4 DEF HeldItems, Holds
        <5>2. product[p].stock \in Nat /\ supply[p] \in Int /\ old.items[p] \in Nat
          BY <1>2, <2>2 DEF TypeOK
        <5>3. product'[p].stock = product[p].stock + old.items[p] /\ supply'[p] = supply[p]
          BY <1>1, <2>5
        <5>4. QED
          BY <5>1, <5>2, <5>3
      <4>2. ASSUME NEW v \in Users
            PROVE  points'[v] + HeldPoints(o, v)' - EarnedPoints(o, v)'
                     = points[v] + HeldPoints(o, v) - EarnedPoints(o, v)
        <5>1. /\ HeldPoints(o, v)' = 0 /\ EarnedPoints(o, v)' = 0 /\ EarnedPoints(o, v) = 0
              /\ HeldPoints(o, v) = IF v = old.user THEN old.points ELSE 0
          BY <1>1, <1>4, <2>3, <2>4 DEF HeldPoints, EarnedPoints, Holds
        <5>2. points[v] \in Nat
          BY <1>2 DEF TypeOK
        <5>3. QED
          BY <2>2, <2>7, <5>1, <5>2
      <4>3. QED
        BY <4>1, <4>2 DEF Moved
    <3>2. Counted(o)
      <4>1. /\ o \notin Settled /\ o \notin Settled' /\ o \notin Reserving'
            /\ o \in Reserving <=> old.coupon
        BY <1>2, <1>4, <2>3, <2>4 DEF Settled, Reserving, SameTerms
      <4>2. ~LateCoupon' => ~LateCoupon
        BY <1>2, <2>4 DEF LateCoupon, Placed
      <4>3. coupon.used \in Nat /\ coupon.reserved \in Nat /\ MaxUses \in Nat
        BY <1>2, ShopAssumption DEF TypeOK
      <4>4. CASE old.coupon
        BY <2>6, <4>1, <4>2, <4>3, <4>4, ReservedOnce DEF Counted, One
      <4>5. CASE ~old.coupon
        <5>1. ~LateCoupon => coupon.used + coupon.reserved <= MaxUses
          BY DEF IInv, ReservationsAccounted
        <5>2. QED
          BY <2>6, <4>1, <4>2, <4>3, <4>5, <5>1 DEF Counted, One
      <4>6. QED
        BY <4>4, <4>5
    <3>3. row # None
      BY <2>3, ShopAssumption
    <3>4. QED
      BY <1>2, <2>4, <3>1, <3>2, <3>3 DEF Balanced
  <2>10. RowInv(o)' /\ PaidFor(o)' /\ BankKept
    BY <1>1, <1>2, <2>3, <2>4 DEF RowInv, PaidFor, BankKept
  <2>11. EventInv'
    <3>1. events' \subseteq events \union {event}
      BY <2>1 DEF Booked
    <3>2. QED
      BY <1>2, <2>3, <2>4, <3>1 DEF IInv, EventInv
  <2>12. TaskInv'
    BY <1>1 DEF TaskInv
  <2>13. DeliverStep
    <3>1. row # None
      BY <2>3, ShopAssumption
    <3>2. QED
      BY <1>1, <1>2, <2>3, <2>4, <3>1, NotDelivering
  <2>14. QED
    BY <1>2, <2>8, <2>9, <2>10, <2>11, <2>12, <2>13, OrderPreserves
<1>5. QED
  BY <1>3, <1>4

(* An order is approved: for money the bank verified, or by an             *)
(* administrator who had a receipt or that money before him.               *)
LEMMA ApprovesPreserves ==
  ASSUME IInv, NEW o \in Placed, NEW source \in {"gateway", "admin"}, order[o].status \notin Paid,
         source = "gateway" => bank[o] = "paid",
         source = "admin" => order[o].receipt \/ bank[o] = "paid",
         Approves(o, order[o], source, product, coupon, points, events),
         UNCHANGED <<cart, flow, bank, member, given, supply, again>>
  PROVE  IInv'
<1>. DEFINE old == order[o]
            earned == old.total \div EarnUnit
            row == [old EXCEPT !.status = "paid", !.released = FALSE, !.couponReleased = FALSE,
                      !.settled = old.coupon, !.source = source, !.late = old.released]
<1>1. /\ o \in Orders /\ old \in OrderRow /\ TypeOK /\ ~old.settled /\ ~old.late
      /\ old.couponReleased => old.released
      /\ <<"order", o>> \notin events
  BY UnpaidRow
<1>2. /\ old.released => \A p \in Products : product[p].stock >= old.items[p]
      /\ old.released => points[old.user] >= old.points \/ <<"latepoints", o>> \in events
      /\ product' = [p \in Products |->
           IF old.released THEN [product[p] EXCEPT !.stock = product[p].stock - old.items[p]] ELSE product[p]]
      /\ coupon' = IF old.coupon
                   THEN [coupon EXCEPT !.used = @ + 1, !.reserved = IF @ = 0 THEN 0 ELSE @ - 1]
                   ELSE coupon
      /\ points' = [points EXCEPT ![old.user] =
           IF earned > 0 THEN @ + earned
           ELSE IF old.released /\ <<"latepoints", o>> \notin events THEN @ - old.points ELSE @]
      /\ events' \subseteq events \union {<<"order", o>>, <<"latepoints", o>>}
      /\ order' = [order EXCEPT ![o] = row]
      /\ task' = [order |-> o, at |-> "gate"]
  BY <1>1 DEF Approves, Booked
<1>3. /\ old.user \in Users /\ old.points \in Nat /\ old.coupon \in BOOLEAN /\ old.released \in BOOLEAN
      /\ old.items \in [Products -> Nat] /\ earned \in Nat
  BY <1>1, RowAmounts DEF OrderRow, Items
<1>4. /\ row \in OrderRow /\ row.status = "paid" /\ row.sent = old.sent
      /\ SameTerms(row, old) /\ row.receipt = old.receipt
      /\ ~row.released /\ ~row.couponReleased
      /\ row.settled = old.coupon /\ row.source = source /\ row.late = old.released
  <2>1. old \in OrderRow /\ old.coupon \in BOOLEAN /\ old.released \in BOOLEAN
    BY <1>1, <1>3
  <2>. HIDE DEF old
  <2>2. QED
    BY <2>1 DEF OrderRow, SameTerms, Statuses
<1>5. PICK e \in Nat : e = earned
  BY <1>3
<1>. HIDE DEF row, earned
<1>6. /\ order' \in [Orders -> OrderRow \union {None}]
      /\ order'[o] = row /\ \A x \in Orders \ {o} : order'[x] = order[x]
      /\ Placed' = Placed /\ row # None
  <2>1. Placed' = Placed \union {o}
        /\ order' \in [Orders -> OrderRow \union {None}]
        /\ order'[o] = row /\ \A x \in Orders \ {o} : order'[x] = order[x]
    BY <1>1, <1>2, <1>4, SavedRow
  <2>2. QED
    BY <1>4, <2>1, ShopAssumption
<1>7. /\ product' \in [Products -> [stock : Nat, price : Price, hidden : BOOLEAN]]
      /\ \A p \in Products :
           product'[p].stock = product[p].stock - IF old.released THEN old.items[p] ELSE 0
  <2>1. product \in [Products -> [stock : Nat, price : Price, hidden : BOOLEAN]]
    BY <1>1 DEF TypeOK
  <2>2. CASE old.released
    <3>. DEFINE n == [p \in Products |-> product[p].stock - old.items[p]]
    <3>1. n \in [Products -> Nat]
      BY <1>2, <1>3, <2>1, <2>2
    <3>2. product' = [p \in Products |-> [product[p] EXCEPT !.stock = n[p]]]
      BY <1>2, <2>2
    <3>3. \A p \in Products : n[p] = product[p].stock - old.items[p]
      OBVIOUS
    <3>. HIDE DEF n
    <3>4. QED
      BY <2>1, <2>2, <3>1, <3>2, <3>3, StockMove
  <2>3. CASE ~old.released
    <3>1. product' = product
      BY <1>2, <2>1, <2>3
    <3>2. QED
      BY <2>1, <2>3, <3>1
  <2>4. QED
    BY <2>2, <2>3
<1>8. /\ coupon' \in [used : Nat, reserved : Nat, hidden : BOOLEAN]
      /\ ~old.coupon => coupon'.used = coupon.used /\ coupon'.reserved = coupon.reserved
      /\ old.coupon => /\ coupon'.used = coupon.used + 1
                       /\ coupon.reserved >= 1 => coupon'.reserved = coupon.reserved - 1
  <2>1. coupon \in [used : Nat, reserved : Nat, hidden : BOOLEAN]
    BY <1>1 DEF TypeOK
  <2>2. CASE old.coupon
    <3>1. PICK n \in Nat : n = coupon.used + 1
      BY <2>1
    <3>2. PICK m \in Nat : m = IF coupon.reserved = 0 THEN 0 ELSE coupon.reserved - 1
      BY <2>1
    <3>3. coupon' = [coupon EXCEPT !.used = n, !.reserved = m]
      BY <1>2, <2>2, <3>1, <3>2
    <3>4. /\ coupon' \in [used : Nat, reserved : Nat, hidden : BOOLEAN]
          /\ coupon'.used = n /\ coupon'.reserved = m
      BY <2>1, <3>3, CouponMove
    <3>5. coupon.reserved >= 1 => m = coupon.reserved - 1
      BY <2>1, <3>2
    <3>6. QED
      BY <2>2, <3>1, <3>4, <3>5
  <2>3. CASE ~old.coupon
    BY <1>2, <2>1, <2>3
  <2>4. QED
    BY <2>2, <2>3
<1>9. /\ points' \in [Users -> Nat]
      /\ \A v \in Users \ {old.user} : points'[v] = points[v]
      /\ ~old.released => points'[old.user] = points[old.user] + e
  <2>1. points \in [Users -> Nat]
    BY <1>1 DEF TypeOK
  <2>2. PICK n \in Nat :
          /\ n = IF e > 0 THEN points[old.user] + e
                 ELSE IF old.released /\ <<"latepoints", o>> \notin events
                      THEN points[old.user] - old.points ELSE points[old.user]
          /\ points' = [points EXCEPT ![old.user] = n]
    <3>. DEFINE n == IF e > 0 THEN points[old.user] + e
                     ELSE IF old.released /\ <<"latepoints", o>> \notin events
                          THEN points[old.user] - old.points ELSE points[old.user]
    <3>1. n \in Nat
      BY <1>2, <1>3, <2>1
    <3>2. points' = [points EXCEPT ![old.user] = n]
      BY <1>2, <1>5
    <3>. HIDE DEF n
    <3>3. QED
      BY <3>1, <3>2 DEF n
  <2>3. QED
    BY <1>3, <2>1, <2>2, PointsMove
<1>10. task' \in Delivery
  BY <1>1, <1>2 DEF Delivery
<1>11. TypeOK'
  BY <1>1, <1>6, <1>7, <1>8, <1>9, <1>10 DEF TypeOK
<1>12. Moved(o)
  <2>1. ASSUME NEW p \in Products
        PROVE  product'[p].stock + HeldItems(o, p)' - supply'[p]
                 = product[p].stock + HeldItems(o, p) - supply[p]
    <3>1. /\ HeldItems(o, p) = IF old.released THEN 0 ELSE old.items[p]
          /\ HeldItems(o, p)' = old.items[p]
      BY <1>4, <1>6 DEF HeldItems, Holds, SameTerms
    <3>2. product[p].stock \in Nat /\ supply[p] \in Int /\ old.items[p] \in Nat /\ supply'[p] = supply[p]
      BY <1>1, <1>3 DEF TypeOK
    <3>3. QED
      BY <1>7, <3>1, <3>2
  <2>2. ASSUME NEW v \in Users, ~LateFor(v)'
        PROVE  points'[v] + HeldPoints(o, v)' - EarnedPoints(o, v)'
                 = points[v] + HeldPoints(o, v) - EarnedPoints(o, v)
    <3>1. v = old.user => ~old.released
      BY <1>4, <1>6, <2>2 DEF LateFor, SameTerms
    <3>2. /\ EarnedPoints(o, v) = 0
          /\ EarnedPoints(o, v)' = IF v = old.user THEN e ELSE 0
      BY <1>4, <1>5, <1>6 DEF EarnedPoints, SameTerms, Paid, earned
    <3>3. HeldPoints(o, v)' = HeldPoints(o, v) /\ HeldPoints(o, v) \in Nat
      <4>1. HeldPoints(o, v)' = HeldPoints(o, v)
        BY <1>4, <1>6, <3>1 DEF HeldPoints, Holds, SameTerms
      <4>2. QED
        BY <1>1, <4>1, AmountTypes
    <3>4. points[v] \in Nat
      BY <1>1 DEF TypeOK
    <3>5. CASE v = old.user
      BY <1>9, <3>1, <3>2, <3>3, <3>4, <3>5
    <3>6. CASE v # old.user
      BY <1>9, <3>2, <3>3, <3>4, <3>6
    <3>7. QED
      BY <3>5, <3>6
  <2>3. QED
    BY <2>1, <2>2 DEF Moved
<1>13. Counted(o)
  <2>1. /\ o \notin Settled /\ o \notin Reserving' /\ (o \in Settled' <=> old.coupon)
        /\ o \in Reserving <=> old.coupon /\ ~old.couponReleased
    BY <1>1, <1>4, <1>6 DEF Settled, Reserving, SameTerms
  <2>2. ~LateCoupon' => ~LateCoupon /\ ~(old.released /\ old.coupon)
    BY <1>1, <1>4, <1>6 DEF LateCoupon, Placed, SameTerms
  <2>3. coupon.used \in Nat /\ coupon.reserved \in Nat /\ MaxUses \in Nat
    BY <1>1, ShopAssumption DEF TypeOK
  <2>4. CASE old.coupon
    <3>1. ~LateCoupon' => o \in Reserving
      BY <1>1, <2>1, <2>2, <2>4
    <3>2. ~LateCoupon' => coupon.reserved >= 1 /\ coupon.used + coupon.reserved <= MaxUses
      BY <2>2, <3>1, ReservedOnce
    <3>3. /\ One(o \in Settled) = 0 /\ One(o \in Settled') = 1 /\ One(o \in Reserving') = 0
          /\ ~LateCoupon' => One(o \in Reserving) = 1
      BY <2>1, <2>4, <3>1 DEF One
    <3>4. QED
      BY <1>8, <2>3, <2>4, <3>2, <3>3 DEF Counted
  <2>5. CASE ~old.coupon
    <3>1. ~LateCoupon => coupon.used + coupon.reserved <= MaxUses
      BY DEF IInv, ReservationsAccounted
    <3>2. QED
      BY <1>8, <2>1, <2>2, <2>3, <2>5, <3>1 DEF Counted, One
  <2>6. QED
    BY <2>4, <2>5
<1>14. Balanced(o)
  BY <1>1, <1>6, <1>12, <1>13 DEF Balanced
<1>15. RowInv(o)' /\ PaidFor(o)' /\ BankKept
  BY <1>1, <1>4, <1>6 DEF RowInv, PaidFor, BankKept, Paid, SameTerms
<1>16. EventInv'
  BY <1>1, <1>2, <1>4, <1>6 DEF IInv, EventInv, Paid
<1>17. TaskInv'
  <2>1. "gate" \notin Ready
    BY ShopAssumption
  <2>2. QED
    BY <1>1, <1>2, <1>4, <1>6, <2>1 DEF TaskInv, Paid
<1>18. DeliverStep
  BY <1>1, <1>2, <1>4, <1>6, NotDelivering
<1>19. QED
  BY <1>1, <1>11, <1>14, <1>15, <1>16, <1>17, <1>18, OrderPreserves

(* What a new order says; when there is nothing to pay it is approved at   *)
(* once.                                                                   *)
Fresh(row, u, o, q) ==
  /\ row \in OrderRow /\ row.user = u /\ row.items = q.items /\ row.coupon = q.coupon
  /\ row.points = q.points /\ row.total = q.total
  /\ ~row.released /\ ~row.couponReleased /\ ~row.late
  /\ \/ row.status = "awaiting_payment" /\ ~row.settled
     \/ row.status = "paid" /\ row.settled = row.coupon /\ row.source = "free" /\ q.total = 0

LEMMA NewOrderRow ==
  ASSUME NEW u \in Users, NEW o \in Orders, NEW q \in Quote
  PROVE  /\ Fresh(NewOrder(u, o, q), u, o, q)
         /\ NewOrder(u, o, q).status = "awaiting_payment" /\ NewOrder(u, o, q).released = FALSE
<1>. DEFINE sent == [p \in Products |-> IF q.items[p] > 0 THEN "pending" ELSE "none"]
<1>1. /\ q.items \in Items /\ q.total \in Nat /\ q.coupon \in BOOLEAN /\ q.points \in Nat
      /\ MethodOf[o] \in {"manual", "zarinpal"}
  BY ShopAssumption DEF Quote
<1>2. sent \in [Products -> {"none", "pending", "sending", "sent", "review"}]
  OBVIOUS
<1>. HIDE DEF sent
<1>3. NewOrder(u, o, q) =
        [user |-> u, items |-> q.items, total |-> q.total, coupon |-> q.coupon, points |-> q.points,
         method |-> MethodOf[o], status |-> "awaiting_payment", overdue |-> FALSE, authority |-> FALSE,
         receipt |-> FALSE, released |-> FALSE, couponReleased |-> FALSE, settled |-> FALSE,
         source |-> "none", late |-> FALSE, locked |-> FALSE, sent |-> sent]
  BY DEF NewOrder, sent
<1>4. "awaiting_payment" \in Statuses
  BY DEF Statuses
<1>5. NewOrder(u, o, q) \in OrderRow
  BY <1>1, <1>2, <1>3, <1>4 DEF OrderRow
<1>6. QED
  BY <1>3, <1>5 DEF Fresh

(* An order is placed: it takes goods, coupon and points.                  *)
LEMMA PlacePreserves ==
  ASSUME IInv, task = None, NEW u \in Users, NEW o \in Orders, NEW q \in Quote, NEW row,
         Fresh(row, u, o, q), order[o] = None,
         \A p \in Products : product[p].stock >= q.items[p],
         q.coupon => coupon.used + coupon.reserved < MaxUses,
         points[u] >= q.points,
         order' = [order EXCEPT ![o] = row],
         product' = [p \in Products |-> [product[p] EXCEPT !.stock = product[p].stock - q.items[p]]],
         coupon' = IF ~q.coupon THEN coupon
                   ELSE IF row.status = "paid" THEN [coupon EXCEPT !.used = @ + 1]
                   ELSE [coupon EXCEPT !.reserved = @ + 1],
         points' = [points EXCEPT ![u] = points[u] - q.points],
         events' \subseteq events \union {<<"spend", o>>},
         cart' \in [Users -> [items : Items, coupon : BOOLEAN, points : BOOLEAN]],
         flow' \in [Users -> Dialogue \union {None}],
         task' = task \/ (row.status = "paid" /\ task' = [order |-> o, at |-> "gate"]),
         UNCHANGED <<bank, member, given, supply, again>>
  PROVE  IInv'
<1>1. /\ row \in OrderRow /\ row.user = u /\ row.items = q.items /\ row.coupon = q.coupon
      /\ row.points = q.points /\ row.total = q.total
      /\ ~row.released /\ ~row.couponReleased /\ ~row.late
  BY DEF Fresh
<1>2. \/ row.status = "awaiting_payment" /\ ~row.settled
      \/ row.status = "paid" /\ row.settled = row.coupon /\ row.source = "free" /\ row.total = 0
  BY DEF Fresh
<1>3. /\ q.items \in [Products -> Nat] /\ q.points \in Nat /\ q.coupon \in BOOLEAN
      /\ TypeOK /\ o \notin Placed
  BY DEF Quote, Items, IInv, Placed
<1>4. /\ order' \in [Orders -> OrderRow \union {None}]
      /\ order'[o] = row /\ \A x \in Orders \ {o} : order'[x] = order[x]
      /\ Placed' = Placed \union {o} /\ row # None
  BY <1>1, <1>3, SavedRow, ShopAssumption
<1>5. /\ product' \in [Products -> [stock : Nat, price : Price, hidden : BOOLEAN]]
      /\ \A p \in Products : product'[p].stock = product[p].stock - q.items[p]
  <2>. DEFINE n == [p \in Products |-> product[p].stock - q.items[p]]
  <2>1. product \in [Products -> [stock : Nat, price : Price, hidden : BOOLEAN]]
    BY <1>3 DEF TypeOK
  <2>2. n \in [Products -> Nat]
    BY <1>3, <2>1
  <2>3. product' = [p \in Products |-> [product[p] EXCEPT !.stock = n[p]]]
    OBVIOUS
  <2>4. \A p \in Products : n[p] = product[p].stock - q.items[p]
    OBVIOUS
  <2>. HIDE DEF n
  <2>5. QED
    BY <2>1, <2>2, <2>3, <2>4, StockMove
<1>6. /\ coupon' \in [used : Nat, reserved : Nat, hidden : BOOLEAN]
      /\ coupon'.used = coupon.used + One(q.coupon /\ row.status = "paid")
      /\ coupon'.reserved = coupon.reserved + One(q.coupon /\ row.status # "paid")
  <2>1. coupon \in [used : Nat, reserved : Nat, hidden : BOOLEAN]
    BY <1>3 DEF TypeOK
  <2>2. CASE ~q.coupon
    BY <2>1, <2>2 DEF One
  <2>3. CASE q.coupon /\ row.status = "paid"
    BY <2>1, <2>3 DEF One
  <2>4. CASE q.coupon /\ row.status # "paid"
    BY <2>1, <2>4 DEF One
  <2>5. QED
    BY <2>2, <2>3, <2>4
<1>7. /\ points' \in [Users -> Nat] /\ points'[u] = points[u] - q.points
      /\ \A v \in Users \ {u} : points'[v] = points[v]
  <2>1. points \in [Users -> Nat]
    BY <1>3 DEF TypeOK
  <2>2. points[u] - q.points \in Nat
    BY <1>3, <2>1
  <2>3. QED
    BY <2>1, <2>2, PointsMove
<1>8. task' \in Delivery \union {None}
  BY DEF Delivery
<1>9. TypeOK'
  BY <1>3, <1>4, <1>5, <1>6, <1>7, <1>8 DEF TypeOK
<1>10. Moved(o)
  <2>1. ASSUME NEW p \in Products
        PROVE  product'[p].stock + HeldItems(o, p)' - supply'[p]
                 = product[p].stock + HeldItems(o, p) - supply[p]
    <3>1. HeldItems(o, p) = 0 /\ HeldItems(o, p)' = q.items[p]
      BY <1>1, <1>3, <1>4 DEF HeldItems, Holds
    <3>2. product[p].stock \in Nat /\ supply[p] \in Int /\ q.items[p] \in Nat /\ supply'[p] = supply[p]
      BY <1>3 DEF TypeOK
    <3>3. QED
      BY <1>5, <3>1, <3>2
  <2>2. ASSUME NEW v \in Users
        PROVE  points'[v] + HeldPoints(o, v)' - EarnedPoints(o, v)'
                 = points[v] + HeldPoints(o, v) - EarnedPoints(o, v)
    <3>1. HeldPoints(o, v) = 0 /\ EarnedPoints(o, v) = 0
      BY <1>3 DEF HeldPoints, EarnedPoints, Holds
    <3>2. EarnedPoints(o, v)' = 0
      <4>1. row.status = "paid" => row.total \div EarnUnit = 0
        BY <1>2, ShopAssumption
      <4>2. row.status \in Paid => row.status = "paid"
        BY <1>2 DEF Paid
      <4>3. QED
        BY <1>4, <4>1, <4>2 DEF EarnedPoints
    <3>3. HeldPoints(o, v)' = IF v = u THEN q.points ELSE 0
      BY <1>1, <1>4 DEF HeldPoints, Holds
    <3>4. points[v] \in Nat
      BY <1>3 DEF TypeOK
    <3>5. QED
      BY <1>3, <1>7, <3>1, <3>2, <3>3, <3>4
  <2>3. QED
    BY <2>1, <2>2 DEF Moved
<1>11. Counted(o)
  <2>1. o \notin Settled /\ o \notin Reserving
    BY <1>3 DEF Settled, Reserving
  <2>2. /\ o \in Settled' <=> q.coupon /\ row.status = "paid"
        /\ o \in Reserving' <=> q.coupon /\ row.status # "paid"
    BY <1>1, <1>2, <1>4 DEF Settled, Reserving
  <2>3. ~LateCoupon' => ~LateCoupon
    BY <1>3, <1>4 DEF LateCoupon, Placed
  <2>4. ~LateCoupon => coupon.used + coupon.reserved <= MaxUses
    BY DEF IInv, ReservationsAccounted
  <2>5. coupon.used \in Nat /\ coupon.reserved \in Nat /\ MaxUses \in Nat
    BY <1>3, ShopAssumption DEF TypeOK
  <2>6. /\ One(o \in Settled) = 0 /\ One(o \in Reserving) = 0
        /\ One(o \in Settled') = One(q.coupon /\ row.status = "paid")
        /\ One(o \in Reserving') = One(q.coupon /\ row.status # "paid")
    BY <2>1, <2>2 DEF One
  <2>7. /\ coupon'.used - One(o \in Settled') = coupon.used - One(o \in Settled)
        /\ coupon'.reserved - One(o \in Reserving') = coupon.reserved - One(o \in Reserving)
    <3>1. PICK n \in {0, 1} : n = One(q.coupon /\ row.status = "paid")
      BY DEF One
    <3>2. PICK m \in {0, 1} : m = One(q.coupon /\ row.status # "paid")
      BY DEF One
    <3>3. coupon'.used = coupon.used + n /\ One(o \in Settled') = n /\ One(o \in Settled) = 0
      BY <1>6, <2>6, <3>1
    <3>4. coupon'.reserved = coupon.reserved + m /\ One(o \in Reserving') = m /\ One(o \in Reserving) = 0
      BY <1>6, <2>6, <3>2
    <3>5. n \in Nat /\ m \in Nat
      OBVIOUS
    <3>6. (coupon.used + n) - n = coupon.used - 0 /\ (coupon.reserved + m) - m = coupon.reserved - 0
      BY <2>5, <3>5
    <3>7. QED
      BY <3>3, <3>4, <3>6
  <2>8. ASSUME ~LateCoupon'
        PROVE  coupon'.used + coupon'.reserved <= MaxUses
    BY <1>6, <2>3, <2>4, <2>5, <2>8 DEF One
  <2>9. QED
    BY <2>7, <2>8 DEF Counted
<1>12. Balanced(o)
  BY <1>3, <1>4, <1>10, <1>11 DEF Balanced
<1>13. RowInv(o)' /\ PaidFor(o)' /\ BankKept
  BY <1>1, <1>2, <1>4 DEF RowInv, PaidFor, BankKept, Paid
<1>14. EventInv'
  BY <1>3, <1>4 DEF IInv, EventInv
<1>15. TaskInv'
  <2>1. "gate" \notin Ready
    BY ShopAssumption
  <2>2. QED
    BY <1>4, <2>1 DEF TaskInv, Paid
<1>16. DeliverStep
  BY <1>3, <1>4, NotDelivering
<1>17. QED
  BY <1>9, <1>12, <1>13, <1>14, <1>15, <1>16, OrderPreserves

(* A cart that can be priced is covered by the shelf and the coupon, and   *)
(* the points it takes by those of the customer.                           *)
LEMMA CartCovered ==
  ASSUME TypeOK, NEW u \in Users, CartQuotable(cart[u]), NEW q, q = CartQuote(u)
  PROVE  /\ \A p \in Products : product[p].stock >= q.items[p]
         /\ q.coupon => coupon.used + coupon.reserved < MaxUses
<1>1. q.items = cart[u].items /\ q.coupon = cart[u].coupon
  BY CartQuoteType
<1>2. /\ \A p \in Products : cart[u].items[p] > 0 => product[p].stock >= cart[u].items[p]
      /\ cart[u].coupon => coupon.used + coupon.reserved < MaxUses
  BY DEF CartQuotable, Lines
<1>3. \A p \in Products : cart[u].items[p] \in Nat /\ product[p].stock \in Nat
  BY DEF TypeOK, Items
<1>4. \A p \in Products : product[p].stock >= cart[u].items[p]
  BY <1>2, <1>3
<1>5. QED
  BY <1>1, <1>2, <1>4

LEMMA PointsSpent ==
  ASSUME IInv, NEW u \in Users, NEW o \in Orders, order[o] = None, NEW n \in Nat,
         Rewardable(u, -n, <<"spend", o>>)
  PROVE  Rewarded(u, -n, <<"spend", o>>) = points[u] - n /\ points[u] >= n
<1>1. <<"spend", o>> \notin events
  BY DEF IInv, EventInv, Placed
<1>2. points[u] \in Nat
  BY DEF IInv, TypeOK
<1>3. -n < 0 => points[u] + (-n) >= 0
  BY <1>1 DEF Rewardable
<1>4. points[u] >= n
  BY <1>2, <1>3
<1>5. Rewarded(u, -n, <<"spend", o>>) = points[u] + (-n)
  BY <1>1 DEF Rewarded
<1>6. QED
  BY <1>2, <1>4, <1>5

(* What the approval of an order of nothing to pay does, of what its       *)
(* placing left.                                                           *)
LEMMA FreeApproval ==
  ASSUME NEW u \in Users, NEW o \in Orders, NEW q \in Quote, q.total = 0,
         coupon \in [used : Nat, reserved : Nat, hidden : BOOLEAN],
         points \in [Users -> Nat], NEW left \in Nat, NEW evs, NEW stock,
         Approves(o, NewOrder(u, o, q), "free", stock,
                  [coupon EXCEPT !.reserved = IF q.coupon THEN @ + 1 ELSE @],
                  [points EXCEPT ![u] = left], evs)
  PROVE  /\ \E row : Fresh(row, u, o, q) /\ row.status = "paid" /\ order' = [order EXCEPT ![o] = row]
         /\ product' = [p \in Products |-> stock[p]]
         /\ coupon' = IF q.coupon THEN [coupon EXCEPT !.used = @ + 1] ELSE coupon
         /\ points' = [points EXCEPT ![u] = left]
         /\ events' = evs /\ task' = [order |-> o, at |-> "gate"]
<1>. DEFINE old == NewOrder(u, o, q)
            row == [old EXCEPT !.status = "paid", !.released = FALSE, !.couponReleased = FALSE,
                      !.settled = old.coupon, !.source = "free", !.late = old.released]
            c == [coupon EXCEPT !.reserved = IF q.coupon THEN @ + 1 ELSE @]
            pts == [points EXCEPT ![u] = left]
<1>1. Fresh(old, u, o, q) /\ old.status = "awaiting_payment" /\ old.released = FALSE
  BY NewOrderRow
<1>2. /\ old \in OrderRow /\ old.user = u /\ old.items = q.items /\ old.coupon = q.coupon
      /\ old.points = q.points /\ old.total = 0
      /\ ~old.released /\ ~old.couponReleased /\ ~old.settled
  BY <1>1 DEF Fresh
<1>3. Approves(o, old, "free", stock, c, pts, evs)
  OBVIOUS
<1>. HIDE DEF old, c, pts
<1>4. old.total \div EarnUnit = 0
  BY <1>2, ShopAssumption
<1>5. /\ product' = [p \in Products |-> stock[p]]
      /\ order' = [order EXCEPT ![o] = row]
      /\ task' = [order |-> o, at |-> "gate"]
  BY <1>2, <1>3 DEF Approves
<1>6. coupon' = IF old.coupon THEN [c EXCEPT !.used = c.used + 1,
                                        !.reserved = IF c.reserved = 0 THEN 0 ELSE c.reserved - 1]
                 ELSE c
  BY <1>2, <1>3 DEF Approves
<1>7. points' = [pts EXCEPT ![u] = pts[u]]
  <2>1. points' = [pts EXCEPT ![old.user] =
          IF old.total \div EarnUnit > 0 /\ <<"order", o>> \notin evs THEN pts[old.user] + (old.total \div EarnUnit)
          ELSE IF old.released /\ <<"latepoints", o>> \notin evs THEN pts[old.user] - old.points
          ELSE pts[old.user]]
    BY <1>3 DEF Approves
  <2>2. old.user = u /\ old.released = FALSE /\ ~(old.total \div EarnUnit > 0)
    BY <1>1, <1>2, <1>4
  <2>3. QED
    BY <2>1, <2>2
<1>8. events' = evs \union Booked(0, <<"order", o>>) \union {}
  BY <1>2, <1>3, <1>4 DEF Approves
<1>9. Fresh(row, u, o, q) /\ row.status = "paid"
  <2>1. /\ row \in OrderRow /\ row.status = "paid" /\ SameTerms(row, old)
        /\ ~row.released /\ ~row.couponReleased
        /\ row.settled = old.coupon /\ row.source = "free" /\ row.late = old.released
    BY <1>2, ApprovedFields
  <2>. HIDE DEF row
  <2>2. QED
    BY <1>2, <2>1 DEF Fresh, SameTerms
<1>10. coupon' = IF q.coupon THEN [coupon EXCEPT !.used = @ + 1] ELSE coupon
  <2>1. CASE q.coupon
    <3>1. PICK x \in Nat, y \in Nat, h \in BOOLEAN : coupon = [used |-> x, reserved |-> y, hidden |-> h]
      OBVIOUS
    <3>2. c = [used |-> x, reserved |-> y + 1, hidden |-> h]
      BY <2>1, <3>1 DEF c
    <3>3. c.used = x /\ c.reserved = y + 1 /\ y + 1 # 0 /\ (y + 1) - 1 = y
      BY <3>2
    <3>4. coupon' = [c EXCEPT !.used = x + 1, !.reserved = y]
      BY <1>2, <1>6, <2>1, <3>3
    <3>5. coupon' = [used |-> x + 1, reserved |-> y, hidden |-> h]
      BY <3>2, <3>4
    <3>6. QED
      BY <2>1, <3>1, <3>5
  <2>2. CASE ~q.coupon
    BY <1>2, <1>6, <2>2 DEF c
  <2>3. QED
    BY <2>1, <2>2
<1>11. points' = [points EXCEPT ![u] = left]
  BY <1>7 DEF pts
<1>12. events' = evs
  BY <1>8 DEF Booked
<1>13. QED
  BY <1>5, <1>9, <1>10, <1>11, <1>12

(* An order is confirmed: it was made before, or is now.                   *)
LEMMA ConfirmPreserves ==
  ASSUME IInv, NEW u \in Users, ConfirmCheckout(u)
  PROVE  IInv'
<1>o. PICK o : o = flow[u].order
  OBVIOUS
<1>q. PICK q : q = CartQuote(u)
  OBVIOUS
<1>. DEFINE stock == [p \in Products |-> [product[p] EXCEPT !.stock = product[p].stock - q.items[p]]]
            c == [coupon EXCEPT !.reserved = IF q.coupon THEN @ + 1 ELSE @]
            pts == [points EXCEPT ![u] = Rewarded(u, -q.points, <<"spend", o>>)]
            evs == events \union Booked(q.points, <<"spend", o>>)
<1>1. task = None /\ o \in Orders /\ TypeOK
  BY <1>o DEF IInv, TypeOK, Dialogue, ConfirmCheckout, Idle
<1>2. CASE SetFlow(u, None)
  BY <1>2, SetFlowPreserves
<1>3. ASSUME ~SetFlow(u, None)
      PROVE  IInv'
  <2>1. /\ order[o] = None /\ CartQuotable(cart[u])
        /\ Rewardable(u, -q.points, <<"spend", o>>)
        /\ cart' = [cart EXCEPT ![u] = EmptyCart]
        /\ \/ /\ q.total = 0
              /\ Approves(o, NewOrder(u, o, q), "free", stock, c, pts, evs)
              /\ flow' = [flow EXCEPT ![u] = None]
           \/ /\ product' = stock /\ coupon' = c /\ points' = pts /\ events' = evs
              /\ order' = [order EXCEPT ![o] = NewOrder(u, o, q)]
              /\ flow' = [flow EXCEPT ![u] = None] \/ UNCHANGED flow
              /\ UNCHANGED task
        /\ UNCHANGED <<bank, member, given, supply, again>>
    BY <1>o, <1>q, <1>3 DEF ConfirmCheckout, history
  <2>2. q \in Quote
    BY <1>q, <1>1, CartQuoteType
  <2>3. /\ \A p \in Products : product[p].stock >= q.items[p]
        /\ q.coupon => coupon.used + coupon.reserved < MaxUses
    BY <1>q, <1>1, <2>1, CartCovered
  <2>4. q.points \in Nat /\ q.coupon \in BOOLEAN
    BY <2>2 DEF Quote
  <2>5. Rewarded(u, -q.points, <<"spend", o>>) = points[u] - q.points /\ points[u] >= q.points
    BY <1>1, <2>1, <2>4, PointsSpent
  <2>6. evs \subseteq events \union {<<"spend", o>>}
    BY DEF Booked
  <2>7. cart' \in [Users -> [items : Items, coupon : BOOLEAN, points : BOOLEAN]]
    <3>1. EmptyCart \in [items : Items, coupon : BOOLEAN, points : BOOLEAN]
      BY DEF EmptyCart, Items
    <3>2. QED
      BY <1>1, <2>1, <3>1 DEF TypeOK
  <2>8. flow' \in [Users -> Dialogue \union {None}]
    BY <1>1, <2>1 DEF TypeOK
  <2>9. PICK row :
          /\ Fresh(row, u, o, q) /\ order' = [order EXCEPT ![o] = row]
          /\ product' = stock
          /\ coupon' = IF ~q.coupon THEN coupon
                       ELSE IF row.status = "paid" THEN [coupon EXCEPT !.used = @ + 1]
                       ELSE [coupon EXCEPT !.reserved = @ + 1]
          /\ points' = [points EXCEPT ![u] = points[u] - q.points]
          /\ events' = evs
          /\ task' = task \/ (row.status = "paid" /\ task' = [order |-> o, at |-> "gate"])
    <3>1. /\ coupon \in [used : Nat, reserved : Nat, hidden : BOOLEAN] /\ points \in [Users -> Nat]
          /\ points[u] - q.points \in Nat
      BY <1>1, <2>4, <2>5 DEF TypeOK
    <3>2. pts = [points EXCEPT ![u] = points[u] - q.points]
      BY <2>5
    <3>3. CASE /\ q.total = 0
               /\ Approves(o, NewOrder(u, o, q), "free", stock, c, pts, evs)
      <4>1. /\ \E row : Fresh(row, u, o, q) /\ row.status = "paid" /\ order' = [order EXCEPT ![o] = row]
            /\ product' = stock
            /\ coupon' = IF q.coupon THEN [coupon EXCEPT !.used = @ + 1] ELSE coupon
            /\ points' = [points EXCEPT ![u] = points[u] - q.points]
            /\ events' = evs /\ task' = [order |-> o, at |-> "gate"]
        <5>1. PICK n, e : n = stock /\ e = evs
          OBVIOUS
        <5>2. stock = [p \in Products |-> n[p]]
          BY <5>1
        <5>3. PICK m : m = points[u] - q.points /\ m \in Nat
          BY <3>1
        <5>4. Approves(o, NewOrder(u, o, q), "free", n,
                  [coupon EXCEPT !.reserved = IF q.coupon THEN @ + 1 ELSE @],
                  [points EXCEPT ![u] = m], e)
          BY <3>2, <3>3, <5>1, <5>3
        <5>. HIDE DEF stock, evs, c, pts
        <5>5. q.total = 0 /\ m \in Nat /\ o \in Orders
          BY <1>1, <3>3, <5>3
        <5>6. /\ \E row : Fresh(row, u, o, q) /\ row.status = "paid" /\ order' = [order EXCEPT ![o] = row]
              /\ product' = [p \in Products |-> n[p]]
              /\ coupon' = IF q.coupon THEN [coupon EXCEPT !.used = @ + 1] ELSE coupon
              /\ points' = [points EXCEPT ![u] = m]
              /\ events' = e /\ task' = [order |-> o, at |-> "gate"]
          BY <2>2, <3>1, <5>4, <5>5, FreeApproval
        <5>7. QED
          BY <5>1, <5>2, <5>3, <5>6
      <4>. HIDE DEF stock, evs
      <4>2. QED
        BY <2>4, <4>1
    <3>4. CASE /\ product' = stock /\ coupon' = c /\ points' = pts /\ events' = evs
               /\ order' = [order EXCEPT ![o] = NewOrder(u, o, q)]
               /\ UNCHANGED task
      <4>1. Fresh(NewOrder(u, o, q), u, o, q) /\ NewOrder(u, o, q).status = "awaiting_payment"
        BY <1>1, <2>2, NewOrderRow
      <4>2. c = IF ~q.coupon THEN coupon ELSE [coupon EXCEPT !.reserved = @ + 1]
        BY <3>1
      <4>. HIDE DEF stock, evs, c, pts
      <4>3. PICK row : row = NewOrder(u, o, q)
        OBVIOUS
      <4>4. coupon' = IF ~q.coupon THEN coupon
                      ELSE IF row.status = "paid" THEN [coupon EXCEPT !.used = @ + 1]
                      ELSE [coupon EXCEPT !.reserved = @ + 1]
        BY <3>4, <4>1, <4>2, <4>3
      <4>5. QED
        BY <3>2, <3>4, <4>1, <4>3, <4>4
    <3>5. QED
      BY <2>1, <3>3, <3>4
  <2>10. events' \subseteq events \union {<<"spend", o>>}
    BY <2>6, <2>9
  <2>. HIDE DEF evs
  <2>11. QED
    BY <1>1, <2>1, <2>2, <2>3, <2>5, <2>7, <2>8, <2>9, <2>10, PlacePreserves
<1>4. QED
  BY <1>2, <1>3

-----------------------------------------------------------------------------
(* Every step keeps the invariant *)

(* Orders that end unpaid.                                                 *)
LEMMA EndsPreserve ==
  ASSUME IInv, NEW o \in Orders,
         CustomerCancels(o) \/ AdminCancels(o) \/ AdminRejects(o) \/ TickExpires(o)
  PROVE  IInv'
<1>1. task = None /\ o \in Placed
  BY DEF CustomerCancels, AdminCancels, AdminRejects, TickExpires, Idle
<1>2. PICK status \in {"cancelled", "rejected", "expired"} : Releases(o, status)
  BY DEF CustomerCancels, AdminCancels, AdminRejects, TickExpires
<1>3. QED
  BY <1>1, <1>2, ReleasesPreserves

(* An order is approved by an administrator or by the callback, or a late  *)
(* payment goes to review.                                                 *)
LEMMA PaymentPreserves ==
  ASSUME IInv, NEW o \in Orders, AdminApproves(o) \/ PaymentCallback(o)
  PROVE  IInv'
<1>1. o \in Placed /\ order[o] \in OrderRow /\ RowInv(o)
  BY PlacedRow DEF IInv, AdminApproves, PaymentCallback
<1>2. CASE AdminApproves(o)
  <2>1. /\ order[o].status \in {"receipt_review", "payment_review"}
        /\ Approves(o, order[o], "admin", product, coupon, points, events)
        /\ UNCHANGED <<cart, flow, bank, member, given, supply, again>>
    BY <1>2 DEF AdminApproves, history
  <2>2. order[o].status \notin Paid /\ (order[o].receipt \/ bank[o] = "paid")
    BY <1>1, <2>1 DEF RowInv, Paid
  <2>3. QED
    BY <1>1, <2>1, <2>2, ApprovesPreserves
<1>3. CASE PaymentCallback(o)
  <2>1. order[o].status \notin Paid /\ bank[o] = "paid"
    BY <1>3 DEF PaymentCallback
  <2>2. CASE /\ Approves(o, order[o], "gateway", product, coupon, points, events)
             /\ UNCHANGED <<cart, flow, bank, member, given, supply, again>>
    BY <1>1, <2>1, <2>2, ApprovesPreserves
  <2>3. CASE /\ SetOrder(o, [order[o] EXCEPT !.status = "payment_review"])
             /\ UNCHANGED <<flow, task, given, supply, again>>
    <3>. DEFINE row == [order[o] EXCEPT !.status = "payment_review"]
    <3>1. "payment_review" \in Statuses /\ "payment_review" \notin Paid
      BY DEF Statuses, Paid
    <3>2. /\ row \in OrderRow /\ row.status = "payment_review" /\ row.sent = order[o].sent
          /\ SameTerms(row, order[o]) /\ SameFlags(row, order[o]) /\ row.receipt = order[o].receipt
      BY <1>1, <3>1, StatusField
    <3>3. /\ order' = [order EXCEPT ![o] = row]
          /\ UNCHANGED <<product, coupon, points, events, cart, flow, task, bank, member, given, supply, again>>
      BY <2>3 DEF SetOrder
    <3>. HIDE DEF row
    <3>4. Alike(row, order[o])
      BY <2>1, <3>1, <3>2 DEF Alike
    <3>5. QED
      BY <1>1, <2>1, <3>2, <3>3, <3>4, RowPreserves
  <2>4. QED
    BY <1>3, <2>2, <2>3 DEF PaymentCallback, history
<1>4. QED
  BY <1>2, <1>3

(* At first nothing is ordered, and everything is on the shelf.            *)
LEMMA InitIInv == Init => IInv
<1>. SUFFICES ASSUME Init
              PROVE  IInv
  OBVIOUS
<1>1. Placed = {}
  BY DEF Init, Placed
<1>2. TypeOK
  <2>1. (CHOOSE x \in Price : TRUE) \in Price
    BY ShopAssumption
  <2>2. EmptyCart \in [items : Items, coupon : BOOLEAN, points : BOOLEAN]
    BY DEF EmptyCart, Items
  <2>3. /\ product \in [Products -> [stock : Nat, price : Price, hidden : BOOLEAN]]
        /\ coupon \in [used : Nat, reserved : Nat, hidden : BOOLEAN]
        /\ points \in [Users -> Nat]
    BY <2>1, ShopAssumption DEF Init
  <2>4. /\ cart \in [Users -> [items : Items, coupon : BOOLEAN, points : BOOLEAN]]
        /\ flow \in [Users -> Dialogue \union {None}]
        /\ order \in [Orders -> OrderRow \union {None}]
        /\ task \in Delivery \union {None}
    BY <2>2 DEF Init
  <2>5. /\ bank \in [Orders -> {"none", "paid"}] /\ member \in [Users -> BOOLEAN]
        /\ given \in [Orders -> [Products -> Nat]] /\ supply \in [Products -> Int]
        /\ again \in SUBSET Orders
    BY ShopAssumption DEF Init
  <2>6. QED
    BY <2>3, <2>4, <2>5 DEF TypeOK
<1>3. EventInv /\ TaskInv
  BY DEF Init, EventInv, TaskInv
<1>4. \A o \in Orders, p \in Products : given[o][p] = 0
  BY DEF Init
<1>5. GivenInv /\ DeliveredAsPaid
  BY <1>1, <1>4 DEF GivenInv, DeliveredAsPaid
<1>6. ReservationsAccounted
  <2>1. \A o \in Orders :
          /\ \A p \in Products : HeldItems(o, p) = 0
          /\ \A u \in Users : HeldPoints(o, u) = 0 /\ EarnedPoints(o, u) = 0
    BY <1>1 DEF HeldItems, HeldPoints, EarnedPoints, Holds
  <2>2. ASSUME NEW p \in Products
        PROVE  SumFunctionOnSet([o \in Orders |-> HeldItems(o, p)], Orders) = 0
    BY <2>1, SumZero, ShopAssumption
  <2>3. ASSUME NEW u \in Users
        PROVE  /\ SumFunctionOnSet([o \in Orders |-> HeldPoints(o, u)], Orders) = 0
               /\ SumFunctionOnSet([o \in Orders |-> EarnedPoints(o, u)], Orders) = 0
    BY <2>1, SumZero, ShopAssumption
  <2>4. Cardinality(Settled) = 0 /\ Cardinality(Reserving) = 0
    BY <1>1, FS_EmptySet DEF Settled, Reserving
  <2>5. \A p \in Products : product[p].stock = InitialStock /\ supply[p] = InitialStock
    BY DEF Init
  <2>6. /\ coupon.used = 0 /\ coupon.reserved = 0
        /\ \A u \in Users : points[u] = InitialPoints
    BY DEF Init
  <2>7. QED
    BY <2>2, <2>3, <2>4, <2>5, <2>6, ShopAssumption DEF ReservationsAccounted
<1>7. QED
  BY <1>1, <1>2, <1>3, <1>5, <1>6 DEF IInv

LEMMA StutterIInv == IInv /\ UNCHANGED vars => IInv'
<1>. SUFFICES ASSUME IInv, UNCHANGED vars
              PROVE  IInv'
  OBVIOUS
<1>1. UNCHANGED <<product, coupon, points, events, order, cart, flow, task, bank, member, given, supply, again>>
  BY DEF vars
<1>2. TypeOK'
  BY <1>1 DEF IInv, TypeOK
<1>3. QED
  BY <1>1, <1>2, AsidePreserves DEF BankKept

LEMMA NextIInv == IInv /\ [Next]_vars => IInv'
<1>. SUFFICES ASSUME IInv, Next
              PROVE  IInv'
  BY StutterIInv
<1>1. ASSUME Customer
      PROVE  IInv'
  BY <1>1, CartPreserves, DialoguePreserves, ConfirmPreserves, EndsPreserve, ProgressPreserves,
     PaymentPreserves DEF Customer
<1>2. ASSUME Administrator
      PROVE  IInv'
  BY <1>2, EndsPreserve, PaymentPreserves, MarksPreserve, ProgressPreserves, SaveProductPreserves,
     OutsidePreserves DEF Administrator
<1>3. ASSUME Tick
      PROVE  IInv'
  BY <1>3, EndsPreserve, MarksPreserve, TaskPreserves DEF Tick
<1>4. ASSUME Deliver
      PROVE  IInv'
  BY <1>4, PassGatePreserves, FinishDeliveryPreserves, ItemPreserves DEF Deliver
<1>5. ASSUME Outside
      PROVE  IInv'
  BY <1>5, OutsidePreserves, ProgressPreserves, TaskPreserves DEF Outside
<1>6. QED
  BY <1>1, <1>2, <1>3, <1>4, <1>5 DEF Next

-----------------------------------------------------------------------------
(* Results *)

(* The rows of the shop, its events, its deliveries and its accounts go    *)
(* together in every state: what commerce.js keeps between two handlers,   *)
(* and between two saves of fulfillReady.                                  *)
THEOREM ShopInvariance == Spec => []IInv
<1>1. QED
  BY InitIInv, NextIInv, PTL DEF Spec

(* The variables have the types of the rows, in particular no stock and    *)
(* no balance of points is ever negative (commerce.js, createOrder and     *)
(* adjustPoints).                                                          *)
THEOREM ShopTypes == Spec => []TypeOK
<1>1. IInv => TypeOK
  BY DEF IInv
<1>2. QED
  BY <1>1, ShopInvariance, PTL

(* Shelf, coupon and points are explained by the orders: createOrder,      *)
(* releaseOrder and approveOrder take and give back what the others count. *)
THEOREM OrdersExplainAccounts == Spec => []ReservationsAccounted
<1>1. IInv => ReservationsAccounted
  BY DEF IInv
<1>2. QED
  BY <1>1, ShopInvariance, PTL

(* Nothing is delivered that was not paid for, and nothing twice: the      *)
(* marks that fulfillReady saves around every message, and the guards of   *)
(* approveOrder and of /pay/callback, are enough whatever eviction, lost   *)
(* answer or late payment falls between them.                              *)
THEOREM PaidBeforeDelivered == Spec => []DeliveredAsPaid
<1>1. IInv => DeliveredAsPaid
  BY DEF IInv
<1>2. QED
  BY <1>1, ShopInvariance, PTL

=============================================================================

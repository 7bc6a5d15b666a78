----------------------------- MODULE ManualShop -----------------------------
(***************************************************************************)
(* The shop of the bot: carts, orders, receipts, the bank gateway and the  *)
(* delivery of ready products (src/src/commerce.js, payments.js, crm.js).  *)
(*                                                                         *)
(* Handlers run one at a time on the queue of the coordinator.  The only   *)
(* one that is cut into steps is the delivery, which saves an order around *)
(* every message; an eviction may fall between two of its steps, and after *)
(* every commit that precedes them.                                        *)
(***************************************************************************)
EXTENDS Integers, FiniteSets, FiniteSetsExt, Functions

CONSTANTS
  Users, Orders, Products,
  Ready,             \* the products that are delivered by the bot
  Price,             \* the prices an administrator may set
  InitialStock,      \* the stock of every product at first
  InitialPoints,     \* the points of every user at first
  MaxUses,           \* the uses of the coupon
  Reductions,        \* the choices of coupon and points an instance tries
  CouponPercent, PointsPercent,     \* what a coupon and points may take off
  EarnUnit,          \* one point is earned for this much
  MethodOf,          \* the way of payment the settings name when an order is made
  MaxLines, MaxQuantity, MaxUnpaid, \* 20, 99 and 3 in the code
  MaxChanges, MaxEvictions,           \* bounds of the instance
  None

Statuses == {"awaiting_payment", "receipt_review", "payment_review", "paid", "preparing", "shipped",
             "delivered", "cancelled", "rejected", "expired"}
Items == [Products -> Nat]
Quote == [items : Items, price : Items, coupon : BOOLEAN, points : Nat, total : Nat]
OrderRow ==
  [user : Users, items : Items, total : Nat, coupon : BOOLEAN, points : Nat,
   method : {"manual", "zarinpal"}, status : Statuses, overdue : BOOLEAN, authority : BOOLEAN,
   receipt : BOOLEAN, released : BOOLEAN, couponReleased : BOOLEAN, settled : BOOLEAN,
   source : {"none", "free", "gateway", "admin"}, late : BOOLEAN, locked : BOOLEAN,
   sent : [Products -> {"none", "pending", "sending", "sent", "review"}]]
Dialogue == [step : {"details", "confirm"}, order : Orders, signature : Quote]
Delivery == [order : Orders, at : {"gate", "send"} \cup Ready]

ASSUME ShopAssumption ==
  /\ IsFiniteSet(Orders) /\ IsFiniteSet(Products)
  /\ Ready \subseteq Products /\ Products \cap {"gate", "send", "end"} = {}
  /\ Price \subseteq Nat /\ Price # {}
  /\ InitialStock \in Nat /\ InitialPoints \in Nat /\ MaxUses \in Nat
  /\ CouponPercent \in 0..100 /\ PointsPercent \in 0..100 /\ EarnUnit \in Nat \ {0}
  /\ MethodOf \in [Orders -> {"manual", "zarinpal"}]
  /\ Reductions \subseteq [coupon : BOOLEAN, points : BOOLEAN]
  /\ None \notin Users \cup Orders \cup Products
  /\ None \notin OrderRow /\ None \notin Dialogue /\ None \notin Delivery

VARIABLES
  product,   \* rows product
  coupon,    \* the row of the one coupon
  points,    \* rows points
  events,    \* rows reward: the events that were booked
  cart, flow,   \* the cart and the dialogue of a user
  order,     \* rows order and checkout
  task,      \* the order whose delivery is between two steps, and where
  bank,      \* external: what the bank did about an order
  member,    \* external: who is in the required channels
  given,     \* history: how often an item of an order reached its buyer
  supply,    \* history: what administrators put on the shelf
  again,     \* history: orders an administrator had delivered again
  changes, evictions

rows == <<product, coupon, points, events, order>>
history == <<given, supply, again>>
vars == <<product, coupon, points, events, cart, flow, order, task, bank, member,
          given, supply, again, changes, evictions>>

Open == {"awaiting_payment", "receipt_review"}
Paid == {"paid", "preparing", "shipped", "delivered"}
Placed == {o \in Orders : order[o] # None}
Idle == task = None
EmptyCart == [items |-> [p \in Products |-> 0], coupon |-> FALSE, points |-> FALSE]
Lines(items) == {p \in Products : items[p] > 0}

Init ==
  /\ product = [p \in Products |-> [stock |-> InitialStock, price |-> CHOOSE x \in Price : TRUE,
                                    hidden |-> FALSE]]
  /\ coupon = [used |-> 0, reserved |-> 0, hidden |-> FALSE]
  /\ points = [u \in Users |-> InitialPoints]
  /\ events = {}
  /\ cart = [u \in Users |-> EmptyCart]
  /\ flow = [u \in Users |-> None]
  /\ order = [o \in Orders |-> None]
  /\ task = None
  /\ bank = [o \in Orders |-> "none"]
  /\ member = [u \in Users |-> TRUE]
  /\ given = [o \in Orders |-> [p \in Products |-> 0]]
  /\ supply = [p \in Products |-> InitialStock]
  /\ again = {}
  /\ changes = 0 /\ evictions = 0

-----------------------------------------------------------------------------
(* The price of a cart                                                     *)

\* Mutant: stock is not checked when the cart is priced.
CartQuotable_NoStock(c) ==
  /\ Lines(c.items) # {}
  /\ \A p \in Lines(c.items) : ~product[p].hidden
  /\ c.coupon => ~coupon.hidden /\ coupon.used + coupon.reserved < MaxUses

CartQuotable(c) ==
  /\ Lines(c.items) # {}
  /\ \A p \in Lines(c.items) : ~product[p].hidden /\ product[p].stock >= c.items[p]
  /\ c.coupon => ~coupon.hidden /\ coupon.used + coupon.reserved < MaxUses

\* cartQuote of a quotable cart: what an order made from it would say.
CartQuote(u) ==
  LET c == cart[u]
      price == [p \in Products |-> IF c.items[p] > 0 THEN product[p].price ELSE 0]
      subtotal == SumFunctionOnSet([p \in Products |-> price[p] * c.items[p]], Products)
      discount == IF c.coupon THEN (subtotal * CouponPercent) \div 100 ELSE 0
      cap == ((subtotal - discount) * PointsPercent) \div 100
      used == IF c.points THEN Min({points[u], cap}) ELSE 0
  IN [items |-> c.items, price |-> price, coupon |-> c.coupon, points |-> used,
      total |-> subtotal - discount - used]

-----------------------------------------------------------------------------
(* Carts and the checkout dialogue                                         *)

SetCart(u, c) ==
  /\ cart' = [cart EXCEPT ![u] = c]
  /\ UNCHANGED <<rows, flow, task, bank, member, history, changes, evictions>>

\* An instance has no use for carts once all its orders are placed.
OrderLeft == Placed # Orders

AddToCart(u, p) ==
  LET c == cart[u]  n == c.items[p] + 1 IN
  /\ Idle /\ OrderLeft /\ ~product[p].hidden
  /\ n <= MaxQuantity /\ n <= product[p].stock
  /\ p \in Lines(c.items) \/ Cardinality(Lines(c.items)) < MaxLines
  /\ SetCart(u, [c EXCEPT !.items[p] = n])

TakeFromCart(u, p) ==
  /\ Idle /\ p \in Lines(cart[u].items)
  /\ \E n \in {0, cart[u].items[p] - 1} : SetCart(u, [cart[u] EXCEPT !.items[p] = n])

ChooseReductions(u) ==
  /\ Idle /\ OrderLeft
  /\ \E r \in Reductions :
       SetCart(u, [cart[u] EXCEPT !.coupon = r.coupon, !.points = r.points])

SetFlow(u, f) ==
  /\ flow' = [flow EXCEPT ![u] = f]
  /\ UNCHANGED <<rows, cart, task, bank, member, history, changes, evictions>>

\* checkout:start; the id of the order to come is drawn here.
StartCheckout(u, o) ==
  /\ Idle /\ CartQuotable(cart[u])
  /\ order[o] = None /\ \A v \in Users : flow[v] # None => flow[v].order # o
  /\ SetFlow(u, [step |-> "details", order |-> o, signature |-> CartQuote(u)])

\* The answers up to the confirmation, where the cart is priced once more.
GiveDetails(u) ==
  /\ Idle /\ flow[u] # None /\ flow[u].step = "details"
  /\ SetFlow(u, IF CartQuotable(cart[u]) /\ CartQuote(u) = flow[u].signature
                THEN [flow[u] EXCEPT !.step = "confirm"] ELSE None)

CancelDialogue(u) == Idle /\ flow[u] # None /\ SetFlow(u, None)

-----------------------------------------------------------------------------
(* Points: an event is booked once                                         *)

Rewardable(u, amount, event) == amount < 0 /\ event \notin events => points[u] + amount >= 0

\* The balance after a reward; it is computed from the stored row.
Rewarded(u, amount, event) == IF event \in events THEN points[u] ELSE points[u] + amount
Booked(amount, event) == IF amount = 0 THEN {} ELSE {event}

-----------------------------------------------------------------------------
(* Approval                                                                *)

\* approveOrder up to its commit, of an order that may not be stored yet.
\* Both the points a late order takes again and the points it earns are
\* computed from the stored row, and so are the two changes of the coupon:
\* of two writes of one row the later one stays.
Approves(o, row, source, stock, c, pts, evs) ==
  LET late == row.released
      recouponed == row.coupon /\ row.couponReleased
      earned == row.total \div EarnUnit
  IN /\ late => \A p \in Products : stock[p].stock >= row.items[p]
     /\ late => pts[row.user] >= row.points \/ <<"latepoints", o>> \in evs
     /\ product' = [p \in Products |->
          IF late THEN [stock[p] EXCEPT !.stock = @ - row.items[p]] ELSE stock[p]]
     /\ coupon' = IF row.coupon /\ ~row.settled
                  THEN [c EXCEPT !.used = @ + 1, !.reserved = IF @ = 0 THEN 0 ELSE @ - 1]
                  ELSE IF recouponed THEN [c EXCEPT !.reserved = @ + 1] ELSE c
     /\ points' = [pts EXCEPT ![row.user] =
          IF earned > 0 /\ <<"order", o>> \notin evs THEN @ + earned
          ELSE IF late /\ <<"latepoints", o>> \notin evs THEN @ - row.points ELSE @]
     /\ events' = evs \cup Booked(earned, <<"order", o>>)
                      \cup (IF late THEN Booked(row.points, <<"latepoints", o>>) ELSE {})
     /\ order' = [order EXCEPT ![o] =
          [row EXCEPT !.status = "paid", !.released = FALSE, !.couponReleased = FALSE,
                      !.settled = row.coupon, !.source = source, !.late = late]]
     /\ task' = [order |-> o, at |-> "gate"]

-----------------------------------------------------------------------------
(* Orders                                                                  *)

NewOrder(u, o, q) ==
  [user |-> u, items |-> q.items, total |-> q.total, coupon |-> q.coupon, points |-> q.points,
   method |-> MethodOf[o], status |-> "awaiting_payment", overdue |-> FALSE, authority |-> FALSE,
   receipt |-> FALSE, released |-> FALSE, couponReleased |-> FALSE, settled |-> FALSE,
   source |-> "none", late |-> FALSE, locked |-> FALSE,
   sent |-> [p \in Products |-> IF q.items[p] > 0 THEN "pending" ELSE "none"]]

Unpaid(u) == {o \in Placed : order[o].user = u /\ order[o].status \in Open}

\* checkout:confirm and createOrder.  An order of nothing to pay is approved
\* after the commit that makes it, and an eviction may fall in between; then
\* the dialogue is still open and confirming again returns the order.
ConfirmCheckout(u) ==
  /\ Idle /\ flow[u] # None /\ flow[u].step = "confirm"
  /\ LET o == flow[u].order  q == CartQuote(u) IN
     \/ /\ order[o] # None
        /\ SetFlow(u, None)
     \/ /\ order[o] = None
        /\ CartQuotable(cart[u]) /\ q = flow[u].signature
        /\ Cardinality(Unpaid(u)) < MaxUnpaid
        /\ LET row == NewOrder(u, o, q)
               stock == [p \in Products |-> [product[p] EXCEPT !.stock = @ - q.items[p]]]
               c == [coupon EXCEPT !.reserved = IF q.coupon THEN @ + 1 ELSE @]
               pts == [points EXCEPT ![u] = Rewarded(u, -q.points, <<"spend", o>>)]
               evs == events \cup Booked(q.points, <<"spend", o>>)
           IN /\ Rewardable(u, -q.points, <<"spend", o>>)
              /\ cart' = [cart EXCEPT ![u] = EmptyCart]
              /\ \/ /\ q.total = 0
                    /\ Approves(o, row, "free", stock, c, pts, evs)
                    /\ flow' = [flow EXCEPT ![u] = None]
                    /\ UNCHANGED evictions
                 \/ /\ product' = stock /\ coupon' = c /\ points' = pts /\ events' = evs
                    /\ order' = [order EXCEPT ![o] = row]
                    /\ \/ q.total > 0 /\ flow' = [flow EXCEPT ![u] = None] /\ UNCHANGED evictions
                       \/ evictions < MaxEvictions /\ evictions' = evictions + 1 /\ UNCHANGED flow
                    /\ UNCHANGED task
        /\ UNCHANGED <<bank, member, history, changes>>

Acts == changes < MaxChanges /\ changes' = changes + 1

\* A handler that saves an order and no other row.
SetOrder(o, row) ==
  /\ order' = [order EXCEPT ![o] = row]
  /\ UNCHANGED <<product, coupon, points, events, cart, bank, member>>

\* Mutant: the order is not marked as released.
Releases_NotMarked(o, status) ==
  LET row == order[o]  event == <<"refundpoints", o>> IN
  /\ row.status \in Open
  /\ IF row.released
     THEN /\ order' = [order EXCEPT ![o].status = status]
          /\ UNCHANGED <<product, coupon, points, events>>
     ELSE /\ product' = [p \in Products |-> [product[p] EXCEPT !.stock = @ + row.items[p]]]
          /\ coupon' = IF row.coupon /\ ~row.settled
                       THEN [coupon EXCEPT !.reserved = IF @ = 0 THEN 0 ELSE @ - 1] ELSE coupon
          /\ points' = [points EXCEPT ![row.user] = Rewarded(row.user, row.points, event)]
          /\ events' = events \cup Booked(row.points, event)
          /\ order' = [order EXCEPT ![o] = [row EXCEPT !.status = status, !.released = FALSE,
                         !.couponReleased = row.coupon /\ ~row.settled]]
  /\ UNCHANGED <<cart, flow, task, bank, member, history, changes, evictions>>

\* releaseOrder
Releases(o, status) ==
  LET row == order[o]  event == <<"refundpoints", o>> IN
  /\ row.status \in Open
  /\ IF row.released
     THEN /\ order' = [order EXCEPT ![o].status = status]
          /\ UNCHANGED <<product, coupon, points, events>>
     ELSE /\ product' = [p \in Products |-> [product[p] EXCEPT !.stock = @ + row.items[p]]]
          /\ coupon' = IF row.coupon /\ ~row.settled
                       THEN [coupon EXCEPT !.reserved = IF @ = 0 THEN 0 ELSE @ - 1] ELSE coupon
          /\ points' = [points EXCEPT ![row.user] = Rewarded(row.user, row.points, event)]
          /\ events' = events \cup Booked(row.points, event)
          /\ order' = [order EXCEPT ![o] = [row EXCEPT !.status = status, !.released = TRUE,
                         !.couponReleased = row.coupon /\ ~row.settled]]
  /\ UNCHANGED <<cart, flow, task, bank, member, history, changes, evictions>>

CustomerCancels(o) ==
  /\ Idle /\ o \in Placed /\ order[o].status = "awaiting_payment" /\ Releases(o, "cancelled")

AdminCancels(o) == Idle /\ o \in Placed /\ Releases(o, "cancelled")

AdminRejects(o) ==
  /\ Idle /\ o \in Placed /\ order[o].status = "receipt_review" /\ Releases(o, "rejected")

\* Mutant: orders at the gateway are left to its callback.
TickExpires_ManualOnly(o) ==
  /\ Idle /\ o \in Placed /\ order[o].status = "awaiting_payment" /\ order[o].overdue
  /\ order[o].method = "manual"
  /\ Releases(o, "expired")

\* One order of expireOrders.
TickExpires(o) ==
  /\ Idle /\ o \in Placed /\ order[o].status = "awaiting_payment" /\ order[o].overdue
  /\ Releases(o, "expired")

\* A receipt prolongs the reservation by two days.
SendReceipt(o) ==
  /\ Idle /\ o \in Placed /\ order[o].method = "manual"
  /\ order[o].status = "awaiting_payment" /\ ~order[o].overdue
  /\ SetOrder(o, [order[o] EXCEPT !.status = "receipt_review", !.receipt = TRUE])
  /\ UNCHANGED <<flow, task, history, changes, evictions>>

AdminApproves(o) ==
  /\ Idle /\ o \in Placed /\ order[o].status \in {"receipt_review", "payment_review"}
  /\ Approves(o, order[o], "admin", product, coupon, points, events)
  /\ UNCHANGED <<cart, flow, bank, member, history, changes, evictions>>

\* preparing, shipped and delivered of updateOrder.
AdminProgresses(o, status) ==
  /\ Idle /\ Acts /\ o \in Placed /\ order[o].status \in Paid \ {status}
  /\ SetOrder(o, [order[o] EXCEPT !.status = status])
  /\ UNCHANGED <<flow, task, history, evictions>>

-----------------------------------------------------------------------------
(* The bank gateway                                                        *)

\* /pay/start: the gateway is asked for one authority for an order.
StartPayment(o) ==
  /\ Idle /\ o \in Placed /\ order[o].method = "zarinpal" /\ ~order[o].authority
  /\ order[o].status = "awaiting_payment" /\ ~order[o].overdue
  /\ SetOrder(o, [order[o] EXCEPT !.authority = TRUE])
  /\ UNCHANGED <<flow, task, history, changes, evictions>>

BankPays(o) ==
  /\ o \in Placed /\ order[o].authority /\ bank[o] = "none"
  /\ bank' = [bank EXCEPT ![o] = "paid"]
  /\ UNCHANGED <<rows, cart, flow, task, member, history, changes, evictions>>

\* Mutant: the redirect of the browser is taken for a proof.
PaymentCallback_Unverified(o) ==
  /\ Idle /\ o \in Placed /\ order[o].authority /\ order[o].status \notin Paid
  /\ IF order[o].status \in Open \cup {"payment_review"} /\ ~order[o].overdue
     THEN /\ Approves(o, order[o], "gateway", product, coupon, points, events)
          /\ UNCHANGED <<cart, flow, bank, member, history, changes, evictions>>
     ELSE /\ order[o].status # "payment_review"
          /\ SetOrder(o, [order[o] EXCEPT !.status = "payment_review"])
          /\ UNCHANGED <<flow, task, history, changes, evictions>>

\* /pay/callback of an order the bank verifies; a late one goes to review.
PaymentCallback(o) ==
  /\ Idle /\ o \in Placed /\ order[o].authority /\ order[o].status \notin Paid
  /\ bank[o] = "paid"
  /\ IF order[o].status \in Open \cup {"payment_review"} /\ ~order[o].overdue
     THEN /\ Approves(o, order[o], "gateway", product, coupon, points, events)
          /\ UNCHANGED <<cart, flow, bank, member, history, changes, evictions>>
     ELSE /\ order[o].status # "payment_review"
          /\ SetOrder(o, [order[o] EXCEPT !.status = "payment_review"])
          /\ UNCHANGED <<flow, task, history, changes, evictions>>

-----------------------------------------------------------------------------
(* Delivery: fulfillReady                                                  *)

PendingItems(o) == {p \in Ready : order[o].sent[p] = "pending"}

DeliveryStep(row, at) ==
  LET o == task.order IN
  /\ SetOrder(o, row)
  /\ task' = IF at = "end" THEN None ELSE [order |-> o, at |-> at]
  /\ UNCHANGED <<flow, supply, again, changes, evictions>>

\* A buyer who left a required channel has to come back first.
PassGate ==
  /\ task # None /\ task.at = "gate"
  /\ LET o == task.order IN
     IF PendingItems(o) # {} /\ ~member[order[o].user]
     THEN DeliveryStep([order[o] EXCEPT !.locked = TRUE], "end")
     ELSE DeliveryStep([order[o] EXCEPT !.locked = IF PendingItems(o) = {} THEN @ ELSE FALSE], "send")
  /\ UNCHANGED given

StartItem(p) ==
  /\ task # None /\ task.at = "send" /\ p \in PendingItems(task.order)
  /\ DeliveryStep([order[task.order] EXCEPT !.sent[p] = "sending"], p)
  /\ UNCHANGED given

\* Mutant: a message that seems to have failed is sent again.
FinishItem_Retries(p) ==
  /\ task # None /\ task.at = p
  /\ \E answer \in {"sent", "refused", "unknown"} :
       /\ given' = [given EXCEPT ![task.order][p] = IF answer = "refused" THEN @ ELSE @ + 1]
       /\ DeliveryStep([order[task.order] EXCEPT
                          !.sent[p] = IF answer = "sent" THEN "sent" ELSE "pending"], "send")

\* The answer to the message: sent, refused, or unknown although it arrived.
FinishItem(p) ==
  /\ task # None /\ task.at = p
  /\ \E answer \in {"sent", "refused", "unknown"} :
       /\ given' = [given EXCEPT ![task.order][p] = IF answer = "refused" THEN @ ELSE @ + 1]
       /\ DeliveryStep([order[task.order] EXCEPT
                          !.sent[p] = IF answer = "sent" THEN "sent" ELSE "review"], "send")

FinishDelivery ==
  /\ task # None /\ task.at = "send" /\ PendingItems(task.order) = {}
  /\ LET row == order[task.order] IN
     DeliveryStep([row EXCEPT !.status =
       IF \A p \in Lines(row.items) : row.sent[p] = "sent" THEN "delivered" ELSE @], "end")
  /\ UNCHANGED given

Deliver == PassGate \/ FinishDelivery \/ \E p \in Ready : StartItem(p) \/ FinishItem(p)

\* The tick (after five minutes) and the button of a buyer who came back.
RetryLocked(o) ==
  /\ Idle /\ o \in Placed /\ order[o].status \in Paid /\ order[o].locked
  /\ task' = [order |-> o, at |-> "gate"]
  /\ UNCHANGED <<rows, cart, flow, bank, member, history, changes, evictions>>

\* expireOrders: an item that was being sent when the process stopped.
TickReviews(o) ==
  /\ Idle /\ o \in Placed /\ order[o].status \in Paid
  /\ \E p \in Ready : order[o].sent[p] = "sending"
  /\ order[o].status # "delivered"
  /\ SetOrder(o, [order[o] EXCEPT !.sent =
       [p \in Products |-> IF @[p] = "sending" THEN "review" ELSE @[p]]])
  /\ UNCHANGED <<flow, task, history, changes, evictions>>

AdminDeliversAgain(o) ==
  /\ Idle /\ Acts /\ o \in Placed /\ order[o].status \in Paid
  /\ \E p \in Ready \cap Lines(order[o].items) : order[o].sent[p] # "sent"
  /\ SetOrder(o, [order[o] EXCEPT !.sent = [p \in Products |->
       IF p \in Ready \cap Lines(order[o].items) /\ @[p] # "sent" THEN "pending" ELSE @[p]]])
  /\ task' = [order |-> o, at |-> "gate"]
  /\ again' = again \cup {o}
  /\ UNCHANGED <<flow, given, supply, evictions>>

-----------------------------------------------------------------------------
(* Administrators, the clock, buyers and evictions                         *)

\* A change of stock is refused while an open order holds the product.
SaveProduct(p) ==
  /\ Idle /\ Acts
  /\ \E price \in Price, stock \in {product[p].stock, InitialStock}, hidden \in BOOLEAN :
       /\ stock # product[p].stock =>
            ~\E o \in Placed : order[o].status \in Open /\ p \in Lines(order[o].items)
       /\ product' = [product EXCEPT ![p] = [stock |-> stock, price |-> price, hidden |-> hidden]]
       /\ supply' = [supply EXCEPT ![p] = @ + stock - product[p].stock]
  /\ UNCHANGED <<coupon, points, events, order, cart, flow, task, bank, member, given, again, evictions>>

SaveCoupon ==
  /\ Idle /\ Acts
  /\ coupon' = [coupon EXCEPT !.hidden = ~@]
  /\ UNCHANGED <<product, points, events, order, cart, flow, task, bank, member, history, evictions>>

TimePasses(o) ==
  /\ o \in Placed /\ ~order[o].overdue
  /\ \/ order[o].status = "awaiting_payment"
     \/ order[o].authority /\ order[o].status \in {"payment_review", "cancelled"}
  /\ order' = [order EXCEPT ![o].overdue = TRUE]
  /\ UNCHANGED <<product, coupon, points, events, cart, flow, task, bank, member, history, changes, evictions>>

MembershipChanges(u) ==
  /\ changes < MaxChanges \/ ~member[u]
  /\ changes' = IF member[u] THEN changes + 1 ELSE changes
  /\ member' = [member EXCEPT ![u] = ~@]
  /\ UNCHANGED <<rows, cart, flow, task, bank, history, evictions>>

\* The eviction loses the delivery; the message on its way may still arrive.
Evict ==
  /\ task # None /\ evictions < MaxEvictions /\ evictions' = evictions + 1
  /\ task' = None
  /\ \/ UNCHANGED given
     \/ task.at \in Ready /\ given' = [given EXCEPT ![task.order][task.at] = @ + 1]
  /\ UNCHANGED <<rows, cart, flow, bank, member, supply, again, changes>>

Customer ==
  \/ \E u \in Users : ChooseReductions(u) \/ GiveDetails(u) \/ CancelDialogue(u) \/ ConfirmCheckout(u)
  \/ \E u \in Users, p \in Products : AddToCart(u, p) \/ TakeFromCart(u, p)
  \/ \E u \in Users, o \in Orders : StartCheckout(u, o)
  \/ \E o \in Orders : CustomerCancels(o) \/ SendReceipt(o) \/ StartPayment(o)
                       \/ PaymentCallback(o)

Administrator ==
  \/ \E o \in Orders : \/ AdminCancels(o) \/ AdminRejects(o) \/ AdminApproves(o)
                       \/ AdminDeliversAgain(o)
                       \/ \E s \in {"preparing", "shipped", "delivered"} : AdminProgresses(o, s)
  \/ \E p \in Products : SaveProduct(p)
  \/ SaveCoupon

Tick == \E o \in Orders : TickExpires(o) \/ TickReviews(o) \/ RetryLocked(o)

Outside ==
  \/ \E o \in Orders : BankPays(o) \/ TimePasses(o)
  \/ \E u \in Users : MembershipChanges(u)
  \/ Evict

Next == Customer \/ Administrator \/ Tick \/ Deliver \/ Outside

Fairness ==
  /\ WF_vars(Deliver)
  /\ \A o \in Orders : SF_vars(TickExpires(o)) /\ SF_vars(RetryLocked(o)) /\ WF_vars(TimePasses(o))

Spec == Init /\ [][Next]_vars
FairSpec == Spec /\ Fairness

-----------------------------------------------------------------------------
(* Properties                                                              *)

\* What an order holds of a product, and of the points of a user; and what
\* it earned him.
Holds(o) == o \in Placed /\ ~order[o].released
HeldItems(o, p) == IF Holds(o) THEN order[o].items[p] ELSE 0
HeldPoints(o, u) == IF Holds(o) /\ order[o].user = u THEN order[o].points ELSE 0
EarnedPoints(o, u) ==
  IF o \in Placed /\ order[o].status \in Paid /\ order[o].user = u THEN order[o].total \div EarnUnit ELSE 0
Settled == {o \in Placed : order[o].settled}
Reserving == {o \in Placed : order[o].coupon /\ ~order[o].settled /\ ~order[o].couponReleased}
LateCoupon == \E o \in Placed : order[o].late /\ order[o].coupon
LateFor(u) == \E o \in Placed : order[o].late /\ order[o].user = u

\* What is on the shelf and what orders hold or took is what was put there,
\* and nothing is sold that is not;
\* the uses of the coupon are those of settled and of waiting orders and
\* never more than allowed; points are those given, earned and spent.  The
\* two computations of approveOrder for a late order (commerce.js:256-273)
\* write one row twice, so coupon and points are only claimed without one.
ReservationsAccounted ==
  /\ \A p \in Products :
       /\ product[p].stock + SumFunctionOnSet([o \in Orders |-> HeldItems(o, p)], Orders) = supply[p]
       /\ product[p].stock >= 0
  /\ coupon.used = Cardinality(Settled)
  /\ ~LateCoupon =>
       /\ coupon.reserved = Cardinality(Reserving)
       /\ coupon.used + coupon.reserved <= MaxUses
  /\ \A u \in Users : ~LateFor(u) =>
       points[u] + SumFunctionOnSet([o \in Orders |-> HeldPoints(o, u)], Orders)
         = InitialPoints + SumFunctionOnSet([o \in Orders |-> EarnedPoints(o, u)], Orders)

\* An order is paid only for nothing to pay, by money the bank has verified,
\* or by an administrator who had a receipt or that money before him, and
\* nobody is asked to pay for, or given back, an order that was paid.  A paid
\* item reaches its buyer at most once, whatever evictions, lost answers and
\* retries of the tick fall between its steps, unless an administrator orders
\* it again; and never before the order is paid.
DeliveredAsPaid ==
  /\ \A o \in Placed : order[o].status \in Paid =>
       /\ ~order[o].released
       /\ CASE order[o].source = "free" -> order[o].total = 0
            [] order[o].source = "gateway" -> bank[o] = "paid"
            [] order[o].source = "admin" -> order[o].receipt \/ bank[o] = "paid"
            [] OTHER -> FALSE
  /\ \A o \in Orders, p \in Products :
       /\ given[o][p] > 0 => order[o] # None /\ order[o].status \in Paid
       /\ given[o][p] > 1 => o \in again

AwaitsPayment(o) == o \in Placed /\ order[o].status = "awaiting_payment"
HeldBack(o) == o \in Placed /\ order[o].locked /\ member[order[o].user]

\* An unpaid reservation does not last for ever, and a delivery held back
\* for a channel goes on while its buyer is in it.
ReservationsEnd ==
  \A o \in Orders :
    /\ AwaitsPayment(o) ~> ~AwaitsPayment(o)
    /\ HeldBack(o) ~> ~HeldBack(o)
=============================================================================

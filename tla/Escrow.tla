-------------------------------- MODULE Escrow --------------------------------
(***************************************************************************)
(* What the purchase engine promises about money, without a word of how    *)
(* services are provided.  An order first reserves its price from the      *)
(* payer's wallet.  It is then settled, once: the price leaves the wallet, *)
(* a rebate of at most the price comes back, a beneficiary may earn a      *)
(* bonus.  Or it is released, once: the reservation is given back whole.   *)
(* Nothing else moves money but an administrator, and neither an order nor *)
(* an administrator lets a wallet sink below the debt its owner may have.  *)
(***************************************************************************)
EXTENDS Integers

CONSTANTS
  Payers,       \* owners of wallets
  Orders,       \* what is paid for
  Prices,       \* what an order may cost
  Deltas,       \* what an administrator may add to a balance or take from it
  Debt,         \* the debt each payer may ever have
  Opening,      \* the balances to begin with
  NoOrder       \* an order not placed yet

VARIABLES
  wallet,       \* balance and held, by payer
  order         \* NoOrder, or the phase, payer and price

vars == <<wallet, order>>

Placed(o, phase) == order[o] # NoOrder /\ order[o].phase = phase

Init ==
  /\ wallet = [u \in Payers |-> [balance |-> Opening[u], held |-> 0]]
  /\ order  = [o \in Orders |-> NoOrder]

(* A wallet may go down to the owner's debt limit and no further.          *)
Affords(u, amount) == wallet[u].balance - wallet[u].held - amount >= -Debt[u]

Reserve(o, u, price) ==
  /\ order[o] = NoOrder
  /\ price > 0 => Affords(u, price)
  /\ order'  = [order EXCEPT ![o] = [phase |-> "reserved", payer |-> u, price |-> price]]
  /\ wallet' = [wallet EXCEPT ![u].held = @ + price]

Settle(o, rebate, friend, bonus) ==
  LET u == order[o].payer
      price == order[o].price
      charged == [wallet EXCEPT ![u] = [balance |-> @.balance + rebate - price,
                                        held    |-> @.held - price]] IN
  /\ order'  = [order EXCEPT ![o].phase = "settled"]
  /\ wallet' = [charged EXCEPT ![friend].balance = @ + bonus]

Release(o) ==
  /\ order'  = [order EXCEPT ![o].phase = "released"]
  /\ wallet' = [wallet EXCEPT ![order[o].payer].held = @ - order[o].price]

Adjust(u, delta) ==
  /\ delta < 0 => Affords(u, -delta)
  /\ wallet' = [wallet EXCEPT ![u].balance = @ + delta]
  /\ UNCHANGED order

Next ==
  \/ \E o \in Orders, u \in Payers, price \in Prices : Reserve(o, u, price)
  \/ \E o \in Orders :
       /\ Placed(o, "reserved")
       /\ \/ Release(o)
          \/ \E rebate, bonus \in 0 .. order[o].price, friend \in Payers :
               Settle(o, rebate, friend, bonus)
  \/ \E u \in Payers, delta \in Deltas : Adjust(u, delta)

Spec == Init /\ [][Next]_vars
=============================================================================

------------------------------- MODULE Funding -------------------------------
(***************************************************************************)
(* Wallet top-ups (src/src/services/payments.js, modern-gateways.js,       *)
(* crypto-pay.js).  A payment is created with an idempotency key, leads to *)
(* an invoice of a gateway, a card number, a Stars invoice or a crypto     *)
(* address, and is credited to the wallet once when a proof arrives:       *)
(* through a callback, a webhook, a poll of the tick, a check the customer *)
(* or an administrator asks for, in any order and any number of times,     *)
(* before or after the deadline.                                           *)
(*                                                                         *)
(* Handlers run on the coordinator's queue.  Only the creation keeps the   *)
(* queue over two commits, so the process can be evicted between them.     *)
(***************************************************************************)
EXTENDS Integers, FiniteSets, FiniteSetsExt, SequencesExt

CONSTANTS
  Users,
  Payments,        \* ids of payments
  Nonces,          \* idempotency keys of a user
  None,            \* the absence of a value
  Terms,           \* what a customer may ask for: user, method, amount
  Cashback,        \* percent given on a top-up, by method
  Charges,         \* Stars charges
  Transfers,       \* transfers on a block chain
  Outcomes,        \* what a call to a gateway can lead to
  MaxPending,      \* open payments of one user (5 in the code)
  MaxCrashes       \* bound: evictions of the coordinator

(* manual: a card transfer with a receipt.  called: zarinpal, aqaye,       *)
(* zarinpay, nowpayments.  polled: tetrapay, iranpay3, plisio.  modern:    *)
(* tonpay, blupal, cubepay, rentopay.  signed: tronado.                    *)
Invoiced == {"called", "polled", "modern", "signed"}
Methods  == {"manual", "stars", "crypto"} \union Invoiced
Status   == {"creating", "pending", "review", "failed", "receipt_review", "rejected",
             "cancelled", "expired", "paid"}
References == {"invoice", "manual", "stars", "crypto"} \X (Payments \union Charges \union Transfers)

ASSUME FundingAssumption ==
  /\ None \notin Users \union Payments \union Transfers
  /\ Terms \subseteq [user : Users, method : Methods, amount : Nat]
  /\ None \notin [terms : Terms, status : Status, hash : Transfers \union {None}]
  /\ None \notin [payment : Payments, stage : {"asked", "approved", "charged", "received"}]
  /\ None \notin [memo : Payments, inTime : BOOLEAN, confirmed : BOOLEAN]
  /\ Cashback \in [Methods -> 0 .. 100]
  /\ Outcomes \subseteq {"ok", "failed", "lost"}
  /\ MaxPending \in Nat /\ MaxCrashes \in Nat

VARIABLES
  payment,    \* payment rows, or None
  request,    \* the payment of each user's idempotency key
  owner,      \* the payment each reference was used for
  balance,    \* wallets
  ledger,     \* payments whose deposit was posted
  turn,       \* payments, the one checked longest ago first (lastChecked)
  running,    \* the payment whose creation is between its two commits
  age,        \* how far each payment is past its deadline
  crashes,
  invoice,    \* external: invoices of gateways
  charge,     \* external: Stars charges and their pre-checkouts
  transfer    \* external: transfers on the chain

rows     == <<payment, request, owner, balance, ledger, turn>>
external == <<invoice, charge, transfer>>
vars     == <<rows, running, age, crashes, external>>

-----------------------------------------------------------------------------
Created   == {p \in Payments : payment[p] # None}
Method(p) == payment[p].terms.method
User(p)   == payment[p].terms.user
Has(p, statuses) == p \in Created /\ payment[p].status \in statuses

Credit(p) == payment[p].terms.amount + (payment[p].terms.amount * Cashback[Method(p)]) \div 100

OpenOf(u) == {p \in Created : User(p) = u /\ Has(p, {"pending", "creating", "receipt_review"})}

Init ==
  /\ payment = [p \in Payments |-> None]
  /\ request = [u \in Users |-> [n \in Nonces |-> None]]
  /\ owner   = [r \in References |-> None]
  /\ balance = [u \in Users |-> 0]
  /\ ledger  = {}
  /\ turn    = << >>
  /\ running = None
  /\ age     = [p \in Payments |-> "open"]
  /\ crashes = 0
  /\ invoice  = [p \in Payments |-> "none"]
  /\ charge   = [c \in Charges |-> None]
  /\ transfer = [t \in Transfers |-> None]

-----------------------------------------------------------------------------
(* Creation: the row and the key first, then the gateway, then the row.    *)

CreatePayment_KeyLast(u, n, terms) ==
  LET p == CHOOSE q \in Payments : payment[q] = None IN
  /\ running = None
  /\ Created # Payments
  /\ terms.user = u
  /\ request[u][n] = None
  /\ Cardinality(OpenOf(u)) < MaxPending
  /\ payment' = [payment EXCEPT ![p] = [terms |-> terms, status |-> "creating", hash |-> None]]
  /\ turn' = <<p>> \o turn
  /\ running' = p
  /\ UNCHANGED <<request, owner, balance, ledger, age, crashes, external>>

(* A key that was used before answers with its payment and changes nothing. *)
CreatePayment(u, n, terms) ==
  LET p == CHOOSE q \in Payments : payment[q] = None IN
  /\ running = None
  /\ Created # Payments
  /\ terms.user = u
  /\ request[u][n] = None
  /\ Cardinality(OpenOf(u)) < MaxPending
  /\ payment' = [payment EXCEPT ![p] = [terms |-> terms, status |-> "creating", hash |-> None]]
  /\ request' = [request EXCEPT ![u][n] = p]
  /\ turn' = <<p>> \o turn
  /\ running' = p
  /\ UNCHANGED <<owner, balance, ledger, age, crashes, external>>

(* The invoice of the gateway or of Telegram, whose errors are all taken   *)
(* for refusals; the other methods need none.  Only when the answer        *)
(* arrives does the customer learn where to pay.                           *)
FinishCreate(p, outcome) ==
  /\ running = p
  /\ Method(p) \in {"manual", "crypto"} => outcome = "ok"
  /\ Method(p) = "stars" => outcome # "lost"
  /\ payment' = [payment EXCEPT ![p].status =
                   CASE outcome = "ok"     -> "pending"
                     [] outcome = "failed" -> "failed"
                     [] outcome = "lost"   -> "review"]
  /\ invoice' = IF outcome = "ok" /\ Method(p) \in Invoiced
                THEN [invoice EXCEPT ![p] = "open"] ELSE invoice
  /\ running' = None
  /\ UNCHANGED <<request, owner, balance, ledger, turn, age, crashes, charge, transfer>>

-----------------------------------------------------------------------------
(* Settlement *)

(* What settlePayment writes in one transaction: a payment already paid is *)
(* left alone, a reference used for another payment is refused.            *)
Unused(p, reference) == owner[reference] \in {None, p}

Settles_RowForgotten(from, p, reference) ==
  IF from[p].status = "paid" THEN payment' = from /\ UNCHANGED <<owner, balance, ledger>>
  ELSE /\ payment' = from
       /\ owner'   = [owner EXCEPT ![reference] = p]
       /\ balance' = IF p \in ledger THEN balance
                     ELSE [balance EXCEPT ![User(p)] = @ + Credit(p)]
       /\ ledger'  = ledger \union {p}

Settles_Overdrawn(from, p, reference) ==
  IF from[p].status = "paid" THEN payment' = from /\ UNCHANGED <<owner, balance, ledger>>
  ELSE /\ payment' = [from EXCEPT ![p].status = "paid"]
       /\ owner'   = [owner EXCEPT ![reference] = p]
       /\ balance' = [balance EXCEPT ![User(p)] = @ - Credit(p)]
       /\ ledger'  = ledger \union {p}

Settles(from, p, reference) ==
  IF from[p].status = "paid" THEN payment' = from /\ UNCHANGED <<owner, balance, ledger>>
  ELSE /\ payment' = [from EXCEPT ![p].status = "paid"]
       /\ owner'   = [owner EXCEPT ![reference] = p]
       /\ balance' = IF p \in ledger THEN balance
                     ELSE [balance EXCEPT ![User(p)] = @ + Credit(p)]
       /\ ledger'  = ledger \union {p}

Proves_AnyTime(t, p) ==
  t # None /\ transfer[t] # None /\ transfer[t].memo = p /\ transfer[t].confirmed

(* A transfer proves a payment when it carries the payment's memo, was     *)
(* made before the deadline and has its confirmations.                     *)
Proves(t, p) ==
  /\ t # None /\ transfer[t] # None
  /\ transfer[t].memo = p /\ transfer[t].inTime /\ transfer[t].confirmed

(* What an inquiry at the gateway or the chain can prove, by method.       *)
Provable(p) ==
  \/ Method(p) \in {"called", "polled"} /\ invoice[p] = "paid"
  \/ Method(p) = "modern" /\ invoice[p] = "paid" /\ payment[p].status \in {"pending", "expired", "paid"}
  \/ Method(p) = "crypto" /\ Proves(payment[p].hash, p)

ProofOf(p) == IF Method(p) = "crypto" THEN <<"crypto", payment[p].hash>> ELSE <<"invoice", p>>

(* A callback, or a check by the customer or an administrator.             *)
VerifyPayment(p) ==
  /\ running = None
  /\ p \in Created
  /\ Provable(p) /\ Unused(p, ProofOf(p))
  /\ Settles(payment, p, ProofOf(p))
  /\ UNCHANGED <<request, turn, running, age, crashes, external>>

(* Tronado reports with a signed webhook, and in no other way.             *)
SignedWebhook(p) ==
  /\ running = None
  /\ p \in Created
  /\ Method(p) = "signed"
  /\ payment[p].status \in {"pending", "paid"}
  /\ invoice[p] = "paid" /\ Unused(p, <<"invoice", p>>)
  /\ Settles(payment, p, <<"invoice", p>>)
  /\ UNCHANGED <<request, turn, running, age, crashes, external>>

(* The hash is stored first; the verification may fail.                    *)
AttachHash(p, t, answered) ==
  LET hashed == [payment EXCEPT ![p].hash = t] IN
  /\ running = None
  /\ Has(p, {"pending", "review", "expired"})
  /\ Method(p) = "crypto"
  /\ IF answered /\ Proves(t, p) /\ Unused(p, <<"crypto", t>>)
     THEN Settles(hashed, p, <<"crypto", t>>)
     ELSE payment' = hashed /\ UNCHANGED <<owner, balance, ledger>>
  /\ UNCHANGED <<request, turn, running, age, crashes, external>>

-----------------------------------------------------------------------------
(* Receipts, cancellations *)

AttachReceipt(p) ==
  /\ running = None
  /\ Has(p, {"pending"}) /\ Method(p) = "manual" /\ age[p] = "open"
  /\ payment' = [payment EXCEPT ![p].status = "receipt_review"]
  /\ UNCHANGED <<request, owner, balance, ledger, turn, running, age, crashes, external>>

DecideReceipt(p, approve) ==
  /\ running = None
  /\ Has(p, {"receipt_review"}) /\ Method(p) = "manual"
  /\ IF approve THEN Unused(p, <<"manual", p>>) /\ Settles(payment, p, <<"manual", p>>)
     ELSE /\ payment' = [payment EXCEPT ![p].status = "rejected"]
          /\ UNCHANGED <<owner, balance, ledger>>
  /\ UNCHANGED <<request, turn, running, age, crashes, external>>

CancelPayment_Any(p) ==
  /\ running = None
  /\ p \in Created
  /\ payment' = [payment EXCEPT ![p].status = "cancelled"]
  /\ UNCHANGED <<request, owner, balance, ledger, turn, running, age, crashes, external>>

CancelPayment(p) ==
  /\ running = None
  /\ Has(p, {"pending"})
  /\ payment' = [payment EXCEPT ![p].status = "cancelled"]
  /\ UNCHANGED <<request, owner, balance, ledger, turn, running, age, crashes, external>>

-----------------------------------------------------------------------------
(* Telegram Stars *)

(* Answered outside the queue, so that a slow handler does not delay it.   *)
PreCheckout(c) ==
  /\ charge[c] # None /\ charge[c].stage = "asked"
  /\ LET p == charge[c].payment IN
     charge' = IF Has(p, {"pending"}) /\ age[p] = "open"
               THEN [charge EXCEPT ![c].stage = "approved"] ELSE [charge EXCEPT ![c] = None]
  /\ UNCHANGED <<rows, running, age, crashes, invoice, transfer>>

StarsSuccessful_OnlyPending(c, acknowledged) ==
  /\ running = None
  /\ charge[c] # None /\ charge[c].stage = "charged"
  /\ payment[charge[c].payment].status \in {"pending", "paid"}
  /\ Unused(charge[c].payment, <<"stars", c>>)
  /\ Settles(payment, charge[c].payment, <<"stars", c>>)
  /\ charge' = IF acknowledged THEN [charge EXCEPT ![c].stage = "received"] ELSE charge
  /\ UNCHANGED <<request, turn, running, age, crashes, invoice, transfer>>

(* The message of a charge is delivered until it is acknowledged; a crash  *)
(* after the settlement leaves it to be delivered again.                   *)
StarsSuccessful(c, acknowledged) ==
  /\ running = None
  /\ charge[c] # None /\ charge[c].stage = "charged"
  /\ Unused(charge[c].payment, <<"stars", c>>)
  /\ Settles(payment, charge[c].payment, <<"stars", c>>)
  /\ charge' = IF acknowledged THEN [charge EXCEPT ![c].stage = "received"] ELSE charge
  /\ UNCHANGED <<request, turn, running, age, crashes, invoice, transfer>>

-----------------------------------------------------------------------------
(* The tick *)

Checkable(p) ==
  \/ Has(p, {"pending"})
  \/ Has(p, {"expired"}) /\ Method(p) = "crypto" /\ payment[p].hash # None /\ age[p] # "stale"

Polled(p) ==
  \/ Method(p) \in {"polled", "modern"}
  \/ Method(p) = "crypto" /\ payment[p].hash # None

(* The pending payment checked longest ago: verified, and only then        *)
(* expired.  fundingTick checks up to four of them in this way.            *)
NextToCheck(i) == Checkable(turn[i]) /\ \A j \in 1 .. i - 1 : ~Checkable(turn[j])

ToTheEnd(i) == Append(RemoveAt(turn, i), turn[i])

CheckPayment_PolledOnly(i, answered) ==
  LET p == turn[i] IN
  /\ running = None
  /\ NextToCheck(i)
  /\ turn' = ToTheEnd(i)
  /\ IF answered /\ Polled(p) /\ Provable(p) /\ Unused(p, ProofOf(p))
     THEN Settles(payment, p, ProofOf(p))
     ELSE /\ payment' = IF payment[p].status = "pending" /\ age[p] # "open" /\ Polled(p)
                        THEN [payment EXCEPT ![p].status = "expired"] ELSE payment
          /\ UNCHANGED <<owner, balance, ledger>>
  /\ UNCHANGED <<request, running, age, crashes, external>>

CheckPayment_ExpireFirst(i, answered) ==
  LET p == turn[i] IN
  /\ running = None
  /\ NextToCheck(i)
  /\ turn' = ToTheEnd(i)
  /\ IF payment[p].status = "pending" /\ age[p] # "open"
     THEN /\ payment' = [payment EXCEPT ![p].status = "expired"]
          /\ UNCHANGED <<owner, balance, ledger>>
     ELSE IF answered /\ Polled(p) /\ Provable(p) /\ Unused(p, ProofOf(p))
          THEN Settles(payment, p, ProofOf(p))
          ELSE UNCHANGED <<payment, owner, balance, ledger>>
  /\ UNCHANGED <<request, running, age, crashes, external>>

CheckPayment(i, answered) ==
  LET p == turn[i] IN
  /\ running = None
  /\ NextToCheck(i)
  /\ turn' = ToTheEnd(i)
  /\ IF answered /\ Polled(p) /\ Provable(p) /\ Unused(p, ProofOf(p))
     THEN Settles(payment, p, ProofOf(p))
     ELSE /\ payment' = IF payment[p].status = "pending" /\ age[p] # "open"
                        THEN [payment EXCEPT ![p].status = "expired"] ELSE payment
          /\ UNCHANGED <<owner, balance, ledger>>
  /\ UNCHANGED <<request, running, age, crashes, external>>

-----------------------------------------------------------------------------
(* The environment: customers who pay, gateways, time, evictions           *)

PayInvoice(p) ==
  /\ invoice[p] = "open"
  /\ invoice' = [invoice EXCEPT ![p] = "paid"]
  /\ UNCHANGED <<rows, running, age, crashes, charge, transfer>>

AskForStars(c, p) ==
  /\ charge[c] = None
  /\ Has(p, Status \ {"creating", "failed", "review"}) /\ Method(p) = "stars"
  /\ charge' = [charge EXCEPT ![c] = [payment |-> p, stage |-> "asked"]]
  /\ UNCHANGED <<rows, running, age, crashes, invoice, transfer>>

ChargeStars(c) ==
  /\ charge[c] # None /\ charge[c].stage = "approved"
  /\ charge' = [charge EXCEPT ![c].stage = "charged"]
  /\ UNCHANGED <<rows, running, age, crashes, invoice, transfer>>

SendTransfer(t, p) ==
  /\ transfer[t] = None
  /\ p \in Created /\ Method(p) = "crypto"
  /\ transfer' = [transfer EXCEPT ![t] = [memo |-> p, inTime |-> age[p] = "open",
                                          confirmed |-> FALSE]]
  /\ UNCHANGED <<rows, running, age, crashes, invoice, charge>>

ConfirmTransfer(t) ==
  /\ transfer[t] # None /\ ~transfer[t].confirmed
  /\ transfer' = [transfer EXCEPT ![t].confirmed = TRUE]
  /\ UNCHANGED <<rows, running, age, crashes, invoice, charge>>

(* The deadline, and the day after it in which a hash is still looked at.  *)
TimePasses(p) ==
  /\ p \in Created /\ age[p] # "stale"
  /\ age' = [age EXCEPT ![p] = IF @ = "open" THEN "due" ELSE "stale"]
  /\ UNCHANGED <<rows, running, crashes, external>>

Crash ==
  /\ running # None /\ crashes < MaxCrashes
  /\ crashes' = crashes + 1
  /\ running' = None
  /\ UNCHANGED <<rows, age, external>>

-----------------------------------------------------------------------------
(* Whether an inquiry is answered, given what calls can lead to.           *)
Answers == {outcome = "ok" : outcome \in Outcomes}

Tick == \E i \in DOMAIN turn, answered \in Answers : CheckPayment(i, answered)

Creation == \E p \in Payments, outcome \in Outcomes : FinishCreate(p, outcome)

Customer ==
  \/ \E u \in Users, n \in Nonces, terms \in Terms : CreatePayment(u, n, terms)
  \/ \E p \in Payments : \/ VerifyPayment(p) \/ SignedWebhook(p)
                        \/ AttachReceipt(p) \/ CancelPayment(p)
                        \/ \E t \in Transfers, answered \in Answers : AttachHash(p, t, answered)
  \/ \E c \in Charges : PreCheckout(c)

Delivery(c) == \E acknowledged \in BOOLEAN : StarsSuccessful(c, acknowledged)

Administrator == \E p \in Payments, approve \in BOOLEAN : DecideReceipt(p, approve)

Environment ==
  \/ \E p \in Payments : \/ PayInvoice(p) \/ TimePasses(p)
                        \/ \E c \in Charges : AskForStars(c, p)
                        \/ \E t \in Transfers : SendTransfer(t, p)
  \/ \E c \in Charges : ChargeStars(c)
  \/ \E t \in Transfers : ConfirmTransfer(t)
  \/ Crash

Next == Tick \/ Creation \/ Customer \/ (\E c \in Charges : Delivery(c)) \/ Administrator \/ Environment

Spec == Init /\ [][Next]_vars

(* The alarm is re-armed, a call ends within its timeout, Telegram repeats *)
(* an update until it is acknowledged, and deadlines pass.                 *)
FairSpec ==
  /\ Spec
  /\ WF_vars(Tick) /\ WF_vars(Creation)
  /\ \A c \in Charges : WF_vars(Delivery(c))
  /\ \A p \in Payments : WF_vars(TimePasses(p))

-----------------------------------------------------------------------------
(* Properties *)

PaymentRow  == [terms : Terms, status : Status, hash : Transfers \union {None}]
ChargeRow   == [payment : Payments, stage : {"asked", "approved", "charged", "received"}]
TransferRow == [memo : Payments, inTime : BOOLEAN, confirmed : BOOLEAN]

(* Every variable keeps its type.                                          *)
TypeOK ==
  /\ payment \in [Payments -> PaymentRow \union {None}]
  /\ request \in [Users -> [Nonces -> Payments \union {None}]]
  /\ owner \in [References -> Payments \union {None}]
  /\ balance \in [Users -> Nat]
  /\ ledger \subseteq Payments
  /\ turn \in Seq(Payments)
  /\ running \in Payments \union {None}
  /\ age \in [Payments -> {"open", "due", "stale"}]
  /\ crashes \in 0 .. MaxCrashes
  /\ invoice \in [Payments -> {"none", "open", "paid"}]
  /\ charge \in [Charges -> ChargeRow \union {None}]
  /\ transfer \in [Transfers -> TransferRow \union {None}]

(* A wallet holds what the paid payments of its owner are worth, with the  *)
(* cash back of their methods: each was credited exactly once.             *)
CreditMatchesPaid ==
  \A u \in Users :
    balance[u] = SumFunctionOnSet([p \in Created |-> Credit(p)],
                                  {p \in Created : User(p) = u /\ Has(p, {"paid"})})

Backs(reference, p) ==
  LET proof == reference[2] IN
  CASE reference[1] = "invoice" -> proof = p /\ invoice[p] = "paid"
    [] reference[1] = "manual"  -> proof = p /\ Method(p) = "manual"
    [] reference[1] = "stars"   -> /\ proof \in Charges /\ charge[proof] # None
                                   /\ charge[proof].payment = p
                                   /\ charge[proof].stage \in {"charged", "received"}
    [] reference[1] = "crypto"  -> /\ proof \in Transfers /\ transfer[proof] # None
                                   /\ transfer[proof].memo = p
                                   /\ transfer[proof].inTime /\ transfer[proof].confirmed

(* A paid payment has a proof of its own: a paid invoice, a charge, a      *)
(* confirmed transfer made in time with its memo, or a reviewed receipt,   *)
(* and a reference proves no other payment.                                *)
PaidWasProved ==
  \A p \in Payments : Has(p, {"paid"}) => \E r \in References : owner[r] = p /\ Backs(r, p)

(* An idempotency key leads to one payment of its user and a payment has   *)
(* one key, even when the process is evicted during the creation and the   *)
(* customer repeats the request.                                           *)
OneKeyOnePayment ==
  /\ \A p \in Created : \E n \in Nonces : request[User(p)][n] = p
  /\ \A u, v \in Users, m, n \in Nonces :
       request[u][m] # None =>
         /\ request[u][m] \in Created /\ User(request[u][m]) = u
         /\ request[u][m] = request[v][n] => <<u, m>> = <<v, n>>

(* The deposit of a payment is in the ledger exactly when it is paid.      *)
LedgerMatchesPaid == \A p \in Payments : p \in ledger <=> Has(p, {"paid"})

(* A paid payment stays paid: no late callback, check, expiry, cancellation *)
(* or review touches it.                                                   *)
PaidForever == [][\A p \in Payments : Has(p, {"paid"}) => payment'[p].status = "paid"]_vars

(* Money that was paid reaches the wallet.  A Stars charge is credited      *)
(* although the deadline passes or the customer cancels between the        *)
(* pre-checkout and the message; an invoice paid while its payment is      *)
(* pending is credited by the tick, even when the deadline passes before   *)
(* the next check; and every pending payment ends, so that it does not     *)
(* count towards the limit of open payments for ever.                      *)
MoneyArrives ==
  /\ \A c \in Charges :
       (charge[c] # None /\ charge[c].stage = "charged")
         ~> (charge[c] # None /\ Has(charge[c].payment, {"paid"}))
  /\ \A p \in Payments :
       /\ (Has(p, {"pending"}) /\ Polled(p) /\ Provable(p))
            ~> \/ Has(p, {"paid", "cancelled"})
               \/ p \in Created /\ Method(p) = "crypto" /\ ~Provable(p)
       /\ Has(p, {"pending"}) ~> ~Has(p, {"pending"})
=============================================================================

---------------------------- MODULE ServiceEngine ----------------------------
(***************************************************************************)
(* The purchase engine (src/src/services/engine.js) with the wallet it     *)
(* reserves from (src/src/services/wallet.js) and the provider panels it   *)
(* provisions on (external).                                               *)
(*                                                                         *)
(* A customer turns a quote into an operation; the operation reserves      *)
(* money, stock rows and a coupon use in one storage transaction and joins *)
(* a durable queue.  One operation at a time is processed by a task whose  *)
(* steps are separated by calls to the panel: a call can be refused, can   *)
(* fail without an answer before or after taking effect, and the process   *)
(* can be evicted between any two steps.  The operation then ends settled  *)
(* ("done"), released ("failed") or parked for a human ("review").         *)
(*                                                                         *)
(* The coordinator runs every handler of this module on one FIFO queue     *)
(* (index.js), so a handler other than the task's own steps runs only when *)
(* no task is running.                                                     *)
(***************************************************************************)
EXTENDS Integers, FiniteSets, Functions

CONSTANTS
  Users,               \* customers
  Operations,          \* ids of quotes; an operation has the id of its quote
  Plans,               \* service plans
  Panels,              \* provider panels
  StockRows,           \* rows of the stock shelf
  CustomNames,         \* service names a customer may choose
  None,                \* the absence of a value
  Offers,              \* what customers may ask a quote for
  PanelType,           \* "named": users found by name, "keyed": by uuid, "stock"
  HomePanel,           \* the panel each plan is saved with
  Referrer,            \* the user who referred each user, or None
  RolesOf,             \* the roles an administrator may give to each user
  StandingsOf,         \* what the row of each user may say of that user
  CreditLimit,         \* the debt each user may have as a credit agent
  InitialBalance,      \* balances before the first step
  Adjustments,         \* amounts an administrator may add or subtract, by event
  PurchaseCashback, ReferralPercent,
  MaxOpenOperations, MaxServices, TestsPerUser,
  Capacity,            \* services a panel may hold
  CouponMaxUses,       \* 0 means unlimited
  CouponPerUser,
  Outcomes,            \* what a call to a panel can lead to
  MaxVersion,          \* bound: saves of one plan
  MaxCrashes           \* bound: evictions of the coordinator

-----------------------------------------------------------------------------
(* Terms and rows *)

Kinds       == {"buy", "trial", "renew"}     \* volume and time follow renew
Roles       == {"customer", "credit_agent"}
Standings   == {"absent", "member", "banned"}  \* absent: the bot was never started
Open        == {"queued", "sending", "review"}
Status      == {"none", "done", "failed"} \union Open
MaxQuantity == 2                              \* bound: of the ten the code allows
Indexes     == 1 .. MaxQuantity
Accounts    == Operations \X Indexes          \* also the ids of services
Uncertain   == {"lost", "applied", "late"}    \* no answer: the effect is unknown
AnyOutcome  == {"ok", "rejected", "failed"} \union Uncertain

(* What requests and settings are checked for before they are stored.      *)
ASSUME RowsAssumption ==
  /\ IsFiniteSet(Operations)
  /\ None \notin Users \union Operations \union Accounts
  /\ Offers \subseteq
       [user : Users, kind : Kinds, plan : Plans, panel : Panels, quantity : Indexes,
        coupon : BOOLEAN, name : CustomNames \union {None}, amount : Nat]
  /\ \A offer \in Offers : offer.kind # "buy" => offer.quantity = 1
  /\ PanelType \in [Panels -> {"named", "keyed", "stock"}]
  /\ None \notin [offer : Offers, service : Accounts \union {None}, version : Nat,
                  role : Roles, live : BOOLEAN]
  /\ None \notin [phase : {"reserved", "settled", "released"}, payer : Users, price : Nat]

ASSUME MoneyAssumption ==
  /\ Referrer \in [Users -> Users \union {None}]
  /\ RolesOf \in [Users -> SUBSET Roles]
  /\ StandingsOf \in [Users -> SUBSET Standings]
  /\ CreditLimit \in [Users -> Nat]
  /\ InitialBalance \in [Users -> Nat]
  /\ Adjustments \subseteq [id : Nat, user : Users, amount : Int]
  /\ \A a, b \in Adjustments : a.id = b.id => a = b     \* wallet_reference_conflict
  /\ PurchaseCashback \in 0 .. 100
  /\ ReferralPercent \in 0 .. 100

ASSUME BoundsAssumption ==
  /\ Outcomes \subseteq AnyOutcome
  /\ CouponMaxUses \in Nat
  /\ CouponPerUser \in Nat
  /\ MaxVersion \in Nat
  /\ MaxCrashes \in Nat

VARIABLES
  plan,       \* updatedAt (counted) and enabled, by plan
  panel,      \* panels that exist
  quote,      \* quote rows; the terms an operation copies
  operation,  \* operation rows
  account,    \* wallet rows: balance, held, role; and standing, of the user row
  ledger,     \* ids of the wallet events posted
  coupon,     \* the coupon row and the uses of each user
  stock,      \* stock rows: status and the operation holding them
  service,    \* service rows: the owner, or None
  running,    \* the operation of the running task, or None
  step,       \* what the running task does next
  crashes,    \* evictions so far (bounded by MaxCrashes)
  remote,     \* external: users held by the panels
  wire,       \* external: calls given up on that may still take effect
  calls       \* external: creating or changing calls received, by account

durable  == <<plan, panel, quote, operation, account, ledger, coupon, stock, service>>
task     == <<running, step>>
external == <<remote, wire, calls>>
vars     == <<durable, task, crashes, external>>

-----------------------------------------------------------------------------
NoAccount  == [marker |-> None, level |-> 0]
NoStock    == [status |-> "available", operation |-> None]

(* The key a panel finds a user by.  prepareAccount names an account after *)
(* the first ten characters of <operation>_<index>, so the accounts of one *)
(* operation share their name.                                             *)
Keys == Panels \X (Operations \union CustomNames) \X (0 .. MaxQuantity)

Offer(o)    == quote[o].offer
User(o)     == Offer(o).user
Amount(o)   == Offer(o).amount
Kind(o)     == Offer(o).kind
Panel(o)    == Offer(o).panel
Type(o)     == PanelType[Panel(o)]
Quantity(o) == Offer(o).quantity

RemoteKey(a) ==
  LET o == a[1] IN
  IF PanelType[Panel(o)] = "keyed" THEN <<Panel(o), o, a[2]>>
  ELSE IF Offer(o).name # None      THEN <<Panel(o), Offer(o).name, 0>>
  ELSE                                   <<Panel(o), o, 0>>

AccountsOf(o) == {o} \X (1 .. Quantity(o))

OpenOf(u)     == {o \in Operations : operation[o].status \in Open /\ User(o) = u}
ServicesOf(u) == {a \in Accounts : service[a] = u}
ServicesOn(p) == {a \in Accounts : service[a] # None /\ Panel(a[1]) = p}
UsingCoupon(u) == {o \in OpenOf(u) : Offer(o).coupon}
Trials(u)     == {a \in ServicesOf(u) : Kind(a[1]) = "trial"}
OpenTrials(u) == {o \in OpenOf(u) : Kind(o) = "trial"}

Steps == {"idle", "fill", "look", "create", "finish", "read", "update", "confirm", "commit"}
LedgerEvents == ({"hold", "settle", "release", "commission"} \X Operations)
                \union ({"admin"} \X {adj.id : adj \in Adjustments})

FreshOperation ==
  [status |-> "queued", createdAt |-> 0, inFlight |-> 0, created |-> 0, results |-> 0,
   dispatched |-> FALSE, before |-> 0, desired |-> 0, stock |-> {}, reason |-> "none"]
NoOperation == [FreshOperation EXCEPT !.status = "none"]

Existing == {o \in Operations : operation[o].status # "none"}

Init ==
  /\ plan      = [p \in Plans |-> [version |-> 0, enabled |-> TRUE]]
  /\ panel     = Panels
  /\ quote     = [o \in Operations |-> None]
  /\ operation = [o \in Operations |-> NoOperation]
  /\ account   = [u \in Users |->
                    [balance |-> InitialBalance[u], held |-> 0, role |-> "customer",
                     standing |-> IF "absent" \in StandingsOf[u] THEN "absent" ELSE "member"]]
  /\ ledger    = {}
  /\ coupon    = [reserved |-> 0, used |-> 0, uses |-> [u \in Users |-> 0]]
  /\ stock     = [r \in StockRows |-> NoStock]
  /\ service   = [a \in Accounts |-> None]
  /\ running = None /\ step = "idle" /\ crashes = 0
  /\ remote = [k \in Keys |-> NoAccount]
  /\ wire = {}
  /\ calls = [a \in Accounts |-> 0]

-----------------------------------------------------------------------------
(* The wallet *)

Credit(u) == IF account[u].role = "credit_agent" THEN CreditLimit[u] ELSE 0

(* What walletWrites asserts before it posts an event.                     *)
Covered_IgnoresHolds(u, delta, hold) ==
  /\ account[u].held + hold >= 0
  /\ delta - hold < 0 => account[u].balance + delta >= -Credit(u)

Covered(u, delta, hold) ==
  LET balance == account[u].balance + delta
      held    == account[u].held + hold IN
  /\ held >= 0
  /\ delta - hold < 0 => balance - held >= -Credit(u)

(* An event already in the ledger is not posted again.                     *)
Post(wallets, event, u, delta, hold) ==
  IF event \in ledger THEN wallets
  ELSE [wallets EXCEPT ![u].balance = @ + delta, ![u].held = @ + hold]

AdjustWallet(adj) ==
  LET event == <<"admin", adj.id>> IN
  /\ running = None
  /\ event \notin ledger
  /\ Covered(adj.user, adj.amount, 0)
  /\ account' = Post(account, event, adj.user, adj.amount, 0)
  /\ ledger' = ledger \union {event}
  /\ UNCHANGED <<plan, panel, quote, operation, coupon, stock, service, task, crashes, external>>

UpdateAccount(u, role) ==
  /\ running = None
  /\ account[u].role # role
  /\ account' = [account EXCEPT ![u].role = role]
  /\ UNCHANGED <<plan, panel, quote, operation, ledger, coupon, stock, service, task, crashes, external>>

(* A user starts the bot, or an administrator bans or readmits one.        *)
SetStanding(u, standing) ==
  /\ running = None
  /\ standing \notin {"absent", account[u].standing}
  /\ account[u].standing = "absent" => standing = "member"
  /\ account' = [account EXCEPT ![u].standing = standing]
  /\ UNCHANGED <<plan, panel, quote, operation, ledger, coupon, stock, service, task, crashes, external>>

(* What every request of a customer is checked for.                        *)
Admitted(u) == account[u].standing = "member"

-----------------------------------------------------------------------------
(* The catalogue: plans, panels, stock *)

SavePlan(p, enabled) ==
  /\ running = None
  /\ plan[p].version < MaxVersion
  /\ plan' = [plan EXCEPT ![p] = [version |-> @.version + 1, enabled |-> enabled]]
  /\ UNCHANGED <<panel, quote, operation, account, ledger, coupon, stock, service, task, crashes, external>>

(* Refused while a service or a plan names the panel; open operations are  *)
(* not looked at.                                                          *)
DeletePanel(p) ==
  /\ running = None
  /\ p \in panel
  /\ ServicesOn(p) = {}
  /\ \A q \in Plans : HomePanel[q] # p
  /\ panel' = panel \ {p}
  /\ UNCHANGED <<plan, quote, operation, account, ledger, coupon, stock, service, task, crashes, external>>

SetStock(r, from, to) ==
  /\ running = None
  /\ stock[r].status = from
  /\ stock' = [stock EXCEPT ![r].status = to]
  /\ UNCHANGED <<plan, panel, quote, operation, account, ledger, coupon, service, task, crashes, external>>

DisableStock(r) == SetStock(r, "available", "disabled") \/ SetStock(r, "disabled", "available")

ManualStockSale(r) == SetStock(r, "available", "delivered")

-----------------------------------------------------------------------------
(* Quotes and purchases *)

CouponAvailable(u) ==
  /\ CouponMaxUses = 0 \/ coupon.used + coupon.reserved < CouponMaxUses
  /\ coupon.uses[u] + Cardinality(UsingCoupon(u)) < CouponPerUser

TrialAllowed(u) == Cardinality(Trials(u)) + Cardinality(OpenTrials(u)) < TestsPerUser

(* s is the service a renewal extends; its panel is the offer's.           *)
Quote(o, offer, s) ==
  /\ running = None
  /\ quote[o] = None
  /\ Admitted(offer.user)
  /\ plan[offer.plan].enabled
  /\ offer.panel \in panel
  /\ IF offer.kind = "renew"
     THEN s \in ServicesOf(offer.user) /\ Panel(s[1]) = offer.panel
     ELSE s = None
  /\ offer.kind = "trial" => TrialAllowed(offer.user)
  /\ offer.coupon => CouponAvailable(offer.user)
  /\ quote' = [quote EXCEPT ![o] =
                 [offer |-> offer, service |-> s, version |-> plan[offer.plan].version,
                  role |-> account[offer.user].role, live |-> TRUE]]
  /\ UNCHANGED <<plan, panel, operation, account, ledger, coupon, stock, service, task, crashes, external>>

QuoteExpires(o) ==
  /\ o \notin Existing
  /\ quote[o] # None /\ quote[o].live
  /\ quote' = [quote EXCEPT ![o].live = FALSE]
  /\ UNCHANGED <<plan, panel, operation, account, ledger, coupon, stock, service, task, crashes, external>>

StockNeeded(o) == IF Type(o) = "stock" THEN Quantity(o) ELSE 0

MayPurchase(o) ==
  LET u == User(o) IN
  /\ quote[o].live
  /\ Admitted(u)
  /\ plan[Offer(o).plan] = [version |-> quote[o].version, enabled |-> TRUE]
  /\ account[u].role = quote[o].role
  /\ Cardinality(OpenOf(u)) < MaxOpenOperations
  /\ quote[o].service # None =>
       \A p \in Operations : operation[p].status \in Open => quote[p].service # quote[o].service
  /\ Cardinality(ServicesOf(u)) + Quantity(o) <= MaxServices
  /\ Kind(o) = "trial" => TrialAllowed(u)
  /\ Panel(o) \in panel
  /\ Cardinality(ServicesOn(Panel(o))) + Quantity(o) <= Capacity[Panel(o)]
  /\ Offer(o).coupon => CouponAvailable(u)
  /\ Covered(u, 0, Amount(o))

(* One transaction: the hold, the stock rows, the coupon and the operation. *)
Purchase(o, rows) ==
  /\ running = None
  /\ quote[o] # None /\ o \notin Existing
  /\ MayPurchase(o)
  /\ Cardinality(rows) = StockNeeded(o)
  /\ \A r \in rows : stock[r].status = "available"
  /\ operation' = [operation EXCEPT ![o] =
                     [FreshOperation EXCEPT !.stock = rows,
                                            !.createdAt = Cardinality(Existing) + 1]]
  /\ stock' = [r \in StockRows |-> IF r \in rows
                                   THEN [status |-> "reserved", operation |-> o] ELSE stock[r]]
  /\ coupon' = IF Offer(o).coupon THEN [coupon EXCEPT !.reserved = @ + 1] ELSE coupon
  /\ account' = Post(account, <<"hold", o>>, User(o), 0, Amount(o))
  /\ ledger' = ledger \union {<<"hold", o>>}
  /\ UNCHANGED <<plan, panel, quote, service, task, crashes, external>>

-----------------------------------------------------------------------------
(* The two ways an operation ends *)

DropReservation_Unguarded(c, o) == [c EXCEPT !.reserved = IF @ > 0 THEN @ - 1 ELSE 0]

DropReservation(c, o) ==
  IF Offer(o).coupon THEN [c EXCEPT !.reserved = IF @ > 0 THEN @ - 1 ELSE 0] ELSE c

ReleaseHold_Forgotten(o) == Post(account, <<"release", o>>, User(o), 0, 0)

ReleaseHold(o) == Post(account, <<"release", o>>, User(o), 0, -Amount(o))

FreeRows_Forgotten(o) == stock

FreeRows(o) ==
  [r \in StockRows |->
    IF r \in operation[o].stock /\ stock[r] = [status |-> "reserved", operation |-> o]
    THEN NoStock ELSE stock[r]]

ReleaseOperation(o, reason) ==
  /\ operation' = [operation EXCEPT ![o].status = "failed", ![o].reason = reason]
  /\ stock' = FreeRows(o)
  /\ coupon' = DropReservation(coupon, o)
  /\ account' = ReleaseHold(o)
  /\ ledger' = ledger \union {<<"release", o>>}
  /\ UNCHANGED service

Percent(amount, rate) == (amount * rate) \div 100
Cashback(o)   == Percent(Amount(o), PurchaseCashback)
Commission(o) == Percent(Amount(o), ReferralPercent)

Commissioned_BannedToo(o) ==
  ReferralPercent > 0 /\ Referrer[User(o)] \notin {None, User(o)}

(* A referrer who is unknown, banned or the buyer is passed over.          *)
Commissioned(o) ==
  LET referrer == Referrer[User(o)] IN
  ReferralPercent > 0 /\ referrer \notin {None, User(o)} /\ Admitted(referrer)

(* The commission is posted on the accounts as the settlement leaves them. *)
SettledAccounts_StaleRead(o) ==
  IF Commissioned(o)
  THEN Post(account, <<"commission", o>>, Referrer[User(o)], Commission(o), 0)
  ELSE Post(account, <<"settle", o>>, User(o), Cashback(o) - Amount(o), -Amount(o))

SettledAccounts(o) ==
  LET settled == Post(account, <<"settle", o>>, User(o), Cashback(o) - Amount(o), -Amount(o)) IN
  IF Commissioned(o)
  THEN Post(settled, <<"commission", o>>, Referrer[User(o)], Commission(o), 0)
  ELSE settled

Finalizable(o) ==
  /\ quote[o].service # None => service[quote[o].service] = User(o)
  /\ Covered(User(o), Cashback(o) - Amount(o), -Amount(o))

(* The commit of finalizeOperation: services, stock, coupon, settlement,   *)
(* commission and the status in one transaction.                           *)
FinalizeOperation(o) ==
  LET u == User(o) IN
  /\ operation' = [operation EXCEPT ![o].status = "done", ![o].results = Quantity(o)]
  /\ service' = IF quote[o].service # None THEN service
                ELSE [a \in Accounts |-> IF a \in AccountsOf(o) THEN u ELSE service[a]]
  /\ stock' = [r \in StockRows |-> IF r \in operation[o].stock
                                   THEN [stock[r] EXCEPT !.status = "delivered"] ELSE stock[r]]
  /\ coupon' = IF Offer(o).coupon
               THEN [DropReservation(coupon, o) EXCEPT !.used = @ + 1, !.uses[u] = @ + 1]
               ELSE coupon
  /\ account' = SettledAccounts(o)
  /\ ledger' = ledger \union {<<"settle", o>>}
                      \union (IF Commissioned(o) THEN {<<"commission", o>>} ELSE {})

-----------------------------------------------------------------------------
(* The task: processOperation, one step between two calls to the panel *)

At(o, s)   == running = o /\ step = s
Advance(s) == step' = s /\ UNCHANGED running
TaskEnds   == running' = None /\ step' = "idle"

ReadOutcomes == Outcomes \intersect {"ok", "rejected", "failed", "lost"}

(* The catch of processOperation.  held counts the results the task has in *)
(* memory only.                                                            *)
Unsafe_ForgetsCreated(op, outcome, held) ==
  \/ outcome \in Uncertain
  \/ op.results + held > 0
  \/ op.inFlight # 0 /\ outcome # "rejected"
  \/ op.dispatched

Unsafe(op, outcome, held) ==
  \/ outcome \in Uncertain
  \/ op.results + held > 0
  \/ op.created > 0
  \/ op.inFlight # 0 /\ outcome # "rejected"
  \/ op.dispatched

Fails(o, outcome, held) ==
  /\ TaskEnds
  /\ IF Unsafe(operation[o], outcome, held)
     THEN /\ operation' = [operation EXCEPT ![o].status = "review"]
          /\ UNCHANGED <<account, ledger, coupon, stock, service>>
     ELSE ReleaseOperation(o, "failed")
  /\ UNCHANGED <<plan, panel, quote, crashes>>

Continues(o, op, s) ==
  /\ operation' = [operation EXCEPT ![o] = op]
  /\ Advance(s)
  /\ UNCHANGED <<plan, panel, quote, account, ledger, coupon, stock, service, crashes>>

Interrupted_Requeues(o) ==
  /\ running = None
  /\ operation[o].status = "sending"
  /\ operation' = [operation EXCEPT ![o].status = "queued"]
  /\ UNCHANGED <<plan, panel, quote, account, ledger, coupon, stock, service, task, crashes, external>>

(* An operation found "sending" was interrupted: it is never resumed.      *)
Interrupted(o) ==
  /\ running = None
  /\ operation[o].status = "sending"
  /\ operation' = [operation EXCEPT ![o].status = "review"]
  /\ UNCHANGED <<plan, panel, quote, account, ledger, coupon, stock, service, task, crashes, external>>

(* A queued operation whose panel is gone makes the handler throw before   *)
(* it changes anything.                                                    *)
Begin(o) ==
  /\ running = None
  /\ operation[o].status = "queued"
  /\ Panel(o) \in panel
  /\ operation' = [operation EXCEPT ![o].status = "sending"]
  /\ running' = o
  /\ step' = IF Type(o) = "stock" THEN "fill" ELSE IF Kind(o) = "renew" THEN "read" ELSE "look"
  /\ UNCHANGED <<plan, panel, quote, account, ledger, coupon, stock, service, crashes, external>>

ProcessOperation(o) == Interrupted(o) \/ Begin(o)

(* Stock: every reserved row is checked and unsealed.                      *)
FillFromStock(o, outcome) ==
  /\ At(o, "fill")
  /\ IF outcome = "ok" /\ \A r \in operation[o].stock :
                             stock[r] = [status |-> "reserved", operation |-> o]
     THEN Continues(o, operation[o], "commit")
     ELSE \E held \in 0 .. Quantity(o) - 1 : Fails(o, "failed", held)
  /\ UNCHANGED external

LookForAccount_OffByOne(o, outcome) ==
  LET k == operation[o].results
      free == remote[RemoteKey(<<o, k>>)] = NoAccount IN
  /\ At(o, "look")
  /\ IF outcome = "ok"
     THEN IF free THEN Continues(o, [operation[o] EXCEPT !.inFlight = k], "create")
                  ELSE Fails(o, "failed", 0)
     ELSE Fails(o, outcome, 0)
  /\ UNCHANGED external

(* Before an account is created its name must be free on the panel.        *)
LookForAccount(o, outcome) ==
  LET k == operation[o].results + 1
      free == remote[RemoteKey(<<o, k>>)] = NoAccount IN
  /\ At(o, "look")
  /\ IF outcome = "ok"
     THEN IF free THEN Continues(o, [operation[o] EXCEPT !.inFlight = k], "create")
                  ELSE Fails(o, "failed", 0)
     ELSE Fails(o, outcome, 0)
  /\ UNCHANGED external

(* What a panel does with a call: names are unique on it, an update sets   *)
(* an absolute target.                                                     *)
Effect(call) ==
  IF call.marker # None
  THEN IF remote[call.key] = NoAccount
       THEN [remote EXCEPT ![call.key] = [marker |-> call.marker, level |-> call.level]]
       ELSE remote
  ELSE IF remote[call.key] # NoAccount
       THEN [remote EXCEPT ![call.key].level = call.level]
       ELSE remote

PanelReceives(a, call, outcome) ==
  /\ remote' = IF outcome \in {"ok", "applied"} THEN Effect(call) ELSE remote
  /\ wire'   = IF outcome = "late" THEN wire \union {call} ELSE wire
  /\ calls'  = IF outcome = "failed" THEN calls ELSE [calls EXCEPT ![a] = @ + 1]

CreateCall(o) ==
  LET a == <<o, operation[o].inFlight>> IN
  [key |-> RemoteKey(a), marker |-> a, level |-> 1, by |-> o]

UpdateCall(o) ==
  [key |-> RemoteKey(quote[o].service), marker |-> None, level |-> operation[o].desired, by |-> o]

CreateAccount(o, outcome) ==
  LET k == operation[o].inFlight IN
  /\ At(o, "create")
  /\ outcome = "ok" => remote[CreateCall(o).key] = NoAccount
  /\ PanelReceives(<<o, k>>, CreateCall(o), outcome)
  /\ IF outcome = "ok" THEN Continues(o, [operation[o] EXCEPT !.created = k], "finish")
                       ELSE Fails(o, outcome, 0)

FinishCreate(o, outcome) ==
  LET k == operation[o].inFlight IN
  /\ At(o, "finish")
  /\ IF outcome = "ok" /\ remote[RemoteKey(<<o, k>>)] # NoAccount
     THEN Continues(o, [operation[o] EXCEPT !.results = k, !.inFlight = 0],
                    IF k = Quantity(o) THEN "commit" ELSE "look")
     ELSE Fails(o, outcome, 0)
  /\ UNCHANGED external

(* A renewal reads the account, then sets an absolute target.              *)
ReadService(o, outcome) ==
  LET s == quote[o].service
      now == remote[RemoteKey(s)] IN
  /\ At(o, "read")
  /\ IF outcome = "ok"
     THEN IF service[s] = User(o) /\ now # NoAccount
          THEN Continues(o, [operation[o] EXCEPT !.before = now.level, !.desired = now.level + 1,
                                                 !.dispatched = TRUE], "update")
          ELSE Fails(o, "failed", 0)
     ELSE Fails(o, outcome, 0)
  /\ UNCHANGED external

UpdateService(o, outcome) ==
  /\ At(o, "update")
  /\ PanelReceives(<<o, 1>>, UpdateCall(o), outcome)
  /\ IF outcome = "ok" THEN Continues(o, operation[o], "confirm")
                       ELSE Fails(o, outcome, 0)

ConfirmUpdate(o, outcome) ==
  /\ At(o, "confirm")
  /\ IF outcome = "ok" /\ remote[RemoteKey(quote[o].service)] # NoAccount
     THEN Continues(o, operation[o], "commit")
     ELSE Fails(o, outcome, 0)
  /\ UNCHANGED external

Commit(o) ==
  /\ At(o, "commit")
  /\ IF Finalizable(o)
     THEN /\ FinalizeOperation(o) /\ TaskEnds
          /\ UNCHANGED <<plan, panel, quote, crashes>>
     ELSE Fails(o, "failed", 1)
  /\ UNCHANGED external

TaskStep(o) ==
  \/ \E outcome \in ReadOutcomes :
       \/ LookForAccount(o, outcome) \/ FinishCreate(o, outcome)
       \/ ReadService(o, outcome)    \/ ConfirmUpdate(o, outcome)
  \/ \E outcome \in Outcomes : CreateAccount(o, outcome) \/ UpdateService(o, outcome)
  \/ \E outcome \in Outcomes \intersect {"ok", "failed"} : FillFromStock(o, outcome)
  \/ Commit(o)

-----------------------------------------------------------------------------
(* An administrator resolves an operation in review; a customer cancels    *)

Confirmed_AnyAccount(o) ==
  IF quote[o].service # None
  THEN operation[o].dispatched
  ELSE \A a \in AccountsOf(o) : remote[RemoteKey(a)] # NoAccount

Confirmed(o) ==
  IF quote[o].service # None
  THEN operation[o].dispatched /\ remote[RemoteKey(quote[o].service)].level = operation[o].desired
  ELSE \A a \in AccountsOf(o) : remote[RemoteKey(a)] = [marker |-> a, level |-> 1]

ReconcileOperation_AnyStatus(o) ==
  /\ running = None
  /\ operation[o].status \notin {"none", "done"}
  /\ Panel(o) \in panel /\ Type(o) # "stock"
  /\ Confirmed(o)
  /\ Finalizable(o)
  /\ FinalizeOperation(o)
  /\ UNCHANGED <<plan, panel, quote, task, crashes, external>>

ReconcileOperation(o) ==
  /\ running = None
  /\ operation[o].status \in {"review", "sending"}
  /\ Panel(o) \in panel /\ Type(o) # "stock"
  /\ Confirmed(o)
  /\ Finalizable(o)
  /\ FinalizeOperation(o)
  /\ UNCHANGED <<plan, panel, quote, task, crashes, external>>

ProvedAbsent_Unchecked(o) == quote[o] # None

(* Absence at the panel.  The connector of a stock panel finds nothing, so *)
(* the renewal of a stock service never passes.                            *)
ProvedAbsent(o) ==
  IF quote[o].service # None
  THEN /\ Type(o) # "stock"
       /\ operation[o].before # 0
       /\ remote[RemoteKey(quote[o].service)].level = operation[o].before
  ELSE Type(o) # "stock" => \A a \in AccountsOf(o) : remote[RemoteKey(a)] = NoAccount

CancelOperation_AnyStatus(o) ==
  /\ running = None
  /\ operation[o].status # "none" /\ Panel(o) \in panel /\ ProvedAbsent(o)
  /\ ReleaseOperation(o, "cancelled")
  /\ UNCHANGED <<plan, panel, quote, task, crashes, external>>

CancelOperation(o) ==
  /\ running = None
  /\ \/ operation[o].status = "queued"
     \/ operation[o].status = "review" /\ Panel(o) \in panel /\ ProvedAbsent(o)
  /\ ReleaseOperation(o, "cancelled")
  /\ UNCHANGED <<plan, panel, quote, task, crashes, external>>

-----------------------------------------------------------------------------
(* The environment *)

(* Eviction: the task is lost, every committed row stays.  A call may be   *)
(* outstanding, and the panel carries it out or not.                       *)
Crash ==
  /\ running # None
  /\ crashes < MaxCrashes
  /\ crashes' = crashes + 1
  /\ TaskEnds
  /\ \/ UNCHANGED external
     \/ \E outcome \in Outcomes \intersect Uncertain :
          \/ step = "create" /\ PanelReceives(<<running, operation[running].inFlight>>,
                                              CreateCall(running), outcome)
          \/ step = "update" /\ PanelReceives(<<running, 1>>, UpdateCall(running), outcome)
  /\ UNCHANGED durable

(* A call the engine gave up on takes effect after all.                    *)
LateEffect(call) ==
  /\ remote' = Effect(call)
  /\ wire' = wire \ {call}
  /\ UNCHANGED <<durable, task, crashes, calls>>

-----------------------------------------------------------------------------
Runnable_QueuedOnly == {o \in Operations : operation[o].status = "queued"}

Runnable == {o \in Operations : operation[o].status \in {"queued", "sending"}}
Oldest(o) == \A p \in Runnable : operation[o].createdAt <= operation[p].createdAt
Unquoted == {o \in Operations : quote[o] = None}

(* serviceTick takes the oldest runnable operation.                        *)
Tick == \E o \in Runnable : Oldest(o) /\ ProcessOperation(o)

Customer ==
  \/ /\ Unquoted # {}
     /\ \E offer \in Offers, s \in Accounts \union {None} :
          Quote(CHOOSE o \in Unquoted : TRUE, offer, s)
  \/ \E o \in Operations : \/ QuoteExpires(o)
                          \/ \E rows \in SUBSET StockRows : Purchase(o, rows)
                          \/ CancelOperation(o)

Administrator ==
  \/ \E adj \in Adjustments : AdjustWallet(adj)
  \/ \E u \in Users : \/ \E role \in RolesOf[u] : UpdateAccount(u, role)
                     \/ \E standing \in StandingsOf[u] : SetStanding(u, standing)
  \/ \E p \in Plans, enabled \in BOOLEAN : SavePlan(p, enabled)
  \/ \E p \in Panels : DeletePanel(p)
  \/ \E r \in StockRows : DisableStock(r) \/ ManualStockSale(r)
  \/ \E o \in Operations : ProcessOperation(o) \/ ReconcileOperation(o)

Engine == \E o \in Operations : TaskStep(o)

Next ==
  \/ Tick \/ Engine \/ Customer \/ Administrator
  \/ Crash \/ \E call \in wire : LateEffect(call)

Spec == Init /\ [][Next]_vars

(* The alarm is re-armed after every run, and every call has a timeout.    *)
FairSpec == Spec /\ WF_vars(Tick) /\ WF_vars(Engine)

-----------------------------------------------------------------------------
(* Properties *)

(* Every variable keeps its type.                                          *)
QuoteRow ==
  [offer : Offers, service : Accounts \union {None}, version : 0 .. MaxVersion,
   role : Roles, live : BOOLEAN]
OperationRow ==
  [status : Status, createdAt : Nat, inFlight : 0 .. MaxQuantity, created : 0 .. MaxQuantity,
   results : 0 .. MaxQuantity, dispatched : BOOLEAN, before : Nat, desired : Nat,
   stock : SUBSET StockRows, reason : {"none", "cancelled", "failed"}]
AccountRow == [balance : Int, held : Int, role : Roles, standing : Standings]
StockRow   == [status : {"available", "reserved", "delivered", "disabled"},
               operation : Operations \union {None}]
RemoteUser == [marker : Accounts \union {None}, level : Nat]
PanelCall  == [key : Keys, marker : Accounts \union {None}, level : Nat, by : Operations]

TypeOK ==
  /\ plan \in [Plans -> [version : 0 .. MaxVersion, enabled : BOOLEAN]]
  /\ panel \subseteq Panels
  /\ quote \in [Operations -> QuoteRow \union {None}]
  /\ operation \in [Operations -> OperationRow]
  /\ account \in [Users -> AccountRow]
  /\ ledger \subseteq LedgerEvents
  /\ coupon \in [reserved : Nat, used : Nat, uses : [Users -> Nat]]
  /\ stock \in [StockRows -> StockRow]
  /\ service \in [Accounts -> Users \union {None}]
  /\ running \in Operations \union {None}
  /\ step \in Steps
  /\ crashes \in 0 .. MaxCrashes
  /\ remote \in [Keys -> RemoteUser]
  /\ wire \subseteq PanelCall
  /\ calls \in [Accounts -> Nat]

PostedTo(u)   == {adj \in Adjustments : adj.user = u /\ <<"admin", adj.id>> \in ledger}
SettledOf(u)  == {o \in Existing : operation[o].status = "done" /\ User(o) = u}
ReferredBy(u) == {o \in Existing : /\ operation[o].status = "done" /\ Referrer[User(o)] = u
                                   /\ <<"commission", o>> \in ledger}
Using(states) == {o \in Existing : Offer(o).coupon /\ operation[o].status \in states}

(* A balance is the opening one, plus the adjustments, less what each      *)
(* settled operation cost once, plus the commission of each settled        *)
(* operation that earned one; and an operation earns it once, in the step  *)
(* that settles it, for another user who referred the buyer and is neither *)
(* unknown nor banned at that moment.                                      *)
Explained ==
  \A u \in Users :
    account[u].balance =
      InitialBalance[u]
      + SumFunctionOnSet([adj \in PostedTo(u) |-> adj.amount], PostedTo(u))
      - SumFunctionOnSet([o \in SettledOf(u) |-> Amount(o) - Cashback(o)], SettledOf(u))
      + SumFunctionOnSet([o \in ReferredBy(u) |-> Commission(o)], ReferredBy(u))

CommissionEarned ==
  \A o \in Operations :
    <<"commission", o>> \in ledger' \ ledger <=>
      /\ operation[o].status # "done" /\ operation'[o].status = "done"
      /\ ReferralPercent > 0
      /\ \E u \in Users \ {User(o)} : Referrer[User(o)] = u /\ account[u].standing = "member"

BalanceExplained == []Explained /\ [][CommissionEarned]_vars

(* The debt a user may ever be allowed.                                    *)
MaxDebt == [u \in Users |-> IF "credit_agent" \in RolesOf[u] THEN CreditLimit[u] ELSE 0]

(* What a user spends and reserves never passes the balance by more than   *)
(* the debt that user may ever be allowed, whatever role changes come      *)
(* between a reservation and its settlement.                               *)
Solvent ==
  \A u \in Users :
    account[u].balance - account[u].held >= -MaxDebt[u]

(* The ledger tells the life of every operation: it holds the reservation  *)
(* of each operation there is, the settlement of exactly the done ones and *)
(* the release of exactly the failed ones, so none is paid and released.   *)
LedgerMatchesStatus ==
  \A o \in Operations :
    /\ <<"hold", o>> \in ledger    <=> operation[o].status # "none"
    /\ <<"settle", o>> \in ledger  <=> operation[o].status = "done"
    /\ <<"release", o>> \in ledger <=> operation[o].status = "failed"

(* What the open operations reserve is what is reserved: the money held    *)
(* for a user is the total of that user's open operations, and the         *)
(* coupon's counters are those of the operations that use it, which        *)
(* together keep to both of its limits.  Nothing is lost, released twice   *)
(* or left behind by a crash, a failure, a reconciliation or a             *)
(* cancellation.                                                           *)
ReservationsAccounted ==
  /\ \A u \in Users :
       account[u].held = SumFunctionOnSet([o \in OpenOf(u) |-> Amount(o)], OpenOf(u))
  /\ coupon.reserved = Cardinality(Using(Open))
  /\ coupon.used = Cardinality(Using({"done"}))
  /\ CouponMaxUses > 0 => coupon.used + coupon.reserved <= CouponMaxUses
  /\ \A u \in Users :
       Cardinality({o \in Using(Open \union {"done"}) : User(o) = u}) <= CouponPerUser

(* A stock row is held by one operation while that is open and is handed   *)
(* out for good with it: the rows of an open operation are reserved for    *)
(* it, those of a done one delivered by it, and no other row is reserved.  *)
StockAccounted ==
  /\ \A o \in Operations, r \in StockRows :
       r \in operation[o].stock =>
         /\ operation[o].status \in Open => stock[r] = [status |-> "reserved", operation |-> o]
         /\ operation[o].status = "done" => stock[r] = [status |-> "delivered", operation |-> o]
  /\ \A r \in StockRows :
       stock[r].status = "reserved" =>
         \E o \in Operations : operation[o].status \in Open /\ r \in operation[o].stock

(* The accounts on the panels are those that were paid for: a release      *)
(* decided by the engine itself leaves no account of the operation and no  *)
(* outstanding call that would make one, then or ever after; a service     *)
(* that was sold has an account created for it, and a reconciliation never *)
(* adopts another of the same name; and an account gets one creating or    *)
(* changing call at most: nothing is retried blindly after an unclear      *)
(* answer, a crash or a repeated run.                                      *)
AccountsAccounted ==
  /\ \A o \in Operations :
       operation[o].status = "failed" /\ operation[o].reason = "failed" =>
         /\ \A k \in Keys : remote[k].marker \notin {o} \X Indexes
         /\ \A call \in wire : call.marker \notin {o} \X Indexes
  /\ \A a \in Accounts :
       /\ service[a] # None /\ Type(a[1]) # "stock" => remote[RemoteKey(a)].marker = a
       /\ calls[a] <= 1

(* A done or failed operation never changes again.                         *)
TerminalForever ==
  [][\A o \in Operations :
       operation[o].status \in {"done", "failed"} => operation'[o] = operation[o]]_vars

(* A renewal of the same service was cancelled after an update without an  *)
(* answer, which the panel may still carry out.                            *)
Overtaken(o) ==
  \E p \in Operations :
    /\ operation[p].status = "failed" /\ operation[p].dispatched
    /\ quote[p].service = quote[o].service

(* What an operation pays for is there when it pays: accounts created for  *)
(* it, stock rows delivered to it, or the renewal at its target, unless a  *)
(* late update of another renewal that was cancelled set it back.  And one *)
(* that may have reached a panel is released only when none of its         *)
(* accounts is there and the renewed account is as it was before.          *)
EndsAreProved ==
  [][\A o \in Operations :
       /\ operation[o].status # "done" /\ operation'[o].status = "done" =>
            IF Type(o) = "stock" THEN Cardinality(operation[o].stock) = Quantity(o)
            ELSE IF Kind(o) = "renew"
            THEN /\ operation[o].dispatched
                 /\ \/ remote[RemoteKey(quote[o].service)].level >= operation[o].desired
                    \/ Overtaken(o)
            ELSE \A a \in AccountsOf(o) : remote[RemoteKey(a)].marker = a
       /\ operation[o].status # "failed" /\ operation'[o].status = "failed" =>
            IF Kind(o) = "renew" /\ operation[o].dispatched
            THEN remote[RemoteKey(quote[o].service)].level = operation[o].before
            ELSE \A k \in Keys : remote'[k].marker \notin {o} \X Indexes]_vars

(* How wallets and operations look as wallets and orders of Escrow.        *)
Phase(status) ==
  CASE status = "done" -> "settled" [] status = "failed" -> "released" [] OTHER -> "reserved"

WalletView == [u \in Users |-> [balance |-> account[u].balance, held |-> account[u].held]]
OrderView  == [o \in Operations |->
                 IF operation[o].status = "none" THEN None
                 ELSE [phase |-> Phase(operation[o].status), payer |-> User(o), price |-> Amount(o)]]

Money == INSTANCE Escrow WITH
  Payers  <- Users,
  Orders  <- Operations,
  Prices  <- {offer.amount : offer \in Offers},
  Deltas  <- {adj.amount : adj \in Adjustments},
  Debt    <- MaxDebt,
  Opening <- InitialBalance,
  NoOrder <- None,
  wallet  <- WalletView,
  order   <- OrderView

(* The engine keeps the promise of Escrow: whatever panels, crashes and     *)
(* administrators do, an operation reserves its price once and is then     *)
(* settled once or released once, and nothing else moves money.            *)
ImplementsEscrow == Money!Spec

(* An operation no younger than o waits for a panel that was deleted       *)
(* under it: the tick takes it up, throws and changes nothing.             *)
Blocked(o) ==
  \E p \in Runnable :
    /\ operation[p].status = "queued" /\ operation[p].createdAt <= operation[o].createdAt
    /\ Panel(p) \notin panel

(* Every queued operation is taken up and comes to rest: settled, released *)
(* or parked for an administrator, whatever the operations before it meet; *)
(* the one thing that holds the queue up is an operation whose panel was   *)
(* deleted while it waited, and nothing but its cancellation frees it.     *)
QueuedComesToRest ==
  \A o \in Operations :
    operation[o].status = "queued" ~>
      operation[o].status \in {"review", "done", "failed"} \/ Blocked(o)

(* Where panels answer every call and nothing crashes, every queued        *)
(* operation that is not cancelled is settled.                             *)
FaultFreePurchaseSettles ==
  \A o \in Operations :
    operation[o].status = "queued" ~>
      operation[o].status = "done" \/ operation[o].reason = "cancelled"
=============================================================================

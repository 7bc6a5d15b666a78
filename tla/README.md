# Verification of the bot panel

TLA+ models of the parts of this repository that keep money, stock and remote
accounts consistent while panels fail, customers repeat themselves and the
process is evicted.  Paths below are relative to the repository.

## 1. The system

One Cloudflare Durable Object (`BotCoordinator`, `src/index.js`) serves the
Telegram webhook, the administrator's panel, the customer portal, payment
callbacks and a background tick.  Its state is a set of rows in SQLite
(`src/storage.js`); several rows are written in one transaction with
`commitJson`.

| Component | State | Operations | What is hard |
|---|---|---|---|
| Purchase engine (`services/engine.js`) | plan, panel, quote, operation, stock, coupon, service rows | quote, purchase, processOperation, finalize, release, reconcile, cancel, serviceTick | unclear answers of panels, evictions between call and record, several rows that must agree |
| Wallet (`services/wallet.js`) | account and ledger rows | walletWrites, adjustWallet, updateAccount | holds against balances, duplicate events, credit that is lowered later |
| Provider connectors (`services/providers.js`) | external panels; `provider-progress` and `login` rows | create, get, update, toggle, reset, revoke, remove on some thirty kinds of panel | timeouts, partial effects, names that collide, accounts written back whole |
| Payments (`services/payments.js`, `crypto-pay.js`, `modern-gateways.js`) | payment rows, Stars charges, crypto transactions | create, callback, poll, approve, reject, refund | callbacks repeated, late or after expiry; one transaction offered twice |
| BPB slots (`services/bpb/`) | account slots | assign, rotate, recycle, refund, tick | slots read before a call and written after it |
| Coordinator (`index.js`) | FIFO queue, group queues, alarm | fetch, alarm, runScheduled | which handlers may interleave, work that must be resumed |
| Durable store (`storage.js`) | rows, tombstones, import marks | get, put, delete, list, batch | a legacy value read while a local one is written |
| Manual shop (`commerce.js`, `payments.js`) | products, orders, coupons | submit, receipt, approve, deliver, expire | reservations that expire while an administrator decides |
| Broadcasts (`broadcast.js`) | job rows | start, tick, pause, cancel | a batch cut between a message and its save |
| After-sales (`services/engine.js`, `subscriptions.js`) | service and request rows | pause, rotate, refund, transfer, move, deliver, synchronize, fetch | a request taken up again after an unclear answer, copies kept over the tick |
| Gifts and games (`services/wallet.js`, `services/engagement.js`) | codes, spins, dice games, daily budgets, raffles, agent requests | redeem, spin, throw, enter, draw, decide | a dice thrown between two commits, requests repeated, budgets and wallets at their limit |
| Feeds, channels, relay (`automation.js`) | feed, rule and relay rows | scan, post, copy, approve, publish | messages cut between sending and noting, channels that copy each other |
| Groups (`groups.js`) | group, captcha, warning, raffle rows | join, captcha, moderate, commands, night, tick | permissions changed by several features at once |
| Market rates (`rates.js`) | the table and the last good one | refresh, post of the day | sources that answer in any order, numbers derived from numbers |
| Bot (`telegram.js`, `admin-bot.js`, `crm.js`, `engagement.js`) | users, points, votes, prompts, the menu | updates and taps | updates delivered again, buttons of old messages |
| Login (`auth.js`, `services/customer-auth.js`) | sessions, codes, tickets | request, verify, claim | codes used once |
| News, customer bot, managed bots | settings, steps and logs | ticks and updates | order of deliveries |
| Web pages (`public/`) | none | - | presentation |

The customer bot and the portal call `quote` and `purchase`; the engine reserves
money through `walletWrites` and calls the connectors; the tick calls
`processOperation` for the oldest operation; administrators call `reconcile` and
`cancel`.  Every handler that changes these rows runs on the coordinator's FIFO
queue, so handlers do not interleave with one another; what interleaves is the
outside world (panels, late calls, evictions) with the steps of a handler.

### What makes each part correct

* engine: the money held is the money of the open operations; an operation is
  paid once or released once; it is paid only when its accounts exist and
  released only when they do not; no panel is called twice for one account;
  every queued operation comes to rest.
* wallet: a balance is explained by the events of the ledger; nobody spends
  below the debt limit.
* payments: a payment is credited at most once, and a transaction pays for one
  payment.
* slots: a slot is sold to one service, and a sold slot is not handed out again.
* store: a local write or deletion is never undone by an imported value.
* shop: a product is not oversold and a coupon not overused; what is paid was
  proved and is delivered once; a reservation ends.
* after-sales: a service has one owner, and only he knows its link; it is paid back
  once, and does not go on working by itself after that.
* connectors: an operation changes what it names, and nothing else.
* gifts: nothing is given twice or beyond its budget.
* broadcasts, feeds, relay: nobody is sent the same message twice.
* groups: who has not passed the challenge cannot write.
* rates: a row shows the best source that answered.
* bot: an update handled twice does not count twice.

## 2. Plan

| Order | Module | Question | State |
|---|---|---|---|
| 1 | `ServiceEngine` | the purchase engine, its wallet and its panels | done |
| 2 | `Escrow` | what the engine promises about money | done, refinement checked and proved |
| 3 | `ServiceEngineProofs` | type, ledger, finality, refinement and solvency for all constants | done |
| 4 | `Funding`, `FundingProofs` | payments | done |
| 5 | `KeyValue`, `DurableStore`, `DurableStoreProofs` | import of legacy rows, as an overlay of a map | done |
| 6 | `BpbSlots`, `BpbSlotsProofs` | slots over assignment, rotation, refund | done |
| 6a | `SumProofs`, more of `ServiceEngineProofs` | sums, for money and stock; the engine and its panels for all constants | done |
| 7 | `ManualShop`, `ManualShopProofs` | carts, orders, delivery | done |
| 8 | `Broadcasts`, `Feeds`, `Relay`, `Groups`, `ServiceCare`, `Connectors`, `MarketRates`, `AdminBot`, `BotUpdates`, `Gifts` | the parts around the money, composed by `MCSideParts` | done |
| 8a | `SidePartsProofs`, `BotProofs` | the safety properties of all ten for all constants | done |
| 9 | `News`, `Login` | what is left with state of its own | planned |

Every invariant that a run checks and expects to hold is a theorem; what is left to
TLC is liveness (section 9 says which properties).

## 3. `ServiceEngine`

### State and actions

| Module | Code |
|---|---|
| `quote`, `operation`, `service`, `plan`, `panel`, `stock`, `coupon` | the rows of `engine.js` |
| `account`, `ledger` | the rows of `wallet.js`, with the standing of the user row (unknown to the bot, member, banned); of the ledger only the ids of the events |
| `running`, `step` | the one task that is between two awaits of `processOperation` |
| `remote`, `wire`, `calls` | external: the users of the panels, calls given up on that may still take effect, and a count of calls |
| `Quote`, `Purchase`, `QuoteExpires` | `quote` (255-388), `purchase` (405-554), the expiry of a quote |
| `Begin`, `Interrupted` | the head of `processOperation` (812-826) |
| `FillFromStock`; `LookForAccount`, `CreateAccount`, `FinishCreate`; `ReadService`, `UpdateService`, `ConfirmUpdate`; `Commit` | the awaits of `processOperation` for stock, create and renew, and its commit |
| `Fails`, `Unsafe` | its catch (914-940) |
| `ReleaseOperation`, `FinalizeOperation` | `releaseOperation` (569-616), `finalizeOperation` (617-732) |
| `ReconcileOperation`, `CancelOperation` | 943-982, 1021-1065 |
| `AdjustWallet`, `UpdateAccount`, `SetStanding`, `SavePlan`, `DeletePanel`, `DisableStock`, `ManualStockSale` | the administrator's routes |
| `Tick` | the queue of `serviceTick` (1533-1538) |
| `Crash`, `LateEffect` | eviction of the object, a call that arrives after its timeout |

A call to a panel ends in one of six ways (`Outcomes`): `ok`, `rejected` (a 4xx
or an error in the answer), `failed` (no effect and the engine knows it),
`lost`, `applied` and `late` (no answer: never arrives, has taken effect, takes
effect later).  Reads have no effect, so `applied` and `late` do not apply to
them.  A task's own steps are the only ones that run while `running` is set,
because the queue is FIFO; expiry of quotes is the clock.

An account is looked for on the panel by `RemoteKey`: the panel and the name
that `prepareAccount` builds, or the uuid where the connector finds users by it.
The uuid or note that tells whose an account is appears as `marker`.  A
renewal's quantity and time are one number, `level`; the target is absolute, as
in the code.

### Abstractions

* `volume` and `time` purchases take the path of `renew`.
* Switches an administrator may set (shop closed, maintenance, a panel disabled,
  a service locked) only refuse: an action that may always not happen covers
  them.  The discount of an account and its role are one attribute, `role`.
* `MAX_MONEY` and the length limits are left out: amounts in an instance are
  small.
* A quote names a service exactly when it is a renewal.  The code accepts a
  quote of kind `buy` with a `serviceId`, which no client of the repository sends.
* The panel an administrator names as a replacement is part of the offer: an offer
  names any panel, and `DeletePanel` removes one no plan names, which may be the
  replacement that operations wait for.
* `SetStanding` is the start of the bot and the ban of a user; of the checks of a
  customer's request only that one is kept (`Admitted`), since it also decides about
  the commission.
* Creation is one call for the engine.  Connectors that need several calls
  (IBSng) are in `Connectors`; left out are the `provider-progress` test of `cancelOperation`.
* BPB operations are in `BpbSlots`; delivery, synchronisation, deletion of services, transfers
  and refunds are in `ServiceCare`: here a service, once made, stays.

### Properties

`BalanceExplained`, `Solvent` and `LedgerMatchesStatus` are about money
(`BalanceExplained` also says which settlements earn a commission: those of a buyer
whose referrer is another, known and not banned when the operation is settled);
`ReservationsAccounted` (held money and the coupon) and `StockAccounted` about
what open operations reserve; `AccountsAccounted` and `EndsAreProved` relate what
the engine decides to what is on the panels (a renewal that is `Overtaken` by a
late update of a cancelled one is paid for although it was set back, see section 9); `TerminalForever` to what it decided
before.
`ImplementsEscrow` is the refinement: mapped by `WalletView` and `OrderView`,
every behaviour of the engine is one of `Escrow`, in which an order reserves,
settles once or releases once.  `QueuedComesToRest` is liveness: whatever the calls,
evictions and other operations do, a queued operation comes to rest, unless an operation
no younger is `Blocked` by the deletion of its panel, which `engine_remote` lets happen
and section 10 describes.  So is `FaultFreePurchaseSettles`, which `engine_pair` finds
violated.

### Fairness

`WF_vars(Tick)`: the alarm is set again at the end of each run (60 s) and after
each request that is not a GET (15 s), and `serviceTick` takes the oldest
operation every time.  `WF_vars(Engine)`: every call has a timeout of ten
seconds (`fetchLimited`), so a task always takes its next step.  Nothing else is
assumed: customers and administrators need not act.

### Runs

| Run | Bounds | Shows |
|---|---|---|
| `engine_remote` | 2 customers, 2 operations, panel by name, and a panel by key that replaces it and may be deleted while operations wait for it, a chosen name both want, quantity 1 or 2, a renewal, one coupon use, all six outcomes, 1 eviction | the invariants about panels, holds, coupon and finality; a purchase or renewal is paid only when its target was reached; under fairness, every queued operation comes to rest or waits behind a deleted panel |
| `engine_terms` | a referred credit agent, 2 stock rows that are also disabled and sold by hand, plan and role changes, a ban of the referrer, an adjustment between the steps, 1 eviction | balances, solvency, the refinement of `Escrow`; stock is never double sold or lost |
| `engine_pair` | as small as the behaviour allows: outcomes `ok`, no eviction | a disagreement of section 10 |

Two operations are enough for the interleavings of interest: the engine
runs one task at a time, and every shared row (wallet, coupon, stock, panel
name) has two contenders.  One eviction may fall between any two steps; a second
one finds the operation in review, where the engine does nothing.  The bounded
instances stop when all quotes are used, so `CHECK_DEADLOCK` is off; that the
engine itself does not stop is what `QueuedComesToRest` is for.

Bounds by name: `MaxQuantity` (2 of the 10 the code allows), `MaxVersion` (saves of
a plan), `MaxCrashes`, and the sets `Users`, `Operations`, `Offers`, `Adjustments`.

## 4. `Funding`

Top-ups of the wallet: `services/payments.js`, `modern-gateways.js`,
`crypto-pay.js` and the routes and updates that call them.

| Module | Code |
|---|---|
| `payment`, `request`, `owner`, `balance`, `ledger` | rows `payment`, `payment-request`, `payment-ref`, `account`, `ledger` (only the `deposit:` events; spending is in `ServiceEngine`) |
| `turn` | the order of `lastChecked`, new payments first |
| `running` | a creation between its commit and the answer of the gateway |
| `age` | whether the deadline, and the day after it, have passed |
| `invoice`, `charge`, `transfer` | external: gateways, Telegram Stars, block chains |
| `CreatePayment`, `FinishCreate` | `createPayment` (160-240, 241-396) |
| `Settles` | `settlePayment` (397-436) |
| `VerifyPayment`, `SignedWebhook`, `AttachHash`, `AttachReceipt`, `DecideReceipt`, `CancelPayment` | the handlers of callbacks, customers and administrators |
| `PreCheckout`, `StarsSuccessful` | the two updates of Stars; the first is answered outside the queue |
| `CheckPayment` | one turn of the loop of `fundingTick` (719-747); the loop has no other handler between its turns |

Fourteen payment types fall into seven methods by how they are proved: `manual`
(receipt), `stars`, `crypto`, `called` (zarinpal, aqaye, zarinpay, nowpayments:
callback or check), `polled` (tetrapay, iranpay3, plisio), `modern` (tonpay, blupal,
cubepay, rentopay: refused after a cancellation) and `signed` (tronado: webhook
only).  What an inquiry asserts about amounts, currencies and recipients is
abstracted to "the invoice is paid" or "the transfer carries the memo, was made
in time and is confirmed".  Left out: `saveGateway`, rates, and failing writes of
SQLite.

| Run | Bounds | Shows |
|---|---|---|
| `funding_safe` | 2 customers, 2 payments of any method, 1 Stars charge, 1 transfer, 2 keys, all outcomes, 1 eviction | one credit per payment, backed by a proof of its own; keys; finality |
| `funding_live` | 2 payments of the polled methods, `crypto`, `stars` and `manual`, a transfer, 2 charges with repeated deliveries, 1 eviction, fairness | a paid invoice is credited across its deadline, a charge although its payment expired or was cancelled; every pending payment ends |

Two payments are enough: a proof or a key can at most be confused with another
one, and the tick has one more payment to prefer.  Fairness: `WF(Tick)` for the
re-armed alarm, `WF(Creation)` for the timeout of calls, `WF(Delivery(c))` since
Telegram repeats an update until it is acknowledged, `WF(TimePasses(p))` for the
clock.  `funding_live` assumes gateways that answer (`Outcomes = {"ok"}`); the
code promises nothing otherwise.  The amount a wallet holds (`CreditMatchesPaid`)
is a sum over payments (section 9 says how it is proved).

## 5. `DurableStore`

The table behind every row (`src/storage.js`), over the KV namespace of an
older version that is read and never written.

| Module | Code |
|---|---|
| `table`, `imported` | `panel_kv`, `panel_imports` (one legacy prefix) |
| `reader`, `answer` | a `get` between its await and its return, and what it returned |
| `lister` | the keys an `ensurePrefix` has still to index |
| `Batch`, `Delete`, `Cleanup` | `put` and `batch`, `delete`, the purge of expired `v2:` rows |
| `Get`, `LegacyAnswers`, `ImportValue` | `get` to its await, the answer of the old namespace, the rest of `importValue` |
| `EnsurePrefix`, `IndexPage`, `MarkImported` | the loop of `ensurePrefix`; pages may be any subset of the keys left |
| `Interrupted` | a rejected read or an eviction between two steps |

Rows are changed by handlers of the coordinator's queue, but portal pages,
downloads and groups read outside it, so reads and listings interleave freely
with writes and with one another.  `ImplementsKeyValue` says, operation by
operation, that what the keys hold (`Held`) is the map of `KeyValue`; a batch is
only allowed to change its own keys, and imports, listings and purges nothing.
One exception is the code's: an import drops the deadline of an old value
(`storage.js:41`), so a value that no handler has touched may become a lasting one
(`LastsFromNow`), even one whose time was over since it was read.
`ReadIsCurrent` is about the answer of a read that had to ask; `ListAgreesWithGet`
about the marked prefix.  Metadata, cursors and the width of a page are left
out, and so are installations without an old namespace, where nothing is
imported.

| Run | Bounds | Shows |
|---|---|---|
| `store_import` | an old broadcast, a counter that ends at the first tick, and a local key with deadlines the old namespace also holds; 1 reader, 2 listers of one prefix, 1 tick | no old value overwrites, returns or is forgotten; local keys stay behind; jobs arrive paused; the purge brings nothing back |

Keys do not interact except through the mark, a batch and a listing, so one key
of each kind, and three handlers that import the same one, cover the
interleavings.

## 6. `BpbSlots`

One Cloudflare account carries one worker, which is sold to one service as a
slot (`services/bpb/`).  The buyer gets a link with a secret path; taking a slot
back means to deploy the worker again under another path.

| Module | Code |
|---|---|
| `slot` | rows `bpb-account`; `cf` is the Cloudflare account the token opens, `left` the periods until `expire_at` |
| `operation`, `service`, `request` | the rows of the engine, as far as they concern slots |
| `served` | external: the path the worker of a row answers to |
| `given`, `doomed` | history: the links a service got by a sale or a synchronisation, and those its refund has to end |
| `CreateBpbAccount`, `InstallBpbOnAccount`, `RevokeBpbSlot`, `ApplyBpbSettings`, `DeleteBpbAccount` | `store.js:14-47`, `service.js:44-133`, `171-214`, `294-325`, `routes.js:151-166` |
| `BpbTick` | one turn of the loop of `bpbTick` (`service.js:346-360`) |
| `ProcessPurchase`, `ProcessRenewal`, `Interrupted` | `processBpbOperation` (`engine.js:733-811`) and the rest of `processOperation` |
| `ReconcileBpbOperation`, `CancelOperation` | `engine.js:983-1039` |
| `SynchronizeBpb`, `CancelBpbService`, `RequestRefund`, `DecideBpbRefund` | `engine.js:1204-1413` |

Each handler is one action: it runs alone on the queue, and the only effect
outside the store is one deployment, which may succeed, fail, or be `lost`: the
worker has changed and the row has not, because the answer did not come or the
process was evicted.  A settlement may be stopped by an eviction after its slots
were sold.

| Run | Bounds | Shows |
|---|---|---|
| `bpb` | 2 rows; either two slots of different Cloudflare accounts that answer are bought at once and one is renewed, or a purchase of one meets a second one or a renewal, the tokens may open the same account and 1 call fails or is lost, with one pending request for a refund of the first, or the same on 1 row whose worker may be deleted while it is sold and where a service gets the link of the next buyer too; fairness | no slot is sold twice or to nobody; a customer pays only for slots that are his; the link of a buyer ends with his slot and never comes back; one row per Cloudflare account; a refund ends the link |
| `bpb_expired` | 1 row, 2 operations, no failures | section 10 |

Two rows are enough for two services to contend for one and for one row to
hinder the installation of the other; one failure falls into each call in turn.

Abstractions: which free slot is taken is left open (the code takes the one
changed longest ago), and so is the random path: any number neither stored nor
given away.  One period stands for the days of a plan.  A quote that expires is
one that is never purchased.  The checks of `quote` and `purchase` that only
refuse are in `ServiceEngine`, the amounts held and paid too.  `enable` and
`disable` of such a service end in a synchronisation, which overwrites what
they set.  A worker deployed by a first installation that then fails is not
remembered, as in the code.  A deployment that arrives after its timeout and
after the next one is not modelled.  Left out as unreachable: the branch of
`processBpbOperation` for a slot already sold to the operation, which needs a
second attempt that `processOperation` never makes.

Fairness: `WF(Engine(o))` and `WF(Expiry(a))`, since the alarm runs `serviceTick`
and `bpbTick` every minute and the tick tries ten expired slots, more than the
instance has.  Calls fail at most `MaxFailures` times: a Cloudflare that never
answers would leave the link alive for ever.

## 7. `ManualShop`

The shop that sells ready and handmade products (`commerce.js`, `payments.js`, the
rewards of `crm.js`).

| Module | Code |
|---|---|
| `product`, `coupon`, `points`, `events` | the rows of the products, of one coupon, of the users' accounts and of the rewards booked |
| `cart`, `flow` | the cart and the dialogue of a user |
| `order` | the rows `order` and `checkout` |
| `task` | which order `fulfillReady` is delivering, and between which two saves it stands |
| `bank`, `member` | external: what the bank did about an order; who is in the required channels |
| `given`, `supply`, `again` | history |
| `AddToCart` ... `ConfirmCheckout`, `CustomerCancels`, `SendReceipt` | `commerceCallback`, `commerceMessage`, `createOrder` |
| `AdminApproves`, `AdminRejects`, `AdminCancels`, `AdminProgresses`, `AdminDeliversAgain`, `SaveProduct`, `SaveCoupon` | `updateOrder`, the routes of the studio |
| `StartPayment`, `PaymentCallback` | `handlePayment` |
| `StartItem`, `FinishItem`, `FinishDelivery` | `fulfillReady` |
| `TickExpires`, `RetryLocked`, `TickReviews` | `expireOrders` |

Handlers run alone on the queue, so each is one action; only the delivery, which
saves the order around every message, is cut into steps.  An eviction may fall
between them and after the commit that precedes them.

Run `shop`: two orders, one paid by receipt and one at the bank, one product with a
single copy, one use of the coupon, four points, one change of the administrator,
one eviction, under a fair tick.  Two orders contend for each of the three things
that can run out; one eviction meets each save in turn.

* `ReservationsAccounted`: the shelf, the coupon and the points are explained by the
  orders that hold or took them; nothing is sold that is not there, and the coupon is
  not overused.
* `DeliveredAsPaid`: an order is paid for nothing, by money the bank verified or by
  an administrator who saw it; nothing paid is given back; and an item reaches its
  buyer once, unless an administrator sends it again.
* `ReservationsEnd` (liveness): an unpaid reservation ends and a delivery held back
  goes on once its buyer is in the channels.  `Fairness` is that of the minute's tick.

The approval of an order that had been released computes the points and the coupon
twice and commits two versions of one row (`commerce.js:256-273`); the second wins.
So the two sums are not claimed for such late orders.  Other behaviours the model
shows and no document speaks of: an eviction after the commit of an approval leaves
the items `pending` with no tick to take them up; a free order interrupted before
its approval waits like an unpaid one; an order in `payment_review` can be neither
cancelled nor rejected; a callback repeated for a cancelled order approves it.

Left out: names, addresses and other answers of the buyer beyond that they were
given, files of a product (one message stands for them), exports and statistics.

## 8. The other parts

These modules model one component each.  `MCSideParts` composes them: `part`, chosen
at the start, says which of them runs, and the others keep an initial state, so one
run (`side_parts`) puts one question to all of them: does every part keep its promise
under evictions, lost answers and deliveries repeated and out of order?  The parts
share no state in the code either (the settings they read are constants or change
freely in each), so nothing is lost by running one at a time.

| Module | Code | State | Promise |
|---|---|---|---|
| `Broadcasts` | `broadcast.js` | `job` as stored, the tick's own copy `older`, `removals` | `BroadcastOnce`: no target gets a message twice, counters add up, what is to be deleted is not forgotten |
| `Feeds` | `feedTick`, `validateFeed`, `channelPost` | `feed` as stored and as a scan holds it, what the `source` shows and the feed remembers, `copied` | `FeedPostsOnce`: nor does a destination get an entry the feed remembers, and channels that copy each other do not go round in circles |
| `Relay` | `relayMessage`, `publishRelay`, `relayTick` | the `relays` rows, the `album` being collected | `RelayOnce`: a row is sent once, after it was released, and not after it was rejected |
| `Groups` | `groups.js` | `group`, `challenge`, `warns`, `raffle`; the chat and the member at Telegram | `VerifiedToTalk`: who has not passed the challenge is muted |
| `ServiceCare` | `engine.js:1204-1700`, `subscriptions.js` | a service, its requests, its accounts at two panels, a subscription being served | `CareIsSound`: no two accounts at work, one refund, after which the account works only if it is enabled or moved again, no access by what a former owner was shown before the transfer was decided |
| `Connectors` | `providers.js`, `modern-providers.js` | the account at the panel, the operation's remaining requests, `progress` | `OperationsMeanWhatTheySay`: a confirmed operation changed what it names and nothing else, but for what a panel's reads do not show; counted days are at most a day off, or counted from the request |
| `MarketRates` | `rates.js` | answers of the sources, the `table` being built, what is cached; the daily post | `RatesAreSound`: a row is that of the best source that answered, and of this refresh |
| `AdminBot` | `admin-bot.js`, `menu.routes.js` | the menu's buttons, the prompt being answered | `AdminActsOnce`: an update acts once, buttons are neither doubled nor lost |
| `BotUpdates` | `telegram.js`, `crm.js`, `engagement.js` | people, points, rewards, tickets, votes | `SignupsPaid`: points, rewards, invitations, votes and tickets add up |
| `Gifts` | `services/wallet.js`, `services/engagement.js` | the wallet and its events, a code, spins, dice games and their budgets, a raffle, requests of agents | `GiftsAccounted`: nothing is given twice or beyond the budget of a day, and a throw that came back can be paid |

In all of them an update or a tick is a handler that runs alone, cut at the saves,
messages or calls after which it may be evicted.  Where a handler is long
(`BotUpdates`, `AdminBot`), it is the sequence of the stores it leaves behind, and an
eviction picks a prefix; the update is then in `undone` or `again` and delivered once
more, perhaps after later ones, since the webhook was not acknowledged.

### Bounds of `side_parts`

Two targets, destinations, addresses, entries per address, requests, relay rows,
customers and players: enough for one to be served and the other not when the process
stops.  One entry per scan (`Window`, 3 in the code), so that a second entry waits;
two that a document shows, the feed remembers and its queue holds (40, 200 and 100),
of three there are, so that one is forgotten, and comes back, while another waits.
Menus of 2 by 2 (8 by 10 in the code), so that they are full after a few taps; five
buttons and four taps.  Two warnings (3), two operations on an account, three links.
A day is four units of the panel's clock, and two days pass, so that an operation may
be later than its term.  Two days of two games per player, one spin a day, budgets for
one prize, a wallet that holds 4; `MaxGifts` (4) bounds what one behaviour gives.  One
of each fault, and `Together` bounds how many faults and clicks a behaviour combines:
two of different kinds at most, which is what the promises weigh against one another
(one for a feed, whose address changes only if nothing was forgotten).  2.6 million
states.

### What the modules leave out, and what they show

* `Broadcasts`: the payload and the choice of targets; why a tick ends early is left
  open (batch, seconds, Telegram's pause).  A save that fails under a living process
  lets a message go out twice, and the property says so.
* `Feeds`: an entry is its address and number; a document shows each under an id of
  its own, in any order.  The feed remembers the last 200 ids and queues up to 100
  entries (`Remembered`, `QueueBound`); since a document is read up to its fortieth
  entry, only one that stays in it while 200 others come and go, or that was there
  before the address was changed and changed back, is taken for new and sent again.
  `forgotten` counts that, and the promise is about each turn of an entry.  A
  destination in review keeps its entry `pending`, and only the first three pending
  entries are tried, so three reviews block a feed.
* `Relay`: a message's content.  A row of another bot's token, or one without
  destinations, makes `publishRelay` throw in `relayTick` and hides the rows after it
  for ever; an update delivered again makes a second row; a failed row may be rejected
  after some destinations got it.
* `Groups`: one member; filters are one choice of punishment.  `/unlock` at night opens
  the chat; an eviction between `setChatPermissions` and the save stores the locked
  permissions as the normal ones; leaving, joining and passing the captcha lifts a
  temporary mute; a raffle decided before an eviction is never announced.
* `ServiceCare`: of the money only how often the refund was booked; a second request
  for the same amount books nothing, and one for another amount is refused
  (`OtherAmounts`).  A request `processing` at an eviction stays so; `serviceTick` delivers from a copy, so that a service deleted meanwhile
  becomes active again; a move in review after an approved refund brings the service
  back when it is reconciled.
* `Connectors`: one panel type for each way of asking (`xui`, `xui_token` and `sui`
  write whole accounts back, the second without what it is not shown; `hiddify` counts
  days, `wgdashboard` limits by jobs, `ibsng` creates before it names).  The field
  `options` stands for the flow, the limit of devices and the password set at creation.
  Concurrent edits of the panel's administrator are undone by the types that write
  accounts back; `Meanwhile` leaves them out between the read and the write, since that
  is what a read-modify-write means.  Login and its cache are left out.
* `MarketRates`: a number is the set of sources it rests on.  A refresh in which only
  Kraken answers marks a table of Toman prices from the code as fresh and stores it as
  the last good one; a post interrupted before `lastDay` is saved is sent again.
* `AdminBot`: what a prompt or a switch does in another component is one thing `made`.
  Buttons act on positions, so a tap on an old screen moves or deletes the button that
  is there now; moves may make a row wider than eight, which the panel's save cuts.
* `BotUpdates`: pages and search.  A first `/start` cut between its two saves loses the
  inviter; a deep link cleared before it is followed is lost by an eviction; a repeated
  vote in a poll with several answers takes the vote back.  The choice of the message to
  edit (`EDIT_SLOT`, `bot-api.js:40-42`) is global to the process and not modelled.
* `Gifts`: one code and one raffle with equal prizes.  Switches of the dice (new
  customers only, agents excluded) only refuse, so agents are always excluded; the hours
  between two games are those until midnight.  A won throw whose game an eviction cuts is
  never paid (the clean-up ends it in `review`); a winner whose wallet is full leaves the
  raffle open, and `drawRaffles` throws in every tick until it draws another; an approval
  cut between the account and the request leaves the request pending, and it may then be
  rejected although the customer stays an agent.

Two smaller instances of these modules show disagreements (section 10):
`transfer_known` of `ServiceCare`, with two links, one request and one lost answer,
and `rates_static` of `MarketRates`, with one refresh.

## 9. Proofs

`ServiceEngineProofs` proves, for every value of the constants that satisfies the
three named assumptions of `ServiceEngine`:

* `Invariance`: `IInv` is inductive.  It is `TypeOK` with four parts.  `QuoteInv`:
  operations and services have quotes, and a quote names a service exactly when
  it renews, so that the terms a step uses exist.  `TaskInv`: a running task is
  idle nowhere, works on a `sending` operation and stays within its quantity;
  without it a step could finalise an operation that had already ended.
  `LedgerInv`: `LedgerMatchesStatus` and no commission before its settlement;
  without it `Post` could find its event present and post nothing.  `RoleInv`:
  users have only roles that may be given to them.
* `TypeCorrect`, `LedgerTellsStatus`, `EndedForever`: consequences of `IInv` and,
  for the last one, that a step changes at most one operation, an open one.
* `EngineImplementsEscrow`: initial states map to initial states and each step
  to a step or a stutter.  The engine's release, settlement, purchase and
  adjustment are shown to be those of `Escrow`; all other steps leave the view
  unchanged.
* `AlwaysSolvent`: from the refinement, since every step of `Escrow` keeps each
  wallet above its debt limit.

Assumptions: `RowsAssumption` (finitely many operations, well-formed offers and
panels, `None` outside the other sets), `MoneyAssumption` (limits and balances
are naturals, percentages at most 100, as `settings.js` checks),
`BoundsAssumption`.  TLC evaluates them in every run.

`FundingProofs` proves, from `FundingAssumption`, that `IInv` of `Funding` is
inductive: the conjunction of `TypeOK`, `TaskInv` (the running creation is
`creating`, so the end of a creation cannot touch a paid row), `ChargeInv`
(charges are for payments that exist) and the three properties `LedgerMatchesPaid`,
`PaidWasProved` and `OneKeyOnePayment`, with `PaidForever` as an action property.
The argument is in two lemmas: a settlement backed by its reference keeps the
invariant, and a step that leaves keys, references and the set of paid payments
alone keeps it as well; each action is an instance of one of them.

`DurableStoreProofs` proves `ImplementsKeyValue`, `ReadIsCurrent` and
`ListAgreesWithGet` for every old namespace, with and without deadlines.  `IInv`
adds three parts to `TypeOK`: only legacy keys have rows without a value, which
keep the deadline of the key, and tombstones have none (`RowInv`); a reader carries
what the old namespace has for a key that may be imported, or had until its time
was over (`ReadInv`); a living legacy key without a row is still to be indexed by every
listing and the prefix is not marked (`ListInv`).  Each step lemma then shows the
invariant and the effect on the map together.

`SumProofs` carries what the theorems about money need of sums over sets.  The
library states induction over finite sets with an operator parameter, which no
installed prover can instantiate; `SubsetInduction` states it with a set of
sets instead, by the minimal counterexample, and from it follow that
`SumFunctionOnSet` exists and does not depend on the order (`SumExists`,
`SumUnique`) and what one element more, less or changed does to it (`SumWith`,
`SumWithout`, `SumChange`).

`WalletsExplained` (in `FundingProofs`) proves `CreditMatchesPaid` with them: each
step leaves the paid payments alone or adds one.

`ServiceEngineProofs` goes on with what the engine does with money and stock:

* `ReservationsExplained` (`ReservationsAccounted`), from `ReservedInv`.  The code
  keeps three counters of the coupon (reserved, used, and uses by user), which
  the property compares with sets of operations; `ReservedInv` says which set
  each of them counts.  A step is `Quiet` (no operation opens or ends), opens one
  or ends one.
* `BalancesExplained` (`BalanceExplained`), from `MoneyInv`: the adjustments posted
  are finitely many, and a balance is the three sums.  That an operation ends
  once, from `IInv`, is what keeps a settlement out of the sum twice.
* `StockExplained`: `StockAccounted` is inductive given `IInv`.

`ServiceEngineProofs` also proves what the engine does on the panels, by the invariant
`PanelInv` (`PanelInvariance`):

* `StepInv` says what the running task has done before each step, `FreshInv` that
  a queued operation has done nothing, `HandedInv` how many stock rows one holds,
  `TargetInv` that a service has at most one open renewal.
* `MarkInv`: whatever is on a panel, or on its way to one, is for an operation that
  buys it there.  `CleanInv`: nothing is, before an operation's first creation and
  after the engine released it.  `CallsInv` counts calls, `MadeInv` and `SoldInv`
  say what is on the panels of the running and of the sold.
* `LateInv` and `RenewInv`: which updates may still arrive, and what the renewal at
  work knows of its target.  Without them a late update could be of any renewal.

`AccountsExplained` (`AccountsAccounted`) and `EndsWithProof` (`EndsAreProved`) follow.
Each action is first shown to make one of a few moves (`Moves`: buys, starts, works,
ends, and so on), and each part of the invariant is then kept by every move.

The proof of `EndsAreProved` failed at first, and the model checker found why on
an instance with four operations: an update that timed out is late, its renewal
is cancelled because the account is as it was, a second renewal is carried out,
and the late update, which sets absolute values, puts the account back before
`api.get` reads it (`engine.js:908-910`).  The code settles then all the same, for
it asks only whether the account is there.  The property now says so
(`Overtaken`), and a panel call carries in `by` whose it is.

`BpbSlotsProofs` proves the slots, from `SlotsAssumption`, by `IInv` (`SlotInvariance`):
`HolderInv` says that a sold slot is held by a service its operation bought, and
that this operation is settled or still can be; `OneSlot` that no other slot is;
`GivenInv` that the paths given away for a row are finitely many, so that there is
always a new one; `RequestInv` that only a service that exists is refunded.  With
`TypeOK`, `OneWorker` and `OnlyStoredLinks` this is inductive.  `Kept` names what a step
must leave for that (a path stays or is `Fresh`, and both it and the one the worker
answers to are `Fresh` when a slot is given back; a service gets only a link that is
stored; at most one worker is new), `KeptKeeps` shows that it is enough, and
there is one lemma per action.  From it follow `SlotTypes`, `SlotsSoldOnce`
(`SlotsAccounted`), `LinksDie` (`OldLinksDie`, its action part by `KeptRotates`) and
`ChargedWithSlots` (the action property `PaidMeansSlots`).

`ManualShopProofs` proves the shop, from `ShopAssumption`, by `IInv` (`ShopInvariance`):

* `RowInv` says how the flags of an order go together, which `commerce.js` keeps
  in separate fields: what was given back is not paid, a coupon was used up only
  with a payment, an order in review has a receipt or verified money.
* `EventInv` says which events of points may be booked.  `rewardWrites` skips an
  event it finds, so without it an order could be made without taking its points.
* `TaskInv` and `GivenInv`: a delivery is of a paid order and its item is marked
  `sending`; what is pending or on its way was not given.  That is why the mark is
  saved before the message and not after it.
* `DeliveredAsPaid` and `ReservationsAccounted` themselves.

Only one order changes in a step, so a step is `Balanced` when that order's part
of the shelf, the coupon and the points moves as the counters do
(`BalancedPreserves`, by `SumChange` and `CountChanges`), and a `DeliverStep` when at
most one item is given.  Then there is one lemma for what leaves an order's terms
alone (`RowPreserves`), and one each for placing (`PlacePreserves`), releasing
(`ReleasesPreserves`) and approving (`ApprovesPreserves`) one.  A free order is
placed and approved at once, and its price shows that it earns nothing.  Results:
`ShopTypes`, `OrdersExplainAccounts` (`ReservationsAccounted`) and
`PaidBeforeDelivered` (`DeliveredAsPaid`).  `CartQuoteType` shows that a discount
and points never take more than there is to pay, for any prices and percentages.

The proof showed where `ReservationsAccounted` needs its two conditions
(`LateCoupon`, `LateFor`): `approveOrder` computes both changes of a late order's
points, and of its coupon, from the row it read (`commerce.js:256-273`), so one of
them is lost.  A late order breaks only these two accounts: shelf, uses of the
coupon and the other users' points are proved without a condition.

Assumptions added for these proofs: adjustments have different ids, which
`wallet.js:62-67` enforces by the id of the event; the limits of a coupon are
naturals (`engine.js:122, 127`); an absent or deleted row is not a row, and no
product has the name of a step of the delivery.

`SidePartsProofs` proves the parts of section 8 that `MCSideParts` composes.  A step
of the whole is a step of one part and leaves the variables of the others
(`BroadcastsAlone`, `RelaysAlone`, ...), so each part has an inductive invariant of
its own, preserved by its actions and by every other step, and a theorem that says
`Spec => []` of the property the run `side_parts` checks:

* `BroadcastsOnce` (`EveryBroadcastOnce`), from `BroadcastIInv`: the counts of the job
  add up to its cursor (`JobFine`, also of the copy a save may bring back), and a
  target behind the cursor may have been reached, one ahead only by a failed save,
  the one at the cursor only while it is noted as in flight (`SlotFine`).
* `RelaysOnce` (`EveryRelayOnce`), from `RelayIInv`: a row's status tells of its
  destinations what was asked for (`RelayRowFine`): a row that is not published was
  copied nowhere, a chat that is `none` or `pending` has no copy, and one that is not
  `none` belongs to a released row.
* `TalkersVerified` (`EveryTalkerVerified`), from `GroupIInv`: he who has to pass the
  challenge is muted without an end, or his join is still to come (`SilentInv`); the
  weaker statement that he is muted is not inductive, since a mute with an end ends.
* `ServicesCared` (`EveryServiceCared`), from `CareIInv`: the first account stops before
  the second takes over, every link there is was made, a prepared account has a link
  nobody was shown, a link that changed since a transfer was decided is not one the
  former owner was shown then, and an account that was paid for and works was put to
  work since (`PaidInv`).
* `PanelsObey` (`EveryPanelObeys`), from `ConnectorIInv`: what is left of an operation
  tells how far it has come (`CreateInv`, `UpdateInv`, `SimpleInv`, `RemoveInv`), and
  users of a panel are at most one more than the answers that were lost.  The end is
  compared by `Fits`: equal, or where days are counted at most a day off, or within the
  operation's days from now, which is kept as time passes; it needs no bound on the time.
* `PostsOnce` (`EveryPostOnce`), from `FeedIInv`: an entry is queued once in a turn,
  one that is queued and not answered was not sent in it, what a first scan found is
  not queued, and a post that was copied without a mark cost an eviction.  A turn that
  was queued, sent or found is over or belongs to an entry the feed remembers
  (`Noted`), so the turn in which an entry is taken for new is none of them.
* `RatesSound` (`EveryRateSound`), from `RateIInv`: the table under construction is,
  after any number of feeds, row by row that of the first feed that quoted it
  (`TableAfter`, `RowAfter`), the pages and the calculated rows leave a live row alone
  (`Settled`), what is cached was such a table (`CacheFine`), and a target got the
  post of this day only if it is not among those still to be served or the process
  was evicted (`PostFine`).  `FirstQuoter` alone is not inductive: which rows are live
  after the n-th feed has to be known, and two rows are special, the dollar, which may
  mirror the tether, and the coin, which may be live without a quote of a feed that
  gives Toman.  `SourcesAssumption` says that every source has its place in the order.

`BotProofs` does the same for what the bot does for customers and the administrator,
with the sums of `SumProofs`:

* `GiftsAddUp` (`EveryGiftAccounted`), from `GiftIInv`: a wallet is the sum of its events
  (`WalletInv`), a code counts the events booked with it (`CodeInv`), the wheel's and
  the dice's budget of the day is what was won or is held by a game that rolls
  (`WheelInv`, `DiceInv`), a turn that can still be given back was not used on the
  day of its game (`ThrowInv`), and an open raffle has paid nobody (`RaffleInv`).
* `SignupsAddUp` (`EverySignupPaid`), from `BotIInv`.  A handler is the sequence of the
  stores it leaves behind, of which an eviction keeps a beginning; `Served(d, m)` says
  what any of these stores may be: the points are those of the events, the inviter
  was set by the first message, a signup that counts as completed has been paid for
  (`Due`), and one text more was kept at most.  Each save keeps it (`QuietSave`,
  `RewardServed`, `CompletedServed`, `TicketServed`, `VotedServed`), so every beginning
  does.  `TextInv` counts the texts that will come again against the evictions.
* `TapsOnce` (`EveryTapOnce`), from `AdminIInv`.  That no more is made than was called
  for is not inductive: `MadeInv` adds what the open prompt may still make (`Credit`)
  and what an update that comes again may make again (`Pending`), and `OwnedInv` the
  deletion that may be done again (`Deleting`).  What each edit does to the buttons of
  the page is a lemma of its own over any menu (`WithoutFine`, `AppendedFine`,
  `TidyFine`, `SwappedFine`, `TrimmedFine`, `WithButtonFine`, `MovedFine`,
  `DeletedFine`): every button keeps standing in one place, and those standing are the
  same, one more or one less (`NumberIs` counts them).  `TapsRouted` compares the taps
  the screens offer with those the router knows: `noop` is the only one it does not.

`PartsAssumption` (in `MCSideParts`) is what these theorems need of the constants: the
bounds, amounts, prizes and budgets are naturals, a job has a target, the codes'
uses and the budgets offered are finitely many, customers are finitely many and 0 is
none of them, and a page of buttons has a width and a height.

Only model-checked: `QueuedComesToRest`, `RefundKillsLink`, `ReservationsEnd` and
`MoneyArrives`, which are liveness under fairness and beyond the prover.

## 10. Where the code and its documents disagree

* **Pairs never settle** (`engine_pair`).  `prepareAccount` cuts the operation id
  to ten characters (`services/providers.js:1573`), so the accounts of one
  operation share a name; the second look-up finds the first account and the
  operation goes to review for ever.
* **A former owner knows the new link** (`transfer_known`).  When the answer to
  the revocation of a transfer is lost, the request waits in review, and the tick
  and the portal keep synchronizing the service of its former owner, who is shown
  the new link (`engine.js:1552`).  The approval then hands the service over
  without revoking again (`engine.js:1498-1504`), while
  `docs/FAOXIMA-CLOUDFLARE.fa.md:118` says that links require ownership.
* **Live rows from the table in the code** (`rates_static`).  `parseNobitex` takes
  the dollar from the tether row even when no source has quoted the tether in this
  refresh (`rates.js:456-459`; `parseCoingecko` does so with coins, 485-488), marks
  it live, and `deriveQuotes` calculates on, while `rates.js:573` says "Nothing is
  ever derived from a stale snapshot".
* **An expired service comes back on another's slot** (`bpb_expired`).
  `synchronizeBpb` finds the row by the id stored in the service and does not ask
  to whom it is sold (`engine.js:1205-1217`): when the slot of an expired service
  has been sold again, its synchronisation makes it active, with the link of the
  new buyer, while `docs/BPB.fa.md:44` says it becomes expired.  Before that too,
  any synchronisation after the rotation stores the new path in the old service
  (1217), so the rotation of `docs/BPB.fa.md:42` takes the link from a former
  buyer until the next tick only; `OldLinksDie` therefore speaks of the links
  given before the slot came back.

Found with smaller instances of these modules or while reading, without a run of
their own.  *Engine:* an operation whose panel was deleted throws
`panel_not_found` in `processOperation` before anything changes, so it keeps its
reservation and stays the head of the queue, and nothing behind it is taken up until it
is cancelled (`Blocked` in `QueuedComesToRest`), although
`docs/FAOXIMA-CLOUDFLARE.fa.md:112` says a definite failure frees it; where panels
answer and nothing is evicted, all other purchases of single accounts, renewals
and stock rows settle.  *Store:* `importValue` drops the column `expires`
(`storage.js:41`), so a login counter of the older version becomes permanent once
it is read; `LastsFromNow` is that step.  `purchase` compares the capacity
of a panel with its services and not with the operations queued for it
(`engine.js:475-483`, where the trial check at 461-472 counts both), so two queued
purchases pass for one free place.  The renewal of a stock
service in review can be neither reconciled (`engine.js:950`) nor cancelled
(1042-1051); a service transferred while its renewal is in review fails with
`service_owner_changed`.
A service of a slot may be paid back twice, by `cancelBpbService` and by a
request that was pending meanwhile: the events differ (`engine.js:1349, 1400`) and
`decideBpbRefund` does not look at the status.  A renewal quoted before a
cancellation reopens the refunded service, since `purchase` does not look at it
again.  A purchase of two with one slot free stays in review until an
administrator revokes the slot.  `applyBpbSettings` does not pass the stored
UUID and password although its comment says they stay (`bpb/service.js:316`), so
they change on a sold slot.  A lost rotation of a free slot leaves it for sale
with a path its worker does not know.  A deletion whose call to Cloudflare fails
leaves a worker no row remembers, and one of a sold slot without `force` is refused
after the worker was deleted (`bpb/routes.js:158-164`), so the buyer keeps a slot
that answers to nothing until it is revoked or its settings are applied.  `bpbTick` takes the first ten expired slots in
a fixed order (`bpb/service.js:346`), so ten that keep failing hide the others.
*After-sales:* `simpleServiceAction` looks at the owner of a service and not at its
status, so a customer may enable one that was paid back (`engine.js:1236-1316`), and a
move that is decided afterwards starts it at the other panel; `CareIsSound` says that
nothing else does.  A second refund of another amount ends with
`wallet_reference_conflict` (`wallet.js:62-69`) after the account was switched off, and
leaves the service locked with a request in review that no decision can end.
*Management:* a relayed message that is neither pending nor ready shows its status on
a button `noop` (`admin-bot.js:315`) that no handler knows, so a tap on it is answered
"This feature is disabled for this bot type" (`telegram.js:575`).
*Connectors:* the account `xui_token` reads has neither the flow, nor the limit of
devices, nor the password it was made with (`providers.js:649-658`, against 930-944),
and changes of terms, switches and new links write it back whole (1168-1184, 1340-1346,
1544-1555), so unless the panel keeps what a client does not mention, they are lost;
`OperationsMeanWhatTheySay` leaves out this field for this type and no other.  Hiddify
is sent the full number of days with the day of the request (1000-1007), so an account
made late by a retry ends later than what was sold, and an extension that arrives after
its own term ends that day.  A read that logs in while `savePanel` changes the address
may store the login of the old address after `savePanel` removed it
(`providers.js:211`, 291-345); it is used for the new one for up to fifteen minutes.
*Feeds:* an entry that stays in a document while two hundred others are noted is
forgotten and sent again (`automation.js:52`); one that a document lists twice under
one id is queued twice, since `fresh` is compared with what was seen before (50).

## 11. Not modelled

* **News** (`news.js`): the tick keeps its state like the daily post of `MarketRates`
  and saves it after all messages, so an eviction sends a digest again; what is scored
  and how it is worded is data.
* **Customer bot** (`services/bot.js`, `ux.js`): menus over the operations of sections
  3, 5 and 6.  It makes a new request id for a top-up each time, so an update delivered
  again may open a second payment, which is an unpaid row of `Funding`.
* **The status an administrator writes into a slot** (`PUT /accounts/:id`,
  `bpb/routes.js:136-149`): `disabled`, `free` or `pending_install` are taken for a
  sold row too, without a rotation, so a slot can go back on sale under the link of
  its buyer.  The page `public/bpb.js` never sends one; `BpbSlots` is about slots
  whose status only its own handlers change.
* **Service settings, service reports, the daily report**: validation, texts and
  figures; their values are constants of the modules.
* **Managed bots**: each tenant has a coordinator and a namespace of its own, so it is
  one more instance of what is modelled.
* **Authentication** of the panel and of customers (`auth.js`, `customer-auth.js`):
  its claims are about secrets and sessions rather than about the state above.
* **Panel routes and web interfaces**: they read, store settings or start operations
  that are modelled; pages are presentation.
* **Wire formats** of panels, gateways, Telegram and the sources of rates and news:
  calls are outcomes of the actions that make them.
* **Files, drawings, exports, fonts, static data**.

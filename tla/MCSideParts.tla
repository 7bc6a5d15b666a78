---------------------------- MODULE MCSideParts -----------------------------
(* The parts around the money, one behaviour of one part at a time: TLC     *)
(* checks in one run that each keeps its promise.  They share no state.     *)
EXTENDS MCMarketRates

CONSTANTS
  NTargets, MaxCycles, MaxAttempts, MaxBroadcastStops, MaxBadSaves, MaxClicks,
  Addresses, PerSource, PerDocument, Remembered, QueueBound, Dests, Window, Hops, MaxFeedStops, MaxEdits,
  WarnLimit, MaxJoins, MaxCommands, MaxNights, MaxGroupStops,
  MaxKeys, MaxRequests, MaxClicksCare, MaxCareFaults,
  MaxClock, MaxLosses, MaxOps,
  MenuWidth, MenuHeight, MaxButtons, MaxAdminTaps, MaxAdminStops,
  RelayDests, MaxRelays, MaxRelayStops, MaxRelayClicks,
  Players, Plays, MaxMoney, SignupGift, GiftAmount, GiftUses, Fee, WheelPrizes, DailySpins, Budgets,
  DicePrize, RafflePrize, RafflePrizes, MaxEntries, MaxToday, MaxGiftStops, MaxGiftClicks,
  MaxGifts,      \* gifts, games and entries of one behaviour; a request to be an agent counts as three
  Customers, Regulars, MaxUpdates, MaxUpdateStops, MaxCrmClicks,
  Together       \* evictions, clicks and the like that one behaviour may combine

ASSUME PartsAssumption ==
  /\ NTargets \in Nat \ {0} /\ MaxCycles \in Nat
  /\ MaxRelays \in Nat /\ PerSource \in Nat /\ Window \in Nat
  /\ PerDocument \in Nat /\ Remembered \in Nat /\ QueueBound \in Nat
  /\ MaxMoney \in Nat /\ SignupGift \in Nat /\ GiftAmount \in Nat /\ Fee \in Nat
  /\ DicePrize \in Nat /\ RafflePrize \in Nat /\ WheelPrizes \subseteq Nat
  /\ GiftUses \subseteq Nat /\ Budgets \subseteq Nat /\ IsFiniteSet(GiftUses) /\ IsFiniteSet(Budgets)
  /\ GiftUses # {} /\ Budgets # {} /\ MaxToday \in Nat \ {0}
  /\ 0 \notin Customers /\ IsFiniteSet(Customers)
  /\ MenuWidth \in Nat \ {0} /\ MenuHeight \in Nat \ {0}

VARIABLES
  part,
  job, ticking, older, moduleOn, unreachable, removals, removed, got, lost, broadcastStops, badSaves, clicks,
  source, feed, scan, forgotten, feedSent, feedTwice, baseline, posts, copied, copies, feedStops, edits,
  group, chat, member, challenge, warns, raffle, arriving, nightTime, verified, joins, commands, nights, groupStops,
  care, accounts, request, fetch, holds, known, shown, credits, reopened, links, asked, careClicks, careFaults,
  dialect, remote, users, progress, op, before, clock, losses, ops, astray,
  menu, flow, again, buttons, owned, due, made, adminTaps, adminStops,
  relays, album, relayOn, approval, bot, publishing, visiting, relayed, agreed, relayStops, relayClicks,
  db, loyalty, pollMode, undone, firstStart, owed, texts, updates, updateStops, crmClicks,
  purse, events, gift, spun, spinCount, wheelBudget, lottery, game, diceBudget, nextAt, throwing,
  limits, role, agentRequest, giftDay, thrown, most, granted, giftStops, giftClicks

broadcastsState == <<job, ticking, older, moduleOn, unreachable, removals, removed, got, lost, broadcastStops,
  badSaves, clicks>>
feedsState == <<source, feed, scan, forgotten, feedSent, feedTwice, baseline, posts, copied, copies, feedStops, edits>>
groupsState == <<group, chat, member, challenge, warns, raffle, arriving, nightTime, verified, joins, commands,
  nights, groupStops>>
careState == <<care, accounts, request, fetch, holds, known, shown, credits, reopened, links, asked, careClicks, careFaults>>
operationState == <<dialect, remote, users, progress, op, before, clock, losses, ops, astray>>
adminState == <<menu, flow, again, buttons, owned, due, made, adminTaps, adminStops>>
relayState == <<relays, album, relayOn, approval, bot, publishing, visiting, relayed, agreed, relayStops,
  relayClicks>>
updatesState == <<db, loyalty, pollMode, undone, firstStart, owed, texts, updates, updateStops, crmClicks>>
giftsState == <<purse, events, gift, spun, spinCount, wheelBudget, lottery, game, diceBudget, nextAt, throwing,
  limits, role, agentRequest, giftDay, thrown, most, granted, giftStops, giftClicks>>

Broad == INSTANCE Broadcasts
Feeding == INSTANCE Feeds
Grouping == INSTANCE Groups
Caring == INSTANCE ServiceCare
Panel == INSTANCE Connectors
Admin == INSTANCE AdminBot
Relaying == INSTANCE Relay
Talking == INSTANCE BotUpdates
Giving == INSTANCE Gifts WITH raffle <- lottery, today <- giftDay

\* All sources but one show little, and one entry is forgotten, once, unless the
\* feed's address changes.
FewEntries ==
  LET dropped == {e \in DOMAIN forgotten : forgotten[e] > 0} IN
  /\ \A a \in Addresses : a = (CHOOSE b \in Addresses : TRUE) \/ source[a] \subseteq {<<a, 1>>}
  /\ \A e \in dropped : forgotten[e] = 1
  /\ Cardinality(dropped) + edits <= 1

\* The parts that are not being run start, and stay, in one of their initial states.
Init ==
  /\ part \in {"broadcasts", "feeds", "channels", "groups", "care", "operation", "rates", "admin", "relay", "updates",
              "gifts"}
  /\ Broad!BroadcastInit /\ (part # "broadcasts" => job.status = "running" /\ ~job.repeat)
  /\ Feeding!FeedsInit
  /\ FewEntries
  /\ part # "feeds" => feed.url = (CHOOSE a \in Addresses : TRUE) /\ \A a \in Addresses : source[a] = {}
  /\ Grouping!GroupInit /\ (part # "groups" => group.captcha)
  /\ Caring!CareInit
  /\ Panel!ConnectorInit /\ (part # "operation" => dialect = "marzban" /\ clock = 0)
  /\ RatesInit
  /\ Admin!AdminInit
  /\ Relaying!RelayInit /\ (part # "relay" => approval)
  /\ Talking!BotInit /\ (part # "updates" => loyalty /\ pollMode = "quiz")
  /\ Giving!GiftInit

Rest(p) ==
  /\ UNCHANGED part
  /\ IF p = "broadcasts" THEN TRUE ELSE UNCHANGED broadcastsState
  /\ IF p = "feeds" THEN TRUE ELSE UNCHANGED feedsState
  /\ IF p = "groups" THEN TRUE ELSE UNCHANGED groupsState
  /\ IF p = "care" THEN TRUE ELSE UNCHANGED careState
  /\ IF p = "operation" THEN TRUE ELSE UNCHANGED operationState
  /\ IF p = "rates" THEN TRUE ELSE UNCHANGED rateVars
  /\ IF p = "admin" THEN TRUE ELSE UNCHANGED adminState
  /\ IF p = "relay" THEN TRUE ELSE UNCHANGED relayState
  /\ IF p = "updates" THEN TRUE ELSE UNCHANGED updatesState
  /\ IF p = "gifts" THEN TRUE ELSE UNCHANGED giftsState

\* Few gifts together, and a customer's requests in the order of their ids.
FewGifts ==
  /\ Cardinality(DOMAIN events) + Cardinality(DOMAIN game) + Cardinality(lottery.entries)
       + 3 * Cardinality({u \in Players : agentRequest[u] # "none"}) <= MaxGifts
  /\ LET played == DOMAIN spun \cup DOMAIN game IN
       \A u \in Players, n \in Plays : <<u, n>> \in played => n = 1 \/ <<u, n - 1>> \in played

Next ==
  \/ part = "broadcasts" /\ Broad!BroadcastNext /\ broadcastStops' + badSaves' + clicks' <= Together
     /\ badSaves' + clicks' < Together /\ Rest("broadcasts")
  \/ part = "feeds" /\ Feeding!FeedNext /\ FewEntries' /\ feedStops' + edits' < Together /\ Rest("feeds")
  \/ part = "channels" /\ Feeding!ChannelNext /\ Rest("feeds")
  \/ part = "groups" /\ Grouping!GroupNext /\ commands' + nights' + groupStops' <= Together
     /\ commands' + nights' < Together /\ Rest("groups")
  \/ part = "care" /\ Caring!CareNext /\ Rest("care")
  \/ part = "operation" /\ Panel!OperationNext /\ Rest("operation")
  \/ part = "rates" /\ RatesNext /\ refreshes' + today' + stops' <= Together + 1 /\ Rest("rates")
  \/ part = "admin" /\ Admin!AdminNext /\ Rest("admin")
  \/ part = "relay" /\ Relaying!RelayNext /\ relayStops' + relayClicks' <= Together /\ Rest("relay")
  \/ part = "updates" /\ Talking!BotNext /\ updateStops' + crmClicks' < Together /\ Rest("updates")
  \/ part = "gifts" /\ Giving!GiftNext /\ FewGifts' /\ giftStops' + giftClicks' < Together /\ Rest("gifts")

allVars == <<part, broadcastsState, feedsState, groupsState, careState, operationState,
             rateVars, adminState, relayState, updatesState, giftsState>>
Spec == Init /\ [][Next]_allVars

-----------------------------------------------------------------------------
\* A broadcast reaches each recipient once (src/src/broadcast.js): Broadcasts states it.
EveryBroadcastOnce == part = "broadcasts" => Broad!BroadcastOnce
\* A feed's entry reaches each destination once and a copied post is not copied
\* round in circles (src/src/automation.js): Feeds states it.
EveryPostOnce == part \in {"feeds", "channels"} => Feeding!FeedPostsOnce
\* Who has not passed the captcha cannot write in the group (src/src/groups.js): Groups states it.
EveryTalkerVerified == part = "groups" => Grouping!VerifiedToTalk
\* A service is paid back once, for an account that stopped, and a transfer or a
\* move cuts off what its former owner or its former panel gave
\* (src/src/services/engine.js): ServiceCare states it.
EveryServiceCared == part = "care" => Caring!CareIsSound
\* Every connector's operation changes what it names and nothing else
\* (src/src/services/providers.js): Connectors states it.
EveryPanelObeys == part = "operation" => Panel!OperationsMeanWhatTheySay
\* The rates shown are those of the sources' order and of this refresh
\* (src/src/rates.js): MarketRates states it.
EveryRateSound == part = "rates" => RatesAreSound
\* What the administrator does from Telegram is done once (src/src/admin-bot.js): AdminBot states it.
EveryTapOnce == part = "admin" => Admin!AdminActsOnce
\* A relayed message is published once, and as it was decided (src/src/automation.js): Relay states it.
EveryRelayOnce == part = "relay" => Relaying!RelayOnce
\* Signups, invitations, votes and tickets add up (src/src/telegram.js, src/src/crm.js):
\* BotUpdates states it.
EverySignupPaid == part = "updates" => Talking!SignupsPaid
\* Nothing is given to a wallet twice, or beyond its budget (src/src/services/wallet.js,
\* engagement.js): Gifts states it.
EveryGiftAccounted == part = "gifts" => Giving!GiftsAccounted
=============================================================================

------------------------------- MODULE Gifts --------------------------------
(***************************************************************************)
(* What a wallet gets without a purchase or a payment (src/src/services/   *)
(* wallet.js, engagement.js): the gift of a new account, gift codes, the   *)
(* wheel, the dice Telegram throws, and raffles; and the requests to be an *)
(* agent.  Handlers run alone on the queue.  All commit once, in one       *)
(* transaction, except the dice, which is thrown between two commits, and  *)
(* the decision about an agent, which writes two rows one by one; an       *)
(* eviction may cut these.  The administrator changes budgets and codes.   *)
(* The hours between two games of a customer are those until midnight.     *)
(***************************************************************************)
EXTENDS Integers, FiniteSets, FiniteSetsExt, Functions

CONSTANTS
  Players, Plays,      \* customers; the request ids each of them uses
  MaxMoney,            \* no balance may be above it (MAX_MONEY)
  SignupGift, GiftAmount, GiftUses,          \* GiftUses: what an administrator allows
  Fee, WheelPrizes, DailySpins, Budgets,     \* Budgets: of a day, for the wheel and the dice
  DicePrize, RafflePrize, RafflePrizes, MaxEntries,
  MaxToday, MaxGiftStops, MaxGiftClicks

VARIABLES
  purse, events,       \* per customer account:<user>.balance; ledger:<event> as its delta
  gift,                \* the row of one code
  spun, spinCount, wheelBudget,  \* spin:<user>:<request> as day and prize; the counts of a day
  raffle,              \* the row of one raffle
  game, diceBudget,    \* dice:<user>:<request>; dice-budget:<day>
  nextAt,              \* dice-user:<user>: the day he may play again
  throwing,            \* the game between its two commits, or <<>>
  limits,              \* settings.wheel.budget and settings.dice.budget
  role, agentRequest,  \* account:<user>.role is "agent"; agent-request:<user>
  today,
  thrown,              \* history: dice thrown for a customer on a day
  most, granted,       \* history: the highest limits so far; who was ever made an agent
  giftStops, giftClicks

winnings == <<purse, events>>
wheel == <<spun, spinCount, wheelBudget>>
dice == <<game, diceBudget, nextAt, throwing, thrown>>
agents == <<role, agentRequest, granted>>
giftBounds == <<giftStops, giftClicks>>
giftVars == <<winnings, gift, wheel, raffle, dice, limits, agents, today, most, giftBounds>>

Days == 1..MaxToday
Ids == Players \X Plays
Empty == [e \in {} |-> 0]
With(f, e, x) == [d \in DOMAIN f \cup {e} |-> IF d = e THEN x ELSE f[d]]
Free == throwing = <<>>     \* no handler is in the middle of its work

GiftInit ==
  /\ purse = [u \in Players |-> 0] /\ events = Empty
  /\ gift = [uses |-> Max(GiftUses), used |-> 0, on |-> TRUE]
  /\ spun = Empty /\ wheelBudget = [d \in Days |-> 0] /\ spinCount = [u \in Players |-> [d \in Days |-> 0]]
  /\ raffle = [status |-> "open", entries |-> {}, winners |-> {}]
  /\ game = Empty /\ diceBudget = [d \in Days |-> [spent |-> 0, reserved |-> 0]]
  /\ nextAt = [u \in Players |-> 0] /\ throwing = <<>> /\ thrown = [u \in Players |-> [d \in Days |-> 0]]
  /\ limits = [wheel |-> Max(Budgets), dice |-> Max(Budgets)]
  /\ most = [gift |-> Max(GiftUses), wheel |-> Max(Budgets), dice |-> Max(Budgets)]
  /\ role = [u \in Players |-> "customer"] /\ agentRequest = [u \in Players |-> "none"] /\ granted = {}
  /\ today = 1 /\ giftStops = 0 /\ giftClicks = 0

-----------------------------------------------------------------------------
(* walletWrites: an event is booked once, within the limits of a wallet     *)

Bookable(u, delta) ==
  purse[u] + delta <= MaxMoney /\ (delta < 0 => purse[u] + delta >= 0)
Book(e, u, delta) ==
  IF e \in DOMAIN events THEN events[e] = delta /\ UNCHANGED winnings
  ELSE /\ Bookable(u, delta)
       /\ purse' = [purse EXCEPT ![u] = @ + delta] /\ events' = With(events, e, delta)

-----------------------------------------------------------------------------
(* Accounts, codes and the wheel                                           *)

initializeAccount(u) ==
  /\ Free /\ <<"signup", u>> \notin DOMAIN events
  /\ Book(<<"signup", u>>, u, SignupGift)
  /\ UNCHANGED <<gift, wheel, raffle, dice, limits, agents, today, most, giftBounds>>

redeemGift(u) ==
  /\ Free /\ gift.on /\ gift.used < gift.uses /\ <<"gift", u>> \notin DOMAIN events
  /\ Book(<<"gift", u>>, u, GiftAmount)
  /\ gift' = [gift EXCEPT !.used = @ + 1]
  /\ UNCHANGED <<wheel, raffle, dice, limits, agents, today, most, giftBounds>>

Drawn(u, play, prize) ==
  /\ Free /\ spinCount[u][today] < DailySpins
  /\ prize + wheelBudget[today] <= limits.wheel /\ purse[u] >= Fee
  /\ Book(<<"spin", u, play>>, u, prize - Fee)
  /\ spun' = With(spun, <<u, play>>, [day |-> today, prize |-> prize])
  /\ spinCount' = [spinCount EXCEPT ![u][today] = @ + 1]
  /\ wheelBudget' = [wheelBudget EXCEPT ![today] = @ + prize]
  /\ UNCHANGED <<gift, raffle, dice, limits, agents, today, most, giftBounds>>

\* Broken: a repeated request is not looked up.
SpinAgain(u, play, prize) == Drawn(u, play, prize)
\* A request answered before gets the same answer: nothing changes.  The prize
\* is drawn among those the budget of the day still allows.
spinWheel(u, play, prize) == <<u, play>> \notin DOMAIN spun /\ Drawn(u, play, prize)

-----------------------------------------------------------------------------
(* The dice: the budget and the cooldown are committed before it is thrown  *)

playDice(u, play) ==
  /\ Free /\ <<u, play>> \notin DOMAIN game
  /\ role[u] = "customer" /\ purse[u] + DicePrize <= MaxMoney /\ nextAt[u] <= today
  /\ LET b == diceBudget[today] IN b.spent + b.reserved + DicePrize <= limits.dice
  /\ game' = With(game, <<u, play>>, [status |-> "rolling", day |-> today, held |-> DicePrize, amount |-> 0])
  /\ diceBudget' = [diceBudget EXCEPT ![today].reserved = @ + DicePrize]
  /\ throwing' = [id |-> <<u, play>>, nextAt |-> nextAt[u]]
  /\ nextAt' = [nextAt EXCEPT ![u] = today + 1]
  /\ UNCHANGED <<winnings, gift, wheel, raffle, limits, agents, today, most, thrown, giftBounds>>

Unreserved(id) == [diceBudget EXCEPT ![game[id].day].reserved = Max({0, @ - game[id].held})]
Ended(id, status, amount) ==
  game' = [game EXCEPT ![id].status = status, ![id].held = 0, ![id].amount = amount]
ThrownAt(id, n) == thrown' = [thrown EXCEPT ![id[1]][game[id].day] = @ + n]

\* Telegram answers with what was thrown.
DiceThrown ==
  /\ throwing # <<>> /\ throwing' = <<>>
  /\ LET id == throwing.id IN
       \E amount \in {0, DicePrize} :
         /\ Book(<<"dice", id>>, id[1], amount) /\ Ended(id, "done", amount) /\ ThrownAt(id, 1)
         /\ diceBudget' = [Unreserved(id) EXCEPT ![game[id].day].spent = @ + amount]
  /\ UNCHANGED <<gift, wheel, raffle, nextAt, limits, agents, today, most, giftBounds>>

\* Broken: the cooldown is given back after any failure.
DiceRefunded ==
  /\ throwing # <<>> /\ throwing' = <<>>
  /\ LET id == throwing.id IN
       /\ Ended(id, "review", 0) /\ diceBudget' = Unreserved(id) /\ \E n \in {0, 1} : ThrownAt(id, n)
       /\ nextAt' = [nextAt EXCEPT ![id[1]] = throwing.nextAt]
  /\ UNCHANGED <<winnings, gift, wheel, raffle, limits, agents, today, most, giftBounds>>

\* A refusal (4xx) gives the turn back; after any other failure, or an answer
\* that is none, the dice may have been thrown.
DiceFailed ==
  /\ throwing # <<>> /\ throwing' = <<>>
  /\ LET id == throwing.id IN
       /\ diceBudget' = Unreserved(id)
       /\ \/ /\ Ended(id, "failed", 0) /\ nextAt' = [nextAt EXCEPT ![id[1]] = throwing.nextAt] /\ ThrownAt(id, 0)
          \/ \E status \in {"failed", "review"}, n \in {0, 1} :
               Ended(id, status, 0) /\ ThrownAt(id, n) /\ UNCHANGED nextAt
  /\ UNCHANGED <<winnings, gift, wheel, raffle, limits, agents, today, most, giftBounds>>

DiceEvicted ==
  /\ throwing # <<>> /\ giftStops < MaxGiftStops /\ giftStops' = giftStops + 1
  /\ throwing' = <<>> /\ \E n \in {0, 1} : ThrownAt(throwing.id, n)
  /\ UNCHANGED <<winnings, gift, wheel, raffle, game, diceBudget, nextAt, limits, agents, today, most, giftClicks>>

\* Of the tick: a game two minutes old that still rolls was evicted.
cleanupDice(id) ==
  /\ Free /\ game[id].status = "rolling"
  /\ Ended(id, "review", 0) /\ diceBudget' = Unreserved(id)
  /\ UNCHANGED <<winnings, gift, wheel, raffle, nextAt, throwing, thrown, limits, agents, today, most, giftBounds>>

-----------------------------------------------------------------------------
(* Raffles and agents                                                      *)

enterRaffle(u) ==
  /\ Free /\ raffle.status = "open" /\ u \notin raffle.entries /\ Cardinality(raffle.entries) < MaxEntries
  /\ raffle' = [raffle EXCEPT !.entries = @ \cup {u}]
  /\ UNCHANGED <<winnings, gift, wheel, dice, limits, agents, today, most, giftBounds>>

\* Of the tick, once the raffle has closed (when entries are refused): one
\* winner who cannot be paid leaves it open, and the next tick draws again.
drawRaffles ==
  /\ Free /\ raffle.status = "open"
  /\ LET n == Min({RafflePrizes, Cardinality(raffle.entries)}) IN
       \E winners \in kSubset(n, raffle.entries) :
         /\ \A u \in winners : Bookable(u, RafflePrize)
         /\ purse' = [u \in Players |-> IF u \in winners THEN purse[u] + RafflePrize ELSE purse[u]]
         /\ events' = [e \in DOMAIN events \cup ({"raffle"} \X winners) |->
                         IF e \in DOMAIN events THEN events[e] ELSE RafflePrize]
         /\ raffle' = [raffle EXCEPT !.status = "drawn", !.winners = winners]
  /\ UNCHANGED <<gift, wheel, dice, limits, agents, today, most, giftBounds>>

requestAgent(u) ==
  /\ Free /\ agentRequest[u] # "pending" /\ agentRequest' = [agentRequest EXCEPT ![u] = "pending"]
  /\ UNCHANGED <<winnings, gift, wheel, raffle, dice, limits, role, granted, today, most, giftBounds>>

Clicked == giftClicks < MaxGiftClicks /\ giftClicks' = giftClicks + 1

\* An eviction may fall between the account and the request.
decideAgent(u, approve) ==
  /\ Free /\ Clicked /\ agentRequest[u] = "pending"
  /\ IF approve THEN role' = [role EXCEPT ![u] = "agent"] /\ granted' = granted \cup {u}
     ELSE UNCHANGED <<role, granted>>
  /\ \/ /\ agentRequest' = [agentRequest EXCEPT ![u] = IF approve THEN "approved" ELSE "rejected"]
        /\ UNCHANGED giftStops
     \/ approve /\ giftStops < MaxGiftStops /\ giftStops' = giftStops + 1 /\ UNCHANGED agentRequest
  /\ UNCHANGED <<winnings, gift, wheel, raffle, dice, limits, today, most>>

-----------------------------------------------------------------------------
(* The administrator, and the clock                                        *)

\* Saving a code keeps its count of uses; deleting it turns it off.
saveGift ==
  /\ Free /\ Clicked
  /\ \E uses \in GiftUses, on \in BOOLEAN :
       /\ gift' = [gift EXCEPT !.uses = uses, !.on = on]
       /\ most' = [most EXCEPT !.gift = Max({@, uses})]
  /\ UNCHANGED <<winnings, wheel, raffle, dice, limits, agents, today, giftStops>>

SaveBudgets ==
  /\ Free /\ Clicked
  /\ \E w, d \in Budgets :
       /\ limits' = [wheel |-> w, dice |-> d]
       /\ most' = [most EXCEPT !.wheel = Max({@, w}), !.dice = Max({@, d})]
  /\ UNCHANGED <<winnings, gift, wheel, raffle, dice, agents, today, giftStops>>

Midnight ==
  /\ today < MaxToday /\ today' = today + 1
  /\ UNCHANGED <<winnings, gift, wheel, raffle, dice, limits, agents, most, giftBounds>>

GiftNext ==
  \/ DiceThrown \/ DiceFailed \/ DiceEvicted \/ drawRaffles \/ saveGift \/ SaveBudgets \/ Midnight
  \/ \E u \in Players : initializeAccount(u) \/ redeemGift(u) \/ enterRaffle(u) \/ requestAgent(u)
  \/ \E u \in Players, play \in Plays : playDice(u, play)
  \/ \E u \in Players, play \in Plays, prize \in WheelPrizes : spinWheel(u, play, prize)
  \/ \E id \in DOMAIN game : cleanupDice(id)
  \/ \E u \in Players, approve \in BOOLEAN : decideAgent(u, approve)

GiftSpec == GiftInit /\ [][GiftNext]_giftVars

-----------------------------------------------------------------------------
Booked(kind) == {e \in DOMAIN events : e[1] = kind}
GamesOf(day) == {id \in DOMAIN game : game[id].day = day}
SpinsOf(day) == {i \in DOMAIN spun : spun[i].day = day}
Amounts == [id \in DOMAIN game |-> game[id].amount]
Held == [id \in DOMAIN game |-> game[id].held]
Prizes == [i \in DOMAIN spun |-> spun[i].prize]
\* Whose wallet an event is about; the event of a dice names its game.
Owner(e) == IF e[1] = "dice" THEN e[2][1] ELSE e[2]

\* Nothing is given twice or beyond what was promised: a wallet holds what its
\* events say; a code is used as often as it was booked; the wheel and the dice
\* keep the budget of a day, also with games that were cut or never answered;
\* nobody throws twice in a day; a throw that came back can always be paid;
\* and a raffle pays each winner once, all of them or none.
GiftsAccounted ==
  /\ \A u \in Players :
       purse[u] >= 0 /\ purse[u] = SumFunctionOnSet(events, {e \in DOMAIN events : Owner(e) = u})
  /\ gift.used = Cardinality(Booked("gift")) /\ gift.used <= most.gift
  /\ \A d \in Days :
       /\ \A u \in Players : spinCount[u][d] = Cardinality({i \in SpinsOf(d) : i[1] = u})
       /\ wheelBudget[d] = SumFunctionOnSet(Prizes, SpinsOf(d))
       /\ wheelBudget[d] <= most.wheel
       /\ diceBudget[d].spent = SumFunctionOnSet(Amounts, GamesOf(d))
       /\ diceBudget[d].reserved = SumFunctionOnSet(Held, GamesOf(d))
       /\ diceBudget[d].spent + diceBudget[d].reserved <= most.dice
       /\ \A u \in Players : thrown[u][d] <= 1
  /\ throwing # <<>> => Bookable(throwing.id[1], DicePrize)
  /\ {e[2] : e \in Booked("raffle")} = raffle.winners
  /\ \A u \in Players : agentRequest[u] = "approved" => u \in granted
=============================================================================

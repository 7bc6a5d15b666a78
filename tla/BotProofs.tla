----------------------------- MODULE BotProofs ------------------------------
(***************************************************************************)
(* What the bot does for its customers and its administrator, proved for   *)
(* every value of the constants: the gifts, games and raffles that fill a  *)
(* wallet, the points of signups, invitations and polls that updates served *)
(* twice must not pay twice, and the administrator's taps.                 *)
(***************************************************************************)
EXTENDS MCSideParts, SumProofs, SequenceTheorems

-----------------------------------------------------------------------------
(* Gifts                                                                   *)

LEMMA GiftSum == \A f, S : Giving!SumFunctionOnSet(f, S) = SumFunctionOnSet(f, S)
  BY DEF Giving!SumFunctionOnSet, SumFunctionOnSet, Giving!FoldFunctionOnSet, FoldFunctionOnSet,
         Giving!MapThenFoldSet, MapThenFoldSet

LEMMA GiftCount == \A S : Giving!Cardinality(S) = Cardinality(S)
  BY DEF Giving!Cardinality, Cardinality

(* The numbers the administrator and the settings give.                    *)
GiftConstants ==
  /\ MaxMoney \in Nat /\ SignupGift \in Nat /\ GiftAmount \in Nat /\ Fee \in Nat
  /\ DicePrize \in Nat /\ RafflePrize \in Nat /\ WheelPrizes \subseteq Nat
  /\ GiftUses \subseteq Nat /\ Budgets \subseteq Nat /\ IsFiniteSet(GiftUses) /\ IsFiniteSet(Budgets)
  /\ GiftUses # {} /\ Budgets # {} /\ MaxToday \in Nat \ {0}

EventsOf(u) == {e \in DOMAIN events : Giving!Owner(e) = u}

(* A wallet holds what its events say.                                     *)
WalletInv ==
  /\ purse \in [Players -> Nat] /\ IsFiniteSet(DOMAIN events) /\ \A e \in DOMAIN events : events[e] \in Int
  /\ \A u \in Players : purse[u] = SumFunctionOnSet(events, EventsOf(u))

(* A code is used as often as it was booked, and as it was allowed.        *)
CodeInv ==
  /\ DOMAIN gift = {"uses", "used", "on"} /\ gift.uses \in Nat /\ gift.used \in Nat
  /\ most.gift \in Nat /\ gift.used = Cardinality(Giving!Booked("gift"))
  /\ gift.used <= most.gift /\ gift.uses <= most.gift

LimitInv ==
  /\ DOMAIN most = {"gift", "wheel", "dice"} /\ most.wheel \in Nat /\ most.dice \in Nat
  /\ DOMAIN limits = {"wheel", "dice"} /\ limits.wheel \in Nat /\ limits.dice \in Nat
  /\ limits.wheel <= most.wheel /\ limits.dice <= most.dice /\ giftDay \in Giving!Days

(* The wheel counts its spins, and keeps the budget of the day.            *)
WheelInv ==
  /\ IsFiniteSet(DOMAIN spun) /\ \A i \in DOMAIN spun : spun[i].prize \in Nat
  /\ spinCount \in [Players -> [Giving!Days -> Nat]] /\ wheelBudget \in [Giving!Days -> Nat]
  /\ \A d \in Giving!Days :
       /\ \A u \in Players : spinCount[u][d] = Cardinality({i \in Giving!SpinsOf(d) : i[1] = u})
       /\ wheelBudget[d] = SumFunctionOnSet(Giving!Prizes, Giving!SpinsOf(d))
       /\ wheelBudget[d] <= most.wheel

(* A game that rolls holds its prize, and one that ended holds nothing.    *)
Game == [status : {"rolling", "done", "review", "failed"}, day : Giving!Days, held : Nat, amount : Nat]
DiceInv ==
  /\ IsFiniteSet(DOMAIN game) /\ DOMAIN game \subseteq Giving!Ids
  /\ \A id \in DOMAIN game :
       /\ game[id] \in Game
       /\ game[id].status = "rolling" => game[id].held = DicePrize /\ game[id].amount = 0
  /\ diceBudget \in [Giving!Days -> [spent : Nat, reserved : Nat]]
  /\ \A d \in Giving!Days :
       /\ diceBudget[d].spent = SumFunctionOnSet(Giving!Amounts, Giving!GamesOf(d))
       /\ diceBudget[d].reserved = SumFunctionOnSet(Giving!Held, Giving!GamesOf(d))
       /\ diceBudget[d].spent + diceBudget[d].reserved <= most.dice

(* Who threw on a day, or is about to, may play again on a later one; a    *)
(* turn that can still be given back was not used on the day of its game.  *)
ThrowInv ==
  /\ nextAt \in [Players -> Nat] /\ thrown \in [Players -> [Giving!Days -> Nat]]
  /\ \A u \in Players, d \in Giving!Days : thrown[u][d] <= 1 /\ (thrown[u][d] # 0 => nextAt[u] > d)
  /\ throwing # <<>> =>
       /\ throwing.id \in DOMAIN game /\ throwing.id[1] \in Players /\ game[throwing.id].status = "rolling"
       /\ Giving!Bookable(throwing.id[1], DicePrize)
       /\ throwing.nextAt \in Nat /\ throwing.nextAt <= game[throwing.id].day
       /\ nextAt[throwing.id[1]] > game[throwing.id].day
       /\ \A d \in Giving!Days : thrown[throwing.id[1]][d] # 0 => throwing.nextAt > d

(* An open raffle has paid nobody.                                         *)
RaffleInv ==
  /\ DOMAIN lottery = {"status", "entries", "winners"} /\ IsFiniteSet(lottery.entries) /\ lottery.entries \subseteq Players
  /\ {e[2] : e \in Giving!Booked("raffle")} = lottery.winners
  /\ lottery.status = "open" => lottery.winners = {}

AgentInv ==
  /\ agentRequest \in [Players -> {"none", "pending", "approved", "rejected"}]
  /\ \A u \in Players : agentRequest[u] = "approved" => u \in granted

GiftIInv ==
  WalletInv /\ CodeInv /\ LimitInv /\ WheelInv /\ DiceInv /\ ThrowInv /\ RaffleInv /\ AgentInv

LEMMA GiftPromise == GiftIInv => Giving!GiftsAccounted
  <1> SUFFICES ASSUME GiftIInv PROVE Giving!GiftsAccounted
    OBVIOUS
  <1>1. \A u \in Players :
          purse[u] >= 0 /\ purse[u] = Giving!SumFunctionOnSet(events, {e \in DOMAIN events : Giving!Owner(e) = u})
    BY GiftSum DEF GiftIInv, WalletInv, EventsOf
  <1>2. gift.used = Giving!Cardinality(Giving!Booked("gift")) /\ gift.used <= most.gift
    BY GiftCount DEF GiftIInv, CodeInv
  <1>3. \A d \in Giving!Days :
          /\ \A u \in Players : spinCount[u][d] = Giving!Cardinality({i \in Giving!SpinsOf(d) : i[1] = u})
          /\ wheelBudget[d] = Giving!SumFunctionOnSet(Giving!Prizes, Giving!SpinsOf(d))
          /\ wheelBudget[d] <= most.wheel
    BY GiftCount, GiftSum DEF GiftIInv, WheelInv
  <1>4. \A d \in Giving!Days :
          /\ diceBudget[d].spent = Giving!SumFunctionOnSet(Giving!Amounts, Giving!GamesOf(d))
          /\ diceBudget[d].reserved = Giving!SumFunctionOnSet(Giving!Held, Giving!GamesOf(d))
          /\ diceBudget[d].spent + diceBudget[d].reserved <= most.dice
    BY GiftSum DEF GiftIInv, DiceInv
  <1>5. /\ \A d \in Giving!Days, u \in Players : thrown[u][d] <= 1
        /\ throwing # <<>> => Giving!Bookable(throwing.id[1], DicePrize)
    BY DEF GiftIInv, ThrowInv
  <1>6. /\ {e[2] : e \in Giving!Booked("raffle")} = lottery.winners
        /\ \A u \in Players : agentRequest[u] = "approved" => u \in granted
    BY DEF GiftIInv, RaffleInv, AgentInv
  <1> QED BY <1>1, <1>2, <1>3, <1>4, <1>5, <1>6 DEF Giving!GiftsAccounted

LEMMA GiftMax ==
  ASSUME NEW S, S \subseteq Nat, IsFiniteSet(S), S # {}
  PROVE  Giving!Max(S) \in S /\ \A x \in S : x <= Giving!Max(S)
  <1>1. \E x \in S : \A y \in S : x >= y
    <2>1. PICK x \in S : \A y \in S : y <= x
      BY HighestExists
    <2> QED BY <2>1
  <1>2. Giving!Max(S) \in S /\ \A y \in S : Giving!Max(S) >= y
    BY <1>1 DEF Giving!Max
  <1> QED BY <1>2

LEMMA MaxOfTwo ==
  ASSUME NEW a \in Nat, NEW b \in Nat
  PROVE  Giving!Max({a, b}) \in Nat /\ a <= Giving!Max({a, b}) /\ b <= Giving!Max({a, b})
  <1>1. IsFiniteSet({a, b})
    <2>1. IsFiniteSet({a} \cup {b})
      BY FS_Singleton, FS_Union
    <2>2. {a, b} = {a} \cup {b}
      OBVIOUS
    <2> QED BY <2>1, <2>2
  <1>2. {a, b} \subseteq Nat /\ {a, b} # {}
    OBVIOUS
  <1>3. Giving!Max({a, b}) \in {a, b} /\ \A x \in {a, b} : x <= Giving!Max({a, b})
    BY <1>1, <1>2, GiftMax
  <1> QED BY <1>3

(* A function of two arguments changes where it is changed.                *)
LEMMA TwoPlaces ==
  ASSUME NEW A, NEW B, NEW f \in [A -> [B -> Nat]], NEW a \in A, NEW b \in B, NEW n \in Nat,
         NEW g, g = [f EXCEPT ![a][b] = n]
  PROVE  /\ g \in [A -> [B -> Nat]]
         /\ \A x \in A, y \in B : g[x][y] = IF x = a /\ y = b THEN n ELSE f[x][y]
  <1>1. PICK row : row = [f[a] EXCEPT ![b] = n]
    OBVIOUS
  <1>2. f[a] \in [B -> Nat]
    OBVIOUS
  <1>3. row \in [B -> Nat] /\ \A y \in B : row[y] = IF y = b THEN n ELSE f[a][y]
    BY <1>1, <1>2
  <1>4. g = [f EXCEPT ![a] = row]
    BY <1>1
  <1>5. g \in [A -> [B -> Nat]]
    BY <1>3, <1>4
  <1>6. \A x \in A : g[x] = IF x = a THEN row ELSE f[x]
    BY <1>4
  <1> QED BY <1>3, <1>5, <1>6

(* One more summand.                                                       *)
LEMMA SumGrows ==
  ASSUME NEW S, IsFiniteSet(S), NEW f, NEW g, NEW a, a \notin S,
         \A x \in S : f[x] \in Int /\ g[x] = f[x], g[a] \in Int
  PROVE  SumFunctionOnSet(g, S \cup {a}) = g[a] + SumFunctionOnSet(f, S)
  <1>1. \A x \in S \cup {a} : g[x] \in Int
    OBVIOUS
  <1>2. SumFunctionOnSet(g, S \cup {a}) = g[a] + SumFunctionOnSet(g, S)
    BY <1>1, SumWith
  <1>3. SumFunctionOnSet(f, S) = SumFunctionOnSet(g, S)
    BY SumAgree
  <1> QED BY <1>2, <1>3

LEMMA GiftStarts == ASSUME GiftConstants, Giving!GiftInit PROVE GiftIInv
  <1>0. IsFiniteSet({}) /\ Cardinality({}) = 0
    BY FS_EmptySet
  <1>1. /\ purse = [u \in Players |-> 0] /\ DOMAIN events = {} /\ DOMAIN spun = {} /\ DOMAIN game = {}
        /\ gift = [uses |-> Giving!Max(GiftUses), used |-> 0, on |-> TRUE]
        /\ wheelBudget = [d \in Giving!Days |-> 0] /\ spinCount = [u \in Players |-> [d \in Giving!Days |-> 0]]
        /\ lottery = [status |-> "open", entries |-> {}, winners |-> {}]
        /\ diceBudget = [d \in Giving!Days |-> [spent |-> 0, reserved |-> 0]]
        /\ nextAt = [u \in Players |-> 0] /\ throwing = <<>>
        /\ thrown = [u \in Players |-> [d \in Giving!Days |-> 0]]
        /\ limits = [wheel |-> Giving!Max(Budgets), dice |-> Giving!Max(Budgets)]
        /\ most = [gift |-> Giving!Max(GiftUses), wheel |-> Giving!Max(Budgets), dice |-> Giving!Max(Budgets)]
        /\ agentRequest = [u \in Players |-> "none"] /\ giftDay = 1
    BY DEF Giving!GiftInit, Giving!Empty
  <1>2. Giving!Max(GiftUses) \in Nat /\ Giving!Max(Budgets) \in Nat
    BY GiftMax DEF GiftConstants
  <1>3. \A f : SumFunctionOnSet(f, {}) = 0
    BY SumEmpty
  <1>4. WalletInv
    <2>1. \A u \in Players : EventsOf(u) = {}
      BY <1>1 DEF EventsOf
    <2> QED BY <1>0, <1>1, <1>3, <2>1 DEF WalletInv
  <1>5. CodeInv
    <2>1. Giving!Booked("gift") = {}
      BY <1>1 DEF Giving!Booked
    <2>2. PICK n \in Nat : n = Giving!Max(GiftUses)
      BY <1>2
    <2>3. gift.uses = n /\ gift.used = 0 /\ most.gift = n /\ DOMAIN gift = {"uses", "used", "on"} /\ n <= n /\ 0 <= n
      BY <1>1, <2>2
    <2> QED BY <1>0, <2>1, <2>3 DEF CodeInv
  <1>6. LimitInv
    <2>2. PICK n \in Nat : n = Giving!Max(Budgets)
      BY <1>2
    <2>3. 1 \in Giving!Days
      BY DEF Giving!Days, GiftConstants
    <2> QED BY <1>1, <2>2, <2>3 DEF LimitInv
  <1>7. WheelInv
    <2>1. \A d : Giving!SpinsOf(d) = {}
      BY <1>1 DEF Giving!SpinsOf
    <2>2. \A d, u : {i \in Giving!SpinsOf(d) : i[1] = u} = {}
      BY <2>1
    <2>3. 0 <= most.wheel
      BY <1>1, <1>2
    <2> QED BY <1>0, <1>1, <1>3, <2>1, <2>2, <2>3 DEF WheelInv
  <1>8. DiceInv
    <2>1. \A d : Giving!GamesOf(d) = {}
      BY <1>1 DEF Giving!GamesOf
    <2>2. 0 + 0 <= most.dice
      BY <1>1, <1>2
    <2>3. \A d \in Giving!Days : diceBudget[d].spent = 0 /\ diceBudget[d].reserved = 0
      BY <1>1
    <2> QED BY <1>0, <1>1, <1>3, <2>1, <2>2, <2>3 DEF DiceInv
  <1>9. ThrowInv
    BY <1>1 DEF ThrowInv
  <1>10. RaffleInv
    <2>1. Giving!Booked("raffle") = {}
      BY <1>1 DEF Giving!Booked
    <2> QED BY <1>0, <1>1, <2>1 DEF RaffleInv
  <1>11. AgentInv
    BY <1>1 DEF AgentInv
  <1> QED BY <1>4, <1>5, <1>6, <1>7, <1>8, <1>9, <1>10, <1>11 DEF GiftIInv

(* What each part of the invariant does not look at may change.            *)
LEMMA WalletStays == WalletInv /\ UNCHANGED <<purse, events>> => WalletInv'
  BY DEF WalletInv, EventsOf
LEMMA CodeStays == CodeInv /\ UNCHANGED <<gift, most>> /\ Giving!Booked("gift")' = Giving!Booked("gift") => CodeInv'
  BY DEF CodeInv
LEMMA LimitStays == LimitInv /\ UNCHANGED <<most, limits, giftDay>> => LimitInv'
  BY DEF LimitInv
LEMMA WheelStays == WheelInv /\ UNCHANGED <<spun, spinCount, wheelBudget, most>> => WheelInv'
  BY DEF WheelInv, Giving!SpinsOf, Giving!Prizes
LEMMA DiceStays == DiceInv /\ UNCHANGED <<game, diceBudget, most>> => DiceInv'
  BY DEF DiceInv, Giving!GamesOf, Giving!Amounts, Giving!Held
LEMMA ThrowStays == ThrowInv /\ UNCHANGED <<nextAt, thrown, throwing, game, purse>> => ThrowInv'
  BY DEF ThrowInv, Giving!Bookable
LEMMA RaffleStays ==
  RaffleInv /\ UNCHANGED lottery /\ Giving!Booked("raffle")' = Giving!Booked("raffle") => RaffleInv'
  BY DEF RaffleInv
LEMMA AgentStays == AgentInv /\ UNCHANGED <<agentRequest, granted>> => AgentInv'
  BY DEF AgentInv
LEMMA BookedStays == \A kind : UNCHANGED events => Giving!Booked(kind)' = Giving!Booked(kind)
  BY DEF Giving!Booked

(* With nobody throwing, what a wallet holds does not matter to the dice.  *)
LEMMA ThrowIdle == ThrowInv /\ throwing = <<>> /\ UNCHANGED <<nextAt, thrown, throwing>> => ThrowInv'
  BY DEF ThrowInv

(* An event is booked once, and moves its own wallet.                      *)
LEMMA Booking ==
  ASSUME WalletInv, NEW e, NEW u \in Players, NEW delta \in Int, Giving!Owner(e) = u, Giving!Book(e, u, delta)
  PROVE  /\ WalletInv' /\ DOMAIN events' = DOMAIN events \cup {e}
         /\ \A kind : kind # e[1] => Giving!Booked(kind)' = Giving!Booked(kind)
  <1>1. CASE e \in DOMAIN events
    <2>1. UNCHANGED <<purse, events>>
      BY <1>1 DEF Giving!Book, Giving!winnings
    <2> QED BY <1>1, <2>1, WalletStays, BookedStays
  <1>2. CASE e \notin DOMAIN events
    <2>1. purse' = [purse EXCEPT ![u] = @ + delta] /\ events' = Giving!With(events, e, delta) /\ Giving!Bookable(u, delta)
      BY <1>2 DEF Giving!Book
    <2>2. DOMAIN events' = DOMAIN events \cup {e} /\ events'[e] = delta /\ \A x \in DOMAIN events : events'[x] = events[x]
      BY <1>2, <2>1 DEF Giving!With
    <2>3. \A kind : kind # e[1] => Giving!Booked(kind)' = Giving!Booked(kind)
      BY <2>2 DEF Giving!Booked
    <2>4. PICK n \in Int : n = purse[u] + delta
      BY DEF WalletInv
    <2>5. n >= 0
      <3>1. purse[u] \in Nat
        BY DEF WalletInv
      <3> QED BY <2>1, <2>4, <3>1 DEF Giving!Bookable
    <2>6. purse' = [purse EXCEPT ![u] = n]
      BY <2>1, <2>4
    <2>7. purse' \in [Players -> Nat] /\ purse'[u] = n /\ \A v \in Players : v # u => purse'[v] = purse[v]
      BY <2>5, <2>6 DEF WalletInv
    <2>8. IsFiniteSet(DOMAIN events') /\ \A x \in DOMAIN events' : events'[x] \in Int
      BY <2>2, FS_AddElement DEF WalletInv
    <2>9. \A v \in Players : /\ IsFiniteSet(EventsOf(v)) /\ e \notin EventsOf(v)
                             /\ \A x \in EventsOf(v) : events[x] \in Int /\ events'[x] = events[x]
                             /\ EventsOf(v)' = IF v = u THEN EventsOf(v) \cup {e} ELSE EventsOf(v)
      <3> SUFFICES ASSUME NEW v \in Players
                   PROVE  /\ IsFiniteSet(EventsOf(v)) /\ e \notin EventsOf(v)
                          /\ \A x \in EventsOf(v) : events[x] \in Int /\ events'[x] = events[x]
                          /\ EventsOf(v)' = IF v = u THEN EventsOf(v) \cup {e} ELSE EventsOf(v)
        OBVIOUS
      <3>1. EventsOf(v) \subseteq DOMAIN events /\ IsFiniteSet(DOMAIN events)
        BY DEF EventsOf, WalletInv
      <3>2. IsFiniteSet(EventsOf(v))
        BY <3>1, FS_Subset
      <3>3. EventsOf(v)' = {x \in DOMAIN events \cup {e} : Giving!Owner(x) = v}
        BY <2>2 DEF EventsOf, Giving!Owner
      <3>4. EventsOf(v)' = IF v = u THEN EventsOf(v) \cup {e} ELSE EventsOf(v)
        BY <3>3 DEF EventsOf
      <3> QED BY <1>2, <2>2, <3>1, <3>2, <3>4 DEF WalletInv
    <2>10. \A v \in Players : purse'[v] = SumFunctionOnSet(events', EventsOf(v)')
      <3> SUFFICES ASSUME NEW v \in Players
                   PROVE  purse'[v] = SumFunctionOnSet(events', EventsOf(v)')
        OBVIOUS
      <3>1. purse[v] = SumFunctionOnSet(events, EventsOf(v))
        BY DEF WalletInv
      <3>2. CASE v = u
        <4>1. SumFunctionOnSet(events', EventsOf(u) \cup {e}) = events'[e] + SumFunctionOnSet(events, EventsOf(u))
          BY <2>2, <2>9, SumGrows
        <4>2. n = delta + purse[u]
          BY <2>4 DEF WalletInv
        <4> QED BY <2>2, <2>7, <2>9, <3>1, <3>2, <4>1, <4>2
      <3>3. CASE v # u
        <4>1. SumFunctionOnSet(events, EventsOf(v)) = SumFunctionOnSet(events', EventsOf(v))
          BY <2>9, SumAgree
        <4> QED BY <2>7, <2>9, <3>1, <3>3, <4>1
      <3> QED BY <3>2, <3>3
    <2>11. WalletInv'
      BY <2>7, <2>8, <2>10 DEF WalletInv
    <2> QED BY <2>2, <2>3, <2>11
  <1> QED BY <1>1, <1>2

LEMMA GiftSignup ==
  ASSUME GiftConstants, GiftIInv, NEW u \in Players, Giving!initializeAccount(u)
  PROVE  GiftIInv'
  <1>0. WalletInv /\ CodeInv /\ LimitInv /\ WheelInv /\ DiceInv /\ ThrowInv /\ RaffleInv /\ AgentInv
    BY DEF GiftIInv
  <1>1. /\ throwing = <<>> /\ Giving!Book(<<"signup", u>>, u, SignupGift)
        /\ UNCHANGED <<gift, spun, spinCount, wheelBudget, lottery, game, diceBudget, nextAt, throwing, thrown,
                       limits, role, agentRequest, granted, giftDay, most>>
    BY DEF Giving!initializeAccount, Giving!Free, Giving!wheel, Giving!dice, Giving!agents
  <1>2. Giving!Owner(<<"signup", u>>) = u /\ SignupGift \in Int /\ <<"signup", u>>[1] = "signup"
    BY DEF Giving!Owner, GiftConstants
  <1>3. WalletInv' /\ \A kind : kind # "signup" => Giving!Booked(kind)' = Giving!Booked(kind)
    BY <1>0, <1>1, <1>2, Booking
  <1>4. CodeInv' /\ RaffleInv'
    BY <1>0, <1>1, <1>3, CodeStays, RaffleStays
  <1>5. LimitInv' /\ WheelInv' /\ DiceInv' /\ ThrowInv' /\ AgentInv'
    BY <1>0, <1>1, LimitStays, WheelStays, DiceStays, ThrowIdle, AgentStays
  <1> QED BY <1>3, <1>4, <1>5 DEF GiftIInv

LEMMA GiftRedeems ==
  ASSUME GiftConstants, GiftIInv, NEW u \in Players, Giving!redeemGift(u)
  PROVE  GiftIInv'
  <1>0. WalletInv /\ CodeInv /\ LimitInv /\ WheelInv /\ DiceInv /\ ThrowInv /\ RaffleInv /\ AgentInv
    BY DEF GiftIInv
  <1>1. /\ throwing = <<>> /\ Giving!Book(<<"gift", u>>, u, GiftAmount)
        /\ <<"gift", u>> \notin DOMAIN events /\ gift.used < gift.uses /\ gift' = [gift EXCEPT !.used = @ + 1]
        /\ UNCHANGED <<spun, spinCount, wheelBudget, lottery, game, diceBudget, nextAt, throwing, thrown,
                       limits, role, agentRequest, granted, giftDay, most>>
    BY DEF Giving!redeemGift, Giving!Free, Giving!wheel, Giving!dice, Giving!agents
  <1>2. Giving!Owner(<<"gift", u>>) = u /\ GiftAmount \in Int /\ <<"gift", u>>[1] = "gift"
    BY DEF Giving!Owner, GiftConstants
  <1>3. /\ WalletInv' /\ DOMAIN events' = DOMAIN events \cup {<<"gift", u>>}
        /\ \A kind : kind # "gift" => Giving!Booked(kind)' = Giving!Booked(kind)
    BY <1>0, <1>1, <1>2, Booking
  <1>4. Giving!Booked("gift")' = Giving!Booked("gift") \cup {<<"gift", u>>} /\ <<"gift", u>> \notin Giving!Booked("gift")
    BY <1>1, <1>2, <1>3 DEF Giving!Booked
  <1>5. IsFiniteSet(Giving!Booked("gift"))
    <2>1. Giving!Booked("gift") \subseteq DOMAIN events /\ IsFiniteSet(DOMAIN events)
      BY <1>0 DEF Giving!Booked, WalletInv
    <2> QED BY <2>1, FS_Subset
  <1>6. Cardinality(Giving!Booked("gift")') = Cardinality(Giving!Booked("gift")) + 1
    BY <1>4, <1>5, FS_AddElement
  <1>7. PICK n \in Nat : n = gift.used + 1
    BY <1>0 DEF CodeInv
  <1>8. gift' = [gift EXCEPT !.used = n]
    BY <1>1, <1>7
  <1>9. DOMAIN gift' = DOMAIN gift /\ gift'.uses = gift.uses /\ gift'.used = n
    BY <1>0, <1>8 DEF CodeInv
  <1>10. n <= most.gift
    BY <1>0, <1>1, <1>7 DEF CodeInv
  <1>11. CodeInv'
    BY <1>0, <1>1, <1>6, <1>7, <1>9, <1>10 DEF CodeInv
  <1>12. RaffleInv'
    BY <1>0, <1>1, <1>3, RaffleStays
  <1>13. LimitInv' /\ WheelInv' /\ DiceInv' /\ ThrowInv' /\ AgentInv'
    BY <1>0, <1>1, LimitStays, WheelStays, DiceStays, ThrowIdle, AgentStays
  <1> QED BY <1>3, <1>11, <1>12, <1>13 DEF GiftIInv

LEMMA GiftSpins ==
  ASSUME GiftConstants, GiftIInv, NEW u \in Players, NEW play \in Plays, NEW prize \in WheelPrizes,
         Giving!spinWheel(u, play, prize)
  PROVE  GiftIInv'
  <1>0. WalletInv /\ CodeInv /\ LimitInv /\ WheelInv /\ DiceInv /\ ThrowInv /\ RaffleInv /\ AgentInv
    BY DEF GiftIInv
  <1>1. /\ throwing = <<>> /\ Giving!Book(<<"spin", u, play>>, u, prize - Fee)
        /\ <<u, play>> \notin DOMAIN spun /\ prize + wheelBudget[giftDay] <= limits.wheel
        /\ spun' = Giving!With(spun, <<u, play>>, [day |-> giftDay, prize |-> prize])
        /\ spinCount' = [spinCount EXCEPT ![u][giftDay] = @ + 1]
        /\ wheelBudget' = [wheelBudget EXCEPT ![giftDay] = @ + prize]
        /\ UNCHANGED <<gift, lottery, game, diceBudget, nextAt, throwing, thrown,
                       limits, role, agentRequest, granted, giftDay, most>>
    BY DEF Giving!spinWheel, Giving!Drawn, Giving!Free, Giving!dice, Giving!agents
  <1>2. Giving!Owner(<<"spin", u, play>>) = u /\ prize \in Nat /\ prize - Fee \in Int /\ <<"spin", u, play>>[1] = "spin"
    <2>1. <<"spin", u, play>>[1] = "spin" /\ <<"spin", u, play>>[2] = u
      OBVIOUS
    <2>2. Giving!Owner(<<"spin", u, play>>) = u
      BY <2>1 DEF Giving!Owner
    <2>3. prize \in Nat /\ Fee \in Nat
      BY DEF GiftConstants
    <2>4. prize - Fee \in Int
      BY <2>3
    <2> QED BY <2>1, <2>2, <2>3, <2>4
  <1>3. WalletInv' /\ \A kind : kind # "spin" => Giving!Booked(kind)' = Giving!Booked(kind)
    BY <1>0, <1>1, <1>2, Booking
  <1>4. CodeInv' /\ RaffleInv'
    BY <1>0, <1>1, <1>3, CodeStays, RaffleStays
  <1>5. LimitInv' /\ DiceInv' /\ ThrowInv' /\ AgentInv'
    BY <1>0, <1>1, LimitStays, DiceStays, ThrowIdle, AgentStays
  <1>6. PICK day \in Giving!Days : day = giftDay
    BY <1>0 DEF LimitInv
  <1>7. PICK key : key = <<u, play>>
    OBVIOUS
  <1>8. PICK n \in Nat : n = spinCount[u][day] + 1
    BY <1>0 DEF WheelInv
  <1>9. PICK sum \in Nat : sum = wheelBudget[day] + prize
    BY <1>0, <1>2 DEF WheelInv
  <1>10. /\ spinCount' \in [Players -> [Giving!Days -> Nat]]
         /\ \A v \in Players, d \in Giving!Days : spinCount'[v][d] = IF v = u /\ d = day THEN n ELSE spinCount[v][d]
    <2>1. spinCount' = [spinCount EXCEPT ![u][day] = n]
      BY <1>1, <1>6, <1>8
    <2>2. spinCount \in [Players -> [Giving!Days -> Nat]]
      BY <1>0 DEF WheelInv
    <2> QED BY <2>1, <2>2, TwoPlaces
  <1>11. /\ wheelBudget' \in [Giving!Days -> Nat] /\ wheelBudget'[day] = sum
         /\ \A d \in Giving!Days : d # day => wheelBudget'[d] = wheelBudget[d]
    <2>1. wheelBudget' = [wheelBudget EXCEPT ![day] = sum]
      BY <1>1, <1>6, <1>9
    <2> QED BY <1>0, <2>1 DEF WheelInv
  <1>12. /\ DOMAIN spun' = DOMAIN spun \cup {key} /\ key \notin DOMAIN spun /\ key[1] = u
         /\ spun'[key].day = day /\ spun'[key].prize = prize
         /\ \A i \in DOMAIN spun : spun'[i] = spun[i]
    BY <1>1, <1>6, <1>7 DEF Giving!With
  <1>13. IsFiniteSet(DOMAIN spun') /\ \A i \in DOMAIN spun' : spun'[i].prize \in Nat
    BY <1>0, <1>2, <1>12, FS_AddElement DEF WheelInv
  <1>14. \A d \in Giving!Days :
           /\ Giving!SpinsOf(d)' = IF d = day THEN Giving!SpinsOf(d) \cup {key} ELSE Giving!SpinsOf(d)
           /\ key \notin Giving!SpinsOf(d) /\ IsFiniteSet(Giving!SpinsOf(d))
           /\ \A i \in Giving!SpinsOf(d) : Giving!Prizes[i] \in Int /\ Giving!Prizes'[i] = Giving!Prizes[i]
    <2> SUFFICES ASSUME NEW d \in Giving!Days
                 PROVE  /\ Giving!SpinsOf(d)' = IF d = day THEN Giving!SpinsOf(d) \cup {key} ELSE Giving!SpinsOf(d)
                        /\ key \notin Giving!SpinsOf(d) /\ IsFiniteSet(Giving!SpinsOf(d))
                        /\ \A i \in Giving!SpinsOf(d) : Giving!Prizes[i] \in Int /\ Giving!Prizes'[i] = Giving!Prizes[i]
      OBVIOUS
    <2>1. Giving!SpinsOf(d) \subseteq DOMAIN spun
      BY DEF Giving!SpinsOf
    <2>2. IsFiniteSet(Giving!SpinsOf(d))
      BY <1>0, <2>1, FS_Subset DEF WheelInv
    <2>3. Giving!SpinsOf(d)' = IF d = day THEN Giving!SpinsOf(d) \cup {key} ELSE Giving!SpinsOf(d)
      BY <1>12 DEF Giving!SpinsOf
    <2>4. \A i \in Giving!SpinsOf(d) : Giving!Prizes[i] = spun[i].prize /\ Giving!Prizes'[i] = spun'[i].prize
      BY <1>12, <2>1 DEF Giving!Prizes
    <2>5. \A i \in Giving!SpinsOf(d) : spun'[i] = spun[i] /\ spun[i].prize \in Int
      BY <1>0, <1>12, <2>1 DEF WheelInv
    <2>6. \A i \in Giving!SpinsOf(d) : Giving!Prizes[i] \in Int /\ Giving!Prizes'[i] = Giving!Prizes[i]
      BY <2>4, <2>5
    <2> QED BY <1>12, <2>1, <2>2, <2>3, <2>6
  <1>15. \A d \in Giving!Days : wheelBudget'[d] = SumFunctionOnSet(Giving!Prizes', Giving!SpinsOf(d)')
    <2> SUFFICES ASSUME NEW d \in Giving!Days
                 PROVE  wheelBudget'[d] = SumFunctionOnSet(Giving!Prizes', Giving!SpinsOf(d)')
      OBVIOUS
    <2>1. wheelBudget[d] = SumFunctionOnSet(Giving!Prizes, Giving!SpinsOf(d)) /\ wheelBudget[d] \in Nat
      BY <1>0 DEF WheelInv
    <2>2. CASE d = day
      <3>1. Giving!Prizes'[key] = prize
        BY <1>12 DEF Giving!Prizes
      <3>2. SumFunctionOnSet(Giving!Prizes', Giving!SpinsOf(d) \cup {key})
              = prize + SumFunctionOnSet(Giving!Prizes, Giving!SpinsOf(d))
        <4>1. key \notin Giving!SpinsOf(d) /\ IsFiniteSet(Giving!SpinsOf(d)) /\ Giving!Prizes'[key] \in Int
          BY <1>2, <1>14, <3>1
        <4>2. \A i \in Giving!SpinsOf(d) : Giving!Prizes[i] \in Int /\ Giving!Prizes'[i] = Giving!Prizes[i]
          BY <1>14
        <4>3. SumFunctionOnSet(Giving!Prizes', Giving!SpinsOf(d) \cup {key})
                = Giving!Prizes'[key] + SumFunctionOnSet(Giving!Prizes, Giving!SpinsOf(d))
          BY <4>1, <4>2, SumGrows
        <4> QED BY <3>1, <4>3
      <3>3. Giving!SpinsOf(d)' = Giving!SpinsOf(d) \cup {key}
        BY <1>14, <2>2
      <3>4. wheelBudget'[d] = prize + wheelBudget[d]
        BY <1>2, <1>9, <1>11, <2>1, <2>2
      <3> QED BY <2>1, <3>2, <3>3, <3>4
    <2>3. CASE d # day
      <3>1. SumFunctionOnSet(Giving!Prizes, Giving!SpinsOf(d)) = SumFunctionOnSet(Giving!Prizes', Giving!SpinsOf(d))
        BY <1>14, SumAgree
      <3> QED BY <1>11, <1>14, <2>1, <2>3, <3>1
    <2> QED BY <2>2, <2>3
  <1>16. \A d \in Giving!Days, v \in Players : spinCount'[v][d] = Cardinality({i \in Giving!SpinsOf(d)' : i[1] = v})
    <2> SUFFICES ASSUME NEW d \in Giving!Days, NEW v \in Players
                 PROVE  spinCount'[v][d] = Cardinality({i \in Giving!SpinsOf(d)' : i[1] = v})
      OBVIOUS
    <2>1. PICK mine : mine = {i \in Giving!SpinsOf(d) : i[1] = v}
      OBVIOUS
    <2>2. spinCount[v][d] = Cardinality(mine) /\ IsFiniteSet(mine) /\ key \notin mine
      <3>1. mine \subseteq Giving!SpinsOf(d)
        BY <2>1
      <3> QED BY <1>0, <1>14, <2>1, <3>1, FS_Subset DEF WheelInv
    <2>3. CASE v = u /\ d = day
      <3>1. {i \in Giving!SpinsOf(d)' : i[1] = v} = mine \cup {key}
        BY <1>12, <1>14, <2>1, <2>3
      <3>2. Cardinality(mine \cup {key}) = Cardinality(mine) + 1
        BY <2>2, FS_AddElement
      <3> QED BY <1>8, <1>10, <2>2, <2>3, <3>1, <3>2
    <2>4. CASE ~(v = u /\ d = day)
      <3>1. {i \in Giving!SpinsOf(d)' : i[1] = v} = mine
        BY <1>12, <1>14, <2>1, <2>4
      <3> QED BY <1>10, <2>2, <2>4, <3>1
    <2> QED BY <2>3, <2>4
  <1>17. \A d \in Giving!Days : wheelBudget'[d] <= most.wheel
    <2>1. sum <= most.wheel
      <3>1. wheelBudget[day] \in Nat /\ limits.wheel \in Nat /\ most.wheel \in Nat /\ limits.wheel <= most.wheel
        BY <1>0 DEF WheelInv, LimitInv
      <3> QED BY <1>1, <1>2, <1>6, <1>9, <3>1
    <2> QED BY <1>0, <1>11, <2>1 DEF WheelInv
  <1>18. WheelInv'
    BY <1>1, <1>10, <1>11, <1>13, <1>15, <1>16, <1>17 DEF WheelInv
  <1> QED BY <1>3, <1>4, <1>5, <1>18 DEF GiftIInv

(* One field of a day's budget of the dice changes.                        *)
LEMMA DayOfDice ==
  ASSUME NEW b \in [Giving!Days -> [spent : Nat, reserved : Nat]], NEW d \in Giving!Days, NEW n \in Nat,
         NEW c, c = [b EXCEPT ![d].reserved = n] \/ c = [b EXCEPT ![d].spent = n]
  PROVE  /\ c \in [Giving!Days -> [spent : Nat, reserved : Nat]] /\ \A x \in Giving!Days : x # d => c[x] = b[x]
         /\ c = [b EXCEPT ![d].reserved = n] => c[d].reserved = n /\ c[d].spent = b[d].spent
         /\ c = [b EXCEPT ![d].spent = n] => c[d].spent = n /\ c[d].reserved = b[d].reserved
  <1>1. CASE c = [b EXCEPT ![d].reserved = n]
    <2>1. PICK row : row = [b[d] EXCEPT !.reserved = n]
      OBVIOUS
    <2>2. row \in [spent : Nat, reserved : Nat] /\ row.reserved = n /\ row.spent = b[d].spent
      BY <2>1
    <2>3. c = [b EXCEPT ![d] = row]
      BY <1>1, <2>1
    <2>4. c \in [Giving!Days -> [spent : Nat, reserved : Nat]] /\ c[d] = row /\ \A x \in Giving!Days : x # d => c[x] = b[x]
      BY <2>2, <2>3
    <2>5. c = [b EXCEPT ![d].spent = n] => c[d].spent = n /\ c[d].reserved = b[d].reserved
      <3>1. ASSUME c = [b EXCEPT ![d].spent = n] PROVE c[d].spent = n /\ c[d].reserved = b[d].reserved
        <4>1. PICK other : other = [b[d] EXCEPT !.spent = n]
          OBVIOUS
        <4>2. c = [b EXCEPT ![d] = other] /\ b[d] \in [spent : Nat, reserved : Nat]
          BY <3>1, <4>1
        <4>3. c[d] = other
          BY <4>2
        <4> QED BY <4>1, <4>2, <4>3
      <3> QED BY <3>1
    <2> QED BY <2>2, <2>4, <2>5
  <1>2. CASE c = [b EXCEPT ![d].spent = n]
    <2>1. PICK row : row = [b[d] EXCEPT !.spent = n]
      OBVIOUS
    <2>2. row \in [spent : Nat, reserved : Nat] /\ row.spent = n /\ row.reserved = b[d].reserved
      BY <2>1
    <2>3. c = [b EXCEPT ![d] = row]
      BY <1>2, <2>1
    <2>4. c \in [Giving!Days -> [spent : Nat, reserved : Nat]] /\ c[d] = row /\ \A x \in Giving!Days : x # d => c[x] = b[x]
      BY <2>2, <2>3
    <2>5. c = [b EXCEPT ![d].reserved = n] => c[d].reserved = n /\ c[d].spent = b[d].spent
      <3>1. ASSUME c = [b EXCEPT ![d].reserved = n] PROVE c[d].reserved = n /\ c[d].spent = b[d].spent
        <4>1. PICK other : other = [b[d] EXCEPT !.reserved = n]
          OBVIOUS
        <4>2. c = [b EXCEPT ![d] = other] /\ b[d] \in [spent : Nat, reserved : Nat]
          BY <3>1, <4>1
        <4>3. c[d] = other
          BY <4>2
        <4> QED BY <4>1, <4>2, <4>3
      <3> QED BY <3>1
    <2> QED BY <2>2, <2>4, <2>5
  <1> QED BY <1>1, <1>2

(* The games of a day are finite, with their holds and amounts.            *)
LEMMA GamesFinite ==
  ASSUME DiceInv, NEW d \in Giving!Days
  PROVE  /\ IsFiniteSet(Giving!GamesOf(d)) /\ Giving!GamesOf(d) \subseteq DOMAIN game
         /\ \A i \in Giving!GamesOf(d) :
              /\ game[i].day = d /\ Giving!Held[i] = game[i].held /\ Giving!Amounts[i] = game[i].amount
              /\ game[i].held \in Nat /\ game[i].amount \in Nat
  <1>1. Giving!GamesOf(d) \subseteq DOMAIN game
    BY DEF Giving!GamesOf
  <1>2. IsFiniteSet(Giving!GamesOf(d))
    BY <1>1, FS_Subset DEF DiceInv
  <1> QED BY <1>1, <1>2 DEF DiceInv, Giving!GamesOf, Giving!Held, Giving!Amounts, Game

LEMMA GiftPlays ==
  ASSUME GiftConstants, GiftIInv, NEW u \in Players, NEW play \in Plays, Giving!playDice(u, play)
  PROVE  GiftIInv'
  <1>0. WalletInv /\ CodeInv /\ LimitInv /\ WheelInv /\ DiceInv /\ ThrowInv /\ RaffleInv /\ AgentInv
    BY DEF GiftIInv
  <1>a. PICK key \in Giving!Ids : key = <<u, play>>
    BY DEF Giving!Ids
  <1>b. PICK day \in Giving!Days : day = giftDay
    BY <1>0 DEF LimitInv
  <1>c. PICK new : new = [status |-> "rolling", day |-> day, held |-> DicePrize, amount |-> 0]
    OBVIOUS
  <1>1. /\ throwing = <<>> /\ key \notin DOMAIN game /\ purse[u] + DicePrize <= MaxMoney /\ nextAt[u] <= day
        /\ diceBudget[day].spent + diceBudget[day].reserved + DicePrize <= limits.dice
        /\ game' = Giving!With(game, key, new)
        /\ diceBudget' = [diceBudget EXCEPT ![day].reserved = @ + DicePrize]
        /\ throwing' = [id |-> key, nextAt |-> nextAt[u]] /\ nextAt' = [nextAt EXCEPT ![u] = day + 1]
        /\ UNCHANGED <<purse, events, gift, spun, spinCount, wheelBudget, lottery, limits, role, agentRequest, granted,
                       giftDay, most, thrown>>
    BY <1>a, <1>b, <1>c
       DEF Giving!playDice, Giving!Free, Giving!winnings, Giving!wheel, Giving!agents
  <1>2. WalletInv' /\ CodeInv' /\ LimitInv' /\ WheelInv' /\ RaffleInv' /\ AgentInv'
    BY <1>0, <1>1, WalletStays, CodeStays, LimitStays, WheelStays, RaffleStays, AgentStays, BookedStays
  <1>3. DicePrize \in Nat /\ day \in Nat /\ new \in Game /\ key[1] = u
    BY <1>a, <1>c DEF GiftConstants, Giving!Days, Game
  <1>4. /\ DOMAIN game' = DOMAIN game \cup {key} /\ game'[key] = new /\ \A i \in DOMAIN game : game'[i] = game[i]
    BY <1>1 DEF Giving!With
  <1>5. /\ IsFiniteSet(DOMAIN game') /\ DOMAIN game' \subseteq Giving!Ids
        /\ \A id \in DOMAIN game' :
             /\ game'[id] \in Game
             /\ game'[id].status = "rolling" => game'[id].held = DicePrize /\ game'[id].amount = 0
    BY <1>0, <1>3, <1>4, <1>c, FS_AddElement DEF DiceInv
  <1>6. PICK n \in Nat : n = diceBudget[day].reserved + DicePrize
    BY <1>0, <1>3 DEF DiceInv
  <1>7. /\ diceBudget' \in [Giving!Days -> [spent : Nat, reserved : Nat]]
        /\ diceBudget'[day].reserved = n /\ diceBudget'[day].spent = diceBudget[day].spent
        /\ \A d \in Giving!Days : d # day => diceBudget'[d] = diceBudget[d]
    <2>1. diceBudget' = [diceBudget EXCEPT ![day].reserved = n]
      BY <1>1, <1>6
    <2>2. diceBudget \in [Giving!Days -> [spent : Nat, reserved : Nat]]
      BY <1>0 DEF DiceInv
    <2> QED BY <2>1, <2>2, DayOfDice
  <1>8. \A d \in Giving!Days :
          /\ Giving!GamesOf(d)' = IF d = day THEN Giving!GamesOf(d) \cup {key} ELSE Giving!GamesOf(d)
          /\ key \notin Giving!GamesOf(d)
          /\ \A i \in Giving!GamesOf(d) : /\ Giving!Held[i] \in Int /\ Giving!Held'[i] = Giving!Held[i]
                                         /\ Giving!Amounts[i] \in Int /\ Giving!Amounts'[i] = Giving!Amounts[i]
    <2> SUFFICES ASSUME NEW d \in Giving!Days
                 PROVE  /\ Giving!GamesOf(d)' = IF d = day THEN Giving!GamesOf(d) \cup {key} ELSE Giving!GamesOf(d)
                        /\ key \notin Giving!GamesOf(d)
                        /\ \A i \in Giving!GamesOf(d) : /\ Giving!Held[i] \in Int /\ Giving!Held'[i] = Giving!Held[i]
                                                       /\ Giving!Amounts[i] \in Int /\ Giving!Amounts'[i] = Giving!Amounts[i]
      OBVIOUS
    <2>1. /\ Giving!GamesOf(d) \subseteq DOMAIN game
          /\ \A i \in Giving!GamesOf(d) : Giving!Held[i] = game[i].held /\ Giving!Amounts[i] = game[i].amount
                                          /\ game[i].held \in Nat /\ game[i].amount \in Nat
      BY <1>0, GamesFinite
    <2>2. Giving!GamesOf(d)' = IF d = day THEN Giving!GamesOf(d) \cup {key} ELSE Giving!GamesOf(d)
      BY <1>1, <1>4, <1>c DEF Giving!GamesOf
    <2>3. \A i \in Giving!GamesOf(d) : Giving!Held'[i] = game'[i].held /\ Giving!Amounts'[i] = game'[i].amount
      BY <1>4, <2>1 DEF Giving!Held, Giving!Amounts
    <2>4. \A i \in Giving!GamesOf(d) : game'[i] = game[i]
      BY <1>4, <2>1
    <2> QED BY <1>1, <2>1, <2>2, <2>3, <2>4
  <1>9. Giving!Held'[key] = DicePrize /\ Giving!Amounts'[key] = 0
    BY <1>4, <1>c DEF Giving!Held, Giving!Amounts
  <1>10. \A d \in Giving!Days :
           /\ diceBudget'[d].spent = SumFunctionOnSet(Giving!Amounts', Giving!GamesOf(d)')
           /\ diceBudget'[d].reserved = SumFunctionOnSet(Giving!Held', Giving!GamesOf(d)')
    <2> SUFFICES ASSUME NEW d \in Giving!Days
                 PROVE  /\ diceBudget'[d].spent = SumFunctionOnSet(Giving!Amounts', Giving!GamesOf(d)')
                        /\ diceBudget'[d].reserved = SumFunctionOnSet(Giving!Held', Giving!GamesOf(d)')
      OBVIOUS
    <2>1. /\ diceBudget[d].spent = SumFunctionOnSet(Giving!Amounts, Giving!GamesOf(d)) /\ diceBudget[d].spent \in Nat
          /\ diceBudget[d].reserved = SumFunctionOnSet(Giving!Held, Giving!GamesOf(d)) /\ diceBudget[d].reserved \in Nat
      BY <1>0 DEF DiceInv
    <2>2. IsFiniteSet(Giving!GamesOf(d))
      BY <1>0, GamesFinite
    <2>3. CASE d = day
      <3>0. key \notin Giving!GamesOf(d) /\ Giving!GamesOf(d)' = Giving!GamesOf(d) \cup {key}
        BY <1>8, <2>3
      <3>1. SumFunctionOnSet(Giving!Amounts', Giving!GamesOf(d) \cup {key})
              = Giving!Amounts'[key] + SumFunctionOnSet(Giving!Amounts, Giving!GamesOf(d))
        <4>1. \A i \in Giving!GamesOf(d) : Giving!Amounts[i] \in Int /\ Giving!Amounts'[i] = Giving!Amounts[i]
          BY <1>8
        <4>2. Giving!Amounts'[key] \in Int
          BY <1>9
        <4> QED BY <2>2, <3>0, <4>1, <4>2, SumGrows
      <3>2. SumFunctionOnSet(Giving!Held', Giving!GamesOf(d) \cup {key})
              = Giving!Held'[key] + SumFunctionOnSet(Giving!Held, Giving!GamesOf(d))
        <4>1. \A i \in Giving!GamesOf(d) : Giving!Held[i] \in Int /\ Giving!Held'[i] = Giving!Held[i]
          BY <1>8
        <4>2. Giving!Held'[key] \in Int
          BY <1>3, <1>9
        <4> QED BY <2>2, <3>0, <4>1, <4>2, SumGrows
      <3>3. diceBudget'[d].reserved = DicePrize + diceBudget[d].reserved /\ diceBudget'[d].spent = 0 + diceBudget[d].spent
        BY <1>3, <1>6, <1>7, <2>1, <2>3
      <3> QED BY <1>9, <2>1, <3>0, <3>1, <3>2, <3>3
    <2>4. CASE d # day
      <3>1. SumFunctionOnSet(Giving!Amounts, Giving!GamesOf(d)) = SumFunctionOnSet(Giving!Amounts', Giving!GamesOf(d))
        BY <1>8, <2>2, SumAgree
      <3>2. SumFunctionOnSet(Giving!Held, Giving!GamesOf(d)) = SumFunctionOnSet(Giving!Held', Giving!GamesOf(d))
        BY <1>8, <2>2, SumAgree
      <3> QED BY <1>7, <1>8, <2>1, <2>4, <3>1, <3>2
    <2> QED BY <2>3, <2>4
  <1>11. \A d \in Giving!Days : diceBudget'[d].spent + diceBudget'[d].reserved <= most.dice
    <2>1. diceBudget[day].spent \in Nat /\ diceBudget[day].reserved \in Nat /\ limits.dice \in Nat /\ most.dice \in Nat
          /\ limits.dice <= most.dice
      BY <1>0 DEF DiceInv, LimitInv
    <2>2. diceBudget[day].spent + n <= most.dice
      BY <1>1, <1>3, <1>6, <2>1
    <2> QED BY <1>0, <1>7, <2>2 DEF DiceInv
  <1>12. DiceInv'
    BY <1>1, <1>5, <1>7, <1>10, <1>11 DEF DiceInv
  <1>13. PICK tomorrow \in Nat : tomorrow = day + 1
    BY <1>3
  <1>14. /\ nextAt' \in [Players -> Nat] /\ nextAt'[u] = tomorrow /\ \A v \in Players : v # u => nextAt'[v] = nextAt[v]
    BY <1>0, <1>1, <1>13 DEF ThrowInv
  <1>15. throwing'.id = key /\ throwing'.nextAt = nextAt[u] /\ nextAt[u] \in Nat
    BY <1>0, <1>1 DEF ThrowInv
  <1>16. \A d \in Giving!Days : thrown[u][d] # 0 => nextAt[u] > d /\ tomorrow > d
    <2>1. \A d \in Giving!Days : d \in Nat
      BY DEF Giving!Days
    <2> QED BY <1>0, <1>1, <1>3, <1>13, <1>15, <2>1 DEF ThrowInv
  <1>17. Giving!Bookable(u, DicePrize)'
    <2>1. purse'[u] + DicePrize <= MaxMoney /\ ~(DicePrize < 0)
      BY <1>1, <1>3
    <2> QED BY <2>1 DEF Giving!Bookable
  <1>18. ThrowInv'
    <2>1. \A v \in Players, d \in Giving!Days : thrown'[v][d] <= 1 /\ (thrown'[v][d] # 0 => nextAt'[v] > d)
      BY <1>0, <1>1, <1>14, <1>16 DEF ThrowInv
    <2>2. /\ throwing'.id \in DOMAIN game' /\ throwing'.id[1] \in Players /\ game'[throwing'.id].status = "rolling"
          /\ Giving!Bookable(throwing.id[1], DicePrize)'
          /\ throwing'.nextAt \in Nat /\ throwing'.nextAt <= game'[throwing'.id].day
          /\ nextAt'[throwing'.id[1]] > game'[throwing'.id].day
          /\ \A d \in Giving!Days : thrown'[throwing'.id[1]][d] # 0 => throwing'.nextAt > d
      <3>1. game'[key].status = "rolling" /\ game'[key].day = day /\ tomorrow > day
        BY <1>3, <1>4, <1>13, <1>c
      <3>2. Giving!Bookable(throwing.id[1], DicePrize)'
        BY <1>3, <1>15, <1>17 DEF Giving!Bookable
      <3> QED BY <1>1, <1>3, <1>4, <1>14, <1>15, <1>16, <3>1, <3>2
    <2>3. thrown' \in [Players -> [Giving!Days -> Nat]]
      BY <1>0, <1>1 DEF ThrowInv
    <2> QED BY <1>14, <2>1, <2>2, <2>3 DEF ThrowInv
  <1> QED BY <1>2, <1>12, <1>18 DEF GiftIInv

(* A game that ends gives back what it held, and may have won its prize.   *)
LEMMA GameEnds ==
  ASSUME GiftConstants, DiceInv, NEW id \in DOMAIN game, game[id].status = "rolling",
         NEW status \in {"done", "review", "failed"}, NEW amount \in Nat, Giving!Ended(id, status, amount)
  PROVE  /\ IsFiniteSet(DOMAIN game') /\ DOMAIN game' = DOMAIN game /\ game[id].day \in Giving!Days
         /\ \A i \in DOMAIN game' :
              /\ game'[i] \in Game
              /\ game'[i].status = "rolling" => game'[i].held = DicePrize /\ game'[i].amount = 0
         /\ \A d \in Giving!Days : Giving!GamesOf(d)' = Giving!GamesOf(d)
         /\ \A d \in Giving!Days : d # game[id].day =>
              /\ SumFunctionOnSet(Giving!Held', Giving!GamesOf(d)) = SumFunctionOnSet(Giving!Held, Giving!GamesOf(d))
              /\ SumFunctionOnSet(Giving!Amounts', Giving!GamesOf(d)) = SumFunctionOnSet(Giving!Amounts, Giving!GamesOf(d))
         /\ SumFunctionOnSet(Giving!Held', Giving!GamesOf(game[id].day))
              = SumFunctionOnSet(Giving!Held, Giving!GamesOf(game[id].day)) + (0 - DicePrize)
         /\ SumFunctionOnSet(Giving!Amounts', Giving!GamesOf(game[id].day))
              = SumFunctionOnSet(Giving!Amounts, Giving!GamesOf(game[id].day)) + (amount - 0)
         /\ SumFunctionOnSet(Giving!Held, Giving!GamesOf(game[id].day)) >= DicePrize
  <1>1. DicePrize \in Nat /\ game[id] \in Game /\ game[id].held = DicePrize /\ game[id].amount = 0
    BY DEF GiftConstants, DiceInv
  <1>2. PICK day \in Giving!Days : day = game[id].day
    BY <1>1 DEF Game
  <1>3. PICK over : over = [[[game[id] EXCEPT !.status = status] EXCEPT !.held = 0] EXCEPT !.amount = amount]
    OBVIOUS
  <1>4. over \in Game /\ over.day = day /\ over.held = 0 /\ over.amount = amount /\ over.status = status
    BY <1>1, <1>2, <1>3 DEF Game
  <1>5. game' = [game EXCEPT ![id] = over]
    <2>1. game' = [[[game EXCEPT ![id].status = status] EXCEPT ![id].held = 0] EXCEPT ![id].amount = amount]
      BY DEF Giving!Ended
    <2>2. PICK one : one = [game[id] EXCEPT !.status = status]
      OBVIOUS
    <2>3. PICK g : g = [game EXCEPT ![id] = one]
      OBVIOUS
    <2>4. g[id] = one
      BY <2>3
    <2>5. PICK two : two = [one EXCEPT !.held = 0]
      OBVIOUS
    <2>6. PICK h : h = [g EXCEPT ![id] = two]
      OBVIOUS
    <2>7. h[id] = two
      BY <2>3, <2>6
    <2>8. over = [two EXCEPT !.amount = amount]
      BY <1>3, <2>2, <2>5
    <2>9. game' = [h EXCEPT ![id] = over]
      BY <2>1, <2>2, <2>3, <2>4, <2>5, <2>6, <2>7, <2>8
    <2>10. [h EXCEPT ![id] = over] = [game EXCEPT ![id] = over]
      BY <2>3, <2>6
    <2> QED BY <2>9, <2>10
  <1>6. DOMAIN game' = DOMAIN game /\ game'[id] = over /\ \A i \in DOMAIN game : i # id => game'[i] = game[i]
    BY <1>5
  <1>7. \A d \in Giving!Days : Giving!GamesOf(d)' = Giving!GamesOf(d)
    BY <1>2, <1>4, <1>6 DEF Giving!GamesOf
  <1>8. \A d \in Giving!Days :
          /\ IsFiniteSet(Giving!GamesOf(d))
          /\ \A i \in Giving!GamesOf(d) :
               /\ Giving!Held[i] \in Int /\ Giving!Held'[i] \in Int /\ (i # id => Giving!Held'[i] = Giving!Held[i])
               /\ Giving!Amounts[i] \in Int /\ Giving!Amounts'[i] \in Int /\ (i # id => Giving!Amounts'[i] = Giving!Amounts[i])
               /\ Giving!Held[i] \in Nat /\ i \in DOMAIN game /\ game[i].day = d
    <2> SUFFICES ASSUME NEW d \in Giving!Days
                 PROVE  /\ IsFiniteSet(Giving!GamesOf(d))
                        /\ \A i \in Giving!GamesOf(d) :
                             /\ Giving!Held[i] \in Int /\ Giving!Held'[i] \in Int /\ (i # id => Giving!Held'[i] = Giving!Held[i])
                             /\ Giving!Amounts[i] \in Int /\ Giving!Amounts'[i] \in Int
                             /\ (i # id => Giving!Amounts'[i] = Giving!Amounts[i])
                             /\ Giving!Held[i] \in Nat /\ i \in DOMAIN game /\ game[i].day = d
      OBVIOUS
    <2>1. IsFiniteSet(Giving!GamesOf(d))
      BY GamesFinite
    <2> SUFFICES ASSUME NEW i \in Giving!GamesOf(d)
                 PROVE  /\ Giving!Held[i] \in Int /\ Giving!Held'[i] \in Int /\ (i # id => Giving!Held'[i] = Giving!Held[i])
                        /\ Giving!Amounts[i] \in Int /\ Giving!Amounts'[i] \in Int
                        /\ (i # id => Giving!Amounts'[i] = Giving!Amounts[i])
                        /\ Giving!Held[i] \in Nat /\ i \in DOMAIN game /\ game[i].day = d
      BY <2>1
    <2>2. /\ i \in DOMAIN game /\ game[i].day = d /\ Giving!Held[i] = game[i].held /\ Giving!Amounts[i] = game[i].amount
          /\ game[i].held \in Nat /\ game[i].amount \in Nat
      BY GamesFinite
    <2>3. Giving!Held'[i] = game'[i].held /\ Giving!Amounts'[i] = game'[i].amount
      BY <1>6, <2>2 DEF Giving!Held, Giving!Amounts
    <2>4. game'[i].held \in Nat /\ game'[i].amount \in Nat
      BY <1>4, <1>6, <2>2
    <2> QED BY <1>6, <2>2, <2>3, <2>4
  <1>9. id \in Giving!GamesOf(day) /\ Giving!Held[id] = DicePrize /\ Giving!Amounts[id] = 0
        /\ Giving!Held'[id] = 0 /\ Giving!Amounts'[id] = amount
    BY <1>1, <1>2, <1>4, <1>6 DEF Giving!GamesOf, Giving!Held, Giving!Amounts
  <1>10. ASSUME NEW d \in Giving!Days, d # day
         PROVE  /\ SumFunctionOnSet(Giving!Held', Giving!GamesOf(d)) = SumFunctionOnSet(Giving!Held, Giving!GamesOf(d))
                /\ SumFunctionOnSet(Giving!Amounts', Giving!GamesOf(d)) = SumFunctionOnSet(Giving!Amounts, Giving!GamesOf(d))
    <2>1. id \notin Giving!GamesOf(d)
      BY <1>2, <1>10 DEF Giving!GamesOf
    <2>2. IsFiniteSet(Giving!GamesOf(d))
      BY <1>8
    <2>3. \A i \in Giving!GamesOf(d) : Giving!Held'[i] = Giving!Held[i] /\ Giving!Amounts'[i] = Giving!Amounts[i]
      BY <1>8, <2>1
    <2>4. SumFunctionOnSet(Giving!Held', Giving!GamesOf(d)) = SumFunctionOnSet(Giving!Held, Giving!GamesOf(d))
      BY <2>2, <2>3, SumAgree
    <2>5. SumFunctionOnSet(Giving!Amounts', Giving!GamesOf(d)) = SumFunctionOnSet(Giving!Amounts, Giving!GamesOf(d))
      BY <2>2, <2>3, SumAgree
    <2> QED BY <2>4, <2>5
  <1>11. SumFunctionOnSet(Giving!Held', Giving!GamesOf(day)) = SumFunctionOnSet(Giving!Held, Giving!GamesOf(day)) + (0 - DicePrize)
    <2>1. \A i \in Giving!GamesOf(day) : Giving!Held[i] \in Int /\ Giving!Held'[i] \in Int
      BY <1>8
    <2>2. \A i \in Giving!GamesOf(day) \ {id} : Giving!Held[i] = Giving!Held'[i]
      BY <1>8
    <2>3. IsFiniteSet(Giving!GamesOf(day))
      BY <1>8
    <2>4. SumFunctionOnSet(Giving!Held', Giving!GamesOf(day))
            = SumFunctionOnSet(Giving!Held, Giving!GamesOf(day)) + (Giving!Held'[id] - Giving!Held[id])
      BY <1>9, <2>1, <2>2, <2>3, SumChange
    <2> QED BY <1>9, <2>4
  <1>12. SumFunctionOnSet(Giving!Amounts', Giving!GamesOf(day)) = SumFunctionOnSet(Giving!Amounts, Giving!GamesOf(day)) + (amount - 0)
    <2>1. \A i \in Giving!GamesOf(day) : Giving!Amounts[i] \in Int /\ Giving!Amounts'[i] \in Int
      BY <1>8
    <2>2. \A i \in Giving!GamesOf(day) \ {id} : Giving!Amounts[i] = Giving!Amounts'[i]
      BY <1>8
    <2>3. IsFiniteSet(Giving!GamesOf(day))
      BY <1>8
    <2>4. SumFunctionOnSet(Giving!Amounts', Giving!GamesOf(day))
            = SumFunctionOnSet(Giving!Amounts, Giving!GamesOf(day)) + (Giving!Amounts'[id] - Giving!Amounts[id])
      <3>1. id \in Giving!GamesOf(day)
        BY <1>9
      <3>2. \A i \in Giving!GamesOf(day) : Giving!Amounts[i] \in Int /\ Giving!Amounts'[i] \in Int
        BY <2>1
      <3> QED BY <2>2, <2>3, <3>1, <3>2, SumChange
    <2> QED BY <1>9, <2>4
  <1>13. SumFunctionOnSet(Giving!Held, Giving!GamesOf(day)) >= DicePrize
    <2>1. IsFiniteSet(Giving!GamesOf(day)) /\ \A i \in Giving!GamesOf(day) : Giving!Held[i] \in Int
      BY <1>8
    <2>2. SumFunctionOnSet(Giving!Held, Giving!GamesOf(day))
            = Giving!Held[id] + SumFunctionOnSet(Giving!Held, Giving!GamesOf(day) \ {id})
      BY <1>9, <2>1, SumWithout
    <2>3. IsFiniteSet(Giving!GamesOf(day) \ {id}) /\ \A i \in Giving!GamesOf(day) \ {id} : Giving!Held[i] \in Nat
      BY <1>8, <2>1, FS_Subset
    <2>4. SumFunctionOnSet(Giving!Held, Giving!GamesOf(day) \ {id}) \in Nat
      BY <2>3, SumNat
    <2> QED BY <1>1, <1>9, <2>2, <2>4
  <1>14. \A i \in DOMAIN game' :
           /\ game'[i] \in Game
           /\ game'[i].status = "rolling" => game'[i].held = DicePrize /\ game'[i].amount = 0
    BY <1>4, <1>6 DEF DiceInv
  <1>15. IsFiniteSet(DOMAIN game')
    BY <1>6 DEF DiceInv
  <1>16. \A d \in Giving!Days : d # game[id].day =>
              /\ SumFunctionOnSet(Giving!Held', Giving!GamesOf(d)) = SumFunctionOnSet(Giving!Held, Giving!GamesOf(d))
              /\ SumFunctionOnSet(Giving!Amounts', Giving!GamesOf(d)) = SumFunctionOnSet(Giving!Amounts, Giving!GamesOf(d))
    BY <1>2, <1>10
  <1> QED BY <1>2, <1>6, <1>7, <1>11, <1>12, <1>13, <1>14, <1>15, <1>16

LEMMA DiceEnds ==
  ASSUME GiftConstants, DiceInv, NEW id \in DOMAIN game, game[id].status = "rolling", UNCHANGED most, most.dice \in Nat,
         NEW status \in {"done", "review", "failed"}, NEW amount \in {0, DicePrize}, Giving!Ended(id, status, amount),
         \/ amount = 0 /\ diceBudget' = Giving!Unreserved(id)
         \/ diceBudget' = [Giving!Unreserved(id) EXCEPT ![game[id].day].spent = @ + amount]
  PROVE  DiceInv'
  <1>1. DicePrize \in Nat /\ amount \in Nat /\ amount <= DicePrize /\ game[id].held = DicePrize
    BY DEF GiftConstants, DiceInv
  <1>2. /\ IsFiniteSet(DOMAIN game') /\ DOMAIN game' = DOMAIN game /\ game[id].day \in Giving!Days
        /\ \A i \in DOMAIN game' :
             /\ game'[i] \in Game
             /\ game'[i].status = "rolling" => game'[i].held = DicePrize /\ game'[i].amount = 0
        /\ \A d \in Giving!Days : Giving!GamesOf(d)' = Giving!GamesOf(d)
        /\ \A d \in Giving!Days : d # game[id].day =>
             /\ SumFunctionOnSet(Giving!Held', Giving!GamesOf(d)) = SumFunctionOnSet(Giving!Held, Giving!GamesOf(d))
             /\ SumFunctionOnSet(Giving!Amounts', Giving!GamesOf(d)) = SumFunctionOnSet(Giving!Amounts, Giving!GamesOf(d))
        /\ SumFunctionOnSet(Giving!Held', Giving!GamesOf(game[id].day))
             = SumFunctionOnSet(Giving!Held, Giving!GamesOf(game[id].day)) + (0 - DicePrize)
        /\ SumFunctionOnSet(Giving!Amounts', Giving!GamesOf(game[id].day))
             = SumFunctionOnSet(Giving!Amounts, Giving!GamesOf(game[id].day)) + (amount - 0)
        /\ SumFunctionOnSet(Giving!Held, Giving!GamesOf(game[id].day)) >= DicePrize
    BY <1>1, GameEnds
  <1>3. PICK day \in Giving!Days : day = game[id].day
    BY <1>2
  <1>4. /\ diceBudget \in [Giving!Days -> [spent : Nat, reserved : Nat]]
        /\ \A d \in Giving!Days :
             /\ diceBudget[d].spent = SumFunctionOnSet(Giving!Amounts, Giving!GamesOf(d))
             /\ diceBudget[d].reserved = SumFunctionOnSet(Giving!Held, Giving!GamesOf(d))
             /\ diceBudget[d].spent + diceBudget[d].reserved <= most.dice
             /\ diceBudget[d].spent \in Nat /\ diceBudget[d].reserved \in Nat
    BY DEF DiceInv
  <1>5. diceBudget[day].reserved >= DicePrize
    BY <1>2, <1>3, <1>4
  <1>6. PICK n \in Nat : n = diceBudget[day].reserved - DicePrize
    BY <1>1, <1>4, <1>5
  <1>7. Giving!Max({0, n}) = n
    <2>1. Giving!Max({0, n}) \in {0, n} /\ n <= Giving!Max({0, n})
      <3>1. IsFiniteSet({0, n}) /\ {0, n} \subseteq Nat /\ {0, n} # {}
        <4>1. IsFiniteSet({0} \cup {n})
          BY FS_Singleton, FS_Union
        <4>2. {0, n} = {0} \cup {n}
          OBVIOUS
        <4> QED BY <4>1, <4>2
      <3> QED BY <3>1, GiftMax
    <2> QED BY <2>1
  <1>8. PICK kept : kept = [diceBudget EXCEPT ![day].reserved = n]
    OBVIOUS
  <1>9. Giving!Unreserved(id) = kept
    <2>1. Giving!Unreserved(id) = [diceBudget EXCEPT ![day].reserved = Giving!Max({0, diceBudget[day].reserved - DicePrize})]
      BY <1>1, <1>3 DEF Giving!Unreserved
    <2> QED BY <1>6, <1>7, <1>8, <2>1
  <1>10. /\ kept \in [Giving!Days -> [spent : Nat, reserved : Nat]] /\ \A d \in Giving!Days : d # day => kept[d] = diceBudget[d]
         /\ kept[day].reserved = n /\ kept[day].spent = diceBudget[day].spent
    BY <1>4, <1>8, DayOfDice
  <1>11. PICK s \in Nat : s = diceBudget[day].spent + amount
    BY <1>1, <1>4
  <1>12. /\ diceBudget' \in [Giving!Days -> [spent : Nat, reserved : Nat]]
         /\ \A d \in Giving!Days : d # day => diceBudget'[d] = diceBudget[d]
         /\ diceBudget'[day].reserved = n /\ diceBudget'[day].spent = s
    <2>1. CASE amount = 0 /\ diceBudget' = kept
      <3>1. s = diceBudget[day].spent
        BY <1>4, <1>11, <2>1
      <3> QED BY <1>10, <2>1, <3>1
    <2>2. CASE diceBudget' = [kept EXCEPT ![day].spent = @ + amount]
      <3>1. diceBudget' = [kept EXCEPT ![day].spent = s]
        BY <1>10, <1>11, <2>2
      <3>2. /\ diceBudget' \in [Giving!Days -> [spent : Nat, reserved : Nat]]
            /\ \A d \in Giving!Days : d # day => diceBudget'[d] = kept[d]
            /\ diceBudget'[day].spent = s /\ diceBudget'[day].reserved = kept[day].reserved
        BY <1>10, <3>1, DayOfDice
      <3> QED BY <1>10, <3>2
    <2> QED BY <1>3, <1>9, <2>1, <2>2
  <1>13. s + n <= most.dice
    <2>1. diceBudget[day].spent + diceBudget[day].reserved <= most.dice /\ diceBudget[day].spent \in Nat
          /\ diceBudget[day].reserved \in Nat
      BY <1>4
    <2> QED BY <1>1, <1>6, <1>11, <2>1
  <1>14. \A d \in Giving!Days :
           /\ diceBudget'[d].spent = SumFunctionOnSet(Giving!Amounts', Giving!GamesOf(d)')
           /\ diceBudget'[d].reserved = SumFunctionOnSet(Giving!Held', Giving!GamesOf(d)')
           /\ diceBudget'[d].spent + diceBudget'[d].reserved <= most'.dice
    <2> SUFFICES ASSUME NEW d \in Giving!Days
                 PROVE  /\ diceBudget'[d].spent = SumFunctionOnSet(Giving!Amounts', Giving!GamesOf(d)')
                        /\ diceBudget'[d].reserved = SumFunctionOnSet(Giving!Held', Giving!GamesOf(d)')
                        /\ diceBudget'[d].spent + diceBudget'[d].reserved <= most'.dice
      OBVIOUS
    <2>1. CASE d = day
      <3>1. n = diceBudget[day].reserved + (0 - DicePrize) /\ s = diceBudget[day].spent + (amount - 0)
        BY <1>1, <1>4, <1>6, <1>11
      <3> QED BY <1>2, <1>3, <1>4, <1>12, <1>13, <2>1, <3>1
    <2>2. CASE d # day
      BY <1>2, <1>3, <1>4, <1>12, <2>2
    <2> QED BY <2>1, <2>2
  <1> QED BY <1>2, <1>12, <1>14 DEF DiceInv

(* A throw that ends leaves no second one that day.                        *)
LEMMA ThrowEnds ==
  ASSUME DiceInv, ThrowInv, throwing # <<>>, throwing' = <<>>, NEW n \in {0, 1}, Giving!ThrownAt(throwing.id, n),
         \/ UNCHANGED nextAt
         \/ n = 0 /\ nextAt' = [nextAt EXCEPT ![throwing.id[1]] = throwing.nextAt]
  PROVE  ThrowInv'
  <1>1. PICK u \in Players : u = throwing.id[1]
    BY DEF ThrowInv
  <1>2. PICK day \in Giving!Days : day = game[throwing.id].day
    <2>1. throwing.id \in DOMAIN game
      BY DEF ThrowInv
    <2> QED BY <2>1 DEF DiceInv, Game
  <1>3. day \in Nat /\ \A d \in Giving!Days : d \in Nat
    BY DEF Giving!Days
  <1>4. PICK last \in Nat : last = throwing.nextAt
    BY DEF ThrowInv
  <1>5. /\ last <= day /\ nextAt[u] > day /\ \A d \in Giving!Days : thrown[u][d] # 0 => last > d
        /\ nextAt \in [Players -> Nat] /\ thrown \in [Players -> [Giving!Days -> Nat]]
        /\ \A v \in Players, d \in Giving!Days : thrown[v][d] <= 1 /\ (thrown[v][d] # 0 => nextAt[v] > d)
    BY <1>1, <1>2, <1>4 DEF ThrowInv
  <1>6. thrown[u][day] = 0
    BY <1>3, <1>5
  <1>7. /\ thrown' \in [Players -> [Giving!Days -> Nat]]
        /\ \A v \in Players, d \in Giving!Days : thrown'[v][d] = IF v = u /\ d = day THEN n ELSE thrown[v][d]
    <2>1. thrown' = [thrown EXCEPT ![u][day] = n]
      <3>1. thrown' = [thrown EXCEPT ![u][day] = thrown[u][day] + n]
        BY <1>1, <1>2, <1>5 DEF Giving!ThrownAt
      <3>2. thrown[u][day] + n = n
        BY <1>6
      <3> QED BY <3>1, <3>2
    <2> QED BY <1>5, <2>1, TwoPlaces
  <1>8. nextAt' \in [Players -> Nat] /\ \A v \in Players : v # u => nextAt'[v] = nextAt[v]
    BY <1>1, <1>4, <1>5
  <1>9. \A v \in Players, d \in Giving!Days : thrown'[v][d] <= 1 /\ (thrown'[v][d] # 0 => nextAt'[v] > d)
    <2> SUFFICES ASSUME NEW v \in Players, NEW d \in Giving!Days
                 PROVE  thrown'[v][d] <= 1 /\ (thrown'[v][d] # 0 => nextAt'[v] > d)
      OBVIOUS
    <2>1. CASE v # u
      BY <1>5, <1>7, <1>8, <2>1
    <2>2. CASE v = u /\ UNCHANGED nextAt
      <3>1. CASE d = day
        BY <1>3, <1>5, <1>7, <2>2, <3>1
      <3>2. CASE d # day
        <4>1. thrown'[v][d] = thrown[v][d] /\ nextAt'[v] = nextAt[v]
          BY <1>7, <2>2, <3>2
        <4> QED BY <1>5, <4>1
      <3> QED BY <3>1, <3>2
    <2>3. CASE v = u /\ n = 0 /\ nextAt' = [nextAt EXCEPT ![throwing.id[1]] = throwing.nextAt]
      <3>1. nextAt'[u] = last
        BY <1>1, <1>4, <1>5, <2>3
      <3>2. thrown'[v][d] = thrown[v][d]
        BY <1>6, <1>7, <2>3
      <3> QED BY <1>5, <2>3, <3>1, <3>2
    <2> QED BY <2>1, <2>2, <2>3
  <1> QED BY <1>7, <1>8, <1>9 DEF ThrowInv

LEMMA GiftThrows ==
  ASSUME GiftConstants, GiftIInv, Giving!DiceThrown
  PROVE  GiftIInv'
  <1>0. WalletInv /\ CodeInv /\ LimitInv /\ WheelInv /\ DiceInv /\ ThrowInv /\ RaffleInv /\ AgentInv
    BY DEF GiftIInv
  <1>1. PICK id : id = throwing.id
    OBVIOUS
  <1>2. PICK amount \in {0, DicePrize} :
          /\ Giving!Book(<<"dice", id>>, id[1], amount) /\ Giving!Ended(id, "done", amount) /\ Giving!ThrownAt(id, 1)
          /\ diceBudget' = [Giving!Unreserved(id) EXCEPT ![game[id].day].spent = @ + amount]
    BY <1>1 DEF Giving!DiceThrown
  <1>3. /\ throwing # <<>> /\ throwing' = <<>>
        /\ UNCHANGED <<gift, spun, spinCount, wheelBudget, lottery, nextAt, limits, role, agentRequest, granted, giftDay, most>>
    BY DEF Giving!DiceThrown, Giving!wheel, Giving!agents
  <1>4. id \in DOMAIN game /\ id[1] \in Players /\ game[id].status = "rolling"
    BY <1>0, <1>1, <1>3 DEF ThrowInv
  <1>5. Giving!Owner(<<"dice", id>>) = id[1] /\ amount \in Int /\ <<"dice", id>>[1] = "dice"
    BY DEF Giving!Owner, GiftConstants
  <1>6. WalletInv' /\ \A kind : kind # "dice" => Giving!Booked(kind)' = Giving!Booked(kind)
    BY <1>0, <1>2, <1>4, <1>5, Booking
  <1>7. CodeInv' /\ RaffleInv' /\ LimitInv' /\ WheelInv' /\ AgentInv'
    BY <1>0, <1>3, <1>6, CodeStays, RaffleStays, LimitStays, WheelStays, AgentStays
  <1>8. DiceInv'
    <2>1. most.dice \in Nat
      BY <1>0 DEF LimitInv
    <2> QED BY <1>0, <1>2, <1>3, <1>4, <2>1, DiceEnds
  <1>9. ThrowInv'
    BY <1>0, <1>1, <1>2, <1>3, ThrowEnds
  <1> QED BY <1>6, <1>7, <1>8, <1>9 DEF GiftIInv

LEMMA GiftFails ==
  ASSUME GiftConstants, GiftIInv, Giving!DiceFailed
  PROVE  GiftIInv'
  <1>0. WalletInv /\ CodeInv /\ LimitInv /\ WheelInv /\ DiceInv /\ ThrowInv /\ RaffleInv /\ AgentInv
    BY DEF GiftIInv
  <1>1. PICK id : id = throwing.id
    OBVIOUS
  <1>2. /\ throwing # <<>> /\ throwing' = <<>> /\ diceBudget' = Giving!Unreserved(id)
        /\ UNCHANGED <<purse, events, gift, spun, spinCount, wheelBudget, lottery, limits, role, agentRequest, granted,
                       giftDay, most>>
    BY <1>1 DEF Giving!DiceFailed, Giving!winnings, Giving!wheel, Giving!agents
  <1>3. PICK status \in {"review", "failed"}, n \in {0, 1} :
          /\ Giving!Ended(id, status, 0) /\ Giving!ThrownAt(id, n)
          /\ \/ UNCHANGED nextAt
             \/ n = 0 /\ nextAt' = [nextAt EXCEPT ![id[1]] = throwing.nextAt]
    BY <1>1 DEF Giving!DiceFailed
  <1>4. id \in DOMAIN game /\ id[1] \in Players /\ game[id].status = "rolling"
    BY <1>0, <1>1, <1>2 DEF ThrowInv
  <1>5. WalletInv' /\ CodeInv' /\ RaffleInv' /\ LimitInv' /\ WheelInv' /\ AgentInv'
    BY <1>0, <1>2, BookedStays, WalletStays, CodeStays, RaffleStays, LimitStays, WheelStays, AgentStays
  <1>6. DiceInv'
    <2>1. most.dice \in Nat /\ status \in {"done", "review", "failed"} /\ UNCHANGED most
      BY <1>0, <1>2 DEF LimitInv
    <2>2. PICK amount \in {0, DicePrize} : amount = 0
      OBVIOUS
    <2> QED BY <1>0, <1>2, <1>3, <1>4, <2>1, <2>2, DiceEnds
  <1>7. ThrowInv'
    BY <1>0, <1>1, <1>2, <1>3, ThrowEnds
  <1> QED BY <1>5, <1>6, <1>7 DEF GiftIInv

LEMMA GiftCut ==
  ASSUME GiftIInv, Giving!DiceEvicted
  PROVE  GiftIInv'
  <1>0. WalletInv /\ CodeInv /\ LimitInv /\ WheelInv /\ DiceInv /\ ThrowInv /\ RaffleInv /\ AgentInv
    BY DEF GiftIInv
  <1>1. /\ throwing # <<>> /\ throwing' = <<>>
        /\ UNCHANGED <<purse, events, gift, spun, spinCount, wheelBudget, lottery, game, diceBudget, nextAt, limits, role,
                       agentRequest, granted, giftDay, most>>
    BY DEF Giving!DiceEvicted, Giving!winnings, Giving!wheel, Giving!agents
  <1>2. PICK n \in {0, 1} : Giving!ThrownAt(throwing.id, n)
    BY DEF Giving!DiceEvicted
  <1>3. WalletInv' /\ CodeInv' /\ RaffleInv' /\ LimitInv' /\ WheelInv' /\ DiceInv' /\ AgentInv'
    BY <1>0, <1>1, BookedStays, WalletStays, CodeStays, RaffleStays, LimitStays, WheelStays, DiceStays, AgentStays
  <1>4. ThrowInv'
    BY <1>0, <1>1, <1>2, ThrowEnds
  <1> QED BY <1>3, <1>4 DEF GiftIInv

LEMMA GiftCleans ==
  ASSUME GiftConstants, GiftIInv, NEW id \in DOMAIN game, Giving!cleanupDice(id)
  PROVE  GiftIInv'
  <1>0. WalletInv /\ CodeInv /\ LimitInv /\ WheelInv /\ DiceInv /\ ThrowInv /\ RaffleInv /\ AgentInv
    BY DEF GiftIInv
  <1>1. /\ throwing = <<>> /\ game[id].status = "rolling"
        /\ Giving!Ended(id, "review", 0) /\ diceBudget' = Giving!Unreserved(id)
        /\ UNCHANGED <<purse, events, gift, spun, spinCount, wheelBudget, lottery, nextAt, throwing, thrown, limits, role,
                       agentRequest, granted, giftDay, most>>
    BY DEF Giving!cleanupDice, Giving!Free, Giving!winnings, Giving!wheel, Giving!agents
  <1>2. WalletInv' /\ CodeInv' /\ RaffleInv' /\ LimitInv' /\ WheelInv' /\ ThrowInv' /\ AgentInv'
    BY <1>0, <1>1, BookedStays, WalletStays, CodeStays, RaffleStays, LimitStays, WheelStays, ThrowIdle, AgentStays
  <1>3. DiceInv'
    <2>1. most.dice \in Nat
      BY <1>0 DEF LimitInv
    <2>2. PICK amount \in {0, DicePrize}, status \in {"done", "review", "failed"} : amount = 0 /\ status = "review"
      OBVIOUS
    <2> QED BY <1>0, <1>1, <2>1, <2>2, DiceEnds
  <1> QED BY <1>2, <1>3 DEF GiftIInv

LEMMA GiftEnters ==
  ASSUME GiftIInv, NEW u \in Players, Giving!enterRaffle(u)
  PROVE  GiftIInv'
  <1>0. WalletInv /\ CodeInv /\ LimitInv /\ WheelInv /\ DiceInv /\ ThrowInv /\ RaffleInv /\ AgentInv
    BY DEF GiftIInv
  <1>1. /\ lottery' = [lottery EXCEPT !.entries = @ \cup {u}]
        /\ UNCHANGED <<purse, events, gift, spun, spinCount, wheelBudget, game, diceBudget, nextAt, throwing, thrown, limits,
                       role, agentRequest, granted, giftDay, most>>
    BY DEF Giving!enterRaffle, Giving!winnings, Giving!wheel, Giving!dice, Giving!agents
  <1>2. WalletInv' /\ CodeInv' /\ LimitInv' /\ WheelInv' /\ DiceInv' /\ ThrowInv' /\ AgentInv'
    BY <1>0, <1>1, BookedStays, WalletStays, CodeStays, LimitStays, WheelStays, DiceStays, ThrowStays, AgentStays
  <1>3. Giving!Booked("raffle")' = Giving!Booked("raffle")
    BY <1>1, BookedStays
  <1>4. IsFiniteSet(lottery.entries \cup {u})
    BY <1>0, FS_AddElement DEF RaffleInv
  <1>5. /\ DOMAIN lottery' = DOMAIN lottery /\ lottery'.status = lottery.status /\ lottery'.winners = lottery.winners
        /\ lottery'.entries = lottery.entries \cup {u}
    BY <1>0, <1>1 DEF RaffleInv
  <1>6. RaffleInv'
    BY <1>0, <1>3, <1>4, <1>5 DEF RaffleInv
  <1> QED BY <1>2, <1>6 DEF GiftIInv

LEMMA GiftDraws ==
  ASSUME GiftConstants, GiftIInv, Giving!drawRaffles
  PROVE  GiftIInv'
  <1>0. WalletInv /\ CodeInv /\ LimitInv /\ WheelInv /\ DiceInv /\ ThrowInv /\ RaffleInv /\ AgentInv
    BY DEF GiftIInv
  <1>1. PICK winners \in SUBSET lottery.entries :
          /\ purse' = [u \in Players |-> IF u \in winners THEN purse[u] + RafflePrize ELSE purse[u]]
          /\ events' = [e \in DOMAIN events \cup ({"raffle"} \X winners) |->
                          IF e \in DOMAIN events THEN events[e] ELSE RafflePrize]
          /\ lottery' = [lottery EXCEPT !.status = "drawn", !.winners = winners]
    BY DEF Giving!drawRaffles, Giving!kSubset
  <1>2. /\ throwing = <<>> /\ lottery.status = "open"
        /\ UNCHANGED <<gift, spun, spinCount, wheelBudget, game, diceBudget, nextAt, throwing, thrown, limits,
                       role, agentRequest, granted, giftDay, most>>
    BY DEF Giving!drawRaffles, Giving!Free, Giving!wheel, Giving!dice, Giving!agents
  <1>3. LimitInv' /\ WheelInv' /\ DiceInv' /\ ThrowInv' /\ AgentInv'
    BY <1>0, <1>2, LimitStays, WheelStays, DiceStays, ThrowIdle, AgentStays
  <1> DEFINE prizes == {"raffle"} \X winners
  <1>4. winners \subseteq Players /\ IsFiniteSet(winners)
    BY <1>0, FS_Subset DEF RaffleInv
  <1>5. /\ DOMAIN events' = DOMAIN events \cup prizes
        /\ \A e \in prizes : e[1] = "raffle" /\ e[2] \in winners /\ e = <<"raffle", e[2]>>
        /\ \A u \in winners : <<"raffle", u>> \in prizes
    BY <1>1
  <1>6. prizes \cap DOMAIN events = {}
    <2> SUFFICES ASSUME NEW e \in prizes, e \in DOMAIN events PROVE FALSE
      OBVIOUS
    <2>1. e \in Giving!Booked("raffle")
      BY <1>5 DEF Giving!Booked
    <2> QED BY <1>0, <1>2, <2>1 DEF RaffleInv
  <1>7. IsFiniteSet(prizes)
    BY <1>4, FS_Singleton, FS_Product
  <1> HIDE DEF prizes
  <1>8. /\ \A e \in DOMAIN events : events'[e] = events[e]
        /\ \A e \in prizes : events'[e] = RafflePrize
    BY <1>1, <1>5, <1>6
  <1>9. RafflePrize \in Nat
    BY DEF GiftConstants
  <1>10. IsFiniteSet(DOMAIN events') /\ \A e \in DOMAIN events' : events'[e] \in Int
    <2>1. IsFiniteSet(DOMAIN events \cup prizes)
      BY <1>0, <1>7, FS_Union DEF WalletInv
    <2>2. \A e \in DOMAIN events : events'[e] \in Int
      BY <1>0, <1>8 DEF WalletInv
    <2>3. \A e \in prizes : events'[e] \in Int
      BY <1>8, <1>9
    <2> QED BY <1>5, <2>1, <2>2, <2>3
  <1>11. purse' \in [Players -> Nat]
    BY <1>0, <1>1, <1>9 DEF WalletInv
  <1>12. \A u \in Players : purse'[u] = SumFunctionOnSet(events', EventsOf(u)')
    <2> SUFFICES ASSUME NEW u \in Players
                 PROVE  purse'[u] = SumFunctionOnSet(events', EventsOf(u)')
      OBVIOUS
    <2>1. EventsOf(u)' = {e \in DOMAIN events \cup prizes : Giving!Owner(e) = u}
      BY <1>5 DEF EventsOf, Giving!Owner
    <2>2. \A e \in prizes : Giving!Owner(e) = e[2]
      BY <1>5 DEF Giving!Owner
    <2>3. EventsOf(u) \subseteq DOMAIN events /\ IsFiniteSet(EventsOf(u))
      <3>1. EventsOf(u) \subseteq DOMAIN events
        BY DEF EventsOf
      <3> QED BY <1>0, <3>1, FS_Subset DEF WalletInv
    <2>4. \A e \in EventsOf(u) : events[e] \in Int /\ events'[e] = events[e]
      BY <1>0, <1>8, <2>3 DEF WalletInv
    <2>5. purse[u] = SumFunctionOnSet(events, EventsOf(u)) /\ purse[u] \in Nat
      BY <1>0 DEF WalletInv
    <2>6. CASE u \in winners
      <3>1. PICK e \in prizes : e = <<"raffle", u>> /\ e[2] = u
        BY <1>5, <2>6
      <3>2. EventsOf(u)' = EventsOf(u) \cup {e} /\ e \notin EventsOf(u)
        BY <1>5, <1>6, <2>1, <2>2, <2>3, <3>1 DEF EventsOf
      <3>3. events'[e] = RafflePrize /\ events'[e] \in Int
        BY <1>8, <1>9, <3>1
      <3>4. SumFunctionOnSet(events', EventsOf(u) \cup {e}) = events'[e] + SumFunctionOnSet(events, EventsOf(u))
        BY <2>3, <2>4, <3>2, <3>3, SumGrows
      <3>5. purse'[u] = RafflePrize + purse[u]
        BY <1>1, <1>9, <2>5, <2>6
      <3> QED BY <2>5, <3>2, <3>3, <3>4, <3>5
    <2>7. CASE u \notin winners
      <3>1. EventsOf(u)' = EventsOf(u)
        BY <1>5, <2>1, <2>2, <2>7 DEF EventsOf
      <3>2. SumFunctionOnSet(events, EventsOf(u)) = SumFunctionOnSet(events', EventsOf(u))
        BY <2>3, <2>4, SumAgree
      <3> QED BY <1>1, <2>5, <2>7, <3>1, <3>2
    <2> QED BY <2>6, <2>7
  <1>13. WalletInv'
    BY <1>10, <1>11, <1>12 DEF WalletInv
  <1>14. Giving!Booked("gift")' = Giving!Booked("gift") /\ Giving!Booked("raffle")' = Giving!Booked("raffle") \cup prizes
    BY <1>5 DEF Giving!Booked
  <1>15. CodeInv'
    BY <1>0, <1>2, <1>14, CodeStays
  <1>16. /\ DOMAIN lottery' = DOMAIN lottery /\ lottery'.status = "drawn" /\ lottery'.winners = winners
         /\ lottery'.entries = lottery.entries
    BY <1>0, <1>1 DEF RaffleInv
  <1>17. {e[2] : e \in Giving!Booked("raffle")'} = winners
    <2>1. Giving!Booked("raffle") = {}
      BY <1>0, <1>2 DEF RaffleInv
    <2>2. {e[2] : e \in prizes} = winners
      <3>1. \A u \in winners : \E e \in prizes : e[2] = u
        <4> SUFFICES ASSUME NEW u \in winners PROVE \E e \in prizes : e[2] = u
          OBVIOUS
        <4>1. <<"raffle", u>> \in prizes /\ <<"raffle", u>>[2] = u
          BY <1>5
        <4> QED BY <4>1
      <3> QED BY <1>5, <3>1
    <2> QED BY <1>14, <2>1, <2>2
  <1>18. RaffleInv'
    BY <1>0, <1>16, <1>17 DEF RaffleInv
  <1> QED BY <1>3, <1>13, <1>15, <1>18 DEF GiftIInv

LEMMA GiftDecides ==
  ASSUME GiftIInv, NEW u \in Players, Giving!requestAgent(u) \/ \E approve \in BOOLEAN : Giving!decideAgent(u, approve)
  PROVE  GiftIInv'
  <1>0. WalletInv /\ CodeInv /\ LimitInv /\ WheelInv /\ DiceInv /\ ThrowInv /\ RaffleInv /\ AgentInv
    BY DEF GiftIInv
  <1>1. UNCHANGED <<purse, events, gift, spun, spinCount, wheelBudget, lottery, game, diceBudget, nextAt, throwing, thrown,
                    limits, giftDay, most>>
    BY DEF Giving!requestAgent, Giving!decideAgent, Giving!winnings, Giving!wheel, Giving!dice
  <1>2. WalletInv' /\ CodeInv' /\ RaffleInv' /\ LimitInv' /\ WheelInv' /\ DiceInv' /\ ThrowInv'
    BY <1>0, <1>1, BookedStays, WalletStays, CodeStays, RaffleStays, LimitStays, WheelStays, DiceStays, ThrowStays
  <1>3. AgentInv'
    <2>1. CASE Giving!requestAgent(u)
      <3>1. granted' = granted /\ agentRequest' = [agentRequest EXCEPT ![u] = "pending"]
        BY <2>1 DEF Giving!requestAgent
      <3> QED BY <1>0, <3>1 DEF AgentInv
    <2>2. ASSUME NEW approve \in BOOLEAN, Giving!decideAgent(u, approve)
          PROVE  AgentInv'
      <3>1. CASE approve
        <4>1. granted' = granted \cup {u} /\ (agentRequest' = [agentRequest EXCEPT ![u] = "approved"] \/ UNCHANGED agentRequest)
          BY <2>2, <3>1 DEF Giving!decideAgent
        <4> QED BY <1>0, <4>1 DEF AgentInv
      <3>2. CASE ~approve
        <4>1. granted' = granted /\ (agentRequest' = [agentRequest EXCEPT ![u] = "rejected"] \/ UNCHANGED agentRequest)
          BY <2>2, <3>2 DEF Giving!decideAgent
        <4> QED BY <1>0, <4>1 DEF AgentInv
      <3> QED BY <3>1, <3>2
    <2> QED BY <2>1, <2>2
  <1> QED BY <1>2, <1>3 DEF GiftIInv

LEMMA GiftSaves ==
  ASSUME GiftConstants, GiftIInv, Giving!saveGift \/ Giving!SaveBudgets \/ Giving!Midnight
  PROVE  GiftIInv'
  <1>0. WalletInv /\ CodeInv /\ LimitInv /\ WheelInv /\ DiceInv /\ ThrowInv /\ RaffleInv /\ AgentInv
    BY DEF GiftIInv
  <1>1. UNCHANGED <<purse, events, spun, spinCount, wheelBudget, lottery, game, diceBudget, nextAt, throwing, thrown,
                    role, agentRequest, granted>>
    BY DEF Giving!saveGift, Giving!SaveBudgets, Giving!Midnight, Giving!winnings, Giving!wheel, Giving!dice, Giving!agents
  <1>2. WalletInv' /\ RaffleInv' /\ ThrowInv' /\ AgentInv' /\ Giving!Booked("gift")' = Giving!Booked("gift")
    BY <1>0, <1>1, BookedStays, WalletStays, RaffleStays, ThrowStays, AgentStays
  <1>3. CASE Giving!saveGift
    <2>1. PICK uses \in GiftUses, on \in BOOLEAN :
            /\ gift' = [gift EXCEPT !.uses = uses, !.on = on] /\ most' = [most EXCEPT !.gift = Giving!Max({@, uses})]
      BY <1>3 DEF Giving!saveGift
    <2>2. UNCHANGED <<limits, giftDay>>
      BY <1>3 DEF Giving!saveGift
    <2>3. uses \in Nat /\ most.gift \in Nat
      BY <1>0 DEF GiftConstants, CodeInv
    <2>4. PICK top \in Nat : top = Giving!Max({most.gift, uses}) /\ most.gift <= top /\ uses <= top
      BY <2>3, MaxOfTwo
    <2>5. /\ DOMAIN most' = DOMAIN most /\ most'.gift = top /\ most'.wheel = most.wheel /\ most'.dice = most.dice
      BY <1>0, <2>1, <2>4 DEF LimitInv
    <2>6. DOMAIN gift' = DOMAIN gift /\ gift'.uses = uses /\ gift'.used = gift.used
      BY <1>0, <2>1 DEF CodeInv
    <2>7. CodeInv'
      BY <1>0, <1>2, <2>3, <2>4, <2>5, <2>6 DEF CodeInv
    <2>8. LimitInv'
      BY <1>0, <2>2, <2>5 DEF LimitInv
    <2>9. WheelInv'
      BY <1>0, <1>1, <2>5 DEF WheelInv, Giving!SpinsOf, Giving!Prizes
    <2>10. DiceInv'
      BY <1>0, <1>1, <2>5 DEF DiceInv, Giving!GamesOf, Giving!Amounts, Giving!Held
    <2> QED BY <1>2, <2>7, <2>8, <2>9, <2>10 DEF GiftIInv
  <1>4. CASE Giving!SaveBudgets
    <2>1. PICK w \in Budgets, d \in Budgets :
            /\ limits' = [wheel |-> w, dice |-> d]
            /\ most' = [most EXCEPT !.wheel = Giving!Max({@, w}), !.dice = Giving!Max({@, d})]
      BY <1>4 DEF Giving!SaveBudgets
    <2>2. UNCHANGED <<gift, giftDay>>
      BY <1>4 DEF Giving!SaveBudgets
    <2>3. w \in Nat /\ d \in Nat /\ most.wheel \in Nat /\ most.dice \in Nat
      BY <1>0 DEF GiftConstants, LimitInv
    <2>4. PICK wheel \in Nat : wheel = Giving!Max({most.wheel, w}) /\ most.wheel <= wheel /\ w <= wheel
      BY <2>3, MaxOfTwo
    <2>5. PICK dice \in Nat : dice = Giving!Max({most.dice, d}) /\ most.dice <= dice /\ d <= dice
      BY <2>3, MaxOfTwo
    <2>6. DOMAIN most' = DOMAIN most /\ most'.gift = most.gift /\ most'.wheel = wheel /\ most'.dice = dice
      BY <1>0, <2>1, <2>4, <2>5 DEF LimitInv
    <2>7. CodeInv'
      BY <1>0, <1>2, <2>2, <2>6 DEF CodeInv
    <2>8. LimitInv'
      BY <1>0, <2>1, <2>2, <2>3, <2>4, <2>5, <2>6 DEF LimitInv
    <2>9. WheelInv'
      <3>1. \A x \in Giving!Days : wheelBudget[x] <= wheel
        BY <1>0, <2>3, <2>4 DEF WheelInv
      <3> QED BY <1>0, <1>1, <2>6, <3>1 DEF WheelInv, Giving!SpinsOf, Giving!Prizes
    <2>10. DiceInv'
      <3>1. \A x \in Giving!Days : diceBudget[x].spent + diceBudget[x].reserved <= dice
        BY <1>0, <2>3, <2>5 DEF DiceInv
      <3> QED BY <1>0, <1>1, <2>6, <3>1 DEF DiceInv, Giving!GamesOf, Giving!Amounts, Giving!Held
    <2> QED BY <1>2, <2>7, <2>8, <2>9, <2>10 DEF GiftIInv
  <1>5. CASE Giving!Midnight
    <2>1. UNCHANGED <<gift, limits, most>> /\ giftDay < MaxToday /\ giftDay' = giftDay + 1
      BY <1>5 DEF Giving!Midnight
    <2>2. giftDay' \in Giving!Days
      BY <1>0, <2>1 DEF LimitInv, Giving!Days, GiftConstants
    <2>3. CodeInv' /\ WheelInv' /\ DiceInv'
      BY <1>0, <1>1, <1>2, <2>1, CodeStays, WheelStays, DiceStays
    <2>4. LimitInv'
      BY <1>0, <2>1, <2>2 DEF LimitInv
    <2> QED BY <1>2, <2>3, <2>4 DEF GiftIInv
  <1> QED BY <1>3, <1>4, <1>5

LEMMA GiftStep ==
  ASSUME GiftConstants, GiftIInv, Giving!GiftNext
  PROVE  GiftIInv'
  BY GiftThrows, GiftFails, GiftCut, GiftDraws, GiftSaves, GiftSignup, GiftRedeems, GiftEnters, GiftDecides, GiftPlays,
     GiftSpins, GiftCleans
  DEF Giving!GiftNext

LEMMA GiftKeeps == GiftIInv /\ UNCHANGED giftsState => GiftIInv'
  <1> SUFFICES ASSUME GiftIInv, UNCHANGED giftsState PROVE GiftIInv'
    OBVIOUS
  <1>1. UNCHANGED <<purse, events, gift, spun, spinCount, wheelBudget, lottery, game, diceBudget, nextAt, throwing, thrown,
                    limits, agentRequest, granted, giftDay, most>>
    BY DEF giftsState
  <1> QED BY <1>1, BookedStays, WalletStays, CodeStays, LimitStays, WheelStays, DiceStays, ThrowStays, RaffleStays, AgentStays
          DEF GiftIInv

LEMMA GiftsAlone == [Next]_allVars => Giving!GiftNext \/ UNCHANGED giftsState
  BY DEF Next, Rest, allVars

\* Nothing is given to a wallet twice or beyond what was promised: a wallet holds
\* what its events say, a code is used as often as it was booked and allowed, the
\* wheel and the dice keep the budget of a day also with games that were cut or
\* never answered, nobody throws twice in a day, and a raffle pays all of its
\* winners once (src/src/services/wallet.js, engagement.js).
THEOREM GiftsAddUp == Spec => []EveryGiftAccounted
  <1>0. GiftConstants
    BY PartsAssumption DEF PartsAssumption, GiftConstants
  <1>1. Init => GiftIInv
    BY <1>0, GiftStarts DEF Init
  <1>2. GiftIInv /\ [Next]_allVars => GiftIInv'
    BY <1>0, GiftStep, GiftKeeps, GiftsAlone
  <1>3. GiftIInv => EveryGiftAccounted
    BY GiftPromise DEF EveryGiftAccounted
  <1> QED BY <1>1, <1>2, <1>3, PTL DEF Spec


-----------------------------------------------------------------------------
(* Updates                                                                 *)

LEMMA TalkSum == \A f, S : Talking!SumFunctionOnSet(f, S) = SumFunctionOnSet(f, S)
  BY DEF Talking!SumFunctionOnSet, SumFunctionOnSet, Talking!FoldFunctionOnSet, FoldFunctionOnSet,
         Talking!MapThenFoldSet, MapThenFoldSet

LEMMA TalkCount == \A S : Talking!Cardinality(S) = Cardinality(S)
  BY DEF Talking!Cardinality, Cardinality

LEMMA TalkLast == \A s : Talking!Last(s) = s[Len(s)]
  BY DEF Talking!Last

Someone == [known : BOOLEAN, banned : BOOLEAN, referredBy : Customers \cup {0}, pendingStart : {"", "ref", "fb"},
            signupCompleted : BOOLEAN, supportOpen : BOOLEAN, flow : {"", "feedback"}]
Reward == [kind : {"signup", "referral", "quiz"}, of : Customers, to : Customers]
Store == [people : [Customers -> Someone], points : [Customers -> Nat], rewards : SUBSET Reward,
          tickets : [Customers -> Nat], votes : [Customers -> SUBSET {1, 2}], tally : [{1, 2} -> Nat], participants : Nat]

(* The points are those of the events, and the counts of the poll its      *)
(* votes.                                                                  *)
StoreOk(d) ==
  /\ d \in Store /\ IsFiniteSet(d.rewards)
  /\ \A u \in Customers : d.points[u] = Cardinality({r \in d.rewards : r.to = u})
  /\ \A o \in {1, 2} : d.tally[o] = Cardinality({u \in Customers : o \in d.votes[u]})
  /\ d.participants = Cardinality({u \in Customers : d.votes[u] # {}})

(* What a handler of m may leave of the store it found: the sender is      *)
(* known, the inviter is set by the first message, an invitation is        *)
(* rewarded to him alone, and a signup is completed once it is paid for.   *)
Served(d, m) ==
  LET u == m.from IN
  /\ StoreOk(d) /\ \A v \in Customers : v # u => d.people[v] = db.people[v]
  /\ d.people[u].known
  /\ \/ d.people[u].referredBy = db.people[u].referredBy
     \/ ~db.people[u].known /\ d.people[u].referredBy = m.inviter /\ m.inviter \notin {0, u}
  /\ db.rewards \subseteq d.rewards
  /\ \A r \in d.rewards \ db.rewards : r.kind = "referral" => r.of = u /\ r.to = d.people[u].referredBy /\ r.to # 0
  /\ d.people[u].signupCompleted /\ ~db.people[u].signupCompleted => Talking!Due(d, u) \subseteq d.rewards
  /\ (d.tickets = db.tickets \/ (m.text = "words" /\ d.tickets = [db.tickets EXCEPT ![u] = @ + 1]))

(* The inviter is the one the first message named; a text that will come   *)
(* again was cut before.                                                   *)
InviteInv ==
  /\ firstStart \in [Customers -> Customers \cup {0}]
  /\ \A u \in Customers : db.people[u].referredBy # 0 =>
       db.people[u].referredBy = firstStart[u] /\ firstStart[u] # u /\ db.people[u].known
  /\ \A r \in db.rewards : r.kind = "referral" =>
       r.to = firstStart[r.of] /\ r.to # r.of /\ db.people[r.of].known
TextInv ==
  /\ texts \in Nat /\ updateStops \in Nat /\ IsFiniteSet(undone)
  /\ SumFunctionOnSet(db.tickets, Customers) + Cardinality({m \in undone : m.text = "words"}) <= texts + updateStops
BotIInv == StoreOk(db) /\ owed \subseteq db.rewards /\ InviteInv /\ TextInv

BotConstants == 0 \notin Customers /\ IsFiniteSet(Customers)

LEMMA BotPromise == ASSUME BotConstants, BotIInv PROVE Talking!SignupsPaid
  <1>0. StoreOk(db) /\ owed \subseteq db.rewards /\ InviteInv /\ TextInv
    BY DEF BotIInv
  <1>1. \A u \in Customers : Cardinality({r \in db.rewards : r.kind = "referral" /\ r.of = u}) <= 1
    <2> SUFFICES ASSUME NEW u \in Customers
                 PROVE  Cardinality({r \in db.rewards : r.kind = "referral" /\ r.of = u}) <= 1
      OBVIOUS
    <2>1. PICK one : one = [kind |-> "referral", of |-> u, to |-> firstStart[u]]
      OBVIOUS
    <2>2. {r \in db.rewards : r.kind = "referral" /\ r.of = u} \subseteq {one}
      <3> SUFFICES ASSUME NEW r \in db.rewards, r.kind = "referral", r.of = u PROVE r = one
        OBVIOUS
      <3>1. r \in Reward /\ r.to = firstStart[u]
        BY <1>0 DEF InviteInv, StoreOk, Store
      <3> QED BY <2>1, <3>1 DEF Reward
    <2>3. IsFiniteSet({one}) /\ Cardinality({one}) = 1
      BY FS_Singleton
    <2> QED BY <2>2, <2>3, FS_Subset
  <1>2. Talking!SumFunctionOnSet(db.tickets, Customers) <= texts + updateStops
    <2>1. Cardinality({m \in undone : m.text = "words"}) \in Nat
      <3>1. IsFiniteSet({m \in undone : m.text = "words"})
        BY <1>0, FS_Subset DEF TextInv
      <3> QED BY <3>1, FS_CardinalityType
    <2>2. SumFunctionOnSet(db.tickets, Customers) \in Nat
      <3>1. \A u \in Customers : db.tickets[u] \in Nat
        BY <1>0 DEF StoreOk, Store
      <3> QED BY <3>1, SumNat DEF BotConstants
    <2> QED BY <1>0, <2>1, <2>2, TalkSum DEF TextInv
  <1>3. /\ \A u \in Customers : db.points[u] = Talking!Cardinality({r \in db.rewards : r.to = u})
        /\ \A o \in Talking!Options : db.tally[o] = Talking!Cardinality({u \in Customers : o \in db.votes[u]})
        /\ db.participants = Talking!Cardinality({u \in Customers : db.votes[u] # {}})
    BY <1>0, TalkCount DEF StoreOk, Talking!Options
  <1>4. \A r \in db.rewards : r.kind = "referral" => r.to = firstStart[r.of] /\ r.to # r.of
    BY <1>0 DEF InviteInv
  <1> QED BY <1>0, <1>1, <1>2, <1>3, <1>4, TalkCount DEF Talking!SignupsPaid

LEMMA BotStarts == ASSUME BotConstants, Talking!BotInit PROVE BotIInv
  <1>0. IsFiniteSet({}) /\ Cardinality({}) = 0
    BY FS_EmptySet
  <1>1. /\ db = [people |-> [u \in Customers |-> Talking!Person(u \in Regulars)],
                 points |-> [u \in Customers |-> 0], rewards |-> {}, tickets |-> [u \in Customers |-> 0],
                 votes |-> [u \in Customers |-> {}], tally |-> [o \in {1, 2} |-> 0], participants |-> 0]
        /\ undone = {} /\ firstStart = [u \in Customers |-> 0] /\ owed = {} /\ texts = 0 /\ updateStops = 0
    BY DEF Talking!BotInit, Talking!Options
  <1>3. db.people \in [Customers -> Someone] /\ \A u \in Customers : db.people[u].referredBy = 0
    <2>1. \A u \in Customers : db.people[u] = Talking!Person(u \in Regulars)
      BY <1>1
    <2>2. \A u \in Customers : db.people[u] \in Someone /\ db.people[u].referredBy = 0
      <3> SUFFICES ASSUME NEW u \in Customers PROVE db.people[u] \in Someone /\ db.people[u].referredBy = 0
        OBVIOUS
      <3>1. PICK p : p = db.people[u]
        OBVIOUS
      <3>2. p = [known |-> u \in Regulars, banned |-> FALSE, referredBy |-> 0, pendingStart |-> "",
                 signupCompleted |-> u \in Regulars, supportOpen |-> FALSE, flow |-> ""]
        BY <2>1, <3>1 DEF Talking!Person
      <3>3. (u \in Regulars) \in BOOLEAN
        BY SMT
      <3>4. PICK b \in BOOLEAN : b = (u \in Regulars)
        BY <3>3, Zenon
      <3>5. p = [known |-> b, banned |-> FALSE, referredBy |-> 0, pendingStart |-> "",
                 signupCompleted |-> b, supportOpen |-> FALSE, flow |-> ""]
        BY <3>2, <3>4, Zenon
      <3>6. p \in Someone /\ p.referredBy = 0
        BY <3>5 DEF Someone
      <3> QED BY <3>1, <3>6
    <2> QED BY <1>1, <2>2
  <1>4. /\ db.points \in [Customers -> Nat] /\ db.tickets \in [Customers -> Nat]
        /\ db.votes \in [Customers -> SUBSET {1, 2}] /\ db.tally \in [{1, 2} -> Nat]
        /\ \A u \in Customers : db.points[u] = 0 /\ db.tickets[u] = 0 /\ db.votes[u] = {}
        /\ \A o \in {1, 2} : db.tally[o] = 0 /\ db.rewards = {} /\ db.participants = 0
    BY <1>1
  <1>5. db \in Store
    BY <1>1, <1>3, <1>4 DEF Store
  <1>6. StoreOk(db)
    <2>1. \A u \in Customers : {r \in db.rewards : r.to = u} = {}
      BY <1>4
    <2>2. \A o \in {1, 2} : {u \in Customers : o \in db.votes[u]} = {}
      BY <1>4
    <2>3. {u \in Customers : db.votes[u] # {}} = {}
      BY <1>4
    <2> QED BY <1>0, <1>4, <1>5, <2>1, <2>2, <2>3 DEF StoreOk
  <1>7. InviteInv
    BY <1>1, <1>3, <1>4 DEF InviteInv
  <1>8. TextInv
    <2>1. SumFunctionOnSet(db.tickets, Customers) = 0
      BY <1>4, SumZero DEF BotConstants
    <2>2. {m \in undone : m.text = "words"} = {}
      BY <1>1
    <2> QED BY <1>0, <1>1, <2>1, <2>2 DEF TextInv
  <1> QED BY <1>1, <1>6, <1>7, <1>8 DEF BotIInv

WithPerson(d, u, p) == [d EXCEPT !.people[u] = p]

(* A save changes one person.                                              *)
LEMMA PersonSaves ==
  ASSUME NEW d, StoreOk(d), NEW u \in Customers, NEW p \in Someone, NEW x, x = WithPerson(d, u, p)
  PROVE  /\ StoreOk(x) /\ x.people[u] = p /\ \A v \in Customers : v # u => x.people[v] = d.people[v]
         /\ x.rewards = d.rewards /\ x.tickets = d.tickets
  <1>1. PICK all : all = [d.people EXCEPT ![u] = p]
    OBVIOUS
  <1>2. d \in Store /\ d.people \in [Customers -> Someone]
    BY DEF StoreOk, Store
  <1>3. all \in [Customers -> Someone] /\ all[u] = p /\ \A v \in Customers : v # u => all[v] = d.people[v]
    BY <1>1, <1>2
  <1>4. x = [d EXCEPT !.people = all]
    BY <1>1 DEF WithPerson
  <1>5. /\ x \in Store /\ x.people = all /\ x.points = d.points /\ x.rewards = d.rewards /\ x.tickets = d.tickets
        /\ x.votes = d.votes /\ x.tally = d.tally /\ x.participants = d.participants
    BY <1>2, <1>3, <1>4 DEF Store
  <1>6. StoreOk(x)
    BY <1>5 DEF StoreOk
  <1> QED BY <1>3, <1>5, <1>6

(* An event moves the points of the one it is about, once.                 *)
LEMMA RewardedIs ==
  ASSUME BotConstants, NEW d, StoreOk(d), NEW r \in Reward, NEW x, x = Talking!Rewarded(d, r)
  PROVE  /\ StoreOk(x) /\ x.people = d.people /\ x.rewards = d.rewards \cup {r} /\ x.tickets = d.tickets
  <1>1. CASE r \in d.rewards
    BY <1>1 DEF Talking!Rewarded
  <1>2. CASE r \notin d.rewards
    <2>1. d \in Store /\ d.points \in [Customers -> Nat] /\ r.to \in Customers /\ IsFiniteSet(d.rewards)
      BY DEF StoreOk, Store, Reward
    <2>2. PICK n \in Nat : n = d.points[r.to] + 1
      BY <2>1
    <2>3. PICK points : points = [d.points EXCEPT ![r.to] = n]
      OBVIOUS
    <2>4. x = [[d EXCEPT !.points = points] EXCEPT !.rewards = d.rewards \cup {r}]
      BY <1>2, <2>1, <2>2, <2>3 DEF Talking!Rewarded, Store
    <2>5. points \in [Customers -> Nat] /\ points[r.to] = n /\ \A u \in Customers : u # r.to => points[u] = d.points[u]
      BY <2>1, <2>3
    <2>6. PICK mid : mid = [d EXCEPT !.points = points]
      OBVIOUS
    <2>7. mid \in Store /\ mid.rewards = d.rewards /\ mid.points = points /\ mid.people = d.people /\ mid.tickets = d.tickets
          /\ mid.votes = d.votes /\ mid.tally = d.tally /\ mid.participants = d.participants
      BY <2>1, <2>5, <2>6 DEF Store
    <2>8. d.rewards \cup {r} \in SUBSET Reward
      BY <2>1 DEF Store
    <2>9. x \in Store /\ x.rewards = d.rewards \cup {r} /\ x.points = points /\ x.people = d.people /\ x.tickets = d.tickets
          /\ x.votes = d.votes /\ x.tally = d.tally /\ x.participants = d.participants
      BY <2>4, <2>6, <2>7, <2>8 DEF Store
    <2>10. IsFiniteSet(x.rewards)
      BY <2>1, <2>9, FS_AddElement
    <2>11. \A u \in Customers : x.points[u] = Cardinality({s \in x.rewards : s.to = u})
      <3> SUFFICES ASSUME NEW u \in Customers PROVE x.points[u] = Cardinality({s \in x.rewards : s.to = u})
        OBVIOUS
      <3>1. PICK mine : mine = {s \in d.rewards : s.to = u}
        OBVIOUS
      <3>2. IsFiniteSet(mine) /\ r \notin mine /\ d.points[u] = Cardinality(mine)
        <4>1. IsFiniteSet(mine)
          BY <2>1, <3>1, FS_Subset
        <4> QED BY <1>2, <3>1, <4>1 DEF StoreOk
      <3>3. CASE u = r.to
        <4>1. {s \in x.rewards : s.to = u} = mine \cup {r}
          BY <2>9, <3>1, <3>3
        <4>2. Cardinality(mine \cup {r}) = Cardinality(mine) + 1
          BY <3>2, FS_AddElement
        <4> QED BY <2>2, <2>5, <2>9, <3>2, <3>3, <4>1, <4>2
      <3>4. CASE u # r.to
        <4>1. {s \in x.rewards : s.to = u} = mine
          BY <2>9, <3>1, <3>4
        <4> QED BY <2>5, <2>9, <3>2, <3>4, <4>1
      <3> QED BY <3>3, <3>4
    <2>12. StoreOk(x)
      BY <2>9, <2>10, <2>11 DEF StoreOk
    <2> QED BY <2>9, <2>12
  <1> QED BY <1>1, <1>2

(* Who is due for a signup depends on the inviter, who is somebody else.   *)
LEMMA DueSame ==
  ASSUME BotConstants, NEW d, StoreOk(d), NEW e, StoreOk(e), NEW u \in Customers,
         e.people[u].referredBy = d.people[u].referredBy, d.people[u].referredBy # u,
         \A v \in Customers : v # u => e.people[v] = d.people[v]
  PROVE  Talking!Due(e, u) = Talking!Due(d, u)
  <1>1. d.people[u].referredBy \in Customers \cup {0}
    BY DEF StoreOk, Store, Someone
  <1>2. Talking!Inviter(e, u) = Talking!Inviter(d, u)
    BY <1>1 DEF Talking!Inviter
  <1> QED BY <1>2 DEF Talking!Due

LEMMA PersonServed ==
  ASSUME BotConstants, NEW m, m.from \in Customers, NEW d, StoreOk(d),
         \A v \in Customers : v # m.from => d.people[v] = db.people[v],
         NEW p \in Someone, p.known,
         \/ p.referredBy = db.people[m.from].referredBy
         \/ ~db.people[m.from].known /\ p.referredBy = m.inviter /\ m.inviter \notin {0, m.from},
         db.rewards \subseteq d.rewards,
         \A r \in d.rewards \ db.rewards : r.kind = "referral" => r.of = m.from /\ r.to = p.referredBy /\ r.to # 0,
         NEW x, x = WithPerson(d, m.from, p),
         p.signupCompleted /\ ~db.people[m.from].signupCompleted => Talking!Due(x, m.from) \subseteq d.rewards,
         (d.tickets = db.tickets \/ (m.text = "words" /\ d.tickets = [db.tickets EXCEPT ![m.from] = @ + 1]))
  PROVE  Served(x, m) /\ x.people[m.from] = p
  <1>1. PICK u \in Customers : u = m.from
    OBVIOUS
  <1>2. /\ StoreOk(x) /\ x.people[u] = p /\ \A v \in Customers : v # u => x.people[v] = d.people[v]
        /\ x.rewards = d.rewards /\ x.tickets = d.tickets
    <2>1. x = WithPerson(d, u, p)
      BY <1>1
    <2> QED BY <1>1, <2>1, PersonSaves
  <1> QED BY <1>1, <1>2 DEF Served

(* What a record of the sender's conversation leaves alone.                *)
LEMMA QuietPerson ==
  ASSUME BotConstants, BotIInv, NEW m, m.from \in Customers, NEW d, Served(d, m), NEW p \in Someone,
         p.known = d.people[m.from].known, p.referredBy = d.people[m.from].referredBy,
         p.signupCompleted = d.people[m.from].signupCompleted, NEW x, x = WithPerson(d, m.from, p)
  PROVE  Served(x, m) /\ x.rewards = d.rewards /\ x.tickets = d.tickets
  <1>1. PICK u \in Customers : u = m.from
    OBVIOUS
  <1>2. StoreOk(d) /\ d.people[u] \in Someone
    BY <1>1 DEF Served, StoreOk, Store
  <1>3. /\ StoreOk(x) /\ x.people[u] = p /\ \A w \in Customers : w # u => x.people[w] = d.people[w]
        /\ x.rewards = d.rewards /\ x.tickets = d.tickets
    <2>1. x = WithPerson(d, u, p)
      BY <1>1
    <2> QED BY <1>1, <1>2, <2>1, PersonSaves
  <1>4. d.people[u].referredBy # u
    <2>1. db.people[u].referredBy # u
      BY <1>1 DEF BotConstants, BotIInv, InviteInv
    <2> QED BY <1>1, <2>1 DEF Served
  <1>5. Talking!Due(x, u) = Talking!Due(d, u)
    <2>1. x.people[u].referredBy = d.people[u].referredBy
      BY <1>1, <1>3
    <2> QED BY <1>1, <1>2, <1>3, <1>4, <2>1, DueSame
  <1>6. Served(x, m)
    BY <1>1, <1>3, <1>5 DEF Served
  <1> QED BY <1>3, <1>6

Quiet(f, v) ==
  \/ f = "flow" /\ v \in {"", "feedback"}
  \/ f = "supportOpen" /\ v \in BOOLEAN
  \/ f = "pendingStart" /\ v \in {"", "ref", "fb"}

LEMMA QuietSave ==
  ASSUME BotConstants, BotIInv, NEW m, m.from \in Customers, NEW d, Served(d, m), NEW f, NEW v,
         Quiet(f, v)
  PROVE  /\ Served(Talking!Saved(d, m.from, f, v), m)
         /\ Talking!Saved(d, m.from, f, v).rewards = d.rewards
         /\ Talking!Saved(d, m.from, f, v).tickets = d.tickets
  <1>1. PICK u \in Customers : u = m.from
    OBVIOUS
  <1>2. StoreOk(d) /\ d.people[u] \in Someone
    BY <1>1 DEF Served, StoreOk, Store
  <1>3. PICK p \in Someone : /\ Talking!Saved(d, u, f, v) = WithPerson(d, u, p)
                             /\ p.known = d.people[u].known /\ p.referredBy = d.people[u].referredBy
                             /\ p.signupCompleted = d.people[u].signupCompleted
    <2>1. CASE f = "flow" /\ v \in {"", "feedback"}
      <3>1. PICK p : p = [d.people[u] EXCEPT !.flow = v]
        OBVIOUS
      <3>2. /\ p \in Someone /\ p.known = d.people[u].known /\ p.referredBy = d.people[u].referredBy
            /\ p.signupCompleted = d.people[u].signupCompleted
        BY <1>2, <2>1, <3>1 DEF Someone
      <3>3. Talking!Saved(d, u, "flow", v) = WithPerson(d, u, p)
        BY <3>1 DEF Talking!Saved, WithPerson
      <3> QED BY <2>1, <3>2, <3>3
    <2>2. CASE f = "supportOpen" /\ v \in BOOLEAN
      <3>1. PICK p : p = [d.people[u] EXCEPT !.supportOpen = v]
        OBVIOUS
      <3>2. /\ p \in Someone /\ p.known = d.people[u].known /\ p.referredBy = d.people[u].referredBy
            /\ p.signupCompleted = d.people[u].signupCompleted
        BY <1>2, <2>2, <3>1 DEF Someone
      <3>3. Talking!Saved(d, u, "supportOpen", v) = WithPerson(d, u, p)
        BY <3>1 DEF Talking!Saved, WithPerson
      <3> QED BY <2>2, <3>2, <3>3
    <2>3. CASE f = "pendingStart" /\ v \in {"", "ref", "fb"}
      <3>1. PICK p : p = [d.people[u] EXCEPT !.pendingStart = v]
        OBVIOUS
      <3>2. /\ p \in Someone /\ p.known = d.people[u].known /\ p.referredBy = d.people[u].referredBy
            /\ p.signupCompleted = d.people[u].signupCompleted
        BY <1>2, <2>3, <3>1 DEF Someone
      <3>3. Talking!Saved(d, u, "pendingStart", v) = WithPerson(d, u, p)
        BY <3>1 DEF Talking!Saved, WithPerson
      <3> QED BY <2>3, <3>2, <3>3
    <2> QED BY <2>1, <2>2, <2>3 DEF Quiet
  <1>4. PICK x : x = WithPerson(d, u, p)
    OBVIOUS
  <1>5. Served(x, m) /\ x.rewards = d.rewards /\ x.tickets = d.tickets
    <2>1. /\ p.known = d.people[m.from].known /\ p.referredBy = d.people[m.from].referredBy
          /\ p.signupCompleted = d.people[m.from].signupCompleted /\ x = WithPerson(d, m.from, p)
      BY <1>1, <1>3, <1>4, Zenon
    <2> QED BY <2>1, QuietPerson
  <1> QED BY <1>1, <1>3, <1>4, <1>5

Update(m) == m.from \in Customers /\ m.inviter \in Customers \cup {0} /\ m.param \in {"", "ref", "fb"}

LEMMA UpdatesAre == \A m \in Talking!Messages \cup Talking!Taps : Update(m)
  <1>1. ASSUME NEW m \in Talking!Messages PROVE Update(m)
    BY DEF Talking!Messages, Update
  <1>2. ASSUME NEW m \in Talking!Taps PROVE Update(m)
    BY DEF Talking!Taps, Update
  <1> QED BY <1>1, <1>2

(* The first save of every update: the sender is known.                    *)
LEMMA FirstTouch ==
  ASSUME BotConstants, BotIInv, NEW m, Update(m), NEW x, x = Talking!touchUser(db, m.from)
  PROVE  /\ Served(x, m) /\ x.rewards = db.rewards /\ x.tickets = db.tickets
         /\ x.people[m.from].referredBy = db.people[m.from].referredBy
         /\ x.people[m.from].signupCompleted = db.people[m.from].signupCompleted
  <1>1. PICK u \in Customers : u = m.from
    BY DEF Update
  <1>2. StoreOk(db) /\ db.people[u] \in Someone
    BY <1>1 DEF BotIInv, StoreOk, Store
  <1>3. PICK p : p = [db.people[u] EXCEPT !.known = TRUE]
    OBVIOUS
  <1>4. /\ p \in Someone /\ p.known /\ p.referredBy = db.people[u].referredBy
        /\ p.signupCompleted = db.people[u].signupCompleted
    BY <1>2, <1>3 DEF Someone
  <1>5. x = WithPerson(db, u, p)
    BY <1>1, <1>3 DEF Talking!touchUser, Talking!Saved, WithPerson
  <1>6. /\ StoreOk(x) /\ x.people[u] = p /\ \A v \in Customers : v # u => x.people[v] = db.people[v]
        /\ x.rewards = db.rewards /\ x.tickets = db.tickets
    <2>1. p \in Someone
      BY <1>4
    <2> QED BY <1>1, <1>2, <1>5, <2>1, PersonSaves
  <1>7. Served(x, m)
    <2>1. x.people[u].known /\ x.people[u].referredBy = db.people[u].referredBy
      BY <1>4, <1>6
    <2>2. x.people[u].signupCompleted = db.people[u].signupCompleted
      BY <1>4, <1>6
    <2> QED BY <1>1, <1>6, <2>1, <2>2 DEF Served
  <1> QED BY <1>1, <1>4, <1>6, <1>7

(* A /start names the inviter of somebody new.                             *)
LEMMA StartKept ==
  ASSUME BotConstants, BotIInv, NEW m, Update(m), NEW d, Served(d, m), d.rewards = db.rewards, d.tickets = db.tickets,
         d.people[m.from].referredBy = db.people[m.from].referredBy,
         d.people[m.from].signupCompleted = db.people[m.from].signupCompleted,
         NEW x, x = Talking!Started(d, m.from, m, ~db.people[m.from].known)
  PROVE  Served(x, m) /\ x.tickets = db.tickets
  <1>1. PICK u \in Customers : u = m.from
    BY DEF Update
  <1>2. StoreOk(d) /\ d.people[u] \in Someone
    BY <1>1 DEF Served, StoreOk, Store
  <1>3. CASE m.text # "/start"
    <2>1. x = d
      BY <1>3 DEF Talking!Started
    <2> QED BY <2>1
  <1>4. CASE m.text = "/start"
    <2>1. PICK i : i = IF ~db.people[u].known /\ m.inviter \notin {0, u} THEN m.inviter ELSE d.people[u].referredBy
      OBVIOUS
    <2>2. PICK p : p = [d.people[u] EXCEPT !.pendingStart = m.param, !.supportOpen = FALSE, !.flow = "", !.referredBy = i]
      OBVIOUS
    <2>3. x = WithPerson(d, u, p)
      <3>1. CASE ~db.people[u].known /\ m.inviter \notin {0, u}
        BY <1>1, <1>4, <2>1, <2>2, <3>1 DEF Talking!Started, WithPerson
      <3>2. CASE ~(~db.people[u].known /\ m.inviter \notin {0, u})
        <4>1. i = d.people[u].referredBy
          BY <2>1, <3>2
        <4> QED BY <1>1, <1>2, <1>4, <2>2, <3>2, <4>1 DEF Talking!Started, WithPerson, Someone
      <3> QED BY <3>1, <3>2
    <2>4. i \in Customers \cup {0}
      BY <1>2, <2>1 DEF Update, Someone
    <2>5. /\ p \in Someone /\ p.known = d.people[u].known /\ p.referredBy = i
          /\ p.signupCompleted = d.people[u].signupCompleted
      BY <1>2, <2>2, <2>4 DEF Update, Someone
    <2>6. /\ StoreOk(x) /\ x.people[u] = p /\ \A v \in Customers : v # u => x.people[v] = d.people[v]
          /\ x.rewards = d.rewards /\ x.tickets = d.tickets
      <3>1. p \in Someone
        BY <2>5
      <3> QED BY <1>1, <1>2, <2>3, <3>1, PersonSaves
    <2>7. Served(x, m)
      BY <1>1, <2>1, <2>5, <2>6 DEF Served
    <2> QED BY <2>6, <2>7
  <1> QED BY <1>3, <1>4

LEMMA RewardServed ==
  ASSUME BotConstants, NEW m, Update(m), NEW d, Served(d, m), NEW r \in Reward,
         r.kind = "referral" => r.of = m.from /\ r.to = d.people[m.from].referredBy /\ r.to # 0,
         NEW x, x = Talking!Rewarded(d, r)
  PROVE  /\ Served(x, m) /\ x.people = d.people /\ x.rewards = d.rewards \cup {r} /\ x.tickets = d.tickets
         /\ Talking!Due(x, m.from) = Talking!Due(d, m.from)
  <1>1. StoreOk(d)
    BY DEF Served
  <1>2. /\ StoreOk(x) /\ x.people = d.people /\ x.rewards = d.rewards \cup {r} /\ x.tickets = d.tickets
    BY <1>1, RewardedIs
  <1>3. Talking!Due(x, m.from) = Talking!Due(d, m.from)
    BY <1>2 DEF Talking!Due, Talking!Inviter
  <1>4. Served(x, m)
    BY <1>2, <1>3 DEF Served
  <1> QED BY <1>2, <1>3, <1>4

Good(s, m) == s \in Seq(Store) /\ \A k \in DOMAIN s : Served(s[k], m)

LEMMA GoodJoin ==
  ASSUME NEW m, NEW s, NEW t, Good(s, m), Good(t, m)
  PROVE  Good(s \o t, m) /\ Len(s \o t) = Len(s) + Len(t) /\ (Len(t) > 0 => Talking!Last(s \o t) = Talking!Last(t))
  <1>1. s \in Seq(Store) /\ t \in Seq(Store) /\ Len(s) \in Nat /\ Len(t) \in Nat
    BY LenProperties DEF Good
  <1>2. /\ s \o t \in Seq(Store) /\ Len(s \o t) = Len(s) + Len(t)
        /\ \A i \in 1 .. Len(s) + Len(t) : (s \o t)[i] = IF i <= Len(s) THEN s[i] ELSE t[i - Len(s)]
    BY <1>1, ConcatProperties
  <1>3. DOMAIN s = 1 .. Len(s) /\ DOMAIN t = 1 .. Len(t) /\ DOMAIN (s \o t) = 1 .. Len(s) + Len(t)
    BY <1>1, <1>2, LenProperties
  <1>4. ASSUME NEW k \in 1 .. Len(s) + Len(t) PROVE Served((s \o t)[k], m)
    <2>1. CASE k <= Len(s)
      <3>1. k \in DOMAIN s /\ (s \o t)[k] = s[k]
        BY <1>1, <1>2, <1>3, <2>1
      <3> QED BY <3>1 DEF Good
    <2>2. CASE ~(k <= Len(s))
      <3>1. k - Len(s) \in DOMAIN t /\ (s \o t)[k] = t[k - Len(s)]
        BY <1>1, <1>2, <1>3, <2>2
      <3> QED BY <3>1 DEF Good
    <2> QED BY <2>1, <2>2
  <1>5. Good(s \o t, m)
    BY <1>2, <1>3, <1>4 DEF Good
  <1>6. ASSUME Len(t) > 0 PROVE (s \o t)[Len(s \o t)] = t[Len(t)]
    BY <1>1, <1>2, <1>6
  <1> QED BY <1>2, <1>5, <1>6, TalkLast

LEMMA GoodOne ==
  ASSUME NEW m, NEW d, Served(d, m)
  PROVE  Good(<<d>>, m) /\ Len(<<d>>) = 1 /\ Talking!Last(<<d>>) = d
  <1>1. d \in Store
    BY DEF Served, StoreOk
  <1> QED BY <1>1, TalkLast DEF Good

LEMMA GoodTwo ==
  ASSUME NEW m, NEW d, Served(d, m), NEW e, Served(e, m)
  PROVE  Good(<<d, e>>, m) /\ Len(<<d, e>>) = 2 /\ Talking!Last(<<d, e>>) = e
  <1>1. d \in Store /\ e \in Store
    BY DEF Served, StoreOk
  <1>2. <<d, e>> \in Seq(Store) /\ Len(<<d, e>>) = 2 /\ DOMAIN <<d, e>> = {1, 2}
    BY <1>1
  <1>3. <<d, e>>[1] = d /\ <<d, e>>[2] = e
    OBVIOUS
  <1> QED BY <1>2, <1>3, TalkLast DEF Good

LEMMA GoodThree ==
  ASSUME NEW m, NEW d, Served(d, m), NEW e, Served(e, m), NEW f, Served(f, m)
  PROVE  Good(<<d, e, f>>, m) /\ Len(<<d, e, f>>) = 3 /\ Talking!Last(<<d, e, f>>) = f
  <1>1. d \in Store /\ e \in Store /\ f \in Store
    BY DEF Served, StoreOk
  <1>2. <<d, e, f>> \in Seq(Store) /\ Len(<<d, e, f>>) = 3 /\ DOMAIN <<d, e, f>> = {1, 2, 3}
    BY <1>1
  <1>3. <<d, e, f>>[1] = d /\ <<d, e, f>>[2] = e /\ <<d, e, f>>[3] = f
    OBVIOUS
  <1> QED BY <1>2, <1>3, TalkLast DEF Good

LEMMA GoodNone == \A m : Good(<<>>, m) /\ Len(<<>>) = 0
  BY DEF Good

(* Paying for a signup: each reward before the mark that it is completed.  *)
LEMMA CompletedServed ==
  ASSUME BotConstants, BotIInv, NEW m, Update(m), NEW d, Served(d, m), NEW s, s = Talking!completeSignup(d, m.from)
  PROVE  Good(s, m) /\ Len(s) > 0 /\ Talking!Last(s).tickets = d.tickets /\ Served(Talking!Last(s), m)
  <1>1. PICK u \in Customers : u = m.from
    BY DEF Update
  <1>2. StoreOk(d) /\ d.people[u] \in Someone /\ d.people[u].referredBy \in Customers \cup {0}
    BY <1>1 DEF Served, StoreOk, Store, Someone
  <1>3. d.people[u].referredBy # u
    <2>1. db.people[u].referredBy # u
      BY <1>1 DEF BotConstants, BotIInv, InviteInv
    <2> QED BY <1>1, <2>1 DEF Served
  <1>4. ASSUME NEW e, Served(e, m), e.people = d.people, e.tickets = d.tickets, Talking!Due(d, u) \subseteq e.rewards,
               NEW x, x = Talking!Saved(e, u, "signupCompleted", TRUE)
        PROVE  Served(x, m) /\ x.tickets = d.tickets
    <2>1. StoreOk(e)
      BY <1>4 DEF Served
    <2>2. PICK p : p = [d.people[u] EXCEPT !.signupCompleted = TRUE]
      OBVIOUS
    <2>3. p \in Someone /\ p.known = d.people[u].known /\ p.referredBy = d.people[u].referredBy
      BY <1>2, <2>2 DEF Someone
    <2>4. x = WithPerson(e, u, p)
      BY <1>4, <2>2 DEF Talking!Saved, WithPerson
    <2>5. /\ StoreOk(x) /\ x.people[u] = p /\ \A v \in Customers : v # u => x.people[v] = e.people[v]
          /\ x.rewards = e.rewards /\ x.tickets = e.tickets
      <3>1. p \in Someone
        BY <2>3
      <3> QED BY <1>1, <2>1, <2>4, <3>1, PersonSaves
    <2>6. Talking!Due(x, u) = Talking!Due(d, u)
      <3>1. x.people[u].referredBy = d.people[u].referredBy
        BY <2>3, <2>5
      <3>2. \A v \in Customers : v # u => x.people[v] = d.people[v]
        BY <1>4, <2>5
      <3> QED BY <1>1, <1>2, <1>3, <2>5, <3>1, <3>2, DueSame
    <2>7. Served(x, m)
      <3>1. x.people[u].known = e.people[u].known /\ x.people[u].referredBy = e.people[u].referredBy
        BY <1>4, <2>3, <2>5
      <3>2. Talking!Due(x, u) \subseteq x.rewards
        BY <1>4, <2>5, <2>6
      <3> QED BY <1>1, <1>4, <2>5, <3>1, <3>2 DEF Served
    <2> QED BY <1>4, <2>5, <2>7
  <1>5. CASE d.people[u].signupCompleted
    <2>1. s = <<d>>
      BY <1>1, <1>5 DEF Talking!completeSignup
    <2> QED BY <2>1, GoodOne
  <1>6. CASE ~d.people[u].signupCompleted /\ ~loyalty
    <2>1. PICK x : x = Talking!Saved(d, u, "signupCompleted", TRUE)
      OBVIOUS
    <2>2. s = <<x>>
      BY <1>1, <1>6, <2>1 DEF Talking!completeSignup
    <2>3. Talking!Due(d, u) \subseteq d.rewards
      BY <1>6 DEF Talking!Due
    <2>4. Served(x, m) /\ x.tickets = d.tickets
      BY <1>4, <2>1, <2>3
    <2> QED BY <2>2, <2>4, GoodOne
  <1>7. CASE ~d.people[u].signupCompleted /\ loyalty
    <2>1. PICK i \in Customers \cup {0} : i = Talking!Inviter(d, u) /\ (i # 0 => i = d.people[u].referredBy)
      BY <1>2 DEF Talking!Inviter
    <2>2. PICK d1 : d1 = Talking!Rewarded(d, Talking!Signup(u))
      OBVIOUS
    <2>3. PICK d2 : d2 = IF i # 0 THEN Talking!Rewarded(d1, Talking!Referral(u, i)) ELSE d1
      OBVIOUS
    <2>4. PICK x : x = Talking!Saved(d2, u, "signupCompleted", TRUE)
      OBVIOUS
    <2>5. s = <<d1, d2, x>>
      BY <1>1, <1>7, <2>1, <2>2, <2>3, <2>4 DEF Talking!completeSignup
    <2>6. Talking!Signup(u) \in Reward /\ Talking!Signup(u).kind # "referral"
      BY DEF Talking!Signup, Reward
    <2>7. /\ Served(d1, m) /\ d1.people = d.people /\ d1.rewards = d.rewards \cup {Talking!Signup(u)} /\ d1.tickets = d.tickets
          /\ Talking!Due(d1, u) = Talking!Due(d, u)
      BY <1>1, <2>2, <2>6, RewardServed
    <2>8. /\ Served(d2, m) /\ d2.people = d.people /\ d2.tickets = d.tickets
          /\ Talking!Due(d, u) \subseteq d2.rewards
      <3>1. CASE i = 0
        <4>1. d2 = d1
          BY <2>3, <3>1
        <4>2. Talking!Due(d, u) = {Talking!Signup(u)}
          BY <1>7, <2>1, <3>1 DEF Talking!Due
        <4> QED BY <2>7, <4>1, <4>2
      <3>2. CASE i # 0
        <4>1. PICK r : r = Talking!Referral(u, i)
          OBVIOUS
        <4>2. r \in Reward /\ r.of = u /\ r.to = i
          BY <2>1, <3>2, <4>1 DEF Talking!Referral, Reward
        <4>3. r.kind = "referral" => r.of = m.from /\ r.to = d1.people[m.from].referredBy /\ r.to # 0
          BY <1>1, <2>1, <2>7, <3>2, <4>2
        <4>4. d2 = Talking!Rewarded(d1, r)
          BY <2>3, <3>2, <4>1
        <4>5. Served(d2, m) /\ d2.people = d1.people /\ d2.rewards = d1.rewards \cup {r} /\ d2.tickets = d1.tickets
          BY <2>7, <4>2, <4>3, <4>4, RewardServed
        <4>6. Talking!Due(d, u) = {Talking!Signup(u)} \cup {r}
          BY <1>7, <2>1, <3>2, <4>1 DEF Talking!Due
        <4> QED BY <2>7, <4>5, <4>6
      <3> QED BY <3>1, <3>2
    <2>9. Served(x, m) /\ x.tickets = d.tickets
      BY <1>4, <2>4, <2>8
    <2> QED BY <2>5, <2>7, <2>8, <2>9, GoodThree
  <1> QED BY <1>5, <1>6, <1>7

LEMMA TicketServed ==
  ASSUME BotConstants, BotIInv, NEW m, Update(m), NEW d, Served(d, m), d.tickets = db.tickets, m.text = "words",
         NEW x, x = Talking!Ticket(d, m.from)
  PROVE  Served(x, m)
  <1>1. PICK u \in Customers : u = m.from
    BY DEF Update
  <1>2. StoreOk(d) /\ d \in Store /\ d.tickets \in [Customers -> Nat]
    BY DEF Served, StoreOk, Store
  <1>3. PICK n \in Nat : n = d.tickets[u] + 1
    BY <1>1, <1>2
  <1>4. PICK all : all = [d.tickets EXCEPT ![u] = n]
    OBVIOUS
  <1>5. all \in [Customers -> Nat]
    BY <1>2, <1>4
  <1>6. x = [d EXCEPT !.tickets = all]
    BY <1>1, <1>3, <1>4 DEF Talking!Ticket
  <1>7. /\ x \in Store /\ x.people = d.people /\ x.points = d.points /\ x.rewards = d.rewards /\ x.tickets = all
        /\ x.votes = d.votes /\ x.tally = d.tally /\ x.participants = d.participants
    BY <1>2, <1>5, <1>6 DEF Store
  <1>8. StoreOk(x)
    BY <1>2, <1>7 DEF StoreOk
  <1>9. all = [db.tickets EXCEPT ![u] = @ + 1]
    BY <1>3, <1>4
  <1>10. Talking!Due(x, m.from) = Talking!Due(d, m.from)
    BY <1>7 DEF Talking!Due, Talking!Inviter
  <1> QED BY <1>1, <1>7, <1>8, <1>9, <1>10 DEF Served

LEMMA DeepServed ==
  ASSUME BotConstants, BotIInv, NEW m, Update(m), NEW d, Served(d, m), NEW t, NEW s, s = Talking!deepStart(d, m.from, t)
  PROVE  Good(s, m)
  <1>1. CASE t = "fb"
    <2>1. PICK e : e = Talking!Saved(d, m.from, "flow", "feedback")
      OBVIOUS
    <2>2. PICK x : x = Talking!Saved(e, m.from, "supportOpen", FALSE)
      OBVIOUS
    <2>3. Served(e, m)
      <3>1. Quiet("flow", "feedback")
        BY DEF Quiet
      <3> QED BY <2>1, <3>1, QuietSave DEF Update
    <2>4. Served(x, m)
      <3>1. Quiet("supportOpen", FALSE)
        BY DEF Quiet
      <3> QED BY <2>2, <2>3, <3>1, QuietSave DEF Update
    <2>5. s = <<x>>
      BY <1>1, <2>1, <2>2 DEF Talking!deepStart
    <2> QED BY <2>4, <2>5, GoodOne
  <1>2. CASE t # "fb"
    BY <1>2, GoodNone DEF Talking!deepStart
  <1> QED BY <1>1, <1>2

(* A vote, its count and the points of a quiz are one save.                *)
LEMMA VotedServed ==
  ASSUME BotConstants, BotIInv, NEW m, Update(m), NEW d, Served(d, m), NEW o \in {1, 2},
         NEW x, x = Talking!Voted(d, m.from, o)
  PROVE  Served(x, m)
  <1>1. PICK u \in Customers : u = m.from
    BY DEF Update
  <1>2. /\ StoreOk(d) /\ d \in Store /\ d.votes \in [Customers -> SUBSET {1, 2}] /\ d.tally \in [{1, 2} -> Nat]
        /\ d.participants \in Nat
    BY DEF Served, StoreOk, Store
  <1>3. PICK mine \in SUBSET {1, 2} : mine = d.votes[u]
    BY <1>1, <1>2
  <1>4. PICK now \in SUBSET {1, 2} :
          now = IF pollMode = "multiple" THEN (IF o \in mine THEN mine \ {o} ELSE mine \cup {o}) ELSE {o}
    OBVIOUS
  <1>5. PICK votes : votes = [d.votes EXCEPT ![u] = now]
    OBVIOUS
  <1>6. PICK tally : tally = [p \in {1, 2} |-> d.tally[p] + (IF p \in now \ mine THEN 1 ELSE 0)
                                               - (IF p \in mine \ now THEN 1 ELSE 0)]
    OBVIOUS
  <1>7. PICK n : n = d.participants + (IF mine = {} /\ now # {} THEN 1 ELSE 0) - (IF mine # {} /\ now = {} THEN 1 ELSE 0)
    OBVIOUS
  <1>70. PICK up \in {0, 1}, down \in {0, 1} : /\ up = IF mine = {} /\ now # {} THEN 1 ELSE 0
                                               /\ down = IF mine # {} /\ now = {} THEN 1 ELSE 0
                                               /\ n = d.participants + up - down
    BY <1>7
  <1>8. PICK d1 : d1 = [d EXCEPT !.votes = votes, !.tally = tally, !.participants = n]
    OBVIOUS
  <1>9. votes \in [Customers -> SUBSET {1, 2}] /\ votes[u] = now /\ \A v \in Customers : v # u => votes[v] = d.votes[v]
    BY <1>1, <1>2, <1>4, <1>5
  <1>10. \A p \in {1, 2} : tally[p] \in Nat /\ tally[p] = Cardinality({v \in Customers : p \in votes[v]})
    <2> SUFFICES ASSUME NEW p \in {1, 2}
                 PROVE  tally[p] \in Nat /\ tally[p] = Cardinality({v \in Customers : p \in votes[v]})
      OBVIOUS
    <2>1. PICK old : old = {v \in Customers : p \in d.votes[v]}
      OBVIOUS
    <2>2. IsFiniteSet(old) /\ d.tally[p] = Cardinality(old) /\ Cardinality(old) \in Nat
      <3>1. IsFiniteSet(old)
        BY <2>1, FS_Subset DEF BotConstants
      <3> QED BY <1>2, <2>1, <3>1, FS_CardinalityType DEF StoreOk
    <2>3. CASE p \in now /\ p \notin mine
      <3>1. {v \in Customers : p \in votes[v]} = old \cup {u} /\ u \notin old
        BY <1>1, <1>3, <1>9, <2>1, <2>3
      <3>2. Cardinality(old \cup {u}) = Cardinality(old) + 1
        BY <2>2, <3>1, FS_AddElement
      <3>3. tally[p] = d.tally[p] + 1
        BY <1>6, <2>2, <2>3
      <3>4. Cardinality({v \in Customers : p \in votes[v]}) = Cardinality(old) + 1
        BY <3>1, <3>2
      <3> QED BY <2>2, <3>3, <3>4
    <2>4. CASE p \notin now /\ p \in mine
      <3>1. {v \in Customers : p \in votes[v]} = old \ {u} /\ u \in old
        BY <1>1, <1>3, <1>9, <2>1, <2>4
      <3>2. Cardinality(old \ {u}) = Cardinality(old) - 1 /\ Cardinality(old \ {u}) \in Nat
        BY <2>2, <3>1, FS_RemoveElement, FS_CardinalityType
      <3>3. tally[p] = d.tally[p] - 1
        BY <1>6, <2>2, <2>4
      <3> QED BY <2>2, <3>1, <3>2, <3>3
    <2>5. CASE (p \in now) <=> (p \in mine)
      <3>1. {v \in Customers : p \in votes[v]} = old
        BY <1>1, <1>3, <1>9, <2>1, <2>5
      <3>2. tally[p] = d.tally[p]
        BY <1>6, <2>2, <2>5
      <3> QED BY <2>2, <3>1, <3>2
    <2> QED BY <2>3, <2>4, <2>5
  <1>11. n \in Nat /\ n = Cardinality({v \in Customers : votes[v] # {}})
    <2>1. PICK old : old = {v \in Customers : d.votes[v] # {}}
      OBVIOUS
    <2>2. IsFiniteSet(old) /\ d.participants = Cardinality(old) /\ Cardinality(old) \in Nat
      <3>1. IsFiniteSet(old)
        BY <2>1, FS_Subset DEF BotConstants
      <3> QED BY <1>2, <2>1, <3>1, FS_CardinalityType DEF StoreOk
    <2>3. CASE mine = {} /\ now # {}
      <3>1. {v \in Customers : votes[v] # {}} = old \cup {u} /\ u \notin old
        BY <1>1, <1>3, <1>9, <2>1, <2>3
      <3>2. Cardinality(old \cup {u}) = Cardinality(old) + 1
        BY <2>2, <3>1, FS_AddElement
      <3>3. n = d.participants + 1
        BY <1>7, <2>2, <2>3
      <3>4. Cardinality({v \in Customers : votes[v] # {}}) = Cardinality(old) + 1
        BY <3>1, <3>2
      <3> QED BY <2>2, <3>3, <3>4
    <2>4. CASE mine # {} /\ now = {}
      <3>1. {v \in Customers : votes[v] # {}} = old \ {u} /\ u \in old
        BY <1>1, <1>3, <1>9, <2>1, <2>4
      <3>2. Cardinality(old \ {u}) = Cardinality(old) - 1 /\ Cardinality(old \ {u}) \in Nat
        BY <2>2, <3>1, FS_RemoveElement, FS_CardinalityType
      <3>3. n = d.participants - 1
        BY <1>7, <2>2, <2>4
      <3> QED BY <2>2, <3>1, <3>2, <3>3
    <2>5. CASE (mine = {}) <=> (now = {})
      <3>1. {v \in Customers : votes[v] # {}} = old
        BY <1>1, <1>3, <1>9, <2>1, <2>5
      <3>2. n = d.participants
        <4>1. up = 0 /\ down = 0 /\ d.participants \in Nat
          BY <1>2, <1>70, <2>5
        <4>2. n = d.participants + 0 - 0
          BY <1>70, <4>1
        <4> QED BY <4>1, <4>2
      <3> QED BY <2>2, <3>1, <3>2
    <2> QED BY <2>3, <2>4, <2>5
  <1>12. /\ d1 \in Store /\ d1.people = d.people /\ d1.points = d.points /\ d1.rewards = d.rewards
         /\ d1.tickets = d.tickets /\ d1.votes = votes /\ d1.tally = tally /\ d1.participants = n
    <2>1. tally \in [{1, 2} -> Nat]
      BY <1>6, <1>10
    <2> QED BY <1>2, <1>8, <1>9, <1>11, <2>1 DEF Store
  <1>13. StoreOk(d1)
    BY <1>2, <1>10, <1>11, <1>12 DEF StoreOk
  <1>14. Served(d1, m)
    <2>1. Talking!Due(d1, m.from) = Talking!Due(d, m.from)
      BY <1>12 DEF Talking!Due, Talking!Inviter
    <2> QED BY <1>1, <1>12, <1>13, <2>1 DEF Served
  <1>15. x = d \/ x = d1 \/ x = Talking!Rewarded(d1, Talking!Quiz(u))
    <2>1. d1 = [d EXCEPT !.votes[u] = now,
                         !.tally = [p \in {1, 2} |-> @[p] + (IF p \in now \ mine THEN 1 ELSE 0)
                                                     - (IF p \in mine \ now THEN 1 ELSE 0)],
                         !.participants = @ + (IF mine = {} /\ now # {} THEN 1 ELSE 0)
                                            - (IF mine # {} /\ now = {} THEN 1 ELSE 0)]
      BY <1>2, <1>5, <1>6, <1>7, <1>8 DEF Store
    <2> QED BY <1>1, <1>3, <1>4, <2>1 DEF Talking!Voted, Talking!Options
  <1>16. CASE x = Talking!Rewarded(d1, Talking!Quiz(u))
    <2>1. Talking!Quiz(u) \in Reward /\ Talking!Quiz(u).kind # "referral"
      BY DEF Talking!Quiz, Reward
    <2> QED BY <1>14, <1>16, <2>1, RewardServed
  <1> QED BY <1>14, <1>15, <1>16

(* What the gate let through.                                              *)
LEMMA CommandServed ==
  ASSUME BotConstants, BotIInv, NEW m, Update(m), NEW d, Served(d, m), d.tickets = db.tickets,
         NEW s, s = Talking!Command(d, m.from, m)
  PROVE  Good(s, m)
  <1>1. CASE m.text = "/start"
    <2>1. PICK x : x = Talking!Saved(d, m.from, "pendingStart", "")
      OBVIOUS
    <2>2. Served(x, m)
      <3>1. Quiet("pendingStart", "")
        BY DEF Quiet
      <3> QED BY <2>1, <3>1, QuietSave DEF Update
    <2>3. PICK t : t = Talking!deepStart(x, m.from, d.people[m.from].pendingStart)
      OBVIOUS
    <2>4. Good(t, m) /\ Good(<<x>>, m)
      BY <2>2, <2>3, DeepServed, GoodOne
    <2>5. s = <<x>> \o t
      BY <1>1, <2>1, <2>3 DEF Talking!Command
    <2> QED BY <2>4, <2>5, GoodJoin
  <1>2. CASE m.text = "/cancel"
    <2>1. PICK e : e = Talking!Saved(d, m.from, "flow", "")
      OBVIOUS
    <2>2. PICK x : x = Talking!Saved(e, m.from, "supportOpen", FALSE)
      OBVIOUS
    <2>3. Quiet("flow", "") /\ Quiet("supportOpen", FALSE)
      BY DEF Quiet
    <2>4. Served(e, m)
      BY <2>1, <2>3, QuietSave DEF Update
    <2>5. Served(x, m)
      BY <2>2, <2>3, <2>4, QuietSave DEF Update
    <2>6. s = <<x>>
      BY <1>2, <2>1, <2>2 DEF Talking!Command
    <2> QED BY <2>5, <2>6, GoodOne
  <1>3. CASE m.text = "/support"
    <2>1. PICK e : e = Talking!Saved(d, m.from, "flow", "")
      OBVIOUS
    <2>2. PICK x : x = Talking!Saved(e, m.from, "supportOpen", TRUE)
      OBVIOUS
    <2>3. Quiet("flow", "") /\ Quiet("supportOpen", TRUE)
      BY DEF Quiet
    <2>4. Served(e, m)
      BY <2>1, <2>3, QuietSave DEF Update
    <2>5. Served(x, m)
      BY <2>2, <2>3, <2>4, QuietSave DEF Update
    <2>6. s = <<x>>
      BY <1>3, <2>1, <2>2 DEF Talking!Command
    <2> QED BY <2>5, <2>6, GoodOne
  <1>4. CASE m.text = "words"
    <2>1. PICK x : x = Talking!Ticket(d, m.from)
      OBVIOUS
    <2>2. PICK y : y = Talking!Saved(x, m.from, "flow", "")
      OBVIOUS
    <2>3. Served(x, m)
      BY <1>4, <2>1, TicketServed
    <2>4. Served(y, m)
      <3>1. Quiet("flow", "")
        BY DEF Quiet
      <3> QED BY <2>2, <2>3, <3>1, QuietSave DEF Update
    <2>5. s = <<x, y>> \/ s = <<x>> \/ s = <<>>
      BY <1>4, <2>1, <2>2 DEF Talking!Command
    <2>6. Good(<<x, y>>, m) /\ Good(<<x>>, m) /\ Good(<<>>, m)
      BY <2>3, <2>4, GoodOne, GoodTwo, GoodNone
    <2> QED BY <2>5, <2>6
  <1>5. CASE m.text \notin {"/start", "/cancel", "/support", "words"}
    BY <1>5, GoodNone DEF Talking!Command
  <1> QED BY <1>1, <1>2, <1>3, <1>4, <1>5

LEMMA MessageServed ==
  ASSUME BotConstants, BotIInv, NEW m, Update(m), NEW s, s = Talking!onMessage(db, m)
  PROVE  Good(s, m) /\ Len(s) > 0
  <1>1. PICK d1 : d1 = Talking!touchUser(db, m.from)
    OBVIOUS
  <1>2. PICK d2 : d2 = Talking!Started(d1, m.from, m, ~db.people[m.from].known)
    OBVIOUS
  <1>3. PICK signup : signup = Talking!completeSignup(d2, m.from)
    OBVIOUS
  <1>4. PICK e : e = Talking!Last(signup)
    OBVIOUS
  <1>5. PICK t : t = Talking!Command(e, m.from, m)
    OBVIOUS
  <1>6. /\ Served(d1, m) /\ d1.rewards = db.rewards /\ d1.tickets = db.tickets
        /\ d1.people[m.from].referredBy = db.people[m.from].referredBy
        /\ d1.people[m.from].signupCompleted = db.people[m.from].signupCompleted
    BY <1>1, FirstTouch
  <1>7. Served(d2, m) /\ d2.tickets = db.tickets
    BY <1>2, <1>6, StartKept
  <1>8. Good(signup, m) /\ Served(e, m) /\ e.tickets = db.tickets
    BY <1>3, <1>4, <1>7, CompletedServed
  <1>9. Good(t, m)
    BY <1>5, <1>8, CommandServed
  <1>10. Good(<<d1>>, m) /\ Len(<<d1>>) = 1 /\ Good(<<d1, d2>>, m) /\ Len(<<d1, d2>>) = 2
    BY <1>6, <1>7, GoodOne, GoodTwo
  <1>11. Good((<<d1, d2>> \o signup) \o t, m) /\ Len((<<d1, d2>> \o signup) \o t) > 0
    <2>1. Good(<<d1, d2>> \o signup, m) /\ Len(<<d1, d2>> \o signup) = 2 + Len(signup)
      BY <1>8, <1>10, GoodJoin
    <2>2. Good((<<d1, d2>> \o signup) \o t, m) /\ Len((<<d1, d2>> \o signup) \o t) = Len(<<d1, d2>> \o signup) + Len(t)
      BY <1>9, <2>1, GoodJoin
    <2>3. Len(signup) \in Nat /\ Len(t) \in Nat
      BY <1>8, <1>9, LenProperties DEF Good
    <2> QED BY <2>1, <2>2, <2>3
  <1>12. s = <<d1>> \/ s = <<d1, d2>> \/ s = (<<d1, d2>> \o signup) \o t
    BY <1>1, <1>2, <1>3, <1>4, <1>5 DEF Talking!onMessage
  <1>13. CASE s = <<d1>>
    BY <1>10, <1>13
  <1>14. CASE s = <<d1, d2>>
    BY <1>10, <1>14
  <1>15. CASE s = (<<d1, d2>> \o signup) \o t
    BY <1>11, <1>15
  <1> QED BY <1>12, <1>13, <1>14, <1>15

LEMMA TapServed ==
  ASSUME BotConstants, BotIInv, NEW m, Update(m), NEW s, s = Talking!onCallback(db, m)
  PROVE  Good(s, m) /\ Len(s) > 0
  <1>1. PICK d1 : d1 = Talking!touchUser(db, m.from)
    OBVIOUS
  <1>2. PICK signup : signup = Talking!completeSignup(d1, m.from)
    OBVIOUS
  <1>3. PICK e : e = Talking!Last(signup)
    OBVIOUS
  <1>4. PICK d2 : d2 = Talking!Saved(e, m.from, "pendingStart", "")
    OBVIOUS
  <1>5. PICK t : t = Talking!deepStart(d2, m.from, d1.people[m.from].pendingStart)
    OBVIOUS
  <1>6. Served(d1, m) /\ Good(<<d1>>, m) /\ Len(<<d1>>) = 1
    BY <1>1, FirstTouch, GoodOne
  <1>7. Good(signup, m) /\ Served(e, m)
    BY <1>2, <1>3, <1>6, CompletedServed
  <1>8. Served(d2, m) /\ Good(<<d2>>, m) /\ Len(<<d2>>) = 1
    <2>1. Quiet("pendingStart", "")
      BY DEF Quiet
    <2>2. Served(d2, m)
      BY <1>4, <1>7, <2>1, QuietSave DEF Update
    <2> QED BY <2>2, GoodOne
  <1>9. Good(t, m)
    BY <1>5, <1>8, DeepServed
  <1>10. Good(((<<d1>> \o signup) \o <<d2>>) \o t, m) /\ Len(((<<d1>> \o signup) \o <<d2>>) \o t) > 0
    <2>1. Good(<<d1>> \o signup, m) /\ Len(<<d1>> \o signup) = 1 + Len(signup)
      BY <1>6, <1>7, GoodJoin
    <2>2. Good((<<d1>> \o signup) \o <<d2>>, m) /\ Len((<<d1>> \o signup) \o <<d2>>) = 1 + Len(signup) + 1
      BY <1>8, <2>1, GoodJoin
    <2>3. /\ Good(((<<d1>> \o signup) \o <<d2>>) \o t, m)
          /\ Len(((<<d1>> \o signup) \o <<d2>>) \o t) = Len((<<d1>> \o signup) \o <<d2>>) + Len(t)
      BY <1>9, <2>2, GoodJoin
    <2>4. Len(signup) \in Nat /\ Len(t) \in Nat
      BY <1>7, <1>9, LenProperties DEF Good
    <2> QED BY <2>2, <2>3, <2>4
  <1>11. ASSUME m.data \in {1, 2} PROVE Good(<<d1, Talking!Voted(d1, m.from, m.data)>>, m) /\ Len(<<d1, Talking!Voted(d1, m.from, m.data)>>) > 0
    <2>1. PICK x : x = Talking!Voted(d1, m.from, m.data)
      OBVIOUS
    <2>2. Served(x, m)
      BY <1>6, <1>11, <2>1, VotedServed
    <2>3. Good(<<d1, x>>, m) /\ Len(<<d1, x>>) = 2
      BY <1>6, <2>2, GoodTwo
    <2> QED BY <2>1, <2>3
  <1>12. PICK f : f = Talking!Saved(d1, m.from, "supportOpen", TRUE)
    OBVIOUS
  <1>13. PICK x : x = Talking!Saved(f, m.from, "flow", "")
    OBVIOUS
  <1>14. Good(<<d1, x>>, m) /\ Len(<<d1, x>>) = 2
    <2>1. Quiet("supportOpen", TRUE) /\ Quiet("flow", "")
      BY DEF Quiet
    <2>2. Served(f, m)
      BY <1>6, <1>12, <2>1, QuietSave DEF Update
    <2>3. Served(x, m)
      BY <1>13, <2>1, <2>2, QuietSave DEF Update
    <2> QED BY <1>6, <2>3, GoodTwo
  <1>15. \/ s = <<d1>>
         \/ s = ((<<d1>> \o signup) \o <<d2>>) \o t
         \/ s = <<d1, x>>
         \/ m.data \in {1, 2} /\ s = <<d1, Talking!Voted(d1, m.from, m.data)>>
    <2>1. CASE db.people[m.from].banned \/ ~m.gate
      BY <1>1, <2>1 DEF Talking!onCallback
    <2>2. CASE ~(db.people[m.from].banned \/ ~m.gate) /\ m.data \in {1, 2}
      <3>0. m.data \in Talking!Options
        BY <2>2 DEF Talking!Options
      <3>1. s = <<d1, Talking!Voted(d1, m.from, m.data)>>
        BY <1>1, <2>2, <3>0, SMTT(30) DEF Talking!onCallback
      <3> QED BY <2>2, <3>1
    <2>3. CASE ~(db.people[m.from].banned \/ ~m.gate) /\ m.data = 0
      <3>0. m.data \notin Talking!Options
        BY <2>3 DEF Talking!Options
      <3>1. s = ((<<Talking!touchUser(db, m.from)>> \o Talking!completeSignup(Talking!touchUser(db, m.from), m.from))
                 \o <<Talking!Saved(Talking!Last(Talking!completeSignup(Talking!touchUser(db, m.from), m.from)),
                                    m.from, "pendingStart", "")>>)
                \o Talking!deepStart(Talking!Saved(Talking!Last(Talking!completeSignup(Talking!touchUser(db, m.from), m.from)),
                                                   m.from, "pendingStart", ""),
                                     m.from, Talking!touchUser(db, m.from).people[m.from].pendingStart)
        BY <2>3, <3>0 DEF Talking!onCallback
      <3>2. s = ((<<d1>> \o signup) \o <<d2>>) \o t
        BY <1>1, <1>2, <1>3, <1>4, <1>5, <3>1, Zenon
      <3> QED BY <3>2
    <2>4. CASE ~(db.people[m.from].banned \/ ~m.gate) /\ m.data \notin {0, 1, 2}
      <3>1. s = <<d1, x>>
        BY <1>1, <1>12, <1>13, <2>4 DEF Talking!onCallback, Talking!Options
      <3> QED BY <3>1
    <2> QED BY <2>1, <2>2, <2>3, <2>4
  <1>16. CASE s = <<d1>>
    BY <1>6, <1>16
  <1>17. CASE s = ((<<d1>> \o signup) \o <<d2>>) \o t
    BY <1>10, <1>17
  <1>18. CASE s = <<d1, x>>
    BY <1>14, <1>18
  <1>19. CASE m.data \in {1, 2} /\ s = <<d1, Talking!Voted(d1, m.from, m.data)>>
    BY <1>11, <1>19
  <1> QED BY <1>15, <1>16, <1>17, <1>18, <1>19

(* Tickets grow by the text of the update alone.                           *)
LEMMA TicketsGrow ==
  ASSUME BotConstants, StoreOk(db), NEW m, Update(m), NEW d, Served(d, m)
  PROVE  /\ SumFunctionOnSet(d.tickets, Customers) \in Nat /\ SumFunctionOnSet(db.tickets, Customers) \in Nat
         /\ SumFunctionOnSet(d.tickets, Customers)
              <= SumFunctionOnSet(db.tickets, Customers) + (IF m.text = "words" THEN 1 ELSE 0)
  <1>1. PICK u \in Customers : u = m.from
    BY DEF Update
  <1>2. PICK f \in [Customers -> Nat], g \in [Customers -> Nat] : f = db.tickets /\ g = d.tickets
    BY DEF Served, StoreOk, Store
  <1>3. SumFunctionOnSet(f, Customers) \in Nat /\ SumFunctionOnSet(g, Customers) \in Nat
    <2>1. \A v \in Customers : f[v] \in Nat /\ g[v] \in Nat
      OBVIOUS
    <2> QED BY <2>1, SumNat DEF BotConstants
  <1>4. CASE g = f
    BY <1>2, <1>3, <1>4
  <1>5. CASE m.text = "words" /\ g = [f EXCEPT ![u] = @ + 1]
    <2>1. \A v \in Customers : f[v] \in Int /\ g[v] \in Int
      OBVIOUS
    <2>2. g[u] = f[u] + 1 /\ \A v \in Customers \ {u} : f[v] = g[v]
      BY <1>5
    <2>3. SumFunctionOnSet(g, Customers) = SumFunctionOnSet(f, Customers) + (g[u] - f[u])
      BY <2>1, <2>2, SumChange DEF BotConstants
    <2>4. g[u] - f[u] = 1
      BY <2>1, <2>2
    <2> QED BY <1>2, <1>3, <1>5, <2>3, <2>4
  <1>6. g = f \/ (m.text = "words" /\ g = [f EXCEPT ![u] = @ + 1])
    BY <1>1, <1>2 DEF Served
  <1> QED BY <1>4, <1>5, <1>6

LEMMA ServeKeeps ==
  ASSUME BotConstants, BotIInv, NEW m, Update(m), NEW s, Good(s, m), Len(s) > 0, Talking!Serve(m, s)
  PROVE  BotIInv'
  <1>1. PICK u \in Customers : u = m.from
    BY DEF Update
  <1>2. StoreOk(db) /\ owed \subseteq db.rewards /\ InviteInv /\ TextInv
    BY DEF BotIInv
  <1>3. PICK d : d = db'
    OBVIOUS
  <1>4. Served(d, m)
    <2>1. CASE db' = Talking!Last(s)
      <3>1. d = s[Len(s)] /\ Len(s) \in DOMAIN s
        BY <1>3, <2>1, TalkLast, LenProperties DEF Good
      <3> QED BY <3>1 DEF Good
    <2>2. CASE \E k \in DOMAIN s : db' = s[k]
      BY <1>3, <2>2 DEF Good
    <2> QED BY <2>1, <2>2 DEF Talking!Serve
  <1>5. /\ StoreOk(d) /\ \A v \in Customers : v # u => d.people[v] = db.people[v]
        /\ d.people[u].known /\ db.rewards \subseteq d.rewards
        /\ \/ d.people[u].referredBy = db.people[u].referredBy
           \/ ~db.people[u].known /\ d.people[u].referredBy = m.inviter /\ m.inviter \notin {0, u}
        /\ \A r \in d.rewards \ db.rewards : r.kind = "referral" => r.of = u /\ r.to = d.people[u].referredBy /\ r.to # 0
        /\ d.people[u].signupCompleted /\ ~db.people[u].signupCompleted => Talking!Due(d, u) \subseteq d.rewards
    BY <1>1, <1>4 DEF Served
  <1>6. StoreOk(db)'
    BY <1>3, <1>5 DEF StoreOk
  <1>7. d.people[u].referredBy # u /\ db.people[u].referredBy # u /\ d.people[u].referredBy \in Customers \cup {0}
    <2>1. db.people[u].referredBy # u
      BY <1>1, <1>2 DEF BotConstants, InviteInv
    <2>2. d.people[u].referredBy \in Customers \cup {0}
      BY <1>5 DEF StoreOk, Store, Someone
    <2> QED BY <1>5, <2>1, <2>2
  <1>8. (owed \subseteq db.rewards)'
    <2>1. CASE d.people[u].signupCompleted /\ ~db.people[u].signupCompleted
      <3>1. PICK e : e = [db EXCEPT !.people[u].referredBy = d.people[u].referredBy]
        OBVIOUS
      <3>2. PICK n \in Customers \cup {0} : n = d.people[u].referredBy
        BY <1>7
      <3>3. PICK q : q = [db.people[u] EXCEPT !.referredBy = n]
        OBVIOUS
      <3>4. e = WithPerson(db, u, q)
        BY <3>1, <3>2, <3>3 DEF WithPerson
      <3>5. db.people[u] \in Someone
        BY <1>2 DEF StoreOk, Store
      <3>6. q \in Someone /\ q.referredBy = n
        BY <3>3, <3>5 DEF Someone
      <3>7. StoreOk(e) /\ e.people[u] = q /\ \A v \in Customers : v # u => e.people[v] = db.people[v]
        <4>1. q \in Someone
          BY <3>6
        <4> QED BY <1>1, <1>2, <3>4, <4>1, PersonSaves
      <3>8. Talking!Due(e, u) = Talking!Due(d, u)
        <4>1. e.people[u].referredBy = d.people[u].referredBy
          BY <3>2, <3>6, <3>7
        <4>2. \A v \in Customers : v # u => e.people[v] = d.people[v]
          BY <1>5, <3>7
        <4> QED BY <1>1, <1>5, <1>7, <3>7, <4>1, <4>2, DueSame
      <3>9. owed' = owed \cup Talking!Due(e, u)
        BY <1>1, <1>3, <2>1, <3>1 DEF Talking!Serve
      <3> QED BY <1>2, <1>3, <1>5, <2>1, <3>8, <3>9
    <2>2. CASE ~(d.people[u].signupCompleted /\ ~db.people[u].signupCompleted)
      <3>1. owed' = owed
        BY <1>1, <1>3, <2>2 DEF Talking!Serve
      <3> QED BY <1>2, <1>3, <1>5, <3>1
    <2> QED BY <2>1, <2>2
  <1>9. InviteInv'
    <2>1. PICK first : first = firstStart'
      OBVIOUS
    <2>2. /\ first \in [Customers -> Customers \cup {0}]
          /\ first[u] = IF ~db.people[u].known /\ m.inviter # u THEN m.inviter ELSE firstStart[u]
          /\ \A v \in Customers : v # u => first[v] = firstStart[v]
      <3>1. first = [firstStart EXCEPT ![u] = IF ~db.people[u].known /\ m.inviter # u THEN m.inviter ELSE @]
        BY <1>1, <2>1 DEF Talking!Serve
      <3>2. firstStart \in [Customers -> Customers \cup {0}] /\ m.inviter \in Customers \cup {0}
        BY <1>2 DEF InviteInv, Update
      <3> QED BY <3>1, <3>2
    <2>3. ASSUME NEW v \in Customers, d.people[v].referredBy # 0
          PROVE  d.people[v].referredBy = first[v] /\ first[v] # v /\ d.people[v].known
      <3>1. CASE v # u
        BY <1>2, <1>5, <2>2, <2>3, <3>1 DEF InviteInv
      <3>2. CASE v = u /\ db.people[u].known
        <4>1. d.people[u].referredBy = db.people[u].referredBy /\ first[u] = firstStart[u]
          BY <1>5, <2>2, <3>2
        <4> QED BY <1>2, <1>5, <2>3, <3>2, <4>1 DEF InviteInv
      <3>3. CASE v = u /\ ~db.people[u].known
        <4>1. db.people[u].referredBy = 0
          BY <1>2, <3>3 DEF InviteInv
        <4>2. d.people[u].referredBy = m.inviter /\ m.inviter # u
          BY <1>5, <2>3, <3>3, <4>1
        <4> QED BY <1>5, <2>2, <3>3, <4>2
      <3> QED BY <3>1, <3>2, <3>3
    <2>4. ASSUME NEW r \in d.rewards, r.kind = "referral"
          PROVE  r.to = first[r.of] /\ r.to # r.of /\ d.people[r.of].known
      <3>1. CASE r \in db.rewards
        <4>1. r.to = firstStart[r.of] /\ r.to # r.of /\ db.people[r.of].known /\ r.of \in Customers
          BY <1>2, <2>4, <3>1 DEF InviteInv, StoreOk, Store, Reward
        <4> QED BY <1>5, <2>2, <4>1
      <3>2. CASE r \notin db.rewards
        <4>1. r.of = u /\ r.to = d.people[u].referredBy /\ r.to # 0
          BY <1>5, <2>4, <3>2
        <4> QED BY <1>5, <1>7, <2>3, <4>1
      <3> QED BY <3>1, <3>2
    <2> QED BY <1>3, <2>1, <2>2, <2>3, <2>4 DEF InviteInv
  <1>10. TextInv'
    <2>1. PICK words : words = {x \in undone : x.text = "words"}
      OBVIOUS
    <2>2. PICK more : more = {x \in undone' : x.text = "words"}
      OBVIOUS
    <2>3. IsFiniteSet(undone) /\ IsFiniteSet(words) /\ Cardinality(words) \in Nat
      <3>1. IsFiniteSet(undone)
        BY <1>2 DEF TextInv
      <3>2. IsFiniteSet(words)
        BY <2>1, <3>1, FS_Subset
      <3> QED BY <3>1, <3>2, FS_CardinalityType
    <2>4. undone' = undone \ {m} \/ undone' = undone \cup {m}
      BY DEF Talking!Serve
    <2>5. IsFiniteSet(undone')
      BY <2>3, <2>4, FS_AddElement, FS_RemoveElement
    <2>6. PICK old \in Nat, new \in Nat : /\ old = SumFunctionOnSet(db.tickets, Customers)
                                          /\ new = SumFunctionOnSet(d.tickets, Customers)
                                          /\ new <= old + (IF m.text = "words" THEN 1 ELSE 0)
      BY <1>2, <1>4, TicketsGrow
    <2>7. texts \in Nat /\ updateStops \in Nat /\ old + Cardinality(words) <= texts + updateStops
      BY <1>2, <2>1, <2>6 DEF TextInv
    <2>8. texts' = texts + (IF m.text = "words" /\ m \notin undone THEN 1 ELSE 0)
      BY DEF Talking!Serve
    <2>9. CASE undone' = undone \ {m} /\ updateStops' = updateStops
      <3>1. CASE m \in words
        <4>1. more = words \ {m} /\ m.text = "words" /\ m \in undone
          BY <2>1, <2>2, <2>9, <3>1
        <4>2. Cardinality(more) = Cardinality(words) - 1 /\ Cardinality(more) \in Nat
          BY <2>3, <3>1, <4>1, FS_RemoveElement, FS_CardinalityType
        <4>3. texts' = texts
          BY <2>7, <2>8, <4>1
        <4>4. new <= old + 1
          BY <2>6
        <4>5. new + Cardinality(more) <= texts' + updateStops'
          BY <2>3, <2>7, <2>9, <4>2, <4>3, <4>4
        <4> QED BY <1>3, <2>2, <2>5, <2>6, <2>7, <2>9, <4>3, <4>5 DEF TextInv
      <3>2. CASE m \notin words
        <4>1. more = words
          BY <2>1, <2>2, <2>9, <3>2
        <4>2. (new <= old /\ texts' = texts) \/ (new <= old + 1 /\ texts' = texts + 1)
          BY <2>1, <2>6, <2>7, <2>8, <3>2
        <4>3. new + Cardinality(more) <= texts' + updateStops' /\ texts' \in Nat
          BY <2>3, <2>7, <2>9, <4>1, <4>2
        <4> QED BY <1>3, <2>2, <2>5, <2>6, <2>7, <2>9, <4>3 DEF TextInv
      <3> QED BY <3>1, <3>2
    <2>10. CASE undone' = undone \cup {m} /\ updateStops' = updateStops + 1
      <3>1. CASE m \in words \/ m.text # "words"
        <4>1. more = words
          BY <2>1, <2>2, <2>10, <3>1
        <4>2. texts' = texts
          BY <2>1, <2>7, <2>8, <3>1
        <4>3. new <= old + 1
          BY <2>6
        <4>4. new + Cardinality(more) <= texts' + updateStops'
          BY <2>3, <2>7, <2>10, <4>1, <4>2, <4>3
        <4> QED BY <1>3, <2>2, <2>5, <2>6, <2>7, <2>10, <4>2, <4>4 DEF TextInv
      <3>2. CASE m \notin words /\ m.text = "words"
        <4>1. more = words \cup {m} /\ m \notin undone
          BY <2>1, <2>2, <2>10, <3>2
        <4>2. Cardinality(more) = Cardinality(words) + 1
          BY <2>3, <3>2, <4>1, FS_AddElement
        <4>3. texts' = texts + 1
          BY <2>8, <3>2, <4>1
        <4>4. new <= old + 1
          BY <2>6
        <4>5. new + Cardinality(more) <= texts' + updateStops' /\ texts' \in Nat
          BY <2>3, <2>7, <2>10, <4>2, <4>3, <4>4
        <4> QED BY <1>3, <2>2, <2>5, <2>6, <2>7, <2>10, <4>5 DEF TextInv
      <3> QED BY <3>1, <3>2
    <2> QED BY <2>9, <2>10 DEF Talking!Serve
  <1> QED BY <1>6, <1>8, <1>9, <1>10 DEF BotIInv

LEMMA BotStep == ASSUME BotConstants, BotIInv, Talking!BotNext PROVE BotIInv'
  <1>1. CASE Talking!ServeMessage
    <2>1. PICK m \in Talking!Messages : Talking!Serve(m, Talking!onMessage(db, m))
      BY <1>1 DEF Talking!ServeMessage
    <2>2. Update(m)
      BY UpdatesAre
    <2>3. Good(Talking!onMessage(db, m), m) /\ Len(Talking!onMessage(db, m)) > 0
      BY <2>2, MessageServed
    <2> QED BY <2>1, <2>2, <2>3, ServeKeeps
  <1>2. CASE Talking!ServeTap
    <2>1. PICK m \in Talking!Taps : Talking!Serve(m, Talking!onCallback(db, m))
      BY <1>2 DEF Talking!ServeTap
    <2>2. Update(m)
      BY UpdatesAre
    <2>3. Good(Talking!onCallback(db, m), m) /\ Len(Talking!onCallback(db, m)) > 0
      BY <2>2, TapServed
    <2> QED BY <2>1, <2>2, <2>3, ServeKeeps
  <1>3. CASE Talking!Ban
    <2>1. PICK u \in Customers : db' = Talking!Saved(db, u, "banned", ~db.people[u].banned)
      BY <1>3 DEF Talking!Ban
    <2>2. UNCHANGED <<undone, firstStart, owed, texts, updateStops>>
      BY <1>3 DEF Talking!Ban
    <2>3. StoreOk(db) /\ db.people[u] \in Someone
      BY DEF BotIInv, StoreOk, Store
    <2>4. PICK b \in BOOLEAN : b = ~db.people[u].banned
      <3>1. db.people[u].banned \in BOOLEAN
        BY <2>3 DEF Someone
      <3>2. CASE db.people[u].banned = TRUE
        BY <3>2, Zenon
      <3>3. CASE db.people[u].banned = FALSE
        BY <3>3, Zenon
      <3> QED BY <3>1, <3>2, <3>3
    <2>5. PICK p : p = [db.people[u] EXCEPT !.banned = b]
      OBVIOUS
    <2>6. p \in Someone /\ p.known = db.people[u].known /\ p.referredBy = db.people[u].referredBy
      BY <2>3, <2>5 DEF Someone
    <2>7. PICK x : x = WithPerson(db, u, p)
      OBVIOUS
    <2>8. db' = x
      <3>1. db' = Talking!Saved(db, u, "banned", b)
        BY <2>1, <2>4, Zenon
      <3> QED BY <2>5, <2>7, <3>1 DEF Talking!Saved, WithPerson
    <2>9. /\ StoreOk(x) /\ x.people[u] = p /\ \A v \in Customers : v # u => x.people[v] = db.people[v]
          /\ x.rewards = db.rewards /\ x.tickets = db.tickets
      <3>1. p \in Someone
        BY <2>6
      <3> QED BY <2>3, <2>7, <3>1, PersonSaves
    <2>10. \A v \in Customers : x.people[v].known = db.people[v].known /\ x.people[v].referredBy = db.people[v].referredBy
      BY <2>6, <2>9
    <2>11. StoreOk(db)'
      BY <2>8, <2>9 DEF StoreOk
    <2>12. InviteInv'
      <3>1. \A r \in db.rewards : r.of \in Customers
        BY <2>3 DEF StoreOk, Store, Reward
      <3> QED BY <2>2, <2>8, <2>9, <2>10, <3>1 DEF BotIInv, InviteInv
    <2>13. TextInv'
      BY <2>2, <2>8, <2>9 DEF BotIInv, TextInv
    <2> QED BY <2>2, <2>8, <2>9, <2>11, <2>12, <2>13 DEF BotIInv
  <1>4. CASE Talking!ToggleLoyalty
    <2>1. UNCHANGED <<db, undone, firstStart, owed, texts, updateStops>>
      BY <1>4 DEF Talking!ToggleLoyalty
    <2> QED BY <2>1 DEF BotIInv, StoreOk, InviteInv, TextInv
  <1> QED BY <1>1, <1>2, <1>3, <1>4 DEF Talking!BotNext

LEMMA BotKeeps == ASSUME BotIInv, UNCHANGED updatesState PROVE BotIInv'
  <1>1. UNCHANGED <<db, undone, firstStart, owed, texts, updateStops>>
    BY DEF updatesState
  <1> QED BY <1>1 DEF BotIInv, StoreOk, InviteInv, TextInv

LEMMA BotAlone == [Next]_allVars => Talking!BotNext \/ UNCHANGED updatesState
  BY DEF Next, Rest, allVars

\* Through updates delivered twice and out of order every signup that counts as
\* completed has paid its points and its inviter's, nobody is paid twice for one
\* event, and votes and tickets add up (completeSignup and onMessage in
\* src/src/telegram.js, rewardWrites in src/src/crm.js, engagementCallback).
THEOREM SignupsAddUp == Spec => []EverySignupPaid
  <1>0. BotConstants
    BY PartsAssumption DEF PartsAssumption, BotConstants
  <1>1. Init => BotIInv
    BY <1>0, BotStarts DEF Init
  <1>2. BotIInv /\ [Next]_allVars => BotIInv'
    BY <1>0, BotStep, BotKeeps, BotAlone
  <1>3. BotIInv => EverySignupPaid
    BY <1>0, BotPromise DEF EverySignupPaid
  <1> QED BY <1>1, <1>2, <1>3, PTL DEF Spec

-----------------------------------------------------------------------------
(* The administrator's taps                                                *)

Menu(B) == Seq(Seq(B))
Stands(m, x) == \E r \in DOMAIN m : \E b \in DOMAIN m[r] : m[r][b] = x

LEMMA ShownIs == \A m, x : x \in Admin!Shown(m) <=> Stands(m, x)
  BY DEF Admin!Shown, Admin!Range, Stands

LEMMA RowWithout ==
  ASSUME NEW S, NEW s \in Seq(S), NEW i \in 1..Len(s)
  PROVE  /\ Admin!RemoveAt(s, i) \in Seq(S)
         /\ Len(Admin!RemoveAt(s, i)) = Len(s) - 1
         /\ \A k \in 1..(Len(s) - 1) : Admin!RemoveAt(s, i)[k] = IF k < i THEN s[k] ELSE s[k + 1]
  <1> DEFINE a == SubSeq(s, 1, i - 1)
             z == SubSeq(s, i + 1, Len(s))
  <1>1. Len(s) \in Nat /\ \A k \in 1..Len(s) : s[k] \in S
    BY LenProperties
  <1>2. a \in Seq(S) /\ Len(a) = i - 1 /\ \A k \in 1..(i - 1) : a[k] = s[k]
    <2>1. 1 \in Int /\ i - 1 \in Int /\ \A k \in 1..(i - 1) : s[k] \in S
      BY <1>1
    <2> HIDE DEF a
    <2>2. /\ a \in Seq(S) /\ Len(a) = IF 1 <= i - 1 THEN (i - 1) - 1 + 1 ELSE 0
          /\ \A k \in 1..((i - 1) - 1 + 1) : a[k] = s[1 + k - 1]
      BY <2>1, SubSeqProperties DEF a
    <2> QED BY <1>1, <2>2
  <1>3. z \in Seq(S) /\ Len(z) = Len(s) - i /\ \A k \in 1..(Len(s) - i) : z[k] = s[i + k]
    <2>1. i + 1 \in Int /\ Len(s) \in Int /\ \A k \in (i + 1)..Len(s) : s[k] \in S
      BY <1>1
    <2> HIDE DEF z
    <2>2. /\ z \in Seq(S) /\ Len(z) = IF i + 1 <= Len(s) THEN Len(s) - (i + 1) + 1 ELSE 0
          /\ \A k \in 1..(Len(s) - (i + 1) + 1) : z[k] = s[i + 1 + k - 1]
      BY <2>1, SubSeqProperties DEF z
    <2> QED BY <1>1, <2>2
  <1> HIDE DEF a, z
  <1>4. /\ a \o z \in Seq(S) /\ Len(a \o z) = Len(a) + Len(z)
        /\ \A k \in 1..(Len(a) + Len(z)) : (a \o z)[k] = IF k <= Len(a) THEN a[k] ELSE z[k - Len(a)]
    BY <1>2, <1>3, ConcatProperties
  <1>5. Admin!RemoveAt(s, i) = a \o z
    BY DEF Admin!RemoveAt, a, z
  <1> HIDE DEF Admin!RemoveAt
  <1>6. \A k \in 1..(Len(s) - 1) : (a \o z)[k] = IF k < i THEN s[k] ELSE s[k + 1]
    <2> SUFFICES ASSUME NEW k \in 1..(Len(s) - 1) PROVE (a \o z)[k] = IF k < i THEN s[k] ELSE s[k + 1]
      OBVIOUS
    <2>1. CASE k < i
      BY <1>1, <1>2, <1>3, <1>4, <2>1
    <2>2. CASE i <= k
      <3>1. k - Len(a) \in 1..(Len(s) - i) /\ i + (k - Len(a)) = k + 1 /\ ~(k <= Len(a))
        BY <1>1, <1>2, <2>2
      <3>2. (a \o z)[k] = z[k - Len(a)]
        BY <1>1, <1>2, <1>3, <1>4, <3>1
      <3>3. z[k - Len(a)] = s[k + 1]
        BY <1>3, <3>1
      <3> QED BY <2>2, <3>2, <3>3
    <2>3. k < i \/ i <= k
      BY <1>1
    <2> QED BY <2>1, <2>2, <2>3
  <1>7. Len(a \o z) = Len(s) - 1
    BY <1>1, <1>2, <1>3, <1>4
  <1> QED BY <1>4, <1>5, <1>6, <1>7

LEMMA MenuRows ==
  ASSUME NEW B, NEW m \in Menu(B)
  PROVE  /\ Len(m) \in Nat /\ DOMAIN m = 1..Len(m)
         /\ \A r \in DOMAIN m : /\ m[r] \in Seq(B) /\ Len(m[r]) \in Nat /\ DOMAIN m[r] = 1..Len(m[r])
                                /\ \A b \in DOMAIN m[r] : m[r][b] \in B
  <1>1. Len(m) \in Nat /\ DOMAIN m = 1..Len(m) /\ \A r \in 1..Len(m) : m[r] \in Seq(B)
    BY LenProperties DEF Menu
  <1>2. ASSUME NEW s \in Seq(B) PROVE Len(s) \in Nat /\ DOMAIN s = 1..Len(s) /\ \A b \in DOMAIN s : s[b] \in B
    BY LenProperties
  <1> QED BY <1>1, <1>2

(* A button is taken out of its row.                                       *)
LEMMA WithoutFine ==
  ASSUME NEW B, NEW m \in Menu(B), Admin!EachOnce(m), NEW r \in DOMAIN m, NEW b \in DOMAIN m[r]
  PROVE  /\ Admin!Without(m, r, b) \in Menu(B) /\ Len(Admin!Without(m, r, b)) = Len(m)
         /\ Admin!EachOnce(Admin!Without(m, r, b))
         /\ \A x : Stands(Admin!Without(m, r, b), x) <=> Stands(m, x) /\ x # m[r][b]
  <1> DEFINE w == Admin!Without(m, r, b)
             s == Admin!RemoveAt(m[r], b)
             place == [q \in DOMAIN m |-> [k \in DOMAIN m[q] |-> IF q # r \/ k < b THEN k ELSE k + 1]]
             row == [q \in DOMAIN m |-> q]
  <1>1. /\ Len(m) \in Nat /\ DOMAIN m = 1..Len(m)
        /\ \A q \in DOMAIN m : /\ m[q] \in Seq(B) /\ Len(m[q]) \in Nat /\ DOMAIN m[q] = 1..Len(m[q])
    BY MenuRows
  <1>2. /\ s \in Seq(B) /\ Len(s) = Len(m[r]) - 1
        /\ \A k \in 1..(Len(m[r]) - 1) : s[k] = IF k < b THEN m[r][k] ELSE m[r][k + 1]
    BY <1>1, RowWithout
  <1>3. w = [m EXCEPT ![r] = s]
    BY DEF Admin!Without
  <1> HIDE DEF s
  <1>4. w \in Menu(B) /\ Len(w) = Len(m) /\ w[r] = s /\ \A q \in DOMAIN m : q # r => w[q] = m[q]
    <2>1. m \in Seq(Seq(B)) /\ r \in 1..Len(m)
      BY <1>1 DEF Menu
    <2> HIDE DEF w
    <2> QED BY <1>2, <1>3, <2>1, ExceptSeq DEF Menu
  <1>5. DOMAIN w = DOMAIN m /\ DOMAIN s = 1..(Len(m[r]) - 1) /\ \A q \in DOMAIN m : q # r => DOMAIN w[q] = DOMAIN m[q]
    <2> HIDE DEF w
    <2> QED BY <1>1, <1>2, <1>4, LenProperties, MenuRows
  <1> HIDE DEF w
  <1>6. \A q \in DOMAIN w : \A k \in DOMAIN w[q] :
           /\ row[q] \in DOMAIN m /\ place[q][k] \in DOMAIN m[row[q]]
           /\ w[q][k] = m[row[q]][place[q][k]]
    <2> SUFFICES ASSUME NEW q \in DOMAIN w, NEW k \in DOMAIN w[q]
                 PROVE  /\ row[q] \in DOMAIN m /\ place[q][k] \in DOMAIN m[row[q]]
                        /\ w[q][k] = m[row[q]][place[q][k]]
      OBVIOUS
    <2>1. CASE q # r
      BY <1>4, <1>5, <2>1
    <2>2. CASE q = r
      BY <1>1, <1>2, <1>4, <1>5, <2>2
    <2> QED BY <2>1, <2>2
  <1>7. \A q1, q2 \in DOMAIN w : \A k1 \in DOMAIN w[q1], k2 \in DOMAIN w[q2] :
          row[q1] = row[q2] /\ place[q1][k1] = place[q2][k2] => q1 = q2 /\ k1 = k2
    <2> SUFFICES ASSUME NEW q \in DOMAIN w, NEW k1 \in DOMAIN w[q], NEW k2 \in DOMAIN w[q], place[q][k1] = place[q][k2]
                 PROVE  k1 = k2
      BY <1>5
    <2>1. CASE q # r
      BY <1>4, <1>5, <2>1
    <2>2. CASE q = r
      BY <1>1, <1>2, <1>4, <1>5, <2>2
    <2> QED BY <2>1, <2>2
  <1>8. Admin!EachOnce(w) /\ \A x : Stands(w, x) => Stands(m, x)
    <2> HIDE DEF row, place
    <2>1. Admin!EachOnce(w)
      <3> SUFFICES ASSUME NEW q1 \in DOMAIN w, NEW q2 \in DOMAIN w, NEW k1 \in DOMAIN w[q1], NEW k2 \in DOMAIN w[q2],
                          w[q1][k1] = w[q2][k2]
                   PROVE  q1 = q2 /\ k1 = k2
        BY DEF Admin!EachOnce
      <3>1. row[q1] = row[q2] /\ place[q1][k1] = place[q2][k2]
        BY <1>6 DEF Admin!EachOnce
      <3> QED BY <1>7, <3>1
    <2>2. ASSUME NEW x, Stands(w, x) PROVE Stands(m, x)
      BY <1>6, <2>2 DEF Stands
    <2> QED BY <2>1, <2>2
  <1>9. ~Stands(w, m[r][b])
    <2> SUFFICES ASSUME NEW q \in DOMAIN w, NEW k \in DOMAIN w[q], w[q][k] = m[r][b] PROVE FALSE
      BY DEF Stands
    <2>1. row[q] = r /\ place[q][k] = b
      <3> HIDE DEF row, place
      <3> QED BY <1>6 DEF Admin!EachOnce
    <2> QED BY <1>1, <1>4, <1>5, <1>2, <2>1
  <1>10. ASSUME NEW x, Stands(m, x), x # m[r][b] PROVE Stands(w, x)
    <2>1. PICK q \in DOMAIN m : \E k \in DOMAIN m[q] : m[q][k] = x
      BY <1>10 DEF Stands
    <2>2. PICK k \in DOMAIN m[q] : m[q][k] = x
      BY <2>1
    <2>3. CASE q # r
      BY <1>4, <1>5, <2>2, <2>3 DEF Stands
    <2>4. CASE q = r /\ k < b
      <3>1. k \in 1..(Len(m[r]) - 1) /\ s[k] = x
        BY <1>1, <1>2, <2>2, <2>4
      <3> QED BY <1>4, <1>5, <2>4, <3>1 DEF Stands
    <2>5. CASE q = r /\ k > b
      <3>1. k - 1 \in 1..(Len(m[r]) - 1) /\ s[k - 1] = x
        <4>1. k - 1 \in 1..(Len(m[r]) - 1) /\ ~(k - 1 < b) /\ (k - 1) + 1 = k
          BY <1>1, <2>5
        <4> QED BY <1>2, <2>2, <2>5, <4>1
      <3> QED BY <1>4, <1>5, <2>5, <3>1 DEF Stands
    <2>6. q = r => k # b
      BY <1>10, <2>2
    <2> QED BY <1>1, <2>3, <2>4, <2>5, <2>6
  <1>11. /\ w \in Menu(B) /\ Len(w) = Len(m) /\ Admin!EachOnce(w)
         /\ \A x : Stands(w, x) <=> Stands(m, x) /\ x # m[r][b]
    BY <1>4, <1>8, <1>9, <1>10
  <1> QED BY <1>11 DEF w

(* A button is put at the end of a row.                                    *)
LEMMA AppendedFine ==
  ASSUME NEW B, NEW m \in Menu(B), Admin!EachOnce(m), NEW q \in DOMAIN m, NEW x \in B, ~Stands(m, x)
  PROVE  /\ [m EXCEPT ![q] = Append(m[q], x)] \in Menu(B) /\ Len([m EXCEPT ![q] = Append(m[q], x)]) = Len(m)
         /\ Admin!EachOnce([m EXCEPT ![q] = Append(m[q], x)])
         /\ \A y : Stands([m EXCEPT ![q] = Append(m[q], x)], y) <=> Stands(m, y) \/ y = x
  <1> DEFINE s == Append(m[q], x)
             n == [m EXCEPT ![q] = s]
             last == Len(m[q]) + 1
  <1>1. /\ Len(m) \in Nat /\ DOMAIN m = 1..Len(m)
        /\ \A r \in DOMAIN m : /\ m[r] \in Seq(B) /\ Len(m[r]) \in Nat /\ DOMAIN m[r] = 1..Len(m[r])
    BY MenuRows
  <1>2. s \in Seq(B) /\ Len(s) = last /\ (\A k \in 1..Len(m[q]) : s[k] = m[q][k]) /\ s[last] = x
    BY <1>1, AppendProperties
  <1>3. DOMAIN s = 1..last
    <2> HIDE DEF s
    <2> QED BY <1>2, LenProperties
  <1> HIDE DEF s
  <1>4. n \in Menu(B) /\ Len(n) = Len(m) /\ n[q] = s /\ \A r \in DOMAIN m : r # q => n[r] = m[r]
    <2>1. m \in Seq(Seq(B)) /\ q \in 1..Len(m)
      BY <1>1 DEF Menu
    <2> QED BY <1>1, <1>2, <2>1, ExceptSeq DEF Menu
  <1>5. DOMAIN n = DOMAIN m
    OBVIOUS
  <1> HIDE DEF n
  <1>6. ASSUME NEW r \in DOMAIN n, NEW k \in DOMAIN n[r]
        PROVE  \/ r = q /\ k = last /\ n[r][k] = x
               \/ k \in DOMAIN m[r] /\ n[r][k] = m[r][k] /\ Stands(m, n[r][k])
    <2>1. CASE r # q
      BY <1>4, <1>5, <2>1 DEF Stands
    <2>2. CASE r = q /\ k # last
      <3>1. k \in 1..Len(m[q])
        BY <1>1, <1>3, <1>4, <2>2
      <3> QED BY <1>1, <1>2, <1>4, <2>2, <3>1 DEF Stands
    <2>3. CASE r = q /\ k = last
      BY <1>2, <1>4, <2>3
    <2> QED BY <2>1, <2>2, <2>3
  <1>7. Admin!EachOnce(n)
    <2> SUFFICES ASSUME NEW r1 \in DOMAIN n, NEW r2 \in DOMAIN n, NEW k1 \in DOMAIN n[r1], NEW k2 \in DOMAIN n[r2],
                        n[r1][k1] = n[r2][k2]
                 PROVE  r1 = r2 /\ k1 = k2
      BY DEF Admin!EachOnce
    <2> QED BY <1>5, <1>6 DEF Admin!EachOnce
  <1>8. \A y : Stands(n, y) => Stands(m, y) \/ y = x
    BY <1>6 DEF Stands
  <1>9. Stands(n, x)
    <2>1. q \in DOMAIN n /\ last \in DOMAIN n[q] /\ n[q][last] = x
      BY <1>1, <1>2, <1>3, <1>4, <1>5
    <2> QED BY <2>1 DEF Stands
  <1>10. ASSUME NEW y, Stands(m, y) PROVE Stands(n, y)
    <2>1. PICK r \in DOMAIN m : \E k \in DOMAIN m[r] : m[r][k] = y
      BY <1>10 DEF Stands
    <2>2. PICK k \in DOMAIN m[r] : m[r][k] = y
      BY <2>1
    <2>3. k \in DOMAIN n[r] /\ n[r][k] = y
      BY <1>1, <1>2, <1>3, <1>4, <2>2
    <2> QED BY <1>5, <2>3 DEF Stands
  <1>11. /\ n \in Menu(B) /\ Len(n) = Len(m) /\ Admin!EachOnce(n)
         /\ \A y : Stands(n, y) <=> Stands(m, y) \/ y = x
    BY <1>4, <1>7, <1>8, <1>9, <1>10
  <1> QED BY <1>11 DEF n, s

(* An empty row goes.                                                      *)
LEMMA TidyFine ==
  ASSUME NEW B, NEW m \in Menu(B), Admin!EachOnce(m), NEW r \in DOMAIN m
  PROVE  /\ Admin!Tidy(m, r) \in Menu(B) /\ Admin!EachOnce(Admin!Tidy(m, r))
         /\ \A y : Stands(Admin!Tidy(m, r), y) <=> Stands(m, y)
  <1>1. CASE m[r] # <<>>
    <2>1. Admin!Tidy(m, r) = m
      BY <1>1 DEF Admin!Tidy
    <2> QED BY <2>1
  <1>2. CASE m[r] = <<>>
    <2> DEFINE n == Admin!RemoveAt(m, r)
               was(k) == IF k < r THEN k ELSE k + 1
    <2>1. Admin!Tidy(m, r) = n
      BY <1>2 DEF Admin!Tidy
    <2>2. Len(m) \in Nat /\ DOMAIN m = 1..Len(m) /\ m \in Seq(Seq(B)) /\ r \in 1..Len(m)
      BY MenuRows DEF Menu
    <2>3. /\ n \in Seq(Seq(B)) /\ Len(n) = Len(m) - 1
          /\ \A k \in 1..(Len(m) - 1) : n[k] = IF k < r THEN m[k] ELSE m[k + 1]
      BY <2>2, RowWithout
    <2> HIDE DEF n
    <2>4. DOMAIN n = 1..(Len(m) - 1)
      BY <2>3, LenProperties
    <2>5. \A k \in DOMAIN n : was(k) \in DOMAIN m /\ n[k] = m[was(k)]
      <3> SUFFICES ASSUME NEW k \in DOMAIN n PROVE was(k) \in DOMAIN m /\ n[k] = m[was(k)]
        OBVIOUS
      <3>1. CASE k < r
        BY <2>2, <2>3, <2>4, <3>1
      <3>2. CASE ~(k < r)
        BY <2>2, <2>3, <2>4, <3>2
      <3> QED BY <3>1, <3>2
    <2>6. \A j, k \in DOMAIN n : was(j) = was(k) => j = k
      BY <2>2, <2>4
    <2>7. \A k \in DOMAIN m : k # r => \E j \in DOMAIN n : was(j) = k
      <3> SUFFICES ASSUME NEW k \in DOMAIN m, k # r PROVE \E j \in DOMAIN n : was(j) = k
        OBVIOUS
      <3>1. CASE k < r
        BY <2>2, <2>4, <3>1
      <3>2. CASE k > r
        <4>1. k - 1 \in DOMAIN n /\ was(k - 1) = k
          BY <2>2, <2>4, <3>2
        <4> QED BY <4>1
      <3> QED BY <2>2, <3>1, <3>2
    <2> HIDE DEF was
    <2>8. Admin!EachOnce(n)
      <3> SUFFICES ASSUME NEW r1 \in DOMAIN n, NEW r2 \in DOMAIN n, NEW k1 \in DOMAIN n[r1], NEW k2 \in DOMAIN n[r2],
                          n[r1][k1] = n[r2][k2]
                   PROVE  r1 = r2 /\ k1 = k2
        BY DEF Admin!EachOnce
      <3>1. was(r1) = was(r2) /\ k1 = k2
        BY <2>5 DEF Admin!EachOnce
      <3> QED BY <2>6, <3>1
    <2>9. ASSUME NEW y, Stands(n, y) PROVE Stands(m, y)
      BY <2>5, <2>9 DEF Stands
    <2>10. ASSUME NEW y, Stands(m, y) PROVE Stands(n, y)
      <3>1. PICK q \in DOMAIN m : \E k \in DOMAIN m[q] : m[q][k] = y
        BY <2>10 DEF Stands
      <3>2. PICK k \in DOMAIN m[q] : m[q][k] = y
        BY <3>1
      <3>3. q # r
        BY <1>2, <3>2
      <3>4. PICK j \in DOMAIN n : was(j) = q
        BY <2>7, <3>3
      <3> QED BY <2>5, <3>2, <3>4 DEF Stands
    <2>11. n \in Menu(B) /\ Admin!EachOnce(n) /\ \A y : Stands(n, y) <=> Stands(m, y)
      BY <2>3, <2>8, <2>9, <2>10 DEF Menu
    <2> QED BY <2>1, <2>11
  <1> QED BY <1>1, <1>2

(* A button in a row of its own.                                           *)
LEMMA RowAddedFine ==
  ASSUME NEW B, NEW m \in Menu(B), Admin!EachOnce(m), NEW x \in B, ~Stands(m, x)
  PROVE  /\ Append(m, <<x>>) \in Menu(B) /\ Admin!EachOnce(Append(m, <<x>>))
         /\ \A y : Stands(Append(m, <<x>>), y) <=> Stands(m, y) \/ y = x
  <1> DEFINE n == Append(m, <<x>>)
             last == Len(m) + 1
  <1>1. Len(m) \in Nat /\ DOMAIN m = 1..Len(m) /\ m \in Seq(Seq(B))
    BY MenuRows DEF Menu
  <1>2. <<x>> \in Seq(B) /\ DOMAIN <<x>> = {1} /\ <<x>>[1] = x
    OBVIOUS
  <1>3. n \in Seq(Seq(B)) /\ Len(n) = last /\ (\A k \in 1..Len(m) : n[k] = m[k]) /\ n[last] = <<x>>
    BY <1>1, <1>2, AppendProperties
  <1> HIDE DEF n
  <1>4. DOMAIN n = 1..last
    BY <1>3, LenProperties
  <1>5. ASSUME NEW r \in DOMAIN n, NEW k \in DOMAIN n[r]
        PROVE  \/ r = last /\ k = 1 /\ n[r][k] = x
               \/ r \in DOMAIN m /\ n[r] = m[r] /\ Stands(m, n[r][k])
    <2>1. CASE r = last
      BY <1>2, <1>3, <2>1
    <2>2. CASE r # last
      <3>1. r \in DOMAIN m
        BY <1>1, <1>4, <2>2
      <3>2. n[r] = m[r]
        BY <1>1, <1>3, <3>1
      <3> QED BY <3>1, <3>2 DEF Stands
    <2> QED BY <2>1, <2>2
  <1>6. Admin!EachOnce(n)
    <2> SUFFICES ASSUME NEW r1 \in DOMAIN n, NEW r2 \in DOMAIN n, NEW k1 \in DOMAIN n[r1], NEW k2 \in DOMAIN n[r2],
                        n[r1][k1] = n[r2][k2]
                 PROVE  r1 = r2 /\ k1 = k2
      BY DEF Admin!EachOnce
    <2> QED BY <1>5 DEF Admin!EachOnce
  <1>7. \A y : Stands(n, y) => Stands(m, y) \/ y = x
    BY <1>5 DEF Stands
  <1>8. Stands(n, x)
    <2>1. last \in DOMAIN n /\ 1 \in DOMAIN n[last] /\ n[last][1] = x
      BY <1>1, <1>2, <1>3, <1>4
    <2> QED BY <2>1 DEF Stands
  <1>9. \A y : Stands(m, y) => Stands(n, y)
    <2>1. \A r \in DOMAIN m : r \in DOMAIN n /\ n[r] = m[r]
      BY <1>1, <1>3, <1>4
    <2> QED BY <2>1 DEF Stands
  <1>10. n \in Menu(B) /\ Admin!EachOnce(n) /\ \A y : Stands(n, y) <=> Stands(m, y) \/ y = x
    BY <1>3, <1>6, <1>7, <1>8, <1>9 DEF Menu
  <1> QED BY <1>10 DEF n

(* Two buttons of a row change places.                                     *)
LEMMA SwappedFine ==
  ASSUME NEW B, NEW m \in Menu(B), Admin!EachOnce(m), NEW r \in DOMAIN m,
         NEW i \in DOMAIN m[r], NEW j \in DOMAIN m[r]
  PROVE  /\ [m EXCEPT ![r] = Admin!Swapped(m[r], i, j)] \in Menu(B)
         /\ Admin!EachOnce([m EXCEPT ![r] = Admin!Swapped(m[r], i, j)])
         /\ \A y : Stands([m EXCEPT ![r] = Admin!Swapped(m[r], i, j)], y) <=> Stands(m, y)
  <1> DEFINE s == Admin!Swapped(m[r], i, j)
             n == [m EXCEPT ![r] = s]
             was(q, k) == IF q # r THEN k ELSE IF k = j THEN i ELSE IF k = i THEN j ELSE k
  <1>1. /\ Len(m) \in Nat /\ DOMAIN m = 1..Len(m)
        /\ m[r] \in Seq(B) /\ DOMAIN m[r] = 1..Len(m[r])
        /\ \A b \in DOMAIN m[r] : m[r][b] \in B
    BY MenuRows
  <1>2. /\ s \in Seq(B) /\ DOMAIN s = DOMAIN m[r]
        /\ \A k \in DOMAIN s : was(r, k) \in DOMAIN m[r] /\ s[k] = m[r][was(r, k)]
    <2> DEFINE t == [m[r] EXCEPT ![i] = m[r][j]]
    <2>1. t \in Seq(B) /\ Len(t) = Len(m[r]) /\ \A k \in 1..Len(m[r]) : t[k] = IF k = i THEN m[r][j] ELSE m[r][k]
      BY <1>1, ExceptSeq
    <2> HIDE DEF t
    <2>2. /\ [t EXCEPT ![j] = m[r][i]] \in Seq(B) /\ Len([t EXCEPT ![j] = m[r][i]]) = Len(t)
          /\ \A k \in 1..Len(t) : [t EXCEPT ![j] = m[r][i]][k] = IF k = j THEN m[r][i] ELSE t[k]
      BY <1>1, <2>1, ExceptSeq
    <2>3. s = [t EXCEPT ![j] = m[r][i]]
      BY DEF Admin!Swapped, t
    <2> HIDE DEF s
    <2>4. DOMAIN s = DOMAIN m[r]
      BY <1>1, <2>1, <2>2, <2>3, LenProperties
    <2> QED BY <1>1, <2>1, <2>2, <2>3, <2>4
  <1> HIDE DEF s
  <1>3. n \in Menu(B) /\ n[r] = s /\ \A q \in DOMAIN m : q # r => n[q] = m[q]
    <2>1. m \in Seq(Seq(B)) /\ r \in 1..Len(m)
      BY <1>1 DEF Menu
    <2> QED BY <1>1, <1>2, <2>1, ExceptSeq DEF Menu
  <1>4. DOMAIN n = DOMAIN m /\ \A q \in DOMAIN m : DOMAIN n[q] = DOMAIN m[q]
    BY <1>2, <1>3
  <1> HIDE DEF n
  <1>5. \A q \in DOMAIN m : \A k \in DOMAIN m[q] : was(q, k) \in DOMAIN m[q] /\ n[q][k] = m[q][was(q, k)]
    BY <1>2, <1>3
  <1>6. \A q \in DOMAIN m : \A k \in DOMAIN m[q] : was(q, was(q, k)) = k
    OBVIOUS
  <1> HIDE DEF was
  <1>7. Admin!EachOnce(n)
    <2> SUFFICES ASSUME NEW r1 \in DOMAIN m, NEW r2 \in DOMAIN m, NEW k1 \in DOMAIN m[r1], NEW k2 \in DOMAIN m[r2],
                        n[r1][k1] = n[r2][k2]
                 PROVE  r1 = r2 /\ k1 = k2
      BY <1>4 DEF Admin!EachOnce
    <2>1. r1 = r2 /\ was(r1, k1) = was(r2, k2)
      BY <1>5 DEF Admin!EachOnce
    <2> QED BY <1>6, <2>1
  <1>8. ASSUME NEW y, Stands(n, y) PROVE Stands(m, y)
    BY <1>4, <1>5, <1>8 DEF Stands
  <1>9. ASSUME NEW y, Stands(m, y) PROVE Stands(n, y)
    <2>1. PICK q \in DOMAIN m : \E k \in DOMAIN m[q] : m[q][k] = y
      BY <1>9 DEF Stands
    <2>2. PICK k \in DOMAIN m[q] : m[q][k] = y
      BY <2>1
    <2>3. was(q, k) \in DOMAIN n[q] /\ n[q][was(q, k)] = y
      BY <1>4, <1>5, <1>6, <2>2
    <2> QED BY <1>4, <2>3 DEF Stands
  <1>10. n \in Menu(B) /\ Admin!EachOnce(n) /\ \A y : Stands(n, y) <=> Stands(m, y)
    BY <1>3, <1>7, <1>8, <1>9
  <1> QED BY <1>10 DEF n, s

LEMMA SmallerOfTwo ==
  ASSUME NEW a \in Nat, NEW b \in Nat
  PROVE  Admin!Min({a, b}) \in Nat /\ Admin!Min({a, b}) <= a /\ Admin!Min({a, b}) <= b
  <1>1. \E x \in {a, b} : \A y \in {a, b} : x <= y
    OBVIOUS
  <1>2. Admin!Min({a, b}) \in {a, b} /\ \A y \in {a, b} : Admin!Min({a, b}) <= y
    BY <1>1 DEF Admin!Min
  <1> QED BY <1>2

(* The panel keeps what a keyboard may hold.                               *)
LEMMA TrimmedRow ==
  ASSUME NEW B, NEW s \in Seq(B), NEW w \in Nat, w <= Len(s)
  PROVE  SubSeq(s, 1, w) \in Seq(B) /\ DOMAIN SubSeq(s, 1, w) = 1..w /\ \A k \in 1..w : SubSeq(s, 1, w)[k] = s[k]
  <1>1. Len(s) \in Nat /\ \A k \in 1..w : s[k] \in B
    BY LenProperties
  <1> DEFINE t == SubSeq(s, 1, w)
  <1>2. /\ t \in Seq(B) /\ Len(t) = IF 1 <= w THEN w - 1 + 1 ELSE 0
        /\ \A k \in 1..(w - 1 + 1) : t[k] = s[1 + k - 1]
    BY <1>1, SubSeqProperties
  <1> HIDE DEF t
  <1>3. Len(t) = w /\ w - 1 + 1 = w
    BY <1>2
  <1>4. \A k \in 1..w : t[k] = s[k]
    <2> SUFFICES ASSUME NEW k \in 1..w PROVE t[k] = s[k]
      OBVIOUS
    <2>1. 1 + k - 1 = k
      OBVIOUS
    <2> QED BY <1>2, <1>3, <2>1
  <1>5. DOMAIN t = 1..w
    BY <1>2, <1>3, LenProperties
  <1> QED BY <1>2, <1>4, <1>5 DEF t

\* The first rows of m, cut to these widths.
IsTrimmed(B, m, height, width, n) ==
  /\ height \in Nat /\ height <= Len(m)
  /\ \A i \in 1..height : width[i] \in Nat /\ width[i] <= Len(m[i])
  /\ n \in [1..height -> Seq(B)] /\ \A i \in 1..height : n[i] = SubSeq(m[i], 1, width[i])

LEMMA TrimmedFine ==
  ASSUME NEW B, NEW m \in Menu(B), Admin!EachOnce(m), NEW height, NEW width, NEW n, IsTrimmed(B, m, height, width, n)
  PROVE  n \in Menu(B) /\ Admin!EachOnce(n) /\ \A y : Stands(n, y) => Stands(m, y)
  <1>0. /\ height \in Nat /\ height <= Len(m)
        /\ \A i \in 1..height : width[i] \in Nat /\ width[i] <= Len(m[i])
        /\ n \in [1..height -> Seq(B)] /\ \A i \in 1..height : n[i] = SubSeq(m[i], 1, width[i])
    BY DEF IsTrimmed
  <1>1. /\ Len(m) \in Nat /\ DOMAIN m = 1..Len(m)
        /\ \A r \in DOMAIN m : m[r] \in Seq(B) /\ DOMAIN m[r] = 1..Len(m[r]) /\ Len(m[r]) \in Nat
    BY MenuRows
  <1>2. ASSUME NEW i \in 1..height
        PROVE  i \in DOMAIN m /\ \A k \in DOMAIN n[i] : k \in DOMAIN m[i] /\ n[i][k] = m[i][k]
    <2>1. i \in DOMAIN m
      BY <1>0, <1>1
    <2>2. DOMAIN n[i] = 1..width[i] /\ \A k \in 1..width[i] : n[i][k] = m[i][k]
      BY <1>0, <1>1, <2>1, TrimmedRow
    <2> QED BY <1>0, <1>1, <2>1, <2>2
  <1>3. DOMAIN n = 1..height
    BY <1>0
  <1>4. n \in Menu(B)
    BY <1>0, SeqDef DEF Menu
  <1>5. Admin!EachOnce(n)
    <2> SUFFICES ASSUME NEW r1 \in DOMAIN n, NEW r2 \in DOMAIN n, NEW k1 \in DOMAIN n[r1], NEW k2 \in DOMAIN n[r2],
                        n[r1][k1] = n[r2][k2]
                 PROVE  r1 = r2 /\ k1 = k2
      BY DEF Admin!EachOnce
    <2> QED BY <1>2, <1>3 DEF Admin!EachOnce
  <1>6. \A y : Stands(n, y) => Stands(m, y)
    BY <1>2, <1>3 DEF Stands
  <1> QED BY <1>4, <1>5, <1>6

(* A new button finds a place, or the menu is full.                        *)
LEMMA WithButtonFine ==
  ASSUME MenuWidth \in Nat, MenuHeight \in Nat, NEW B, NEW m \in Menu(B), Admin!EachOnce(m),
         NEW x \in B, ~Stands(m, x)
  PROVE  \/ Admin!WithButton(m, x) = m
         \/ /\ Admin!WithButton(m, x) \in Menu(B) /\ Admin!EachOnce(Admin!WithButton(m, x))
            /\ \A y : Stands(Admin!WithButton(m, x), y) <=> Stands(m, y) \/ y = x
  <1> DEFINE room == {i \in DOMAIN m : Len(m[i]) < MenuWidth}
  <1>1. Len(m) \in Nat /\ DOMAIN m = 1..Len(m)
    BY MenuRows
  <1>2. CASE room # {}
    <2>1. room \subseteq Nat /\ room \subseteq 1..Len(m)
      BY <1>1
    <2>2. IsFiniteSet(room)
      <3>1. IsFiniteSet(1..Len(m))
        BY <1>1, FS_Interval
      <3> HIDE DEF room
      <3> QED BY <2>1, <3>1, FS_Subset
    <2>3. PICK q \in room : \A y \in room : y <= q
      <3> HIDE DEF room
      <3> QED BY <1>2, <2>1, <2>2, HighestExists
    <2>4. \E q1 \in room : \A y \in room : q1 >= y
      BY <2>1, <2>3
    <2>5. Admin!Max(room) \in room
      <3> HIDE DEF room
      <3> QED BY <2>4 DEF Admin!Max
    <2>6. PICK i \in DOMAIN m : i = Admin!Max(room)
      BY <2>5
    <2>7. Admin!WithButton(m, x) = [m EXCEPT ![i] = Append(m[i], x)]
      BY <1>2, <2>6 DEF Admin!WithButton
    <2>8. /\ [m EXCEPT ![i] = Append(m[i], x)] \in Menu(B) /\ Admin!EachOnce([m EXCEPT ![i] = Append(m[i], x)])
          /\ \A y : Stands([m EXCEPT ![i] = Append(m[i], x)], y) <=> Stands(m, y) \/ y = x
      BY AppendedFine
    <2> DEFINE n == [m EXCEPT ![i] = Append(m[i], x)]
    <2>9. Admin!WithButton(m, x) = n /\ n \in Menu(B) /\ Admin!EachOnce(n)
          /\ \A y : Stands(n, y) <=> Stands(m, y) \/ y = x
      BY <2>7, <2>8
    <2> HIDE DEF n
    <2> QED BY <2>9
  <1>3. CASE room = {}
    <2>1. Admin!WithButton(m, x) \in {Append(m, <<x>>), m}
      BY <1>3 DEF Admin!WithButton
    <2> DEFINE n == Append(m, <<x>>)
    <2>2. n \in Menu(B) /\ Admin!EachOnce(n) /\ \A y : Stands(n, y) <=> Stands(m, y) \/ y = x
      BY RowAddedFine
    <2>3. Admin!WithButton(m, x) \in {n, m}
      BY <2>1
    <2> HIDE DEF n
    <2> QED BY <2>2, <2>3
  <1> QED BY <1>2, <1>3

\* The menu n has the buttons of m, each once.
LegalMove(B, m, n) == n \in Menu(B) /\ Admin!EachOnce(n) /\ \A y : Stands(n, y) <=> Stands(m, y)

(* A button goes to the end of another row.                                *)
LEMMA ShiftedFine ==
  ASSUME NEW B, NEW m \in Menu(B), Admin!EachOnce(m), NEW r \in DOMAIN m, NEW b \in DOMAIN m[r], NEW q \in DOMAIN m
  PROVE  LegalMove(B, m, Admin!Tidy([Admin!Without(m, r, b) EXCEPT ![q] = Append(@, m[r][b])], r))
  <1> DEFINE w == Admin!Without(m, r, b)
             x == m[r][b]
             a == [w EXCEPT ![q] = Append(w[q], x)]
             n == Admin!Tidy([w EXCEPT ![q] = Append(@, m[r][b])], r)
  <1>1. Len(m) \in Nat /\ DOMAIN m = 1..Len(m) /\ x \in B
    BY MenuRows
  <1>2. /\ w \in Menu(B) /\ Len(w) = Len(m) /\ Admin!EachOnce(w)
        /\ \A y : Stands(w, y) <=> Stands(m, y) /\ y # x
    BY WithoutFine
  <1>3. n = Admin!Tidy(a, r)
    OBVIOUS
  <1> HIDE DEF w
  <1>4. DOMAIN w = DOMAIN m /\ ~Stands(w, x)
    BY <1>1, <1>2, MenuRows
  <1>5. a \in Menu(B) /\ Admin!EachOnce(a) /\ \A y : Stands(a, y) <=> Stands(w, y) \/ y = x
    <2>1. w \in Menu(B) /\ Admin!EachOnce(w) /\ q \in DOMAIN w /\ x \in B /\ ~Stands(w, x)
      BY <1>1, <1>2, <1>4
    <2> HIDE DEF x
    <2> QED BY <2>1, AppendedFine
  <1>6. DOMAIN a = DOMAIN m
    BY <1>4
  <1> HIDE DEF a, n
  <1>7. /\ n \in Menu(B) /\ Admin!EachOnce(n) /\ \A y : Stands(n, y) <=> Stands(a, y)
    BY <1>3, <1>5, <1>6, TidyFine
  <1>8. Stands(m, x)
    BY DEF Stands
  <1>9. LegalMove(B, m, n)
    BY <1>2, <1>5, <1>7, <1>8 DEF LegalMove
  <1> QED BY <1>9 DEF n, w

LEMMA MovedFine ==
  ASSUME NEW B, NEW m \in Menu(B), Admin!EachOnce(m), NEW r \in DOMAIN m, NEW b \in DOMAIN m[r], NEW t
  PROVE  LegalMove(B, m, Admin!Moved(m, t, r, b))
  <1> DEFINE n == Admin!Moved(m, t, r, b)
  <1>1. /\ Len(m) \in Nat /\ DOMAIN m = 1..Len(m)
        /\ Len(m[r]) \in Nat /\ DOMAIN m[r] = 1..Len(m[r])
    BY MenuRows
  <1>2. CASE t = "adm:mbl:" /\ b > 1
    <2>1. n = [m EXCEPT ![r] = Admin!Swapped(m[r], b - 1, b)]
      BY <1>2 DEF Admin!Moved
    <2>2. b - 1 \in DOMAIN m[r]
      BY <1>1, <1>2
    <2>3. LegalMove(B, m, [m EXCEPT ![r] = Admin!Swapped(m[r], b - 1, b)])
      BY <2>2, SwappedFine DEF LegalMove
    <2> QED BY <2>1, <2>3
  <1>3. CASE t = "adm:mbr:" /\ b < Len(m[r])
    <2>1. n = [m EXCEPT ![r] = Admin!Swapped(m[r], b, b + 1)]
      BY <1>3 DEF Admin!Moved
    <2>2. b + 1 \in DOMAIN m[r]
      BY <1>1, <1>3
    <2>3. LegalMove(B, m, [m EXCEPT ![r] = Admin!Swapped(m[r], b, b + 1)])
      BY <2>2, SwappedFine DEF LegalMove
    <2> QED BY <2>1, <2>3
  <1>4. CASE t = "adm:mbu:" /\ r > 1
    <2>1. n = Admin!Tidy([Admin!Without(m, r, b) EXCEPT ![r - 1] = Append(@, m[r][b])], r)
      BY <1>4 DEF Admin!Moved
    <2>2. r - 1 \in DOMAIN m
      BY <1>1, <1>4
    <2>3. LegalMove(B, m, Admin!Tidy([Admin!Without(m, r, b) EXCEPT ![r - 1] = Append(@, m[r][b])], r))
      BY <2>2, ShiftedFine
    <2> QED BY <2>1, <2>3
  <1>5. CASE t = "adm:mbd:" /\ r < Len(m) /\ ~(Len(m[r]) = 1 /\ r = Len(m) - 1)
    <2>1. n = Admin!Tidy([Admin!Without(m, r, b) EXCEPT ![r + 1] = Append(@, m[r][b])], r)
      BY <1>5 DEF Admin!Moved
    <2>2. r + 1 \in DOMAIN m
      BY <1>1, <1>5
    <2>3. LegalMove(B, m, Admin!Tidy([Admin!Without(m, r, b) EXCEPT ![r + 1] = Append(@, m[r][b])], r))
      BY <2>2, ShiftedFine
    <2> QED BY <2>1, <2>3
  <1>6. CASE ~(t = "adm:mbl:" /\ b > 1) /\ ~(t = "adm:mbr:" /\ b < Len(m[r])) /\ ~(t = "adm:mbu:" /\ r > 1)
             /\ ~(t = "adm:mbd:" /\ r < Len(m) /\ ~(Len(m[r]) = 1 /\ r = Len(m) - 1))
    <2>1. n = m
      BY <1>6 DEF Admin!Moved
    <2> QED BY <2>1 DEF LegalMove
  <1> QED BY <1>2, <1>3, <1>4, <1>5, <1>6

-----------------------------------------------------------------------------
(* How many buttons a menu has.                                            *)
LEMMA ButtonCount == \A S : Admin!Cardinality(S) = Cardinality(S)
  BY DEF Admin!Cardinality, Cardinality

Number(m) == Admin!Cardinality(Admin!Shown(m))

LEMMA NumberIs ==
  ASSUME NEW k \in Nat, NEW m \in Menu(1..k)
  PROVE  /\ Number(m) \in Nat
         /\ \A n : (\A y : Stands(n, y) => Stands(m, y)) => Number(n) \in Nat
         /\ \A n : (\A y : Stands(n, y) <=> Stands(m, y)) => Number(n) = Number(m)
         /\ \A n, x : Stands(m, x) /\ (\A y : Stands(n, y) <=> Stands(m, y) /\ y # x) => Number(n) = Number(m) - 1
         /\ \A n, x : ~Stands(m, x) /\ (\A y : Stands(n, y) <=> Stands(m, y) \/ y = x) => Number(n) = Number(m) + 1
  <1> DEFINE S == Admin!Shown(m)
  <1>1. IsFiniteSet(S)
    <2>1. S \subseteq 1..k
      BY MenuRows, ShownIs DEF Stands
    <2>2. IsFiniteSet(1..k)
      BY FS_Interval
    <2> HIDE DEF S
    <2> QED BY <2>1, <2>2, FS_Subset
  <1>2. Number(m) = Cardinality(S) /\ Cardinality(S) \in Nat
    <2> HIDE DEF S
    <2>1. Cardinality(S) \in Nat
      BY <1>1, FS_CardinalityType
    <2> QED BY <2>1, ButtonCount DEF Number, S
  <1>3. ASSUME NEW n, \A y : Stands(n, y) => Stands(m, y) PROVE Number(n) \in Nat
    <2>1. Admin!Shown(n) \in SUBSET S
      BY <1>3, ShownIs
    <2> HIDE DEF S
    <2>2. IsFiniteSet(Admin!Shown(n))
      BY <1>1, <2>1, FS_Subset
    <2> QED BY <2>2, FS_CardinalityType, ButtonCount DEF Number
  <1>4. ASSUME NEW n, \A y : Stands(n, y) <=> Stands(m, y) PROVE Number(n) = Number(m)
    <2>1. Admin!Shown(n) = Admin!Shown(m)
      BY <1>4, ShownIs
    <2> QED BY <2>1 DEF Number
  <1>5. ASSUME NEW n, NEW x, Stands(m, x), \A y : Stands(n, y) <=> Stands(m, y) /\ y # x
        PROVE  Number(n) = Number(m) - 1
    <2>1. Admin!Shown(n) = S \ {x} /\ x \in S
      BY <1>5, ShownIs
    <2> HIDE DEF S
    <2>2. Cardinality(S \ {x}) = Cardinality(S) - 1
      BY <1>1, <2>1, FS_RemoveElement
    <2> QED BY <1>2, <2>1, <2>2, ButtonCount DEF Number
  <1>6. ASSUME NEW n, NEW x, ~Stands(m, x), \A y : Stands(n, y) <=> Stands(m, y) \/ y = x
        PROVE  Number(n) = Number(m) + 1
    <2>1. Admin!Shown(n) = S \cup {x} /\ x \notin S
      BY <1>6, ShownIs
    <2> HIDE DEF S
    <2>2. Cardinality(S \cup {x}) = Cardinality(S) + 1
      BY <1>1, <2>1, FS_AddElement
    <2> QED BY <1>2, <2>1, <2>2, ButtonCount DEF Number
  <1> QED BY <1>2, <1>3, <1>4, <1>5, <1>6

-----------------------------------------------------------------------------
\* A prompt that was counted and may still make something.
Making == {"makes", "broadcast_text", "broadcast_target", "add_text", "add_type", "add_value"}
Credit(type) == IF type \in Making THEN 1 ELSE 0
\* An update that will be handled again, and may do again what it did.
Repeats == DOMAIN Admin!Prompts \cup Admin!Switches \cup Admin!NewsSwitches \cup Admin!RatesSwitches
Pending(u) == IF u.kind = "tap" /\ u.what \in Repeats THEN 1 ELSE 0
Deleting(u) == IF u.kind = "tap" /\ u.what = "adm:mbx:" THEN 1 ELSE 0

AdminTypes ==
  /\ buttons \in Nat /\ menu \in Menu(1..buttons) /\ Admin!EachOnce(menu)
  /\ DOMAIN flow = {"type", "r", "b"}
  /\ owned \in Int /\ due \in Nat /\ made \in Nat /\ adminStops \in Nat

(* What was made, what the prompt may still make and what a second         *)
(* delivery may make again.                                                *)
MadeInv == made + Credit(flow.type) + Pending(again) <= due + adminStops
OwnedInv ==
  /\ Number(menu) + adminStops >= owned + Deleting(again)
  /\ Number(menu) <= owned + adminStops
AdminIInv == AdminTypes /\ MadeInv /\ OwnedInv

LEMMA Counting ==
  /\ \A type : Credit(type) \in 0..1
  /\ \A u : Pending(u) \in 0..1 /\ Deleting(u) \in 0..1
  /\ Pending(Admin!Nothing) = 0 /\ Deleting(Admin!Nothing) = 0
  /\ \A word : Pending(Admin!Text(word)) = 0 /\ Deleting(Admin!Text(word)) = 0
  /\ \A t, r, b : /\ Pending(Admin!Tap(t, r, b)) = IF t \in Repeats THEN 1 ELSE 0
                  /\ Deleting(Admin!Tap(t, r, b)) = IF t = "adm:mbx:" THEN 1 ELSE 0
  <1> HIDE DEF Repeats
  <1> QED BY DEF Credit, Pending, Deleting, Admin!Nothing, Admin!Text, Admin!Tap

LEMMA RepeatsAre ==
  /\ "adm:mbx:" \notin Repeats /\ "adm:bt:" \notin Repeats /\ "adm:atype:" \notin Repeats
  /\ "adm:root" \notin Repeats /\ "adm:cancel" \notin Repeats
  /\ \A t \in Admin!Edits : t \notin Repeats
  /\ "adm:mbx:" \notin {"adm:bt:", "adm:atype:", "adm:root", "adm:cancel"}
  BY DEF Repeats, Admin!Prompts, Admin!Switches, Admin!NewsSwitches, Admin!RatesSwitches, Admin!Edits

LEMMA Leads == \A t \in DOMAIN Admin!Prompts : Admin!Prompts[t] \in {"broadcast_text", "add_text", "makes", "sets"}
  BY DEF Admin!Prompts

LEMMA Flows ==
  /\ Admin!NoFlow.type = "none" /\ DOMAIN Admin!NoFlow = {"type", "r", "b"}
  /\ \A type : /\ [Admin!NoFlow EXCEPT !.type = type].type = type
               /\ DOMAIN [Admin!NoFlow EXCEPT !.type = type] = {"type", "r", "b"}
  BY DEF Admin!NoFlow

(* An update is new or the one delivered again, and is handled to its end  *)
(* or cut by an eviction.                                                  *)
LEMMA Deliveries ==
  ASSUME NEW u, Admin!Handled(u) \/ Admin!Cut(u)
  PROVE  \/ again # u /\ again' = again /\ adminStops' = adminStops
         \/ again = u /\ again' = Admin!Nothing /\ adminStops' = adminStops
         \/ again # u /\ again = Admin!Nothing /\ again' = u /\ adminStops' = adminStops + 1
         \/ again = u /\ again' = u /\ adminStops' = adminStops + 1
  BY DEF Admin!Handled, Admin!Cut

LEMMA CutCounts == \A u : Admin!Cut(u) => again' = u /\ adminStops' = adminStops + 1 /\ (again # u => again = Admin!Nothing)
  BY DEF Admin!Cut

(* What the buttons number, when the menu is left alone.                   *)
LEMMA OwnedKept ==
  ASSUME AdminIInv, UNCHANGED <<menu, owned>>, NEW u, Admin!Handled(u) \/ Admin!Cut(u), Deleting(u) = 0
  PROVE  OwnedInv'
  <1>1. Number(menu)' = Number(menu) /\ Number(menu) \in Nat
    BY NumberIs DEF Number, AdminIInv, AdminTypes
  <1>2. adminStops' \in {adminStops, adminStops + 1} /\ Deleting(again') \in {Deleting(again), 0}
    BY Deliveries, Counting
  <1>3. Deleting(again') <= Deleting(again) /\ Deleting(again) \in Nat /\ Deleting(again') \in Nat
    BY <1>2, Counting
  <1> QED BY <1>1, <1>2, <1>3 DEF AdminIInv, AdminTypes, OwnedInv

LEMMA PromptOpened ==
  ASSUME AdminIInv, Admin!OpenPrompt
  PROVE  AdminIInv'
  <1>1. PICK t \in DOMAIN Admin!Prompts :
          LET u == Admin!Tap(t, 1, 1) IN
          /\ due' = due + (IF Admin!New(u) /\ Admin!Prompts[t] \in {"makes", "broadcast_text", "add_text"} THEN 1 ELSE 0)
          /\ \/ flow' = [Admin!NoFlow EXCEPT !.type = Admin!Prompts[t]] /\ (Admin!Handled(u) \/ Admin!Cut(u))
             \/ UNCHANGED flow /\ Admin!Cut(u)
          /\ UNCHANGED <<menu, buttons, owned, made>>
    BY DEF Admin!OpenPrompt
  <1> DEFINE u == Admin!Tap(t, 1, 1)
             called == Admin!Prompts[t] \in {"makes", "broadcast_text", "add_text"}
             type == Admin!Prompts[t]
  <1>2. Pending(u) = 1 /\ Deleting(u) = 0
    <2>1. t \in Repeats
      BY DEF Repeats
    <2> QED BY <2>1, Counting, RepeatsAre
  <1>3. Credit(type) = IF called THEN 1 ELSE 0
    BY Leads DEF Credit, Making
  <1>4. due' = due + (IF again # u /\ called THEN 1 ELSE 0)
    BY <1>1 DEF Admin!New
  <1>5. \/ flow'.type = type /\ DOMAIN flow' = {"type", "r", "b"} /\ (Admin!Handled(u) \/ Admin!Cut(u))
        \/ UNCHANGED flow /\ Admin!Cut(u)
    <2> HIDE DEF u
    <2> QED BY <1>1, Flows DEF u
  <1> HIDE DEF u, called, type
  <1>6. AdminTypes'
    BY <1>1, <1>4, <1>5, Deliveries DEF AdminIInv, AdminTypes
  <1>7. MadeInv'
    <2>1. CASE flow'.type = type /\ (Admin!Handled(u) \/ Admin!Cut(u))
      BY <1>1, <1>2, <1>3, <1>4, <2>1, Deliveries, Counting DEF AdminIInv, AdminTypes, MadeInv
    <2>2. CASE UNCHANGED flow /\ Admin!Cut(u)
      BY <1>1, <1>2, <1>4, <2>2, CutCounts, Counting DEF AdminIInv, AdminTypes, MadeInv
    <2> QED BY <1>5, <2>1, <2>2
  <1>8. OwnedInv'
    BY <1>1, <1>2, <1>5, OwnedKept
  <1> QED BY <1>6, <1>7, <1>8 DEF AdminIInv

LEMMA PromptLeft ==
  ASSUME AdminIInv, Admin!LeavePrompt
  PROVE  AdminIInv'
  <1>1. PICK t \in {"adm:root", "adm:cancel"} :
          /\ flow' = Admin!NoFlow /\ Admin!Handled(Admin!Tap(t, 0, 0))
          /\ UNCHANGED <<menu, buttons, owned, due, made>>
    BY DEF Admin!LeavePrompt
  <1> DEFINE u == Admin!Tap(t, 0, 0)
  <1>2. Pending(u) = 0 /\ Deleting(u) = 0
    BY Counting, RepeatsAre
  <1>3. Admin!Handled(u)
    BY <1>1
  <1> HIDE DEF u
  <1>4. adminStops' = adminStops /\ again' \in {again, Admin!Nothing}
    BY <1>3 DEF Admin!Handled
  <1>5. AdminTypes'
    BY <1>1, <1>4, Flows DEF AdminIInv, AdminTypes
  <1>6. MadeInv'
    <2>1. Credit(flow'.type) = 0
      BY <1>1, Flows DEF Credit, Making
    <2> QED BY <1>1, <1>4, <2>1, Counting DEF AdminIInv, AdminTypes, MadeInv
  <1>7. OwnedInv'
    BY <1>1, <1>2, <1>3, OwnedKept
  <1> QED BY <1>5, <1>6, <1>7 DEF AdminIInv

LEMMA Switched ==
  ASSUME AdminIInv, Admin!Switch
  PROVE  AdminIInv'
  <1>1. PICK t \in Admin!Switches \cup Admin!NewsSwitches \cup Admin!RatesSwitches :
          LET u == Admin!Tap(t, 0, 0) IN
          /\ due' = due + (IF Admin!New(u) THEN 1 ELSE 0)
          /\ \/ made' = made + 1 /\ (Admin!Handled(u) \/ Admin!Cut(u))
             \/ UNCHANGED made /\ Admin!Cut(u)
          /\ UNCHANGED <<menu, flow, buttons, owned>>
    BY DEF Admin!Switch
  <1> DEFINE u == Admin!Tap(t, 0, 0)
  <1>2. Pending(u) = 1 /\ Deleting(u) = 0
    <2>1. t \in Repeats
      BY DEF Repeats
    <2> QED BY <2>1, Counting, RepeatsAre
  <1>3. due' = due + (IF again # u THEN 1 ELSE 0)
    BY <1>1 DEF Admin!New
  <1>4. \/ made' = made + 1 /\ (Admin!Handled(u) \/ Admin!Cut(u))
        \/ made' = made /\ Admin!Cut(u)
    BY <1>1
  <1> HIDE DEF u
  <1>5. AdminTypes'
    BY <1>1, <1>3, <1>4, Deliveries DEF AdminIInv, AdminTypes
  <1>6. MadeInv'
    BY <1>1, <1>2, <1>3, <1>4, Deliveries, CutCounts, Counting DEF AdminIInv, AdminTypes, MadeInv
  <1>7. OwnedInv'
    BY <1>1, <1>2, <1>4, OwnedKept
  <1> QED BY <1>5, <1>6, <1>7 DEF AdminIInv

LEMMA TargetPicked ==
  ASSUME AdminIInv, Admin!PickTarget
  PROVE  AdminIInv'
  <1> DEFINE u == Admin!Tap("adm:bt:", 0, 0)
  <1>1. /\ UNCHANGED <<menu, buttons, owned, due>>
        /\ \/ Admin!Handled(u) /\ UNCHANGED <<flow, made>>
           \/ /\ flow.type = "broadcast_target" /\ made' = made + 1
              /\ \/ (flow' = Admin!NoFlow \/ UNCHANGED flow) /\ Admin!Cut(u)
                 \/ flow' = Admin!NoFlow /\ Admin!Handled(u)
    BY DEF Admin!PickTarget
  <1>2. Pending(u) = 0 /\ Deleting(u) = 0
    BY Counting, RepeatsAre
  <1> HIDE DEF u
  <1>3. AdminTypes'
    BY <1>1, Deliveries, Flows DEF AdminIInv, AdminTypes
  <1>4. MadeInv'
    <2>1. Credit(Admin!NoFlow.type) = 0 /\ Credit("broadcast_target") = 1
      BY Flows DEF Credit, Making
    <2>2. CASE Admin!Handled(u) /\ UNCHANGED <<flow, made>>
      BY <1>1, <1>2, <2>2, Deliveries, Counting DEF AdminIInv, AdminTypes, MadeInv
    <2>3. CASE /\ flow.type = "broadcast_target" /\ made' = made + 1
               /\ \/ (flow' = Admin!NoFlow \/ UNCHANGED flow) /\ Admin!Cut(u)
                  \/ flow' = Admin!NoFlow /\ Admin!Handled(u)
      BY <1>1, <1>2, <2>1, <2>3, Deliveries, CutCounts, Counting DEF AdminIInv, AdminTypes, MadeInv
    <2> QED BY <1>1, <2>2, <2>3
  <1>5. OwnedInv'
    BY <1>1, <1>2, OwnedKept
  <1> QED BY <1>3, <1>4, <1>5 DEF AdminIInv

LEMMA TypePicked ==
  ASSUME AdminIInv, Admin!PickType
  PROVE  AdminIInv'
  <1> DEFINE u == Admin!Tap("adm:atype:", 0, 0)
  <1>1. /\ flow' = (IF flow.type = "add_type" THEN [flow EXCEPT !.type = "add_value"] ELSE flow)
        /\ (Admin!Handled(u) \/ Admin!Cut(u))
        /\ UNCHANGED <<menu, buttons, owned, due, made>>
    BY DEF Admin!PickType
  <1>2. Pending(u) = 0 /\ Deleting(u) = 0
    BY Counting, RepeatsAre
  <1> HIDE DEF u
  <1>3. DOMAIN flow' = {"type", "r", "b"} /\ Credit(flow'.type) = Credit(flow.type)
    <2>1. CASE flow.type = "add_type"
      <3>1. flow'.type = "add_value" /\ DOMAIN flow' = {"type", "r", "b"}
        BY <1>1, <2>1 DEF AdminIInv, AdminTypes
      <3> QED BY <2>1, <3>1 DEF Credit, Making
    <2>2. CASE flow.type # "add_type"
      BY <1>1, <2>2 DEF AdminIInv, AdminTypes
    <2> QED BY <2>1, <2>2
  <1>4. AdminTypes'
    BY <1>1, <1>3, Deliveries DEF AdminIInv, AdminTypes
  <1>5. MadeInv'
    BY <1>1, <1>2, <1>3, Deliveries, Counting DEF AdminIInv, AdminTypes, MadeInv
  <1>6. OwnedInv'
    BY <1>1, <1>2, OwnedKept
  <1> QED BY <1>4, <1>5, <1>6 DEF AdminIInv

(* A button is deleted.                                                    *)
LEMMA DeletedFine ==
  ASSUME NEW B, NEW m \in Menu(B), Admin!EachOnce(m), NEW r \in DOMAIN m, NEW b \in DOMAIN m[r]
  PROVE  /\ Admin!Tidy(Admin!Without(m, r, b), r) \in Menu(B)
         /\ Admin!EachOnce(Admin!Tidy(Admin!Without(m, r, b), r))
         /\ \A y : Stands(Admin!Tidy(Admin!Without(m, r, b), r), y) <=> Stands(m, y) /\ y # m[r][b]
  <1> DEFINE w == Admin!Without(m, r, b)
             n == Admin!Tidy(w, r)
  <1>1. /\ w \in Menu(B) /\ Len(w) = Len(m) /\ Admin!EachOnce(w)
        /\ \A y : Stands(w, y) <=> Stands(m, y) /\ y # m[r][b]
    BY WithoutFine
  <1> HIDE DEF w
  <1>2. r \in DOMAIN w
    BY <1>1, MenuRows
  <1>3. n \in Menu(B) /\ Admin!EachOnce(n) /\ \A y : Stands(n, y) <=> Stands(w, y)
    BY <1>1, <1>2, TidyFine
  <1> HIDE DEF n
  <1>4. n \in Menu(B) /\ Admin!EachOnce(n) /\ \A y : Stands(n, y) <=> Stands(m, y) /\ y # m[r][b]
    BY <1>1, <1>3
  <1> QED BY <1>4 DEF n, w

LEMMA MenuEdited ==
  ASSUME AdminIInv, Admin!EditMenu
  PROVE  AdminIInv'
  <1>1. PICK t \in Admin!Edits, r \in 1..3, b \in 1..3 :
          LET u == Admin!Tap(t, r, b)
              edited == IF ~Admin!At(menu, r, b) THEN menu
                        ELSE IF t = "adm:mbx:" THEN Admin!Tidy(Admin!Without(menu, r, b), r)
                        ELSE Admin!Moved(menu, t, r, b)
          IN /\ owned' = owned - (IF Admin!New(u) /\ t = "adm:mbx:" /\ Admin!At(menu, r, b) THEN 1 ELSE 0)
             /\ \/ menu' = edited /\ (Admin!Handled(u) \/ Admin!Cut(u))
                \/ UNCHANGED menu /\ Admin!Cut(u)
             /\ UNCHANGED <<flow, buttons, due, made>>
    BY DEF Admin!EditMenu
  <1> DEFINE u == Admin!Tap(t, r, b)
             gone == t = "adm:mbx:" /\ Admin!At(menu, r, b)
             n == IF ~Admin!At(menu, r, b) THEN menu
                  ELSE IF t = "adm:mbx:" THEN Admin!Tidy(Admin!Without(menu, r, b), r)
                  ELSE Admin!Moved(menu, t, r, b)
  <1>2. Pending(u) = 0 /\ Deleting(u) = IF t = "adm:mbx:" THEN 1 ELSE 0
    BY Counting, RepeatsAre
  <1>3. owned' = owned - (IF again # u /\ gone THEN 1 ELSE 0)
    BY <1>1 DEF Admin!New
  <1>4. \/ menu' = n /\ (Admin!Handled(u) \/ Admin!Cut(u))
        \/ menu' = menu /\ Admin!Cut(u)
    BY <1>1
  <1>5. buttons \in Nat /\ menu \in Menu(1..buttons) /\ Admin!EachOnce(menu)
    BY DEF AdminIInv, AdminTypes
  <1>6. /\ n \in Menu(1..buttons) /\ Admin!EachOnce(n) /\ Number(menu) \in Nat
        /\ Number(n) = Number(menu) - (IF gone THEN 1 ELSE 0)
    <2>1. Number(menu) \in Nat
      BY <1>5, NumberIs
    <2>2. CASE ~Admin!At(menu, r, b)
      <3>1. n = menu /\ ~gone
        BY <2>2
      <3> HIDE DEF n, gone
      <3> QED BY <1>5, <2>1, <3>1
    <2>3. CASE Admin!At(menu, r, b) /\ t = "adm:mbx:"
      <3>1. r \in DOMAIN menu /\ b \in DOMAIN menu[r] /\ Stands(menu, menu[r][b])
        BY <2>3 DEF Admin!At, Stands
      <3> DEFINE e == Admin!Tidy(Admin!Without(menu, r, b), r)
      <3>2. /\ e \in Menu(1..buttons) /\ Admin!EachOnce(e)
            /\ \A y : Stands(e, y) <=> Stands(menu, y) /\ y # menu[r][b]
        BY <1>5, <3>1, DeletedFine
      <3>3. n = e /\ gone
        BY <2>3
      <3> HIDE DEF n, e, gone
      <3>4. Number(e) = Number(menu) - 1
        BY <1>5, <3>1, <3>2, NumberIs
      <3> QED BY <2>1, <3>2, <3>3, <3>4
    <2>4. CASE Admin!At(menu, r, b) /\ t # "adm:mbx:"
      <3>1. r \in DOMAIN menu /\ b \in DOMAIN menu[r]
        BY <2>4 DEF Admin!At
      <3> DEFINE e == Admin!Moved(menu, t, r, b)
      <3>2. LegalMove(1..buttons, menu, e)
        BY <1>5, <3>1, MovedFine
      <3>3. n = e /\ ~gone
        BY <2>4
      <3> HIDE DEF n, e, gone
      <3>4. Number(e) = Number(menu)
        BY <1>5, <3>2, NumberIs DEF LegalMove
      <3> QED BY <2>1, <3>2, <3>3, <3>4 DEF LegalMove
    <2> QED BY <2>2, <2>3, <2>4
  <1>7. gone => t = "adm:mbx:"
    OBVIOUS
  <1> HIDE DEF u, gone, n
  <1>8. AdminTypes'
    BY <1>1, <1>3, <1>4, <1>6, Deliveries DEF AdminIInv, AdminTypes
  <1>9. MadeInv'
    BY <1>1, <1>2, <1>4, Deliveries, Counting DEF AdminIInv, AdminTypes, MadeInv
  <1>10. OwnedInv'
    <2>1. CASE menu' = n /\ (Admin!Handled(u) \/ Admin!Cut(u))
      <3>1. Number(menu') = Number(n)
        BY <2>1
      <3>2. \/ again # u /\ Deleting(again') = Deleting(again) /\ adminStops' = adminStops
            \/ again = u /\ Deleting(again') = 0 /\ Deleting(again) = Deleting(u) /\ adminStops' = adminStops
            \/ again # u /\ Deleting(again) = 0 /\ Deleting(again') = Deleting(u) /\ adminStops' = adminStops + 1
            \/ again = u /\ Deleting(again') = Deleting(u) /\ Deleting(again) = Deleting(u) /\ adminStops' = adminStops + 1
        BY <2>1, Deliveries, Counting
      <3>3. Deleting(again) \in 0..1 /\ Deleting(u) \in 0..1
        BY Counting
      <3> QED BY <1>2, <1>3, <1>6, <1>7, <3>1, <3>2, <3>3 DEF AdminIInv, AdminTypes, OwnedInv
    <2>2. CASE menu' = menu /\ Admin!Cut(u)
      <3>1. Number(menu') = Number(menu)
        BY <2>2
      <3> QED BY <1>2, <1>3, <1>6, <1>7, <2>2, <3>1, CutCounts, Counting DEF AdminIInv, AdminTypes, OwnedInv
    <2> QED BY <1>4, <2>1, <2>2
  <1> QED BY <1>8, <1>9, <1>10 DEF AdminIInv

LEMMA MenuSaved ==
  ASSUME MenuWidth \in Nat, MenuHeight \in Nat, AdminIInv, Admin!SaveMenu
  PROVE  AdminIInv'
  <1> DEFINE height == Admin!Min({Len(menu), MenuHeight})
             width == [i \in 1..height |-> Admin!Min({Len(menu[i]), MenuWidth})]
             n == [i \in 1..height |-> SubSeq(menu[i], 1, width[i])]
  <1>1. /\ menu' = n
        /\ owned' = owned - (Number(menu) - Number(menu'))
        /\ UNCHANGED <<flow, again, buttons, due, made, adminStops>>
    BY DEF Admin!SaveMenu, Number
  <1>2. buttons \in Nat /\ menu \in Menu(1..buttons) /\ Admin!EachOnce(menu)
    BY DEF AdminIInv, AdminTypes
  <1>3. /\ Len(menu) \in Nat /\ DOMAIN menu = 1..Len(menu)
        /\ \A i \in DOMAIN menu : menu[i] \in Seq(1..buttons) /\ Len(menu[i]) \in Nat
    BY <1>2, MenuRows
  <1>4. height \in Nat /\ height <= Len(menu)
    BY <1>3, SmallerOfTwo
  <1> HIDE DEF height
  <1>5. \A i \in 1..height : width[i] \in Nat /\ width[i] <= Len(menu[i])
    BY <1>3, <1>4, SmallerOfTwo
  <1> HIDE DEF width
  <1>6. n \in [1..height -> Seq(1..buttons)]
    <2> SUFFICES ASSUME NEW i \in 1..height PROVE SubSeq(menu[i], 1, width[i]) \in Seq(1..buttons)
      OBVIOUS
    <2>1. i \in DOMAIN menu
      BY <1>3, <1>4
    <2> QED BY <1>3, <1>5, <2>1, TrimmedRow
  <1>7. \A i \in 1..height : n[i] = SubSeq(menu[i], 1, width[i])
    OBVIOUS
  <1> HIDE DEF n
  <1>8. n \in Menu(1..buttons) /\ Admin!EachOnce(n) /\ \A y : Stands(n, y) => Stands(menu, y)
    <2>1. IsTrimmed(1..buttons, menu, height, width, n)
      BY <1>4, <1>5, <1>6, <1>7 DEF IsTrimmed
    <2> QED BY <1>2, <2>1, TrimmedFine
  <1>9. Number(n) \in Nat /\ Number(menu) \in Nat /\ Number(menu') = Number(n)
    BY <1>1, <1>2, <1>8, NumberIs
  <1>10. AdminTypes'
    BY <1>1, <1>8, <1>9 DEF AdminIInv, AdminTypes
  <1>11. MadeInv'
    BY <1>1 DEF AdminIInv, MadeInv
  <1>12. OwnedInv'
    <2>1. Deleting(again') = Deleting(again) /\ Deleting(again) \in Nat
      BY <1>1, Counting
    <2> QED BY <1>1, <1>9, <2>1 DEF AdminIInv, AdminTypes, OwnedInv
  <1> QED BY <1>10, <1>11, <1>12 DEF AdminIInv

(* What a text that fits makes and adds.                                   *)
LEMMA MenuGrows ==
  ASSUME NEW k \in Nat, NEW l \in Nat, k <= l, NEW m \in Menu(1..k) PROVE m \in Menu(1..l)
  <1>1. ASSUME NEW s \in Seq(1..k) PROVE s \in Seq(1..l)
    <2>1. Len(s) \in Nat /\ s = [i \in 1..Len(s) |-> s[i]] /\ \A i \in 1..Len(s) : s[i] \in 1..l
      BY LenProperties
    <2> QED BY <2>1, IsASeq
  <1>2. Len(m) \in Nat /\ m = [i \in 1..Len(m) |-> m[i]] /\ \A i \in 1..Len(m) : m[i] \in Seq(1..k)
    BY LenProperties DEF Menu
  <1>3. \A i \in 1..Len(m) : m[i] \in Seq(1..l)
    BY <1>1, <1>2
  <1> QED BY <1>2, <1>3, IsASeq DEF Menu

LEMMA NextFlows ==
  /\ \A type : DOMAIN Admin!NextFlow(type) = {"type", "r", "b"}
  /\ \A type : Credit(Admin!NextFlow(type).type) = IF type \in {"broadcast_text", "add_text"} THEN 1 ELSE 0
  <1> SUFFICES ASSUME NEW type
               PROVE  /\ DOMAIN Admin!NextFlow(type) = {"type", "r", "b"}
                      /\ Credit(Admin!NextFlow(type).type) = IF type \in {"broadcast_text", "add_text"} THEN 1 ELSE 0
    OBVIOUS
  <1>1. CASE type = "broadcast_text"
    <2>1. Admin!NextFlow(type) = [Admin!NoFlow EXCEPT !.type = "broadcast_target"]
      BY <1>1 DEF Admin!NextFlow
    <2>2. Credit("broadcast_target") = 1
      BY DEF Credit, Making
    <2> QED BY <1>1, <2>1, <2>2, Flows
  <1>2. CASE type = "add_text"
    <2>1. Admin!NextFlow(type) = [Admin!NoFlow EXCEPT !.type = "add_type"]
      BY <1>2 DEF Admin!NextFlow
    <2>2. Credit("add_type") = 1
      BY DEF Credit, Making
    <2> QED BY <1>2, <2>1, <2>2, Flows
  <1>3. CASE type \notin {"broadcast_text", "add_text"}
    <2>1. Admin!NextFlow(type) = Admin!NoFlow
      BY <1>3 DEF Admin!NextFlow
    <2>2. Credit("none") = 0
      BY DEF Credit, Making
    <2> QED BY <1>3, <2>1, <2>2, Flows
  <1> QED BY <1>1, <1>2, <1>3

LEMMA AnsweredFine ==
  ASSUME MenuWidth \in Nat, MenuHeight \in Nat, AdminTypes, NEW type, Admin!Answered(type)
  PROVE  /\ buttons' \in Nat /\ menu' \in Menu(1..buttons') /\ Admin!EachOnce(menu')
         /\ owned' \in Int /\ made' \in Nat /\ Number(menu) \in Nat /\ Number(menu') = Number(menu) + owned' - owned
         /\ made' <= made + 1 /\ made' + Credit(Admin!NextFlow(type).type) <= made + Credit(type)
  <1>0. /\ buttons \in Nat /\ menu \in Menu(1..buttons) /\ Admin!EachOnce(menu) /\ owned \in Int /\ made \in Nat
        /\ Number(menu) \in Nat
    BY NumberIs DEF AdminTypes
  <1>1. CASE type = "makes"
    <2>1. made' = made + 1 /\ UNCHANGED <<menu, buttons, owned>>
      BY <1>1 DEF Admin!Answered
    <2>2. Credit(Admin!NextFlow(type).type) = 0 /\ Credit(type) = 1
      BY <1>1, NextFlows DEF Credit, Making
    <2> QED BY <1>0, <2>1, <2>2
  <1>2. CASE type = "add_value" /\ buttons < MaxButtons
    <2> DEFINE x == buttons + 1
               n == Admin!WithButton(menu, x)
               one == IF menu' = menu THEN 0 ELSE 1
    <2>1. menu' = n /\ buttons' = x /\ made' = made + one /\ owned' = owned + one
      BY <1>2 DEF Admin!Answered
    <2>2. Credit(Admin!NextFlow(type).type) = 0 /\ Credit(type) = 1
      BY <1>2, NextFlows DEF Credit, Making
    <2>3. x \in Nat /\ x \in 1..x /\ menu \in Menu(1..x) /\ ~Stands(menu, x)
      <3>1. ~Stands(menu, x)
        BY <1>0, MenuRows DEF Stands
      <3>2. x \in Nat /\ x \in 1..x /\ buttons <= x
        BY <1>0
      <3> HIDE DEF x
      <3> QED BY <1>0, <3>1, <3>2, MenuGrows
    <2> HIDE DEF x
    <2>4. \/ n = menu
          \/ n \in Menu(1..x) /\ Admin!EachOnce(n) /\ \A y : Stands(n, y) <=> Stands(menu, y) \/ y = x
      BY <1>0, <2>3, WithButtonFine
    <2> HIDE DEF n
    <2>5. CASE n = menu
      <3>1. one = 0
        BY <2>1, <2>5
      <3> HIDE DEF one
      <3> QED BY <1>0, <2>1, <2>2, <2>3, <2>5, <3>1
    <2>6. CASE n \in Menu(1..x) /\ Admin!EachOnce(n) /\ \A y : Stands(n, y) <=> Stands(menu, y) \/ y = x
      <3>1. Number(n) = Number(menu) + 1
        BY <1>0, <2>3, <2>6, NumberIs
      <3>2. menu' # menu
        BY <1>0, <2>1, <3>1
      <3>3. one = 1
        BY <3>2
      <3>4. Number(menu') = Number(menu) + 1
        BY <2>1, <3>1
      <3> HIDE DEF one
      <3> QED BY <1>0, <2>1, <2>2, <2>3, <2>6, <3>3, <3>4
    <2> QED BY <2>4, <2>5, <2>6
  <1>3. CASE type # "makes" /\ ~(type = "add_value" /\ buttons < MaxButtons)
    <2>1. UNCHANGED <<menu, made, buttons, owned>>
      BY <1>3 DEF Admin!Answered
    <2>2. Credit(Admin!NextFlow(type).type) <= Credit(type)
      BY NextFlows DEF Credit, Making
    <2>3. Credit(Admin!NextFlow(type).type) \in 0..1 /\ Credit(type) \in 0..1
      BY Counting
    <2> QED BY <1>0, <2>1, <2>2, <2>3
  <1> QED BY <1>1, <1>2, <1>3

LEMMA TextTyped ==
  ASSUME MenuWidth \in Nat, MenuHeight \in Nat, AdminIInv, Admin!TypeText
  PROVE  AdminIInv'
  <1>1. PICK word \in {"fits", "misfits"} :
          LET u == Admin!Text(word) IN
          /\ UNCHANGED due
          /\ \/ Admin!Handled(u) /\ UNCHANGED <<menu, flow, buttons, owned, made>>
             \/ flow' = Admin!NoFlow /\ Admin!Handled(u) /\ UNCHANGED <<menu, buttons, owned, made>>
             \/ /\ Admin!Answered(flow.type)
                /\ \/ flow' = Admin!NextFlow(flow.type) /\ (Admin!Handled(u) \/ Admin!Cut(u))
                   \/ UNCHANGED flow /\ Admin!Cut(u)
    BY DEF Admin!TypeText
  <1> DEFINE u == Admin!Text(word)
  <1>2. Pending(u) = 0 /\ Deleting(u) = 0
    BY Counting
  <1>3. /\ due' = due
        /\ \/ Admin!Handled(u) /\ UNCHANGED <<menu, flow, buttons, owned, made>>
           \/ flow' = Admin!NoFlow /\ Admin!Handled(u) /\ UNCHANGED <<menu, buttons, owned, made>>
           \/ Admin!Answered(flow.type) /\ flow' = Admin!NextFlow(flow.type) /\ (Admin!Handled(u) \/ Admin!Cut(u))
           \/ Admin!Answered(flow.type) /\ UNCHANGED flow /\ Admin!Cut(u)
    BY <1>1
  <1> HIDE DEF u
  <1>4. AdminTypes
    BY DEF AdminIInv
  <1>5. Credit(Admin!NoFlow.type) = 0
    BY Flows DEF Credit, Making
  <1>6. due' = due /\ (Admin!Handled(u) \/ Admin!Cut(u))
    BY <1>3
  <1>7. /\ Pending(again') \in {Pending(again), 0} /\ Deleting(again') \in {Deleting(again), 0}
        /\ adminStops' \in {adminStops, adminStops + 1}
    BY <1>2, <1>6, Deliveries, Counting
  <1>8. /\ Pending(again) \in 0..1 /\ Pending(again') \in 0..1 /\ Deleting(again) \in 0..1 /\ Deleting(again') \in 0..1
        /\ Credit(flow.type) \in 0..1
    BY Counting
  <1>9. CASE Admin!Handled(u) /\ (UNCHANGED flow \/ flow' = Admin!NoFlow) /\ UNCHANGED <<menu, buttons, owned, made>>
    <2>1. AdminTypes'
      BY <1>4, <1>9, <1>6, <1>7, Flows DEF AdminTypes
    <2>2. MadeInv'
      <3>1. Credit(flow'.type) <= Credit(flow.type) /\ Credit(flow'.type) \in 0..1
        <4>1. Credit(flow'.type) \in {Credit(flow.type), 0}
          BY <1>5, <1>9
        <4> QED BY <1>8, <4>1
      <3> QED BY <1>4, <1>9, <1>6, <1>7, <1>8, <3>1 DEF AdminIInv, AdminTypes, MadeInv
    <2> QED BY <1>2, <1>9, <2>1, <2>2, OwnedKept DEF AdminIInv
  <1>10. CASE /\ Admin!Answered(flow.type)
              /\ \/ flow' = Admin!NextFlow(flow.type) /\ (Admin!Handled(u) \/ Admin!Cut(u))
                 \/ UNCHANGED flow /\ Admin!Cut(u)
    <2> DEFINE type == flow.type
    <2>1. /\ buttons' \in Nat /\ menu' \in Menu(1..buttons') /\ Admin!EachOnce(menu')
          /\ owned' \in Int /\ made' \in Nat /\ Number(menu) \in Nat /\ Number(menu') = Number(menu) + owned' - owned
          /\ made' <= made + 1 /\ made' + Credit(Admin!NextFlow(type).type) <= made + Credit(type)
      BY <1>4, <1>10, AnsweredFine
    <2>2. Pending(again') <= Pending(again) /\ Deleting(again') <= Deleting(again) /\ Credit(type) \in 0..1
      BY <1>7, <1>8
    <2> HIDE DEF type
    <2>3. Credit(Admin!NextFlow(type).type) \in 0..1 /\ type = flow.type
      BY Counting DEF type
    <2>4. AdminTypes'
      <3>1. DOMAIN flow' = {"type", "r", "b"}
        BY <1>4, <1>10, <2>3, NextFlows DEF AdminTypes
      <3> QED BY <1>4, <1>6, <1>7, <2>1, <3>1 DEF AdminTypes
    <2>5. /\ made \in Nat /\ due \in Nat /\ adminStops \in Nat /\ owned \in Int /\ due' = due /\ made' \in Nat
          /\ owned' \in Int /\ adminStops' \in Nat /\ adminStops <= adminStops'
      BY <1>4, <1>6, <1>7, <2>1 DEF AdminTypes
    <2>6. /\ made' <= made + 1 /\ made' + Credit(Admin!NextFlow(type).type) <= made + Credit(type)
          /\ Number(menu) \in Nat /\ Number(menu') = Number(menu) + owned' - owned
      BY <2>1
    <2>7. Pending(again') <= Pending(again) /\ Deleting(again') <= Deleting(again)
      BY <2>2
    <2>8. /\ Pending(again) \in Nat /\ Pending(again') \in Nat
          /\ made + Credit(type) + Pending(again) <= due + adminStops
      BY <1>8, <2>3 DEF AdminIInv, MadeInv
    <2>9. MadeInv'
      <3>1. CASE flow' = Admin!NextFlow(type)
        <4>1. Credit(flow'.type) = Credit(Admin!NextFlow(type).type)
          BY <3>1
        <4>2. Credit(Admin!NextFlow(type).type) \in Nat /\ Credit(type) \in Nat
          BY <2>2, <2>3
        <4>3. made' + Credit(Admin!NextFlow(type).type) + Pending(again') <= due' + adminStops'
          BY <2>5, <2>8, <2>6, <2>7, <4>2
        <4> QED BY <4>1, <4>3 DEF MadeInv
      <3>2. CASE flow' = flow /\ Admin!Cut(u)
        <4>1. adminStops' = adminStops + 1
          BY <3>2, CutCounts
        <4>2. Credit(flow'.type) = Credit(type) /\ Credit(type) \in Nat
          BY <2>2, <2>3, <3>2
        <4>3. made' + Credit(type) + Pending(again') <= due' + adminStops'
          BY <2>5, <2>8, <2>6, <2>7, <4>1, <4>2
        <4> QED BY <4>2, <4>3 DEF MadeInv
      <3> QED BY <1>10, <2>3, <3>1, <3>2
    <2>10. OwnedInv'
      <3>1. /\ Number(menu) + adminStops >= owned + Deleting(again) /\ Number(menu) <= owned + adminStops
            /\ Deleting(again) \in Nat /\ Deleting(again') \in Nat
        BY <1>8 DEF AdminIInv, OwnedInv
      <3>2. /\ Number(menu') + adminStops' >= owned' + Deleting(again')
            /\ Number(menu') <= owned' + adminStops'
        BY <2>5, <2>6, <2>7, <3>1
      <3> QED BY <3>2 DEF OwnedInv
    <2> QED BY <2>4, <2>9, <2>10 DEF AdminIInv
  <1> QED BY <1>3, <1>9, <1>10

(* The taps the screens offer are the router's, but for one.               *)
LEMMA TapsRouted == Admin!Offered \ Admin!Routed = {"noop"}
  <1>1. Admin!adminHome \subseteq Admin!Shows /\ Admin!typePrompts \subseteq Admin!Routed
    BY DEF Admin!Shows, Admin!Routed
  <1>2. Admin!menuListScreen \cup Admin!buttonEditorScreen \subseteq Admin!Routed
    BY DEF Admin!menuListScreen, Admin!buttonEditorScreen, Admin!Routed, Admin!Edits, Admin!Shows, Admin!Prompts
  <1>3. Admin!newsScreens \subseteq Admin!Routed
    BY DEF Admin!newsScreens, Admin!Routed, Admin!NewsSwitches, Admin!Sets, Admin!Shows, Admin!Prompts
  <1>4. Admin!ratesScreens \subseteq Admin!Routed
    BY DEF Admin!ratesScreens, Admin!Routed, Admin!RatesSwitches, Admin!Sets, Admin!Shows, Admin!Prompts
  <1>5. Admin!relayScreens \ {"noop"} \subseteq Admin!Routed /\ "noop" \in Admin!relayScreens
    BY DEF Admin!relayScreens, Admin!Routed, Admin!Switches, Admin!Sets, Admin!Shows, Admin!Prompts
  <1>6. Admin!settingsScreens \subseteq Admin!Routed
    BY DEF Admin!settingsScreens, Admin!Routed, Admin!Switches, Admin!Sets, Admin!Shows, Admin!Prompts
  <1>7. Admin!peopleScreens \subseteq Admin!Routed
    BY DEF Admin!peopleScreens, Admin!Routed, Admin!Switches, Admin!Sets, Admin!Shows, Admin!Prompts
  <1>8. Admin!shopScreens \subseteq Admin!Routed
    BY DEF Admin!shopScreens, Admin!Routed, Admin!Switches, Admin!Sets, Admin!Shows, Admin!Prompts
  <1>9. Admin!Shows \subseteq Admin!Routed
    BY DEF Admin!Routed
  <1>10. "noop" \notin Admin!Routed
    <2>1. "noop" \notin Admin!Shows
      BY DEF Admin!Shows, Admin!adminHome
    <2>2. "noop" \notin DOMAIN Admin!Prompts
      BY DEF Admin!Prompts
    <2>3. "noop" \notin Admin!Switches \cup Admin!NewsSwitches \cup Admin!RatesSwitches
      BY DEF Admin!Switches, Admin!NewsSwitches, Admin!RatesSwitches
    <2>4. "noop" \notin Admin!Sets \cup Admin!Edits \cup Admin!typePrompts
      BY DEF Admin!Sets, Admin!Edits, Admin!typePrompts
    <2> QED BY <2>1, <2>2, <2>3, <2>4 DEF Admin!Routed
  <1> QED BY <1>1, <1>2, <1>3, <1>4, <1>5, <1>6, <1>7, <1>8, <1>9, <1>10 DEF Admin!Offered

LEMMA AdminPromise == ASSUME AdminIInv PROVE Admin!AdminActsOnce
  <1>1. Number(menu) \in Nat
    BY NumberIs DEF AdminIInv, AdminTypes
  <1>2. Credit(flow.type) \in Nat /\ Pending(again) \in Nat /\ Deleting(again) \in Nat
    BY Counting
  <1>3. made <= due + adminStops
    BY <1>2 DEF AdminIInv, AdminTypes, MadeInv
  <1>4. Number(menu) + adminStops >= owned /\ Number(menu) <= owned + adminStops
    BY <1>1, <1>2 DEF AdminIInv, AdminTypes, OwnedInv
  <1>5. Admin!EachOnce(menu)
    BY DEF AdminIInv, AdminTypes
  <1> QED BY <1>3, <1>4, <1>5 DEF Admin!AdminActsOnce, Number

LEMMA AdminInitially == ASSUME Admin!AdminInit PROVE AdminIInv
  <1>1. /\ menu = <<<<1, 2>>, <<3>>>> /\ flow = Admin!NoFlow /\ again = Admin!Nothing
        /\ buttons = 3 /\ owned = 3 /\ due = 0 /\ made = 0 /\ adminStops = 0
    BY DEF Admin!AdminInit
  <1>2. menu \in Menu(1..3) /\ DOMAIN menu = {1, 2} /\ DOMAIN menu[1] = {1, 2} /\ DOMAIN menu[2] = {1}
    <2>1. <<1, 2>> \in Seq(1..3) /\ <<3>> \in Seq(1..3)
      OBVIOUS
    <2> QED BY <1>1, <2>1 DEF Menu
  <1>3. menu[1][1] = 1 /\ menu[1][2] = 2 /\ menu[2][1] = 3
    BY <1>1
  <1>4. Admin!EachOnce(menu)
    BY <1>2, <1>3 DEF Admin!EachOnce
  <1>5. Number(menu) = 3
    <2>1. \A y : Stands(menu, y) <=> y \in 1..3
      BY <1>2, <1>3 DEF Stands
    <2>2. Admin!Shown(menu) = 1..3
      BY <2>1, ShownIs
    <2>3. Cardinality(1..3) = 3
      <3>1. PICK k \in Nat : k = 3
        OBVIOUS
      <3>2. Cardinality(1..k) = k
        BY FS_Interval
      <3> QED BY <3>1, <3>2
    <2> QED BY <2>2, <2>3, ButtonCount DEF Number
  <1>6. AdminTypes
    BY <1>1, <1>2, <1>4, Flows DEF AdminTypes
  <1>7. Credit(flow.type) = 0
    BY <1>1, Flows DEF Credit, Making
  <1> QED BY <1>1, <1>5, <1>6, <1>7, Counting DEF AdminIInv, MadeInv, OwnedInv

LEMMA AdminKeeps ==
  ASSUME AdminIInv, UNCHANGED <<menu, flow, again, buttons, owned, due, made, adminStops>>
  PROVE  AdminIInv'
  <1>1. UNCHANGED <<menu, flow, again, buttons, owned, due, made, adminStops>>
    OBVIOUS
  <1>2. AdminTypes'
    BY <1>1 DEF AdminIInv, AdminTypes
  <1>3. MadeInv' /\ OwnedInv'
    BY <1>1 DEF AdminIInv, MadeInv, OwnedInv
  <1> QED BY <1>2, <1>3 DEF AdminIInv

LEMMA AdminStep ==
  ASSUME MenuWidth \in Nat, MenuHeight \in Nat, AdminIInv, Admin!AdminNext \/ UNCHANGED adminState
  PROVE  AdminIInv'
  <1>1. CASE Admin!Look
    BY <1>1, AdminKeeps DEF Admin!Look
  <1>2. CASE UNCHANGED adminState
    BY <1>2, AdminKeeps DEF adminState
  <1> QED BY <1>1, <1>2, PromptOpened, PromptLeft, Switched, TargetPicked, TypePicked, MenuEdited, MenuSaved, TextTyped
          DEF Admin!AdminNext

LEMMA AdminAlone == [Next]_allVars => Admin!AdminNext \/ UNCHANGED adminState
  BY DEF Next, Rest, allVars

\* What the administrator calls for from Telegram is made once, and once more
\* for every eviction that made the bot handle the update twice; and the buttons
\* of the main page are those added and not deleted, each in one place
\* (src/src/admin-bot.js).
THEOREM TapsOnce == Spec => []EveryTapOnce
  <1>0. MenuWidth \in Nat /\ MenuHeight \in Nat
    BY PartsAssumption DEF PartsAssumption
  <1>1. Init => AdminIInv
    BY AdminInitially DEF Init
  <1>2. AdminIInv /\ [Next]_allVars => AdminIInv'
    BY <1>0, AdminStep, AdminAlone
  <1>3. AdminIInv => EveryTapOnce
    BY AdminPromise DEF EveryTapOnce
  <1> QED BY <1>1, <1>2, <1>3, PTL DEF Spec
=============================================================================

----------------------------- MODULE MarketRates -----------------------------
(***************************************************************************)
(* The table of market rates and its daily post (src/src/rates.js).  A     *)
(* number is abstracted to what it rests on: the feeds it was taken or     *)
(* calculated from, or the table compiled into the code ("static").        *)
(*                                                                         *)
(* A refresh downloads all feeds at once, each under a deadline, and only  *)
(* then parses them in a fixed order; the answers may come in any order.   *)
(***************************************************************************)
EXTENDS Naturals, FiniteSets, Sequences

CONSTANTS
  Feeds, Sites,      \* the JSON feeds and the public pages that are asked
  Gaps,              \* the sets of rows an answer may lack
  Targets,           \* the destinations of the daily post
  MaxRefreshes, MaxDays, MaxStops

\* The order of priority in which the answers are applied.
FeedOrder == <<"tgju", "bonbast", "nobitex", "tetherland", "swapwallet", "coingecko", "kraken", "goldapi", "ratejson">>
SiteOrder == <<"alanchand", "moj3", "isignal">>

ASSUME SourcesAssumption ==
  /\ Feeds \subseteq {FeedOrder[i] : i \in DOMAIN FeedOrder}
  /\ Sites \subseteq {SiteOrder[i] : i \in DOMAIN SiteOrder}
  /\ "day" \notin Targets

VARIABLES
  answer,     \* per source: Waiting, Failed or the rows it quotes
  world,      \* refs.worldFx is set
  pass,       \* where a refresh stands: "idle", "feeds" or "sites"
  table,      \* the table under construction
  rateCache, lastGood,    \* v2:rates:cache, v2:rates:lastgood
  ratesDay, unsent, today, \* state.lastDay, the targets (and the day to be noted) the post has still to serve, the day
  posted,     \* history: how often a target got the post of a day
  refreshes, stops

refresh == <<answer, world, pass, table, rateCache, lastGood, refreshes>>
post == <<ratesDay, unsent, today, posted, stops>>
rateVars == <<refresh, post>>

Gold == {"gold18", "emami"}
Crypto == {"usdt", "btc"}
Rows == Gold \cup Crypto \cup {"ounce", "usd", "eur"}
AllSources == Feeds \cup Sites \cup {"fx"}
Waiting == {"waiting"}
Failed == {"failed"}

\* What the parser of a source can find in its payload.
Quotable(s) ==
  CASE s = "tgju" -> Gold \cup {"ounce", "usd", "eur"}
    [] s = "bonbast" -> {"usd", "eur"}
    [] s = "nobitex" -> Crypto
    [] s = "tetherland" -> {"usdt"}
    [] s = "swapwallet" -> {"usdt"}
    [] s = "coingecko" -> Crypto
    [] s = "kraken" -> {"btc"}
    [] s = "goldapi" -> {"ounce"}
    [] s = "ratejson" -> {"usd", "eur"}
    [] s = "fx" -> {"eur"}
    [] OTHER -> Rows

StaticTable == [r \in Rows |-> [live |-> FALSE, usdLive |-> FALSE, from |-> {"static"}]]
NoTable == [rows |-> StaticTable, stale |-> TRUE, by |-> [s \in {} |-> {}]]

\* applyQuote: a row that is live already is only overwritten by a feed that
\* does not just fill gaps.  A quote outside the band of its row is none.
Quoted(t, rows, s, gapsOnly) ==
  [r \in Rows |-> IF r \in rows /\ ~(gapsOnly /\ t[r].live)
                  THEN [t[r] EXCEPT !.live = TRUE, !.from = {s}] ELSE t[r]]

Calculated(t, r, basis) ==
  IF t[r].live THEN t ELSE [t EXCEPT ![r].live = TRUE, ![r].from = basis]

ParseTgju(t, rows) == Quoted(t, rows, "tgju", FALSE)
ParseBonbast(t, rows) == Quoted(t, rows, "bonbast", TRUE)

\* The dollar mirrors the tether when nobody has quoted it yet.
ParseNobitex(t, rows) ==
  LET u == Quoted(t, rows, "nobitex", FALSE) IN
  IF rows = {} THEN u ELSE Calculated(u, "usd", u["usdt"].from)

\* The price of the tether fills both the tether and the dollar.
ParseTetherland(t, rows) ==
  Quoted(t, IF rows = {} THEN {} ELSE {"usdt", "usd"}, "tetherland", TRUE)
ParseSwapwallet(t, rows) == Quoted(t, rows, "swapwallet", TRUE)

\* Prices in dollars, and an estimate by the tether of the table, live or not.
ParseCoingecko(t, rows) ==
  [r \in Rows |->
     IF r \notin rows THEN t[r]
     ELSE IF r = "usdt" \/ t[r].live THEN [t[r] EXCEPT !.usdLive = TRUE]
     ELSE [live |-> TRUE, usdLive |-> TRUE, from |-> {"coingecko"} \cup t["usdt"].from]]
ParseKraken(t, rows) == [r \in Rows |-> IF r \in rows THEN [t[r] EXCEPT !.usdLive = TRUE] ELSE t[r]]
ParseGoldApi(t, rows) == Quoted(t, rows, "goldapi", TRUE)
ParseRateJson(t, rows) == Quoted(t, rows, "ratejson", TRUE)
ApplySiteQuotes(t, rows, s) == Quoted(t, rows, s, TRUE)

Parse(s, t, rows) ==
  CASE s = "tgju" -> ParseTgju(t, rows)
    [] s = "bonbast" -> ParseBonbast(t, rows)
    [] s = "nobitex" -> ParseNobitex(t, rows)
    [] s = "tetherland" -> ParseTetherland(t, rows)
    [] s = "swapwallet" -> ParseSwapwallet(t, rows)
    [] s = "coingecko" -> ParseCoingecko(t, rows)
    [] s = "kraken" -> ParseKraken(t, rows)
    [] s = "goldapi" -> ParseGoldApi(t, rows)
    [] s = "ratejson" -> ParseRateJson(t, rows)

\* deriveQuotes: what nobody quoted, from the live dollar, ounce and currencies
\* of the table t; u is t with what was calculated before.
Derived(t, u, r, basis) ==
  LET dollar == IF t["usd"].live THEN t["usd"].from ELSE t["usdt"].from
  IN IF t["usd"].live \/ t["usdt"].live THEN Calculated(u, r, dollar \cup basis) ELSE u

DeriveQuotes(t, fx) ==
  LET ounce == t["ounce"]
      t1 == Derived(t, t, "usd", {})
      t2 == Derived(t, t1, "usdt", {})
      t3 == IF ounce.live THEN Derived(t, t2, "gold18", ounce.from) ELSE t2
      t4 == IF ounce.live THEN Derived(t, t3, "emami", ounce.from) ELSE t3
      t5 == IF t["btc"].usdLive THEN Derived(t, t4, "btc", {"kraken"}) ELSE t4
  IN IF fx THEN Derived(t, t5, "eur", {"fx"}) ELSE t5

Hits == {s \in Feeds \cup Sites : answer[s] \notin {Waiting, Failed}}
ApplySource(s, t) == IF s \in Hits THEN Parse(s, t, answer[s]) ELSE t

\* Passes 2 and 3, each in its order.
FeedsApplied(t) ==
  LET t1 == ApplySource(FeedOrder[1], t)
      t2 == ApplySource(FeedOrder[2], t1)
      t3 == ApplySource(FeedOrder[3], t2)
      t4 == ApplySource(FeedOrder[4], t3)
      t5 == ApplySource(FeedOrder[5], t4)
      t6 == ApplySource(FeedOrder[6], t5)
      t7 == ApplySource(FeedOrder[7], t6)
      t8 == ApplySource(FeedOrder[8], t7)
  IN ApplySource(FeedOrder[9], t8)
ApplySite(s, t) == IF s \in Hits THEN ApplySiteQuotes(t, answer[s], s) ELSE t
SitesApplied(t) == ApplySite(SiteOrder[3], ApplySite(SiteOrder[2], ApplySite(SiteOrder[1], t)))

RatesInit ==
  /\ answer = [s \in AllSources |-> Failed] /\ world = FALSE /\ pass = "idle"
  /\ table = StaticTable
  /\ rateCache = NoTable /\ lastGood = NoTable
  /\ ratesDay = 0 /\ unsent = {} /\ today = 1
  /\ posted = [d \in Targets |-> 0]
  /\ refreshes = 0 /\ stops = 0

-----------------------------------------------------------------------------
(* getLiveRates, asked for by a tick, a member, a digest or the panel      *)

StartRefresh ==
  /\ pass = "idle" /\ unsent = {} /\ refreshes < MaxRefreshes
  /\ refreshes' = refreshes + 1
  /\ pass' = "feeds" /\ table' = StaticTable /\ world' = FALSE
  /\ answer' = [s \in AllSources |-> IF s \in Sites THEN Failed ELSE Waiting]
  /\ UNCHANGED <<rateCache, lastGood, post>>

\* A download ends with a payload, or with an error or its deadline.
Download(s) ==
  /\ pass # "idle" /\ answer[s] = Waiting
  /\ \E rows \in {Quotable(s) \ gap : gap \in Gaps} :
       \/ rows # {} /\ answer' = [answer EXCEPT ![s] = rows] /\ world' = (world \/ s = "fx")
       \/ answer' = [answer EXCEPT ![s] = Failed] /\ UNCHANGED world
  /\ UNCHANGED <<pass, table, rateCache, lastGood, refreshes, post>>

\* The world rates are noted by the download itself, so also after its deadline.
LateWorld ==
  /\ pass # "idle" /\ answer["fx"] = Failed /\ ~world
  /\ world' = TRUE
  /\ UNCHANGED <<answer, pass, table, rateCache, lastGood, refreshes, post>>

\* Passes 2 and 3: the pages are asked only when a row is still missing.
ParseFeeds ==
  /\ pass = "feeds" /\ \A s \in AllSources : answer[s] # Waiting
  /\ table' = FeedsApplied(table)
  /\ pass' = "sites"
  /\ answer' = IF \E r \in Rows : ~table'[r].live
               THEN [s \in AllSources |-> IF s \in Sites THEN Waiting ELSE answer[s]]
               ELSE answer
  /\ UNCHANGED <<world, rateCache, lastGood, refreshes, post>>

\* Pass 4 and the end: a refresh nobody answered leaves the last good table.
FinishRefresh ==
  /\ pass = "sites" /\ \A s \in AllSources : answer[s] # Waiting
  /\ LET rows == DeriveQuotes(SitesApplied(table), world)
         done == [rows |-> rows, stale |-> Hits = {}, by |-> [s \in Hits |-> answer[s]]]
     IN IF Hits # {}
        THEN rateCache' = done /\ lastGood' = done
        ELSE /\ rateCache' = IF lastGood = NoTable THEN done ELSE [lastGood EXCEPT !.stale = TRUE]
             /\ UNCHANGED lastGood
  /\ pass' = "idle" /\ table' = StaticTable /\ world' = FALSE
  /\ answer' = [s \in AllSources |-> Failed]
  /\ UNCHANGED <<refreshes, post>>

LastGoodExpires ==
  /\ pass = "idle" /\ lastGood # NoTable
  /\ lastGood' = NoTable
  /\ UNCHANGED <<answer, world, pass, table, rateCache, refreshes, post>>

-----------------------------------------------------------------------------
(* ratesTick: the post of the day; the day is noted after the last target  *)

StartPost ==
  /\ pass = "idle" /\ unsent = {} /\ ratesDay # today /\ refreshes > 0
  /\ unsent' = Targets \cup {"day"}
  /\ UNCHANGED <<refresh, ratesDay, today, posted, stops>>

\* A target may refuse; the post goes on.
PostTo(d) ==
  /\ d \in unsent
  /\ unsent' = unsent \ {d}
  /\ \E sent \in {0, 1} : posted' = [posted EXCEPT ![d] = @ + sent]
  /\ UNCHANGED <<refresh, ratesDay, today, stops>>

\* Broken: the post ends without its day.
EndPostUnnoted ==
  /\ unsent = {"day"} /\ unsent' = {}
  /\ UNCHANGED <<refresh, ratesDay, today, posted, stops>>
EndPost ==
  /\ unsent = {"day"} /\ unsent' = {} /\ ratesDay' = today
  /\ UNCHANGED <<refresh, today, posted, stops>>

NextDay ==
  /\ unsent = {} /\ today < MaxDays
  /\ today' = today + 1 /\ posted' = [d \in Targets |-> 0] /\ stops' = 0
  /\ UNCHANGED <<refresh, ratesDay, unsent>>

\* The process is evicted during a post or a refresh.
StopRates ==
  /\ stops < MaxStops /\ stops' = stops + 1
  /\ (unsent # {} \/ pass # "idle")
  /\ unsent' = {} /\ pass' = "idle" /\ table' = StaticTable
  /\ UNCHANGED <<answer, world, rateCache, lastGood, refreshes, ratesDay, today, posted>>

RatesNext ==
  \/ StartRefresh \/ LateWorld \/ ParseFeeds \/ FinishRefresh \/ LastGoodExpires
  \/ StartPost \/ EndPost \/ NextDay \/ StopRates
  \/ \E s \in AllSources : Download(s)
  \/ \E d \in Targets : PostTo(d)

RatesSpec == RatesInit /\ [][RatesNext]_rateVars

-----------------------------------------------------------------------------
(* Properties                                                              *)

\* What a feed that answered says in Toman about a row; the other feeds of
\* the crypto rows give dollars.
Quotes(by, s, r) ==
  /\ s \in DOMAIN by \ {"coingecko", "kraken"}
  /\ (r \in by[s] \/ (s = "tetherland" /\ r = "usd"))

FirstQuoter(by, i, r) == Quotes(by, FeedOrder[i], r) /\ \A k \in 1..(i - 1) : ~Quotes(by, FeedOrder[k], r)

RowSound(row, by, r) ==
  /\ row.from \subseteq DOMAIN by \cup {"fx", "static"}
  /\ \A i \in DOMAIN FeedOrder :
       FirstQuoter(by, i, r) /\ (r = "usd" => FeedOrder[i] \in {"tgju", "bonbast"}) => row.from = {FeedOrder[i]}

\* However the answers arrive, a row holds the number of the first feed that
\* quoted it: a fast feed of lower priority never replaces it (the dollar may
\* mirror the tether instead).  No number of an earlier refresh is left: each
\* rests on feeds that answered in this one, or on the table in the code.  And a
\* destination gets the post of a day once, unless the process was evicted
\* between two of its messages.
RatesAreSound ==
  /\ \A r \in Rows : RowSound(rateCache.rows[r], rateCache.by, r)
  /\ \A d \in Targets : posted[d] <= 1 + stops

\* The comment of deriveQuotes (rates.js:573-576): a calculated row rests on
\* references that are live in this very refresh.
NothingFromStatic ==
  \A r \in Rows : rateCache.rows[r].live => "static" \notin rateCache.rows[r].from
=============================================================================

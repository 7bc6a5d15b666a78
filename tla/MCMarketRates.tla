--------------------------- MODULE MCMarketRates ---------------------------
EXTENDS MarketRates
MCFeeds == {"tgju", "nobitex", "coingecko"}
MCSites == {"alanchand"}
MCGaps == {{}, {"usd", "usdt"}}
=============================================================================

SPECIFICATION RatesSpec
CONSTANTS
 Feeds <- MCFeeds
 Sites <- MCSites
 Gaps <- MCGaps
 Targets = {d1}
 MaxRefreshes = 1
 MaxDays = 1
 MaxStops = 1
CHECK_DEADLOCK FALSE
INVARIANT NothingFromStatic

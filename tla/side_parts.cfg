SPECIFICATION Spec
CONSTANTS
  NTargets = 2
  MaxCycles = 1
  MaxAttempts = 2
  MaxBroadcastStops = 1
  MaxBadSaves = 1
  MaxClicks = 1
  Addresses = {u1, u2}
  PerSource = 3
  PerDocument = 2
  Remembered = 2
  QueueBound = 2
  Dests = {d1, d2}
  Window = 1
  Hops = 2
  MaxFeedStops = 1
  MaxEdits = 1
  WarnLimit = 2
  MaxJoins = 2
  MaxCommands = 1
  MaxNights = 1
  MaxGroupStops = 1
  MaxKeys = 3
  MaxRequests = 2
  MaxClicksCare = 1
  MaxCareFaults = 1
  MaxClock = 8
  MaxLosses = 1
  MaxOps = 2
  Feeds <- MCFeeds
  Sites <- MCSites
  Gaps <- MCGaps
  Targets = {d1}
  MaxRefreshes = 2
  MaxDays = 2
  MaxStops = 1
  MenuWidth = 2
  MenuHeight = 2
  MaxButtons = 5
  MaxAdminTaps = 4
  MaxAdminStops = 1
  RelayDests = {d1}
  MaxRelays = 2
  MaxRelayStops = 1
  MaxRelayClicks = 2
  Customers = {1, 2}
  Regulars = {}
  MaxUpdates = 3
  MaxUpdateStops = 1
  MaxCrmClicks = 1
  Players = {p1, p2}
  Plays = {1, 2}
  MaxMoney = 4
  SignupGift = 2
  GiftAmount = 3
  GiftUses = {1, 2}
  Fee = 1
  WheelPrizes = {0, 2}
  DailySpins = 1
  Budgets = {2, 3}
  DicePrize = 2
  RafflePrize = 2
  RafflePrizes = 1
  MaxEntries = 2
  MaxToday = 2
  MaxGiftStops = 1
  MaxGiftClicks = 1
  MaxGifts = 4
  Together = 2
INVARIANTS EveryBroadcastOnce EveryPostOnce EveryTalkerVerified EveryServiceCared EveryPanelObeys EveryRateSound EveryTapOnce EveryRelayOnce EverySignupPaid EveryGiftAccounted
CHECK_DEADLOCK FALSE

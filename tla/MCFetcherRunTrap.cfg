SPECIFICATION Spec
CONSTANTS
    Symbols <- TwoSymbols
    MaxTime = 7
    Interval = 2
    HourLen = 2
    SecondLen = 1
    RespectMarketHours = FALSE
    MaxBacktrack = 2
    Formats <- BothFormats
    FlushRows = 3
    LegacyRows <- NoRows
    Feeds <- TwoFeeds
    Closed = {2}
    Lookback = 2
    Period = 2
    Moments <- FourMoments
    MaxRuns = 3
INVARIANT
    CheckpointIsStored

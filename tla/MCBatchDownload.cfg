SPECIFICATION FairSpec
CONSTANTS
    MaxTime = 5
    Interval = 2
    HourLen = 2
    SecondLen = 1
    RespectMarketHours = TRUE
    MaxBacktrack = 2
    Closed = {1}
    Batches <- TwoCalls
    Tickers <- TwoTickers
    List <- TheList
    Ticks <- TheTicks
    Lookback = 2
    Moments <- TheMoments
    MaxHung = 1
    Spans <- TheSpans
    Limits <- TheLimits
INVARIANTS
    BoundedAndComplete
    AnswerInOrder
    CheckpointCovered
PROPERTY
    CallsReturn

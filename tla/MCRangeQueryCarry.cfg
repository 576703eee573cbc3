SPECIFICATION Spec
CONSTANTS
    HourLen = 4
    SecondLen = 1
    Hours <- TwoHours
    Files <- SomeFiles
    Closed <- NoHours
    RespectMarketHours = FALSE
    MaxBacktrack = 2
    Requests <- NoHours
    Starts = {1}
    Ends = {7}
    Intervals = {4}
INVARIANT SamplesAtOrBefore
CHECK_DEADLOCK FALSE

SPECIFICATION Spec
CONSTANTS
    HourLen = 4
    SecondLen = 2
    Hours <- FiveHours
    Files <- SomeFiles
    Closed = {3}
    RespectMarketHours = TRUE
    MaxBacktrack = 2
    Requests = {3, 10, 13, 17}
    Starts = {1, 4, 8}
    Ends = {5, 19}
    Intervals = {0, 2, 3, 4}
INVARIANTS
    TypeOK
    AnswerIsLatest
    NotFoundIsRight
    RowsAscending
    InHourSamplesServed
    RowsJustified
    EmptyIsRight
    RowsAreHistory
CHECK_DEADLOCK FALSE

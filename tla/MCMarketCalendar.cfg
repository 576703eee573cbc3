SPECIFICATION CalendarSpec
CONSTANT HourLen = 2
INVARIANTS
    OpenWhileTrading
    LastAvailableIsLatest
PROPERTY ReopensAsAnnounced

SPECIFICATION Spec
CONSTANTS
    Auctions = {a1}
    Requests = {r1}
    Bidders = {b1, b2}
    Users = {b1, b2}
    NoBidder = NoBidder
    NoAuction = NoAuction
    TicksPerSecond = 2
    SumRoundsUp <- NoRounding
    Amounts <- SmallAmounts
    Reserves <- NoReserve
    Increments <- OneIncrement
    Schedules <- OneSchedule
    ProxyChoices <- NoProxy
    PastWindow = 1
    BatchSize = 1
    FloatBelow <- NoRounding
    ColumnMax = 1000
    StreamLimit = 10000
    CommitAfterReply = TRUE
    MaxTime = 3
    FaultKinds <- CrashOnly
    MaxFaults = 1
INVARIANT UnsoldHasNoBids
CHECK_DEADLOCK FALSE

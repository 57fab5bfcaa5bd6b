SPECIFICATION Spec
CONSTANTS
    Auctions = {a1}
    Requests = {r1, r2}
    Bidders = {b1, b2}
    Users = {b1, b2}
    NoBidder = NoBidder
    NoAuction = NoAuction
    TicksPerSecond = 2
    SumRoundsUp <- NoRounding
    Amounts <- SmallAmounts
    Reserves <- NoReserve
    Increments <- OneIncrement
    Schedules <- OpenAtOnce
    ProxyChoices <- NoProxy
    PastWindow = 1
    BatchSize = 1
    FloatBelow <- NoRounding
    ColumnMax = 1000
    StreamLimit = 10000
    CommitAfterReply = TRUE
    MaxTime = 3
    FaultKinds <- NoFaults
    MaxFaults = 0
INVARIANT StreamOrderIsScriptOrder
CHECK_DEADLOCK FALSE

SPECIFICATION Spec
CONSTANTS
    Auctions = {a1}
    Requests = {r1}
    Bidders = {b1}
    Users = {b1}
    NoBidder = NoBidder
    NoAuction = NoAuction
    TicksPerSecond = 2
    SumRoundsUp <- NoRounding
    Amounts <- SeventyCents
    Reserves <- SeventyCents
    Increments <- TenCents
    Schedules <- OpenAtOnce
    ProxyChoices <- NoProxy
    PastWindow = 1
    BatchSize = 1
    FloatBelow <- SeventyIsBelow
    ColumnMax = 1000
    StreamLimit = 10000
    CommitAfterReply = TRUE
    MaxTime = 3
    FaultKinds <- NoFaults
    MaxFaults = 0
INVARIANT ReserveMetIsSold
CHECK_DEADLOCK FALSE

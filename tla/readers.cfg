SPECIFICATION ReadersSpec
CONSTANTS
    Auctions = {a1}
    Requests = {r1, r2, r3}
    Bidders = {b1}
    Users = {b1}
    NoBidder = NoBidder
    NoAuction = NoAuction
    TicksPerSecond = 2
    SumRoundsUp <- NoRounding
    Amounts <- LadderAmounts
    Reserves <- OneReserve
    Increments <- OneIncrement
    Schedules <- AheadOrAtOnce
    ProxyChoices <- NoProxy
    PastWindow = 0
    BatchSize = 1
    FloatBelow <- NoRounding
    ColumnMax = 1000
    StreamLimit = 10000
    CommitAfterReply = FALSE
    MaxTime = 2
    FaultKinds <- JobFaults
    MaxFaults = 1
    PageSize = 1
    StartingPrice = 50
VIEW ReadersButStreams
SYMMETRY RequestSymmetry
CONSTRAINT FewBids
INVARIANTS
    ReadersTypeOK
    WalkIsComplete
    ShownOutcomeIsKept
    HighestBidCounts
PROPERTIES
    PriceCoversBids
    SettledRowIsShown
    ViewsMoveForward
CHECK_DEADLOCK FALSE

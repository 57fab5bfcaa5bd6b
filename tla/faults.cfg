SPECIFICATION Spec
CONSTANTS
    Auctions = {a1}
    Requests = {r1, r2}
    Bidders = {b1, b2}
    Users = {b1}
    NoBidder = NoBidder
    NoAuction = NoAuction
    TicksPerSecond = 2
    SumRoundsUp <- NoRounding
    Amounts <- ThreeAmounts
    Reserves <- OneReserve
    Increments <- OneIncrement
    Schedules <- OneSchedule
    ProxyChoices <- NoProxy
    PastWindow = 0
    BatchSize = 1
    FloatBelow <- NoRounding
    ColumnMax = 400
    StreamLimit = 10000
    CommitAfterReply = TRUE
    MaxTime = 3
    FaultKinds <- AnyFault
    MaxFaults = 1
VIEW AllButStreams
CONSTRAINT OneOverflow
SYMMETRY RequestSymmetry
INVARIANTS
    TypeOK
    ToldTheTruth
    HistoryIsLadder
    SettledByWhatCloseRead
    SoldToARealBid
    LostBidsAreExplained
PROPERTIES
    AcceptedInTime
    NeverReopens
    AuctionsAscend
CHECK_DEADLOCK FALSE

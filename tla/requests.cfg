SPECIFICATION FairSpec
CONSTANTS
    Auctions = {a1}
    Requests = {r1, r2}
    Bidders = {b1}
    Users = {b1}
    NoBidder = NoBidder
    NoAuction = NoAuction
    TicksPerSecond = 2
    SumRoundsUp <- NoRounding
    Amounts <- ThreeAmounts
    Reserves <- NoReserve
    Increments <- OneIncrement
    Schedules <- ShortAuction
    ProxyChoices <- WithProxy
    PastWindow = 1
    BatchSize = 1
    FloatBelow <- NoRounding
    ColumnMax = 400
    StreamLimit = 1
    CommitAfterReply = FALSE
    MaxTime = 1
    FaultKinds <- AnyFault
    MaxFaults = 1
INVARIANTS
    ToldTheTruth
    HoldersFinish
    
PROPERTIES
    RequestsAnswered
CHECK_DEADLOCK FALSE

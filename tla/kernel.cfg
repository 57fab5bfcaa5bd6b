SPECIFICATION Spec
CONSTANTS
    Bidders = {b1, b2}
    NoBidder = NoBidder
    TicksPerSecond = 2
    Requests = {r1, r2, r3}
    Amounts <- MCAmounts
    Increments <- MCIncrements
    Ends <- MCEnds
    Times <- MCTimes
    SumRoundsUp <- MCSumRoundsUp
INVARIANTS
    TypeOK
    HashMatchesLog
    Ladder
    AcceptedOnce
PROPERTIES
    StableVerdict
    AuctionSpec

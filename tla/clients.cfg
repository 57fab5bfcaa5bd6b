SPECIFICATION ClientsSpec
CONSTANTS
    Bids = {b1, b2}
    Watchers = {w1, w2}
    PoolSize = 2
    MaxFaults = 1
    Signups = {s1, s2, s3}
    Emails = {e1, e2}
    MaxSignupFaults = 1
    Listings = {1, 2, 3}
    StartPrice = 10
    FinalPrices = {0, 20}
    Filters <- AnyFilter
    Bounds <- AnyPrice
    AskedStates = {"ACTIVE", "SOLD", "ENDED"}
    SearchLimit = 2
INVARIANTS
    ClientsTypeOK
    FramesAreBids
    CaughtUp
    OneRowPerEmail
    SearchIsComplete
    FoundStaysTrue
PROPERTIES
    OneConnectionEach
    FramesArrive
    BidsEnd
    SignupsEnd
CHECK_DEADLOCK FALSE

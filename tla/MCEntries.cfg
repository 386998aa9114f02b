SPECIFICATION EntriesSpec
CONSTANTS
    BookPrices = {1, 2, 3}
    BookSizes = {1}
    Streams = {TRUE, FALSE}
    MaxUnread = 1
    FeedPrices = {100, 103}
    Window = 2
    FirstDelay = 1
    MaxDelay = 4
    Quiet = 6
    Detectors = {"drop", "breakout", "divergence"}
    TopMid <- MCTopMid
    Lookback = 4
    MaxHistory = 4
    MinMoveBps = 4000
    ThresholdBps = 150
    GapBps = 100
    PullbackBps = 50
    MinConfirm = 2
    RsiPeriod = 1
    SignalExpiry = 2
    MinEdge = 3
    ThinBookMargin = 1
    MinDepthThreshold = 2
    Arbs = {"math", "math_gtc", "maker", "temporal"}
    PriceOffset = 1
    m1 = m1
    m2 = m2
    Markets = {m1, m2}
    Books <- MCBooks
    FeeBps <- MCFeeBps
    TickSize = 2
    MaxPosition = 2
    MinPosition = 1
    MaxBet = 200
    MaxExposure = 600
    MinNotional = 80
    CashLevels = {100, 500}
    ArbCooldown = 1
    Ttl = 1
    Changes <- MCChanges
    ThresholdMove = 100
    Sensitivity = 2000
    MaxStake <- MCMaxStake
INVARIANTS
    BookAgrees
    SilenceSpoilsOneWindow
    SignalsAsDocumented
    StakeWithinLimit
    ReservationsCovered
    PairsPayTheirEdge
    MakersNeverCross
    UnwindsCovered
CHECK_DEADLOCK FALSE

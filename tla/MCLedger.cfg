SPECIFICATION LedgerSpec
CONSTANTS
    LocalIds = {l1, l2}
    OrderIds = {o1, o2}
    Sizes = {1, 2}
    NoOrder = NoOrder
    NoId = NoId
    MaxCreated = 3
    MaxFilled = 3
    Tokens = {a, b}
    StartTokens = {a}
    TradeIds = {t1, t2}
    TradeSizes = {1, 2}
    StartCash = 3
    InitialCash = 2
    Roles = {"Taker", "Maker"}
    FailuresHappen = FALSE
    PositionSync = FALSE
    MaxRestarts = 1
    MaxDisconnects = 1
    NoTrade = NoTrade
    PaperTokens = {"yes", "no"}
    PaperPrices = {1, 2}
    PaperSizes = {1, 2}
    StartMoney = 648
    Parts = 216
    PaperFeeBps = 1000
    Keys = {TRUE, FALSE}
    MaxPaperShares = 3
    MaxFills = 4
INVARIANTS IndexesAgree ActiveHasRemaining TradedPositionsAgree ProfitsAddUp
PROPERTIES DoneStaysDone RepairedCashConverges LostIsForgotten
CHECK_DEADLOCK FALSE

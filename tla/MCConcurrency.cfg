SPECIFICATION ConcurrentSpec
CONSTANTS
    Markets = {"r1", "r2"}
    Strategies = {"temporal", "maker", "contrarian"}
    FirstMarkets = {"r1"}
    MaxQueue = 1
    MaxTasks = 1
    Switched = {"maker"}
    HalfOpenRequired = 2
    ResetTimeout = 2
    NoReason = NoReason
    NotOpened = NotOpened
    NoThread = NoThread
    Checkers = {c1, c2}
    Trippers = {t1, t2}
    Reporters = {p1, p2}
    Sockets = {s1}
    Operators = {o1}
INVARIANTS AlertedOnce LegsStayTogether FeedIsRegistered TripRecordedWhenUnlocked
PROPERTIES KillStops ChecksServeHalts EarlyEndsOverlap
CHECK_DEADLOCK FALSE

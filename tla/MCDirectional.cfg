SPECIFICATION DirSpec
CONSTANTS
    DirStrategies = {"late_entry", "contrarian", "tbo", "tbt"}
    Hosts = {TRUE, FALSE}
    Bet = 3
    Cooldown = 2
    ExitExpiry = 2
    ContrarianHold = 2
    TboHold = 2
    TbtHold = 2
    Interval = 4
    EntryWindow = 3
    LastCall = 2
    AnswerWithin = 1
    MaxLive = 2
INVARIANTS OneBetPerMarket SellsCovered
PROPERTY DueIsSold

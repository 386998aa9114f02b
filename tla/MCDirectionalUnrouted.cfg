SPECIFICATION DirSpec
CONSTANTS
    DirStrategies = {"contrarian", "tbo", "tbt"}
    Hosts = {FALSE}
    Bet = 2
    Cooldown = 2
    ExitExpiry = 2
    ContrarianHold = 2
    TboHold = 2
    TbtHold = 3
    Interval = 4
    EntryWindow = 3
    LastCall = 2
    AnswerWithin = 1
    MaxLive = 2
PROPERTY HeldIsSold

SPECIFICATION FeedSpec
CONSTANTS
    FeedPrices = {100, 103}
    Window = 6
    FirstDelay = 1
    MaxDelay = 12
    Quiet = 2
INVARIANT MomentumIsRecent

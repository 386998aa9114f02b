SPECIFICATION Spec
CONSTANTS
    Groups = {g1}
    OrderTypes = {"FOK", "GTC"}
    Intents <- ManyIntents
    FillStep = 5000
    SalePrices <- AnyBid
    AnswersGetLost = TRUE
    FatalThreshold = 2
    RejectNum = 1
    RejectDen = 5
    HalfOpenRequired = 3
    ResetTimeout = 1
    WindowDuration = 1
    MaxCount = 9
    NoReason = NoReason
    NotOpened = NotOpened
INVARIANTS NotionalInCents IntentsServed
PROPERTIES GroupsFinish ResidualHalts

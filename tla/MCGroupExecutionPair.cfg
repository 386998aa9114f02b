SPECIFICATION Spec
CONSTANTS
    Groups = {g1, g2}
    OrderTypes = {"FOK"}
    Intents <- FewIntents
    FillStep = 1000
    SalePrices <- AnyBid
    AnswersGetLost = FALSE
    FatalThreshold = 2
    RejectNum = 1
    RejectDen = 5
    HalfOpenRequired = 3
    ResetTimeout = 1
    WindowDuration = 1
    MaxCount = 9
    NoReason = NoReason
    NotOpened = NotOpened
PROPERTY DeltaNeutral
SYMMETRY Symmetry

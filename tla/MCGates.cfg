SPECIFICATION GatesSpec
CONSTANTS
    FatalThreshold = 3
    RejectNum = 1
    RejectDen = 3
    HalfOpenRequired = 3
    ResetTimeout = 2
    WindowDuration = 3
    MaxCount = 4
    NoReason = NoReason
    NotOpened = NotOpened
    BurstThreshold = 2
    BurstDuration = 2
    SustainedThreshold = 4
    SustainedDuration = 6
INVARIANTS
    TypeOK
    TripIsRecorded
    ClosedBelowThreshold
    TrialStartsAtZero
    BurstHonoured
    SustainedHonoured
PROPERTIES
    HaltsAreLifted
    KeepsPromise
    BurstReopens

SPECIFICATION LimiterSpec
CONSTANTS
    BurstThreshold = 2
    BurstDuration = 2
    SustainedThreshold = 4
    SustainedDuration = 6
PROPERTY LimiterReopens

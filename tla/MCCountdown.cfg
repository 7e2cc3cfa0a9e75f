CONSTANTS
    N = 2
    Base = 2
    MaxHour = 1
    FirstSeconds = 1
SPECIFICATION MCSpec
PROPERTIES OnlyResetsLoseCount ImplementsCountdownAbs EventuallyStops

CONSTANTS
    NButtons = 2
    REPEAT_START = 4
    REPEAT_NEXT = 2
    DEB_RUNTIME = 12
    PollEvery = 7
SPECIFICATION MCSpec
INVARIANTS NoPhantomTick
PROPERTIES NoPhantomPress PressReported TickServed FourthSampleCounts RepeatsInTime DebouncerSettles

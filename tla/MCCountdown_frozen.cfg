CONSTANTS
    N = 3
    Base = 2
    MaxHour = 0
    FirstSeconds = 1
SPECIFICATION MCSpec
INVARIANTS RunningIsCounted

CONSTANTS
    Subsecs = 2
    Secs = 2
    MaxMin = 2
    MinValues = 4
SPECIFICATION Spec
INVARIANTS CountExact TimerKept
PROPERTIES NoTickLost TimerReleased

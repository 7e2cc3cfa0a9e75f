CONSTANTS
    NAlarms = 2
    Hours = 2
    Minutes = 2
    Dows = 2
SPECIFICATION MCSpec
PROPERTIES NeverMissed OncePerMinute HourAnnounced

CONSTANTS
    Melodies <- MCMelodies
    NoMelody = NoMelody
    RepeatDelay = 1
    Reps = {0, 2}
    BeepFreq = 1
    Durations = {1}
    Levels = {0, 1}
    LightTimes = {1, 2}
SPECIFICATION LightSpec
INVARIANTS MelodyWellFormed AsAskedFor
PROPERTIES ToneOwned EventuallySilent LightGoesOut

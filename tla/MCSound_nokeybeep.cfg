CONSTANTS
    Melodies <- MCMelodies
    NoMelody = NoMelody
    RepeatDelay = 2
    Reps = {0, 2}
    BeepFreq = 1
    Durations = {1, 2}
SPECIFICATION Spec
PROPERTIES AcknowledgedMeansSilent

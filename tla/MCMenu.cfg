SPECIFICATION OtpSpec
CONSTANTS
  Apps = {"time", "conf", "countdown", "alarm", "compass", "speed", "otp", "chro", "play"}
  Calibrations <- MCCalibrations
  Deviations <- MCDeviations
  MaxSets = 1
  OtpTimeout = 2
INVARIANTS DigitValid KeyNotKept
PROPERTIES CommitLoaded CalEditNeutral MenuLeavable KeyForgotten

SPECIFICATION Spec
CONSTANTS
  Hours = 2
  Minutes = 2
  Seconds = 4
  TicksPerSecond = 2
  Half = 1
  MaxDelta = 1
  MaxAdj = 3
  SinceLimit = 3
INVARIANTS InStep SinceSetExact
PROPERTIES CorrectionExact EventuallyCorrected

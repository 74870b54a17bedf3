SPECIFICATION Spec
CONSTANTS
  FlowNum = 3
  Second = 2
  MaxSpeed = 4
  W = 4096
  Start = 10
  MaxClock = 14
  MaxSamples = 4
  Rates <- MCRates
INVARIANT GlitchFiltered
CHECK_DEADLOCK FALSE

CONSTANTS
  Forced = 0
  Half = 12
  YawMaxDelta = 4
  Rates <- MCRates
SPECIFICATION ControlSpec
INVARIANTS
  YawIsNearest

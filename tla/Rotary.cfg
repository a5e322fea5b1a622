CONSTANTS
  DetentRatio = 2
  MaxTransitions = 10
  debounce_ms = 1
  long_press_ms = 2
  ClockModulus = 4
  MaxGap = 1
  MaxClock = 6
  MaxSlip = 3
  MaxShaft = 3
SPECIFICATION Spec
INVARIANTS PositionTracksShaft MissedSamplesAreEven PositionAccountsForCount
PROPERTIES StepNeedsFullDetent
CHECK_DEADLOCK FALSE

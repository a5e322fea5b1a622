CONSTANTS
  debounce_ms = 2
  long_press_ms = 4
  ClockModulus = 8
  MaxGap = 4
  MaxClock = 26
SPECIFICATION ButtonSpec
INVARIANT ReportedWhenDue
PROPERTIES BelievedOnlyWhenSettled LongPressOnlyWhenHeld PromiseSpec
CHECK_DEADLOCK FALSE

SPECIFICATION MCSpec
CONSTANTS
  USIZE_MAX = 65535
  BufBytes = 24
  Starts = {0, 9, 59, 598, 999, 5998, 59998}
  MaxTicks = 7
  Rows = {0, 5, 255}
  Lengths = {0, 10, 21, 22, 10923}
  MaxBoxes = 1
  MaxFlushes = 2
INVARIANT PanelIsTrue
CHECK_DEADLOCK FALSE

CONSTANTS
  BUFFER_HEIGHT = 3
  BUFFER_WIDTH = 2
  Printable <- MCPrintable
  Entries = {"main", "main_test", "lib_test"}
  TestSuites <- MCTestSuites
  Keys = {"a", "enter", "left", "backspace"}
  MaxTicks = 2
  MaxKeys = 2
SPECIFICATION Spec
INVARIANTS ScreenShowsWholeMessages NeverWedged VerdictIsTrue
PROPERTY EverythingIsAnswered
CHECK_DEADLOCK FALSE

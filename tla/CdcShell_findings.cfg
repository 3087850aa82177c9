SPECIFICATION EditorSpec
CONSTANTS
  Keys = {"x", " ", "[", "A", "C", "D", "1", "BS", "CR", "LF", "ESC", "TAB"}
  MaxLine = 4
  MaxArgs = 1
  MaxKeys = 8
\* Each of them is violated; keep one to see it alone.
INVARIANTS LineFits RecallsLastCommand
CHECK_DEADLOCK FALSE

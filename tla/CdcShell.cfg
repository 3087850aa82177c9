SPECIFICATION EditorSpec
CONSTANTS
  Keys = {"x", " ", "[", "A", "C", "D", "1", "BS", "CR", "LF", "ESC", "TAB"}
  MaxLine = 4
  MaxArgs = 1
  MaxKeys = 8
INVARIANTS ScreenShowsLine
PROPERTIES RunsWhatIsShown
CHECK_DEADLOCK FALSE

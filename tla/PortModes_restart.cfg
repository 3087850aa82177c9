SPECIFICATION Spec
CONSTANTS
  Size = 4
  Packet = 2
  MaxOut = 4
  MaxIn = 2
  MaxSwitches = 2
  MaxRestarts = 1
  Quiet = FALSE
  Handled = FALSE
  Repeats = TRUE
PROPERTIES WireComesOut
CHECK_DEADLOCK FALSE

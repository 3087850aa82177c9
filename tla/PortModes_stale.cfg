SPECIFICATION Spec
CONSTANTS
  Size = 4
  Packet = 2
  MaxOut = 4
  MaxIn = 4
  MaxSwitches = 0
  MaxRestarts = 1
  Quiet = TRUE
  Handled = TRUE
  Repeats = FALSE
INVARIANT WireGetsSent

SPECIFICATION Spec
CONSTANTS
  Size = 4
  Packet = 2
  MaxOut = 6
  MaxIn = 4
  MaxSwitches = 2
  MaxRestarts = 0
  Quiet = TRUE
  Handled = TRUE
  Repeats = FALSE
INVARIANTS NothingAstray
PROPERTIES AllComesOut

SPECIFICATION Spec
CONSTANTS
  Size = 4
  Packet = 1
  MaxOut = 5
  MaxIn = 4
  MaxSwitches = 1
  MaxRestarts = 0
  Quiet = TRUE
  Handled = FALSE
  Repeats = FALSE
INVARIANT ShellGetsTyped

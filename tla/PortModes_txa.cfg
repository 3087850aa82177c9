SPECIFICATION Spec
CONSTANTS
  Size = 4
  Packet = 2
  MaxOut = 4
  MaxIn = 4
  MaxSwitches = 1
  MaxRestarts = 0
  Quiet = FALSE
  Handled = TRUE
  Repeats = FALSE
INVARIANT TxaWithChannel

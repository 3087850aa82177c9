SPECIFICATION Spec
CONSTANTS
  Size = 4
  PacketSizes = {1, 2}
  Codings = {c1, c2}
  DefaultCoding = c1
  MaxBytes = 3
  MaxRequests = 1
  Delays = FALSE
\* Each of them is violated; keep one to see it alone.
PROPERTIES NoReceiveWhilePending NoChangeUnderCharacter DeferredChangeMade TxaAlwaysReleased

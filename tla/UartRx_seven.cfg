SPECIFICATION Spec
CONSTANTS
  Size = 4
  PacketSize = 2
  FlowControl = FALSE
  Burst = 1
  MaxBytes = 5
  MaxEvents = 1
INVARIANT SevenBitWords

SPECIFICATION Spec
CONSTANTS
  Size = 8
  PacketSize = 2
  FlowControl = TRUE
  Burst = 1
  MaxBytes = 6
  MaxEvents = 1
INVARIANT RtsAsSoonAs

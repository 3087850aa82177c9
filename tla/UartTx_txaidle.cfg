SPECIFICATION Spec
CONSTANTS
  Size = 4
  PacketSizes = {1, 2}
  Codings = {c1, c2}
  DefaultCoding = c1
  MaxBytes = 4
  MaxRequests = 0
  Delays = FALSE
INVARIANT TxaWhileTransmitting

SPECIFICATION Spec
CONSTANTS
  Size = 4
  PacketSizes = {1, 3}
  Codings = {c1, c2}
  DefaultCoding = c1
  MaxBytes = 5
  MaxRequests = 1
  Delays = FALSE
INVARIANTS TypeOK StreamIntact DmaWindow CodingConsistent
PROPERTIES EndpointReopens TxaReleased PipeSpec

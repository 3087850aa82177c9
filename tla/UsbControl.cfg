SPECIFICATION Spec
CONSTANTS
  Requests <- MCRequests
  GivenUp <- MCGivenUp
  PacketSize = 2
  MaxPayload = 4
  MaxRequests = 3
  None = None
INVARIANTS TypeOK NoForeignPacket NoPanic AddressChange NoFalseRefusal
PROPERTIES PipeSpec
CHECK_DEADLOCK FALSE

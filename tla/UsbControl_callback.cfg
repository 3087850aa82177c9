SPECIFICATION Spec
CONSTANTS
  Requests <- FewRequests
  GivenUp <- FewRequests
  PacketSize = 2
  MaxPayload = 4
  MaxRequests = 3
  None = None
PROPERTY CallbackOfExchange
CHECK_DEADLOCK FALSE

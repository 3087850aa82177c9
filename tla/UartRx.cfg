SPECIFICATION Spec
CONSTANTS
  Size = 8
  PacketSize = 2
  FlowControl = TRUE
  Burst = 1
  MaxBytes = 10
  MaxEvents = 2
INVARIANTS TypeOK FlowControlled NoFalseError
PROPERTIES FlowResumes TransferEnds ErrorReported InputsReported PipeSpec

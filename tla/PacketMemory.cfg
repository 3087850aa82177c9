SPECIFICATION Spec
CONSTANTS
  ControlSize = 16
  InterruptSize = 16
  SmallSize = 32
  LargeSize = 64
  Memory = 512
  Size = 128
  Rooms = {8, 16}
  MaxPackets = 2
INVARIANTS BuffersApart PacketsWhole
CHECK_DEADLOCK FALSE

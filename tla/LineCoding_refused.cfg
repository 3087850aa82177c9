SPECIFICATION CodingSpec
CONSTANTS
  Fck = 36000000
  Rates = {0, 300, 9600, 115200}
  DataBits = {5, 7, 8}
  BrrSize = 65536
PROPERTY RefusedLeavesFrame

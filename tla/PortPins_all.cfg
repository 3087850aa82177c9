SPECIFICATION Spec
CONSTANTS
  Ports = {0, 1}
  Pins = {"cts", "dtr", "txa"}
  All = All
  Targets = {0, 1, All}
  MaxSettings = 3
INVARIANT AppliedInstantly

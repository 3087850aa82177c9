SPECIFICATION Spec
CONSTANTS
  Addresses = {a1, a2}
  MaxDisturbances = 3
  None = None
INVARIANTS Reachable PortsFollowHost HaltedInSilent
PROPERTIES Enumerates

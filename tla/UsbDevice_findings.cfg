SPECIFICATION Spec
CONSTANTS
  Addresses = {a1, a2}
  MaxDisturbances = 3
  None = None
\* Each of them is violated; keep one to see it alone.
INVARIANTS OpenAfterReset SuspendStopsPorts OutOpen HaltedInStays HaltedOutStays

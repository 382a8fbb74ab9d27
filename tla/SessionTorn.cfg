SPECIFICATION SessionSpec
CONSTANTS
  None = None
  Clients = {c1}
  MaxWrites = 3
  Tearing = TRUE
INVARIANT OnlyCommitted
CHECK_DEADLOCK FALSE

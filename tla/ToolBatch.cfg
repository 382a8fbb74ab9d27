CONSTANTS
  N = 3
  Known = {1, 3}
  RequiresApproval = {3}
  ApprovalModes = {"Smart"}
  ExecutionPolicies = {"Concurrent", "Sequential", "Priority", "Custom"}
  Disturbances = {"Cancel", "Steer", "DropReceiver"}
  CustomGroups = 2
SPECIFICATION Spec
INVARIANTS BatchOrdered ResultParity ExecutionCleared
PROPERTY InterruptEndsBatch
CHECK_DEADLOCK FALSE

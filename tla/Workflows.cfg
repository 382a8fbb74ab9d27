SPECIFICATION WorkflowsSpec
CONSTANTS
  N = 2
  Known = {1, 2}
  RequiresApproval = {2}
  ApprovalModes = {"Smart"}
  ExecutionPolicies = {"Concurrent", "Sequential"}
  Disturbances = {"Cancel"}
  CustomGroups = 2
  Callers = {c1, c2}
  ChannelBuffer = 1
  MaxRestarts = 1
  MaxSends = 2
  Supervised = TRUE
  MaxBranches = 3
  Quotas = {0, 1, 2}
  Servers = {s1}
  MaxRounds = 2
  NumCases = 2
  Parallelism = 1
  NumRuns = 2
  MaxJudgeAttempts = 2
  MaxSets = 2
INVARIANTS OutcomesEarned ShutdownComplete
PROPERTY WorkflowsEnd
CHECK_DEADLOCK FALSE

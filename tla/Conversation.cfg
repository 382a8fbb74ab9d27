SPECIFICATION ConversationSpec
CONSTANTS
  Caching = TRUE
  Fallbacks = 2
  MaxAttempts = 2
  Retried = {"ModelThrottled", "NetworkError", "CacheMiss"}
  MaxDeltas = 1
  Errors <- SomeErrors
  Disturbances = {"Cancel", "DropReceiver"}
  MaxTurns = 2
  MaxEvents = 1
  MaxApprovals = 1
  Scenarios = {"turns", "hangs", "approval", "control"}
  Buffer = 1
INVARIANTS LifecycleClosed MissRewrites EventsDelivered
PROPERTIES ModelCallEnds CallsResolve
CHECK_DEADLOCK FALSE

SPECIFICATION Spec
CONSTANTS
  Messages = {}
  MaxCalls = 2
  MaxToolTurns = 1
  MaxInjects = 0
  SteeringMode = "OneAtATime"
  FollowUpMode = "All"
  Transformer = FALSE
  Nudge = FALSE
  Policies = {}
INVARIANT AnsweredOnce

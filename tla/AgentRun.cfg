SPECIFICATION FairSpec
CONSTANTS
  m1 = m1
  Messages = {m1}
  MaxCalls = 2
  MaxToolTurns = 1
  MaxInjects = 1
  SteeringMode = "OneAtATime"
  FollowUpMode = "All"
  Transformer = TRUE
  Nudge = TRUE
  Policies = {"Stop", "Inject", "Replace"}
INVARIANTS NothingOwed MessagesKept
PROPERTIES EventOrder RunEnds

SPECIFICATION EvaluationSpec
CONSTANTS
  CasePriority <- EvalPriorities
  Values = {"p", "q"}
  MaxCost = 4
  Threshold = 2
  MaxWeakPoints = 2
  Strategies = 1
  Cycles = 2
  JudgeClients = {"openai", "anthropic", "proxy", "azure", "xai", "mistral", "bedrock", "gemini", "ollama"}
  ClientAttempts = 2
  CallAttempts = 2
  BatchPrompts = 2
  CacheOwners = {1, 2}
  CacheKeys = {1, 2, 3}
  Capacity = 2
  MaxUses = 3
  ScoredTools = {"a", "b"}
  MaxEvalTurns = 2
  MaxTurnCalls = 2
  TraceSessions = {1, 2}
  SpanShapes <- MCShapes
  MaxSpans = 2
  HitsLimit = 1
  TokenCap = 3
  TurnShapes <- MCTurns
  MaxTraceTurns = 4
  Anchors <- MCAnchors
  WalkDays = 130
  Simulations = {1, 2}
  SimLimits <- MCSimLimits
  StreamTurns = 2
  HistoryCap = 1
  CallIds = {"c1"}
  MaxInvokes = 2
  Desired = 3
  Topics = 2
  RetryCap = 2
  CaseTools = {"t", "u"}
  AgentTools = {"t"}
  UrlNames = {"a", "b"}
  AllowedUrls = {"a"}
  MaxRedirects = 3
  TraceCases = {1, 2}
  MaxTraceScore = 2
  MaxTraces = 3
  QualityThreshold = 1
  CaseMetrics <- MCMetrics
  MaxExports = 2
  Outcomes <- MCOutcomes
  MinRate = 60
  MaxGateCost = 1
  MaxRuns = 2
  Stamps = {5, 7, 9}
INVARIANTS ChangesEarned CallsBounded ScoresHonest HarnessHonest
CHECK_DEADLOCK FALSE

SPECIFICATION WorkspaceSpec
CONSTANTS
  FileCalls = {1, 2, 3}
  Targets = {11, 12}
  PruneAt = 2
  Texts <- MCTexts
  Edits <- MCEdits
  MaxTextEdits = 2
  LinkTargets <- MCLinks
  GivenPaths <- MCGiven
  MaxOutput = 8
  SearchSessions = {"s1", "s2"}
  SearchEntries <- MCEntries
  MaxEntries = 2
  MaxMishaps = 1
  Overlap = FALSE
  SearchFilters <- MCFilters
  HitLimit = 1
  FetchFactor = 2
  FetchFloor = 3
  MaxCheckpoints = 4
  KeepCheckpoints = 2
  Savers = {1, 2}
  Migrators <- MCMigrators
  CurrentVersion = 4
  MaxLines = 4
  Chains <- PolicyChains
  MaxRuns = 2
  MaxPolicyTurns = 3
  Uses <- MCUses
  ExtremeUse = 2
  ToolFiles = {1, 2}
  ToolNames = {1, 2}
  MaxFileEvents = 4
  Models = {"m1", "m2", "m3"}
  StreamModels = {"m1", "m2"}
  MaxHistory = 2
  MaxBridged = 3
  GlobTexts <- MCGlobTexts
  GlobPatterns <- MCGlobPatterns
  Letters = {"a", "@", "#"}
  MaxText = 2
  MaxRecalled = 1
  MaxShown = 2
  Thoughts = {0, 1}
  DiffTexts <- MCDiffTexts
  PanelTools = {1, 2}
  MaxChunks = 2
  KeyWidths = {1}
  MaxSecret = 2
INVARIANTS FilesKept GuardrailsHold HelpersExact
PROPERTY RollingForward
CHECK_DEADLOCK FALSE

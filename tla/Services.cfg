SPECIFICATION ServicesSpec
CONSTANTS
  None = None
  Clients = {c1, c2}
  MaxWrites = 3
  Tearing = FALSE
  Resolvers = {r1, r2}
  MaxGenerations = 3
  MaxTokens = 2
  Interactive = TRUE
  HostWrites = TRUE
  Providers = {"openai", "anthropic", "google", "ollama", "bedrock", "responses", "proxy", "local"}
  Keys = {1, 2}
  MaxBlocks = 3
  MaxText = 5
  Transformers = {"window", "versioned", "summarizing"}
  Anchor = 1
  Budget = 4
  OverflowBudget = 2
  Sizes = {1, 2}
  MinTokens = 2
  CacheIntervals = 2
  MaxMessages = 6
  Tools = {t1, t2}
  MaxSaves = 3
  MaxFaults = 2
  MaxAbandons = 2
  Loads = {t1, t2}
  Processes = {p1, p2}
  FileSize = 2
  MaxPushes = 1
  MaxStarts = 3
  MaxCrashes = 1
  MaxOrphans = 1
INVARIANTS StreamsSound PresentedOnce ContextKept VersionsImmutable BlobsWhole
PROPERTIES AtomicWrites NoLostUpdate
CHECK_DEADLOCK FALSE

SPECIFICATION WireSpec
CONSTANTS
  Bodies <- FrameBodies
  Adapters = {"openai", "azure", "mistral", "anthropic", "google", "ollama", "bedrock", "responses", "codex", "proxy"}
  MaxTurns = 3
  WebCalls = {w1, w2}
  WebUrls <- MCUrls
  WebFilters <- MCFilters
  Lookups <- MCLookups
  RateWindow = 2
  MaxClock = 3
  MaxHops = 1
  MaxBody = 1
  Hosts = {h1, h2, h3}
  SecretLimit = 3
  SecretWidths <- MCWidths
  DefaultInterval = 2
  SlowDown = 1
  DefaultLifetime = 4
  MaxRefusals = 1
INVARIANTS TrafficSound WebCallsKept SecretsWhole
CHECK_DEADLOCK FALSE

SPECIFICATION MCSpec
CHECK_DEADLOCK FALSE
CONSTANTS
  server = server
  streamlit = streamlit
  local = local
  Processes = {server, streamlit}
  Server = server
  Workbench = streamlit
  Connections = {local, cloud}
  Secrets = {s}
  Default <- MCDefault
  Budgets <- MCAllBudgets
  MaxAsked = 2
  Captures <- MCCaptures
  MaxSaved = 3
  DnsKinds = {"dga", "tunneling"}
  MAX_RESULTS <- MCResults
  MAX_COMMON_INDICATORS = 2
  MAX_BEACON_CANDIDATES = 3
  KnownMalware = {"mal"}
  INFRA_ALLOWLIST = {"9.9.9.9"}
  TopBeacons = 3
  BulkSamples = 4
  BulkSize = 100
  Alphabet <- MCAlphabet
  Public = {"9.9.9.1", "9.9.9.2", "9.9.9.3"}
  Located = {"9.9.9.1", "9.9.9.3"}
  MAX_EVENTS = 4
  EndpointLimit = 3
  EdgeLimit = 2
  MapLimit = 1
  EvidenceLimit = 2
  HeatBuckets = 3
  SizeBuckets = 3
INVARIANTS SecretsKept TabTruthful BatchHonest DashboardHonest
PROPERTIES ShownJobSettles

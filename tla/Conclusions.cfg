SPECIFICATION MCSpec
CONSTANTS
  Trains <- MCTrains
  MaxTrains = 4
  MAX_FLOW_SAMPLES = 50
  MaxPortReports = 2
  C2_COMMON_PORTS = {4444}
  Traits <- MCTraits
  Whitelist <- MCWhitelist
  Benign = {"autodiscover"}
  Batches <- MCBatches
  MaxBatches = 3
  TUNNELING_MIN_SUBDOMAINS = 1
  SubdomainSteps <- MCSteps
  AddressSteps <- MCSteps
  FAST_FLUX_TOP_DOMAINS = 2
  MAX_DGA_RESULTS = 1
  MAX_TUNNELING_RESULTS = 1
  MaxSources = 2
  SetOrder <- MCSetOrder
  Public <- MCPublic
  MAX_FLOWS = 2
  Clues <- MCClues
  MaxMixed = 3
  w1 = w1
  w2 = w2
  a1 = a1
  a2 = a2
  d1 = d1
  n1 = n1
  n2 = n2
  NoName = NoName
  Workers = {w1, w2}
  Addresses = {a1, a2}
  Domains = {d1}
  Names = {n1, n2}
  FirstNames <- MCFirstNames
  AddressProviders = {"vt", "gn"}
  DomainProviders = {"vt"}
  Requests <- MCAllRequests
  Private <- MCPrivate
  TTL = 2
  MaxBatch = 1
  MaxTime = 3
  MaxRenames = 1
  Titles <- MCTitles
  Marker = 8
  BareMarker = 6
  Overhead = 2
INVARIANTS FlowsExact DnsGrounded PromptCutLeast
PROPERTIES VerdictsSound AnswersStand ReportHonest

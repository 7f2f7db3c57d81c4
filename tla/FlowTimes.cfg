SPECIFICATION Spec
CONSTANTS
  Trains <- MCTrains
  MaxTrains = 4
  MAX_FLOW_SAMPLES = 50
  MaxPortReports = 2
  C2_COMMON_PORTS = {4444}
  Traits <- MCTraits
  Whitelist <- MCWhitelist
  Benign = {"autodiscover"}
  Batches <- MCBatches
  MaxBatches = 3
  TUNNELING_MIN_SUBDOMAINS = 1
  SubdomainSteps <- MCSteps
  AddressSteps <- MCSteps
  FAST_FLUX_TOP_DOMAINS = 2
  MAX_DGA_RESULTS = 1
  MAX_TUNNELING_RESULTS = 1
  MaxSources = 2
  SetOrder <- MCSetOrder
  Public <- MCPublic
  MAX_FLOWS = 2
  Clues <- MCClues
  MaxMixed = 3
INVARIANTS FlowTimesExact
CHECK_DEADLOCK FALSE

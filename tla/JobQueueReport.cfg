SPECIFICATION FairSpec
CHECK_DEADLOCK FALSE
CONSTANTS
  api = api
  web = web
  wa = wa
  ww = ww
  c1 = c1
  c2 = c2
  j1 = j1
  j2 = j2
  j3 = j3
  q1 = q1
  q2 = q2
  NoJob = NoJob
  Hosts = {api, web}
  ApiHost = api
  Recovers = {api, web}
  Workers = {wa, ww}
  HostOf <- PoolHosts
  MaxDepth = 2
  MaxCrashes = 1
  MaxFaults = 1
  Jobs = {j1, j2}
  Cases = {c1}
  Requests = {q1, q2}
  Kind <- ReportKinds
  CaseOf <- ReportCases
  RequestOf <- ReportJobs
  EvidenceOf <- ReportEvidence
INVARIANTS TypeOK DoneImpliesEvidence ClaimedJobsStayClaimed SeenJobsSettledAtDelete
PROPERTIES LifecycleRefined QueueSettles

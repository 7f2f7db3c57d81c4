SPECIFICATION Spec
CHECK_DEADLOCK FALSE
CONSTANTS
  api = api
  web = web
  wa = wa
  ww = ww
  c1 = c1
  c2 = c2
  j1 = j1
  j2 = j2
  j3 = j3
  q1 = q1
  q2 = q2
  NoJob = NoJob
  Hosts = {api, web}
  ApiHost = api
  Recovers = {api}
  Workers = {wa}
  HostOf <- OnePool
  MaxDepth = 1
  MaxCrashes = 0
  MaxFaults = 1
  Jobs = {j1, j2, j3}
  Cases = {c1, c2}
  Requests = {q1, q2}
  Kind <- UploadsKinds
  CaseOf <- UploadsCases
  RequestOf <- UploadsJobs
  EvidenceOf <- UploadsEvidence
SYMMETRY UploadsSymmetry
INVARIANTS StrandedOnlyByFailure QueueOvershootBounded RefusedUploadLeavesNothing

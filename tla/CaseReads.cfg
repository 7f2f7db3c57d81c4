SPECIFICATION MCSpec
CONSTANTS
  ann = ann
  bob = bob
  Sessions = {ann, bob}
  Titles = {t0, t1}
  Blank = Blank
  Tags = {g}
  Requests = {d1, d2}
  NoEdit = NoEdit
  MaxRecords = 2
  MaxNotes = 3
  ActBudgets <- MCBudgets
  a1 = a1
  a2 = a2
  c1 = c1
  r1 = r1
  r2 = r2
  NoJob = NoJob
  Cases = {c1}
  Analyses = {a1, a2}
  CaseOf <- OneCase
  Legacy = {a1}
  ReportJobs = {r1, r2}
  ReportOf <- Rewrites
  MaxTime = 2
  Pagers = {p1}
  Sizes <- Records
  PageBytes = 2
  MaxLimit = 2
  Indicators = {1, 2, 3, 4}
  IocsOf <- Iocs
  FeedClients = {f1}
  FeedLimit = 2
  Readers = {q1}
INVARIANTS PagesWhole FeedHonest RecordsConsistent
PROPERTIES CaseEditsMeant ReadersSettle
CHECK_DEADLOCK FALSE

SPECIFICATION FairSpec
CONSTANTS
  j1 = j1
  j2 = j2
  NoJob = NoJob
  Jobs = {j1}
  Retried = {j1}
  Cancelled = {j1}
  Deleted = {j1}
  MaxFaults = 2
INVARIANTS ParserGoneBeforeResult ReceiptReady
PROPERTIES CompletionAfterRemoval LifecycleRefined SpoolSettles

SPECIFICATION FairSpec
CHECK_DEADLOCK FALSE
CONSTANTS
  capture1 = capture1
  capture2 = capture2
  capture3 = capture3
  Captures = {capture1, capture2, capture3}
  Flowing = {capture1}
  Uploads <- MCUploads
  MaxCases = 2
  MaxAnalyses = 3
  MaxRuns = 2
  MaxClicks = 5
INVARIANTS ShownIsOneAnalysis
PROPERTIES RunsReachTheirCase

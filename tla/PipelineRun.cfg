SPECIFICATION MCSpec
CONSTANTS
  Options <- MCOptions
  Captures <- MCCaptures
  ToolSets <- MCToolSets
  MaxFaults = 2
  x = x
  y = y
  Captured <- MCCaptured
  Pipelines <- MCPipelines
  MaxClicks = 3
INVARIANTS RunAccounted SessionShowsOneRun
PROPERTIES RunsEnd
CHECK_DEADLOCK FALSE

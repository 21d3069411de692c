SPECIFICATION ToolsSpec
CONSTANTS
  a = a
  b = b
  c = c
  ghost = ghost
  go = go
  choose = choose
  StateIds = {a, b, c, ghost}
  Methods = {go, choose}
  TerminalNames = {c}
  Graphs <- PathGraphs
  WalkGraphs <- SmallGraphs
  MaxDepth = 3
INVARIANTS VerdictIsReachability EachLegalWalkIsListedOnce DefaultDepthReachesAll ViewsTellTheGraph
PROPERTIES SearchEnds GenerationEnds
CHECK_DEADLOCK FALSE

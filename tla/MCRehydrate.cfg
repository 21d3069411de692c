SPECIFICATION FairSpec
CONSTANTS
  reporter = reporter
  explainer = explainer
  r1 = r1
  r2 = r2
  s1 = s1
  s2 = s2
  s3 = s3
  Tasks = {reporter, explainer}
  Rows = {r1, r2}
  States = {s1, s2, s3}
  Plan <- MCPlan
  OpOf <- MCOpOf
  RowsOf <- MCRowsOf
  NoRow = NoRow
  InvalidState = InvalidState
  MaxChanges = 1
INVARIANTS ReportsAccountForResults OperationsAgreeInAQuietWorld
PROPERTIES VerdictsAreJustified EveryRowGetsAReport
CHECK_DEADLOCK FALSE

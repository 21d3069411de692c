CONSTANTS
  Callers = {p, q}
  Reviewers = {ada, bob}
  MaxRows = 2
  MaxEvents = 7
SYMMETRY Alike
SPECIFICATION Spec
INVARIANTS RowsAlwaysRebuild NoStageIsSkipped OnlyOverlapsCorrupt BatchAgreesWithSingles
PROPERTIES KeepThePromise
CHECK_DEADLOCK FALSE

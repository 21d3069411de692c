\* The first changed label of a transition that no report mentions.
CONSTANTS
  A = A
  B = B
  m = m
  plain = plain
  worded = worded
  one = one
  other = other
  few = few
  many = many
  StateNames = {A, B}
  Methods = {m}
  Labels = {plain, worded}
  Identities = {one, other}
  Cases = {few, many}
  Snapshots <- SnapshotsDef
  Rows = {r1}
  MaxMoves = 2
  MaxReviews = 1
  Versions = {1}
  Publishers = {ann}
  Layouts <- LayoutsDef
  VERSIONED_SNIPPET_FILES = {readme}
  MaxRuns = 0
SPECIFICATION ToolsSpec
INVARIANT
  PresentationChangesAreReported
CHECK_DEADLOCK FALSE

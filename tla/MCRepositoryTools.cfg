\* Every chain of up to two comparisons of 28 snapshots, under each --fail-on,
\* with one persisted row that may take up to two transitions between them; or up
\* to four runs of the release scripts.
CONSTANTS
  A = A
  B = B
  m = m
  plain = plain
  worded = worded
  one = one
  other = other
  few = few
  many = many
  StateNames = {A, B}
  Methods = {m}
  Labels = {plain, worded}
  Identities = {one, other}
  Cases = {few, many}
  Snapshots <- SnapshotsDef
  Rows = {r1}
  MaxMoves = 2
  MaxReviews = 2
  Versions = {1, 2}
  Publishers = {ann, ben}
  Layouts <- LayoutsDef
  VERSIONED_SNIPPET_FILES = {readme, statum_readme}
  MaxRuns = 4
SPECIFICATION ToolsSpec
INVARIANTS
  RowsSurviveReview
  ReviewKeepsLegality
  PublishedInOrder
  FinishedRunsPublishAll
  PublishedTreesAreWhole
CHECK_DEADLOCK FALSE

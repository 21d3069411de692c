SPECIFICATION Spec
CONSTANTS
  x = x
  y = y
  z = z
  error = error
  Events <- MCEvents
  Projections <- MCProjections
  Errors = {error}
  seed <- MCSeed
  apply <- MCApply
  NoProjection = NoProjection
  EmptyInput = EmptyInput
  Keys = {x, y, z}
  KeyOf <- MCKeyOf
  MaxEvents = 4
INVARIANT FirstSeenOrder
PROPERTY EachKeyFoldsAlone
CHECK_DEADLOCK FALSE

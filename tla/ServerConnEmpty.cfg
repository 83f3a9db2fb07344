SPECIFICATION Spec
CONSTANTS
  Handlers = {h1, h2}
  MaxMsg = 2
  RefSize = 8
INVARIANT EmptyMeansClosed
CHECK_DEADLOCK FALSE

SPECIFICATION Spec
CONSTANTS
  Handlers = {h1, h2}
  MaxMsg = 2
  RefSize = 8
SYMMETRY HandlerSymmetry
INVARIANTS OneReceive DispatchedInOrder RefExact OpenIsKept
PROPERTY ServedOnceBuilt
CHECK_DEADLOCK FALSE

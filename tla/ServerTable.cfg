SPECIFICATION Spec
CONSTANTS
  Conns = {c1, c2}
  Fds = {f1}
  Handlers = {h1, h2}
  None = None
SYMMETRY Symmetry
CONSTRAINT Undecided
INVARIANTS TypeOK OpenLostToReuse NoStaleEntry OneOwner
CHECK_DEADLOCK FALSE

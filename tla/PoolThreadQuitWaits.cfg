SPECIFICATION PatientSpec
CONSTANTS
  Tasks = {c1}
  NoTask = NoTask
INVARIANT QuitWaitsForWorker
CHECK_DEADLOCK FALSE

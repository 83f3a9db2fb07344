SPECIFICATION ThreadFairSpec
CONSTANTS
  Tasks = {c1, c2, c3}
  NoTask = NoTask
INVARIANT NoLostWakeup
PROPERTIES ImplementsFairTaskQueue QuitReleasesWorker
CHECK_DEADLOCK FALSE

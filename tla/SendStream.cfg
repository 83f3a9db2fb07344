SPECIFICATION FairSpec
CONSTANTS
  Msgs = {m1, m2}
  MaxLen = 3
  BufLen = 2
  ChunkLen = 2
  ReqLen = 2
  Window = 2
  ReqWindow = 1
  Errnos = {"other", "EINTR", "WSAEWOULDBLOCK"}
INVARIANTS TypeOK PayloadInOrder RemovedWhenSent MixedOnlyIfCut RecvKeepsAll
PROPERTY SentInTheEnd
CHECK_DEADLOCK FALSE

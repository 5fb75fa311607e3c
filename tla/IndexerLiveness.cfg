\* Liveness: the threads are scheduled, the caller calls what it likes.
CONSTANTS
  w1 = w1
  w2 = w2
  Msgs = {1, 2, 3}
  ReadBefore <- MCReadBefore
  Workers = {w1, w2}
  MaxWorkers = 2
  NoMsg = 0
  NoThread = NoThread
SPECIFICATION FairSpec
PROPERTY
  JobEnds
\* The caller may have destroyed the indexer; or it waits forever in stop().
CHECK_DEADLOCK FALSE

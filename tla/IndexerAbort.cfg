\* stop() ends the process when a worker starts another one meanwhile.
CONSTANTS
  w1 = w1
  w2 = w2
  Msgs = {1, 2, 3}
  ReadBefore <- MCReadBefore
  Workers = {w1, w2}
  MaxWorkers = 2
  NoMsg = 0
  NoThread = NoThread
SPECIFICATION Spec
SYMMETRY Symmetry
INVARIANT StopDoesNotAbort
\* The caller may have destroyed the indexer; or it waits forever in stop().
CHECK_DEADLOCK FALSE

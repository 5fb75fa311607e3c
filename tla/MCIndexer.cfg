\* Safety: three threads may be in workers_, so two can be there that both
\* find room for a third with three messages queued, and there is an
\* identifier for a fourth, which may never be used.
CONSTANTS
  w1 = w1
  w2 = w2
  w3 = w3
  w4 = w4
  Msgs = {1, 2, 3, 4, 5, 6}
  ReadBefore <- MCReadBefore
  Workers = {w1, w2, w3, w4}
  MaxWorkers = 3
  NoMsg = 0
  NoThread = NoThread
SPECIFICATION Spec
SYMMETRY Symmetry
INVARIANTS
  WorkersBounded
  Conservation
  NothingLost
PROPERTY
  QuiescentAfterStop
\* The caller may have destroyed the indexer; or it waits forever in stop().
CHECK_DEADLOCK FALSE

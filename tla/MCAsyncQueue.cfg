\* Room for two items; four threads that push, pop and clear.
CONSTANTS
  i1 = i1
  i2 = i2
  t1 = t1
  t2 = t2
  t3 = t3
  t4 = t4
  Items = {i1, i2}
  Threads = {t1, t2, t3, t4}
  MaxSize = 2
  NoItem = NoItem
SPECIFICATION Spec
SYMMETRY Symmetry
INVARIANTS
  NoLostWakeup
PROPERTY
  ImplementsQueue

\* Three documents, batches of two modifications, one failure.  What is in a
\* message, or in a dirstamp, does not matter to these properties.
SPECIFICATION Spec
CONSTANTS
  Paths = {p1, p2}
  Msgs = {m1}
  Dirs = {d}
  Stamps = {0}
  BatchSize = 2
  NoDoc = NoDoc
  MaxId = 3
  MaxFaults = 1
SYMMETRY Symmetry
INVARIANTS
  BoundedLoss
  OneDocumentPerPath

\* One directory with two files, three jobs, two changes to the maildir and a write that fails.
SPECIFICATION IndexSpec
CONSTANTS
  Dirs = {d1}
  Names = {a, b}
  Msgs = {m1, m2}
  Stamps = {0, 1, 2}
  Paths <- MCPaths
  DirOf <- MCDirOf
  NoDoc = NoDoc
  NoMsg = NoMsg
  NoDir = NoDir
  BatchSize = 2
  MaxId = 3
  MaxFaults = 1
  MaxChanges = 2
  MaxJobs = 3
SYMMETRY Symmetry
INVARIANTS
  WholeJobFindsAll
  LazyCheckSound
\* The bounds on changes and jobs are reached.
CHECK_DEADLOCK FALSE

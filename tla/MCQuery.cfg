\* Four documents; x is the message-id of a message that may not be found.
SPECIFICATION Spec
CONSTANTS
  Docs = {1, 2, 3, 4}
  a = a
  b = b
  c = c
  x = x
  Ids = {a, b, c, x}
  None = None
  Date <- MCDate
  Tie <- MCTie
  Radix = 2
  MaxRefs = 2
  Searches <- MCSearches
INVARIANTS
  FoundOnce
  NoLoops
  ThreadsListed
PROPERTY
  LinksKept

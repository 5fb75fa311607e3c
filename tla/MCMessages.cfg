SPECIFICATION MessagesSpec
CONSTANTS
  Nil = Nil
  Contexts = {"home", "work"}
  Addresses <- MCAddresses
  Mine = {"me"}
  MaxRefs = 3
  Behaviors = {"sent", "delete"}
  Options <- MCOptions
  MaxSteps = 4
  MaxBuffers = 1
  m1 = m1
  m2 = m2
  Views = {m1, m2}
  Roots <- MCRoots
  Now <- MCNow
  Width = 3
  Unit = 10
  ManualUnit = 9
  MaxTermLength = 5
  Images = TRUE
  MaxCommands = 3
  MaxChanges = 1
SYMMETRY Symmetry
INVARIANTS
  ParentFlagged
  SentIsFiled
  ReplyAsWanted
  AskedForIsGiven
  ForwardKeepsAll
  TextIndexed
  AttachFlagListed
  ShownIsFound
  SameFromBoth
  RangeIsMeant
CHECK_DEADLOCK FALSE

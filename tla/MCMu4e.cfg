SPECIFICATION Spec
CONSTANTS
  None = None
  Maildirs = {"inbox", "archive"}
  Names = {"a", "b", "draft"}
  FileFlags = {"S", "R"}
  ContentFlags <- MCFlags
  MsgidOf <- MCMsgids
  MaxId = 3
  MarkNames = {"refile", "delete"}
  Trash = "archive"
  Refile = "archive"
  Draft <- MCDraft
  Replied = "x"
  Stores <- MCStores
  MaxMarks = 2
  MaxEvents = 3
INVARIANTS NoHeaderTwice HeadersFresh
PROPERTIES MoveKeepsFlags ViewMarksAll
CHECK_DEADLOCK FALSE

\* Queries of up to six tokens, texts of up to five characters, and calls.
CONSTANTS
  Messages <- MCMessages
  Tokens <- AllTokens
  MaxTokens = 6
  MaxText = 5
  MaxParams = 2
INIT MCInit
NEXT MCNext
INVARIANTS
  ParsedAsWritten
  ReadAsWritten
  CallsTaken
  CutAsWritten
  ExitTells
  OutputReadable
\* No more is written when the bounds are reached.
CHECK_DEADLOCK FALSE

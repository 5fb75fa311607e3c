\* Three servers: the third is told to quit when mu4e has forgotten the second.
CONSTANTS
  MaxServers = 3
  MaxCommands = 3
  MaxFaults = 1
  PayloadSize = 1
  None = None
  Garbled = Garbled
SPECIFICATION FairSpec
INVARIANTS
  ExecutedInOrder
PROPERTIES
  Implements
  Answered
CHECK_DEADLOCK FALSE

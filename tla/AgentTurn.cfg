SPECIFICATION FairSpec
CONSTANTS
  MaxRounds = 3
  MaxCalls = 2
  MaxAttempts = 2
  Streams = TRUE
  Trigger = 5
  Preserve = 2
  Rooms <- MCRooms
  Sizes = {2}
  ToolLists <- MCToolLists
  MaxTurns = 2
CHECK_DEADLOCK FALSE
INVARIANTS RequestIsSound ReplyIsOwn LastWordIsTold
PROPERTIES TurnEnds

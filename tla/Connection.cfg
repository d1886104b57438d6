SPECIFICATION FairSpec
CONSTANTS
  RCV_BUF_SIZE = 2
  Sizes <- SomeSizes
  Garbage <- SomeGarbage
  MaxRequests = 3
  MaxShort = 1
CHECK_DEADLOCK FALSE
INVARIANTS
  TypeOK
  TakenAsSent
  QuietAtPrompt
  NoMutualWait
PROPERTIES
  StrandedForGood
  ReplyArrives
  ExitEndsChild

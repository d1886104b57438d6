SPECIFICATION Spec
CONSTANTS
  NULL = NULL
  INT_MAX = 999
  DEFAULT_BUFFER_SIZE = 8
  CJSON_NESTING_LIMIT = 3
  MAX_CLI_INPUT_LEN = 20
  COMMAND_LEN = 3
  MAX_TWEET_LEN = 3
  MAX_HASHTAG_LEN = 6
  MAX_HASHTAG_CNT = 2
  Username <- User
  Meant <- MeantRequests
  Lines <- AllLines
  Memories <- OldMemories
  Messages <- SomeMessages
  StoredTweets <- SomeTweets
  Texts <- ForeignTexts
  Codepoints <- EdgeCodepoints
CHECK_DEADLOCK FALSE
INVARIANTS
  TypeOK
  SentWasTyped
  RequestFits
  OverrunsAreBounded
  RoundTrip
  PrintFits
  StringRoom
  TruncatedIsRefused
  Reprints
  CodepointKept
PROPERTY
  MeantIsSent
  ImplementsClient

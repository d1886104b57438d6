SPECIFICATION Spec
CONSTANTS
  c1 = c1
  c2 = c2
  c3 = c3
  alice = alice
  bob = bob
  g = g
  h = h
  ALL = ALL
  EmptyStr = EmptyStr
  Clients <- TwoClients
  NameOf <- OneName
  Kinds <- OnlyValidate
  MayOverlap <- Anything
  TagLists <- OneTagList
  Usernames <- TwoNames
  Hashtags <- TwoHashtags
  MAX_HASHTAG_CNT = 2
  MAX_CONC_CONN = 2
  MAX_SUBSCRIPTIONS = 1
  MAX_TWEET_QUEUE = 2
  INVALID_USER_INDEX = 72
  MaxTweets = 1
  UsersAtStart <- NoUsers
  IndexAtStart <- NobodySeated
CHECK_DEADLOCK FALSE
INVARIANT UniqueUsernames

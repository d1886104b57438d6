SPECIFICATION RacesSpec
CONSTANTS
  c1 = c1
  c2 = c2
  c3 = c3
  alice = alice
  bob = bob
  g = g
  h = h
  ALL = ALL
  EmptyStr = EmptyStr
  Clients <- ThreeClients
  NameOf <- AliceTwice
  Kinds <- TwoPublishersAndMore
  MayOverlap <- Anything
  TagLists <- TwoTagLists
  Usernames <- TwoNames
  Hashtags <- TwoHashtags
  MAX_HASHTAG_CNT = 1
  MAX_CONC_CONN = 2
  MAX_SUBSCRIPTIONS = 1
  MAX_TWEET_QUEUE = 1
  INVALID_USER_INDEX = 72
  MaxTweets = 2
  UsersAtStart <- AliceAlone
  IndexAtStart <- FirstSeated
CHECK_DEADLOCK FALSE
INVARIANTS
  TypeOK
  AloneIsWhole
  SettledIsSafe

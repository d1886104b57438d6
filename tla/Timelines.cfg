SPECIFICATION Spec
CONSTANTS
  c1 = c1
  c2 = c2
  c3 = c3
  alice = alice
  bob = bob
  g = g
  h = h
  ALL = ALL
  EmptyStr = EmptyStr
  Clients <- TwoClients
  Usernames <- TwoNames
  Hashtags <- TwoHashtags
  TagLists <- TwoTagLists
  MAX_CONC_CONN = 1
  MAX_SUBSCRIPTIONS = 2
  MAX_TWEET_QUEUE = 3
  INVALID_USER_INDEX = 72
  MaxTweets = 3
CHECK_DEADLOCK FALSE
INVARIANT
  EntriesSound
PROPERTY
  ImplementsService

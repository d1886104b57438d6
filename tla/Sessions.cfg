SPECIFICATION Spec
CONSTANTS
  c1 = c1
  c2 = c2
  c3 = c3
  alice = alice
  bob = bob
  g = g
  h = h
  ALL = ALL
  EmptyStr = EmptyStr
  Clients <- ThreeClients
  Usernames <- TwoNames
  Hashtags <- OneHashtag
  TagLists <- OneTagList
  MAX_CONC_CONN = 2
  MAX_SUBSCRIPTIONS = 1
  MAX_TWEET_QUEUE = 2
  INVALID_USER_INDEX = 72
  MaxTweets = 2
CHECK_DEADLOCK FALSE
SYMMETRY Symmetry
INVARIANTS
  TypeOK
  UniqueUsernames
  SessionOwnsEntry
  EntriesSound
  ConnectionLimit
PROPERTY
  ImplementsService

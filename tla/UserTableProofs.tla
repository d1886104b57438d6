--------------------------- MODULE UserTableProofs ---------------------------
(***************************************************************************)
(* What the operators on one User return and preserve.  TweetServerProofs  *)
(* cites these lemmas and never expands the operators.                     *)
(***************************************************************************)
EXTENDS UserTable, WellFoundedInduction, TLAPS

-----------------------------------------------------------------------------
(* Positions                                                               *)

(* The minimum of a nonempty set of naturals is its least element.         *)
LEMMA MinIsLeast ==
  ASSUME NEW S \in SUBSET Nat, S # {}
  PROVE  /\ Min(S) \in S
         /\ \A y \in S : Min(S) <= y
<1> DEFINE R == OpToRel(<, Nat)
<1>1. IsWellFoundedOn(R, Nat)
  BY NatLessThanWellFounded
<1> HIDE DEF R
<1>2. PICK n \in S : \A y \in S : ~ (<<y, n>> \in R)
  BY <1>1, WFMin
<1>3. \A y \in S : ~ (y < n)
  BY <1>2 DEF R, OpToRel
<1>4. \A y \in S : n <= y
  BY <1>3, SMT
<1> QED
  BY <1>4, Zenon DEF Min

(* FirstEmpty is the position of the first empty cell, or the length.      *)
LEMMA FirstEmptyIsFirst ==
  ASSUME NEW cells, NEW n \in Nat
  PROVE  /\ FirstEmpty(cells, n) \in 0 .. n
         /\ FirstEmpty(cells, n) < n => cells[FirstEmpty(cells, n)] = EmptyStr
         /\ \A j \in 0 .. n - 1 :
              /\ j < FirstEmpty(cells, n) => cells[j] # EmptyStr
              /\ FirstEmpty(cells, n) = n => cells[j] # EmptyStr
<1> DEFINE free == {j \in 0 .. n - 1 : cells[j] = EmptyStr}
<1>1. CASE free = {}
  BY <1>1 DEF FirstEmpty
<1>2. CASE free # {}
  <2>1. FirstEmpty(cells, n) = Min(free)
    BY <1>2 DEF FirstEmpty
  <2>2. free \in SUBSET Nat
    OBVIOUS
  <2>3. /\ Min(free) \in free
        /\ \A y \in free : Min(free) <= y
    BY <1>2, <2>2, MinIsLeast
  <2> QED
    BY <2>1, <2>2, <2>3
<1> QED
  BY <1>1, <1>2

-----------------------------------------------------------------------------
(* Types                                                                   *)

(* UserTableAssumption, as the facts the steps below use.                  *)
LEMMA EmptyStrIsNoValue ==
  /\ EmptyStr \notin Usernames
  /\ EmptyStr \notin Subscribable
  /\ EmptyStr \notin TweetItem
  /\ ALL # EmptyStr
  /\ MAX_TWEET_QUEUE \in Nat \ {0}
  /\ MAX_SUBSCRIPTIONS \in Nat \ {0}
  /\ MAX_CONC_CONN \in Nat \ {0}
  /\ INVALID_USER_INDEX \notin UserIdx
BY UserTableAssumption DEF Subscribable

(* A new user is empty and free.                                           *)
LEMMA InitialUserType == InitialUser \in User
BY DEF InitialUser, User

(* An entry that is not registered can be, under any name.                 *)
LEMMA RegisteredType ==
  ASSUME NEW u \in User, NEW n \in Usernames
  PROVE  Registered(u, n) \in User
BY DEF Registered, User

LEMMA ClearedType ==
  ASSUME NEW u \in User
  PROVE  Cleared(u) \in User
BY DEF Cleared, InitialUser, User

(* A hashtag is written into an existing cell of the list.                 *)
LEMMA SubscribedType ==
  ASSUME NEW u \in User, NEW h \in Subscribable
  PROVE  Subscribed(u, h) \in User
<1> DEFINE cell == FirstEmpty(u.subscriptions, MAX_SUBSCRIPTIONS)
           list == [u.subscriptions EXCEPT ![cell] = h]
<1>1. list \in [SubscriptionIdx -> Subscribable \cup {EmptyStr}]
  BY DEF User
<1>2. (u.isSubscribedAll \/ h = ALL) \in BOOLEAN
  BY DEF User
<1>3. [u EXCEPT !.subscriptions = list,
               !.isSubscribedAll = u.isSubscribedAll \/ h = ALL] \in User
  BY <1>1, <1>2 DEF User
<1> QED
  BY <1>3 DEF Subscribed

LEMMA UnsubscribedType ==
  ASSUME NEW u \in User, NEW h \in Subscribable
  PROVE  Unsubscribed(u, h) \in User
<1> DEFINE cell == Min({s \in SubscriptionIdx : u.subscriptions[s] = h})
           list == [u.subscriptions EXCEPT ![cell] = EmptyStr]
<1>1. list \in [SubscriptionIdx -> Subscribable \cup {EmptyStr}]
  BY DEF User
<1>2. [u EXCEPT !.subscriptions = list,
               !.isSubscribedAll = u.isSubscribedAll /\ h # ALL] \in User
  BY <1>1 DEF User
<1> QED
  BY <1>2 DEF Unsubscribed

LEMMA TimelineReadType ==
  ASSUME NEW u \in User
  PROVE  TimelineRead(u) \in User
BY DEF TimelineRead, User

LEMMA WithTweetType ==
  ASSUME NEW u \in User, NEW item \in TweetItem
  PROVE  WithTweet(u, item) \in User
<1> DEFINE queue == [u.pendingTweets EXCEPT ![QueueLength(u)] = item]
<1>1. queue \in [PendingTweetIdx -> TweetItem \cup {EmptyStr}]
  BY DEF User
<1>2. [u EXCEPT !.pendingTweets = queue] \in User
  BY <1>1 DEF User
<1> QED
  BY <1>2 DEF WithTweet

(* A tweet is queued under one of its hashtags, or under none.             *)
LEMMA OriginHashtagType ==
  ASSUME NEW u \in User, NEW tags \in Seq(Hashtags), Wants(u, tags)
  PROVE  OriginHashtag(u, tags) \in Hashtags \cup {EmptyStr}
<1>1. CASE u.isSubscribedAll
  <2>1. CASE tags = <<>>
    BY <1>1, <2>1 DEF OriginHashtag
  <2>2. CASE tags # <<>>
    BY <1>1, <2>2 DEF OriginHashtag
  <2> QED
    BY <2>1, <2>2
<1>2. CASE ~ u.isSubscribedAll
  <2> DEFINE S == {s \in SubscriptionIdx : u.subscriptions[s] \in Range(tags)}
  <2>1. S \in SUBSET Nat
    BY DEF SubscriptionIdx
  <2>2. S # {}
    BY <1>2 DEF Wants, IsSubscribed
  <2>3. Min(S) \in S
    BY <2>1, <2>2, MinIsLeast
  <2>4. Range(tags) \subseteq Hashtags
    BY DEF Range
  <2>5. OriginHashtag(u, tags) = u.subscriptions[Min(S)]
    BY <1>2 DEF OriginHashtag
  <2> QED
    BY <2>3, <2>4, <2>5
<1> QED
  BY <1>1, <1>2

(* An entry that is occupied has a name, so what is queued in it is a      *)
(* tweet item with an addressee.                                           *)
OccupiedIsNamed(u) == u.isOccupied => u.username \in Usernames

LEMMA UpdatedType ==
  ASSUME NEW u \in User, OccupiedIsNamed(u),
         NEW from \in Usernames, NEW text \in Nat, NEW tags \in Seq(Hashtags)
  PROVE  Updated(u, from, text, tags) \in User
<1> DEFINE item == [to |-> u.username, from |-> from, text |-> text,
                    tag |-> OriginHashtag(u, tags)]
<1>1. CASE Wants(u, tags)
  <2>1. item \in TweetItem
    BY <1>1, OriginHashtagType DEF OccupiedIsNamed, Wants, TweetItem
  <2>2. Updated(u, from, text, tags) = WithTweet(u, item)
    BY <1>1 DEF Updated
  <2> QED
    BY <2>1, <2>2, WithTweetType
<1>2. CASE ~ Wants(u, tags)
  BY <1>2 DEF Updated
<1> QED
  BY <1>1, <1>2

-----------------------------------------------------------------------------
(* What the handlers leave alone                                           *)

(* Requests of a registered user never change who the user is.             *)
LEMMA SameOwner ==
  ASSUME NEW u \in User
  PROVE  /\ \A h \in Subscribable :
              /\ Subscribed(u, h).isOccupied = u.isOccupied
              /\ Subscribed(u, h).username = u.username
              /\ Subscribed(u, h).pendingTweets = u.pendingTweets
              /\ Unsubscribed(u, h).isOccupied = u.isOccupied
              /\ Unsubscribed(u, h).username = u.username
              /\ Unsubscribed(u, h).pendingTweets = u.pendingTweets
         /\ TimelineRead(u).isOccupied = u.isOccupied
         /\ TimelineRead(u).username = u.username
         /\ TimelineRead(u).subscriptions = u.subscriptions
         /\ TimelineRead(u).isSubscribedAll = u.isSubscribedAll
BY DEF Subscribed, Unsubscribed, TimelineRead, User

(* A tweet changes nothing but the queues.                                 *)
LEMMA WithTweetFrame ==
  ASSUME NEW u \in User, NEW item
  PROVE  /\ WithTweet(u, item).isOccupied = u.isOccupied
         /\ WithTweet(u, item).username = u.username
         /\ WithTweet(u, item).subscriptions = u.subscriptions
         /\ WithTweet(u, item).isSubscribedAll = u.isSubscribedAll
BY DEF WithTweet, User

LEMMA UpdatedFrame ==
  ASSUME NEW u \in User, NEW from, NEW text, NEW tags
  PROVE  /\ Updated(u, from, text, tags).isOccupied = u.isOccupied
         /\ Updated(u, from, text, tags).username = u.username
         /\ Updated(u, from, text, tags).subscriptions = u.subscriptions
         /\ Updated(u, from, text, tags).isSubscribedAll = u.isSubscribedAll
BY WithTweetFrame DEF Updated

-----------------------------------------------------------------------------
(* Subscriptions                                                           *)

(* A hashtag that is not in the list goes into an empty cell, so nothing   *)
(* is there twice and no other hashtag is overwritten.                     *)
LEMMA SubscribedAgrees ==
  ASSUME NEW u \in User, NEW h \in Subscribable, SubscriptionsAgree(u)
  PROVE  SubscriptionsAgree(Subscribed(u, h))
<1> DEFINE cell == FirstEmpty(u.subscriptions, MAX_SUBSCRIPTIONS)
           list == [u.subscriptions EXCEPT ![cell] = h]
           v == Subscribed(u, h)
<1>1. CASE IsSubscriptionsFull(u) \/ IsSubscribed(u, h)
  BY <1>1 DEF Subscribed
<1>2. CASE ~ IsSubscriptionsFull(u) /\ ~ IsSubscribed(u, h)
  <2>1. v.subscriptions = list /\ v.isSubscribedAll = (u.isSubscribedAll \/ h = ALL)
    BY <1>2 DEF Subscribed, User
  <2>2. cell \in SubscriptionIdx /\ u.subscriptions[cell] = EmptyStr
    <3>1. PICK s \in SubscriptionIdx : u.subscriptions[s] = EmptyStr
      BY <1>2 DEF IsSubscriptionsFull, IsSubscribed
    <3>2. MAX_SUBSCRIPTIONS \in Nat
      BY EmptyStrIsNoValue
    <3>3. cell \in 0 .. MAX_SUBSCRIPTIONS
          /\ (cell < MAX_SUBSCRIPTIONS => u.subscriptions[cell] = EmptyStr)
          /\ (cell = MAX_SUBSCRIPTIONS => u.subscriptions[s] # EmptyStr)
      BY <3>2, FirstEmptyIsFirst DEF SubscriptionIdx
    <3> QED
      BY <3>1, <3>2, <3>3 DEF SubscriptionIdx
  <2>3. \A s \in SubscriptionIdx : list[s] = IF s = cell THEN h ELSE u.subscriptions[s]
    BY <2>2 DEF User
  <2>4. \A s \in SubscriptionIdx : u.subscriptions[s] # h
    BY <1>2 DEF IsSubscribed
  <2>5. ALL # EmptyStr
    BY EmptyStrIsNoValue
  <2>6. v.isSubscribedAll <=> IsSubscribed(v, ALL)
    <3>1. u.isSubscribedAll <=> \E s \in SubscriptionIdx : u.subscriptions[s] = ALL
      BY DEF SubscriptionsAgree, IsSubscribed
    <3>2. (\E s \in SubscriptionIdx : list[s] = ALL)
            <=> h = ALL \/ \E s \in SubscriptionIdx : u.subscriptions[s] = ALL
      BY <2>2, <2>3, <2>5
    <3> QED
      BY <2>1, <3>1, <3>2 DEF IsSubscribed
  <2>7. ASSUME NEW s \in SubscriptionIdx, NEW t \in SubscriptionIdx, list[s] = list[t]
        PROVE  s = t \/ list[s] = EmptyStr
    BY <2>3, <2>4, <2>7 DEF SubscriptionsAgree
  <2> QED
    BY <2>1, <2>6, <2>7 DEF SubscriptionsAgree
<1> QED
  BY <1>1, <1>2

(* Only one cell holds the hashtag, so emptying the first removes it.      *)
LEMMA UnsubscribedAgrees ==
  ASSUME NEW u \in User, NEW h \in Subscribable, SubscriptionsAgree(u)
  PROVE  SubscriptionsAgree(Unsubscribed(u, h))
<1> DEFINE S == {s \in SubscriptionIdx : u.subscriptions[s] = h}
           list == [u.subscriptions EXCEPT ![Min(S)] = EmptyStr]
           v == Unsubscribed(u, h)
<1>1. CASE ~ IsSubscribed(u, h)
  BY <1>1 DEF Unsubscribed
<1>2. CASE IsSubscribed(u, h)
  <2>1. v.subscriptions = list /\ v.isSubscribedAll = (u.isSubscribedAll /\ h # ALL)
    BY <1>2 DEF Unsubscribed, User
  <2>2. Min(S) \in SubscriptionIdx /\ u.subscriptions[Min(S)] = h
    <3>1. S \in SUBSET Nat /\ S # {}
      BY <1>2 DEF SubscriptionIdx, IsSubscribed
    <3> QED
      BY <3>1, MinIsLeast
  <2>3. \A s \in SubscriptionIdx :
          list[s] = IF s = Min(S) THEN EmptyStr ELSE u.subscriptions[s]
    BY <2>2 DEF User
  <2>4. ALL # EmptyStr /\ h # EmptyStr
    BY EmptyStrIsNoValue
  <2>5. \A s \in SubscriptionIdx : u.subscriptions[s] = h => s = Min(S)
    BY <2>2, <2>4 DEF SubscriptionsAgree
  <2>6. v.isSubscribedAll <=> IsSubscribed(v, ALL)
    <3>1. u.isSubscribedAll <=> \E s \in SubscriptionIdx : u.subscriptions[s] = ALL
      BY DEF SubscriptionsAgree, IsSubscribed
    <3>2. (\E s \in SubscriptionIdx : list[s] = ALL)
            <=> h # ALL /\ \E s \in SubscriptionIdx : u.subscriptions[s] = ALL
      BY <2>2, <2>3, <2>4, <2>5
    <3> QED
      BY <2>1, <3>1, <3>2 DEF IsSubscribed
  <2>7. ASSUME NEW s \in SubscriptionIdx, NEW t \in SubscriptionIdx, list[s] = list[t]
        PROVE  s = t \/ list[s] = EmptyStr
    BY <2>3, <2>7 DEF SubscriptionsAgree
  <2> QED
    BY <2>1, <2>6, <2>7 DEF SubscriptionsAgree
<1> QED
  BY <1>1, <1>2

-----------------------------------------------------------------------------
(* Queues                                                                  *)

(* No tweet waits that is newer than the server's last.                    *)
TextsUpTo(u, last) ==
  \A j \in PendingTweetIdx :
    u.pendingTweets[j] # EmptyStr => u.pendingTweets[j].text <= last

(* The queue has no holes below the last cell, so what "timeline" takes is *)
(* everything that waits there.                                            *)
LEMMA QueueHasNoHoles ==
  ASSUME NEW u \in User, NEW since, TweetsInOrder(u, since),
         NEW j \in 0 .. MAX_TWEET_QUEUE - 2, u.pendingTweets[j] # EmptyStr
  PROVE  j < QueueLength(u)
<1> DEFINE q == QueueLength(u)
<1>1. MAX_TWEET_QUEUE \in Nat
  BY EmptyStrIsNoValue
<1>2. q \in 0 .. MAX_TWEET_QUEUE
      /\ (q < MAX_TWEET_QUEUE => u.pendingTweets[q] = EmptyStr)
  BY <1>1, FirstEmptyIsFirst DEF QueueLength
<1>3. \A k \in 0 .. j - 1 : u.pendingTweets[k] # EmptyStr
  BY DEF TweetsInOrder
<1>4. SUFFICES ASSUME j >= q PROVE FALSE
  BY <1>1, <1>2
<1>5. q \in 0 .. j
  BY <1>2, <1>4
<1> QED
  BY <1>1, <1>2, <1>3, <1>5

LEMMA TimelineReadQueue ==
  ASSUME NEW u \in User, NEW since, NEW last,
         TweetsInOrder(u, since), TextsUpTo(u, last)
  PROVE  /\ TweetsInOrder(TimelineRead(u), since)
         /\ TextsUpTo(TimelineRead(u), last)
<1> DEFINE v == TimelineRead(u)
<1>1. \A j \in PendingTweetIdx :
        v.pendingTweets[j] = IF j < QueueLength(u) THEN EmptyStr ELSE u.pendingTweets[j]
  BY DEF TimelineRead, User
<1>2. \A j \in 0 .. MAX_TWEET_QUEUE - 2 : j \in PendingTweetIdx
  BY EmptyStrIsNoValue DEF PendingTweetIdx
<1>3. \A j \in 0 .. MAX_TWEET_QUEUE - 2 : v.pendingTweets[j] = EmptyStr
  BY <1>1, <1>2, QueueHasNoHoles
<1> QED
  BY <1>1, <1>3 DEF TweetsInOrder, TextsUpTo

(* A tweet newer than all that wait keeps the order wherever it is put.    *)
LEMMA WithTweetQueue ==
  ASSUME NEW u \in User, NEW item \in TweetItem, NEW since \in Nat, NEW last \in Nat,
         TweetsInOrder(u, since), TextsUpTo(u, last),
         item.to = u.username, item.text = last + 1, since <= last
  PROVE  /\ TweetsInOrder(WithTweet(u, item), since)
         /\ TextsUpTo(WithTweet(u, item), last + 1)
<1> DEFINE q == QueueLength(u)
           v == WithTweet(u, item)
<1>0. MAX_TWEET_QUEUE \in Nat \ {0} /\ item # EmptyStr
  BY EmptyStrIsNoValue
<1>1. \A j \in PendingTweetIdx : u.pendingTweets[j] # EmptyStr =>
        u.pendingTweets[j].text \in Nat /\ u.pendingTweets[j].text <= last
  BY DEF TextsUpTo, User, TweetItem
<1>2. CASE q = MAX_TWEET_QUEUE
  <2>1. v = u
    BY <1>2 DEF WithTweet
  <2>2. TextsUpTo(u, last + 1)
    BY <1>1 DEF TextsUpTo
  <2> QED
    BY <2>1, <2>2
<1>3. CASE q # MAX_TWEET_QUEUE
  <2>1. q \in PendingTweetIdx
        /\ \A j \in 0 .. MAX_TWEET_QUEUE - 1 : j < q => u.pendingTweets[j] # EmptyStr
    BY <1>0, <1>3, FirstEmptyIsFirst DEF QueueLength, PendingTweetIdx
  <2>2. \A j \in PendingTweetIdx :
          v.pendingTweets[j] = IF j = q THEN item ELSE u.pendingTweets[j]
    BY <1>3, <2>1 DEF WithTweet, User
  <2>3. v.username = u.username
    BY WithTweetFrame
  <2>4. TextsUpTo(v, last + 1)
    BY <1>1, <2>2 DEF TextsUpTo
  <2>5. ASSUME NEW j \in 0 .. MAX_TWEET_QUEUE - 2, v.pendingTweets[j] # EmptyStr
        PROVE  /\ v.pendingTweets[j].to = v.username
               /\ v.pendingTweets[j].text > since
               /\ \A k \in 0 .. j - 1 :
                    /\ v.pendingTweets[k] # EmptyStr
                    /\ v.pendingTweets[k].text < v.pendingTweets[j].text
    <3>1. j \in PendingTweetIdx /\ \A k \in 0 .. j - 1 : k \in PendingTweetIdx
      BY <1>0 DEF PendingTweetIdx
    <3>2. CASE j = q
      BY <1>0, <1>1, <2>1, <2>2, <2>3, <3>1, <3>2 DEF PendingTweetIdx
    <3>3. CASE j # q
      <4>1. u.pendingTweets[j] # EmptyStr /\ v.pendingTweets[j] = u.pendingTweets[j]
        BY <2>2, <2>5, <3>1, <3>3
      <4>2. j < q
        BY <4>1, QueueHasNoHoles
      <4>3. \A k \in 0 .. j - 1 : v.pendingTweets[k] = u.pendingTweets[k]
        BY <2>1, <2>2, <3>1, <4>2 DEF PendingTweetIdx
      <4> QED
        BY <2>3, <4>1, <4>3 DEF TweetsInOrder
    <3> QED
      BY <3>2, <3>3
  <2>6. TweetsInOrder(v, since)
    BY <2>5 DEF TweetsInOrder
  <2> QED
    BY <2>4, <2>6
<1> QED
  BY <1>2, <1>3

-----------------------------------------------------------------------------
(* Every handler keeps an entry sound                                      *)

(* The inductive invariant of one entry: what UserTable calls sound, an    *)
(* occupied entry has a name, and no tweet is newer than the last.         *)
SoundEntry(u, since, last) ==
  /\ u \in User
  /\ OccupiedIsNamed(u)
  /\ SubscriptionsAgree(u)
  /\ TweetsInOrder(u, since)
  /\ FreeIsClean(u)
  /\ TextsUpTo(u, last)

LEMMA InitialUserSound == SoundEntry(InitialUser, 0, 0)
<1>1. /\ ~ InitialUser.isOccupied
      /\ InitialUser.username = EmptyStr
      /\ InitialUser.isSubscribedAll = FALSE
      /\ \A s \in SubscriptionIdx : InitialUser.subscriptions[s] = EmptyStr
      /\ \A j \in PendingTweetIdx : InitialUser.pendingTweets[j] = EmptyStr
  BY DEF InitialUser
<1>2. \A j \in 0 .. MAX_TWEET_QUEUE - 2 : j \in PendingTweetIdx
  BY EmptyStrIsNoValue DEF PendingTweetIdx
<1>3. SubscriptionsAgree(InitialUser)
  BY <1>1, EmptyStrIsNoValue DEF SubscriptionsAgree, IsSubscribed
<1>4. TweetsInOrder(InitialUser, 0) /\ FreeIsClean(InitialUser)
  BY <1>1, <1>2 DEF TweetsInOrder, FreeIsClean
<1> QED
  BY <1>1, <1>3, <1>4, InitialUserType
     DEF SoundEntry, OccupiedIsNamed, TextsUpTo

(* Registering takes an entry that is free, hence clean: the new user      *)
(* starts with no subscription and, last cell aside, no tweet.             *)
LEMMA RegisteredSound ==
  ASSUME NEW u, NEW since, NEW last \in Nat, SoundEntry(u, since, last),
         ~ u.isOccupied, NEW n \in Usernames
  PROVE  SoundEntry(Registered(u, n), last, last)
<1> DEFINE v == Registered(u, n)
<1>0. u \in User
  BY DEF SoundEntry
<1>1. /\ v.isOccupied = TRUE
      /\ v.username = n
      /\ v.subscriptions = u.subscriptions
      /\ v.isSubscribedAll = u.isSubscribedAll
      /\ v.pendingTweets = u.pendingTweets
  BY <1>0 DEF Registered, User
<1>2. \A j \in 0 .. MAX_TWEET_QUEUE - 2 : u.pendingTweets[j] = EmptyStr
  BY DEF SoundEntry, FreeIsClean
<1>3. SubscriptionsAgree(v)
  BY <1>1 DEF SoundEntry, SubscriptionsAgree, IsSubscribed
<1>4. TweetsInOrder(v, last) /\ FreeIsClean(v) /\ OccupiedIsNamed(v)
  BY <1>1, <1>2 DEF TweetsInOrder, FreeIsClean, OccupiedIsNamed
<1>5. TextsUpTo(v, last)
  BY <1>1 DEF SoundEntry, TextsUpTo
<1> QED
  BY <1>0, <1>3, <1>4, <1>5, RegisteredType DEF SoundEntry

LEMMA ClearedSound ==
  ASSUME NEW u, NEW since, NEW last, SoundEntry(u, since, last)
  PROVE  SoundEntry(Cleared(u), since, last)
<1> DEFINE v == Cleared(u)
<1>0. u \in User
  BY DEF SoundEntry
<1>1. /\ v.isOccupied = FALSE
      /\ v.username = EmptyStr
      /\ v.isSubscribedAll = FALSE
      /\ \A s \in SubscriptionIdx : v.subscriptions[s] = EmptyStr
      /\ \A j \in PendingTweetIdx :
           v.pendingTweets[j] = IF j < MAX_TWEET_QUEUE - 1 THEN EmptyStr
                                                           ELSE u.pendingTweets[j]
  BY DEF Cleared, InitialUser
<1>2. \A j \in 0 .. MAX_TWEET_QUEUE - 2 :
        j \in PendingTweetIdx /\ j < MAX_TWEET_QUEUE - 1
  BY EmptyStrIsNoValue DEF PendingTweetIdx
<1>3. SubscriptionsAgree(v)
  BY <1>1, EmptyStrIsNoValue DEF SubscriptionsAgree, IsSubscribed
<1>4. TweetsInOrder(v, since) /\ FreeIsClean(v) /\ OccupiedIsNamed(v)
  BY <1>1, <1>2 DEF TweetsInOrder, FreeIsClean, OccupiedIsNamed
<1>5. TextsUpTo(v, last)
  BY <1>1 DEF SoundEntry, TextsUpTo
<1> QED
  BY <1>0, <1>3, <1>4, <1>5, ClearedType DEF SoundEntry

LEMMA SubscribedSound ==
  ASSUME NEW u, NEW since, NEW last, SoundEntry(u, since, last), u.isOccupied,
         NEW h \in Subscribable
  PROVE  /\ SoundEntry(Subscribed(u, h), since, last)
         /\ SoundEntry(Unsubscribed(u, h), since, last)
<1>0. u \in User /\ SubscriptionsAgree(u)
  BY DEF SoundEntry
<1>1. ASSUME NEW v \in User, SubscriptionsAgree(v),
             v.isOccupied = u.isOccupied, v.username = u.username,
             v.pendingTweets = u.pendingTweets
      PROVE  SoundEntry(v, since, last)
  BY <1>1 DEF SoundEntry, OccupiedIsNamed, TweetsInOrder, FreeIsClean, TextsUpTo
<1> QED
  BY <1>0, <1>1, SameOwner, SubscribedType, UnsubscribedType,
     SubscribedAgrees, UnsubscribedAgrees

LEMMA TimelineReadSound ==
  ASSUME NEW u, NEW since, NEW last, SoundEntry(u, since, last), u.isOccupied
  PROVE  SoundEntry(TimelineRead(u), since, last)
<1>0. u \in User
  BY DEF SoundEntry
<1>1. TweetsInOrder(TimelineRead(u), since) /\ TextsUpTo(TimelineRead(u), last)
  BY <1>0, TimelineReadQueue DEF SoundEntry
<1>2. SubscriptionsAgree(TimelineRead(u))
  BY <1>0, SameOwner DEF SoundEntry, SubscriptionsAgree, IsSubscribed
<1>3. OccupiedIsNamed(TimelineRead(u)) /\ FreeIsClean(TimelineRead(u))
  BY <1>0, SameOwner DEF SoundEntry, OccupiedIsNamed, FreeIsClean
<1> QED
  BY <1>0, <1>1, <1>2, <1>3, TimelineReadType DEF SoundEntry

LEMMA UpdatedSound ==
  ASSUME NEW u, NEW since \in Nat, NEW last \in Nat, SoundEntry(u, since, last),
         since <= last, NEW from \in Usernames, NEW tags \in Seq(Hashtags)
  PROVE  SoundEntry(Updated(u, from, last + 1, tags), since, last + 1)
<1> DEFINE item == [to |-> u.username, from |-> from, text |-> last + 1,
                    tag |-> OriginHashtag(u, tags)]
           v == Updated(u, from, last + 1, tags)
<1>0. u \in User /\ OccupiedIsNamed(u)
  BY DEF SoundEntry
<1>1. TweetsInOrder(v, since) /\ TextsUpTo(v, last + 1)
  <2>1. CASE Wants(u, tags)
    <3>1. item \in TweetItem /\ item.to = u.username /\ item.text = last + 1
      BY <1>0, <2>1, OriginHashtagType DEF OccupiedIsNamed, Wants, TweetItem
    <3>2. v = WithTweet(u, item)
      BY <2>1 DEF Updated
    <3> QED
      BY <1>0, <3>1, <3>2, WithTweetQueue DEF SoundEntry
  <2>2. CASE ~ Wants(u, tags)
    <3>1. v = u
      BY <2>2 DEF Updated
    <3>2. \A j \in PendingTweetIdx :
            u.pendingTweets[j] # EmptyStr => u.pendingTweets[j].text \in Nat
      BY <1>0 DEF User, TweetItem
    <3>3. TextsUpTo(u, last + 1)
      BY <3>2 DEF SoundEntry, TextsUpTo
    <3> QED
      BY <3>1, <3>3 DEF SoundEntry
  <2> QED
    BY <2>1, <2>2
<1>2. SubscriptionsAgree(v)
  BY <1>0, UpdatedFrame DEF SoundEntry, SubscriptionsAgree, IsSubscribed
<1>3. OccupiedIsNamed(v)
  BY <1>0, UpdatedFrame DEF OccupiedIsNamed
<1>4. FreeIsClean(v)
  <2>1. CASE u.isOccupied
    BY <1>0, <2>1, UpdatedFrame DEF FreeIsClean
  <2>2. CASE ~ u.isOccupied
    BY <2>2 DEF Updated, Wants, SoundEntry
  <2> QED
    BY <2>1, <2>2
<1>5. v \in User
  BY <1>0, UpdatedType
<1> QED
  BY <1>1, <1>2, <1>3, <1>4, <1>5 DEF SoundEntry
==============================================================================

------------------------------ MODULE UserTable ------------------------------
(***************************************************************************)
(* The shared memory of ttweetsrv: the array activeUsers of User structs,  *)
(* and what each handler does to ONE User, as operators from a User to a   *)
(* User.  TweetServer applies them as the atomic handlers of a request;    *)
(* ChildSteps takes the same handlers apart into single memory accesses.   *)
(*                                                                         *)
(* Strings are abstract: "" is the value EmptyStr, a username or a hashtag *)
(* is a member of a constant set, and a queued tweet is the record of the  *)
(* four parts add_tweet_to_user concatenates.  The text of a tweet is the  *)
(* tweetID the server gives it, so two tweets are never confused.          *)
(***************************************************************************)
EXTENDS Integers, Sequences, FiniteSetsExt, Functions

CONSTANTS
  MAX_CONC_CONN,       \* entries of activeUsers, and children served at once
  MAX_SUBSCRIPTIONS,   \* cells of a user's subscriptions array
  MAX_TWEET_QUEUE,     \* cells of a user's pendingTweets array
  INVALID_USER_INDEX,  \* the index of a child that has registered nobody
  Usernames,           \* names given to clients on their command lines
  Hashtags,            \* hashtags other than ALL
  ALL,                 \* the hashtag that subscribes to every tweet
  EmptyStr             \* the empty string, in any of the arrays

UserIdx == 0 .. MAX_CONC_CONN - 1
SubscriptionIdx == 0 .. MAX_SUBSCRIPTIONS - 1
PendingTweetIdx == 0 .. MAX_TWEET_QUEUE - 1

(* What a client may subscribe to.  Tweeting with ALL is refused by the    *)
(* client (is_hashtag_all_exists).                                         *)
Subscribable == Hashtags \cup {ALL}

(* A queued tweet.  The tag is EmptyStr for a tweet without hashtags.      *)
TweetItem == [to: Usernames, from: Usernames, text: Nat,
              tag: Hashtags \cup {EmptyStr}]

ASSUME UserTableAssumption ==
  /\ MAX_CONC_CONN \in Nat \ {0}
  /\ MAX_SUBSCRIPTIONS \in Nat \ {0}
  /\ MAX_TWEET_QUEUE \in Nat \ {0}
  /\ INVALID_USER_INDEX \in Nat \ UserIdx
  /\ ALL \notin Hashtags
  /\ EmptyStr \notin Usernames \cup Subscribable \cup TweetItem

User == [isOccupied: BOOLEAN,
         username: Usernames \cup {EmptyStr},
         pendingTweets: [PendingTweetIdx -> TweetItem \cup {EmptyStr}],
         subscriptions: [SubscriptionIdx -> Subscribable \cup {EmptyStr}],
         isSubscribedAll: BOOLEAN]

-----------------------------------------------------------------------------
(* Positions in the arrays of a user                                       *)

(* The first cell a loop finds to be "", or the length n when none is.     *)
FirstEmpty(cells, n) ==
  LET free == {j \in 0 .. n - 1 : cells[j] = EmptyStr}
  IN  IF free = {} THEN n ELSE Min(free)

QueueLength(u) == FirstEmpty(u.pendingTweets, MAX_TWEET_QUEUE)

IsSubscribed(u, h) == \E s \in SubscriptionIdx : u.subscriptions[s] = h

IsSubscriptionsFull(u) == ~ IsSubscribed(u, EmptyStr)

-----------------------------------------------------------------------------
(* The handlers, on the user at the client's index                         *)

(* initialize_user_array, in memory that mmap has zeroed                   *)
InitialUser ==
  [isOccupied |-> FALSE,
   username |-> EmptyStr,
   pendingTweets |-> [j \in PendingTweetIdx |-> EmptyStr],
   subscriptions |-> [s \in SubscriptionIdx |-> EmptyStr],
   isSubscribedAll |-> FALSE]

(* What handle_validate_user_request writes into the entry it takes.       *)
Registered(u, name) == [u EXCEPT !.isOccupied = TRUE, !.username = name]

(* The entry it takes: the first that is not occupied.                     *)
FirstFreeUser(users) == Min({i \in UserIdx : ~ users[i].isOccupied})

(* clear_user_at_index.  Its loop over pendingTweets stops one cell early. *)
Cleared(u) ==
  [InitialUser EXCEPT
     !.pendingTweets = [j \in PendingTweetIdx |->
                          IF j < MAX_TWEET_QUEUE - 1 THEN EmptyStr
                                                     ELSE u.pendingTweets[j]]]

(* Mutant of Subscribed: the search for h ends at the first empty cell.    *)
SubscribedTwice(u, h) ==
  LET cell == FirstEmpty(u.subscriptions, MAX_SUBSCRIPTIONS)
  IN  IF cell = MAX_SUBSCRIPTIONS \/ \E s \in 0 .. cell - 1 : u.subscriptions[s] = h
        THEN u
        ELSE [u EXCEPT !.subscriptions = [@ EXCEPT ![cell] = h],
                       !.isSubscribedAll = @ \/ h = ALL]

(* handle_subscribe_request: nothing when the list is full or has h.       *)
Subscribed(u, h) ==
  IF IsSubscriptionsFull(u) \/ IsSubscribed(u, h)
    THEN u
    ELSE [u EXCEPT
            !.subscriptions = [@ EXCEPT ![FirstEmpty(@, MAX_SUBSCRIPTIONS)] = h],
            !.isSubscribedAll = @ \/ h = ALL]

(* Mutant of Unsubscribed: isSubscribedAll is not reset.                   *)
UnsubscribedStillAll(u, h) ==
  IF ~ IsSubscribed(u, h)
    THEN u
    ELSE LET cell == Min({s \in SubscriptionIdx : u.subscriptions[s] = h})
         IN  [u EXCEPT !.subscriptions = [@ EXCEPT ![cell] = EmptyStr]]

(* handle_unsubscribe_request: empties the first cell that holds h.        *)
Unsubscribed(u, h) ==
  IF ~ IsSubscribed(u, h)
    THEN u
    ELSE LET cell == Min({s \in SubscriptionIdx : u.subscriptions[s] = h})
         IN  [u EXCEPT !.subscriptions = [@ EXCEPT ![cell] = EmptyStr],
                       !.isSubscribedAll = @ /\ h # ALL]

(* handle_tweet_updates, for one user: whether the tweet is for the user   *)
(* and under which of its hashtags, given as the sequence tags.            *)
Wants(u, tags) ==
  /\ u.isOccupied
  /\ u.isSubscribedAll \/ \E h \in Range(tags) : IsSubscribed(u, h)

OriginHashtag(u, tags) ==
  IF u.isSubscribedAll
    THEN IF tags = <<>> THEN EmptyStr ELSE tags[1]
    ELSE u.subscriptions[
           Min({s \in SubscriptionIdx : u.subscriptions[s] \in Range(tags)})]

(* add_tweet_to_user: into the first empty cell; lost when there is none.  *)
WithTweet(u, item) ==
  IF QueueLength(u) = MAX_TWEET_QUEUE
    THEN u
    ELSE [u EXCEPT !.pendingTweets = [@ EXCEPT ![QueueLength(u)] = item]]

(* Mutant of Updated: only subscribers of ALL get the tweet.               *)
UpdatedAllOnly(u, from, text, tags) ==
  IF u.isOccupied /\ u.isSubscribedAll
    THEN WithTweet(u, [to |-> u.username, from |-> from, text |-> text,
                       tag |-> OriginHashtag(u, tags)])
    ELSE u

(* handle_tweet_updates and add_tweet_to_user, for one user                *)
Updated(u, from, text, tags) ==
  IF Wants(u, tags)
    THEN WithTweet(u, [to |-> u.username, from |-> from, text |-> text,
                       tag |-> OriginHashtag(u, tags)])
    ELSE u

(* Mutant of TimelineRead: the first tweet stays in its cell.              *)
TimelineKeepsFirst(u) ==
  [u EXCEPT !.pendingTweets = [j \in PendingTweetIdx |->
                                 IF j \in 1 .. QueueLength(u) - 1 THEN EmptyStr ELSE @[j]]]

(* add_pending_tweets_to_jobj: the tweets up to the first empty cell are   *)
(* sent and their cells emptied.                                           *)
StoredTweets(u) == [k \in 1 .. QueueLength(u) |-> u.pendingTweets[k - 1]]

TimelineRead(u) ==
  [u EXCEPT !.pendingTweets = [j \in PendingTweetIdx |->
                                 IF j < QueueLength(u) THEN EmptyStr ELSE @[j]]]

-----------------------------------------------------------------------------
(* What makes an entry sound                                               *)

(* The flag isSubscribedAll says whether ALL is in the list, and the list  *)
(* holds no hashtag twice, although subscriptions leave holes that later   *)
(* ones fill.                                                              *)
SubscriptionsAgree(u) ==
  /\ u.isSubscribedAll <=> IsSubscribed(u, ALL)
  /\ \A s, t \in SubscriptionIdx :
       u.subscriptions[s] = u.subscriptions[t] =>
         s = t \/ u.subscriptions[s] = EmptyStr

(* Up to the last cell but one, the tweets that wait for a user are        *)
(* addressed to it, arrived after it registered, stand in the order they   *)
(* were tweeted in, and leave no hole that would hide one from "timeline". *)
TweetsInOrder(u, since) ==
  \A j \in 0 .. MAX_TWEET_QUEUE - 2 :
    u.pendingTweets[j] # EmptyStr =>
      /\ u.pendingTweets[j].to = u.username
      /\ u.pendingTweets[j].text > since
      /\ \A k \in 0 .. j - 1 :
           /\ u.pendingTweets[k] # EmptyStr
           /\ u.pendingTweets[k].text < u.pendingTweets[j].text

(* An entry that is free is as initialize_user_array leaves it, but for    *)
(* the last cell of its pendingTweets.                                     *)
FreeIsClean(u) ==
  ~ u.isOccupied =>
    /\ u.username = EmptyStr
    /\ ~ u.isSubscribedAll
    /\ \A s \in SubscriptionIdx : u.subscriptions[s] = EmptyStr
    /\ \A j \in 0 .. MAX_TWEET_QUEUE - 2 : u.pendingTweets[j] = EmptyStr
==============================================================================

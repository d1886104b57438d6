---------------------------- MODULE TweetService -----------------------------
(***************************************************************************)
(* What the tweet server promises to its users, without the array of User  *)
(* structs: a set of users that are online, for each of them a set of      *)
(* subscriptions and the sequence of tweets it has not read yet.           *)
(*                                                                         *)
(* A tweet reaches every user that is online and subscribed to ALL or to   *)
(* one of its hashtags, once, and in the order of the tweets.  It is lost  *)
(* for a user only when there is no room: an inbox that holds fewer than   *)
(* MAX_TWEET_QUEUE - 1 tweets always has room, one that holds that many    *)
(* may have room for one more.  (The last cell of the array is not emptied *)
(* when a user leaves.)                                                    *)
(***************************************************************************)
EXTENDS Integers, Sequences, FiniteSets

CONSTANTS MAX_CONC_CONN, MAX_SUBSCRIPTIONS, MAX_TWEET_QUEUE,
          Usernames, Hashtags, ALL, EmptyStr, TagLists

VARIABLES
  online,         \* the names that are registered
  subscriptions,  \* for every name, a set of hashtags
  inbox,          \* for every name, the tweets that wait for it
  lastTweet       \* number of the last tweet

vars == <<online, subscriptions, inbox, lastTweet>>

TagsIn(tags) == {tags[k] : k \in DOMAIN tags}

Init ==
  /\ online = {}
  /\ subscriptions = [n \in Usernames |-> {}]
  /\ inbox = [n \in Usernames |-> <<>>]
  /\ lastTweet = 0

Register(n) ==
  /\ n \notin online
  /\ Cardinality(online) < MAX_CONC_CONN
  /\ online' = online \cup {n}
  /\ UNCHANGED <<subscriptions, inbox, lastTweet>>

Leave(n) ==
  /\ n \in online
  /\ online' = online \ {n}
  /\ subscriptions' = [subscriptions EXCEPT ![n] = {}]
  /\ inbox' = [inbox EXCEPT ![n] = <<>>]
  /\ UNCHANGED lastTweet

Subscribe(n, h) ==
  /\ n \in online
  /\ Cardinality(subscriptions[n]) < MAX_SUBSCRIPTIONS
  /\ subscriptions' = [subscriptions EXCEPT ![n] = @ \cup {h}]
  /\ UNCHANGED <<online, inbox, lastTweet>>

Unsubscribe(n, h) ==
  /\ n \in online
  /\ subscriptions' = [subscriptions EXCEPT ![n] = @ \ {h}]
  /\ UNCHANGED <<online, inbox, lastTweet>>

ReadTimeline(n) ==
  /\ n \in online
  /\ inbox' = [inbox EXCEPT ![n] = <<>>]
  /\ UNCHANGED <<online, subscriptions, lastTweet>>

(* The hashtag a tweet is shown under: for a subscriber of ALL the first   *)
(* of the tweet, otherwise one that the user is subscribed to.             *)
ShownUnder(n, tags) ==
  IF ALL \notin subscriptions[n] THEN TagsIn(tags) \cap subscriptions[n]
  ELSE IF tags = <<>> THEN {EmptyStr} ELSE {tags[1]}

(* What may become of the inbox of n when a tweet arrives for it.          *)
Delivered(n, item) ==
  (IF Len(inbox[n]) < MAX_TWEET_QUEUE THEN {Append(inbox[n], item)} ELSE {})
    \cup (IF Len(inbox[n]) >= MAX_TWEET_QUEUE - 1 THEN {inbox[n]} ELSE {})

AfterTweet(n, from, tags) ==
  IF n \in online /\ ShownUnder(n, tags) # {}
    THEN UNION {Delivered(n, [to |-> n, from |-> from, text |-> lastTweet + 1,
                              tag |-> h]) : h \in ShownUnder(n, tags)}
    ELSE {inbox[n]}

Tweet(from, tags) ==
  /\ from \in online
  /\ lastTweet' = lastTweet + 1
  /\ DOMAIN inbox' = Usernames
  /\ \A n \in Usernames : inbox'[n] \in AfterTweet(n, from, tags)
  /\ UNCHANGED <<online, subscriptions>>

Next ==
  \E n \in Usernames :
    \/ Register(n)
    \/ Leave(n)
    \/ ReadTimeline(n)
    \/ \E h \in Hashtags \cup {ALL} : Subscribe(n, h) \/ Unsubscribe(n, h)
    \/ \E tags \in TagLists : Tweet(n, tags)

Spec == Init /\ [][Next]_vars
==============================================================================

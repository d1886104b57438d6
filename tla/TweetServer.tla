----------------------------- MODULE TweetServer -----------------------------
(***************************************************************************)
(* ttweetsrv with every request handled in one step.                       *)
(*                                                                         *)
(* A client is one ttweetcli process and its connection.  The parent       *)
(* accepts the connection and forks a child; the child serves requests     *)
(* until the client's "exit", or answers one request and closes when       *)
(* childProcCount says that the server is full.  The children share        *)
(* activeUsers and latestTweet.                                            *)
(*                                                                         *)
(* A client sends a request only after the reply to the one before, so a   *)
(* request, its handler and its reply are one action here.  What happens   *)
(* when the handlers of two children overlap is the subject of ChildSteps, *)
(* and what happens inside the parent's loop that of Acceptor.  A client   *)
(* that vanishes after sending a request is one that vanishes after the    *)
(* reply: the child handles the request all the same.                      *)
(***************************************************************************)
EXTENDS UserTable

CONSTANTS
  Clients,    \* the client processes, one connection each
  TagLists,   \* the hashtag lists a tweet may carry
  MaxTweets   \* bound: number of tweets that are sent

ASSUME TweetServerAssumption ==
  /\ IsFiniteSet(Clients)
  /\ TagLists \subseteq Seq(Hashtags)
  /\ MaxTweets \in Nat

VARIABLES
  activeUsers,     \* the shared array
  tweetID,         \* latestTweet->tweetID; its other fields live in a request
  childProcCount,  \* the parent's counter
  child,           \* the process forked for a connection, as waitpid sees it
  clientUserIdx,   \* local variable of the child
  client,          \* the ttweetcli process
  name,            \* its command line argument
  joinedAt         \* history: tweetID when the entry was last registered

vars == <<activeUsers, tweetID, childProcCount, child, clientUserIdx,
          client, name, joinedAt>>

(* "none": not forked yet.  "serving" runs handle_ttweet_client and        *)
(* "rejecting" reject_ttweet_client.  "spinning" never leaves              *)
(* receive_response again.  "zombie" has exited, "reaped" is waited for.   *)
ChildState == {"none", "serving", "rejecting", "spinning", "zombie", "reaped"}

(* "validating": connected, its username not answered yet.  "ready": told  *)
(* that the username is valid.  "gone": exited, or killed.                 *)
ClientState == {"off", "validating", "ready", "gone"}

Init ==
  /\ activeUsers = [i \in UserIdx |-> InitialUser]
  /\ tweetID = 0
  /\ childProcCount = 0
  /\ child = [c \in Clients |-> "none"]
  /\ clientUserIdx = [c \in Clients |-> INVALID_USER_INDEX]
  /\ client = [c \in Clients |-> "off"]
  /\ name = [c \in Clients |-> EmptyStr]
  /\ joinedAt = [i \in UserIdx |-> 0]

-----------------------------------------------------------------------------
(* Helpers                                                                 *)

(* The process of c ends, and its local variables with it.                 *)
ChildExits(c) ==
  /\ child' = [child EXCEPT ![c] = "zombie"]
  /\ clientUserIdx' = [clientUserIdx EXCEPT ![c] = INVALID_USER_INDEX]

(* The client has been told that its username is valid, and the child that *)
(* answered is still there to read its requests.                           *)
InSession(c) == client[c] = "ready" /\ child[c] = "serving"

(* The child has registered its client.                                    *)
HasEntry(c) == clientUserIdx[c] # INVALID_USER_INDEX

(* The sender's entry, and the effect of a handler that changes no other.  *)
OwnEntry(c) == activeUsers[clientUserIdx[c]]

UpdateOwnEntry(c, u) ==
  activeUsers' = [activeUsers EXCEPT ![clientUserIdx[c]] = u]

(* Mutant of NameTaken: the loop stops at the first free entry.            *)
NameTakenBeforeFree(n) ==
  \E i \in UserIdx : /\ activeUsers[i].username = n
                     /\ \A j \in 0 .. i : activeUsers[j].isOccupied

NameTaken(n) ==
  \E i \in UserIdx : activeUsers[i].isOccupied /\ activeUsers[i].username = n

SpaceAvailable == \E i \in UserIdx : ~ activeUsers[i].isOccupied

-----------------------------------------------------------------------------
(* Connections                                                             *)

(* A client starts: it connects and sends its username.                    *)
Connect(c, n) ==
  /\ client[c] = "off"
  /\ client' = [client EXCEPT ![c] = "validating"]
  /\ name' = [name EXCEPT ![c] = n]
  /\ UNCHANGED <<activeUsers, tweetID, childProcCount, child, clientUserIdx,
                 joinedAt>>

(* Mutant of AcceptConnection: the limit is compared with <=.              *)
AcceptOneTooMany(c) ==
  /\ client[c] # "off"
  /\ child[c] = "none"
  /\ child' = [child EXCEPT ![c] =
                 IF childProcCount <= MAX_CONC_CONN THEN "serving" ELSE "rejecting"]
  /\ childProcCount' = childProcCount + 1
  /\ UNCHANGED <<activeUsers, tweetID, clientUserIdx, client, name, joinedAt>>

(* One turn of the parent's loop.  The child compares its copy of          *)
(* childProcCount, made by fork before the parent increments it.           *)
AcceptConnection(c) ==
  /\ client[c] # "off"
  /\ child[c] = "none"
  /\ child' = [child EXCEPT ![c] =
                 IF childProcCount < MAX_CONC_CONN THEN "serving" ELSE "rejecting"]
  /\ childProcCount' = childProcCount + 1
  /\ UNCHANGED <<activeUsers, tweetID, clientUserIdx, client, name, joinedAt>>

Zombies == {c \in Clients : child[c] = "zombie"}

(* Mutant of ReapChildren: the counter is decremented before the result of *)
(* waitpid is looked at.                                                   *)
ReapCountsNoChild ==
  /\ Zombies # {}
  /\ child' = [c \in Clients |-> IF c \in Zombies THEN "reaped" ELSE child[c]]
  /\ childProcCount' = childProcCount - Cardinality(Zombies) - 1
  /\ UNCHANGED <<activeUsers, tweetID, clientUserIdx, client, name, joinedAt>>

(* child_exit_signal_handler                                               *)
ReapChildren ==
  /\ Zombies # {}
  /\ child' = [c \in Clients |-> IF c \in Zombies THEN "reaped" ELSE child[c]]
  /\ childProcCount' = childProcCount - Cardinality(Zombies)
  /\ UNCHANGED <<activeUsers, tweetID, clientUserIdx, client, name, joinedAt>>

(* The client is killed, or dies of an error, between two requests.        *)
Vanish(c) ==
  /\ client[c] \in {"validating", "ready"}
  /\ client' = [client EXCEPT ![c] = "gone"]
  /\ UNCHANGED <<activeUsers, tweetID, childProcCount, child, clientUserIdx,
                 name, joinedAt>>

(* The connection of a child that waits for a request ends.                *)
(* receive_response does not look at what recv returns, and goes by an     *)
(* array that nothing was written to: it loops for good when the array     *)
(* holds no positive number; otherwise the "request" starts with a digit,  *)
(* has no "requestCode", and the child dies of a null pointer.  The        *)
(* client's entry stays as it is.                                          *)
EndOfFile(c) ==
  /\ child[c] \in {"serving", "rejecting"}
  /\ client[c] = "gone"
  /\ \/ /\ child' = [child EXCEPT ![c] = "spinning"]
        /\ UNCHANGED clientUserIdx
     \/ ChildExits(c)
  /\ UNCHANGED <<activeUsers, tweetID, childProcCount, client, name, joinedAt>>

-----------------------------------------------------------------------------
(* Requests                                                                *)

(* The reply to REQ_VALIDATE_USER.  A client whose username is refused     *)
(* exits.  A rejecting child closes and exits after this request; it has   *)
(* handled it like any other.                                              *)
AcceptUsername(c) ==
  LET i == FirstFreeUser(activeUsers)
  IN  /\ ~ NameTaken(name[c]) /\ SpaceAvailable
      /\ activeUsers' = [activeUsers EXCEPT ![i] = Registered(@, name[c])]
      /\ joinedAt' = [joinedAt EXCEPT ![i] = tweetID]
      /\ client' = [client EXCEPT ![c] = "ready"]
      /\ IF child[c] = "rejecting"
           THEN ChildExits(c)
           ELSE /\ clientUserIdx' = [clientUserIdx EXCEPT ![c] = i]
                /\ UNCHANGED child

RefuseUsername(c) ==
  /\ NameTaken(name[c]) \/ ~ SpaceAvailable
  /\ client' = [client EXCEPT ![c] = "gone"]
  /\ IF child[c] = "rejecting"
       THEN ChildExits(c)
       ELSE UNCHANGED <<child, clientUserIdx>>
  /\ UNCHANGED <<activeUsers, joinedAt>>

ValidateUser(c) ==
  /\ client[c] = "validating"
  /\ child[c] \in {"serving", "rejecting"}
  /\ AcceptUsername(c) \/ RefuseUsername(c)
  /\ UNCHANGED <<tweetID, childProcCount, name>>

Tweet(c, tags) ==
  /\ InSession(c)
  /\ tweetID < MaxTweets
  /\ tweetID' = tweetID + 1
  /\ activeUsers' = [i \in UserIdx |->
                       Updated(activeUsers[i], name[c], tweetID', tags)]
  /\ UNCHANGED <<childProcCount, child, clientUserIdx, client, name, joinedAt>>

Subscribe(c, h) ==
  /\ InSession(c)
  /\ UpdateOwnEntry(c, Subscribed(OwnEntry(c), h))
  /\ UNCHANGED <<tweetID, childProcCount, child, clientUserIdx, client, name,
                 joinedAt>>

Unsubscribe(c, h) ==
  /\ InSession(c)
  /\ UpdateOwnEntry(c, Unsubscribed(OwnEntry(c), h))
  /\ UNCHANGED <<tweetID, childProcCount, child, clientUserIdx, client, name,
                 joinedAt>>

Timeline(c) ==
  /\ InSession(c)
  /\ UpdateOwnEntry(c, TimelineRead(OwnEntry(c)))
  /\ UNCHANGED <<tweetID, childProcCount, child, clientUserIdx, client, name,
                 joinedAt>>

(* Mutant of Exit: handle_exit_request returns 1, the child goes on.       *)
ExitReturnsOne(c) ==
  /\ InSession(c)
  /\ UpdateOwnEntry(c, Cleared(OwnEntry(c)))
  /\ client' = [client EXCEPT ![c] = "gone"]
  /\ UNCHANGED <<tweetID, childProcCount, child, clientUserIdx, name, joinedAt>>

Exit(c) ==
  /\ InSession(c)
  /\ UpdateOwnEntry(c, Cleared(OwnEntry(c)))
  /\ client' = [client EXCEPT ![c] = "gone"]
  /\ ChildExits(c)
  /\ UNCHANGED <<tweetID, childProcCount, name, joinedAt>>

-----------------------------------------------------------------------------
ClientStep(c) ==
  \/ \E n \in Usernames : Connect(c, n)
  \/ Vanish(c)

ChildStep(c) ==
  \/ ValidateUser(c)
  \/ \E tags \in TagLists : Tweet(c, tags)
  \/ \E h \in Subscribable : Subscribe(c, h) \/ Unsubscribe(c, h)
  \/ Timeline(c)
  \/ Exit(c)
  \/ EndOfFile(c)

Next ==
  \/ \E c \in Clients : ClientStep(c) \/ AcceptConnection(c) \/ ChildStep(c)
  \/ ReapChildren

Spec == Init /\ [][Next]_vars

-----------------------------------------------------------------------------
(* Correctness                                                             *)

TypeOK ==
  /\ activeUsers \in [UserIdx -> User]
  /\ tweetID \in Nat
  /\ childProcCount \in Nat
  /\ child \in [Clients -> ChildState]
  /\ clientUserIdx \in [Clients -> UserIdx \cup {INVALID_USER_INDEX}]
  /\ client \in [Clients -> ClientState]
  /\ name \in [Clients -> Usernames \cup {EmptyStr}]
  /\ joinedAt \in [UserIdx -> Nat]

(* No two entries are registered under one name, whatever was registered,  *)
(* released or leaked before (handle_validate_user_request; README,        *)
(* "Client usernames must be unique").                                     *)
UniqueUsernames ==
  \A i, j \in UserIdx :
    /\ activeUsers[i].isOccupied
    /\ activeUsers[j].isOccupied
    /\ activeUsers[i].username = activeUsers[j].username
    => i = j

(* A child that has registered its client keeps an entry that is occupied  *)
(* under the client's name and that no other child uses, also after the    *)
(* client has vanished: the index a child keeps in a local variable never  *)
(* becomes stale.  A client in session has registered.                     *)
SessionOwnsEntry ==
  \A c \in Clients :
    /\ InSession(c) => HasEntry(c)
    /\ HasEntry(c) =>
         /\ OwnEntry(c).isOccupied
         /\ OwnEntry(c).username = name[c]
         /\ \A d \in Clients \ {c} : clientUserIdx[d] # clientUserIdx[c]

(* Every entry is sound in the sense of UserTable: its flag agrees with    *)
(* its list, its tweets wait in order and are its own, and one that is     *)
(* free holds nothing that the next user would inherit.                    *)
EntriesSound ==
  \A i \in UserIdx :
    /\ SubscriptionsAgree(activeUsers[i])
    /\ TweetsInOrder(activeUsers[i], joinedAt[i])
    /\ FreeIsClean(activeUsers[i])

(* Never more than MAX_CONC_CONN connections are served at a time, however *)
(* connections, exits and the signal handler's work follow each other.     *)
ConnectionLimit ==
  Cardinality({c \in Clients : child[c] = "serving"}) <= MAX_CONC_CONN

-----------------------------------------------------------------------------
(* The server implements TweetService, whatever crashes                    *)

EntryOf(n) ==
  CHOOSE i \in UserIdx : activeUsers[i].isOccupied /\ activeUsers[i].username = n

Online == {n \in Usernames : NameTaken(n)}

SubscriptionsOf(n) ==
  IF n \notin Online THEN {}
  ELSE Range(activeUsers[EntryOf(n)].subscriptions) \ {EmptyStr}

(* The tweets that wait in an entry, without one that a previous user left *)
(* in the last cell.                                                       *)
OwnLength(u, since) ==
  IF /\ QueueLength(u) = MAX_TWEET_QUEUE
     /\ u.pendingTweets[MAX_TWEET_QUEUE - 1].text <= since
    THEN MAX_TWEET_QUEUE - 1
    ELSE QueueLength(u)

OwnTweets(u, since) == SubSeq(StoredTweets(u), 1, OwnLength(u, since))

InboxOf(n) ==
  IF n \notin Online THEN <<>>
  ELSE OwnTweets(activeUsers[EntryOf(n)], joinedAt[EntryOf(n)])

Service ==
  INSTANCE TweetService WITH
    online <- Online,
    subscriptions <- [n \in Usernames |-> SubscriptionsOf(n)],
    inbox <- [n \in Usernames |-> InboxOf(n)],
    lastTweet <- tweetID

(* Every step of the server is a step of the service or changes nothing    *)
(* its users can see: names, subscriptions and inboxes never mix.          *)
ImplementsService == Service!Spec

-----------------------------------------------------------------------------
(* What the documentation says and the code does not do                    *)

(* ttweetsrv.c:39: "timeline" outputs "all tweets that have been sent to   *)
(* it".  Nothing in the queue of a user arrived before it registered.      *)
NoForeignTweet ==
  \A i \in UserIdx : \A j \in PendingTweetIdx :
    LET item == activeUsers[i].pendingTweets[j]
    IN  activeUsers[i].isOccupied /\ item # EmptyStr => item.text > joinedAt[i]

(* ttweetsrv.h:99: reject_ttweet_client "sends a rejection message to the  *)
(* client and closes the connection".  No client it closes is told that    *)
(* its username is valid.                                                  *)
RejectedIsRefused ==
  \A c \in Clients : child[c] \in {"zombie", "reaped"} => client[c] # "ready"
==============================================================================

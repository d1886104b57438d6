------------------------------ MODULE ChildSteps -----------------------------
(***************************************************************************)
(* The children of ttweetsrv as processes that interleave.  activeUsers    *)
(* and latestTweet are memory shared by all of them without a lock, so     *)
(* another child may run between any two accesses of a handler.            *)
(*                                                                         *)
(* A step reads or writes one shared string or number; one strcpy or one   *)
(* strcmp is one step.  (The bytes of one string are not interleaved.)  A  *)
(* child reads and fills its own subscription list in one step, because no *)
(* other child writes there.  tweetID, which no handler reads, is left to  *)
(* TweetServer, and so are connections that break.                         *)
(*                                                                         *)
(* What is true depends on the requests that clients happen to send while  *)
(* another is being handled: MayOverlap lists the pairs of kinds that do.  *)
(* It is an assumption about the environment; the code prevents nothing.   *)
(***************************************************************************)
EXTENDS UserTable, SequencesExt

CONSTANTS
  Clients,          \* connections that are being served, one child each
  NameOf,           \* for each client, its username
  Kinds,            \* for each client, the kinds of requests it sends
  MayOverlap,       \* pairs of kinds of requests that may overlap
  TagLists,         \* the hashtag lists a tweet may carry
  MAX_HASHTAG_CNT,  \* cells of latestTweet->hashtags
  MaxTweets,        \* bound: number of tweets
  UsersAtStart,     \* a table that TweetServer reaches, without tweets
  IndexAtStart      \* for each client, the index of its entry there, or none

RequestKinds == {"validate", "tweet", "subscribe", "unsubscribe", "timeline", "exit"}

HashtagIdx == 0 .. MAX_HASHTAG_CNT - 1

ASSUME ChildStepsAssumption ==
  /\ NameOf \in [Clients -> Usernames]
  /\ Kinds \in [Clients -> SUBSET RequestKinds]
  /\ MayOverlap \subseteq RequestKinds \X RequestKinds
  /\ MAX_HASHTAG_CNT \in Nat \ {0}
  /\ \A tags \in TagLists : tags \in Seq(Hashtags) /\ Len(tags) <= MAX_HASHTAG_CNT
  /\ UsersAtStart \in [UserIdx -> User]
  /\ IndexAtStart \in [Clients -> UserIdx \cup {INVALID_USER_INDEX}]

(* What TweetServer's SessionOwnsEntry, UniqueUsernames and EntriesSound   *)
(* say of such a table: a client in session has an entry and a name of its *)
(* own, an entry that is taken has a name and one that is free is clean.   *)
ASSUME StartAssumption ==
  /\ \A i \in UserIdx :
       /\ UsersAtStart[i].isOccupied => UsersAtStart[i].username # EmptyStr
       /\ FreeIsClean(UsersAtStart[i])
       /\ \A j \in PendingTweetIdx : UsersAtStart[i].pendingTweets[j] = EmptyStr
  /\ \A c \in Clients : IndexAtStart[c] # INVALID_USER_INDEX =>
       /\ UsersAtStart[IndexAtStart[c]].isOccupied
       /\ UsersAtStart[IndexAtStart[c]].username = NameOf[c]
       /\ \A d \in Clients \ {c} :
            IndexAtStart[d] # IndexAtStart[c]
              /\ (IndexAtStart[d] # INVALID_USER_INDEX => NameOf[d] # NameOf[c])

VARIABLES
  activeUsers,    \* shared memory
  latestTweet,    \* shared memory
  pc,             \* next access of the child, or the state of its session
  request,        \* the request it handles
  clientUserIdx,  \* variable of handle_ttweet_client
  local,          \* variables of the handlers
  storedTweets,   \* the tweets sent in the child's "timeline" replies
  sent,           \* history: the tweets, by their text
  due,            \* history: <<text, index>> for tweets that must be shown
  before          \* history: the table when a request came that none overlaps

shared == <<activeUsers, latestTweet>>
history == <<sent, due>>
vars == <<shared, pc, request, clientUserIdx, local, storedTweets, history, before>>

(* A child that waits for a request, or does so no more: its client was    *)
(* refused, or got a reply without responseCode and died; the child died   *)
(* of a null pointer; the client left.                                     *)
Waiting == {"connected", "ready", "refused", "unanswered", "crashed", "left"}

Busy(c) == pc[c] \notin Waiting

NoRequest == [kind |-> "none"]

NoLocals ==
  [userIdx |-> 0, cell |-> 0, hashtagIdx |-> 0, isSpaceAvailable |-> FALSE,
   item |-> [to |-> EmptyStr, from |-> EmptyStr, text |-> 0, tag |-> EmptyStr]]

Init ==
  /\ activeUsers = UsersAtStart
  /\ latestTweet = [username |-> EmptyStr, ttweetString |-> 0,
                    hashtags |-> [k \in HashtagIdx |-> EmptyStr],
                    numValidHashtags |-> 0]
  /\ clientUserIdx = IndexAtStart
  /\ pc = [c \in Clients |->
             IF IndexAtStart[c] = INVALID_USER_INDEX THEN "connected" ELSE "ready"]
  /\ request = [c \in Clients |-> NoRequest]
  /\ local = [c \in Clients |-> NoLocals]
  /\ storedTweets = [c \in Clients |-> <<>>]
  /\ sent = <<>>
  /\ due = {}
  /\ before = <<>>

-----------------------------------------------------------------------------
(* Helpers                                                                 *)

(* The child goes on with these variables, or replies and drops them.      *)
Goto(c, there, l) ==
  /\ pc' = [pc EXCEPT ![c] = there]
  /\ local' = [local EXCEPT ![c] = l]
  /\ UNCHANGED <<request, before>>

Reply(c, state) ==
  /\ pc' = [pc EXCEPT ![c] = state]
  /\ local' = [local EXCEPT ![c] = NoLocals]
  /\ request' = [request EXCEPT ![c] = NoRequest]
  /\ before' = <<>>

(* What a step that writes nothing shared leaves alone.                    *)
OnlyReads == UNCHANGED <<shared, clientUserIdx, storedTweets, history>>

WriteUser(i, u) == activeUsers' = [activeUsers EXCEPT ![i] = u]

WriteTweetCell(i, j, val) ==
  WriteUser(i, [activeUsers[i] EXCEPT !.pendingTweets = [@ EXCEPT ![j] = val]])

Entry(c) == activeUsers[clientUserIdx[c]]

(* The tweets whose handler runs.                                          *)
InHand == {request[d].text : d \in {e \in Clients : request[e].kind = "tweet"}}

(* A request arrives.                                                      *)
Begin(c, r, first) ==
  /\ r.kind \in Kinds[c]
  /\ \A d \in Clients : Busy(d) => <<r.kind, request[d].kind>> \in MayOverlap
  /\ request' = [request EXCEPT ![c] = r]
  /\ pc' = [pc EXCEPT ![c] = first]
  /\ before' = IF \E d \in Clients : Busy(d) THEN <<>> ELSE <<activeUsers>>
  /\ UNCHANGED <<shared, clientUserIdx, local, storedTweets>>

-----------------------------------------------------------------------------
(* handle_validate_user_request                                            *)

BeginValidate(c) ==
  /\ pc[c] = "connected"
  /\ Begin(c, [kind |-> "validate"], "v_occupied")
  /\ UNCHANGED history

(* The first loop is done with entry userIdx.                              *)
NextName(c, l) ==
  CASE l.userIdx + 1 < MAX_CONC_CONN ->
         Goto(c, "v_occupied", [l EXCEPT !.userIdx = @ + 1])
    [] l.userIdx + 1 = MAX_CONC_CONN /\ l.isSpaceAvailable ->
         Goto(c, "v_take", NoLocals)
    [] OTHER -> Reply(c, "refused")

CheckOccupied(c) ==
  /\ pc[c] = "v_occupied"
  /\ IF activeUsers[local[c].userIdx].isOccupied
       THEN Goto(c, "v_username", local[c])
       ELSE NextName(c, [local[c] EXCEPT !.isSpaceAvailable = TRUE])
  /\ OnlyReads

(* Mutant of CheckUsername: a name that is taken does not end the loop.    *)
NameNotRefused(c) ==
  /\ pc[c] = "v_username"
  /\ NextName(c, local[c])
  /\ OnlyReads

CheckUsername(c) ==
  /\ pc[c] = "v_username"
  /\ IF activeUsers[local[c].userIdx].username = NameOf[c]
       THEN Reply(c, "refused")
       ELSE NextName(c, local[c])
  /\ OnlyReads

(* The second loop.  When it finds no entry free any more, the reply is    *)
(* sent with nothing in it.                                                *)
TakeEntry(c) ==
  /\ pc[c] = "v_take"
  /\ LET l == local[c]
     IN  CASE ~ activeUsers[l.userIdx].isOccupied -> Goto(c, "v_occupy", l)
           [] activeUsers[l.userIdx].isOccupied /\ l.userIdx + 1 < MAX_CONC_CONN ->
                Goto(c, "v_take", [l EXCEPT !.userIdx = @ + 1])
           [] OTHER -> Reply(c, "unanswered")
  /\ OnlyReads

Occupy(c) ==
  /\ pc[c] = "v_occupy"
  /\ WriteUser(local[c].userIdx, [activeUsers[local[c].userIdx] EXCEPT !.isOccupied = TRUE])
  /\ Goto(c, "v_write_username", local[c])
  /\ UNCHANGED <<latestTweet, clientUserIdx, storedTweets, history>>

WriteUsername(c) ==
  /\ pc[c] = "v_write_username"
  /\ WriteUser(local[c].userIdx, [activeUsers[local[c].userIdx] EXCEPT !.username = NameOf[c]])
  /\ clientUserIdx' = [clientUserIdx EXCEPT ![c] = local[c].userIdx]
  /\ Reply(c, "ready")
  /\ UNCHANGED <<latestTweet, storedTweets, history>>

-----------------------------------------------------------------------------
(* handle_tweet_request: store_latest_tweet                                *)

(* The tweet is due to every user that wants it when the request comes,    *)
(* unless the user's child is just emptying its list.                      *)
Unsubscribing(i) ==
  \E d \in Clients : clientUserIdx[d] = i /\ request[d].kind = "unsubscribe"

BeginTweet(c, tags) ==
  LET text == Len(sent) + 1
  IN  /\ pc[c] = "ready"
      /\ Len(sent) < MaxTweets
      /\ Begin(c, [kind |-> "tweet", tags |-> tags, text |-> text], "t_username")
      /\ sent' = Append(sent, [from |-> NameOf[c], tags |-> tags])
      /\ due' = due \cup
           {<<text, i>> : i \in {j \in UserIdx : /\ Wants(activeUsers[j], tags)
                                                /\ ~ Unsubscribing(j)}}

(* A step that writes latestTweet and nothing else shared.                 *)
WriteLatest(t) ==
  /\ latestTweet' = t
  /\ UNCHANGED <<activeUsers, clientUserIdx, storedTweets, history>>

(* Mutant of StoreUsername: the tweet before lends its username.           *)
UsernameNotStored(c) ==
  /\ pc[c] = "t_username"
  /\ WriteLatest(latestTweet)
  /\ Goto(c, "t_text", local[c])

StoreUsername(c) ==
  /\ pc[c] = "t_username"
  /\ WriteLatest([latestTweet EXCEPT !.username = NameOf[c]])
  /\ Goto(c, "t_text", local[c])

StoreText(c) ==
  /\ pc[c] = "t_text"
  /\ WriteLatest([latestTweet EXCEPT !.ttweetString = request[c].text])
  /\ Goto(c, "t_count", local[c])

StoreCount(c) ==
  /\ pc[c] = "t_count"
  /\ WriteLatest([latestTweet EXCEPT !.numValidHashtags = Len(request[c].tags)])
  /\ Goto(c, "t_clear", local[c])

WriteHashtag(k, h) ==
  WriteLatest([latestTweet EXCEPT !.hashtags = [@ EXCEPT ![k] = h]])

ClearHashtag(c) ==
  /\ pc[c] = "t_clear"
  /\ WriteHashtag(local[c].hashtagIdx, EmptyStr)
  /\ IF local[c].hashtagIdx + 1 < MAX_HASHTAG_CNT
       THEN Goto(c, "t_clear", [local[c] EXCEPT !.hashtagIdx = @ + 1])
       ELSE Goto(c, "t_more", NoLocals)

(* The loop's condition reads the count in shared memory again.            *)
MoreHashtags(c) ==
  /\ pc[c] = "t_more"
  /\ IF local[c].hashtagIdx < latestTweet.numValidHashtags
       THEN Goto(c, "t_hashtag", local[c])
       ELSE Goto(c, "u_occupied", NoLocals)
  /\ OnlyReads

(* cJSON_GetArrayItem returns NULL beyond the request's own hashtags.      *)
StoreHashtag(c) ==
  /\ pc[c] = "t_hashtag"
  /\ LET k == local[c].hashtagIdx
         tags == request[c].tags
     IN  IF k < Len(tags)
           THEN /\ WriteHashtag(k, tags[k + 1])
                /\ Goto(c, "t_more", [local[c] EXCEPT !.hashtagIdx = k + 1])
           ELSE Reply(c, "crashed") /\ OnlyReads

-----------------------------------------------------------------------------
(* handle_tweet_request: handle_tweet_updates                              *)

NextUser(c) ==
  IF local[c].userIdx + 1 < MAX_CONC_CONN
    THEN Goto(c, "u_occupied", [NoLocals EXCEPT !.userIdx = local[c].userIdx + 1])
    ELSE Reply(c, "ready")

UpdateOccupied(c) ==
  /\ pc[c] = "u_occupied"
  /\ IF activeUsers[local[c].userIdx].isOccupied
       THEN Goto(c, "u_all", local[c])
       ELSE NextUser(c)
  /\ OnlyReads

UpdateSubscribedAll(c) ==
  /\ pc[c] = "u_all"
  /\ IF activeUsers[local[c].userIdx].isSubscribedAll
       THEN Goto(c, "a_to", local[c])
       ELSE Goto(c, "u_more", local[c])
  /\ OnlyReads

(* Mutant of MoreToMatch: the inner loop compares with <=.                 *)
OneMoreToMatch(c) ==
  /\ pc[c] = "u_more"
  /\ LET l == local[c]
     IN  CASE l.hashtagIdx <= latestTweet.numValidHashtags -> Goto(c, "u_match", l)
           [] l.hashtagIdx > latestTweet.numValidHashtags /\ l.cell + 1 < MAX_SUBSCRIPTIONS ->
                Goto(c, "u_more", [l EXCEPT !.cell = @ + 1, !.hashtagIdx = 0])
           [] OTHER -> NextUser(c)
  /\ OnlyReads

(* The condition of the inner loop, and at its end that of the outer one.  *)
MoreToMatch(c) ==
  /\ pc[c] = "u_more"
  /\ LET l == local[c]
     IN  CASE l.hashtagIdx < latestTweet.numValidHashtags -> Goto(c, "u_match", l)
           [] l.hashtagIdx >= latestTweet.numValidHashtags /\ l.cell + 1 < MAX_SUBSCRIPTIONS ->
                Goto(c, "u_more", [l EXCEPT !.cell = @ + 1, !.hashtagIdx = 0])
           [] OTHER -> NextUser(c)
  /\ OnlyReads

(* Mutant of Match: the first hashtag that differs ends both loops.        *)
MatchFirstOnly(c) ==
  /\ pc[c] = "u_match"
  /\ LET l == local[c]
     IN  IF activeUsers[l.userIdx].subscriptions[l.cell] = latestTweet.hashtags[l.hashtagIdx]
           THEN Goto(c, "a_to", l)
           ELSE NextUser(c)
  /\ OnlyReads

Match(c) ==
  /\ pc[c] = "u_match"
  /\ LET l == local[c]
     IN  IF activeUsers[l.userIdx].subscriptions[l.cell] = latestTweet.hashtags[l.hashtagIdx]
           THEN Goto(c, "a_to", l)
           ELSE Goto(c, "u_more", [l EXCEPT !.hashtagIdx = @ + 1])
  /\ OnlyReads

-----------------------------------------------------------------------------
(* handle_tweet_request: add_tweet_to_user                                 *)

FormatTo(c) ==
  /\ pc[c] = "a_to"
  /\ Goto(c, "a_from", [local[c] EXCEPT !.item.to = activeUsers[local[c].userIdx].username])
  /\ OnlyReads

FormatFrom(c) ==
  /\ pc[c] = "a_from"
  /\ Goto(c, "a_text", [local[c] EXCEPT !.item.from = latestTweet.username])
  /\ OnlyReads

FormatText(c) ==
  /\ pc[c] = "a_text"
  /\ Goto(c, "a_tag", [local[c] EXCEPT !.item.text = latestTweet.ttweetString])
  /\ OnlyReads

FormatTag(c) ==
  /\ pc[c] = "a_tag"
  /\ Goto(c, "a_scan", [local[c] EXCEPT !.item.tag = latestTweet.hashtags[local[c].hashtagIdx],
                                        !.cell = 0])
  /\ OnlyReads

(* A queue without an empty cell loses the tweet.                          *)
FindTweetCell(c) ==
  /\ pc[c] = "a_scan"
  /\ LET l == local[c]
         found == activeUsers[l.userIdx].pendingTweets[l.cell] = EmptyStr
         full == ~ found /\ l.cell + 1 = MAX_TWEET_QUEUE
     IN  /\ CASE found -> Goto(c, "a_put", l)
              [] full  -> NextUser(c)
              [] OTHER -> Goto(c, "a_scan", [l EXCEPT !.cell = @ + 1])
         /\ due' = IF full THEN due \ {<<l.item.text, l.userIdx>>} ELSE due
  /\ UNCHANGED <<shared, clientUserIdx, storedTweets, sent>>

PutTweet(c) ==
  /\ pc[c] = "a_put"
  /\ WriteTweetCell(local[c].userIdx, local[c].cell, local[c].item)
  /\ NextUser(c)
  /\ UNCHANGED <<latestTweet, clientUserIdx, storedTweets, history>>

-----------------------------------------------------------------------------
(* handle_subscribe_request, handle_unsubscribe_request                    *)

BeginSubscription(c, kind, h) ==
  /\ pc[c] = "ready"
  /\ Begin(c, [kind |-> kind, hashtag |-> h], "s_list")
  /\ UNCHANGED history

After(c) ==
  IF request[c].kind = "subscribe" THEN Subscribed(Entry(c), request[c].hashtag)
                                   ELSE Unsubscribed(Entry(c), request[c].hashtag)

(* The list.  A user that drops a hashtag may miss a tweet in hand.        *)
WriteList(c) ==
  /\ pc[c] = "s_list"
  /\ WriteUser(clientUserIdx[c], [Entry(c) EXCEPT !.subscriptions = After(c).subscriptions])
  /\ IF After(c).isSubscribedAll # Entry(c).isSubscribedAll
       THEN Goto(c, "s_all", local[c])
       ELSE Reply(c, "ready")
  /\ due' = IF request[c].kind = "subscribe" THEN due
            ELSE {d \in due : d[1] \notin InHand \/ d[2] # clientUserIdx[c]}
  /\ UNCHANGED <<latestTweet, clientUserIdx, storedTweets, sent>>

(* And then the flag, when the hashtag is ALL.                             *)
WriteSubscribedAll(c) ==
  /\ pc[c] = "s_all"
  /\ WriteUser(clientUserIdx[c],
               [Entry(c) EXCEPT !.isSubscribedAll = (request[c].kind = "subscribe")])
  /\ Reply(c, "ready")
  /\ UNCHANGED <<latestTweet, clientUserIdx, storedTweets, history>>

-----------------------------------------------------------------------------
(* handle_timeline_request                                                 *)

BeginTimeline(c) ==
  /\ pc[c] = "ready"
  /\ Begin(c, [kind |-> "timeline"], "l_first")
  /\ UNCHANGED history

(* Whether there is a tweet at all is asked of the first cell.             *)
FirstTweet(c) ==
  /\ pc[c] = "l_first"
  /\ IF Entry(c).pendingTweets[0] = EmptyStr THEN Reply(c, "ready")
                                             ELSE Goto(c, "l_scan", local[c])
  /\ OnlyReads

ScanTweet(c) ==
  /\ pc[c] = "l_scan"
  /\ IF Entry(c).pendingTweets[local[c].cell] = EmptyStr THEN Reply(c, "ready")
                                                         ELSE Goto(c, "l_copy", local[c])
  /\ OnlyReads

CopyTweet(c) ==
  /\ pc[c] = "l_copy"
  /\ LET item == Entry(c).pendingTweets[local[c].cell]
     IN  /\ storedTweets' = [storedTweets EXCEPT ![c] = Append(@, item)]
         /\ due' = due \ {<<item.text, clientUserIdx[c]>>}
  /\ Goto(c, "l_clear", local[c])
  /\ UNCHANGED <<shared, clientUserIdx, sent>>

(* Mutant of ClearTweet: the tweet that was sent stays in its cell.        *)
ClearNothing(c) ==
  /\ pc[c] = "l_clear"
  /\ UNCHANGED activeUsers
  /\ IF local[c].cell + 1 < MAX_TWEET_QUEUE
       THEN Goto(c, "l_scan", [local[c] EXCEPT !.cell = @ + 1])
       ELSE Reply(c, "ready")
  /\ UNCHANGED <<latestTweet, clientUserIdx, storedTweets, history>>

ClearTweet(c) ==
  /\ pc[c] = "l_clear"
  /\ WriteTweetCell(clientUserIdx[c], local[c].cell, EmptyStr)
  /\ IF local[c].cell + 1 < MAX_TWEET_QUEUE
       THEN Goto(c, "l_scan", [local[c] EXCEPT !.cell = @ + 1])
       ELSE Reply(c, "ready")
  /\ UNCHANGED <<latestTweet, clientUserIdx, storedTweets, history>>

-----------------------------------------------------------------------------
(* handle_exit_request                                                     *)

BeginExit(c) ==
  /\ pc[c] = "ready"
  /\ Begin(c, [kind |-> "exit"], "e_occupied")
  /\ UNCHANGED history

ClearOccupied(c) ==
  /\ pc[c] = "e_occupied"
  /\ WriteUser(clientUserIdx[c], [Entry(c) EXCEPT !.isOccupied = FALSE])
  /\ Goto(c, "e_all", local[c])
  /\ due' = {d \in due : d[2] # clientUserIdx[c]}
  /\ UNCHANGED <<latestTweet, clientUserIdx, storedTweets, sent>>

(* A step of clear_user_at_index after the first.                          *)
ClearField(c, u) ==
  /\ WriteUser(clientUserIdx[c], u)
  /\ UNCHANGED <<latestTweet, storedTweets, history>>

ClearSubscribedAll(c) ==
  /\ pc[c] = "e_all"
  /\ ClearField(c, [Entry(c) EXCEPT !.isSubscribedAll = FALSE])
  /\ Goto(c, "e_username", local[c])
  /\ UNCHANGED clientUserIdx

(* Mutant of ClearUsername: the name stays in the free entry.              *)
KeepUsername(c) ==
  /\ pc[c] = "e_username"
  /\ ClearField(c, Entry(c))
  /\ Goto(c, "e_subscriptions", local[c])
  /\ UNCHANGED clientUserIdx

ClearUsername(c) ==
  /\ pc[c] = "e_username"
  /\ ClearField(c, [Entry(c) EXCEPT !.username = EmptyStr])
  /\ Goto(c, "e_subscriptions", local[c])
  /\ UNCHANGED clientUserIdx

ClearSubscription(c) ==
  /\ pc[c] = "e_subscriptions"
  /\ ClearField(c, [Entry(c) EXCEPT !.subscriptions = [@ EXCEPT ![local[c].cell] = EmptyStr]])
  /\ IF local[c].cell + 1 < MAX_SUBSCRIPTIONS
       THEN Goto(c, "e_subscriptions", [local[c] EXCEPT !.cell = @ + 1])
       ELSE Goto(c, "e_pending", NoLocals)
  /\ UNCHANGED clientUserIdx

(* The loop leaves the last cell of pendingTweets alone.                   *)
ClearPendingTweet(c) ==
  /\ pc[c] = "e_pending"
  /\ IF local[c].cell < MAX_TWEET_QUEUE - 1
       THEN /\ ClearField(c, [Entry(c) EXCEPT
                                !.pendingTweets = [@ EXCEPT ![local[c].cell] = EmptyStr]])
            /\ Goto(c, "e_pending", [local[c] EXCEPT !.cell = @ + 1])
            /\ UNCHANGED clientUserIdx
       ELSE /\ Reply(c, "left")
            /\ clientUserIdx' = [clientUserIdx EXCEPT ![c] = INVALID_USER_INDEX]
            /\ UNCHANGED <<shared, storedTweets, history>>

-----------------------------------------------------------------------------
Validate(c) ==
  \/ BeginValidate(c) \/ CheckOccupied(c) \/ CheckUsername(c)
  \/ TakeEntry(c) \/ Occupy(c) \/ WriteUsername(c)

Tweet(c) ==
  \/ \E tags \in TagLists : BeginTweet(c, tags)
  \/ StoreUsername(c) \/ StoreText(c) \/ StoreCount(c)
  \/ ClearHashtag(c) \/ MoreHashtags(c) \/ StoreHashtag(c)
  \/ UpdateOccupied(c) \/ UpdateSubscribedAll(c) \/ MoreToMatch(c) \/ Match(c)
  \/ FormatTo(c) \/ FormatFrom(c) \/ FormatText(c) \/ FormatTag(c)
  \/ FindTweetCell(c) \/ PutTweet(c)

Subscription(c) ==
  \/ \E h \in Subscribable :
       BeginSubscription(c, "subscribe", h) \/ BeginSubscription(c, "unsubscribe", h)
  \/ WriteList(c) \/ WriteSubscribedAll(c)

Timeline(c) ==
  \/ BeginTimeline(c) \/ FirstTweet(c) \/ ScanTweet(c) \/ CopyTweet(c) \/ ClearTweet(c)

Exit(c) ==
  \/ BeginExit(c) \/ ClearOccupied(c) \/ ClearSubscribedAll(c) \/ ClearUsername(c)
  \/ ClearSubscription(c) \/ ClearPendingTweet(c)

Next ==
  \E c \in Clients : Validate(c) \/ Tweet(c) \/ Subscription(c) \/ Timeline(c) \/ Exit(c)

Spec == Init /\ [][Next]_vars

-----------------------------------------------------------------------------
(* Correctness                                                             *)

(* A queued tweet as children that interleave may format it: in TweetItem  *)
(* it has the names of two users, but a name may be cleared before it is   *)
(* read.                                                                   *)
Formatted ==
  [to: Usernames \cup {EmptyStr}, from: Usernames \cup {EmptyStr}, text: Nat,
   tag: Hashtags \cup {EmptyStr}]

Locals ==
  [userIdx: UserIdx,
   cell: SubscriptionIdx \cup PendingTweetIdx,
   hashtagIdx: 0 .. MAX_HASHTAG_CNT,
   isSpaceAvailable: BOOLEAN,
   item: Formatted]

SharedUser ==
  [isOccupied: BOOLEAN,
   username: Usernames \cup {EmptyStr},
   pendingTweets: [PendingTweetIdx -> Formatted \cup {EmptyStr}],
   subscriptions: [SubscriptionIdx -> Subscribable \cup {EmptyStr}],
   isSubscribedAll: BOOLEAN]

(* Every index that a handler uses lies in its array, whatever overlaps.   *)
TypeOK ==
  /\ activeUsers \in [UserIdx -> SharedUser]
  /\ latestTweet \in [username: Usernames \cup {EmptyStr}, ttweetString: Nat,
                      hashtags: [HashtagIdx -> Hashtags \cup {EmptyStr}],
                      numValidHashtags: 0 .. MAX_HASHTAG_CNT]
  /\ clientUserIdx \in [Clients -> UserIdx \cup {INVALID_USER_INDEX}]
  /\ local \in [Clients -> Locals]
  /\ \A c \in Clients : pc[c] \in {"u_match", "a_tag", "t_hashtag", "t_clear"} =>
       local[c].hashtagIdx < MAX_HASHTAG_CNT
  /\ \A c \in Clients : pc[c] \in {"u_more", "u_match", "e_subscriptions"} =>
       local[c].cell \in SubscriptionIdx
  /\ \A c \in Clients : pc[c] \in {"a_scan", "a_put", "l_scan", "l_copy", "l_clear"} =>
       local[c].cell \in PendingTweetIdx

HasEntry(c) == clientUserIdx[c] # INVALID_USER_INDEX

Items(i) == {activeUsers[i].pendingTweets[j] : j \in PendingTweetIdx} \ {EmptyStr}

(* No two clients hold a session under one name (README.md:51).            *)
UniqueUsernames ==
  \A c, d \in Clients :
    pc[c] = "ready" /\ pc[d] = "ready" /\ NameOf[c] = NameOf[d] => c = d

(* What the server shows or keeps is a tweet that was sent: its parts come *)
(* from one request.                                                       *)
Genuine(item) ==
  /\ item.text \in DOMAIN sent
  /\ item.from = sent[item.text].from
  /\ LET tags == sent[item.text].tags
     IN  IF tags = <<>> THEN item.tag = EmptyStr ELSE item.tag \in Range(tags)

(* No tweet is shown twice or waits twice, nor is shown while it waits     *)
(* unless the step that empties its cell comes next.                       *)
DeliveredOnce ==
  \A c \in Clients :
    /\ IsInjective(storedTweets[c])
    /\ HasEntry(c) =>
         LET queue == Entry(c).pendingTweets
             Reading(j) == pc[c] = "l_clear" /\ j = local[c].cell
         IN  \A j \in PendingTweetIdx : queue[j] # EmptyStr =>
               /\ \A k \in PendingTweetIdx \ {j} : queue[k] # queue[j]
               /\ queue[j] \in Range(storedTweets[c]) => Reading(j)

(* A tweet that a user wanted all the while it was handled waits for the   *)
(* user when the handler is done, until it is shown or the user leaves,    *)
(* unless the queue was full.                                              *)
NothingLost ==
  \A d \in due :
    d[1] \notin InHand => \E item \in Items(d[2]) : item.text = d[1]

(* A child that no other overlapped has done to the table what the         *)
(* operators of UserTable, from which TweetServer is made, say.            *)
Handled(c, users) ==
  LET r == request[c]
      own == clientUserIdx[c]
      free == {i \in UserIdx : ~ users[i].isOccupied}
      taken == \E i \in UserIdx : users[i].isOccupied /\ users[i].username = NameOf[c]
  IN  CASE r.kind = "validate" ->
             IF taken \/ free = {} THEN users
             ELSE [users EXCEPT ![FirstFreeUser(users)] = Registered(@, NameOf[c])]
        [] r.kind = "tweet" ->
             [i \in UserIdx |-> Updated(users[i], NameOf[c], r.text, r.tags)]
        [] r.kind = "subscribe" -> [users EXCEPT ![own] = Subscribed(@, r.hashtag)]
        [] r.kind = "unsubscribe" -> [users EXCEPT ![own] = Unsubscribed(@, r.hashtag)]
        [] r.kind = "timeline" -> [users EXCEPT ![own] = TimelineRead(@)]
        [] r.kind = "exit" -> [users EXCEPT ![own] = Cleared(@)]

AloneIsAtomic ==
  [][\A c \in Clients :
       Busy(c) /\ ~ Busy(c)' /\ before # <<>> => activeUsers' = Handled(c, before[1])]_vars
==============================================================================

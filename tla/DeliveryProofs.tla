------------------------------ MODULE DeliveryProofs ------------------------------
(***************************************************************************)
(* What becomes of a tweet while children interleave: when a tweet         *)
(* overlaps no other tweet and no exit, and a registration no other        *)
(* registration and no exit, then no tweet is shown twice or lost,         *)
(* whatever registrations, subscriptions and timelines it overlaps.        *)
(***************************************************************************)
EXTENDS ChildStepsProofs

TweetsAlone ==
  MayOverlap \cap {<<"tweet", "tweet">>, <<"tweet", "exit">>, <<"exit", "tweet">>} = {}

(* What these assumptions on the environment say of the children.          *)
Alone ==
  /\ \A c, d \in Clients :
       pc[c] \in TweetSteps /\ pc[d] \in TweetSteps \cup ExitSteps => c = d
  /\ \A c, d \in Clients :
       pc[c] \in ValidateSteps /\ pc[d] \in ValidateSteps \cup ExitSteps => c = d

LEMMA AreAlone ==
  TypeInv /\ Overlapping /\ RegistersAlone /\ TweetsAlone => Alone
<1> SUFFICES ASSUME TypeInv, Overlapping, RegistersAlone, TweetsAlone
             PROVE  Alone
  OBVIOUS
<1>1. ASSUME NEW c \in Clients, NEW d \in Clients,
             pc[c] \in TweetSteps, pc[d] \in TweetSteps \cup ExitSteps
      PROVE  c = d
  <2>1. Busy(c) /\ Busy(d)
    BY <1>1, Regions DEF Busy
  <2>2. request[c].kind = "tweet" /\ request[d].kind \in {"tweet", "exit"}
    BY <1>1 DEF TypeInv, Control, RequestAt
  <2> QED BY <2>1, <2>2 DEF Overlapping, TweetsAlone
<1>2. \A c, d \in Clients :
        pc[c] \in ValidateSteps /\ pc[d] \in ValidateSteps \cup ExitSteps => c = d
  BY ValidatesAlone
<1> QED BY <1>1, <1>2 DEF Alone

LEMMA StayAlone ==
  TypeInv' /\ Overlapping' /\ RegistersAlone /\ TweetsAlone => Alone'
<1>1. (TypeInv /\ Overlapping /\ RegistersAlone /\ TweetsAlone => Alone)'
  BY AreAlone, PTL
<1>2. RegistersAlone <=> RegistersAlone'
  BY DEF RegistersAlone
<1>3. TweetsAlone <=> TweetsAlone'
  BY DEF TweetsAlone
<1> QED BY <1>1, <1>2, <1>3

(* What the others may do while a child tweets, validates or exits.        *)
LEMMA OneAtATime ==
  ASSUME Control, Alone, Alone', NEW c \in Clients, NEW t \in Clients \ {c},
         Validate(c) \/ Tweet(c) \/ Subscription(c) \/ Timeline(c) \/ Exit(c)
  PROVE  /\ pc'[t] = pc[t] /\ local'[t] = local[t] /\ request'[t] = request[t]
         /\ Validate(c) => pc[t] \notin ValidateSteps \cup ExitSteps
         /\ Tweet(c) => pc[t] \notin TweetSteps \cup ExitSteps
         /\ Exit(c) => pc[t] \notin ValidateSteps \cup TweetSteps
<1>1. pc'[t] = pc[t] /\ local'[t] = local[t] /\ request'[t] = request[t]
  BY ValidateMoves, TweetMoves, SubscriptionMoves, TimelineMoves, ExitMoves, OthersStay
<1>2. ASSUME NEW S, NEW done, Moves(c, S, done)
      PROVE  pc[c] \in S \/ pc'[c] \in S
  BY <1>2 DEF Moves, Begin, Control
<1>3. /\ Tweet(c) => pc[c] \in TweetSteps \/ pc'[c] \in TweetSteps
      /\ Validate(c) => pc[c] \in ValidateSteps \/ pc'[c] \in ValidateSteps
      /\ Exit(c) => pc[c] \in ExitSteps \/ pc'[c] \in ExitSteps
  BY <1>2, TweetMoves, ValidateMoves, ExitMoves
<1> QED BY <1>1, <1>3 DEF Alone

-----------------------------------------------------------------------------
(* What each handler leaves alone                                          *)

Cell(i, j) == activeUsers[i].pendingTweets[j]

SameQueues ==
  /\ storedTweets' = storedTweets
  /\ \A i \in UserIdx, j \in PendingTweetIdx : Cell(i, j)' = Cell(i, j)

SameLists ==
  \A i \in UserIdx : /\ activeUsers'[i].subscriptions = activeUsers[i].subscriptions
                     /\ activeUsers'[i].isSubscribedAll = activeUsers[i].isSubscribedAll

LEMMA UnchangedUsers == UNCHANGED activeUsers /\ UNCHANGED storedTweets => SameLists /\ SameQueues
BY DEF SameLists, SameQueues, Cell

LEMMA CellWritten ==
  ASSUME TypeInv, NEW i \in UserIdx, NEW j \in PendingTweetIdx, NEW val, WriteTweetCell(i, j, val)
  PROVE  /\ SameLists
         /\ Cell(i, j)' = val
         /\ \A k \in UserIdx, m \in PendingTweetIdx :
              k # i \/ m # j => Cell(k, m)' = Cell(k, m)
<1> DEFINE q == [activeUsers[i].pendingTweets EXCEPT ![j] = val]
<1>1. activeUsers' = [activeUsers EXCEPT ![i] = [activeUsers[i] EXCEPT !.pendingTweets = q]]
  BY DEF WriteTweetCell, WriteUser
<1>2. /\ activeUsers \in [UserIdx -> SharedUser]
      /\ activeUsers[i].pendingTweets \in [PendingTweetIdx -> Formatted \cup {EmptyStr}]
  BY DEF TypeInv, SharedUser
<1>3. q[j] = val /\ \A m \in PendingTweetIdx \ {j} : q[m] = Cell(i, m)
  BY <1>2 DEF Cell
<1> HIDE DEF q
<1>4. /\ activeUsers'[i].pendingTweets = q
      /\ \A k \in UserIdx \ {i} : activeUsers'[k] = activeUsers[k]
      /\ activeUsers'[i].subscriptions = activeUsers[i].subscriptions
      /\ activeUsers'[i].isSubscribedAll = activeUsers[i].isSubscribedAll
  BY <1>1, <1>2 DEF SharedUser
<1> QED BY <1>3, <1>4 DEF SameLists, Cell

LEMMA ValidateLeaves ==
  ASSUME TypeInv, NEW c \in Clients, Validate(c)
  PROVE  /\ SameQueues /\ SameLists /\ UNCHANGED <<latestTweet, history>>
         /\ Occupy(c) \/ WriteUsername(c) \/ UNCHANGED <<activeUsers, clientUserIdx>>
<1>1. activeUsers \in [UserIdx -> SharedUser] /\ local[c].userIdx \in UserIdx
  BY DEF TypeInv, Control, Locals
<1>2. CASE Occupy(c)
  <2>1. SameQueues /\ SameLists
    BY <1>1, <1>2 DEF Occupy, WriteUser, SameQueues, SameLists, SharedUser, Cell
  <2> QED BY <1>2, <2>1 DEF Occupy
<1>3. CASE WriteUsername(c)
  <2>1. SameQueues /\ SameLists
    BY <1>1, <1>3 DEF WriteUsername, WriteUser, SameQueues, SameLists, SharedUser, Cell
  <2> QED BY <1>3, <2>1 DEF WriteUsername
<1>4. CASE BeginValidate(c) \/ CheckOccupied(c) \/ CheckUsername(c) \/ TakeEntry(c)
  BY <1>4, UnchangedUsers
     DEF BeginValidate, Begin, CheckOccupied, CheckUsername, TakeEntry, OnlyReads, shared
<1> QED BY <1>2, <1>3, <1>4 DEF Validate

LEMMA SubscriptionLeaves ==
  ASSUME TypeInv, NEW c \in Clients, Subscription(c)
  PROVE  /\ SameQueues /\ UNCHANGED <<latestTweet, sent>>
         /\ \/ WriteList(c)
            \/ WriteSubscribedAll(c)
            \/ SameLists /\ UNCHANGED due
         /\ \A i \in UserIdx : i # clientUserIdx[c] => activeUsers'[i] = activeUsers[i]
<1>1. activeUsers \in [UserIdx -> SharedUser]
  BY DEF TypeInv
<1>2. CASE WriteList(c)
  <2> DEFINE list == After(c).subscriptions
  <2>1. /\ activeUsers' = [activeUsers EXCEPT ![clientUserIdx[c]] = [Entry(c) EXCEPT !.subscriptions = list]]
        /\ UNCHANGED <<latestTweet, storedTweets, sent>> /\ clientUserIdx[c] \in UserIdx
    BY <1>2, OwnEntry DEF WriteList, WriteUser, InSession, SubscriptionSteps
  <2> HIDE DEF list
  <2>2. SameQueues /\ \A i \in UserIdx : i # clientUserIdx[c] => activeUsers'[i] = activeUsers[i]
    BY <1>1, <2>1 DEF SameQueues, SharedUser, Cell, Entry
  <2> QED BY <1>2, <2>1, <2>2
<1>3. CASE WriteSubscribedAll(c)
  <2> DEFINE flag == request[c].kind = "subscribe"
  <2>1. /\ activeUsers' = [activeUsers EXCEPT ![clientUserIdx[c]] = [Entry(c) EXCEPT !.isSubscribedAll = flag]]
        /\ UNCHANGED <<latestTweet, storedTweets, sent>> /\ clientUserIdx[c] \in UserIdx
    BY <1>3, OwnEntry DEF WriteSubscribedAll, WriteUser, InSession, SubscriptionSteps, history
  <2> HIDE DEF flag
  <2>2. SameQueues /\ \A i \in UserIdx : i # clientUserIdx[c] => activeUsers'[i] = activeUsers[i]
    BY <1>1, <2>1 DEF SameQueues, SharedUser, Cell, Entry
  <2> QED BY <1>3, <2>1, <2>2
<1>4. CASE \E h \in Subscribable :
             BeginSubscription(c, "subscribe", h) \/ BeginSubscription(c, "unsubscribe", h)
  BY <1>4, UnchangedUsers DEF BeginSubscription, Begin, shared, history
<1> QED BY <1>2, <1>3, <1>4 DEF Subscription

LEMMA TimelineLeaves ==
  ASSUME TypeInv, NEW c \in Clients, Timeline(c)
  PROVE  /\ SameLists /\ UNCHANGED <<latestTweet, sent>>
         /\ \/ CopyTweet(c) /\ \A i \in UserIdx, j \in PendingTweetIdx : Cell(i, j)' = Cell(i, j)
            \/ ClearTweet(c) /\ UNCHANGED <<storedTweets, due>>
            \/ SameQueues /\ UNCHANGED due
<1>1. CASE CopyTweet(c)
  BY <1>1 DEF CopyTweet, shared, SameLists, Cell
<1>2. CASE ClearTweet(c)
  <2>1. pc[c] \in TimelineSteps /\ pc[c] \in QueueSteps
    BY <1>2 DEF ClearTweet, TimelineSteps, QueueSteps
  <2>2. clientUserIdx[c] \in UserIdx /\ local[c].cell \in PendingTweetIdx
    BY <2>1, OwnEntry DEF InSession, TypeInv, Control, LocalsAt
  <2>3. WriteTweetCell(clientUserIdx[c], local[c].cell, EmptyStr)
    BY <1>2 DEF ClearTweet
  <2>4. SameLists
    BY <2>2, <2>3, CellWritten
  <2> QED BY <1>2, <2>4 DEF ClearTweet, history
<1>3. CASE BeginTimeline(c) \/ FirstTweet(c) \/ ScanTweet(c)
  BY <1>3, UnchangedUsers DEF BeginTimeline, Begin, FirstTweet, ScanTweet, OnlyReads, shared, history
<1> QED BY <1>1, <1>2, <1>3 DEF Timeline

LEMMA TweetLeaves ==
  ASSUME TypeInv, NEW c \in Clients, Tweet(c)
  PROVE  /\ SameLists /\ UNCHANGED storedTweets
         /\ PutTweet(c) \/ SameQueues
         /\ (\E tags \in TagLists : BeginTweet(c, tags)) \/ FindTweetCell(c) \/ UNCHANGED due
         /\ (\E tags \in TagLists : BeginTweet(c, tags)) \/ UNCHANGED sent
<1>1. CASE PutTweet(c)
  <2>1. pc[c] \in QueueSteps
    BY <1>1 DEF PutTweet, QueueSteps
  <2>2. local[c].userIdx \in UserIdx /\ local[c].cell \in PendingTweetIdx
    BY <2>1 DEF TypeInv, Control, Locals, LocalsAt
  <2>3. WriteTweetCell(local[c].userIdx, local[c].cell, local[c].item)
    BY <1>1 DEF PutTweet
  <2>4. SameLists
    BY <2>2, <2>3, CellWritten
  <2> QED BY <1>1, <2>4 DEF PutTweet, history
<1>2. CASE \E tags \in TagLists : BeginTweet(c, tags)
  BY <1>2, UnchangedUsers DEF BeginTweet, Begin, shared
<1>3. CASE \/ StoreUsername(c) \/ StoreText(c) \/ StoreCount(c)
           \/ ClearHashtag(c) \/ MoreHashtags(c) \/ StoreHashtag(c)
  BY <1>3, UnchangedUsers
     DEF StoreUsername, StoreText, StoreCount, ClearHashtag, MoreHashtags, StoreHashtag,
         WriteLatest, WriteHashtag, OnlyReads, shared, history
<1>4. CASE \/ UpdateOccupied(c) \/ UpdateSubscribedAll(c) \/ MoreToMatch(c) \/ Match(c)
           \/ FormatTo(c) \/ FormatFrom(c) \/ FormatText(c) \/ FormatTag(c) \/ FindTweetCell(c)
  BY <1>4, UnchangedUsers
     DEF UpdateOccupied, UpdateSubscribedAll, MoreToMatch, Match, FormatTo, FormatFrom, FormatText,
         FormatTag, FindTweetCell, OnlyReads, shared, history
<1> QED BY <1>1, <1>2, <1>3, <1>4 DEF Tweet

(* What exit writes, after it has marked the entry free.                   *)
LEMMA ExitLeaves ==
  ASSUME TypeInv, NEW c \in Clients, Exit(c)
  PROVE  /\ UNCHANGED <<latestTweet, storedTweets, sent>>
         /\ ClearPendingTweet(c) \/ SameQueues
         /\ ClearOccupied(c) \/ UNCHANGED due
         /\ \/ ClearOccupied(c)
            \/ \A i \in UserIdx : activeUsers'[i].isOccupied = activeUsers[i].isOccupied
<1>1. activeUsers \in [UserIdx -> SharedUser]
  BY DEF TypeInv
<1>2. pc[c] \in ExitSteps => clientUserIdx[c] \in UserIdx
  BY OwnEntry DEF InSession
<1>3. CASE BeginExit(c)
  BY <1>3, UnchangedUsers DEF BeginExit, Begin, shared, history
<1>4. CASE ClearOccupied(c)
  <2>1. SameQueues
    BY <1>1, <1>2, <1>4 DEF ClearOccupied, WriteUser, SameQueues, SharedUser, Cell, Entry, ExitSteps
  <2> QED BY <1>4, <2>1 DEF ClearOccupied
<1>5. CASE ClearSubscribedAll(c)
  <2>1. SameQueues /\ \A i \in UserIdx : activeUsers'[i].isOccupied = activeUsers[i].isOccupied
    BY <1>1, <1>2, <1>5 DEF ClearSubscribedAll, ClearField, WriteUser, SameQueues, SharedUser, Cell,
                            Entry, ExitSteps, ClearSteps
  <2> QED BY <1>5, <2>1 DEF ClearSubscribedAll, ClearField, history
<1>6. CASE ClearUsername(c)
  <2>1. SameQueues /\ \A i \in UserIdx : activeUsers'[i].isOccupied = activeUsers[i].isOccupied
    BY <1>1, <1>2, <1>6 DEF ClearUsername, ClearField, WriteUser, SameQueues, SharedUser, Cell,
                            Entry, ExitSteps, ClearSteps
  <2> QED BY <1>6, <2>1 DEF ClearUsername, ClearField, history
<1>7. CASE ClearSubscription(c)
  <2> DEFINE list == [Entry(c).subscriptions EXCEPT ![local[c].cell] = EmptyStr]
  <2>1. activeUsers' = [activeUsers EXCEPT ![clientUserIdx[c]] = [Entry(c) EXCEPT !.subscriptions = list]]
    BY <1>7 DEF ClearSubscription, ClearField, WriteUser
  <2> HIDE DEF list
  <2>2. pc[c] \in ExitSteps /\ UNCHANGED <<latestTweet, storedTweets, history>>
    BY <1>7 DEF ClearSubscription, ClearField, ExitSteps, ClearSteps
  <2>3. SameQueues /\ \A i \in UserIdx : activeUsers'[i].isOccupied = activeUsers[i].isOccupied
    BY <1>1, <1>2, <2>1, <2>2 DEF SameQueues, SharedUser, Cell, Entry
  <2> QED BY <2>2, <2>3 DEF history
<1>8. CASE ClearPendingTweet(c)
  <2> DEFINE q == [Entry(c).pendingTweets EXCEPT ![local[c].cell] = EmptyStr]
  <2>1. \/ activeUsers' = [activeUsers EXCEPT ![clientUserIdx[c]] = [Entry(c) EXCEPT !.pendingTweets = q]]
        \/ UNCHANGED activeUsers
    BY <1>8 DEF ClearPendingTweet, ClearField, WriteUser, shared
  <2> HIDE DEF q
  <2>2. pc[c] \in ExitSteps /\ UNCHANGED <<latestTweet, storedTweets, history>>
    BY <1>8 DEF ClearPendingTweet, ClearField, ExitSteps, ClearSteps, shared
  <2>3. \A i \in UserIdx : activeUsers'[i].isOccupied = activeUsers[i].isOccupied
    BY <1>1, <1>2, <2>1, <2>2 DEF SharedUser, Entry
  <2> QED BY <1>8, <2>2, <2>3 DEF history
<1> QED BY <1>3, <1>4, <1>5, <1>6, <1>7, <1>8 DEF Exit

-----------------------------------------------------------------------------
(* The tweet in hand                                                       *)

(* What latestTweet.hashtags[k] is for a tweet with these hashtags.        *)
TagOf(k, tags) == IF k < Len(tags) THEN tags[k + 1] ELSE EmptyStr

(* The tweet that t handles is the last that was sent.                     *)
IsLast(t) ==
  /\ request[t].text = Len(sent) /\ Len(sent) > 0
  /\ sent[Len(sent)] = [from |-> NameOf[t], tags |-> request[t].tags]

(* What the child of t has written into latestTweet.                       *)
Written(t) ==
  /\ pc[t] # "t_username" => latestTweet.username = NameOf[t]
  /\ pc[t] \notin {"t_username", "t_text"} => latestTweet.ttweetString = request[t].text
  /\ pc[t] \notin {"t_username", "t_text", "t_count"} =>
       latestTweet.numValidHashtags = Len(request[t].tags)
  /\ pc[t] = "t_clear" => \A k \in 0 .. local[t].hashtagIdx - 1 : latestTweet.hashtags[k] = EmptyStr
  /\ pc[t] \in {"t_more", "t_hashtag"} => \A k \in HashtagIdx :
       latestTweet.hashtags[k] =
         IF k < local[t].hashtagIdx THEN TagOf(k, request[t].tags) ELSE EmptyStr
  /\ pc[t] \in UpdateSteps \cup AddSteps => \A k \in HashtagIdx :
       latestTweet.hashtags[k] = TagOf(k, request[t].tags)

(* Where its loops are.                                                    *)
Counted(t) ==
  /\ pc[t] \in StoreSteps => local[t].userIdx = 0
  /\ pc[t] = "t_more" => local[t].hashtagIdx <= Len(request[t].tags)
  /\ pc[t] \in {"t_hashtag", "u_match"} => local[t].hashtagIdx < Len(request[t].tags)
  /\ pc[t] \in {"u_occupied", "u_all"} => local[t].hashtagIdx = 0 /\ local[t].cell = 0
  /\ pc[t] \in {"a_to", "a_from", "a_text", "a_tag"} =>
       local[t].hashtagIdx = 0 \/ local[t].hashtagIdx < Len(request[t].tags)

LatestSound(t) == pc[t] \in TweetSteps => IsLast(t) /\ Written(t) /\ Counted(t)

(* The types that the proofs below use.                                    *)
LEMMA Types ==
  ASSUME TypeInv
  PROVE  /\ activeUsers \in [UserIdx -> SharedUser]
         /\ pc \in [Clients -> Waiting \cup ValidateSteps \cup InSession]
         /\ local \in [Clients -> Locals]
         /\ clientUserIdx \in [Clients -> UserIdx \cup {INVALID_USER_INDEX}]
         /\ Control
         /\ \A c \in Clients : /\ local[c].userIdx \in UserIdx
                               /\ RequestAt(pc[c], request[c]) /\ LocalsAt(pc[c], local[c])
                               /\ pc[c] \in InSession => clientUserIdx[c] \in UserIdx
         /\ \A i \in UserIdx, j \in PendingTweetIdx : Cell(i, j) \in Formatted \cup {EmptyStr}
BY DEF TypeInv, Control, Locals, IndexAt, SharedUser, Cell

LEMMA GotoMoves ==
  ASSUME TypeInv, NEW c \in Clients, NEW there, NEW m, Goto(c, there, m)
  PROVE  pc'[c] = there /\ local'[c] = m /\ request' = request
BY Types DEF Goto

LEMMA ReplyMoves ==
  ASSUME TypeInv, NEW c \in Clients, NEW state, Reply(c, state)
  PROVE  pc'[c] = state
BY Types DEF Reply

LEMMA IsLastStep ==
  ASSUME TypeInv, NEW c \in Clients, Tweet(c), pc[c] \in TweetSteps => IsLast(c), pc'[c] \in TweetSteps
  PROVE  IsLast(c)'
<1>1. ASSUME NEW tags \in TagLists, BeginTweet(c, tags)
      PROVE  IsLast(c)'
  <2> DEFINE rec == [from |-> NameOf[c], tags |-> tags]
  <2>1. /\ request'[c].text = Len(sent) + 1 /\ request'[c].tags = tags
        /\ sent' = Append(sent, rec)
    BY <1>1 DEF BeginTweet, Begin, TypeInv, Control
  <2>2. sent \in Seq([from: Usernames, tags: Seq(Hashtags)])
          /\ rec \in [from: Usernames, tags: Seq(Hashtags)]
    BY ChildStepsAssumption DEF TypeInv, HistoryType
  <2>3. Len(sent') = Len(sent) + 1 /\ Len(sent) \in Nat /\ sent'[Len(sent) + 1] = rec
    <3> HIDE DEF rec
    <3> QED BY <2>1, <2>2
  <2> QED BY <2>1, <2>3 DEF IsLast
<1>2. CASE ~ \E tags \in TagLists : BeginTweet(c, tags)
  <2>1. UNCHANGED sent
    BY <1>2, TweetLeaves
  <2>2. pc[c] \in TweetSteps /\ request'[c] = request[c]
    <3>1. \/ pc[c] \in Waiting /\ \E r, first : Begin(c, r, first)
          \/ pc[c] \in TweetSteps /\ request'[c] = request[c]
          \/ \E state \in {"ready", "crashed"} : Reply(c, state)
      BY TweetMoves DEF Moves, Goto
    <3>2. ~ \E state \in {"ready", "crashed"} : Reply(c, state)
      BY ReplyMoves, Regions
    <3>3. pc[c] \notin Waiting
      BY <1>2 DEF Tweet, StoreUsername, StoreText, StoreCount, ClearHashtag, MoreHashtags,
         StoreHashtag, UpdateOccupied, UpdateSubscribedAll, MoreToMatch, Match, FormatTo, FormatFrom,
         FormatText, FormatTag, FindTweetCell, PutTweet, Waiting
    <3> QED BY <3>1, <3>2, <3>3
  <2> QED BY <2>1, <2>2 DEF IsLast
<1> QED BY <1>1, <1>2

LEMMA SoundTweetStep ==
  ASSUME TypeInv, NEW c \in Clients, Tweet(c), LatestSound(c), pc'[c] \in TweetSteps
  PROVE  LatestSound(c)'
<1> DEFINE l == local[c]
           tags == request[c].tags
<1>1. /\ l \in Locals /\ RequestAt(pc[c], request[c]) /\ LocalsAt(pc[c], l)
      /\ latestTweet \in [username: Usernames \cup {EmptyStr}, ttweetString: Nat,
                          hashtags: [HashtagIdx -> Hashtags \cup {EmptyStr}],
                          numValidHashtags: 0 .. MAX_HASHTAG_CNT]
  BY Types DEF TypeInv, LatestType
<1>2. IsLast(c)'
  BY IsLastStep DEF LatestSound
<1>3. pc[c] \in TweetSteps => Written(c) /\ Counted(c)
  BY DEF LatestSound
<1>4. SUFFICES Written(c)' /\ Counted(c)'
  BY <1>2 DEF LatestSound
<1>5. ASSUME NEW p, NEW m, Goto(c, p, m)
      PROVE  pc'[c] = p /\ local'[c] = m /\ request'[c] = request[c]
  BY <1>5, GotoMoves
<1>6. ASSUME NEW state \in {"ready", "crashed"}, Reply(c, state)
      PROVE  FALSE
  BY <1>6, ReplyMoves, Regions
<1>7. ASSUME UNCHANGED latestTweet, pc[c] \in UpdateSteps \cup AddSteps, NEW p \in UpdateSteps \cup AddSteps,
             NEW m, Goto(c, p, m)
      PROVE  Written(c)'
  <2>1. Written(c) /\ pc'[c] = p /\ request'[c] = request[c]
    BY <1>3, <1>5, <1>7 DEF TweetSteps
  <2>2. p \notin StoreSteps /\ pc[c] \notin StoreSteps
    BY <1>7 DEF UpdateSteps, AddSteps, StoreSteps
  <2> QED BY <1>7, <2>1, <2>2 DEF Written, StoreSteps
<1>8. ASSUME UNCHANGED latestTweet, pc[c] \in UpdateSteps \cup AddSteps, NextUser(c)
      PROVE  Written(c)' /\ Counted(c)'
  <2> DEFINE m == [NoLocals EXCEPT !.userIdx = l.userIdx + 1]
  <2>1. Goto(c, "u_occupied", m)
    BY <1>6, <1>8 DEF NextUser
  <2>2. m.hashtagIdx = 0 /\ m.cell = 0
    BY StartConstants DEF Locals
  <2>3. "u_occupied" \in UpdateSteps
    BY DEF UpdateSteps
  <2> HIDE DEF m
  <2>4. Written(c)'
    BY <1>7, <1>8, <2>1, <2>3
  <2>5. Counted(c)'
    BY <1>5, <2>1, <2>2 DEF Counted, StoreSteps
  <2> QED BY <2>4, <2>5
<1>9. ASSUME NEW ts \in TagLists, BeginTweet(c, ts)
      PROVE  Written(c)' /\ Counted(c)'
  <2>1. pc'[c] = "t_username" /\ local' = local /\ pc[c] = "ready"
    BY <1>9, Types DEF BeginTweet, Begin
  <2>2. local[c].userIdx = 0
    BY <1>1, <2>1, StartConstants DEF LocalsAt, FirstSteps, Waiting
  <2> QED BY <2>1, <2>2 DEF Written, Counted, UpdateSteps, AddSteps
<1>10. CASE StoreUsername(c)
  <2>1. /\ pc[c] = "t_username" /\ pc'[c] = "t_text" /\ local'[c] = l /\ request'[c] = request[c]
        /\ latestTweet'.username = NameOf[c]
    BY <1>1, <1>5, <1>10 DEF StoreUsername, WriteLatest
  <2>2. Counted(c)
    BY <1>3, <2>1 DEF TweetSteps, StoreSteps
  <2> QED BY <2>1, <2>2 DEF Written, Counted, StoreSteps, UpdateSteps, AddSteps
<1>11. CASE StoreText(c)
  <2>1. /\ pc[c] = "t_text" /\ pc'[c] = "t_count" /\ local'[c] = l /\ request'[c] = request[c]
        /\ latestTweet'.ttweetString = request[c].text /\ latestTweet'.username = latestTweet.username
    BY <1>1, <1>5, <1>11 DEF StoreText, WriteLatest
  <2>2. Counted(c) /\ Written(c)
    BY <1>3, <2>1 DEF TweetSteps, StoreSteps
  <2> QED BY <2>1, <2>2 DEF Written, Counted, StoreSteps, UpdateSteps, AddSteps
<1>12. CASE StoreCount(c)
  <2>1. /\ pc[c] = "t_count" /\ pc'[c] = "t_clear" /\ local'[c] = l /\ request'[c] = request[c]
        /\ latestTweet'.numValidHashtags = Len(tags)
        /\ latestTweet'.ttweetString = latestTweet.ttweetString
        /\ latestTweet'.username = latestTweet.username
    BY <1>1, <1>5, <1>12 DEF StoreCount, WriteLatest
  <2>2. Counted(c) /\ Written(c)
    BY <1>3, <2>1 DEF TweetSteps, StoreSteps
  <2>3. l.hashtagIdx = 0
    BY <1>1, <2>1, StartConstants DEF LocalsAt, FirstSteps
  <2> QED BY <2>1, <2>2, <2>3 DEF Written, Counted, StoreSteps, UpdateSteps, AddSteps
<1>13. ASSUME NEW k \in HashtagIdx, NEW h, WriteHashtag(k, h)
       PROVE  /\ latestTweet'.numValidHashtags = latestTweet.numValidHashtags
              /\ latestTweet'.ttweetString = latestTweet.ttweetString
              /\ latestTweet'.username = latestTweet.username
              /\ latestTweet'.hashtags[k] = h
              /\ \A j \in HashtagIdx \ {k} : latestTweet'.hashtags[j] = latestTweet.hashtags[j]
  <2> DEFINE hs == [latestTweet.hashtags EXCEPT ![k] = h]
  <2>1. latestTweet' = [latestTweet EXCEPT !.hashtags = hs]
    BY <1>13 DEF WriteHashtag, WriteLatest
  <2>2. hs[k] = h /\ \A j \in HashtagIdx \ {k} : hs[j] = latestTweet.hashtags[j]
    BY <1>1
  <2> HIDE DEF hs
  <2> QED BY <1>1, <2>1, <2>2
<1>14. CASE ClearHashtag(c)
  <2>1. /\ pc[c] = "t_clear" /\ l.hashtagIdx \in HashtagIdx /\ l.hashtagIdx < MAX_HASHTAG_CNT
        /\ WriteHashtag(l.hashtagIdx, EmptyStr)
    BY <1>1, <1>14, StartConstants DEF ClearHashtag, LocalsAt, HashtagSteps, HashtagIdx, Locals
  <2>2. Counted(c) /\ Written(c)
    BY <1>3, <2>1 DEF TweetSteps, StoreSteps
  <2>3. /\ latestTweet'.numValidHashtags = latestTweet.numValidHashtags
        /\ latestTweet'.ttweetString = latestTweet.ttweetString
        /\ latestTweet'.username = latestTweet.username
        /\ latestTweet'.hashtags[l.hashtagIdx] = EmptyStr
        /\ \A j \in HashtagIdx \ {l.hashtagIdx} : latestTweet'.hashtags[j] = latestTweet.hashtags[j]
    BY <1>13, <2>1
  <2>4. \A k \in 0 .. l.hashtagIdx : k \in HashtagIdx /\ latestTweet'.hashtags[k] = EmptyStr
    BY <2>1, <2>2, <2>3, StartConstants DEF Written, HashtagIdx
  <2>5. CASE Goto(c, "t_clear", [l EXCEPT !.hashtagIdx = @ + 1])
    <3>1. /\ pc'[c] = "t_clear" /\ request'[c] = request[c]
          /\ local'[c].userIdx = l.userIdx /\ local'[c].hashtagIdx = l.hashtagIdx + 1
      BY <1>1, <1>5, <2>5 DEF Locals
    <3>2. \A k \in 0 .. local'[c].hashtagIdx - 1 : latestTweet'.hashtags[k] = EmptyStr
      BY <2>1, <2>4, <3>1 DEF HashtagIdx
    <3> QED BY <2>1, <2>2, <2>3, <3>1, <3>2 DEF Written, Counted, StoreSteps, UpdateSteps, AddSteps
  <2>6. CASE ~ (l.hashtagIdx + 1 < MAX_HASHTAG_CNT) /\ Goto(c, "t_more", NoLocals)
    <3>1. /\ pc'[c] = "t_more" /\ request'[c] = request[c]
          /\ local'[c].userIdx = 0 /\ local'[c].hashtagIdx = 0
      BY <1>5, <2>6, StartConstants
    <3>2. \A k \in HashtagIdx : latestTweet'.hashtags[k] = EmptyStr /\ ~ (k < 0)
      BY <2>1, <2>4, <2>6, StartConstants DEF HashtagIdx
    <3>3. Len(tags) \in Nat
      BY <1>1, <2>1 DEF RequestAt, TweetSteps, StoreSteps
    <3> QED BY <2>1, <2>2, <2>3, <3>1, <3>2, <3>3 DEF Written, Counted, StoreSteps, UpdateSteps, AddSteps
  <2> QED BY <1>14, <2>5, <2>6 DEF ClearHashtag
<1>15. CASE MoreHashtags(c)
  <2>1. pc[c] = "t_more" /\ UNCHANGED latestTweet
    BY <1>15 DEF MoreHashtags, OnlyReads, shared
  <2>2. Counted(c) /\ Written(c) /\ Len(tags) \in Nat /\ Len(tags) <= MAX_HASHTAG_CNT /\ l.hashtagIdx \in Nat
    BY <1>1, <1>3, <2>1 DEF TweetSteps, StoreSteps, RequestAt, Locals
  <2>3. CASE l.hashtagIdx < latestTweet.numValidHashtags /\ Goto(c, "t_hashtag", l)
    <3>1. pc'[c] = "t_hashtag" /\ request'[c] = request[c] /\ local'[c] = l
      BY <1>5, <2>3
    <3> QED BY <2>1, <2>2, <2>3, <3>1 DEF Written, Counted, StoreSteps, UpdateSteps, AddSteps
  <2>4. CASE ~ (l.hashtagIdx < latestTweet.numValidHashtags) /\ Goto(c, "u_occupied", NoLocals)
    <3>1. /\ pc'[c] = "u_occupied" /\ request'[c] = request[c]
          /\ local'[c].hashtagIdx = 0 /\ local'[c].cell = 0
      BY <1>5, <2>4, StartConstants
    <3>2. l.hashtagIdx = Len(tags)
      BY <2>1, <2>2, <2>4 DEF Written, Counted
    <3>3. \A k \in HashtagIdx : latestTweet.hashtags[k] = TagOf(k, tags)
      BY <2>1, <2>2, <3>2 DEF Written, TagOf
    <3> QED BY <2>1, <2>2, <3>1, <3>3 DEF Written, Counted, StoreSteps
  <2> QED BY <1>15, <2>3, <2>4 DEF MoreHashtags
<1>16. CASE StoreHashtag(c)
  <2>1. /\ pc[c] = "t_hashtag" /\ l.hashtagIdx < Len(tags)
        /\ WriteHashtag(l.hashtagIdx, tags[l.hashtagIdx + 1])
        /\ Goto(c, "t_more", [l EXCEPT !.hashtagIdx = l.hashtagIdx + 1])
    BY <1>6, <1>16 DEF StoreHashtag
  <2>2. /\ l.hashtagIdx \in HashtagIdx /\ Counted(c) /\ Written(c)
        /\ Len(tags) \in Nat /\ l.hashtagIdx \in Nat
    BY <1>1, <1>3, <2>1, StartConstants
       DEF LocalsAt, HashtagSteps, HashtagIdx, Locals, TweetSteps, StoreSteps, RequestAt
  <2>3. /\ latestTweet'.numValidHashtags = latestTweet.numValidHashtags
        /\ latestTweet'.ttweetString = latestTweet.ttweetString
        /\ latestTweet'.username = latestTweet.username
        /\ latestTweet'.hashtags[l.hashtagIdx] = tags[l.hashtagIdx + 1]
        /\ \A j \in HashtagIdx \ {l.hashtagIdx} : latestTweet'.hashtags[j] = latestTweet.hashtags[j]
    BY <1>13, <2>1, <2>2
  <2>4. /\ pc'[c] = "t_more" /\ request'[c] = request[c]
        /\ local'[c].userIdx = l.userIdx /\ local'[c].hashtagIdx = l.hashtagIdx + 1
    BY <1>1, <1>5, <2>1 DEF Locals
  <2>5. \A k \in HashtagIdx :
          latestTweet'.hashtags[k] = IF k < l.hashtagIdx + 1 THEN TagOf(k, tags) ELSE EmptyStr
    <3>1. \A k \in HashtagIdx :
            latestTweet.hashtags[k] = IF k < l.hashtagIdx THEN TagOf(k, tags) ELSE EmptyStr
      BY <2>1, <2>2 DEF Written
    <3>2. \A k \in HashtagIdx \ {l.hashtagIdx} : k < l.hashtagIdx + 1 <=> k < l.hashtagIdx
      BY <2>2 DEF HashtagIdx
    <3>3. TagOf(l.hashtagIdx, tags) = tags[l.hashtagIdx + 1]
      BY <2>1 DEF TagOf
    <3> QED BY <2>2, <2>3, <3>1, <3>2, <3>3
  <2>6. Written(c)'
    BY <2>1, <2>2, <2>3, <2>4, <2>5 DEF Written, UpdateSteps, AddSteps
  <2>7. Counted(c)'
    BY <2>1, <2>2, <2>4 DEF Counted, StoreSteps
  <2> QED BY <2>6, <2>7
<1>17. CASE UpdateOccupied(c) \/ UpdateSubscribedAll(c)
  <2>1. /\ pc[c] \in {"u_occupied", "u_all"} /\ UNCHANGED latestTweet
        /\ NextUser(c) \/ \E p \in {"u_all", "u_more", "a_to"} : Goto(c, p, l)
    BY <1>17 DEF UpdateOccupied, UpdateSubscribedAll, OnlyReads, shared
  <2>2. pc[c] \in UpdateSteps /\ Counted(c)
    BY <1>3, <2>1 DEF UpdateSteps, TweetSteps
  <2>3. ASSUME NEW p \in {"u_all", "u_more", "a_to"}, Goto(c, p, l)
        PROVE  Written(c)' /\ Counted(c)'
    <3>1. p \in UpdateSteps \cup AddSteps
      BY DEF UpdateSteps, AddSteps
    <3>2. pc'[c] = p /\ local'[c] = l
      BY <1>5, <2>3
    <3>3. Counted(c)'
      BY <2>1, <2>2, <3>2 DEF Counted, StoreSteps
    <3> QED BY <1>7, <2>1, <2>2, <2>3, <3>1, <3>3
  <2> QED BY <1>8, <2>1, <2>2, <2>3
<1>18. CASE MoreToMatch(c)
  <2>1. pc[c] = "u_more" /\ UNCHANGED latestTweet /\ pc[c] \in UpdateSteps
    BY <1>18 DEF MoreToMatch, OnlyReads, shared, UpdateSteps
  <2>2. Written(c)
    BY <1>3, <2>1 DEF TweetSteps
  <2>3. CASE l.hashtagIdx < latestTweet.numValidHashtags /\ Goto(c, "u_match", l)
    <3>1. pc'[c] = "u_match" /\ local'[c] = l /\ request'[c] = request[c] /\ "u_match" \in UpdateSteps
      BY <1>5, <2>3 DEF UpdateSteps
    <3>2. Counted(c)'
      BY <2>1, <2>2, <2>3, <3>1 DEF Counted, Written, StoreSteps
    <3> QED BY <1>7, <2>1, <2>3, <3>1, <3>2
  <2>4. CASE Goto(c, "u_more", [l EXCEPT !.cell = @ + 1, !.hashtagIdx = 0])
    <3>1. pc'[c] = "u_more"
      BY <1>5, <2>4
    <3>2. Counted(c)'
      BY <3>1 DEF Counted, StoreSteps
    <3> QED BY <1>7, <2>1, <2>4, <3>2
  <2> QED BY <1>8, <1>18, <2>1, <2>3, <2>4 DEF MoreToMatch
<1>19. CASE Match(c)
  <2>1. pc[c] = "u_match" /\ UNCHANGED latestTweet /\ pc[c] \in UpdateSteps
    BY <1>19 DEF Match, OnlyReads, shared, UpdateSteps
  <2>2. Counted(c)
    BY <1>3, <2>1 DEF TweetSteps
  <2>3. CASE Goto(c, "a_to", l)
    <3>1. pc'[c] = "a_to" /\ local'[c] = l /\ request'[c] = request[c] /\ "a_to" \in AddSteps
      BY <1>5, <2>3 DEF AddSteps
    <3>2. Counted(c)'
      BY <2>1, <2>2, <3>1 DEF Counted, StoreSteps
    <3> QED BY <1>7, <2>1, <2>3, <3>1, <3>2
  <2>4. CASE Goto(c, "u_more", [l EXCEPT !.hashtagIdx = @ + 1])
    <3>1. pc'[c] = "u_more" /\ "u_more" \in UpdateSteps
      BY <1>5, <2>4 DEF UpdateSteps
    <3>2. Counted(c)'
      BY <3>1 DEF Counted, StoreSteps
    <3> QED BY <1>7, <2>1, <2>4, <3>1, <3>2
  <2> QED BY <1>19, <2>3, <2>4 DEF Match
<1>20. CASE FormatTo(c) \/ FormatFrom(c) \/ FormatText(c)
  <2>1. /\ pc[c] \in {"a_to", "a_from", "a_text"} /\ UNCHANGED latestTweet
        /\ \E p \in {"a_from", "a_text", "a_tag"},
              v \in {activeUsers[l.userIdx].username, latestTweet.username, latestTweet.ttweetString} :
              \/ Goto(c, p, [l EXCEPT !.item.to = v])
              \/ Goto(c, p, [l EXCEPT !.item.from = v])
              \/ Goto(c, p, [l EXCEPT !.item.text = v])
    BY <1>20 DEF FormatTo, FormatFrom, FormatText, OnlyReads, shared
  <2>2. pc[c] \in AddSteps /\ Counted(c)
    BY <1>3, <2>1 DEF AddSteps, TweetSteps
  <2>3. PICK p \in {"a_from", "a_text", "a_tag"} :
          \E v : \/ Goto(c, p, [l EXCEPT !.item.to = v])
                \/ Goto(c, p, [l EXCEPT !.item.from = v])
                \/ Goto(c, p, [l EXCEPT !.item.text = v])
    BY <2>1
  <2>4. pc'[c] = p /\ local'[c].hashtagIdx = l.hashtagIdx /\ request'[c] = request[c]
    BY <1>1, <1>5, <2>3 DEF Locals
  <2>5. Counted(c)'
    BY <2>1, <2>2, <2>4 DEF Counted, StoreSteps
  <2>6. p \in AddSteps
    BY DEF AddSteps
  <2> QED BY <1>7, <2>1, <2>2, <2>3, <2>5, <2>6
<1>21. CASE FormatTag(c)
  <2>1. /\ pc[c] \in AddSteps /\ UNCHANGED latestTweet /\ "a_scan" \in AddSteps
        /\ Goto(c, "a_scan", [l EXCEPT !.item.tag = latestTweet.hashtags[l.hashtagIdx], !.cell = 0])
    BY <1>21 DEF FormatTag, OnlyReads, shared, AddSteps
  <2>2. pc'[c] = "a_scan"
    BY <1>5, <2>1
  <2>3. Counted(c)'
    BY <2>2 DEF Counted, StoreSteps
  <2> QED BY <1>7, <2>1, <2>3
<1>22. CASE FindTweetCell(c)
  <2>1. /\ pc[c] \in AddSteps /\ UNCHANGED latestTweet
        /\ \/ NextUser(c)
           \/ \E p \in {"a_scan", "a_put"} : \E m : Goto(c, p, m)
    BY <1>22 DEF FindTweetCell, shared, AddSteps
  <2>2. ASSUME NEW p \in {"a_scan", "a_put"}, NEW m, Goto(c, p, m)
        PROVE  Written(c)' /\ Counted(c)'
    <3>1. pc'[c] = p /\ p \in AddSteps
      BY <1>5, <2>2 DEF AddSteps
    <3>2. Counted(c)'
      BY <3>1 DEF Counted, StoreSteps
    <3> QED BY <1>7, <2>1, <2>2, <3>1, <3>2
  <2> QED BY <1>8, <2>1, <2>2
<1>23. CASE PutTweet(c)
  BY <1>8, <1>23 DEF PutTweet, AddSteps
<1> QED
  BY <1>9, <1>10, <1>11, <1>12, <1>14, <1>15, <1>16, <1>17, <1>18, <1>19, <1>20, <1>21, <1>22, <1>23
     DEF Tweet

LEMMA LatestSoundStep ==
  ASSUME TypeInv, Alone, Alone', NEW c \in Clients, NEW t \in Clients, LatestSound(t),
         Validate(c) \/ Tweet(c) \/ Subscription(c) \/ Timeline(c) \/ Exit(c)
  PROVE  LatestSound(t)'
<1>1. Control
  BY DEF TypeInv
<1>2. CASE t # c
  <2>1. pc'[t] = pc[t] /\ local'[t] = local[t] /\ request'[t] = request[t]
    BY <1>1, <1>2, OneAtATime
  <2>2. pc[t] \in TweetSteps => UNCHANGED <<latestTweet, sent>>
    BY <1>1, <1>2, OneAtATime, ValidateLeaves, SubscriptionLeaves, TimelineLeaves, ExitLeaves DEF history
  <2> QED BY <2>1, <2>2 DEF LatestSound, IsLast, Written, Counted
<1>3. CASE t = c /\ ~ Tweet(c)
  <2>1. pc'[c] \notin TweetSteps
    BY <1>1, <1>3, ValidateMoves, SubscriptionMoves, TimelineMoves, ExitMoves, MovesTo, Regions
  <2> QED BY <1>3, <2>1 DEF LatestSound
<1>4. CASE t = c /\ Tweet(c)
  BY <1>4, SoundTweetStep DEF LatestSound
<1> QED BY <1>2, <1>3, <1>4

-----------------------------------------------------------------------------
(* The entries                                                             *)

(* A child is about to write its name into the entry; a child empties it;  *)
(* somebody uses it.                                                       *)
Taking(i) == \E c \in Clients : pc[c] = "v_write_username" /\ local[c].userIdx = i
Clearing(i) == \E c \in Clients : pc[c] \in ClearSteps /\ clientUserIdx[c] = i
InUse(i) == activeUsers[i].isOccupied /\ ~ Taking(i)

LastCell == MAX_TWEET_QUEUE - 1

FrontEmpty(i, n) == \A j \in 0 .. n - 1 : Cell(i, j) = EmptyStr
NoSubscription(i, n) == \A s \in 0 .. n - 1 : activeUsers[i].subscriptions[s] = EmptyStr

Blank(i) ==
  FrontEmpty(i, LastCell) /\ NoSubscription(i, MAX_SUBSCRIPTIONS) /\ ~ activeUsers[i].isSubscribedAll

(* An entry in use has a name, and one that is not has no subscription,    *)
(* and no tweet but in its last cell.                                      *)
Entries ==
  \A i \in UserIdx :
    /\ InUse(i) => activeUsers[i].username \in Usernames
    /\ ~ InUse(i) /\ ~ Clearing(i) => Blank(i)

(* What a child that comes or goes has done, or has read.                  *)
HasDone(c) ==
  /\ pc[c] \in ClearSteps => ~ Entry(c).isOccupied
  /\ pc[c] \in ClearSteps \ {"e_all"} => ~ Entry(c).isSubscribedAll
  /\ pc[c] = "e_subscriptions" => NoSubscription(clientUserIdx[c], local[c].cell)
  /\ pc[c] = "e_pending" => /\ NoSubscription(clientUserIdx[c], MAX_SUBSCRIPTIONS)
                            /\ FrontEmpty(clientUserIdx[c], local[c].cell)
  /\ pc[c] = "v_occupy" => ~ activeUsers[local[c].userIdx].isOccupied
  /\ pc[c] \in {"connected"} \cup ValidateSteps => storedTweets[c] = <<>>

(* The entries that a tweet is tried on are occupied, those that it is     *)
(* written to are in use: a free one has no subscription to match.         *)
Visits(t) ==
  /\ pc[t] \in UpdateSteps \ {"u_occupied"} => activeUsers[local[t].userIdx].isOccupied
  /\ pc[t] \in AddSteps => InUse(local[t].userIdx)

EntriesInv ==
  /\ NamesInv /\ Alone
  /\ Entries
  /\ \A c \in Clients : LatestSound(c) /\ HasDone(c) /\ Visits(c)

(* A client's own entry is in use until it is marked free.                 *)
LEMMA OwnInUse ==
  ASSUME NamesInv, NEW c \in Clients, HasEntry(c), pc[c] \notin ClearSteps
  PROVE  /\ clientUserIdx[c] \in UserIdx
         /\ InUse(clientUserIdx[c])
         /\ activeUsers[clientUserIdx[c]].username = NameOf[c]
<1>1. clientUserIdx[c] \in UserIdx
  BY Types DEF NamesInv, HasEntry
<1>2. Entry(c).isOccupied /\ Entry(c).username = NameOf[c]
  BY DEF NamesInv, Seats
<1>3. ~ Taking(clientUserIdx[c])
  BY DEF NamesInv, Searching, Taking
<1> QED BY <1>1, <1>2, <1>3 DEF InUse, Entry

LEMMA UseOtherStep ==
  ASSUME NamesInv, NEW c \in Clients, Tweet(c) \/ Subscription(c) \/ Timeline(c)
  PROVE  /\ pc[c] \notin ValidateSteps \cup ExitSteps /\ pc'[c] \notin ValidateSteps \cup ExitSteps
         /\ pc'[c] # "connected"
         /\ clientUserIdx' = clientUserIdx
         /\ \A i \in UserIdx : /\ InUse(i)' <=> InUse(i)
                               /\ Clearing(i)' <=> Clearing(i)
                               /\ activeUsers'[i].isOccupied = activeUsers[i].isOccupied
                               /\ activeUsers'[i].username = activeUsers[i].username
<1>1. TypeInv /\ Control
  BY DEF NamesInv, TypeInv
<1>2. PICK S, done : /\ Moves(c, S, done)
                     /\ S \in {TweetSteps, SubscriptionSteps, TimelineSteps}
                     /\ done \subseteq {"ready", "crashed"}
  BY TweetMoves, SubscriptionMoves, TimelineMoves
<1>3. pc'[c] \in S \cup {"ready", "crashed"} /\ pc[c] \in S \cup Waiting
  BY <1>1, <1>2, MovesTo DEF Moves
<1>4. pc[c] \notin ValidateSteps \cup ExitSteps /\ pc'[c] \notin ValidateSteps \cup ExitSteps
        /\ pc'[c] # "connected"
  BY <1>2, <1>3, Regions
<1>5. \A d \in Clients \ {c} : pc'[d] = pc[d] /\ local'[d] = local[d]
  BY <1>1, <1>2, OthersStay
<1>6. \A i \in UserIdx : Taking(i)' <=> Taking(i)
  BY <1>4, <1>5 DEF Taking, ValidateSteps
<1>7. \A i \in UserIdx : Clearing(i)' <=> Clearing(i)
  BY <1>1, <1>4, <1>5, KeepsNames, Regions DEF Clearing
<1> QED BY <1>1, <1>4, <1>6, <1>7, KeepsNames DEF InUse

LEMMA UseValidateStep ==
  ASSUME NamesInv, Alone, NEW c \in Clients, HasDone(c), Validate(c)
  PROVE  /\ pc[c] \in {"connected"} \cup ValidateSteps
         /\ pc'[c] \notin ExitSteps \cup TweetSteps
         /\ \A i \in UserIdx : /\ Clearing(i)' <=> Clearing(i)
                               /\ activeUsers[i].isOccupied => activeUsers'[i].isOccupied
                               /\ InUse(i) => InUse(i)' /\ activeUsers'[i].username = activeUsers[i].username
                               /\ InUse(i)' => InUse(i) \/ activeUsers'[i].username = NameOf[c]
         /\ pc'[c] = "v_occupy" => ~ activeUsers'[local'[c].userIdx].isOccupied
<1>1. /\ TypeInv /\ Control /\ local[c].userIdx \in UserIdx
      /\ activeUsers \in [UserIdx -> SharedUser] /\ local \in [Clients -> Locals]
      /\ pc \in [Clients -> Waiting \cup ValidateSteps \cup InSession]
      /\ clientUserIdx \in [Clients -> UserIdx \cup {INVALID_USER_INDEX}]
  BY Types DEF NamesInv
<1>2. pc[c] \in {"connected"} \cup ValidateSteps
  BY DEF Validate, BeginValidate, CheckOccupied, CheckUsername, TakeEntry, Occupy, WriteUsername,
         ValidateSteps
<1>3. \A d \in Clients \ {c} : pc'[d] = pc[d] /\ local'[d] = local[d]
  BY <1>1, ValidateMoves, OthersStay
<1>4. pc'[c] \in ValidateSteps \cup {"ready", "refused", "unanswered"}
  BY <1>1, ValidateMoves, MovesTo
<1>5. pc'[c] \notin ExitSteps \cup TweetSteps /\ pc[c] \notin ClearSteps
  BY <1>2, <1>4, Regions
<1>6. \A i \in UserIdx : Clearing(i)' <=> Clearing(i)
  <2>1. \A d \in Clients \ {c} : clientUserIdx'[d] = clientUserIdx[d]
    BY <1>1, ValidateLeaves DEF Occupy, WriteUsername
  <2>2. pc'[c] \notin ClearSteps
    BY <1>5, Regions
  <2> QED BY <1>3, <1>5, <2>1, <2>2 DEF Clearing
<1>7. ASSUME UNCHANGED activeUsers, pc[c] # "v_write_username", pc'[c] # "v_write_username"
      PROVE  \A i \in UserIdx : InUse(i)' <=> InUse(i)
  BY <1>3, <1>7 DEF InUse, Taking
<1>8. CASE Occupy(c)
  <2> DEFINE u == [activeUsers[local[c].userIdx] EXCEPT !.isOccupied = TRUE]
  <2>1. /\ activeUsers' = [activeUsers EXCEPT ![local[c].userIdx] = u]
        /\ pc[c] = "v_occupy" /\ pc'[c] = "v_write_username" /\ local'[c] = local[c]
    BY <1>1, <1>8 DEF Occupy, WriteUser, Goto
  <2>2. u.isOccupied /\ u.username = activeUsers[local[c].userIdx].username
    BY <1>1 DEF SharedUser
  <2> HIDE DEF u
  <2>3. Taking(local[c].userIdx)' /\ ~ activeUsers[local[c].userIdx].isOccupied
    BY <2>1 DEF Taking, HasDone
  <2>4. \A i \in UserIdx \ {local[c].userIdx} : activeUsers'[i] = activeUsers[i] /\ (Taking(i)' <=> Taking(i))
    BY <1>1, <1>3, <2>1 DEF Taking
  <2> QED BY <1>1, <1>2, <1>5, <1>6, <2>1, <2>2, <2>3, <2>4 DEF InUse
<1>9. CASE WriteUsername(c)
  <2> DEFINE u == [activeUsers[local[c].userIdx] EXCEPT !.username = NameOf[c]]
  <2>1. /\ activeUsers' = [activeUsers EXCEPT ![local[c].userIdx] = u]
        /\ pc[c] = "v_write_username" /\ pc'[c] = "ready"
    BY <1>1, <1>9 DEF WriteUsername, WriteUser, Reply
  <2>2. u.isOccupied = activeUsers[local[c].userIdx].isOccupied /\ u.username = NameOf[c]
    BY <1>1 DEF SharedUser
  <2> HIDE DEF u
  <2>3. Taking(local[c].userIdx)
    BY <2>1 DEF Taking
  <2>4. \A i \in UserIdx \ {local[c].userIdx} : activeUsers'[i] = activeUsers[i] /\ (Taking(i)' <=> Taking(i))
    BY <1>1, <1>3, <2>1 DEF Taking
  <2> QED BY <1>1, <1>2, <1>5, <1>6, <2>1, <2>2, <2>3, <2>4 DEF InUse
<1>10. ASSUME NEW m, NextName(c, m)
       PROVE  pc'[c] \in {"v_occupied", "v_take", "refused"}
  BY <1>1, <1>10 DEF NextName, Goto, Reply
<1>11. CASE BeginValidate(c) \/ CheckOccupied(c) \/ CheckUsername(c) \/ TakeEntry(c)
  <2>1. UNCHANGED activeUsers /\ pc[c] # "v_write_username"
    BY <1>11 DEF BeginValidate, Begin, CheckOccupied, CheckUsername, TakeEntry, OnlyReads, shared
  <2>2. CASE BeginValidate(c)
    <3>1. pc'[c] = "v_occupied"
      BY <1>1, <2>2 DEF BeginValidate, Begin
    <3> QED BY <1>2, <1>5, <1>6, <1>7, <2>1, <3>1
  <2>3. CASE CheckOccupied(c)
    <3>1. pc'[c] \in {"v_username", "v_occupied", "v_take", "refused"}
      BY <1>1, <1>10, <2>3 DEF CheckOccupied, Goto
    <3> QED BY <1>2, <1>5, <1>6, <1>7, <2>1, <3>1
  <2>4. CASE CheckUsername(c)
    <3>1. pc'[c] \in {"v_occupied", "v_take", "refused"}
      BY <1>1, <1>10, <2>4 DEF CheckUsername, Reply
    <3> QED BY <1>2, <1>5, <1>6, <1>7, <2>1, <3>1
  <2>5. CASE TakeEntry(c)
    <3>1. /\ pc'[c] \in {"v_occupy", "v_take", "unanswered"}
          /\ pc'[c] = "v_occupy" => /\ ~ activeUsers[local[c].userIdx].isOccupied
                                    /\ local'[c] = local[c]
      BY <1>1, <2>5 DEF TakeEntry, Goto, Reply
    <3> QED BY <1>2, <1>5, <1>6, <1>7, <2>1, <3>1
  <2> QED BY <1>11, <2>2, <2>3, <2>4, <2>5
<1> QED BY <1>8, <1>9, <1>11 DEF Validate

LEMMA UseExitStep ==
  ASSUME NamesInv, NEW c \in Clients, Exit(c)
  PROVE  /\ clientUserIdx[c] \in UserIdx
         /\ \A i \in UserIdx \ {clientUserIdx[c]} :
              (InUse(i)' <=> InUse(i)) /\ (Clearing(i)' <=> Clearing(i))
         /\ pc'[c] \in ClearSteps => \A i \in UserIdx : i = clientUserIdx[c] => Clearing(i)'
         /\ pc'[c] \notin ClearSteps \cup {"left"} =>
              /\ BeginExit(c) /\ UNCHANGED <<activeUsers, clientUserIdx>>
              /\ \A i \in UserIdx : (InUse(i)' <=> InUse(i)) /\ (Clearing(i)' <=> Clearing(i))
<1>1. /\ TypeInv /\ Control
      /\ clientUserIdx \in [Clients -> UserIdx \cup {INVALID_USER_INDEX}]
      /\ pc[c] \in InSession => clientUserIdx[c] \in UserIdx
      /\ pc \in [Clients -> Waiting \cup ValidateSteps \cup InSession]
  BY Types DEF NamesInv
<1>2. \A d \in Clients \ {c} : /\ pc'[d] = pc[d] /\ local'[d] = local[d]
                               /\ clientUserIdx'[d] = clientUserIdx[d]
  BY <1>1, ExitMoves, OthersStay, ExitWrites
<1>3. pc'[c] \in ExitSteps \cup {"left"}
  BY <1>1, ExitMoves, MovesTo
<1>4. pc[c] \in ExitSteps \cup {"ready"} /\ pc[c] # "v_write_username" /\ pc'[c] # "v_write_username"
  BY <1>1, <1>3, ExitWrites DEF ExitSteps, ClearSteps
<1>5. clientUserIdx[c] \in UserIdx
  BY <1>1, <1>4 DEF InSession
<1>6. \A i \in UserIdx : Taking(i)' <=> Taking(i)
  BY <1>2, <1>4 DEF Taking
<1>7. ASSUME NEW i \in UserIdx \ {clientUserIdx[c]}
      PROVE  (InUse(i)' <=> InUse(i)) /\ (Clearing(i)' <=> Clearing(i))
  <2>1. activeUsers'[i] = activeUsers[i] /\ clientUserIdx'[c] # i
    BY <1>1, ExitWrites, EmptyStrIsNoValue
  <2> QED BY <1>2, <1>6, <2>1 DEF InUse, Clearing
<1>8. pc'[c] \in ClearSteps => \A i \in UserIdx : i = clientUserIdx[c] => Clearing(i)'
  <2>1. pc'[c] \in ClearSteps => clientUserIdx'[c] = clientUserIdx[c]
    BY <1>1 DEF Exit, BeginExit, Begin, ClearOccupied, ClearSubscribedAll, ClearUsername,
                ClearSubscription, ClearPendingTweet, Reply, ClearSteps
  <2> QED BY <2>1 DEF Clearing
<1>9. ASSUME pc'[c] \notin ClearSteps \cup {"left"}
      PROVE  /\ BeginExit(c) /\ UNCHANGED <<activeUsers, clientUserIdx>>
             /\ \A i \in UserIdx : (InUse(i)' <=> InUse(i)) /\ (Clearing(i)' <=> Clearing(i))
  <2>1. BeginExit(c) /\ pc[c] = "ready" /\ UNCHANGED activeUsers
    BY <1>1, <1>9, ExitWrites
  <2>2. UNCHANGED clientUserIdx /\ pc[c] \notin ClearSteps /\ pc'[c] \notin ClearSteps
    BY <1>9, <2>1 DEF BeginExit, Begin, ClearSteps
  <2> QED BY <1>2, <1>6, <2>1, <2>2 DEF InUse, Clearing
<1> QED BY <1>5, <1>7, <1>8, <1>9

(* A tweet is only put into an entry in use, and timeline only empties     *)
(* cells.                                                                  *)
LEMMA FrontKept ==
  ASSUME EntriesInv, NEW c \in Clients, Tweet(c) \/ Subscription(c) \/ Timeline(c),
         NEW i \in UserIdx, ~ InUse(i), NEW j \in PendingTweetIdx, Cell(i, j) = EmptyStr
  PROVE  Cell(i, j)' = EmptyStr
<1>1. TypeInv
  BY DEF EntriesInv, NamesInv
<1>2. SameQueues => Cell(i, j)' = EmptyStr
  BY DEF SameQueues
<1>3. CASE PutTweet(c)
  <2>1. pc[c] \in AddSteps /\ pc[c] \in QueueSteps /\ WriteTweetCell(local[c].userIdx, local[c].cell, local[c].item)
    BY <1>3 DEF PutTweet, AddSteps, QueueSteps
  <2>2. local[c].userIdx \in UserIdx /\ local[c].cell \in PendingTweetIdx /\ InUse(local[c].userIdx)
    BY <1>1, <2>1, Types DEF LocalsAt, EntriesInv, Visits
  <2> QED BY <1>1, <2>1, <2>2, CellWritten
<1>4. CASE Timeline(c)
  <2>1. CASE ClearTweet(c)
    <3>1. /\ pc[c] \in InSession /\ pc[c] \in QueueSteps
          /\ WriteTweetCell(clientUserIdx[c], local[c].cell, EmptyStr)
      BY <2>1 DEF ClearTweet, InSession, TimelineSteps, QueueSteps
    <3>2. clientUserIdx[c] \in UserIdx /\ local[c].cell \in PendingTweetIdx
      BY <1>1, <3>1, Types DEF LocalsAt
    <3> QED BY <1>1, <3>1, <3>2, CellWritten
  <2> QED BY <1>1, <1>2, <1>4, <2>1, TimelineLeaves
<1> QED BY <1>1, <1>2, <1>3, <1>4, TweetLeaves, SubscriptionLeaves

LEMMA ListsKept ==
  ASSUME EntriesInv, NEW c \in Clients, Tweet(c) \/ Subscription(c) \/ Timeline(c),
         NEW i \in UserIdx, ~ InUse(i)
  PROVE  /\ activeUsers'[i].subscriptions = activeUsers[i].subscriptions
         /\ activeUsers'[i].isSubscribedAll = activeUsers[i].isSubscribedAll
<1>1. TypeInv /\ NamesInv
  BY DEF EntriesInv, NamesInv
<1>2. CASE Subscription(c)
  <2>1. i # clientUserIdx[c] \/ SameLists
    <3>1. CASE WriteList(c) \/ WriteSubscribedAll(c)
      <4>1. pc[c] \in SubscriptionSteps
        BY <3>1 DEF WriteList, WriteSubscribedAll, SubscriptionSteps
      <4>2. HasEntry(c) /\ pc[c] \notin ClearSteps
        BY <1>1, <4>1, Types, Regions, EmptyStrIsNoValue DEF InSession, HasEntry
      <4> QED BY <1>1, <4>2, OwnInUse
    <3> QED BY <1>1, <1>2, <3>1, SubscriptionLeaves
  <2> QED BY <1>1, <1>2, <2>1, SubscriptionLeaves DEF SameLists
<1> QED BY <1>1, <1>2, TweetLeaves, TimelineLeaves DEF SameLists

LEMMA EntriesOtherStep ==
  ASSUME EntriesInv, NEW c \in Clients, Tweet(c) \/ Subscription(c) \/ Timeline(c)
  PROVE  Entries'
<1>1. NamesInv /\ Entries
  BY DEF EntriesInv
<1>2. ASSUME NEW i \in UserIdx, ~ InUse(i)', ~ Clearing(i)'
      PROVE  Blank(i)'
  <2>1. ~ InUse(i) /\ Blank(i)
    BY <1>1, <1>2, UseOtherStep DEF Entries
  <2>2. 0 .. LastCell - 1 \subseteq PendingTweetIdx
    BY EmptyStrIsNoValue DEF LastCell, PendingTweetIdx
  <2>3. FrontEmpty(i, LastCell)'
    BY <2>1, <2>2, FrontKept DEF Blank, FrontEmpty
  <2> QED BY <2>1, <2>3, ListsKept DEF Blank, NoSubscription
<1> QED BY <1>1, <1>2, UseOtherStep DEF Entries

LEMMA EntriesValidateStep ==
  ASSUME EntriesInv, NEW c \in Clients, Validate(c)
  PROVE  Entries'
<1>1. NamesInv /\ TypeInv /\ Alone /\ HasDone(c) /\ Entries /\ NameOf[c] \in Usernames
  BY ChildStepsAssumption DEF EntriesInv, NamesInv
<1>2. SameQueues /\ SameLists
  BY <1>1, ValidateLeaves
<1>3. ASSUME NEW i \in UserIdx, ~ InUse(i)', ~ Clearing(i)'
      PROVE  Blank(i)'
  <2>1. Blank(i)
    BY <1>1, <1>3, UseValidateStep DEF Entries
  <2>2. 0 .. LastCell - 1 \subseteq PendingTweetIdx
    BY EmptyStrIsNoValue DEF LastCell, PendingTweetIdx
  <2> QED BY <1>2, <2>1, <2>2 DEF Blank, FrontEmpty, NoSubscription, SameQueues, SameLists
<1> QED BY <1>1, <1>3, UseValidateStep DEF Entries

LEMMA EntriesExitStep ==
  ASSUME EntriesInv, NEW c \in Clients, Exit(c)
  PROVE  Entries'
<1>0. PICK own \in UserIdx : own = clientUserIdx[c]
  BY UseExitStep DEF EntriesInv
<1>1. /\ NamesInv /\ TypeInv /\ Entries /\ HasDone(c)
      /\ pc \in [Clients -> Waiting \cup ValidateSteps \cup InSession]
  BY Types DEF EntriesInv, NamesInv
<1>2. ASSUME NEW i \in UserIdx \ {own}
      PROVE  /\ InUse(i)' => activeUsers'[i].username \in Usernames
             /\ ~ InUse(i)' /\ ~ Clearing(i)' => Blank(i)'
  <2>1. activeUsers'[i] = activeUsers[i]
    BY <1>0, <1>1, ExitWrites
  <2> QED BY <1>0, <1>1, <2>1, UseExitStep DEF Entries, Blank, FrontEmpty, NoSubscription, Cell
<1>3. CASE pc'[c] \notin ClearSteps \cup {"left"}
  BY <1>1, <1>3, UseExitStep DEF Entries, Blank, FrontEmpty, NoSubscription, Cell
<1>4. CASE pc'[c] \in ClearSteps \cup {"left"}
  <2>1. ~ activeUsers'[own].isOccupied
    <3>1. CASE ClearOccupied(c)
      BY <1>0, <1>1, <3>1, Types DEF ClearOccupied, WriteUser, SharedUser, Entry
    <3>2. CASE BeginExit(c)
      BY <1>1, <1>4, <3>2 DEF BeginExit, Begin, ClearSteps
    <3>3. CASE ~ ClearOccupied(c) /\ ~ BeginExit(c)
      <4>1. pc[c] \in ClearSteps
        BY <3>3 DEF Exit, ClearSubscribedAll, ClearUsername, ClearSubscription, ClearPendingTweet,
                    ClearSteps
      <4> QED BY <1>0, <1>1, <3>3, <4>1, ExitLeaves DEF HasDone, Entry
    <3> QED BY <3>1, <3>2, <3>3
  <2>2. CASE pc'[c] \in ClearSteps
    BY <1>0, <1>1, <1>2, <2>1, <2>2, UseExitStep DEF Entries, InUse
  <2>3. CASE pc'[c] = "left"
    <3>1. ClearPendingTweet(c)
      BY <1>1, <2>3 DEF Exit, BeginExit, Begin, ClearOccupied, ClearSubscribedAll, ClearUsername,
                  ClearSubscription, Goto
    <3>2. pc[c] = "e_pending" /\ UNCHANGED activeUsers /\ ~ (local[c].cell < LastCell)
      BY <1>1, <2>3, <3>1 DEF ClearPendingTweet, Goto, shared, LastCell
    <3>3. /\ NoSubscription(own, MAX_SUBSCRIPTIONS) /\ FrontEmpty(own, local[c].cell)
          /\ ~ activeUsers[own].isSubscribedAll
      BY <1>0, <1>1, <3>2 DEF HasDone, ClearSteps, Entry
    <3>4. local[c].cell \in PendingTweetIdx
      BY <1>1, <3>2, Types DEF LocalsAt, QueueSteps
    <3>5. Blank(own)
      BY <3>2, <3>3, <3>4, EmptyStrIsNoValue DEF Blank, FrontEmpty, LastCell, PendingTweetIdx
    <3>6. Blank(own)'
      BY <3>2, <3>5 DEF Blank, FrontEmpty, NoSubscription, Cell
    <3> QED BY <1>2, <2>1, <3>6 DEF Entries, InUse
  <2> QED BY <1>4, <2>2, <2>3
<1> QED BY <1>3, <1>4

LEMMA HasDoneOtherStep ==
  ASSUME EntriesInv, NEW c \in Clients, Tweet(c) \/ Subscription(c) \/ Timeline(c),
         NEW d \in Clients
  PROVE  HasDone(d)'
<1>1. /\ NamesInv /\ TypeInv /\ HasDone(d)
      /\ clientUserIdx \in [Clients -> UserIdx \cup {INVALID_USER_INDEX}]
      /\ pc[d] \in InSession => clientUserIdx[d] \in UserIdx
      /\ local[d].userIdx \in UserIdx /\ LocalsAt(pc[d], local[d])
  BY Types DEF EntriesInv, NamesInv
<1>2. CASE d = c
  BY <1>2, UseOtherStep, Regions DEF EntriesInv, HasDone, ValidateSteps, ExitSteps, ClearSteps
<1>3. CASE d # c
  <2>1. pc'[d] = pc[d] /\ local'[d] = local[d]
    BY <1>1, <1>3, TweetMoves, SubscriptionMoves, TimelineMoves, OthersStay DEF TypeInv
  <2>2. pc[d] \in {"connected"} \cup ValidateSteps => storedTweets'[d] = storedTweets[d]
    <3>1. CASE CopyTweet(c)
      BY <1>1, <1>3, <3>1 DEF CopyTweet, TypeInv, HistoryType
    <3> QED BY <1>1, <3>1, TweetLeaves, SubscriptionLeaves, TimelineLeaves DEF SameQueues
  <2>3. CASE pc[d] \in ClearSteps
    <3>1. clientUserIdx'[d] = clientUserIdx[d] /\ clientUserIdx[d] \in UserIdx
      BY <1>1, <2>3, UseOtherStep, Regions DEF EntriesInv, InSession
    <3>2. PICK i \in UserIdx : i = clientUserIdx[d]
      BY <3>1
    <3>3. ~ activeUsers[i].isOccupied /\ ~ InUse(i) /\ ~ activeUsers'[i].isOccupied
      BY <1>1, <2>3, <3>2, UseOtherStep DEF HasDone, InUse, Entry, EntriesInv
    <3>4. \A j \in PendingTweetIdx : Cell(i, j) = EmptyStr => Cell(i, j)' = EmptyStr
      BY <3>3, FrontKept
    <3>5. /\ activeUsers'[i].subscriptions = activeUsers[i].subscriptions
          /\ activeUsers'[i].isSubscribedAll = activeUsers[i].isSubscribedAll
      BY <3>3, ListsKept
    <3>6. pc[d] = "e_pending" => 0 .. local[d].cell - 1 \subseteq PendingTweetIdx
      BY <1>1, EmptyStrIsNoValue DEF LocalsAt, QueueSteps, PendingTweetIdx
    <3>7. pc[d] \notin {"connected"} \cup ValidateSteps
      BY <2>3, Regions DEF Waiting
    <3> QED BY <1>1, <2>1, <2>3, <3>1, <3>2, <3>3, <3>4, <3>5, <3>6, <3>7
            DEF HasDone, Entry, NoSubscription, FrontEmpty, Cell, ValidateSteps
  <2>4. CASE pc[d] \notin ClearSteps
    <3>1. pc[d] = "v_occupy" => ~ activeUsers'[local'[d].userIdx].isOccupied
      BY <1>1, <2>1, UseOtherStep DEF HasDone
    <3> QED BY <1>1, <2>1, <2>2, <2>4, <3>1 DEF HasDone, ClearSteps
  <2> QED BY <2>3, <2>4
<1> QED BY <1>2, <1>3

LEMMA HasDoneValidateStep ==
  ASSUME EntriesInv, Alone', NEW c \in Clients, Validate(c), NEW d \in Clients
  PROVE  HasDone(d)'
<1>1. /\ NamesInv /\ TypeInv /\ Control /\ Alone /\ HasDone(c) /\ HasDone(d)
      /\ storedTweets' = storedTweets
  BY ValidateLeaves DEF EntriesInv, NamesInv, TypeInv, SameQueues
<1>2. CASE d = c
  <2>1. storedTweets[c] = <<>>
    BY <1>1, UseValidateStep DEF HasDone
  <2> QED BY <1>1, <1>2, <2>1, UseValidateStep, Regions DEF HasDone, ClearSteps, ExitSteps
<1>3. CASE d # c
  <2>1. pc'[d] = pc[d] /\ pc[d] \notin ValidateSteps \cup ExitSteps
    BY <1>1, <1>3, OneAtATime
  <2> QED BY <1>1, <2>1, Regions DEF HasDone, ClearSteps, ExitSteps, ValidateSteps
<1> QED BY <1>2, <1>3

LEMMA HasDoneExitStep ==
  ASSUME EntriesInv, Alone', NEW c \in Clients, Exit(c), NEW d \in Clients
  PROVE  HasDone(d)'
<1>1. /\ NamesInv /\ TypeInv /\ Control /\ Alone /\ HasDone(c) /\ HasDone(d)
      /\ storedTweets' = storedTweets
      /\ activeUsers \in [UserIdx -> SharedUser]
      /\ clientUserIdx \in [Clients -> UserIdx \cup {INVALID_USER_INDEX}]
      /\ pc \in [Clients -> Waiting \cup ValidateSteps \cup InSession]
      /\ local \in [Clients -> Locals]
      /\ LocalsAt(pc[c], local[c])
  BY ExitLeaves, Types DEF EntriesInv, NamesInv
<1>2. PICK own \in UserIdx : own = clientUserIdx[c]
  BY UseExitStep DEF EntriesInv
<1>3. CASE d # c
  <2>1. /\ pc'[d] = pc[d] /\ local'[d] = local[d] /\ pc[d] \notin ValidateSteps
        /\ clientUserIdx'[d] = clientUserIdx[d]
    BY <1>1, <1>3, OneAtATime, ExitWrites
  <2>2. CASE pc[d] \in ClearSteps
    <3>1. HasEntry(d) /\ HasEntry(c) /\ clientUserIdx[d] \in UserIdx
      BY <1>1, <1>2, <2>2, Types, Regions, EmptyStrIsNoValue DEF InSession, HasEntry
    <3>2. PICK i \in UserIdx : i = clientUserIdx[d]
      BY <3>1
    <3>3. activeUsers'[i] = activeUsers[i]
      BY <1>1, <1>2, <1>3, <3>1, <3>2, ExitWrites DEF NamesInv, Seats
    <3> QED BY <1>1, <2>1, <3>2, <3>3
            DEF HasDone, Entry, NoSubscription, FrontEmpty, Cell, ValidateSteps
  <2>3. CASE pc[d] \notin ClearSteps
    BY <1>1, <2>1, <2>3 DEF HasDone, ClearSteps, ValidateSteps
  <2> QED BY <2>2, <2>3
<1>4. CASE d = c
  <2>1. pc'[c] \in ExitSteps \cup {"left"}
    BY <1>1, ExitMoves, MovesTo
  <2>2. pc'[c] \notin {"connected"} \cup ValidateSteps
    BY <2>1, Regions
  <2>3. pc[c] # "e_occupied" /\ pc[c] # "ready" => pc[c] \in ClearSteps
    BY <1>1, ExitWrites DEF ExitSteps
  <2>4. CASE BeginExit(c)
    BY <1>1, <1>4, <2>2, <2>4 DEF BeginExit, Begin, HasDone, ClearSteps, ValidateSteps
  <2>5. CASE ClearOccupied(c)
    <3>1. ~ activeUsers'[own].isOccupied /\ pc'[c] = "e_all" /\ clientUserIdx' = clientUserIdx
      BY <1>1, <1>2, <2>5 DEF ClearOccupied, WriteUser, Goto, SharedUser, Entry
    <3> QED BY <1>2, <1>4, <2>2, <3>1 DEF HasDone, Entry, ClearSteps, ValidateSteps
  <2>6. CASE ClearSubscribedAll(c)
    <3> DEFINE u == [Entry(c) EXCEPT !.isSubscribedAll = FALSE]
    <3>1. /\ pc[c] = "e_all" /\ pc'[c] = "e_username" /\ clientUserIdx' = clientUserIdx
          /\ activeUsers' = [activeUsers EXCEPT ![own] = u]
      BY <1>1, <1>2, <2>6 DEF ClearSubscribedAll, ClearField, WriteUser, Goto
    <3>2. ~ u.isSubscribedAll /\ u.isOccupied = activeUsers[own].isOccupied
      BY <1>1, <1>2 DEF SharedUser, Entry
    <3> HIDE DEF u
    <3>3. ~ activeUsers'[own].isSubscribedAll /\ ~ activeUsers'[own].isOccupied
      BY <1>1, <1>2, <3>1, <3>2 DEF HasDone, Entry, ClearSteps
    <3> QED BY <1>2, <1>4, <2>2, <3>1, <3>3 DEF HasDone, Entry, ClearSteps, ValidateSteps
  <2>7. CASE ClearUsername(c)
    <3> DEFINE u == [Entry(c) EXCEPT !.username = EmptyStr]
    <3>1. /\ pc[c] = "e_username" /\ pc'[c] = "e_subscriptions" /\ clientUserIdx' = clientUserIdx
          /\ activeUsers' = [activeUsers EXCEPT ![own] = u] /\ local'[c] = local[c]
      BY <1>1, <1>2, <2>7 DEF ClearUsername, ClearField, WriteUser, Goto
    <3>2. /\ u.isSubscribedAll = activeUsers[own].isSubscribedAll
          /\ u.isOccupied = activeUsers[own].isOccupied
      BY <1>1, <1>2 DEF SharedUser, Entry
    <3> HIDE DEF u
    <3>3. ~ activeUsers'[own].isSubscribedAll /\ ~ activeUsers'[own].isOccupied
      BY <1>1, <1>2, <3>1, <3>2 DEF HasDone, Entry, ClearSteps
    <3>4. local'[c].cell = 0
      BY <1>1, <3>1, StartConstants DEF LocalsAt, FirstSteps
    <3> QED BY <1>2, <1>4, <2>2, <3>1, <3>3, <3>4
            DEF HasDone, Entry, NoSubscription, ClearSteps, ValidateSteps
  <2>8. CASE ClearSubscription(c)
    <3> DEFINE list == [activeUsers[own].subscriptions EXCEPT ![local[c].cell] = EmptyStr]
               u == [activeUsers[own] EXCEPT !.subscriptions = list]
    <3>1. /\ pc[c] = "e_subscriptions" /\ clientUserIdx' = clientUserIdx
          /\ activeUsers' = [activeUsers EXCEPT ![own] = u]
          /\ \/ local[c].cell + 1 < MAX_SUBSCRIPTIONS /\ pc'[c] = "e_subscriptions"
                  /\ local'[c] = [local[c] EXCEPT !.cell = @ + 1]
             \/ ~ (local[c].cell + 1 < MAX_SUBSCRIPTIONS) /\ pc'[c] = "e_pending" /\ local'[c] = NoLocals
      BY <1>1, <1>2, <2>8 DEF ClearSubscription, ClearField, WriteUser, Goto, Entry
    <3>2. local[c].cell \in SubscriptionIdx /\ local[c] \in Locals
      BY <1>1, <3>1 DEF LocalsAt, CellSteps
    <3>3. \A s \in SubscriptionIdx :
            list[s] = IF s = local[c].cell THEN EmptyStr ELSE activeUsers[own].subscriptions[s]
      BY <1>1, <1>2 DEF SharedUser
    <3> HIDE DEF list
    <3>4. /\ u.isSubscribedAll = activeUsers[own].isSubscribedAll
          /\ u.isOccupied = activeUsers[own].isOccupied /\ u.subscriptions = list
      BY <1>1, <1>2 DEF SharedUser
    <3> HIDE DEF u
    <3>5. /\ ~ activeUsers'[own].isSubscribedAll /\ ~ activeUsers'[own].isOccupied
          /\ activeUsers'[own].subscriptions = list
      BY <1>1, <1>2, <3>1, <3>4 DEF HasDone, Entry, ClearSteps
    <3>6. \A s \in 0 .. local[c].cell : list[s] = EmptyStr
      BY <1>1, <1>2, <3>1, <3>2, <3>3, EmptyStrIsNoValue DEF HasDone, NoSubscription, SubscriptionIdx
    <3>7. CASE pc'[c] = "e_subscriptions"
      <4>1. local'[c].cell = local[c].cell + 1
        BY <3>1, <3>2, <3>7 DEF Locals
      <4>2. \A s \in 0 .. local'[c].cell - 1 : activeUsers'[own].subscriptions[s] = EmptyStr
        BY <3>2, <3>5, <3>6, <4>1 DEF SubscriptionIdx
      <4> QED BY <1>2, <1>4, <2>2, <3>1, <3>5, <3>7, <4>1, <4>2
              DEF HasDone, Entry, NoSubscription, ClearSteps, ValidateSteps
    <3>8. CASE pc'[c] = "e_pending"
      <4>1. local'[c].cell = 0 /\ local[c].cell = MAX_SUBSCRIPTIONS - 1
        BY <3>1, <3>2, <3>8, StartConstants, EmptyStrIsNoValue DEF SubscriptionIdx
      <4> QED BY <1>2, <1>4, <2>2, <3>1, <3>5, <3>6, <3>8, <4>1
              DEF HasDone, Entry, NoSubscription, FrontEmpty, ClearSteps, ValidateSteps
    <3> QED BY <3>1, <3>7, <3>8
  <2>9. CASE ClearPendingTweet(c)
    <3>1. CASE Reply(c, "left")
      <4>1. pc'[c] = "left"
        BY <1>1, <3>1 DEF Reply
      <4> QED BY <1>4, <2>2, <4>1 DEF HasDone, ClearSteps, ValidateSteps
    <3>2. CASE ~ Reply(c, "left")
      <4> DEFINE q == [activeUsers[own].pendingTweets EXCEPT ![local[c].cell] = EmptyStr]
                 u == [activeUsers[own] EXCEPT !.pendingTweets = q]
      <4>1. /\ pc[c] = "e_pending" /\ clientUserIdx' = clientUserIdx /\ pc'[c] = "e_pending"
            /\ activeUsers' = [activeUsers EXCEPT ![own] = u]
            /\ local'[c] = [local[c] EXCEPT !.cell = @ + 1]
        BY <1>1, <1>2, <2>9, <3>2 DEF ClearPendingTweet, ClearField, WriteUser, Goto, Entry
      <4>2. local[c].cell \in PendingTweetIdx /\ local'[c].cell = local[c].cell + 1
        BY <1>1, <4>1 DEF LocalsAt, QueueSteps, Locals
      <4>3. \A j \in PendingTweetIdx :
              q[j] = IF j = local[c].cell THEN EmptyStr ELSE activeUsers[own].pendingTweets[j]
        BY <1>1, <1>2 DEF SharedUser
      <4> HIDE DEF q
      <4>4. /\ u.isSubscribedAll = activeUsers[own].isSubscribedAll
            /\ u.isOccupied = activeUsers[own].isOccupied
            /\ u.subscriptions = activeUsers[own].subscriptions /\ u.pendingTweets = q
        BY <1>1, <1>2 DEF SharedUser
      <4> HIDE DEF u
      <4>5. /\ ~ activeUsers'[own].isSubscribedAll /\ ~ activeUsers'[own].isOccupied
            /\ activeUsers'[own].pendingTweets = q /\ NoSubscription(own, MAX_SUBSCRIPTIONS)'
        BY <1>1, <1>2, <4>1, <4>4 DEF HasDone, Entry, ClearSteps, NoSubscription
      <4>6. \A j \in 0 .. local[c].cell : q[j] = EmptyStr
        BY <1>1, <1>2, <4>1, <4>2, <4>3, EmptyStrIsNoValue DEF HasDone, FrontEmpty, Cell, PendingTweetIdx
      <4>7. \A j \in 0 .. local'[c].cell - 1 : activeUsers'[own].pendingTweets[j] = EmptyStr
        BY <4>2, <4>5, <4>6 DEF PendingTweetIdx
      <4> QED BY <1>2, <1>4, <2>2, <4>1, <4>2, <4>5, <4>7
              DEF HasDone, Entry, NoSubscription, FrontEmpty, Cell, ClearSteps, ValidateSteps
    <3> QED BY <3>1, <3>2
  <2> QED BY <2>4, <2>5, <2>6, <2>7, <2>8, <2>9 DEF Exit
<1> QED BY <1>3, <1>4

(* The place that a tweet has reached in the table.                        *)
LEMMA VisitsStep ==
  ASSUME EntriesInv, Alone', NEW c \in Clients, NEW t \in Clients,
         Validate(c) \/ Tweet(c) \/ Subscription(c) \/ Timeline(c) \/ Exit(c)
  PROVE  Visits(t)'
<1>1. /\ NamesInv /\ TypeInv /\ Control /\ Alone /\ HasDone(c) /\ Visits(t) /\ Entries
      /\ local[t].userIdx \in UserIdx /\ local \in [Clients -> Locals]
      /\ pc \in [Clients -> Waiting \cup ValidateSteps \cup InSession]
      /\ RequestAt(pc[t], request[t]) /\ LocalsAt(pc[t], local[t])
      /\ activeUsers \in [UserIdx -> SharedUser] /\ LatestSound(c)
  BY Types DEF EntriesInv, NamesInv
<1>2. CASE ~ Tweet(c) /\ t = c
  <2>1. pc'[c] \notin TweetSteps
    <3>1. CASE Validate(c)
      BY <1>1, <3>1, UseValidateStep
    <3>2. CASE Subscription(c)
      BY <1>1, <3>2, SubscriptionMoves, MovesTo, Regions
    <3>3. CASE Timeline(c)
      BY <1>1, <3>3, TimelineMoves, MovesTo, Regions
    <3>4. CASE Exit(c)
      BY <1>1, <3>4, ExitMoves, MovesTo, Regions
    <3> QED BY <1>2, <3>1, <3>2, <3>3, <3>4
  <2> QED BY <1>2, <2>1 DEF Visits, TweetSteps
<1>3. CASE t # c
  <2>1. pc'[t] = pc[t] /\ local'[t] = local[t]
    BY <1>1, <1>3, OneAtATime
  <2>2. CASE pc[t] \in TweetSteps
    <3>1. PICK i \in UserIdx : i = local[t].userIdx
      BY <1>1
    <3>2. /\ activeUsers[i].isOccupied => activeUsers'[i].isOccupied
          /\ InUse(i) => InUse(i)'
      BY <1>1, <1>3, <2>2, OneAtATime, UseOtherStep, UseValidateStep
    <3> QED BY <1>1, <2>1, <3>1, <3>2 DEF Visits
  <2>3. CASE pc[t] \notin TweetSteps
    BY <2>1, <2>3 DEF Visits, TweetSteps
  <2> QED BY <2>2, <2>3
<1>4. CASE Tweet(c) /\ t = c
  <2> DEFINE l == local[c]
             u == activeUsers[l.userIdx]
  <2>1. \A i \in UserIdx : (InUse(i)' <=> InUse(i)) /\ activeUsers'[i].isOccupied = activeUsers[i].isOccupied
    BY <1>1, <1>4, UseOtherStep
  <2>2. PICK i \in UserIdx : i = l.userIdx
    BY <1>1, <1>4
  <2>3. u.isOccupied /\ (u.isSubscribedAll \/ \E s \in SubscriptionIdx : u.subscriptions[s] # EmptyStr)
          => InUse(i)
    <3>1. ASSUME ~ InUse(i), u.isOccupied
          PROVE  Blank(i)
      <4>1. ~ Clearing(i)
        BY <2>2, <3>1 DEF Clearing, EntriesInv, HasDone, Entry
      <4> QED BY <1>1, <3>1, <4>1 DEF Entries
    <3> QED BY <2>2, <3>1 DEF Blank, NoSubscription, SubscriptionIdx
  <2>4. ASSUME NEW there, NEW m, Goto(c, there, m), m.userIdx = i,
               there \in UpdateSteps \ {"u_occupied"} => u.isOccupied,
               there \in AddSteps => InUse(i)
        PROVE  Visits(t)'
    <3>1. pc'[c] = there /\ local'[c] = m
      BY <1>1, <2>4 DEF Goto
    <3> QED BY <1>4, <2>1, <2>2, <2>4, <3>1 DEF Visits
  <2>5. ASSUME NEW there, NEW m, Goto(c, there, m), there \in StoreSteps \cup {"u_occupied"}
        PROVE  Visits(t)'
    <3>1. pc'[c] = there
      BY <1>1, <2>5 DEF Goto
    <3> QED BY <1>4, <2>5, <3>1 DEF Visits, StoreSteps, UpdateSteps, AddSteps
  <2>6. ASSUME NEW state \in Waiting, Reply(c, state)
        PROVE  Visits(t)'
    <3>1. pc'[c] = state
      BY <1>1, <2>6 DEF Reply
    <3> QED BY <1>4, <2>6, <3>1 DEF Visits, Waiting, UpdateSteps, AddSteps
  <2>7. "ready" \in Waiting /\ "crashed" \in Waiting
    BY DEF Waiting
  <2>8. NextUser(c) => Visits(t)'
    BY <2>5, <2>6, <2>7 DEF NextUser
  <2>9. ASSUME NEW tags \in TagLists, BeginTweet(c, tags)
        PROVE  Visits(t)'
    <3>1. pc'[c] = "t_username"
      BY <1>1, <2>9 DEF BeginTweet, Begin
    <3> QED BY <1>4, <3>1 DEF Visits, UpdateSteps, AddSteps
  <2>10. CASE StoreUsername(c) \/ StoreText(c) \/ StoreCount(c)
    BY <2>5, <2>10 DEF StoreUsername, StoreText, StoreCount, StoreSteps
  <2>11. CASE ClearHashtag(c) \/ MoreHashtags(c)
    BY <2>5, <2>11 DEF ClearHashtag, MoreHashtags, StoreSteps
  <2>12. CASE StoreHashtag(c)
    BY <2>5, <2>6, <2>7, <2>12 DEF StoreHashtag, StoreSteps
  <2>13. CASE UpdateOccupied(c)
    BY <2>2, <2>4, <2>8, <2>13 DEF UpdateOccupied, AddSteps
  <2>14. CASE UpdateSubscribedAll(c)
    <3>1. u.isOccupied
      BY <1>1, <1>4, <2>14 DEF UpdateSubscribedAll, Visits, UpdateSteps
    <3>2. CASE u.isSubscribedAll /\ Goto(c, "a_to", l)
      BY <2>2, <2>3, <2>4, <3>1, <3>2 DEF UpdateSteps
    <3>3. CASE Goto(c, "u_more", l)
      BY <2>2, <2>4, <3>1, <3>3 DEF AddSteps
    <3> QED BY <2>14, <3>2, <3>3 DEF UpdateSubscribedAll
  <2>15. CASE MoreToMatch(c)
    <3>1. u.isOccupied /\ l \in Locals
      BY <1>1, <1>4, <2>15 DEF MoreToMatch, Visits, UpdateSteps
    <3>2. CASE Goto(c, "u_match", l)
      BY <2>2, <2>4, <3>1, <3>2 DEF AddSteps
    <3>3. CASE Goto(c, "u_more", [l EXCEPT !.cell = @ + 1, !.hashtagIdx = 0])
      <4> DEFINE m == [l EXCEPT !.cell = @ + 1, !.hashtagIdx = 0]
      <4>1. m.userIdx = i
        BY <2>2, <3>1 DEF Locals
      <4>2. Goto(c, "u_more", m)
        BY <3>3
      <4> HIDE DEF m
      <4> QED BY <2>4, <3>1, <4>1, <4>2 DEF AddSteps
    <3> QED BY <2>8, <2>15, <3>2, <3>3 DEF MoreToMatch
  <2>16. CASE Match(c)
    <3>1. u.isOccupied /\ l \in Locals
      BY <1>1, <1>4, <2>16 DEF Match, Visits, UpdateSteps
    <3>2. CASE u.subscriptions[l.cell] = latestTweet.hashtags[l.hashtagIdx] /\ Goto(c, "a_to", l)
      <4>1. l.cell \in SubscriptionIdx
        BY <1>1, <1>4, <2>16 DEF Match, LocalsAt, CellSteps
      <4>2. latestTweet.hashtags[l.hashtagIdx] # EmptyStr
        <5>1. pc[c] = "u_match" /\ Written(c) /\ Counted(c)
          BY <1>1, <2>16 DEF Match, LatestSound, TweetSteps, UpdateSteps
        <5>2. /\ l.hashtagIdx < Len(request[c].tags) /\ l.hashtagIdx \in HashtagIdx
              /\ l.hashtagIdx \in Nat /\ request[c].tags \in Seq(Hashtags)
          BY <1>1, <1>4, <5>1, StartConstants
             DEF Counted, LocalsAt, HashtagSteps, HashtagIdx, Locals, RequestAt, TweetSteps, UpdateSteps
        <5>3. request[c].tags[l.hashtagIdx + 1] \in Hashtags
          BY <5>2
        <5>4. latestTweet.hashtags[l.hashtagIdx] = request[c].tags[l.hashtagIdx + 1]
          BY <5>1, <5>2 DEF Written, TagOf, UpdateSteps
        <5> QED BY <5>3, <5>4, UserTableAssumption DEF Subscribable
      <4> QED BY <2>2, <2>3, <2>4, <3>1, <3>2, <4>1, <4>2 DEF UpdateSteps
    <3>3. CASE Goto(c, "u_more", [l EXCEPT !.hashtagIdx = @ + 1])
      <4>1. PICK m : Goto(c, "u_more", m) /\ m.userIdx = i
        BY <2>2, <3>1, <3>3 DEF Locals
      <4> QED BY <2>2, <2>4, <3>1, <4>1 DEF AddSteps
    <3> QED BY <2>16, <3>2, <3>3 DEF Match
  <2>17. CASE FormatTo(c) \/ FormatFrom(c) \/ FormatText(c) \/ FormatTag(c) \/ FindTweetCell(c)
    <3>1. InUse(i) /\ l \in Locals
      BY <1>1, <1>4, <2>2, <2>17 DEF FormatTo, FormatFrom, FormatText, FormatTag, FindTweetCell,
         Visits, AddSteps
    <3>2. ASSUME NEW there \in AddSteps, NEW m, Goto(c, there, m), m.userIdx = i
          PROVE  Visits(t)'
      <4>1. u.isOccupied
        BY <2>2, <3>1 DEF InUse
      <4> QED BY <2>4, <3>1, <3>2, <4>1
    <3>3. \A v : /\ [l EXCEPT !.item.to = v].userIdx = i
                 /\ [l EXCEPT !.item.from = v].userIdx = i
                 /\ [l EXCEPT !.item.text = v].userIdx = i
                 /\ [l EXCEPT !.item.tag = v, !.cell = 0].userIdx = i
                 /\ [l EXCEPT !.cell = @ + 1].userIdx = i
      BY <2>2, <3>1 DEF Locals
    <3>4. CASE FormatTo(c) \/ FormatFrom(c) \/ FormatText(c)
      BY <3>2, <3>3, <3>4 DEF FormatTo, FormatFrom, FormatText, AddSteps
    <3>5. CASE FormatTag(c)
      BY <3>2, <3>3, <3>5 DEF FormatTag, AddSteps
    <3>6. CASE FindTweetCell(c)
      BY <2>2, <2>8, <3>2, <3>3, <3>6 DEF FindTweetCell, AddSteps
    <3> QED BY <2>17, <3>4, <3>5, <3>6
  <2>18. CASE PutTweet(c)
    BY <2>8, <2>18 DEF PutTweet
  <2> QED BY <1>4, <2>9, <2>10, <2>11, <2>12, <2>13, <2>14, <2>15, <2>16, <2>17, <2>18 DEF Tweet
<1> QED BY <1>2, <1>3, <1>4

LEMMA EntriesInit ==
  ASSUME RegistersAlone, TweetsAlone, Init
  PROVE  EntriesInv
<1>1. NamesInv /\ TypeInv /\ Overlapping
  BY NamesInit DEF NamesInv
<1>2. \A c \in Clients : pc[c] \in {"connected", "ready"} /\ storedTweets[c] = <<>>
  BY DEF Init
<1>3. \A c \in Clients : LatestSound(c) /\ HasDone(c) /\ Visits(c)
  BY <1>2 DEF LatestSound, HasDone, Visits, TweetSteps, StoreSteps, UpdateSteps, AddSteps, ClearSteps
<1>4. Entries
  <2>1. ASSUME NEW i \in UserIdx
        PROVE  /\ InUse(i) <=> UsersAtStart[i].isOccupied
               /\ activeUsers[i] = UsersAtStart[i]
    BY <1>2 DEF Init, InUse, Taking
  <2>2. ASSUME NEW i \in UserIdx, UsersAtStart[i].isOccupied
        PROVE  UsersAtStart[i].username \in Usernames
    <3>1. UsersAtStart[i] \in User
      BY ChildStepsAssumption
    <3> QED BY <2>2, <3>1, StartAssumption DEF User
  <2>3. ASSUME NEW i \in UserIdx, ~ UsersAtStart[i].isOccupied
        PROVE  Blank(i)
    <3>1. 0 .. LastCell - 1 \subseteq PendingTweetIdx
      BY EmptyStrIsNoValue DEF LastCell, PendingTweetIdx
    <3> QED BY <2>1, <2>3, <3>1, StartAssumption
            DEF FreeIsClean, Blank, FrontEmpty, NoSubscription, SubscriptionIdx, Cell
  <2> QED BY <2>1, <2>2, <2>3 DEF Entries
<1> QED BY <1>1, <1>3, <1>4, AreAlone DEF EntriesInv

LEMMA EntriesStep ==
  ASSUME RegistersAlone, TweetsAlone, EntriesInv, NEW c \in Clients,
         Validate(c) \/ Tweet(c) \/ Subscription(c) \/ Timeline(c) \/ Exit(c)
  PROVE  EntriesInv'
<1>1. NamesInv'
  BY NamesStep DEF EntriesInv
<1>2. Alone'
  BY <1>1, StayAlone DEF NamesInv
<1>3. Entries'
  BY EntriesOtherStep, EntriesValidateStep, EntriesExitStep
<1>4. \A d \in Clients : HasDone(d)'
  BY <1>2, HasDoneOtherStep, HasDoneValidateStep, HasDoneExitStep
<1>5. \A d \in Clients : LatestSound(d)' /\ Visits(d)'
  BY <1>2, VisitsStep, LatestSoundStep DEF EntriesInv, NamesInv
<1> QED BY <1>1, <1>2, <1>3, <1>4, <1>5 DEF EntriesInv

LEMMA EntriesStutter == EntriesInv /\ UNCHANGED vars => EntriesInv'
<1> SUFFICES ASSUME EntriesInv, UNCHANGED vars PROVE EntriesInv'
  OBVIOUS
<1>1. UNCHANGED <<activeUsers, latestTweet, pc, request, clientUserIdx, local, storedTweets, sent>>
  BY DEF vars, shared, history
<1>2. NamesInv' /\ Alone'
  BY <1>1, NamesStutter DEF EntriesInv, Alone
<1>3. Entries'
  BY <1>1 DEF EntriesInv, Entries, InUse, Taking, Clearing, Blank, FrontEmpty, NoSubscription, Cell
<1>4. ASSUME NEW c \in Clients
      PROVE  LatestSound(c)' /\ HasDone(c)' /\ Visits(c)'
  <2>1. LatestSound(c)'
    BY <1>1 DEF EntriesInv, LatestSound, IsLast, Written, Counted
  <2>2. HasDone(c)' /\ Visits(c)'
    BY <1>1 DEF EntriesInv, HasDone, Visits, InUse, Taking, FrontEmpty, NoSubscription, Cell, Entry
  <2> QED BY <2>1, <2>2
<1> QED BY <1>2, <1>3, <1>4 DEF EntriesInv

-----------------------------------------------------------------------------
(* The tweets that wait and those that were shown                          *)

(* What a tweet has formatted, and the cell that it has found.             *)
Formatting(t) ==
  LET item == local[t].item
  IN  /\ pc[t] \in AddSteps \ {"a_to"} => item.to = activeUsers[local[t].userIdx].username
      /\ pc[t] \in AddSteps \ {"a_to", "a_from"} => item.from = NameOf[t]
      /\ pc[t] \in {"a_tag", "a_scan", "a_put"} => item.text = request[t].text
      /\ pc[t] \in {"a_scan", "a_put"} => Genuine(item)
      /\ pc[t] = "a_put" => Cell(local[t].userIdx, local[t].cell) = EmptyStr

(* The tweet that timeline has found is still there.                       *)
Holds(c) ==
  pc[c] \in {"l_copy", "l_clear"} => Cell(clientUserIdx[c], local[c].cell) # EmptyStr

AllGenuine ==
  /\ \A i \in UserIdx, j \in PendingTweetIdx : Cell(i, j) # EmptyStr => Genuine(Cell(i, j))
  /\ \A c \in Clients : \A k \in DOMAIN storedTweets[c] : Genuine(storedTweets[c][k])

Addressed ==
  \A i \in UserIdx : InUse(i) =>
    \A j \in 0 .. LastCell - 1 : Cell(i, j) # EmptyStr => Cell(i, j).to = activeUsers[i].username

(* The only tweet to somebody else that is ever shown was in the last cell.*)
Foreign(c, k) == storedTweets[c][k].to # NameOf[c]

Reading(c, j) == pc[c] = "l_clear" /\ j = local[c].cell

Stray(c) ==
  /\ \A k, m \in DOMAIN storedTweets[c] : Foreign(c, k) /\ Foreign(c, m) => k = m
  /\ HasEntry(c) /\ (\E k \in DOMAIN storedTweets[c] : Foreign(c, k)) =>
       LET last == Cell(clientUserIdx[c], LastCell)
       IN  last = EmptyStr \/ last.to = NameOf[c] \/ Reading(c, LastCell)

TornInv ==
  /\ EntriesInv
  /\ AllGenuine /\ Addressed
  /\ \A c \in Clients : Formatting(c) /\ Holds(c) /\ Stray(c)

(* The one cell that a step changes.                                       *)
LEMMA CellsChange ==
  ASSUME TypeInv, NEW c \in Clients,
         Validate(c) \/ Tweet(c) \/ Subscription(c) \/ Timeline(c) \/ Exit(c),
         NEW i \in UserIdx, NEW j \in PendingTweetIdx
  PROVE  \/ Cell(i, j)' = Cell(i, j)
         \/ /\ PutTweet(c) /\ i = local[c].userIdx /\ j = local[c].cell
            /\ Cell(i, j)' = local[c].item
         \/ /\ ClearTweet(c) \/ ClearPendingTweet(c)
            /\ i = clientUserIdx[c] /\ j = local[c].cell
            /\ Cell(i, j)' = EmptyStr
<1>1. SameQueues => Cell(i, j)' = Cell(i, j)
  BY DEF SameQueues
<1>2. PutTweet(c) \/ ClearTweet(c) \/ ClearPendingTweet(c) =>
        local[c].cell \in PendingTweetIdx /\ local[c].userIdx \in UserIdx
  BY Types DEF PutTweet, ClearTweet, ClearPendingTweet, LocalsAt, QueueSteps
<1>3. CASE PutTweet(c)
  <2>1. WriteTweetCell(local[c].userIdx, local[c].cell, local[c].item)
    BY <1>3 DEF PutTweet
  <2>2. PICK k \in UserIdx, m \in PendingTweetIdx :
          k = local[c].userIdx /\ m = local[c].cell
    BY <1>2, <1>3
  <2>3. /\ Cell(k, m)' = local[c].item
        /\ i # k \/ j # m => Cell(i, j)' = Cell(i, j)
    BY <2>1, <2>2, CellWritten
  <2> QED BY <1>3, <2>2, <2>3
<1>4. CASE ClearTweet(c)
  <2>1. WriteTweetCell(clientUserIdx[c], local[c].cell, EmptyStr) /\ pc[c] \in InSession
    BY <1>4 DEF ClearTweet, InSession, TimelineSteps
  <2>2. PICK k \in UserIdx, m \in PendingTweetIdx : k = clientUserIdx[c] /\ m = local[c].cell
    BY <1>2, <1>4, <2>1, Types
  <2>3. /\ Cell(k, m)' = EmptyStr
        /\ i # k \/ j # m => Cell(i, j)' = Cell(i, j)
    BY <2>1, <2>2, CellWritten
  <2> QED BY <1>4, <2>2, <2>3
<1>5. CASE ClearPendingTweet(c)
  <2>1. \/ UNCHANGED activeUsers
        \/ WriteTweetCell(clientUserIdx[c], local[c].cell, EmptyStr)
    BY <1>5 DEF ClearPendingTweet, ClearField, WriteTweetCell, WriteUser, Entry, shared
  <2>2. pc[c] \in InSession
    BY <1>5 DEF ClearPendingTweet, InSession, ExitSteps, ClearSteps
  <2>3. PICK k \in UserIdx, m \in PendingTweetIdx : k = clientUserIdx[c] /\ m = local[c].cell
    BY <1>2, <1>5, <2>2, Types
  <2>4. CASE WriteTweetCell(k, m, EmptyStr)
    <3>1. /\ Cell(k, m)' = EmptyStr
          /\ i # k \/ j # m => Cell(i, j)' = Cell(i, j)
      BY <2>4, CellWritten
    <3> QED BY <1>5, <2>3, <3>1
  <2>5. CASE UNCHANGED activeUsers
    BY <2>5 DEF Cell
  <2> QED BY <2>1, <2>3, <2>4, <2>5
<1>6. CASE CopyTweet(c)
  BY <1>6 DEF CopyTweet, shared, Cell
<1>7. CASE ~ (PutTweet(c) \/ ClearTweet(c) \/ ClearPendingTweet(c) \/ CopyTweet(c))
  BY <1>1, <1>7, ValidateLeaves, TweetLeaves, SubscriptionLeaves, TimelineLeaves, ExitLeaves
<1> QED BY <1>3, <1>4, <1>5, <1>6, <1>7

(* The one reply that a step changes.                                      *)
LEMMA StoredChange ==
  ASSUME TypeInv, NEW c \in Clients,
         Validate(c) \/ Tweet(c) \/ Subscription(c) \/ Timeline(c) \/ Exit(c)
  PROVE  \/ ~ CopyTweet(c) /\ storedTweets' = storedTweets
         \/ /\ CopyTweet(c)
            /\ \A d \in Clients \ {c} : storedTweets'[d] = storedTweets[d]
            /\ DOMAIN storedTweets'[c] = 1 .. Len(storedTweets[c]) + 1
            /\ DOMAIN storedTweets[c] = 1 .. Len(storedTweets[c]) /\ Len(storedTweets[c]) \in Nat
            /\ \A k \in DOMAIN storedTweets[c] : storedTweets'[c][k] = storedTweets[c][k]
            /\ storedTweets'[c][Len(storedTweets[c]) + 1] = Cell(clientUserIdx[c], local[c].cell)
<1>1. CASE CopyTweet(c)
  <2> DEFINE item == Cell(clientUserIdx[c], local[c].cell)
  <2>1. storedTweets' = [storedTweets EXCEPT ![c] = Append(storedTweets[c], item)]
    BY <1>1 DEF CopyTweet, Entry, Cell
  <2>2. item \in Formatted \cup {EmptyStr}
    BY <1>1, Types DEF CopyTweet, LocalsAt, QueueSteps, InSession, TimelineSteps
  <2>3. storedTweets \in [Clients -> Seq(Formatted \cup {EmptyStr})]
    BY DEF TypeInv, HistoryType
  <2> HIDE DEF item
  <2>4. /\ \A d \in Clients \ {c} : storedTweets'[d] = storedTweets[d]
        /\ storedTweets'[c] = Append(storedTweets[c], item)
        /\ storedTweets[c] \in Seq(Formatted \cup {EmptyStr})
    BY <2>1, <2>3
  <2>5. ASSUME NEW s \in Seq(Formatted \cup {EmptyStr})
        PROVE  /\ DOMAIN Append(s, item) = 1 .. Len(s) + 1 /\ DOMAIN s = 1 .. Len(s) /\ Len(s) \in Nat
               /\ \A k \in DOMAIN s : Append(s, item)[k] = s[k]
               /\ Append(s, item)[Len(s) + 1] = item
    BY <2>2
  <2> QED BY <1>1, <2>4, <2>5 DEF item
<1>2. CASE ~ CopyTweet(c)
  <2>1. ~ Timeline(c) => storedTweets' = storedTweets
    BY ValidateLeaves, TweetLeaves, SubscriptionLeaves, ExitLeaves DEF SameQueues
  <2>2. Timeline(c) => storedTweets' = storedTweets
    BY <1>2, TimelineLeaves DEF SameQueues
  <2> QED BY <1>2, <2>1, <2>2
<1> QED BY <1>1, <1>2

LEMMA SentKept ==
  ASSUME TypeInv, NEW c \in Clients,
         Validate(c) \/ Tweet(c) \/ Subscription(c) \/ Timeline(c) \/ Exit(c)
  PROVE  \A k \in DOMAIN sent : k \in DOMAIN sent' /\ sent'[k] = sent[k]
<1>1. UNCHANGED sent => \A k \in DOMAIN sent : k \in DOMAIN sent' /\ sent'[k] = sent[k]
  OBVIOUS
<1>2. ASSUME NEW tags \in TagLists, BeginTweet(c, tags)
      PROVE  \A k \in DOMAIN sent : k \in DOMAIN sent' /\ sent'[k] = sent[k]
  <2> DEFINE rec == [from |-> NameOf[c], tags |-> tags]
  <2>1. sent' = Append(sent, rec)
    BY <1>2 DEF BeginTweet
  <2>2. sent \in Seq([from: Usernames, tags: Seq(Hashtags)])
          /\ rec \in [from: Usernames, tags: Seq(Hashtags)]
    BY ChildStepsAssumption DEF TypeInv, HistoryType
  <2> HIDE DEF rec
  <2> QED BY <2>1, <2>2
<1> QED BY <1>1, <1>2, ValidateLeaves, TweetLeaves, SubscriptionLeaves, TimelineLeaves, ExitLeaves
        DEF history

(* The tweet that is put into a cell.                                      *)
LEMMA ItemPut ==
  ASSUME EntriesInv, NEW c \in Clients, Formatting(c), PutTweet(c)
  PROVE  LET item == local[c].item
             i == local[c].userIdx
         IN  /\ i \in UserIdx /\ local[c].cell \in PendingTweetIdx /\ InUse(i)
             /\ item # EmptyStr /\ Genuine(item) /\ item.text = request[c].text
             /\ item.to = activeUsers[i].username
             /\ Cell(i, local[c].cell) = EmptyStr
<1> DEFINE item == local[c].item
           i == local[c].userIdx
<1>1. /\ TypeInv /\ Entries /\ pc[c] = "a_put" /\ pc[c] \in AddSteps /\ pc[c] \in QueueSteps
      /\ NameOf[c] \in Usernames
  BY ChildStepsAssumption DEF EntriesInv, NamesInv, PutTweet, AddSteps, QueueSteps
<1>2. i \in UserIdx /\ local[c].cell \in PendingTweetIdx /\ item \in Formatted
  BY <1>1, Types DEF LocalsAt, Locals
<1>3. InUse(i) /\ activeUsers[i].username \in Usernames
  BY <1>1, <1>2 DEF EntriesInv, Visits, Entries
<1>4. /\ item.to = activeUsers[i].username /\ item.from = NameOf[c] /\ item.text = request[c].text
      /\ Genuine(item) /\ Cell(i, local[c].cell) = EmptyStr
  BY <1>1 DEF Formatting
<1>5. item \in TweetItem
  BY <1>1, <1>2, <1>3, <1>4 DEF Formatted, TweetItem
<1> QED BY <1>2, <1>3, <1>4, <1>5, UserTableAssumption

LEMMA InSessionHasEntry ==
  ASSUME TypeInv, NEW c \in Clients, pc[c] \in InSession
  PROVE  HasEntry(c) /\ clientUserIdx[c] \in UserIdx
BY Types, EmptyStrIsNoValue DEF HasEntry

LEMMA FormattingStep ==
  ASSUME EntriesInv, EntriesInv', NEW c \in Clients, NEW t \in Clients, Formatting(t),
         Validate(c) \/ Tweet(c) \/ Subscription(c) \/ Timeline(c) \/ Exit(c)
  PROVE  Formatting(t)'
<1>1. /\ TypeInv /\ NamesInv /\ Control /\ Alone /\ Alone' /\ HasDone(c)
      /\ local \in [Clients -> Locals] /\ LocalsAt(pc[t], local[t])
      /\ local[t].userIdx \in UserIdx
  BY Types DEF EntriesInv, NamesInv
<1>2. CASE pc'[t] \notin AddSteps
  BY <1>2 DEF Formatting, AddSteps
<1>3. CASE t # c /\ pc'[t] \in AddSteps
  <2>1. /\ pc'[t] = pc[t] /\ local'[t] = local[t] /\ request'[t] = request[t]
        /\ pc[t] \in AddSteps /\ pc[t] \in TweetSteps
    BY <1>1, <1>3, OneAtATime DEF TweetSteps
  <2>2. ~ Tweet(c) /\ ~ Exit(c)
    BY <1>1, <1>3, <2>1, OneAtATime
  <2>3. InUse(local[t].userIdx)
    BY <2>1 DEF EntriesInv, Visits
  <2>4. activeUsers'[local[t].userIdx].username = activeUsers[local[t].userIdx].username
    BY <1>1, <2>2, <2>3, UseValidateStep, UseOtherStep
  <2>5. Genuine(local[t].item) => Genuine(local[t].item)'
    BY <1>1, <2>1, SentKept DEF Genuine
  <2>6. pc[t] = "a_put" =>
          (Cell(local[t].userIdx, local[t].cell) = EmptyStr
             => Cell(local[t].userIdx, local[t].cell)' = EmptyStr)
    <3>1. SUFFICES ASSUME pc[t] = "a_put" 
                   PROVE  Cell(local[t].userIdx, local[t].cell) = EmptyStr
                            => Cell(local[t].userIdx, local[t].cell)' = EmptyStr
      OBVIOUS
    <3>2. PICK i \in UserIdx, j \in PendingTweetIdx : i = local[t].userIdx /\ j = local[t].cell
      BY <1>1, <3>1 DEF LocalsAt, QueueSteps
    <3>3. Cell(i, j) = EmptyStr => Cell(i, j)' = EmptyStr
      BY <1>1, <2>2, CellsChange DEF Tweet
    <3> QED BY <2>1, <3>2, <3>3 DEF Cell
  <2> QED BY <2>1, <2>4, <2>5, <2>6 DEF Formatting, Cell
<1>4. CASE t = c /\ pc'[t] \in AddSteps
  <2> DEFINE l == local[c]
             i == l.userIdx
  <2>1. Tweet(c)
    BY <1>1, <1>4, ValidateMoves, SubscriptionMoves, TimelineMoves, ExitMoves, MovesTo, Regions
       DEF TweetSteps
  <2>2. ~ \E tags \in TagLists : BeginTweet(c, tags)
    BY <1>1, <1>4 DEF BeginTweet, Begin, Control, AddSteps
  <2>3. ~ NextUser(c)
    BY <1>1, <1>4, GotoMoves, ReplyMoves DEF NextUser, AddSteps
  <2>4. UNCHANGED sent
    BY <1>1, <2>1, <2>2, TweetLeaves
  <2>5. PICK own \in UserIdx : own = i
    BY <1>1, <1>4
  <2>6. activeUsers'[own].username = activeUsers[own].username
    BY <1>1, <2>1, UseOtherStep
  <2>7. ASSUME NEW p, NEW m, Goto(c, p, m)
        PROVE  pc'[c] = p /\ local'[c] = m /\ request' = request
    BY <1>1, <2>7, GotoMoves
  <2>8. l \in Locals /\ l.item \in Formatted /\ LatestSound(c)
    BY <1>1, <1>4 DEF Locals, EntriesInv
  <2>9. CASE Goto(c, "a_to", l)
    BY <1>4, <2>7, <2>9 DEF Formatting, AddSteps
  <2>10. CASE FormatTo(c)
    <3> DEFINE v == activeUsers[i].username
               m == [l EXCEPT !.item.to = v]
    <3>1. pc'[c] = "a_from" /\ local'[c] = m /\ request' = request
      BY <2>7, <2>10 DEF FormatTo
    <3>2. m.item.to = v /\ m.userIdx = i
      BY <2>8 DEF Locals, Formatted
    <3> HIDE DEF m
    <3> QED BY <1>4, <2>5, <2>6, <3>1, <3>2 DEF Formatting, AddSteps
  <2>11. CASE FormatFrom(c)
    <3> DEFINE m == [l EXCEPT !.item.from = latestTweet.username]
    <3>1. /\ pc[c] = "a_from" /\ pc'[c] = "a_text" /\ local'[c] = m /\ request' = request
      BY <2>7, <2>11 DEF FormatFrom
    <3>2. m.item.to = l.item.to /\ m.item.from = latestTweet.username /\ m.userIdx = i
      BY <2>8 DEF Locals, Formatted
    <3>3. latestTweet.username = NameOf[c]
      BY <2>8, <3>1 DEF LatestSound, Written, TweetSteps, AddSteps
    <3> HIDE DEF m
    <3> QED BY <1>4, <2>5, <2>6, <3>1, <3>2, <3>3 DEF Formatting, AddSteps
  <2>12. CASE FormatText(c)
    <3> DEFINE m == [l EXCEPT !.item.text = latestTweet.ttweetString]
    <3>1. /\ pc[c] = "a_text" /\ pc'[c] = "a_tag" /\ local'[c] = m /\ request' = request
      BY <2>7, <2>12 DEF FormatText
    <3>2. /\ m.item.to = l.item.to /\ m.item.from = l.item.from
          /\ m.item.text = latestTweet.ttweetString /\ m.userIdx = i
      BY <2>8 DEF Locals, Formatted
    <3>3. latestTweet.ttweetString = request[c].text
      BY <2>8, <3>1 DEF LatestSound, Written, TweetSteps, AddSteps
    <3> HIDE DEF m
    <3> QED BY <1>4, <2>5, <2>6, <3>1, <3>2, <3>3 DEF Formatting, AddSteps
  <2>13. CASE FormatTag(c)
    <3> DEFINE h == latestTweet.hashtags[l.hashtagIdx]
               m == [l EXCEPT !.item.tag = h, !.cell = 0]
    <3>1. /\ pc[c] = "a_tag" /\ pc'[c] = "a_scan" /\ local'[c] = m /\ request' = request
      BY <2>7, <2>13 DEF FormatTag
    <3>2. /\ m.item.to = l.item.to /\ m.item.from = l.item.from /\ m.item.text = l.item.text
          /\ m.item.tag = h /\ m.userIdx = i
      BY <2>8 DEF Locals, Formatted
    <3>3. /\ l.item.to = activeUsers[own].username /\ l.item.from = NameOf[c]
          /\ l.item.text = request[c].text
      BY <1>4, <2>5, <3>1 DEF Formatting, AddSteps
    <3>4. /\ IsLast(c) /\ request[c].tags \in Seq(Hashtags) /\ sent \in Seq([from: Usernames, tags: Seq(Hashtags)])
          /\ l.hashtagIdx \in HashtagIdx /\ l.hashtagIdx \in Nat
          /\ h = TagOf(l.hashtagIdx, request[c].tags)
          /\ l.hashtagIdx = 0 \/ l.hashtagIdx < Len(request[c].tags)
      <4>1. pc[c] \in TweetSteps /\ pc[c] \in AddSteps /\ pc[c] \in HashtagSteps
        BY <3>1 DEF TweetSteps, AddSteps, HashtagSteps
      <4>2. l.hashtagIdx \in HashtagIdx /\ l.hashtagIdx \in Nat
        BY <1>1, <1>4, <4>1, StartConstants DEF LocalsAt, Locals, HashtagIdx
      <4>3. IsLast(c) /\ Written(c) /\ Counted(c)
        BY <2>8, <4>1 DEF LatestSound
      <4>4. RequestAt(pc[c], request[c]) /\ sent \in Seq([from: Usernames, tags: Seq(Hashtags)])
        BY <1>1, Types DEF TypeInv, HistoryType
      <4> QED BY <3>1, <4>1, <4>2, <4>3, <4>4 DEF RequestAt, Written, Counted
    <3> HIDE DEF m, h
    <3>5. Genuine(m.item)
      <4> DEFINE tags == request[c].tags
      <4>1. /\ request[c].text \in DOMAIN sent /\ sent[request[c].text].from = NameOf[c]
            /\ sent[request[c].text].tags = tags
        BY <3>4 DEF IsLast
      <4>2. IF tags = <<>> THEN h = EmptyStr ELSE h \in Range(tags)
        <5>1. CASE l.hashtagIdx < Len(tags)
          <6>1. l.hashtagIdx + 1 \in DOMAIN tags /\ tags # <<>> /\ h = tags[l.hashtagIdx + 1]
            BY <3>4, <5>1 DEF TagOf
          <6> QED BY <6>1 DEF Range
        <5>2. CASE ~ (l.hashtagIdx < Len(tags))
          BY <3>4, <5>2 DEF TagOf
        <5> QED BY <5>1, <5>2
      <4> QED BY <3>2, <3>3, <4>1, <4>2 DEF Genuine
    <3>6. Genuine(local[c].item)'
      BY <2>4, <3>1, <3>5 DEF Genuine
    <3> QED BY <1>4, <2>5, <2>6, <3>1, <3>2, <3>3, <3>6 DEF Formatting, AddSteps
  <2>14. CASE FindTweetCell(c)
    <3>1. PICK p, m :
             /\ p \in {"a_scan", "a_put"} /\ pc[c] = "a_scan" /\ Goto(c, p, m) /\ (m = l \/ m = [l EXCEPT !.cell = @ + 1])
             /\ p = "a_put" => m = l /\ Cell(l.userIdx, l.cell) = EmptyStr
             /\ UNCHANGED activeUsers
      BY <2>3, <2>14 DEF FindTweetCell, Cell, shared
    <3>2. pc'[c] = p /\ local'[c] = m /\ request' = request
      BY <2>7, <3>1
    <3>3. m.item = l.item /\ m.userIdx = l.userIdx
      BY <2>8, <3>1 DEF Locals
    <3>4. /\ l.item.to = activeUsers[own].username /\ l.item.from = NameOf[c]
          /\ l.item.text = request[c].text /\ Genuine(l.item)
      BY <1>4, <2>5, <3>1 DEF Formatting, AddSteps
    <3>5. Genuine(local[c].item)'
      BY <2>4, <3>2, <3>3, <3>4 DEF Genuine
    <3>6. pc'[c] = "a_put" => Cell(local[c].userIdx, local[c].cell)' = EmptyStr
      BY <3>1, <3>2 DEF Cell
    <3> QED BY <1>4, <2>5, <2>6, <3>1, <3>2, <3>3, <3>4, <3>5, <3>6 DEF Formatting, AddSteps
  <2>15. CASE /\ Tweet(c) /\ ~ Goto(c, "a_to", l)
              /\ ~ (FormatTo(c) \/ FormatFrom(c) \/ FormatText(c) \/ FormatTag(c) \/ FindTweetCell(c))
    <3>1. ASSUME NEW p, NEW m, Goto(c, p, m), p \notin AddSteps
          PROVE  FALSE
      BY <1>4, <2>7, <3>1
    <3>2. ASSUME NEW state \in Waiting, Reply(c, state)
          PROVE  FALSE
      BY <1>1, <1>4, <3>2, ReplyMoves, Regions DEF TweetSteps
    <3>3. "ready" \in Waiting /\ "crashed" \in Waiting
      BY DEF Waiting
    <3>4. ~ (StoreUsername(c) \/ StoreText(c) \/ StoreCount(c) \/ ClearHashtag(c) \/ MoreHashtags(c))
      BY <3>1 DEF StoreUsername, StoreText, StoreCount, ClearHashtag, MoreHashtags, AddSteps
    <3>5. ~ StoreHashtag(c)
      BY <3>1, <3>2, <3>3 DEF StoreHashtag, AddSteps
    <3>6. ~ UpdateOccupied(c) /\ ~ UpdateSubscribedAll(c) /\ ~ MoreToMatch(c) /\ ~ Match(c) /\ ~ PutTweet(c)
      BY <2>3, <2>15, <3>1 DEF UpdateOccupied, UpdateSubscribedAll, MoreToMatch, Match, PutTweet, AddSteps
    <3> QED BY <2>2, <2>15, <3>4, <3>5, <3>6 DEF Tweet
  <2> QED BY <2>1, <2>9, <2>10, <2>11, <2>12, <2>13, <2>14, <2>15
<1> QED BY <1>2, <1>3, <1>4

(* Only the child itself empties a cell of its queue.                      *)
LEMMA HoldsStep ==
  ASSUME EntriesInv, NEW c \in Clients, NEW t \in Clients, Formatting(c), Holds(t),
         Validate(c) \/ Tweet(c) \/ Subscription(c) \/ Timeline(c) \/ Exit(c)
  PROVE  Holds(t)'
<1>1. /\ TypeInv /\ NamesInv /\ Control /\ HasDone(c) /\ Seats
      /\ LocalsAt(pc[t], local[t])
  BY Types DEF EntriesInv, NamesInv
<1>2. SUFFICES ASSUME pc'[t] \in {"l_copy", "l_clear"}
               PROVE  Cell(clientUserIdx[t], local[t].cell)' # EmptyStr
  BY DEF Holds
<1>3. pc'[t] \in TimelineSteps
  BY <1>2 DEF TimelineSteps
<1>4. CASE t # c
  <2>1. pc'[t] = pc[t] /\ local'[t] = local[t]
    BY <1>1, <1>4, OthersStay, ValidateMoves, TweetMoves, SubscriptionMoves, TimelineMoves, ExitMoves
  <2>2. pc[t] \in QueueSteps /\ pc[t] \in InSession
    BY <1>2, <1>3, <2>1 DEF QueueSteps, InSession
  <2>3. clientUserIdx'[t] = clientUserIdx[t]
    BY <1>1, <1>4, ValidateLeaves, KeepsNames, ExitWrites DEF Occupy, WriteUsername, TypeInv, Control
  <2>4. PICK i \in UserIdx, j \in PendingTweetIdx : i = clientUserIdx[t] /\ j = local[t].cell
    BY <1>1, <2>2, InSessionHasEntry DEF LocalsAt
  <2>5. Cell(i, j) # EmptyStr
    BY <1>2, <2>1, <2>4 DEF Holds
  <2>6. ClearTweet(c) \/ ClearPendingTweet(c) => i # clientUserIdx[c]
    <3>1. SUFFICES ASSUME ClearTweet(c) \/ ClearPendingTweet(c)
                   PROVE  i # clientUserIdx[c]
      OBVIOUS
    <3>2. pc[c] \in InSession
      BY <3>1 DEF ClearTweet, ClearPendingTweet, InSession, TimelineSteps, ExitSteps, ClearSteps
    <3> QED BY <1>1, <1>4, <2>2, <2>4, <3>2, InSessionHasEntry DEF Seats
  <2>7. PutTweet(c) => local[c].item # EmptyStr
    BY ItemPut
  <2>8. Cell(i, j)' # EmptyStr
    BY <1>1, <2>5, <2>6, <2>7, CellsChange
  <2> QED BY <2>1, <2>3, <2>4, <2>8 DEF Cell
<1>5. CASE t = c
  <2>1. Timeline(c)
    BY <1>1, <1>3, <1>5, ValidateMoves, TweetMoves, SubscriptionMoves, ExitMoves, MovesTo, Regions
  <2>2. CASE ScanTweet(c)
    <3>1. /\ pc[c] = "l_scan" /\ Cell(clientUserIdx[c], local[c].cell) # EmptyStr
          /\ UNCHANGED <<activeUsers, clientUserIdx>> /\ local'[c] = local[c]
      BY <1>1, <1>2, <1>5, <2>2, GotoMoves, ReplyMoves DEF ScanTweet, OnlyReads, shared, Cell, Entry
    <3> QED BY <1>5, <3>1 DEF Cell
  <2>3. CASE CopyTweet(c)
    <3>1. /\ pc[c] = "l_copy" /\ UNCHANGED <<activeUsers, clientUserIdx>> /\ local'[c] = local[c]
      BY <1>1, <2>3, GotoMoves DEF CopyTweet, shared
    <3> QED BY <1>5, <3>1 DEF Cell, Holds
  <2>4. CASE BeginTimeline(c) \/ FirstTweet(c) \/ ClearTweet(c)
    <3>1. BeginTimeline(c) => pc'[c] = "l_first"
      BY <1>1 DEF BeginTimeline, Begin, Control
    <3>2. FirstTweet(c) => pc'[c] \in {"l_scan", "ready"}
      BY <1>1, GotoMoves, ReplyMoves DEF FirstTweet
    <3>3. ClearTweet(c) => pc'[c] \in {"l_scan", "ready"}
      BY <1>1, GotoMoves, ReplyMoves DEF ClearTweet
    <3> QED BY <1>2, <1>5, <2>4, <3>1, <3>2, <3>3
  <2> QED BY <2>1, <2>2, <2>3, <2>4 DEF Timeline
<1> QED BY <1>4, <1>5

LEMMA GenuineStep ==
  ASSUME EntriesInv, AllGenuine, NEW c \in Clients, Formatting(c), Holds(c),
         Validate(c) \/ Tweet(c) \/ Subscription(c) \/ Timeline(c) \/ Exit(c)
  PROVE  AllGenuine'
<1>1. TypeInv /\ LocalsAt(pc[c], local[c])
  BY Types DEF EntriesInv, NamesInv
<1>2. \A k \in DOMAIN sent : k \in DOMAIN sent' /\ sent'[k] = sent[k]
  BY <1>1, SentKept
<1>3. ASSUME NEW i \in UserIdx, NEW j \in PendingTweetIdx, Cell(i, j)' # EmptyStr
      PROVE  Genuine(Cell(i, j))'
  <2>1. PICK item : item = Cell(i, j)' /\ Genuine(item)
    <3>1. PutTweet(c) => Genuine(local[c].item)
      BY ItemPut
    <3>2. Cell(i, j) # EmptyStr => Genuine(Cell(i, j))
      BY DEF AllGenuine
    <3> QED BY <1>1, <1>3, <3>1, <3>2, CellsChange
  <2> QED BY <1>2, <2>1 DEF Genuine
<1>4. ASSUME NEW d \in Clients, NEW k \in DOMAIN storedTweets'[d]
      PROVE  Genuine(storedTweets[d][k])'
  <2>1. PICK item : item = storedTweets'[d][k] /\ Genuine(item)
    <3>1. CASE storedTweets' = storedTweets
      BY <1>4, <3>1 DEF AllGenuine
    <3>2. CASE CopyTweet(c) /\ d # c
      BY <1>1, <1>4, <3>2, StoredChange DEF AllGenuine
    <3>3. CASE CopyTweet(c) /\ d = c
      <4>1. Genuine(Cell(clientUserIdx[c], local[c].cell))
        <5>1. pc[c] = "l_copy" /\ pc[c] \in InSession /\ pc[c] \in QueueSteps
          BY <3>3 DEF CopyTweet, InSession, TimelineSteps, QueueSteps
        <5> QED BY <1>1, <5>1, InSessionHasEntry DEF LocalsAt, Holds, AllGenuine
      <4>2. k \in 1 .. Len(storedTweets[c]) + 1 /\ Len(storedTweets[c]) \in Nat
              /\ DOMAIN storedTweets[c] = 1 .. Len(storedTweets[c])
        BY <1>1, <1>4, <3>3, StoredChange
      <4>3. CASE k = Len(storedTweets[c]) + 1
        BY <1>1, <3>3, <4>1, <4>3, StoredChange
      <4>4. CASE k # Len(storedTweets[c]) + 1
        <5>1. k \in DOMAIN storedTweets[c]
          BY <4>2, <4>4
        <5> QED BY <1>1, <3>3, <5>1, StoredChange DEF AllGenuine
      <4> QED BY <4>3, <4>4
    <3> QED BY <1>1, <3>1, <3>2, <3>3, StoredChange
  <2> QED BY <1>2, <2>1 DEF Genuine
<1> QED BY <1>3, <1>4 DEF AllGenuine

LEMMA AddressedStep ==
  ASSUME EntriesInv, EntriesInv', Addressed, NEW c \in Clients, Formatting(c),
         Validate(c) \/ Tweet(c) \/ Subscription(c) \/ Timeline(c) \/ Exit(c)
  PROVE  Addressed'
<1>1. /\ TypeInv /\ NamesInv /\ Alone /\ HasDone(c) /\ Entries
      /\ activeUsers \in [UserIdx -> SharedUser]
  BY Types DEF EntriesInv, NamesInv
<1>2. SUFFICES ASSUME NEW i \in UserIdx, NEW j \in 0 .. LastCell - 1, InUse(i)', Cell(i, j)' # EmptyStr
               PROVE  Cell(i, j)'.to = activeUsers'[i].username
  BY DEF Addressed, Cell
<1>3. j \in PendingTweetIdx
  BY EmptyStrIsNoValue DEF LastCell, PendingTweetIdx
<1>4. InUse(i) /\ Cell(i, j) # EmptyStr => Cell(i, j).to = activeUsers[i].username
  BY DEF Addressed
<1>5. PutTweet(c) /\ i = local[c].userIdx => local[c].item.to = activeUsers[i].username
  BY ItemPut
<1>6. ASSUME InUse(i), activeUsers'[i].username = activeUsers[i].username
      PROVE  Cell(i, j)'.to = activeUsers'[i].username
  BY <1>1, <1>2, <1>3, <1>4, <1>5, <1>6, CellsChange
<1>7. CASE Validate(c)
  <2>1. CASE InUse(i)
    BY <1>1, <1>6, <1>7, <2>1, UseValidateStep
  <2>2. CASE ~ InUse(i)
    <3>1. ~ Clearing(i)'
      BY <1>2 DEF EntriesInv, HasDone, Clearing, InUse, Entry
    <3>2. Blank(i)
      BY <1>1, <1>7, <2>2, <3>1, UseValidateStep DEF Entries
    <3> QED BY <1>1, <1>2, <1>3, <1>7, <3>2, ValidateLeaves DEF SameQueues, Blank, FrontEmpty
  <2> QED BY <2>1, <2>2
<1>8. CASE Tweet(c) \/ Subscription(c) \/ Timeline(c)
  BY <1>1, <1>2, <1>6, <1>8, UseOtherStep
<1>9. CASE Exit(c)
  <2>1. CASE i # clientUserIdx[c]
    BY <1>1, <1>2, <1>6, <1>9, <2>1, UseExitStep, ExitWrites
  <2>2. CASE BeginExit(c)
    <3>1. pc[c] = "ready" /\ UNCHANGED activeUsers
      BY <2>2 DEF BeginExit, Begin, shared
    <3>2. pc'[c] \notin ClearSteps \cup {"left"}
      BY <1>1, <2>2, Types DEF BeginExit, Begin, ClearSteps
    <3> QED BY <1>1, <1>2, <1>6, <1>9, <3>1, <3>2, UseExitStep
  <2>3. CASE i = clientUserIdx[c] /\ ~ BeginExit(c)
    <3>1. pc[c] \in ExitSteps
      BY <1>1, <1>9, <2>3, ExitWrites
    <3>2. CASE ClearOccupied(c)
      BY <1>1, <1>2, <2>3, <3>2 DEF ClearOccupied, WriteUser, SharedUser, Entry, InUse
    <3>3. CASE ~ ClearOccupied(c)
      <4>1. pc[c] \in ClearSteps
        BY <1>9, <2>3, <3>3 DEF Exit, ClearSubscribedAll, ClearUsername, ClearSubscription,
           ClearPendingTweet, ClearSteps
      <4> QED BY <1>1, <1>2, <1>9, <2>3, <3>3, <4>1, ExitLeaves DEF HasDone, Entry, InUse
    <3> QED BY <3>2, <3>3
  <2> QED BY <2>1, <2>2, <2>3
<1> QED BY <1>7, <1>8, <1>9

(* Who has an entry after a step had it before, or has just registered.    *)
LEMMA EntryKept ==
  ASSUME EntriesInv, NEW c \in Clients, NEW d \in Clients, HasEntry(d)',
         Validate(c) \/ Tweet(c) \/ Subscription(c) \/ Timeline(c) \/ Exit(c)
  PROVE  \/ /\ HasEntry(d) /\ clientUserIdx'[d] = clientUserIdx[d] /\ clientUserIdx[d] \in UserIdx
         \/ /\ d = c /\ WriteUsername(c)
            /\ storedTweets' = storedTweets /\ storedTweets[d] = <<>>
<1>1. /\ TypeInv /\ HasDone(c)
      /\ clientUserIdx \in [Clients -> UserIdx \cup {INVALID_USER_INDEX}]
  BY Types DEF EntriesInv, NamesInv
<1>2. CASE WriteUsername(c)
  <2>1. storedTweets[c] = <<>> /\ storedTweets' = storedTweets
    BY <1>1, <1>2 DEF WriteUsername, HasDone, ValidateSteps
  <2>2. \A e \in Clients \ {c} : clientUserIdx'[e] = clientUserIdx[e]
    BY <1>1, <1>2 DEF WriteUsername
  <2> QED BY <1>1, <1>2, <2>1, <2>2 DEF HasEntry
<1>3. CASE Validate(c) /\ ~ WriteUsername(c)
  <2>1. clientUserIdx' = clientUserIdx
    BY <1>1, <1>3, ValidateLeaves DEF Occupy
  <2> QED BY <1>1, <2>1 DEF HasEntry
<1>4. CASE Tweet(c) \/ Subscription(c) \/ Timeline(c)
  BY <1>1, <1>4, KeepsNames DEF HasEntry
<1>5. CASE Exit(c)
  BY <1>1, <1>5, ExitWrites DEF HasEntry
<1> QED BY <1>2, <1>3, <1>4, <1>5

LEMMA OnlyClearTweet ==
  ASSUME NEW c \in Clients, pc[c] = "l_clear",
         Validate(c) \/ Tweet(c) \/ Subscription(c) \/ Timeline(c) \/ Exit(c)
  PROVE  ClearTweet(c)
BY DEF Validate, BeginValidate, CheckOccupied, CheckUsername, TakeEntry, Occupy, WriteUsername,
       Tweet, BeginTweet, StoreUsername, StoreText, StoreCount, ClearHashtag, MoreHashtags,
       StoreHashtag, UpdateOccupied, UpdateSubscribedAll, MoreToMatch, Match, FormatTo, FormatFrom,
       FormatText, FormatTag, FindTweetCell, PutTweet, Subscription, BeginSubscription, WriteList,
       WriteSubscribedAll, Timeline, BeginTimeline, FirstTweet, ScanTweet, CopyTweet, Exit, BeginExit,
       ClearOccupied, ClearSubscribedAll, ClearUsername, ClearSubscription, ClearPendingTweet

LEMMA StrayStep ==
  ASSUME EntriesInv, Alone', Addressed, NEW c \in Clients, NEW d \in Clients,
         Formatting(c), Holds(c), Stray(d),
         Validate(c) \/ Tweet(c) \/ Subscription(c) \/ Timeline(c) \/ Exit(c)
  PROVE  Stray(d)'
<1>1. /\ TypeInv /\ NamesInv /\ Control /\ Alone /\ HasDone(c) /\ Seats
      /\ LocalsAt(pc[c], local[c]) /\ LastCell \in PendingTweetIdx
      /\ pc \in [Clients -> Waiting \cup ValidateSteps \cup InSession]
  BY Types, EmptyStrIsNoValue DEF EntriesInv, NamesInv, LastCell, PendingTweetIdx
<1>2. CASE ~ (d = c /\ CopyTweet(c))
  <2>1. storedTweets'[d] = storedTweets[d]
    BY <1>1, <1>2, StoredChange
  <2>2. SUFFICES ASSUME HasEntry(d)', NEW k \in DOMAIN storedTweets[d], Foreign(d, k)
                 PROVE  LET last == Cell(clientUserIdx[d], LastCell)
                        IN  (last = EmptyStr \/ last.to = NameOf[d] \/ Reading(d, LastCell))'
    BY <2>1 DEF Stray, Foreign
  <2>3. HasEntry(d) /\ clientUserIdx'[d] = clientUserIdx[d] /\ clientUserIdx[d] \in UserIdx
    BY <2>2, EntryKept
  <2>4. PICK own \in UserIdx : own = clientUserIdx[d]
    BY <2>3
  <2>5. Cell(own, LastCell) = EmptyStr \/ Cell(own, LastCell).to = NameOf[d] \/ Reading(d, LastCell)
    BY <2>2, <2>3, <2>4 DEF Stray
  <2>6. SUFFICES \/ Cell(own, LastCell)' = EmptyStr \/ Cell(own, LastCell)'.to = NameOf[d]
                 \/ Reading(d, LastCell)'
    BY <2>3, <2>4 DEF Cell
  <2>7. CASE Cell(own, LastCell)' = Cell(own, LastCell)
    <3>1. CASE Reading(d, LastCell)
      <4>1. CASE d # c
        <5>1. pc'[d] = pc[d] /\ local'[d] = local[d]
          BY <1>1, <4>1, OthersStay, ValidateMoves, TweetMoves, SubscriptionMoves, TimelineMoves, ExitMoves
        <5> QED BY <2>6, <3>1, <5>1 DEF Reading
      <4>2. CASE d = c
        <5>1. ClearTweet(c)
          BY <3>1, <4>2, OnlyClearTweet DEF Reading
        <5>2. WriteTweetCell(own, LastCell, EmptyStr)
          BY <2>4, <3>1, <4>2, <5>1 DEF ClearTweet, Reading
        <5> QED BY <1>1, <2>6, <5>2, CellWritten
      <4> QED BY <4>1, <4>2
    <3> QED BY <2>5, <2>6, <2>7, <3>1
  <2>8. CASE PutTweet(c) /\ own = local[c].userIdx /\ Cell(own, LastCell)' = local[c].item
    <3>1. pc[d] \notin ClearSteps
      <4>1. pc[c] \in TweetSteps
        BY <2>8 DEF PutTweet, TweetSteps, AddSteps
      <4> QED BY <1>1, <4>1, Regions DEF Alone
    <3>2. activeUsers[own].username = NameOf[d]
      BY <1>1, <2>3, <2>4, <3>1, OwnInUse
    <3> QED BY <2>6, <2>8, <3>2, ItemPut
  <2> QED BY <1>1, <2>6, <2>7, <2>8, CellsChange
<1>3. CASE d = c /\ CopyTweet(c)
  <2>1. pc[c] = "l_copy" /\ pc[c] \in InSession /\ pc[c] \in QueueSteps /\ pc[c] \in TimelineSteps
    BY <1>3 DEF CopyTweet, InSession, TimelineSteps, QueueSteps
  <2>2. HasEntry(c) /\ local[c].cell \in PendingTweetIdx
    BY <1>1, <2>1, InSessionHasEntry DEF LocalsAt
  <2>3. PICK own \in UserIdx : own = clientUserIdx[c] /\ InUse(own) /\ activeUsers[own].username = NameOf[c]
    BY <1>1, <2>1, <2>2, OwnInUse, Regions
  <2>4. PICK n, item :
          /\ n \in Nat
          /\ DOMAIN storedTweets'[c] = 1 .. n /\ DOMAIN storedTweets[c] = 1 .. n - 1
          /\ \A k \in DOMAIN storedTweets[c] : storedTweets'[c][k] = storedTweets[c][k]
          /\ storedTweets'[c][n] = item /\ item = Cell(own, local[c].cell)
    <3>1. DOMAIN storedTweets[c] = 1 .. (Len(storedTweets[c]) + 1) - 1
      BY <1>1, <1>3, StoredChange
    <3> QED BY <1>1, <1>3, <2>3, <3>1, StoredChange, SMTT(40)
  <2>5. item # EmptyStr
    BY <2>1, <2>3, <2>4 DEF Holds
  <2>6. item.to # NameOf[c] => local[c].cell = LastCell
    <3>1. local[c].cell \in 0 .. LastCell - 1 \/ local[c].cell = LastCell
      BY <1>1, <2>2, EmptyStrIsNoValue DEF LastCell, PendingTweetIdx
    <3> QED BY <2>3, <2>4, <2>5, <3>1 DEF Addressed
  <2>7. item.to # NameOf[c] => \A k \in DOMAIN storedTweets[c] : ~ Foreign(c, k)
    BY <1>3, <2>1, <2>2, <2>3, <2>4, <2>5, <2>6 DEF Stray, Reading
  <2>8. pc'[c] = "l_clear" /\ local'[c] = local[c] /\ UNCHANGED <<activeUsers, clientUserIdx>>
    BY <1>1, <1>3, GotoMoves DEF CopyTweet, shared
  <2>9. \A k \in DOMAIN storedTweets'[c] : k \in DOMAIN storedTweets[c] \/ k = n
    BY <2>4
  <2>10. \A k \in DOMAIN storedTweets[c] : Foreign(c, k)' <=> Foreign(c, k)
    BY <2>4 DEF Foreign
  <2>11. Foreign(c, n)' <=> item.to # NameOf[c]
    BY <2>4 DEF Foreign
  <2>12. \A k, m \in DOMAIN storedTweets'[c] : Foreign(c, k)' /\ Foreign(c, m)' => k = m
    BY <1>3, <2>7, <2>9, <2>10, <2>11 DEF Stray
  <2>13. ASSUME NEW k \in DOMAIN storedTweets'[c], Foreign(c, k)'
         PROVE  \/ Cell(own, LastCell) = EmptyStr \/ Cell(own, LastCell).to = NameOf[c]
                \/ Reading(c, LastCell)'
    <3>1. CASE k = n
      BY <2>6, <2>8, <2>11, <2>13, <3>1 DEF Reading
    <3>2. CASE k \in DOMAIN storedTweets[c]
      BY <1>3, <2>1, <2>2, <2>3, <2>10, <2>13, <3>2 DEF Stray, Reading
    <3> QED BY <2>9, <3>1, <3>2
  <2> QED BY <1>3, <2>3, <2>8, <2>12, <2>13 DEF Stray, Cell
<1> QED BY <1>2, <1>3

LEMMA TornInit ==
  ASSUME RegistersAlone, TweetsAlone, Init
  PROVE  TornInv
<1>1. EntriesInv
  BY EntriesInit
<1>2. \A c \in Clients : pc[c] \in {"connected", "ready"} /\ storedTweets[c] = <<>>
  BY DEF Init
<1>3. \A c \in Clients : Formatting(c) /\ Holds(c) /\ Stray(c)
  BY <1>2 DEF Formatting, Holds, Stray, AddSteps
<1>4. \A i \in UserIdx, j \in PendingTweetIdx : Cell(i, j) = EmptyStr
  BY StartAssumption DEF Init, Cell
<1>5. 0 .. LastCell - 1 \subseteq PendingTweetIdx
  BY EmptyStrIsNoValue DEF LastCell, PendingTweetIdx
<1> QED BY <1>1, <1>2, <1>3, <1>4, <1>5 DEF TornInv, AllGenuine, Addressed

LEMMA TornStep ==
  ASSUME RegistersAlone, TweetsAlone, TornInv, NEW c \in Clients,
         Validate(c) \/ Tweet(c) \/ Subscription(c) \/ Timeline(c) \/ Exit(c)
  PROVE  TornInv'
<1>1. EntriesInv /\ EntriesInv' /\ Alone' /\ Addressed
  BY EntriesStep DEF TornInv, EntriesInv
<1>2. AllGenuine' /\ Addressed'
  BY <1>1, GenuineStep, AddressedStep DEF TornInv
<1>3. \A d \in Clients : Formatting(d)' /\ Holds(d)' /\ Stray(d)'
  BY <1>1, FormattingStep, HoldsStep, StrayStep DEF TornInv
<1> QED BY <1>1, <1>2, <1>3 DEF TornInv

LEMMA TornStutter == TornInv /\ UNCHANGED vars => TornInv'
<1> SUFFICES ASSUME TornInv, UNCHANGED vars PROVE TornInv'
  OBVIOUS
<1>1. UNCHANGED <<activeUsers, latestTweet, pc, request, clientUserIdx, local, storedTweets, sent>>
  BY DEF vars, shared, history
<1>2. EntriesInv'
  BY EntriesStutter DEF TornInv
<1>3. AllGenuine' /\ Addressed'
  BY <1>1 DEF TornInv, AllGenuine, Genuine, Addressed, InUse, Taking, Cell
<1>4. ASSUME NEW c \in Clients
      PROVE  Formatting(c)' /\ Holds(c)' /\ Stray(c)'
  BY <1>1 DEF TornInv, Formatting, Genuine, Cell, Holds, Stray, Foreign, Reading, HasEntry
<1> QED BY <1>2, <1>3, <1>4 DEF TornInv

-----------------------------------------------------------------------------
(* No tweet twice                                                          *)

Filled(i) == {j \in PendingTweetIdx : Cell(i, j) # EmptyStr}

(* A queue holds no tweet twice.                                           *)
Distinct ==
  \A i \in UserIdx : \A j, k \in Filled(i) : Cell(i, j).text = Cell(i, k).text => j = k

(* A user is shown no tweet twice, and none that waits, but for the one    *)
(* that its child is about to empty.                                       *)
Once(c) ==
  /\ \A k, m \in DOMAIN storedTweets[c] :
       storedTweets[c][k].text = storedTweets[c][m].text => k = m
  /\ HasEntry(c) =>
       \A j \in Filled(clientUserIdx[c]) : ~ Reading(c, j) =>
         \A k \in DOMAIN storedTweets[c] :
           storedTweets[c][k].text # Cell(clientUserIdx[c], j).text

(* No user that the tweet of t has not come to has it.                     *)
Untold(i, text) ==
  /\ \A j \in Filled(i) : Cell(i, j).text # text
  /\ \A c \in Clients : clientUserIdx[c] = i =>
       \A k \in DOMAIN storedTweets[c] : storedTweets[c][k].text # text

Fresh(t) ==
  pc[t] \in TweetSteps =>
    \A i \in UserIdx : local[t].userIdx <= i => Untold(i, request[t].text)

OnceInv ==
  /\ TornInv
  /\ Distinct
  /\ \A c \in Clients : Once(c) /\ Fresh(c)

(* A tweet comes to one user after another.                                *)
LEMMA UserIdxStep ==
  ASSUME TypeInv, NEW c \in Clients, Tweet(c), LatestSound(c), pc'[c] \in TweetSteps
  PROVE  \/ \E tags \in TagLists : BeginTweet(c, tags)
         \/ /\ pc[c] \in TweetSteps /\ request'[c] = request[c]
            /\ \/ local'[c].userIdx = local[c].userIdx /\ ~ PutTweet(c) /\ ~ NextUser(c)
               \/ local'[c].userIdx = local[c].userIdx + 1 /\ NextUser(c)
<1> DEFINE l == local[c]
           Stays == local'[c].userIdx = l.userIdx /\ request'[c] = request[c] /\ ~ NextUser(c)
<1>1. l \in Locals /\ l.userIdx \in Int /\ NoLocals \in Locals /\ NoLocals.userIdx = 0
      /\ l.hashtagIdx \in Int /\ l.cell \in Int
  BY Types, StartConstants DEF Locals, UserIdx, SubscriptionIdx, PendingTweetIdx
<1>2. pc[c] \in StoreSteps => l.userIdx = 0
  BY DEF LatestSound, Counted, TweetSteps
<1>3. ASSUME NEW state \in {"ready", "crashed"}, Reply(c, state)
      PROVE  FALSE
  BY <1>3, ReplyMoves, Regions
<1>4. ASSUME NextUser(c)
      PROVE  /\ local'[c].userIdx = l.userIdx + 1 /\ request'[c] = request[c]
  <2>1. Goto(c, "u_occupied", [NoLocals EXCEPT !.userIdx = l.userIdx + 1])
    BY <1>3, <1>4 DEF NextUser
  <2> QED BY <1>1, <2>1, GotoMoves DEF Locals
<1>5. ASSUME NEW p, NEW m, Goto(c, p, m), m.userIdx = l.userIdx
      PROVE  Stays
  <2>1. local'[c].userIdx = l.userIdx /\ request'[c] = request[c]
    BY <1>5, GotoMoves
  <2> QED BY <1>1, <1>4, <2>1
<1>6. \A v : /\ [l EXCEPT !.hashtagIdx = v].userIdx = l.userIdx
             /\ [l EXCEPT !.cell = v].userIdx = l.userIdx
             /\ [l EXCEPT !.cell = v, !.hashtagIdx = 0].userIdx = l.userIdx
             /\ [l EXCEPT !.item.to = v].userIdx = l.userIdx
             /\ [l EXCEPT !.item.from = v].userIdx = l.userIdx
             /\ [l EXCEPT !.item.text = v].userIdx = l.userIdx
             /\ [l EXCEPT !.item.tag = v, !.cell = 0].userIdx = l.userIdx
  BY <1>1 DEF Locals
<1> HIDE DEF Stays
<1>7. CASE StoreUsername(c) \/ StoreText(c) \/ StoreCount(c)
  <2>1. pc[c] \in TweetSteps /\ ~ PutTweet(c)
    BY <1>7 DEF StoreUsername, StoreText, StoreCount, PutTweet, TweetSteps, StoreSteps
  <2> QED BY <1>5, <1>7, <2>1 DEF Stays, StoreUsername, StoreText, StoreCount
<1>8. CASE ClearHashtag(c) \/ MoreHashtags(c) \/ StoreHashtag(c)
  <2>1. pc[c] \in TweetSteps /\ ~ PutTweet(c) /\ l.userIdx = 0
    BY <1>2, <1>8 DEF ClearHashtag, MoreHashtags, StoreHashtag, PutTweet, TweetSteps, StoreSteps
  <2>2. ClearHashtag(c) => Stays
    BY <1>1, <1>5, <1>6, <2>1 DEF ClearHashtag
  <2>3. MoreHashtags(c) => Stays
    BY <1>1, <1>5, <2>1 DEF MoreHashtags
  <2>4. StoreHashtag(c) => Stays
    BY <1>3, <1>5, <1>6 DEF StoreHashtag
  <2> QED BY <1>8, <2>1, <2>2, <2>3, <2>4 DEF Stays
<1>9. CASE UpdateOccupied(c) \/ UpdateSubscribedAll(c) \/ MoreToMatch(c) \/ Match(c)
  <2>1. pc[c] \in TweetSteps /\ ~ PutTweet(c)
    BY <1>9 DEF UpdateOccupied, UpdateSubscribedAll, MoreToMatch, Match, PutTweet, TweetSteps, UpdateSteps
  <2>2. UpdateOccupied(c) \/ UpdateSubscribedAll(c) => NextUser(c) \/ Stays
    BY <1>5 DEF UpdateOccupied, UpdateSubscribedAll
  <2>3. MoreToMatch(c) => NextUser(c) \/ Stays
    BY <1>5, <1>6 DEF MoreToMatch
  <2>4. Match(c) => Stays
    BY <1>5, <1>6 DEF Match
  <2> QED BY <1>4, <1>9, <2>1, <2>2, <2>3, <2>4 DEF Stays
<1>10. CASE FormatTo(c) \/ FormatFrom(c) \/ FormatText(c) \/ FormatTag(c) \/ FindTweetCell(c)
  <2>1. pc[c] \in TweetSteps /\ ~ PutTweet(c)
    BY <1>10 DEF FormatTo, FormatFrom, FormatText, FormatTag, FindTweetCell, PutTweet, TweetSteps, AddSteps
  <2>2. FormatTo(c) \/ FormatFrom(c) \/ FormatText(c) => Stays
    BY <1>5, <1>6 DEF FormatTo, FormatFrom, FormatText
  <2>3. FormatTag(c) => Stays
    BY <1>5, <1>6 DEF FormatTag
  <2>4. FindTweetCell(c) => NextUser(c) \/ Stays
    BY <1>5, <1>6 DEF FindTweetCell
  <2> QED BY <1>4, <1>10, <2>1, <2>2, <2>3, <2>4 DEF Stays
<1>11. CASE PutTweet(c)
  <2>1. pc[c] \in TweetSteps /\ NextUser(c)
    BY <1>11 DEF PutTweet, TweetSteps, AddSteps
  <2> QED BY <1>4, <2>1
<1> QED BY <1>7, <1>8, <1>9, <1>10, <1>11 DEF Tweet, Stays

LEMMA UntoldKept ==
  ASSUME TornInv, NEW c \in Clients,
         Validate(c) \/ Tweet(c) \/ Subscription(c) \/ Timeline(c) \/ Exit(c),
         NEW i \in UserIdx, NEW text, Untold(i, text), PutTweet(c) => i # local[c].userIdx
  PROVE  Untold(i, text)'
<1>1. TypeInv /\ EntriesInv
  BY DEF TornInv, EntriesInv, NamesInv
<1>2. \A j \in PendingTweetIdx : Cell(i, j)' = Cell(i, j) \/ Cell(i, j)' = EmptyStr
  BY <1>1, CellsChange
<1>3. \A j \in Filled(i)' : Cell(i, j)'.text # text
  BY <1>2 DEF Filled, Untold
<1>4. ASSUME NEW d \in Clients, clientUserIdx'[d] = i, NEW k \in DOMAIN storedTweets'[d]
      PROVE  storedTweets'[d][k].text # text
  <2>1. HasEntry(d)'
    BY <1>4, EmptyStrIsNoValue DEF HasEntry
  <2>2. CASE WriteUsername(c) /\ storedTweets' = storedTweets /\ storedTweets[d] = <<>>
    BY <1>4, <2>2
  <2>3. CASE clientUserIdx'[d] = clientUserIdx[d]
    <3>1. \A m \in DOMAIN storedTweets[d] : storedTweets[d][m].text # text
      BY <1>4, <2>3 DEF Untold
    <3>2. CASE storedTweets'[d] = storedTweets[d]
      BY <1>4, <3>1, <3>2
    <3>3. CASE CopyTweet(c) /\ d = c
      <4>1. pc[c] = "l_copy" /\ pc[c] \in QueueSteps
        BY <3>3 DEF CopyTweet, QueueSteps
      <4>2. local[c].cell \in Filled(i)
        BY <1>1, <1>4, <2>3, <3>3, <4>1, Types DEF LocalsAt, TornInv, Holds, Filled
      <4>3. Cell(i, local[c].cell).text # text
        BY <4>2 DEF Untold
      <4>4. k \in DOMAIN storedTweets[c] \/ storedTweets'[c][k] = Cell(i, local[c].cell)
        BY <1>1, <1>4, <2>3, <3>3, StoredChange
      <4> QED BY <1>1, <3>1, <3>3, <4>3, <4>4, StoredChange
    <3> QED BY <1>1, <3>2, <3>3, StoredChange
  <2> QED BY <1>1, <2>1, <2>2, <2>3, EntryKept
<1> QED BY <1>3, <1>4 DEF Untold

LEMMA FreshStep ==
  ASSUME TornInv, Alone', NEW c \in Clients, NEW t \in Clients, Fresh(t),
         Validate(c) \/ Tweet(c) \/ Subscription(c) \/ Timeline(c) \/ Exit(c)
  PROVE  Fresh(t)'
<1>1. TypeInv /\ Control /\ EntriesInv /\ Alone
  BY DEF TornInv, EntriesInv, NamesInv, TypeInv
<1>2. SUFFICES ASSUME pc'[t] \in TweetSteps, NEW i \in UserIdx, local'[t].userIdx <= i,
                      NEW text, text = request'[t].text
               PROVE  Untold(i, text)'
  BY DEF Fresh, Untold
<1>3. CASE t # c
  <2>1. pc'[t] = pc[t] /\ local'[t] = local[t] /\ request'[t] = request[t] /\ ~ Tweet(c)
    BY <1>1, <1>2, <1>3, OneAtATime
  <2> QED BY <1>2, <2>1, UntoldKept DEF Fresh, Tweet
<1>4. CASE t = c
  <2>1. Tweet(c)
    BY <1>1, <1>2, <1>4, ValidateMoves, SubscriptionMoves, TimelineMoves, ExitMoves, MovesTo, Regions
  <2>2. CASE \E tags \in TagLists : BeginTweet(c, tags)
    <3>1. text = Len(sent) + 1 /\ ~ PutTweet(c) /\ Len(sent) \in Nat /\ DOMAIN sent = 1 .. Len(sent)
      BY <1>1, <1>2, <1>4, <2>2 DEF BeginTweet, Begin, PutTweet, TypeInv, Control, HistoryType
    <3>2. \A item : Genuine(item) => item.text # text
      BY <3>1 DEF Genuine
    <3>3. Untold(i, text)
      BY <3>2 DEF Untold, TornInv, AllGenuine, Filled
    <3> QED BY <2>1, <3>1, <3>3, UntoldKept
  <2>3. CASE ~ \E tags \in TagLists : BeginTweet(c, tags)
    <3>1. /\ pc[c] \in TweetSteps /\ request'[c] = request[c]
          /\ \/ local'[c].userIdx = local[c].userIdx /\ ~ PutTweet(c)
             \/ local'[c].userIdx = local[c].userIdx + 1
      BY <1>1, <1>2, <1>4, <2>1, <2>3, UserIdxStep DEF EntriesInv
    <3>2. local[c].userIdx \in Int /\ i \in Int
      BY <1>1, Types DEF UserIdx
    <3>3. local[c].userIdx <= i /\ (PutTweet(c) => i # local[c].userIdx)
      BY <1>2, <1>4, <3>1, <3>2
    <3> QED BY <1>2, <1>4, <2>1, <3>1, <3>3, UntoldKept DEF Fresh
  <2> QED BY <2>2, <2>3
<1> QED BY <1>3, <1>4

LEMMA DistinctStep ==
  ASSUME TornInv, Distinct, NEW c \in Clients, Fresh(c),
         Validate(c) \/ Tweet(c) \/ Subscription(c) \/ Timeline(c) \/ Exit(c)
  PROVE  Distinct'
<1>1. TypeInv /\ EntriesInv /\ Formatting(c)
  BY DEF TornInv, EntriesInv, NamesInv
<1>2. SUFFICES ASSUME NEW i \in UserIdx, NEW j \in PendingTweetIdx, NEW k \in PendingTweetIdx,
                      Cell(i, j)' # EmptyStr, Cell(i, k)' # EmptyStr,
                      Cell(i, j)'.text = Cell(i, k)'.text
               PROVE  j = k
  BY DEF Distinct, Filled
<1>3. CASE Cell(i, j)' = Cell(i, j) /\ Cell(i, k)' = Cell(i, k)
  BY <1>2, <1>3 DEF Distinct, Filled
<1>4. CASE PutTweet(c) /\ i = local[c].userIdx
  <2>1. local[c].item.text = request[c].text /\ pc[c] \in TweetSteps /\ local[c].userIdx <= i
    BY <1>1, <1>4, ItemPut DEF PutTweet, TweetSteps, AddSteps, UserIdx
  <2>2. \A m \in PendingTweetIdx : Cell(i, m) # EmptyStr => Cell(i, m).text # request[c].text
    BY <2>1 DEF Fresh, Untold, Filled
  <2>3. \A m \in PendingTweetIdx :
          Cell(i, m)' = Cell(i, m) \/ (m = local[c].cell /\ Cell(i, m)' = local[c].item)
    <3>1. ~ ClearTweet(c) /\ ~ ClearPendingTweet(c)
      BY <1>4 DEF PutTweet, ClearTweet, ClearPendingTweet
    <3> QED BY <1>1, <3>1, CellsChange
  <2> QED BY <1>2, <1>3, <1>4, <2>1, <2>2, <2>3
<1> QED BY <1>1, <1>2, <1>3, <1>4, CellsChange

LEMMA OnceStep ==
  ASSUME TornInv, Distinct, NEW c \in Clients, NEW d \in Clients, Fresh(c), Once(d),
         Validate(c) \/ Tweet(c) \/ Subscription(c) \/ Timeline(c) \/ Exit(c)
  PROVE  Once(d)'
<1>1. /\ TypeInv /\ EntriesInv /\ Control /\ Formatting(c) /\ Holds(c) /\ LocalsAt(pc[c], local[c])
  BY Types DEF TornInv, EntriesInv, NamesInv
<1>2. CASE ~ (d = c /\ CopyTweet(c))
  <2>1. storedTweets'[d] = storedTweets[d]
    BY <1>1, <1>2, StoredChange
  <2>2. SUFFICES ASSUME HasEntry(d)', NEW j \in Filled(clientUserIdx[d])', ~ Reading(d, j)',
                        NEW k \in DOMAIN storedTweets[d]
                 PROVE  storedTweets[d][k].text # Cell(clientUserIdx[d], j)'.text
    BY <2>1 DEF Once, Cell, Filled, Reading
  <2>3. HasEntry(d) /\ clientUserIdx'[d] = clientUserIdx[d] /\ clientUserIdx[d] \in UserIdx
    BY <1>1, <2>2, EntryKept
  <2>4. PICK own \in UserIdx : own = clientUserIdx[d]
    BY <2>3
  <2>5. j \in PendingTweetIdx /\ Cell(own, j)' # EmptyStr
    BY <2>2, <2>3, <2>4 DEF Filled, Cell
  <2>6. CASE Cell(own, j)' = Cell(own, j)
    <3>1. ~ Reading(d, j)
      <4>1. SUFFICES ASSUME Reading(d, j) PROVE FALSE
        OBVIOUS
      <4>2. CASE d # c
        <5>1. pc'[d] = pc[d] /\ local'[d] = local[d]
          BY <1>1, <4>2, OthersStay, ValidateMoves, TweetMoves, SubscriptionMoves, TimelineMoves, ExitMoves
        <5> QED BY <2>2, <4>1, <5>1 DEF Reading
      <4>3. CASE d = c
        <5>1. ClearTweet(c)
          BY <4>1, <4>3, OnlyClearTweet DEF Reading
        <5>2. WriteTweetCell(own, j, EmptyStr)
          BY <2>4, <4>1, <4>3, <5>1 DEF ClearTweet, Reading
        <5> QED BY <1>1, <2>5, <5>2, CellWritten
      <4> QED BY <4>2, <4>3
    <3>2. storedTweets[d][k].text # Cell(own, j).text
      BY <2>2, <2>3, <2>4, <2>5, <2>6, <3>1 DEF Once, Filled
    <3> QED BY <2>3, <2>4, <2>6, <3>2 DEF Cell
  <2>7. CASE PutTweet(c) /\ own = local[c].userIdx /\ Cell(own, j)' = local[c].item
    <3>1. local[c].item.text = request[c].text /\ pc[c] \in TweetSteps /\ local[c].userIdx <= own
      BY <1>1, <2>7, ItemPut DEF PutTweet, TweetSteps, AddSteps, UserIdx
    <3>2. storedTweets[d][k].text # request[c].text
      BY <2>2, <2>4, <3>1 DEF Fresh, Untold
    <3> QED BY <2>3, <2>4, <2>7, <3>1, <3>2 DEF Cell
  <2> QED BY <1>1, <2>5, <2>6, <2>7, CellsChange
<1>3. CASE d = c /\ CopyTweet(c)
  <2>1. pc[c] = "l_copy" /\ pc[c] \in InSession /\ pc[c] \in QueueSteps
    BY <1>3 DEF CopyTweet, InSession, TimelineSteps, QueueSteps
  <2>2. HasEntry(c) /\ local[c].cell \in PendingTweetIdx
    BY <1>1, <2>1, InSessionHasEntry DEF LocalsAt
  <2>3. PICK own \in UserIdx : own = clientUserIdx[c]
    BY <1>1, <2>1, InSessionHasEntry
  <2>4. PICK n, item :
          /\ n \in Nat
          /\ DOMAIN storedTweets'[c] = 1 .. n /\ DOMAIN storedTweets[c] = 1 .. n - 1
          /\ \A k \in DOMAIN storedTweets[c] : storedTweets'[c][k] = storedTweets[c][k]
          /\ storedTweets'[c][n] = item /\ item = Cell(own, local[c].cell)
    <3>1. DOMAIN storedTweets[c] = 1 .. (Len(storedTweets[c]) + 1) - 1
      BY <1>1, <1>3, StoredChange
    <3> QED BY <1>1, <1>3, <2>3, <3>1, StoredChange
  <2>5. local[c].cell \in Filled(own)
    BY <1>1, <2>1, <2>2, <2>3 DEF Holds, Filled
  <2>6. \A j \in Filled(own), k \in DOMAIN storedTweets[c] : storedTweets[c][k].text # Cell(own, j).text
    BY <1>3, <2>1, <2>2, <2>3 DEF Once, Reading
  <2>7. pc'[c] = "l_clear" /\ local'[c] = local[c] /\ UNCHANGED <<activeUsers, clientUserIdx>>
    BY <1>1, <1>3, GotoMoves DEF CopyTweet, shared
  <2>8. \A k \in DOMAIN storedTweets'[c] : k \in DOMAIN storedTweets[c] \/ k = n
    BY <2>4
  <2>9. \A k, m \in DOMAIN storedTweets'[c] :
          storedTweets'[c][k].text = storedTweets'[c][m].text => k = m
    <3>1. \A k \in DOMAIN storedTweets[c] : storedTweets'[c][k].text # item.text
      BY <2>4, <2>5, <2>6
    <3>2. \A k, m \in DOMAIN storedTweets[c] :
            storedTweets'[c][k].text = storedTweets'[c][m].text => k = m
      BY <1>3, <2>4 DEF Once
    <3> QED BY <2>4, <2>8, <3>1, <3>2
  <2>10. ASSUME NEW j \in Filled(own), j # local[c].cell, NEW k \in DOMAIN storedTweets'[c]
         PROVE  storedTweets'[c][k].text # Cell(own, j).text
    <3>1. item.text # Cell(own, j).text
      BY <2>4, <2>5, <2>10 DEF Distinct
    <3> QED BY <2>4, <2>6, <2>8, <2>10, <3>1
  <2>11. Filled(own)' = Filled(own) /\ \A j : Reading(c, j)' <=> j = local[c].cell
    BY <2>7 DEF Filled, Cell, Reading
  <2> QED BY <1>3, <2>3, <2>7, <2>9, <2>10, <2>11 DEF Once, Cell, Filled
<1> QED BY <1>2, <1>3

LEMMA OnceInit ==
  ASSUME RegistersAlone, TweetsAlone, Init
  PROVE  OnceInv
<1>1. TornInv
  BY TornInit
<1>2. \A c \in Clients : pc[c] \in {"connected", "ready"} /\ storedTweets[c] = <<>>
  BY DEF Init
<1>3. \A i \in UserIdx, j \in PendingTweetIdx : Cell(i, j) = EmptyStr
  BY StartAssumption DEF Init, Cell
<1>4. \A c \in Clients : Once(c) /\ Fresh(c)
  BY <1>2 DEF Once, Fresh, TweetSteps, StoreSteps, UpdateSteps, AddSteps
<1> QED BY <1>1, <1>3, <1>4 DEF OnceInv, Distinct, Filled

LEMMA OnceInvStep ==
  ASSUME RegistersAlone, TweetsAlone, OnceInv, NEW c \in Clients,
         Validate(c) \/ Tweet(c) \/ Subscription(c) \/ Timeline(c) \/ Exit(c)
  PROVE  OnceInv'
<1>1. TornInv' /\ Alone'
  BY TornStep DEF OnceInv, TornInv, EntriesInv
<1>2. Distinct'
  BY DistinctStep DEF OnceInv
<1>3. \A d \in Clients : Once(d)' /\ Fresh(d)'
  BY <1>1, OnceStep, FreshStep DEF OnceInv
<1> QED BY <1>1, <1>2, <1>3 DEF OnceInv

LEMMA OnceStutter == OnceInv /\ UNCHANGED vars => OnceInv'
<1> SUFFICES ASSUME OnceInv, UNCHANGED vars PROVE OnceInv'
  OBVIOUS
<1>1. UNCHANGED <<activeUsers, pc, request, clientUserIdx, local, storedTweets>>
  BY DEF vars, shared
<1>2. TornInv'
  BY TornStutter DEF OnceInv
<1>3. Distinct' /\ \A c \in Clients : Once(c)' /\ Fresh(c)'
  BY <1>1 DEF OnceInv, Distinct, Once, Fresh, Untold, Filled, Cell, Reading, HasEntry
<1> QED BY <1>2, <1>3 DEF OnceInv

LEMMA AlwaysOnce ==
  ASSUME RegistersAlone, TweetsAlone
  PROVE  Spec => []OnceInv
<1>1. OnceInv /\ [Next]_vars => OnceInv'
  BY OnceInvStep, OnceStutter DEF Next
<1>2. Init => OnceInv
  BY OnceInit
<1> QED BY <1>1, <1>2, PTL DEF Spec

(* A timeline copies a tweet and empties its cell in two steps             *)
(* (ttweetsrv.c:594), while a tweet may look for an empty cell; but no     *)
(* user is shown a tweet twice, nor has it in the queue twice, when tweets *)
(* overlap neither tweets nor exits.                                       *)
THEOREM TweetsComeOnce ==
  ASSUME RegistersAlone, TweetsAlone
  PROVE  Spec => []DeliveredOnce
<1>1. OnceInv => DeliveredOnce
  <2> SUFFICES ASSUME OnceInv, NEW c \in Clients
               PROVE  /\ IsInjective(storedTweets[c])
                      /\ HasEntry(c) => \A j \in PendingTweetIdx : Entry(c).pendingTweets[j] # EmptyStr =>
                           /\ \A k \in PendingTweetIdx \ {j} :
                                Entry(c).pendingTweets[k] # Entry(c).pendingTweets[j]
                           /\ Entry(c).pendingTweets[j] \in Range(storedTweets[c]) => Reading(c, j)
    BY DEF DeliveredOnce, Reading
  <2>1. IsInjective(storedTweets[c])
    BY DEF OnceInv, Once, IsInjective
  <2>2. ASSUME HasEntry(c), NEW j \in PendingTweetIdx, Entry(c).pendingTweets[j] # EmptyStr
        PROVE  /\ \A k \in PendingTweetIdx \ {j} :
                     Entry(c).pendingTweets[k] # Entry(c).pendingTweets[j]
               /\ Entry(c).pendingTweets[j] \in Range(storedTweets[c]) => Reading(c, j)
    <3>1. PICK i \in UserIdx : i = clientUserIdx[c]
      BY <2>2, Types DEF OnceInv, TornInv, EntriesInv, NamesInv, HasEntry
    <3>2. \A k : Entry(c).pendingTweets[k] = Cell(i, k)
      BY <3>1 DEF Entry, Cell
    <3>3. j \in Filled(i)
      BY <2>2, <3>2 DEF Filled
    <3>4. \A k \in PendingTweetIdx \ {j} : Cell(i, k) # Cell(i, j)
      BY <3>3 DEF OnceInv, Distinct, Filled
    <3>5. Cell(i, j) \in Range(storedTweets[c]) => Reading(c, j)
      BY <2>2, <3>1, <3>3 DEF OnceInv, Once, Range
    <3> QED BY <3>2, <3>4, <3>5
  <2> QED BY <2>1, <2>2
<1> QED BY <1>1, AlwaysOnce, PTL

-----------------------------------------------------------------------------
(* No tweet lost                                                           *)

Handling(t, text) == pc[t] \in TweetSteps /\ request[t].text = text

Waits(i, text) == \E j \in Filled(i) : Cell(i, j).text = text

(* User i has a hashtag of the tweet of t that its loops come to from      *)
(* subscription s0 and hashtag k0 on.                                      *)
StillMatches(t, i, s0, k0) ==
  \E s \in SubscriptionIdx, k \in Nat :
    /\ k < Len(request[t].tags) /\ activeUsers[i].subscriptions[s] = request[t].tags[k + 1]
    /\ s > s0 \/ (s = s0 /\ k >= k0)

KeepsAll(i) ==
  /\ activeUsers[i].isSubscribedAll
  /\ ~ \E c \in Clients : clientUserIdx[c] = i /\ pc[c] = "s_all" /\ request[c].kind = "unsubscribe"

Looking(t, i) == i = local[t].userIdx /\ pc[t] \in {"u_more", "u_match"}

(* The child of t will give the tweet to user i.                           *)
StillToCome(t, i) ==
  /\ activeUsers[i].isOccupied
  /\ \/ ~ Looking(t, i) /\ (KeepsAll(i) \/ StillMatches(t, i, 0, 0))
     \/ Looking(t, i) /\ StillMatches(t, i, local[t].cell, local[t].hashtagIdx)
     \/ i = local[t].userIdx /\ pc[t] \in AddSteps

(* What becomes of a tweet that is due to user i.                          *)
Comes(i, text) ==
  /\ ~ Clearing(i)
  /\ \A c \in Clients : clientUserIdx[c] = i /\ pc[c] = "l_clear" => Cell(i, local[c].cell).text # text
  /\ (\A t \in Clients : ~ Handling(t, text)) => Waits(i, text)
  /\ \A t \in Clients : Handling(t, text) =>
       IF i < local[t].userIdx THEN Waits(i, text) ELSE StillToCome(t, i)

LossInv ==
  /\ OnceInv
  /\ \A d \in due : \E i \in UserIdx, text \in DOMAIN sent : d = <<text, i>> /\ Comes(i, text)

(* A request that is a tweet is being handled.                             *)
LEMMA InHandIs ==
  ASSUME TypeInv, NEW text
  PROVE  text \in InHand <=> \E t \in Clients : Handling(t, text)
<1>1. ASSUME NEW t \in Clients
      PROVE  request[t].kind = "tweet" <=> pc[t] \in TweetSteps
  <2>1. pc[t] \in Waiting \cup ValidateSteps \cup InSession /\ RequestAt(pc[t], request[t])
    BY Types
  <2>2. CASE pc[t] \in Waiting
    BY <2>1, <2>2, Regions DEF RequestAt, NoRequest
  <2>3. CASE pc[t] \notin Waiting
    BY <2>1, <2>3, Regions DEF RequestAt, InSession
  <2> QED BY <2>2, <2>3
<1> QED BY <1>1 DEF InHand, Handling

(* A tweet goes on waiting until its cell is emptied.                      *)
LEMMA WaitsKept ==
  ASSUME OnceInv, NEW c \in Clients, NEW i \in UserIdx, NEW text, Waits(i, text), ~ Clearing(i),
         clientUserIdx[c] = i /\ pc[c] = "l_clear" => Cell(i, local[c].cell).text # text,
         Validate(c) \/ Tweet(c) \/ Subscription(c) \/ Timeline(c) \/ Exit(c)
  PROVE  Waits(i, text)'
<1>1. TypeInv /\ EntriesInv /\ Formatting(c)
  BY DEF OnceInv, TornInv, EntriesInv, NamesInv
<1>2. PICK j \in PendingTweetIdx : Cell(i, j) # EmptyStr /\ Cell(i, j).text = text
  BY DEF Waits, Filled
<1>3. Cell(i, j)' = Cell(i, j)
  <2>1. ~ (PutTweet(c) /\ i = local[c].userIdx /\ j = local[c].cell)
    BY <1>1, <1>2, ItemPut
  <2>2. ~ (ClearTweet(c) /\ i = clientUserIdx[c] /\ j = local[c].cell)
    BY <1>2 DEF ClearTweet
  <2>3. ~ (ClearPendingTweet(c) /\ i = clientUserIdx[c])
    BY DEF ClearPendingTweet, Clearing, ClearSteps
  <2> QED BY <1>1, <2>1, <2>2, <2>3, CellsChange
<1> QED BY <1>2, <1>3 DEF Waits, Filled

(* A tweet is due from the start, or not at all.                           *)
LEMMA DueStep ==
  ASSUME TypeInv, NEW c \in Clients, NEW d \in due',
         Validate(c) \/ Tweet(c) \/ Subscription(c) \/ Timeline(c) \/ Exit(c)
  PROVE  \/ d \in due
         \/ \E tags \in TagLists, i \in UserIdx :
              /\ BeginTweet(c, tags) /\ d = <<Len(sent) + 1, i>>
              /\ Wants(activeUsers[i], tags) /\ ~ Unsubscribing(i)
<1>1. CASE \E tags \in TagLists : BeginTweet(c, tags)
  BY <1>1 DEF BeginTweet
<1>2. CASE FindTweetCell(c) \/ WriteList(c) \/ CopyTweet(c) \/ ClearOccupied(c)
  <2>1. FindTweetCell(c) => due' \subseteq due
    BY DEF FindTweetCell
  <2>2. WriteList(c) => due' \subseteq due
    BY DEF WriteList
  <2>3. CopyTweet(c) => due' \subseteq due
    BY DEF CopyTweet
  <2>4. ClearOccupied(c) => due' \subseteq due
    BY DEF ClearOccupied
  <2> QED BY <1>2, <2>1, <2>2, <2>3, <2>4
<1>3. CASE ~ (FindTweetCell(c) \/ WriteList(c) \/ CopyTweet(c) \/ ClearOccupied(c))
             /\ ~ \E tags \in TagLists : BeginTweet(c, tags)
  <2>1. WriteSubscribedAll(c) => UNCHANGED due
    BY DEF WriteSubscribedAll, history
  <2>2. UNCHANGED due
    BY <1>3, <2>1, ValidateLeaves, TweetLeaves, SubscriptionLeaves, TimelineLeaves, ExitLeaves DEF history
  <2> QED BY <2>2
<1> QED BY <1>1, <1>2, <1>3

(* "subscribe" writes over no hashtag.                                     *)
LEMMA SubscribedKeeps ==
  ASSUME NEW u \in SharedUser, NEW h, NEW s \in SubscriptionIdx, u.subscriptions[s] # EmptyStr
  PROVE  Subscribed(u, h).subscriptions[s] = u.subscriptions[s]
<1> DEFINE m == FirstEmpty(u.subscriptions, MAX_SUBSCRIPTIONS)
<1>1. CASE IsSubscriptionsFull(u) \/ IsSubscribed(u, h)
  BY <1>1 DEF Subscribed
<1>2. CASE ~ (IsSubscriptionsFull(u) \/ IsSubscribed(u, h))
  <2>1. \E k \in 0 .. MAX_SUBSCRIPTIONS - 1 : u.subscriptions[k] = EmptyStr
    BY <1>2 DEF IsSubscriptionsFull, IsSubscribed, SubscriptionIdx
  <2>2. u.subscriptions[m] = EmptyStr
    BY <2>1, FirstEmptyIsFirst, EmptyStrIsNoValue
  <2>3. Subscribed(u, h).subscriptions = [u.subscriptions EXCEPT ![m] = h]
    BY <1>2 DEF Subscribed, SharedUser
  <2> HIDE DEF m
  <2> QED BY <2>2, <2>3 DEF SharedUser
<1> QED BY <1>1, <1>2

(* What a subscription leaves to a tweet that is being handled.            *)
LEMMA ListsStillMatch ==
  ASSUME TypeInv, NEW c \in Clients, Subscription(c), NEW i \in UserIdx, NEW text,
         text \in InHand, <<text, i>> \in due'
  PROVE  /\ \A s \in SubscriptionIdx : activeUsers[i].subscriptions[s] # EmptyStr =>
              activeUsers'[i].subscriptions[s] = activeUsers[i].subscriptions[s]
         /\ KeepsAll(i) => KeepsAll(i)'
<1>0. /\ activeUsers \in [UserIdx -> SharedUser] /\ Control
      /\ \A d \in Clients \ {c} : pc'[d] = pc[d] /\ request'[d] = request[d]
      /\ clientUserIdx' = clientUserIdx
  BY Types, SubscriptionMoves, OthersStay, KeepsNames
<1>1. CASE WriteList(c) /\ i = clientUserIdx[c]
  <2>1. request[c].kind = "subscribe" /\ pc[c] \in SubscriptionSteps
    BY <1>1 DEF WriteList, SubscriptionSteps
  <2> DEFINE list == Subscribed(activeUsers[i], request[c].hashtag).subscriptions
  <2>2. activeUsers' = [activeUsers EXCEPT ![i] = [activeUsers[i] EXCEPT !.subscriptions = list]]
    BY <1>1, <2>1 DEF WriteList, WriteUser, Entry, After
  <2>3. \A s \in SubscriptionIdx : activeUsers[i].subscriptions[s] # EmptyStr =>
          list[s] = activeUsers[i].subscriptions[s]
    BY <1>0, SubscribedKeeps
  <2> HIDE DEF list
  <2>4. /\ activeUsers'[i].subscriptions = list
        /\ activeUsers'[i].isSubscribedAll = activeUsers[i].isSubscribedAll
    BY <1>0, <2>2 DEF SharedUser
  <2>5. pc'[c] = "s_all" => request'[c].kind = "subscribe"
    <3>1. ASSUME Goto(c, "s_all", local[c])
          PROVE  request' = request
      BY <3>1 DEF Goto
    <3>2. ASSUME Reply(c, "ready")
          PROVE  pc'[c] = "ready"
      BY <3>2, ReplyMoves
    <3> QED BY <1>1, <2>1, <3>1, <3>2 DEF WriteList
  <2> QED BY <1>0, <2>3, <2>4, <2>5 DEF KeepsAll
<1>2. CASE WriteSubscribedAll(c) /\ i = clientUserIdx[c]
  <2> DEFINE flag == (request[c].kind = "subscribe")
  <2>1. /\ activeUsers' = [activeUsers EXCEPT ![i] = [activeUsers[i] EXCEPT !.isSubscribedAll = flag]]
        /\ pc[c] = "s_all" /\ pc[c] \in SubscriptionSteps /\ pc'[c] = "ready"
    BY <1>2, ReplyMoves DEF WriteSubscribedAll, WriteUser, Entry, SubscriptionSteps
  <2>2. KeepsAll(i) => flag
    BY <1>2, <2>1, Types DEF KeepsAll, RequestAt
  <2> HIDE DEF flag
  <2>3. /\ activeUsers'[i].subscriptions = activeUsers[i].subscriptions
        /\ activeUsers'[i].isSubscribedAll = flag
    BY <1>0, <2>1 DEF SharedUser
  <2> QED BY <1>0, <2>1, <2>2, <2>3 DEF KeepsAll
<1>3. CASE i # clientUserIdx[c]
  <2>1. activeUsers'[i] = activeUsers[i]
    BY <1>3, SubscriptionLeaves
  <2> QED BY <1>0, <1>3, <2>1 DEF KeepsAll
<1>4. CASE ~ WriteList(c) /\ ~ WriteSubscribedAll(c)
  <2>1. activeUsers' = activeUsers /\ pc'[c] # "s_all"
    <3>1. PICK h \in Subscribable, kind \in {"subscribe", "unsubscribe"} : BeginSubscription(c, kind, h)
      BY <1>4 DEF Subscription
    <3> QED BY <1>0, <3>1, Types DEF BeginSubscription, Begin, shared
  <2> QED BY <1>0, <2>1 DEF KeepsAll
<1> QED BY <1>1, <1>2, <1>3, <1>4

(* Other children do not disturb a tweet that is on its way to a user.     *)
LEMMA StillKept ==
  ASSUME OnceInv, Alone', NEW c \in Clients, NEW t \in Clients \ {c}, NEW i \in UserIdx, NEW text,
         Handling(t, text), <<text, i>> \in due', StillToCome(t, i),
         Validate(c) \/ Tweet(c) \/ Subscription(c) \/ Timeline(c) \/ Exit(c)
  PROVE  StillToCome(t, i)'
<1>1. /\ TypeInv /\ NamesInv /\ EntriesInv /\ Control /\ Alone /\ HasDone(c) /\ text \in InHand
      /\ RequestAt(pc[t], request[t]) /\ pc[t] \in TweetSteps
  BY InHandIs, Types DEF OnceInv, TornInv, EntriesInv, NamesInv, Handling
<1>2. /\ pc'[t] = pc[t] /\ local'[t] = local[t] /\ request'[t] = request[t]
      /\ ~ Tweet(c) /\ ~ Exit(c)
  BY <1>1, OneAtATime
<1>3. activeUsers[i].isOccupied => activeUsers'[i].isOccupied
  BY <1>1, <1>2, UseValidateStep, KeepsNames
<1>4. /\ \A s \in SubscriptionIdx : activeUsers[i].subscriptions[s] # EmptyStr =>
           activeUsers'[i].subscriptions[s] = activeUsers[i].subscriptions[s]
      /\ KeepsAll(i) => KeepsAll(i)'
  <2>1. CASE Subscription(c)
    BY <1>1, <2>1, ListsStillMatch
  <2>2. CASE Validate(c) \/ Timeline(c)
    <3>1. SameLists
      BY <1>1, <2>2, ValidateLeaves, TimelineLeaves
    <3>2. /\ \A d \in Clients \ {c} : pc'[d] = pc[d] /\ request'[d] = request[d] /\ clientUserIdx'[d] = clientUserIdx[d]
          /\ pc'[c] # "s_all"
      <4>1. pc'[c] \notin SubscriptionSteps
        BY <1>1, <2>2, ValidateMoves, TimelineMoves, MovesTo, Regions
      <4>2. \A d \in Clients \ {c} : pc'[d] = pc[d] /\ request'[d] = request[d]
        BY <1>1, <2>2, ValidateMoves, TimelineMoves, OthersStay
      <4>3. \A d \in Clients \ {c} : clientUserIdx'[d] = clientUserIdx[d]
        BY <1>1, <2>2, ValidateLeaves, KeepsNames, Types DEF Occupy, WriteUsername
      <4> QED BY <4>1, <4>2, <4>3 DEF SubscriptionSteps
    <3> QED BY <3>1, <3>2 DEF SameLists, KeepsAll
  <2> QED BY <1>2, <2>1, <2>2
<1>5. ASSUME NEW s0, NEW k0, StillMatches(t, i, s0, k0)
      PROVE  StillMatches(t, i, s0, k0)'
  <2>1. PICK s \in SubscriptionIdx, k \in Nat :
          /\ k < Len(request[t].tags) /\ activeUsers[i].subscriptions[s] = request[t].tags[k + 1]
          /\ s > s0 \/ (s = s0 /\ k >= k0)
    BY <1>5 DEF StillMatches
  <2>2. request[t].tags[k + 1] \in Hashtags
    <3>1. request[t].tags \in Seq(Hashtags)
      BY <1>1, Regions DEF RequestAt
    <3> QED BY <2>1, <3>1
  <2>3. activeUsers'[i].subscriptions[s] = request'[t].tags[k + 1]
    BY <1>2, <1>4, <2>1, <2>2, EmptyStrIsNoValue DEF Subscribable
  <2> QED BY <1>2, <2>1, <2>3 DEF StillMatches
<1>6. Looking(t, i)' <=> Looking(t, i)
  BY <1>2 DEF Looking
<1>7. StillMatches(t, i, 0, 0) => StillMatches(t, i, 0, 0)'
  BY <1>5
<1>8. StillMatches(t, i, local[t].cell, local[t].hashtagIdx) =>
        StillMatches(t, i, local[t].cell, local[t].hashtagIdx)'
  <2>1. PICK s0, k0 : s0 = local[t].cell /\ k0 = local[t].hashtagIdx
    OBVIOUS
  <2>2. StillMatches(t, i, s0, k0) => StillMatches(t, i, s0, k0)'
    BY <1>5
  <2> QED BY <1>2, <2>1, <2>2
<1> QED BY <1>2, <1>3, <1>4, <1>6, <1>7, <1>8 DEF StillToCome

(* A tweet is no longer handled when it has come to the last user.         *)
LEMMA LeavesHand ==
  ASSUME TypeInv, NEW c \in Clients, Tweet(c), LatestSound(c),
         pc[c] \in TweetSteps, pc'[c] \notin TweetSteps
  PROVE  NextUser(c) /\ local[c].userIdx = MAX_CONC_CONN - 1
<1>1. ASSUME NEW p \in TweetSteps, NEW m, Goto(c, p, m)
      PROVE  FALSE
  BY <1>1, GotoMoves
<1>2. {"t_username", "t_text", "t_count", "t_clear", "t_more", "t_hashtag",
        "u_occupied", "u_all", "u_more", "u_match",
        "a_to", "a_from", "a_text", "a_tag", "a_scan", "a_put"} \subseteq TweetSteps
  BY DEF TweetSteps, StoreSteps, UpdateSteps, AddSteps
<1>3. ASSUME NextUser(c)
      PROVE  NextUser(c) /\ local[c].userIdx = MAX_CONC_CONN - 1
  BY <1>1, <1>2, <1>3, Types, EmptyStrIsNoValue DEF NextUser, UserIdx
<1>4. CASE \E tags \in TagLists : BeginTweet(c, tags)
  BY <1>4, Regions DEF BeginTweet
<1>5. CASE StoreUsername(c) \/ StoreText(c) \/ StoreCount(c) \/ ClearHashtag(c) \/ MoreHashtags(c)
  BY <1>1, <1>2, <1>5 DEF StoreUsername, StoreText, StoreCount, ClearHashtag, MoreHashtags
<1>6. CASE StoreHashtag(c)
  BY <1>1, <1>2, <1>6 DEF StoreHashtag, LatestSound, Counted
<1>7. CASE UpdateOccupied(c) \/ UpdateSubscribedAll(c)
  BY <1>1, <1>2, <1>3, <1>7 DEF UpdateOccupied, UpdateSubscribedAll
<1>8. CASE MoreToMatch(c) \/ Match(c)
  BY <1>1, <1>2, <1>3, <1>8 DEF MoreToMatch, Match
<1>9. CASE FormatTo(c) \/ FormatFrom(c) \/ FormatText(c) \/ FormatTag(c)
  BY <1>1, <1>2, <1>9 DEF FormatTo, FormatFrom, FormatText, FormatTag
<1>10. CASE FindTweetCell(c) \/ PutTweet(c)
  BY <1>1, <1>2, <1>3, <1>10 DEF FindTweetCell, PutTweet
<1> QED BY <1>4, <1>5, <1>6, <1>7, <1>8, <1>9, <1>10 DEF Tweet

(* When the loop over the users goes on, the tweet waits for the user, or  *)
(* the queue is full.                                                      *)
LEMMA Arrives ==
  ASSUME OnceInv, NEW c \in Clients, Tweet(c), NextUser(c), NEW i, i = local[c].userIdx,
         NEW text, Handling(c, text), StillToCome(c, i)
  PROVE  Waits(i, text)' \/ <<text, i>> \notin due'
<1> DEFINE l == local[c]
<1>1. /\ TypeInv /\ EntriesInv /\ Formatting(c) /\ LatestSound(c) /\ i \in UserIdx
      /\ l \in Locals /\ pc[c] \in TweetSteps /\ request[c].text = text
      /\ \A p : pc[c] = p => LocalsAt(p, l)
  BY Types DEF OnceInv, TornInv, EntriesInv, NamesInv, Handling
<1>2. pc'[c] \in {"u_occupied", "ready"}
  BY <1>1, GotoMoves, ReplyMoves DEF NextUser
<1>3. ASSUME NEW p \in TweetSteps, NEW m, Goto(c, p, m), p # "u_occupied"
      PROVE  FALSE
  BY <1>1, <1>2, <1>3, GotoMoves, Regions
<1>4. {"t_username", "t_text", "t_count", "t_clear", "t_more", "t_hashtag",
        "u_occupied", "u_all", "u_more", "u_match",
        "a_to", "a_from", "a_text", "a_tag", "a_scan", "a_put"} \subseteq TweetSteps
  BY DEF TweetSteps, StoreSteps, UpdateSteps, AddSteps
<1>5. CASE PutTweet(c)
  <2>1. /\ l.cell \in PendingTweetIdx /\ l.item # EmptyStr /\ l.item.text = text
        /\ WriteTweetCell(i, l.cell, l.item)
    BY <1>1, <1>5, ItemPut DEF PutTweet
  <2>2. PICK j \in PendingTweetIdx : j = l.cell
    BY <2>1
  <2>3. Cell(i, j)' = l.item
    BY <1>1, <2>1, <2>2, CellWritten
  <2> QED BY <2>1, <2>3 DEF Waits, Filled
<1>6. CASE FindTweetCell(c)
  <2>1. l.item.text = text
    BY <1>1, <1>6 DEF FindTweetCell, Formatting
  <2>2. due' = due \ {<<l.item.text, l.userIdx>>}
    BY <1>3, <1>4, <1>6 DEF FindTweetCell
  <2> QED BY <2>1, <2>2
<1>7. CASE UpdateOccupied(c)
  BY <1>3, <1>4, <1>7 DEF UpdateOccupied, StillToCome
<1>8. CASE MoreToMatch(c)
  <2>1. /\ pc[c] = "u_more" /\ LocalsAt("u_more", l)
        /\ latestTweet.numValidHashtags = Len(request[c].tags)
    BY <1>1, <1>8 DEF MoreToMatch, LatestSound, Written
  <2>2. StillMatches(c, i, l.cell, l.hashtagIdx)
    BY <2>1 DEF StillToCome, Looking, AddSteps
  <2>3. l.hashtagIdx \in Int /\ l.cell \in SubscriptionIdx /\ Len(request[c].tags) \in Nat
    BY <1>1, <2>1, Types DEF Locals, LocalsAt, CellSteps, RequestAt
  <2>4. ~ (l.hashtagIdx < Len(request[c].tags))
    BY <1>3, <1>4, <1>8, <2>1 DEF MoreToMatch
  <2>5. ~ (l.cell + 1 < MAX_SUBSCRIPTIONS)
    <3>1. ASSUME l.cell + 1 < MAX_SUBSCRIPTIONS
          PROVE  Goto(c, "u_more", [l EXCEPT !.cell = @ + 1, !.hashtagIdx = 0])
      BY <1>8, <2>1, <2>3, <2>4, <3>1 DEF MoreToMatch
    <3> QED BY <1>3, <1>4, <3>1
  <2> QED BY <2>2, <2>3, <2>4, <2>5, EmptyStrIsNoValue DEF StillMatches, SubscriptionIdx
<1>9. CASE \E tags \in TagLists : BeginTweet(c, tags)
  BY <1>1, <1>9, Regions DEF BeginTweet
<1>10. CASE StoreUsername(c) \/ StoreText(c) \/ StoreCount(c) \/ ClearHashtag(c) \/ StoreHashtag(c)
  BY <1>1, <1>3, <1>4, <1>10 DEF StoreUsername, StoreText, StoreCount, ClearHashtag, StoreHashtag,
                                LatestSound, Counted
<1>11. CASE UpdateSubscribedAll(c) \/ Match(c) \/ FormatTo(c) \/ FormatFrom(c) \/ FormatText(c) \/ FormatTag(c)
  BY <1>3, <1>4, <1>11 DEF UpdateSubscribedAll, Match, FormatTo, FormatFrom, FormatText, FormatTag
<1>12. CASE MoreHashtags(c)
  <2>1. pc[c] \in StoreSteps /\ l.userIdx = 0 /\ Goto(c, "u_occupied", NoLocals)
    BY <1>1, <1>3, <1>4, <1>12 DEF MoreHashtags, LatestSound, Counted, StoreSteps
  <2>2. local'[c] = NoLocals /\ pc'[c] = "u_occupied" /\ NoLocals.userIdx = 0
    BY <1>1, <2>1, GotoMoves, StartConstants
  <2>3. Goto(c, "u_occupied", [NoLocals EXCEPT !.userIdx = l.userIdx + 1])
    BY <1>1, <2>2, ReplyMoves DEF NextUser
  <2>4. local'[c].userIdx = 1
    BY <1>1, <2>1, <2>3, GotoMoves, StartConstants DEF Locals
  <2> QED BY <2>2, <2>4
<1> QED BY <1>5, <1>6, <1>7, <1>8, <1>9, <1>10, <1>11, <1>12 DEF Tweet

(* A tweet goes on to the users that it is due to.                         *)
LEMMA StillStep ==
  ASSUME OnceInv, NEW c \in Clients, Tweet(c), pc[c] \in TweetSteps, pc'[c] \in TweetSteps,
         NEW i \in UserIdx, local'[c].userIdx <= i, StillToCome(c, i)
  PROVE  StillToCome(c, i)'
<1> DEFINE l == local[c]
<1>1. /\ TypeInv /\ EntriesInv /\ Control /\ LatestSound(c)
      /\ l \in Locals /\ l.userIdx \in Int /\ i \in Int /\ l.hashtagIdx \in Nat
      /\ RequestAt(pc[c], request[c]) /\ Len(request[c].tags) \in Nat
      /\ \A p : pc[c] = p => LocalsAt(p, l)
  <2>1. /\ TypeInv /\ EntriesInv /\ Control /\ LatestSound(c) /\ RequestAt(pc[c], request[c])
        /\ LocalsAt(pc[c], l) /\ l \in Locals
    BY Types DEF OnceInv, TornInv, EntriesInv, NamesInv
  <2>2. request[c].tags \in Seq(Hashtags)
    BY <2>1, Regions DEF RequestAt
  <2> QED BY <2>1, <2>2 DEF Locals, UserIdx
<1>2. /\ request'[c] = request[c]
      /\ \/ local'[c].userIdx = l.userIdx /\ ~ PutTweet(c) /\ ~ NextUser(c)
         \/ local'[c].userIdx = l.userIdx + 1 /\ NextUser(c)
  <2>1. ~ \E tags \in TagLists : BeginTweet(c, tags)
    BY Regions DEF BeginTweet
  <2> QED BY <1>1, <2>1, UserIdxStep
<1>3. /\ activeUsers'[i].isOccupied
      /\ KeepsAll(i) => KeepsAll(i)'
      /\ activeUsers'[i].isSubscribedAll = activeUsers[i].isSubscribedAll
      /\ activeUsers'[i].subscriptions = activeUsers[i].subscriptions
  <2>1. /\ activeUsers'[i].subscriptions = activeUsers[i].subscriptions
        /\ activeUsers'[i].isSubscribedAll = activeUsers[i].isSubscribedAll
        /\ activeUsers'[i].isOccupied = activeUsers[i].isOccupied
    BY <1>1, TweetLeaves, KeepsNames DEF SameLists
  <2>2. /\ \A d \in Clients \ {c} : pc'[d] = pc[d] /\ request'[d] = request[d]
        /\ clientUserIdx' = clientUserIdx /\ pc'[c] # "s_all"
    <3>1. pc'[c] # "s_all"
      BY Regions DEF SubscriptionSteps
    <3> QED BY <1>1, <3>1, TweetMoves, OthersStay, KeepsNames
  <2> QED BY <2>1, <2>2 DEF StillToCome, KeepsAll
<1>4. \A s0, k0 : StillMatches(c, i, s0, k0) <=> StillMatches(c, i, s0, k0)'
  BY <1>2, <1>3 DEF StillMatches
<1>5. CASE i # l.userIdx
  <2>1. KeepsAll(i)' \/ StillMatches(c, i, 0, 0)'
    BY <1>3, <1>4, <1>5 DEF StillToCome, Looking
  <2>2. ~ Looking(c, i)'
    <3>1. CASE local'[c].userIdx = l.userIdx
      BY <1>5, <3>1 DEF Looking
    <3>2. CASE NextUser(c)
      <4>1. pc'[c] \in {"u_occupied", "ready"}
        BY <1>1, <3>2, GotoMoves, ReplyMoves DEF NextUser
      <4> QED BY <4>1 DEF Looking
    <3> QED BY <1>2, <3>1, <3>2
  <2> QED BY <1>3, <2>1, <2>2 DEF StillToCome
<1>6. CASE i = l.userIdx
  <2>0. local'[c].userIdx = i /\ ~ PutTweet(c) /\ ~ NextUser(c)
    BY <1>1, <1>2, <1>6
  <2>1. ASSUME pc'[c] \notin {"u_more", "u_match"}, pc[c] \notin {"u_more", "u_match"} \cup AddSteps
        PROVE  StillToCome(c, i)'
    BY <1>3, <1>4, <2>1 DEF StillToCome, Looking
  <2>2. ASSUME pc'[c] \in AddSteps
        PROVE  StillToCome(c, i)'
    BY <1>3, <2>0, <2>2 DEF StillToCome
  <2>3. ASSUME NEW m, pc'[c] \in {"u_more", "u_match"}, local'[c] = m,
               StillMatches(c, i, m.cell, m.hashtagIdx)'
        PROVE  StillToCome(c, i)'
    <3>1. Looking(c, i)'
      BY <2>0, <2>3 DEF Looking
    <3> QED BY <1>3, <2>3, <3>1 DEF StillToCome
  <2>4. ASSUME NEW p, NEW m, Goto(c, p, m)
        PROVE  pc'[c] = p /\ local'[c] = m
    BY <1>1, <2>4, GotoMoves
  <2>5. CASE StoreUsername(c) \/ StoreText(c) \/ StoreCount(c) \/ ClearHashtag(c) \/ MoreHashtags(c) \/ StoreHashtag(c)
    <3>1. pc[c] \in StoreSteps
      BY <2>5 DEF StoreUsername, StoreText, StoreCount, ClearHashtag, MoreHashtags, StoreHashtag, StoreSteps
    <3>2. pc'[c] \notin {"u_more", "u_match"}
      BY <2>4, <2>5, <1>1, ReplyMoves
         DEF StoreUsername, StoreText, StoreCount, ClearHashtag, MoreHashtags, StoreHashtag
    <3> QED BY <2>1, <3>1, <3>2 DEF StoreSteps, AddSteps
  <2>6. CASE UpdateOccupied(c)
    <3>1. pc[c] = "u_occupied" /\ pc'[c] = "u_all"
      BY <2>0, <2>4, <2>6 DEF UpdateOccupied
    <3> QED BY <2>1, <3>1 DEF AddSteps
  <2>7. CASE UpdateSubscribedAll(c)
    <3>1. CASE activeUsers[i].isSubscribedAll
      BY <1>6, <2>2, <2>4, <2>7, <3>1 DEF UpdateSubscribedAll, AddSteps
    <3>2. CASE ~ activeUsers[i].isSubscribedAll
      <4>1. pc[c] = "u_all" /\ pc'[c] = "u_more" /\ local'[c] = l
        BY <1>6, <2>4, <2>7, <3>2 DEF UpdateSubscribedAll
      <4>2. l.cell = 0 /\ l.hashtagIdx = 0
        BY <1>1, <4>1 DEF LatestSound, Counted
      <4>3. StillMatches(c, i, 0, 0)
        BY <3>2, <4>1 DEF StillToCome, KeepsAll, Looking, AddSteps
      <4>4. StillMatches(c, i, l.cell, l.hashtagIdx)'
        BY <1>4, <4>1, <4>2, <4>3
      <4> QED BY <2>3, <4>1, <4>4
    <3> QED BY <3>1, <3>2
  <2>8. CASE MoreToMatch(c) \/ Match(c)
    <3>1. /\ pc[c] \in {"u_more", "u_match"} /\ pc[c] \in UpdateSteps /\ l.cell \in Nat
          /\ latestTweet.numValidHashtags = Len(request[c].tags)
          /\ \A k \in HashtagIdx : latestTweet.hashtags[k] = TagOf(k, request[c].tags)
      <4>1. pc[c] \in {"u_more", "u_match"}
        BY <2>8 DEF MoreToMatch, Match
      <4> QED BY <1>1, <4>1 DEF LatestSound, Written, UpdateSteps, LocalsAt, CellSteps, SubscriptionIdx
    <3>2. PICK s \in SubscriptionIdx, k \in Nat :
            /\ k < Len(request[c].tags) /\ activeUsers[i].subscriptions[s] = request[c].tags[k + 1]
            /\ s > l.cell \/ (s = l.cell /\ k >= l.hashtagIdx)
      BY <1>6, <3>1 DEF StillToCome, StillMatches, Looking, AddSteps
    <3>3. ASSUME NEW p \in {"u_more", "u_match"}, NEW s0, NEW k0, s > s0 \/ (s = s0 /\ k >= k0),
                 NEW m, Goto(c, p, m), m.cell = s0, m.hashtagIdx = k0
          PROVE  StillToCome(c, i)'
      <4>1. StillMatches(c, i, s0, k0)
        BY <3>2, <3>3 DEF StillMatches
      <4>2. StillMatches(c, i, s0, k0)'
        BY <1>4, <4>1
      <4>3. StillMatches(c, i, m.cell, m.hashtagIdx)'
        BY <3>3, <4>2
      <4> QED BY <2>3, <2>4, <3>3, <4>3
    <3>4. s \in Nat
      BY DEF SubscriptionIdx
    <3>5. CASE MoreToMatch(c)
      <4>1. CASE l.hashtagIdx < latestTweet.numValidHashtags
        <5>1. Goto(c, "u_match", l)
          BY <1>1, <3>1, <3>5, <4>1 DEF MoreToMatch
        <5> QED BY <3>2, <3>3, <5>1
      <4>2. CASE ~ (l.hashtagIdx < latestTweet.numValidHashtags)
        <5> DEFINE m == [l EXCEPT !.cell = l.cell + 1, !.hashtagIdx = 0]
        <5>1. Goto(c, "u_more", m)
          BY <1>1, <2>0, <3>1, <3>5, <4>2 DEF MoreToMatch
        <5>2. m.cell = l.cell + 1 /\ m.hashtagIdx = 0
          BY <1>1 DEF Locals
        <5> HIDE DEF m
        <5>3. s > l.cell + 1 \/ (s = l.cell + 1 /\ k >= 0)
          BY <1>1, <3>1, <3>2, <3>4, <4>2, SMTT(40)
        <5> QED BY <3>3, <5>1, <5>2, <5>3
      <4> QED BY <4>1, <4>2
    <3>6. CASE Match(c)
      <4>1. CASE activeUsers[i].subscriptions[l.cell] = latestTweet.hashtags[l.hashtagIdx]
        <5>1. Goto(c, "a_to", l)
          BY <1>6, <3>6, <4>1 DEF Match
        <5> QED BY <2>2, <2>4, <5>1 DEF AddSteps
      <4>2. CASE activeUsers[i].subscriptions[l.cell] # latestTweet.hashtags[l.hashtagIdx]
        <5> DEFINE m == [l EXCEPT !.hashtagIdx = l.hashtagIdx + 1]
        <5>1. Goto(c, "u_more", m)
          BY <1>6, <3>6, <4>2 DEF Match
        <5>2. m.cell = l.cell /\ m.hashtagIdx = l.hashtagIdx + 1
          BY <1>1 DEF Locals
        <5> HIDE DEF m
        <5>3. l.hashtagIdx \in HashtagIdx /\ l.hashtagIdx < Len(request[c].tags)
          BY <1>1, <3>6, ChildStepsAssumption
             DEF Match, LatestSound, Counted, LocalsAt, HashtagSteps, HashtagIdx
        <5>4. latestTweet.hashtags[l.hashtagIdx] = request[c].tags[l.hashtagIdx + 1]
          BY <3>1, <5>3 DEF TagOf
        <5>5. ~ (s = l.cell /\ k = l.hashtagIdx)
          BY <3>2, <4>2, <5>4
        <5>6. s > l.cell \/ (s = l.cell /\ k >= l.hashtagIdx + 1)
          BY <1>1, <3>2, <5>5
        <5> QED BY <3>3, <5>1, <5>2, <5>6
      <4> QED BY <4>1, <4>2
    <3> QED BY <2>8, <3>5, <3>6
  <2>9. CASE FormatTo(c) \/ FormatFrom(c) \/ FormatText(c) \/ FormatTag(c) \/ FindTweetCell(c)
    <3>1. pc'[c] \in AddSteps
      BY <2>0, <2>4, <2>9 DEF FormatTo, FormatFrom, FormatText, FormatTag, FindTweetCell, AddSteps
    <3> QED BY <2>2, <3>1
  <2>10. CASE \E tags \in TagLists : BeginTweet(c, tags)
    BY <2>10, Regions DEF BeginTweet
  <2> QED BY <2>0, <2>5, <2>6, <2>7, <2>8, <2>9, <2>10 DEF Tweet
<1> QED BY <1>5, <1>6

(* Who tweets takes a step of its tweet.                                   *)
LEMMA OnlyTweet ==
  ASSUME TypeInv, NEW c \in Clients, pc[c] \in TweetSteps \/ pc'[c] \in TweetSteps,
         Validate(c) \/ Tweet(c) \/ Subscription(c) \/ Timeline(c) \/ Exit(c)
  PROVE  Tweet(c)
<1>1. Control
  BY DEF TypeInv
<1>2. ASSUME NEW S, NEW done, Moves(c, S, done), S \cap TweetSteps = {}, done \cap TweetSteps = {}
      PROVE  FALSE
  BY <1>1, <1>2, MovesTo, Regions DEF Moves
<1> QED BY <1>2, ValidateMoves, SubscriptionMoves, TimelineMoves, ExitMoves, Regions

LEMMA OnlyCopyTweet ==
  ASSUME TypeInv, NEW c \in Clients, pc'[c] = "l_clear",
         Validate(c) \/ Tweet(c) \/ Subscription(c) \/ Timeline(c) \/ Exit(c)
  PROVE  CopyTweet(c)
<1>1. Control /\ "l_clear" \in TimelineSteps
  BY DEF TypeInv, TimelineSteps
<1>2. Timeline(c)
  BY <1>1, ValidateMoves, TweetMoves, SubscriptionMoves, ExitMoves, MovesTo, Regions
<1>3. ~ (FirstTweet(c) \/ ScanTweet(c) \/ ClearTweet(c))
  BY GotoMoves, ReplyMoves DEF FirstTweet, ScanTweet, ClearTweet
<1>4. ~ BeginTimeline(c)
  BY <1>1 DEF BeginTimeline, Begin, Control
<1> QED BY <1>2, <1>3, <1>4 DEF Timeline

(* A tweet that is due stays so, or is no longer due.                      *)
LEMMA ComesStep ==
  ASSUME LossInv, Alone', NEW c \in Clients, NEW i, NEW text, <<text, i>> \in due, <<text, i>> \in due',
         Validate(c) \/ Tweet(c) \/ Subscription(c) \/ Timeline(c) \/ Exit(c)
  PROVE  Comes(i, text)'
<1>1. /\ OnceInv /\ TypeInv /\ NamesInv /\ EntriesInv /\ Control /\ Alone /\ HasDone(c)
      /\ i \in UserIdx /\ text \in DOMAIN sent /\ Comes(i, text)
  <2>1. PICK k \in UserIdx, n \in DOMAIN sent : <<text, i>> = <<n, k>> /\ Comes(k, n)
    BY DEF LossInv
  <2>2. text = n /\ i = k
    BY <2>1
  <2>3. i \in UserIdx /\ text \in DOMAIN sent /\ Comes(i, text)
    BY <2>1, <2>2
  <2>4. OnceInv /\ EntriesInv /\ NamesInv /\ TypeInv /\ Control
    BY DEF LossInv, OnceInv, TornInv, EntriesInv, NamesInv, TypeInv
  <2>5. Alone /\ HasDone(c)
    BY <2>4 DEF EntriesInv
  <2> QED BY <2>3, <2>4, <2>5
<1>2. ~ Clearing(i)'
  <2>1. ~ Clearing(i)
    BY <1>1 DEF Comes
  <2>2. CASE Exit(c) /\ i = clientUserIdx[c]
    <3>1. pc[c] \notin ClearSteps
      BY <2>1, <2>2 DEF Clearing
    <3>2. ~ ClearOccupied(c)
      BY <2>2 DEF ClearOccupied
    <3>3. BeginExit(c)
      BY <2>2, <3>1, <3>2 DEF Exit, ClearSubscribedAll, ClearUsername, ClearSubscription, ClearPendingTweet,
                             ClearSteps
    <3>4. pc'[c] = "e_occupied" /\ "e_occupied" \notin ClearSteps \cup {"left"}
      BY <1>1, <3>3 DEF BeginExit, Begin, Control, ClearSteps
    <3> QED BY <1>1, <2>1, <2>2, <3>4, UseExitStep
  <2>3. CASE Exit(c) /\ i # clientUserIdx[c]
    BY <1>1, <2>1, <2>3, UseExitStep
  <2> QED BY <1>1, <2>1, <2>2, <2>3, UseOtherStep, UseValidateStep
<1>3. ASSUME NEW d \in Clients, clientUserIdx'[d] = i, pc'[d] = "l_clear"
      PROVE  activeUsers'[i].pendingTweets[local'[d].cell].text # text
  <2>1. CASE d = c
    <3>1. CopyTweet(c)
      BY <1>1, <1>3, <2>1, OnlyCopyTweet
    <3>2. /\ local'[c] = local[c] /\ activeUsers' = activeUsers /\ clientUserIdx[c] = i
          /\ due' = due \ {<<Cell(i, local[c].cell).text, i>>}
      BY <1>1, <1>3, <2>1, <3>1, GotoMoves DEF CopyTweet, Entry, Cell, shared
    <3> QED BY <2>1, <3>2 DEF Cell
  <2>2. CASE d # c
    <3>1. pc[d] = "l_clear" /\ local'[d] = local[d]
      BY <1>1, <1>3, <2>2, OneAtATime
    <3>2. HasEntry(d) /\ clientUserIdx[d] = i
      BY <1>1, <1>3, <2>2, EntryKept, EmptyStrIsNoValue DEF HasEntry
    <3>3. PICK j \in PendingTweetIdx : j = local[d].cell
      BY <1>1, <3>1, Types DEF LocalsAt, QueueSteps
    <3>4. Cell(i, j) # EmptyStr /\ Cell(i, j).text # text
      BY <1>1, <3>1, <3>2, <3>3 DEF Comes, OnceInv, TornInv, Holds
    <3>5. ~ (PutTweet(c) /\ i = local[c].userIdx /\ j = local[c].cell)
      BY <1>1, <3>4, ItemPut DEF OnceInv, TornInv
    <3>6. ~ (ClearTweet(c) /\ i = clientUserIdx[c])
      BY <1>1, <2>2, <3>2 DEF NamesInv, Seats, HasEntry
    <3>7. ~ (ClearPendingTweet(c) /\ i = clientUserIdx[c])
      BY <1>1 DEF ClearPendingTweet, Comes, Clearing, ClearSteps
    <3>8. Cell(i, j)' = Cell(i, j)
      BY <1>1, <3>5, <3>6, <3>7, CellsChange
    <3> QED BY <3>1, <3>3, <3>4, <3>8 DEF Cell
  <2> QED BY <2>1, <2>2
<1>4. Waits(i, text) => Waits(i, text)'
  BY <1>1, WaitsKept DEF Comes
<1>5. ASSUME Tweet(c), Handling(c, text)
      PROVE  /\ local[c].userIdx \in Int /\ i \in Int
             /\ i < local[c].userIdx => Waits(i, text)
             /\ ~ (i < local[c].userIdx) => StillToCome(c, i)
             /\ NextUser(c) /\ i = local[c].userIdx => Waits(i, text)'
  <2>1. local[c].userIdx \in Int /\ i \in Int
    BY <1>1, Types DEF UserIdx
  <2>2. IF i < local[c].userIdx THEN Waits(i, text) ELSE StillToCome(c, i)
    BY <1>1, <1>5 DEF Comes
  <2>3. NextUser(c) /\ i = local[c].userIdx => Waits(i, text)'
    BY <1>1, <1>5, <2>1, <2>2, Arrives
  <2> QED BY <2>1, <2>2, <2>3
<1>6. ASSUME \A t \in Clients : ~ Handling(t, text)'
      PROVE  Waits(i, text)'
  <2>1. CASE \A t \in Clients : ~ Handling(t, text)
    BY <1>1, <1>4, <2>1 DEF Comes
  <2>2. CASE \E t \in Clients : Handling(t, text)
    <3>1. PICK t \in Clients : Handling(t, text)
      BY <2>2
    <3>2. t = c
      BY <1>1, <1>6, <3>1, OneAtATime DEF Handling
    <3>3. Tweet(c) /\ LatestSound(c)
      BY <1>1, <3>1, <3>2, OnlyTweet DEF Handling, EntriesInv
    <3>4. pc'[c] \notin TweetSteps
      <4>1. ASSUME pc'[c] \in TweetSteps
            PROVE  request'[c] = request[c]
        BY <1>1, <3>1, <3>2, <3>3, <4>1, UserIdxStep, Regions DEF Handling, BeginTweet
      <4> QED BY <1>6, <3>1, <3>2, <4>1 DEF Handling
    <3>5. NextUser(c) /\ local[c].userIdx = MAX_CONC_CONN - 1
      BY <1>1, <3>1, <3>2, <3>3, <3>4, LeavesHand DEF Handling
    <3>6. i < local[c].userIdx \/ i = local[c].userIdx
      BY <1>1, <3>5, EmptyStrIsNoValue DEF UserIdx
    <3> QED BY <1>4, <1>5, <3>1, <3>2, <3>3, <3>5, <3>6
  <2> QED BY <2>1, <2>2
<1>7. ASSUME NEW t \in Clients, Handling(t, text)'
      PROVE  IF i < local'[t].userIdx THEN Waits(i, text)' ELSE StillToCome(t, i)'
  <2>1. CASE t # c
    <3>1. pc'[t] = pc[t] /\ local'[t] = local[t] /\ request'[t] = request[t]
      BY <1>1, <2>1, OneAtATime
    <3>2. Handling(t, text)
      BY <1>7, <3>1 DEF Handling
    <3>3. IF i < local[t].userIdx THEN Waits(i, text) ELSE StillToCome(t, i)
      BY <1>1, <3>2 DEF Comes
    <3> QED BY <1>1, <1>4, <2>1, <3>1, <3>2, <3>3, StillKept
  <2>2. CASE t = c
    <3>1. Tweet(c) /\ LatestSound(c) /\ pc'[c] \in TweetSteps
      BY <1>1, <1>7, <2>2, OnlyTweet DEF Handling, EntriesInv
    <3>2. ~ \E tags \in TagLists : BeginTweet(c, tags)
      <4>1. ASSUME NEW tags \in TagLists, BeginTweet(c, tags)
            PROVE  request'[c].text = Len(sent) + 1
        BY <1>1, <4>1 DEF BeginTweet, Begin, Control
      <4>2. DOMAIN sent = 1 .. Len(sent) /\ Len(sent) \in Nat
        BY <1>1 DEF TypeInv, HistoryType
      <4> QED BY <1>1, <1>7, <2>2, <4>1, <4>2 DEF Handling
    <3>3. /\ Handling(c, text)
          /\ \/ local'[c].userIdx = local[c].userIdx /\ ~ NextUser(c)
             \/ local'[c].userIdx = local[c].userIdx + 1 /\ NextUser(c)
      BY <1>1, <1>7, <2>2, <3>1, <3>2, UserIdxStep DEF Handling
    <3>4. CASE i < local'[c].userIdx
      BY <1>4, <1>5, <2>2, <3>1, <3>3, <3>4
    <3>5. CASE ~ (i < local'[c].userIdx)
      <4>1. local'[c].userIdx <= i /\ StillToCome(c, i)
        BY <1>5, <3>1, <3>3, <3>5
      <4> QED BY <1>1, <2>2, <3>1, <3>3, <3>5, <4>1, StillStep DEF Handling
    <3> QED BY <2>2, <3>4, <3>5
  <2> QED BY <2>1, <2>2
<1> QED BY <1>2, <1>3, <1>6, <1>7 DEF Comes, Cell

(* A tweet whose request arrives comes to all users that want it.          *)
LEMMA ComesNew ==
  ASSUME LossInv, Alone', NEW c \in Clients, NEW tags \in TagLists, BeginTweet(c, tags),
         NEW i \in UserIdx, Wants(activeUsers[i], tags), ~ Unsubscribing(i),
         NEW text, text = Len(sent) + 1
  PROVE  Comes(i, text)'
<1>1. /\ OnceInv /\ TypeInv /\ EntriesInv /\ Control
      /\ Len(sent) \in Nat /\ text \notin DOMAIN sent
  <2>1. OnceInv /\ EntriesInv /\ TypeInv /\ Control
    BY DEF LossInv, OnceInv, TornInv, EntriesInv, NamesInv, TypeInv
  <2>2. DOMAIN sent = 1 .. Len(sent) /\ Len(sent) \in Nat
    BY <2>1 DEF TypeInv, HistoryType
  <2> QED BY <2>1, <2>2
<1>2. /\ pc[c] = "ready" /\ pc'[c] = "t_username" /\ local[c] = NoLocals
      /\ request'[c].text = text /\ request'[c].tags = tags
      /\ local' = local /\ activeUsers' = activeUsers /\ clientUserIdx' = clientUserIdx
      /\ \A d \in Clients \ {c} : pc'[d] = pc[d] /\ request'[d] = request[d]
  <2>1. pc[c] = "ready" /\ LocalsAt(pc[c], local[c])
    BY <1>1, Types DEF BeginTweet
  <2> QED BY <1>1, <2>1 DEF BeginTweet, Begin, Control, shared, LocalsAt, FirstSteps, Waiting
<1>3. ~ Clearing(i)'
  <2>1. ~ Clearing(i)
    BY <1>1 DEF Clearing, Wants, EntriesInv, HasDone, Entry
  <2> QED BY <1>2, <2>1 DEF Clearing, ClearSteps
<1>4. ASSUME NEW d \in Clients, clientUserIdx'[d] = i, pc'[d] = "l_clear"
      PROVE  activeUsers'[i].pendingTweets[local'[d].cell].text # text
  <2>1. d # c /\ pc[d] = "l_clear" /\ clientUserIdx[d] = i
    BY <1>2, <1>4
  <2>2. PICK j \in PendingTweetIdx : j = local[d].cell
    BY <1>1, <2>1, Types DEF LocalsAt, QueueSteps
  <2>3. Cell(i, j) # EmptyStr
    BY <1>1, <2>1, <2>2 DEF OnceInv, TornInv, Holds
  <2>4. Genuine(Cell(i, j))
    BY <1>1, <2>3 DEF OnceInv, TornInv, AllGenuine
  <2>5. Cell(i, j).text # text
    BY <1>1, <2>4 DEF Genuine
  <2> QED BY <1>2, <2>2, <2>5 DEF Cell
<1>5. Handling(c, text)'
  BY <1>2 DEF Handling, TweetSteps, StoreSteps
<1>6. StillToCome(c, i)'
  <2>1. ~ Looking(c, i)'
    BY <1>2 DEF Looking
  <2>2. activeUsers[i].isSubscribedAll => KeepsAll(i)'
    BY <1>2 DEF KeepsAll, Unsubscribing
  <2>3. ASSUME NEW h \in Range(tags), IsSubscribed(activeUsers[i], h)
        PROVE  StillMatches(c, i, 0, 0)'
    <3>1. tags \in Seq(Hashtags)
      BY ChildStepsAssumption
    <3>2. PICK x \in 1 .. Len(tags) : tags[x] = h
      BY <2>3, <3>1 DEF Range
    <3>3. PICK s \in SubscriptionIdx : activeUsers[i].subscriptions[s] = h
      BY <2>3 DEF IsSubscribed
    <3>4. PICK k \in Nat : x = k + 1 /\ k < Len(tags) /\ k >= 0
      <4>1. x - 1 \in Nat /\ x = (x - 1) + 1 /\ x - 1 < Len(tags)
        BY <3>1, <3>2
      <4> QED BY <4>1
    <3>5. s > 0 \/ s = 0
      BY EmptyStrIsNoValue DEF SubscriptionIdx
    <3> QED BY <1>2, <3>2, <3>3, <3>4, <3>5 DEF StillMatches
  <2> QED BY <1>2, <2>1, <2>2, <2>3 DEF StillToCome, Wants
<1>7. ASSUME NEW t \in Clients, Handling(t, text)'
      PROVE  ~ (i < local'[t].userIdx) /\ StillToCome(t, i)'
  <2>1. t = c
    BY <1>5, <1>7 DEF Handling, Alone
  <2>2. ~ (i < 0)
    BY DEF UserIdx
  <2> QED BY <1>2, <1>6, <2>1, <2>2, StartConstants
<1> QED BY <1>3, <1>4, <1>5, <1>7 DEF Comes, Cell

LEMMA LossInit ==
  ASSUME RegistersAlone, TweetsAlone, Init
  PROVE  LossInv
BY OnceInit DEF LossInv, Init

LEMMA LossStep ==
  ASSUME RegistersAlone, TweetsAlone, LossInv, NEW c \in Clients,
         Validate(c) \/ Tweet(c) \/ Subscription(c) \/ Timeline(c) \/ Exit(c)
  PROVE  LossInv'
<1>1. OnceInv /\ TypeInv /\ OnceInv' /\ Alone'
  <2>1. OnceInv /\ OnceInv'
    BY OnceInvStep DEF LossInv
  <2> QED BY <2>1 DEF OnceInv, TornInv, EntriesInv, NamesInv
<1>2. ASSUME NEW d \in due'
      PROVE  \E i \in UserIdx, text \in DOMAIN sent' : d = <<text, i>> /\ Comes(i, text)'
  <2>1. CASE d \in due
    <3>1. PICK i \in UserIdx, text \in DOMAIN sent : d = <<text, i>>
      BY <2>1 DEF LossInv
    <3>2. text \in DOMAIN sent'
      BY <1>1, SentKept
    <3>3. <<text, i>> \in due /\ <<text, i>> \in due'
      BY <1>2, <2>1, <3>1
    <3>4. Comes(i, text)'
      BY <1>1, <3>3, ComesStep
    <3> QED BY <3>1, <3>2, <3>4
  <2>2. CASE d \notin due
    <3>1. PICK tags \in TagLists, i \in UserIdx :
            /\ BeginTweet(c, tags) /\ d = <<Len(sent) + 1, i>>
            /\ Wants(activeUsers[i], tags) /\ ~ Unsubscribing(i)
      BY <1>1, <1>2, <2>2, DueStep
    <3> DEFINE rec == [from |-> NameOf[c], tags |-> tags]
    <3>2. sent' = Append(sent, rec) /\ sent \in Seq([from: Usernames, tags: Seq(Hashtags)])
            /\ rec \in [from: Usernames, tags: Seq(Hashtags)]
      BY <1>1, <3>1, ChildStepsAssumption DEF BeginTweet, TypeInv, HistoryType
    <3> HIDE DEF rec
    <3>3. Len(sent) + 1 \in DOMAIN sent'
      BY <3>2
    <3>4. PICK text \in DOMAIN sent' : text = Len(sent) + 1
      BY <3>3
    <3>5. Comes(i, text)'
      BY <1>1, <3>1, <3>4, ComesNew
    <3> QED BY <3>1, <3>4, <3>5
  <2> QED BY <2>1, <2>2
<1> QED BY <1>1, <1>2 DEF LossInv

LEMMA LossStutter == LossInv /\ UNCHANGED vars => LossInv'
<1> SUFFICES ASSUME LossInv, UNCHANGED vars PROVE LossInv'
  OBVIOUS
<1>1. UNCHANGED <<activeUsers, pc, request, clientUserIdx, local, sent, due>>
  BY DEF vars, shared, history
<1>2. OnceInv'
  BY OnceStutter DEF LossInv
<1>3. ASSUME NEW i, NEW text, Comes(i, text)
      PROVE  Comes(i, text)'
  BY <1>1, <1>3 DEF Comes, Clearing, Cell, Handling, Waits, Filled, StillToCome, Looking, KeepsAll,
                    StillMatches
<1> QED BY <1>1, <1>2, <1>3 DEF LossInv

(* A tweet that a user wants from when its request comes, and does not     *)
(* unsubscribe from meanwhile, waits for the user when the handler is done *)
(* (handle_tweet_updates, ttweetsrv.h:231), whatever the user's own child  *)
(* does to its list and its queue meanwhile: unless the queue was full     *)
(* when the handler came to it.                                            *)
THEOREM NoTweetIsLost ==
  ASSUME RegistersAlone, TweetsAlone
  PROVE  Spec => []NothingLost
<1>1. Init => LossInv
  BY LossInit
<1>2. LossInv /\ [Next]_vars => LossInv'
  BY LossStep, LossStutter DEF Next
<1>3. LossInv => NothingLost
  <2> SUFFICES ASSUME LossInv, NEW d \in due, d[1] \notin InHand
               PROVE  \E item \in Items(d[2]) : item.text = d[1]
    BY DEF NothingLost
  <2>1. TypeInv
    BY DEF LossInv, OnceInv, TornInv, EntriesInv, NamesInv
  <2>2. PICK i \in UserIdx, text \in DOMAIN sent : d = <<text, i>> /\ Comes(i, text)
    BY DEF LossInv
  <2>3. \A t \in Clients : ~ Handling(t, text)
    BY <2>1, <2>2, InHandIs
  <2>4. \E item \in Items(i) : item.text = text
    BY <2>2, <2>3 DEF Comes, Waits, Filled, Items, Cell
  <2> QED BY <2>2, <2>4
<1> QED BY <1>1, <1>2, <1>3, PTL DEF Spec

=============================================================================

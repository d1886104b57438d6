----------------------------- MODULE OverlapProofs -----------------------------
(***************************************************************************)
(* Children that overlap as they like.  A handler that nothing overlaps    *)
(* does to activeUsers, in its many accesses, what the operator of         *)
(* UserTable for its request does at once: AtomicInv says of each step of  *)
(* each handler how the table differs from the one that it found.  And     *)
(* what overlaps does no harm to users (SettledInv) and tweets (WholeInv)  *)
(* that take no part in a race.                                            *)
(***************************************************************************)
EXTENDS Races, DeliveryProofs

Tables == [UserIdx -> SharedUser]

IsTaken(c, u) == u.isOccupied /\ u.username = NameOf[c]

-----------------------------------------------------------------------------
(* What a handler that found the table as b has done to it at each of its  *)
(* steps (TweetDone, for a tweet, is below)                                *)

ValidateDone(c, b) ==
  LET u == local[c].userIdx
      Passed == 0 .. u - 1
  IN  /\ pc[c] \in {"v_occupied", "v_username", "v_take", "v_occupy"} => activeUsers = b
      /\ pc[c] \in {"v_occupied", "v_username"} =>
           /\ \A i \in Passed : ~ IsTaken(c, b[i])
           /\ local[c].isSpaceAvailable <=> \E i \in Passed : ~ b[i].isOccupied
      /\ pc[c] = "v_username" => b[u].isOccupied
      /\ pc[c] \in {"v_take", "v_occupy", "v_write_username"} =>
           /\ \A i \in UserIdx : ~ IsTaken(c, b[i])
           /\ \A i \in Passed : b[i].isOccupied
      /\ pc[c] = "v_take" => \E i \in UserIdx : ~ b[i].isOccupied
      /\ pc[c] \in {"v_occupy", "v_write_username"} => ~ b[u].isOccupied
      /\ pc[c] = "v_write_username" =>
           activeUsers = [b EXCEPT ![u] = [b[u] EXCEPT !.isOccupied = TRUE]]

SameOwnerAs(u, v) ==
  u.isOccupied = v.isOccupied /\ u.username = v.username /\ u.pendingTweets = v.pendingTweets

SubscriptionDone(c, b) ==
  LET own == clientUserIdx[c]
      handled == IF request[c].kind = "subscribe" THEN Subscribed(b[own], request[c].hashtag)
                                                  ELSE Unsubscribed(b[own], request[c].hashtag)
  IN  /\ pc[c] = "s_list" => activeUsers = b
      /\ pc[c] = "s_all" =>
           /\ \A i \in UserIdx \ {own} : activeUsers[i] = b[i]
           /\ SameOwnerAs(activeUsers[own], b[own])
           /\ activeUsers[own].subscriptions = handled.subscriptions
           /\ activeUsers[own].isSubscribedAll = b[own].isSubscribedAll
           /\ handled.isSubscribedAll # b[own].isSubscribedAll

TimelineDone(c, b) ==
  LET own == clientUserIdx[c]
      n == local[c].cell
  IN  pc[c] \in TimelineSteps =>
        /\ \A i \in UserIdx \ {own} : activeUsers[i] = b[i]
        /\ activeUsers[own].isOccupied = b[own].isOccupied
        /\ activeUsers[own].username = b[own].username
        /\ activeUsers[own].subscriptions = b[own].subscriptions
        /\ activeUsers[own].isSubscribedAll = b[own].isSubscribedAll
        /\ \A j \in PendingTweetIdx :
             Cell(own, j) = IF j < n THEN EmptyStr ELSE b[own].pendingTweets[j]
        /\ \A j \in 0 .. n - 1 : b[own].pendingTweets[j] # EmptyStr
        /\ pc[c] \in {"l_copy", "l_clear"} => b[own].pendingTweets[n] # EmptyStr

ExitDone(c, b) ==
  LET own == clientUserIdx[c]
      n == local[c].cell
  IN  /\ pc[c] = "e_occupied" => activeUsers = b
      /\ pc[c] \in ClearSteps =>
           /\ \A i \in UserIdx \ {own} : activeUsers[i] = b[i]
           /\ ~ activeUsers[own].isOccupied
           /\ pc[c] # "e_all" => ~ activeUsers[own].isSubscribedAll
           /\ pc[c] \notin {"e_all", "e_username"} => activeUsers[own].username = EmptyStr
           /\ \A s \in SubscriptionIdx :
                pc[c] = "e_pending" \/ (pc[c] = "e_subscriptions" /\ s < n) =>
                  activeUsers[own].subscriptions[s] = EmptyStr
           /\ \A j \in PendingTweetIdx :
                Cell(own, j) = IF pc[c] = "e_pending" /\ j < n THEN EmptyStr ELSE b[own].pendingTweets[j]
           /\ pc[c] = "e_pending" => n <= MAX_TWEET_QUEUE - 1

LEMMA SameUser ==
  ASSUME NEW u \in SharedUser, NEW v \in SharedUser,
         u.isOccupied = v.isOccupied, u.username = v.username,
         u.isSubscribedAll = v.isSubscribedAll,
         \A s \in SubscriptionIdx : u.subscriptions[s] = v.subscriptions[s],
         \A j \in PendingTweetIdx : u.pendingTweets[j] = v.pendingTweets[j]
  PROVE  u = v
<1>1. u.subscriptions = v.subscriptions
  BY DEF SharedUser
<1>2. u.pendingTweets = v.pendingTweets
  BY DEF SharedUser
<1> QED BY <1>1, <1>2 DEF SharedUser

LEMMA SameLike ==
  ASSUME NEW u \in SharedUser, NEW v \in SharedUser, NEW w, SameOwnerAs(u, w), SameOwnerAs(v, w),
         u.subscriptions = v.subscriptions, u.isSubscribedAll = v.isSubscribedAll
  PROVE  u = v
BY DEF SharedUser, SameOwnerAs

LEMMA UserWritten ==
  ASSUME activeUsers \in Tables, NEW i \in UserIdx, NEW u, WriteUser(i, u)
  PROVE  /\ activeUsers'[i] = u
         /\ \A k \in UserIdx \ {i} : activeUsers'[k] = activeUsers[k]
BY DEF WriteUser, Tables

LEMMA OneUserChanged ==
  ASSUME activeUsers' \in Tables, NEW b \in Tables, NEW i \in UserIdx, NEW u, activeUsers'[i] = u,
         \A k \in UserIdx \ {i} : activeUsers'[k] = b[k]
  PROVE  activeUsers' = [b EXCEPT ![i] = u]
BY DEF Tables

(* The first entry that is free, of the entries as they were.              *)
LEMMA FirstFreeIsFirst ==
  ASSUME NEW b, NEW i \in UserIdx, ~ b[i].isOccupied, \A k \in 0 .. i - 1 : b[k].isOccupied
  PROVE  FirstFreeUser(b) = i
<1> DEFINE free == {k \in UserIdx : ~ b[k].isOccupied}
<1>1. free \in SUBSET Nat /\ i \in free
  BY DEF UserIdx
<1>2. Min(free) \in free /\ Min(free) <= i
  BY <1>1, MinIsLeast
<1>3. Min(free) \in UserIdx /\ ~ b[Min(free)].isOccupied
  BY <1>2
<1> HIDE DEF free
<1>4. Min(free) = i
  BY <1>2, <1>3, EmptyStrIsNoValue DEF UserIdx
<1> QED BY <1>4 DEF FirstFreeUser, free

LEMMA QueueLengthIs ==
  ASSUME NEW v, NEW n \in 0 .. MAX_TWEET_QUEUE, \A j \in 0 .. n - 1 : v.pendingTweets[j] # EmptyStr,
         n < MAX_TWEET_QUEUE => v.pendingTweets[n] = EmptyStr
  PROVE  QueueLength(v) = n
<1> DEFINE q == v.pendingTweets
           m == FirstEmpty(q, MAX_TWEET_QUEUE)
<1>1. MAX_TWEET_QUEUE \in Nat
  BY EmptyStrIsNoValue
<1>2. /\ m \in 0 .. MAX_TWEET_QUEUE
      /\ m < MAX_TWEET_QUEUE => q[m] = EmptyStr
      /\ \A j \in 0 .. MAX_TWEET_QUEUE - 1 : j < m => q[j] # EmptyStr
  BY <1>1, FirstEmptyIsFirst
<1> HIDE DEF m
<1>3. m = n
  BY <1>1, <1>2
<1> QED BY <1>3 DEF QueueLength, m

(* A registration.                                                         *)
LEMMA ValidateAtomic ==
  ASSUME TypeInv, TypeInv', NEW c \in Clients, NEW b \in Tables, Validate(c),
         pc[c] \in Waiting => activeUsers = b,
         pc[c] \notin Waiting => ValidateDone(c, b)
  PROVE  /\ pc'[c] \in ValidateSteps => ValidateDone(c, b)'
         /\ pc[c] \notin Waiting /\ pc'[c] \in Waiting => activeUsers' = Handled(c, b)
<1> DEFINE l == local[c]
<1>1. /\ l \in Locals /\ l.userIdx \in UserIdx /\ l.userIdx \in Nat /\ activeUsers \in Tables /\ activeUsers' \in Tables
      /\ MAX_CONC_CONN \in Nat \ {0} /\ UserIdx = 0 .. MAX_CONC_CONN - 1
      /\ RequestAt(pc[c], request[c]) /\ l.isSpaceAvailable \in BOOLEAN
  BY Types, EmptyStrIsNoValue DEF Tables, TypeInv, Locals, UserIdx
<1>2. ASSUME NEW p, NEW m, Goto(c, p, m)
      PROVE  pc'[c] = p /\ local'[c] = m
  BY <1>2, GotoMoves
<1>3. ASSUME NEW p, Reply(c, p)
      PROVE  pc'[c] = p
  BY <1>3, ReplyMoves
<1>4. pc[c] \in ValidateSteps => request[c].kind = "validate"
  BY <1>1 DEF RequestAt
<1>5. CASE BeginValidate(c)
  <2>1. /\ pc[c] \in Waiting /\ activeUsers' = activeUsers /\ pc'[c] = "v_occupied"
        /\ local'[c] = NoLocals
    BY <1>5, Types DEF BeginValidate, Begin, shared, Waiting, LocalsAt, FirstSteps
  <2>2. 0 .. NoLocals.userIdx - 1 = {} /\ NoLocals.isSpaceAvailable = FALSE
    BY DEF NoLocals
  <2> HIDE DEF l
  <2>3. ValidateDone(c, b)'
    BY <2>1, <2>2 DEF ValidateDone
  <2> QED BY <2>1, <2>3
<1>6. ASSUME NEW m \in Locals, m.userIdx = l.userIdx, NextName(c, m), activeUsers' = activeUsers, activeUsers = b,
             pc[c] \in ValidateSteps,
             \A i \in 0 .. l.userIdx : ~ IsTaken(c, b[i]),
             m.isSpaceAvailable <=> \E i \in 0 .. l.userIdx : ~ b[i].isOccupied
      PROVE  /\ pc'[c] \in ValidateSteps => ValidateDone(c, b)'
             /\ pc'[c] \in Waiting => activeUsers' = Handled(c, b)
  <2>1. CASE m.userIdx + 1 < MAX_CONC_CONN
    <3>1. Goto(c, "v_occupied", [m EXCEPT !.userIdx = @ + 1])
      BY <1>1, <1>6, <2>1 DEF NextName
    <3>2. /\ pc'[c] = "v_occupied" /\ local'[c].userIdx = l.userIdx + 1
          /\ local'[c].isSpaceAvailable = m.isSpaceAvailable
      BY <1>2, <1>6, <3>1 DEF Locals
    <3>3. 0 .. (l.userIdx + 1) - 1 = 0 .. l.userIdx
      BY <1>1
    <3> HIDE DEF l
    <3>4. ValidateDone(c, b)'
      BY <1>6, <3>2, <3>3 DEF ValidateDone
    <3> QED BY <3>2, <3>4 DEF Waiting
  <2>2. CASE m.userIdx + 1 = MAX_CONC_CONN
    <3>1. \A i \in UserIdx : ~ IsTaken(c, b[i])
      BY <1>1, <1>6, <2>2
    <3>2. CASE m.isSpaceAvailable
      <4>1. Goto(c, "v_take", NoLocals)
        BY <1>1, <1>6, <2>2, <3>2 DEF NextName
      <4>2. pc'[c] = "v_take" /\ local'[c].userIdx = 0
        BY <1>2, <4>1, StartConstants
      <4>3. \E i \in UserIdx : ~ b[i].isOccupied
        BY <1>1, <1>6, <2>2, <3>2
      <4> HIDE DEF l
      <4>4. ValidateDone(c, b)'
        BY <1>6, <3>1, <4>2, <4>3 DEF ValidateDone
      <4> QED BY <4>2, <4>4 DEF Waiting
    <3>3. CASE ~ m.isSpaceAvailable
      <4>1. Reply(c, "refused")
        BY <1>1, <1>6, <2>2, <3>3 DEF NextName
      <4>2. \A i \in UserIdx : b[i].isOccupied
        BY <1>1, <1>6, <2>2, <3>3
      <4>3. {i \in UserIdx : ~ b[i].isOccupied} = {}
        BY <4>2
      <4>4. Handled(c, b) = b
        BY <1>4, <1>6, <4>3 DEF Handled
      <4> QED BY <1>3, <1>6, <4>1, <4>4 DEF ValidateSteps
    <3> QED BY <3>2, <3>3
  <2>3. m.userIdx + 1 < MAX_CONC_CONN \/ m.userIdx + 1 = MAX_CONC_CONN
    BY <1>1, <1>6
  <2> QED BY <2>1, <2>2, <2>3
<1>7. CASE CheckOccupied(c)
  <2>1. /\ pc[c] = "v_occupied" /\ activeUsers' = activeUsers /\ pc[c] \in ValidateSteps /\ activeUsers = b
        /\ \A i \in 0 .. l.userIdx - 1 : ~ IsTaken(c, b[i])
        /\ l.isSpaceAvailable <=> \E i \in 0 .. l.userIdx - 1 : ~ b[i].isOccupied
    BY <1>7 DEF CheckOccupied, OnlyReads, shared, ValidateDone, ValidateSteps, Waiting
  <2>2. CASE b[l.userIdx].isOccupied
    <3>1. Goto(c, "v_username", l)
      BY <1>7, <2>1, <2>2 DEF CheckOccupied
    <3>2. pc'[c] = "v_username" /\ local'[c] = l
      BY <1>2, <3>1
    <3>3. ValidateDone(c, b)'
      BY <2>1, <2>2, <3>2 DEF ValidateDone
    <3> QED BY <3>2, <3>3 DEF Waiting
  <2>3. CASE ~ b[l.userIdx].isOccupied
    <3> DEFINE m == [l EXCEPT !.isSpaceAvailable = TRUE]
    <3>1. m \in Locals /\ m.userIdx = l.userIdx /\ m.isSpaceAvailable /\ NextName(c, m)
      BY <1>1, <1>7, <2>1, <2>3 DEF CheckOccupied, Locals
    <3> HIDE DEF m
    <3>2. \A i \in 0 .. l.userIdx : ~ IsTaken(c, b[i])
      BY <1>1, <2>1, <2>3 DEF IsTaken
    <3>3. m.isSpaceAvailable <=> \E i \in 0 .. l.userIdx : ~ b[i].isOccupied
      BY <1>1, <2>3, <3>1
    <3> QED BY <1>6, <2>1, <3>1, <3>2, <3>3
  <2> QED BY <2>2, <2>3
<1>8. CASE CheckUsername(c)
  <2>1. /\ pc[c] = "v_username" /\ activeUsers' = activeUsers /\ pc[c] \in ValidateSteps /\ activeUsers = b
        /\ b[l.userIdx].isOccupied
        /\ \A i \in 0 .. l.userIdx - 1 : ~ IsTaken(c, b[i])
        /\ l.isSpaceAvailable <=> \E i \in 0 .. l.userIdx - 1 : ~ b[i].isOccupied
    BY <1>8 DEF CheckUsername, OnlyReads, shared, ValidateDone, ValidateSteps, Waiting
  <2>2. CASE b[l.userIdx].username = NameOf[c]
    <3>1. Reply(c, "refused")
      BY <1>8, <2>1, <2>2 DEF CheckUsername
    <3>2. Handled(c, b) = b
      BY <1>1, <1>4, <2>1, <2>2 DEF Handled
    <3> QED BY <1>3, <2>1, <3>1, <3>2 DEF ValidateSteps
  <2>3. CASE b[l.userIdx].username # NameOf[c]
    <3>1. NextName(c, l)
      BY <1>8, <2>1, <2>3 DEF CheckUsername
    <3>2. \A i \in 0 .. l.userIdx : ~ IsTaken(c, b[i])
      BY <1>1, <2>1, <2>3 DEF IsTaken
    <3>3. l.isSpaceAvailable <=> \E i \in 0 .. l.userIdx : ~ b[i].isOccupied
      BY <1>1, <2>1
    <3> QED BY <1>1, <1>6, <2>1, <3>1, <3>2, <3>3
  <2> QED BY <2>2, <2>3
<1>9. CASE TakeEntry(c)
  <2>1. /\ pc[c] = "v_take" /\ activeUsers' = activeUsers /\ activeUsers = b
        /\ \A i \in UserIdx : ~ IsTaken(c, b[i])
        /\ \A i \in 0 .. l.userIdx - 1 : b[i].isOccupied
        /\ \E i \in UserIdx : ~ b[i].isOccupied
    BY <1>9 DEF TakeEntry, OnlyReads, shared, ValidateDone, Waiting
  <2>2. CASE ~ b[l.userIdx].isOccupied
    <3>1. Goto(c, "v_occupy", l)
      BY <1>9, <2>1, <2>2 DEF TakeEntry
    <3>2. pc'[c] = "v_occupy" /\ local'[c] = l
      BY <1>2, <3>1
    <3>3. ValidateDone(c, b)'
      BY <2>1, <2>2, <3>2 DEF ValidateDone
    <3> QED BY <3>2, <3>3 DEF Waiting
  <2>3. CASE b[l.userIdx].isOccupied
    <3>1. l.userIdx + 1 < MAX_CONC_CONN
      BY <1>1, <2>1, <2>3
    <3>2. Goto(c, "v_take", [l EXCEPT !.userIdx = @ + 1])
      BY <1>9, <2>1, <2>3, <3>1 DEF TakeEntry
    <3>3. pc'[c] = "v_take" /\ local'[c].userIdx = l.userIdx + 1
      BY <1>1, <1>2, <3>2 DEF Locals
    <3>4. \A i \in 0 .. (l.userIdx + 1) - 1 : b[i].isOccupied
      BY <1>1, <2>1, <2>3
    <3>5. ValidateDone(c, b)'
      BY <2>1, <3>3, <3>4 DEF ValidateDone
    <3> QED BY <3>3, <3>5 DEF Waiting
  <2> QED BY <2>2, <2>3
<1>10. CASE Occupy(c)
  <2>1. /\ pc[c] = "v_occupy" /\ activeUsers = b
        /\ \A i \in UserIdx : ~ IsTaken(c, b[i])
        /\ \A i \in 0 .. l.userIdx - 1 : b[i].isOccupied
        /\ ~ b[l.userIdx].isOccupied
    BY <1>10 DEF Occupy, ValidateDone, Waiting
  <2>2. /\ activeUsers' = [b EXCEPT ![l.userIdx] = [b[l.userIdx] EXCEPT !.isOccupied = TRUE]]
        /\ Goto(c, "v_write_username", l)
    BY <1>10, <2>1 DEF Occupy, WriteUser
  <2>3. pc'[c] = "v_write_username" /\ local'[c] = l
    BY <1>2, <2>2
  <2>4. ValidateDone(c, b)'
    BY <2>1, <2>2, <2>3 DEF ValidateDone
  <2> QED BY <2>3, <2>4 DEF Waiting
<1>11. CASE WriteUsername(c)
  <2> DEFINE i == l.userIdx
  <2>1. /\ pc[c] = "v_write_username" /\ pc[c] \in ValidateSteps
        /\ activeUsers = [b EXCEPT ![i] = [b[i] EXCEPT !.isOccupied = TRUE]]
        /\ \A k \in UserIdx : ~ IsTaken(c, b[k])
        /\ \A k \in 0 .. i - 1 : b[k].isOccupied
        /\ ~ b[i].isOccupied
    BY <1>11 DEF WriteUsername, ValidateDone, Waiting, ValidateSteps
  <2>2. WriteUser(i, [activeUsers[i] EXCEPT !.username = NameOf[c]]) /\ Reply(c, "ready")
    BY <1>11 DEF WriteUsername
  <2>3. FirstFreeUser(b) = i
    BY <1>1, <2>1, FirstFreeIsFirst
  <2>4. Handled(c, b) = [b EXCEPT ![i] = Registered(b[i], NameOf[c])]
    <3>1. {k \in UserIdx : ~ b[k].isOccupied} # {}
      BY <1>1, <2>1
    <3>2. ~ \E k \in UserIdx : b[k].isOccupied /\ b[k].username = NameOf[c]
      BY <2>1 DEF IsTaken
    <3>3. Handled(c, b) = [b EXCEPT ![FirstFreeUser(b)] = Registered(@, NameOf[c])]
      BY <1>4, <2>1, <3>1, <3>2 DEF Handled
    <3> QED BY <2>3, <3>3
  <2>5. [activeUsers[i] EXCEPT !.username = NameOf[c]] = Registered(b[i], NameOf[c])
    BY <1>1, <2>1, ZenonT(60) DEF Registered, Tables, SharedUser
  <2> HIDE DEF i
  <2>6. activeUsers' = [b EXCEPT ![i] = Registered(b[i], NameOf[c])]
    BY <1>1, <2>1, <2>2, <2>5 DEF WriteUser, Tables
  <2> QED BY <1>3, <2>2, <2>4, <2>6 DEF ValidateSteps
<1> QED BY <1>5, <1>7, <1>8, <1>9, <1>10, <1>11 DEF Validate

-----------------------------------------------------------------------------
(* Subscribing writes the list and perhaps sets the flag; unsubscribing    *)
(* writes the list and perhaps resets it.                                  *)
LEMMA SubscribedFrame ==
  ASSUME NEW u \in SharedUser, NEW h \in Subscribable, NEW v, v = Subscribed(u, h)
  PROVE  /\ v \in SharedUser /\ SameOwnerAs(v, u)
         /\ v.isSubscribedAll = u.isSubscribedAll \/ v.isSubscribedAll = TRUE
<1>1. CASE v = u
  BY <1>1 DEF SameOwnerAs
<1>2. CASE v # u
  <2> DEFINE list == [u.subscriptions EXCEPT ![FirstEmpty(u.subscriptions, MAX_SUBSCRIPTIONS)] = h]
             flag == u.isSubscribedAll \/ h = ALL
  <2>1. v = [u EXCEPT !.subscriptions = list, !.isSubscribedAll = flag]
    BY <1>2 DEF Subscribed
  <2>2. /\ flag \in BOOLEAN /\ (flag = u.isSubscribedAll \/ flag = TRUE)
        /\ list \in [SubscriptionIdx -> Subscribable \cup {EmptyStr}]
    BY DEF SharedUser
  <2> HIDE DEF list, flag
  <2> QED BY <2>1, <2>2 DEF SharedUser, SameOwnerAs
<1> QED BY <1>1, <1>2

LEMMA UnsubscribedFrame ==
  ASSUME NEW u \in SharedUser, NEW h \in Subscribable, NEW v, v = Unsubscribed(u, h)
  PROVE  /\ v \in SharedUser /\ SameOwnerAs(v, u)
         /\ v.isSubscribedAll = u.isSubscribedAll \/ v.isSubscribedAll = FALSE
<1>1. CASE v = u
  BY <1>1 DEF SameOwnerAs
<1>2. CASE v # u
  <2> DEFINE list == [u.subscriptions EXCEPT ![Min({s \in SubscriptionIdx : u.subscriptions[s] = h})] = EmptyStr]
             flag == u.isSubscribedAll /\ h # ALL
  <2>1. v = [u EXCEPT !.subscriptions = list, !.isSubscribedAll = flag]
    BY <1>2 DEF Unsubscribed
  <2>2. /\ flag \in BOOLEAN /\ (flag = u.isSubscribedAll \/ flag = FALSE)
        /\ list \in [SubscriptionIdx -> Subscribable \cup {EmptyStr}]
    BY DEF SharedUser
  <2> HIDE DEF list, flag
  <2> QED BY <2>1, <2>2 DEF SharedUser, SameOwnerAs
<1> QED BY <1>1, <1>2

(* A subscription: the list, and then the flag if it changes.              *)
LEMMA SubscriptionAtomic ==
  ASSUME TypeInv, TypeInv', NEW c \in Clients, NEW b \in Tables, Subscription(c),
         pc[c] \in Waiting => activeUsers = b,
         pc[c] \notin Waiting => SubscriptionDone(c, b)
  PROVE  /\ pc'[c] \in SubscriptionSteps => SubscriptionDone(c, b)'
         /\ pc[c] \notin Waiting /\ pc'[c] \in Waiting => activeUsers' = Handled(c, b)
<1> DEFINE own == clientUserIdx[c]
           r == request[c]
           v == IF r.kind = "subscribe" THEN Subscribed(b[own], r.hashtag)
                                        ELSE Unsubscribed(b[own], r.hashtag)
           flag == (r.kind = "subscribe")
<1>1. /\ activeUsers \in Tables /\ activeUsers' \in Tables /\ RequestAt(pc[c], r)
      /\ pc[c] \in SubscriptionSteps => own \in UserIdx
  BY Types, OwnEntry DEF Tables, TypeInv, InSession
<1>2. ASSUME NEW p, NEW m, Goto(c, p, m)
      PROVE  pc'[c] = p /\ request' = request
  BY <1>2, GotoMoves
<1>3. ASSUME NEW p, Reply(c, p)
      PROVE  pc'[c] = p
  BY <1>3, ReplyMoves
<1>4. CASE \E h \in Subscribable : BeginSubscription(c, "subscribe", h) \/ BeginSubscription(c, "unsubscribe", h)
  <2>1. pc[c] \in Waiting /\ activeUsers' = activeUsers /\ pc'[c] = "s_list"
    BY <1>4, Types DEF BeginSubscription, Begin, shared, Waiting
  <2> HIDE DEF own, r, v
  <2>2. SubscriptionDone(c, b)'
    BY <2>1 DEF SubscriptionDone
  <2> QED BY <2>1, <2>2
<1>5. ASSUME pc[c] \in SubscriptionSteps
      PROVE  /\ Handled(c, b) = [b EXCEPT ![own] = v]
             /\ v \in SharedUser /\ SameOwnerAs(v, b[own]) /\ b[own] \in SharedUser
             /\ v.isSubscribedAll # b[own].isSubscribedAll => v.isSubscribedAll = flag
  <2>1. r.kind \in {"subscribe", "unsubscribe"} /\ r.hashtag \in Subscribable /\ b[own] \in SharedUser
    BY <1>1, <1>5 DEF RequestAt, Tables
  <2>2. Handled(c, b) = [b EXCEPT ![own] = v]
    BY <2>1 DEF Handled
  <2>3. CASE r.kind = "subscribe"
    <3>1. v = Subscribed(b[own], r.hashtag) /\ flag = TRUE
      BY <2>3
    <3> HIDE DEF own, r, v, flag
    <3>2. /\ v \in SharedUser /\ SameOwnerAs(v, b[own])
          /\ v.isSubscribedAll = b[own].isSubscribedAll \/ v.isSubscribedAll = TRUE
      BY <2>1, <3>1, SubscribedFrame
    <3> QED BY <2>1, <2>2, <3>1, <3>2
  <2>4. CASE r.kind = "unsubscribe"
    <3>1. v = Unsubscribed(b[own], r.hashtag) /\ flag = FALSE
      BY <2>4
    <3> HIDE DEF own, r, v, flag
    <3>2. /\ v \in SharedUser /\ SameOwnerAs(v, b[own])
          /\ v.isSubscribedAll = b[own].isSubscribedAll \/ v.isSubscribedAll = FALSE
      BY <2>1, <3>1, UnsubscribedFrame
    <3> QED BY <2>1, <2>2, <3>1, <3>2
  <2> QED BY <2>1, <2>3, <2>4
<1>6. CASE WriteList(c)
  <2>1. pc[c] = "s_list" /\ pc[c] \in SubscriptionSteps /\ pc[c] \notin Waiting /\ activeUsers = b
        /\ UNCHANGED clientUserIdx
    BY <1>6 DEF WriteList, SubscriptionSteps, Waiting, SubscriptionDone
  <2>2. After(c) = v /\ Entry(c) = b[own] /\ own \in UserIdx
    BY <1>1, <2>1 DEF After, Entry
  <2>3. WriteUser(own, [b[own] EXCEPT !.subscriptions = v.subscriptions])
    BY <1>6, <2>1, <2>2 DEF WriteList
  <2>4. /\ \A i \in UserIdx \ {own} : activeUsers'[i] = b[i]
        /\ SameOwnerAs(activeUsers'[own], b[own])
        /\ activeUsers'[own].subscriptions = v.subscriptions
        /\ activeUsers'[own].isSubscribedAll = b[own].isSubscribedAll
    <3> HIDE DEF own, r, v, flag
    <3>1. /\ \A i \in UserIdx \ {own} : activeUsers'[i] = b[i]
          /\ activeUsers'[own] = [b[own] EXCEPT !.subscriptions = v.subscriptions]
      BY <1>1, <2>1, <2>2, <2>3, UserWritten
    <3> QED BY <1>5, <2>1, <3>1 DEF SharedUser, SameOwnerAs
  <2>5. CASE v.isSubscribedAll # b[own].isSubscribedAll
    <3>1. Goto(c, "s_all", local[c])
      BY <1>6, <2>2, <2>5 DEF WriteList
    <3>2. pc'[c] = "s_all" /\ request' = request /\ clientUserIdx' = clientUserIdx
      BY <1>2, <2>1, <3>1
    <3>3. SubscriptionDone(c, b)'
      BY <2>4, <2>5, <3>2 DEF SubscriptionDone
    <3> QED BY <3>2, <3>3 DEF Waiting
  <2>6. CASE v.isSubscribedAll = b[own].isSubscribedAll
    <3>1. Reply(c, "ready")
      BY <1>6, <2>2, <2>6 DEF WriteList
    <3> HIDE DEF own, r, v, flag
    <3>2. activeUsers'[own] = v
      <4>1. activeUsers'[own] \in SharedUser
        BY <1>1, <2>2 DEF Tables
      <4> QED BY <1>5, <2>1, <2>4, <2>6, <4>1, SameLike
    <3>3. activeUsers' = [b EXCEPT ![own] = v]
      BY <1>1, <2>2, <2>4, <3>2, OneUserChanged
    <3> QED BY <1>3, <1>5, <2>1, <3>1, <3>3 DEF SubscriptionSteps
  <2> QED BY <2>5, <2>6
<1>7. CASE WriteSubscribedAll(c)
  <2>1. /\ pc[c] = "s_all" /\ pc[c] \in SubscriptionSteps /\ pc[c] \notin Waiting /\ own \in UserIdx
        /\ \A i \in UserIdx \ {own} : activeUsers[i] = b[i]
        /\ SameOwnerAs(activeUsers[own], b[own])
        /\ activeUsers[own].subscriptions = v.subscriptions
        /\ v.isSubscribedAll # b[own].isSubscribedAll
    BY <1>1, <1>7 DEF WriteSubscribedAll, SubscriptionSteps, Waiting, SubscriptionDone
  <2>2. /\ Reply(c, "ready")
        /\ WriteUser(own, [activeUsers[own] EXCEPT !.isSubscribedAll = flag])
    BY <1>7 DEF WriteSubscribedAll, Entry
  <2> HIDE DEF own, r, v, flag
  <2>3. /\ \A i \in UserIdx \ {own} : activeUsers'[i] = b[i]
        /\ activeUsers'[own] = [activeUsers[own] EXCEPT !.isSubscribedAll = v.isSubscribedAll]
    BY <1>1, <1>5, <2>1, <2>2, UserWritten
  <2>4. activeUsers'[own] = v
    <3>1. activeUsers[own] \in SharedUser /\ activeUsers'[own] \in SharedUser
      BY <1>1, <2>1 DEF Tables
    <3>2. /\ SameOwnerAs(activeUsers'[own], b[own])
          /\ activeUsers'[own].subscriptions = v.subscriptions
      BY <2>1, <2>3, <3>1 DEF SharedUser, SameOwnerAs
    <3>3. activeUsers'[own].isSubscribedAll = v.isSubscribedAll
      BY <2>3, <3>1 DEF SharedUser
    <3> QED BY <1>5, <2>1, <3>1, <3>2, <3>3, SameLike
  <2>5. activeUsers' = [b EXCEPT ![own] = v]
    BY <1>1, <2>1, <2>3, <2>4, OneUserChanged
  <2> QED BY <1>3, <1>5, <2>1, <2>2, <2>5 DEF SubscriptionSteps
<1> QED BY <1>4, <1>6, <1>7 DEF Subscription

-----------------------------------------------------------------------------
(* A timeline.                                                             *)
LEMMA TimelineAtomic ==
  ASSUME TypeInv, TypeInv', NEW c \in Clients, NEW b \in Tables, Timeline(c),
         pc[c] \in Waiting => activeUsers = b,
         pc[c] \notin Waiting => TimelineDone(c, b)
  PROVE  /\ pc'[c] \in TimelineSteps => TimelineDone(c, b)'
         /\ pc[c] \notin Waiting /\ pc'[c] \in Waiting => activeUsers' = Handled(c, b)
<1> DEFINE own == clientUserIdx[c]
           l == local[c]
           n == l.cell
           q == b[own].pendingTweets
<1>1. /\ activeUsers \in Tables /\ activeUsers' \in Tables /\ RequestAt(pc[c], request[c]) /\ l \in Locals
      /\ n \in Nat /\ LocalsAt(pc[c], l)
      /\ MAX_TWEET_QUEUE \in Nat /\ PendingTweetIdx = 0 .. MAX_TWEET_QUEUE - 1 /\ 0 \in PendingTweetIdx
  BY Types, StartConstants, EmptyStrIsNoValue DEF Tables, TypeInv, Locals, PendingTweetIdx, SubscriptionIdx
<1>2. ASSUME NEW p, NEW m, Goto(c, p, m)
      PROVE  pc'[c] = p /\ local'[c] = m
  BY <1>2, GotoMoves
<1>3. ASSUME NEW p, Reply(c, p)
      PROVE  pc'[c] = p
  BY <1>3, ReplyMoves
<1>4. CASE BeginTimeline(c)
  <2>1. pc[c] \in Waiting /\ activeUsers' = b /\ pc'[c] = "l_first" /\ local'[c].cell = 0
    BY <1>4, Types, StartConstants DEF BeginTimeline, Begin, shared, Waiting, LocalsAt, FirstSteps
  <2>2. 0 .. local'[c].cell - 1 = {} /\ \A j \in PendingTweetIdx : ~ (j < local'[c].cell)
    BY <1>1, <2>1
  <2>3. TimelineDone(c, b)'
    BY <2>1, <2>2 DEF TimelineDone, Cell
  <2> QED BY <2>1, <2>3
<1>5. ASSUME pc[c] \in TimelineSteps
      PROVE  /\ own \in UserIdx /\ b[own] \in SharedUser /\ pc[c] \notin Waiting
             /\ Handled(c, b) = [b EXCEPT ![own] = TimelineRead(b[own])]
             /\ \A i \in UserIdx \ {own} : activeUsers[i] = b[i]
             /\ activeUsers[own].isOccupied = b[own].isOccupied
             /\ activeUsers[own].username = b[own].username
             /\ activeUsers[own].subscriptions = b[own].subscriptions
             /\ activeUsers[own].isSubscribedAll = b[own].isSubscribedAll
             /\ \A j \in PendingTweetIdx : Cell(own, j) = IF j < n THEN EmptyStr ELSE q[j]
             /\ \A j \in 0 .. n - 1 : q[j] # EmptyStr
             /\ pc[c] \in {"l_copy", "l_clear"} => q[n] # EmptyStr
  <2>1. own \in UserIdx /\ request[c].kind = "timeline" /\ pc[c] \notin Waiting
    BY <1>1, <1>5, OwnEntry, Regions DEF InSession, RequestAt
  <2>2. b[own] \in SharedUser
    BY <2>1 DEF Tables
  <2>3. Handled(c, b) = [b EXCEPT ![own] = TimelineRead(b[own])]
    BY <2>1 DEF Handled
  <2>4. TimelineDone(c, b)
    BY <2>1
  <2> QED BY <1>5, <2>1, <2>2, <2>3, <2>4 DEF TimelineDone
<1>6. ASSUME pc[c] \in TimelineSteps, NEW k \in Nat,
             \A i \in UserIdx \ {own} : activeUsers'[i] = b[i],
             activeUsers'[own].isOccupied = b[own].isOccupied,
             activeUsers'[own].username = b[own].username,
             activeUsers'[own].subscriptions = b[own].subscriptions,
             activeUsers'[own].isSubscribedAll = b[own].isSubscribedAll,
             \A j \in PendingTweetIdx :
               activeUsers'[own].pendingTweets[j] = IF j < k THEN EmptyStr ELSE q[j],
             \A j \in 0 .. k - 1 : q[j] # EmptyStr,
             k = MAX_TWEET_QUEUE \/ (k \in PendingTweetIdx /\ q[k] = EmptyStr)
      PROVE  activeUsers' = Handled(c, b)
  <2>1. QueueLength(b[own]) = k
    <3> HIDE DEF own
    <3>1. k \in 0 .. MAX_TWEET_QUEUE
      BY <1>1, <1>6
    <3> QED BY <1>1, <1>6, <3>1, QueueLengthIs
  <2> DEFINE v == TimelineRead(b[own])
             list == [j \in PendingTweetIdx |-> IF j < k THEN EmptyStr ELSE q[j]]
  <2>2. v = [b[own] EXCEPT !.pendingTweets = list]
    BY <2>1 DEF TimelineRead
  <2>3. list \in [PendingTweetIdx -> Formatted \cup {EmptyStr}]
    BY <1>5, <1>6 DEF SharedUser
  <2>4. \A j \in PendingTweetIdx : list[j] = IF j < k THEN EmptyStr ELSE q[j]
    OBVIOUS
  <2>5. own \in UserIdx /\ b[own] \in SharedUser /\ activeUsers'[own] \in SharedUser
    BY <1>1, <1>5, <1>6 DEF Tables
  <2> HIDE DEF v, list
  <2>6. /\ v \in SharedUser /\ v.isOccupied = b[own].isOccupied /\ v.username = b[own].username
        /\ v.subscriptions = b[own].subscriptions /\ v.isSubscribedAll = b[own].isSubscribedAll
        /\ v.pendingTweets = list
    BY <2>2, <2>3, <2>5 DEF SharedUser
  <2>7. activeUsers'[own] = v
    BY <1>6, <2>4, <2>5, <2>6, SameUser
  <2> HIDE DEF own
  <2>8. activeUsers' = [b EXCEPT ![own] = v]
    BY <1>1, <1>6, <2>5, <2>7, OneUserChanged
  <2> QED BY <1>5, <1>6, <2>8 DEF v
<1>7. CASE FirstTweet(c)
  <2>1. pc[c] = "l_first" /\ pc[c] \in TimelineSteps /\ activeUsers' = activeUsers /\ n = 0 /\ clientUserIdx' = clientUserIdx
    BY <1>1, <1>7, StartConstants DEF FirstTweet, TimelineSteps, OnlyReads, shared, LocalsAt, FirstSteps
  <2>2. CASE Cell(own, 0) = EmptyStr
    <3>1. Reply(c, "ready")
      BY <1>7, <2>2 DEF FirstTweet, Entry, Cell
    <3>2. q[0] = EmptyStr
      BY <1>1, <1>5, <2>1, <2>2
    <3>3. activeUsers' = Handled(c, b)
      BY <1>1, <1>5, <1>6, <2>1, <3>2 DEF Cell
    <3> QED BY <1>3, <3>1, <3>3, Regions DEF Waiting
  <2>3. CASE Cell(own, 0) # EmptyStr
    <3>1. Goto(c, "l_scan", l)
      BY <1>7, <2>3 DEF FirstTweet, Entry, Cell
    <3>2. pc'[c] = "l_scan" /\ local'[c] = l
      BY <1>2, <3>1
    <3>3. TimelineDone(c, b)'
      BY <1>5, <2>1, <3>2 DEF TimelineDone, Cell
    <3> QED BY <3>2, <3>3 DEF Waiting
  <2> QED BY <2>2, <2>3
<1>8. CASE ScanTweet(c)
  <2>1. /\ pc[c] = "l_scan" /\ pc[c] \in TimelineSteps /\ activeUsers' = activeUsers /\ n \in PendingTweetIdx
        /\ clientUserIdx' = clientUserIdx
    BY <1>1, <1>8 DEF ScanTweet, TimelineSteps, OnlyReads, shared, LocalsAt, QueueSteps
  <2>2. Cell(own, n) = q[n]
    BY <1>1, <1>5, <2>1
  <2>3. CASE q[n] = EmptyStr
    <3>1. Reply(c, "ready")
      BY <1>8, <2>2, <2>3 DEF ScanTweet, Entry, Cell
    <3>2. activeUsers' = Handled(c, b)
      BY <1>1, <1>5, <1>6, <2>1, <2>3 DEF Cell
    <3> QED BY <1>3, <3>1, <3>2, Regions DEF Waiting
  <2>4. CASE q[n] # EmptyStr
    <3>1. Goto(c, "l_copy", l)
      BY <1>8, <2>2, <2>4 DEF ScanTweet, Entry, Cell
    <3>2. pc'[c] = "l_copy" /\ local'[c] = l
      BY <1>2, <3>1
    <3>3. TimelineDone(c, b)'
      BY <1>5, <2>1, <2>4, <3>2 DEF TimelineDone, Cell
    <3> QED BY <3>2, <3>3 DEF Waiting
  <2> QED BY <2>3, <2>4
<1>9. CASE CopyTweet(c)
  <2>1. /\ pc[c] = "l_copy" /\ pc[c] \in TimelineSteps /\ activeUsers' = activeUsers
        /\ pc'[c] = "l_clear" /\ local'[c] = l /\ clientUserIdx' = clientUserIdx
    BY <1>2, <1>9 DEF CopyTweet, TimelineSteps, shared
  <2>2. TimelineDone(c, b)'
    BY <1>5, <2>1 DEF TimelineDone, Cell
  <2> QED BY <2>1, <2>2 DEF Waiting
<1>10. CASE ClearTweet(c)
  <2>1. /\ pc[c] = "l_clear" /\ pc[c] \in TimelineSteps /\ n \in PendingTweetIdx
        /\ clientUserIdx' = clientUserIdx /\ WriteTweetCell(own, n, EmptyStr)
    BY <1>1, <1>10 DEF ClearTweet, TimelineSteps, LocalsAt, QueueSteps
  <2>2. /\ \A i \in UserIdx \ {own} : activeUsers'[i] = b[i]
        /\ activeUsers'[own].isOccupied = b[own].isOccupied
        /\ activeUsers'[own].username = b[own].username
        /\ activeUsers'[own].subscriptions = b[own].subscriptions
        /\ activeUsers'[own].isSubscribedAll = b[own].isSubscribedAll
    <3> DEFINE new == [activeUsers[own].pendingTweets EXCEPT ![n] = EmptyStr]
    <3>1. WriteUser(own, [activeUsers[own] EXCEPT !.pendingTweets = new])
      BY <2>1 DEF WriteTweetCell
    <3> HIDE DEF own, new
    <3>2. /\ activeUsers'[own] = [activeUsers[own] EXCEPT !.pendingTweets = new]
          /\ \A i \in UserIdx \ {own} : activeUsers'[i] = activeUsers[i]
      BY <1>1, <1>5, <2>1, <3>1, UserWritten
    <3>3. activeUsers[own] \in SharedUser
      BY <1>1, <1>5, <2>1 DEF Tables
    <3> QED BY <1>5, <2>1, <3>2, <3>3 DEF SharedUser
  <2>3. \A j \in PendingTweetIdx :
          activeUsers'[own].pendingTweets[j] = IF j < n + 1 THEN EmptyStr ELSE q[j]
    <3>1. PICK i \in UserIdx, k \in PendingTweetIdx : i = own /\ k = n
      BY <1>5, <2>1
    <3>2. /\ Cell(i, k)' = EmptyStr
          /\ \A j \in PendingTweetIdx : j # k => Cell(i, j)' = Cell(i, j)
      BY <2>1, <3>1, CellWritten
    <3> QED BY <1>1, <1>5, <2>1, <3>1, <3>2 DEF Cell
  <2>4. \A j \in 0 .. (n + 1) - 1 : q[j] # EmptyStr
    BY <1>1, <1>5, <2>1
  <2>5. CASE n + 1 < MAX_TWEET_QUEUE
    <3>1. Goto(c, "l_scan", [l EXCEPT !.cell = @ + 1])
      BY <1>10, <2>5 DEF ClearTweet
    <3>2. pc'[c] = "l_scan" /\ local'[c].cell = n + 1
      BY <1>1, <1>2, <3>1 DEF Locals
    <3>3. TimelineDone(c, b)'
      BY <2>1, <2>2, <2>3, <2>4, <3>2 DEF TimelineDone, Cell
    <3> QED BY <3>2, <3>3 DEF Waiting
  <2>6. CASE n + 1 = MAX_TWEET_QUEUE
    <3>1. Reply(c, "ready")
      BY <1>1, <1>10, <2>6 DEF ClearTweet
    <3>2. activeUsers' = Handled(c, b)
      BY <1>1, <1>6, <2>1, <2>2, <2>3, <2>4, <2>6 DEF Cell
    <3> QED BY <1>3, <3>1, <3>2, Regions DEF Waiting
  <2>7. n + 1 < MAX_TWEET_QUEUE \/ n + 1 = MAX_TWEET_QUEUE
    BY <1>1, <2>1
  <2> QED BY <2>5, <2>6, <2>7
<1> QED BY <1>4, <1>7, <1>8, <1>9, <1>10 DEF Timeline

-----------------------------------------------------------------------------
(* An exit.                                                                *)
LEMMA ExitAtomic ==
  ASSUME TypeInv, TypeInv', NEW c \in Clients, NEW b \in Tables, Exit(c),
         pc[c] \in Waiting => activeUsers = b,
         pc[c] \notin Waiting => ExitDone(c, b)
  PROVE  /\ pc'[c] \in ExitSteps => ExitDone(c, b)'
         /\ pc[c] \notin Waiting /\ pc'[c] \in Waiting => activeUsers' = Handled(c, b)
<1> DEFINE own == clientUserIdx[c]
           l == local[c]
           n == l.cell
<1>1. /\ activeUsers \in Tables /\ activeUsers' \in Tables /\ RequestAt(pc[c], request[c]) /\ l \in Locals
      /\ n \in Nat /\ LocalsAt(pc[c], l)
      /\ MAX_TWEET_QUEUE \in Nat \ {0} /\ PendingTweetIdx = 0 .. MAX_TWEET_QUEUE - 1
      /\ MAX_SUBSCRIPTIONS \in Nat \ {0} /\ SubscriptionIdx = 0 .. MAX_SUBSCRIPTIONS - 1
  BY Types, EmptyStrIsNoValue DEF Tables, TypeInv, Locals, PendingTweetIdx, SubscriptionIdx
<1>2. ASSUME NEW p, NEW m, Goto(c, p, m)
      PROVE  pc'[c] = p /\ local'[c] = m
  BY <1>2, GotoMoves
<1>3. CASE BeginExit(c)
  <2>1. pc[c] \in Waiting /\ activeUsers' = b /\ pc'[c] = "e_occupied"
    BY <1>3, Types DEF BeginExit, Begin, shared, Waiting
  <2>2. ExitDone(c, b)'
    BY <2>1 DEF ExitDone, ClearSteps
  <2> QED BY <2>1, <2>2
<1>4. ASSUME pc[c] \in ExitSteps
      PROVE  /\ own \in UserIdx /\ activeUsers[own] \in SharedUser /\ pc[c] \notin Waiting
             /\ Handled(c, b) = [b EXCEPT ![own] = Cleared(b[own])] /\ ExitDone(c, b)
  <2>1. own \in UserIdx /\ request[c].kind = "exit" /\ pc[c] \notin Waiting
    BY <1>1, <1>4, OwnEntry, Regions DEF InSession, RequestAt
  <2>2. activeUsers[own] \in SharedUser
    BY <1>1, <2>1 DEF Tables
  <2>3. Handled(c, b) = [b EXCEPT ![own] = Cleared(b[own])]
    BY <2>1 DEF Handled
  <2> QED BY <2>1, <2>2, <2>3
<1>5. ASSUME NEW u, WriteUser(own, u), pc[c] \in ExitSteps
      PROVE  /\ activeUsers'[own] = u
             /\ \A i \in UserIdx \ {own} : activeUsers'[i] = activeUsers[i]
  <2> HIDE DEF own
  <2> QED BY <1>1, <1>4, <1>5, UserWritten
<1>6. CASE ClearOccupied(c)
  <2>1. pc[c] = "e_occupied" /\ pc[c] \in ExitSteps /\ clientUserIdx' = clientUserIdx /\ activeUsers = b
    BY <1>4, <1>6 DEF ClearOccupied, ExitSteps, ExitDone
  <2>2. /\ activeUsers'[own] = [activeUsers[own] EXCEPT !.isOccupied = FALSE]
        /\ \A i \in UserIdx \ {own} : activeUsers'[i] = activeUsers[i]
        /\ pc'[c] = "e_all"
    BY <1>2, <1>5, <1>6, <2>1 DEF ClearOccupied, Entry
  <2>3. ~ activeUsers'[own].isOccupied /\ activeUsers'[own].pendingTweets = activeUsers[own].pendingTweets
    BY <1>4, <2>1, <2>2 DEF SharedUser
  <2>4. ExitDone(c, b)'
    BY <2>1, <2>2, <2>3 DEF ExitDone, Cell
  <2> QED BY <2>2, <2>4 DEF Waiting
<1>7. CASE ClearSubscribedAll(c)
  <2>1. pc[c] = "e_all" /\ pc[c] \in ExitSteps /\ pc[c] \in ClearSteps /\ clientUserIdx' = clientUserIdx
    BY <1>7 DEF ClearSubscribedAll, ExitSteps, ClearSteps
  <2>2. /\ activeUsers'[own] = [activeUsers[own] EXCEPT !.isSubscribedAll = FALSE]
        /\ \A i \in UserIdx \ {own} : activeUsers'[i] = activeUsers[i]
        /\ pc'[c] = "e_username"
    BY <1>2, <1>5, <1>7, <2>1 DEF ClearSubscribedAll, ClearField, Entry
  <2>3. /\ activeUsers'[own].isOccupied = activeUsers[own].isOccupied /\ ~ activeUsers'[own].isSubscribedAll
        /\ activeUsers'[own].pendingTweets = activeUsers[own].pendingTweets
    BY <1>4, <2>1, <2>2 DEF SharedUser
  <2>4. ExitDone(c, b)'
    BY <1>4, <2>1, <2>2, <2>3 DEF ExitDone, Cell
  <2> QED BY <2>2, <2>4 DEF Waiting
<1>8. CASE ClearUsername(c)
  <2>1. pc[c] = "e_username" /\ pc[c] \in ExitSteps /\ pc[c] \in ClearSteps /\ clientUserIdx' = clientUserIdx
        /\ n = 0
    BY <1>1, <1>8, StartConstants DEF ClearUsername, ExitSteps, ClearSteps, LocalsAt, FirstSteps
  <2>2. /\ activeUsers'[own] = [activeUsers[own] EXCEPT !.username = EmptyStr]
        /\ \A i \in UserIdx \ {own} : activeUsers'[i] = activeUsers[i]
        /\ pc'[c] = "e_subscriptions" /\ local'[c] = l
    BY <1>2, <1>5, <1>8, <2>1 DEF ClearUsername, ClearField, Entry
  <2>3. /\ activeUsers'[own].isOccupied = activeUsers[own].isOccupied
        /\ activeUsers'[own].isSubscribedAll = activeUsers[own].isSubscribedAll
        /\ activeUsers'[own].username = EmptyStr
        /\ activeUsers'[own].pendingTweets = activeUsers[own].pendingTweets
    BY <1>4, <2>1, <2>2 DEF SharedUser
  <2>4. \A s \in SubscriptionIdx : ~ (s < local'[c].cell)
    BY <1>1, <2>1, <2>2
  <2>5. ExitDone(c, b)'
    BY <1>4, <2>1, <2>2, <2>3, <2>4 DEF ExitDone, Cell
  <2> QED BY <2>2, <2>5 DEF Waiting
<1>9. CASE ClearSubscription(c)
  <2> DEFINE new == [activeUsers[own].subscriptions EXCEPT ![n] = EmptyStr]
  <2>1. /\ pc[c] = "e_subscriptions" /\ pc[c] \in ExitSteps /\ pc[c] \in ClearSteps
        /\ clientUserIdx' = clientUserIdx /\ n \in SubscriptionIdx
    BY <1>1, <1>9 DEF ClearSubscription, ExitSteps, ClearSteps, LocalsAt, CellSteps
  <2>2. /\ activeUsers'[own] = [activeUsers[own] EXCEPT !.subscriptions = new]
        /\ \A i \in UserIdx \ {own} : activeUsers'[i] = activeUsers[i]
    BY <1>5, <1>9, <2>1 DEF ClearSubscription, ClearField, Entry
  <2>3. new[n] = EmptyStr /\ \A s \in SubscriptionIdx \ {n} : new[s] = activeUsers[own].subscriptions[s]
    BY <1>4, <2>1 DEF SharedUser
  <2> HIDE DEF new
  <2>4. /\ activeUsers'[own].isOccupied = activeUsers[own].isOccupied
        /\ activeUsers'[own].isSubscribedAll = activeUsers[own].isSubscribedAll
        /\ activeUsers'[own].username = activeUsers[own].username
        /\ activeUsers'[own].pendingTweets = activeUsers[own].pendingTweets
        /\ activeUsers'[own].subscriptions = new
    BY <1>4, <2>1, <2>2 DEF SharedUser
  <2>5. \A s \in SubscriptionIdx : s < n + 1 => activeUsers'[own].subscriptions[s] = EmptyStr
    <3>1. \A s \in SubscriptionIdx : s < n => activeUsers[own].subscriptions[s] = EmptyStr
      BY <1>4, <2>1 DEF ExitDone
    <3> QED BY <1>1, <2>1, <2>3, <2>4, <3>1
  <2>6. CASE n + 1 < MAX_SUBSCRIPTIONS
    <3>1. Goto(c, "e_subscriptions", [l EXCEPT !.cell = @ + 1])
      BY <1>9, <2>6 DEF ClearSubscription
    <3>2. pc'[c] = "e_subscriptions" /\ local'[c].cell = n + 1
      BY <1>1, <1>2, <3>1 DEF Locals
    <3>3. ExitDone(c, b)'
      BY <1>4, <2>1, <2>2, <2>4, <2>5, <3>2 DEF ExitDone, Cell
    <3> QED BY <3>2, <3>3 DEF Waiting
  <2>7. CASE ~ (n + 1 < MAX_SUBSCRIPTIONS)
    <3>1. Goto(c, "e_pending", NoLocals)
      BY <1>9, <2>7 DEF ClearSubscription
    <3>2. pc'[c] = "e_pending" /\ local'[c].cell = 0
      BY <1>2, <3>1, StartConstants
    <3>3. \A s \in SubscriptionIdx : activeUsers'[own].subscriptions[s] = EmptyStr
      BY <1>1, <2>1, <2>5, <2>7
    <3>4. /\ \A j \in PendingTweetIdx : ~ (j < local'[c].cell)
          /\ local'[c].cell <= MAX_TWEET_QUEUE - 1
      BY <1>1, <3>2
    <3>5. ExitDone(c, b)'
      BY <1>4, <2>1, <2>2, <2>4, <3>2, <3>3, <3>4 DEF ExitDone, Cell
    <3> QED BY <3>2, <3>5 DEF Waiting
  <2> QED BY <2>6, <2>7
<1>10. CASE ClearPendingTweet(c)
  <2> DEFINE new == [activeUsers[own].pendingTweets EXCEPT ![n] = EmptyStr]
  <2>1. /\ pc[c] = "e_pending" /\ pc[c] \in ExitSteps /\ pc[c] \in ClearSteps /\ n \in PendingTweetIdx
    BY <1>1, <1>10 DEF ClearPendingTweet, ExitSteps, ClearSteps, LocalsAt, QueueSteps
  <2>2. /\ n <= MAX_TWEET_QUEUE - 1
        /\ \A i \in UserIdx \ {own} : activeUsers[i] = b[i]
        /\ ~ activeUsers[own].isOccupied /\ ~ activeUsers[own].isSubscribedAll
        /\ activeUsers[own].username = EmptyStr
        /\ \A s \in SubscriptionIdx : activeUsers[own].subscriptions[s] = EmptyStr
        /\ \A j \in PendingTweetIdx :
             activeUsers[own].pendingTweets[j] = IF j < n THEN EmptyStr ELSE b[own].pendingTweets[j]
    BY <1>4, <2>1 DEF ExitDone, Cell
  <2>3. CASE n < MAX_TWEET_QUEUE - 1
    <3>1. /\ activeUsers'[own] = [activeUsers[own] EXCEPT !.pendingTweets = new]
          /\ \A i \in UserIdx \ {own} : activeUsers'[i] = activeUsers[i]
          /\ clientUserIdx' = clientUserIdx
      BY <1>5, <1>10, <2>1, <2>3 DEF ClearPendingTweet, ClearField, Entry
    <3>2. pc'[c] = "e_pending" /\ local'[c].cell = n + 1
      <4>1. Goto(c, "e_pending", [l EXCEPT !.cell = @ + 1])
        BY <1>10, <2>3 DEF ClearPendingTweet
      <4> QED BY <1>1, <1>2, <4>1 DEF Locals
    <3>3. new[n] = EmptyStr /\ \A j \in PendingTweetIdx \ {n} : new[j] = activeUsers[own].pendingTweets[j]
      BY <1>4, <2>1 DEF SharedUser
    <3> HIDE DEF new
    <3>4. /\ activeUsers'[own].isOccupied = activeUsers[own].isOccupied
          /\ activeUsers'[own].isSubscribedAll = activeUsers[own].isSubscribedAll
          /\ activeUsers'[own].username = activeUsers[own].username
          /\ activeUsers'[own].subscriptions = activeUsers[own].subscriptions
          /\ activeUsers'[own].pendingTweets = new
      BY <1>4, <2>1, <3>1 DEF SharedUser
    <3>5. \A j \in PendingTweetIdx :
            activeUsers'[own].pendingTweets[j] = IF j < n + 1 THEN EmptyStr ELSE b[own].pendingTweets[j]
      BY <1>1, <2>1, <2>2, <3>3, <3>4
    <3>6. n + 1 <= MAX_TWEET_QUEUE - 1
      BY <1>1, <2>3
    <3>7. ExitDone(c, b)'
      BY <2>2, <3>1, <3>2, <3>4, <3>5, <3>6 DEF ExitDone, Cell
    <3> QED BY <3>2, <3>7 DEF Waiting
  <2>4. CASE ~ (n < MAX_TWEET_QUEUE - 1)
    <3>1. Reply(c, "left") /\ activeUsers' = activeUsers
      BY <1>10, <2>4 DEF ClearPendingTweet, shared
    <3>2. pc'[c] = "left"
      BY <3>1, ReplyMoves
    <3> DEFINE v == Cleared(b[own])
               rest == [j \in PendingTweetIdx |->
                          IF j < MAX_TWEET_QUEUE - 1 THEN EmptyStr ELSE b[own].pendingTweets[j]]
               none == [s \in SubscriptionIdx |-> EmptyStr]
    <3>3. /\ rest \in [PendingTweetIdx -> Formatted \cup {EmptyStr}]
          /\ none \in [SubscriptionIdx -> Subscribable \cup {EmptyStr}]
      BY <1>4, <2>1 DEF Tables, SharedUser
    <3>4. /\ \A j \in PendingTweetIdx : rest[j] = activeUsers[own].pendingTweets[j]
          /\ \A s \in SubscriptionIdx : none[s] = EmptyStr
      BY <1>1, <2>1, <2>2, <2>4
    <3>5. /\ v = [InitialUser EXCEPT !.pendingTweets = rest]
          /\ InitialUser.isOccupied = FALSE /\ InitialUser.username = EmptyStr
          /\ InitialUser.subscriptions = none /\ InitialUser.isSubscribedAll = FALSE
          /\ InitialUser \in SharedUser
      BY <3>3 DEF Cleared, InitialUser, SharedUser
    <3> HIDE DEF v, rest, none
    <3>6. v \in SharedUser
      BY <3>3, <3>5 DEF SharedUser
    <3>7. /\ v.isOccupied = FALSE /\ v.username = EmptyStr /\ v.isSubscribedAll = FALSE
          /\ \A s \in SubscriptionIdx : v.subscriptions[s] = EmptyStr
          /\ \A j \in PendingTweetIdx : v.pendingTweets[j] = activeUsers[own].pendingTweets[j]
      BY <3>4, <3>5 DEF SharedUser
    <3>8. /\ activeUsers[own] \in SharedUser /\ activeUsers[own].isOccupied = v.isOccupied
          /\ activeUsers[own].isSubscribedAll = v.isSubscribedAll
      BY <1>4, <2>1, <2>2, <3>7 DEF SharedUser
    <3>9. activeUsers[own] = v
      BY <2>2, <3>6, <3>7, <3>8, SameUser
    <3> HIDE DEF own
    <3>10. activeUsers' = [b EXCEPT ![own] = v]
      BY <1>1, <1>4, <2>1, <2>2, <3>1, <3>9, OneUserChanged
    <3> QED BY <1>4, <2>1, <3>2, <3>10, Regions DEF v, Waiting
  <2> QED BY <2>3, <2>4
<1> QED BY <1>3, <1>6, <1>7, <1>8, <1>9, <1>10 DEF Exit

-----------------------------------------------------------------------------
(* A tweet: the users before userIdx have been updated, and the loops over *)
(* the subscriptions of the one at userIdx, and over its queue, have found *)
(* nothing yet.                                                            *)
NoMatch(v, tags, n, k) ==
  \A s \in SubscriptionIdx, m \in 1 .. Len(tags) :
    s < n \/ (s = n /\ m <= k) => v.subscriptions[s] # tags[m]

TweetDone(c, b) ==
  LET l == local[c]
      r == request[c]
      v == b[l.userIdx]
  IN  pc[c] \in TweetSteps =>
        /\ \A i \in UserIdx :
             activeUsers[i] = IF i < l.userIdx THEN Updated(b[i], NameOf[c], r.text, r.tags) ELSE b[i]
        /\ pc[c] \in {"u_all", "u_more", "u_match"} => v.isOccupied
        /\ pc[c] \in {"u_more", "u_match"} =>
             ~ v.isSubscribedAll /\ NoMatch(v, r.tags, l.cell, l.hashtagIdx)
        /\ pc[c] \in AddSteps => Wants(v, r.tags)
        /\ pc[c] \in {"a_to", "a_from", "a_text", "a_tag"} =>
             TagOf(l.hashtagIdx, r.tags) = OriginHashtag(v, r.tags)
        /\ pc[c] \in {"a_from", "a_text", "a_tag", "a_scan", "a_put"} => l.item.to = v.username
        /\ pc[c] \in {"a_text", "a_tag", "a_scan", "a_put"} => l.item.from = NameOf[c]
        /\ pc[c] \in {"a_tag", "a_scan", "a_put"} => l.item.text = r.text
        /\ pc[c] \in {"a_scan", "a_put"} =>
             /\ l.item.tag = OriginHashtag(v, r.tags)
             /\ \A j \in 0 .. l.cell - 1 : v.pendingTweets[j] # EmptyStr
        /\ pc[c] = "a_put" => v.pendingTweets[l.cell] = EmptyStr

LEMMA MatchIsOrigin ==
  ASSUME NEW v \in SharedUser, v.isOccupied, ~ v.isSubscribedAll, NEW tags \in Seq(Hashtags),
         NEW s \in SubscriptionIdx, NEW k \in 0 .. Len(tags) - 1, NoMatch(v, tags, s, k),
         v.subscriptions[s] = tags[k + 1]
  PROVE  Wants(v, tags) /\ OriginHashtag(v, tags) = tags[k + 1]
<1> DEFINE found == {t \in SubscriptionIdx : v.subscriptions[t] \in Range(tags)}
<1>1. Range(tags) = {tags[m] : m \in 1 .. Len(tags)} /\ Len(tags) \in Nat
  BY DEF Range
<1>2. tags[k + 1] \in Range(tags)
  BY <1>1
<1>3. s \in found /\ found \in SUBSET Nat /\ MAX_SUBSCRIPTIONS \in Nat
  BY <1>2, EmptyStrIsNoValue DEF SubscriptionIdx
<1>4. Min(found) \in found /\ Min(found) <= s
  BY <1>3, MinIsLeast
<1>5. PICK t \in SubscriptionIdx, m \in 1 .. Len(tags) : t = Min(found) /\ v.subscriptions[t] = tags[m]
  BY <1>1, <1>4
<1>6. Min(found) = s
  <2>1. ~ (t < s)
    BY <1>5 DEF NoMatch
  <2>2. t <= s /\ t \in Nat /\ s \in Nat
    BY <1>3, <1>4, <1>5
  <2> QED BY <1>5, <2>1, <2>2
<1>7. OriginHashtag(v, tags) = tags[k + 1]
  BY <1>6 DEF OriginHashtag
<1> QED BY <1>2, <1>7 DEF Wants, IsSubscribed

(* The loops over a user's subscriptions go on to the next hashtag or to   *)
(* the next subscription, until there are none.                            *)
LEMMA NoMatchWith ==
  ASSUME NEW v, NEW tags \in Seq(Hashtags), NEW n \in Nat, NEW k \in Nat, NoMatch(v, tags, n, k),
         v.subscriptions[n] # tags[k + 1]
  PROVE  NoMatch(v, tags, n, k + 1)
<1>1. ASSUME NEW s \in SubscriptionIdx, NEW m \in 1 .. Len(tags), s < n \/ (s = n /\ m <= k + 1)
      PROVE  v.subscriptions[s] # tags[m]
  <2>1. CASE s = n /\ m = k + 1
    BY <2>1
  <2>2. CASE s < n \/ (s = n /\ m <= k)
    BY <1>1, <2>2 DEF NoMatch
  <2>3. m \in Nat
    OBVIOUS
  <2> QED BY <1>1, <2>1, <2>2, <2>3
<1> QED BY <1>1 DEF NoMatch

LEMMA NoMatchInCell ==
  ASSUME NEW v, NEW tags \in Seq(Hashtags), NEW n \in Nat, NEW k \in Nat, NoMatch(v, tags, n, k),
         k >= Len(tags)
  PROVE  NoMatch(v, tags, n + 1, 0)
<1>1. ASSUME NEW s \in SubscriptionIdx, NEW m \in 1 .. Len(tags), s < n + 1 \/ (s = n + 1 /\ m <= 0)
      PROVE  v.subscriptions[s] # tags[m]
  <2>1. s \in Int /\ m \in Int /\ 1 <= m /\ m <= Len(tags) /\ Len(tags) \in Nat
    BY EmptyStrIsNoValue DEF SubscriptionIdx
  <2>2. s < n \/ (s = n /\ m <= k)
    BY <1>1, <2>1
  <2> QED BY <2>2 DEF NoMatch
<1> QED BY <1>1 DEF NoMatch

LEMMA NothingMatches ==
  ASSUME NEW v, ~ v.isSubscribedAll, NEW tags \in Seq(Hashtags), NEW n, NEW k \in Nat, NoMatch(v, tags, n, k),
         n = MAX_SUBSCRIPTIONS - 1, k >= Len(tags)
  PROVE  ~ Wants(v, tags)
<1>1. Range(tags) = {tags[m] : m \in 1 .. Len(tags)} /\ Len(tags) \in Nat
  BY DEF Range
<1>2. \A s \in SubscriptionIdx, m \in 1 .. Len(tags) : v.subscriptions[s] # tags[m]
  BY <1>1, EmptyStrIsNoValue DEF NoMatch, SubscriptionIdx
<1> QED BY <1>1, <1>2 DEF Wants, IsSubscribed

LEMMA TweetAtomic ==
  ASSUME TypeInv, TypeInv', NEW c \in Clients, NEW b \in Tables, LatestSound(c), Tweet(c),
         pc[c] \in Waiting => activeUsers = b,
         pc[c] \notin Waiting => TweetDone(c, b)
  PROVE  /\ pc'[c] \in TweetSteps => TweetDone(c, b)'
         /\ pc[c] \notin Waiting /\ pc'[c] \in Waiting => activeUsers' = Handled(c, b)
<1> DEFINE l == local[c]
           u == l.userIdx
           n == l.cell
           k == l.hashtagIdx
           r == request[c]
           tags == r.tags
           v == b[u]
           New(i) == Updated(b[i], NameOf[c], r.text, tags)
<1>1. /\ activeUsers \in Tables /\ activeUsers' \in Tables /\ RequestAt(pc[c], r) /\ l \in Locals
      /\ LocalsAt(pc[c], l) /\ u \in UserIdx /\ u \in Nat /\ n \in Nat /\ k \in Nat
      /\ MAX_CONC_CONN \in Nat \ {0} /\ UserIdx = 0 .. MAX_CONC_CONN - 1
      /\ MAX_TWEET_QUEUE \in Nat \ {0} /\ PendingTweetIdx = 0 .. MAX_TWEET_QUEUE - 1
      /\ MAX_SUBSCRIPTIONS \in Nat \ {0} /\ SubscriptionIdx = 0 .. MAX_SUBSCRIPTIONS - 1
      /\ HashtagIdx = 0 .. MAX_HASHTAG_CNT - 1 /\ MAX_HASHTAG_CNT \in Nat
  BY Types, EmptyStrIsNoValue, ChildStepsAssumption
     DEF Tables, TypeInv, Locals, UserIdx, PendingTweetIdx, SubscriptionIdx, HashtagIdx
<1>2. ASSUME NEW p, NEW m, Goto(c, p, m)
      PROVE  pc'[c] = p /\ local'[c] = m /\ request' = request
  BY <1>2, GotoMoves
<1>3. ASSUME NEW p, Reply(c, p)
      PROVE  pc'[c] = p
  BY <1>3, ReplyMoves
<1>4. ASSUME pc[c] \in TweetSteps
      PROVE  /\ pc[c] \notin Waiting /\ TweetDone(c, b) /\ Written(c) /\ Counted(c)
             /\ tags \in Seq(Hashtags) /\ Len(tags) \in Nat /\ Len(tags) <= MAX_HASHTAG_CNT
             /\ v \in SharedUser
             /\ Handled(c, b) = [i \in UserIdx |-> New(i)]
  <2>1. pc[c] \notin Waiting /\ r.kind = "tweet" /\ tags \in Seq(Hashtags) /\ Len(tags) <= MAX_HASHTAG_CNT
    BY <1>1, <1>4, Regions DEF RequestAt
  <2>2. v \in SharedUser
    BY <1>1 DEF Tables
  <2>3. Handled(c, b) = [i \in UserIdx |-> New(i)]
    BY <2>1 DEF Handled
  <2> QED BY <1>4, <2>1, <2>2, <2>3 DEF LatestSound
<1>5. ASSUME pc[c] \in TweetSteps
      PROVE  \A i \in UserIdx : activeUsers[i] = IF i < u THEN New(i) ELSE b[i]
  BY <1>4, <1>5 DEF TweetDone
<1>6. ASSUME pc[c] \in TweetSteps, NextUser(c), activeUsers'[u] = New(u),
             \A i \in UserIdx \ {u} : activeUsers'[i] = activeUsers[i]
      PROVE  /\ pc'[c] \in TweetSteps => TweetDone(c, b)'
             /\ pc'[c] \in Waiting => activeUsers' = Handled(c, b)
  <2>1. \A i \in UserIdx : activeUsers'[i] = IF i < u + 1 THEN New(i) ELSE b[i]
    BY <1>1, <1>5, <1>6
  <2>2. CASE u + 1 < MAX_CONC_CONN
    <3>1. Goto(c, "u_occupied", [NoLocals EXCEPT !.userIdx = u + 1])
      BY <1>6, <2>2 DEF NextUser
    <3>2. pc'[c] = "u_occupied" /\ local'[c].userIdx = u + 1 /\ request' = request
      BY <1>2, <3>1, StartConstants DEF Locals
    <3> HIDE DEF l
    <3>3. TweetDone(c, b)'
      BY <2>1, <3>2 DEF TweetDone, AddSteps
    <3> QED BY <3>2, <3>3 DEF Waiting
  <2>3. CASE ~ (u + 1 < MAX_CONC_CONN)
    <3>1. Reply(c, "ready")
      BY <1>6, <2>3 DEF NextUser
    <3>2. \A i \in UserIdx : activeUsers'[i] = New(i)
      BY <1>1, <2>1, <2>3
    <3> HIDE DEF New
    <3>3. activeUsers' = [i \in UserIdx |-> New(i)]
      BY <1>1, <3>2 DEF Tables
    <3>4. activeUsers' = Handled(c, b)
      BY <1>4, <1>6, <3>3 DEF New
    <3>5. "ready" \notin TweetSteps
      BY DEF TweetSteps, StoreSteps, UpdateSteps, AddSteps
    <3> QED BY <1>3, <3>1, <3>4, <3>5
  <2> QED BY <2>2, <2>3
<1>7. ASSUME pc[c] \in TweetSteps, NextUser(c), UNCHANGED activeUsers, New(u) = v
      PROVE  /\ pc'[c] \in TweetSteps => TweetDone(c, b)'
             /\ pc'[c] \in Waiting => activeUsers' = Handled(c, b)
  <2>1. activeUsers[u] = v
    BY <1>1, <1>5, <1>7
  <2> HIDE DEF New, v, u
  <2> QED BY <1>6, <1>7, <2>1
<1>8. CASE \E ts \in TagLists : BeginTweet(c, ts)
  <2>1. /\ pc[c] \in Waiting /\ activeUsers' = b /\ pc'[c] = "t_username" /\ local'[c].userIdx = 0
    BY <1>1, <1>8, Types, StartConstants DEF BeginTweet, Begin, shared, Waiting, LocalsAt, FirstSteps
  <2>2. \A i \in UserIdx : ~ (i < local'[c].userIdx)
    BY <1>1, <2>1
  <2>3. TweetDone(c, b)'
    BY <2>1, <2>2 DEF TweetDone, AddSteps
  <2> QED BY <2>1, <2>3
<1>9. CASE \/ StoreUsername(c) \/ StoreText(c) \/ StoreCount(c)
           \/ ClearHashtag(c) \/ MoreHashtags(c) \/ StoreHashtag(c)
  <2>1. pc[c] \in StoreSteps /\ pc[c] \in TweetSteps /\ activeUsers' = activeUsers
    BY <1>9 DEF StoreUsername, StoreText, StoreCount, ClearHashtag, MoreHashtags, StoreHashtag,
                WriteLatest, WriteHashtag, OnlyReads, shared, StoreSteps, TweetSteps
  <2>2. u = 0
    BY <1>4, <2>1 DEF Counted
  <2>3. /\ pc'[c] \in StoreSteps \cup {"u_occupied"}
        /\ pc'[c] = "u_occupied" => local'[c].userIdx = 0
    <3>1. CASE StoreUsername(c) \/ StoreText(c) \/ StoreCount(c)
      BY <1>2, <3>1 DEF StoreUsername, StoreText, StoreCount, StoreSteps
    <3>2. CASE ClearHashtag(c)
      BY <1>2, <3>2 DEF ClearHashtag, StoreSteps
    <3>3. CASE MoreHashtags(c)
      BY <1>2, <3>3, StartConstants DEF MoreHashtags, StoreSteps
    <3>4. CASE StoreHashtag(c)
      <4>1. k < Len(tags)
        BY <1>4, <2>1, <3>4 DEF Counted, StoreHashtag
      <4>2. Goto(c, "t_more", [l EXCEPT !.hashtagIdx = k + 1])
        BY <3>4, <4>1 DEF StoreHashtag
      <4> QED BY <1>2, <4>2 DEF StoreSteps
    <3> QED BY <1>9, <3>1, <3>2, <3>3, <3>4
  <2>4. local'[c].userIdx = 0
    <3>1. LatestSound(c)'
      BY <2>3, SoundTweetStep DEF TweetSteps, UpdateSteps
    <3> QED BY <2>3, <3>1 DEF LatestSound, Counted, TweetSteps
  <2>5. \A i \in UserIdx : activeUsers'[i] = b[i] /\ ~ (i < local'[c].userIdx)
    BY <1>1, <1>5, <2>1, <2>2, <2>4
  <2>6. TweetDone(c, b)'
    <3> HIDE DEF l
    <3>1. pc'[c] \notin {"u_all", "u_more", "u_match"} /\ pc'[c] \notin AddSteps
      BY <2>3 DEF StoreSteps, AddSteps
    <3> QED BY <2>5, <3>1 DEF TweetDone, AddSteps
  <2>7. pc'[c] \notin Waiting
    BY <2>3 DEF StoreSteps, Waiting
  <2> QED BY <2>6, <2>7
<1>10. CASE UpdateOccupied(c)
  <2>1. /\ pc[c] = "u_occupied" /\ pc[c] \in TweetSteps /\ activeUsers' = activeUsers
        /\ activeUsers[u] = v /\ k = 0 /\ n = 0
    <3>1. pc[c] = "u_occupied" /\ pc[c] \in TweetSteps /\ activeUsers' = activeUsers
      BY <1>10 DEF UpdateOccupied, OnlyReads, shared, TweetSteps, UpdateSteps
    <3> QED BY <1>1, <1>4, <1>5, <3>1 DEF Counted
  <2>2. CASE v.isOccupied
    <3>1. Goto(c, "u_all", l)
      BY <1>10, <2>1, <2>2 DEF UpdateOccupied
    <3>2. pc'[c] = "u_all" /\ local'[c] = l /\ request' = request
      BY <1>2, <3>1
    <3>3. TweetDone(c, b)'
      BY <1>5, <2>1, <2>2, <3>2 DEF TweetDone, AddSteps
    <3> QED BY <3>2, <3>3 DEF Waiting
  <2>3. CASE ~ v.isOccupied
    <3>1. NextUser(c)
      BY <1>10, <2>1, <2>3 DEF UpdateOccupied
    <3>2. New(u) = v
      BY <2>3 DEF Updated, Wants
    <3> QED BY <1>7, <2>1, <3>1, <3>2
  <2> QED BY <2>2, <2>3
<1>11. CASE UpdateSubscribedAll(c)
  <2>1. /\ pc[c] = "u_all" /\ pc[c] \in TweetSteps /\ activeUsers' = activeUsers
        /\ activeUsers[u] = v /\ k = 0 /\ n = 0 /\ v.isOccupied
    <3>1. pc[c] = "u_all" /\ pc[c] \in TweetSteps /\ activeUsers' = activeUsers
      BY <1>11 DEF UpdateSubscribedAll, OnlyReads, shared, TweetSteps, UpdateSteps
    <3> QED BY <1>1, <1>4, <1>5, <3>1 DEF Counted, TweetDone
  <2>2. CASE v.isSubscribedAll
    <3>1. Goto(c, "a_to", l)
      BY <1>11, <2>1, <2>2 DEF UpdateSubscribedAll
    <3>2. pc'[c] = "a_to" /\ local'[c] = l /\ request' = request
      BY <1>2, <3>1
    <3>3. Wants(v, tags) /\ TagOf(k, tags) = OriginHashtag(v, tags)
      <4>1. tags = <<>> <=> Len(tags) = 0
        BY <1>4, <2>1
      <4> QED BY <1>4, <2>1, <2>2, <4>1 DEF Wants, TagOf, OriginHashtag
    <3>4. TweetDone(c, b)'
      BY <1>5, <2>1, <3>2, <3>3 DEF TweetDone
    <3> QED BY <3>2, <3>4 DEF Waiting
  <2>3. CASE ~ v.isSubscribedAll
    <3>1. Goto(c, "u_more", l)
      BY <1>11, <2>1, <2>3 DEF UpdateSubscribedAll
    <3>2. pc'[c] = "u_more" /\ local'[c] = l /\ request' = request
      BY <1>2, <3>1
    <3>3. NoMatch(v, tags, n, k)
      BY <1>1, <2>1 DEF NoMatch
    <3>4. TweetDone(c, b)'
      BY <1>5, <2>1, <2>3, <3>2, <3>3 DEF TweetDone, AddSteps
    <3> QED BY <3>2, <3>4 DEF Waiting
  <2> QED BY <2>2, <2>3
<1>12. CASE MoreToMatch(c)
  <2>1. /\ pc[c] = "u_more" /\ pc[c] \in TweetSteps /\ activeUsers' = activeUsers
        /\ activeUsers[u] = v /\ v.isOccupied /\ ~ v.isSubscribedAll /\ NoMatch(v, tags, n, k)
        /\ n \in SubscriptionIdx /\ latestTweet.numValidHashtags = Len(tags)
    <3>1. pc[c] = "u_more" /\ pc[c] \in TweetSteps /\ activeUsers' = activeUsers
      BY <1>12 DEF MoreToMatch, OnlyReads, shared, TweetSteps, UpdateSteps
    <3> QED BY <1>1, <1>4, <1>5, <3>1 DEF Written, TweetDone, LocalsAt, CellSteps
  <2>2. CASE k < Len(tags)
    <3>1. Goto(c, "u_match", l)
      BY <1>1, <1>4, <1>12, <2>1, <2>2, SMTT(40) DEF MoreToMatch
    <3>2. pc'[c] = "u_match" /\ local'[c] = l /\ request' = request
      BY <1>2, <3>1
    <3>3. TweetDone(c, b)'
      BY <1>5, <2>1, <3>2 DEF TweetDone, AddSteps
    <3> QED BY <3>2, <3>3 DEF Waiting
  <2>3. CASE k >= Len(tags) /\ n + 1 < MAX_SUBSCRIPTIONS
    <3>1. Goto(c, "u_more", [l EXCEPT !.cell = @ + 1, !.hashtagIdx = 0])
      BY <1>1, <1>4, <1>12, <2>1, <2>3 DEF MoreToMatch
    <3>2. /\ pc'[c] = "u_more" /\ request' = request
          /\ local'[c].userIdx = u /\ local'[c].cell = n + 1 /\ local'[c].hashtagIdx = 0
      <4> DEFINE m == [l EXCEPT !.cell = n + 1, !.hashtagIdx = 0]
      <4>1. m.userIdx = u /\ m.cell = n + 1 /\ m.hashtagIdx = 0
        BY <1>1 DEF Locals
      <4>2. Goto(c, "u_more", m)
        BY <3>1
      <4> HIDE DEF m
      <4> QED BY <1>2, <4>1, <4>2
    <3>3. NoMatch(v, tags, n + 1, 0)
      BY <1>1, <1>4, <2>1, <2>3, NoMatchInCell
    <3> HIDE DEF l
    <3>4. TweetDone(c, b)'
      BY <1>5, <2>1, <3>2, <3>3 DEF TweetDone, AddSteps
    <3> QED BY <3>2, <3>4 DEF Waiting
  <2>4. CASE k >= Len(tags) /\ ~ (n + 1 < MAX_SUBSCRIPTIONS)
    <3>1. NextUser(c)
      BY <1>1, <1>4, <1>12, <2>1, <2>4, SMTT(40) DEF MoreToMatch
    <3>2. n = MAX_SUBSCRIPTIONS - 1
      BY <1>1, <2>1, <2>4
    <3>3. ~ Wants(v, tags)
      BY <1>1, <1>4, <2>1, <2>4, <3>2, NothingMatches
    <3>4. New(u) = v
      BY <3>3 DEF Updated
    <3> QED BY <1>7, <2>1, <3>1, <3>4
  <2> QED BY <1>1, <1>4, <2>1, <2>2, <2>3, <2>4
<1>13. CASE Match(c)
  <2>1. /\ pc[c] = "u_match" /\ pc[c] \in TweetSteps /\ activeUsers' = activeUsers
        /\ activeUsers[u] = v /\ v.isOccupied /\ ~ v.isSubscribedAll /\ NoMatch(v, tags, n, k)
        /\ n \in SubscriptionIdx /\ k \in 0 .. Len(tags) - 1 /\ latestTweet.hashtags[k] = tags[k + 1]
    <3>1. pc[c] = "u_match" /\ pc[c] \in TweetSteps /\ pc[c] \in UpdateSteps /\ activeUsers' = activeUsers
      BY <1>13 DEF Match, OnlyReads, shared, TweetSteps, UpdateSteps
    <3>2. k < Len(tags) /\ n \in SubscriptionIdx /\ k \in HashtagIdx
      BY <1>1, <1>4, <3>1 DEF Counted, LocalsAt, CellSteps, HashtagSteps
    <3>3. latestTweet.hashtags[k] = tags[k + 1]
      BY <1>4, <3>1, <3>2 DEF Written, TagOf
    <3> QED BY <1>1, <1>4, <1>5, <3>1, <3>2, <3>3 DEF TweetDone
  <2>2. CASE v.subscriptions[n] = tags[k + 1]
    <3>1. Goto(c, "a_to", l)
      BY <1>13, <2>1, <2>2 DEF Match
    <3>2. pc'[c] = "a_to" /\ local'[c] = l /\ request' = request
      BY <1>2, <3>1
    <3>3. Wants(v, tags) /\ OriginHashtag(v, tags) = tags[k + 1]
      BY <1>4, <2>1, <2>2, MatchIsOrigin
    <3>4. TagOf(k, tags) = tags[k + 1]
      BY <1>4, <2>1 DEF TagOf
    <3>5. TweetDone(c, b)'
      BY <1>5, <2>1, <3>2, <3>3, <3>4 DEF TweetDone
    <3> QED BY <3>2, <3>5 DEF Waiting
  <2>3. CASE v.subscriptions[n] # tags[k + 1]
    <3>1. Goto(c, "u_more", [l EXCEPT !.hashtagIdx = @ + 1])
      BY <1>13, <2>1, <2>3 DEF Match
    <3>2. /\ pc'[c] = "u_more" /\ request' = request
          /\ local'[c].userIdx = u /\ local'[c].cell = n /\ local'[c].hashtagIdx = k + 1
      BY <1>1, <1>2, <3>1 DEF Locals
    <3>3. NoMatch(v, tags, n, k + 1)
      BY <1>1, <1>4, <2>1, <2>3, NoMatchWith
    <3> HIDE DEF l
    <3>4. TweetDone(c, b)'
      BY <1>5, <2>1, <3>2, <3>3 DEF TweetDone, AddSteps
    <3> QED BY <3>2, <3>4 DEF Waiting
  <2> QED BY <2>2, <2>3
<1>14. ASSUME pc[c] \in AddSteps
       PROVE  pc[c] \in TweetSteps /\ Wants(v, tags) /\ activeUsers[u] = v
  BY <1>1, <1>4, <1>5, <1>14 DEF TweetDone, TweetSteps
<1>15. CASE FormatTo(c)
  <2>1. pc[c] = "a_to" /\ pc[c] \in AddSteps /\ activeUsers' = activeUsers
    BY <1>15 DEF FormatTo, OnlyReads, shared, AddSteps
  <2>2. TagOf(k, tags) = OriginHashtag(v, tags)
    BY <1>4, <1>14, <2>1 DEF TweetDone
  <2> DEFINE item == [l.item EXCEPT !.to = v.username]
  <2>3. Goto(c, "a_from", [l EXCEPT !.item = item])
    BY <1>14, <1>15, <2>1 DEF FormatTo
  <2>4. item.to = v.username
    BY <1>1 DEF Locals, Formatted
  <2> HIDE DEF item
  <2>5. /\ pc'[c] = "a_from" /\ request' = request /\ local'[c].userIdx = u /\ local'[c].hashtagIdx = k
        /\ local'[c].item = item
    BY <1>1, <1>2, <2>3 DEF Locals
  <2> HIDE DEF l
  <2>6. TweetDone(c, b)'
    BY <1>5, <1>14, <2>1, <2>2, <2>4, <2>5 DEF TweetDone
  <2> QED BY <2>5, <2>6 DEF Waiting
<1>16. CASE FormatFrom(c)
  <2>1. pc[c] = "a_from" /\ pc[c] \in AddSteps /\ activeUsers' = activeUsers
    BY <1>16 DEF FormatFrom, OnlyReads, shared, AddSteps
  <2>2. TagOf(k, tags) = OriginHashtag(v, tags) /\ l.item.to = v.username /\ latestTweet.username = NameOf[c]
    BY <1>4, <1>14, <2>1 DEF TweetDone, Written
  <2> DEFINE item == [l.item EXCEPT !.from = NameOf[c]]
  <2>3. Goto(c, "a_text", [l EXCEPT !.item = item])
    BY <1>16, <2>2 DEF FormatFrom
  <2>4. item.to = v.username /\ item.from = NameOf[c]
    BY <1>1, <2>2 DEF Locals, Formatted
  <2> HIDE DEF item
  <2>5. /\ pc'[c] = "a_text" /\ request' = request /\ local'[c].userIdx = u /\ local'[c].hashtagIdx = k
        /\ local'[c].item = item
    BY <1>1, <1>2, <2>3 DEF Locals
  <2> HIDE DEF l
  <2>6. TweetDone(c, b)'
    BY <1>5, <1>14, <2>1, <2>2, <2>4, <2>5 DEF TweetDone
  <2> QED BY <2>5, <2>6 DEF Waiting
<1>17. CASE FormatText(c)
  <2>1. pc[c] = "a_text" /\ pc[c] \in AddSteps /\ activeUsers' = activeUsers
    BY <1>17 DEF FormatText, OnlyReads, shared, AddSteps
  <2>2. /\ TagOf(k, tags) = OriginHashtag(v, tags) /\ l.item.to = v.username /\ l.item.from = NameOf[c]
        /\ latestTweet.ttweetString = r.text
    BY <1>4, <1>14, <2>1 DEF TweetDone, Written
  <2> DEFINE item == [l.item EXCEPT !.text = r.text]
  <2>3. Goto(c, "a_tag", [l EXCEPT !.item = item])
    BY <1>17, <2>2 DEF FormatText
  <2>4. item.to = v.username /\ item.from = NameOf[c] /\ item.text = r.text
    BY <1>1, <2>2 DEF Locals, Formatted
  <2> HIDE DEF item
  <2>5. /\ pc'[c] = "a_tag" /\ request' = request /\ local'[c].userIdx = u /\ local'[c].hashtagIdx = k
        /\ local'[c].item = item
    BY <1>1, <1>2, <2>3 DEF Locals
  <2> HIDE DEF l
  <2>6. TweetDone(c, b)'
    BY <1>5, <1>14, <2>1, <2>2, <2>4, <2>5 DEF TweetDone
  <2> QED BY <2>5, <2>6 DEF Waiting
<1>18. CASE FormatTag(c)
  <2> DEFINE tag == OriginHashtag(v, tags)
  <2>1. pc[c] = "a_tag" /\ pc[c] \in AddSteps /\ activeUsers' = activeUsers /\ k \in HashtagIdx
    BY <1>1, <1>18 DEF FormatTag, OnlyReads, shared, AddSteps, LocalsAt, HashtagSteps
  <2>2. /\ l.item.to = v.username /\ l.item.from = NameOf[c] /\ l.item.text = r.text
        /\ latestTweet.hashtags[k] = tag
    BY <1>4, <1>14, <2>1 DEF TweetDone, Written
  <2> DEFINE item == [l.item EXCEPT !.tag = tag]
             m == [l EXCEPT !.item = item, !.cell = 0]
  <2>3. Goto(c, "a_scan", m)
    BY <1>18, <2>2 DEF FormatTag
  <2> HIDE DEF tag
  <2>4. /\ item.to = v.username /\ item.from = NameOf[c] /\ item.text = r.text /\ item.tag = tag
    BY <1>1, <2>2 DEF Locals, Formatted
  <2> HIDE DEF item
  <2>5. m.userIdx = u /\ m.cell = 0 /\ m.item = item
    BY <1>1 DEF Locals
  <2> HIDE DEF m
  <2>6. /\ pc'[c] = "a_scan" /\ request' = request /\ local'[c].userIdx = u /\ local'[c].cell = 0
        /\ local'[c].item = item
    BY <1>2, <2>3, <2>5
  <2>7. 0 .. local'[c].cell - 1 = {}
    BY <2>6
  <2> HIDE DEF l
  <2>8. TweetDone(c, b)'
    BY <1>5, <1>14, <2>1, <2>2, <2>4, <2>6, <2>7 DEF TweetDone, tag
  <2> QED BY <2>6, <2>8 DEF Waiting
<1>19. ASSUME pc[c] \in {"a_scan", "a_put"}
       PROVE  /\ pc[c] \in AddSteps /\ n \in PendingTweetIdx
              /\ l.item.to = v.username /\ l.item.from = NameOf[c] /\ l.item.text = r.text
              /\ l.item.tag = OriginHashtag(v, tags)
              /\ \A j \in 0 .. n - 1 : v.pendingTweets[j] # EmptyStr
              /\ pc[c] = "a_put" => v.pendingTweets[n] = EmptyStr
              /\ New(u) = WithTweet(v, l.item)
  <2>1. pc[c] \in AddSteps /\ n \in PendingTweetIdx
    BY <1>1, <1>19 DEF AddSteps, LocalsAt, QueueSteps
  <2>2. /\ l.item.to = v.username /\ l.item.from = NameOf[c] /\ l.item.text = r.text
        /\ l.item.tag = OriginHashtag(v, tags)
        /\ \A j \in 0 .. n - 1 : v.pendingTweets[j] # EmptyStr
        /\ pc[c] = "a_put" => v.pendingTweets[n] = EmptyStr
    BY <1>4, <1>14, <1>19, <2>1 DEF TweetDone
  <2>3. l.item = [to |-> v.username, from |-> NameOf[c], text |-> r.text, tag |-> OriginHashtag(v, tags)]
    BY <1>1, <2>2 DEF Locals, Formatted
  <2>4. New(u) = WithTweet(v, l.item)
    BY <1>14, <2>1, <2>3 DEF Updated
  <2> QED BY <2>1, <2>2, <2>4
<1>20. CASE FindTweetCell(c)
  <2>1. pc[c] = "a_scan" /\ activeUsers' = activeUsers
    BY <1>20 DEF FindTweetCell, shared
  <2>2. CASE v.pendingTweets[n] = EmptyStr
    <3>1. Goto(c, "a_put", l)
      BY <1>14, <1>19, <1>20, <2>1, <2>2 DEF FindTweetCell
    <3>2. pc'[c] = "a_put" /\ local'[c] = l /\ request' = request
      BY <1>2, <3>1
    <3>3. TweetDone(c, b)'
      BY <1>5, <1>14, <1>19, <2>1, <2>2, <3>2 DEF TweetDone
    <3> QED BY <3>2, <3>3 DEF Waiting
  <2>3. CASE v.pendingTweets[n] # EmptyStr /\ n + 1 = MAX_TWEET_QUEUE
    <3>1. NextUser(c)
      BY <1>14, <1>19, <1>20, <2>1, <2>3 DEF FindTweetCell
    <3>2. QueueLength(v) = MAX_TWEET_QUEUE
      <4>1. \A j \in 0 .. MAX_TWEET_QUEUE - 1 : v.pendingTweets[j] # EmptyStr
        BY <1>1, <1>19, <2>1, <2>3, SMTT(40)
      <4> QED BY <1>1, <4>1, QueueLengthIs
    <3>3. New(u) = v
      BY <1>19, <2>1, <3>2 DEF WithTweet
    <3> QED BY <1>7, <1>14, <1>19, <2>1, <3>1, <3>3
  <2>4. CASE v.pendingTweets[n] # EmptyStr /\ n + 1 # MAX_TWEET_QUEUE
    <3>1. Goto(c, "a_scan", [l EXCEPT !.cell = @ + 1])
      BY <1>14, <1>19, <1>20, <2>1, <2>4 DEF FindTweetCell
    <3>2. /\ pc'[c] = "a_scan" /\ request' = request /\ local'[c].userIdx = u /\ local'[c].cell = n + 1
          /\ local'[c].item = l.item
      BY <1>1, <1>2, <3>1, SMTT(40) DEF Locals
    <3>3. \A j \in 0 .. (n + 1) - 1 : v.pendingTweets[j] # EmptyStr
      BY <1>1, <1>19, <2>1, <2>4, SMTT(40)
    <3>4. TweetDone(c, b)'
      <4>1. /\ \A i \in UserIdx : activeUsers'[i] = IF i < u THEN New(i) ELSE b[i]
            /\ Wants(v, tags)
            /\ l.item.to = v.username /\ l.item.from = NameOf[c] /\ l.item.text = r.text
            /\ l.item.tag = OriginHashtag(v, tags)
        BY <1>5, <1>14, <1>19, <2>1
      <4> HIDE DEF l
      <4> QED BY <3>2, <3>3, <4>1 DEF TweetDone
    <3> QED BY <3>2, <3>4 DEF Waiting
  <2> QED BY <2>2, <2>3, <2>4
<1>21. CASE PutTweet(c)
  <2>1. pc[c] = "a_put" /\ NextUser(c) /\ WriteTweetCell(u, n, l.item)
    BY <1>21 DEF PutTweet
  <2>2. activeUsers[u] = v /\ v.pendingTweets[n] = EmptyStr /\ n \in PendingTweetIdx /\ pc[c] \in TweetSteps
    BY <1>14, <1>19, <2>1
  <2>3. QueueLength(v) = n /\ n # MAX_TWEET_QUEUE
    <3>1. n \in 0 .. MAX_TWEET_QUEUE /\ n # MAX_TWEET_QUEUE
      BY <1>1, <2>2
    <3>2. \A j \in 0 .. n - 1 : v.pendingTweets[j] # EmptyStr
      BY <1>19, <2>1
    <3> HIDE DEF v, n
    <3> QED BY <2>2, <3>1, <3>2, QueueLengthIs
  <2> DEFINE w == [v EXCEPT !.pendingTweets = [@ EXCEPT ![n] = l.item]]
  <2>4. New(u) = w
    BY <1>19, <2>1, <2>3 DEF WithTweet
  <2>5. WriteUser(u, w)
    BY <2>1, <2>2 DEF WriteTweetCell
  <2> HIDE DEF w, v, u, n, New
  <2>6. /\ activeUsers'[u] = w
        /\ \A i \in UserIdx \ {u} : activeUsers'[i] = activeUsers[i]
    BY <1>1, <2>5, UserWritten
  <2> QED BY <1>6, <2>1, <2>2, <2>4, <2>6
<1> QED BY <1>8, <1>9, <1>10, <1>11, <1>12, <1>13, <1>15, <1>16, <1>17, <1>18, <1>20, <1>21 DEF Tweet

-----------------------------------------------------------------------------
(* Nothing overlaps the handler of c, which found the table as before has  *)
(* it.                                                                     *)
Done(c, b) ==
  /\ ValidateDone(c, b)
  /\ TweetDone(c, b)
  /\ SubscriptionDone(c, b)
  /\ TimelineDone(c, b)
  /\ ExitDone(c, b)

RunsAlone(c) ==
  /\ \A d \in Clients \ {c} : ~ Busy(d)
  /\ LatestSound(c)
  /\ \E b \in Tables : before = <<b>> /\ Done(c, b)

AtomicInv ==
  /\ TypeInv
  /\ \A c \in Clients : Busy(c) /\ before # <<>> => RunsAlone(c)

AtomicStep ==
  \A c \in Clients :
    Busy(c) /\ ~ Busy(c)' /\ before # <<>> => activeUsers' = Handled(c, before[1])

(* A handler has done nothing at the steps of another.                     *)
Apart ==
  \A c \in Clients, b \in Tables :
    /\ pc[c] \notin ValidateSteps => ValidateDone(c, b)
    /\ pc[c] \notin TweetSteps => TweetDone(c, b)
    /\ pc[c] \notin SubscriptionSteps => SubscriptionDone(c, b)
    /\ pc[c] \notin TimelineSteps => TimelineDone(c, b)
    /\ pc[c] \notin ExitSteps => ExitDone(c, b)

LEMMA HandlersApart == Apart
<1> SUFFICES ASSUME NEW c \in Clients, NEW b \in Tables
             PROVE  /\ pc[c] \notin ValidateSteps => ValidateDone(c, b)
                    /\ pc[c] \notin TweetSteps => TweetDone(c, b)
                    /\ pc[c] \notin SubscriptionSteps => SubscriptionDone(c, b)
                    /\ pc[c] \notin TimelineSteps => TimelineDone(c, b)
                    /\ pc[c] \notin ExitSteps => ExitDone(c, b)
  BY DEF Apart
<1>1. pc[c] \notin ValidateSteps => ValidateDone(c, b)
  BY DEF ValidateSteps, ValidateDone
<1>2. pc[c] \notin TweetSteps => TweetDone(c, b)
  BY DEF TweetDone
<1>3. pc[c] \notin SubscriptionSteps => SubscriptionDone(c, b)
  BY DEF SubscriptionSteps, SubscriptionDone
<1>4. pc[c] \notin TimelineSteps => TimelineDone(c, b)
  BY DEF TimelineDone
<1>5. pc[c] \notin ExitSteps => ExitDone(c, b)
  BY DEF ExitSteps, ExitDone
<1> QED BY <1>1, <1>2, <1>3, <1>4, <1>5

LEMMA StayApart == Apart'
BY HandlersApart, PTL

(* A step of a handler, from what the lemmas above say of it.              *)
LEMMA AtomicMove ==
  ASSUME AtomicInv, TypeInv', NEW c \in Clients, NEW S, NEW done, Moves(c, S, done),
         S \cap Waiting = {}, done \subseteq Waiting,
         LatestSound(c) /\ pc'[c] \in S => LatestSound(c)',
         \A b \in Tables :
           /\ LatestSound(c)
           /\ pc[c] \in Waiting => activeUsers = b
           /\ pc[c] \notin Waiting => Done(c, b)
           => /\ pc'[c] \in S => Done(c, b)'
              /\ pc[c] \notin Waiting /\ pc'[c] \in Waiting => activeUsers' = Handled(c, b)
  PROVE  AtomicInv' /\ AtomicStep
<1>1. /\ Control /\ activeUsers \in Tables /\ pc'[c] \in S \cup done
      /\ \A d \in Clients \ {c} : pc'[d] = pc[d]
  BY OthersStay, MovesTo DEF AtomicInv, TypeInv, Tables
<1>2. ASSUME pc[c] \notin Waiting, before # <<>>
      PROVE  /\ \A d \in Clients \ {c} : pc'[d] \in Waiting
             /\ \E b \in Tables :
                  /\ before = <<b>>
                  /\ pc'[c] \in S => Done(c, b)' /\ LatestSound(c)'
                  /\ pc'[c] \in Waiting => activeUsers' = Handled(c, b)
  BY <1>1, <1>2 DEF AtomicInv, RunsAlone, Busy
<1>3. AtomicStep
  <2> SUFFICES ASSUME NEW d \in Clients, Busy(d), ~ Busy(d)', before # <<>>
               PROVE  activeUsers' = Handled(d, before[1])
    BY DEF AtomicStep
  <2>1. d = c
    BY <1>1 DEF Busy
  <2>2. pc[c] \notin Waiting /\ pc'[c] \in Waiting
    BY <2>1 DEF Busy
  <2> QED BY <1>2, <2>1, <2>2
<1>4. ASSUME NEW d \in Clients, Busy(d)', before' # <<>>
      PROVE  RunsAlone(d)'
  <2>1. CASE pc[c] \in Waiting /\ \E r, first : first \in S /\ Begin(c, r, first)
    <3>1. PICK r, first : first \in S /\ Begin(c, r, first)
      BY <2>1
    <3>2. /\ \A e \in Clients : pc[e] \in Waiting
          /\ before' = <<activeUsers>> /\ pc'[c] \in S
      BY <1>1, <1>4, <3>1 DEF Begin, Busy, Control
    <3>3. /\ d = c /\ \A e \in Clients \ {c} : pc'[e] \in Waiting
      BY <1>1, <1>4, <3>2 DEF Busy
    <3>4. LatestSound(c)
      BY <2>1, Regions DEF LatestSound
    <3>5. PICK b \in Tables : b = activeUsers
      BY <1>1
    <3>6. Done(c, b)' /\ LatestSound(c)' /\ before' = <<b>>
      BY <2>1, <3>2, <3>4, <3>5
    <3> QED BY <3>3, <3>6 DEF RunsAlone, Busy
  <2>2. CASE pc[c] \in S /\ \E there \in S : \E l : Goto(c, there, l)
    <3>1. before' = before /\ pc'[c] \in S /\ pc[c] \notin Waiting
      BY <2>2 DEF Goto, AtomicInv, TypeInv, Control
    <3>2. /\ \A e \in Clients \ {c} : pc'[e] \in Waiting
          /\ LatestSound(c)' /\ \E b \in Tables : before' = <<b>> /\ Done(c, b)'
      BY <1>2, <1>4, <3>1
    <3>3. d = c
      BY <1>4, <3>2 DEF Busy
    <3> QED BY <3>2, <3>3 DEF RunsAlone, Busy
  <2>3. CASE pc[c] \in S /\ \E state \in done : Reply(c, state)
    BY <1>4, <2>3 DEF Reply
  <2> QED BY <2>1, <2>2, <2>3 DEF Moves
<1> QED BY <1>3, <1>4 DEF AtomicInv

LEMMA AtomicInvStep ==
  ASSUME AtomicInv, NEW c \in Clients,
         Validate(c) \/ Tweet(c) \/ Subscription(c) \/ Timeline(c) \/ Exit(c)
  PROVE  AtomicInv' /\ AtomicStep
<1>1. TypeInv /\ TypeInv' /\ Control
  BY TypeStep DEF AtomicInv, TypeInv
<1>2. Apart'
  BY StayApart
<1>3. ASSUME NEW S, pc'[c] \in S, S \cap TweetSteps = {}
      PROVE  LatestSound(c)'
  BY <1>3 DEF LatestSound
<1>4. CASE Validate(c)
  <2>1. Moves(c, ValidateSteps, {"ready", "refused", "unanswered"})
    BY <1>4, ValidateMoves
  <2>2. LatestSound(c) /\ pc'[c] \in ValidateSteps => LatestSound(c)'
    BY <1>3, Regions
  <2>3. ASSUME NEW b \in Tables, pc[c] \in Waiting => activeUsers = b, pc[c] \notin Waiting => Done(c, b)
        PROVE  /\ pc'[c] \in ValidateSteps => Done(c, b)'
               /\ pc[c] \notin Waiting /\ pc'[c] \in Waiting => activeUsers' = Handled(c, b)
    <3>1. /\ pc'[c] \in ValidateSteps => ValidateDone(c, b)'
          /\ pc[c] \notin Waiting /\ pc'[c] \in Waiting => activeUsers' = Handled(c, b)
      BY <1>1, <1>4, <2>3, ValidateAtomic DEF Done
    <3> QED BY <1>2, <3>1, Regions DEF Apart, Done
  <2> QED BY <1>1, <2>1, <2>2, <2>3, AtomicMove, Regions
<1>5. CASE Tweet(c)
  <2>1. Moves(c, TweetSteps, {"ready", "crashed"})
    BY <1>5, TweetMoves
  <2>2. LatestSound(c) /\ pc'[c] \in TweetSteps => LatestSound(c)'
    BY <1>1, <1>5, SoundTweetStep
  <2>3. ASSUME NEW b \in Tables, LatestSound(c), pc[c] \in Waiting => activeUsers = b,
               pc[c] \notin Waiting => Done(c, b)
        PROVE  /\ pc'[c] \in TweetSteps => Done(c, b)'
               /\ pc[c] \notin Waiting /\ pc'[c] \in Waiting => activeUsers' = Handled(c, b)
    <3>1. /\ pc'[c] \in TweetSteps => TweetDone(c, b)'
          /\ pc[c] \notin Waiting /\ pc'[c] \in Waiting => activeUsers' = Handled(c, b)
      BY <1>1, <1>5, <2>3, TweetAtomic DEF Done
    <3> QED BY <1>2, <3>1, Regions DEF Apart, Done
  <2> QED BY <1>1, <2>1, <2>2, <2>3, AtomicMove, Regions
<1>6. CASE Subscription(c)
  <2>1. Moves(c, SubscriptionSteps, {"ready"})
    BY <1>6, SubscriptionMoves
  <2>2. LatestSound(c) /\ pc'[c] \in SubscriptionSteps => LatestSound(c)'
    BY <1>3, Regions
  <2>3. ASSUME NEW b \in Tables, pc[c] \in Waiting => activeUsers = b, pc[c] \notin Waiting => Done(c, b)
        PROVE  /\ pc'[c] \in SubscriptionSteps => Done(c, b)'
               /\ pc[c] \notin Waiting /\ pc'[c] \in Waiting => activeUsers' = Handled(c, b)
    <3>1. /\ pc'[c] \in SubscriptionSteps => SubscriptionDone(c, b)'
          /\ pc[c] \notin Waiting /\ pc'[c] \in Waiting => activeUsers' = Handled(c, b)
      BY <1>1, <1>6, <2>3, SubscriptionAtomic DEF Done
    <3> QED BY <1>2, <3>1, Regions DEF Apart, Done
  <2> QED BY <1>1, <2>1, <2>2, <2>3, AtomicMove, Regions
<1>7. CASE Timeline(c)
  <2>1. Moves(c, TimelineSteps, {"ready"})
    BY <1>7, TimelineMoves
  <2>2. LatestSound(c) /\ pc'[c] \in TimelineSteps => LatestSound(c)'
    BY <1>3, Regions
  <2>3. ASSUME NEW b \in Tables, pc[c] \in Waiting => activeUsers = b, pc[c] \notin Waiting => Done(c, b)
        PROVE  /\ pc'[c] \in TimelineSteps => Done(c, b)'
               /\ pc[c] \notin Waiting /\ pc'[c] \in Waiting => activeUsers' = Handled(c, b)
    <3>1. /\ pc'[c] \in TimelineSteps => TimelineDone(c, b)'
          /\ pc[c] \notin Waiting /\ pc'[c] \in Waiting => activeUsers' = Handled(c, b)
      BY <1>1, <1>7, <2>3, TimelineAtomic DEF Done
    <3> QED BY <1>2, <3>1, Regions DEF Apart, Done
  <2> QED BY <1>1, <2>1, <2>2, <2>3, AtomicMove, Regions
<1>8. CASE Exit(c)
  <2>1. Moves(c, ExitSteps, {"left"})
    BY <1>8, ExitMoves
  <2>2. LatestSound(c) /\ pc'[c] \in ExitSteps => LatestSound(c)'
    BY <1>3, Regions
  <2>3. ASSUME NEW b \in Tables, pc[c] \in Waiting => activeUsers = b, pc[c] \notin Waiting => Done(c, b)
        PROVE  /\ pc'[c] \in ExitSteps => Done(c, b)'
               /\ pc[c] \notin Waiting /\ pc'[c] \in Waiting => activeUsers' = Handled(c, b)
    <3>1. /\ pc'[c] \in ExitSteps => ExitDone(c, b)'
          /\ pc[c] \notin Waiting /\ pc'[c] \in Waiting => activeUsers' = Handled(c, b)
      BY <1>1, <1>8, <2>3, ExitAtomic DEF Done
    <3> QED BY <1>2, <3>1, Regions DEF Apart, Done
  <2> QED BY <1>1, <2>1, <2>2, <2>3, AtomicMove, Regions
<1> QED BY <1>4, <1>5, <1>6, <1>7, <1>8

LEMMA AtomicStutter == AtomicInv /\ UNCHANGED vars => AtomicInv'
<1> SUFFICES ASSUME AtomicInv, UNCHANGED vars PROVE AtomicInv'
  OBVIOUS
<1>1. /\ UNCHANGED <<activeUsers, latestTweet, pc, request, clientUserIdx, local, sent, before>>
      /\ TypeInv'
  BY TypeStutter DEF AtomicInv, vars, shared, history
<1>2. ASSUME NEW c \in Clients, RunsAlone(c)
      PROVE  RunsAlone(c)'
  <2>1. ASSUME NEW b, Done(c, b)
        PROVE  Done(c, b)'
    BY <1>1, <2>1 DEF Done, ValidateDone, TweetDone, SubscriptionDone, TimelineDone, ExitDone, Cell
  <2>2. LatestSound(c)'
    BY <1>1, <1>2 DEF RunsAlone, LatestSound, IsLast, Written, Counted
  <2> QED BY <1>1, <1>2, <2>1, <2>2 DEF RunsAlone, Busy
<1> QED BY <1>1, <1>2 DEF AtomicInv, Busy

(* A handler that no other overlaps (handle_client_response,               *)
(* ttweetsrv.c:259) does to activeUsers in its many accesses what the      *)
(* operator of UserTable does at once.  So TweetServer, whose handlers are *)
(* atomic, has the table right as long as the children take turns.         *)
THEOREM AloneIsAsOne == Spec => AloneIsAtomic
<1>1. Init => AtomicInv
  BY TypeInit DEF Init, AtomicInv
<1>2. AtomicInv /\ [Next]_vars => AtomicInv' /\ [AtomicStep]_vars
  BY AtomicInvStep, AtomicStutter DEF Next
<1>3. Spec => [][AtomicStep]_vars
  BY <1>1, <1>2, PTL DEF Spec
<1> QED BY <1>3, PTL DEF AloneIsAtomic, AtomicStep

-----------------------------------------------------------------------------
(* Races for a name                                                        *)

(* What a child that registers has seen of an entry that stays.            *)
SeenSettled(c, i) ==
  /\ activeUsers[i].isOccupied
  /\ pc[c] \in {"v_occupied", "v_username"} /\ i < local[c].userIdx =>
       activeUsers[i].username # NameOf[c]
  /\ pc[c] \in {"v_take", "v_occupy", "v_write_username"} =>
       activeUsers[i].username # NameOf[c]
  /\ pc[c] \in {"v_occupy", "v_write_username"} => local[c].userIdx # i

SettledInv ==
  /\ TypeInv
  /\ settled \in [Clients -> SUBSET UserIdx]
  /\ \A c \in Clients : \A i \in settled[c] : SeenSettled(c, i)

(* A step of the child itself.                                             *)
LEMMA SeenOwnStep ==
  ASSUME TypeInv, NEW c \in Clients, Validate(c), NEW i \in UserIdx, Stays(i),
         pc[c] \in ValidateSteps => SeenSettled(c, i)
  PROVE  SeenSettled(c, i)'
<1> DEFINE l == local[c]
<1>1. /\ activeUsers[i].isOccupied /\ activeUsers'[i].isOccupied
      /\ activeUsers'[i].username = activeUsers[i].username
  BY DEF Stays
<1>2. /\ Control /\ l \in Locals /\ l.userIdx \in Nat /\ i \in 0 .. MAX_CONC_CONN - 1
      /\ MAX_CONC_CONN \in Nat
  BY Types, UserTableAssumption DEF Locals, UserIdx
<1>3. ASSUME NEW there, NEW m, Goto(c, there, m)
      PROVE  pc'[c] = there /\ local'[c] = m
  BY <1>3, GotoMoves
<1>4. ASSUME NEW state \in Waiting, Reply(c, state)
      PROVE  SeenSettled(c, i)'
  <2>1. pc'[c] \notin ValidateSteps
    BY <1>4, ReplyMoves, Regions
  <2> QED BY <1>1, <2>1 DEF SeenSettled, ValidateSteps
<1>5. {"ready", "refused", "unanswered"} \subseteq Waiting
  BY DEF Waiting
<1>6. ASSUME pc[c] \in {"v_occupied", "v_username"}, NEW m \in Locals, NextName(c, m),
             m.userIdx = l.userIdx, i = l.userIdx => activeUsers[i].username # NameOf[c]
      PROVE  SeenSettled(c, i)'
  <2>1. i < l.userIdx => activeUsers[i].username # NameOf[c]
    BY <1>6 DEF SeenSettled, ValidateSteps
  <2>2. i <= l.userIdx => activeUsers[i].username # NameOf[c]
    BY <1>2, <1>6, <2>1
  <2>3. CASE Goto(c, "v_occupied", [m EXCEPT !.userIdx = @ + 1])
    <3> DEFINE n == [m EXCEPT !.userIdx = @ + 1]
    <3>1. n.userIdx = l.userIdx + 1
      BY <1>6 DEF Locals
    <3> HIDE DEF n
    <3>2. pc'[c] = "v_occupied" /\ local'[c].userIdx = l.userIdx + 1
      BY <1>3, <2>3, <3>1 DEF n
    <3> QED BY <1>1, <1>2, <2>2, <3>2 DEF SeenSettled
  <2>4. CASE l.userIdx + 1 = MAX_CONC_CONN /\ Goto(c, "v_take", NoLocals)
    <3>1. pc'[c] = "v_take" /\ activeUsers[i].username # NameOf[c]
      BY <1>2, <1>3, <2>2, <2>4
    <3> QED BY <1>1, <3>1 DEF SeenSettled
  <2>5. CASE Reply(c, "refused")
    BY <1>4, <1>5, <2>5
  <2> QED BY <1>6, <2>3, <2>4, <2>5 DEF NextName
<1>7. CASE BeginValidate(c)
  <2>1. pc[c] \in FirstSteps /\ pc'[c] = "v_occupied" /\ local' = local
    BY <1>2, <1>7 DEF BeginValidate, Begin, FirstSteps, Waiting, Control
  <2>2. ~ (i < local'[c].userIdx)
    BY <1>2, <2>1, Types, StartConstants DEF LocalsAt
  <2> QED BY <1>1, <2>1, <2>2 DEF SeenSettled
<1>8. CASE CheckOccupied(c)
  <2>1. CASE activeUsers[l.userIdx].isOccupied
    <3>1. /\ pc[c] = "v_occupied" /\ pc'[c] = "v_username" /\ local'[c] = l
      BY <1>3, <1>8, <2>1 DEF CheckOccupied
    <3> QED BY <1>1, <3>1 DEF SeenSettled, ValidateSteps
  <2>2. CASE ~ activeUsers[l.userIdx].isOccupied
    <3> DEFINE m == [l EXCEPT !.isSpaceAvailable = TRUE]
    <3>1. m \in Locals /\ m.userIdx = l.userIdx
      BY <1>2 DEF Locals
    <3>2. pc[c] = "v_occupied" /\ NextName(c, m)
      BY <1>8, <2>2 DEF CheckOccupied
    <3> HIDE DEF m
    <3> QED BY <1>1, <1>6, <2>2, <3>1, <3>2
  <2> QED BY <2>1, <2>2
<1>9. CASE CheckUsername(c)
  <2>1. CASE activeUsers[l.userIdx].username = NameOf[c]
    BY <1>4, <1>5, <1>9, <2>1 DEF CheckUsername
  <2>2. CASE activeUsers[l.userIdx].username # NameOf[c]
    <3>1. pc[c] = "v_username" /\ NextName(c, l)
      BY <1>9, <2>2 DEF CheckUsername
    <3> QED BY <1>2, <1>6, <2>2, <3>1
  <2> QED BY <2>1, <2>2
<1>10. CASE TakeEntry(c)
  <2>1. pc[c] = "v_take" /\ activeUsers[i].username # NameOf[c]
    BY <1>10 DEF TakeEntry, SeenSettled, ValidateSteps
  <2>2. CASE ~ activeUsers[l.userIdx].isOccupied /\ Goto(c, "v_occupy", l)
    <3>1. pc'[c] = "v_occupy" /\ local'[c].userIdx # i
      BY <1>1, <1>3, <2>2
    <3> QED BY <1>1, <2>1, <3>1 DEF SeenSettled
  <2>3. CASE Goto(c, "v_take", [l EXCEPT !.userIdx = @ + 1])
    <3>1. pc'[c] = "v_take"
      BY <1>3, <2>3
    <3> QED BY <1>1, <2>1, <3>1 DEF SeenSettled
  <2> QED BY <1>4, <1>5, <1>10, <2>2, <2>3 DEF TakeEntry
<1>11. CASE Occupy(c)
  <2>1. pc[c] = "v_occupy" /\ pc'[c] = "v_write_username" /\ local'[c] = l
    BY <1>3, <1>11 DEF Occupy
  <2> QED BY <1>1, <2>1 DEF SeenSettled, ValidateSteps
<1>12. CASE WriteUsername(c)
  BY <1>4, <1>5, <1>12 DEF WriteUsername
<1> QED BY <1>7, <1>8, <1>9, <1>10, <1>11, <1>12 DEF Validate

LEMMA SettledStep ==
  ASSUME SettledInv, NEW c \in Clients, Watch,
         Validate(c) \/ Tweet(c) \/ Subscription(c) \/ Timeline(c) \/ Exit(c)
  PROVE  SettledInv'
<1>1. TypeInv /\ Control /\ TypeInv'
  BY TypeStep DEF SettledInv, TypeInv
<1>2. settled' \in [Clients -> SUBSET UserIdx]
  BY DEF Watch
<1>3. ASSUME NEW d \in Clients, NEW i \in settled'[d]
      PROVE  SeenSettled(d, i)'
  <2>1. /\ i \in UserIdx /\ request'[d].kind = "validate" /\ Stays(i)
        /\ request[d].kind = "validate" => i \in settled[d]
    BY <1>3 DEF Watch
  <2>2. CASE d # c
    <3>1. pc'[d] = pc[d] /\ request'[d] = request[d] /\ local'[d] = local[d]
      BY <1>1, <2>2, OthersStay, ValidateMoves, TweetMoves, SubscriptionMoves, TimelineMoves, ExitMoves
    <3>2. SeenSettled(d, i)
      BY <2>1, <3>1 DEF SettledInv
    <3> QED BY <2>1, <3>1, <3>2 DEF SeenSettled, Stays
  <2>3. CASE d = c /\ Validate(c)
    <3>1. pc[c] \in ValidateSteps => SeenSettled(c, i)
      BY <1>1, <2>1, <2>3 DEF SettledInv, Control, RequestAt
    <3> QED BY <1>1, <2>1, <2>3, <3>1, SeenOwnStep
  <2>4. CASE d = c /\ ~ Validate(c)
    <3>1. pc'[c] \notin ValidateSteps
      BY <1>1, <2>4, TweetMoves, SubscriptionMoves, TimelineMoves, ExitMoves, MovesTo, Regions
    <3> QED BY <2>1, <2>4, <3>1 DEF SeenSettled, Stays, ValidateSteps
  <2> QED BY <2>2, <2>3, <2>4
<1> QED BY <1>1, <1>2, <1>3 DEF SettledInv

(* The user that stays keeps its name and its entry to itself, of whatever *)
(* children that register, leave and tweet at the same time: a child that  *)
(* found a name free (ttweetsrv.c:312) and goes to take an entry for it    *)
(* (:329 to :332) takes neither from a user that was there all the while.  *)
THEOREM StayingIsSafe == RacesSpec => []SettledIsSafe
<1>1. RacesInit => SettledInv
  BY TypeInit DEF RacesInit, SettledInv
<1>2. SettledInv /\ [RacesNext]_raceVars => SettledInv'
  <2>1. SettledInv /\ RacesNext => SettledInv'
    BY SettledStep DEF RacesNext, Next
  <2>2. SettledInv /\ UNCHANGED raceVars => SettledInv'
    <3> SUFFICES ASSUME SettledInv, UNCHANGED raceVars PROVE SettledInv'
      OBVIOUS
    <3>1. UNCHANGED vars /\ UNCHANGED settled /\ TypeInv'
      BY TypeStutter DEF raceVars, SettledInv
    <3>2. UNCHANGED <<activeUsers, pc, local>>
      BY <3>1 DEF vars, shared
    <3> QED BY <3>1, <3>2 DEF SettledInv, SeenSettled
  <2> QED BY <2>1, <2>2
<1>3. SettledInv => SettledIsSafe
  BY DEF SettledInv, SeenSettled, SettledIsSafe
<1> QED BY <1>1, <1>2, <1>3, PTL DEF RacesSpec

-----------------------------------------------------------------------------
(* Races on latestTweet                                                    *)

(* Nobody has tweeted since the child of c began to handle its tweet.      *)
Undisturbed(c) == pc[c] \in TweetSteps /\ request[c].text \notin overlapped

(* The text that c has in hand, and those that others may have left.       *)
InHandOf(c) ==
  /\ request[c].text \in 1 .. Len(sent)
  /\ pc[c] \notin {"t_username", "t_text"} =>
       latestTweet.ttweetString \in overlapped \cup {request[c].text}
  /\ pc[c] \in {"a_tag", "a_scan", "a_put"} =>
       local[c].item.text \in overlapped \cup {request[c].text}

Together ==
  \A c, d \in Clients :
    c # d /\ pc[c] \in TweetSteps /\ pc[d] \in TweetSteps => request[c].text \in overlapped

(* What a child that is undisturbed has formatted.                         *)
Formed(c) ==
  LET item == local[c].item
  IN  /\ pc[c] \in AddSteps \ {"a_to", "a_from"} => item.from = NameOf[c]
      /\ pc[c] \in {"a_tag", "a_scan", "a_put"} => item.text = request[c].text
      /\ pc[c] \in {"a_scan", "a_put"} => Genuine(item)

Whole(item) == item = EmptyStr \/ item.text \in overlapped \/ Genuine(item)

AllWhole ==
  /\ \A i \in UserIdx, j \in PendingTweetIdx : Whole(Cell(i, j))
  /\ \A c \in Clients : \A k \in DOMAIN storedTweets[c] : Whole(storedTweets[c][k])

WholeInv ==
  /\ TypeInv
  /\ Together /\ AllWhole
  /\ \A c \in Clients : pc[c] \in TweetSteps => InHandOf(c)
  /\ \A c \in Clients : Undisturbed(c) => LatestSound(c) /\ Formed(c)

(* Of the children that tweet after a step, all but one did so before, and *)
(* when that one begins, every text in hand has been overlapped.           *)
LEMMA TweetsMeet ==
  ASSUME WholeInv, NEW c \in Clients, Watch,
         Validate(c) \/ Tweet(c) \/ Subscription(c) \/ Timeline(c) \/ Exit(c)
  PROVE  /\ overlapped \subseteq overlapped'
         /\ \A d \in Clients \ {c} : pc'[d] = pc[d] /\ local'[d] = local[d] /\ request'[d] = request[d]
         /\ pc'[c] \in TweetSteps =>
              /\ Tweet(c)
              /\ \/ \E tags \in TagLists : BeginTweet(c, tags)
                 \/ pc[c] \in TweetSteps /\ request'[c] = request[c] /\ UNCHANGED sent
         /\ \A d \in Clients : pc'[d] \in TweetSteps => request'[d].text \in 1 .. Len(sent')
         /\ Together'
<1>1. TypeInv /\ Control /\ TypeInv' /\ overlapped \subseteq overlapped'
  BY TypeStep DEF WholeInv, TypeInv, Watch
<1>2. \A d \in Clients \ {c} : pc'[d] = pc[d] /\ local'[d] = local[d] /\ request'[d] = request[d]
  BY <1>1, OthersStay, ValidateMoves, TweetMoves, SubscriptionMoves, TimelineMoves, ExitMoves
<1>3. ASSUME pc'[c] \in TweetSteps
      PROVE  /\ Tweet(c)
             /\ \/ \E tags \in TagLists : BeginTweet(c, tags)
                \/ pc[c] \in TweetSteps /\ request'[c] = request[c] /\ UNCHANGED sent
  <2>1. Tweet(c)
    BY <1>1, <1>3, ValidateMoves, SubscriptionMoves, TimelineMoves, ExitMoves, MovesTo, Regions
  <2>2. CASE ~ \E tags \in TagLists : BeginTweet(c, tags)
    <3>1. UNCHANGED sent
      BY <1>1, <2>1, <2>2, TweetLeaves
    <3>2. \/ pc[c] \in Waiting /\ \E r, first : Begin(c, r, first)
          \/ pc[c] \in TweetSteps /\ request'[c] = request[c]
          \/ \E state \in {"ready", "crashed"} : Reply(c, state)
      BY <2>1, TweetMoves DEF Moves, Goto
    <3>3. ~ \E state \in {"ready", "crashed"} : Reply(c, state)
      BY <1>1, <1>3, ReplyMoves, Regions
    <3>4. pc[c] \notin Waiting
      BY <2>1, <2>2 DEF Tweet, StoreUsername, StoreText, StoreCount, ClearHashtag, MoreHashtags,
         StoreHashtag, UpdateOccupied, UpdateSubscribedAll, MoreToMatch, Match, FormatTo, FormatFrom,
         FormatText, FormatTag, FindTweetCell, PutTweet, Waiting
    <3> QED BY <2>1, <3>1, <3>2, <3>3, <3>4
  <2> QED BY <2>1, <2>2
<1>4. /\ Len(sent) \in Nat /\ Len(sent') \in Nat /\ Len(sent) <= Len(sent')
      /\ \A tags \in TagLists : BeginTweet(c, tags) => Len(sent') = Len(sent) + 1
  <2>1. ASSUME NEW tags \in TagLists, BeginTweet(c, tags)
        PROVE  Len(sent') = Len(sent) + 1
    <3> DEFINE rec == [from |-> NameOf[c], tags |-> tags]
    <3>1. sent' = Append(sent, rec)
      BY <2>1 DEF BeginTweet
    <3>2. sent \in Seq([from: Usernames, tags: Seq(Hashtags)])
            /\ rec \in [from: Usernames, tags: Seq(Hashtags)]
      BY <1>1, ChildStepsAssumption DEF TypeInv, HistoryType
    <3> HIDE DEF rec
    <3> QED BY <3>1, <3>2
  <2>2. Len(sent) \in Nat /\ Len(sent') \in Nat
    BY <1>1 DEF TypeInv, HistoryType
  <2>3. (\E tags \in TagLists : BeginTweet(c, tags)) \/ UNCHANGED sent
    BY <1>1, ValidateLeaves, TweetLeaves, SubscriptionLeaves, TimelineLeaves, ExitLeaves DEF history
  <2> QED BY <2>1, <2>2, <2>3
<1>5. ASSUME NEW tags \in TagLists, BeginTweet(c, tags)
      PROVE  request'[c].text = Len(sent) + 1
  BY <1>1, <1>5 DEF BeginTweet, Begin, Control
<1>6. ASSUME NEW d \in Clients, pc'[d] \in TweetSteps
      PROVE  request'[d].text \in 1 .. Len(sent')
  <2>1. pc[d] \in TweetSteps => request[d].text \in 1 .. Len(sent)
    BY DEF WholeInv, InHandOf
  <2> QED BY <1>2, <1>3, <1>4, <1>5, <1>6, <2>1
<1>7. ASSUME NEW d \in Clients, NEW e \in Clients, d # e,
             pc'[d] \in TweetSteps, pc'[e] \in TweetSteps
      PROVE  request'[d].text \in overlapped'
  <2>1. CASE pc[d] \in TweetSteps /\ pc[e] \in TweetSteps /\ request'[d] = request[d]
    BY <1>1, <1>7, <2>1 DEF WholeInv, Together
  <2>2. CASE request'[d].text # request'[e].text
    <3>1. request'[d].kind = "tweet" /\ request'[e].kind = "tweet"
      BY <1>1, <1>7 DEF TypeInv, Control, RequestAt
    <3>2. request'[d].text \in InHand' /\ request'[e].text \in InHand'
      BY <3>1 DEF InHand
    <3> QED BY <2>2, <3>2 DEF Watch
  <2>3. ASSUME NEW tags \in TagLists, BeginTweet(c, tags), d = c \/ e = c
        PROVE  request'[d].text # request'[e].text
    <3>1. \A a \in Clients \ {c} : pc'[a] \in TweetSteps => request'[a].text \in 1 .. Len(sent)
      BY <1>2 DEF WholeInv, InHandOf
    <3> QED BY <1>4, <1>5, <1>7, <2>3, <3>1
  <2> QED BY <1>2, <1>3, <1>7, <2>1, <2>2, <2>3
<1> QED BY <1>1, <1>2, <1>3, <1>6, <1>7 DEF Together

(* A child that is undisturbed after a step was so before, or begins.      *)
LEMMA UndisturbedStep ==
  ASSUME WholeInv, NEW c \in Clients, NEW d \in Clients, Watch, Undisturbed(d)',
         Validate(c) \/ Tweet(c) \/ Subscription(c) \/ Timeline(c) \/ Exit(c)
  PROVE  /\ d # c => Undisturbed(d) /\ UNCHANGED <<latestTweet, sent>>
         /\ d = c => Tweet(c) /\ (pc[c] \in TweetSteps => Undisturbed(c))
<1>1. TypeInv /\ Control
  BY DEF WholeInv, TypeInv
<1>2. CASE d # c
  <2>1. Undisturbed(d)
    BY <1>2, TweetsMeet DEF Undisturbed
  <2>2. ~ Tweet(c)
    <3>1. SUFFICES ASSUME Tweet(c) PROVE FALSE
      OBVIOUS
    <3>2. pc[c] \notin TweetSteps
      BY <1>2, <2>1 DEF WholeInv, Together, Undisturbed
    <3>3. pc'[c] \notin TweetSteps
      BY <1>2, TweetsMeet DEF Together, Undisturbed
    <3>4. Moves(c, TweetSteps, {"ready", "crashed"})
      BY <3>1, TweetMoves
    <3> QED BY <1>1, <3>2, <3>3, <3>4 DEF Moves, Begin, Control
  <2> QED BY <1>1, <1>2, <2>1, <2>2, ValidateLeaves, SubscriptionLeaves, TimelineLeaves, ExitLeaves
          DEF history
<1>3. CASE d = c
  <2>1. pc'[c] \in TweetSteps /\ request'[c].text \notin overlapped'
    BY <1>3 DEF Undisturbed
  <2>2. Tweet(c)
    BY <2>1, TweetsMeet
  <2>3. ASSUME pc[c] \in TweetSteps, NEW tags \in TagLists, BeginTweet(c, tags) PROVE FALSE
    BY <2>3 DEF BeginTweet, TweetSteps, StoreSteps, UpdateSteps, AddSteps
  <2> QED BY <1>3, <2>1, <2>2, <2>3, TweetsMeet DEF Undisturbed
<1> QED BY <1>2, <1>3

(* The steps that lead to one of AddSteps.                                 *)
LEMMA OnlyFormats ==
  ASSUME TypeInv, NEW c \in Clients, Tweet(c), pc'[c] \in AddSteps
  PROVE  \/ UpdateSubscribedAll(c) /\ Goto(c, "a_to", local[c])
         \/ Match(c) /\ Goto(c, "a_to", local[c])
         \/ FormatTo(c) \/ FormatFrom(c) \/ FormatText(c) \/ FormatTag(c) \/ FindTweetCell(c)
<1>1. ASSUME NEW p, NEW m, Goto(c, p, m), p \notin AddSteps
      PROVE  FALSE
  BY <1>1, GotoMoves
<1>2. ASSUME NEW state \in Waiting, Reply(c, state)
      PROVE  FALSE
  BY <1>2, ReplyMoves, Regions DEF TweetSteps
<1>3. "ready" \in Waiting /\ "crashed" \in Waiting
  BY DEF Waiting
<1>4. ~ NextUser(c)
  BY <1>1, <1>2, <1>3 DEF NextUser, AddSteps
<1>5. ~ \E tags \in TagLists : BeginTweet(c, tags)
  BY Types DEF BeginTweet, Begin, AddSteps
<1>6. ~ (StoreUsername(c) \/ StoreText(c) \/ StoreCount(c) \/ ClearHashtag(c) \/ MoreHashtags(c))
  BY <1>1 DEF StoreUsername, StoreText, StoreCount, ClearHashtag, MoreHashtags, AddSteps
<1>7. ~ StoreHashtag(c)
  BY <1>1, <1>2, <1>3 DEF StoreHashtag, AddSteps
<1>8. ~ UpdateOccupied(c) /\ ~ MoreToMatch(c) /\ ~ PutTweet(c)
  BY <1>1, <1>4 DEF UpdateOccupied, MoreToMatch, PutTweet, AddSteps
<1>9. UpdateSubscribedAll(c) \/ Match(c) => Goto(c, "a_to", local[c])
  BY <1>1, <1>4 DEF UpdateSubscribedAll, Match, AddSteps
<1> QED BY <1>5, <1>6, <1>7, <1>8, <1>9 DEF Tweet

LEMMA FormedStep ==
  ASSUME TypeInv, NEW c \in Clients, Tweet(c), pc'[c] \in AddSteps,
         pc[c] \in TweetSteps => LatestSound(c) /\ Formed(c)
  PROVE  Formed(c)'
<1> DEFINE l == local[c]
<1>1. /\ Control /\ LocalsAt(pc[c], l) /\ l \in Locals /\ l.item \in Formatted
      /\ RequestAt(pc[c], request[c])
  BY Types DEF Locals
<1>2. ~ \E tags \in TagLists : BeginTweet(c, tags)
  BY <1>1 DEF BeginTweet, Begin, Control, AddSteps
<1>3. ~ NextUser(c)
  BY GotoMoves, ReplyMoves DEF NextUser, AddSteps
<1>4. UNCHANGED sent
  BY <1>2, TweetLeaves
<1>5. ASSUME NEW p, NEW m, Goto(c, p, m)
      PROVE  pc'[c] = p /\ local'[c] = m /\ request' = request
  BY <1>5, GotoMoves
<1>6. CASE Goto(c, "a_to", l) \/ FormatTo(c)
  <2>1. pc'[c] \in {"a_to", "a_from"}
    BY <1>5, <1>6 DEF FormatTo
  <2> QED BY <2>1 DEF Formed
<1>7. CASE FormatFrom(c)
  <2> DEFINE m == [l EXCEPT !.item.from = latestTweet.username]
  <2>1. pc[c] = "a_from" /\ pc'[c] = "a_text" /\ local'[c] = m
    BY <1>5, <1>7 DEF FormatFrom
  <2>2. m.item.from = latestTweet.username
    BY <1>1 DEF Locals, Formatted
  <2>3. latestTweet.username = NameOf[c]
    BY <2>1 DEF LatestSound, Written, TweetSteps, AddSteps
  <2> HIDE DEF m
  <2> QED BY <2>1, <2>2, <2>3 DEF Formed
<1>8. CASE FormatText(c)
  <2> DEFINE m == [l EXCEPT !.item.text = latestTweet.ttweetString]
  <2>1. pc[c] = "a_text" /\ pc'[c] = "a_tag" /\ local'[c] = m /\ request' = request
    BY <1>5, <1>8 DEF FormatText
  <2>2. m.item.from = l.item.from /\ m.item.text = latestTweet.ttweetString
    BY <1>1 DEF Locals, Formatted
  <2>3. pc[c] \in AddSteps /\ pc[c] \in TweetSteps
    BY <2>1 DEF AddSteps, TweetSteps
  <2>4. latestTweet.ttweetString = request[c].text
    BY <2>1, <2>3 DEF LatestSound, Written
  <2> HIDE DEF m
  <2> QED BY <2>1, <2>2, <2>3, <2>4 DEF Formed
<1>9. CASE FormatTag(c)
  <2> DEFINE h == latestTweet.hashtags[l.hashtagIdx]
             m == [l EXCEPT !.item.tag = h, !.cell = 0]
             tags == request[c].tags
  <2>1. pc[c] = "a_tag" /\ pc'[c] = "a_scan" /\ local'[c] = m /\ request' = request
    BY <1>5, <1>9 DEF FormatTag
  <2>2. m.item.from = l.item.from /\ m.item.text = l.item.text /\ m.item.tag = h
    BY <1>1 DEF Locals, Formatted
  <2>3. pc[c] \in TweetSteps /\ pc[c] \in AddSteps /\ pc[c] \in HashtagSteps
    BY <2>1 DEF TweetSteps, AddSteps, HashtagSteps
  <2>4. IsLast(c) /\ Written(c) /\ Counted(c) /\ Formed(c)
    BY <2>3 DEF LatestSound
  <2>5. l.item.from = NameOf[c] /\ l.item.text = request[c].text
    BY <2>1, <2>3, <2>4 DEF Formed
  <2>6. l.hashtagIdx \in HashtagIdx /\ l.hashtagIdx \in Nat /\ tags \in Seq(Hashtags)
    BY <1>1, <2>3, StartConstants DEF LocalsAt, Locals, HashtagIdx, RequestAt
  <2>7. h = TagOf(l.hashtagIdx, tags) /\ (l.hashtagIdx = 0 \/ l.hashtagIdx < Len(tags))
    BY <2>1, <2>3, <2>4, <2>6 DEF Written, Counted
  <2>8. /\ request[c].text \in DOMAIN sent /\ sent[request[c].text].from = NameOf[c]
        /\ sent[request[c].text].tags = tags
    <3>1. sent \in Seq([from: Usernames, tags: Seq(Hashtags)])
      BY DEF TypeInv, HistoryType
    <3> QED BY <2>4, <3>1 DEF IsLast
  <2> HIDE DEF m, h
  <2>9. IF tags = <<>> THEN h = EmptyStr ELSE h \in Range(tags)
    <3>1. CASE l.hashtagIdx < Len(tags)
      <4>1. l.hashtagIdx + 1 \in DOMAIN tags /\ tags # <<>> /\ h = tags[l.hashtagIdx + 1]
        BY <2>6, <2>7, <3>1 DEF TagOf
      <4> QED BY <4>1 DEF Range
    <3>2. CASE ~ (l.hashtagIdx < Len(tags))
      BY <2>6, <2>7, <3>2 DEF TagOf
    <3> QED BY <3>1, <3>2
  <2>10. Genuine(m.item)
    BY <2>2, <2>5, <2>8, <2>9 DEF Genuine
  <2>11. Genuine(local[c].item)'
    BY <1>4, <2>1, <2>10 DEF Genuine
  <2> QED BY <2>1, <2>2, <2>5, <2>11 DEF Formed
<1>10. CASE FindTweetCell(c)
  <2>1. PICK p, m : /\ pc[c] = "a_scan" /\ p \in {"a_scan", "a_put"} /\ Goto(c, p, m)
                    /\ m = l \/ m = [l EXCEPT !.cell = @ + 1]
    BY <1>3, <1>10 DEF FindTweetCell
  <2>2. pc'[c] = p /\ local'[c] = m /\ request' = request /\ m.item = l.item
    BY <1>1, <1>5, <2>1 DEF Locals
  <2>3. pc[c] \in AddSteps /\ Formed(c)
    BY <2>1 DEF AddSteps, TweetSteps
  <2>4. l.item.from = NameOf[c] /\ l.item.text = request[c].text /\ Genuine(l.item)
    BY <2>1, <2>3 DEF Formed
  <2>5. Genuine(local[c].item)'
    BY <1>4, <2>2, <2>4 DEF Genuine
  <2> QED BY <2>2, <2>4, <2>5 DEF Formed
<1>11. ASSUME ~ Goto(c, "a_to", l),
              ~ (FormatTo(c) \/ FormatFrom(c) \/ FormatText(c) \/ FormatTag(c) \/ FindTweetCell(c))
       PROVE  FALSE
  BY <1>2, <1>11, OnlyFormats
<1> QED BY <1>6, <1>7, <1>8, <1>9, <1>10, <1>11

LEMMA OnlyStoreText ==
  ASSUME TypeInv, NEW c \in Clients,
         Validate(c) \/ Tweet(c) \/ Subscription(c) \/ Timeline(c) \/ Exit(c)
  PROVE  \/ latestTweet'.ttweetString = latestTweet.ttweetString
         \/ pc[c] = "t_text" /\ latestTweet'.ttweetString = request[c].text
<1>1. latestTweet \in [username: Usernames \cup {EmptyStr}, ttweetString: Nat,
                       hashtags: [HashtagIdx -> Hashtags \cup {EmptyStr}],
                       numValidHashtags: 0 .. MAX_HASHTAG_CNT]
  BY DEF TypeInv, LatestType
<1>2. CASE ~ Tweet(c)
  BY <1>2, ValidateLeaves, SubscriptionLeaves, TimelineLeaves, ExitLeaves
<1>3. CASE \E tags \in TagLists : BeginTweet(c, tags)
  BY <1>3 DEF BeginTweet, Begin, shared
<1>4. CASE StoreUsername(c) \/ StoreText(c) \/ StoreCount(c)
  BY <1>1, <1>4 DEF StoreUsername, StoreText, StoreCount, WriteLatest
<1>5. ASSUME NEW k, NEW h, WriteHashtag(k, h)
      PROVE  latestTweet'.ttweetString = latestTweet.ttweetString
  <2> DEFINE tags == [latestTweet.hashtags EXCEPT ![k] = h]
  <2>1. latestTweet' = [latestTweet EXCEPT !.hashtags = tags]
    BY <1>5 DEF WriteHashtag, WriteLatest
  <2> HIDE DEF tags
  <2> QED BY <1>1, <2>1
<1>6. CASE ClearHashtag(c) \/ MoreHashtags(c) \/ StoreHashtag(c)
  BY <1>5, <1>6 DEF ClearHashtag, MoreHashtags, StoreHashtag, OnlyReads, shared
<1>7. CASE \/ UpdateOccupied(c) \/ UpdateSubscribedAll(c) \/ MoreToMatch(c) \/ Match(c)
           \/ FormatTo(c) \/ FormatFrom(c) \/ FormatText(c) \/ FormatTag(c)
           \/ FindTweetCell(c) \/ PutTweet(c)
  BY <1>7 DEF UpdateOccupied, UpdateSubscribedAll, MoreToMatch, Match, FormatTo, FormatFrom,
              FormatText, FormatTag, FindTweetCell, PutTweet, OnlyReads, shared
<1> QED BY <1>2, <1>3, <1>4, <1>6, <1>7 DEF Tweet

LEMMA InHandStep ==
  ASSUME WholeInv, NEW c \in Clients, NEW d \in Clients, Watch, pc'[d] \in TweetSteps,
         Validate(c) \/ Tweet(c) \/ Subscription(c) \/ Timeline(c) \/ Exit(c)
  PROVE  InHandOf(d)'
<1>1. TypeInv /\ overlapped \subseteq overlapped' /\ request'[d].text \in 1 .. Len(sent')
  BY TweetsMeet DEF WholeInv
<1>2. CASE d # c
  <2>1. /\ pc'[d] = pc[d] /\ local'[d] = local[d] /\ request'[d] = request[d]
        /\ InHandOf(d) /\ pc[d] \in TweetSteps
    BY <1>2, TweetsMeet DEF WholeInv
  <2>2. pc[c] = "t_text" => request[c].text \in overlapped
    BY <1>2, <2>1 DEF WholeInv, Together, TweetSteps, StoreSteps
  <2> QED BY <1>1, <2>1, <2>2, OnlyStoreText DEF InHandOf
<1>3. CASE d = c /\ \E tags \in TagLists : BeginTweet(c, tags)
  <2>1. pc'[c] = "t_username"
    BY <1>1, <1>3, Types DEF BeginTweet, Begin
  <2> QED BY <1>1, <1>3, <2>1 DEF InHandOf
<1>4. CASE d = c /\ ~ \E tags \in TagLists : BeginTweet(c, tags)
  <2>1. Tweet(c) /\ pc[c] \in TweetSteps /\ request'[c] = request[c] /\ InHandOf(c)
    BY <1>4, TweetsMeet DEF WholeInv
  <2>2. pc[c] = "t_username" => pc'[c] = "t_text"
    <3>1. pc[c] = "t_username" => StoreUsername(c)
      BY <1>4, <2>1 DEF Tweet, StoreText, StoreCount, ClearHashtag, MoreHashtags,
         StoreHashtag, UpdateOccupied, UpdateSubscribedAll, MoreToMatch, Match, FormatTo, FormatFrom,
         FormatText, FormatTag, FindTweetCell, PutTweet
    <3> QED BY <1>1, <3>1, GotoMoves DEF StoreUsername
  <2>3. pc[c] = "t_text" => latestTweet'.ttweetString = request[c].text
    <3>1. pc[c] = "t_text" => StoreText(c)
      BY <1>4, <2>1 DEF Tweet, StoreUsername, StoreCount, ClearHashtag, MoreHashtags,
         StoreHashtag, UpdateOccupied, UpdateSubscribedAll, MoreToMatch, Match, FormatTo, FormatFrom,
         FormatText, FormatTag, FindTweetCell, PutTweet
    <3>2. latestTweet \in [username: Usernames \cup {EmptyStr}, ttweetString: Nat,
                           hashtags: [HashtagIdx -> Hashtags \cup {EmptyStr}],
                           numValidHashtags: 0 .. MAX_HASHTAG_CNT]
      BY <1>1 DEF TypeInv, LatestType
    <3> QED BY <3>1, <3>2 DEF StoreText, WriteLatest
  <2>4. pc'[c] \notin {"t_username", "t_text"} =>
          latestTweet'.ttweetString \in overlapped \cup {request[c].text}
    BY <1>1, <2>1, <2>2, <2>3, OnlyStoreText DEF InHandOf
  <2>5. ASSUME pc'[c] \in {"a_tag", "a_scan", "a_put"}
        PROVE  local'[c].item.text \in overlapped \cup {request[c].text}
    <3>1. local[c] \in Locals /\ local[c].item \in Formatted
      BY <1>1, Types DEF Locals
    <3>2. CASE FormatText(c)
      <4> DEFINE m == [local[c] EXCEPT !.item.text = latestTweet.ttweetString]
      <4>1. local'[c] = m /\ pc[c] = "a_text"
        BY <1>1, <3>2, GotoMoves DEF FormatText
      <4>2. m.item.text = latestTweet.ttweetString
        BY <3>1 DEF Locals, Formatted
      <4> HIDE DEF m
      <4> QED BY <2>1, <4>1, <4>2 DEF InHandOf
    <3>3. CASE FormatTag(c)
      <4> DEFINE h == latestTweet.hashtags[local[c].hashtagIdx]
                 m == [local[c] EXCEPT !.item.tag = h, !.cell = 0]
      <4>1. local'[c] = m /\ pc[c] = "a_tag"
        BY <1>1, <3>3, GotoMoves DEF FormatTag
      <4>2. m.item.text = local[c].item.text
        BY <3>1 DEF Locals, Formatted
      <4> HIDE DEF m
      <4> QED BY <2>1, <4>1, <4>2 DEF InHandOf
    <3>4. CASE FindTweetCell(c)
      <4>1. ~ NextUser(c)
        BY <1>1, <2>5, GotoMoves, ReplyMoves DEF NextUser
      <4>2. PICK p, m : /\ pc[c] = "a_scan" /\ Goto(c, p, m)
                        /\ m = local[c] \/ m = [local[c] EXCEPT !.cell = @ + 1]
        BY <3>4, <4>1 DEF FindTweetCell
      <4>3. local'[c].item = local[c].item
        BY <1>1, <3>1, <4>2, GotoMoves DEF Locals
      <4> QED BY <2>1, <4>2, <4>3 DEF InHandOf
    <3>5. ~ Goto(c, "a_to", local[c]) /\ ~ FormatTo(c) /\ ~ FormatFrom(c)
      BY <1>1, <2>5, GotoMoves DEF FormatTo, FormatFrom
    <3>6. pc'[c] \in AddSteps
      BY <2>5 DEF AddSteps
    <3> QED BY <1>1, <2>1, <3>2, <3>3, <3>4, <3>5, <3>6, OnlyFormats
  <2> QED BY <1>1, <1>4, <2>1, <2>4, <2>5 DEF InHandOf
<1> QED BY <1>2, <1>3, <1>4

LEMMA AllWholeStep ==
  ASSUME WholeInv, NEW c \in Clients, Watch,
         Validate(c) \/ Tweet(c) \/ Subscription(c) \/ Timeline(c) \/ Exit(c)
  PROVE  AllWhole'
<1>1. TypeInv /\ overlapped \subseteq overlapped' /\ LocalsAt(pc[c], local[c])
  BY TweetsMeet, Types DEF WholeInv
<1>2. \A k \in DOMAIN sent : k \in DOMAIN sent' /\ sent'[k] = sent[k]
  BY <1>1, SentKept
<1>3. PutTweet(c) => Whole(local[c].item)
  <2>1. SUFFICES ASSUME PutTweet(c) PROVE Whole(local[c].item)
    OBVIOUS
  <2>2. pc[c] = "a_put" /\ pc[c] \in TweetSteps
    BY <2>1 DEF PutTweet, TweetSteps, AddSteps
  <2>3. CASE Undisturbed(c)
    BY <2>2, <2>3 DEF WholeInv, Formed, Whole
  <2>4. CASE ~ Undisturbed(c)
    BY <2>2, <2>4 DEF WholeInv, InHandOf, Undisturbed, Whole
  <2> QED BY <2>3, <2>4
<1>4. ASSUME NEW i \in UserIdx, NEW j \in PendingTweetIdx
      PROVE  Whole(Cell(i, j))'
  <2>1. PICK item : item = Cell(i, j)' /\ Whole(item)
    <3>1. Whole(EmptyStr)
      BY DEF Whole
    <3> QED BY <1>1, <1>3, <3>1, CellsChange DEF WholeInv, AllWhole
  <2> QED BY <1>1, <1>2, <2>1 DEF Whole, Genuine
<1>5. ASSUME NEW d \in Clients, NEW k \in DOMAIN storedTweets'[d]
      PROVE  Whole(storedTweets[d][k])'
  <2>1. PICK item : item = storedTweets'[d][k] /\ Whole(item)
    <3>1. CASE storedTweets' = storedTweets
      BY <1>5, <3>1 DEF WholeInv, AllWhole
    <3>2. CASE CopyTweet(c) /\ d # c
      BY <1>1, <1>5, <3>2, StoredChange DEF WholeInv, AllWhole
    <3>3. CASE CopyTweet(c) /\ d = c
      <4>1. Whole(Cell(clientUserIdx[c], local[c].cell))
        <5>1. pc[c] = "l_copy" /\ pc[c] \in InSession /\ pc[c] \in QueueSteps
          BY <3>3 DEF CopyTweet, InSession, TimelineSteps, QueueSteps
        <5> QED BY <1>1, <5>1, InSessionHasEntry DEF LocalsAt, WholeInv, AllWhole
      <4>2. k \in 1 .. Len(storedTweets[c]) + 1 /\ Len(storedTweets[c]) \in Nat
              /\ DOMAIN storedTweets[c] = 1 .. Len(storedTweets[c])
        BY <1>1, <1>5, <3>3, StoredChange
      <4>3. CASE k = Len(storedTweets[c]) + 1
        BY <1>1, <3>3, <4>1, <4>3, StoredChange
      <4>4. CASE k # Len(storedTweets[c]) + 1
        <5>1. k \in DOMAIN storedTweets[c]
          BY <4>2, <4>4
        <5> QED BY <1>1, <3>3, <5>1, StoredChange DEF WholeInv, AllWhole
      <4> QED BY <4>3, <4>4
    <3> QED BY <1>1, <3>1, <3>2, <3>3, StoredChange
  <2> QED BY <1>1, <1>2, <2>1 DEF Whole, Genuine
<1> QED BY <1>4, <1>5 DEF AllWhole

LEMMA WholeStep ==
  ASSUME WholeInv, NEW c \in Clients, Watch,
         Validate(c) \/ Tweet(c) \/ Subscription(c) \/ Timeline(c) \/ Exit(c)
  PROVE  WholeInv'
<1>1. TypeInv /\ TypeInv' /\ Together' /\ AllWhole'
  BY TypeStep, TweetsMeet, AllWholeStep DEF WholeInv
<1>2. \A d \in Clients : pc'[d] \in TweetSteps => InHandOf(d)'
  BY InHandStep
<1>3. ASSUME NEW d \in Clients, Undisturbed(d)'
      PROVE  LatestSound(d)' /\ Formed(d)'
  <2>1. CASE d # c
    <3>1. /\ pc'[d] = pc[d] /\ local'[d] = local[d] /\ request'[d] = request[d]
          /\ UNCHANGED <<latestTweet, sent>> /\ LatestSound(d) /\ Formed(d)
      BY <1>3, <2>1, TweetsMeet, UndisturbedStep DEF WholeInv
    <3>2. LatestSound(d)'
      BY <3>1 DEF LatestSound, IsLast, Written, Counted
    <3> QED BY <3>1, <3>2 DEF Formed, Genuine
  <2>2. CASE d = c
    <3>1. /\ Tweet(c) /\ pc'[c] \in TweetSteps
          /\ pc[c] \in TweetSteps => LatestSound(c) /\ Formed(c)
      BY <1>3, <2>2, UndisturbedStep DEF WholeInv, Undisturbed
    <3>2. LatestSound(c)
      BY <3>1 DEF LatestSound
    <3>3. LatestSound(c)'
      BY <1>1, <3>1, <3>2, SoundTweetStep
    <3>4. Formed(c)'
      <4>1. CASE pc'[c] \in AddSteps
        BY <1>1, <3>1, <4>1, FormedStep
      <4>2. CASE pc'[c] \notin AddSteps
        BY <4>2 DEF Formed, AddSteps
      <4> QED BY <4>1, <4>2
    <3> QED BY <2>2, <3>3, <3>4
  <2> QED BY <2>1, <2>2
<1> QED BY <1>1, <1>2, <1>3 DEF WholeInv

(* Tweets that are handled at the same time may mix in latestTweet         *)
(* (ttweetsrv.c:606 to :616), but no tweet that is handled while no other  *)
(* is, whatever mixed before or mixes later and whatever else it overlaps: *)
(* it is stored, queued and shown as it was sent, and its child does not   *)
(* read past its own hashtags.                                             *)
THEOREM UndisturbedIsWhole == RacesSpec => []AloneIsWhole
<1>1. RacesInit => WholeInv
  <2> SUFFICES ASSUME RacesInit PROVE WholeInv
    OBVIOUS
  <2>1. TypeInv /\ overlapped = {}
    BY TypeInit DEF RacesInit
  <2>2. \A c \in Clients : pc[c] \notin TweetSteps /\ storedTweets[c] = <<>>
    BY DEF RacesInit, Init, TweetSteps, StoreSteps, UpdateSteps, AddSteps
  <2>3. \A i \in UserIdx, j \in PendingTweetIdx : Cell(i, j) = EmptyStr
    BY StartAssumption DEF RacesInit, Init, Cell
  <2> QED BY <2>1, <2>2, <2>3 DEF WholeInv, Together, AllWhole, Whole, Undisturbed
<1>2. WholeInv /\ [RacesNext]_raceVars => WholeInv'
  <2>1. WholeInv /\ RacesNext => WholeInv'
    BY WholeStep DEF RacesNext, Next
  <2>2. WholeInv /\ UNCHANGED raceVars => WholeInv'
    <3> SUFFICES ASSUME WholeInv, UNCHANGED raceVars PROVE WholeInv'
      OBVIOUS
    <3>1. UNCHANGED vars /\ UNCHANGED overlapped /\ TypeInv'
      BY TypeStutter DEF raceVars, WholeInv
    <3>2. UNCHANGED <<activeUsers, latestTweet, pc, request, local, storedTweets, sent>>
      BY <3>1 DEF vars, shared, history
    <3>3. Together' /\ AllWhole'
      BY <3>1, <3>2 DEF WholeInv, Together, AllWhole, Whole, Genuine, Cell
    <3>4. \A c \in Clients : pc'[c] \in TweetSteps => InHandOf(c)'
      BY <3>1, <3>2 DEF WholeInv, InHandOf
    <3>5. \A c \in Clients : Undisturbed(c)' => LatestSound(c)' /\ Formed(c)'
      BY <3>1, <3>2 DEF WholeInv, Undisturbed, LatestSound, IsLast, Written, Counted, Formed, Genuine
    <3> QED BY <3>1, <3>3, <3>4, <3>5 DEF WholeInv
  <2> QED BY <2>1, <2>2
<1>3. WholeInv => AloneIsWhole
  <2> SUFFICES ASSUME WholeInv PROVE AloneIsWhole
    OBVIOUS
  <2>1. ASSUME NEW item \in Shown \cup Queued
        PROVE  item.text \in overlapped \/ Genuine(item)
    <3>1. CASE item \in Queued
      BY <3>1 DEF Queued, Items, WholeInv, AllWhole, Whole, Cell
    <3>2. CASE item \in Shown
      BY <3>2 DEF Shown, Range, WholeInv, AllWhole, Whole
    <3> QED BY <3>1, <3>2
  <2>2. ASSUME NEW c \in Clients, pc[c] = "t_hashtag", request[c].text \notin overlapped
        PROVE  local[c].hashtagIdx < Len(request[c].tags)
    <3>1. pc[c] \in TweetSteps
      BY <2>2 DEF TweetSteps, StoreSteps
    <3> QED BY <2>2, <3>1 DEF WholeInv, Undisturbed, LatestSound, Counted
  <2> QED BY <2>1, <2>2 DEF AloneIsWhole
<1> QED BY <1>1, <1>2, <1>3, PTL DEF RacesSpec
=================================================================================

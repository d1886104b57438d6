---------------------------- MODULE ChildStepsProofs ----------------------------
(***************************************************************************)
(* Theorems about the children of ttweetsrv that interleave.  Whatever     *)
(* requests overlap, every handler stays within its arrays: the type       *)
(* invariant needs to know where a handler stands and what request it has  *)
(* in hand (Control).  The second part is for the proofs about deliveries: *)
(* the names that sessions have while no request to validate overlaps      *)
(* another or an exit (NamesInv).                                          *)
(***************************************************************************)
EXTENDS ChildSteps, UserTableProofs

-----------------------------------------------------------------------------
(* Where a child may be                                                    *)

ValidateSteps == {"v_occupied", "v_username", "v_take", "v_occupy", "v_write_username"}
StoreSteps == {"t_username", "t_text", "t_count", "t_clear", "t_more", "t_hashtag"}
UpdateSteps == {"u_occupied", "u_all", "u_more", "u_match"}
AddSteps == {"a_to", "a_from", "a_text", "a_tag", "a_scan", "a_put"}
TweetSteps == StoreSteps \cup UpdateSteps \cup AddSteps
SubscriptionSteps == {"s_list", "s_all"}
TimelineSteps == {"l_first", "l_scan", "l_copy", "l_clear"}
ClearSteps == {"e_all", "e_username", "e_subscriptions", "e_pending"}
ExitSteps == {"e_occupied"} \cup ClearSteps
InSession ==
  {"ready", "crashed"} \cup TweetSteps \cup SubscriptionSteps \cup TimelineSteps \cup ExitSteps

(* The steps before any variable of the handler is assigned, and those     *)
(* that use the index of a hashtag, a subscription or a tweet.             *)
FirstSteps == Waiting \cup {"t_username", "t_text", "t_count", "s_list", "s_all", "l_first",
                            "e_occupied", "e_all", "e_username"}
HashtagSteps == {"t_clear", "t_hashtag", "u_occupied", "u_all", "u_match",
                 "a_to", "a_from", "a_text", "a_tag"}
CellSteps == {"u_occupied", "u_all", "u_more", "u_match", "e_subscriptions"}
QueueSteps == {"a_scan", "a_put", "l_scan", "l_copy", "l_clear", "e_pending"}

(* The request r that a child has at p.                                    *)
RequestAt(p, r) ==
  /\ p \in Waiting => r = NoRequest
  /\ p \in ValidateSteps => r.kind = "validate"
  /\ p \in TweetSteps => /\ r.kind = "tweet" /\ r.text \in Nat
                         /\ r.tags \in Seq(Hashtags) /\ Len(r.tags) <= MAX_HASHTAG_CNT
  /\ p \in SubscriptionSteps =>
       r.kind \in {"subscribe", "unsubscribe"} /\ r.hashtag \in Subscribable
  /\ p \in TimelineSteps => r.kind = "timeline"
  /\ p \in ExitSteps => r.kind = "exit"

(* The variables l that its handler has at p.                              *)
LocalsAt(p, l) ==
  /\ l \in Locals
  /\ p \in FirstSteps => l = NoLocals
  /\ p \in HashtagSteps => l.hashtagIdx < MAX_HASHTAG_CNT
  /\ p \in CellSteps => l.cell \in SubscriptionIdx
  /\ p \in QueueSteps => l.cell \in PendingTweetIdx

(* The index that it has at p.                                             *)
IndexAt(p, own) ==
  /\ p \in InSession => own \in UserIdx
  /\ p \in (Waiting \ InSession) \cup ValidateSteps => own = INVALID_USER_INDEX

Control ==
  /\ pc \in [Clients -> Waiting \cup ValidateSteps \cup InSession]
  /\ request = [c \in Clients |-> request[c]]
  /\ local \in [Clients -> Locals]
  /\ clientUserIdx \in [Clients -> UserIdx \cup {INVALID_USER_INDEX}]
  /\ \A c \in Clients : /\ RequestAt(pc[c], request[c])
                        /\ LocalsAt(pc[c], local[c])
                        /\ IndexAt(pc[c], clientUserIdx[c])

LatestType ==
  latestTweet \in [username: Usernames \cup {EmptyStr}, ttweetString: Nat,
                   hashtags: [HashtagIdx -> Hashtags \cup {EmptyStr}],
                   numValidHashtags: 0 .. MAX_HASHTAG_CNT]

HistoryType ==
  /\ sent \in Seq([from: Usernames, tags: Seq(Hashtags)])
  /\ storedTweets \in [Clients -> Seq(Formatted \cup {EmptyStr})]

TypeInv ==
  /\ activeUsers \in [UserIdx -> SharedUser]
  /\ LatestType
  /\ HistoryType
  /\ Control

LEMMA TypeInvSuffices == TypeInv => TypeOK
BY DEF TypeInv, LatestType, Control, LocalsAt, HashtagSteps, CellSteps, QueueSteps, TypeOK

LEMMA StartConstants ==
  /\ NoLocals \in Locals
  /\ NoLocals.userIdx = 0 /\ NoLocals.cell = 0 /\ NoLocals.hashtagIdx = 0
  /\ 0 \in SubscriptionIdx /\ 0 \in PendingTweetIdx /\ 0 \in UserIdx
  /\ 0 < MAX_HASHTAG_CNT /\ MAX_HASHTAG_CNT \in Nat
BY EmptyStrIsNoValue, ChildStepsAssumption
   DEF NoLocals, Locals, Formatted, SubscriptionIdx, PendingTweetIdx, UserIdx

-----------------------------------------------------------------------------
(* What a step of one child does to Control                                *)
LEMMA GotoKeeps ==
  ASSUME Control, NEW c \in Clients, NEW there, NEW l, Goto(c, there, l),
         UNCHANGED clientUserIdx,
         there \in Waiting \cup ValidateSteps \cup InSession,
         RequestAt(there, request[c]), LocalsAt(there, l), IndexAt(there, clientUserIdx[c])
  PROVE  Control'
<1>1. /\ pc' \in [Clients -> Waiting \cup ValidateSteps \cup InSession]
      /\ local' \in [Clients -> Locals]
      /\ request' = request
  BY DEF Control, Goto, LocalsAt
<1>2. ASSUME NEW d \in Clients
      PROVE  /\ RequestAt(pc'[d], request'[d]) /\ LocalsAt(pc'[d], local'[d])
             /\ IndexAt(pc'[d], clientUserIdx'[d])
  <2>1. CASE d = c
    <3>1. pc'[c] = there /\ local'[c] = l
      BY DEF Goto, Control
    <3> QED BY <2>1, <3>1, <1>1
  <2>2. CASE d # c
    <3>1. pc'[d] = pc[d] /\ local'[d] = local[d]
      BY <2>2 DEF Goto, Control
    <3> QED BY <3>1, <1>1 DEF Control
  <2> QED BY <2>1, <2>2
<1> QED BY <1>1, <1>2 DEF Control

LEMMA ReplyKeeps ==
  ASSUME Control, NEW c \in Clients, NEW state \in Waiting, NEW own,
         Reply(c, state), clientUserIdx' = [clientUserIdx EXCEPT ![c] = own],
         own \in UserIdx \cup {INVALID_USER_INDEX}, IndexAt(state, own)
  PROVE  Control'
<1>1. /\ pc' \in [Clients -> Waiting \cup ValidateSteps \cup InSession]
      /\ local' \in [Clients -> Locals]
      /\ request' = [d \in Clients |-> request'[d]]
      /\ clientUserIdx' \in [Clients -> UserIdx \cup {INVALID_USER_INDEX}]
  BY StartConstants DEF Control, Reply
<1>2. ASSUME NEW d \in Clients
      PROVE  /\ RequestAt(pc'[d], request'[d]) /\ LocalsAt(pc'[d], local'[d])
             /\ IndexAt(pc'[d], clientUserIdx'[d])
  <2>1. CASE d = c
    <3>1. pc'[c] = state /\ local'[c] = NoLocals /\ request'[c] = NoRequest
            /\ clientUserIdx'[c] = own
      BY DEF Reply, Control
    <3>2. RequestAt(state, NoRequest)
      BY DEF RequestAt, Waiting, ValidateSteps, TweetSteps, StoreSteps, UpdateSteps, AddSteps,
             SubscriptionSteps, TimelineSteps, ExitSteps, ClearSteps
    <3>3. LocalsAt(state, NoLocals)
      BY StartConstants DEF LocalsAt
    <3> QED BY <2>1, <3>1, <3>2, <3>3
  <2>2. CASE d # c
    <3>1. /\ pc'[d] = pc[d] /\ local'[d] = local[d] /\ request'[d] = request[d]
          /\ clientUserIdx'[d] = clientUserIdx[d]
      BY <2>2 DEF Reply, Control
    <3> QED BY <3>1 DEF Control
  <2> QED BY <2>1, <2>2
<1> QED BY <1>1, <1>2 DEF Control

(* A reply that leaves the child's index alone.                            *)
LEMMA ReplyInPlace ==
  ASSUME Control, NEW c \in Clients, NEW state \in Waiting,
         Reply(c, state), UNCHANGED clientUserIdx, IndexAt(state, clientUserIdx[c])
  PROVE  Control'
<1>1. clientUserIdx' = [clientUserIdx EXCEPT ![c] = clientUserIdx[c]]
  BY DEF Control
<1> QED BY <1>1, ReplyKeeps DEF Control

LEMMA BeginKeeps ==
  ASSUME Control, NEW c \in Clients, NEW r, NEW first, Begin(c, r, first), pc[c] \in Waiting,
         first \in Waiting \cup ValidateSteps \cup InSession,
         RequestAt(first, r), LocalsAt(first, NoLocals), IndexAt(first, clientUserIdx[c])
  PROVE  Control'
<1>1. /\ pc' \in [Clients -> Waiting \cup ValidateSteps \cup InSession]
      /\ local' = local /\ clientUserIdx' = clientUserIdx
      /\ request' = [d \in Clients |-> request'[d]]
  BY DEF Control, Begin
<1>2. ASSUME NEW d \in Clients
      PROVE  /\ RequestAt(pc'[d], request'[d]) /\ LocalsAt(pc'[d], local'[d])
             /\ IndexAt(pc'[d], clientUserIdx'[d])
  <2>1. CASE d = c
    <3>1. pc'[c] = first /\ local[c] = NoLocals /\ request'[c] = r
      BY DEF Begin, Control, LocalsAt, FirstSteps
    <3> QED BY <2>1, <3>1, <1>1
  <2>2. CASE d # c
    <3>1. pc'[d] = pc[d] /\ request'[d] = request[d]
      BY <2>2 DEF Begin, Control
    <3> QED BY <3>1, <1>1 DEF Control
  <2> QED BY <2>1, <2>2
<1> QED BY <1>1, <1>2 DEF Control

(* The steps of one handler share its request and the index.               *)
Handlers == {ValidateSteps, TweetSteps, SubscriptionSteps, TimelineSteps, ExitSteps}

LEMMA GotoWithin ==
  ASSUME Control, NEW c \in Clients, NEW S \in Handlers, pc[c] \in S,
         NEW there \in S, NEW l, Goto(c, there, l), UNCHANGED clientUserIdx, LocalsAt(there, l)
  PROVE  Control'
<1>1. RequestAt(pc[c], request[c]) /\ IndexAt(pc[c], clientUserIdx[c])
  BY DEF Control
<1>2. RequestAt(there, request[c])
  BY <1>1 DEF RequestAt, Handlers, Waiting, ValidateSteps, TweetSteps, StoreSteps, UpdateSteps,
              AddSteps, SubscriptionSteps, TimelineSteps, ExitSteps, ClearSteps
<1>3. IndexAt(there, clientUserIdx[c]) /\ there \in ValidateSteps \cup InSession
  BY <1>1 DEF IndexAt, Handlers, Waiting, ValidateSteps, TweetSteps, StoreSteps, UpdateSteps,
              AddSteps, SubscriptionSteps, TimelineSteps, ExitSteps, ClearSteps, InSession
<1> QED BY <1>2, <1>3, GotoKeeps

LEMMA ReplyWithin ==
  ASSUME Control, NEW c \in Clients, NEW state, Reply(c, state), UNCHANGED clientUserIdx,
         \/ pc[c] \in ValidateSteps /\ state \in {"refused", "unanswered"}
         \/ pc[c] \in InSession /\ state \in {"ready", "crashed"}
  PROVE  Control'
<1>1. IndexAt(pc[c], clientUserIdx[c])
  BY DEF Control
<1>2. IndexAt(state, clientUserIdx[c]) /\ state \in Waiting
  BY <1>1 DEF IndexAt, Waiting, ValidateSteps, TweetSteps, StoreSteps, UpdateSteps,
              AddSteps, SubscriptionSteps, TimelineSteps, ExitSteps, ClearSteps, InSession
<1> QED BY <1>2, ReplyInPlace

LEMMA BeginFrom ==
  ASSUME Control, NEW c \in Clients, NEW r, NEW first, Begin(c, r, first), RequestAt(first, r),
         \/ pc[c] = "connected" /\ first = "v_occupied"
         \/ pc[c] = "ready" /\ first \in {"t_username", "s_list", "l_first", "e_occupied"}
  PROVE  Control'
<1>1. IndexAt(pc[c], clientUserIdx[c])
  BY DEF Control
<1>2. IndexAt(first, clientUserIdx[c]) /\ pc[c] \in Waiting /\ first \in ValidateSteps \cup InSession
  BY <1>1 DEF IndexAt, Waiting, ValidateSteps, TweetSteps, StoreSteps, UpdateSteps,
              AddSteps, SubscriptionSteps, TimelineSteps, ExitSteps, ClearSteps, InSession
<1>3. LocalsAt(first, NoLocals)
  BY StartConstants DEF LocalsAt, HashtagSteps, CellSteps, QueueSteps
<1> QED BY <1>2, <1>3, BeginKeeps

-----------------------------------------------------------------------------
(* Each handler                                                            *)
LEMMA ValidateControl ==
  ASSUME Control, NEW c \in Clients, Validate(c)
  PROVE  Control'
<1> DEFINE l == local[c]
<1>1. l \in Locals /\ ValidateSteps \in Handlers
  BY DEF Control, Handlers
<1>2. \A there \in ValidateSteps, m \in Locals : LocalsAt(there, m)
  BY DEF LocalsAt, ValidateSteps, FirstSteps, HashtagSteps, CellSteps, QueueSteps, Waiting
<1>3. ASSUME NEW m \in Locals, NextName(c, m), pc[c] \in ValidateSteps, UNCHANGED clientUserIdx
      PROVE  Control'
  <2>1. CASE m.userIdx + 1 < MAX_CONC_CONN /\ Goto(c, "v_occupied", [m EXCEPT !.userIdx = @ + 1])
    <3>1. [m EXCEPT !.userIdx = @ + 1] \in Locals
      BY <2>1, EmptyStrIsNoValue DEF Locals, UserIdx
    <3>2. "v_occupied" \in ValidateSteps
      BY DEF ValidateSteps
    <3> QED BY <1>1, <1>2, <1>3, <2>1, <3>1, <3>2, GotoWithin
  <2>2. CASE Goto(c, "v_take", NoLocals)
    <3>1. "v_take" \in ValidateSteps
      BY DEF ValidateSteps
    <3> QED BY <1>1, <1>2, <1>3, <2>2, <3>1, StartConstants, GotoWithin
  <2>3. CASE Reply(c, "refused")
    BY <1>3, <2>3, ReplyWithin
  <2> QED BY <1>3, <2>1, <2>2, <2>3 DEF NextName
<1>4. CASE BeginValidate(c)
  <2>1. RequestAt("v_occupied", [kind |-> "validate"])
    BY DEF RequestAt, Waiting, ValidateSteps, TweetSteps, StoreSteps, UpdateSteps, AddSteps,
           SubscriptionSteps, TimelineSteps, ExitSteps, ClearSteps
  <2> QED BY <1>4, <2>1, BeginFrom DEF BeginValidate
<1>5. CASE CheckOccupied(c)
  <2>1. pc[c] \in ValidateSteps /\ "v_username" \in ValidateSteps /\ UNCHANGED clientUserIdx
    BY <1>5 DEF CheckOccupied, ValidateSteps, OnlyReads
  <2>2. CASE Goto(c, "v_username", l)
    BY <1>1, <1>2, <2>1, <2>2, GotoWithin
  <2>3. CASE NextName(c, [l EXCEPT !.isSpaceAvailable = TRUE])
    <3>1. [l EXCEPT !.isSpaceAvailable = TRUE] \in Locals
      BY <1>1 DEF Locals
    <3> QED BY <1>3, <2>1, <2>3, <3>1
  <2> QED BY <1>5, <2>2, <2>3 DEF CheckOccupied
<1>6. CASE CheckUsername(c)
  <2>1. pc[c] \in ValidateSteps /\ UNCHANGED clientUserIdx
    BY <1>6 DEF CheckUsername, ValidateSteps, OnlyReads
  <2>2. CASE Reply(c, "refused")
    BY <2>1, <2>2, ReplyWithin
  <2>3. CASE NextName(c, l)
    BY <1>1, <1>3, <2>1, <2>3
  <2> QED BY <1>6, <2>2, <2>3 DEF CheckUsername
<1>7. CASE TakeEntry(c)
  <2>1. /\ pc[c] \in ValidateSteps /\ UNCHANGED clientUserIdx
        /\ "v_occupy" \in ValidateSteps /\ "v_take" \in ValidateSteps
    BY <1>7 DEF TakeEntry, ValidateSteps, OnlyReads
  <2>2. CASE Goto(c, "v_occupy", l)
    BY <1>1, <1>2, <2>1, <2>2, GotoWithin
  <2>3. CASE l.userIdx + 1 < MAX_CONC_CONN /\ Goto(c, "v_take", [l EXCEPT !.userIdx = @ + 1])
    <3>1. [l EXCEPT !.userIdx = @ + 1] \in Locals
      BY <1>1, <2>3, EmptyStrIsNoValue DEF Locals, UserIdx
    <3> QED BY <1>1, <1>2, <2>1, <2>3, <3>1, GotoWithin
  <2>4. CASE Reply(c, "unanswered")
    BY <2>1, <2>4, ReplyWithin
  <2> QED BY <1>7, <2>2, <2>3, <2>4 DEF TakeEntry
<1>8. CASE Occupy(c)
  <2>1. /\ pc[c] \in ValidateSteps /\ "v_write_username" \in ValidateSteps
        /\ UNCHANGED clientUserIdx /\ Goto(c, "v_write_username", l)
    BY <1>8 DEF Occupy, ValidateSteps
  <2> QED BY <1>1, <1>2, <2>1, GotoWithin
<1>9. CASE WriteUsername(c)
  <2>1. l.userIdx \in UserIdx
    BY <1>1 DEF Locals
  <2>2. IndexAt("ready", l.userIdx) /\ "ready" \in Waiting
    BY <2>1 DEF IndexAt, InSession, Waiting, ValidateSteps
  <2> QED BY <1>9, <2>1, <2>2, ReplyKeeps DEF WriteUsername
<1> QED BY <1>4, <1>5, <1>6, <1>7, <1>8, <1>9 DEF Validate

LEMMA TweetControl ==
  ASSUME TypeInv, NEW c \in Clients, Tweet(c)
  PROVE  Control'
<1> DEFINE l == local[c]
<1>1. /\ l \in Locals /\ TweetSteps \in Handlers /\ MAX_HASHTAG_CNT \in Nat
      /\ latestTweet.numValidHashtags \in 0 .. MAX_HASHTAG_CNT
      /\ LocalsAt(pc[c], l) /\ Control
  BY StartConstants DEF TypeInv, Control, Handlers, LatestType
<1>2. ASSUME NEW p \in TweetSteps, NEW m, LocalsAt(p, m), pc[c] \in TweetSteps,
             Goto(c, p, m), UNCHANGED clientUserIdx
      PROVE  Control'
  BY <1>1, <1>2, GotoWithin
<1>3. ASSUME NEW state \in {"ready", "crashed"}, Reply(c, state), pc[c] \in TweetSteps,
             UNCHANGED clientUserIdx
      PROVE  Control'
  BY <1>1, <1>3, ReplyWithin DEF InSession
<1>4. ASSUME NextUser(c), pc[c] \in TweetSteps, UNCHANGED clientUserIdx
      PROVE  Control'
  <2> DEFINE m == [NoLocals EXCEPT !.userIdx = l.userIdx + 1]
  <2>1. CASE l.userIdx + 1 < MAX_CONC_CONN /\ Goto(c, "u_occupied", m)
    <3>1. m \in Locals /\ m.hashtagIdx = 0 /\ m.cell = 0
      BY <1>1, <2>1, StartConstants, EmptyStrIsNoValue DEF Locals, UserIdx
    <3>2. LocalsAt("u_occupied", m) /\ "u_occupied" \in TweetSteps
      BY <3>1, StartConstants DEF LocalsAt, FirstSteps, HashtagSteps, CellSteps, QueueSteps,
                  Waiting, TweetSteps, UpdateSteps
    <3> QED BY <1>2, <1>4, <2>1, <3>2
  <2>2. CASE Reply(c, "ready")
    BY <1>3, <1>4, <2>2
  <2> QED BY <1>4, <2>1, <2>2 DEF NextUser
<1>5. ASSUME NEW tags \in TagLists, BeginTweet(c, tags)
      PROVE  Control'
  <2> DEFINE r == [kind |-> "tweet", tags |-> tags, text |-> Len(sent) + 1]
  <2>1. Len(sent) + 1 \in Nat /\ tags \in Seq(Hashtags) /\ Len(tags) <= MAX_HASHTAG_CNT
    BY ChildStepsAssumption DEF TypeInv, HistoryType
  <2>2. r.kind = "tweet" /\ r.tags = tags /\ r.text = Len(sent) + 1
    OBVIOUS
  <2>3. RequestAt("t_username", r)
    <3> HIDE DEF r
    <3> QED BY <2>1, <2>2 DEF RequestAt, Waiting, ValidateSteps, SubscriptionSteps, TimelineSteps,
                   ExitSteps, ClearSteps
  <2>4. pc[c] = "ready" /\ Begin(c, r, "t_username")
    BY <1>5 DEF BeginTweet
  <2> HIDE DEF r
  <2> QED BY <1>1, <2>3, <2>4, BeginFrom
<1>6. CASE StoreUsername(c)
  <2>1. LocalsAt("t_text", l)
    BY <1>1, <1>6 DEF StoreUsername, LocalsAt, FirstSteps, HashtagSteps, CellSteps, QueueSteps
  <2> QED BY <1>2, <1>6, <2>1 DEF StoreUsername, WriteLatest, TweetSteps, StoreSteps
<1>7. CASE StoreText(c)
  <2>1. LocalsAt("t_count", l)
    BY <1>1, <1>7 DEF StoreText, LocalsAt, FirstSteps, HashtagSteps, CellSteps, QueueSteps
  <2> QED BY <1>2, <1>7, <2>1 DEF StoreText, WriteLatest, TweetSteps, StoreSteps
<1>8. CASE StoreCount(c)
  <2>1. l = NoLocals
    BY <1>1, <1>8 DEF StoreCount, LocalsAt, FirstSteps
  <2>2. LocalsAt("t_clear", l)
    BY <2>1, StartConstants DEF LocalsAt, FirstSteps, HashtagSteps, CellSteps, QueueSteps, Waiting
  <2> QED BY <1>2, <1>8, <2>2 DEF StoreCount, WriteLatest, TweetSteps, StoreSteps
<1>9. CASE ClearHashtag(c)
  <2>1. pc[c] \in TweetSteps /\ "t_clear" \in TweetSteps /\ "t_more" \in TweetSteps
          /\ UNCHANGED clientUserIdx
    BY <1>9 DEF ClearHashtag, WriteHashtag, WriteLatest, TweetSteps, StoreSteps
  <2>2. CASE l.hashtagIdx + 1 < MAX_HASHTAG_CNT /\ Goto(c, "t_clear", [l EXCEPT !.hashtagIdx = @ + 1])
    <3>1. LocalsAt("t_clear", [l EXCEPT !.hashtagIdx = @ + 1])
      BY <1>1, <2>2 DEF Locals, LocalsAt, FirstSteps, HashtagSteps, CellSteps, QueueSteps, Waiting
    <3> QED BY <1>2, <2>1, <2>2, <3>1
  <2>3. CASE Goto(c, "t_more", NoLocals)
    <3>1. LocalsAt("t_more", NoLocals)
      BY StartConstants DEF LocalsAt, FirstSteps, HashtagSteps, CellSteps, QueueSteps, Waiting
    <3> QED BY <1>2, <2>1, <2>3, <3>1
  <2> QED BY <1>9, <2>2, <2>3 DEF ClearHashtag
<1>10. CASE MoreHashtags(c)
  <2>1. pc[c] \in TweetSteps /\ "t_hashtag" \in TweetSteps /\ "u_occupied" \in TweetSteps
          /\ UNCHANGED clientUserIdx
    BY <1>10 DEF MoreHashtags, OnlyReads, TweetSteps, StoreSteps, UpdateSteps
  <2>2. CASE l.hashtagIdx < latestTweet.numValidHashtags /\ Goto(c, "t_hashtag", l)
    <3>1. LocalsAt("t_hashtag", l)
      BY <1>1, <2>2 DEF Locals, LocalsAt, FirstSteps, HashtagSteps, CellSteps, QueueSteps, Waiting
    <3> QED BY <1>2, <2>1, <2>2, <3>1
  <2>3. CASE Goto(c, "u_occupied", NoLocals)
    <3>1. LocalsAt("u_occupied", NoLocals)
      BY StartConstants DEF LocalsAt, FirstSteps, HashtagSteps, CellSteps, QueueSteps, Waiting
    <3> QED BY <1>2, <2>1, <2>3, <3>1
  <2> QED BY <1>10, <2>2, <2>3 DEF MoreHashtags
<1>11. CASE StoreHashtag(c)
  <2>1. pc[c] \in TweetSteps /\ "t_more" \in TweetSteps
    BY <1>11 DEF StoreHashtag, TweetSteps, StoreSteps
  <2>2. UNCHANGED clientUserIdx
    BY <1>11 DEF StoreHashtag, WriteHashtag, WriteLatest, OnlyReads
  <2>3. CASE Goto(c, "t_more", [l EXCEPT !.hashtagIdx = l.hashtagIdx + 1])
    <3>1. l.hashtagIdx < MAX_HASHTAG_CNT
      BY <1>1, <1>11 DEF StoreHashtag, LocalsAt, HashtagSteps
    <3>2. LocalsAt("t_more", [l EXCEPT !.hashtagIdx = l.hashtagIdx + 1])
      BY <1>1, <3>1 DEF Locals, LocalsAt, FirstSteps, HashtagSteps, CellSteps, QueueSteps, Waiting
    <3> QED BY <1>2, <2>1, <2>2, <2>3, <3>2
  <2>4. CASE Reply(c, "crashed")
    BY <1>3, <2>1, <2>2, <2>4
  <2> QED BY <1>11, <2>3, <2>4 DEF StoreHashtag
<1>12. CASE UpdateOccupied(c)
  <2>1. pc[c] \in TweetSteps /\ "u_all" \in TweetSteps /\ UNCHANGED clientUserIdx
    BY <1>12 DEF UpdateOccupied, OnlyReads, TweetSteps, UpdateSteps
  <2>2. LocalsAt("u_all", l)
    BY <1>1, <1>12 DEF UpdateOccupied, LocalsAt, FirstSteps, HashtagSteps, CellSteps, QueueSteps, Waiting
  <2> QED BY <1>2, <1>4, <1>12, <2>1, <2>2 DEF UpdateOccupied
<1>13. CASE UpdateSubscribedAll(c)
  <2>1. pc[c] \in TweetSteps /\ "a_to" \in TweetSteps /\ "u_more" \in TweetSteps
          /\ UNCHANGED clientUserIdx
    BY <1>13 DEF UpdateSubscribedAll, OnlyReads, TweetSteps, UpdateSteps, AddSteps
  <2>2. LocalsAt("a_to", l) /\ LocalsAt("u_more", l)
    BY <1>1, <1>13 DEF UpdateSubscribedAll, LocalsAt, FirstSteps, HashtagSteps, CellSteps, QueueSteps, Waiting
  <2> QED BY <1>2, <1>13, <2>1, <2>2 DEF UpdateSubscribedAll
<1>14. CASE MoreToMatch(c)
  <2>1. pc[c] \in TweetSteps /\ "u_match" \in TweetSteps /\ "u_more" \in TweetSteps
          /\ UNCHANGED clientUserIdx
    BY <1>14 DEF MoreToMatch, OnlyReads, TweetSteps, UpdateSteps
  <2>2. l.cell \in SubscriptionIdx
    BY <1>1, <1>14 DEF MoreToMatch, LocalsAt, CellSteps
  <2>3. CASE l.hashtagIdx < latestTweet.numValidHashtags /\ Goto(c, "u_match", l)
    <3>1. LocalsAt("u_match", l)
      BY <1>1, <2>2, <2>3 DEF Locals, LocalsAt, FirstSteps, HashtagSteps, CellSteps, QueueSteps, Waiting
    <3> QED BY <1>2, <2>1, <2>3, <3>1
  <2>4. CASE /\ l.cell + 1 < MAX_SUBSCRIPTIONS
             /\ Goto(c, "u_more", [l EXCEPT !.cell = @ + 1, !.hashtagIdx = 0])
    <3> DEFINE m == [l EXCEPT !.cell = @ + 1, !.hashtagIdx = 0]
    <3>1. l.cell + 1 \in SubscriptionIdx /\ 0 \in 0 .. MAX_HASHTAG_CNT
      BY <2>2, <2>4, EmptyStrIsNoValue, StartConstants DEF SubscriptionIdx
    <3>2. m \in Locals /\ m.cell = l.cell + 1
      BY <1>1, <3>1 DEF Locals
    <3>3. LocalsAt("u_more", m)
      BY <3>1, <3>2 DEF LocalsAt, FirstSteps, HashtagSteps, CellSteps, QueueSteps, Waiting
    <3> QED BY <1>2, <2>1, <2>4, <3>3
  <2> QED BY <1>4, <1>14, <2>1, <2>3, <2>4 DEF MoreToMatch
<1>15. CASE Match(c)
  <2>1. pc[c] \in TweetSteps /\ "a_to" \in TweetSteps /\ "u_more" \in TweetSteps
          /\ UNCHANGED clientUserIdx
    BY <1>15 DEF Match, OnlyReads, TweetSteps, UpdateSteps, AddSteps
  <2>2. l.cell \in SubscriptionIdx /\ l.hashtagIdx < MAX_HASHTAG_CNT
    BY <1>1, <1>15 DEF Match, LocalsAt, CellSteps, HashtagSteps
  <2>3. LocalsAt("a_to", l)
    BY <1>1, <2>2 DEF LocalsAt, FirstSteps, HashtagSteps, CellSteps, QueueSteps, Waiting
  <2>4. LocalsAt("u_more", [l EXCEPT !.hashtagIdx = @ + 1])
    BY <1>1, <2>2 DEF Locals, LocalsAt, FirstSteps, HashtagSteps, CellSteps, QueueSteps, Waiting
  <2> QED BY <1>2, <1>15, <2>1, <2>3, <2>4 DEF Match
<1>16. CASE FormatTo(c)
  <2> DEFINE m == [l EXCEPT !.item.to = activeUsers[l.userIdx].username]
  <2>1. pc[c] \in TweetSteps /\ "a_from" \in TweetSteps /\ UNCHANGED clientUserIdx
    BY <1>16 DEF FormatTo, OnlyReads, TweetSteps, AddSteps
  <2>2. activeUsers[l.userIdx].username \in Usernames \cup {EmptyStr} /\ l.hashtagIdx < MAX_HASHTAG_CNT
    BY <1>1, <1>16 DEF TypeInv, LatestType, SharedUser, Locals, FormatTo, LocalsAt, HashtagSteps
  <2>3. m \in Locals /\ m.hashtagIdx = l.hashtagIdx
    BY <1>1, <2>2 DEF Locals, Formatted
  <2>4. LocalsAt("a_from", m)
    BY <2>2, <2>3 DEF LocalsAt, FirstSteps, HashtagSteps, CellSteps, QueueSteps, Waiting
  <2> QED BY <1>2, <1>16, <2>1, <2>4 DEF FormatTo
<1>17. CASE FormatFrom(c)
  <2> DEFINE m == [l EXCEPT !.item.from = latestTweet.username]
  <2>1. pc[c] \in TweetSteps /\ "a_text" \in TweetSteps /\ UNCHANGED clientUserIdx
    BY <1>17 DEF FormatFrom, OnlyReads, TweetSteps, AddSteps
  <2>2. latestTweet.username \in Usernames \cup {EmptyStr} /\ l.hashtagIdx < MAX_HASHTAG_CNT
    BY <1>1, <1>17 DEF TypeInv, LatestType, SharedUser, Locals, FormatFrom, LocalsAt, HashtagSteps
  <2>3. m \in Locals /\ m.hashtagIdx = l.hashtagIdx
    BY <1>1, <2>2 DEF Locals, Formatted
  <2>4. LocalsAt("a_text", m)
    BY <2>2, <2>3 DEF LocalsAt, FirstSteps, HashtagSteps, CellSteps, QueueSteps, Waiting
  <2> QED BY <1>2, <1>17, <2>1, <2>4 DEF FormatFrom
<1>18. CASE FormatText(c)
  <2> DEFINE m == [l EXCEPT !.item.text = latestTweet.ttweetString]
  <2>1. pc[c] \in TweetSteps /\ "a_tag" \in TweetSteps /\ UNCHANGED clientUserIdx
    BY <1>18 DEF FormatText, OnlyReads, TweetSteps, AddSteps
  <2>2. latestTweet.ttweetString \in Nat /\ l.hashtagIdx < MAX_HASHTAG_CNT
    BY <1>1, <1>18 DEF TypeInv, LatestType, SharedUser, Locals, FormatText, LocalsAt, HashtagSteps
  <2>3. m \in Locals /\ m.hashtagIdx = l.hashtagIdx
    BY <1>1, <2>2 DEF Locals, Formatted
  <2>4. LocalsAt("a_tag", m)
    BY <2>2, <2>3 DEF LocalsAt, FirstSteps, HashtagSteps, CellSteps, QueueSteps, Waiting
  <2> QED BY <1>2, <1>18, <2>1, <2>4 DEF FormatText
<1>19. CASE FormatTag(c)
  <2> DEFINE tag == latestTweet.hashtags[l.hashtagIdx]
             m == [l EXCEPT !.item.tag = tag, !.cell = 0]
  <2>1. pc[c] \in TweetSteps /\ "a_scan" \in TweetSteps /\ UNCHANGED clientUserIdx
    BY <1>19 DEF FormatTag, OnlyReads, TweetSteps, AddSteps
  <2>2. l.hashtagIdx \in HashtagIdx
    BY <1>1, <1>19 DEF Locals, FormatTag, LocalsAt, HashtagSteps, HashtagIdx
  <2>3. tag \in Hashtags \cup {EmptyStr}
    BY <2>2 DEF TypeInv, LatestType
  <2>4. m \in Locals /\ m.cell = 0
    BY <1>1, <2>3, StartConstants DEF Locals, Formatted
  <2>5. LocalsAt("a_scan", m)
    BY <2>4, StartConstants DEF LocalsAt, FirstSteps, HashtagSteps, CellSteps, QueueSteps, Waiting
  <2> QED BY <1>2, <1>19, <2>1, <2>5 DEF FormatTag
<1>20. CASE FindTweetCell(c)
  <2>1. /\ pc[c] \in TweetSteps /\ "a_scan" \in TweetSteps /\ "a_put" \in TweetSteps
        /\ UNCHANGED clientUserIdx
    BY <1>20 DEF FindTweetCell, TweetSteps, AddSteps
  <2>2. l.cell \in PendingTweetIdx
    BY <1>1, <1>20 DEF FindTweetCell, LocalsAt, QueueSteps
  <2>3. CASE Goto(c, "a_put", l)
    <3>1. LocalsAt("a_put", l)
      BY <1>1, <2>2 DEF LocalsAt, FirstSteps, HashtagSteps, CellSteps, QueueSteps, Waiting
    <3> QED BY <1>2, <2>1, <2>3, <3>1
  <2>4. CASE l.cell + 1 # MAX_TWEET_QUEUE /\ Goto(c, "a_scan", [l EXCEPT !.cell = @ + 1])
    <3>1. l.cell + 1 \in PendingTweetIdx
      BY <2>2, <2>4, EmptyStrIsNoValue DEF PendingTweetIdx
    <3>2. LocalsAt("a_scan", [l EXCEPT !.cell = @ + 1])
      BY <1>1, <3>1 DEF Locals, LocalsAt, FirstSteps, HashtagSteps, CellSteps, QueueSteps, Waiting
    <3> QED BY <1>2, <2>1, <2>4, <3>2
  <2> QED BY <1>4, <1>20, <2>1, <2>3, <2>4 DEF FindTweetCell
<1>21. CASE PutTweet(c)
  BY <1>4, <1>21 DEF PutTweet, TweetSteps, AddSteps
<1> QED
  BY <1>5, <1>6, <1>7, <1>8, <1>9, <1>10, <1>11, <1>12, <1>13, <1>14, <1>15, <1>16, <1>17,
     <1>18, <1>19, <1>20, <1>21 DEF Tweet

LEMMA SubscriptionControl ==
  ASSUME TypeInv, NEW c \in Clients, Subscription(c)
  PROVE  Control'
<1>1. Control /\ SubscriptionSteps \in Handlers
  BY DEF TypeInv, Handlers
<1>2. ASSUME NEW h \in Subscribable, NEW kind \in {"subscribe", "unsubscribe"},
             BeginSubscription(c, kind, h)
      PROVE  Control'
  <2> DEFINE r == [kind |-> kind, hashtag |-> h]
  <2>1. RequestAt("s_list", r)
    BY DEF RequestAt, Waiting, ValidateSteps, TweetSteps, StoreSteps, UpdateSteps, AddSteps,
           SubscriptionSteps, TimelineSteps, ExitSteps, ClearSteps
  <2> QED BY <1>1, <1>2, <2>1, BeginFrom DEF BeginSubscription
<1>3. CASE WriteList(c)
  <2>1. /\ pc[c] = "s_list" /\ pc[c] \in SubscriptionSteps /\ "s_all" \in SubscriptionSteps
        /\ UNCHANGED clientUserIdx
    BY <1>3 DEF WriteList, SubscriptionSteps
  <2>2. CASE Goto(c, "s_all", local[c])
    <3>1. LocalsAt("s_all", local[c])
      BY <1>1, <2>1 DEF Control, LocalsAt, FirstSteps, HashtagSteps, CellSteps, QueueSteps, Waiting
    <3> QED BY <1>1, <2>1, <2>2, <3>1, GotoWithin
  <2>3. CASE Reply(c, "ready")
    BY <1>1, <2>1, <2>3, ReplyWithin DEF InSession
  <2> QED BY <1>3, <2>2, <2>3 DEF WriteList
<1>4. CASE WriteSubscribedAll(c)
  BY <1>1, <1>4, ReplyWithin DEF WriteSubscribedAll, InSession, SubscriptionSteps
<1> QED BY <1>2, <1>3, <1>4 DEF Subscription

LEMMA TimelineControl ==
  ASSUME TypeInv, NEW c \in Clients, Timeline(c)
  PROVE  Control'
<1> DEFINE l == local[c]
<1>1. /\ Control /\ TimelineSteps \in Handlers
      /\ l \in Locals /\ LocalsAt(pc[c], l)
      /\ TimelineSteps \subseteq InSession
      /\ "l_scan" \in TimelineSteps /\ "l_copy" \in TimelineSteps /\ "l_clear" \in TimelineSteps
  BY DEF TypeInv, Control, Handlers, InSession, TimelineSteps
<1>2. CASE BeginTimeline(c)
  <2>1. RequestAt("l_first", [kind |-> "timeline"])
    BY DEF RequestAt, Waiting, ValidateSteps, TweetSteps, StoreSteps, UpdateSteps, AddSteps,
           SubscriptionSteps, TimelineSteps, ExitSteps, ClearSteps
  <2> QED BY <1>1, <1>2, <2>1, BeginFrom DEF BeginTimeline
<1>3. CASE FirstTweet(c)
  <2>1. pc[c] \in TimelineSteps /\ UNCHANGED clientUserIdx
    BY <1>3 DEF FirstTweet, TimelineSteps, OnlyReads
  <2>2. l = NoLocals
    BY <1>1, <1>3 DEF FirstTweet, LocalsAt, FirstSteps
  <2>3. LocalsAt("l_scan", l)
    BY <2>2, StartConstants DEF LocalsAt, FirstSteps, HashtagSteps, CellSteps, QueueSteps, Waiting
  <2> QED BY <1>1, <1>3, <2>1, <2>3, GotoWithin, ReplyWithin DEF FirstTweet
<1>4. CASE ScanTweet(c)
  <2>1. pc[c] \in TimelineSteps /\ UNCHANGED clientUserIdx
    BY <1>4 DEF ScanTweet, TimelineSteps, OnlyReads
  <2>2. LocalsAt("l_copy", l)
    BY <1>1, <1>4 DEF ScanTweet, LocalsAt, FirstSteps, HashtagSteps, CellSteps, QueueSteps, Waiting
  <2> QED BY <1>1, <1>4, <2>1, <2>2, GotoWithin, ReplyWithin DEF ScanTweet
<1>5. CASE CopyTweet(c)
  <2>1. pc[c] \in TimelineSteps /\ UNCHANGED clientUserIdx /\ Goto(c, "l_clear", l)
    BY <1>5 DEF CopyTweet, TimelineSteps
  <2>2. LocalsAt("l_clear", l)
    BY <1>1, <1>5 DEF CopyTweet, LocalsAt, FirstSteps, HashtagSteps, CellSteps, QueueSteps, Waiting
  <2> QED BY <1>1, <2>1, <2>2, GotoWithin
<1>6. CASE ClearTweet(c)
  <2>1. pc[c] \in TimelineSteps /\ UNCHANGED clientUserIdx
    BY <1>6 DEF ClearTweet, TimelineSteps
  <2>2. l.cell \in PendingTweetIdx
    BY <1>1, <1>6 DEF ClearTweet, LocalsAt, QueueSteps
  <2>3. CASE l.cell + 1 < MAX_TWEET_QUEUE /\ Goto(c, "l_scan", [l EXCEPT !.cell = @ + 1])
    <3>1. l.cell + 1 \in PendingTweetIdx
      BY <2>2, <2>3, EmptyStrIsNoValue DEF PendingTweetIdx
    <3>2. LocalsAt("l_scan", [l EXCEPT !.cell = @ + 1])
      BY <1>1, <3>1 DEF Locals, LocalsAt, FirstSteps, HashtagSteps, CellSteps, QueueSteps, Waiting
    <3> QED BY <1>1, <2>1, <2>3, <3>2, GotoWithin
  <2>4. CASE Reply(c, "ready")
    BY <1>1, <2>1, <2>4, ReplyWithin
  <2> QED BY <1>6, <2>3, <2>4 DEF ClearTweet
<1> QED BY <1>2, <1>3, <1>4, <1>5, <1>6 DEF Timeline

LEMMA ExitControl ==
  ASSUME TypeInv, NEW c \in Clients, Exit(c)
  PROVE  Control'
<1> DEFINE l == local[c]
<1>1. /\ Control /\ ExitSteps \in Handlers
      /\ l \in Locals /\ LocalsAt(pc[c], l)
      /\ "e_all" \in ExitSteps /\ "e_username" \in ExitSteps
      /\ "e_subscriptions" \in ExitSteps /\ "e_pending" \in ExitSteps
  BY DEF TypeInv, Control, Handlers, ExitSteps, ClearSteps
<1>2. ASSUME NEW p \in ExitSteps, NEW m, LocalsAt(p, m), pc[c] \in ExitSteps,
             Goto(c, p, m), UNCHANGED clientUserIdx
      PROVE  Control'
  BY <1>1, <1>2, GotoWithin
<1>3. CASE BeginExit(c)
  <2>1. RequestAt("e_occupied", [kind |-> "exit"])
    BY DEF RequestAt, Waiting, ValidateSteps, TweetSteps, StoreSteps, UpdateSteps, AddSteps,
           SubscriptionSteps, TimelineSteps, ExitSteps, ClearSteps
  <2> QED BY <1>1, <1>3, <2>1, BeginFrom DEF BeginExit
<1>4. CASE ClearOccupied(c)
  <2>1. LocalsAt("e_all", l)
    BY <1>1, <1>4 DEF ClearOccupied, LocalsAt, FirstSteps, HashtagSteps, CellSteps, QueueSteps, Waiting
  <2> QED BY <1>1, <1>2, <1>4, <2>1 DEF ClearOccupied, ExitSteps
<1>5. CASE ClearSubscribedAll(c)
  <2>1. LocalsAt("e_username", l)
    BY <1>1, <1>5 DEF ClearSubscribedAll, LocalsAt, FirstSteps, HashtagSteps, CellSteps, QueueSteps, Waiting
  <2> QED BY <1>1, <1>2, <1>5, <2>1 DEF ClearSubscribedAll, ExitSteps, ClearSteps
<1>6. CASE ClearUsername(c)
  <2>1. l = NoLocals
    BY <1>1, <1>6 DEF ClearUsername, LocalsAt, FirstSteps
  <2>2. LocalsAt("e_subscriptions", l)
    BY <2>1, StartConstants DEF LocalsAt, FirstSteps, HashtagSteps, CellSteps, QueueSteps, Waiting
  <2> QED BY <1>1, <1>2, <1>6, <2>2 DEF ClearUsername, ExitSteps, ClearSteps
<1>7. CASE ClearSubscription(c)
  <2>1. pc[c] \in ExitSteps /\ UNCHANGED clientUserIdx
    BY <1>7 DEF ClearSubscription, ExitSteps, ClearSteps
  <2>2. l.cell \in SubscriptionIdx
    BY <1>1, <1>7 DEF ClearSubscription, LocalsAt, CellSteps
  <2>3. CASE /\ l.cell + 1 < MAX_SUBSCRIPTIONS
             /\ Goto(c, "e_subscriptions", [l EXCEPT !.cell = @ + 1])
    <3>1. l.cell + 1 \in SubscriptionIdx
      BY <2>2, <2>3, EmptyStrIsNoValue DEF SubscriptionIdx
    <3>2. LocalsAt("e_subscriptions", [l EXCEPT !.cell = @ + 1])
      BY <1>1, <3>1 DEF Locals, LocalsAt, FirstSteps, HashtagSteps, CellSteps, QueueSteps, Waiting
    <3> QED BY <1>1, <1>2, <2>1, <2>3, <3>2
  <2>4. CASE Goto(c, "e_pending", NoLocals)
    <3>1. LocalsAt("e_pending", NoLocals)
      BY StartConstants DEF LocalsAt, FirstSteps, HashtagSteps, CellSteps, QueueSteps, Waiting
    <3> QED BY <1>1, <1>2, <2>1, <2>4, <3>1
  <2> QED BY <1>7, <2>3, <2>4 DEF ClearSubscription
<1>8. CASE ClearPendingTweet(c)
  <2>1. pc[c] \in ExitSteps /\ l.cell \in PendingTweetIdx
    BY <1>1, <1>8 DEF ClearPendingTweet, ExitSteps, ClearSteps, LocalsAt, QueueSteps
  <2>2. CASE /\ l.cell < MAX_TWEET_QUEUE - 1 /\ UNCHANGED clientUserIdx
             /\ Goto(c, "e_pending", [l EXCEPT !.cell = @ + 1])
    <3>1. l.cell + 1 \in PendingTweetIdx
      BY <2>1, <2>2, EmptyStrIsNoValue DEF PendingTweetIdx
    <3>2. LocalsAt("e_pending", [l EXCEPT !.cell = @ + 1])
      BY <1>1, <3>1 DEF Locals, LocalsAt, FirstSteps, HashtagSteps, CellSteps, QueueSteps, Waiting
    <3> QED BY <1>1, <1>2, <2>1, <2>2, <3>2
  <2>3. CASE Reply(c, "left") /\ clientUserIdx' = [clientUserIdx EXCEPT ![c] = INVALID_USER_INDEX]
    <3>1. IndexAt("left", INVALID_USER_INDEX) /\ "left" \in Waiting
      BY DEF IndexAt, Waiting, InSession, TweetSteps, StoreSteps, UpdateSteps, AddSteps,
             SubscriptionSteps, TimelineSteps, ExitSteps, ClearSteps
    <3> QED BY <1>1, <2>3, <3>1, ReplyKeeps
  <2> QED BY <1>8, <2>2, <2>3 DEF ClearPendingTweet
<1> QED BY <1>3, <1>4, <1>5, <1>6, <1>7, <1>8 DEF Exit

-----------------------------------------------------------------------------
(* Shared memory                                                           *)

Lists == [SubscriptionIdx -> Subscribable \cup {EmptyStr}]
Queues == [PendingTweetIdx -> Formatted \cup {EmptyStr}]

LEMMA AfterType ==
  ASSUME NEW u \in SharedUser, NEW h \in Subscribable
  PROVE  /\ Subscribed(u, h).subscriptions \in Lists
         /\ Unsubscribed(u, h).subscriptions \in Lists
<1>1. u.subscriptions \in Lists
  BY DEF SharedUser, Lists
<1>2. \A s : [u.subscriptions EXCEPT ![s] = h] \in Lists
             /\ [u.subscriptions EXCEPT ![s] = EmptyStr] \in Lists
  BY <1>1 DEF Lists
<1> DEFINE m == FirstEmpty(u.subscriptions, MAX_SUBSCRIPTIONS)
           n == Min({s \in SubscriptionIdx : u.subscriptions[s] = h})
<1>3. Subscribed(u, h).subscriptions \in {u.subscriptions, [u.subscriptions EXCEPT ![m] = h]}
  <2>1. CASE IsSubscriptionsFull(u) \/ IsSubscribed(u, h)
    BY <2>1 DEF Subscribed
  <2>2. CASE ~ (IsSubscriptionsFull(u) \/ IsSubscribed(u, h))
    BY <2>2 DEF Subscribed, SharedUser
  <2> QED BY <2>1, <2>2
<1>4. Unsubscribed(u, h).subscriptions \in {u.subscriptions, [u.subscriptions EXCEPT ![n] = EmptyStr]}
  <2>1. CASE ~ IsSubscribed(u, h)
    BY <2>1 DEF Unsubscribed
  <2>2. CASE IsSubscribed(u, h)
    BY <2>2 DEF Unsubscribed, SharedUser
  <2> QED BY <2>1, <2>2
<1> HIDE DEF m, n
<1> QED BY <1>1, <1>2, <1>3, <1>4

LEMMA WriteUserType ==
  ASSUME activeUsers \in [UserIdx -> SharedUser], NEW i, NEW u \in SharedUser, WriteUser(i, u)
  PROVE  activeUsers' \in [UserIdx -> SharedUser]
BY DEF WriteUser

LEMMA WriteTweetCellType ==
  ASSUME activeUsers \in [UserIdx -> SharedUser], NEW i \in UserIdx,
         NEW j, NEW val \in Formatted \cup {EmptyStr}, WriteTweetCell(i, j, val)
  PROVE  activeUsers' \in [UserIdx -> SharedUser]
<1>1. [activeUsers[i].pendingTweets EXCEPT ![j] = val] \in Queues
  BY DEF SharedUser, Queues
<1>2. [activeUsers[i] EXCEPT !.pendingTweets = [@ EXCEPT ![j] = val]] \in SharedUser
  BY <1>1 DEF SharedUser, Queues
<1> QED BY <1>2, WriteUserType DEF WriteTweetCell

(* The index of the child that handles a request is one.                   *)
LEMMA OwnEntry ==
  ASSUME TypeInv, NEW c \in Clients, pc[c] \in InSession
  PROVE  clientUserIdx[c] \in UserIdx /\ Entry(c) \in SharedUser
BY DEF TypeInv, Control, IndexAt, Entry

LEMMA UsersStep ==
  ASSUME TypeInv, NEW c \in Clients,
         Validate(c) \/ Tweet(c) \/ Subscription(c) \/ Timeline(c) \/ Exit(c)
  PROVE  activeUsers' \in [UserIdx -> SharedUser]
<1> DEFINE l == local[c]
<1>1. /\ activeUsers \in [UserIdx -> SharedUser]
      /\ l \in Locals /\ l.userIdx \in UserIdx /\ l.item \in Formatted
      /\ activeUsers[l.userIdx] \in SharedUser
  BY DEF TypeInv, Control, Locals
<1>2. EmptyStr \in Formatted \cup {EmptyStr}
  OBVIOUS
<1>3. UNCHANGED activeUsers => activeUsers' \in [UserIdx -> SharedUser]
  BY <1>1
<1>4. CASE Validate(c)
  <2>1. CASE Occupy(c)
    <3>1. [activeUsers[l.userIdx] EXCEPT !.isOccupied = TRUE] \in SharedUser
      BY <1>1 DEF SharedUser
    <3> QED BY <1>1, <2>1, <3>1, WriteUserType DEF Occupy
  <2>2. CASE WriteUsername(c)
    <3>1. [activeUsers[l.userIdx] EXCEPT !.username = NameOf[c]] \in SharedUser
      BY <1>1, ChildStepsAssumption DEF SharedUser
    <3> QED BY <1>1, <2>2, <3>1, WriteUserType DEF WriteUsername
  <2>3. CASE BeginValidate(c) \/ CheckOccupied(c) \/ CheckUsername(c) \/ TakeEntry(c)
    BY <1>3, <2>3 DEF BeginValidate, Begin, CheckOccupied, CheckUsername, TakeEntry, OnlyReads, shared
  <2> QED BY <1>4, <2>1, <2>2, <2>3 DEF Validate
<1>5. CASE Tweet(c)
  <2>1. CASE PutTweet(c)
    BY <1>1, <2>1, WriteTweetCellType DEF PutTweet
  <2>2. CASE \E tags \in TagLists : BeginTweet(c, tags)
    BY <1>3, <2>2 DEF BeginTweet, Begin, shared
  <2>3. CASE \/ StoreUsername(c) \/ StoreText(c) \/ StoreCount(c)
             \/ ClearHashtag(c) \/ MoreHashtags(c) \/ StoreHashtag(c)
    BY <1>3, <2>3 DEF StoreUsername, StoreText, StoreCount, ClearHashtag, MoreHashtags, StoreHashtag,
                      WriteLatest, WriteHashtag, OnlyReads, shared
  <2>4. CASE \/ UpdateOccupied(c) \/ UpdateSubscribedAll(c) \/ MoreToMatch(c) \/ Match(c)
             \/ FormatTo(c) \/ FormatFrom(c) \/ FormatText(c) \/ FormatTag(c) \/ FindTweetCell(c)
    BY <1>3, <2>4 DEF UpdateOccupied, UpdateSubscribedAll, MoreToMatch, Match, FormatTo, FormatFrom,
                      FormatText, FormatTag, FindTweetCell, OnlyReads, shared
  <2> QED BY <1>5, <2>1, <2>2, <2>3, <2>4 DEF Tweet
<1>6. CASE Subscription(c)
  <2>1. CASE \E h \in Subscribable :
               BeginSubscription(c, "subscribe", h) \/ BeginSubscription(c, "unsubscribe", h)
    BY <1>3, <2>1 DEF BeginSubscription, Begin, shared
  <2>2. CASE WriteList(c)
    <3>1. pc[c] \in InSession /\ pc[c] \in SubscriptionSteps
      BY <2>2 DEF WriteList, InSession, SubscriptionSteps
    <3>2. request[c].hashtag \in Subscribable
      BY <3>1 DEF TypeInv, Control, RequestAt
    <3>3. After(c).subscriptions \in Lists
      BY <3>1, <3>2, OwnEntry, AfterType DEF After
    <3>4. [Entry(c) EXCEPT !.subscriptions = After(c).subscriptions] \in SharedUser
      BY <3>1, <3>3, OwnEntry DEF SharedUser, Lists
    <3> QED BY <1>1, <2>2, <3>4, WriteUserType DEF WriteList
  <2>3. CASE WriteSubscribedAll(c)
    <3>1. pc[c] \in InSession
      BY <2>3 DEF WriteSubscribedAll, InSession, SubscriptionSteps
    <3>2. [Entry(c) EXCEPT !.isSubscribedAll = (request[c].kind = "subscribe")] \in SharedUser
      BY <3>1, OwnEntry DEF SharedUser
    <3> QED BY <1>1, <2>3, <3>2, WriteUserType DEF WriteSubscribedAll
  <2> QED BY <1>6, <2>1, <2>2, <2>3 DEF Subscription
<1>7. CASE Timeline(c)
  <2>1. CASE ClearTweet(c)
    <3>1. clientUserIdx[c] \in UserIdx
      BY <2>1, OwnEntry DEF ClearTweet, InSession, TimelineSteps
    <3> QED BY <1>1, <1>2, <2>1, <3>1, WriteTweetCellType DEF ClearTweet
  <2>2. CASE BeginTimeline(c) \/ FirstTweet(c) \/ ScanTweet(c) \/ CopyTweet(c)
    BY <1>3, <2>2 DEF BeginTimeline, Begin, FirstTweet, ScanTweet, CopyTweet, OnlyReads, shared
  <2> QED BY <1>7, <2>1, <2>2 DEF Timeline
<1>8. CASE Exit(c)
  <2>1. CASE BeginExit(c)
    BY <1>3, <2>1 DEF BeginExit, Begin, shared
  <2>2. ASSUME pc[c] \in ExitSteps
        PROVE  /\ Entry(c) \in SharedUser
               /\ [Entry(c) EXCEPT !.isOccupied = FALSE] \in SharedUser
               /\ [Entry(c) EXCEPT !.isSubscribedAll = FALSE] \in SharedUser
               /\ [Entry(c) EXCEPT !.username = EmptyStr] \in SharedUser
    BY <2>2, OwnEntry DEF InSession, SharedUser
  <2>3. ASSUME pc[c] \in ExitSteps, NEW s
        PROVE  /\ [Entry(c) EXCEPT !.subscriptions = [@ EXCEPT ![s] = EmptyStr]] \in SharedUser
               /\ [Entry(c) EXCEPT !.pendingTweets = [@ EXCEPT ![s] = EmptyStr]] \in SharedUser
    <3>1. [Entry(c).subscriptions EXCEPT ![s] = EmptyStr] \in Lists
      BY <2>2, <2>3 DEF SharedUser, Lists
    <3>2. [Entry(c).pendingTweets EXCEPT ![s] = EmptyStr] \in Queues
      BY <2>2, <2>3 DEF SharedUser, Queues
    <3> QED BY <2>2, <2>3, <3>1, <3>2 DEF SharedUser, Lists, Queues
  <2>4. CASE ClearOccupied(c)
    BY <1>1, <2>2, <2>4, WriteUserType DEF ClearOccupied, ExitSteps
  <2>5. CASE ClearSubscribedAll(c) \/ ClearUsername(c)
    BY <1>1, <2>2, <2>5, WriteUserType
       DEF ClearSubscribedAll, ClearUsername, ClearField, ExitSteps, ClearSteps
  <2>6. CASE ClearSubscription(c)
    BY <1>1, <2>3, <2>6, WriteUserType DEF ClearSubscription, ClearField, ExitSteps, ClearSteps
  <2>7. CASE ClearPendingTweet(c)
    BY <1>1, <1>3, <2>3, <2>7, WriteUserType DEF ClearPendingTweet, ClearField, shared, ExitSteps, ClearSteps
  <2> QED BY <1>8, <2>1, <2>4, <2>5, <2>6, <2>7 DEF Exit
<1> QED BY <1>4, <1>5, <1>6, <1>7, <1>8

(* Only a tweet writes latestTweet, and latestTweet only holds what it may. *)
LEMMA LatestStep ==
  ASSUME TypeInv, NEW c \in Clients,
         Validate(c) \/ Tweet(c) \/ Subscription(c) \/ Timeline(c) \/ Exit(c)
  PROVE  LatestType' /\ (latestTweet' = latestTweet \/ pc[c] \in StoreSteps)
<1> DEFINE l == local[c]
<1>1. /\ LatestType /\ l \in Locals /\ RequestAt(pc[c], request[c]) /\ LocalsAt(pc[c], l)
  BY DEF TypeInv, Control
<1>2. latestTweet' = latestTweet => LatestType'
  BY <1>1 DEF LatestType
<1>3. ASSUME pc[c] \in StoreSteps
      PROVE  /\ request[c].text \in Nat
             /\ Len(request[c].tags) \in 0 .. MAX_HASHTAG_CNT
             /\ request[c].tags \in Seq(Hashtags)
  <2>1. request[c].text \in Nat /\ request[c].tags \in Seq(Hashtags)
          /\ Len(request[c].tags) <= MAX_HASHTAG_CNT
    BY <1>1, <1>3 DEF RequestAt, TweetSteps
  <2> QED BY <2>1, StartConstants
<1>4. CASE Validate(c)
  BY <1>2, <1>4 DEF Validate, BeginValidate, Begin, CheckOccupied, CheckUsername, TakeEntry, Occupy,
                    WriteUsername, OnlyReads, shared
<1>5. CASE Subscription(c)
  BY <1>2, <1>5 DEF Subscription, BeginSubscription, Begin, WriteList, WriteSubscribedAll, shared
<1>6. CASE Timeline(c)
  BY <1>2, <1>6 DEF Timeline, BeginTimeline, Begin, FirstTweet, ScanTweet, CopyTweet, ClearTweet,
                    OnlyReads, shared
<1>7. CASE Exit(c)
  BY <1>2, <1>7 DEF Exit, BeginExit, Begin, ClearOccupied, ClearSubscribedAll, ClearUsername,
                    ClearSubscription, ClearPendingTweet, ClearField, shared
<1>8. CASE Tweet(c)
  <2>1. CASE StoreUsername(c)
    <3>1. [latestTweet EXCEPT !.username = NameOf[c]]
            \in [username: Usernames \cup {EmptyStr}, ttweetString: Nat,
                 hashtags: [HashtagIdx -> Hashtags \cup {EmptyStr}],
                 numValidHashtags: 0 .. MAX_HASHTAG_CNT]
      BY <1>1, ChildStepsAssumption DEF LatestType
    <3> QED BY <2>1, <3>1 DEF StoreUsername, WriteLatest, LatestType, StoreSteps
  <2>2. CASE StoreText(c)
    <3>1. pc[c] \in StoreSteps
      BY <2>2 DEF StoreText, StoreSteps
    <3>2. [latestTweet EXCEPT !.ttweetString = request[c].text]
            \in [username: Usernames \cup {EmptyStr}, ttweetString: Nat,
                 hashtags: [HashtagIdx -> Hashtags \cup {EmptyStr}],
                 numValidHashtags: 0 .. MAX_HASHTAG_CNT]
      BY <1>1, <1>3, <3>1 DEF LatestType
    <3> QED BY <2>2, <3>1, <3>2 DEF StoreText, WriteLatest, LatestType
  <2>3. CASE StoreCount(c)
    <3>1. pc[c] \in StoreSteps
      BY <2>3 DEF StoreCount, StoreSteps
    <3> DEFINE n == Len(request[c].tags)
    <3>2. n \in 0 .. MAX_HASHTAG_CNT
      BY <1>3, <3>1
    <3> HIDE DEF n
    <3>3. [latestTweet EXCEPT !.numValidHashtags = n]
            \in [username: Usernames \cup {EmptyStr}, ttweetString: Nat,
                 hashtags: [HashtagIdx -> Hashtags \cup {EmptyStr}],
                 numValidHashtags: 0 .. MAX_HASHTAG_CNT]
      BY <1>1, <3>2 DEF LatestType
    <3> QED BY <2>3, <3>1, <3>3 DEF StoreCount, WriteLatest, LatestType, n
  <2>4. ASSUME NEW k, NEW h \in Hashtags \cup {EmptyStr}, WriteHashtag(k, h)
        PROVE  LatestType'
    <3>1. [latestTweet.hashtags EXCEPT ![k] = h] \in [HashtagIdx -> Hashtags \cup {EmptyStr}]
      BY <1>1 DEF LatestType
    <3>2. [latestTweet EXCEPT !.hashtags = [@ EXCEPT ![k] = h]]
            \in [username: Usernames \cup {EmptyStr}, ttweetString: Nat,
                 hashtags: [HashtagIdx -> Hashtags \cup {EmptyStr}],
                 numValidHashtags: 0 .. MAX_HASHTAG_CNT]
      BY <1>1, <3>1 DEF LatestType
    <3> QED BY <2>4, <3>2 DEF WriteHashtag, WriteLatest, LatestType
  <2>5. CASE ClearHashtag(c)
    BY <2>4, <2>5 DEF ClearHashtag, StoreSteps
  <2>6. CASE StoreHashtag(c)
    <3>1. pc[c] \in StoreSteps
      BY <2>6 DEF StoreHashtag, StoreSteps
    <3> DEFINE k == l.hashtagIdx
               tags == request[c].tags
    <3>2. tags \in Seq(Hashtags) /\ k \in Nat
      BY <1>1, <1>3, <3>1 DEF Locals
    <3>3. CASE k < Len(tags) /\ WriteHashtag(k, tags[k + 1])
      <4>1. tags[k + 1] \in Hashtags
        BY <3>2, <3>3
      <4> QED BY <2>4, <3>1, <3>3, <4>1
    <3>4. CASE UNCHANGED latestTweet
      BY <1>2, <3>4
    <3> QED BY <2>6, <3>3, <3>4 DEF StoreHashtag, OnlyReads, shared
  <2>7. CASE (\E tags \in TagLists : BeginTweet(c, tags)) \/ MoreHashtags(c)
    BY <1>2, <2>7 DEF BeginTweet, Begin, MoreHashtags, OnlyReads, shared
  <2>8. CASE \/ UpdateOccupied(c) \/ UpdateSubscribedAll(c) \/ MoreToMatch(c) \/ Match(c)
             \/ FormatTo(c) \/ FormatFrom(c) \/ FormatText(c) \/ FormatTag(c) \/ FindTweetCell(c)
             \/ PutTweet(c)
    BY <1>2, <2>8 DEF UpdateOccupied, UpdateSubscribedAll, MoreToMatch, Match, FormatTo, FormatFrom,
                      FormatText, FormatTag, FindTweetCell, PutTweet, OnlyReads, shared
  <2> QED BY <1>8, <2>1, <2>2, <2>3, <2>5, <2>6, <2>7, <2>8 DEF Tweet
<1> QED BY <1>4, <1>5, <1>6, <1>7, <1>8

(* What a child has sent grows by a tweet of its own, and what it has      *)
(* shown by the item in a cell of its own queue.                           *)
LEMMA HistoryStep ==
  ASSUME TypeInv, NEW c \in Clients,
         Validate(c) \/ Tweet(c) \/ Subscription(c) \/ Timeline(c) \/ Exit(c)
  PROVE  HistoryType'
<1>1. HistoryType /\ LocalsAt(pc[c], local[c])
  BY DEF TypeInv, Control
<1>2. sent' = sent /\ storedTweets' = storedTweets => HistoryType'
  BY <1>1 DEF HistoryType
<1>3. CASE Validate(c)
  BY <1>2, <1>3 DEF Validate, BeginValidate, Begin, CheckOccupied, CheckUsername, TakeEntry, Occupy,
                    WriteUsername, OnlyReads, history
<1>4. CASE Subscription(c)
  BY <1>2, <1>4 DEF Subscription, BeginSubscription, Begin, WriteList, WriteSubscribedAll, history
<1>5. CASE Exit(c)
  BY <1>2, <1>5 DEF Exit, BeginExit, Begin, ClearOccupied, ClearSubscribedAll, ClearUsername,
                    ClearSubscription, ClearPendingTweet, ClearField, history
<1>6. CASE Tweet(c)
  <2>1. ASSUME NEW tags \in TagLists, BeginTweet(c, tags)
        PROVE  HistoryType'
    <3>1. [from |-> NameOf[c], tags |-> tags] \in [from: Usernames, tags: Seq(Hashtags)]
      BY ChildStepsAssumption
    <3>2. sent' = Append(sent, [from |-> NameOf[c], tags |-> tags]) /\ storedTweets' = storedTweets
      BY <2>1 DEF BeginTweet, Begin
    <3> QED BY <1>1, <3>1, <3>2 DEF HistoryType
  <2>2. CASE \/ StoreUsername(c) \/ StoreText(c) \/ StoreCount(c)
             \/ ClearHashtag(c) \/ MoreHashtags(c) \/ StoreHashtag(c)
    BY <1>2, <2>2 DEF StoreUsername, StoreText, StoreCount, ClearHashtag, MoreHashtags, StoreHashtag,
                      WriteLatest, WriteHashtag, OnlyReads, history
  <2>3. CASE \/ UpdateOccupied(c) \/ UpdateSubscribedAll(c) \/ MoreToMatch(c) \/ Match(c)
             \/ FormatTo(c) \/ FormatFrom(c) \/ FormatText(c) \/ FormatTag(c) \/ FindTweetCell(c)
             \/ PutTweet(c)
    BY <1>2, <2>3 DEF UpdateOccupied, UpdateSubscribedAll, MoreToMatch, Match, FormatTo, FormatFrom,
                      FormatText, FormatTag, FindTweetCell, PutTweet, OnlyReads, history
  <2> QED BY <1>6, <2>1, <2>2, <2>3 DEF Tweet
<1>7. CASE Timeline(c)
  <2>1. CASE BeginTimeline(c) \/ FirstTweet(c) \/ ScanTweet(c) \/ ClearTweet(c)
    BY <1>2, <2>1 DEF BeginTimeline, Begin, FirstTweet, ScanTweet, ClearTweet, OnlyReads, history
  <2>2. CASE CopyTweet(c)
    <3> DEFINE item == Entry(c).pendingTweets[local[c].cell]
    <3>1. Entry(c) \in SharedUser /\ local[c].cell \in PendingTweetIdx
      BY <1>1, <2>2, OwnEntry DEF CopyTweet, InSession, TimelineSteps, LocalsAt, QueueSteps
    <3>2. item \in Formatted \cup {EmptyStr}
      BY <3>1 DEF SharedUser
    <3>3. storedTweets' = [storedTweets EXCEPT ![c] = Append(@, item)] /\ sent' = sent
      BY <2>2 DEF CopyTweet
    <3> HIDE DEF item
    <3>4. Append(storedTweets[c], item) \in Seq(Formatted \cup {EmptyStr})
      BY <1>1, <3>2 DEF HistoryType
    <3> QED BY <1>1, <3>3, <3>4 DEF HistoryType
  <2> QED BY <1>7, <2>1, <2>2 DEF Timeline
<1> QED BY <1>3, <1>4, <1>5, <1>6, <1>7

-----------------------------------------------------------------------------

LEMMA TypeInit == Init => TypeInv
<1> SUFFICES ASSUME Init PROVE TypeInv
  OBVIOUS
<1>1. activeUsers \in [UserIdx -> SharedUser]
  <2>1. User \subseteq SharedUser
    BY DEF User, SharedUser, TweetItem, Formatted
  <2> QED BY <2>1, ChildStepsAssumption DEF Init
<1>2. LatestType /\ HistoryType
  BY StartConstants DEF Init, LatestType, HistoryType
<1>3. Control
  <2>1. /\ pc \in [Clients -> {"connected", "ready"}]
        /\ clientUserIdx \in [Clients -> UserIdx \cup {INVALID_USER_INDEX}]
        /\ \A c \in Clients : pc[c] = "ready" => clientUserIdx[c] \in UserIdx
        /\ \A c \in Clients : pc[c] = "connected" => clientUserIdx[c] = INVALID_USER_INDEX
    BY ChildStepsAssumption DEF Init
  <2>2. ASSUME NEW p \in {"connected", "ready"}
        PROVE  /\ RequestAt(p, NoRequest) /\ LocalsAt(p, NoLocals) /\ p \in Waiting
               /\ p = "connected" => p \notin InSession
               /\ p = "ready" => p \notin (Waiting \ InSession) \cup ValidateSteps
    BY StartConstants DEF RequestAt, LocalsAt, Waiting, ValidateSteps, TweetSteps, StoreSteps,
       UpdateSteps, AddSteps, SubscriptionSteps, TimelineSteps, ExitSteps, ClearSteps, InSession,
       FirstSteps, HashtagSteps, CellSteps, QueueSteps
  <2>3. request = [c \in Clients |-> NoRequest] /\ local = [c \in Clients |-> NoLocals]
    BY DEF Init
  <2>4. pc \in [Clients -> Waiting \cup ValidateSteps \cup InSession]
    BY <2>1, <2>2
  <2>5. \A c \in Clients : IndexAt(pc[c], clientUserIdx[c])
    BY <2>1, <2>2 DEF IndexAt
  <2> QED BY <2>1, <2>2, <2>3, <2>4, <2>5, StartConstants DEF Control
<1> QED BY <1>1, <1>2, <1>3 DEF TypeInv

LEMMA TypeStep ==
  ASSUME TypeInv, NEW c \in Clients,
         Validate(c) \/ Tweet(c) \/ Subscription(c) \/ Timeline(c) \/ Exit(c)
  PROVE  TypeInv'
<1>1. Control'
  BY ValidateControl, TweetControl, SubscriptionControl, TimelineControl, ExitControl DEF TypeInv
<1> QED BY <1>1, UsersStep, LatestStep, HistoryStep DEF TypeInv

LEMMA TypeStutter == TypeInv /\ UNCHANGED vars => TypeInv'
BY DEF TypeInv, LatestType, HistoryType, Control, vars, shared, history

(* Every index that a handler uses lies in its array, whatever requests of *)
(* however many clients overlap: the loops count with variables of their   *)
(* own, and the count in latestTweet never exceeds its array.              *)
THEOREM TypeCorrect == Spec => []TypeOK
<1>1. TypeInv /\ [Next]_vars => TypeInv'
  BY TypeStep, TypeStutter DEF Next
<1> QED BY <1>1, TypeInit, TypeInvSuffices, PTL DEF Spec

-----------------------------------------------------------------------------
(* How a child moves                                                       *)

Moves(c, S, done) ==
  \/ pc[c] \in Waiting /\ \E r, first : first \in S /\ Begin(c, r, first)
  \/ pc[c] \in S /\ \E there \in S : \E l : Goto(c, there, l)
  \/ pc[c] \in S /\ \E state \in done : Reply(c, state)

LEMMA ValidateMoves ==
  ASSUME NEW c, Validate(c)
  PROVE  Moves(c, ValidateSteps, {"ready", "refused", "unanswered"})
<1>1. /\ "v_occupied" \in ValidateSteps /\ "v_username" \in ValidateSteps
      /\ "v_take" \in ValidateSteps /\ "v_occupy" \in ValidateSteps
      /\ "v_write_username" \in ValidateSteps /\ "connected" \in Waiting
  BY DEF ValidateSteps, Waiting
<1>2. ASSUME pc[c] \in ValidateSteps, NEW l, NextName(c, l)
      PROVE  Moves(c, ValidateSteps, {"ready", "refused", "unanswered"})
  BY <1>1, <1>2 DEF NextName, Moves
<1>3. CASE BeginValidate(c)
  BY <1>1, <1>3 DEF BeginValidate, Moves
<1>4. CASE CheckOccupied(c)
  BY <1>1, <1>2, <1>4 DEF CheckOccupied, Moves
<1>5. CASE CheckUsername(c)
  BY <1>1, <1>2, <1>5 DEF CheckUsername, Moves
<1>6. CASE TakeEntry(c)
  BY <1>1, <1>6 DEF TakeEntry, Moves
<1>7. CASE Occupy(c) \/ WriteUsername(c)
  BY <1>1, <1>7 DEF Occupy, WriteUsername, Moves
<1> QED BY <1>3, <1>4, <1>5, <1>6, <1>7 DEF Validate

LEMMA TweetMoves ==
  ASSUME NEW c, Tweet(c)
  PROVE  Moves(c, TweetSteps, {"ready", "crashed"})
<1>1. /\ {"t_username", "t_text", "t_count", "t_clear", "t_more", "t_hashtag",
           "u_occupied", "u_all", "u_more", "u_match",
           "a_to", "a_from", "a_text", "a_tag", "a_scan", "a_put"} \subseteq TweetSteps
      /\ "ready" \in Waiting
  BY DEF TweetSteps, StoreSteps, UpdateSteps, AddSteps, Waiting
<1>2. ASSUME pc[c] \in TweetSteps, NextUser(c)
      PROVE  Moves(c, TweetSteps, {"ready", "crashed"})
  BY <1>1, <1>2 DEF NextUser, Moves
<1>3. CASE \E tags \in TagLists : BeginTweet(c, tags)
  BY <1>1, <1>3 DEF BeginTweet, Moves
<1>4. CASE StoreUsername(c) \/ StoreText(c) \/ StoreCount(c)
  BY <1>1, <1>4 DEF StoreUsername, StoreText, StoreCount, Moves
<1>5. CASE ClearHashtag(c) \/ MoreHashtags(c)
  BY <1>1, <1>5 DEF ClearHashtag, MoreHashtags, Moves
<1>6. CASE StoreHashtag(c)
  BY <1>1, <1>6 DEF StoreHashtag, Moves
<1>7. CASE UpdateOccupied(c) \/ UpdateSubscribedAll(c)
  BY <1>1, <1>2, <1>7 DEF UpdateOccupied, UpdateSubscribedAll, Moves
<1>8. CASE MoreToMatch(c)
  BY <1>1, <1>2, <1>8 DEF MoreToMatch, Moves
<1>9. CASE Match(c)
  BY <1>1, <1>9 DEF Match, Moves
<1>10. CASE FormatTo(c) \/ FormatFrom(c) \/ FormatText(c) \/ FormatTag(c)
  BY <1>1, <1>10 DEF FormatTo, FormatFrom, FormatText, FormatTag, Moves
<1>11. CASE FindTweetCell(c)
  BY <1>1, <1>2, <1>11 DEF FindTweetCell, Moves
<1>12. CASE PutTweet(c)
  BY <1>1, <1>2, <1>12 DEF PutTweet, Moves
<1> QED
  BY <1>3, <1>4, <1>5, <1>6, <1>7, <1>8, <1>9, <1>10, <1>11, <1>12 DEF Tweet

LEMMA SubscriptionMoves ==
  ASSUME NEW c, Subscription(c)
  PROVE  Moves(c, SubscriptionSteps, {"ready"})
<1>1. CASE \E h \in Subscribable :
             BeginSubscription(c, "subscribe", h) \/ BeginSubscription(c, "unsubscribe", h)
  BY <1>1 DEF BeginSubscription, Moves, Waiting, SubscriptionSteps
<1>2. CASE WriteList(c) \/ WriteSubscribedAll(c)
  BY <1>2 DEF WriteList, WriteSubscribedAll, Moves, SubscriptionSteps
<1> QED BY <1>1, <1>2 DEF Subscription

LEMMA TimelineMoves ==
  ASSUME NEW c, Timeline(c)
  PROVE  Moves(c, TimelineSteps, {"ready"})
<1>1. CASE BeginTimeline(c) \/ CopyTweet(c)
  BY <1>1 DEF BeginTimeline, CopyTweet, Moves, Waiting, TimelineSteps
<1>2. CASE FirstTweet(c) \/ ScanTweet(c)
  BY <1>2 DEF FirstTweet, ScanTweet, Moves, TimelineSteps
<1>3. CASE ClearTweet(c)
  BY <1>3 DEF ClearTweet, Moves, TimelineSteps
<1> QED BY <1>1, <1>2, <1>3 DEF Timeline

LEMMA ExitMoves ==
  ASSUME NEW c, Exit(c)
  PROVE  Moves(c, ExitSteps, {"left"})
<1>1. CASE BeginExit(c) \/ ClearOccupied(c)
  BY <1>1 DEF BeginExit, ClearOccupied, Moves, Waiting, ExitSteps, ClearSteps
<1>2. CASE ClearSubscribedAll(c) \/ ClearUsername(c)
  BY <1>2 DEF ClearSubscribedAll, ClearUsername, Moves, ExitSteps, ClearSteps
<1>3. CASE ClearSubscription(c)
  BY <1>3 DEF ClearSubscription, Moves, ExitSteps, ClearSteps
<1>4. CASE ClearPendingTweet(c)
  BY <1>4 DEF ClearPendingTweet, Moves, ExitSteps, ClearSteps
<1> QED BY <1>1, <1>2, <1>3, <1>4 DEF Exit

LEMMA OthersStay ==
  ASSUME Control, NEW c \in Clients, NEW S, NEW done, Moves(c, S, done), NEW d \in Clients \ {c}
  PROVE  pc'[d] = pc[d] /\ request'[d] = request[d] /\ local'[d] = local[d]
BY DEF Control, Moves, Begin, Goto, Reply

LEMMA MovesTo ==
  ASSUME Control, NEW c \in Clients, NEW S, NEW done, Moves(c, S, done)
  PROVE  pc'[c] \in S \cup done
BY DEF Control, Moves, Begin, Goto, Reply

(* The regions of a handler are apart.                                     *)
LEMMA Regions ==
  /\ ValidateSteps \cap (Waiting \cup TweetSteps \cup SubscriptionSteps \cup TimelineSteps \cup ExitSteps) = {}
  /\ TweetSteps \cap (Waiting \cup SubscriptionSteps \cup TimelineSteps \cup ExitSteps) = {}
  /\ SubscriptionSteps \cap (Waiting \cup TimelineSteps \cup ExitSteps) = {}
  /\ TimelineSteps \cap (Waiting \cup ExitSteps) = {}
  /\ ExitSteps \cap Waiting = {}
  /\ ClearSteps \subseteq ExitSteps
  /\ {"ready", "crashed", "refused", "unanswered", "left", "connected"} = Waiting
BY DEF Waiting, ValidateSteps, TweetSteps, StoreSteps, UpdateSteps, AddSteps, SubscriptionSteps,
       TimelineSteps, ExitSteps, ClearSteps

-----------------------------------------------------------------------------
(* Which requests overlap                                                  *)

(* Of two requests that are handled, the later one was let in.             *)
Overlapping ==
  \A c, d \in Clients : Busy(c) /\ Busy(d) /\ c # d =>
    \/ <<request[c].kind, request[d].kind>> \in MayOverlap
    \/ <<request[d].kind, request[c].kind>> \in MayOverlap

LEMMA OverlappingMove ==
  ASSUME Control, Overlapping, NEW c \in Clients, NEW S, NEW done,
         Moves(c, S, done), S \cap Waiting = {}, done \subseteq Waiting
  PROVE  Overlapping'
<1>1. SUFFICES ASSUME NEW a \in Clients, NEW b \in Clients, Busy(a)', Busy(b)', a # b
               PROVE  \/ <<request'[a].kind, request'[b].kind>> \in MayOverlap
                      \/ <<request'[b].kind, request'[a].kind>> \in MayOverlap
  BY DEF Overlapping
<1>2. \A d \in Clients \ {c} : pc'[d] = pc[d] /\ request'[d] = request[d]
  BY OthersStay
<1>3. pc'[a] \notin Waiting /\ pc'[b] \notin Waiting
  BY <1>1 DEF Busy
<1>4. CASE a # c /\ b # c
  <2>1. Busy(a) /\ Busy(b)
    BY <1>2, <1>3, <1>4 DEF Busy
  <2> QED BY <1>1, <1>2, <1>4, <2>1 DEF Overlapping
<1>5. ASSUME NEW d \in Clients \ {c}, pc'[c] \notin Waiting, pc'[d] \notin Waiting
      PROVE  \/ <<request'[c].kind, request'[d].kind>> \in MayOverlap
             \/ <<request'[d].kind, request'[c].kind>> \in MayOverlap
  <2>1. Busy(d) /\ request'[d] = request[d]
    BY <1>2, <1>5 DEF Busy
  <2>2. CASE \E r, first : Begin(c, r, first)
    <3>1. PICK r, first : Begin(c, r, first)
      BY <2>2
    <3>2. request'[c] = r /\ <<r.kind, request[d].kind>> \in MayOverlap
      BY <2>1, <3>1 DEF Begin, Control
    <3> QED BY <2>1, <3>2
  <2>3. CASE pc[c] \in S /\ \E there \in S : \E l : Goto(c, there, l)
    <3>1. request'[c] = request[c] /\ Busy(c)
      BY <2>3 DEF Goto, Busy
    <3> QED BY <2>1, <3>1 DEF Overlapping
  <2>4. CASE \E state \in done : Reply(c, state)
    <3>1. pc'[c] \in done
      BY <2>4 DEF Reply, Control
    <3> QED BY <1>5, <3>1
  <2> QED BY <2>2, <2>3, <2>4 DEF Moves
<1> QED BY <1>1, <1>3, <1>4, <1>5

LEMMA OverlappingStep ==
  ASSUME TypeInv, Overlapping, NEW c \in Clients,
         Validate(c) \/ Tweet(c) \/ Subscription(c) \/ Timeline(c) \/ Exit(c)
  PROVE  Overlapping'
<1>1. Control
  BY DEF TypeInv
<1>2. CASE Validate(c)
  BY <1>1, <1>2, ValidateMoves, OverlappingMove, Regions
<1>3. CASE Tweet(c)
  BY <1>1, <1>3, TweetMoves, OverlappingMove, Regions
<1>4. CASE Subscription(c)
  BY <1>1, <1>4, SubscriptionMoves, OverlappingMove, Regions
<1>5. CASE Timeline(c)
  BY <1>1, <1>5, TimelineMoves, OverlappingMove, Regions
<1>6. CASE Exit(c)
  BY <1>1, <1>6, ExitMoves, OverlappingMove, Regions
<1> QED BY <1>2, <1>3, <1>4, <1>5, <1>6

-----------------------------------------------------------------------------
(* Names                                                                   *)

(* A child in session has an entry of its own, under a name of its own.    *)
Seats ==
  \A c \in Clients : HasEntry(c) =>
    /\ pc[c] \notin ClearSteps => Entry(c).isOccupied /\ Entry(c).username = NameOf[c]
    /\ \A d \in Clients \ {c} : HasEntry(d) =>
         clientUserIdx[d] # clientUserIdx[c] /\ NameOf[d] # NameOf[c]

(* A child that validates has found its name in no entry that it has       *)
(* passed, and takes an entry that is nobody's.                            *)
Searching(c) ==
  /\ \A d \in Clients : HasEntry(d) =>
       /\ pc[c] \in {"v_occupied", "v_username"} /\ clientUserIdx[d] < local[c].userIdx =>
            NameOf[d] # NameOf[c]
       /\ pc[c] \in {"v_take", "v_occupy", "v_write_username"} => NameOf[d] # NameOf[c]
       /\ pc[c] \in {"v_occupy", "v_write_username"} => clientUserIdx[d] # local[c].userIdx
  /\ pc[c] = "v_write_username" => activeUsers[local[c].userIdx].isOccupied

NamesInv == TypeInv /\ Overlapping /\ Seats /\ \A c \in Clients : Searching(c)

RegistersAlone ==
  MayOverlap \cap {<<"validate", "validate">>, <<"validate", "exit">>, <<"exit", "validate">>} = {}

LEMMA ValidatesAlone ==
  ASSUME RegistersAlone, TypeInv, Overlapping, NEW c \in Clients, NEW d \in Clients,
         pc[c] \in ValidateSteps, pc[d] \in ValidateSteps \cup ExitSteps
  PROVE  c = d
<1>1. Busy(c) /\ Busy(d)
  BY Regions DEF Busy
<1>2. request[c].kind = "validate" /\ request[d].kind \in {"validate", "exit"}
  BY DEF TypeInv, Control, RequestAt
<1> QED BY <1>1, <1>2 DEF Overlapping, RegistersAlone

LEMMA KeepsNames ==
  ASSUME TypeInv, NEW c \in Clients, Tweet(c) \/ Subscription(c) \/ Timeline(c)
  PROVE  /\ clientUserIdx' = clientUserIdx
         /\ \A i \in UserIdx : /\ activeUsers'[i].isOccupied = activeUsers[i].isOccupied
                               /\ activeUsers'[i].username = activeUsers[i].username
<1>1. activeUsers \in [UserIdx -> SharedUser]
  BY DEF TypeInv
<1>2. ASSUME UNCHANGED <<activeUsers, clientUserIdx>>
      PROVE  /\ clientUserIdx' = clientUserIdx
             /\ \A i \in UserIdx : /\ activeUsers'[i].isOccupied = activeUsers[i].isOccupied
                                   /\ activeUsers'[i].username = activeUsers[i].username
  BY <1>2
<1>3. ASSUME NEW i \in UserIdx, NEW j, NEW val, WriteTweetCell(i, j, val)
      PROVE  \A k \in UserIdx : /\ activeUsers'[k].isOccupied = activeUsers[k].isOccupied
                                /\ activeUsers'[k].username = activeUsers[k].username
  <2> DEFINE q == [activeUsers[i].pendingTweets EXCEPT ![j] = val]
  <2>1. activeUsers' = [activeUsers EXCEPT ![i] = [activeUsers[i] EXCEPT !.pendingTweets = q]]
    BY <1>3 DEF WriteTweetCell, WriteUser
  <2> HIDE DEF q
  <2> QED BY <1>1, <2>1 DEF SharedUser
<1>4. CASE Tweet(c)
  <2>1. CASE PutTweet(c)
    <3>1. local[c].userIdx \in UserIdx
      BY DEF TypeInv, Control, Locals
    <3> QED BY <1>3, <2>1, <3>1 DEF PutTweet
  <2>2. CASE \E tags \in TagLists : BeginTweet(c, tags)
    BY <1>2, <2>2 DEF BeginTweet, Begin, shared
  <2>3. CASE \/ StoreUsername(c) \/ StoreText(c) \/ StoreCount(c)
             \/ ClearHashtag(c) \/ MoreHashtags(c) \/ StoreHashtag(c)
    BY <1>2, <2>3 DEF StoreUsername, StoreText, StoreCount, ClearHashtag, MoreHashtags, StoreHashtag,
                      WriteLatest, WriteHashtag, OnlyReads, shared
  <2>4. CASE \/ UpdateOccupied(c) \/ UpdateSubscribedAll(c) \/ MoreToMatch(c) \/ Match(c)
             \/ FormatTo(c) \/ FormatFrom(c) \/ FormatText(c) \/ FormatTag(c) \/ FindTweetCell(c)
    BY <1>2, <2>4 DEF UpdateOccupied, UpdateSubscribedAll, MoreToMatch, Match, FormatTo, FormatFrom,
                      FormatText, FormatTag, FindTweetCell, OnlyReads, shared
  <2> QED BY <1>4, <2>1, <2>2, <2>3, <2>4 DEF Tweet
<1>5. CASE Subscription(c)
  <2>1. CASE \E h \in Subscribable :
               BeginSubscription(c, "subscribe", h) \/ BeginSubscription(c, "unsubscribe", h)
    BY <1>2, <2>1 DEF BeginSubscription, Begin, shared
  <2>2. ASSUME pc[c] \in SubscriptionSteps
        PROVE  clientUserIdx[c] \in UserIdx /\ Entry(c) = activeUsers[clientUserIdx[c]]
    BY <2>2, OwnEntry DEF InSession, Entry
  <2>3. CASE WriteList(c)
    <3> DEFINE list == After(c).subscriptions
    <3>1. /\ activeUsers' = [activeUsers EXCEPT ![clientUserIdx[c]] = [Entry(c) EXCEPT !.subscriptions = list]]
          /\ clientUserIdx' = clientUserIdx /\ pc[c] \in SubscriptionSteps
      BY <2>3 DEF WriteList, WriteUser, SubscriptionSteps
    <3> HIDE DEF list
    <3> QED BY <1>1, <2>2, <3>1 DEF SharedUser
  <2>4. CASE WriteSubscribedAll(c)
    <3> DEFINE flag == request[c].kind = "subscribe"
    <3>1. /\ activeUsers' = [activeUsers EXCEPT ![clientUserIdx[c]] = [Entry(c) EXCEPT !.isSubscribedAll = flag]]
          /\ clientUserIdx' = clientUserIdx /\ pc[c] \in SubscriptionSteps
      BY <2>4 DEF WriteSubscribedAll, WriteUser, SubscriptionSteps
    <3> HIDE DEF flag
    <3> QED BY <1>1, <2>2, <3>1 DEF SharedUser
  <2> QED BY <1>5, <2>1, <2>3, <2>4 DEF Subscription
<1>6. CASE Timeline(c)
  <2>1. CASE ClearTweet(c)
    <3>1. clientUserIdx[c] \in UserIdx
      BY <2>1, OwnEntry DEF ClearTweet, InSession, TimelineSteps
    <3> QED BY <1>3, <2>1, <3>1 DEF ClearTweet
  <2>2. CASE BeginTimeline(c) \/ FirstTweet(c) \/ ScanTweet(c) \/ CopyTweet(c)
    BY <1>2, <2>2 DEF BeginTimeline, Begin, FirstTweet, ScanTweet, CopyTweet, OnlyReads, shared
  <2> QED BY <1>6, <2>1, <2>2 DEF Timeline
<1> QED BY <1>4, <1>5, <1>6

(* A tweet, a subscription or a timeline is nothing to the names.          *)
LEMMA NamesOtherStep ==
  ASSUME NamesInv, NEW c \in Clients, Tweet(c) \/ Subscription(c) \/ Timeline(c)
  PROVE  Seats' /\ \A d \in Clients : Searching(d)'
<1>1. PICK S, done : /\ Moves(c, S, done)
                     /\ S \in {TweetSteps, SubscriptionSteps, TimelineSteps}
                     /\ done \subseteq {"ready", "crashed"}
  BY TweetMoves, SubscriptionMoves, TimelineMoves
<1>2. /\ TypeInv /\ Control /\ Seats /\ \A d \in Clients : Searching(d)
      /\ clientUserIdx \in [Clients -> UserIdx \cup {INVALID_USER_INDEX}]
  BY DEF NamesInv, TypeInv, Control
<1>3. \A d \in Clients \ {c} : pc'[d] = pc[d] /\ local'[d] = local[d]
  BY <1>1, <1>2, OthersStay
<1>4. pc'[c] \notin ValidateSteps \cup ClearSteps /\ pc[c] \notin ClearSteps
  <2>1. pc'[c] \in S \cup {"ready", "crashed"} /\ pc[c] \in S \cup Waiting
    BY <1>1, <1>2, MovesTo DEF Moves
  <2> QED BY <1>1, <2>1, Regions
<1>5. /\ clientUserIdx' = clientUserIdx
      /\ \A i \in UserIdx : /\ activeUsers'[i].isOccupied = activeUsers[i].isOccupied
                            /\ activeUsers'[i].username = activeUsers[i].username
  BY <1>2, KeepsNames
<1>6. Seats'
  <2>1. \A d \in Clients : pc'[d] \notin ClearSteps => pc[d] \notin ClearSteps
    BY <1>3, <1>4
  <2> QED BY <1>2, <1>5, <2>1 DEF Seats, HasEntry, Entry
<1>7. ASSUME NEW d \in Clients
      PROVE  Searching(d)'
  <2>1. CASE d = c
    BY <1>4, <2>1 DEF Searching, ValidateSteps
  <2>2. CASE d # c
    <3>1. local[d].userIdx \in UserIdx
      BY <1>2 DEF Control, Locals
    <3> QED BY <1>2, <1>3, <1>5, <2>2, <3>1 DEF Searching, HasEntry
  <2> QED BY <2>1, <2>2
<1> QED BY <1>6, <1>7

(* Nobody else's search matters while a child validates.                   *)
LEMMA NamesValidateStep ==
  ASSUME RegistersAlone, NamesInv, NEW c \in Clients, Validate(c)
  PROVE  Seats' /\ \A d \in Clients : Searching(d)'
<1> DEFINE l == local[c]
           own == clientUserIdx
<1>1. /\ TypeInv /\ Control /\ Overlapping /\ Seats /\ Searching(c)
      /\ l \in Locals /\ l.userIdx \in UserIdx /\ MAX_CONC_CONN \in Nat
      /\ own \in [Clients -> UserIdx \cup {INVALID_USER_INDEX}]
      /\ pc \in [Clients -> Waiting \cup ValidateSteps \cup InSession]
      /\ local \in [Clients -> Locals]
      /\ activeUsers \in [UserIdx -> SharedUser]
  BY EmptyStrIsNoValue DEF NamesInv, TypeInv, Control, Locals
<1>2. \A d \in Clients \ {c} : pc'[d] = pc[d] /\ local'[d] = local[d]
  BY <1>1, ValidateMoves, OthersStay
<1>3. pc[c] \in {"connected"} \cup ValidateSteps /\ own[c] = INVALID_USER_INDEX
  <2>1. pc[c] \in {"connected"} \cup ValidateSteps
    BY DEF Validate, BeginValidate, CheckOccupied, CheckUsername, TakeEntry, Occupy, WriteUsername, ValidateSteps
  <2>2. pc[c] \in (Waiting \ InSession) \cup ValidateSteps
    BY <2>1 DEF Waiting, InSession, TweetSteps, StoreSteps, UpdateSteps, AddSteps, SubscriptionSteps,
                TimelineSteps, ExitSteps, ClearSteps
  <2> QED BY <1>1, <2>1, <2>2 DEF Control, IndexAt
<1>4. pc'[c] \in ValidateSteps \cup {"ready", "refused", "unanswered"} /\ pc'[c] \notin ClearSteps
  <2>1. pc'[c] \in ValidateSteps \cup {"ready", "refused", "unanswered"}
    BY <1>1, ValidateMoves, MovesTo
  <2> QED BY <2>1, Regions
<1>5. \A d \in Clients \ {c} : pc[d] \notin ValidateSteps \cup ExitSteps
  <2>1. CASE pc[c] \in ValidateSteps
    BY <1>1, <2>1, ValidatesAlone
  <2>2. CASE BeginValidate(c)
    <3>1. ASSUME NEW d \in Clients \ {c}, pc[d] \in ValidateSteps \cup ExitSteps
          PROVE  FALSE
      <4>1. Busy(d) /\ request[d].kind \in {"validate", "exit"}
        BY <1>1, <3>1, Regions DEF Busy, Control, RequestAt
      <4>2. Begin(c, [kind |-> "validate"], "v_occupied")
        BY <2>2 DEF BeginValidate
      <4>3. <<"validate", request[d].kind>> \in MayOverlap
        BY <4>1, <4>2 DEF Begin
      <4> QED BY <4>1, <4>3 DEF RegistersAlone
    <3> QED BY <3>1
  <2>3. ~ BeginValidate(c) => pc[c] \in ValidateSteps
    BY DEF Validate, CheckOccupied, CheckUsername, TakeEntry, Occupy, WriteUsername, ValidateSteps
  <2> QED BY <2>1, <2>2, <2>3
<1>6. ASSUME NEW d \in Clients \ {c}
      PROVE  Searching(d)'
  BY <1>2, <1>5 DEF Searching, ValidateSteps
<1>7. \A d \in Clients : HasEntry(d) => d # c /\ own[d] \in UserIdx /\ own[d] < MAX_CONC_CONN
                            /\ Entry(d).isOccupied /\ Entry(d).username = NameOf[d]
  <2>1. \A d \in Clients \ {c} : pc[d] \notin ClearSteps
    BY <1>5, Regions
  <2> QED BY <1>1, <1>3, <2>1 DEF Seats, HasEntry, UserIdx
<1>8. ASSUME UNCHANGED <<activeUsers, clientUserIdx>>
      PROVE  Seats'
  <2>1. \A d \in Clients : pc'[d] \notin ClearSteps => pc[d] \notin ClearSteps
    BY <1>2, <1>3, Regions
  <2> QED BY <1>1, <1>8, <2>1 DEF Seats, HasEntry, Entry
<1>9. ASSUME NEW m \in Locals, m.userIdx = l.userIdx, NextName(c, m),
             pc[c] \in {"v_occupied", "v_username"}, UNCHANGED <<activeUsers, clientUserIdx>>,
             \A d \in Clients : HasEntry(d) /\ own[d] = l.userIdx => NameOf[d] # NameOf[c]
      PROVE  Searching(c)'
  <2>1. \A d \in Clients : HasEntry(d) /\ own[d] < m.userIdx + 1 => NameOf[d] # NameOf[c]
    <3>1. \A d \in Clients : HasEntry(d) /\ own[d] < l.userIdx => NameOf[d] # NameOf[c]
      BY <1>1, <1>9 DEF Searching
    <3> QED BY <1>1, <1>7, <1>9, <3>1 DEF UserIdx
  <2>2. CASE Goto(c, "v_occupied", [m EXCEPT !.userIdx = @ + 1])
    <3>1. pc'[c] = "v_occupied" /\ local'[c].userIdx = m.userIdx + 1
      BY <1>1, <2>2 DEF Goto, Locals
    <3> QED BY <1>9, <2>1, <3>1 DEF Searching, HasEntry
  <2>3. CASE m.userIdx + 1 = MAX_CONC_CONN /\ Goto(c, "v_take", NoLocals)
    <3>1. pc'[c] = "v_take"
      BY <1>1, <2>3 DEF Goto
    <3>2. \A d \in Clients : HasEntry(d) => NameOf[d] # NameOf[c]
      BY <1>7, <2>1, <2>3
    <3> QED BY <1>9, <3>1, <3>2 DEF Searching, HasEntry
  <2>4. CASE Reply(c, "refused")
    <3>1. pc'[c] = "refused"
      BY <1>1, <2>4 DEF Reply
    <3> QED BY <3>1 DEF Searching
  <2> QED BY <1>9, <2>2, <2>3, <2>4 DEF NextName
<1>10. CASE BeginValidate(c)
  <2>1. UNCHANGED <<activeUsers, clientUserIdx, local>> /\ pc'[c] = "v_occupied"
    BY <1>1, <1>10 DEF BeginValidate, Begin, shared
  <2>2. l = NoLocals
    BY <1>1, <1>10 DEF BeginValidate, Control, LocalsAt, FirstSteps, Waiting
  <2>3. ~ \E d \in Clients : HasEntry(d) /\ own[d] < l.userIdx
    BY <1>7, <2>2, StartConstants DEF UserIdx
  <2> QED BY <1>6, <1>8, <2>1, <2>3 DEF Searching, HasEntry
<1>11. CASE CheckOccupied(c)
  <2>1. pc[c] = "v_occupied" /\ UNCHANGED <<activeUsers, clientUserIdx>>
    BY <1>11 DEF CheckOccupied, OnlyReads, shared
  <2>2. CASE Goto(c, "v_username", l)
    <3>1. pc'[c] = "v_username" /\ local'[c] = l
      BY <1>1, <2>2 DEF Goto
    <3>2. Searching(c)'
      BY <1>1, <2>1, <3>1 DEF Searching, HasEntry
    <3> QED BY <1>6, <1>8, <2>1, <3>2
  <2>3. CASE ~ activeUsers[l.userIdx].isOccupied /\ NextName(c, [l EXCEPT !.isSpaceAvailable = TRUE])
    <3>1. [l EXCEPT !.isSpaceAvailable = TRUE] \in Locals
            /\ [l EXCEPT !.isSpaceAvailable = TRUE].userIdx = l.userIdx
      BY <1>1 DEF Locals
    <3>2. ~ \E d \in Clients : HasEntry(d) /\ own[d] = l.userIdx
      BY <1>7, <2>3 DEF Entry
    <3> QED BY <1>6, <1>8, <1>9, <2>1, <2>3, <3>1, <3>2
  <2> QED BY <1>11, <2>2, <2>3 DEF CheckOccupied
<1>12. CASE CheckUsername(c)
  <2>1. pc[c] = "v_username" /\ UNCHANGED <<activeUsers, clientUserIdx>>
    BY <1>12 DEF CheckUsername, OnlyReads, shared
  <2>2. CASE Reply(c, "refused")
    <3>1. pc'[c] = "refused"
      BY <1>1, <2>2 DEF Reply
    <3>2. Searching(c)'
      BY <3>1 DEF Searching
    <3> QED BY <1>6, <1>8, <2>1, <3>2
  <2>3. CASE activeUsers[l.userIdx].username # NameOf[c] /\ NextName(c, l)
    <3>1. \A d \in Clients : HasEntry(d) /\ own[d] = l.userIdx => NameOf[d] # NameOf[c]
      BY <1>7, <2>3 DEF Entry
    <3> QED BY <1>1, <1>6, <1>8, <1>9, <2>1, <2>3, <3>1
  <2> QED BY <1>12, <2>2, <2>3 DEF CheckUsername
<1>13. CASE TakeEntry(c)
  <2>1. pc[c] = "v_take" /\ UNCHANGED <<activeUsers, clientUserIdx>>
    BY <1>13 DEF TakeEntry, OnlyReads, shared
  <2>2. \A d \in Clients : HasEntry(d) => NameOf[d] # NameOf[c]
    BY <1>1, <2>1 DEF Searching
  <2>3. CASE ~ activeUsers[l.userIdx].isOccupied /\ Goto(c, "v_occupy", l)
    <3>1. pc'[c] = "v_occupy" /\ local'[c] = l
      BY <1>1, <2>3 DEF Goto
    <3>2. ~ \E d \in Clients : HasEntry(d) /\ own[d] = l.userIdx
      BY <1>7, <2>3 DEF Entry
    <3>3. Searching(c)'
      BY <2>1, <2>2, <3>1, <3>2 DEF Searching, HasEntry
    <3> QED BY <1>6, <1>8, <2>1, <3>3
  <2>4. CASE Goto(c, "v_take", [l EXCEPT !.userIdx = @ + 1])
    <3>1. pc'[c] = "v_take"
      BY <1>1, <2>4 DEF Goto
    <3>2. Searching(c)'
      BY <2>1, <2>2, <3>1 DEF Searching, HasEntry
    <3> QED BY <1>6, <1>8, <2>1, <3>2
  <2>5. CASE Reply(c, "unanswered")
    <3>1. pc'[c] = "unanswered"
      BY <1>1, <2>5 DEF Reply
    <3>2. Searching(c)'
      BY <3>1 DEF Searching
    <3> QED BY <1>6, <1>8, <2>1, <3>2
  <2> QED BY <1>13, <2>3, <2>4, <2>5 DEF TakeEntry
<1>14. CASE Occupy(c)
  <2> DEFINE u == [activeUsers[l.userIdx] EXCEPT !.isOccupied = TRUE]
  <2>1. /\ pc[c] = "v_occupy" /\ pc'[c] = "v_write_username" /\ local'[c] = l
        /\ UNCHANGED clientUserIdx /\ activeUsers' = [activeUsers EXCEPT ![l.userIdx] = u]
    BY <1>1, <1>14 DEF Occupy, WriteUser, Goto
  <2>2. u.isOccupied /\ u.username = activeUsers[l.userIdx].username
    BY <1>1 DEF SharedUser
  <2> HIDE DEF u
  <2>3. Searching(c)'
    BY <1>1, <2>1, <2>2 DEF Searching, HasEntry
  <2>4. \A d \in Clients : HasEntry(d) => Entry(d)' = Entry(d)
    BY <1>1, <1>7, <2>1 DEF Searching, HasEntry, Entry
  <2>5. Seats'
    BY <1>1, <1>7, <2>1, <2>4 DEF Seats, HasEntry
  <2> QED BY <1>6, <2>3, <2>5
<1>15. CASE WriteUsername(c)
  <2> DEFINE u == [activeUsers[l.userIdx] EXCEPT !.username = NameOf[c]]
  <2>1. /\ pc[c] = "v_write_username" /\ pc'[c] = "ready"
        /\ clientUserIdx' = [clientUserIdx EXCEPT ![c] = l.userIdx]
        /\ activeUsers' = [activeUsers EXCEPT ![l.userIdx] = u]
    BY <1>1, <1>15 DEF WriteUsername, WriteUser, Reply
  <2>2. u.isOccupied /\ u.username = NameOf[c]
    BY <1>1, <2>1 DEF SharedUser, Searching
  <2> HIDE DEF u
  <2>3. Searching(c)'
    BY <2>1 DEF Searching
  <2>4. own'[c] = l.userIdx /\ Entry(c)' = u
    BY <1>1, <2>1 DEF Entry
  <2>5. \A d \in Clients \ {c} : own'[d] = own[d] /\ HasEntry(d)' = HasEntry(d)
    BY <1>1, <2>1 DEF HasEntry
  <2>6. \A d \in Clients \ {c} : HasEntry(d) =>
          own[d] # l.userIdx /\ NameOf[d] # NameOf[c] /\ Entry(d)' = Entry(d)
    BY <1>1, <1>7, <2>1, <2>5 DEF Searching, Entry
  <2>7. Seats'
    BY <1>1, <1>7, <2>2, <2>4, <2>5, <2>6 DEF Seats, HasEntry
  <2> QED BY <1>6, <2>3, <2>7
<1> QED BY <1>10, <1>11, <1>12, <1>13, <1>14, <1>15 DEF Validate

(* An exit only touches its own entry.                                     *)
LEMMA ExitWrites ==
  ASSUME TypeInv, NEW c \in Clients, Exit(c)
  PROVE  /\ \A i \in UserIdx : i # clientUserIdx[c] => activeUsers'[i] = activeUsers[i]
         /\ \A d \in Clients \ {c} : clientUserIdx'[d] = clientUserIdx[d]
         /\ clientUserIdx'[c] \in {clientUserIdx[c], INVALID_USER_INDEX}
         /\ \/ pc[c] \in ExitSteps /\ pc'[c] \in ClearSteps \cup {"left"}
            \/ BeginExit(c) /\ pc[c] = "ready" /\ UNCHANGED activeUsers
         /\ pc'[c] = "left" => clientUserIdx'[c] = INVALID_USER_INDEX
<1>1. /\ activeUsers \in [UserIdx -> SharedUser] /\ pc \in [Clients -> Waiting \cup ValidateSteps \cup InSession]
      /\ clientUserIdx \in [Clients -> UserIdx \cup {INVALID_USER_INDEX}]
  BY DEF TypeInv, Control
<1>2. CASE BeginExit(c)
  BY <1>1, <1>2 DEF BeginExit, Begin, shared
<1>3. CASE ClearOccupied(c)
  BY <1>1, <1>3 DEF ClearOccupied, WriteUser, Goto, ClearSteps, ExitSteps
<1>4. CASE ClearSubscribedAll(c)
  BY <1>1, <1>4 DEF ClearSubscribedAll, ClearField, WriteUser, Goto, ClearSteps, ExitSteps
<1>5. CASE ClearUsername(c)
  BY <1>1, <1>5 DEF ClearUsername, ClearField, WriteUser, Goto, ClearSteps, ExitSteps
<1>6. CASE ClearSubscription(c)
  BY <1>1, <1>6 DEF ClearSubscription, ClearField, WriteUser, Goto, ClearSteps, ExitSteps
<1>7. CASE ClearPendingTweet(c)
  BY <1>1, <1>7 DEF ClearPendingTweet, ClearField, WriteUser, Goto, Reply, ClearSteps, ExitSteps,
                         shared
<1> QED BY <1>2, <1>3, <1>4, <1>5, <1>6, <1>7 DEF Exit

LEMMA NamesExitStep ==
  ASSUME RegistersAlone, NamesInv, NEW c \in Clients, Exit(c)
  PROVE  Seats' /\ \A d \in Clients : Searching(d)'
<1>1. /\ TypeInv /\ Control /\ Overlapping /\ Seats
      /\ clientUserIdx \in [Clients -> UserIdx \cup {INVALID_USER_INDEX}]
  BY DEF NamesInv, TypeInv, Control
<1>2. \A d \in Clients \ {c} : pc'[d] = pc[d]
  BY <1>1, ExitMoves, OthersStay
<1>3. pc'[c] \in ExitSteps \cup {"left"}
  BY <1>1, ExitMoves, MovesTo
<1>4. \A d \in Clients \ {c} : pc[d] \notin ValidateSteps
  <2>1. CASE pc[c] \in ExitSteps
    BY <1>1, <2>1, ValidatesAlone
  <2>2. CASE BeginExit(c)
    <3>1. ASSUME NEW d \in Clients \ {c}, pc[d] \in ValidateSteps
          PROVE  FALSE
      <4>1. Busy(d) /\ request[d].kind = "validate"
        BY <1>1, <3>1, Regions DEF Busy, Control, RequestAt
      <4>2. Begin(c, [kind |-> "exit"], "e_occupied")
        BY <2>2 DEF BeginExit
      <4>3. <<"exit", request[d].kind>> \in MayOverlap
        BY <4>1, <4>2 DEF Begin
      <4> QED BY <4>1, <4>3 DEF RegistersAlone
    <3> QED BY <3>1
  <2> QED BY <1>1, <2>1, <2>2, ExitWrites
<1>5. \A d \in Clients : Searching(d)'
  <2>1. \A d \in Clients : pc'[d] \notin ValidateSteps
    BY <1>2, <1>3, <1>4, Regions
  <2> QED BY <2>1 DEF Searching, ValidateSteps
<1>6. Seats'
  <2>1. \A d \in Clients : HasEntry(d)' => HasEntry(d) /\ clientUserIdx'[d] = clientUserIdx[d]
    BY <1>1, ExitWrites DEF HasEntry
  <2>2. ASSUME NEW d \in Clients \ {c}, HasEntry(d)', pc'[d] \notin ClearSteps
        PROVE  Entry(d)'.isOccupied /\ Entry(d)'.username = NameOf[d]
    <3>1. HasEntry(d) /\ clientUserIdx'[d] = clientUserIdx[d] /\ clientUserIdx[d] \in UserIdx
      BY <1>1, <2>1, <2>2 DEF HasEntry
    <3>2. clientUserIdx[d] # clientUserIdx[c]
      BY <1>1, <3>1 DEF Seats, HasEntry
    <3>3. Entry(d)' = Entry(d)
      BY <1>1, <3>1, <3>2, ExitWrites DEF Entry
    <3> QED BY <1>1, <1>2, <2>2, <3>1, <3>3 DEF Seats
  <2>3. ASSUME HasEntry(c)', pc'[c] \notin ClearSteps
        PROVE  Entry(c)'.isOccupied /\ Entry(c)'.username = NameOf[c]
    <3>1. pc'[c] # "left"
      BY <1>1, <2>3, ExitWrites DEF HasEntry
    <3>2. pc[c] = "ready" /\ UNCHANGED activeUsers
      BY <1>1, <2>3, <3>1, ExitWrites
    <3>3. HasEntry(c) /\ clientUserIdx'[c] = clientUserIdx[c] /\ pc[c] \notin ClearSteps
      BY <2>1, <2>3, <3>2 DEF ClearSteps
    <3>4. Entry(c)' = Entry(c)
      BY <3>2, <3>3 DEF Entry
    <3> QED BY <1>1, <3>3, <3>4 DEF Seats
  <2>4. ASSUME NEW d \in Clients, NEW e \in Clients \ {d}, HasEntry(d)', HasEntry(e)'
        PROVE  clientUserIdx'[e] # clientUserIdx'[d] /\ NameOf[e] # NameOf[d]
    BY <1>1, <2>1, <2>4 DEF Seats
  <2> QED BY <2>2, <2>3, <2>4 DEF Seats
<1> QED BY <1>5, <1>6

-----------------------------------------------------------------------------

LEMMA NamesInit == Init => NamesInv
<1> SUFFICES ASSUME Init PROVE NamesInv
  OBVIOUS
<1>1. \A c \in Clients : pc[c] \in {"connected", "ready"}
  BY DEF Init
<1>2. Overlapping
  BY <1>1 DEF Overlapping, Busy, Waiting
<1>3. Seats
  <2>1. \A c \in Clients : HasEntry(c) => IndexAtStart[c] # INVALID_USER_INDEX
    BY DEF Init, HasEntry
  <2> QED BY <2>1, StartAssumption DEF Init, Seats, HasEntry, Entry
<1>4. \A c \in Clients : Searching(c)
  BY <1>1 DEF Searching
<1> QED BY <1>2, <1>3, <1>4, TypeInit DEF NamesInv

LEMMA NamesStep ==
  ASSUME RegistersAlone, NamesInv, NEW c \in Clients,
         Validate(c) \/ Tweet(c) \/ Subscription(c) \/ Timeline(c) \/ Exit(c)
  PROVE  NamesInv'
<1>1. TypeInv' /\ Overlapping'
  BY TypeStep, OverlappingStep DEF NamesInv
<1>2. Seats' /\ \A d \in Clients : Searching(d)'
  BY NamesOtherStep, NamesValidateStep, NamesExitStep
<1> QED BY <1>1, <1>2 DEF NamesInv

LEMMA NamesStutter == NamesInv /\ UNCHANGED vars => NamesInv'
<1> SUFFICES ASSUME NamesInv, UNCHANGED vars PROVE NamesInv'
  OBVIOUS
<1>1. UNCHANGED <<activeUsers, pc, request, clientUserIdx, local>>
  BY DEF vars, shared
<1> QED BY <1>1, TypeStutter DEF NamesInv, Overlapping, Busy, Seats, HasEntry, Entry, Searching

=============================================================================

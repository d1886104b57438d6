-------------------------- MODULE TweetServerProofs --------------------------
(***************************************************************************)
(* The safety of TweetServer for any number of clients, entries, hashtags  *)
(* and tweets.  The inductive invariant has three parts that need each     *)
(* other and one that stands alone:                                        *)
(*   Entries    every entry is sound (UserTableProofs), and no one joined  *)
(*              after the last tweet;                                      *)
(*   Sessions   a child's index leads to the entry of its client, and only *)
(*              a child that still runs has one;                           *)
(*   UniqueUsernames;                                                      *)
(*   Counted    childProcCount counts the children not waited for.         *)
(*                                                                         *)
(* The second part shows that TweetServer implements TweetService.         *)
(***************************************************************************)
EXTENDS TweetServer, UserTableProofs, FiniteSetTheorems

Entries ==
  \A i \in UserIdx :
    /\ SoundEntry(activeUsers[i], joinedAt[i], tweetID)
    /\ joinedAt[i] <= tweetID

Sessions ==
  /\ SessionOwnsEntry
  /\ \A c \in Clients :
       /\ HasEntry(c) => child[c] \in {"serving", "spinning"}
       /\ HasEntry(c) => client[c] \in {"ready", "gone"}
       /\ client[c] # "off" => name[c] \in Usernames
       /\ client[c] = "ready" => child[c] # "none"

NotWaitedFor == {c \in Clients : child[c] \notin {"none", "reaped"}}

Counted ==
  /\ childProcCount = Cardinality(NotWaitedFor)
  /\ ConnectionLimit

TableInv == TypeOK /\ Entries /\ UniqueUsernames /\ Sessions

-----------------------------------------------------------------------------
(* Helpers                                                                 *)

(* The entry a new user gets is a free one.                                *)
LEMMA FirstFreeUserIsFree ==
  ASSUME SpaceAvailable
  PROVE  /\ FirstFreeUser(activeUsers) \in UserIdx
         /\ ~ activeUsers[FirstFreeUser(activeUsers)].isOccupied
<1> DEFINE S == {i \in UserIdx : ~ activeUsers[i].isOccupied}
<1>1. S \in SUBSET Nat /\ S # {}
  BY DEF SpaceAvailable, UserIdx
<1>2. Min(S) \in S
  BY <1>1, MinIsLeast
<1> QED
  BY <1>2 DEF FirstFreeUser

(* A client in session has an entry, which is occupied under its name.     *)
LEMMA SessionEntry ==
  ASSUME TableInv, NEW c \in Clients, InSession(c)
  PROVE  /\ clientUserIdx[c] \in UserIdx
         /\ OwnEntry(c).isOccupied
         /\ OwnEntry(c).username = name[c]
         /\ name[c] \in Usernames
         /\ SoundEntry(OwnEntry(c), joinedAt[clientUserIdx[c]], tweetID)
BY DEF TableInv, TypeOK, Entries, Sessions, SessionOwnsEntry, HasEntry, InSession, OwnEntry

(* A request that changes nothing but its sender's entry, and keeps that   *)
(* one sound and its owner's, keeps the invariant.                         *)
LEMMA OwnEntryUpdate ==
  ASSUME TableInv, NEW c \in Clients, InSession(c), NEW u,
         UpdateOwnEntry(c, u),
         SoundEntry(u, joinedAt[clientUserIdx[c]], tweetID),
         u.isOccupied = OwnEntry(c).isOccupied, u.username = OwnEntry(c).username,
         UNCHANGED <<tweetID, childProcCount, child, clientUserIdx, client, name,
                     joinedAt>>
  PROVE  TableInv'
<1> DEFINE i == clientUserIdx[c]
<1>1. i \in UserIdx
  BY SessionEntry
<1>2. activeUsers' = [activeUsers EXCEPT ![i] = u] /\ u \in User
  BY DEF UpdateOwnEntry, SoundEntry
<1>3. activeUsers' \in [UserIdx -> User]
  BY <1>2 DEF TableInv, TypeOK
<1>4. TypeOK'
  BY <1>3 DEF TableInv, TypeOK
<1>5. \A j \in UserIdx : activeUsers'[j] = IF j = i THEN u ELSE activeUsers[j]
  BY <1>2 DEF TableInv, TypeOK
<1>6. \A j \in UserIdx : /\ activeUsers'[j].isOccupied = activeUsers[j].isOccupied
                         /\ activeUsers'[j].username = activeUsers[j].username
  BY <1>5 DEF OwnEntry
<1>7. Entries'
  BY <1>5 DEF TableInv, Entries
<1>8. UniqueUsernames'
  BY <1>6 DEF TableInv, UniqueUsernames
<1>9. Sessions'
  BY <1>6 DEF TableInv, TypeOK, Sessions, SessionOwnsEntry, HasEntry, InSession, OwnEntry
<1> QED
  BY <1>4, <1>7, <1>8, <1>9 DEF TableInv

(* A step that leaves the table and the indices alone keeps the invariant  *)
(* when it keeps what Sessions says of the processes.                      *)
LEMMA ProcessUpdate ==
  ASSUME TableInv, TypeOK',
         UNCHANGED <<activeUsers, tweetID, joinedAt>>,
         \A c \in Clients :
           /\ HasEntry(c)' => /\ HasEntry(c)
                              /\ clientUserIdx'[c] = clientUserIdx[c]
                              /\ child'[c] \in {"serving", "spinning"}
                              /\ client'[c] \in {"ready", "gone"}
                              /\ name'[c] = name[c]
           /\ InSession(c)' => HasEntry(c)'
           /\ client'[c] # "off" => name'[c] \in Usernames
           /\ client'[c] = "ready" => child'[c] # "none"
  PROVE  TableInv'
<1>1. Entries' /\ UniqueUsernames'
  BY DEF TableInv, Entries, UniqueUsernames
<1>2. Sessions'
  BY DEF TableInv, Sessions, SessionOwnsEntry, HasEntry, OwnEntry
<1> QED
  BY <1>1, <1>2 DEF TableInv

-----------------------------------------------------------------------------
(* The invariant of the table, action by action                            *)

LEMMA TableInit == Init => TableInv
<1> SUFFICES ASSUME Init PROVE TableInv
  OBVIOUS
<1>1. \A c \in Clients : ~ HasEntry(c) /\ client[c] = "off" /\ child[c] = "none"
  BY DEF Init, HasEntry
<1>2. \A i \in UserIdx : activeUsers[i] = InitialUser /\ joinedAt[i] = 0 /\ tweetID = 0
  BY DEF Init
<1>3. TypeOK
  BY InitialUserType, EmptyStrIsNoValue DEF Init, TypeOK, ChildState, ClientState
<1>4. Entries
  BY <1>2, InitialUserSound DEF Entries
<1>5. UniqueUsernames
  BY <1>2 DEF UniqueUsernames, InitialUser
<1>6. Sessions
  BY <1>1 DEF Sessions, SessionOwnsEntry, InSession
<1> QED
  BY <1>3, <1>4, <1>5, <1>6 DEF TableInv

LEMMA ConnectTable ==
  ASSUME TableInv, NEW c \in Clients, NEW n \in Usernames, Connect(c, n)
  PROVE  TableInv'
<1>1. TypeOK'
  BY DEF TableInv, TypeOK, Connect, ClientState
<1>2. ~ HasEntry(c)
  BY DEF TableInv, Sessions, Connect
<1> QED
  BY <1>1, <1>2, ProcessUpdate
     DEF TableInv, TypeOK, Sessions, SessionOwnsEntry, Connect, HasEntry, InSession

LEMMA AcceptConnectionTable ==
  ASSUME TableInv, NEW c \in Clients, AcceptConnection(c)
  PROVE  TableInv'
<1>1. TypeOK'
  BY DEF TableInv, TypeOK, AcceptConnection, ChildState
<1>2. ~ HasEntry(c)
  BY DEF TableInv, Sessions, AcceptConnection
<1> QED
  BY <1>1, <1>2, ProcessUpdate
     DEF TableInv, TypeOK, Sessions, SessionOwnsEntry, AcceptConnection, HasEntry,
         InSession

LEMMA ReapChildrenTable ==
  ASSUME TableInv, Counted, ReapChildren
  PROVE  TableInv'
<1>1. childProcCount - Cardinality(Zombies) \in Nat
  <2>1. IsFiniteSet(NotWaitedFor)
    BY FS_Subset, TweetServerAssumption DEF NotWaitedFor
  <2>2. Zombies \in SUBSET NotWaitedFor
    BY DEF Zombies, NotWaitedFor
  <2>3. IsFiniteSet(Zombies) /\ Cardinality(Zombies) <= Cardinality(NotWaitedFor)
    BY <2>1, <2>2, FS_Subset
  <2>4. Cardinality(Zombies) \in Nat /\ Cardinality(NotWaitedFor) \in Nat
    BY <2>1, <2>3, FS_CardinalityType
  <2> QED
    BY <2>3, <2>4 DEF Counted
<1>2. TypeOK'
  BY <1>1 DEF TableInv, TypeOK, ReapChildren, ChildState
<1>3. \A c \in Clients : child'[c] = IF child[c] = "zombie" THEN "reaped" ELSE child[c]
  BY DEF ReapChildren, Zombies
<1> QED
  BY <1>2, <1>3, ProcessUpdate
     DEF TableInv, Sessions, SessionOwnsEntry, ReapChildren, HasEntry, InSession

LEMMA VanishTable ==
  ASSUME TableInv, NEW c \in Clients, Vanish(c)
  PROVE  TableInv'
<1>1. TypeOK'
  BY DEF TableInv, TypeOK, Vanish, ClientState
<1> QED
  BY <1>1, ProcessUpdate
     DEF TableInv, TypeOK, Sessions, SessionOwnsEntry, Vanish, HasEntry, InSession

LEMMA EndOfFileTable ==
  ASSUME TableInv, NEW c \in Clients, EndOfFile(c)
  PROVE  TableInv'
<1>1. CASE child' = [child EXCEPT ![c] = "spinning"] /\ UNCHANGED clientUserIdx
  <2>1. TypeOK'
    BY <1>1 DEF TableInv, TypeOK, EndOfFile, ChildState
  <2> QED
    BY <1>1, <2>1, ProcessUpdate
       DEF TableInv, TypeOK, Sessions, SessionOwnsEntry, EndOfFile, HasEntry, InSession
<1>2. CASE ChildExits(c)
  <2>1. TypeOK'
    BY <1>2 DEF TableInv, TypeOK, EndOfFile, ChildExits, ChildState
  <2> QED
    BY <1>2, <2>1, ProcessUpdate
       DEF TableInv, TypeOK, Sessions, SessionOwnsEntry, EndOfFile, ChildExits,
           HasEntry, InSession
<1> QED
  BY <1>1, <1>2 DEF EndOfFile

(* The name is not in the table and the entry was nobody's, so the new     *)
(* user shares neither.                                                    *)
LEMMA AcceptUsernameTable ==
  ASSUME TableInv, NEW c \in Clients, ValidateUser(c), AcceptUsername(c)
  PROVE  TableInv'
<1> DEFINE i == FirstFreeUser(activeUsers)
           v == Registered(activeUsers[i], name[c])
<1>1. i \in UserIdx /\ ~ activeUsers[i].isOccupied
  BY FirstFreeUserIsFree DEF AcceptUsername
<1>2. name[c] \in Usernames /\ ~ HasEntry(c)
  BY DEF TableInv, Sessions, ValidateUser
<1>3. SoundEntry(v, tweetID, tweetID) /\ activeUsers[i] \in User
  BY <1>1, <1>2, RegisteredSound DEF TableInv, TypeOK, Entries
<1>4. v.isOccupied /\ v.username = name[c]
  BY <1>3 DEF Registered, User
<1>5. \A j \in UserIdx : /\ activeUsers'[j] = IF j = i THEN v ELSE activeUsers[j]
                         /\ joinedAt'[j] = IF j = i THEN tweetID ELSE joinedAt[j]
  BY DEF AcceptUsername, TableInv, TypeOK
<1>6. activeUsers' \in [UserIdx -> User] /\ joinedAt' \in [UserIdx -> Nat]
  <2>1. v \in User
    BY <1>3 DEF SoundEntry
  <2> QED
    BY <2>1 DEF AcceptUsername, TableInv, TypeOK
<1>7. TypeOK'
  BY <1>1, <1>6 DEF TableInv, TypeOK, ValidateUser, AcceptUsername, ChildExits,
                    ChildState, ClientState
<1>8. Entries'
  BY <1>3, <1>5 DEF TableInv, TypeOK, Entries, ValidateUser
<1>9. UniqueUsernames'
  BY <1>4, <1>5 DEF TableInv, UniqueUsernames, AcceptUsername, NameTaken
<1>10. Sessions'
  <2>1. \A d \in Clients \ {c} :
          /\ clientUserIdx'[d] = clientUserIdx[d] /\ name'[d] = name[d]
          /\ child'[d] = child[d] /\ client'[d] = client[d]
          /\ HasEntry(d) => clientUserIdx[d] \in UserIdx \ {i}
    BY <1>1 DEF TableInv, TypeOK, Sessions, SessionOwnsEntry, ValidateUser,
                AcceptUsername, ChildExits, HasEntry, OwnEntry
  <2>2. CASE child[c] = "rejecting"
    <3>1. ~ HasEntry(c)' /\ child'[c] = "zombie" /\ client'[c] = "ready"
          /\ name' = name
      BY <2>2 DEF TableInv, TypeOK, ValidateUser, AcceptUsername, ChildExits, HasEntry
    <3> QED
      BY <1>2, <1>5, <2>1, <3>1
         DEF TableInv, TypeOK, Sessions, SessionOwnsEntry, HasEntry, InSession, OwnEntry
  <2>3. CASE child[c] = "serving"
    <3>1. clientUserIdx'[c] = i /\ child'[c] = "serving" /\ client'[c] = "ready"
          /\ name' = name
      BY <2>3 DEF TableInv, TypeOK, ValidateUser, AcceptUsername
    <3>2. HasEntry(c)'
      BY <1>1, <3>1, EmptyStrIsNoValue DEF HasEntry
    <3> QED
      BY <1>1, <1>2, <1>4, <1>5, <2>1, <3>1, <3>2
         DEF TableInv, TypeOK, Sessions, SessionOwnsEntry, HasEntry, InSession, OwnEntry
  <2> QED
    BY <2>2, <2>3 DEF ValidateUser
<1> QED
  BY <1>7, <1>8, <1>9, <1>10 DEF TableInv

LEMMA RefuseUsernameTable ==
  ASSUME TableInv, NEW c \in Clients, ValidateUser(c), RefuseUsername(c)
  PROVE  TableInv'
<1>1. TypeOK'
  BY DEF TableInv, TypeOK, ValidateUser, RefuseUsername, ChildExits, ChildState, ClientState
<1> QED
  BY <1>1, ProcessUpdate
     DEF TableInv, TypeOK, Sessions, SessionOwnsEntry, ValidateUser, RefuseUsername,
         ChildExits, HasEntry, InSession

(* Every queue may grow, by a tweet that is newer than all that wait.      *)
LEMMA TweetTable ==
  ASSUME TableInv, NEW c \in Clients, NEW tags \in TagLists, Tweet(c, tags)
  PROVE  TableInv'
<1> DEFINE U(i) == Updated(activeUsers[i], name[c], tweetID + 1, tags)
<1>1. name[c] \in Usernames /\ tags \in Seq(Hashtags) /\ tweetID \in Nat
  BY SessionEntry, TweetServerAssumption DEF Tweet, TableInv, TypeOK
<1>2. \A i \in UserIdx : activeUsers'[i] = U(i)
  BY DEF Tweet
<1>3. \A i \in UserIdx : SoundEntry(U(i), joinedAt[i], tweetID + 1)
  BY <1>1, UpdatedSound DEF TableInv, TypeOK, Entries
<1>4. \A i \in UserIdx : /\ U(i).isOccupied = activeUsers[i].isOccupied
                         /\ U(i).username = activeUsers[i].username
  BY UpdatedFrame DEF TableInv, TypeOK
<1>5. TypeOK'
  <2>1. \A i \in UserIdx : U(i) \in User
    BY <1>3 DEF SoundEntry
  <2>2. activeUsers' \in [UserIdx -> User]
    BY <2>1 DEF Tweet
  <2> QED
    BY <1>1, <2>2 DEF TableInv, TypeOK, Tweet
<1>6. Entries'
  <2>1. tweetID' = tweetID + 1 /\ joinedAt' = joinedAt
    BY DEF Tweet
  <2>2. \A i \in UserIdx : joinedAt[i] <= tweetID + 1
    BY <1>1 DEF TableInv, TypeOK, Entries
  <2> QED
    BY <1>2, <1>3, <2>1, <2>2 DEF Entries
<1>7. UniqueUsernames'
  BY <1>2, <1>4 DEF TableInv, UniqueUsernames
<1>8. Sessions'
  BY <1>2, <1>4
     DEF TableInv, TypeOK, Sessions, SessionOwnsEntry, Tweet, HasEntry, InSession, OwnEntry
<1> QED
  BY <1>5, <1>6, <1>7, <1>8 DEF TableInv

LEMMA SubscribeTable ==
  ASSUME TableInv, NEW c \in Clients, NEW h \in Subscribable,
         Subscribe(c, h) \/ Unsubscribe(c, h)
  PROVE  TableInv'
<1>1. InSession(c)
  BY DEF Subscribe, Unsubscribe
<1>2. OwnEntry(c) \in User
  BY <1>1, SessionEntry DEF SoundEntry
<1>3. CASE Subscribe(c, h)
  BY <1>1, <1>2, <1>3, SessionEntry, SubscribedSound, SameOwner, OwnEntryUpdate DEF Subscribe
<1>4. CASE Unsubscribe(c, h)
  BY <1>1, <1>2, <1>4, SessionEntry, SubscribedSound, SameOwner, OwnEntryUpdate DEF Unsubscribe
<1> QED
  BY <1>3, <1>4

LEMMA TimelineTable ==
  ASSUME TableInv, NEW c \in Clients, Timeline(c)
  PROVE  TableInv'
<1>1. InSession(c)
  BY DEF Timeline
<1>2. OwnEntry(c) \in User
  BY <1>1, SessionEntry DEF SoundEntry
<1> QED
  BY <1>1, <1>2, SessionEntry, TimelineReadSound, SameOwner, OwnEntryUpdate DEF Timeline

(* The entry is released together with the child's index to it.            *)
LEMMA ExitTable ==
  ASSUME TableInv, NEW c \in Clients, Exit(c)
  PROVE  TableInv'
<1> DEFINE i == clientUserIdx[c]
           v == Cleared(activeUsers[i])
<1>1. InSession(c)
  BY DEF Exit
<1>2. i \in UserIdx /\ SoundEntry(activeUsers[i], joinedAt[i], tweetID)
  BY <1>1, SessionEntry DEF OwnEntry
<1>3. SoundEntry(v, joinedAt[i], tweetID)
  BY <1>2, ClearedSound
<1>4. ~ v.isOccupied
  BY DEF Cleared, InitialUser
<1>5. \A j \in UserIdx : activeUsers'[j] = IF j = i THEN v ELSE activeUsers[j]
  BY DEF Exit, UpdateOwnEntry, OwnEntry, TableInv, TypeOK
<1>6. TypeOK'
  <2>1. v \in User
    BY <1>3 DEF SoundEntry
  <2>2. activeUsers' \in [UserIdx -> User]
    BY <2>1 DEF Exit, UpdateOwnEntry, OwnEntry, TableInv, TypeOK
  <2> QED
    BY <2>2 DEF TableInv, TypeOK, Exit, ChildExits, ChildState, ClientState
<1>7. Entries'
  BY <1>3, <1>5 DEF TableInv, Entries, Exit
<1>8. UniqueUsernames'
  BY <1>4, <1>5 DEF TableInv, UniqueUsernames
<1>9. Sessions'
  <2>1. \A d \in Clients \ {c} :
          /\ clientUserIdx'[d] = clientUserIdx[d] /\ name'[d] = name[d]
          /\ child'[d] = child[d] /\ client'[d] = client[d]
          /\ HasEntry(d) => clientUserIdx[d] \in UserIdx \ {i}
    BY <1>1 DEF TableInv, TypeOK, Sessions, SessionOwnsEntry, Exit, ChildExits, HasEntry
  <2>2. ~ HasEntry(c)' /\ child'[c] = "zombie" /\ client'[c] = "gone" /\ name' = name
    BY DEF TableInv, TypeOK, Exit, ChildExits, HasEntry
  <2>3. \A d \in Clients \ {c} : HasEntry(d) => OwnEntry(d)' = OwnEntry(d)
    BY <1>5, <2>1 DEF OwnEntry
  <2>4. SessionOwnsEntry'
    BY <2>1, <2>2, <2>3
       DEF TableInv, Sessions, SessionOwnsEntry, HasEntry, InSession
  <2> QED
    BY <1>1, <2>1, <2>2, <2>4 DEF TableInv, Sessions, HasEntry, InSession
<1> QED
  BY <1>6, <1>7, <1>8, <1>9 DEF TableInv

-----------------------------------------------------------------------------
(* The connection limit                                                    *)

Serving == {c \in Clients : child[c] = "serving"}

LEMMA FiniteProcesses ==
  /\ IsFiniteSet(NotWaitedFor) /\ Cardinality(NotWaitedFor) \in Nat
  /\ IsFiniteSet(Serving) /\ Cardinality(Serving) \in Nat
  /\ IsFiniteSet(Zombies) /\ Cardinality(Zombies) \in Nat
  /\ Cardinality(Serving) <= Cardinality(NotWaitedFor)
<1>1. /\ NotWaitedFor \in SUBSET Clients
      /\ Serving \in SUBSET NotWaitedFor
      /\ Zombies \in SUBSET NotWaitedFor
  BY DEF NotWaitedFor, Serving, Zombies
<1>2. IsFiniteSet(NotWaitedFor)
  BY <1>1, FS_Subset, TweetServerAssumption
<1>3. IsFiniteSet(Serving) /\ IsFiniteSet(Zombies)
      /\ Cardinality(Serving) <= Cardinality(NotWaitedFor)
  BY <1>1, <1>2, FS_Subset
<1> QED
  BY <1>2, <1>3, FS_CardinalityType

LEMMA CountedInit == Init => Counted
<1> SUFFICES ASSUME Init PROVE Counted
  OBVIOUS
<1>1. NotWaitedFor = {} /\ {c \in Clients : child[c] = "serving"} = {}
  BY DEF Init, NotWaitedFor
<1>2. MAX_CONC_CONN \in Nat
  BY EmptyStrIsNoValue
<1> QED
  BY <1>1, <1>2, FS_EmptySet DEF Counted, ConnectionLimit, Init

(* A step in which children at most end, or spin, and none is waited for.  *)
LEMMA CountedKept ==
  ASSUME Counted, childProcCount' = childProcCount,
         \A c \in Clients :
           \/ child'[c] = child[c]
           \/ child[c] \in {"serving", "rejecting"} /\ child'[c] \in {"zombie", "spinning"}
  PROVE  Counted'
<1>1. NotWaitedFor' = NotWaitedFor
  BY DEF NotWaitedFor
<1>2. Serving' \in SUBSET Serving
  BY DEF Serving
<1>3. Cardinality(Serving') <= Cardinality(Serving) /\ Cardinality(Serving') \in Nat
  BY <1>2, FiniteProcesses, FS_Subset, FS_CardinalityType
<1>4. MAX_CONC_CONN \in Nat
  BY EmptyStrIsNoValue
<1>5. Cardinality(Serving') <= MAX_CONC_CONN
  BY <1>3, <1>4, FiniteProcesses DEF Counted, ConnectionLimit, Serving
<1> QED
  BY <1>1, <1>5 DEF Counted, ConnectionLimit, Serving

(* The child serves only when the count, hence the number of those that    *)
(* serve already, is below the limit.                                      *)
LEMMA CountedAccept ==
  ASSUME TypeOK, Counted, NEW c \in Clients, AcceptConnection(c)
  PROVE  Counted'
<1>0. MAX_CONC_CONN \in Nat
  BY EmptyStrIsNoValue
<1>1. NotWaitedFor' = NotWaitedFor \cup {c} /\ c \notin NotWaitedFor
  BY DEF AcceptConnection, NotWaitedFor, TypeOK
<1>2. Cardinality(NotWaitedFor') = Cardinality(NotWaitedFor) + 1
  BY <1>1, FiniteProcesses, FS_AddElement
<1>3. Cardinality(Serving') <= MAX_CONC_CONN
  <2>1. CASE childProcCount < MAX_CONC_CONN
    <3>1. Serving' = Serving \cup {c} /\ c \notin Serving
      BY <2>1 DEF AcceptConnection, Serving, TypeOK
    <3>2. Cardinality(Serving') = Cardinality(Serving) + 1
      BY <3>1, FiniteProcesses, FS_AddElement
    <3>3. Cardinality(Serving) < MAX_CONC_CONN
      BY <1>0, <2>1, FiniteProcesses DEF Counted
    <3> QED
      BY <1>0, <3>2, <3>3, FiniteProcesses
  <2>2. CASE ~ (childProcCount < MAX_CONC_CONN)
    <3>1. Serving' = Serving
      BY <2>2 DEF AcceptConnection, Serving, TypeOK
    <3> QED
      BY <3>1 DEF Counted, ConnectionLimit, Serving
  <2> QED
    BY <2>1, <2>2
<1> QED
  BY <1>2, <1>3 DEF Counted, ConnectionLimit, Serving, AcceptConnection

LEMMA CountedReap ==
  ASSUME TypeOK, Counted, ReapChildren
  PROVE  Counted'
<1>1. NotWaitedFor' = NotWaitedFor \ Zombies /\ NotWaitedFor \cap Zombies = Zombies
  BY DEF ReapChildren, NotWaitedFor, Zombies
<1>2. Cardinality(NotWaitedFor') = Cardinality(NotWaitedFor) - Cardinality(Zombies)
  <2>1. IsFiniteSet(NotWaitedFor)
    BY FiniteProcesses
  <2>2. Cardinality(NotWaitedFor \ Zombies)
          = Cardinality(NotWaitedFor) - Cardinality(NotWaitedFor \cap Zombies)
    BY <2>1, FS_Difference
  <2> QED
    BY <1>1, <2>2
<1>3. Serving' = Serving
  BY DEF ReapChildren, Serving, Zombies
<1> QED
  BY <1>2, <1>3 DEF Counted, ConnectionLimit, Serving, ReapChildren

-----------------------------------------------------------------------------
(* The theorems                                                            *)

IInv == TableInv /\ Counted

LEMMA InductiveStep == IInv /\ [Next]_vars => IInv'
<1> SUFFICES ASSUME IInv, [Next]_vars PROVE IInv'
  OBVIOUS
<1> USE DEF IInv
<1>0. TypeOK
  BY DEF TableInv
<1>1. ASSUME NEW c \in Clients, NEW n \in Usernames, Connect(c, n) PROVE IInv'
  BY <1>1, ConnectTable, CountedKept DEF Connect
<1>2. ASSUME NEW c \in Clients, Vanish(c) PROVE IInv'
  BY <1>2, VanishTable, CountedKept DEF Vanish
<1>3. ASSUME NEW c \in Clients, AcceptConnection(c) PROVE IInv'
  BY <1>0, <1>3, AcceptConnectionTable, CountedAccept
<1>4. ASSUME NEW c \in Clients, ValidateUser(c) PROVE IInv'
  <2>1. TableInv'
    BY <1>4, AcceptUsernameTable, RefuseUsernameTable DEF ValidateUser
  <2>2. childProcCount' = childProcCount
        /\ \A d \in Clients :
             \/ child'[d] = child[d]
             \/ child[d] = "rejecting" /\ child'[d] = "zombie"
    BY <1>0, <1>4 DEF TypeOK, ValidateUser, AcceptUsername, RefuseUsername, ChildExits
  <2> QED
    BY <2>1, <2>2, CountedKept
<1>5. ASSUME NEW c \in Clients, NEW tags \in TagLists, Tweet(c, tags) PROVE IInv'
  BY <1>5, TweetTable, CountedKept DEF Tweet
<1>6. ASSUME NEW c \in Clients, NEW h \in Subscribable,
             Subscribe(c, h) \/ Unsubscribe(c, h)
      PROVE  IInv'
  BY <1>6, SubscribeTable, CountedKept DEF Subscribe, Unsubscribe
<1>7. ASSUME NEW c \in Clients, Timeline(c) PROVE IInv'
  BY <1>7, TimelineTable, CountedKept DEF Timeline
<1>8. ASSUME NEW c \in Clients, Exit(c) PROVE IInv'
  BY <1>0, <1>8, ExitTable, CountedKept DEF Exit, ChildExits, InSession, TypeOK
<1>9. ASSUME NEW c \in Clients, EndOfFile(c) PROVE IInv'
  BY <1>0, <1>9, EndOfFileTable, CountedKept DEF EndOfFile, ChildExits, TypeOK
<1>10. CASE ReapChildren
  BY <1>0, <1>10, ReapChildrenTable, CountedReap
<1>11. CASE UNCHANGED vars
  <2>1. TableInv'
    BY <1>11 DEF TableInv, TypeOK, Entries, UniqueUsernames, Sessions, SessionOwnsEntry,
                 HasEntry, InSession, OwnEntry, vars
  <2> QED
    BY <1>11, <2>1, CountedKept DEF vars
<1> QED
  BY <1>1, <1>2, <1>3, <1>4, <1>5, <1>6, <1>7, <1>8, <1>9, <1>10, <1>11
     DEF Next, ClientStep, ChildStep

(* The inductive invariant holds in every reachable state.                 *)
THEOREM Invariance == Spec => []IInv
<1>1. Init => IInv
  BY TableInit, CountedInit DEF IInv
<1> QED
  BY <1>1, InductiveStep, PTL DEF Spec

(* The variables keep their types; in particular childProcCount, which is  *)
(* unsigned in the code, never falls below zero.                           *)
THEOREM TypeCorrect == Spec => []TypeOK
<1>1. IInv => TypeOK
  BY DEF IInv, TableInv
<1> QED
  BY <1>1, Invariance, PTL

(* No two entries of activeUsers are registered under one name: when       *)
(* requests do not overlap, handle_validate_user_request keeps names       *)
(* unique for any table size, whatever clients join, leave or vanish.      *)
THEOREM NamesAreUnique == Spec => []UniqueUsernames
<1>1. IInv => UniqueUsernames
  BY DEF IInv, TableInv
<1> QED
  BY <1>1, Invariance, PTL

(* The index that a child keeps in a local variable always leads to its    *)
(* client's own entry.                                                     *)
THEOREM IndicesAreNeverStale == Spec => []SessionOwnsEntry
<1>1. IInv => SessionOwnsEntry
  BY DEF IInv, TableInv, Sessions
<1> QED
  BY <1>1, Invariance, PTL

(* Flags agree with lists, queues are in order and without holes, and free *)
(* entries are clean, in every entry of the table.                         *)
THEOREM EntriesAreSound == Spec => []EntriesSound
<1>1. IInv => EntriesSound
  BY DEF IInv, TableInv, Entries, SoundEntry, EntriesSound
<1> QED
  BY <1>1, Invariance, PTL

(* At most MAX_CONC_CONN connections are served at a time.                 *)
THEOREM LimitIsKept == Spec => []ConnectionLimit
<1>1. IInv => ConnectionLimit
  BY DEF IInv, Counted
<1> QED
  BY <1>1, Invariance, PTL

-----------------------------------------------------------------------------
(***************************************************************************)
(* TweetServer implements TweetService: ImplementsService for any number   *)
(* of clients, entries, hashtags and tweets.                               *)
(*                                                                         *)
(* A user of the service is an entry of activeUsers that is occupied, and  *)
(* UniqueUsernames makes EntryOf its inverse.  What the service knows of a *)
(* user is a function of the entry alone (SubscriptionsIn, OwnTweets), so  *)
(* the first half says what each handler does to these two, for one entry, *)
(* and the second half what each action does to the map from names to      *)
(* entries.  One invariant is needed that the server itself does not need: *)
(* OwnTweetIsLast, about the last cell, where a tweet of a previous user   *)
(* may stand.                                                              *)
(***************************************************************************)

SubscriptionsIn(u) == Range(u.subscriptions) \ {EmptyStr}

(* A tweet in the last cell of a registered user's queue, unless a         *)
(* previous user left it, arrived when all other cells were full, and they *)
(* still are.                                                              *)
OwnTweetIsLast(u, since) ==
  LET last == u.pendingTweets[MAX_TWEET_QUEUE - 1]
  IN  u.isOccupied /\ last # EmptyStr /\ last.text > since
        => \A k \in 0 .. MAX_TWEET_QUEUE - 2 : u.pendingTweets[k] # EmptyStr

OwnTweetsAreLast ==
  \A i \in UserIdx : OwnTweetIsLast(activeUsers[i], joinedAt[i])

-----------------------------------------------------------------------------
(* Counting                                                                *)

(* The two modules count with the same operator.                           *)
LEMMA SameCardinality == \A S : Service!Cardinality(S) = Cardinality(S)
BY Zenon DEF Service!Cardinality, Cardinality

(* A set that an injection maps into the cells of an array, with one cell  *)
(* left over, has fewer elements than the array has cells.                 *)
LEMMA RoomIsLeft ==
  ASSUME NEW n \in Nat, NEW S, NEW f \in [S -> 0 .. n - 1],
         \A x, y \in S : f[x] = f[y] => x = y,
         NEW free \in 0 .. n - 1, \A x \in S : f[x] # free
  PROVE  Cardinality(S) < n
<1> DEFINE T == (0 .. n - 1) \ {free}
<1>1. IsFiniteSet(0 .. n - 1) /\ Cardinality(0 .. n - 1) = n
  BY FS_Interval
<1>2. IsFiniteSet(T) /\ Cardinality(T) = n - 1
  <2> DEFINE I == 0 .. n - 1
  <2>1. IsFiniteSet(I) /\ Cardinality(I) = n /\ free \in I
    BY <1>1
  <2>2. T = I \ {free}
    OBVIOUS
  <2> HIDE DEF I, T
  <2>3. IsFiniteSet(I \ {free}) /\ Cardinality(I \ {free}) = Cardinality(I) - 1
    BY <2>1, FS_RemoveElement
  <2> QED BY <2>1, <2>2, <2>3
<1>3. f \in Injection(S, T)
  BY DEF Injection, IsInjective
<1>4. IsFiniteSet(S) /\ Cardinality(S) <= Cardinality(T)
  BY <1>2, <1>3, FS_Injection
<1> QED
  BY <1>2, <1>4, FS_CardinalityType

-----------------------------------------------------------------------------
(* The tweets that wait in one entry                                       *)

(* The queue's length, and which cells are empty.                          *)
LEMMA QueueLengthIs ==
  ASSUME NEW u \in User
  PROVE  /\ QueueLength(u) \in 0 .. MAX_TWEET_QUEUE
         /\ QueueLength(u) < MAX_TWEET_QUEUE => u.pendingTweets[QueueLength(u)] = EmptyStr
         /\ \A j \in PendingTweetIdx : j < QueueLength(u) => u.pendingTweets[j] # EmptyStr
BY FirstEmptyIsFirst, EmptyStrIsNoValue DEF QueueLength, PendingTweetIdx

(* Two facts make out the length of a queue.                               *)
LEMMA QueueLengthIsFirst ==
  ASSUME NEW u \in User, NEW n \in 0 .. MAX_TWEET_QUEUE,
         n < MAX_TWEET_QUEUE => u.pendingTweets[n] = EmptyStr,
         \A j \in PendingTweetIdx : j < n => u.pendingTweets[j] # EmptyStr
  PROVE  QueueLength(u) = n
<1>1. MAX_TWEET_QUEUE \in Nat \ {0}
  BY EmptyStrIsNoValue
<1>2. ~ (QueueLength(u) < n)
  BY <1>1, QueueLengthIs DEF PendingTweetIdx
<1>3. ~ (n < QueueLength(u))
  BY <1>1, QueueLengthIs DEF PendingTweetIdx
<1> QED
  BY <1>1, <1>2, <1>3, QueueLengthIs

(* A user's own tweets are a sequence: all that wait, but for a last cell  *)
(* that is not the user's.                                                 *)
LEMMA OwnTweetsAre ==
  ASSUME NEW u \in User, NEW since
  PROVE  /\ OwnLength(u, since) \in 0 .. MAX_TWEET_QUEUE
         /\ OwnTweets(u, since)
              = [k \in 1 .. OwnLength(u, since) |-> u.pendingTweets[k - 1]]
         /\ OwnTweets(u, since) \in Seq(TweetItem)
         /\ Len(OwnTweets(u, since)) = OwnLength(u, since)
<1>1. MAX_TWEET_QUEUE \in Nat \ {0}
  BY EmptyStrIsNoValue
<1>2. OwnLength(u, since) \in 0 .. QueueLength(u)
        /\ QueueLength(u) \in 0 .. MAX_TWEET_QUEUE
  BY <1>1, QueueLengthIs DEF OwnLength
<1>3. OwnTweets(u, since) = [k \in 1 .. OwnLength(u, since) |-> u.pendingTweets[k - 1]]
  BY <1>2 DEF OwnTweets, StoredTweets
<1>4. \A k \in 1 .. OwnLength(u, since) :
        k - 1 \in PendingTweetIdx /\ k - 1 < QueueLength(u)
  BY <1>1, <1>2 DEF PendingTweetIdx
<1>5. \A k \in 1 .. OwnLength(u, since) : u.pendingTweets[k - 1] \in TweetItem
  BY <1>4, QueueLengthIs DEF User
<1> QED
  BY <1>1, <1>2, <1>3, <1>5

(* A new user has no tweets: the last cell holds at most one that is not   *)
(* newer than the last the server took.                                    *)
LEMMA RegisteredView ==
  ASSUME NEW u, NEW since, NEW last \in Nat, SoundEntry(u, since, last),
         ~ u.isOccupied, NEW n \in Usernames
  PROVE  /\ OwnTweets(Registered(u, n), last) = <<>>
         /\ SubscriptionsIn(Registered(u, n)) = {}
         /\ OwnTweetIsLast(Registered(u, n), last)
<1> DEFINE v == Registered(u, n)
<1>0. u \in User /\ v \in User /\ MAX_TWEET_QUEUE \in Nat \ {0}
  BY RegisteredType, EmptyStrIsNoValue DEF SoundEntry
<1>1. v.pendingTweets = u.pendingTweets /\ v.subscriptions = u.subscriptions
  BY <1>0 DEF Registered, User
<1>2. \A j \in 0 .. MAX_TWEET_QUEUE - 2 : v.pendingTweets[j] = EmptyStr
  BY <1>1 DEF SoundEntry, FreeIsClean
<1>3. v.pendingTweets[MAX_TWEET_QUEUE - 1] # EmptyStr
        => /\ v.pendingTweets[MAX_TWEET_QUEUE - 1].text \in Nat
           /\ v.pendingTweets[MAX_TWEET_QUEUE - 1].text <= last
  BY <1>0, <1>1 DEF SoundEntry, TextsUpTo, PendingTweetIdx, User, TweetItem
<1>4. OwnLength(v, last) = 0
  BY <1>0, <1>2, <1>3, QueueLengthIs DEF OwnLength, PendingTweetIdx
<1>5. OwnTweets(v, last) = <<>>
  BY <1>0, <1>4, OwnTweetsAre
<1>6. SubscriptionsIn(v) = {}
  BY <1>0, <1>1 DEF SubscriptionsIn, Range, SoundEntry, FreeIsClean, User
<1>7. OwnTweetIsLast(v, last)
  BY <1>3 DEF OwnTweetIsLast
<1> QED
  BY <1>5, <1>6, <1>7

(* "timeline" leaves no tweet of the user's own.                           *)
LEMMA TimelineView ==
  ASSUME NEW u, NEW since \in Nat, NEW last, SoundEntry(u, since, last),
         OwnTweetIsLast(u, since)
  PROVE  /\ OwnTweets(TimelineRead(u), since) = <<>>
         /\ OwnTweetIsLast(TimelineRead(u), since)
<1> DEFINE v == TimelineRead(u)
           M == MAX_TWEET_QUEUE - 1
<1>0. u \in User /\ v \in User /\ MAX_TWEET_QUEUE \in Nat \ {0}
  BY TimelineReadType, EmptyStrIsNoValue DEF SoundEntry
<1>1. \A j \in PendingTweetIdx :
        v.pendingTweets[j] = IF j < QueueLength(u) THEN EmptyStr ELSE u.pendingTweets[j]
  BY <1>0 DEF TimelineRead, User
<1>2. \A j \in 0 .. M - 1 : j \in PendingTweetIdx /\ v.pendingTweets[j] = EmptyStr
  BY <1>0, <1>1, QueueHasNoHoles DEF PendingTweetIdx, SoundEntry
<1>3. M \in PendingTweetIdx
  BY <1>0 DEF PendingTweetIdx
<1>4. CASE QueueLength(u) = MAX_TWEET_QUEUE
  <2>1. \A j \in PendingTweetIdx : v.pendingTweets[j] = EmptyStr
    BY <1>0, <1>1, <1>4 DEF PendingTweetIdx
  <2>2. OwnLength(v, since) = 0
    BY <1>0, <2>1, QueueLengthIsFirst DEF OwnLength, PendingTweetIdx
  <2> QED
    BY <1>0, <1>3, <2>1, <2>2, OwnTweetsAre DEF OwnTweetIsLast
<1>5. CASE QueueLength(u) # MAX_TWEET_QUEUE
  <2>1. v.pendingTweets[M] = u.pendingTweets[M] /\ v.isOccupied = u.isOccupied
    BY <1>0, <1>1, <1>3, <1>5, QueueLengthIs, SameOwner
  <2>2. QueueLength(u) \in 0 .. M /\ u.pendingTweets[QueueLength(u)] = EmptyStr
    BY <1>0, <1>5, QueueLengthIs
  <2>3. ~ (u.isOccupied /\ u.pendingTweets[M] # EmptyStr /\ u.pendingTweets[M].text > since)
    BY <1>0, <2>2 DEF OwnTweetIsLast
  <2>4. QueueLength(v) = 0
    <3>1. v.pendingTweets[0] = EmptyStr
      <4>1. CASE M = 0
        BY <1>0, <2>1, <2>2, <4>1
      <4>2. CASE M # 0
        BY <1>0, <1>2, <4>2
      <4> QED
        BY <4>1, <4>2
    <3>2. 0 \in 0 .. MAX_TWEET_QUEUE /\ \A j \in PendingTweetIdx : ~ (j < 0)
      BY <1>0 DEF PendingTweetIdx
    <3> QED
      BY <1>0, <3>1, <3>2, QueueLengthIsFirst
  <2>5. OwnLength(v, since) = 0
    BY <1>0, <2>4 DEF OwnLength
  <2> QED
    BY <1>0, <2>1, <2>3, <2>5, OwnTweetsAre DEF OwnTweetIsLast
<1> QED
  BY <1>4, <1>5

(* A tweet goes to the end of the user's own tweets.  It is lost when no   *)
(* cell is free; then the user's own are all cells, or all but the last.   *)
LEMMA WithTweetView ==
  ASSUME NEW u, NEW since \in Nat, NEW last \in Nat, SoundEntry(u, since, last),
         OwnTweetIsLast(u, since), u.isOccupied,
         NEW item \in TweetItem, item.text > since
  PROVE  /\ \/ /\ OwnLength(u, since) < MAX_TWEET_QUEUE
               /\ OwnTweets(WithTweet(u, item), since) = Append(OwnTweets(u, since), item)
            \/ /\ OwnLength(u, since) >= MAX_TWEET_QUEUE - 1
               /\ OwnTweets(WithTweet(u, item), since) = OwnTweets(u, since)
         /\ OwnTweetIsLast(WithTweet(u, item), since)
<1> DEFINE v == WithTweet(u, item)
           q == QueueLength(u)
           M == MAX_TWEET_QUEUE - 1
<1>0. /\ u \in User /\ v \in User /\ MAX_TWEET_QUEUE \in Nat \ {0}
      /\ M \in PendingTweetIdx /\ item # EmptyStr
  BY WithTweetType, EmptyStrIsNoValue DEF SoundEntry, PendingTweetIdx
<1>1. CASE q = MAX_TWEET_QUEUE
  <2>1. v = u
    BY <1>1 DEF WithTweet
  <2> QED
    BY <1>0, <1>1, <2>1 DEF OwnLength
<1>2. CASE q # MAX_TWEET_QUEUE
  <2>1. /\ q \in 0 .. M /\ q \in PendingTweetIdx
        /\ u.pendingTweets[q] = EmptyStr
        /\ \A j \in PendingTweetIdx : j < q => u.pendingTweets[j] # EmptyStr
    BY <1>0, <1>2, QueueLengthIs DEF PendingTweetIdx
  <2>2. \A j \in PendingTweetIdx :
          v.pendingTweets[j] = IF j = q THEN item ELSE u.pendingTweets[j]
    BY <1>0, <1>2, <2>1 DEF WithTweet, User
  <2>3. OwnLength(u, since) = q
    BY <1>2 DEF OwnLength
  <2>4. \A j \in 0 .. M - 1 : j \in PendingTweetIdx
    BY <1>0 DEF PendingTweetIdx
  <2>5. OwnLength(v, since) = q + 1 /\ OwnTweetIsLast(v, since)
    <3>1. CASE q = M
      <4>1. QueueLength(v) = MAX_TWEET_QUEUE
        BY <1>0, <2>1, <2>2, <3>1, QueueLengthIsFirst DEF PendingTweetIdx
      <4>2. v.pendingTweets[M] = item /\ \A j \in 0 .. M - 1 : v.pendingTweets[j] # EmptyStr
        BY <1>0, <2>1, <2>2, <2>4, <3>1
      <4>3. OwnTweetIsLast(v, since)
        BY <1>0, <4>2 DEF OwnTweetIsLast
      <4>4. item.text \in Nat
        BY DEF TweetItem
      <4>5. OwnLength(v, since) = MAX_TWEET_QUEUE
        BY <1>0, <4>1, <4>2, <4>4 DEF OwnLength
      <4> QED
        BY <1>0, <3>1, <4>3, <4>5
    <3>2. CASE q # M
      <4>1. v.pendingTweets[M] = u.pendingTweets[M]
        BY <1>0, <2>2, <3>2
      <4>2. q \in 0 .. M - 1
        BY <1>0, <2>1, <3>2
      <4>3. ~ (u.pendingTweets[M] # EmptyStr /\ u.pendingTweets[M].text > since)
        BY <1>0, <2>1, <4>2 DEF OwnTweetIsLast
      <4>4. OwnTweetIsLast(v, since)
        BY <4>1, <4>3 DEF OwnTweetIsLast
      <4>5. \A j \in PendingTweetIdx : j < q + 1 => v.pendingTweets[j] # EmptyStr
        BY <1>0, <2>1, <2>2 DEF PendingTweetIdx
      <4>6. CASE q + 1 < M
        <5>1. u.pendingTweets[q + 1] = EmptyStr
          BY <1>0, <2>1, <4>6, QueueHasNoHoles DEF SoundEntry
        <5>2. v.pendingTweets[q + 1] = EmptyStr
          BY <1>0, <2>1, <2>2, <4>6, <5>1 DEF PendingTweetIdx
        <5>3. QueueLength(v) = q + 1
          BY <1>0, <2>1, <4>5, <4>6, <5>2, QueueLengthIsFirst
        <5> QED
          BY <1>0, <2>1, <4>4, <4>6, <5>3 DEF OwnLength
      <4>7. CASE q + 1 = M /\ u.pendingTweets[M] = EmptyStr
        <5>1. QueueLength(v) = q + 1
          BY <1>0, <2>1, <4>1, <4>5, <4>7, QueueLengthIsFirst
        <5> QED
          BY <1>0, <2>1, <4>4, <4>7, <5>1 DEF OwnLength
      <4>8. CASE q + 1 = M /\ u.pendingTweets[M] # EmptyStr
        <5>1. \A j \in PendingTweetIdx : v.pendingTweets[j] # EmptyStr
          BY <1>0, <4>1, <4>5, <4>8 DEF PendingTweetIdx
        <5>2. QueueLength(v) = MAX_TWEET_QUEUE
          BY <1>0, <5>1, QueueLengthIsFirst
        <5>3. u.pendingTweets[M].text \in Nat
          BY <1>0, <4>8 DEF User, TweetItem
        <5> QED
          BY <1>0, <4>1, <4>3, <4>4, <4>8, <5>2, <5>3 DEF OwnLength
      <4> QED
        BY <1>0, <4>2, <4>6, <4>7, <4>8
    <3> QED
      BY <3>1, <3>2
  <2>6. OwnTweets(v, since) = Append(OwnTweets(u, since), item)
    <3>1. OwnTweets(u, since) = [k \in 1 .. q |-> u.pendingTweets[k - 1]]
          /\ OwnTweets(u, since) \in Seq(TweetItem) /\ Len(OwnTweets(u, since)) = q
      BY <1>0, <2>3, OwnTweetsAre
    <3>2. OwnTweets(v, since) = [k \in 1 .. q + 1 |-> v.pendingTweets[k - 1]]
      BY <1>0, <2>5, OwnTweetsAre
    <3>3. \A k \in 1 .. q + 1 :
            v.pendingTweets[k - 1] = IF k = q + 1 THEN item ELSE u.pendingTweets[k - 1]
      BY <1>0, <2>1, <2>2 DEF PendingTweetIdx
    <3>4. Append(OwnTweets(u, since), item)
            = [k \in 1 .. q + 1 |-> IF k = q + 1 THEN item ELSE u.pendingTweets[k - 1]]
      BY <2>1, <3>1
    <3> QED
      BY <3>2, <3>3, <3>4
  <2> QED
    BY <1>0, <2>1, <2>3, <2>5, <2>6
<1> QED
  BY <1>1, <1>2

(* The hashtag a tweet is queued under is one the service may choose.      *)
LEMMA ShownUnderOne ==
  ASSUME NEW u, NEW since, NEW last, SoundEntry(u, since, last),
         NEW tags \in Seq(Hashtags), u.isOccupied
  PROVE  /\ ALL \in SubscriptionsIn(u) <=> u.isSubscribedAll
         /\ ~ u.isSubscribedAll =>
              (Wants(u, tags) <=> Range(tags) \cap SubscriptionsIn(u) # {})
         /\ Wants(u, tags) =>
              OriginHashtag(u, tags) \in
                IF ALL \notin SubscriptionsIn(u) THEN Range(tags) \cap SubscriptionsIn(u)
                ELSE IF tags = <<>> THEN {EmptyStr} ELSE {tags[1]}
<1>0. u \in User /\ ALL # EmptyStr /\ SubscriptionsAgree(u)
  BY EmptyStrIsNoValue DEF SoundEntry
<1>1. SubscriptionsIn(u) = {u.subscriptions[s] : s \in SubscriptionIdx} \ {EmptyStr}
  BY <1>0 DEF SubscriptionsIn, Range, User
<1>2. ALL \in SubscriptionsIn(u) <=> u.isSubscribedAll
  BY <1>0, <1>1 DEF SubscriptionsAgree, IsSubscribed
<1>3. Range(tags) \subseteq Hashtags /\ EmptyStr \notin Range(tags)
  BY EmptyStrIsNoValue DEF Range, Subscribable
<1>4. ASSUME ~ u.isSubscribedAll
      PROVE  Wants(u, tags) <=> Range(tags) \cap SubscriptionsIn(u) # {}
  BY <1>1, <1>3, <1>4 DEF Wants, IsSubscribed
<1>5. ASSUME ~ u.isSubscribedAll, Wants(u, tags)
      PROVE  OriginHashtag(u, tags) \in Range(tags) \cap SubscriptionsIn(u)
  <2> DEFINE S == {s \in SubscriptionIdx : u.subscriptions[s] \in Range(tags)}
  <2>1. S \in SUBSET Nat /\ S # {}
    BY <1>5 DEF SubscriptionIdx, Wants, IsSubscribed
  <2>2. Min(S) \in S
    BY <2>1, MinIsLeast
  <2>3. OriginHashtag(u, tags) = u.subscriptions[Min(S)]
    BY <1>5 DEF OriginHashtag
  <2> QED
    BY <1>1, <1>3, <2>2, <2>3
<1>6. ASSUME u.isSubscribedAll
      PROVE  OriginHashtag(u, tags) \in IF tags = <<>> THEN {EmptyStr} ELSE {tags[1]}
  BY <1>6 DEF OriginHashtag
<1> QED
  BY <1>2, <1>4, <1>5, <1>6

-----------------------------------------------------------------------------
(* The subscriptions in one entry                                          *)

(* A hashtag that is new goes into the set, and the set has room for it.   *)
LEMMA SubscribedView ==
  ASSUME NEW u, NEW since, NEW last, SoundEntry(u, since, last), NEW h \in Subscribable
  PROVE  \/ Subscribed(u, h) = u
         \/ /\ Cardinality(SubscriptionsIn(u)) < MAX_SUBSCRIPTIONS
            /\ SubscriptionsIn(Subscribed(u, h)) = SubscriptionsIn(u) \cup {h}
<1> DEFINE v == Subscribed(u, h)
           cell == FirstEmpty(u.subscriptions, MAX_SUBSCRIPTIONS)
           list == [u.subscriptions EXCEPT ![cell] = h]
<1>0. u \in User /\ SubscriptionsAgree(u) /\ MAX_SUBSCRIPTIONS \in Nat \ {0}
      /\ h # EmptyStr
  BY EmptyStrIsNoValue DEF SoundEntry
<1>1. SUFFICES ASSUME ~ IsSubscriptionsFull(u), ~ IsSubscribed(u, h)
               PROVE  /\ Cardinality(SubscriptionsIn(u)) < MAX_SUBSCRIPTIONS
                      /\ SubscriptionsIn(v) = SubscriptionsIn(u) \cup {h}
  BY DEF Subscribed
<1>2. v.subscriptions = list
  BY <1>0, <1>1 DEF Subscribed, User
<1>3. cell \in SubscriptionIdx /\ u.subscriptions[cell] = EmptyStr
  <2>1. PICK s \in SubscriptionIdx : u.subscriptions[s] = EmptyStr
    BY <1>1 DEF IsSubscriptionsFull, IsSubscribed
  <2>2. cell \in 0 .. MAX_SUBSCRIPTIONS
        /\ (cell < MAX_SUBSCRIPTIONS => u.subscriptions[cell] = EmptyStr)
        /\ (cell = MAX_SUBSCRIPTIONS => u.subscriptions[s] # EmptyStr)
    BY <1>0, FirstEmptyIsFirst DEF SubscriptionIdx
  <2> QED
    BY <1>0, <2>1, <2>2 DEF SubscriptionIdx
<1>4. SubscriptionsIn(u) = {u.subscriptions[s] : s \in SubscriptionIdx} \ {EmptyStr}
  BY <1>0 DEF SubscriptionsIn, Range, User
<1>5. SubscriptionsIn(v) = SubscriptionsIn(u) \cup {h}
  <2>1. \A s \in SubscriptionIdx : list[s] = IF s = cell THEN h ELSE u.subscriptions[s]
    BY <1>0, <1>3 DEF User
  <2>2. DOMAIN list = SubscriptionIdx
    BY <1>0 DEF User
  <2>3. SubscriptionsIn(v) = {list[s] : s \in SubscriptionIdx} \ {EmptyStr}
    BY <1>2, <2>2 DEF SubscriptionsIn, Range
  <2> QED
    BY <1>0, <1>3, <1>4, <2>1, <2>3
<1>6. Cardinality(SubscriptionsIn(u)) < MAX_SUBSCRIPTIONS
  <2> DEFINE f == [g \in SubscriptionsIn(u) |->
                     CHOOSE s \in SubscriptionIdx : u.subscriptions[s] = g]
  <2>1. \A g \in SubscriptionsIn(u) :
          f[g] \in SubscriptionIdx /\ u.subscriptions[f[g]] = g /\ g # EmptyStr
    BY <1>4
  <2>2. f \in [SubscriptionsIn(u) -> 0 .. MAX_SUBSCRIPTIONS - 1]
    BY <2>1 DEF SubscriptionIdx
  <2>3. \A x, y \in SubscriptionsIn(u) : f[x] = f[y] => x = y
    BY <2>1
  <2>4. \A x \in SubscriptionsIn(u) : f[x] # cell
    BY <1>3, <2>1
  <2> HIDE DEF f
  <2> QED
    BY <1>0, <1>3, <2>2, <2>3, <2>4, RoomIsLeft DEF SubscriptionIdx
<1> QED
  BY <1>5, <1>6

(* The first cell with the hashtag is the only one.                        *)
LEMMA UnsubscribedView ==
  ASSUME NEW u, NEW since, NEW last, SoundEntry(u, since, last), NEW h \in Subscribable
  PROVE  SubscriptionsIn(Unsubscribed(u, h)) = SubscriptionsIn(u) \ {h}
<1> DEFINE v == Unsubscribed(u, h)
           S == {s \in SubscriptionIdx : u.subscriptions[s] = h}
           list == [u.subscriptions EXCEPT ![Min(S)] = EmptyStr]
<1>0. u \in User /\ SubscriptionsAgree(u) /\ h # EmptyStr
  BY EmptyStrIsNoValue DEF SoundEntry
<1>1. SubscriptionsIn(u) = {u.subscriptions[s] : s \in SubscriptionIdx} \ {EmptyStr}
  BY <1>0 DEF SubscriptionsIn, Range, User
<1>2. CASE ~ IsSubscribed(u, h)
  BY <1>1, <1>2 DEF Unsubscribed, IsSubscribed
<1>3. CASE IsSubscribed(u, h)
  <2>1. v.subscriptions = list
    BY <1>0, <1>3 DEF Unsubscribed, User
  <2>2. Min(S) \in SubscriptionIdx /\ u.subscriptions[Min(S)] = h
    <3>1. S \in SUBSET Nat /\ S # {}
      BY <1>3 DEF SubscriptionIdx, IsSubscribed
    <3> QED
      BY <3>1, MinIsLeast
  <2>3. \A s \in SubscriptionIdx :
          list[s] = IF s = Min(S) THEN EmptyStr ELSE u.subscriptions[s]
    BY <1>0, <2>2 DEF User
  <2>4. \A s \in SubscriptionIdx : u.subscriptions[s] = h => s = Min(S)
    BY <1>0, <2>2 DEF SubscriptionsAgree
  <2>5. DOMAIN list = SubscriptionIdx
    BY <1>0 DEF User
  <2>6. SubscriptionsIn(v) = {list[s] : s \in SubscriptionIdx} \ {EmptyStr}
    BY <2>1, <2>5 DEF SubscriptionsIn, Range
  <2> QED
    BY <1>0, <1>1, <2>2, <2>3, <2>4, <2>6
<1> QED
  BY <1>2, <1>3

-----------------------------------------------------------------------------
(* Names and entries                                                       *)

Seated(n, i) == activeUsers[i].isOccupied /\ activeUsers[i].username = n

(* What the service sees of a name is what its entry holds.                *)
ViewAgrees ==
  \A n \in Usernames :
    /\ n \in Online <=> \E i \in UserIdx : Seated(n, i)
    /\ n \notin Online => SubscriptionsOf(n) = {} /\ InboxOf(n) = <<>>
    /\ \A i \in UserIdx : Seated(n, i) =>
         /\ SubscriptionsOf(n) = SubscriptionsIn(activeUsers[i])
         /\ InboxOf(n) = OwnTweets(activeUsers[i], joinedAt[i])

LEMMA ViewIsOfEntries == TableInv => ViewAgrees
<1> SUFFICES ASSUME TableInv, NEW n \in Usernames
             PROVE  /\ n \in Online <=> \E i \in UserIdx : Seated(n, i)
                    /\ n \notin Online => SubscriptionsOf(n) = {} /\ InboxOf(n) = <<>>
                    /\ \A i \in UserIdx : Seated(n, i) =>
                         /\ SubscriptionsOf(n) = SubscriptionsIn(activeUsers[i])
                         /\ InboxOf(n) = OwnTweets(activeUsers[i], joinedAt[i])
  BY DEF ViewAgrees
<1>1. n \in Online <=> \E i \in UserIdx : Seated(n, i)
  BY DEF Online, NameTaken, Seated
<1>2. n \notin Online => SubscriptionsOf(n) = {} /\ InboxOf(n) = <<>>
  BY DEF SubscriptionsOf, InboxOf
<1>3. ASSUME NEW i \in UserIdx, Seated(n, i)
      PROVE  /\ SubscriptionsOf(n) = SubscriptionsIn(activeUsers[i])
             /\ InboxOf(n) = OwnTweets(activeUsers[i], joinedAt[i])
  <2>1. \A j \in UserIdx : Seated(n, j) => j = i
    BY <1>3 DEF TableInv, UniqueUsernames, Seated
  <2>2. EntryOf(n) = i
    BY <1>3, <2>1 DEF EntryOf, Seated
  <2> QED
    BY <1>1, <1>3, <2>2 DEF SubscriptionsOf, SubscriptionsIn, InboxOf
<1> QED
  BY <1>1, <1>2, <1>3

LEMMA ViewIsOfEntriesPrime == TableInv' => ViewAgrees'
BY ViewIsOfEntries, PTL

(* A step that keeps every entry's owner, the subscriptions and the        *)
(* queues of all entries but i keeps the view of all other names.          *)
LEMMA OthersKeepView ==
  ASSUME TableInv, TableInv', NEW i \in UserIdx,
         \A j \in UserIdx \ {i} :
           activeUsers'[j] = activeUsers[j] /\ joinedAt'[j] = joinedAt[j],
         NEW n \in Usernames, ~ Seated(n, i), ~ Seated(n, i)'
  PROVE  /\ n \in Online' <=> n \in Online
         /\ SubscriptionsOf(n)' = SubscriptionsOf(n)
         /\ InboxOf(n)' = InboxOf(n)
<1>1. ViewAgrees /\ ViewAgrees'
  BY ViewIsOfEntries, ViewIsOfEntriesPrime
<1>2. \A j \in UserIdx : Seated(n, j)' <=> Seated(n, j)
  BY DEF Seated
<1>3. n \in Online' <=> n \in Online
  BY <1>1, <1>2 DEF ViewAgrees
<1>4. CASE n \notin Online
  BY <1>1, <1>3, <1>4 DEF ViewAgrees
<1>5. CASE n \in Online
  <2>1. PICK j \in UserIdx : Seated(n, j)
    BY <1>1, <1>5 DEF ViewAgrees
  <2>2. j # i
    BY <2>1
  <2> QED
    BY <1>1, <1>2, <1>3, <2>1, <2>2 DEF ViewAgrees
<1> QED
  BY <1>4, <1>5

(* A request that only writes its sender's entry changes what the service  *)
(* knows of this user, from the old entry to the new one.                  *)
LEMMA OwnView ==
  ASSUME TableInv, TableInv', NEW c \in Clients, InSession(c), NEW u,
         UpdateOwnEntry(c, u),
         u.isOccupied = OwnEntry(c).isOccupied, u.username = OwnEntry(c).username,
         UNCHANGED joinedAt,
         NEW n, n = name[c], NEW i, i = clientUserIdx[c]
  PROVE  /\ i \in UserIdx /\ n \in Usernames
         /\ activeUsers'[i] = u
         /\ \A j \in UserIdx \ {i} : activeUsers'[j] = activeUsers[j]
         /\ n \in Online
         /\ Online' = Online
         /\ \A m \in Usernames \ {n} :
              SubscriptionsOf(m)' = SubscriptionsOf(m) /\ InboxOf(m)' = InboxOf(m)
         /\ SubscriptionsOf(n) = SubscriptionsIn(OwnEntry(c))
         /\ SubscriptionsOf(n)' = SubscriptionsIn(u)
         /\ InboxOf(n) = OwnTweets(OwnEntry(c), joinedAt[i])
         /\ InboxOf(n)' = OwnTweets(u, joinedAt[i])
<1>1. i \in UserIdx /\ Seated(n, i) /\ n \in Usernames
  BY SessionEntry DEF OwnEntry, Seated
<1>2. activeUsers'[i] = u /\ \A j \in UserIdx \ {i} : activeUsers'[j] = activeUsers[j]
  BY <1>1 DEF UpdateOwnEntry, TableInv, TypeOK
<1>3. Seated(n, i)' /\ \A m \in Usernames \ {n} : ~ Seated(m, i) /\ ~ Seated(m, i)'
  BY <1>1, <1>2 DEF Seated, OwnEntry
<1>4. \A m \in Usernames \ {n} :
        /\ m \in Online' <=> m \in Online
        /\ SubscriptionsOf(m)' = SubscriptionsOf(m)
        /\ InboxOf(m)' = InboxOf(m)
  BY <1>1, <1>2, <1>3, OthersKeepView
<1>5. ViewAgrees /\ ViewAgrees'
  BY ViewIsOfEntries, ViewIsOfEntriesPrime
<1>6. n \in Online /\ n \in Online'
  BY <1>1, <1>3, <1>5 DEF ViewAgrees
<1>7. Online' = Online
  BY <1>4, <1>6 DEF Online
<1> QED
  BY <1>1, <1>2, <1>3, <1>4, <1>5, <1>6, <1>7 DEF ViewAgrees, OwnEntry

(* There is a place for a new user as long as an entry is free.            *)
LEMMA PlaceIsLeft ==
  ASSUME TableInv, SpaceAvailable
  PROVE  Cardinality(Online) < MAX_CONC_CONN
<1> DEFINE f == [n \in Online |-> CHOOSE i \in UserIdx : Seated(n, i)]
<1>1. PICK free \in UserIdx : ~ activeUsers[free].isOccupied
  BY DEF SpaceAvailable
<1>2. \A n \in Online : f[n] \in UserIdx /\ Seated(n, f[n])
  BY DEF Online, NameTaken, Seated
<1>3. f \in [Online -> 0 .. MAX_CONC_CONN - 1]
  BY <1>2 DEF UserIdx
<1>4. \A x, y \in Online : f[x] = f[y] => x = y
  BY <1>2 DEF Seated
<1>5. \A x \in Online : f[x] # free
  BY <1>1, <1>2 DEF Seated
<1> HIDE DEF f
<1> QED
  BY <1>1, <1>3, <1>4, <1>5, RoomIsLeft, EmptyStrIsNoValue DEF UserIdx

-----------------------------------------------------------------------------
(* Action by action: a step of the service, or one it does not see         *)

Invisible == UNCHANGED Service!vars

(* The processes may change; the table and the last tweet do not.          *)
LEMMA ProcessStep ==
  ASSUME OwnTweetsAreLast, UNCHANGED <<activeUsers, tweetID, joinedAt>>
  PROVE  Invisible /\ OwnTweetsAreLast'
<1>1. Online' = Online
  BY DEF Online, NameTaken
<1>2. \A n \in Usernames : SubscriptionsOf(n)' = SubscriptionsOf(n)
                           /\ InboxOf(n)' = InboxOf(n)
  BY <1>1 DEF SubscriptionsOf, InboxOf, EntryOf
<1>3. OwnTweetsAreLast'
  BY DEF OwnTweetsAreLast
<1> QED
  BY <1>1, <1>2, <1>3 DEF Invisible, Service!vars

(* A name that was not online becomes so, in an entry that was free.       *)
LEMMA RegisterStep ==
  ASSUME TableInv, TableInv', OwnTweetsAreLast,
         NEW c \in Clients, ValidateUser(c), AcceptUsername(c)
  PROVE  Service!Register(name[c]) /\ name[c] \in Usernames /\ OwnTweetsAreLast'
<1>1. PICK n : n = name[c]
  OBVIOUS
<1>2. PICK i : i = FirstFreeUser(activeUsers)
  OBVIOUS
<1> DEFINE v == Registered(activeUsers[i], n)
<1>3. i \in UserIdx /\ ~ activeUsers[i].isOccupied /\ n \in Usernames
      /\ SoundEntry(activeUsers[i], joinedAt[i], tweetID) /\ tweetID \in Nat
  BY <1>1, <1>2, FirstFreeUserIsFree
     DEF AcceptUsername, ValidateUser, TableInv, Sessions, Entries, TypeOK
<1>4. \A j \in UserIdx : /\ activeUsers'[j] = IF j = i THEN v ELSE activeUsers[j]
                         /\ joinedAt'[j] = IF j = i THEN tweetID ELSE joinedAt[j]
  BY <1>1, <1>2, <1>3 DEF AcceptUsername, TableInv, TypeOK
<1>5. v.isOccupied /\ v.username = n
  BY <1>3 DEF SoundEntry, Registered, User
<1>6. Seated(n, i)' /\ \A m \in Usernames \ {n} : ~ Seated(m, i) /\ ~ Seated(m, i)'
  BY <1>3, <1>4, <1>5 DEF Seated
<1>7. ViewAgrees /\ ViewAgrees'
  BY ViewIsOfEntries, ViewIsOfEntriesPrime
<1>8. n \notin Online /\ SubscriptionsOf(n) = {} /\ InboxOf(n) = <<>>
  BY <1>1, <1>3, <1>7 DEF AcceptUsername, Online, ViewAgrees
<1>9. n \in Online' /\ SubscriptionsOf(n)' = {} /\ InboxOf(n)' = <<>>
  <2>1. activeUsers'[i] = v /\ joinedAt'[i] = tweetID
    BY <1>3, <1>4
  <2>2. OwnTweets(v, tweetID) = <<>> /\ SubscriptionsIn(v) = {}
    BY <1>3, RegisteredView
  <2> QED
    BY <1>3, <1>6, <1>7, <2>1, <2>2 DEF ViewAgrees
<1>10. \A m \in Usernames \ {n} : /\ m \in Online' <=> m \in Online
                                  /\ SubscriptionsOf(m)' = SubscriptionsOf(m)
                                  /\ InboxOf(m)' = InboxOf(m)
  BY <1>3, <1>4, <1>6, OthersKeepView
<1>11. Online' = Online \cup {n}
  BY <1>3, <1>9, <1>10 DEF Online
<1>12. Cardinality(Online) < MAX_CONC_CONN
  BY PlaceIsLeft DEF AcceptUsername
<1>13. Service!Register(n)
  <2>1. \A m \in Usernames : SubscriptionsOf(m)' = SubscriptionsOf(m)
                             /\ InboxOf(m)' = InboxOf(m)
    BY <1>8, <1>9, <1>10
  <2>2. tweetID' = tweetID
    BY DEF ValidateUser
  <2> QED
    BY <1>8, <1>11, <1>12, <2>1, <2>2, SameCardinality DEF Service!Register
<1>14. OwnTweetsAreLast'
  <2>1. OwnTweetIsLast(v, tweetID)
    BY <1>3, RegisteredView
  <2> QED
    BY <1>4, <2>1 DEF OwnTweetsAreLast
<1> QED
  BY <1>1, <1>3, <1>13, <1>14

(* The user leaves, and its entry shows nothing of it.                     *)
LEMMA LeaveStep ==
  ASSUME TableInv, TableInv', OwnTweetsAreLast, NEW c \in Clients, Exit(c)
  PROVE  Service!Leave(name[c]) /\ name[c] \in Usernames /\ OwnTweetsAreLast'
<1>1. PICK n : n = name[c]
  OBVIOUS
<1>2. PICK i : i = clientUserIdx[c]
  OBVIOUS
<1>3. i \in UserIdx /\ n \in Usernames /\ Seated(n, i)
  BY <1>1, <1>2, SessionEntry DEF Exit, OwnEntry, Seated
<1>4. \A j \in UserIdx : /\ activeUsers'[j] = IF j = i THEN Cleared(activeUsers[i])
                                                       ELSE activeUsers[j]
                         /\ joinedAt'[j] = joinedAt[j]
  BY <1>2, <1>3 DEF Exit, UpdateOwnEntry, OwnEntry, TableInv, TypeOK
<1>5. ~ activeUsers'[i].isOccupied
  BY <1>3, <1>4 DEF Cleared, InitialUser
<1>6. \A m \in Usernames : ~ Seated(m, i)' /\ (m # n => ~ Seated(m, i))
  BY <1>3, <1>5 DEF Seated
<1>7. \A j \in UserIdx : Seated(n, j) => j = i
  BY <1>3 DEF TableInv, UniqueUsernames, Seated
<1>8. \A j \in UserIdx : ~ Seated(n, j)'
  BY <1>3, <1>4, <1>6, <1>7 DEF Seated
<1>9. ViewAgrees /\ ViewAgrees'
  BY ViewIsOfEntries, ViewIsOfEntriesPrime
<1>10. n \in Online /\ n \notin Online' /\ SubscriptionsOf(n)' = {} /\ InboxOf(n)' = <<>>
  BY <1>3, <1>8, <1>9 DEF ViewAgrees
<1>11. \A m \in Usernames \ {n} : /\ m \in Online' <=> m \in Online
                                  /\ SubscriptionsOf(m)' = SubscriptionsOf(m)
                                  /\ InboxOf(m)' = InboxOf(m)
  BY <1>3, <1>4, <1>6, OthersKeepView
<1>12. Online' = Online \ {n}
  BY <1>10, <1>11 DEF Online
<1>13. Service!Leave(n)
  BY <1>3, <1>10, <1>11, <1>12 DEF Service!Leave, Exit
<1>14. OwnTweetsAreLast'
  BY <1>4, <1>5 DEF OwnTweetsAreLast, OwnTweetIsLast
<1> QED
  BY <1>1, <1>3, <1>13, <1>14

(* A change of the sender's list only.                                     *)
LEMMA ListView ==
  ASSUME TableInv, TableInv', OwnTweetsAreLast, NEW c \in Clients, InSession(c), NEW v,
         UpdateOwnEntry(c, v), UNCHANGED <<tweetID, joinedAt>>,
         v.isOccupied = OwnEntry(c).isOccupied, v.username = OwnEntry(c).username,
         v.pendingTweets = OwnEntry(c).pendingTweets,
         NEW n, n = name[c]
  PROVE  /\ n \in Usernames /\ n \in Online
         /\ Online' = Online
         /\ \A m \in Usernames : InboxOf(m)' = InboxOf(m)
         /\ \A m \in Usernames \ {n} : SubscriptionsOf(m)' = SubscriptionsOf(m)
         /\ SubscriptionsOf(n) = SubscriptionsIn(OwnEntry(c))
         /\ SubscriptionsOf(n)' = SubscriptionsIn(v)
         /\ OwnTweetsAreLast'
<1>1. PICK i : i = clientUserIdx[c]
  OBVIOUS
<1>2. /\ i \in UserIdx /\ n \in Usernames
      /\ activeUsers'[i] = v
      /\ \A j \in UserIdx \ {i} : activeUsers'[j] = activeUsers[j]
      /\ n \in Online
      /\ Online' = Online
      /\ \A m \in Usernames \ {n} :
           SubscriptionsOf(m)' = SubscriptionsOf(m) /\ InboxOf(m)' = InboxOf(m)
      /\ SubscriptionsOf(n) = SubscriptionsIn(OwnEntry(c))
      /\ SubscriptionsOf(n)' = SubscriptionsIn(v)
      /\ InboxOf(n) = OwnTweets(OwnEntry(c), joinedAt[i])
      /\ InboxOf(n)' = OwnTweets(v, joinedAt[i])
  BY <1>1, OwnView
<1>3. OwnTweets(v, joinedAt[i]) = OwnTweets(OwnEntry(c), joinedAt[i])
  BY DEF OwnTweets, OwnLength, StoredTweets, QueueLength
<1>4. OwnTweetsAreLast'
  BY <1>1, <1>2 DEF OwnTweetsAreLast, OwnTweetIsLast, OwnEntry
<1> QED
  BY <1>2, <1>3, <1>4

(* A new hashtag, or no change at all.                                     *)
LEMMA SubscribeStep ==
  ASSUME TableInv, TableInv', OwnTweetsAreLast,
         NEW c \in Clients, NEW h \in Subscribable, Subscribe(c, h)
  PROVE  /\ Service!Subscribe(name[c], h) \/ Invisible
         /\ name[c] \in Usernames /\ OwnTweetsAreLast'
<1>1. PICK n : n = name[c]
  OBVIOUS
<1>2. PICK u : u = OwnEntry(c)
  OBVIOUS
<1>3. PICK v : v = Subscribed(u, h)
  OBVIOUS
<1>4. SoundEntry(u, joinedAt[clientUserIdx[c]], tweetID) /\ u \in User /\ InSession(c)
  BY <1>2, SessionEntry DEF Subscribe, SoundEntry
<1>5. UpdateOwnEntry(c, v) /\ UNCHANGED <<tweetID, joinedAt>>
  BY <1>2, <1>3 DEF Subscribe
<1>6. /\ n \in Usernames /\ n \in Online
      /\ Online' = Online
      /\ \A m \in Usernames : InboxOf(m)' = InboxOf(m)
      /\ \A m \in Usernames \ {n} : SubscriptionsOf(m)' = SubscriptionsOf(m)
      /\ SubscriptionsOf(n) = SubscriptionsIn(u)
      /\ SubscriptionsOf(n)' = SubscriptionsIn(v)
      /\ OwnTweetsAreLast'
  BY <1>1, <1>2, <1>3, <1>4, <1>5, SameOwner, ListView
<1>7. \/ v = u
      \/ /\ Cardinality(SubscriptionsIn(u)) < MAX_SUBSCRIPTIONS
         /\ SubscriptionsIn(v) = SubscriptionsIn(u) \cup {h}
  BY <1>3, <1>4, SubscribedView
<1>8. CASE v = u
  <2>1. \A m \in Usernames : SubscriptionsOf(m)' = SubscriptionsOf(m)
    BY <1>6, <1>8
  <2> QED
    BY <1>1, <1>5, <1>6, <2>1 DEF Invisible, Service!vars
<1>9. CASE /\ Cardinality(SubscriptionsIn(u)) < MAX_SUBSCRIPTIONS
           /\ SubscriptionsIn(v) = SubscriptionsIn(u) \cup {h}
  <2>1. Service!Subscribe(n, h)
    BY <1>5, <1>6, <1>9, SameCardinality DEF Service!Subscribe
  <2> QED
    BY <1>1, <1>6, <2>1
<1> QED
  BY <1>7, <1>8, <1>9

LEMMA UnsubscribeStep ==
  ASSUME TableInv, TableInv', OwnTweetsAreLast,
         NEW c \in Clients, NEW h \in Subscribable, Unsubscribe(c, h)
  PROVE  Service!Unsubscribe(name[c], h) /\ name[c] \in Usernames /\ OwnTweetsAreLast'
<1>1. PICK n : n = name[c]
  OBVIOUS
<1>2. PICK u : u = OwnEntry(c)
  OBVIOUS
<1>3. PICK v : v = Unsubscribed(u, h)
  OBVIOUS
<1>4. SoundEntry(u, joinedAt[clientUserIdx[c]], tweetID) /\ u \in User /\ InSession(c)
  BY <1>2, SessionEntry DEF Unsubscribe, SoundEntry
<1>5. UpdateOwnEntry(c, v) /\ UNCHANGED <<tweetID, joinedAt>>
  BY <1>2, <1>3 DEF Unsubscribe
<1>6. /\ n \in Usernames /\ n \in Online
      /\ Online' = Online
      /\ \A m \in Usernames : InboxOf(m)' = InboxOf(m)
      /\ \A m \in Usernames \ {n} : SubscriptionsOf(m)' = SubscriptionsOf(m)
      /\ SubscriptionsOf(n) = SubscriptionsIn(u)
      /\ SubscriptionsOf(n)' = SubscriptionsIn(v)
      /\ OwnTweetsAreLast'
  BY <1>1, <1>2, <1>3, <1>4, <1>5, SameOwner, ListView
<1>7. SubscriptionsIn(v) = SubscriptionsIn(u) \ {h}
  BY <1>3, <1>4, UnsubscribedView
<1>8. Service!Unsubscribe(n, h)
  BY <1>5, <1>6, <1>7 DEF Service!Unsubscribe
<1> QED
  BY <1>1, <1>6, <1>8

(* All of the user's own tweets go out at once.                            *)
LEMMA ReadTimelineStep ==
  ASSUME TableInv, TableInv', OwnTweetsAreLast, NEW c \in Clients, Timeline(c)
  PROVE  Service!ReadTimeline(name[c]) /\ name[c] \in Usernames /\ OwnTweetsAreLast'
<1>1. PICK n : n = name[c]
  OBVIOUS
<1>2. PICK i : i = clientUserIdx[c]
  OBVIOUS
<1>3. PICK u : u = OwnEntry(c)
  OBVIOUS
<1> DEFINE v == TimelineRead(u)
<1>4. SoundEntry(u, joinedAt[i], tweetID) /\ u \in User /\ InSession(c) /\ i \in UserIdx
  BY <1>2, <1>3, SessionEntry DEF Timeline, SoundEntry
<1>5. UpdateOwnEntry(c, v) /\ UNCHANGED <<tweetID, joinedAt>>
  BY <1>3 DEF Timeline
<1>6. /\ v.isOccupied = u.isOccupied /\ v.username = u.username
      /\ v.subscriptions = u.subscriptions
  BY <1>4, SameOwner
<1>7. OwnTweetIsLast(u, joinedAt[i]) /\ joinedAt[i] \in Nat
  BY <1>2, <1>3, <1>4 DEF OwnTweetsAreLast, OwnEntry, TableInv, TypeOK
<1>8. OwnTweets(v, joinedAt[i]) = <<>> /\ OwnTweetIsLast(v, joinedAt[i])
  BY <1>4, <1>7, TimelineView
<1> HIDE DEF v
<1>9. /\ n \in Usernames
      /\ activeUsers'[i] = v
      /\ \A j \in UserIdx \ {i} : activeUsers'[j] = activeUsers[j]
      /\ n \in Online
      /\ Online' = Online
      /\ \A m \in Usernames \ {n} :
           SubscriptionsOf(m)' = SubscriptionsOf(m) /\ InboxOf(m)' = InboxOf(m)
      /\ SubscriptionsOf(n) = SubscriptionsIn(u)
      /\ SubscriptionsOf(n)' = SubscriptionsIn(v)
      /\ InboxOf(n)' = OwnTweets(v, joinedAt[i])
  BY <1>1, <1>2, <1>3, <1>4, <1>5, <1>6, OwnView
<1>10. Service!ReadTimeline(n)
  BY <1>5, <1>6, <1>8, <1>9 DEF Service!ReadTimeline, SubscriptionsIn
<1>11. OwnTweetsAreLast'
  BY <1>5, <1>8, <1>9 DEF OwnTweetsAreLast
<1> QED
  BY <1>1, <1>9, <1>10, <1>11

(* Every user that wants the tweet gets it at the end of its inbox, unless *)
(* the inbox is full, and no one else sees anything.                       *)
LEMMA TweetStep ==
  ASSUME TableInv, TableInv', OwnTweetsAreLast,
         NEW c \in Clients, NEW tags \in TagLists, Tweet(c, tags)
  PROVE  Service!Tweet(name[c], tags) /\ name[c] \in Usernames /\ OwnTweetsAreLast'
<1>1. PICK from : from = name[c]
  OBVIOUS
<1>2. from \in Usernames /\ from \in Online /\ tags \in Seq(Hashtags) /\ tweetID \in Nat
  <2>1. Seated(from, clientUserIdx[c]) /\ clientUserIdx[c] \in UserIdx
        /\ from \in Usernames
    BY <1>1, SessionEntry DEF Tweet, OwnEntry, Seated
  <2> QED
    BY <2>1, ViewIsOfEntries, TweetServerAssumption
       DEF ViewAgrees, Tweet, TableInv, TypeOK
<1> DEFINE U(i) == Updated(activeUsers[i], from, tweetID + 1, tags)
<1>3. /\ tweetID' = tweetID + 1 /\ joinedAt' = joinedAt
      /\ \A i \in UserIdx : activeUsers'[i] = U(i)
  BY <1>1 DEF Tweet
<1>4. \A i \in UserIdx : /\ activeUsers[i] \in User
                         /\ SoundEntry(activeUsers[i], joinedAt[i], tweetID)
                         /\ OwnTweetIsLast(activeUsers[i], joinedAt[i])
                         /\ joinedAt[i] \in Nat /\ joinedAt[i] <= tweetID
  BY DEF TableInv, TypeOK, Entries, OwnTweetsAreLast
<1>5. \A i \in UserIdx : /\ U(i).isOccupied = activeUsers[i].isOccupied
                         /\ U(i).username = activeUsers[i].username
                         /\ U(i).subscriptions = activeUsers[i].subscriptions
  BY <1>4, UpdatedFrame
<1> HIDE DEF U
<1>6. \A n : \A i \in UserIdx : Seated(n, i)' <=> Seated(n, i)
  BY <1>3, <1>5 DEF Seated
<1>7. ViewAgrees /\ ViewAgrees'
  BY ViewIsOfEntries, ViewIsOfEntriesPrime
<1>8. Online' = Online
  BY <1>6, <1>7 DEF ViewAgrees, Online
<1>9. \A n \in Usernames : SubscriptionsOf(n)' = SubscriptionsOf(n)
  <2> SUFFICES ASSUME NEW n \in Usernames PROVE SubscriptionsOf(n)' = SubscriptionsOf(n)
    OBVIOUS
  <2>1. CASE n \notin Online
    BY <1>7, <1>8, <2>1 DEF ViewAgrees
  <2>2. CASE n \in Online
    <3>1. PICK i \in UserIdx : Seated(n, i)
      BY <1>7, <2>2 DEF ViewAgrees
    <3>2. SubscriptionsOf(n) = SubscriptionsIn(activeUsers[i])
          /\ SubscriptionsOf(n)' = SubscriptionsIn(U(i))
      BY <1>3, <1>6, <1>7, <3>1 DEF ViewAgrees
    <3> QED
      BY <1>5, <3>1, <3>2 DEF SubscriptionsIn
  <2> QED
    BY <2>1, <2>2
<1>10. ASSUME NEW i \in UserIdx, NEW n \in Usernames, Seated(n, i)
       PROVE  /\ InboxOf(n)' \in Service!AfterTweet(n, from, tags)
              /\ OwnTweetIsLast(U(i), joinedAt[i])
  <2>1. PICK u : u = activeUsers[i]
    OBVIOUS
  <2>2. PICK since : since = joinedAt[i]
    OBVIOUS
  <2>3. /\ u \in User /\ SoundEntry(u, since, tweetID) /\ OwnTweetIsLast(u, since)
        /\ since \in Nat /\ since <= tweetID /\ u.isOccupied /\ u.username = n
    BY <1>4, <1>10, <2>1, <2>2 DEF Seated
  <2>4. /\ n \in Online
        /\ SubscriptionsOf(n) = SubscriptionsIn(u)
        /\ InboxOf(n) = OwnTweets(u, since)
        /\ InboxOf(n)' = OwnTweets(U(i), since)
    BY <1>3, <1>6, <1>7, <1>10, <2>1, <2>2 DEF ViewAgrees
  <2> DEFINE shown == IF ALL \notin SubscriptionsIn(u) THEN Range(tags) \cap SubscriptionsIn(u)
                      ELSE IF tags = <<>> THEN {EmptyStr} ELSE {tags[1]}
             item == [to |-> n, from |-> from, text |-> tweetID + 1,
                      tag |-> OriginHashtag(u, tags)]
             v == WithTweet(u, item)
  <2>5. Service!ShownUnder(n, tags) = shown
    BY <1>2, <2>4 DEF Service!ShownUnder, Service!TagsIn, Range
  <2>6. /\ Wants(u, tags) => OriginHashtag(u, tags) \in shown
        /\ ~ Wants(u, tags) => shown = {}
    <3>1. ~ Wants(u, tags) => ~ u.isSubscribedAll
      BY <2>3 DEF Wants
    <3> QED
      BY <1>2, <2>3, <3>1, ShownUnderOne
  <2> HIDE DEF shown
  <2>7. CASE ~ Wants(u, tags)
    <3>1. U(i) = u
      BY <2>1, <2>7 DEF U, Updated
    <3>2. InboxOf(n)' = InboxOf(n)
      BY <2>4, <3>1
    <3> QED
      BY <2>2, <2>3, <2>4, <2>5, <2>6, <2>7, <3>1, <3>2 DEF Service!AfterTweet
  <2>8. CASE Wants(u, tags)
    <3>1. U(i) = v
      BY <2>1, <2>3, <2>8 DEF U, Updated
    <3>2. item \in TweetItem /\ item.text > since
      BY <1>2, <2>3, <2>8, OriginHashtagType DEF TweetItem
    <3> HIDE DEF item
    <3>3. /\ \/ /\ OwnLength(u, since) < MAX_TWEET_QUEUE
                /\ OwnTweets(v, since) = Append(OwnTweets(u, since), item)
             \/ /\ OwnLength(u, since) >= MAX_TWEET_QUEUE - 1
                /\ OwnTweets(v, since) = OwnTweets(u, since)
          /\ OwnTweetIsLast(v, since)
      BY <1>2, <2>3, <3>2, WithTweetView
    <3>4. Len(InboxOf(n)) = OwnLength(u, since)
      BY <2>3, <2>4, OwnTweetsAre
    <3>5. InboxOf(n)' \in Service!Delivered(n, item)
      BY <2>4, <3>1, <3>3, <3>4 DEF Service!Delivered
    <3>6. InboxOf(n)' \in Service!AfterTweet(n, from, tags)
      BY <1>2, <2>4, <2>5, <2>6, <2>8, <3>5 DEF Service!AfterTweet, item
    <3> QED
      BY <2>2, <3>1, <3>3, <3>6
  <2> QED
    BY <2>7, <2>8
<1>11. ASSUME NEW n \in Usernames PROVE InboxOf(n)' \in Service!AfterTweet(n, from, tags)
  <2>1. CASE n \notin Online
    <3>1. InboxOf(n)' = InboxOf(n)
      BY <1>7, <1>8, <2>1 DEF ViewAgrees
    <3> QED
      BY <2>1, <3>1 DEF Service!AfterTweet
  <2>2. CASE n \in Online
    BY <1>7, <1>10, <2>2 DEF ViewAgrees
  <2> QED
    BY <2>1, <2>2
<1>12. Service!Tweet(from, tags)
  BY <1>2, <1>3, <1>8, <1>9, <1>11 DEF Service!Tweet
<1>13. OwnTweetsAreLast'
  <2>1. ASSUME NEW i \in UserIdx PROVE OwnTweetIsLast(U(i), joinedAt[i])
    <3>1. CASE ~ activeUsers[i].isOccupied
      BY <1>5, <3>1 DEF OwnTweetIsLast
    <3>2. CASE activeUsers[i].isOccupied
      <4>1. activeUsers[i].username \in Usernames
            /\ Seated(activeUsers[i].username, i)
        BY <1>4, <3>2 DEF SoundEntry, OccupiedIsNamed, Seated
      <4> QED
        BY <1>10, <4>1
    <3> QED
      BY <3>1, <3>2
  <2> QED
    BY <1>3, <2>1 DEF OwnTweetsAreLast
<1> QED
  BY <1>1, <1>2, <1>12, <1>13

-----------------------------------------------------------------------------
(* The theorems                                                            *)

RefInv == IInv /\ OwnTweetsAreLast

LEMMA RefInit == Init => Service!Init /\ OwnTweetsAreLast
<1> SUFFICES ASSUME Init PROVE Service!Init /\ OwnTweetsAreLast
  OBVIOUS
<1>1. \A i \in UserIdx : ~ activeUsers[i].isOccupied
  BY DEF Init, InitialUser
<1>2. Online = {}
  BY <1>1 DEF Online, NameTaken
<1>3. \A n \in Usernames : SubscriptionsOf(n) = {} /\ InboxOf(n) = <<>>
  BY <1>2 DEF SubscriptionsOf, InboxOf
<1>4. OwnTweetsAreLast
  BY <1>1 DEF OwnTweetsAreLast, OwnTweetIsLast
<1> QED
  BY <1>2, <1>3, <1>4 DEF Service!Init, Init

LEMMA RefStep == RefInv /\ [Next]_vars => [Service!Next]_(Service!vars) /\ RefInv'
<1> SUFFICES ASSUME RefInv, [Next]_vars
             PROVE  ((Service!Next \/ Invisible) /\ OwnTweetsAreLast') /\ IInv'
  BY DEF RefInv, Invisible
<1>1. IInv'
  BY InductiveStep DEF RefInv
<1>2. TableInv /\ TableInv' /\ OwnTweetsAreLast
  BY <1>1 DEF RefInv, IInv
<1>3. ASSUME NEW c \in Clients, ValidateUser(c), AcceptUsername(c)
      PROVE  Service!Next /\ OwnTweetsAreLast'
  BY <1>2, <1>3, RegisterStep DEF Service!Next
<1>4. ASSUME NEW c \in Clients, ValidateUser(c), RefuseUsername(c)
      PROVE  Invisible /\ OwnTweetsAreLast'
  BY <1>2, <1>4, ProcessStep DEF ValidateUser, RefuseUsername
<1>5. ASSUME NEW c \in Clients, NEW tags \in TagLists, Tweet(c, tags)
      PROVE  Service!Next /\ OwnTweetsAreLast'
  BY <1>2, <1>5, TweetStep DEF Service!Next
<1>6. ASSUME NEW c \in Clients, NEW h \in Subscribable, Subscribe(c, h) \/ Unsubscribe(c, h)
      PROVE  (Service!Next \/ Invisible) /\ OwnTweetsAreLast'
  BY <1>2, <1>6, SubscribeStep, UnsubscribeStep DEF Service!Next, Subscribable
<1>7. ASSUME NEW c \in Clients, Timeline(c)
      PROVE  Service!Next /\ OwnTweetsAreLast'
  BY <1>2, <1>7, ReadTimelineStep DEF Service!Next
<1>8. ASSUME NEW c \in Clients, Exit(c)
      PROVE  Service!Next /\ OwnTweetsAreLast'
  BY <1>2, <1>8, LeaveStep DEF Service!Next
<1>9. ASSUME NEW c \in Clients, ClientStep(c) \/ AcceptConnection(c) \/ EndOfFile(c)
      PROVE  Invisible /\ OwnTweetsAreLast'
  BY <1>2, <1>9, ProcessStep DEF ClientStep, Connect, Vanish, AcceptConnection, EndOfFile
<1>10. ASSUME ReapChildren \/ UNCHANGED vars
       PROVE  Invisible /\ OwnTweetsAreLast'
  BY <1>2, <1>10, ProcessStep DEF ReapChildren, vars
<1>11. (Service!Next \/ Invisible) /\ OwnTweetsAreLast'
  BY <1>3, <1>4, <1>5, <1>6, <1>7, <1>8, <1>9, <1>10
     DEF Next, ChildStep, ValidateUser
<1> QED
  BY <1>1, <1>11

(* A tweet of a registered user's own is in the last cell only when every  *)
(* other cell is full too, also after "exit" has left a tweet of a         *)
(* previous user there (clear_user_at_index).                              *)
THEOREM LastCellIsLast == Spec => []OwnTweetsAreLast
<1>1. Init => RefInv
  BY TableInit, CountedInit, RefInit DEF IInv, RefInv
<1>2. RefInv => OwnTweetsAreLast
  BY DEF RefInv
<1> QED
  BY <1>1, <1>2, RefStep, PTL DEF Spec

(* Whatever clients connect, vanish, are refused or rejected, every step   *)
(* of the server is a step of the service or changes nothing a user can    *)
(* see: a tweet reaches its subscribers, once, in order, under one of      *)
(* their hashtags, and is lost only when an inbox is full.                 *)
THEOREM ServerImplementsService == Spec => ImplementsService
<1>1. Init => RefInv /\ Service!Init
  BY TableInit, CountedInit, RefInit DEF IInv, RefInv
<1> QED
  BY <1>1, RefStep, PTL DEF Spec, ImplementsService, Service!Spec
==============================================================================

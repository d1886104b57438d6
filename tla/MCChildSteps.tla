----------------------------- MODULE MCChildSteps ----------------------------
(* Two clients in session and one that connects, on a table of two users.  *)
(* Alice is subscribed to one hashtag and Bob to all.                      *)
EXTENDS ChildSteps

CONSTANTS c1, c2, c3, alice, bob, g, h

TwoHashtags == {g, h}
TwoNames == {alice, bob}
ThreeClients == {c1, c2, c3}

(* The third client asks for the name of the second.                       *)
Names == (c1 :> alice) @@ (c2 :> bob) @@ (c3 :> bob)

AliceAndBob ==
  (0 :> Subscribed(Registered(InitialUser, alice), g)) @@
  (1 :> Subscribed(Registered(InitialUser, bob), ALL))

Seated == (c1 :> 0) @@ (c2 :> 1) @@ (c3 :> INVALID_USER_INDEX)

OneTagList == {<<h, g>>}

(* Two clients that ask for one name at once, on an empty table.           *)
NoUsers == [i \in UserIdx |-> InitialUser]
TwoClients == {c1, c2}
OneName == (c1 :> bob) @@ (c2 :> bob)
NobodySeated == [c \in TwoClients |-> INVALID_USER_INDEX]
OnlyValidate == [c \in TwoClients |-> {"validate"}]

(* Two clients in session that tweet.                                      *)
TwoNamesOf == (c1 :> alice) @@ (c2 :> bob)
BothSeated == (c1 :> 0) @@ (c2 :> 1)
OnlyTweet == [c \in TwoClients |-> {"tweet"}]

-----------------------------------------------------------------------------
(* Requests that do not go well together.  Every other pair may overlap.   *)
Conflicts ==
  {<<"tweet", "tweet">>, <<"validate", "validate">>, <<"exit", "validate">>,
   <<"exit", "tweet">>, <<"validate", "exit">>, <<"tweet", "exit">>}

Harmless == (RequestKinds \X RequestKinds) \ Conflicts
Anything == RequestKinds \X RequestKinds

OnePublisher ==
  (c1 :> {"tweet", "exit"})
    @@ (c2 :> {"subscribe", "unsubscribe", "timeline", "exit"})
    @@ (c3 :> {"validate"})
==============================================================================

------------------------------- MODULE MCRaces -------------------------------
(* Alice is in session and may leave; a client that may tweet and another  *)
(* one, which asks for her name, contend for the entry that is free.       *)
EXTENDS Races, MCChildSteps

AliceAlone ==
  (0 :> Subscribed(Registered(InitialUser, alice), g)) @@ (1 :> InitialUser)

FirstSeated == [c \in ThreeClients |-> IF c = c1 THEN 0 ELSE INVALID_USER_INDEX]

AliceTwice == (c1 :> alice) @@ (c2 :> bob) @@ (c3 :> alice)

TwoPublishersAndMore ==
  (c1 :> {"tweet", "timeline", "exit"})
    @@ (c2 :> {"validate", "tweet"})
    @@ (c3 :> {"validate"})

TwoTagLists == {<<g>>, <<>>}
==============================================================================

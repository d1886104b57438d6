---------------------------- MODULE MCTweetServer ----------------------------
(* Small servers for TLC.  "sessions": two entries, three clients, so that *)
(* entries are contended, leaked and used again.  "timelines": one entry,  *)
(* used by two clients in turn, with lists and a queue long enough for     *)
(* holes, duplicates, order and the last cell to matter.                   *)
EXTENDS TweetServer, TLC

CONSTANTS c1, c2, c3, alice, bob, g, h

TwoClients == {c1, c2}
ThreeClients == {c1, c2, c3}
TwoNames == {alice, bob}

OneHashtag == {h}
TwoHashtags == {g, h}

OneTagList == {<<h>>}
TwoTagLists == {<<>>, <<g, h>>}

(* Clients differ in their names only, and names in nothing.               *)
Symmetry == Permutations(ThreeClients) \cup Permutations(TwoNames)
==============================================================================

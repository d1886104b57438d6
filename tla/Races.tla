-------------------------------- MODULE Races --------------------------------
(***************************************************************************)
(* The children of ChildSteps, of whose overlaps nothing is assumed, and   *)
(* what they keep all the same: races on a name and on latestTweet do harm *)
(* to those that take part in them, and to nobody else.  Two variables     *)
(* watch who does; they change nothing.                                    *)
(***************************************************************************)
EXTENDS ChildSteps

VARIABLES
  settled,     \* history: for a child that registers a name, the entries
               \* that were in use under one name ever since it began
  overlapped   \* history: the tweets that were handled while another was

raceVars == <<vars, settled, overlapped>>

RacesInit ==
  /\ Init
  /\ settled = [c \in Clients |-> {}]
  /\ overlapped = {}

(* Entry i is in use before and after the step, under one name.            *)
Stays(i) ==
  /\ activeUsers[i].isOccupied /\ activeUsers'[i].isOccupied
  /\ activeUsers'[i].username = activeUsers[i].username

Watch ==
  /\ settled' = [c \in Clients |->
                   {i \in UserIdx : /\ request'[c].kind = "validate"
                                    /\ Stays(i)
                                    /\ request[c].kind = "validate" => i \in settled[c]}]
  /\ overlapped' = overlapped \cup {text \in InHand' : InHand' # {text}}

RacesNext == Next /\ Watch

RacesSpec == RacesInit /\ [][RacesNext]_raceVars

-----------------------------------------------------------------------------
(* Correctness                                                             *)

(* A user that stays is not robbed: a child that found a name free, and    *)
(* goes to take an entry for it, gives away neither the name nor the entry *)
(* of a user that was there all the while, whoever else registers, leaves  *)
(* or half does so in the meantime (ttweetsrv.c:308 to :332).              *)
SettledIsSafe ==
  \A c \in Clients : \A i \in settled[c] :
    /\ pc[c] \in {"v_take", "v_occupy", "v_write_username"} =>
         activeUsers[i].username # NameOf[c]
    /\ pc[c] \in {"v_occupy", "v_write_username"} => local[c].userIdx # i

(* Two children that raced for an entry share its queue: one may copy what *)
(* the other has just emptied.                                             *)
Shown == (UNION {Range(storedTweets[c]) : c \in Clients}) \ {EmptyStr}

Queued == UNION {Items(i) : i \in UserIdx}

(* A tweet that is handled while no other is comes out whole, whatever     *)
(* others left in latestTweet before, and whatever registrations, exits,   *)
(* subscriptions and timelines it overlaps; and its child does not die of  *)
(* the hashtags of another (ttweetsrv.c:606 to :616).                      *)
AloneIsWhole ==
  /\ \A item \in Shown \cup Queued : item.text \in overlapped \/ Genuine(item)
  /\ \A c \in Clients : pc[c] = "t_hashtag" /\ request[c].text \notin overlapped =>
       local[c].hashtagIdx < Len(request[c].tags)
==============================================================================

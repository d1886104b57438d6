------------------------------- MODULE Acceptor ------------------------------
(***************************************************************************)
(* The parent process of ttweetsrv: its accept loop, one machine-level     *)
(* step at a time, and child_exit_signal_handler, which interrupts the     *)
(* loop between any two steps.                                             *)
(*                                                                         *)
(* The loop forks a child and only then increments childProcCount, which   *)
(* is not volatile.  In the makefile's build, which does not optimise,     *)
(* "childProcCount++" is a load, an addition and a store; a compiler may   *)
(* also make it one instruction.  The initial state chooses.               *)
(*                                                                         *)
(* What a child does between fork and exit is TweetServer's subject; here  *)
(* it exits when it likes, or never (one that spins).  accept and fork are *)
(* one step: the handler in between is the handler before accept.          *)
(***************************************************************************)
EXTENDS Integers, FiniteSets

CONSTANTS
  Connections,     \* the connections that clients open, one child each
  MAX_CONC_CONN

ASSUME AcceptorAssumption ==
  /\ IsFiniteSet(Connections)
  /\ MAX_CONC_CONN \in Nat \ {0}

VARIABLES
  pc,              \* where the parent is
  resume,          \* where the handler returns to
  childProcCount,  \* global variable of loop and handler
  register,        \* the loop's copy of it between load and store
  child,           \* the children, as waitpid sees them
  sigchld,         \* SIGCHLD is pending; it does not queue
  oneInstruction   \* how the compiler increments childProcCount

vars == <<pc, resume, childProcCount, register, child, sigchld, oneInstruction>>

(* "accept": blocked in accept.  "increment": a child is forked, ++ comes  *)
(* next.  "store": the sum is in the register.  "exited": die_with_error.  *)
LoopPC == {"accept", "increment", "store"}

ChildState == {"none", "serving", "rejecting", "zombie", "reaped"}

Init ==
  /\ pc = "accept"
  /\ resume = "accept"
  /\ childProcCount = 0
  /\ register = 0
  /\ child = [c \in Connections |-> "none"]
  /\ sigchld = FALSE
  /\ oneInstruction \in BOOLEAN

Zombies == {c \in Connections : child[c] = "zombie"}

Running == {c \in Connections : child[c] \in {"serving", "rejecting"}}

-----------------------------------------------------------------------------
(* The loop of main                                                        *)

(* Mutant of Fork: the limit is compared with <=.                          *)
ForkOneTooMany(c) ==
  /\ pc = "accept"
  /\ child[c] = "none"
  /\ child' = [child EXCEPT ![c] =
                 IF childProcCount <= MAX_CONC_CONN THEN "serving" ELSE "rejecting"]
  /\ pc' = "increment"
  /\ UNCHANGED <<resume, childProcCount, register, sigchld, oneInstruction>>

(* accept returns c and fork makes a child, with a copy of childProcCount. *)
Fork(c) ==
  /\ pc = "accept"
  /\ child[c] = "none"
  /\ child' = [child EXCEPT ![c] =
                 IF childProcCount < MAX_CONC_CONN THEN "serving" ELSE "rejecting"]
  /\ pc' = "increment"
  /\ UNCHANGED <<resume, childProcCount, register, sigchld, oneInstruction>>

Increment ==
  /\ pc = "increment" /\ oneInstruction
  /\ childProcCount' = childProcCount + 1
  /\ pc' = "accept"
  /\ UNCHANGED <<resume, register, child, sigchld, oneInstruction>>

LoadCount ==
  /\ pc = "increment" /\ ~ oneInstruction
  /\ register' = childProcCount
  /\ pc' = "store"
  /\ UNCHANGED <<resume, childProcCount, child, sigchld, oneInstruction>>

StoreCount ==
  /\ pc = "store"
  /\ childProcCount' = register + 1
  /\ pc' = "accept"
  /\ UNCHANGED <<resume, register, child, sigchld, oneInstruction>>

-----------------------------------------------------------------------------
(* The children and the kernel                                             *)

ChildExit(c) ==
  /\ child[c] \in {"serving", "rejecting"}
  /\ child' = [child EXCEPT ![c] = "zombie"]
  /\ sigchld' = TRUE
  /\ UNCHANGED <<pc, resume, childProcCount, register, oneInstruction>>

-----------------------------------------------------------------------------
(* child_exit_signal_handler, with all signals masked                      *)

EnterHandler ==
  /\ sigchld
  /\ pc \in LoopPC
  /\ sigchld' = FALSE
  /\ resume' = pc
  /\ pc' = "handler"
  /\ UNCHANGED <<childProcCount, register, child, oneInstruction>>

(* Mutants of Reap: the counter is not looked at; it is not decremented.   *)
ReapAtZero(c) ==
  /\ pc = "handler"
  /\ c \in Zombies
  /\ child' = [child EXCEPT ![c] = "reaped"]
  /\ childProcCount' = childProcCount - 1
  /\ UNCHANGED <<pc, resume, register, sigchld, oneInstruction>>

ReapUncounted(c) ==
  /\ pc = "handler" /\ childProcCount # 0
  /\ c \in Zombies
  /\ child' = [child EXCEPT ![c] = "reaped"]
  /\ UNCHANGED <<pc, resume, childProcCount, register, sigchld, oneInstruction>>

(* One turn of its loop: waitpid(-1, WNOHANG) finds a zombie.              *)
Reap(c) ==
  /\ pc = "handler" /\ childProcCount # 0
  /\ c \in Zombies
  /\ child' = [child EXCEPT ![c] = "reaped"]
  /\ childProcCount' = childProcCount - 1
  /\ UNCHANGED <<pc, resume, register, sigchld, oneInstruction>>

(* Mutant of HandlerReturns: no break when waitpid returns 0.              *)
HandlerReturnsAtZero ==
  /\ pc = "handler"
  /\ childProcCount = 0
  /\ pc' = resume
  /\ UNCHANGED <<resume, childProcCount, register, child, sigchld, oneInstruction>>

(* The counter is zero, or waitpid finds children and no zombie.           *)
HandlerReturns ==
  /\ pc = "handler"
  /\ childProcCount = 0 \/ (Zombies = {} /\ Running # {})
  /\ pc' = resume
  /\ UNCHANGED <<resume, childProcCount, register, child, sigchld, oneInstruction>>

(* waitpid fails when there is no child at all, and the parent exits.      *)
WaitpidFails ==
  /\ pc = "handler" /\ childProcCount # 0
  /\ Zombies = {} /\ Running = {}
  /\ pc' = "exited"
  /\ UNCHANGED <<resume, childProcCount, register, child, sigchld, oneInstruction>>

-----------------------------------------------------------------------------
Loop == (\E c \in Connections : Fork(c)) \/ Increment \/ LoadCount \/ StoreCount

Handler ==
  EnterHandler \/ (\E c \in Connections : Reap(c)) \/ HandlerReturns \/ WaitpidFails

Next == Loop \/ Handler \/ \E c \in Connections : ChildExit(c)

Spec == Init /\ [][Next]_vars

(* The parent is scheduled, and the kernel delivers a pending signal to it *)
(* before it goes on.  No child has to exit.                               *)
FairSpec == Spec /\ WF_vars(Loop) /\ WF_vars(Handler)

-----------------------------------------------------------------------------
(* Correctness                                                             *)

TypeOK ==
  /\ pc \in LoopPC \cup {"handler", "exited"}
  /\ resume \in LoopPC
  /\ childProcCount \in Nat
  /\ register \in Nat
  /\ child \in [Connections -> ChildState]
  /\ sigchld \in BOOLEAN
  /\ oneInstruction \in BOOLEAN

(* However the handler interrupts the loop, at most MAX_CONC_CONN children *)
(* serve at a time: the counter may err, but only upwards.                 *)
ServedLimit ==
  Cardinality({c \in Connections : child[c] = "serving"}) <= MAX_CONC_CONN

(* A connection that a client has opened is accepted, unless the parent    *)
(* exits: no sequence of signals keeps the loop from its next turn.        *)
ConnectionIsTaken ==
  \A c \in Connections : child[c] = "none" ~> child[c] # "none" \/ pc = "exited"

(* With an increment that no signal can divide, the counter is exactly the *)
(* number of children not waited for whenever the parent blocks in accept, *)
(* and the parent never exits.                                             *)
ExactWhenUndivided ==
  oneInstruction =>
    /\ pc # "exited"
    /\ pc = "accept" => childProcCount = Cardinality(Zombies \cup Running)

(* ttweetsrv.c:129: the loop is to "run forever".                          *)
RunsForever == pc # "exited"
==============================================================================

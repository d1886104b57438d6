---------------------------- MODULE AcceptorProofs ---------------------------
(***************************************************************************)
(* The parent keeps the connection limit in either build, and with an      *)
(* undivided increment it counts exactly and never exits.                  *)
(*                                                                         *)
(* The invariant follows the loop: between fork and the end of the         *)
(* increment one child is not counted yet, and the value about to be       *)
(* stored is a copy that a handler's decrements do not reach.  So the      *)
(* counter may be too high, and is never too low.                          *)
(***************************************************************************)
EXTENDS Acceptor, FiniteSetTheorems, TLAPS

Serving == {c \in Connections : child[c] = "serving"}

Unreaped == Zombies \cup Running

(* Where the loop is, also while the handler interrupts it.                *)
LoopAt == IF pc = "handler" THEN resume ELSE pc

Covers ==
  /\ LoopAt = "accept" => Cardinality(Unreaped) <= childProcCount
  /\ LoopAt = "increment" => Cardinality(Unreaped) <= childProcCount + 1
  /\ LoopAt = "store" => Cardinality(Unreaped) <= register + 1

Exact ==
  oneInstruction =>
    /\ LoopAt \in {"accept", "increment"}
    /\ LoopAt = "accept" => childProcCount = Cardinality(Unreaped)
    /\ LoopAt = "increment" => childProcCount + 1 = Cardinality(Unreaped)

IInv == TypeOK /\ Covers /\ Exact /\ ServedLimit

-----------------------------------------------------------------------------
LEMMA FiniteChildren ==
  /\ IsFiniteSet(Unreaped) /\ Cardinality(Unreaped) \in Nat
  /\ IsFiniteSet(Serving) /\ Cardinality(Serving) \in Nat
  /\ Cardinality(Serving) <= Cardinality(Unreaped)
<1>1. Unreaped \in SUBSET Connections /\ Serving \in SUBSET Unreaped
  BY DEF Unreaped, Zombies, Running, Serving
<1>2. IsFiniteSet(Unreaped)
  BY <1>1, FS_Subset, AcceptorAssumption
<1>3. IsFiniteSet(Serving) /\ Cardinality(Serving) <= Cardinality(Unreaped)
  BY <1>1, <1>2, FS_Subset
<1> QED
  BY <1>2, <1>3, FS_CardinalityType

LEMMA Initially == Init => IInv
<1> SUFFICES ASSUME Init PROVE IInv
  OBVIOUS
<1>1. Unreaped = {} /\ Serving = {}
  BY DEF Init, Unreaped, Zombies, Running, Serving
<1>2. Cardinality(Unreaped) = 0 /\ Cardinality(Serving) = 0
  BY <1>1, FS_EmptySet
<1>3. TypeOK
  BY DEF Init, TypeOK, LoopPC, ChildState
<1> QED
  BY <1>2, <1>3, AcceptorAssumption
     DEF IInv, Covers, Exact, ServedLimit, Serving, LoopAt, Init

(* A step of the parent that leaves the children as they are.              *)
LEMMA SameChildren ==
  ASSUME IInv, UNCHANGED child
  PROVE  Unreaped' = Unreaped /\ ServedLimit'
BY DEF IInv, Unreaped, Zombies, Running, ServedLimit

(* The new child is not counted yet; it serves only below the limit.       *)
LEMMA ForkStep ==
  ASSUME IInv, NEW c \in Connections, Fork(c)
  PROVE  IInv'
<1> USE DEF IInv
<1>0. MAX_CONC_CONN \in Nat
  BY AcceptorAssumption
<1>1. TypeOK'
  BY DEF TypeOK, Fork, LoopPC, ChildState
<1>2. Unreaped' = Unreaped \cup {c} /\ c \notin Unreaped
  BY DEF TypeOK, Fork, Unreaped, Zombies, Running
<1>3. Cardinality(Unreaped') = Cardinality(Unreaped) + 1
  BY <1>2, FiniteChildren, FS_AddElement
<1>4. Covers' /\ Exact'
  BY <1>3, FiniteChildren DEF TypeOK, Covers, Exact, LoopAt, Fork
<1>5. Cardinality(Serving') <= MAX_CONC_CONN
  <2>1. CASE childProcCount < MAX_CONC_CONN
    <3>1. Serving' = Serving \cup {c} /\ c \notin Serving
      BY <2>1 DEF TypeOK, Fork, Serving
    <3>2. Cardinality(Serving') = Cardinality(Serving) + 1
      BY <3>1, FiniteChildren, FS_AddElement
    <3>3. Cardinality(Unreaped) <= childProcCount
      BY DEF Covers, LoopAt, Fork
    <3> QED
      BY <1>0, <2>1, <3>2, <3>3, FiniteChildren DEF TypeOK
  <2>2. CASE ~ (childProcCount < MAX_CONC_CONN)
    <3>1. Serving' = Serving
      BY <2>2 DEF TypeOK, Fork, Serving
    <3> QED
      BY <3>1 DEF ServedLimit, Serving
  <2> QED
    BY <2>1, <2>2
<1> QED
  BY <1>1, <1>4, <1>5 DEF ServedLimit, Serving

LEMMA ChildExitStep ==
  ASSUME IInv, NEW c \in Connections, ChildExit(c)
  PROVE  IInv'
<1> USE DEF IInv
<1>1. TypeOK'
  BY DEF TypeOK, ChildExit, ChildState
<1>2. Unreaped' = Unreaped
  BY DEF TypeOK, ChildExit, Unreaped, Zombies, Running
<1>3. Covers' /\ Exact'
  BY <1>2 DEF Covers, Exact, LoopAt, ChildExit
<1>4. Serving' \in SUBSET Serving
  BY DEF TypeOK, ChildExit, Serving
<1>5. Cardinality(Serving') <= Cardinality(Serving) /\ Cardinality(Serving') \in Nat
  BY <1>4, FiniteChildren, FS_Subset, FS_CardinalityType
<1>6. Cardinality(Serving') <= MAX_CONC_CONN
  BY <1>5, FiniteChildren, AcceptorAssumption DEF ServedLimit, Serving
<1> QED
  BY <1>1, <1>3, <1>6 DEF ServedLimit, Serving

(* A child less and a count less, wherever the loop was interrupted.       *)
LEMMA ReapStep ==
  ASSUME IInv, NEW c \in Connections, Reap(c)
  PROVE  IInv'
<1> USE DEF IInv
<1>1. TypeOK'
  BY DEF TypeOK, Reap, ChildState
<1>2. Unreaped' = Unreaped \ {c} /\ c \in Unreaped
  BY DEF TypeOK, Reap, Unreaped, Zombies, Running
<1>3. Cardinality(Unreaped') = Cardinality(Unreaped) - 1
  BY <1>2, FiniteChildren, FS_RemoveElement
<1>4. Covers' /\ Exact'
  BY <1>3, FiniteChildren DEF TypeOK, Covers, Exact, LoopAt, Reap
<1>5. Serving' = Serving
  BY DEF TypeOK, Reap, Serving, Zombies
<1> QED
  BY <1>1, <1>4, <1>5 DEF ServedLimit, Serving

LEMMA LoopStep ==
  ASSUME IInv, Increment \/ LoadCount \/ StoreCount
  PROVE  IInv'
<1> USE DEF IInv
<1>1. TypeOK'
  BY DEF TypeOK, Increment, LoadCount, StoreCount, LoopPC
<1>2. Unreaped' = Unreaped /\ ServedLimit'
  BY SameChildren DEF Increment, LoadCount, StoreCount
<1>3. Covers' /\ Exact'
  BY <1>2, FiniteChildren DEF TypeOK, Covers, Exact, LoopAt, Increment, LoadCount, StoreCount
<1> QED
  BY <1>1, <1>2, <1>3

(* An exact count is zero when there is no child, so waitpid cannot fail.  *)
LEMMA HandlerStep ==
  ASSUME IInv, EnterHandler \/ HandlerReturns \/ WaitpidFails
  PROVE  IInv'
<1> USE DEF IInv
<1>1. TypeOK'
  BY DEF TypeOK, EnterHandler, HandlerReturns, WaitpidFails, LoopPC
<1>2. Unreaped' = Unreaped /\ ServedLimit'
  BY SameChildren DEF EnterHandler, HandlerReturns, WaitpidFails
<1>3. CASE EnterHandler \/ HandlerReturns
  BY <1>1, <1>2, <1>3
     DEF TypeOK, LoopPC, Covers, Exact, LoopAt, EnterHandler, HandlerReturns
<1>4. CASE WaitpidFails
  <2>1. Cardinality(Unreaped) = 0
    BY <1>4, FS_EmptySet DEF WaitpidFails, Unreaped
  <2>2. ~ oneInstruction
    BY <1>4, <2>1 DEF TypeOK, Exact, LoopAt, WaitpidFails
  <2> QED
    BY <1>1, <1>2, <1>4, <2>2 DEF Covers, Exact, LoopAt, WaitpidFails
<1> QED
  BY <1>3, <1>4

LEMMA InductiveStep == IInv /\ [Next]_vars => IInv'
<1> SUFFICES ASSUME IInv, [Next]_vars PROVE IInv'
  OBVIOUS
<1>1. CASE UNCHANGED vars
  BY <1>1 DEF IInv, TypeOK, Covers, Exact, ServedLimit, LoopAt, Unreaped, Zombies,
              Running, vars
<1> QED
  BY <1>1, ForkStep, ChildExitStep, ReapStep, LoopStep, HandlerStep
     DEF Next, Loop, Handler

THEOREM Invariance == Spec => []IInv
<1> QED
  BY Initially, InductiveStep, PTL DEF Spec

(* The variables keep their types, under every interleaving of signals; in *)
(* particular the unsigned childProcCount is not decremented below zero    *)
(* and LoopAt is always a place in the loop.                               *)
THEOREM TypeCorrect == Spec => []TypeOK
<1>1. IInv => TypeOK
  BY DEF IInv
<1> QED
  BY <1>1, Invariance, PTL

(* However signals interleave with the loop, and however the increment is  *)
(* compiled, at most MAX_CONC_CONN children serve.                         *)
THEOREM LimitSurvivesSignals == Spec => []ServedLimit
<1>1. IInv => ServedLimit
  BY DEF IInv
<1> QED
  BY <1>1, Invariance, PTL

(* The parent's death and every lost place come from the divided increment *)
(* alone: without it the count is exact and waitpid never fails.           *)
THEOREM UndividedIsExact == Spec => []ExactWhenUndivided
<1>1. IInv => ExactWhenUndivided
  BY DEF IInv, Exact, ExactWhenUndivided, LoopAt, Unreaped
<1> QED
  BY <1>1, Invariance, PTL
==============================================================================

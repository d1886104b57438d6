---------------------------- MODULE MCConnection -----------------------------
(* Blocks of two bytes, and messages of one block and of more than one.   *)
EXTENDS Connection

SomeSizes == {2, 3}

SomeGarbage == {0, 3}
==============================================================================

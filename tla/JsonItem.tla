------------------------------- MODULE JsonItem ------------------------------
(***************************************************************************)
(* The trees of cJSON: the constructors and accessors that ttweetcli and   *)
(* ttweetsrv call.                                                         *)
(*                                                                         *)
(* A char is a byte and a string a sequence of bytes other than 0.  The    *)
(* linked list of an item's children is a sequence.  Numbers are integers, *)
(* which is all the program puts into a message.  Memory is never short.   *)
(***************************************************************************)
EXTENDS Integers, SequencesExt

CONSTANTS
  NULL,     \* the null pointer
  INT_MAX   \* of limits.h

ASSUME JsonItemAssumption == INT_MAX \in Nat \ {0}

INT_MIN == - INT_MAX - 1

NUL == 0
Quote == 34
Backslash == 92
Digits == 48 .. 57

(* The texts of the three types that have only one.                        *)
LiteralText ==
  [Null |-> <<110, 117, 108, 108>>, False |-> <<102, 97, 108, 115, 101>>,
   True |-> <<116, 114, 117, 101>>]

(* A C string: what comes before the first 0.                              *)
CString(s) ==
  LET end == SelectInSeq(s, LAMBDA c : c = NUL)
  IN  IF end = 0 THEN s ELSE SubSeq(s, 1, end - 1)

-----------------------------------------------------------------------------
NewItem ==
  [type |-> "Invalid", string |-> NULL, valuestring |-> NULL, valueint |-> 0,
   valuedouble |-> 0, child |-> <<>>]

Saturated(n) == IF n >= INT_MAX THEN INT_MAX ELSE IF n <= INT_MIN THEN INT_MIN ELSE n

CreateNumber(n) ==
  [NewItem EXCEPT !.type = "Number", !.valueint = Saturated(n), !.valuedouble = n]

CreateString(s) == [NewItem EXCEPT !.type = "String", !.valuestring = s]

CreateArray == [NewItem EXCEPT !.type = "Array"]

CreateObject == [NewItem EXCEPT !.type = "Object"]

AddItemToArray(array, item) == [array EXCEPT !.child = Append(@, item)]

AddItemToObject(object, name, item) ==
  AddItemToArray(object, [item EXCEPT !.string = name])

GetArraySize(array) == IF array = NULL THEN 0 ELSE Len(array.child)

GetArrayItem(array, index) ==
  IF array = NULL \/ index \notin 0 .. GetArraySize(array) - 1
    THEN NULL
    ELSE array.child[index + 1]

(* The search stops at a child without a name.                             *)
GetObjectItemCaseSensitive(object, name) ==
  IF object = NULL THEN NULL
  ELSE LET at == SelectInSeq(object.child,
                             LAMBDA item : item.string = NULL \/ item.string = name)
       IN  IF at = 0 \/ GetArrayItem(object, at - 1).string = NULL
             THEN NULL
             ELSE object.child[at]
==============================================================================

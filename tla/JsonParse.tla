------------------------------ MODULE JsonParse ------------------------------
(***************************************************************************)
(* cJSON_Parse: from a text to an item, or to NULL.                        *)
(*                                                                         *)
(* A parse_buffer is the text with its terminating 0, an offset into it    *)
(* that counts from 0, and the depth of nesting.  A parsing operator       *)
(* returns what it read and the buffer behind it, or NULL when it fails;   *)
(* where the error was is left out, as the program never asks.  Numbers    *)
(* are integers, so no fraction and no exponent is read.                   *)
(***************************************************************************)
EXTENDS JsonItem

CONSTANT CJSON_NESTING_LIMIT

ASSUME JsonParseAssumption == CJSON_NESTING_LIMIT \in Nat \ {0}

CanAccess(b, i) == b.offset + i < Len(b.content)

At(b, i) == b.content[b.offset + i + 1]

Follows(b, c) == CanAccess(b, 0) /\ At(b, 0) = c

StartsWith(b, word) ==
  /\ b.offset + Len(word) <= Len(b.content)
  /\ SubSeq(b.content, b.offset + 1, b.offset + Len(word)) = word

Advance(b, n) == [b EXCEPT !.offset = @ + n]

Result(item, b) == [item |-> item, b |-> b]

(* The next char above 32, or the terminating 0.                           *)
buffer_skip_whitespace(b) ==
  LET next == SelectInSubSeq(b.content, b.offset + 1, Len(b.content), LAMBDA c : c > 32)
  IN  [b EXCEPT !.offset = (IF next = 0 THEN Len(b.content) ELSE next) - 1]

ByteOrderMark == <<239, 187, 191>>

skip_utf8_bom(b) ==
  IF CanAccess(b, 4) /\ StartsWith(b, ByteOrderMark) THEN Advance(b, 3) ELSE b

-----------------------------------------------------------------------------
(* Numbers                                                                 *)

NUMBER_BUFFER == 64

(* strtod: an optional minus and digits.  What the buffer of 64 chars cuts *)
(* off is read as whatever comes next.                                     *)
parse_number(b) ==
  LET text == SubSeq(b.content, b.offset + 1,
                     IF b.offset + NUMBER_BUFFER - 1 < Len(b.content)
                       THEN b.offset + NUMBER_BUFFER - 1
                       ELSE Len(b.content))
      sign == IF text[1] = 45 THEN 1 ELSE 0
      end == SelectInSubSeq(text, sign + 1, Len(text), LAMBDA c : c \notin Digits)
      digits == SubSeq(text, sign + 1, IF end = 0 THEN Len(text) ELSE end - 1)
      number == FoldLeft(LAMBDA n, c : 10 * n + (c - 48), 0, digits)
  IN  IF digits = <<>> THEN NULL
      ELSE Result(CreateNumber(IF sign = 1 THEN - number ELSE number),
                  Advance(b, sign + Len(digits)))

-----------------------------------------------------------------------------
(* Strings                                                                 *)

HexValue(c) ==
  CASE c \in Digits -> c - 48
    [] c \in 65 .. 70 -> c - 55
    [] c \in 97 .. 102 -> c - 87
    [] OTHER -> -1

(* Four digits; 0 when one of them is none.                                *)
parse_hex4(s) ==
  IF \E i \in 1 .. 4 : HexValue(s[i]) = -1 THEN 0
  ELSE FoldLeft(LAMBDA h, c : 16 * h + HexValue(c), 0, SubSeq(s, 1, 4))

HighSurrogates == 55296 .. 56319
LowSurrogates == 56320 .. 57343

(* Mutant: the offset of the supplementary planes is forgotten.            *)
SurrogatePairFlat(first, second) == (first % 1024) * 1024 + (second % 1024)

SurrogatePair(first, second) == 65536 + (first % 1024) * 1024 + (second % 1024)

Utf8Length(codepoint) ==
  CASE codepoint < 128 -> 1
    [] codepoint \in 128 .. 2047 -> 2
    [] codepoint \in 2048 .. 65535 -> 3
    [] OTHER -> 4

FirstByteMark == <<0, 192, 224, 240>>

(* Six bits in every byte after the first.                                 *)
Utf8(codepoint) ==
  LET length == Utf8Length(codepoint)
  IN  [i \in 1 .. length |->
         IF i = 1 THEN FirstByteMark[length] + codepoint \div 64 ^ (length - 1)
                  ELSE 128 + ((codepoint \div 64 ^ (length - i)) % 64)]

(* s begins with \u and ends before the closing quote.  Returns how much   *)
(* of it is used, and the bytes it stands for.                             *)
utf16_literal_to_utf8(s) ==
  LET first == IF Len(s) < 6 THEN 0 ELSE parse_hex4(SubSeq(s, 3, 6))
      second == IF Len(s) < 12 THEN 0 ELSE parse_hex4(SubSeq(s, 9, 12))
  IN  CASE Len(s) < 6 \/ first \in LowSurrogates -> NULL
        [] Len(s) >= 6 /\ first \in HighSurrogates ->
             IF /\ Len(s) >= 12
                /\ SubSeq(s, 7, 8) = <<Backslash, 117>>
                /\ second \in LowSurrogates
               THEN [used |-> 12, bytes |-> Utf8(SurrogatePair(first, second))]
               ELSE NULL
        [] OTHER -> [used |-> 6, bytes |-> Utf8(first)]

(* The first quote from i on that no backslash precedes, or 0.             *)
RECURSIVE ClosingQuote(_, _)
ClosingQuote(content, i) ==
  CASE i > Len(content) -> 0
    [] i <= Len(content) /\ content[i] = Quote -> i
    [] i <= Len(content) /\ content[i] = Backslash -> ClosingQuote(content, i + 2)
    [] OTHER -> ClosingQuote(content, i + 1)

(* The char that a letter after a backslash stands for.                    *)
Unescaped ==
  (98 :> 8) @@ (102 :> 12) @@ (110 :> 10) @@ (114 :> 13) @@ (116 :> 9) @@
  (Quote :> Quote) @@ (Backslash :> Backslash) @@ (47 :> 47)

(* A backslash that is the last char, after a \u that has taken the one     *)
(* before it, finds the closing quote.                                     *)
RECURSIVE Unescape(_)
Unescape(s) ==
  LET letter == IF Len(s) > 1 THEN s[2] ELSE Quote
      literal == utf16_literal_to_utf8(s)
      Put(bytes, used) ==
        LET rest == Unescape(SubSeq(s, used + 1, Len(s)))
        IN  IF rest = NULL THEN NULL ELSE bytes \o rest
  IN  CASE s = <<>> -> <<>>
        [] s # <<>> /\ s[1] # Backslash -> Put(<<s[1]>>, 1)
        [] s # <<>> /\ s[1] = Backslash /\ letter \in DOMAIN Unescaped ->
             Put(<<Unescaped[letter]>>, 2)
        [] s # <<>> /\ s[1] = Backslash /\ letter = 117 /\ literal # NULL ->
             Put(literal.bytes, literal.used)
        [] OTHER -> NULL

(* How many chars the output may take: every escape sequence counts for    *)
(* one char less.                                                          *)
RECURSIVE SkippedBytes(_)
SkippedBytes(s) ==
  CASE s = <<>> -> 0
    [] s # <<>> /\ s[1] = Backslash -> 1 + SkippedBytes(SubSeq(s, 3, Len(s)))
    [] OTHER -> SkippedBytes(Tail(s))

(* Mutant: two chars less.                                                 *)
AllocationLengthTwice(s) == Len(s) + 1 - 2 * SkippedBytes(s)

AllocationLength(s) == Len(s) + 1 - SkippedBytes(s)

parse_string(b) ==
  LET end == IF Follows(b, Quote) THEN ClosingQuote(b.content, b.offset + 2) ELSE 0
      output == Unescape(SubSeq(b.content, b.offset + 2, end - 1))
  IN  IF end = 0 \/ output = NULL THEN NULL
      ELSE Result(CreateString(CString(output)), [b EXCEPT !.offset = end])

-----------------------------------------------------------------------------
(* Values                                                                  *)

LiteralItem(type) ==
  [NewItem EXCEPT !.type = type, !.valueint = IF type = "True" THEN 1 ELSE 0]

RECURSIVE parse_value(_)

(* What follows the char that b is at.                                     *)
Inside(b) == buffer_skip_whitespace(Advance(b, 1))

Spaced(r) == IF r = NULL THEN NULL ELSE Result(r.item, buffer_skip_whitespace(r.b))

Named(name, r) ==
  IF r = NULL THEN NULL ELSE Result([r.item EXCEPT !.string = name.valuestring], r.b)

(* What a name and its value are read as: it needs a colon.                *)
Member(name) ==
  IF name = NULL \/ ~ Follows(name.b, 58)
    THEN NULL
    ELSE Named(name.item, parse_value(Inside(name.b)))

(* The element after the bracket or comma that b is at.                    *)
Element(b, type) ==
  IF type = "Array" THEN Spaced(parse_value(Inside(b)))
                    ELSE Spaced(Member(Spaced(parse_string(Inside(b)))))

RECURSIVE Elements(_, _, _)

(* A comma asks for one more.                                              *)
ElementsFrom(r, items, type) ==
  CASE r = NULL -> NULL
    [] r # NULL /\ Follows(r.b, 44) -> Elements(r.b, Append(items, r.item), type)
    [] OTHER -> Result(Append(items, r.item), r.b)

Elements(b, items, type) == ElementsFrom(Element(b, type), items, type)

Bracket(type) == IF type = "Array" THEN 93 ELSE 125

(* What is inside brackets, which may be nothing.                          *)
ListInside(b, type) ==
  IF Follows(Inside(b), Bracket(type)) THEN Result(<<>>, Inside(b))
                                       ELSE Elements(b, <<>>, type)

(* Mutant of Closed: the closing bracket is taken for granted.             *)
ClosedAnyway(list, type) ==
  IF list = NULL THEN NULL
  ELSE Result([NewItem EXCEPT !.type = type, !.child = list.item],
              [Advance(list.b, 1) EXCEPT !.depth = @ - 1])

Closed(list, type) ==
  IF list = NULL \/ ~ Follows(list.b, Bracket(type)) THEN NULL
  ELSE Result([NewItem EXCEPT !.type = type, !.child = list.item],
              [Advance(list.b, 1) EXCEPT !.depth = @ - 1])

Nested(b, type) ==
  IF b.depth >= CJSON_NESTING_LIMIT
    THEN NULL
    ELSE Closed(ListInside([b EXCEPT !.depth = @ + 1], type), type)

parse_array(b) == Nested(b, "Array")

parse_object(b) == Nested(b, "Object")

parse_value(b) ==
  CASE \E t \in DOMAIN LiteralText : StartsWith(b, LiteralText[t]) ->
         LET type == CHOOSE t \in DOMAIN LiteralText : StartsWith(b, LiteralText[t])
         IN  Result(LiteralItem(type), Advance(b, Len(LiteralText[type])))
    [] Follows(b, Quote) -> parse_string(b)
    [] CanAccess(b, 0) /\ At(b, 0) \in Digits \cup {45} -> parse_number(b)
    [] Follows(b, 91) -> parse_array(b)
    [] Follows(b, 123) -> parse_object(b)
    [] OTHER -> NULL

(* What comes after the value is not looked at.                            *)
Parse(text) ==
  LET b == [content |-> Append(CString(text), NUL), offset |-> 0, depth |-> 0]
      r == parse_value(buffer_skip_whitespace(skip_utf8_bom(b)))
  IN  IF r = NULL THEN NULL ELSE r.item
==============================================================================

------------------------------ MODULE JsonPrint ------------------------------
(***************************************************************************)
(* cJSON_PrintUnformatted: an item as text, written through a buffer that  *)
(* grows.  Formatted printing, raw items and the caller's own buffers      *)
(* (noalloc) are not used by the program.                                  *)
(***************************************************************************)
EXTENDS JsonItem

CONSTANT DEFAULT_BUFFER_SIZE   \* of print

ASSUME JsonPrintAssumption == DEFAULT_BUFFER_SIZE \in Nat \ {0}

(* A printbuffer.  buffer is what has been written, from the start, without *)
(* the terminating 0; fits says whether all of it was within length.       *)
EmptyBuffer ==
  [buffer |-> <<>>, length |-> DEFAULT_BUFFER_SIZE, offset |-> 0, fits |-> TRUE]

(* Mutants of ensure: the offset is forgotten; the buffer never grows.     *)
ensureAtStart(p, needed) ==
  IF needed + 1 <= p.length THEN p ELSE [p EXCEPT !.length = 2 * (needed + 1)]

ensureAsIs(p, needed) == IF needed + p.offset + 1 <= p.length THEN p ELSE NULL

(* Room for needed bytes more and one.                                     *)
ensure(p, needed) ==
  LET total == needed + p.offset + 1
  IN  CASE p.length > 0 /\ p.offset >= p.length -> NULL
        [] p.offset < p.length /\ total <= p.length -> p
        [] p.offset < p.length /\ total > p.length /\ total <= INT_MAX \div 2 ->
             [p EXCEPT !.length = 2 * total]
        [] p.offset < p.length /\ total > p.length /\ total \in INT_MAX \div 2 + 1 .. INT_MAX ->
             [p EXCEPT !.length = INT_MAX]
        [] OTHER -> NULL

(* Reserve, write s (and a 0, when nuls = 1), and move on.                 *)
Write(p, needed, s, nuls, advance) ==
  LET q == IF p = NULL THEN NULL ELSE ensure(p, needed)
  IN  IF q = NULL THEN NULL
      ELSE [q EXCEPT !.buffer = SubSeq(@, 1, q.offset) \o s,
                     !.offset = @ + advance,
                     !.fits = @ /\ q.offset + Len(s) + nuls <= q.length]

update_offset(p) == IF p = NULL THEN NULL ELSE [p EXCEPT !.offset = Len(p.buffer)]

-----------------------------------------------------------------------------
(* Strings                                                                 *)

(* The letter that stands for a char after a backslash.                    *)
Letter ==
  (Quote :> Quote) @@ (Backslash :> Backslash) @@
  (8 :> 98) @@ (9 :> 116) @@ (10 :> 110) @@ (12 :> 102) @@ (13 :> 114)

(* Mutants: a wrong letter for ten; a quote is not escaped, or nothing but *)
(* a quote and the control chars is.                                       *)
HexDigitFromA(d) == IF d < 10 THEN 48 + d ELSE 97 + d

EscapedButQuote(c) == IF c = Backslash THEN <<c, c>> ELSE <<c>>

HexDigit(d) == IF d < 10 THEN 48 + d ELSE 87 + d

EscapedButBackslash(c) ==
  CASE c = Quote -> <<Backslash, c>>
    [] c < 32 -> <<Backslash, 117, 48, 48, HexDigit(c \div 16), HexDigit(c % 16)>>
    [] OTHER -> <<c>>

Escaped(c) ==
  CASE c \in DOMAIN Letter -> <<Backslash, Letter[c]>>
    [] c < 32 /\ c \notin DOMAIN Letter ->
         <<Backslash, 117, 48, 48, HexDigit(c \div 16), HexDigit(c % 16)>>
    [] OTHER -> <<c>>

EscapeCharacters(c) ==
  CASE c \in DOMAIN Letter -> 1
    [] c < 32 /\ c \notin DOMAIN Letter -> 5
    [] OTHER -> 0

(* The closing quote is put where the first pass over the input says.      *)
print_string_ptr(input, p) ==
  IF input = NULL
    THEN Write(p, 3, <<Quote, Quote>>, 1, 0)
    ELSE LET escaped == FoldLeft(LAMBDA s, c : s \o Escaped(c), <<>>, input)
             output_length ==
               FoldLeft(LAMBDA n, c : n + 1 + EscapeCharacters(c), 0, input)
             output == [i \in 1 .. output_length + 2 |->
                          IF i \in {1, output_length + 2} \/ i > Len(escaped) + 1
                            THEN Quote
                            ELSE escaped[i - 1]]
             q == Write(p, output_length + 3, output, 1, 0)
         IN  IF q = NULL THEN NULL
             ELSE [q EXCEPT !.fits = @ /\ q.offset + 1 + Len(escaped) <= q.length]

-----------------------------------------------------------------------------
(* Numbers                                                                 *)

RECURSIVE Decimal(_)
Decimal(n) ==
  CASE n < 0 -> <<45>> \o Decimal(- n)
    [] n \in 0 .. 9 -> <<48 + n>>
    [] OTHER -> Decimal(n \div 10) \o <<48 + (n % 10)>>

print_number(item, p) ==
  LET digits == Decimal(item.valuedouble)
  IN  Write(p, Len(digits) + 1, digits, 1, Len(digits))

-----------------------------------------------------------------------------
(* Values                                                                  *)

RECURSIVE print_value(_, _)

Comma(p, more) == IF more THEN Write(p, 2, <<44>>, 1, 1) ELSE p

print_array(item, p) ==
  LET Element(q, i) ==
        Comma(update_offset(print_value(item.child[i], q)), i < Len(item.child))
  IN  Write(FoldLeftDomain(Element, Write(p, 1, <<91>>, 0, 1), item.child),
            2, <<93>>, 1, 0)

(* A comma or nothing, and room for it and a 0.                            *)
CommaOrNot(p, more) ==
  IF more THEN Write(p, 2, <<44>>, 1, 1) ELSE Write(p, 1, <<>>, 1, 0)

print_object(item, p) ==
  LET Member(q, i) ==
        LET name == update_offset(print_string_ptr(item.child[i].string, q))
            value == print_value(item.child[i], Write(name, 1, <<58>>, 0, 1))
        IN  CommaOrNot(update_offset(value), i < Len(item.child))
  IN  Write(FoldLeftDomain(Member, Write(p, 2, <<123>>, 0, 1), item.child),
            2, <<125>>, 1, 0)

print_value(item, p) ==
  CASE p = NULL -> NULL
    [] p # NULL /\ item.type \in DOMAIN LiteralText ->
         LET text == LiteralText[item.type] IN Write(p, Len(text) + 1, text, 1, 0)
    [] p # NULL /\ item.type = "Number" -> print_number(item, p)
    [] p # NULL /\ item.type = "String" -> print_string_ptr(item.valuestring, p)
    [] p # NULL /\ item.type = "Array" -> print_array(item, p)
    [] p # NULL /\ item.type = "Object" -> print_object(item, p)
    [] OTHER -> NULL

(* The buffer after printing, or NULL.                                     *)
print(item) == update_offset(print_value(item, EmptyBuffer))

PrintUnformatted(item) ==
  LET p == print(item)
  IN  IF p = NULL THEN NULL ELSE SubSeq(p.buffer, 1, p.offset)
==============================================================================

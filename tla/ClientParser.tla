----------------------------- MODULE ClientParser ----------------------------
(***************************************************************************)
(* How ttweetcli gets from its standard input to a request.                *)
(*                                                                         *)
(* Chars are bytes, and strings sequences of them.  A command word is      *)
(* abstracted to one letter; the sizes of the arrays are parameters.       *)
(* Positions count from 1, so a loop that is at index i of an array is at  *)
(* position i + 1.                                                         *)
(***************************************************************************)
EXTENDS Integers, SequencesExt

CONSTANTS
  MAX_CLI_INPUT_LEN,   \* chars of clientInput
  COMMAND_LEN,         \* chars of clientCommand, 20
  MAX_TWEET_LEN,       \* chars of ttweetString
  MAX_HASHTAG_LEN,     \* chars of inputHashtags, and the 25 in the code
  MAX_HASHTAG_CNT      \* hashtags of a tweet

ASSUME ClientParserAssumption ==
  /\ MAX_CLI_INPUT_LEN \in Nat
  /\ {MAX_CLI_INPUT_LEN - 5, COMMAND_LEN, MAX_TWEET_LEN, MAX_HASHTAG_LEN,
      MAX_HASHTAG_CNT} \subseteq Nat \ {0}
  /\ COMMAND_LEN > 1   \* the command words are shorter

Newline == 10
Space == 32
QuoteMark == 34
Hash == 35
EndOfString == 0

IsAlnum(c) == c \in (48 .. 57) \cup (65 .. 90) \cup (97 .. 122)

ALL == <<65>>

Word ==
  [tweet |-> <<116>>, subscribe |-> <<115>>, unsubscribe |-> <<117>>,
   timeline |-> <<108>>, exit |-> <<101>>]

REQ_INVALID == 0
REQ_TWEET == 1
REQ_SUBSCRIBE == 2
REQ_UNSUBSCRIBE == 3
REQ_TIMELINE == 4
REQ_EXIT == 5
REQ_VALIDATE_USER == 6

From(s, i) == SubSeq(s, i, Len(s))

(* What comes before the first c, or everything.                           *)
Before(s, c) ==
  LET at == SelectInSeq(s, LAMBDA d : d = c)
  IN  IF at = 0 THEN s ELSE SubSeq(s, 1, at - 1)

-----------------------------------------------------------------------------
(* A line of input                                                         *)

(* Chars are read up to a newline.  A line that is too long for the array  *)
(* is given up where the array is full, and its rest is the next input.    *)
get_client_input(stdin) ==
  LET line == Before(stdin, Newline)
  IN  IF Len(line) <= MAX_CLI_INPUT_LEN - 5
        THEN [ok |-> TRUE, clientInput |-> line, rest |-> From(stdin, Len(line) + 2)]
        ELSE [ok |-> FALSE, clientInput |-> <<>>,
              rest |-> From(stdin, MAX_CLI_INPUT_LEN - 3)]

-----------------------------------------------------------------------------
(* The commands.  s is what is in memory behind the command word: the rest *)
(* of the line, its 0, and what was in clientInput before.                 *)

Invalid == [code |-> REQ_INVALID, ttweetString |-> <<>>, inputHashtags |-> <<>>]

(* The loop that copies to inputHashtags up to the 0.  It gives up at a    *)
(* space, or behind limit chars, and then leaves out the 0 of its own.     *)
CopyUpTo(limit, s) ==
  LET argument == Before(s, EndOfString)
      word == Before(argument, Space)
      saved == IF Len(word) <= limit THEN word ELSE SubSeq(word, 1, limit)
      ok == saved = argument
  IN  [ok |-> ok, s |-> saved, bytes |-> IF ok THEN Len(saved) + 1 ELSE Len(saved)]

(* Mutants: the loop runs while the index is below the size of the array;  *)
(* one more char.                                                          *)
CopyHashtagsInside(s) == CopyUpTo(MAX_HASHTAG_LEN - 1, s)

CopyHashtagsLonger(s) == CopyUpTo(MAX_HASHTAG_LEN + 2, s)

CopyHashtags(s) == CopyUpTo(MAX_HASHTAG_LEN + 1, s)

(* Copied up to a quote, wherever that is; a 0 is copied like any char,    *)
(* and ends the string that is sent.                                       *)
Message(s) == Before(From(s, 2), QuoteMark)

BehindMessage(s) == From(s, Len(Message(s)) + 3)

MessageRead(s) ==
  /\ s[1] = QuoteMark
  /\ Len(Message(s)) \in 1 .. MAX_TWEET_LEN
  /\ BehindMessage(s) # <<>>

HashtagsFollow(s) == MessageRead(s) /\ BehindMessage(s)[1] = Space

check_tweet_cmd(s) ==
  LET hashtags == CopyHashtags(From(BehindMessage(s), 2))
  IN  IF HashtagsFollow(s) /\ hashtags.ok
        THEN [code |-> REQ_TWEET, ttweetString |-> Message(s), inputHashtags |-> hashtags.s]
        ELSE Invalid

CheckSubscription(s, code) ==
  LET hashtags == CopyHashtags(s)
  IN  IF hashtags.ok
        THEN [code |-> code, ttweetString |-> <<>>, inputHashtags |-> hashtags.s]
        ELSE Invalid

CheckSingleWord(endOfCmd, code) ==
  IF endOfCmd THEN [Invalid EXCEPT !.code = code] ELSE Invalid

(* What is behind the command word: the rest of clientInput and then the   *)
(* memory behind the line.  When the line is a single word, charIdx is     *)
(* past its 0.                                                             *)
BehindWord(clientInput, memory) ==
  From(clientInput \o <<EndOfString>> \o memory, Len(Before(clientInput, Space)) + 2)

parse_client_command(clientInput, memory) ==
  LET word == Before(clientInput, Space)
      endOfCmd == Len(word) = Len(clientInput)
      s == BehindWord(clientInput, memory)
  IN  CASE Len(word) > COMMAND_LEN -> Invalid
        [] word = Word.tweet -> check_tweet_cmd(s)
        [] word = Word.subscribe -> CheckSubscription(s, REQ_SUBSCRIBE)
        [] word = Word.unsubscribe -> CheckSubscription(s, REQ_UNSUBSCRIBE)
        [] word = Word.timeline -> CheckSingleWord(endOfCmd, REQ_TIMELINE)
        [] word = Word.exit -> CheckSingleWord(endOfCmd, REQ_EXIT)
        [] OTHER -> Invalid

PastEnd(bytes, size) == IF bytes <= size THEN 0 ELSE bytes - size

(* Bytes that parse_client_command writes past the end of clientCommand,   *)
(* ttweetString and inputHashtags, whether it accepts the command or not.  *)
(* A word or a message that is too long for its array is given up inside   *)
(* it, and one that is not gets a 0 behind its chars.                      *)
Overrun(clientInput, memory) ==
  LET word == Before(clientInput, Space)
      s == BehindWord(clientInput, memory)
  IN  [clientCommand |->
         IF Len(word) <= COMMAND_LEN THEN PastEnd(Len(word) + 1, COMMAND_LEN) ELSE 0,
       ttweetString |->
         IF word = Word.tweet /\ MessageRead(s)
           THEN PastEnd(Len(Message(s)) + 1, MAX_TWEET_LEN)
           ELSE 0,
       inputHashtags |->
         CASE word \in {Word.subscribe, Word.unsubscribe} ->
                PastEnd(CopyHashtags(s).bytes, MAX_HASHTAG_LEN)
           [] word = Word.tweet /\ HashtagsFollow(s) ->
                PastEnd(CopyHashtags(From(BehindMessage(s), 2)).bytes, MAX_HASHTAG_LEN)
           [] OTHER -> 0]

-----------------------------------------------------------------------------
(* Hashtags                                                                *)

(* The loop of parse_hashtags: the hashtags saved, the one being read, how *)
(* many # came last, and whether it has returned with an error.            *)
NextChar(l, c) ==
  CASE l.error -> l
    [] ~ l.error /\ c = Hash /\ l.hashes = 0 /\ Len(l.valid) < MAX_HASHTAG_CNT ->
         [l EXCEPT !.hashes = @ + 1, !.valid = Append(@, l.current), !.current = <<>>]
    [] ~ l.error /\ IsAlnum(c) -> [l EXCEPT !.hashes = 0, !.current = Append(@, c)]
    [] OTHER -> [l EXCEPT !.error = TRUE]

(* What the loop has done with the chars behind the first one.             *)
LoopStart == [valid |-> <<>>, current |-> <<>>, hashes |-> 1, error |-> FALSE]

ReadHashtags(s) == FoldLeft(NextChar, LoopStart, Tail(s))

has_duplicate_string(strings) == \E i, j \in DOMAIN strings : i < j /\ strings[i] = strings[j]

(* What is refused before the loop.                                        *)
Unreadable(s) ==
  \/ Len(s) \notin 2 .. MAX_HASHTAG_LEN
  \/ s[1] # Hash
  \/ Last(s) = Hash

(* Mutant: the last hashtag is saved without a look at the count.          *)
parse_hashtagsOneMore(s) ==
  LET l == ReadHashtags(s)
      all == Append(l.valid, l.current)
  IN  CASE Unreadable(s) -> [ok |-> FALSE, valid |-> <<>>]
        [] ~ Unreadable(s) /\ l.error -> [ok |-> FALSE, valid |-> l.valid]
        [] OTHER -> [ok |-> ~ has_duplicate_string(all), valid |-> all]

(* The result, and the hashtags that are in validHashtags whatever the     *)
(* result is.                                                              *)
parse_hashtags(s) ==
  LET l == ReadHashtags(s)
      all == Append(l.valid, l.current)
  IN  CASE Unreadable(s) -> [ok |-> FALSE, valid |-> <<>>]
        [] ~ Unreadable(s) /\ (l.error \/ Len(l.valid) = MAX_HASHTAG_CNT) ->
             [ok |-> FALSE, valid |-> l.valid]
        [] OTHER -> [ok |-> ~ has_duplicate_string(all), valid |-> all]

(* Despite its name, it is TRUE when no hashtag is ALL.                    *)
is_hashtag_all_exists(valid) == ALL \notin ToSet(valid)

-----------------------------------------------------------------------------
(* A turn of the loop of main up to send_payload.                          *)

(* Mutant: for a subscription the result of parse_hashtags does not count. *)
CommandSuccessAnyway(command, hashtags) ==
  CASE command.code = REQ_TWEET -> is_hashtag_all_exists(hashtags.valid)
    [] command.code \in {REQ_SUBSCRIBE, REQ_UNSUBSCRIBE} -> Len(hashtags.valid) = 1
    [] OTHER -> command.code # REQ_INVALID

(* For a tweet the result of parse_hashtags is overwritten.                *)
CommandSuccess(command, hashtags) ==
  CASE command.code = REQ_TWEET -> is_hashtag_all_exists(hashtags.valid)
    [] command.code \in {REQ_SUBSCRIBE, REQ_UNSUBSCRIBE} ->
         hashtags.ok /\ Len(hashtags.valid) = 1
    [] OTHER -> command.code # REQ_INVALID

NoRequest == [code |-> REQ_INVALID, ttweetString |-> <<>>, validHashtags |-> <<>>]

(* What is sent, or NoRequest.                                             *)
RequestOf(command) ==
  LET hashtags == IF command.code \in {REQ_TWEET, REQ_SUBSCRIBE, REQ_UNSUBSCRIBE}
                    THEN parse_hashtags(command.inputHashtags)
                    ELSE [ok |-> TRUE, valid |-> <<>>]
  IN  IF CommandSuccess(command, hashtags)
        THEN [code |-> command.code,
              ttweetString |-> Before(command.ttweetString, EndOfString),
              validHashtags |-> hashtags.valid]
        ELSE NoRequest
==============================================================================

------------------------------ MODULE ClientLoop -----------------------------
(***************************************************************************)
(* The loop of the client's main: a line is typed, its chars are read and  *)
(* parsed, a request is sent, and the next turn follows the answer.        *)
(*                                                                         *)
(* What is sent and answered, and how, is left to Requests.                *)
(* parse_client_command's array is not initialised, so that any of         *)
(* Memories may be behind the line that was read.                          *)
(***************************************************************************)
EXTENDS ClientParser

CONSTANTS
  Meant,      \* well-formed requests the user may type
  Lines,      \* lines the user may type without regard to the syntax
  Memories    \* what may be in clientInput behind the line

VARIABLES
  pc,        \* where the client is
  stdin,     \* typed and not yet read
  line,      \* history: the last line typed
  meant,     \* history: the request it was typed for
  overrun,   \* bytes that the last command read wrote past an array's end
  request    \* what the client sends

clientVars == <<pc, stdin, line, meant, overrun, request>>

Byte == 0 .. 255
Typable == 1 .. 255 \ {Newline}

-----------------------------------------------------------------------------
(* What the usage message allows, and the line for it.                     *)

WellFormedTag(t) == t # <<>> /\ \A i \in DOMAIN t : IsAlnum(t[i])

WithTag(s, t) == s \o <<Hash>> \o t

Hashtagged(tags) == FoldLeft(WithTag, <<>>, tags)

IsWellFormed(r) ==
  /\ r \in [code : Nat, ttweetString : Seq(Typable), validHashtags : Seq(Seq(Typable))]
  /\ r.code \in {REQ_TWEET, REQ_SUBSCRIBE, REQ_UNSUBSCRIBE, REQ_TIMELINE, REQ_EXIT}
  /\ \A t \in ToSet(r.validHashtags) : WellFormedTag(t)
  /\ IsInjective(r.validHashtags)
  /\ Len(Hashtagged(r.validHashtags)) <= MAX_HASHTAG_LEN
  /\ Len(r.validHashtags) \in
       CASE r.code = REQ_TWEET -> 1 .. MAX_HASHTAG_CNT
         [] r.code \in {REQ_SUBSCRIBE, REQ_UNSUBSCRIBE} -> {1}
         [] OTHER -> {0}
  /\ r.code = REQ_TWEET =>
       /\ Len(r.ttweetString) \in 1 .. MAX_TWEET_LEN
       /\ QuoteMark \notin ToSet(r.ttweetString)
       /\ ALL \notin ToSet(r.validHashtags)
  /\ r.code # REQ_TWEET => r.ttweetString = <<>>

Rendered(r) ==
  CASE r.code = REQ_TWEET ->
         Word.tweet \o <<Space, QuoteMark>> \o r.ttweetString \o <<QuoteMark, Space>>
           \o Hashtagged(r.validHashtags)
    [] r.code = REQ_SUBSCRIBE -> Word.subscribe \o <<Space>> \o Hashtagged(r.validHashtags)
    [] r.code = REQ_UNSUBSCRIBE ->
         Word.unsubscribe \o <<Space>> \o Hashtagged(r.validHashtags)
    [] r.code = REQ_TIMELINE -> Word.timeline
    [] r.code = REQ_EXIT -> Word.exit
    [] OTHER -> <<>>

ASSUME ClientLoopAssumption ==
  /\ \A r \in Meant : IsWellFormed(r) /\ Len(Rendered(r)) <= MAX_CLI_INPUT_LEN - 5
  /\ Lines \subseteq Seq(Typable)
  /\ Memories \subseteq Seq(Byte)
  /\ \A memory \in Memories : memory # <<>> /\ Last(memory) = EndOfString

-----------------------------------------------------------------------------
NoOverrun == [clientCommand |-> 0, ttweetString |-> 0, inputHashtags |-> 0]

ValidateRequest == [NoRequest EXCEPT !.code = REQ_VALIDATE_USER]

ClientInit ==
  /\ pc = "sent"
  /\ stdin = <<>>
  /\ line = <<>> /\ meant = NoRequest
  /\ overrun = NoOverrun
  /\ request = ValidateRequest

(* The client waits for input.  When all that was typed is used up, what   *)
(* is known of it is forgotten.                                            *)
Prompt ==
  /\ pc' = "prompt"
  /\ request' = NoRequest
  /\ IF stdin' = <<>> THEN line' = <<>> /\ meant' = NoRequest
                      ELSE UNCHANGED <<line, meant>>

(* The user types a line that is meant for a request, or any other.        *)
TypeLine ==
  /\ pc = "prompt" /\ stdin = <<>>
  /\ pc' = "typed"
  /\ \/ meant' = NoRequest /\ line' \in Lines
     \/ meant' \in Meant /\ line' = Rendered(meant')
  /\ stdin' = Append(line', Newline)
  /\ overrun' = NoOverrun
  /\ UNCHANGED request

(* A turn of the client's loop up to the sending of the payload.           *)
ReadCommand(memory) ==
  LET input == get_client_input(stdin)
      command == parse_client_command(input.clientInput, memory)
      r == IF input.ok THEN RequestOf(command) ELSE NoRequest
  IN  /\ pc \in {"prompt", "typed"} /\ stdin # <<>>
      /\ stdin' = input.rest
      /\ IF r = NoRequest
           THEN Prompt
           ELSE /\ pc' = "sent"
                /\ request' = r
                /\ UNCHANGED <<line, meant>>
      /\ overrun' = IF input.ok THEN Overrun(input.clientInput, memory) ELSE NoOverrun

(* An answer, and the next turn.                                           *)
Answered ==
  /\ pc = "sent" /\ request.code # REQ_EXIT
  /\ UNCHANGED stdin
  /\ overrun' = NoOverrun
  /\ Prompt

(* The end, after the exit command or when the username is not accepted.   *)
Leave ==
  /\ pc = "sent" /\ request.code \in {REQ_EXIT, REQ_VALIDATE_USER}
  /\ pc' = "left"
  /\ UNCHANGED <<stdin, line, meant, overrun, request>>

ClientNext ==
  \/ TypeLine
  \/ \E memory \in Memories : ReadCommand(memory)
  \/ Answered
  \/ Leave

ClientSpec == ClientInit /\ [][ClientNext]_clientVars

-----------------------------------------------------------------------------
(* Properties                                                              *)

ClientTypeOK ==
  /\ pc \in {"prompt", "typed", "sent", "left"}
  /\ stdin \in Seq(1 .. 255)
  /\ line \in Seq(Typable)
  /\ meant = NoRequest \/ IsWellFormed(meant)
  /\ request \in [code : REQ_INVALID .. REQ_VALIDATE_USER,
                  ttweetString : Seq(1 .. 255), validHashtags : Seq(Seq(1 .. 255))]
  /\ overrun \in [{"clientCommand", "ttweetString", "inputHashtags"} -> Nat]

(* A well-formed line is never refused, and what is sent for it is the     *)
(* request it was typed for, whatever is in memory (ttweetcli.c:316).      *)
MeantIsSent ==
  [][pc = "typed" /\ pc' # "typed" /\ meant # NoRequest => request' = meant]_clientVars

(* A line has no message or no argument for its command word, so that what *)
(* is read goes on behind its 0.                                           *)
ReadsOn(l) ==
  \/ l \in {Word.tweet, Word.subscribe, Word.unsubscribe}
  \/ /\ Before(l, Space) = Word.tweet
     /\ \A i, j \in DOMAIN l : i < j => l[i] # QuoteMark \/ l[j] # QuoteMark

(* What is sent is well-formed and is what was typed, with three           *)
(* exceptions: of a tweet, the hashtags before the first error count, and  *)
(* may be none or the same twice (ttweetcli.c:138); a command without its  *)
(* argument or its quotes takes them from old memory (ttweetcli.c:349,     *)
(* 404); and what follows the first part of an overlong line is a line     *)
(* again (ttweetcli.c:600).                                                *)
SentWasTyped ==
  pc = "sent" /\ request.code # REQ_VALIDATE_USER =>
    \E k \in 0 .. Len(line) :
      LET typed == From(line, k * (MAX_CLI_INPUT_LEN - 4) + 1)
      IN  \/ IsWellFormed(request) /\ Rendered(request) = typed
          \/ request.code = REQ_TWEET /\ IsPrefix(Rendered(request), typed)
          \/ ReadsOn(typed)

(* What the server's arrays for a message and for hashtags have room for:  *)
(* no tweet is for #ALL, and there is one hashtag to subscribe to.  (The   *)
(* username, an argument of main of any length, is not asked about.)       *)
Fits(r) ==
  /\ Len(r.validHashtags) <= MAX_HASHTAG_CNT
  /\ \A t \in ToSet(r.validHashtags) : Len(t) < MAX_HASHTAG_LEN
  /\ Len(r.ttweetString) <= MAX_TWEET_LEN
  /\ r.code = REQ_TWEET => ALL \notin ToSet(r.validHashtags)
  /\ r.code \in {REQ_SUBSCRIBE, REQ_UNSUBSCRIBE} => Len(r.validHashtags) = 1

(* Whatever is typed, and whatever is in memory behind it, the message and *)
(* the hashtags that are sent fit the arrays that the server copies them   *)
(* to (ttweetcli.c:185).                                                   *)
RequestFits == pc = "sent" => Fits(request)

(* No command, not one that is refused in the middle of being copied,      *)
(* writes more past clientCommand and ttweetString than a 0, nor more past *)
(* inputHashtags than a char and a 0; and a well-formed one only writes    *)
(* the 0 behind a message or behind hashtags of the full length            *)
(* (ttweetcli.c:352, 415, 430).                                            *)
OverrunsAreBounded ==
  /\ overrun.clientCommand <= (IF pc = "sent" THEN 0 ELSE 1)
  /\ overrun.ttweetString <= 1
  /\ overrun.inputHashtags <= 2
  /\ pc = "sent" /\ meant # NoRequest =>
       overrun = [clientCommand |-> 0,
                  ttweetString |->
                    IF Len(meant.ttweetString) = MAX_TWEET_LEN THEN 1 ELSE 0,
                  inputHashtags |->
                    IF Len(Hashtagged(meant.validHashtags)) = MAX_HASHTAG_LEN THEN 1
                                                                              ELSE 0]
==============================================================================

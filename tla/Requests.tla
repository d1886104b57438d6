------------------------------- MODULE Requests ------------------------------
(***************************************************************************)
(* From a line of input to what the server's handlers read, and from a     *)
(* reply to what the client reads: ClientLoop, the payloads of client and  *)
(* server, and cJSON between them.  The connection is taken to deliver the *)
(* text as it is; that is the subject of Connection.                       *)
(*                                                                         *)
(* The names of the fields of a payload are abstracted to one letter.      *)
(***************************************************************************)
EXTENDS ClientLoop, JsonPrint, JsonParse

CONSTANTS
  Username,      \* the client's
  Messages,      \* detailedMessage of a reply
  StoredTweets,  \* storedTweets of a reply
  Texts,         \* JSON texts that other programs write
  Codepoints     \* code points that they write as \u escapes

VARIABLES
  printed,   \* the printbuffer of the text under way
  received,  \* the item parsed from it, or NULL
  reply,     \* what the server answers
  codepoint  \* history: the code point under way, or -1

messageVars == <<printed, received, reply, codepoint>>
vars == <<clientVars, messageVars>>

RES_TWEET == 11
RES_SUBSCRIBE == 12
RES_UNSUBSCRIBE == 13
RES_TIMELINE == 14
RES_USER_VALID == 16
RES_USER_INVALID == 17

requestCode == <<114>>
username == <<117>>
ttweetString == <<116>>
numValidHashtags == <<110>>
ttweetHashtags == <<104>>
subscriptionHashtag == <<115>>
responseCode == <<99>>
clientUserIdx == <<105>>
detailedMessage == <<109>>
storedTweets == <<113>>

Text(p) == IF p = NULL THEN NULL ELSE SubSeq(p.buffer, 1, p.offset)

-----------------------------------------------------------------------------
(* Payloads                                                                *)

Strings(seq) ==
  FoldLeft(LAMBDA a, s : AddItemToArray(a, CreateString(s)), CreateArray, seq)

(* Add the pairs of name and item in order.                                *)
ObjectOf(pairs) ==
  FoldLeft(LAMBDA o, pair : AddItemToObject(o, pair[1], pair[2]), CreateObject, pairs)

create_json_client_payload(r) ==
  ObjectOf(
    <<<<requestCode, CreateNumber(r.code)>>, <<username, CreateString(Username)>>>>
      \o CASE r.code = REQ_TWEET ->
                <<<<ttweetString, CreateString(r.ttweetString)>>,
                  <<numValidHashtags, CreateNumber(Len(r.validHashtags))>>,
                  <<ttweetHashtags, Strings(r.validHashtags)>>>>
           [] r.code \in {REQ_SUBSCRIBE, REQ_UNSUBSCRIBE} ->
                <<<<subscriptionHashtag, CreateString(r.validHashtags[1])>>>>
           [] OTHER -> <<>>)

create_json_server_payload(r) ==
  ObjectOf(
    <<<<responseCode, CreateNumber(r.code)>>, <<clientUserIdx, CreateNumber(r.userIdx)>>,
      <<detailedMessage, CreateString(r.message)>>,
      IF r.code = RES_TIMELINE
        THEN <<storedTweets, Strings(r.tweets)>>
        ELSE <<username, CreateString(Username)>>>>)

Field(item, name) == GetObjectItemCaseSensitive(item, name)

StringOf(item, name) ==
  IF Field(item, name) = NULL THEN NULL ELSE Field(item, name).valuestring

NumberOf(item, name) ==
  IF Field(item, name) = NULL THEN NULL ELSE Field(item, name).valueint

(* The strings of an array, as the loops over it find them.                *)
StringsOf(array) ==
  [i \in 1 .. GetArraySize(array) |-> GetArrayItem(array, i - 1).valuestring]

(* Everything that handle_client_response and its handlers read.           *)
RequestRead(item) ==
  LET code == NumberOf(item, requestCode)
  IN  [code |-> code,
       ttweetString |-> IF code = REQ_TWEET THEN StringOf(item, ttweetString) ELSE <<>>,
       validHashtags |->
         CASE code = REQ_TWEET -> StringsOf(Field(item, ttweetHashtags))
           [] code \in {REQ_SUBSCRIBE, REQ_UNSUBSCRIBE} ->
                <<StringOf(item, subscriptionHashtag)>>
           [] OTHER -> <<>>]

(* Everything that handle_server_response reads.                           *)
ReplyRead(item) ==
  LET code == NumberOf(item, responseCode)
  IN  [code |-> code,
       userIdx |-> IF code = RES_USER_VALID THEN NumberOf(item, clientUserIdx) ELSE 0,
       message |-> IF code \in {RES_TWEET, RES_SUBSCRIBE, RES_UNSUBSCRIBE, RES_USER_INVALID}
                     THEN StringOf(item, detailedMessage)
                     ELSE <<>>,
       tweets |-> IF code = RES_TIMELINE THEN StringsOf(Field(item, storedTweets)) ELSE <<>>]

-----------------------------------------------------------------------------
(* What the server and the client do with what they parsed                 *)

(* handle_client_response comes to its send_payload: it has died of no     *)
(* null pointer, and the code is not that of exit nor one it does not know.*)
IsAnswered(item) ==
  LET code == NumberOf(item, requestCode)
  IN  /\ Field(item, requestCode) # NULL /\ Field(item, username) # NULL
      /\ CASE code = REQ_VALIDATE_USER -> StringOf(item, username) # NULL
           [] code = REQ_TWEET ->
                NULL \notin {StringOf(item, username), StringOf(item, ttweetString)}
                             \cup ToSet(StringsOf(Field(item, ttweetHashtags)))
           [] code \in {REQ_SUBSCRIBE, REQ_UNSUBSCRIBE} ->
                StringOf(item, subscriptionHashtag) # NULL
           [] code = REQ_TIMELINE -> TRUE
           [] OTHER -> FALSE

(* handle_server_response returns: it has neither died of a null pointer   *)
(* nor of a code that says so or that it does not know.                    *)
IsAccepted(item) ==
  LET code == NumberOf(item, responseCode)
  IN  /\ Field(item, responseCode) # NULL
      /\ CASE code = RES_USER_VALID -> Field(item, clientUserIdx) # NULL
           [] code \in {RES_TWEET, RES_SUBSCRIBE, RES_UNSUBSCRIBE} ->
                StringOf(item, detailedMessage) # NULL
           [] code = RES_TIMELINE ->
                NULL \notin ToSet(StringsOf(Field(item, storedTweets)))
           [] OTHER -> FALSE

-----------------------------------------------------------------------------
NoReply == [code |-> NULL, userIdx |-> 0, message |-> <<>>, tweets |-> <<>>]

Init ==
  /\ ClientInit
  /\ codepoint = -1
  /\ printed = print(create_json_client_payload(ValidateRequest))
  /\ received = NULL
  /\ reply = NoReply

(* A turn that sends nothing.                                              *)
NoMessage ==
  printed' = NULL /\ received' = NULL /\ reply' = NoReply /\ UNCHANGED codepoint

TypeCommand == TypeLine /\ UNCHANGED messageVars

(* What is read is printed and sent, or there is a new prompt.             *)
SendCommand(memory) ==
  /\ ReadCommand(memory)
  /\ IF pc' = "sent"
       THEN /\ printed' = print(create_json_client_payload(request'))
            /\ UNCHANGED <<received, reply, codepoint>>
       ELSE NoMessage

(* The server parses what it received, and goes on to answer it, or its    *)
(* child ends.                                                             *)
Receive ==
  /\ pc = "sent"
  /\ received' = Parse(Text(printed))
  /\ pc' = IF IsAnswered(received') THEN "received" ELSE "ended"
  /\ UNCHANGED <<stdin, line, meant, overrun, request, printed, reply, codepoint>>

(* The codes a handler may answer with.  NoReply's is the one of an empty  *)
(* object: an entry was free in the first loop over activeUsers, and in    *)
(* the second no more.                                                     *)
ReplyCodes(code) ==
  CASE code = REQ_VALIDATE_USER -> {RES_USER_VALID, RES_USER_INVALID, NULL}
    [] code = REQ_TWEET -> {RES_TWEET}
    [] code = REQ_SUBSCRIBE -> {RES_SUBSCRIBE}
    [] code = REQ_UNSUBSCRIBE -> {RES_UNSUBSCRIBE}
    [] OTHER -> {RES_TIMELINE}

Reply(r) ==
  /\ pc = "received"
  /\ r.code \in ReplyCodes(NumberOf(received, requestCode))
  /\ reply' = r
  /\ printed' = print(IF r = NoReply THEN CreateObject ELSE create_json_server_payload(r))
  /\ received' = Parse(Text(printed'))
  /\ pc' = "replied"
  /\ UNCHANGED <<stdin, line, meant, overrun, request, codepoint>>

(* The client that has sent exit does not wait for an answer.              *)
Exit ==
  /\ pc \in {"received", "replied", "ended"} /\ request.code = REQ_EXIT
  /\ pc' = "left"
  /\ UNCHANGED <<stdin, line, meant, overrun, request, messageVars>>

(* handle_server_response, and the next turn or the client's death.        *)
HandleResponse ==
  /\ pc = "replied" /\ request.code # REQ_EXIT
  /\ UNCHANGED stdin
  /\ IF IsAccepted(received)
       THEN Prompt /\ NoMessage /\ overrun' = NoOverrun
       ELSE pc' = "left" /\ UNCHANGED <<line, meant, overrun, request, messageVars>>

(* A text that cJSON has not printed, for the parser alone.  (It is not    *)
(* tried again behind each kind of overrun.)                               *)
Foreign(text, cp) ==
  /\ pc = "prompt" /\ stdin = <<>> /\ overrun = NoOverrun
  /\ pc' = "foreign"
  /\ codepoint' = cp
  /\ received' = Parse(text)
  /\ printed' = [EmptyBuffer EXCEPT !.buffer = text, !.offset = Len(text)]
  /\ UNCHANGED <<stdin, line, meant, overrun, request, reply>>

(* A code point in UTF-16, in a string.                                    *)
Hex4(n) == [i \in 1 .. 4 |-> HexDigit((n \div 16 ^ (4 - i)) % 16)]

Escape(cp) ==
  LET unit(n) == <<Backslash, 117>> \o Hex4(n)
  IN  <<Quote>>
        \o (IF cp < 65536 THEN unit(cp)
            ELSE unit(55296 + (cp - 65536) \div 1024)
                   \o unit(56320 + ((cp - 65536) % 1024)))
        \o <<Quote>>

Next ==
  \/ TypeCommand
  \/ \E memory \in Memories : SendCommand(memory)
  \/ Receive
  \/ \E code \in 11 .. 17, message \in Messages, tweets \in StoredTweets :
       Reply([code |-> code,
              userIdx |-> IF code = RES_USER_VALID THEN 1 ELSE 0,
              message |-> IF code \in {RES_TIMELINE, RES_USER_VALID} THEN <<>> ELSE message,
              tweets |-> IF code = RES_TIMELINE THEN tweets ELSE <<>>])
  \/ Reply(NoReply)
  \/ HandleResponse
  \/ Exit
  \/ \E text \in Texts : Foreign(text, -1)
  \/ \E cp \in Codepoints : Foreign(Escape(cp), cp)

Spec == Init /\ [][Next]_vars

-----------------------------------------------------------------------------
(* Properties                                                              *)

(* ClientLoop's pc: a request is sent until its answer is handled.  A      *)
(* client whose child ended without an answer, though it did not send      *)
(* exit, waits in receive_response for ever: it takes no turn any more.    *)
clientPC ==
  CASE pc \in {"received", "replied"} -> "sent"
    [] pc = "ended" -> IF request.code = REQ_EXIT THEN "sent" ELSE "left"
    [] pc = "foreign" -> "prompt"
    [] OTHER -> pc

Client == INSTANCE ClientLoop WITH pc <- clientPC

(* The client's loop goes on as ClientLoop says, through the JSON of every *)
(* request and every reply: nothing that can be typed makes a child end    *)
(* without an answer, or the client die of one, but for exit and the reply *)
(* to the username (ttweetcli.c:559, ttweetsrv.c:267).                     *)
ImplementsClient == Client!ClientSpec

TypeOK ==
  /\ Client!ClientTypeOK
  /\ pc \in {"prompt", "typed", "sent", "received", "replied", "ended", "left", "foreign"}
  /\ reply.message \in Seq(1 .. 255) /\ reply.tweets \in Seq(Seq(1 .. 255))
  /\ pc \in {"sent", "received", "replied", "ended"} => printed # NULL
  /\ codepoint \in {-1} \cup Codepoints

(* What the handlers read is what was sent: quotes, backslashes and        *)
(* control chars included (cJSON.c:827).                                   *)
RoundTrip ==
  /\ pc \in {"received", "ended"} =>
       received # NULL /\ RequestRead(received) = request
                       /\ StringOf(received, username) = Username
  /\ pc = "replied" => received # NULL /\ ReplyRead(received) = reply

(* Nothing is printed past the end of the buffer, which is grown by the    *)
(* lengths the callers foresee (cJSON.c:373).                              *)
PrintFits == pc \in {"sent", "received", "replied", "ended"} => printed.fits

StringsIn(text) ==
  {SubSeq(text, i + 1, ClosingQuote(text, i + 1) - 1) :
     i \in {j \in DOMAIN text : text[j] = Quote /\ ClosingQuote(text, j + 1) # 0}}

(* The length allocated for a string is enough for what its escapes become *)
(* (cJSON.c:733).                                                          *)
StringRoom ==
  pc \in {"sent", "replied", "foreign"} =>
    \A s \in StringsIn(Text(printed)) :
      LET output == Unescape(s) IN output # NULL => Len(output) <= AllocationLength(s)

(* No part of a message from its start parses as a message: one that is    *)
(* cut off is not taken for a shorter one (cJSON.c:1030).                  *)
TruncatedIsRefused ==
  pc \in {"received", "replied", "ended"} =>
    \A n \in 0 .. printed.offset - 1 : Parse(SubSeq(printed.buffer, 1, n)) = NULL

(* What is read from another program's text is the same when it is printed *)
(* and read again.                                                         *)
Reprints ==
  pc = "foreign" /\ received # NULL => Parse(PrintUnformatted(received)) = received

(* The code point of a UTF-8 sequence.                                     *)
Decode(bytes) ==
  FoldLeft(LAMBDA n, c : 64 * n + (c - 128), bytes[1] - FirstByteMark[Len(bytes)],
           Tail(bytes))

(* A code point written as \u escapes is read as its UTF-8 form, and half  *)
(* of a surrogate pair is refused (cJSON.c:577).                           *)
CodepointKept ==
  codepoint > 0 =>
    IF codepoint \in HighSurrogates \cup LowSurrogates
      THEN received = NULL
      ELSE received.valuestring # <<>> /\ Decode(received.valuestring) = codepoint
==============================================================================

------------------------------ MODULE Connection -----------------------------
(***************************************************************************)
(* One ttweetcli and the child that handles its connection, as two         *)
(* processes that send_payload and receive_response over a pair of byte    *)
(* streams.  What the child answers depends on the table of users, which   *)
(* is not in this module (see TweetServer), so that any answer is possible.*)
(*                                                                         *)
(* A message is a number of bytes whose last is the 0; the header block    *)
(* before it begins with that number, and what follows the number in the   *)
(* block is whatever was in the sender's array.  wait_for takes time and   *)
(* does nothing else, and is left out.                                     *)
(***************************************************************************)
EXTENDS Integers, SequencesExt

CONSTANTS
  RCV_BUF_SIZE,
  Sizes,        \* sizes of messages
  Garbage,      \* numbers that bytes nobody has written may begin with
  MaxRequests,  \* bound: messages the client sends
  MaxShort      \* bound: recv that return less than has arrived

ASSUME ConnectionAssumption ==
  /\ RCV_BUF_SIZE \in Nat \ {0}
  /\ Sizes \subseteq Nat \ {0}
  /\ Garbage \subseteq Nat
  /\ {MaxRequests, MaxShort} \subseteq Nat

VARIABLES
  mode,    \* "serving" runs handle_ttweet_client, "rejecting" reject_ttweet_client
  pc,      \* where a process is
  wire,    \* bytes on their way to a process
  out,     \* the message a process is sending
  buffer,  \* the array buffer of receive_response
  left,    \* bytesToRecv
  got,     \* the bytes put into response
  sent,    \* history: the messages a process has sent
  taken,   \* history: the messages a process has received
  shorts   \* history: short recv so far

streams == <<wire, out, buffer, left, got>>
history == <<sent, taken, shorts>>
vars == <<mode, pc, streams, history>>

Process == {"client", "child"}

Other == [client |-> "child", child |-> "client"]

Requests == {"validate", "request", "exit"}

(* "empty" has no field: handle_validate_user_request may leave it so.     *)
Replies == {"valid", "invalid", "done", "empty"}

Messages == [kind : Requests \cup Replies, size : Sizes]

(* A response that is not a message with the fields that are read.         *)
NoMessage == [kind |-> "none", size |-> 0]

(* "header": before the first send of send_payload or in the first loop of *)
(* receive_response; "block": before the second send, in the second loop.  *)
(* "closed": the process is gone, and its socket with it.                  *)
Control ==
  {"prompt", "send header", "send block", "receive header", "receive block",
   "handle", "leaving", "closed"}

Receiving(p) == pc[p] \in {"receive header", "receive block"}

Open(p) == pc[p] # "closed"

-----------------------------------------------------------------------------
(* Bytes                                                                   *)

(* A byte that begins a number, as atoi reads it, or one of a message.     *)
Byte == [type : {"number", "text"}, of : Messages \cup {NoMessage}, n : Nat]

Number(n) == [type |-> "number", of |-> NoMessage, n |-> n]

Text(m) == [i \in 1 .. m.size |-> [type |-> "text", of |-> m, n |-> i]]

Unwritten == {[i \in 1 .. RCV_BUF_SIZE |-> Number(n)] : n \in Garbage}

(* A text begins with a brace.  In its middle there may be digits.         *)
atoi(bytes) ==
  CASE bytes[1].type = "number" -> {bytes[1].n}
    [] bytes[1].type = "text" /\ bytes[1].n = 1 -> {0}
    [] OTHER -> Garbage

(* Mutant of Readings: what is in response from before may be read again.  *)
ReadingsOfBefore(response, kinds) ==
  IF \E m \in Messages : response = Text(m)
    THEN {response[1].of}
    ELSE {NoMessage} \cup {[kind |-> k, size |-> 0] : k \in kinds}

(* What cJSON_Parse and the lookup of requestCode or responseCode make of  *)
(* a response, for a process that reads messages of the kinds given: of    *)
(* one that is no text from the start, nothing; of parts of texts,         *)
(* anything.                                                               *)
Readings(response, kinds) ==
  IF \E m \in Messages : response = Text(m)
    THEN {response[1].of}
    ELSE {NoMessage} \cup
           {[kind |-> k, size |-> 0] : k \in {l \in kinds : response[1].type = "text"}}

-----------------------------------------------------------------------------
(* The variables of receive_response are of no use outside of it.          *)
NoBuffer == [i \in 1 .. RCV_BUF_SIZE |-> Number(0)]

Forget(p) ==
  /\ buffer' = [buffer EXCEPT ![p] = NoBuffer]
  /\ left' = [left EXCEPT ![p] = 0]
  /\ got' = [got EXCEPT ![p] = <<>>]

Send(p, m) ==
  /\ out' = [out EXCEPT ![p] = m]
  /\ pc' = [pc EXCEPT ![p] = "send header"]

Init ==
  /\ mode \in {"serving", "rejecting"}
  /\ pc = [client |-> "send header", child |-> "receive header"]
  /\ wire = [p \in Process |-> <<>>]
  /\ out \in {[client |-> m, child |-> NoMessage] :
                m \in {n \in Messages : n.kind = "validate"}}
  /\ buffer \in {[client |-> NoBuffer, child |-> b] : b \in Unwritten}
  /\ left = [p \in Process |-> 0]
  /\ got = [p \in Process |-> <<>>]
  /\ sent = [p \in Process |-> <<>>]
  /\ taken = [p \in Process |-> <<>>]
  /\ shorts = 0

(* Bytes for a process that is gone are dropped.                           *)
Transmit(p, bytes) ==
  wire' = [wire EXCEPT ![Other[p]] = IF Open(Other[p]) THEN @ \o bytes ELSE <<>>]

(* Mutant of SendHeader: the 0 is not counted.                             *)
SendHeaderLess(p) ==
  /\ pc[p] = "send header"
  /\ \E rest \in Unwritten : Transmit(p, <<Number(out[p].size - 1)>> \o Tail(rest))
  /\ pc' = [pc EXCEPT ![p] = "send block"]
  /\ UNCHANGED <<mode, out, buffer, left, got, history>>

(* The first send.                                                         *)
SendHeader(p) ==
  /\ pc[p] = "send header"
  /\ \E rest \in Unwritten : Transmit(p, <<Number(out[p].size)>> \o Tail(rest))
  /\ pc' = [pc EXCEPT ![p] = "send block"]
  /\ UNCHANGED <<mode, out, buffer, left, got, history>>

(* receive_response begins with an array that is not initialised.          *)
Receive(p) ==
  /\ \E garbage \in Unwritten : buffer' = [buffer EXCEPT ![p] = garbage]
  /\ left' = [left EXCEPT ![p] = 0]
  /\ got' = [got EXCEPT ![p] = <<>>]

(* Mutant of SendBlock: the 0 is counted and not sent.                     *)
SendBlockWithoutNul(p) ==
  /\ pc[p] = "send block"
  /\ Transmit(p, Front(Text(out[p])))
  /\ sent' = [sent EXCEPT ![p] = Append(@, out[p])]
  /\ out' = [out EXCEPT ![p] = NoMessage]
  /\ pc' = [pc EXCEPT ![p] = "receive header"]
  /\ Receive(p)
  /\ UNCHANGED <<mode, taken, shorts>>

(* The second send.  Then the client waits for the reply, or exits when it *)
(* has said so; a child waits for the next request, or closes when it      *)
(* rejects.                                                                *)
SendBlock(p) ==
  LET ends == IF p = "client" THEN out[p].kind = "exit" ELSE mode = "rejecting"
  IN  /\ pc[p] = "send block"
      /\ Transmit(p, Text(out[p]))
      /\ sent' = [sent EXCEPT ![p] = Append(@, out[p])]
      /\ out' = [out EXCEPT ![p] = NoMessage]
      /\ pc' = [pc EXCEPT ![p] = IF ends THEN "leaving" ELSE "receive header"]
      /\ IF ends THEN UNCHANGED <<buffer, left, got>> ELSE Receive(p)
      /\ UNCHANGED <<mode, taken, shorts>>

(* A send to a process that is gone: a signal, or a result that is less    *)
(* than it should be, for which send_payload returns 0.  The client goes   *)
(* back to its prompt then, except that it does not look at the result of  *)
(* its first request; a child never does.                                  *)
BrokenPipe(p) ==
  /\ pc[p] \in {"send header", "send block"}
  /\ ~ Open(Other[p])
  /\ pc' = [pc EXCEPT ![p] = "leaving"]
  /\ UNCHANGED <<mode, streams, history>>

SendFails(p) ==
  LET ends == IF p = "client" THEN out[p].kind = "exit" ELSE mode = "rejecting"
      gives_up == p = "client" /\ out[p].kind = "request"
  IN  /\ pc[p] \in {"send header", "send block"}
      /\ ~ Open(Other[p])
      /\ out' = [out EXCEPT ![p] = NoMessage]
      /\ \/ /\ ends \/ gives_up
            /\ pc' = [pc EXCEPT ![p] = IF ends THEN "leaving" ELSE "prompt"]
            /\ UNCHANGED <<buffer, left, got>>
         \/ /\ ~ (ends \/ gives_up)
            /\ pc' = [pc EXCEPT ![p] = "receive header"]
            /\ Receive(p)
      /\ UNCHANGED <<mode, wire, history>>

-----------------------------------------------------------------------------
(* recv: up to n bytes of what has arrived are put at the start of buffer. *)
(* At the end of the connection nothing is, and the result is not looked   *)
(* at.                                                                     *)
Least(m, n) == IF m < n THEN m ELSE n

recv(p, n) ==
  /\ wire[p] # <<>> \/ ~ Open(Other[p])
  /\ \E k \in 0 .. Least(n, Len(wire[p])) :
       /\ k = 0 => wire[p] = <<>>
       /\ k < Least(n, Len(wire[p])) => shorts < MaxShort
       /\ shorts' = IF k < Least(n, Len(wire[p])) THEN shorts + 1 ELSE shorts
       /\ buffer' = [buffer EXCEPT ![p] =
                       SubSeq(wire[p], 1, k) \o SubSeq(@, k + 1, RCV_BUF_SIZE)]
       /\ wire' = [wire EXCEPT ![p] = SubSeq(@, k + 1, Len(@))]

(* Mutant of ReceiveHeader: a size of 0 ends the loop as well.             *)
ReceiveAnyHeader(p) ==
  /\ pc[p] = "receive header"
  /\ recv(p, RCV_BUF_SIZE)
  /\ \E n \in atoi(buffer'[p]) : left' = [left EXCEPT ![p] = n]
  /\ pc' = [pc EXCEPT ![p] = "receive block"]
  /\ UNCHANGED <<mode, out, got, sent, taken>>

(* A turn of the first loop.                                               *)
ReceiveHeader(p) ==
  /\ pc[p] = "receive header"
  /\ recv(p, RCV_BUF_SIZE)
  /\ \E n \in atoi(buffer'[p]) :
       /\ left' = [left EXCEPT ![p] = n]
       /\ pc' = [pc EXCEPT ![p] = IF n > 0 THEN "receive block" ELSE @]
  /\ UNCHANGED <<mode, out, got, sent, taken>>

(* Mutant of ReceiveBlock: the last block is read as a whole one.          *)
ReceiveWholeBlock(p) ==
  /\ pc[p] = "receive block"
  /\ recv(p, RCV_BUF_SIZE)
  /\ got' = [got EXCEPT ![p] = @ \o buffer'[p]]
  /\ left' = [left EXCEPT ![p] = @ - RCV_BUF_SIZE]
  /\ pc' = [pc EXCEPT ![p] = IF left'[p] > 0 THEN @ ELSE "handle"]
  /\ UNCHANGED <<mode, out, sent, taken>>

(* A turn of the second loop.                                              *)
ReceiveBlock(p) ==
  LET n == Least(left[p], RCV_BUF_SIZE)
  IN  /\ pc[p] = "receive block"
      /\ recv(p, n)
      /\ got' = [got EXCEPT ![p] = @ \o SubSeq(buffer'[p], 1, n)]
      /\ left' = [left EXCEPT ![p] = @ - RCV_BUF_SIZE]
      /\ pc' = [pc EXCEPT ![p] = IF left'[p] > 0 THEN @ ELSE "handle"]
      /\ UNCHANGED <<mode, out, sent, taken>>

-----------------------------------------------------------------------------
(* handle_server_response.  The client dies of RES_USER_INVALID, and of a  *)
(* null pointer or an invalid code.                                        *)
HandleReply ==
  /\ pc["client"] = "handle"
  /\ \E m \in Readings(got["client"], Replies) :
       /\ taken' = [taken EXCEPT !["client"] = Append(@, m)]
       /\ pc' = [pc EXCEPT !["client"] =
                   IF m.kind \in {"valid", "done"} THEN "prompt" ELSE "leaving"]
  /\ Forget("client")
  /\ UNCHANGED <<mode, wire, out, sent, shorts>>

(* A command that is sent.                                                 *)
Command(m) ==
  /\ pc["client"] = "prompt"
  /\ m.kind \in {"request", "exit"}
  /\ Len(sent["client"]) < MaxRequests
  /\ Send("client", m)
  /\ UNCHANGED <<mode, wire, buffer, left, got, history>>

Answers(kind) == IF kind = "validate" THEN {"valid", "invalid", "empty"} ELSE {"done"}

(* Mutants of HandleRequest: an exit is answered like a request, and the   *)
(* loop goes on; a request is not answered.                                *)
HandleExitAsRequest ==
  /\ pc["child"] = "handle"
  /\ \E m \in Readings(got["child"], Requests), reply \in Messages :
       /\ m.kind = "none" \/ reply.kind \in Answers(m.kind)
       /\ taken' = [taken EXCEPT !["child"] = Append(@, m)]
       /\ Send("child", reply)
  /\ Forget("child")
  /\ UNCHANGED <<mode, wire, sent, shorts>>

HandleSilently ==
  /\ pc["child"] = "handle"
  /\ \E m \in Readings(got["child"], Requests) :
       /\ taken' = [taken EXCEPT !["child"] = Append(@, m)]
       /\ pc' = [pc EXCEPT !["child"] =
                   IF m.kind = "exit" THEN "leaving" ELSE "receive header"]
  /\ Receive("child")
  /\ UNCHANGED <<mode, wire, out, sent, shorts>>

(* handle_client_response.  The child dies of a null pointer when there is *)
(* no requestCode, and leaves its loop and closes on exit.                 *)
HandleRequest ==
  /\ pc["child"] = "handle"
  /\ \E m \in Readings(got["child"], Requests) :
       /\ taken' = [taken EXCEPT !["child"] = Append(@, m)]
       /\ IF m.kind \in {"exit", "none"}
            THEN /\ pc' = [pc EXCEPT !["child"] = "leaving"]
                 /\ UNCHANGED out
            ELSE \E reply \in {r \in Messages : r.kind \in Answers(m.kind)} :
                   Send("child", reply)
  /\ Forget("child")
  /\ UNCHANGED <<mode, wire, sent, shorts>>

(* The socket is closed, by close or because the process has ended.  When  *)
(* there is something that it has not read, the other may lose what was    *)
(* sent to it.                                                             *)
Closed(p) ==
  /\ pc' = [pc EXCEPT ![p] = "closed"]
  /\ wire' \in {[wire EXCEPT ![p] = <<>>]} \cup
               {w \in {[q \in Process |-> <<>>]} : wire[p] # <<>>}
  /\ out' = [out EXCEPT ![p] = NoMessage]
  /\ Forget(p)
  /\ UNCHANGED <<mode, history>>

Close(p) == pc[p] = "leaving" /\ Closed(p)

(* The client is killed; a child is, or dies in a handler (ChildSteps).    *)
Die(p) == Open(p) /\ pc[p] # "leaving" /\ Closed(p)

-----------------------------------------------------------------------------
Step(p) ==
  \/ SendHeader(p) \/ SendBlock(p) \/ BrokenPipe(p) \/ SendFails(p)
  \/ ReceiveHeader(p) \/ ReceiveBlock(p)
  \/ Close(p)

Next ==
  \/ \E p \in Process : Step(p) \/ Die(p)
  \/ HandleReply
  \/ HandleRequest
  \/ \E m \in Messages : Command(m)

Spec == Init /\ [][Next]_vars

(* Either process goes on when it can.  Nobody has to type a command.      *)
Fairness ==
  /\ \A p \in Process : WF_vars(Step(p))
  /\ WF_vars(HandleReply)
  /\ WF_vars(HandleRequest)

FairSpec == Spec /\ Fairness

-----------------------------------------------------------------------------
(* Properties                                                              *)

TypeOK ==
  /\ mode \in {"serving", "rejecting"}
  /\ pc \in [Process -> Control]
  /\ wire \in [Process -> Seq(Byte)]
  /\ out \in [Process -> Messages \cup {NoMessage}]
  /\ buffer \in [Process -> [1 .. RCV_BUF_SIZE -> Byte]]
  /\ left \in [Process -> Int]
  /\ got \in [Process -> Seq(Byte)]
  /\ sent \in [Process -> Seq(Messages)]
  /\ taken \in [Process -> Seq([kind : Requests \cup Replies \cup {"none"},
                               size : Sizes \cup {0}])]
  /\ shorts \in 0 .. MaxShort
  /\ \A p \in Process :
       /\ pc[p] \in {"send header", "send block"} => out[p] # NoMessage
       /\ pc[p] = "receive block" => left[p] > 0
       /\ pc[p] = "handle" => got[p] # <<>>

(* As long as no recv was short, what a process takes for messages is what *)
(* the other sent, in order and whole, whatever was in its arrays, and     *)
(* anything else comes last, when the other is gone (ttweet_common.c:82).  *)
TakenAsSent ==
  shorts = 0 => \A p \in Process : \A i \in DOMAIN taken[p] :
    \/ i \in DOMAIN sent[Other[p]] /\ taken[p][i] = sent[Other[p]][i]
    \/ i = Len(taken[p]) /\ taken[p][i] = NoMessage /\ ~ Open(Other[p])

(* As long as no recv was short, a client at its prompt has the reply to   *)
(* every request, and nothing of any message is left to be read: both ends *)
(* are at the start of a header (README.md:54).                            *)
QuietAtPrompt ==
  shorts = 0 /\ pc["client"] = "prompt" =>
    /\ Len(taken["client"]) = Len(sent["client"])
    /\ \A p \in Process : wire[p] = <<>>
    /\ pc["child"] \in {"receive header", "leaving", "closed"}

(* Unless a recv was short, the two never wait for each other: with both   *)
(* in receive_response, something is on its way (ttweet_common.c:76).      *)
NoMutualWait ==
  shorts = 0 => ~ \A p \in Process : Receiving(p) /\ wire[p] = <<>>

(* A client whose child is gone, with no reply on its way, and nothing but *)
(* what was in memory before in its array.                                 *)
Stranded ==
  /\ pc["client"] = "receive header"
  /\ wire["client"] = <<>> /\ ~ Open("child")
  /\ buffer["client"][1].type = "number"

(* It never gets back to its prompt: it loops in receive_response or dies  *)
(* (ttweetcli.c:176).                                                      *)
StrandedForGood == [](Stranded => [](pc["client"] # "prompt"))

(* A client that waits gets its reply, unless its child is gone or a recv  *)
(* was short.                                                              *)
ReplyArrives ==
  Receiving("client") ~> ~ Receiving("client") \/ ~ Open("child") \/ shorts > 0

(* A child of a client that said exit ends, so that it can be waited for   *)
(* (ttweetsrv.c:241), unless a recv was short.                             *)
ExitEndsChild ==
  (sent["client"] # <<>> /\ Last(sent["client"]).kind = "exit")
    ~> ~ Open("child") \/ shorts > 0
==============================================================================

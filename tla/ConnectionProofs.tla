--------------------------- MODULE ConnectionProofs --------------------------
(***************************************************************************)
(* For blocks and messages of any size and any number of short recv: what  *)
(* the two processes hold are always bytes and messages, and every array   *)
(* is used inside its bounds; and a client that waits for a child that is  *)
(* gone never gets back to its prompt.  And as long as no recv is short,   *)
(* the two processes take turns, and from that each takes for messages     *)
(* what the other sent, a client at its prompt has its replies, and the    *)
(* two never wait for each other.                                          *)
(***************************************************************************)
EXTENDS Connection, SequenceTheorems, TLAPS

Buffers == [1 .. RCV_BUF_SIZE -> Byte]

TakenMessages == [kind : Requests \cup Replies \cup {"none"}, size : Sizes \cup {0}]

(* The parts of TypeOK, by the variables they are about.                   *)
ControlOK ==
  /\ pc \in [Process -> Control]
  /\ out \in [Process -> Messages \cup {NoMessage}]
  /\ \A p \in Process : pc[p] \in {"send header", "send block"} => out[p] # NoMessage

StreamsOK ==
  /\ wire \in [Process -> Seq(Byte)]
  /\ shorts \in 0 .. MaxShort

LocalsOK ==
  /\ buffer \in [Process -> Buffers]
  /\ left \in [Process -> Int]
  /\ got \in [Process -> Seq(Byte)]

ReceivingOK ==
  \A p \in Process :
    /\ pc[p] = "receive block" => left[p] > 0
    /\ pc[p] = "handle" => got[p] # <<>>

HistoryOK ==
  /\ mode \in {"serving", "rejecting"}
  /\ sent \in [Process -> Seq(Messages)]
  /\ taken \in [Process -> Seq(TakenMessages)]

(* TypeOK is the conjunction of these parts.                               *)
LEMMA TypeParts ==
  TypeOK <=> ControlOK /\ StreamsOK /\ LocalsOK /\ ReceivingOK /\ HistoryOK
  BY DEF TypeOK, ControlOK, StreamsOK, LocalsOK, ReceivingOK, HistoryOK, Buffers,
         TakenMessages

LEMMA TypePartsPrime ==
  TypeOK' <=> ControlOK' /\ StreamsOK' /\ LocalsOK' /\ ReceivingOK' /\ HistoryOK'
  BY DEF TypeOK, ControlOK, StreamsOK, LocalsOK, ReceivingOK, HistoryOK, Buffers,
         TakenMessages

(* A function with one value changed.                                      *)
LEMMA Updated ==
  ASSUME NEW S, NEW T, NEW f \in [S -> T], NEW x \in S, NEW v \in T
  PROVE  [f EXCEPT ![x] = v] \in [S -> T]
  OBVIOUS

-----------------------------------------------------------------------------
(* Bytes                                                                   *)

(* A number makes a byte.                                                  *)
LEMMA NumberIsByte == \A n \in Nat : Number(n) \in Byte
  BY DEF Number, Byte

(* The bytes of a message, of which there is at least one.                 *)
LEMMA TextBytes ==
  ASSUME NEW m \in Messages
  PROVE  /\ Text(m) \in Seq(Byte)
         /\ Len(Text(m)) = m.size
         /\ m.size \in Nat \ {0}
         /\ Text(m)[1].type = "text"
  <1>1. m.size \in Nat \ {0}
    BY ConnectionAssumption DEF Messages
  <1>2. \A i \in 1 .. m.size : [type |-> "text", of |-> m, n |-> i] \in Byte
    BY <1>1 DEF Byte
  <1>3. Text(m) \in [1 .. m.size -> Byte]
    BY <1>2 DEF Text
  <1>4. Text(m) \in Seq(Byte) /\ Len(Text(m)) = m.size
    BY <1>1, <1>3, IsASeq, LenProperties
  <1>5. Text(m)[1].type = "text"
    BY <1>1 DEF Text
  <1> QED BY <1>1, <1>4, <1>5

(* What was in an array before is bytes that may begin numbers.            *)
LEMMA UnwrittenBytes ==
  ASSUME NEW b \in Unwritten
  PROVE  /\ b \in Buffers
         /\ b[1].type = "number"
         /\ b \in Seq(Byte) /\ Len(b) = RCV_BUF_SIZE
  <1>1. PICK n \in Garbage : b = [i \in 1 .. RCV_BUF_SIZE |-> Number(n)]
    BY DEF Unwritten
  <1>2. Number(n) \in Byte
    BY NumberIsByte, ConnectionAssumption
  <1>3. b \in Buffers
    BY <1>1, <1>2 DEF Buffers
  <1>4. b[1].type = "number"
    BY <1>1, ConnectionAssumption DEF Number
  <1>5. b \in Seq(Byte) /\ Len(b) = RCV_BUF_SIZE
    BY <1>3, ConnectionAssumption, IsASeq, LenProperties DEF Buffers
  <1> QED BY <1>3, <1>4, <1>5

LEMMA NoBufferIsBuffer == NoBuffer \in Buffers
  BY NumberIsByte, ConnectionAssumption DEF NoBuffer, Buffers

(* The header block.                                                       *)
LEMMA HeaderBytes ==
  ASSUME NEW rest \in Unwritten, NEW n \in Nat
  PROVE  <<Number(n)>> \o Tail(rest) \in Seq(Byte)
  <1>1. rest \in Seq(Byte) /\ rest # <<>>
    BY UnwrittenBytes, ConnectionAssumption
  <1>2. Tail(rest) \in Seq(Byte)
    BY <1>1, HeadTailProperties
  <1>3. <<Number(n)>> \in Seq(Byte)
    BY NumberIsByte
  <1> QED BY <1>2, <1>3, ConcatProperties

-----------------------------------------------------------------------------
(* recv keeps the arrays in shape: the buffer stays as long as it is, and  *)
(* when nothing has come it stays as it is.                                *)
LEMMA RecvBuffer ==
  ASSUME NEW w \in Seq(Byte), NEW b \in Buffers, NEW k \in 0 .. Len(w), k <= RCV_BUF_SIZE
  PROVE  /\ SubSeq(w, 1, k) \o SubSeq(b, k + 1, RCV_BUF_SIZE) \in Buffers
         /\ k = 0 => SubSeq(w, 1, k) \o SubSeq(b, k + 1, RCV_BUF_SIZE) = b
         /\ SubSeq(w, k + 1, Len(w)) \in Seq(Byte)
  <1> DEFINE head == SubSeq(w, 1, k)
             tail == SubSeq(b, k + 1, RCV_BUF_SIZE)
  <1>0. RCV_BUF_SIZE \in Nat \ {0}
    BY ConnectionAssumption
  <1>1. \A i \in 1 .. k : w[i] \in Byte
    BY ElementOfSeq
  <1>2. head \in Seq(Byte) /\ Len(head) = k
    BY <1>1, SubSeqProperties
  <1>3. \A i \in k + 1 .. RCV_BUF_SIZE : b[i] \in Byte
    BY DEF Buffers
  <1>4. /\ tail \in Seq(Byte) /\ Len(tail) = RCV_BUF_SIZE - k
        /\ \A i \in 1 .. RCV_BUF_SIZE - k : tail[i] = b[k + i]
    <2>1. /\ tail \in Seq(Byte)
          /\ Len(tail) = IF k + 1 <= RCV_BUF_SIZE THEN RCV_BUF_SIZE - (k + 1) + 1 ELSE 0
          /\ \A i \in 1 .. RCV_BUF_SIZE - (k + 1) + 1 : tail[i] = b[(k + 1) + i - 1]
      BY <1>0, <1>3, SubSeqProperties
    <2> HIDE DEF tail
    <2>2. RCV_BUF_SIZE - (k + 1) + 1 = RCV_BUF_SIZE - k
      BY <1>0
    <2>3. k + 1 <= RCV_BUF_SIZE \/ RCV_BUF_SIZE - k = 0
      BY <1>0
    <2>4. Len(tail) = RCV_BUF_SIZE - k
      BY <1>0, <2>1, <2>2, <2>3
    <2>5. \A i \in 1 .. RCV_BUF_SIZE - k : tail[i] = b[k + i]
      <3> TAKE i \in 1 .. RCV_BUF_SIZE - k
      <3>1. (k + 1) + i - 1 = k + i
        BY <1>0
      <3> QED BY <2>1, <2>2, <3>1
    <2> QED BY <2>1, <2>4, <2>5
  <1>5. head \o tail \in Seq(Byte) /\ Len(head \o tail) = RCV_BUF_SIZE
    BY <1>0, <1>2, <1>4, ConcatProperties
  <1>6. head \o tail \in Buffers
    BY <1>5, LenProperties DEF Buffers
  <1>7. ASSUME k = 0 PROVE head \o tail = b
    <2>1. head = <<>>
      BY <1>7, SubSeqEmpty
    <2>2. head \o tail = tail
      BY <1>4, <2>1, ConcatEmptySeq
    <2>3. tail \in Buffers
      BY <1>6, <2>2
    <2>4. \A i \in 1 .. RCV_BUF_SIZE : tail[i] = b[i]
      BY <1>0, <1>4, <1>7
    <2> HIDE DEF tail
    <2>5. tail = b
      <3>1. /\ tail = [i \in 1 .. RCV_BUF_SIZE |-> tail[i]]
            /\ b = [i \in 1 .. RCV_BUF_SIZE |-> b[i]]
        BY <2>3 DEF Buffers
      <3> QED BY <2>4, <3>1
    <2> QED BY <2>2, <2>5
  <1>8. SubSeq(w, k + 1, Len(w)) \in Seq(Byte)
    <2>1. \A i \in k + 1 .. Len(w) : w[i] \in Byte
      BY ElementOfSeq
    <2> QED BY <2>1, SubSeqProperties, LenProperties
  <1> QED BY <1>6, <1>7, <1>8

LEMMA RecvTypes ==
  ASSUME TypeOK, NEW p \in Process, NEW n \in Nat, n <= RCV_BUF_SIZE, recv(p, n)
  PROVE  /\ StreamsOK'
         /\ buffer' \in [Process -> Buffers]
         /\ wire[p] = <<>> => wire' = wire /\ buffer' = buffer
  <1>0. RCV_BUF_SIZE \in Nat \ {0} /\ MaxShort \in Nat
    BY ConnectionAssumption
  <1>1. StreamsOK /\ LocalsOK
    BY TypeParts
  <1>2. PICK k \in 0 .. Least(n, Len(wire[p])) :
          /\ k < Least(n, Len(wire[p])) => shorts < MaxShort
          /\ shorts' = IF k < Least(n, Len(wire[p])) THEN shorts + 1 ELSE shorts
          /\ buffer' = [buffer EXCEPT ![p] =
                          SubSeq(wire[p], 1, k) \o SubSeq(buffer[p], k + 1, RCV_BUF_SIZE)]
          /\ wire' = [wire EXCEPT ![p] = SubSeq(wire[p], k + 1, Len(wire[p]))]
    BY DEF recv
  <1>3. wire[p] \in Seq(Byte) /\ Len(wire[p]) \in Nat /\ buffer[p] \in Buffers
    BY <1>1, LenProperties DEF StreamsOK, LocalsOK
  <1>4. k \in 0 .. Len(wire[p]) /\ k <= RCV_BUF_SIZE /\ k \in Nat
    BY <1>0, <1>2, <1>3 DEF Least
  <1>5. /\ SubSeq(wire[p], 1, k) \o SubSeq(buffer[p], k + 1, RCV_BUF_SIZE) \in Buffers
        /\ k = 0 => SubSeq(wire[p], 1, k) \o SubSeq(buffer[p], k + 1, RCV_BUF_SIZE)
                      = buffer[p]
        /\ SubSeq(wire[p], k + 1, Len(wire[p])) \in Seq(Byte)
    BY <1>3, <1>4, RecvBuffer
  <1>6. shorts' \in 0 .. MaxShort
    BY <1>0, <1>1, <1>2 DEF StreamsOK
  <1>7. wire' \in [Process -> Seq(Byte)]
    BY <1>1, <1>2, <1>5 DEF StreamsOK
  <1>8. buffer' \in [Process -> Buffers]
    BY <1>1, <1>2, <1>5 DEF LocalsOK
  <1>9. ASSUME wire[p] = <<>> PROVE wire' = wire /\ buffer' = buffer
    <2>1. Len(wire[p]) = 0
      BY <1>9, EmptySeq
    <2>2. k = 0
      BY <2>1, <1>4
    <2>3. SubSeq(wire[p], k + 1, Len(wire[p])) = wire[p]
      BY <1>9, <2>1, <2>2, SubSeqEmpty
    <2> QED BY <1>1, <1>2, <1>5, <2>2, <2>3 DEF StreamsOK, LocalsOK
  <1> QED BY <1>6, <1>7, <1>8, <1>9 DEF StreamsOK

(* What atoi makes of a buffer is a natural number.                        *)
LEMMA AtoiIsNat ==
  ASSUME NEW b \in Buffers
  PROVE  atoi(b) \subseteq Nat /\ (b[1].type = "number" => atoi(b) = {b[1].n})
  <1>1. b[1] \in Byte
    BY ConnectionAssumption DEF Buffers
  <1>2. b[1].n \in Nat /\ b[1].type \in {"number", "text"}
    BY <1>1 DEF Byte
  <1>3. b[1].type = "number" => atoi(b) = {b[1].n}
    BY DEF atoi
  <1>4. b[1].type = "text" => atoi(b) \subseteq Nat
    BY ConnectionAssumption DEF atoi
  <1> QED BY <1>2, <1>3, <1>4

(* What a process takes a response for.                                    *)
LEMMA ReadingsTypes ==
  ASSUME NEW r \in Seq(Byte), r # <<>>, NEW kinds \in SUBSET (Requests \cup Replies)
  PROVE  /\ Readings(r, kinds) \subseteq TakenMessages
         /\ r[1].type = "number" => Readings(r, kinds) = {NoMessage}
  <1>1. Messages \subseteq TakenMessages /\ NoMessage \in TakenMessages
    BY DEF Messages, TakenMessages, NoMessage
  <1>2. \A m \in Messages : r = Text(m) => r[1].of = m /\ r[1].type = "text"
    <2> TAKE m \in Messages
    <2>1. m.size \in Nat \ {0}
      BY TextBytes
    <2> QED BY <2>1 DEF Text
  <1>3. CASE \E m \in Messages : r = Text(m)
    <2>1. Readings(r, kinds) = {r[1].of}
      BY <1>3 DEF Readings
    <2>2. r[1].of \in Messages /\ r[1].type = "text"
      BY <1>2, <1>3
    <2> QED BY <1>1, <2>1, <2>2
  <1>4. CASE ~ \E m \in Messages : r = Text(m)
    <2>1. Readings(r, kinds) =
            {NoMessage} \cup
              {[kind |-> k, size |-> 0] : k \in {l \in kinds : r[1].type = "text"}}
      BY <1>4 DEF Readings
    <2>2. \A k \in kinds : [kind |-> k, size |-> 0] \in TakenMessages
      BY DEF TakenMessages
    <2>3. Readings(r, kinds) \subseteq TakenMessages
      BY <1>1, <2>1, <2>2
    <2>4. r[1].type = "number" => {l \in kinds : r[1].type = "text"} = {}
      OBVIOUS
    <2>5. r[1].type = "number" => Readings(r, kinds) = {NoMessage}
      BY <2>1, <2>4
    <2> QED BY <2>3, <2>5
  <1> QED BY <1>3, <1>4

-----------------------------------------------------------------------------
(* Type correctness                                                        *)

LEMMA TypeInit == Init => TypeOK
  <1> SUFFICES ASSUME Init PROVE TypeOK
    OBVIOUS
  <1>1. /\ <<>> \in Seq(Byte) /\ <<>> \in Seq(Messages) /\ <<>> \in Seq(TakenMessages)
        /\ 0 \in 0 .. MaxShort
    BY ConnectionAssumption
  <1>2. /\ pc \in [Process -> Control]
        /\ pc["client"] = "send header" /\ pc["child"] = "receive header"
    <2>1. pc = [client |-> "send header", child |-> "receive header"]
      BY DEF Init
    <2>2. "send header" \in Control /\ "receive header" \in Control
      BY DEF Control
    <2>3. DOMAIN pc = Process /\ pc["client"] = "send header" /\ pc["child"] = "receive header"
      BY <2>1 DEF Process
    <2>4. pc = [p \in Process |-> pc[p]]
      BY <2>1 DEF Process
    <2>5. pc \in [Process -> Control]
      BY <2>2, <2>3, <2>4 DEF Process
    <2> QED BY <2>3, <2>5
  <1>3. ControlOK
    <2>1. PICK m \in Messages :
            m.kind = "validate" /\ out = [client |-> m, child |-> NoMessage]
      BY DEF Init
    <2>2. out \in [Process -> Messages \cup {NoMessage}] /\ out["client"] = m
      BY <2>1 DEF Process
    <2>3. m # NoMessage
      BY <2>1 DEF NoMessage
    <2> QED BY <1>2, <2>2, <2>3 DEF ControlOK, Process
  <1>4. /\ wire = [p \in Process |-> <<>>] /\ got = [p \in Process |-> <<>>]
        /\ left = [p \in Process |-> 0]
        /\ sent = [p \in Process |-> <<>>] /\ taken = [p \in Process |-> <<>>]
        /\ shorts = 0 /\ mode \in {"serving", "rejecting"}
    BY DEF Init
  <1>5. StreamsOK
    BY <1>1, <1>4 DEF StreamsOK
  <1>6. HistoryOK
    BY <1>1, <1>4 DEF HistoryOK
  <1>7. LocalsOK
    <2>1. PICK b \in Unwritten : buffer = [client |-> NoBuffer, child |-> b]
      BY DEF Init
    <2>2. b \in Buffers /\ NoBuffer \in Buffers
      BY NoBufferIsBuffer, UnwrittenBytes
    <2>3. buffer \in [Process -> Buffers]
      BY <2>1, <2>2 DEF Process
    <2>4. left \in [Process -> Int]
      BY <1>4
    <2>5. got \in [Process -> Seq(Byte)]
      BY <1>1, <1>4
    <2> QED BY <2>3, <2>4, <2>5 DEF LocalsOK
  <1>8. ReceivingOK
    BY <1>2 DEF ReceivingOK, Process
  <1> QED BY <1>3, <1>5, <1>6, <1>7, <1>8, TypeParts

(* A send to the other process.                                            *)
LEMMA TransmitTypes ==
  ASSUME StreamsOK, NEW p \in Process, NEW bytes \in Seq(Byte), Transmit(p, bytes)
  PROVE  wire' \in [Process -> Seq(Byte)]
  <1>1. Other[p] \in Process
    BY DEF Process, Other
  <1>2. wire[Other[p]] \o bytes \in Seq(Byte) /\ <<>> \in Seq(Byte)
    BY <1>1, ConcatProperties DEF StreamsOK
  <1> QED BY <1>1, <1>2 DEF StreamsOK, Transmit

(* Entering and leaving receive_response.                                  *)
LEMMA ReceiveTypes ==
  ASSUME LocalsOK, NEW p \in Process, Receive(p) \/ Forget(p)
  PROVE  /\ LocalsOK'
         /\ \A q \in Process \ {p} : left'[q] = left[q] /\ got'[q] = got[q]
  <1>1. PICK b \in Buffers : buffer' = [buffer EXCEPT ![p] = b]
    BY NoBufferIsBuffer, UnwrittenBytes DEF Receive, Forget
  <1>2. /\ left' = [left EXCEPT ![p] = 0] /\ got' = [got EXCEPT ![p] = <<>>]
    BY DEF Receive, Forget
  <1>3. <<>> \in Seq(Byte)
    OBVIOUS
  <1> QED BY <1>1, <1>2, <1>3 DEF LocalsOK

LEMMA TypeSendHeader ==
  ASSUME TypeOK, NEW p \in Process, SendHeader(p)
  PROVE  TypeOK'
  <1>1. ControlOK /\ StreamsOK /\ LocalsOK /\ ReceivingOK /\ HistoryOK
    BY TypeParts
  <1>2. out[p] \in Messages
    BY <1>1 DEF ControlOK, SendHeader
  <1>3. out[p].size \in Nat
    BY <1>2, TextBytes
  <1>4. wire' \in [Process -> Seq(Byte)]
    BY <1>1, <1>3, HeaderBytes, TransmitTypes DEF SendHeader
  <1>5. ControlOK'
    BY <1>1, <1>2 DEF SendHeader, ControlOK, Control
  <1>6. StreamsOK' /\ LocalsOK' /\ HistoryOK'
    BY <1>1, <1>4 DEF SendHeader, StreamsOK, LocalsOK, HistoryOK, history
  <1>7. ReceivingOK'
    BY <1>1 DEF SendHeader, ReceivingOK, ControlOK
  <1> QED BY <1>5, <1>6, <1>7, TypePartsPrime

LEMMA TypeSendBlock ==
  ASSUME TypeOK, NEW p \in Process, SendBlock(p)
  PROVE  TypeOK'
  <1>1. ControlOK /\ StreamsOK /\ LocalsOK /\ ReceivingOK /\ HistoryOK
    BY TypeParts
  <1>2. out[p] \in Messages
    BY <1>1 DEF ControlOK, SendBlock
  <1>3. wire' \in [Process -> Seq(Byte)]
    BY <1>1, <1>2, TextBytes, TransmitTypes DEF SendBlock
  <1>4. PICK next \in {"leaving", "receive header"} : pc' = [pc EXCEPT ![p] = next]
    BY DEF SendBlock
  <1>5. ControlOK'
    BY <1>1, <1>4 DEF SendBlock, ControlOK, Control
  <1>6. LocalsOK' /\ \A q \in Process \ {p} : left'[q] = left[q] /\ got'[q] = got[q]
    <2>1. CASE Receive(p)
      BY <1>1, <2>1, ReceiveTypes
    <2>2. CASE UNCHANGED <<buffer, left, got>>
      BY <1>1, <2>2 DEF LocalsOK
    <2> QED BY <2>1, <2>2 DEF SendBlock
  <1>7. sent' \in [Process -> Seq(Messages)]
    <2>1. sent' = [sent EXCEPT ![p] = Append(sent[p], out[p])]
      BY DEF SendBlock
    <2>2. Append(sent[p], out[p]) \in Seq(Messages)
      BY <1>1, <1>2, AppendProperties DEF HistoryOK
    <2> QED BY <1>1, <2>1, <2>2 DEF HistoryOK
  <1>8. HistoryOK' /\ StreamsOK'
    BY <1>1, <1>3, <1>7 DEF SendBlock, HistoryOK, StreamsOK
  <1>9. ReceivingOK'
    BY <1>1, <1>4, <1>6 DEF ReceivingOK, ControlOK
  <1> QED BY <1>5, <1>6, <1>8, <1>9, TypePartsPrime

LEMMA TypeBrokenPipe ==
  ASSUME TypeOK, NEW p \in Process, BrokenPipe(p)
  PROVE  TypeOK'
  <1>1. ControlOK /\ StreamsOK /\ LocalsOK /\ ReceivingOK /\ HistoryOK
    BY TypeParts
  <1>2. ControlOK' /\ ReceivingOK'
    BY <1>1 DEF BrokenPipe, ControlOK, Control, ReceivingOK, streams
  <1>3. StreamsOK' /\ LocalsOK' /\ HistoryOK'
    BY <1>1 DEF BrokenPipe, StreamsOK, LocalsOK, HistoryOK, streams, history
  <1> QED BY <1>2, <1>3, TypePartsPrime

(* A send that fails ends the turn in one of three ways.                   *)
LEMMA SendFailsMoves ==
  ASSUME ControlOK, NEW p \in Process, SendFails(p)
  PROVE  /\ pc[p] \in {"send header", "send block"} /\ pc[Other[p]] = "closed"
         /\ out' = [out EXCEPT ![p] = NoMessage]
         /\ UNCHANGED <<mode, wire, history>>
         /\ \/ /\ pc' = [pc EXCEPT ![p] = "leaving"]
               /\ UNCHANGED <<buffer, left, got>>
            \/ /\ p = "client" /\ pc' = [pc EXCEPT ![p] = "prompt"]
               /\ UNCHANGED <<buffer, left, got>>
            \/ pc' = [pc EXCEPT ![p] = "receive header"] /\ Receive(p)
  BY DEF SendFails, Open

LEMMA TypeSendFails ==
  ASSUME TypeOK, NEW p \in Process, SendFails(p)
  PROVE  TypeOK'
  <1>1. ControlOK /\ StreamsOK /\ LocalsOK /\ ReceivingOK /\ HistoryOK
    BY TypeParts
  <1>2. PICK next \in {"leaving", "prompt", "receive header"} :
          pc' = [pc EXCEPT ![p] = next]
    BY <1>1, SendFailsMoves
  <1>3. out' = [out EXCEPT ![p] = NoMessage] /\ UNCHANGED <<mode, wire, history>>
    BY <1>1, SendFailsMoves
  <1>4. ControlOK'
    BY <1>1, <1>2, <1>3 DEF ControlOK, Control
  <1>5. LocalsOK' /\ \A q \in Process \ {p} : left'[q] = left[q] /\ got'[q] = got[q]
    <2>1. CASE Receive(p)
      BY <1>1, <2>1, ReceiveTypes
    <2>2. CASE UNCHANGED <<buffer, left, got>>
      BY <1>1, <2>2 DEF LocalsOK
    <2> QED BY <1>1, <2>1, <2>2, SendFailsMoves
  <1>6. StreamsOK' /\ HistoryOK'
    BY <1>1, <1>3 DEF StreamsOK, HistoryOK, history
  <1>7. ReceivingOK'
    BY <1>1, <1>2, <1>5 DEF ReceivingOK, ControlOK
  <1> QED BY <1>4, <1>5, <1>6, <1>7, TypePartsPrime

(* What a turn of the second loop appends: at least one byte of the buffer.*)
LEMMA BlockBytes ==
  ASSUME NEW b \in Buffers, NEW l \in Int, l > 0, NEW r \in Seq(Byte)
  PROVE  LET n == Least(l, RCV_BUF_SIZE)
         IN  /\ n \in Nat \ {0} /\ n <= RCV_BUF_SIZE
             /\ r \o SubSeq(b, 1, n) \in Seq(Byte)
             /\ r \o SubSeq(b, 1, n) # <<>>
             /\ (r \o SubSeq(b, 1, n))[1] = IF r = <<>> THEN b[1] ELSE r[1]
  <1> DEFINE n == Least(l, RCV_BUF_SIZE)
             part == SubSeq(b, 1, n)
  <1>1. n \in Nat \ {0} /\ n <= RCV_BUF_SIZE
    BY ConnectionAssumption DEF Least
  <1>2. \A i \in 1 .. n : b[i] \in Byte
    BY <1>1, ConnectionAssumption DEF Buffers
  <1> HIDE DEF n
  <1>3. /\ part \in Seq(Byte) /\ Len(part) = n
        /\ \A i \in 1 .. n - 1 + 1 : part[i] = b[1 + i - 1]
    BY <1>1, <1>2, SubSeqProperties
  <1>4. part[1] = b[1]
    BY <1>1, <1>3
  <1> HIDE DEF part
  <1>5. Len(r) \in Nat /\ (r = <<>> <=> Len(r) = 0)
    BY LenProperties, EmptySeq
  <1>6. /\ r \o part \in Seq(Byte) /\ Len(r \o part) = Len(r) + n
        /\ \A i \in 1 .. Len(r) + n :
             (r \o part)[i] = IF i <= Len(r) THEN r[i] ELSE part[i - Len(r)]
    BY <1>3, ConcatProperties
  <1>7. r \o part # <<>>
    BY <1>1, <1>5, <1>6, EmptySeq
  <1>8. (r \o part)[1] = IF r = <<>> THEN b[1] ELSE r[1]
    BY <1>1, <1>4, <1>5, <1>6
  <1> QED BY <1>1, <1>6, <1>7, <1>8 DEF n, part

LEMMA TypeReceiveHeader ==
  ASSUME TypeOK, NEW p \in Process, ReceiveHeader(p)
  PROVE  TypeOK'
  <1>1. ControlOK /\ StreamsOK /\ LocalsOK /\ ReceivingOK /\ HistoryOK
    BY TypeParts
  <1>2. StreamsOK' /\ buffer' \in [Process -> Buffers]
    <2>1. RCV_BUF_SIZE \in Nat /\ RCV_BUF_SIZE <= RCV_BUF_SIZE
      BY ConnectionAssumption
    <2>2. recv(p, RCV_BUF_SIZE)
      BY DEF ReceiveHeader
    <2> QED BY <2>1, <2>2, RecvTypes
  <1>3. PICK n \in atoi(buffer'[p]) :
          /\ left' = [left EXCEPT ![p] = n]
          /\ pc' = [pc EXCEPT ![p] = IF n > 0 THEN "receive block" ELSE pc[p]]
    BY DEF ReceiveHeader
  <1>4. n \in Nat
    BY <1>2, <1>3, AtoiIsNat
  <1>5. LocalsOK'
    <2>1. left' \in [Process -> Int]
      <3>1. left \in [Process -> Int] /\ n \in Int
        BY <1>1, <1>4 DEF LocalsOK
      <3> QED BY <1>3, <3>1, Updated
    <2>2. got' \in [Process -> Seq(Byte)]
      BY <1>1 DEF ReceiveHeader, LocalsOK
    <2> QED BY <1>2, <2>1, <2>2 DEF LocalsOK
  <1>6. ControlOK'
    BY <1>1, <1>3 DEF ReceiveHeader, ControlOK, Control
  <1>7. ReceivingOK'
    BY <1>1, <1>3, <1>4 DEF ReceiveHeader, ReceivingOK, ControlOK, LocalsOK
  <1>8. HistoryOK'
    BY <1>1 DEF ReceiveHeader, HistoryOK
  <1> QED BY <1>2, <1>5, <1>6, <1>7, <1>8, TypePartsPrime

LEMMA TypeReceiveBlock ==
  ASSUME TypeOK, NEW p \in Process, ReceiveBlock(p)
  PROVE  TypeOK'
  <1> DEFINE n == Least(left[p], RCV_BUF_SIZE)
             more == got[p] \o SubSeq(buffer'[p], 1, n)
  <1>1. ControlOK /\ StreamsOK /\ LocalsOK /\ ReceivingOK /\ HistoryOK
    BY TypeParts
  <1>2. left[p] \in Int /\ left[p] > 0 /\ got[p] \in Seq(Byte)
    BY <1>1 DEF LocalsOK, ReceivingOK, ReceiveBlock
  <1>3. n \in Nat /\ n <= RCV_BUF_SIZE
    BY <1>2, ConnectionAssumption DEF Least
  <1>4. StreamsOK' /\ buffer' \in [Process -> Buffers]
    <2>1. recv(p, n)
      BY DEF ReceiveBlock
    <2> HIDE DEF n
    <2> QED BY <1>3, <2>1, RecvTypes
  <1>5. more \in Seq(Byte) /\ more # <<>>
    <2>1. buffer'[p] \in Buffers
      BY <1>4
    <2> QED BY <1>2, <2>1, BlockBytes
  <1>6. /\ got' = [got EXCEPT ![p] = more]
        /\ left' = [left EXCEPT ![p] = left[p] - RCV_BUF_SIZE]
        /\ pc' = [pc EXCEPT ![p] = IF left'[p] > 0 THEN pc[p] ELSE "handle"]
        /\ pc[p] = "receive block"
        /\ UNCHANGED <<mode, out, sent, taken>>
    BY DEF ReceiveBlock
  <1> HIDE DEF more
  <1>7. LocalsOK'
    <2>1. left' \in [Process -> Int]
      <3>1. left \in [Process -> Int] /\ left[p] - RCV_BUF_SIZE \in Int
        BY <1>1, <1>2, ConnectionAssumption DEF LocalsOK
      <3> QED BY <1>6, <3>1, Updated
    <2>2. got' \in [Process -> Seq(Byte)]
      BY <1>1, <1>5, <1>6 DEF LocalsOK
    <2> QED BY <1>4, <2>1, <2>2 DEF LocalsOK
  <1>8. ControlOK'
    BY <1>1, <1>6 DEF ControlOK, Control
  <1>9. ReceivingOK'
    BY <1>1, <1>5, <1>6 DEF ReceivingOK, ControlOK, LocalsOK
  <1>10. HistoryOK'
    BY <1>1, <1>6 DEF HistoryOK
  <1> QED BY <1>4, <1>7, <1>8, <1>9, <1>10, TypePartsPrime

(* What a process has made of a response is added to what it has taken.    *)
LEMMA TakenTypes ==
  ASSUME HistoryOK, NEW p \in Process, NEW m \in TakenMessages,
         taken' = [taken EXCEPT ![p] = Append(taken[p], m)], UNCHANGED <<mode, sent>>
  PROVE  HistoryOK'
  <1>1. Append(taken[p], m) \in Seq(TakenMessages)
    BY AppendProperties DEF HistoryOK
  <1> QED BY <1>1 DEF HistoryOK

LEMMA TypeHandleReply ==
  ASSUME TypeOK, HandleReply
  PROVE  TypeOK'
  <1>1. ControlOK /\ StreamsOK /\ LocalsOK /\ ReceivingOK /\ HistoryOK
    BY TypeParts
  <1>2. "client" \in Process
    BY DEF Process
  <1>3. got["client"] \in Seq(Byte) /\ got["client"] # <<>>
    BY <1>1, <1>2 DEF LocalsOK, ReceivingOK, HandleReply
  <1>4. PICK m \in Readings(got["client"], Replies) :
          /\ taken' = [taken EXCEPT !["client"] = Append(taken["client"], m)]
          /\ pc' = [pc EXCEPT !["client"] =
                      IF m.kind \in {"valid", "done"} THEN "prompt" ELSE "leaving"]
    BY DEF HandleReply
  <1>5. m \in TakenMessages
    BY <1>3, <1>4, ReadingsTypes
  <1>6. HistoryOK'
    BY <1>1, <1>2, <1>4, <1>5, TakenTypes DEF HandleReply
  <1>7. LocalsOK' /\ \A q \in Process \ {"client"} : left'[q] = left[q] /\ got'[q] = got[q]
    BY <1>1, <1>2, ReceiveTypes DEF HandleReply
  <1>8. PICK next \in {"prompt", "leaving"} : pc' = [pc EXCEPT !["client"] = next]
    BY <1>4
  <1>9. ControlOK' /\ StreamsOK'
    BY <1>1, <1>8 DEF HandleReply, ControlOK, Control, StreamsOK
  <1>10. ReceivingOK'
    BY <1>1, <1>2, <1>7, <1>8 DEF ReceivingOK, ControlOK
  <1> QED BY <1>6, <1>7, <1>9, <1>10, TypePartsPrime

LEMMA TypeHandleRequest ==
  ASSUME TypeOK, HandleRequest
  PROVE  TypeOK'
  <1>1. ControlOK /\ StreamsOK /\ LocalsOK /\ ReceivingOK /\ HistoryOK
    BY TypeParts
  <1>2. "child" \in Process
    BY DEF Process
  <1>3. got["child"] \in Seq(Byte) /\ got["child"] # <<>>
    BY <1>1, <1>2 DEF LocalsOK, ReceivingOK, HandleRequest
  <1>4. PICK m \in Readings(got["child"], Requests) :
          /\ taken' = [taken EXCEPT !["child"] = Append(taken["child"], m)]
          /\ IF m.kind \in {"exit", "none"}
               THEN pc' = [pc EXCEPT !["child"] = "leaving"] /\ UNCHANGED out
               ELSE \E reply \in {r \in Messages : r.kind \in Answers(m.kind)} :
                      Send("child", reply)
    BY DEF HandleRequest
  <1>5. m \in TakenMessages
    BY <1>3, <1>4, ReadingsTypes
  <1>6. HistoryOK'
    BY <1>1, <1>2, <1>4, <1>5, TakenTypes DEF HandleRequest
  <1>7. LocalsOK' /\ \A q \in Process \ {"child"} : left'[q] = left[q] /\ got'[q] = got[q]
    BY <1>1, <1>2, ReceiveTypes DEF HandleRequest
  <1>8. StreamsOK'
    BY <1>1 DEF HandleRequest, StreamsOK
  <1>9. CASE pc' = [pc EXCEPT !["child"] = "leaving"] /\ UNCHANGED out
    <2>1. ControlOK'
      BY <1>1, <1>9 DEF ControlOK, Control
    <2>2. ReceivingOK'
      BY <1>1, <1>2, <1>7, <1>9 DEF ReceivingOK, ControlOK
    <2> QED BY <1>6, <1>7, <1>8, <2>1, <2>2, TypePartsPrime
  <1>10. CASE \E reply \in Messages : Send("child", reply)
    <2>1. PICK reply \in Messages : Send("child", reply)
      BY <1>10
    <2>2. reply # NoMessage
      BY <2>1 DEF Messages, NoMessage, Requests, Replies
    <2>3. ControlOK'
      BY <1>1, <2>1, <2>2 DEF Send, ControlOK, Control
    <2>4. ReceivingOK'
      BY <1>1, <1>2, <1>7, <2>1 DEF Send, ReceivingOK, ControlOK
    <2> QED BY <1>6, <1>7, <1>8, <2>3, <2>4, TypePartsPrime
  <1> QED BY <1>4, <1>9, <1>10

LEMMA TypeCommand ==
  ASSUME TypeOK, NEW m \in Messages, Command(m)
  PROVE  TypeOK'
  <1>1. ControlOK /\ StreamsOK /\ LocalsOK /\ ReceivingOK /\ HistoryOK
    BY TypeParts
  <1>2. m # NoMessage
    BY DEF Messages, NoMessage, Requests, Replies
  <1>3. ControlOK'
    BY <1>1, <1>2 DEF Command, Send, ControlOK, Control
  <1>4. ReceivingOK'
    BY <1>1 DEF Command, Send, ReceivingOK, ControlOK
  <1>5. StreamsOK' /\ LocalsOK' /\ HistoryOK'
    BY <1>1 DEF Command, StreamsOK, LocalsOK, HistoryOK, history
  <1> QED BY <1>3, <1>4, <1>5, TypePartsPrime

LEMMA TypeClosed ==
  ASSUME TypeOK, NEW p \in Process, Closed(p)
  PROVE  TypeOK'
  <1>1. ControlOK /\ StreamsOK /\ LocalsOK /\ ReceivingOK /\ HistoryOK
    BY TypeParts
  <1>2. ControlOK'
    BY <1>1 DEF Closed, ControlOK, Control
  <1>3. wire' \in [Process -> Seq(Byte)]
    <2>1. <<>> \in Seq(Byte)
      OBVIOUS
    <2>2. wire' = [wire EXCEPT ![p] = <<>>] \/ wire' = [q \in Process |-> <<>>]
      BY DEF Closed
    <2> QED BY <1>1, <2>1, <2>2 DEF StreamsOK
  <1>4. LocalsOK' /\ \A q \in Process \ {p} : left'[q] = left[q] /\ got'[q] = got[q]
    BY <1>1, ReceiveTypes DEF Closed
  <1>5. ReceivingOK'
    BY <1>1, <1>4 DEF Closed, ReceivingOK, ControlOK
  <1>6. StreamsOK' /\ HistoryOK'
    BY <1>1, <1>3 DEF Closed, StreamsOK, HistoryOK, history
  <1> QED BY <1>2, <1>4, <1>5, <1>6, TypePartsPrime

LEMMA TypeStep == TypeOK /\ [Next]_vars => TypeOK'
  <1> SUFFICES ASSUME TypeOK, [Next]_vars PROVE TypeOK'
    OBVIOUS
  <1>1. ASSUME NEW p \in Process, SendHeader(p) PROVE TypeOK'
    BY <1>1, TypeSendHeader
  <1>2. ASSUME NEW p \in Process, SendBlock(p) PROVE TypeOK'
    BY <1>2, TypeSendBlock
  <1>3. ASSUME NEW p \in Process, BrokenPipe(p) PROVE TypeOK'
    BY <1>3, TypeBrokenPipe
  <1>11. ASSUME NEW p \in Process, SendFails(p) PROVE TypeOK'
    BY <1>11, TypeSendFails
  <1>4. ASSUME NEW p \in Process, ReceiveHeader(p) PROVE TypeOK'
    BY <1>4, TypeReceiveHeader
  <1>5. ASSUME NEW p \in Process, ReceiveBlock(p) PROVE TypeOK'
    BY <1>5, TypeReceiveBlock
  <1>6. ASSUME NEW p \in Process, Close(p) \/ Die(p) PROVE TypeOK'
    BY <1>6, TypeClosed DEF Close, Die
  <1>7. ASSUME HandleReply PROVE TypeOK'
    BY <1>7, TypeHandleReply
  <1>8. ASSUME HandleRequest PROVE TypeOK'
    BY <1>8, TypeHandleRequest
  <1>9. ASSUME NEW m \in Messages, Command(m) PROVE TypeOK'
    BY <1>9, TypeCommand
  <1>10. ASSUME UNCHANGED vars PROVE TypeOK'
    BY <1>10 DEF vars, streams, history, TypeOK
  <1> QED
    BY <1>1, <1>2, <1>3, <1>4, <1>5, <1>6, <1>7, <1>8, <1>9, <1>10, <1>11 DEF Next, Step

(* Whatever the sizes and however many recv are short, what the processes  *)
(* hold has its type: no array is used outside its bounds, and nothing is  *)
(* handled before something has been received (ttweet_common.c:69).        *)
THEOREM TypeCorrect == Spec => []TypeOK
  BY TypeInit, TypeStep, PTL DEF Spec

-----------------------------------------------------------------------------
(* A client whose child is gone                                            *)

(* Nothing has been put into response before the header has been read.     *)
HeaderFirst == \A p \in Process : pc[p] = "receive header" => got[p] = <<>>

LEMMA HeaderFirstStep ==
  ASSUME TypeOK, HeaderFirst, [Next]_vars
  PROVE  HeaderFirst'
  <1>1. ControlOK /\ LocalsOK
    BY TypeParts
  <1>2. ASSUME NEW p \in Process, SendHeader(p) PROVE HeaderFirst'
    BY <1>1, <1>2 DEF SendHeader, HeaderFirst, ControlOK
  <1>3. ASSUME NEW p \in Process, SendBlock(p) PROVE HeaderFirst'
    <2>1. PICK next \in {"leaving", "receive header"} : pc' = [pc EXCEPT ![p] = next]
      BY <1>3 DEF SendBlock
    <2>2. CASE Receive(p)
      BY <1>1, <2>1, <2>2 DEF Receive, HeaderFirst, ControlOK, LocalsOK
    <2>3. CASE next = "leaving" /\ UNCHANGED got
      BY <1>1, <2>1, <2>3 DEF HeaderFirst, ControlOK
    <2>4. Receive(p) \/ (pc' = [pc EXCEPT ![p] = "leaving"] /\ UNCHANGED got)
      BY <1>3 DEF SendBlock
    <2>5. CASE pc' = [pc EXCEPT ![p] = "leaving"] /\ UNCHANGED got
      BY <1>1, <2>5 DEF HeaderFirst, ControlOK
    <2> QED BY <2>2, <2>4, <2>5
  <1>4. ASSUME NEW p \in Process, BrokenPipe(p) PROVE HeaderFirst'
    BY <1>1, <1>4 DEF BrokenPipe, streams, HeaderFirst, ControlOK
  <1>12. ASSUME NEW p \in Process, SendFails(p) PROVE HeaderFirst'
    <2>1. CASE Receive(p)
      <3>1. got' = [got EXCEPT ![p] = <<>>]
        BY <2>1 DEF Receive
      <3>2. PICK next \in Control : pc' = [pc EXCEPT ![p] = next]
        BY <1>1, <1>12, SendFailsMoves DEF Control
      <3> QED BY <1>1, <3>1, <3>2 DEF HeaderFirst, ControlOK, LocalsOK
    <2>2. CASE got' = got /\ \E next \in {"leaving", "prompt"} : pc' = [pc EXCEPT ![p] = next]
      BY <1>1, <2>2 DEF HeaderFirst, ControlOK
    <2> QED BY <1>1, <1>12, <2>1, <2>2, SendFailsMoves
  <1>5. ASSUME NEW p \in Process, ReceiveHeader(p) PROVE HeaderFirst'
    BY <1>1, <1>5 DEF ReceiveHeader, HeaderFirst, ControlOK
  <1>6. ASSUME NEW p \in Process, ReceiveBlock(p) PROVE HeaderFirst'
    <2>1. /\ pc[p] = "receive block"
          /\ pc' = [pc EXCEPT ![p] = IF left'[p] > 0 THEN pc[p] ELSE "handle"]
          /\ \A q \in Process \ {p} : got'[q] = got[q]
      BY <1>1, <1>6 DEF ReceiveBlock, LocalsOK
    <2> QED BY <1>1, <2>1 DEF HeaderFirst, ControlOK
  <1>7. ASSUME NEW p \in Process, Close(p) \/ Die(p) PROVE HeaderFirst'
    BY <1>1, <1>7 DEF Close, Die, Closed, Forget, HeaderFirst, ControlOK, LocalsOK
  <1>8. ASSUME HandleReply PROVE HeaderFirst'
    <2>1. PICK next \in {"prompt", "leaving"} : pc' = [pc EXCEPT !["client"] = next]
      BY <1>8 DEF HandleReply
    <2> QED BY <1>1, <1>8, <2>1 DEF HandleReply, Forget, HeaderFirst, ControlOK, LocalsOK
  <1>9. ASSUME HandleRequest PROVE HeaderFirst'
    <2>1. PICK next \in {"send header", "leaving"} : pc' = [pc EXCEPT !["child"] = next]
      BY <1>9 DEF HandleRequest, Send
    <2> QED BY <1>1, <1>9, <2>1 DEF HandleRequest, Forget, HeaderFirst, ControlOK, LocalsOK
  <1>10. ASSUME NEW m \in Messages, Command(m) PROVE HeaderFirst'
    BY <1>1, <1>10 DEF Command, Send, HeaderFirst, ControlOK
  <1>11. ASSUME UNCHANGED vars PROVE HeaderFirst'
    BY <1>11 DEF vars, streams, HeaderFirst
  <1> QED
    BY <1>2, <1>3, <1>4, <1>5, <1>6, <1>7, <1>8, <1>9, <1>10, <1>11, <1>12 DEF Next, Step

(* Nothing is on its way to a process that is gone.                        *)
GoneIsDeaf == \A p \in Process : pc[p] = "closed" => wire[p] = <<>>

LEMMA GoneIsDeafStep ==
  ASSUME TypeOK, GoneIsDeaf, [Next]_vars
  PROVE  GoneIsDeaf'
  <1>1. ControlOK /\ StreamsOK /\ \A p \in Process : Other[p] \in Process /\ Other[p] # p
    BY TypeParts DEF Process, Other
  <1>2. ASSUME NEW p \in Process, NEW next \in Control \ {"closed"},
               pc' = [pc EXCEPT ![p] = next], wire' = wire
        PROVE  GoneIsDeaf'
    BY <1>1, <1>2 DEF GoneIsDeaf, ControlOK
  <1>3. ASSUME NEW p \in Process, NEW next \in Control \ {"closed"}, NEW bytes,
               pc' = [pc EXCEPT ![p] = next], Transmit(p, bytes)
        PROVE  GoneIsDeaf'
    BY <1>1, <1>3 DEF GoneIsDeaf, ControlOK, StreamsOK, Transmit, Open
  <1>4. ASSUME NEW p \in Process, SendHeader(p) \/ SendBlock(p) PROVE GoneIsDeaf'
    <2>1. PICK next \in {"send block", "leaving", "receive header"} :
            pc' = [pc EXCEPT ![p] = next]
      BY <1>4 DEF SendHeader, SendBlock
    <2>2. next \in Control \ {"closed"}
      BY DEF Control
    <2> QED BY <1>3, <1>4, <2>1, <2>2 DEF SendHeader, SendBlock
  <1>5. ASSUME NEW p \in Process, BrokenPipe(p) \/ SendFails(p) PROVE GoneIsDeaf'
    <2>1. PICK next \in {"leaving", "prompt", "receive header"} :
            pc' = [pc EXCEPT ![p] = next]
      BY <1>1, <1>5, SendFailsMoves DEF BrokenPipe
    <2>2. next \in Control \ {"closed"} /\ wire' = wire
      BY <1>5 DEF Control, BrokenPipe, SendFails, streams
    <2> QED BY <1>2, <2>1, <2>2
  <1>6. ASSUME NEW p \in Process, ReceiveHeader(p) \/ ReceiveBlock(p) PROVE GoneIsDeaf'
    <2>1. /\ pc[p] # "closed"
          /\ \E next \in {"receive header", "receive block", "handle"} :
               pc' = [pc EXCEPT ![p] = next]
          /\ \E n : recv(p, n)
      BY <1>6 DEF ReceiveHeader, ReceiveBlock
    <2>2. \A q \in Process \ {p} : wire'[q] = wire[q]
      BY <1>1, <2>1 DEF recv, StreamsOK
    <2> QED BY <1>1, <2>1, <2>2 DEF GoneIsDeaf, ControlOK
  <1>7. ASSUME NEW p \in Process, Close(p) \/ Die(p) PROVE GoneIsDeaf'
    <2>1. /\ pc' = [pc EXCEPT ![p] = "closed"]
          /\ wire' = [wire EXCEPT ![p] = <<>>] \/ wire' = [q \in Process |-> <<>>]
      BY <1>7 DEF Close, Die, Closed
    <2> QED BY <1>1, <2>1 DEF GoneIsDeaf, ControlOK, StreamsOK
  <1>8. ASSUME HandleReply \/ HandleRequest PROVE GoneIsDeaf'
    <2>1. PICK p \in Process, next \in {"prompt", "send header", "leaving"} :
            pc' = [pc EXCEPT ![p] = next]
      BY <1>8 DEF HandleReply, HandleRequest, Send, Process
    <2>2. next \in Control \ {"closed"} /\ wire' = wire
      BY <1>8 DEF Control, HandleReply, HandleRequest
    <2> QED BY <1>2, <2>1, <2>2
  <1>9. ASSUME NEW m \in Messages, Command(m) PROVE GoneIsDeaf'
    BY <1>2, <1>9 DEF Command, Send, Control, Process
  <1>10. ASSUME UNCHANGED vars PROVE GoneIsDeaf'
    BY <1>10 DEF vars, streams, GoneIsDeaf
  <1> QED
    BY <1>4, <1>5, <1>6, <1>7, <1>8, <1>9, <1>10 DEF Next, Step

(* What follows for a stranded client: it reads the number in its array    *)
(* again and again, for the size and for the text, which then begins with  *)
(* a number and is no message, and it dies of that.                        *)
Lost ==
  /\ pc["child"] = "closed" /\ wire["client"] = <<>>
  /\ \/ pc["client"] \in {"leaving", "closed"}
     \/ pc["client"] = "receive header" /\ buffer["client"][1].type = "number"
     \/ /\ pc["client"] = "receive block" /\ buffer["client"][1].type = "number"
        /\ got["client"] = <<>> \/ got["client"][1].type = "number"
     \/ pc["client"] = "handle" /\ got["client"][1].type = "number"

LEMMA LostReceiveHeader ==
  ASSUME TypeOK, HeaderFirst, Lost, ReceiveHeader("client")
  PROVE  Lost'
  <1>1. ControlOK /\ LocalsOK /\ "client" \in Process
    BY TypeParts DEF Process
  <1>2. wire' = wire /\ buffer' = buffer
    <2>1. RCV_BUF_SIZE \in Nat /\ RCV_BUF_SIZE <= RCV_BUF_SIZE
      BY ConnectionAssumption
    <2>2. recv("client", RCV_BUF_SIZE) /\ wire["client"] = <<>>
      BY DEF ReceiveHeader, Lost
    <2> QED BY <1>1, <2>1, <2>2, RecvTypes
  <1>3. got' = got /\ got["client"] = <<>> /\ buffer["client"][1].type = "number"
    BY <1>1 DEF ReceiveHeader, HeaderFirst, Lost
  <1>4. PICK next \in {"receive header", "receive block"} :
          pc' = [pc EXCEPT !["client"] = next]
    BY <1>1 DEF ReceiveHeader, ControlOK
  <1>5. pc'["client"] \in {"receive header", "receive block"} /\ pc'["child"] = "closed"
    BY <1>1, <1>4 DEF ControlOK, Lost, Process
  <1> QED BY <1>2, <1>3, <1>5 DEF Lost

LEMMA LostReceiveBlock ==
  ASSUME TypeOK, Lost, ReceiveBlock("client")
  PROVE  Lost'
  <1> DEFINE n == Least(left["client"], RCV_BUF_SIZE)
             more == got["client"] \o SubSeq(buffer["client"], 1, n)
  <1>1. ControlOK /\ LocalsOK /\ ReceivingOK /\ "client" \in Process
    BY TypeParts DEF Process
  <1>2. /\ left["client"] \in Int /\ left["client"] > 0
        /\ got["client"] \in Seq(Byte) /\ buffer["client"] \in Buffers
    BY <1>1 DEF LocalsOK, ReceivingOK, ReceiveBlock
  <1>3. n \in Nat /\ n <= RCV_BUF_SIZE
    BY <1>2, ConnectionAssumption DEF Least
  <1>4. wire' = wire /\ buffer' = buffer
    <2>1. recv("client", n) /\ wire["client"] = <<>>
      BY DEF ReceiveBlock, Lost
    <2> HIDE DEF n
    <2> QED BY <1>1, <1>3, <2>1, RecvTypes
  <1>5. more[1] = IF got["client"] = <<>> THEN buffer["client"][1] ELSE got["client"][1]
    <2>1. ASSUME NEW b \in Buffers, NEW l \in Int, l > 0, NEW r \in Seq(Byte)
          PROVE  (r \o SubSeq(b, 1, Least(l, RCV_BUF_SIZE)))[1] =
                   IF r = <<>> THEN b[1] ELSE r[1]
      BY <2>1, BlockBytes
    <2> QED BY <1>2, <2>1
  <1>6. got' = [got EXCEPT !["client"] = more]
    BY <1>4 DEF ReceiveBlock
  <1> HIDE DEF more
  <1>7. /\ buffer["client"][1].type = "number"
        /\ got["client"] = <<>> \/ got["client"][1].type = "number"
    BY DEF ReceiveBlock, Lost
  <1>8. got'["client"][1].type = "number"
    BY <1>1, <1>5, <1>6, <1>7 DEF LocalsOK
  <1>9. PICK next \in {"receive block", "handle"} : pc' = [pc EXCEPT !["client"] = next]
    BY <1>1 DEF ReceiveBlock, ControlOK
  <1>10. pc'["client"] \in {"receive block", "handle"} /\ pc'["child"] = "closed"
    BY <1>1, <1>9 DEF ControlOK, Lost, Process
  <1> QED BY <1>4, <1>7, <1>8, <1>10 DEF Lost

LEMMA LostStep ==
  ASSUME TypeOK, HeaderFirst, Lost, [Next]_vars
  PROVE  Lost'
  <1>1. ControlOK /\ LocalsOK /\ ReceivingOK /\ StreamsOK
        /\ "client" \in Process /\ "child" \in Process
    BY TypeParts DEF Process
  <1>2. /\ pc["child"] = "closed" /\ wire["client"] = <<>>
        /\ pc["client"] \in {"leaving", "closed", "receive header", "receive block", "handle"}
    BY DEF Lost
  <1>3. ASSUME NEW p \in Process,
               SendHeader(p) \/ SendBlock(p) \/ BrokenPipe(p) \/ SendFails(p)
        PROVE FALSE
    BY <1>2, <1>3 DEF SendHeader, SendBlock, BrokenPipe, SendFails, Process
  <1>4. ASSUME NEW p \in Process, ReceiveHeader(p) PROVE Lost'
    <2>1. p = "client"
      BY <1>2, <1>4 DEF ReceiveHeader, Process
    <2> QED BY <1>4, <2>1, LostReceiveHeader
  <1>5. ASSUME NEW p \in Process, ReceiveBlock(p) PROVE Lost'
    <2>1. p = "client"
      BY <1>2, <1>5 DEF ReceiveBlock, Process
    <2> QED BY <1>5, <2>1, LostReceiveBlock
  <1>6. ASSUME NEW p \in Process, Close(p) \/ Die(p) PROVE Lost'
    <2>1. p = "client"
      BY <1>2, <1>6 DEF Close, Die, Open, Process
    <2>2. pc' = [pc EXCEPT !["client"] = "closed"]
      BY <1>6, <2>1 DEF Close, Die, Closed
    <2>3. wire' = [wire EXCEPT !["client"] = <<>>] \/ wire' = [q \in Process |-> <<>>]
      BY <1>6, <2>1 DEF Close, Die, Closed
    <2>4. wire'["client"] = <<>>
      BY <1>1, <2>3 DEF StreamsOK
    <2>5. pc'["client"] = "closed" /\ pc'["child"] = "closed"
      BY <1>1, <1>2, <2>2 DEF ControlOK
    <2> QED BY <2>4, <2>5 DEF Lost
  <1>7. ASSUME HandleReply PROVE Lost'
    <2>1. got["client"] \in Seq(Byte) /\ got["client"] # <<>>
          /\ got["client"][1].type = "number"
      BY <1>1, <1>7 DEF HandleReply, LocalsOK, ReceivingOK, Lost
    <2>2. Readings(got["client"], Replies) = {NoMessage}
      <3>1. Replies \in SUBSET (Requests \cup Replies)
        OBVIOUS
      <3>2. ASSUME NEW r \in Seq(Byte), r # <<>>, r[1].type = "number"
            PROVE  Readings(r, Replies) = {NoMessage}
        BY <3>1, <3>2, ReadingsTypes
      <3> QED BY <2>1, <3>2
    <2>3. pc' = [pc EXCEPT !["client"] = "leaving"] /\ wire' = wire
      <3>1. PICK m \in Readings(got["client"], Replies) :
              pc' = [pc EXCEPT !["client"] =
                       IF m.kind \in {"valid", "done"} THEN "prompt" ELSE "leaving"]
        BY <1>7 DEF HandleReply
      <3>2. m.kind = "none"
        BY <2>2, <3>1 DEF NoMessage
      <3> QED BY <1>7, <3>1, <3>2 DEF HandleReply
    <2>4. pc'["client"] = "leaving" /\ pc'["child"] = "closed"
      BY <1>1, <1>2, <2>3 DEF ControlOK
    <2> QED BY <1>2, <2>3, <2>4 DEF Lost
  <1>8. ASSUME HandleRequest PROVE FALSE
    BY <1>2, <1>8 DEF HandleRequest
  <1>9. ASSUME NEW m \in Messages, Command(m) PROVE FALSE
    BY <1>2, <1>9 DEF Command
  <1>10. ASSUME UNCHANGED vars PROVE Lost'
    BY <1>10 DEF vars, streams, Lost
  <1> QED
    BY <1>3, <1>4, <1>5, <1>6, <1>7, <1>8, <1>9, <1>10 DEF Next, Step

(* A client that waits in receive_response for a child that is gone never  *)
(* gets back to its prompt: with no end of the connection looked at, what  *)
(* it takes for a reply is what was in its array (ttweetcli.c:176).        *)
THEOREM NoWayBack == Spec => StrandedForGood
  <1>1. Init => TypeOK /\ HeaderFirst
    BY TypeInit DEF Init, HeaderFirst
  <1>2. TypeOK /\ HeaderFirst /\ [Next]_vars => (TypeOK /\ HeaderFirst)'
    BY TypeStep, HeaderFirstStep
  <1>3. Stranded => Lost
    BY DEF Stranded, Lost, Open
  <1>4. TypeOK /\ HeaderFirst /\ Lost /\ [Next]_vars => Lost'
    BY LostStep
  <1>5. Lost => pc["client"] # "prompt"
    BY DEF Lost
  <1> QED BY <1>1, <1>2, <1>3, <1>4, <1>5, PTL DEF Spec, StrandedForGood

-----------------------------------------------------------------------------
(* Turns: what holds as long as no recv is short                           *)

(* The header blocks that announce a message of n bytes.                   *)
HeaderOf(n) == {<<Number(n)>> \o Tail(rest) : rest \in Unwritten}

(* The process has left its loop, or is gone.                              *)
Over(p) == pc[p] \in {"leaving", "closed"}

(* Every message sent to p is taken; all but the last is.                  *)
AllTaken(p) == taken[p] = sent[Other[p]]

AllButTaken(p, m) == Append(taken[p], m) = sent[Other[p]]

(* At the start of receive_response, nothing announced.                    *)
Listening(p) ==
  /\ pc[p] = "receive header" /\ got[p] = <<>> /\ wire[p] = <<>>
  /\ buffer[p][1].type = "number"
  /\ AllTaken(p)

Silent(p) == wire[p] = <<>> /\ (Listening(p) \/ Over(p))

(* The bytes of m that have not been received are on their way to s.       *)
Hearing(s, m) ==
  \/ /\ pc[s] = "receive header" /\ got[s] = <<>>
     /\ \E block \in HeaderOf(m.size) : wire[s] = block \o Text(m)
  \/ /\ pc[s] = "receive block"
     /\ got[s] \o wire[s] = Text(m) /\ left[s] = Len(wire[s])
  \/ pc[s] = "handle" /\ got[s] = Text(m) /\ wire[s] = <<>>

(* The stages of a turn: s hears the other's message out, has not sent,    *)
(* and has sent the header of its answer.                                  *)
Hears(s) ==
  /\ \E m \in Messages : AllButTaken(s, m) /\ Hearing(s, m)
  /\ Silent(Other[s])

Composes(s) ==
  /\ pc[s] \in {"prompt", "send header"}
  /\ wire[s] = <<>> /\ AllTaken(s)
  /\ Silent(Other[s])

(* Process p knows of a message of n bytes no more than the header.        *)
HeaderAtMost(p, n) ==
  /\ AllTaken(p) /\ got[p] = <<>>
  /\ \/ pc[p] = "receive header" /\ wire[p] \in HeaderOf(n)
     \/ /\ pc[p] = "receive block" /\ wire[p] = <<>>
        /\ left[p] = n /\ buffer[p][1].type = "number"

Announces(s) ==
  /\ pc[s] = "send block"
  /\ wire[s] = <<>> /\ AllTaken(s)
  /\ Over(Other[s]) \/ HeaderAtMost(Other[s], out[s].size)

(* Process p takes numbers for a message: the other is gone.               *)
Deceived(p) ==
  /\ AllTaken(p)
  /\ \/ pc[p] = "receive header" /\ got[p] = <<>> /\ \E n \in Sizes : wire[p] \in HeaderOf(n)
     \/ /\ pc[p] = "receive block" /\ wire[p] = <<>>
        /\ buffer[p][1].type = "number"
        /\ got[p] = <<>> \/ got[p][1].type = "number"
     \/ pc[p] = "handle" /\ got[p][1].type = "number"

(* There is no turn after that of s.                                       *)
Ends(s) ==
  /\ Over(s)
  /\ Listening(Other[s]) \/ Over(Other[s]) \/ (pc[s] = "closed" /\ Deceived(Other[s]))

(* One process has the turn, and the other listens.                        *)
TakesTurns ==
  \E s \in Process : Hears(s) \/ Composes(s) \/ Announces(s) \/ Ends(s)

(* The client counts: one reply for every request it has sent, unless the  *)
(* sending of its first one failed.                                        *)
RepliesCounted ==
  /\ pc["client"] \in {"prompt", "send header", "send block"} =>
       Len(taken["client"]) = Len(sent["client"])
  /\ pc["client"] \in {"receive header", "receive block", "handle"} =>
       Len(taken["client"]) + 1 = Len(sent["client"]) \/ Lost

-----------------------------------------------------------------------------
(* The two processes are each other's other.                               *)
LEMMA TwoProcesses ==
  \A p \in Process :
    /\ Other[p] \in Process /\ Other[p] # p /\ Other[Other[p]] = p
    /\ \A q \in Process : q = p \/ q = Other[p]
  BY DEF Process, Other

-----------------------------------------------------------------------------
(* Bytes                                                                   *)

(* A header block is a whole block, and begins with its number.            *)
LEMMA HeaderIsBlock ==
  ASSUME NEW n \in Nat, NEW block \in HeaderOf(n)
  PROVE  /\ block \in Seq(Byte) /\ Len(block) = RCV_BUF_SIZE /\ block # <<>>
         /\ block[1] = Number(n)
  <1>0. RCV_BUF_SIZE \in Nat \ {0}
    BY ConnectionAssumption
  <1>1. PICK rest \in Unwritten : block = <<Number(n)>> \o Tail(rest)
    BY DEF HeaderOf
  <1>2. rest \in Seq(Byte) /\ Len(rest) = RCV_BUF_SIZE
    BY UnwrittenBytes
  <1>3. rest # <<>>
    BY <1>0, <1>2, EmptySeq
  <1>4. Tail(rest) \in Seq(Byte) /\ Len(Tail(rest)) = RCV_BUF_SIZE - 1
    BY <1>2, <1>3, HeadTailProperties
  <1>5. <<Number(n)>> \in Seq(Byte) /\ Len(<<Number(n)>>) = 1 /\ <<Number(n)>>[1] = Number(n)
    BY NumberIsByte
  <1>6. /\ block \in Seq(Byte) /\ Len(block) = RCV_BUF_SIZE
        /\ \A i \in 1 .. RCV_BUF_SIZE :
             block[i] = IF i <= 1 THEN <<Number(n)>>[i] ELSE Tail(rest)[i - 1]
    <2>1. \A one, more \in Seq(Byte) :
            Len(one) = 1 /\ Len(more) = RCV_BUF_SIZE - 1 =>
              /\ one \o more \in Seq(Byte) /\ Len(one \o more) = RCV_BUF_SIZE
              /\ \A i \in 1 .. RCV_BUF_SIZE :
                   (one \o more)[i] = IF i <= 1 THEN one[i] ELSE more[i - 1]
      <3> TAKE one, more \in Seq(Byte)
      <3> HAVE Len(one) = 1 /\ Len(more) = RCV_BUF_SIZE - 1
      <3>1. Len(one) + Len(more) = RCV_BUF_SIZE
        BY <1>0
      <3> QED BY <3>1, ConcatProperties
    <2> QED BY <1>1, <1>4, <1>5, <2>1
  <1>7. block # <<>>
    BY <1>0, <1>6, EmptySeq
  <1>8. block[1] = Number(n)
    BY <1>0, <1>5, <1>6
  <1> QED BY <1>6, <1>7, <1>8

(* The first bytes of a sequence, and the others.                          *)
LEMMA Split ==
  ASSUME NEW w \in Seq(Byte), NEW k \in 0 .. Len(w)
  PROVE  /\ SubSeq(w, 1, k) \in Seq(Byte) /\ Len(SubSeq(w, 1, k)) = k
         /\ SubSeq(w, k + 1, Len(w)) \in Seq(Byte)
         /\ Len(SubSeq(w, k + 1, Len(w))) = Len(w) - k
         /\ SubSeq(w, 1, k) \o SubSeq(w, k + 1, Len(w)) = w
  <1>0. Len(w) \in Nat /\ k \in Nat /\ k <= Len(w)
    BY LenProperties
  <1>1. /\ \A i \in 1 .. k : w[i] \in Byte
        /\ \A i \in k + 1 .. Len(w) : w[i] \in Byte
    BY <1>0, ElementOfSeq
  <1>2. SubSeq(w, 1, k) \in Seq(Byte) /\ Len(SubSeq(w, 1, k)) = k
    <2>1. Len(SubSeq(w, 1, k)) = IF 1 <= k THEN k - 1 + 1 ELSE 0
      BY <1>0, <1>1, SubSeqProperties
    <2>2. SubSeq(w, 1, k) \in Seq(Byte)
      BY <1>0, <1>1, SubSeqProperties
    <2> QED BY <1>0, <2>1, <2>2
  <1>3. SubSeq(w, k + 1, Len(w)) \in Seq(Byte) /\ Len(SubSeq(w, k + 1, Len(w))) = Len(w) - k
    <2>1. Len(SubSeq(w, k + 1, Len(w))) =
            IF k + 1 <= Len(w) THEN Len(w) - (k + 1) + 1 ELSE 0
      BY <1>0, <1>1, SubSeqProperties
    <2>2. SubSeq(w, k + 1, Len(w)) \in Seq(Byte)
      BY <1>0, <1>1, SubSeqProperties
    <2> QED BY <1>0, <2>1, <2>2
  <1>4. SubSeq(w, 1, k) \o SubSeq(w, k + 1, Len(w)) = SubSeq(w, 1, Len(w))
    <2>1. 1 \in 1 .. Len(w) + 1 /\ k \in 1 - 1 .. Len(w) /\ Len(w) \in k .. Len(w)
      BY <1>0
    <2> QED BY <2>1, ConcatAdjacentSubSeq
  <1>5. SubSeq(w, 1, Len(w)) = w
    BY SubSeqFull
  <1> QED BY <1>2, <1>3, <1>4, <1>5

(* Two ways to divide a sequence that are the same by the first length.    *)
LEMMA SplitAt ==
  ASSUME NEW s \in Seq(Byte), NEW t \in Seq(Byte)
  PROVE  /\ SubSeq(s \o t, 1, Len(s)) = s
         /\ SubSeq(s \o t, Len(s) + 1, Len(s \o t)) = t
  <1> DEFINE w == s \o t
  <1>1. /\ w \in Seq(Byte) /\ Len(w) = Len(s) + Len(t)
        /\ \A i \in 1 .. Len(s) + Len(t) : w[i] = IF i <= Len(s) THEN s[i] ELSE t[i - Len(s)]
    BY ConcatProperties
  <1>2. Len(s) \in Nat /\ Len(t) \in Nat
    BY LenProperties
  <1> HIDE DEF w
  <1>3. Len(s) \in 0 .. Len(w)
    BY <1>1, <1>2
  <1> DEFINE first == SubSeq(w, 1, Len(s))
             second == SubSeq(w, Len(s) + 1, Len(w))
  <1>4. /\ first \in Seq(Byte) /\ Len(first) = Len(s)
        /\ first \o second = w /\ second \in Seq(Byte)
    BY <1>1, <1>3, Split
  <1>5. \A i \in 1 .. Len(s) : first[i] = s[i]
    <2>1. \A i \in 1 .. Len(s) : w[i] \in Byte
      BY <1>1, <1>2, ElementOfSeq
    <2>2. \A i \in 1 .. Len(s) - 1 + 1 : first[i] = w[1 + i - 1]
      BY <1>2, <2>1, SubSeqProperties
    <2> HIDE DEF first
    <2>3. \A i \in 1 .. Len(s) : first[i] = w[i]
      BY <1>2, <2>2
    <2> QED BY <1>1, <1>2, <2>3
  <1> HIDE DEF first, second
  <1>6. first = s
    BY <1>4, <1>5, SeqEqual
  <1>7. s \o second = s \o t
    BY <1>4, <1>6 DEF w
  <1>8. second = t
    <2>1. \A a, b, c \in Seq(Byte) : a \o b = a \o c => b = c
      BY ConcatSimplifications
    <2> QED BY <1>4, <1>7, <2>1
  <1> QED BY <1>6, <1>8 DEF first, second, w

-----------------------------------------------------------------------------
(* recv, when it returns all that it can                                   *)

LEMMA WholeRecv ==
  ASSUME TypeOK, NEW p \in Process, NEW n \in Nat, n <= RCV_BUF_SIZE,
         recv(p, n), shorts' = 0
  PROVE  LET k == Least(n, Len(wire[p]))
         IN  /\ shorts = 0 /\ k \in 0 .. Len(wire[p])
             /\ buffer' = [buffer EXCEPT ![p] =
                             SubSeq(wire[p], 1, k) \o SubSeq(buffer[p], k + 1, RCV_BUF_SIZE)]
             /\ wire' = [wire EXCEPT ![p] = SubSeq(wire[p], k + 1, Len(wire[p]))]
  <1>1. StreamsOK
    BY TypeParts
  <1>2. Len(wire[p]) \in Nat /\ shorts \in Nat
    BY <1>1, ConnectionAssumption, LenProperties DEF StreamsOK
  <1>3. PICK k \in 0 .. Least(n, Len(wire[p])) :
          /\ shorts' = IF k < Least(n, Len(wire[p])) THEN shorts + 1 ELSE shorts
          /\ buffer' = [buffer EXCEPT ![p] =
                          SubSeq(wire[p], 1, k) \o SubSeq(buffer[p], k + 1, RCV_BUF_SIZE)]
          /\ wire' = [wire EXCEPT ![p] = SubSeq(wire[p], k + 1, Len(wire[p]))]
    BY DEF recv
  <1>4. Least(n, Len(wire[p])) \in 0 .. Len(wire[p])
    BY <1>2 DEF Least
  <1>5. k = Least(n, Len(wire[p])) /\ shorts = 0
    BY <1>2, <1>3, <1>4
  <1> QED BY <1>3, <1>4, <1>5

(* A header block that has arrived is read, and no byte after it.          *)
LEMMA HeaderIsRead ==
  ASSUME TypeOK, NEW p \in Process, recv(p, RCV_BUF_SIZE), shorts' = 0,
         NEW n \in Nat, NEW block \in HeaderOf(n), NEW w \in Seq(Byte), wire[p] = block \o w
  PROVE  /\ buffer' = [buffer EXCEPT ![p] = block]
         /\ wire' = [wire EXCEPT ![p] = w]
  <1>0. RCV_BUF_SIZE \in Nat /\ RCV_BUF_SIZE <= RCV_BUF_SIZE
    BY ConnectionAssumption
  <1>1. block \in Seq(Byte) /\ Len(block) = RCV_BUF_SIZE
    BY HeaderIsBlock
  <1>2. Len(wire[p]) = RCV_BUF_SIZE + Len(w) /\ Len(w) \in Nat
    BY <1>1, ConcatProperties, LenProperties
  <1>3. Least(RCV_BUF_SIZE, Len(wire[p])) = RCV_BUF_SIZE
    BY <1>0, <1>2 DEF Least
  <1>4. /\ SubSeq(wire[p], 1, RCV_BUF_SIZE) = block
        /\ SubSeq(wire[p], RCV_BUF_SIZE + 1, Len(wire[p])) = w
    BY <1>1, SplitAt
  <1>5. SubSeq(buffer[p], RCV_BUF_SIZE + 1, RCV_BUF_SIZE) = <<>>
    BY <1>0, SubSeqEmpty
  <1>6. block \o <<>> = block
    BY <1>1, ConcatEmptySeq
  <1>7. /\ buffer' = [buffer EXCEPT ![p] = SubSeq(wire[p], 1, RCV_BUF_SIZE)
                        \o SubSeq(buffer[p], RCV_BUF_SIZE + 1, RCV_BUF_SIZE)]
        /\ wire' = [wire EXCEPT ![p] = SubSeq(wire[p], RCV_BUF_SIZE + 1, Len(wire[p]))]
    BY <1>0, <1>3, WholeRecv
  <1> QED BY <1>4, <1>5, <1>6, <1>7

(* The bytes that are asked for and have arrived are read.                 *)
LEMMA TextIsRead ==
  ASSUME TypeOK, NEW p \in Process, NEW n \in Nat \ {0}, n <= RCV_BUF_SIZE,
         n <= Len(wire[p]), recv(p, n), shorts' = 0
  PROVE  /\ SubSeq(buffer'[p], 1, n) = SubSeq(wire[p], 1, n)
         /\ wire' = [wire EXCEPT ![p] = SubSeq(wire[p], n + 1, Len(wire[p]))]
         /\ \A q \in Process \ {p} : buffer'[q] = buffer[q]
  <1>0. RCV_BUF_SIZE \in Nat
    BY ConnectionAssumption
  <1>1. wire[p] \in Seq(Byte) /\ buffer[p] \in Buffers /\ buffer \in [Process -> Buffers]
    BY TypeParts DEF StreamsOK, LocalsOK
  <1>2. buffer[p] \in Seq(Byte) /\ Len(buffer[p]) = RCV_BUF_SIZE /\ Len(wire[p]) \in Nat
    <2>1. ASSUME NEW b \in Buffers PROVE b \in Seq(Byte) /\ Len(b) = RCV_BUF_SIZE
      BY <1>0, IsASeq, LenProperties DEF Buffers
    <2> QED BY <1>1, <2>1, LenProperties
  <1>3. Least(n, Len(wire[p])) = n
    BY <1>2 DEF Least
  <1> DEFINE head == SubSeq(wire[p], 1, n)
             tail == SubSeq(buffer[p], n + 1, RCV_BUF_SIZE)
  <1>4. head \in Seq(Byte) /\ Len(head) = n
    BY <1>1, <1>2, Split
  <1>5. tail \in Seq(Byte)
    BY <1>0, <1>2, Split
  <1>6. /\ buffer' = [buffer EXCEPT ![p] = head \o tail]
        /\ wire' = [wire EXCEPT ![p] = SubSeq(wire[p], n + 1, Len(wire[p]))]
    BY <1>3, WholeRecv
  <1> HIDE DEF head, tail
  <1>7. SubSeq(head \o tail, 1, n) = head
    BY <1>4, <1>5, SplitAt
  <1>8. buffer'[p] = head \o tail
    BY <1>1, <1>6
  <1>9. SubSeq(buffer'[p], 1, n) = head
    BY <1>7, <1>8
  <1> QED BY <1>1, <1>6, <1>9 DEF head

(* Nobody reads when nothing has arrived and the other is there.           *)
LEMMA RecvWaits ==
  ASSUME NEW p \in Process, NEW n, recv(p, n), wire[p] = <<>>
  PROVE  pc[Other[p]] = "closed"
  BY DEF recv, Open

-----------------------------------------------------------------------------
(* Whose turn it is                                                        *)

LEMMA Speaker ==
  ASSUME TakesTurns, NEW p \in Process
  PROVE  /\ pc[p] \in {"prompt", "send header"} => Composes(p)
         /\ pc[p] = "send block" => Announces(p)
  <1>1. PICK s \in Process : Hears(s) \/ Composes(s) \/ Announces(s) \/ Ends(s)
    BY DEF TakesTurns
  <1>2. CASE s = p
    BY <1>1, <1>2 DEF Hears, Hearing, Composes, Announces, Ends, Over
  <1>3. CASE p = Other[s]
    BY <1>1, <1>3 DEF Hears, Composes, Announces, Ends, Over, Silent, Listening,
                      HeaderAtMost, Deceived
  <1> QED BY <1>2, <1>3, TwoProcesses

LEMMA Listener ==
  ASSUME TakesTurns, NEW p \in Process
  PROVE  /\ pc[p] = "receive header" =>
              \/ Hears(p)
              \/ Listening(p) /\ (Hears(Other[p]) \/ Composes(Other[p]))
              \/ Announces(Other[p]) /\ HeaderAtMost(p, out[Other[p]].size)
              \/ Over(Other[p]) /\ Listening(p)
              \/ pc[Other[p]] = "closed" /\ Deceived(p)
         /\ pc[p] = "receive block" =>
              \/ Hears(p)
              \/ Announces(Other[p]) /\ HeaderAtMost(p, out[Other[p]].size)
              \/ pc[Other[p]] = "closed" /\ Deceived(p)
         /\ pc[p] = "handle" =>
              \/ Hears(p)
              \/ pc[Other[p]] = "closed" /\ Deceived(p)
  <1>1. PICK s \in Process : Hears(s) \/ Composes(s) \/ Announces(s) \/ Ends(s)
    BY DEF TakesTurns
  <1>2. CASE s = p
    BY <1>1, <1>2 DEF Composes, Announces, Ends, Over
  <1>3. CASE p = Other[s]
    <2>1. s = Other[p]
      BY <1>3, TwoProcesses
    <2> QED
      BY <1>1, <2>1, TwoProcesses DEF Hears, Composes, Announces, Ends, Over, Silent,
                                    Listening, HeaderAtMost
  <1> QED BY <1>2, <1>3, TwoProcesses

(* Nothing of q changes but what is on its way to it.                      *)
Same(q) ==
  /\ pc'[q] = pc[q] /\ out'[q] = out[q] /\ buffer'[q] = buffer[q]
  /\ left'[q] = left[q] /\ got'[q] = got[q]
  /\ sent'[q] = sent[q] /\ taken'[q] = taken[q]

LEMMA StaysSilent ==
  ASSUME NEW q \in Process, Same(q), sent'[Other[q]] = sent[Other[q]], wire'[q] = wire[q]
  PROVE  /\ Over(q) => Over(q)'
         /\ Listening(q) => Listening(q)'
         /\ Silent(q) => Silent(q)'
         /\ Deceived(q) => Deceived(q)'
         /\ \A n \in Nat : HeaderAtMost(q, n) => HeaderAtMost(q, n)'
         /\ \A m \in Messages : AllButTaken(q, m) /\ Hearing(q, m) =>
              AllButTaken(q, m)' /\ Hearing(q, m)'
  BY DEF Same, Over, Listening, Silent, Deceived, HeaderAtMost, AllButTaken, Hearing, AllTaken

-----------------------------------------------------------------------------
(* The turn goes on or over                                                *)

LEMMA TurnSendHeader ==
  ASSUME TypeOK, TakesTurns, NEW p \in Process, SendHeader(p)
  PROVE  TakesTurns'
  <1> DEFINE o == Other[p]
  <1>1. ControlOK /\ StreamsOK
    BY TypeParts
  <1>2. o \in Process /\ o # p /\ Other[o] = p
    BY TwoProcesses
  <1>3. Composes(p) /\ out[p] \in Messages
    BY <1>1, Speaker DEF SendHeader, ControlOK
  <1>4. Same(o) /\ pc'[p] = "send block" /\ out' = out /\ sent' = sent /\ taken' = taken
    BY <1>1, <1>2 DEF SendHeader, Same, history, ControlOK
  <1>5. PICK block \in HeaderOf(out[p].size) : Transmit(p, block)
    BY DEF SendHeader, HeaderOf
  <1>6. wire'[p] = wire[p] /\ wire'[o] = IF Open(o) THEN wire[o] \o block ELSE <<>>
    BY <1>1, <1>2, <1>5 DEF Transmit, StreamsOK
  <1>7. out[p].size \in Nat /\ block \in Seq(Byte)
    <2>1. out[p].size \in Nat
      BY <1>3, TextBytes
    <2> QED BY <1>5, <2>1, HeaderIsBlock
  <1>8. AllTaken(p)' /\ wire'[p] = <<>>
    BY <1>3, <1>4, <1>6 DEF Composes, AllTaken
  <1>9. CASE Over(o)
    <2>1. Over(o)'
      BY <1>4, <1>9 DEF Over, Same
    <2> QED BY <1>4, <1>8, <2>1 DEF TakesTurns, Announces
  <1>10. CASE Listening(o)
    <2>1. wire'[o] = block
      <3>1. Open(o) /\ wire[o] = <<>>
        BY <1>10 DEF Listening, Open
      <3> QED BY <1>6, <1>7, <3>1, ConcatEmptySeq
    <2>2. HeaderAtMost(o, out[p].size)'
      BY <1>2, <1>4, <1>5, <1>10, <2>1 DEF HeaderAtMost, Listening, AllTaken, Same
    <2> QED BY <1>4, <1>8, <2>2 DEF TakesTurns, Announces
  <1> QED BY <1>3, <1>9, <1>10 DEF Composes, Silent

LEMMA TurnSendBlock ==
  ASSUME TypeOK, TakesTurns, NEW p \in Process, SendBlock(p)
  PROVE  TakesTurns'
  <1> DEFINE o == Other[p]
  <1>1. ControlOK /\ StreamsOK /\ LocalsOK /\ HistoryOK
    BY TypeParts
  <1>2. o \in Process /\ o # p /\ Other[o] = p
    BY TwoProcesses
  <1>3. Announces(p)
    BY Speaker DEF SendBlock
  <1>4. PICK m \in Messages : m = out[p]
    BY <1>1 DEF SendBlock, ControlOK
  <1>5. /\ Same(o) /\ taken' = taken
        /\ sent' = [sent EXCEPT ![p] = Append(sent[p], m)]
    <2>1. /\ buffer'[o] = buffer[o] /\ left'[o] = left[o] /\ got'[o] = got[o]
      BY <1>1, <1>2 DEF SendBlock, Receive, LocalsOK
    <2> QED BY <1>1, <1>2, <1>4, <2>1 DEF SendBlock, Same, ControlOK, HistoryOK
  <1>6. wire'[p] = wire[p] /\ wire'[o] = IF Open(o) THEN wire[o] \o Text(m) ELSE <<>>
    <2>1. Transmit(p, Text(m))
      BY <1>4 DEF SendBlock
    <2> QED BY <1>1, <1>2, <2>1 DEF Transmit, StreamsOK
  <1>7. wire'[p] = <<>> /\ AllTaken(p)'
    BY <1>1, <1>2, <1>3, <1>5, <1>6 DEF Announces, AllTaken, HistoryOK
  <1>8. Over(p)' \/ Listening(p)'
    <2>1. pc' = [pc EXCEPT ![p] = "leaving"] \/ (pc' = [pc EXCEPT ![p] = "receive header"] /\ Receive(p))
      BY DEF SendBlock
    <2>2. CASE pc' = [pc EXCEPT ![p] = "leaving"]
      BY <1>1, <2>2 DEF ControlOK, Over
    <2>3. CASE pc' = [pc EXCEPT ![p] = "receive header"] /\ Receive(p)
      <3>1. PICK garbage \in Unwritten : buffer' = [buffer EXCEPT ![p] = garbage]
        BY <2>3 DEF Receive
      <3>2. buffer'[p][1].type = "number"
        BY <1>1, <3>1, UnwrittenBytes DEF LocalsOK
      <3>3. pc'[p] = "receive header" /\ got'[p] = <<>>
        BY <1>1, <2>3 DEF ControlOK, LocalsOK, Receive
      <3> QED BY <1>7, <3>2, <3>3 DEF Listening
    <2> QED BY <2>1, <2>2, <2>3
  <1>9. CASE Over(o)
    <2>1. Over(o)'
      BY <1>5, <1>9 DEF Over, Same
    <2> QED BY <1>2, <1>8, <2>1 DEF TakesTurns, Ends
  <1>10. CASE HeaderAtMost(o, m.size)
    <2>1. AllButTaken(o, m)'
      BY <1>1, <1>2, <1>5, <1>10 DEF HeaderAtMost, AllTaken, AllButTaken, HistoryOK
    <2>2. Text(m) \in Seq(Byte) /\ Len(Text(m)) = m.size /\ <<>> \in Seq(Byte)
      BY TextBytes
    <2>3. Open(o)
      BY <1>10 DEF HeaderAtMost, Open
    <2>4. Hearing(o, m)'
      <3>1. CASE pc[o] = "receive header" /\ wire[o] \in HeaderOf(m.size)
        BY <1>5, <1>6, <1>10, <2>3, <3>1 DEF HeaderAtMost, Hearing, Same
      <3>2. CASE pc[o] = "receive block" /\ wire[o] = <<>> /\ left[o] = m.size
        <4>1. wire'[o] = Text(m)
          BY <1>6, <2>2, <2>3, <3>2, ConcatEmptySeq
        <4>2. got'[o] \o wire'[o] = Text(m)
          BY <1>5, <1>10, <2>2, <4>1, ConcatEmptySeq DEF HeaderAtMost, Same
        <4> QED BY <1>5, <2>2, <3>2, <4>1, <4>2 DEF Hearing, Same
      <3> QED BY <1>10, <3>1, <3>2 DEF HeaderAtMost
    <2>5. Silent(p)'
      BY <1>7, <1>8 DEF Silent
    <2> QED BY <1>2, <2>1, <2>4, <2>5 DEF TakesTurns, Hears
  <1> QED BY <1>3, <1>4, <1>9, <1>10 DEF Announces

LEMMA TurnBrokenPipe ==
  ASSUME TypeOK, TakesTurns, NEW p \in Process, BrokenPipe(p)
  PROVE  TakesTurns'
  <1>1. ControlOK /\ Other[p] \in Process /\ Other[p] # p
    BY TypeParts, TwoProcesses
  <1>2. pc'[p] = "leaving" /\ pc'[Other[p]] = "closed"
    BY <1>1 DEF BrokenPipe, Open, ControlOK
  <1> QED BY <1>2 DEF TakesTurns, Ends, Over

LEMMA TurnSendFails ==
  ASSUME TypeOK, GoneIsDeaf, TakesTurns, NEW p \in Process, SendFails(p)
  PROVE  TakesTurns'
  <1> DEFINE o == Other[p]
  <1>1. ControlOK /\ LocalsOK
    BY TypeParts
  <1>2. o \in Process /\ o # p /\ Other[o] = p
    BY TwoProcesses
  <1>3. /\ pc[p] \in {"send header", "send block"} /\ pc[o] = "closed"
        /\ UNCHANGED <<wire, sent, taken>>
    BY <1>1, SendFailsMoves DEF history
  <1>4. wire'[p] = <<>> /\ AllTaken(p)'
    BY <1>3, Speaker DEF Composes, Announces, AllTaken
  <1>5. \A next : pc' = [pc EXCEPT ![p] = next] => pc'[p] = next /\ pc'[o] = "closed"
    BY <1>1, <1>2, <1>3 DEF ControlOK
  <1>6. CASE pc' = [pc EXCEPT ![p] = "leaving"]
    BY <1>2, <1>5, <1>6 DEF TakesTurns, Ends, Over
  <1>7. CASE pc' = [pc EXCEPT ![p] = "prompt"]
    <2>1. wire'[o] = <<>>
      BY <1>2, <1>3 DEF GoneIsDeaf
    <2>2. Silent(o)' /\ pc'[p] = "prompt"
      BY <1>5, <1>7, <2>1 DEF Silent, Over
    <2> QED BY <1>4, <2>2 DEF TakesTurns, Composes
  <1>8. CASE pc' = [pc EXCEPT ![p] = "receive header"] /\ Receive(p)
    <2>1. PICK garbage \in Unwritten : buffer' = [buffer EXCEPT ![p] = garbage]
      BY <1>8 DEF Receive
    <2>2. buffer'[p][1].type = "number" /\ got'[p] = <<>>
      BY <1>1, <1>8, <2>1, UnwrittenBytes DEF LocalsOK, Receive
    <2>3. Listening(p)' /\ Over(o)'
      BY <1>4, <1>5, <1>8, <2>2 DEF Listening, Over
    <2> QED BY <1>2, <2>3 DEF TakesTurns, Ends
  <1> QED BY <1>1, <1>6, <1>7, <1>8, SendFailsMoves

(* What recv leaves alone.                                                 *)
LEMMA RecvKeeps ==
  ASSUME TypeOK, NEW p \in Process, NEW n, recv(p, n), NEW q \in Process \ {p}
  PROVE  buffer'[q] = buffer[q] /\ wire'[q] = wire[q]
  BY TypeParts DEF recv, StreamsOK, LocalsOK

LEMMA TurnReceiveHeader ==
  ASSUME TypeOK, TakesTurns, NEW p \in Process, ReceiveHeader(p), shorts' = 0
  PROVE  TakesTurns'
  <1> DEFINE o == Other[p]
  <1>1. ControlOK /\ StreamsOK /\ LocalsOK
    BY TypeParts
  <1>2. o \in Process /\ o # p /\ Other[o] = p
    BY TwoProcesses
  <1>3. pc[p] = "receive header" /\ recv(p, RCV_BUF_SIZE)
    BY DEF ReceiveHeader
  <1>4. Same(o) /\ wire'[o] = wire[o]
    BY <1>1, <1>2, <1>3, RecvKeeps, ZenonT(60) DEF ReceiveHeader, Same, ControlOK, LocalsOK
  <1>5. out' = out /\ got' = got /\ sent' = sent /\ taken' = taken
    BY DEF ReceiveHeader
  <1>6. ASSUME NEW n \in Nat \ {0}, NEW block \in HeaderOf(n), NEW w \in Seq(Byte),
                wire[p] = block \o w
         PROVE  /\ pc'[p] = "receive block" /\ left'[p] = n /\ wire'[p] = w
                /\ buffer'[p][1].type = "number"
    <2>1. buffer' = [buffer EXCEPT ![p] = block] /\ wire' = [wire EXCEPT ![p] = w]
      <3>1. recv(p, RCV_BUF_SIZE) /\ n \in Nat
        BY <1>3
      <3> QED BY <1>6, <3>1, HeaderIsRead
    <2>2. buffer'[p] = block /\ wire'[p] = w
      BY <1>1, <2>1 DEF StreamsOK, LocalsOK
    <2>3. buffer'[p] \in Buffers
      <3>1. RCV_BUF_SIZE \in Nat /\ RCV_BUF_SIZE <= RCV_BUF_SIZE
        BY ConnectionAssumption
      <3> QED BY <1>3, <3>1, RecvTypes
    <2>4. block[1] = Number(n)
      BY HeaderIsBlock
    <2>5. block[1].type = "number" /\ block[1].n = n
      BY <2>4 DEF Number
    <2>6. atoi(buffer'[p]) = {n}
      BY <2>2, <2>3, <2>5, AtoiIsNat
    <2>7. left' = [left EXCEPT ![p] = n] /\ pc' = [pc EXCEPT ![p] = "receive block"]
      <3>1. PICK l \in atoi(buffer'[p]) :
              /\ left' = [left EXCEPT ![p] = l]
              /\ pc' = [pc EXCEPT ![p] = IF l > 0 THEN "receive block" ELSE pc[p]]
        BY DEF ReceiveHeader
      <3>2. l = n
        BY <2>6, <3>1, Zenon
      <3>3. n > 0
        OBVIOUS
      <3> QED BY <3>1, <3>2, <3>3
    <2> QED BY <1>1, <2>2, <2>5, <2>7 DEF ControlOK, LocalsOK
  <1>7. CASE Hears(p)
    <2>1. PICK m \in Messages : AllButTaken(p, m) /\ Hearing(p, m)
      BY <1>7 DEF Hears
    <2>2. PICK block \in HeaderOf(m.size) : wire[p] = block \o Text(m)
      BY <1>3, <2>1 DEF Hearing
    <2>3. /\ Text(m) \in Seq(Byte) /\ Len(Text(m)) = m.size /\ m.size \in Nat \ {0}
      BY TextBytes
    <2>4. pc'[p] = "receive block" /\ left'[p] = m.size /\ wire'[p] = Text(m)
      BY <2>2, <2>3, <1>6
    <2>5. got'[p] \o wire'[p] = Text(m)
      BY <1>3, <1>5, <2>1, <2>3, <2>4, ConcatEmptySeq DEF Hearing
    <2>6. AllButTaken(p, m)' /\ Hearing(p, m)'
      BY <1>5, <2>1, <2>3, <2>4, <2>5 DEF AllButTaken, Hearing
    <2>7. Silent(o)'
      BY <1>2, <1>4, <1>5, <1>7, StaysSilent DEF Hears
    <2> QED BY <2>6, <2>7 DEF TakesTurns, Hears
  <1>8. ASSUME Listening(p), Hears(o) \/ Composes(o) PROVE FALSE
    BY <1>3, <1>8, RecvWaits DEF Listening, Hears, Hearing, Composes
  <1>9. CASE Announces(o) /\ HeaderAtMost(p, out[o].size)
    <2>1. PICK n \in Nat \ {0} : n = out[o].size
      BY <1>1, <1>2, <1>9, TextBytes DEF Announces, ControlOK
    <2>2. wire[p] \in HeaderOf(n)
      BY <1>3, <1>9, <2>1 DEF HeaderAtMost
    <2>3. wire[p] = wire[p] \o <<>> /\ <<>> \in Seq(Byte)
      BY <2>1, <2>2, HeaderIsBlock, ConcatEmptySeq
    <2>4. /\ pc'[p] = "receive block" /\ left'[p] = n /\ wire'[p] = <<>>
          /\ buffer'[p][1].type = "number"
      BY <2>2, <2>3, <1>6
    <2>5. HeaderAtMost(p, out[o].size)'
      BY <1>5, <1>9, <2>1, <2>4 DEF HeaderAtMost, AllTaken
    <2> QED BY <1>2, <1>4, <1>5, <1>9, <2>5 DEF TakesTurns, Announces, AllTaken, Same
  <1>10. CASE Over(o) /\ Listening(p)
    <2>1. pc'[o] = "closed" /\ pc[o] = "closed"
      BY <1>2, <1>3, <1>4, <1>10, RecvWaits DEF Listening, Same
    <2>2. wire' = wire /\ buffer' = buffer
      <3>1. RCV_BUF_SIZE \in Nat /\ RCV_BUF_SIZE <= RCV_BUF_SIZE
        BY ConnectionAssumption
      <3> QED BY <1>3, <1>10, <3>1, RecvTypes DEF Listening
    <2>3. pc'[p] \in {"receive header", "receive block"}
      BY <1>1 DEF ReceiveHeader, ControlOK
    <2>4. Listening(p)' \/ Deceived(p)'
      BY <1>5, <1>10, <2>2, <2>3 DEF Listening, Deceived, AllTaken
    <2> QED BY <1>2, <2>1, <2>4 DEF TakesTurns, Ends, Over
  <1>11. CASE pc[o] = "closed" /\ Deceived(p)
    <2>1. PICK n \in Sizes : wire[p] \in HeaderOf(n)
      BY <1>3, <1>11 DEF Deceived
    <2>2. n \in Nat \ {0}
      BY ConnectionAssumption
    <2>3. wire[p] = wire[p] \o <<>> /\ <<>> \in Seq(Byte)
      BY <2>1, <2>2, HeaderIsBlock, ConcatEmptySeq
    <2>4. /\ pc'[p] = "receive block" /\ wire'[p] = <<>>
          /\ buffer'[p][1].type = "number"
      BY <2>1, <2>2, <2>3, <1>6
    <2>5. Deceived(p)'
      BY <1>3, <1>5, <1>11, <2>4 DEF Deceived, AllTaken
    <2> QED BY <1>2, <1>4, <1>11, <2>5 DEF TakesTurns, Ends, Over, Same
  <1> QED BY <1>3, <1>7, <1>8, <1>9, <1>10, <1>11, Listener

LEMMA TurnReceiveBlock ==
  ASSUME TypeOK, TakesTurns, NEW p \in Process, ReceiveBlock(p), shorts' = 0
  PROVE  TakesTurns'
  <1> DEFINE o == Other[p]
  <1>1. ControlOK /\ StreamsOK /\ LocalsOK /\ ReceivingOK
    BY TypeParts
  <1>2. o \in Process /\ o # p /\ Other[o] = p
    BY TwoProcesses
  <1>3. pc[p] = "receive block"
    BY DEF ReceiveBlock
  <1>4. PICK n \in Nat \ {0} : n = Least(left[p], RCV_BUF_SIZE)
    <2>1. left[p] \in Int /\ left[p] > 0
      BY <1>1, <1>3 DEF LocalsOK, ReceivingOK
    <2> QED BY <2>1, ConnectionAssumption DEF Least
  <1>5. /\ n <= RCV_BUF_SIZE /\ RCV_BUF_SIZE \in Nat \ {0}
        /\ n = IF left[p] < RCV_BUF_SIZE THEN left[p] ELSE RCV_BUF_SIZE
        /\ left[p] \in Int /\ left[p] > 0
    <2>1. left[p] \in Int /\ left[p] > 0
      BY <1>1, <1>3 DEF LocalsOK, ReceivingOK
    <2> QED BY <1>4, <2>1, ConnectionAssumption DEF Least
  <1>6. /\ recv(p, n)
        /\ got' = [got EXCEPT ![p] = got[p] \o SubSeq(buffer'[p], 1, n)]
        /\ left' = [left EXCEPT ![p] = left[p] - RCV_BUF_SIZE]
        /\ pc' = [pc EXCEPT ![p] = IF left'[p] > 0 THEN pc[p] ELSE "handle"]
        /\ out' = out /\ sent' = sent /\ taken' = taken
    BY <1>4 DEF ReceiveBlock
  <1>7. Same(o) /\ wire'[o] = wire[o]
    <2>1. buffer'[o] = buffer[o] /\ wire'[o] = wire[o]
      BY <1>2, <1>6, RecvKeeps
    <2> QED BY <1>1, <1>2, <1>6, <2>1 DEF Same, ControlOK, LocalsOK
  <1>8. /\ left'[p] = left[p] - RCV_BUF_SIZE
        /\ pc'[p] = IF left[p] > RCV_BUF_SIZE THEN "receive block" ELSE "handle"
        /\ got'[p] = got[p] \o SubSeq(buffer'[p], 1, n)
    <2>1. /\ left'[p] = left[p] - RCV_BUF_SIZE
          /\ got'[p] = got[p] \o SubSeq(buffer'[p], 1, n)
      BY <1>1, <1>6 DEF LocalsOK
    <2>2. left'[p] > 0 <=> left[p] > RCV_BUF_SIZE
      BY <1>5, <2>1
    <2>3. pc'[p] = IF left'[p] > 0 THEN "receive block" ELSE "handle"
      BY <1>1, <1>3, <1>6 DEF ControlOK
    <2> QED BY <2>1, <2>2, <2>3
  <1>9. CASE Hears(p)
    <2>1. PICK m \in Messages : AllButTaken(p, m) /\ Hearing(p, m)
      BY <1>9 DEF Hears
    <2>2. got[p] \o wire[p] = Text(m) /\ left[p] = Len(wire[p])
      BY <1>3, <2>1 DEF Hearing
    <2>3. wire[p] \in Seq(Byte) /\ got[p] \in Seq(Byte)
      BY <1>1 DEF StreamsOK, LocalsOK
    <2>4. n <= Len(wire[p]) /\ n \in 0 .. Len(wire[p])
      BY <1>5, <2>2
    <2> DEFINE first == SubSeq(wire[p], 1, n)
               rest == SubSeq(wire[p], n + 1, Len(wire[p]))
    <2>5. /\ first \in Seq(Byte) /\ rest \in Seq(Byte) /\ first \o rest = wire[p]
          /\ Len(rest) = left[p] - n
      BY <2>2, <2>3, <2>4, Split, ZenonT(60)
    <2>6. SubSeq(buffer'[p], 1, n) = first /\ wire' = [wire EXCEPT ![p] = rest]
      BY <1>5, <1>6, <2>4, TextIsRead
    <2> HIDE DEF first, rest
    <2>7. wire'[p] = rest /\ got'[p] = got[p] \o first
      BY <1>1, <1>8, <2>6 DEF StreamsOK
    <2>8. got'[p] \in Seq(Byte) /\ got'[p] \o wire'[p] = Text(m)
      <3>1. got[p] \o first \in Seq(Byte)
        BY <2>3, <2>5, ConcatProperties
      <3>2. (got[p] \o first) \o rest = got[p] \o (first \o rest)
        <4>1. got[p] \in Seq(Byte) /\ first \in Seq(Byte) /\ rest \in Seq(Byte)
          BY <2>3, <2>5
        <4>2. \A a, b, c \in Seq(Byte) : (a \o b) \o c = a \o (b \o c)
          BY ConcatAssociative
        <4> QED BY <4>1, <4>2
      <3> QED BY <2>2, <2>5, <2>7, <3>1, <3>2
    <2>9. Hearing(p, m)'
      <3>1. CASE left[p] > RCV_BUF_SIZE
        <4>1. left'[p] = Len(wire'[p])
          <5>1. n = RCV_BUF_SIZE
            BY <1>5, <3>1
          <5> QED BY <1>8, <2>5, <2>7, <5>1
        <4> QED BY <1>8, <2>8, <3>1, <4>1 DEF Hearing
      <3>2. CASE ~ (left[p] > RCV_BUF_SIZE)
        <4>1. Len(rest) = 0
          BY <1>5, <2>5, <3>2
        <4>2. wire'[p] = <<>>
          BY <2>5, <2>7, <4>1, EmptySeq
        <4>3. got'[p] = Text(m)
          BY <2>8, <4>2, ConcatEmptySeq
        <4> QED BY <1>8, <3>2, <4>2, <4>3 DEF Hearing
      <3> QED BY <3>1, <3>2
    <2>10. AllButTaken(p, m)'
      BY <1>6, <2>1 DEF AllButTaken
    <2>11. Silent(o)'
      BY <1>2, <1>6, <1>7, <1>9, StaysSilent DEF Hears
    <2> QED BY <2>9, <2>10, <2>11 DEF TakesTurns, Hears
  <1>10. ASSUME Announces(o), HeaderAtMost(p, out[o].size) PROVE FALSE
    BY <1>3, <1>6, <1>10, RecvWaits DEF Announces, HeaderAtMost
  <1>11. CASE pc[o] = "closed" /\ Deceived(p)
    <2>1. /\ wire[p] = <<>> /\ buffer[p][1].type = "number"
          /\ got[p] = <<>> \/ got[p][1].type = "number"
          /\ AllTaken(p)
      BY <1>3, <1>11 DEF Deceived
    <2>2. wire' = wire /\ buffer' = buffer
      BY <1>5, <1>6, <2>1, RecvTypes
    <2>3. got'[p][1] = IF got[p] = <<>> THEN buffer[p][1] ELSE got[p][1]
      <3>1. ASSUME NEW b \in Buffers, NEW l \in Int, l > 0, NEW r \in Seq(Byte)
            PROVE  (r \o SubSeq(b, 1, Least(l, RCV_BUF_SIZE)))[1] =
                     IF r = <<>> THEN b[1] ELSE r[1]
        BY <3>1, BlockBytes
      <3>2. buffer[p] \in Buffers /\ got[p] \in Seq(Byte)
        BY <1>1 DEF LocalsOK
      <3>3. left[p] \in Int /\ left[p] > 0
        BY <1>5
      <3>4. (got[p] \o SubSeq(buffer[p], 1, Least(left[p], RCV_BUF_SIZE)))[1] =
              IF got[p] = <<>> THEN buffer[p][1] ELSE got[p][1]
        BY <3>1, <3>2, <3>3
      <3>5. got'[p] = got[p] \o SubSeq(buffer[p], 1, Least(left[p], RCV_BUF_SIZE))
        BY <1>4, <1>8, <2>2
      <3> QED BY <3>4, <3>5
    <2>4. got'[p][1].type = "number"
      BY <2>1, <2>3
    <2>5. Deceived(p)'
      BY <1>6, <1>8, <2>1, <2>2, <2>4 DEF Deceived, AllTaken
    <2> QED BY <1>2, <1>7, <1>11, <2>5 DEF TakesTurns, Ends, Over, Same
  <1> QED BY <1>3, <1>9, <1>10, <1>11, Listener

-----------------------------------------------------------------------------
(* What is handled                                                         *)

Handle(p) == IF p = "client" THEN HandleReply ELSE HandleRequest

LEMMA TextIsItsMessage ==
  ASSUME NEW m \in Messages, NEW kinds
  PROVE  Readings(Text(m), kinds) = {m}
  <1>1. m.size \in Nat \ {0}
    BY TextBytes
  <1>2. Text(m)[1].of = m
    BY <1>1 DEF Text
  <1>3. Readings(Text(m), kinds) = {Text(m)[1].of}
    BY DEF Readings
  <1> QED BY <1>2, <1>3

(* What the two handlers have in common.                                   *)
LEMMA HandleChanges ==
  ASSUME TypeOK, NEW p \in Process, Handle(p)
  PROVE  \E kinds \in SUBSET (Requests \cup Replies) : \E m \in Readings(got[p], kinds) :
           /\ pc[p] = "handle"
           /\ taken' = [taken EXCEPT ![p] = Append(taken[p], m)]
           /\ pc'[p] \in {"prompt", "send header", "leaving"}
           /\ m.kind = "none" => pc'[p] = "leaving"
           /\ wire' = wire /\ sent' = sent /\ shorts' = shorts
           /\ Same(Other[p])
  <1>1. ControlOK /\ LocalsOK /\ HistoryOK /\ Other[p] \in Process /\ Other[p] # p
    BY TypeParts, TwoProcesses
  <1>2. CASE p = "client"
    <2>1. PICK m \in Readings(got[p], Replies) :
            /\ taken' = [taken EXCEPT ![p] = Append(taken[p], m)]
            /\ pc' = [pc EXCEPT ![p] =
                        IF m.kind \in {"valid", "done"} THEN "prompt" ELSE "leaving"]
      BY <1>2 DEF Handle, HandleReply
    <2>2. /\ pc[p] = "handle" /\ Forget(p)
          /\ wire' = wire /\ out' = out /\ sent' = sent /\ shorts' = shorts
      BY <1>2 DEF Handle, HandleReply
    <2>3. Same(Other[p])
      BY <1>1, <2>1, <2>2 DEF Same, Forget, ControlOK, LocalsOK, HistoryOK
    <2>4. pc'[p] = IF m.kind \in {"valid", "done"} THEN "prompt" ELSE "leaving"
      BY <1>1, <2>1 DEF ControlOK
    <2>5. Replies \in SUBSET (Requests \cup Replies)
      OBVIOUS
    <2> QED BY <2>1, <2>2, <2>3, <2>4, <2>5
  <1>3. CASE p = "child"
    <2>1. PICK m \in Readings(got[p], Requests) :
            /\ taken' = [taken EXCEPT ![p] = Append(taken[p], m)]
            /\ IF m.kind \in {"exit", "none"}
                 THEN pc' = [pc EXCEPT ![p] = "leaving"] /\ UNCHANGED out
                 ELSE \E reply \in {r \in Messages : r.kind \in Answers(m.kind)} :
                        Send(p, reply)
      BY <1>3 DEF Handle, HandleRequest
    <2>2. /\ pc[p] = "handle" /\ Forget(p)
          /\ wire' = wire /\ sent' = sent /\ shorts' = shorts
      BY <1>3 DEF Handle, HandleRequest
    <2>3. /\ pc' = [pc EXCEPT ![p] = IF m.kind \in {"exit", "none"} THEN "leaving"
                                                                    ELSE "send header"]
          /\ out'[Other[p]] = out[Other[p]]
      BY <1>1, <2>1 DEF Send, ControlOK
    <2>4. Same(Other[p])
      BY <1>1, <2>1, <2>2, <2>3 DEF Same, Forget, ControlOK, LocalsOK, HistoryOK
    <2>5. pc'[p] = IF m.kind \in {"exit", "none"} THEN "leaving" ELSE "send header"
      BY <1>1, <2>3 DEF ControlOK
    <2>6. Requests \in SUBSET (Requests \cup Replies)
      OBVIOUS
    <2> QED BY <2>1, <2>2, <2>4, <2>5, <2>6
  <1> QED BY <1>2, <1>3 DEF Process

(* A process takes the message it has heard out; or the other is gone, and *)
(* it takes nothing for a message.                                         *)
LEMMA Handled ==
  ASSUME TypeOK, TakesTurns, NEW p \in Process, Handle(p)
  PROVE  \E m \in TakenMessages :
           /\ taken' = [taken EXCEPT ![p] = Append(taken[p], m)]
           /\ pc'[p] \in {"prompt", "send header", "leaving"}
           /\ wire' = wire /\ sent' = sent /\ Same(Other[p])
           /\ \/ m \in Messages /\ AllButTaken(p, m) /\ Hears(p) /\ wire[p] = <<>>
              \/ /\ m = NoMessage /\ pc'[p] = "leaving"
                 /\ pc[Other[p]] = "closed" /\ AllTaken(p)
  <1>1. PICK kinds \in SUBSET (Requests \cup Replies) : \E m \in Readings(got[p], kinds) :
           /\ pc[p] = "handle"
           /\ taken' = [taken EXCEPT ![p] = Append(taken[p], m)]
           /\ pc'[p] \in {"prompt", "send header", "leaving"}
           /\ m.kind = "none" => pc'[p] = "leaving"
           /\ wire' = wire /\ sent' = sent /\ shorts' = shorts
           /\ Same(Other[p])
    BY HandleChanges
  <1>2. PICK m \in Readings(got[p], kinds) :
           /\ pc[p] = "handle"
           /\ taken' = [taken EXCEPT ![p] = Append(taken[p], m)]
           /\ pc'[p] \in {"prompt", "send header", "leaving"}
           /\ m.kind = "none" => pc'[p] = "leaving"
           /\ wire' = wire /\ sent' = sent /\ shorts' = shorts
           /\ Same(Other[p])
    BY <1>1
  <1>3. CASE Hears(p)
    <2>1. PICK l \in Messages : AllButTaken(p, l) /\ Hearing(p, l)
      BY <1>3 DEF Hears
    <2>2. got[p] = Text(l) /\ wire[p] = <<>>
      BY <1>2, <2>1 DEF Hearing
    <2>3. m = l
      BY <1>2, <2>2, TextIsItsMessage
    <2>4. m \in TakenMessages
      BY <2>3 DEF Messages, TakenMessages
    <2> QED BY <1>2, <1>3, <2>1, <2>2, <2>3, <2>4
  <1>4. CASE pc[Other[p]] = "closed" /\ Deceived(p)
    <2>1. got[p][1].type = "number" /\ AllTaken(p)
      BY <1>2, <1>4 DEF Deceived
    <2>2. got[p] \in Seq(Byte) /\ got[p] # <<>>
      BY <1>2, TypeParts DEF LocalsOK, ReceivingOK
    <2>3. Readings(got[p], kinds) = {NoMessage}
      <3>1. ASSUME NEW r \in Seq(Byte), r # <<>>, r[1].type = "number"
            PROVE  Readings(r, kinds) = {NoMessage}
        BY <3>1, ReadingsTypes
      <3> QED BY <2>1, <2>2, <3>1
    <2>4. m = NoMessage
      BY <1>2, <2>3
    <2>5. pc'[p] = "leaving" /\ m \in TakenMessages
      BY <1>2, <2>4 DEF NoMessage, TakenMessages
    <2> QED BY <1>2, <1>4, <2>1, <2>4, <2>5
  <1> QED BY <1>2, <1>3, <1>4, Listener

LEMMA TurnHandle ==
  ASSUME TypeOK, TakesTurns, NEW p \in Process, Handle(p)
  PROVE  TakesTurns'
  <1> DEFINE o == Other[p]
  <1>1. HistoryOK /\ o \in Process /\ o # p /\ Other[o] = p
    BY TypeParts, TwoProcesses
  <1>2. PICK m \in TakenMessages :
           /\ taken' = [taken EXCEPT ![p] = Append(taken[p], m)]
           /\ pc'[p] \in {"prompt", "send header", "leaving"}
           /\ wire' = wire /\ sent' = sent /\ Same(o)
           /\ \/ m \in Messages /\ AllButTaken(p, m) /\ Hears(p) /\ wire[p] = <<>>
              \/ m = NoMessage /\ pc'[p] = "leaving" /\ pc[o] = "closed" /\ AllTaken(p)
    BY Handled
  <1>3. CASE AllButTaken(p, m) /\ Hears(p) /\ wire[p] = <<>>
    <2>1. taken'[p] = sent'[o]
      BY <1>1, <1>2, <1>3 DEF AllButTaken, HistoryOK
    <2>2. wire'[p] = <<>> /\ AllTaken(p)'
      BY <1>2, <1>3, <2>1 DEF AllTaken
    <2>3. Silent(o)'
      BY <1>1, <1>2, <1>3, StaysSilent DEF Hears
    <2>4. CASE pc'[p] = "leaving"
      BY <2>3, <2>4 DEF TakesTurns, Ends, Over, Silent
    <2>5. CASE pc'[p] \in {"prompt", "send header"}
      BY <2>2, <2>3, <2>5 DEF TakesTurns, Composes
    <2> QED BY <1>2, <2>4, <2>5
  <1>4. CASE pc'[p] = "leaving" /\ pc[o] = "closed"
    BY <1>1, <1>2, <1>4 DEF TakesTurns, Ends, Over, Same
  <1> QED BY <1>2, <1>3, <1>4

LEMMA TurnCommand ==
  ASSUME TypeOK, TakesTurns, NEW m \in Messages, Command(m)
  PROVE  TakesTurns'
  <1>1. ControlOK /\ "client" \in Process
        /\ Other["client"] \in Process /\ Other["client"] # "client"
    BY TypeParts, TwoProcesses DEF Process
  <1>2. Composes("client")
    BY <1>1, Speaker DEF Command
  <1>3. /\ pc' = [pc EXCEPT !["client"] = "send header"]
        /\ out' = [out EXCEPT !["client"] = m]
        /\ UNCHANGED <<wire, buffer, left, got, sent, taken>>
    BY DEF Command, Send, history
  <1>4. Same(Other["client"]) /\ pc'["client"] = "send header"
    BY <1>1, <1>3 DEF Same, ControlOK
  <1>5. Silent(Other["client"])'
    BY <1>1, <1>2, <1>3, <1>4, StaysSilent DEF Composes
  <1>6. Composes("client")'
    BY <1>2, <1>3, <1>4, <1>5 DEF Composes, AllTaken
  <1> QED BY <1>1, <1>6 DEF TakesTurns

(* A process that is gone has left nothing that the other does not get.    *)
LEMMA TurnClosed ==
  ASSUME TypeOK, TakesTurns, NEW p \in Process, Open(p), Closed(p)
  PROVE  TakesTurns'
  <1> DEFINE o == Other[p]
  <1>1. ControlOK /\ StreamsOK /\ LocalsOK /\ o \in Process /\ o # p /\ Other[o] = p
    BY TypeParts, TwoProcesses
  <1>2. pc'[p] = "closed" /\ sent' = sent /\ taken' = taken /\ Same(o)
    BY <1>1 DEF Closed, Forget, history, Same, ControlOK, LocalsOK
  <1>3. /\ wire'[p] = <<>>
        /\ wire'[o] = wire[o] \/ (wire'[o] = <<>> /\ wire[p] # <<>>)
    <2>1. \/ wire' = [wire EXCEPT ![p] = <<>>]
          \/ wire' = [q \in Process |-> <<>>] /\ wire[p] # <<>>
      BY DEF Closed
    <2> QED BY <1>1, <2>1 DEF StreamsOK
  <1>4. /\ Over(o) => Over(o)'
        /\ Listening(o) => Listening(o)'
        /\ wire[p] = <<>> /\ Deceived(o) => Deceived(o)'
    <2>1. Over(o) => Over(o)'
      BY <1>2 DEF Over, Same
    <2>2. Listening(o) => Listening(o)'
      BY <1>2, <1>3 DEF Listening, AllTaken, Same
    <2>3. wire[p] = <<>> /\ Deceived(o) => Deceived(o)'
      BY <1>1, <1>2, <1>3, StaysSilent
    <2> QED BY <2>1, <2>2, <2>3
  <1>5. Over(p)' /\ Silent(p)'
    BY <1>2, <1>3 DEF Over, Silent
  <1>6. (Over(o) \/ Listening(o)) => TakesTurns'
    BY <1>1, <1>4, <1>5 DEF TakesTurns, Ends
  <1>7. PICK s \in Process : Hears(s) \/ Composes(s) \/ Announces(s) \/ Ends(s)
    BY DEF TakesTurns
  <1>8. CASE s = p
    <2>1. CASE Announces(p) /\ HeaderAtMost(o, out[p].size)
      <3>1. out[p] \in Messages
        BY <1>1, <2>1 DEF Announces, ControlOK
      <3>2. out[p].size \in Sizes
        BY <3>1 DEF Messages
      <3>3. Deceived(o)
        BY <2>1, <3>2 DEF HeaderAtMost, Deceived
      <3>4. Deceived(o)'
        BY <1>4, <2>1, <3>3 DEF Announces
      <3> QED BY <1>2, <1>5, <3>4 DEF TakesTurns, Ends
    <2>2. CASE Over(o) \/ Listening(o)
      BY <1>6, <2>2
    <2>3. pc[p] # "closed"
      BY DEF Open
    <2> QED
      BY <1>7, <1>8, <2>1, <2>2, <2>3 DEF Hears, Composes, Announces, Ends, Silent
  <1>9. CASE s = o
    <2>1. CASE Hears(o)
      <3>1. wire'[o] = wire[o]
        BY <1>1, <1>3, <2>1 DEF Hears, Silent
      <3>2. PICK m \in Messages : AllButTaken(o, m) /\ Hearing(o, m)
        BY <2>1 DEF Hears
      <3>3. AllButTaken(o, m)' /\ Hearing(o, m)'
        BY <1>1, <1>2, <3>1, <3>2, StaysSilent
      <3> QED BY <1>1, <1>5, <3>3 DEF TakesTurns, Hears
    <2>2. CASE Composes(o)
      <3>1. wire'[o] = wire[o]
        BY <1>1, <1>3, <2>2 DEF Composes, Silent
      <3> QED BY <1>1, <1>2, <1>5, <2>2, <3>1 DEF TakesTurns, Composes, AllTaken, Same
    <2>3. CASE Announces(o)
      <3>1. wire'[o] = <<>>
        BY <1>3, <2>3 DEF Announces
      <3> QED BY <1>1, <1>2, <1>5, <2>3, <3>1 DEF TakesTurns, Announces, AllTaken, Same
    <2>4. CASE Ends(o)
      BY <1>6, <2>4 DEF Ends
    <2> QED BY <1>7, <1>9, <2>1, <2>2, <2>3, <2>4
  <1> QED BY <1>8, <1>9, TwoProcesses

-----------------------------------------------------------------------------
LEMMA ShortsStay == TypeOK /\ [Next]_vars /\ shorts' = 0 => shorts = 0
  <1> SUFFICES ASSUME TypeOK, [Next]_vars, shorts' = 0 PROVE shorts = 0
    OBVIOUS
  <1>1. shorts \in Nat
    BY ConnectionAssumption, TypeParts DEF StreamsOK
  <1>2. ASSUME NEW p \in Process, NEW n, recv(p, n) PROVE shorts = 0
    BY <1>1, <1>2 DEF recv
  <1>3. ASSUME UNCHANGED shorts PROVE shorts = 0
    BY <1>3
  <1> QED
    BY <1>2, <1>3 DEF Next, Step, SendHeader, SendBlock, BrokenPipe, SendFails,
         ReceiveHeader, ReceiveBlock, Close, Die, Closed, HandleReply, HandleRequest, Command, history, vars

(* Without a short recv, the turn goes from one process to the other.      *)
LEMMA TurnStep ==
  ASSUME TypeOK, GoneIsDeaf, shorts = 0 => TakesTurns, [Next]_vars
  PROVE  shorts' = 0 => TakesTurns'
  <1> SUFFICES ASSUME shorts' = 0 PROVE TakesTurns'
    OBVIOUS
  <1>0. TakesTurns
    BY ShortsStay
  <1>1. ASSUME NEW p \in Process, SendHeader(p) PROVE TakesTurns'
    BY <1>0, <1>1, TurnSendHeader
  <1>2. ASSUME NEW p \in Process, SendBlock(p) PROVE TakesTurns'
    BY <1>0, <1>2, TurnSendBlock
  <1>3. ASSUME NEW p \in Process, BrokenPipe(p) PROVE TakesTurns'
    BY <1>0, <1>3, TurnBrokenPipe
  <1>10. ASSUME NEW p \in Process, SendFails(p) PROVE TakesTurns'
    BY <1>0, <1>10, TurnSendFails
  <1>4. ASSUME NEW p \in Process, ReceiveHeader(p) PROVE TakesTurns'
    BY <1>0, <1>4, TurnReceiveHeader
  <1>5. ASSUME NEW p \in Process, ReceiveBlock(p) PROVE TakesTurns'
    BY <1>0, <1>5, TurnReceiveBlock
  <1>6. ASSUME NEW p \in Process, Close(p) \/ Die(p) PROVE TakesTurns'
    <2>1. Open(p) /\ Closed(p)
      BY <1>6 DEF Close, Die, Open
    <2> QED BY <1>0, <2>1, TurnClosed
  <1>7. ASSUME HandleReply \/ HandleRequest PROVE TakesTurns'
    <2>1. PICK p \in Process : Handle(p)
      BY <1>7 DEF Handle, Process
    <2> QED BY <1>0, <2>1, TurnHandle
  <1>8. ASSUME NEW m \in Messages, Command(m) PROVE TakesTurns'
    BY <1>0, <1>8, TurnCommand
  <1>9. ASSUME UNCHANGED vars PROVE TakesTurns'
    <2>1. UNCHANGED <<pc, wire, buffer, left, got, out, sent, taken>>
      BY <1>9 DEF vars, streams, history
    <2>2. PICK s \in Process : Hears(s) \/ Composes(s) \/ Announces(s) \/ Ends(s)
      BY <1>0 DEF TakesTurns
    <2>3. ASSUME NEW p
          PROVE  /\ Listening(p) => Listening(p)'
                 /\ Over(p) => Over(p)'
                 /\ Silent(p) => Silent(p)'
                 /\ Deceived(p) => Deceived(p)'
      BY <2>1 DEF Listening, Over, Silent, Deceived, AllTaken
    <2>4. CASE Hears(s)
      BY <2>1, <2>3, <2>4 DEF TakesTurns, Hears, Hearing, AllButTaken
    <2>5. CASE Composes(s)
      BY <2>1, <2>3, <2>5 DEF TakesTurns, Composes, AllTaken
    <2>6. CASE Announces(s)
      BY <2>1, <2>3, <2>6 DEF TakesTurns, Announces, HeaderAtMost, AllTaken
    <2>7. CASE Ends(s)
      BY <2>1, <2>3, <2>7 DEF TakesTurns, Ends
    <2> QED BY <2>2, <2>4, <2>5, <2>6, <2>7
  <1> QED
    BY <1>1, <1>2, <1>3, <1>4, <1>5, <1>6, <1>7, <1>8, <1>9, <1>10 DEF Next, Step

LEMMA CountStep ==
  ASSUME TypeOK, HeaderFirst, shorts = 0 => TakesTurns /\ RepliesCounted, [Next]_vars
  PROVE  shorts' = 0 => RepliesCounted'
  <1> SUFFICES ASSUME shorts' = 0 PROVE RepliesCounted'
    OBVIOUS
  <1>0. TakesTurns /\ RepliesCounted /\ (Lost => Lost')
    BY ShortsStay, LostStep
  <1>1. /\ ControlOK /\ ReceivingOK /\ HistoryOK
        /\ \A p \in Process : Other[p] \in Process /\ Other[p] # p
        /\ "client" \in Process
    BY TypeParts, TwoProcesses DEF Process
  <1>2. sent["client"] \in Seq(Messages) /\ taken["client"] \in Seq(TakenMessages)
        /\ Len(sent["client"]) \in Nat /\ Len(taken["client"]) \in Nat
    BY <1>1, LenProperties DEF HistoryOK
  <1>3. ASSUME UNCHANGED <<sent, taken>>,
               \/ pc'["client"] = pc["client"]
               \/ pc'["client"] \in {"leaving", "closed"}
               \/ {pc["client"], pc'["client"]} \subseteq {"prompt", "send header", "send block"}
               \/ {pc["client"], pc'["client"]} \subseteq {"receive header", "receive block", "handle"}
        PROVE  RepliesCounted'
    BY <1>0, <1>3 DEF RepliesCounted
  <1>11. ASSUME NEW p \in Process, SendFails(p) PROVE RepliesCounted'
    <2>1. /\ UNCHANGED <<wire, sent, taken>>
          /\ pc[p] \in {"send header", "send block"} /\ pc[Other[p]] = "closed"
          /\ \/ pc' = [pc EXCEPT ![p] = "leaving"] \/ pc' = [pc EXCEPT ![p] = "prompt"]
             \/ pc' = [pc EXCEPT ![p] = "receive header"] /\ Receive(p)
      BY <1>1, <1>11, SendFailsMoves DEF history
    <2>2. CASE p = "client" /\ pc' = [pc EXCEPT ![p] = "receive header"] /\ Receive(p)
      <3>1. wire["client"] = <<>>
        BY <1>0, <2>1, <2>2, Speaker DEF Composes, Announces
      <3>2. PICK garbage \in Unwritten : buffer' = [buffer EXCEPT ![p] = garbage]
        BY <2>2 DEF Receive
      <3>3. buffer'["client"][1].type = "number"
        BY <1>1, <2>2, <3>2, UnwrittenBytes, TypeParts DEF LocalsOK
      <3>4. pc'["client"] = "receive header" /\ pc'["child"] = "closed"
        BY <1>1, <2>1, <2>2 DEF ControlOK, Other
      <3>5. Lost'
        BY <2>1, <3>1, <3>3, <3>4 DEF Lost
      <3> QED BY <3>4, <3>5 DEF RepliesCounted
    <2>3. CASE p # "client" \/ pc' = [pc EXCEPT ![p] = "leaving"]
                            \/ pc' = [pc EXCEPT ![p] = "prompt"]
      BY <1>1, <1>3, <2>1, <2>3, ZenonT(60) DEF ControlOK
    <2> QED BY <2>1, <2>2, <2>3
  <1>4. ASSUME NEW p \in Process, SendHeader(p) \/ BrokenPipe(p) PROVE RepliesCounted'
    <2>1. \/ pc'["client"] = pc["client"] \/ pc'["client"] = "leaving"
          \/ pc["client"] = "send header" /\ pc'["client"] = "send block"
      BY <1>1, <1>4 DEF SendHeader, BrokenPipe, ControlOK
    <2> QED BY <1>3, <1>4, <2>1 DEF SendHeader, BrokenPipe, history
  <1>5. ASSUME NEW p \in Process, SendBlock(p) PROVE RepliesCounted'
    <2>1. /\ taken' = taken /\ sent' = [sent EXCEPT ![p] = Append(sent[p], out[p])]
          /\ pc[p] = "send block"
          /\ \/ pc' = [pc EXCEPT ![p] = "leaving"]
             \/ pc' = [pc EXCEPT ![p] = "receive header"]
          /\ out[p] \in Messages
      BY <1>1, <1>5 DEF SendBlock, ControlOK
    <2>2. CASE p = "client"
      <3>1. Len(sent'["client"]) = Len(sent["client"]) + 1
        <4>1. sent'["client"] = Append(sent["client"], out["client"])
          BY <1>1, <2>1, <2>2 DEF HistoryOK
        <4>2. \A s \in Seq(Messages) : \A m \in Messages : Len(Append(s, m)) = Len(s) + 1
          BY AppendProperties
        <4> QED BY <1>2, <2>1, <2>2, <4>1, <4>2
      <3>2. pc'["client"] \in {"leaving", "receive header"}
        BY <1>1, <2>1, <2>2 DEF ControlOK
      <3>3. Len(taken["client"]) = Len(sent["client"])
        BY <1>0, <2>1, <2>2 DEF RepliesCounted
      <3> QED BY <1>2, <2>1, <3>1, <3>2, <3>3 DEF RepliesCounted
    <2>3. CASE p # "client"
      <3>1. sent'["client"] = sent["client"] /\ pc'["client"] = pc["client"]
        BY <1>1, <2>1, <2>3 DEF HistoryOK, ControlOK
      <3> QED BY <1>0, <2>1, <3>1 DEF RepliesCounted
    <2> QED BY <2>2, <2>3
  <1>6. ASSUME NEW p \in Process, ReceiveHeader(p) \/ ReceiveBlock(p) PROVE RepliesCounted'
    <2>1. /\ UNCHANGED <<sent, taken>>
          /\ pc[p] \in {"receive header", "receive block"}
          /\ \E next \in {"receive header", "receive block", "handle"} :
               pc' = [pc EXCEPT ![p] = next]
      BY <1>6 DEF ReceiveHeader, ReceiveBlock
    <2>2. \/ pc'["client"] = pc["client"]
          \/ {pc["client"], pc'["client"]} \subseteq {"receive header", "receive block", "handle"}
      BY <1>1, <2>1 DEF ControlOK
    <2> QED BY <1>3, <2>1, <2>2
  <1>7. ASSUME NEW p \in Process, Close(p) \/ Die(p) PROVE RepliesCounted'
    <2>1. pc'["client"] = pc["client"] \/ pc'["client"] = "closed"
      BY <1>1, <1>7 DEF Close, Die, Closed, ControlOK
    <2> QED BY <1>3, <1>7, <2>1 DEF Close, Die, Closed, history
  <1>8. ASSUME HandleReply \/ HandleRequest PROVE RepliesCounted'
    <2>1. PICK p \in Process : Handle(p)
      BY <1>8 DEF Handle, Process
    <2>2. PICK m : /\ pc[p] = "handle"
                   /\ taken' = [taken EXCEPT ![p] = Append(taken[p], m)]
                   /\ pc'[p] \in {"prompt", "send header", "leaving"}
                   /\ sent' = sent /\ Same(Other[p])
      BY <2>1, HandleChanges
    <2>3. CASE p = "client"
      <3>1. Len(taken'["client"]) = Len(taken["client"]) + 1
        <4>1. taken'["client"] = Append(taken["client"], m)
          BY <1>1, <2>2, <2>3 DEF HistoryOK
        <4> QED BY <1>2, <4>1
      <3>2. Len(taken["client"]) + 1 = Len(sent["client"]) \/ Lost
        BY <1>0, <2>2, <2>3 DEF RepliesCounted
      <3>3. Lost' => pc'["client"] = "leaving"
        BY <2>2, <2>3 DEF Lost
      <3> QED BY <1>0, <2>2, <2>3, <3>1, <3>2, <3>3 DEF RepliesCounted
    <2>4. CASE Other[p] = "client"
      BY <1>0, <2>2, <2>4 DEF RepliesCounted, Same
    <2> QED BY <1>1, <2>3, <2>4, TwoProcesses
  <1>9. ASSUME NEW m \in Messages, Command(m) PROVE RepliesCounted'
    <2>1. pc["client"] = "prompt" /\ pc'["client"] = "send header"
      BY <1>1, <1>9 DEF Command, Send, ControlOK
    <2> QED BY <1>3, <1>9, <2>1 DEF Command, history
  <1>10. ASSUME UNCHANGED vars PROVE RepliesCounted'
    BY <1>3, <1>10 DEF vars, history
  <1> QED
    BY <1>4, <1>5, <1>6, <1>7, <1>8, <1>9, <1>10, <1>11 DEF Next, Step

(* What one process has taken stays what the other has sent.               *)
LEMMA TakenStep ==
  ASSUME TypeOK, shorts = 0 => TakesTurns, TakenAsSent, [Next]_vars
  PROVE  TakenAsSent'
  <1> SUFFICES ASSUME shorts' = 0, NEW p \in Process, NEW i \in DOMAIN taken'[p]
               PROVE  \/ i \in DOMAIN sent'[Other[p]] /\ taken'[p][i] = sent'[Other[p]][i]
                      \/ /\ i = Len(taken'[p]) /\ taken'[p][i] = NoMessage
                         /\ pc'[Other[p]] = "closed"
    BY DEF TakenAsSent, Open
  <1>1. /\ ControlOK /\ HistoryOK /\ TakesTurns
        /\ \A q \in Process : Other[q] \in Process /\ Other[q] # q /\ Other[Other[q]] = q
        /\ \A q \in Process : q = p \/ q = Other[p]
    BY TypeParts, ShortsStay, TwoProcesses
  <1>2. \A q \in Process : sent[q] \in Seq(Messages) /\ taken[q] \in Seq(TakenMessages)
    BY <1>1 DEF HistoryOK
  <1>3. \A q \in Process : \A j \in DOMAIN taken[q] :
          \/ j \in DOMAIN sent[Other[q]] /\ taken[q][j] = sent[Other[q]][j]
          \/ j = Len(taken[q]) /\ taken[q][j] = NoMessage /\ pc[Other[q]] = "closed"
    BY ShortsStay DEF TakenAsSent, Open
  <1> DEFINE Kept ==
        /\ taken' = taken
        /\ sent' = sent \/ \E q \in Process, m \in Messages :
                             sent' = [sent EXCEPT ![q] = Append(sent[q], m)]
        /\ \A q \in Process : pc[q] = "closed" => pc'[q] = "closed"
      Goal ==
        \/ i \in DOMAIN sent'[Other[p]] /\ taken'[p][i] = sent'[Other[p]][i]
        \/ i = Len(taken'[p]) /\ taken'[p][i] = NoMessage /\ pc'[Other[p]] = "closed"
  <1>4. ASSUME Kept PROVE Goal
    <2>1. \A q \in Process : \A j \in DOMAIN sent[q] :
            j \in DOMAIN sent'[q] /\ sent'[q][j] = sent[q][j]
      <3>1. ASSUME NEW q \in Process, NEW m \in Messages,
                   sent' = [sent EXCEPT ![q] = Append(sent[q], m)],
                   NEW r \in Process, NEW j \in DOMAIN sent[r]
            PROVE  j \in DOMAIN sent'[r] /\ sent'[r][j] = sent[r][j]
        <4>1. CASE r = q
          <5>1. sent'[r] = Append(sent[r], m)
            BY <1>1, <3>1, <4>1 DEF HistoryOK
          <5>2. \A a \in Seq(Messages) : \A l \in DOMAIN a :
                  l \in DOMAIN Append(a, m) /\ Append(a, m)[l] = a[l]
            OBVIOUS
          <5> QED BY <1>2, <5>1, <5>2
        <4>2. CASE r # q
          BY <1>1, <3>1, <4>2 DEF HistoryOK
        <4> QED BY <4>1, <4>2
      <3> QED BY <1>4, <3>1
    <2>2. CASE i \in DOMAIN sent[Other[p]] /\ taken[p][i] = sent[Other[p]][i]
      BY <1>1, <1>4, <2>1, <2>2
    <2>3. CASE i = Len(taken[p]) /\ taken[p][i] = NoMessage /\ pc[Other[p]] = "closed"
      BY <1>1, <1>4, <2>3
    <2> QED BY <1>3, <1>4, <2>2, <2>3
  <1>5. ASSUME NEW q \in Process, Step(q) \/ Die(q) PROVE Kept
    <2>1. /\ taken' = taken
          /\ \/ sent' = sent
             \/ sent' = [sent EXCEPT ![q] = Append(sent[q], out[q])] /\ out[q] \in Messages
      <3>1. CASE SendBlock(q)
        <4>1. out[q] \in Messages
          BY <1>1, <3>1 DEF SendBlock, ControlOK
        <4> QED BY <3>1, <4>1 DEF SendBlock
      <3>2. CASE SendHeader(q) \/ BrokenPipe(q)
        BY <3>2 DEF SendHeader, BrokenPipe, history
      <3>5. CASE SendFails(q)
        BY <3>5 DEF SendFails, history
      <3>3. CASE ReceiveHeader(q) \/ ReceiveBlock(q)
        BY <3>3 DEF ReceiveHeader, ReceiveBlock
      <3>4. CASE Close(q) \/ Die(q)
        BY <3>4 DEF Close, Die, Closed, history
      <3> QED BY <1>5, <3>1, <3>2, <3>3, <3>4, <3>5 DEF Step
    <2>2. \E next \in Control : /\ pc' = [pc EXCEPT ![q] = next]
                                /\ pc[q] = "closed" => next = "closed"
      <3>1. CASE SendHeader(q) \/ SendBlock(q) \/ BrokenPipe(q)
        BY <3>1 DEF SendHeader, SendBlock, BrokenPipe, Control
      <3>4. CASE SendFails(q)
        BY <1>1, <3>4, SendFailsMoves DEF Control
      <3>2. CASE ReceiveHeader(q) \/ ReceiveBlock(q)
        BY <1>1, <3>2 DEF ReceiveHeader, ReceiveBlock, Control
      <3>3. CASE Close(q) \/ Die(q)
        BY <3>3 DEF Close, Die, Closed, Control
      <3> QED BY <1>5, <3>1, <3>2, <3>3, <3>4 DEF Step
    <2>3. \A r \in Process : pc[r] = "closed" => pc'[r] = "closed"
      BY <1>1, <2>2 DEF ControlOK
    <2> QED BY <2>1, <2>3
  <1>6. ASSUME NEW m \in Messages, Command(m) PROVE Kept
    BY <1>1, <1>6 DEF Command, Send, history, ControlOK
  <1>7. ASSUME UNCHANGED vars PROVE Kept
    BY <1>7 DEF vars, history
  <1>8. ASSUME NEW q \in Process, Handle(q) PROVE Goal
    <2>1. PICK m \in TakenMessages :
           /\ taken' = [taken EXCEPT ![q] = Append(taken[q], m)]
           /\ pc'[q] \in {"prompt", "send header", "leaving"}
           /\ wire' = wire /\ sent' = sent /\ Same(Other[q])
           /\ \/ m \in Messages /\ AllButTaken(q, m) /\ Hears(q) /\ wire[q] = <<>>
              \/ m = NoMessage /\ pc'[q] = "leaving" /\ pc[Other[q]] = "closed" /\ AllTaken(q)
      BY <1>1, <1>8, Handled
    <2>2. CASE q = p
      <3>1. taken'[p] = Append(taken[p], m) /\ sent' = sent
        BY <1>1, <2>1, <2>2 DEF HistoryOK
      <3>2. CASE AllButTaken(p, m)
        BY <1>1, <3>1, <3>2 DEF AllButTaken
      <3>3. CASE m = NoMessage /\ pc[Other[p]] = "closed" /\ AllTaken(p)
        <4>1. pc'[Other[p]] = "closed"
          BY <2>1, <2>2, <3>3 DEF Same
        <4>2. i \in DOMAIN taken[p] \/ i = Len(taken'[p])
          BY <1>2, <3>1
        <4>3. CASE i \in DOMAIN taken[p]
          BY <1>2, <3>1, <3>3, <4>3 DEF AllTaken
        <4>4. CASE i = Len(taken'[p])
          BY <1>2, <3>1, <3>3, <4>1, <4>4
        <4> QED BY <4>2, <4>3, <4>4
      <3> QED BY <2>1, <2>2, <3>2, <3>3
    <2>3. CASE p = Other[q]
      <3>1. taken'[p] = taken[p] /\ sent' = sent /\ pc[Other[p]] # "closed"
        <4>1. pc[q] = "handle" /\ Other[p] = q
          BY <1>1, <1>8, <2>3 DEF Handle, HandleReply, HandleRequest, Process
        <4> QED BY <2>1, <2>3, <4>1 DEF Same
      <3> QED BY <1>3, <3>1
    <2> QED BY <1>1, <2>2, <2>3
  <1>9. ASSUME HandleReply \/ HandleRequest PROVE Goal
    <2>1. PICK q \in Process : Handle(q)
      BY <1>9 DEF Handle, Process
    <2> QED BY <1>8, <2>1
  <1>10. Kept \/ HandleReply \/ HandleRequest
    <2> HIDE DEF Kept
    <2> QED BY <1>5, <1>6, <1>7 DEF Next
  <1> QED
    <2> HIDE DEF Kept, Goal
    <2>1. Goal
      BY <1>4, <1>9, <1>10
    <2> QED BY <2>1 DEF Goal

-----------------------------------------------------------------------------
(* What holds of every state.                                              *)
Framed ==
  /\ TypeOK /\ HeaderFirst /\ GoneIsDeaf
  /\ shorts = 0 => TakesTurns /\ RepliesCounted
  /\ TakenAsSent

LEMMA FramedInit == Init => Framed
  <1> SUFFICES ASSUME Init PROVE Framed
    OBVIOUS
  <1>1. TypeOK
    BY TypeInit
  <1>2. /\ pc["client"] = "send header" /\ pc["child"] = "receive header"
        /\ wire = [p \in Process |-> <<>>] /\ got = [p \in Process |-> <<>>]
        /\ sent = [p \in Process |-> <<>>] /\ taken = [p \in Process |-> <<>>]
    BY DEF Init
  <1>3. RepliesCounted
    BY <1>2 DEF RepliesCounted, Process
  <1>4. buffer["child"][1].type = "number"
    <2>1. PICK b \in Unwritten : buffer = [client |-> NoBuffer, child |-> b]
      BY DEF Init
    <2>2. b[1].type = "number"
      BY UnwrittenBytes
    <2>3. buffer["child"] = b
      BY <2>1
    <2> QED BY <2>2, <2>3
  <1>5. Composes("client")
    <2>1. Other["client"] = "child" /\ Other["child"] = "client"
      BY DEF Other
    <2>2. \A p \in {"client", "child"} :
            wire[p] = <<>> /\ got[p] = <<>> /\ taken[p] = <<>> /\ sent[p] = <<>>
      BY <1>2 DEF Process
    <2>3. Listening("child")
      BY <1>2, <1>4, <2>1, <2>2 DEF Listening, AllTaken
    <2> QED BY <1>2, <2>1, <2>2, <2>3 DEF Composes, Silent, AllTaken
  <1>6. TakesTurns
    BY <1>5 DEF TakesTurns, Process
  <1>7. TakenAsSent
    <2>1. DOMAIN (<<>>) = {}
      OBVIOUS
    <2>2. \A p \in Process : taken[p] = <<>>
      BY <1>2
    <2> QED BY <2>1, <2>2 DEF TakenAsSent
  <1>8. HeaderFirst /\ GoneIsDeaf
    BY <1>2 DEF HeaderFirst, GoneIsDeaf
  <1> QED BY <1>1, <1>3, <1>6, <1>7, <1>8 DEF Framed

LEMMA FramedStep == Framed /\ [Next]_vars => Framed'
  BY TypeStep, HeaderFirstStep, GoneIsDeafStep, CountStep, TurnStep, TakenStep DEF Framed

(* The inductive invariant, and what it says of the turns, whatever the    *)
(* sizes: one process has the turn, and the other listens, or is over      *)
(* (ttweet_common.c:59, :76).                                              *)
THEOREM AlwaysFramed == Spec => []Framed
  BY FramedInit, FramedStep, PTL DEF Spec

(* As long as no recv was short, what a process takes for messages is what *)
(* the other sent, in order and whole, whatever was in its arrays: blocks  *)
(* and messages may have any size (ttweet_common.c:82).                    *)
THEOREM TakenIsSent == Spec => []TakenAsSent
  <1>1. Framed => TakenAsSent
    BY DEF Framed
  <1> QED BY <1>1, AlwaysFramed, PTL

(* As long as no recv was short, a client at its prompt has the reply to   *)
(* every request, and both ends are at the start of a header               *)
(* (README.md:54).                                                         *)
THEOREM PromptIsQuiet == Spec => []QuietAtPrompt
  <1>1. Framed => QuietAtPrompt
    <2> SUFFICES ASSUME Framed, shorts = 0, pc["client"] = "prompt"
                 PROVE  /\ Len(taken["client"]) = Len(sent["client"])
                        /\ \A p \in Process : wire[p] = <<>>
                        /\ pc["child"] \in {"receive header", "leaving", "closed"}
      BY DEF QuietAtPrompt
    <2>1. Len(taken["client"]) = Len(sent["client"])
      BY DEF Framed, RepliesCounted
    <2>2. Composes("client")
      BY Speaker DEF Framed, Process
    <2>3. Other["client"] = "child"
      BY DEF Other
    <2>4. wire["client"] = <<>> /\ Silent("child")
      BY <2>2, <2>3 DEF Composes
    <2> QED BY <2>1, <2>4 DEF Silent, Listening, Over, Process
  <1> QED BY <1>1, AlwaysFramed, PTL

(* Unless a recv was short, a client and its child never wait for each     *)
(* other in receive_response (ttweet_common.c:76).                         *)
THEOREM NobodyWaitsInVain == Spec => []NoMutualWait
  <1>1. Framed => NoMutualWait
    <2> SUFFICES ASSUME Framed, shorts = 0,
                        \A p \in Process : Receiving(p) /\ wire[p] = <<>>
                 PROVE  FALSE
      BY DEF NoMutualWait
    <2>1. PICK s \in Process : Hears(s) \/ Composes(s) \/ Announces(s) \/ Ends(s)
      BY DEF Framed, TakesTurns
    <2>2. Receiving(s) /\ wire[s] = <<>>
      OBVIOUS
    <2>3. Hears(s)
      BY <2>1, <2>2 DEF Receiving, Composes, Announces, Ends, Over
    <2>4. PICK m \in Messages : Hearing(s, m)
      BY <2>3 DEF Hears
    <2>5. CASE pc[s] = "receive header"
      <3>1. PICK block \in HeaderOf(m.size) : wire[s] = block \o Text(m)
        BY <2>4, <2>5 DEF Hearing
      <3>2. m.size \in Nat /\ Text(m) \in Seq(Byte)
        BY TextBytes
      <3>3. block \in Seq(Byte) /\ block # <<>>
        BY <3>2, HeaderIsBlock
      <3>4. \A a, b \in Seq(Byte) : a \o b = <<>> => a = <<>>
        BY ConcatSimplifications
      <3> QED BY <2>2, <3>1, <3>2, <3>3, <3>4
    <2>6. CASE pc[s] = "receive block"
      <3>1. left[s] = Len(wire[s])
        BY <2>4, <2>6 DEF Hearing
      <3>2. left[s] > 0
        BY <2>6 DEF Framed, TypeOK
      <3>3. Len(wire[s]) = 0
        BY <2>2
      <3> QED BY <3>1, <3>2, <3>3
    <2> QED BY <2>2, <2>5, <2>6 DEF Receiving
  <1> QED BY <1>1, AlwaysFramed, PTL
==============================================================================

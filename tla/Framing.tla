------------------------------ MODULE Framing -------------------------------
(***************************************************************************)
(* From a message to bytes and back: the binary form of the messages of    *)
(* bridges (src/zerobus/serialization.cpp), the frames in which they go    *)
(* over a TCP connection (websocket.cpp) or a pipe (bridge_pipe.cpp), the  *)
(* writes that the kernel takes in part, and reads that end anywhere.  A    *)
(* web page (src/javascript/client.js) has a codec of its own; the frames  *)
(* of its connection are made and read by the browser.                     *)
(*                                                                         *)
(* The numbers of the formats are parameters, so that each form of a       *)
(* length, and each border between two forms, comes with small messages.   *)
(* A string is a sequence of bytes.  Losses of connections are the subject *)
(* of TcpSession; here the stream stays.                                   *)
(*                                                                         *)
(* Left out: fragmented messages, which no bridge sends, and what a        *)
(* receiver answers.                                                       *)
(***************************************************************************)
EXTENDS Integers, SequencesExt

CONSTANTS
    Base,        \* values of a byte (256)
    Low,         \* values that a first byte of a number holds (32)
    ShortBytes,  \* bytes of a length after the mark 126 (2)
    LongBytes,   \* bytes of a length after the mark 127 (8)
    MaskBytes,   \* bytes of a masking key (4)
    Key,         \* keys that the client draws
    XorByte(_, _), \* ^
    InputBuffer, \* bytes that a read can return (_input_buffer_size, 4096)
    Room,        \* bound: bytes the kernel keeps of a stream
    Message,     \* bound: messages that are sent
    MaxMessages  \* bound: how many

ASSUME BaseSplits == Base \in Nat /\ Low \in 1 .. Base /\ Base % (2 * Low) = 0
ASSUME PowersOfTwo == \E i, j \in 1 .. 8 : Base = 2 ^ i /\ Low = 2 ^ j
ASSUME SizesPositive ==
    {ShortBytes, LongBytes, MaskBytes, InputBuffer, Room} \subseteq Nat \ {0}
ASSUME XorInverts == \A b, k \in 0 .. Base - 1 : XorByte(XorByte(b, k), k) = b
ASSUME KeysTyped == Key \subseteq [1 .. MaskBytes -> 0 .. Base - 1]

VARIABLES
    kind,    \* who sends: a "client" or a "server" over TCP, a "pipe", a "page"
             \* to a server, or a server "to page"
    out,     \* _output_data, _output_buffer
    allowed, \* _output_allowed, _clear_to_send
    want,    \* ready_to_send() was called
    stream,  \* external: bytes in the kernel
    parser,  \* ws::Parser of the receiver, or its _msg_tmp_buffer
    sent,    \* messages given to the bridge
    got      \* messages that the other one received

vars == <<kind, out, allowed, want, stream, parser, sent, got>>

Half == Base \div 2

-----------------------------------------------------------------------------
(* Serialization.                                                          *)

MessageType == <<"message", "channels_replace", "channels_add", "channels_erase",
                 "channels_reset", "no_route", "add_to_group", "close_group",
                 "group_empty", "new_session", "update_serial">>
Code(t) == Base - CHOOSE i \in DOMAIN MessageType : MessageType[i] = t
Lists == {"channels_replace", "channels_add", "channels_erase"}
Numbered == {"message", "new_session"}
Strings(t) == CASE t = "message" -> 3
                [] t \in {"no_route", "add_to_group"} -> 2
                [] t \in {"close_group", "group_empty", "update_serial"} -> 1
                [] OTHER -> 0

\* v in n bytes, the highest first.
BigEndian(v, n) == [i \in 1 .. n |-> (v \div Base ^ (n - i)) % Base]

WriteUint_ByBytes(v) ==
    LET n == CHOOSE k \in 0 .. v : v < Base ^ (k + 1) /\ \A j \in 0 .. k - 1 : v >= Base ^ (j + 1)
    IN <<(n * Low + v \div Base ^ n) % Base>> \o BigEndian(v, n)
\* write_uint(): in the first byte the number of others and the highest digit.
WriteUint(v) ==
    LET Fits(k) == v \div Base ^ k < Low
        n == CHOOSE k \in 0 .. v : Fits(k) /\ \A j \in 0 .. k - 1 : ~Fits(j)
    IN <<(n * Low + v \div Base ^ n) % Base>> \o BigEndian(v, n)

Min2(a, b) == IF a < b THEN a ELSE b
\* read_uint(): what it returns, and what is left of s.
ReadUint(s) ==
    IF s = <<>> THEN [v |-> 0, rest |-> s]
    ELSE LET n == Min2(s[1] \div Low, Len(s) - 1)
         IN [v |-> FoldLeft(LAMBDA a, b : a * Base + b, s[1] % Low, SubSeq(s, 2, n + 1)),
             rest |-> SubSeq(s, n + 2, Len(s))]
CanReadUint(s) == s # <<>> /\ Len(s) > s[1] \div Low

WriteString(str) == WriteUint(Len(str)) \o str
ReadString(s) ==
    LET u == ReadUint(s)
        n == Min2(u.v, Len(u.rest))
    IN [str |-> SubSeq(u.rest, 1, n), rest |-> SubSeq(u.rest, n + 1, Len(u.rest))]
-----------------------------------------------------------------------------
(* Serialization in the page.                                              *)

\* Math.floor(Math.log2(v)) + 1
Bits(v) == CHOOSE k \in 1 .. v : 2 ^ (k - 1) <= v /\ v < 2 ^ k
\* (bits + 2) / 8 in the code, for bytes of 8 bits of which the first holds 5.
MoreBytes(v) ==
    LET spare == Bits(Base) - Bits(Low) - 1
    IN (Bits(v) + spare) \div (Bits(Base) - 1)
\* encode_uint()
EncodeUint(v) ==
    IF v = 0 THEN <<0>>
    ELSE LET n == MoreBytes(v)
         IN <<(n * Low + v \div Base ^ n) % Base>> \o BigEndian(v, n)
\* decode_uint()
DecodeUint(s) ==
    LET n == s[1] \div Low
    IN [v |-> FoldLeft(LAMBDA a, b : a * Base + b, s[1] % Low, SubSeq(s, 2, n + 1)),
        rest |-> SubSeq(s, n + 2, Len(s))]
\* encode_string(), decode_binary_string()
EncodeString(str) == EncodeUint(Len(str)) \o str
DecodeString(s) ==
    LET u == DecodeUint(s)
    IN [str |-> SubSeq(u.rest, 1, u.v), rest |-> SubSeq(u.rest, u.v + 1, Len(u.rest))]

-----------------------------------------------------------------------------
(* Messages, by the codec of the page or by that of the bridges.           *)

ReadStrings(s, n, page) ==
    LET r[i \in 0 .. n] ==
            IF i = 0 THEN [list |-> <<>>, rest |-> s]
            ELSE LET x == IF page THEN DecodeString(r[i - 1].rest) ELSE ReadString(r[i - 1].rest)
                 IN [list |-> Append(r[i - 1].list, x.str), rest |-> x.rest]
    IN r[n].list

\* The fields of a message after each other.
Compose(m, page) ==
    LET uint(v) == IF page THEN EncodeUint(v) ELSE WriteUint(v)
        string(str) == IF page THEN EncodeString(str) ELSE WriteString(str)
    IN <<Code(m.type)>>
       \o (IF m.type \in Numbered THEN uint(m.n) ELSE <<>>)
       \o (IF m.type \in Lists THEN uint(Len(m.strs)) ELSE <<>>)
       \o FlattenSeq([i \in DOMAIN m.strs |-> string(m.strs[i])])
Parse(s, page) ==
    LET t == MessageType[Base - s[1]]
        u == IF t \in Numbered \cup Lists
             THEN IF page THEN DecodeUint(Tail(s)) ELSE ReadUint(Tail(s))
             ELSE [v |-> 0, rest |-> Tail(s)]
    IN [type |-> t,
        n |-> IF t \in Numbered THEN u.v ELSE 0,
        strs |-> ReadStrings(u.rest, IF t \in Lists THEN u.v ELSE Strings(t), page)]

\* UserMsg, which a class derived from a bridge may send: what begins with none
\* of the types, and has no inner form.
UserType == 0 .. Base - Len(MessageType) - 1
UserBytes(m) == <<m.n>> \o m.strs[1]
UserMsg(s) == [type |-> "user", n |-> s[1], strs |-> <<Tail(s)>>]

\* Serialization::operator(), Deserialization::operator()
Serialize(m) == IF m.type = "user" THEN UserBytes(m) ELSE Compose(m, FALSE)
Deserialize(s) == IF s[1] \in UserType THEN UserMsg(s) ELSE Parse(s, FALSE)

\* send_channels(), on_message() and the others; #on_message()
PageComposes(m) == Compose(m, TRUE)
PageParses(s) == Parse(s, TRUE)

-----------------------------------------------------------------------------
(* Websocket frames.  The end of a connection, and a ping, are frames of   *)
(* their own.                                                              *)

Binary == 2
Close == 3
Ping == 4
Opcode(m) == CASE m.type = "close" -> Close [] m.type = "ping" -> Ping [] OTHER -> Binary

\* The payload: of a close frame a code, a text and a zero.
Payload(m) == CASE m.type = "close" -> BigEndian(m.n, 2) \o m.strs[1] \o <<0>>
                [] m.type = "ping" -> <<>>
                [] OTHER -> IF kind = "page" THEN PageComposes(m) ELSE Serialize(m)

LengthBytes(len) ==
    CASE len < Half - 2 -> <<len>>
      [] len >= Half - 2 /\ len < Base ^ ShortBytes -> <<Half - 2>> \o BigEndian(len, ShortBytes)
      [] OTHER -> <<Half - 1>> \o BigEndian(len, LongBytes)

NoKey == [i \in 1 .. MaskBytes |-> 0]
Masked(s, key) == [i \in DOMAIN s |-> XorByte(s[i], key[((i - 1) % MaskBytes) + 1])]

Masking == {"client", "page"}
\* Builder::build(): the frame, with the bit for a last frame and, from a
\* client, that for a mask.
Build(m, key) ==
    LET len == LengthBytes(Len(Payload(m)))
    IN <<Half + Opcode(m)>>
       \o (IF kind \in Masking THEN <<Half + len[1]>> \o Tail(len) \o key ELSE len)
       \o Masked(Payload(m), key)

\* ws::Parser after reset(); done: the messages that were complete.
NewParser == [st |-> "first_byte", left |-> 0, len |-> 0, at |-> 0, op |-> 0, masked |-> FALSE,
              key |-> NoKey, msg |-> <<>>, done |-> <<>>]

\* get_message(), and what the bridge makes of it.
GetMessage(op, s) ==
    CASE op = Close -> [type |-> "close", n |-> s[1] * Base + s[2],
                        strs |-> <<SubSeq(s, 3, Len(s) - 1)>>]
      [] op = Ping -> [type |-> "ping", n |-> 0, strs |-> <<>>]
      [] OTHER -> IF kind = "to page" THEN PageParses(s) ELSE Deserialize(s)
\* A frame is complete: its message is taken and the parser is reset().
Complete(p, s) == [NewParser EXCEPT !.done = Append(p.done, GetMessage(p.op, s))]
PayloadFollows(p, n) == IF n = 0 THEN Complete(p, p.msg)
                        ELSE [p EXCEPT !.st = "payload", !.left = n, !.len = n, !.at = 0]
MaskFollows(p, n) == [p EXCEPT !.st = "masking", !.left = MaskBytes, !.len = n]

\* push_data(): one byte, and all of them.
PushByte(p, c) ==
    CASE p.st = "first_byte" ->
           [p EXCEPT !.op = c % Half, !.st = "second_byte"]
      [] p.st = "second_byte" ->
           LET n == c % Half
               q == [p EXCEPT !.masked = c >= Half]
           IN IF n >= Half - 2
              THEN [q EXCEPT !.st = "payload_len",
                             !.left = IF n = Half - 1 THEN LongBytes ELSE ShortBytes]
              ELSE IF q.masked THEN MaskFollows(q, n) ELSE PayloadFollows(q, n)
      [] p.st = "payload_len" ->
           LET n == p.len * Base + c
           IN IF p.left > 1 THEN [p EXCEPT !.left = @ - 1, !.len = n]
              ELSE IF p.masked THEN MaskFollows(p, n) ELSE PayloadFollows(p, n)
      [] p.st = "masking" ->
           LET q == [p EXCEPT !.key[MaskBytes + 1 - p.left] = c, !.left = @ - 1]
           IN IF q.left > 0 THEN q ELSE PayloadFollows(q, p.len)
      [] p.st = "payload" ->
           LET s == Append(p.msg, XorByte(c, p.key[p.at + 1]))
           IN IF p.left > 1
              THEN [p EXCEPT !.msg = s, !.left = @ - 1, !.at = (@ + 1) % MaskBytes]
              ELSE Complete(p, s)
PushData(p, data) ==
    LET r[i \in 0 .. Len(data)] == IF i = 0 THEN p ELSE PushByte(r[i - 1], data[i])
    IN r[Len(data)]

-----------------------------------------------------------------------------
(* Pipes: a message after its length.                                      *)

\* parse_messages(): the messages that are there, and the rest.
ParseMessages(data) ==
    LET parse[n \in 0 .. Len(data)] ==   \* of the last n bytes
            LET s == SubSeq(data, Len(data) - n + 1, Len(data))
                u == ReadUint(s)
            IN IF CanReadUint(s) /\ Len(u.rest) >= u.v
               THEN LET r == parse[Len(u.rest) - u.v]
                    IN [r EXCEPT !.done = <<Deserialize(SubSeq(u.rest, 1, u.v))>> \o @]
               ELSE [done |-> <<>>, rest |-> s]
    IN parse[Len(data)]

-----------------------------------------------------------------------------
(* The bridges.                                                            *)

Init ==
    /\ kind \in {"client", "server", "pipe", "page", "to page"}
    /\ out = <<>> /\ stream = <<>> /\ allowed = FALSE /\ want = TRUE
    /\ parser = IF kind = "pipe" THEN <<>> ELSE NewParser
    /\ sent = <<>> /\ got = <<>>

\* The kernel takes n bytes of data.
Write(data, n) ==
    /\ Len(stream) + n <= Room
    /\ stream' = stream \o SubSeq(data, 1, n)
    /\ out' = SubSeq(data, n + 1, Len(data))

\* The bridge has a message to send and sends what it may: flush_buffer(),
\* flush_output().
SendFrame(m, frame) ==
    /\ Len(sent) < MaxMessages /\ m \notin ToSet(sent)
    /\ sent' = Append(sent, m)
    /\ \E n \in IF allowed THEN (IF kind = "pipe" THEN 1 ELSE 0) .. Len(out \o frame) ELSE {0} :
           Write(out \o frame, n)
    /\ allowed' = FALSE
    /\ want' = (want \/ allowed)
    /\ UNCHANGED <<kind, parser, got>>

\* output_message(): nothing follows the end of a connection.
OutputMessage(m) ==
    /\ kind \in {"client", "server", "to page"} /\ \A x \in ToSet(sent) : x.type # "close"
    /\ kind = "to page" => m.type \notin {"close", "ping", "user"}
    /\ \E key \in IF kind = "client" THEN Key ELSE {NoKey} : SendFrame(m, Build(m, key))

\* WebSocket.send() of a page, which has no message for a new session and none
\* of users: the browser makes the frame, and keeps what it cannot send yet.
PageSends(m) ==
    /\ kind = "page" /\ m.type \notin {"close", "ping", "user", "new_session"}
    /\ \E key \in Key : SendFrame(m, Build(m, key))

\* send_gen()
SendGen(m) ==
    /\ kind = "pipe" /\ m.type \notin {"close", "ping"}
    /\ SendFrame(m, WriteUint(Len(Serialize(m))) \o Serialize(m))

\* BridgeTCPCommon::clear_to_send(): it asks again while something is left.
ClearToSend ==
    /\ kind # "pipe" /\ want /\ Len(stream) < Room
    /\ \E n \in IF out = <<>> THEN {0} ELSE 1 .. Len(out) : Write(out, n)
    /\ want' = (out' # <<>>) /\ allowed' = (out' = <<>>)
    /\ UNCHANGED <<kind, parser, sent, got>>

\* BridgePipe::clear_to_send(): it asks again after each write.
PipeClearToSend ==
    /\ kind = "pipe" /\ want /\ Len(stream) < Room
    /\ \E n \in IF out = <<>> THEN {0} ELSE 1 .. Len(out) : Write(out, n)
    /\ want' = (out # <<>>) /\ allowed' = (out = <<>>)
    /\ UNCHANGED <<kind, parser, sent, got>>

\* The receiver waits for bytes: over TCP, until the end of the connection.
Waits == kind # "pipe" => \A x \in ToSet(got) : x.type # "close"
\* A read returns the first n bytes of the stream.
Read(n) ==
    /\ Waits /\ n <= InputBuffer /\ n <= Len(stream)
    /\ stream' = SubSeq(stream, n + 1, Len(stream))

\* BridgeTCPCommon::receive_complete()
ReceiveComplete(n) ==
    /\ kind # "pipe" /\ Read(n)
    /\ LET p == PushData(parser, SubSeq(stream, 1, n))
       IN /\ got' = got \o p.done
          /\ parser' = [p EXCEPT !.done = <<>>]
    /\ UNCHANGED <<kind, out, allowed, want, sent>>

\* combine_input_before_parse()
CombineInput(data) == parser \o data
\* BridgePipe::receive_complete(), with the bytes of a message that came
\* before.
PipeReceiveComplete(n) ==
    /\ kind = "pipe" /\ Read(n)
    /\ LET p == ParseMessages(CombineInput(SubSeq(stream, 1, n)))
       IN /\ got' = got \o p.done
          /\ parser' = p.rest
    /\ UNCHANGED <<kind, out, allowed, want, sent>>

Next ==
    \/ \E m \in Message : OutputMessage(m) \/ PageSends(m) \/ SendGen(m)
    \/ ClearToSend \/ PipeClearToSend
    \/ \E n \in 1 .. Room : ReceiveComplete(n) \/ PipeReceiveComplete(n)

\* The network context calls back (see NetContext); nothing but a read takes
\* bytes from the stream.
Fairness ==
    /\ WF_vars(ClearToSend) /\ WF_vars(PipeClearToSend)
    /\ WF_stream(\E n \in 1 .. Room : Read(n))

Spec == Init /\ [][Next]_vars /\ Fairness

-----------------------------------------------------------------------------
(* Properties                                                              *)

\* However the bytes are cut, the other side receives the messages that were
\* sent, and in the end all of them (websocket.cpp, bridge_pipe.cpp).
F == INSTANCE Fifo
IsFifo == F!Spec
=============================================================================

----------------------------- MODULE TcpSession -----------------------------
(***************************************************************************)
(* A bridge over TCP: a client (src/zerobus/bridge_tcp_client.cpp) that    *)
(* connects again whenever its connection is lost, and a server            *)
(* (bridge_tcp_server.cpp) with a peer object for each connection.  Both   *)
(* keep what they send in a buffer with message boundaries                 *)
(* (bridge_tcp_common.cpp), because the kernel takes it in pieces.         *)
(*                                                                         *)
(* Connections are numbered as the client makes them.  A stream is a       *)
(* sequence of cells: a bus message has two, so that it can be cut, and    *)
(* everything else has one.  A read takes one cell; a longer one is the    *)
(* same as several.  A list of channels is a version number, and an update *)
(* of a list tells from which version to which.                            *)
(*                                                                         *)
(* A callback, and an output_message() of a bus thread, is one step; only  *)
(* the opening of a session by a peer is two.  External: the network, and  *)
(* NetContext, which calls back once for each request.                     *)
(*                                                                         *)
(* Abstracted: an HTTP header is one cell and the upgrade succeeds; frames *)
(* of the server are not cut; pings; the way out of a client's destructor. *)
(***************************************************************************)
EXTENDS Integers, Sequences, FiniteSets

CONSTANTS
    SessionTimeout, \* BOOLEAN: set_session_timeout() was called
    Resume,         \* BOOLEAN: the client's URL carries a session id
    Hwm,            \* _hwm in cells
    Room,           \* bound: cells the network takes in one direction
    MaxConn,        \* bound: connections made by the client
    MaxMsgs,        \* bound: bus messages that it sends
    MaxChanges      \* bound: changes of the lists of channels

ASSUME FlagsBoolean == SessionTimeout \in BOOLEAN /\ Resume \in BOOLEAN
ASSUME SizesPositive == {Hwm, Room, MaxConn} \subseteq Nat \ {0}
ASSUME BoundsNat == MaxMsgs \in Nat /\ MaxChanges \in Nat

VARIABLES
    conn,     \* number of the client's connection
    cl,       \* BridgeTCPClient
    sv,       \* the peers of BridgeTCPServer, by connection
    srv,      \* BridgeTCPServer: its list of channels, timer and mutex
    net,      \* external: the connections
    sent,     \* bus messages given to the client's bridge
    received, \* those that peers gave to the server's broker, in that order
    lost      \* history: an update of a list was dropped or overtaken

vars == <<conn, cl, sv, srv, net, sent, received, lost>>

Conn == 1 .. MaxConn
None == 0        \* an empty list
Wrong == -1      \* a list that an update did not fit
Whole == -2      \* the base of an update that replaces the list

Msg(n) == [t |-> "msg", a |-> n, b |-> 0]
NewSession == [t |-> "new", a |-> 0, b |-> 0]
ChannelReset == [t |-> "reset", a |-> 0, b |-> 0]
ChannelUpdate(a, b) == [t |-> "chan", a |-> a, b |-> b]
Get == [t |-> "get", a |-> 0, b |-> 0]
Switching == [t |-> "101", a |-> 0, b |-> 0]

Size(m) == IF m.t = "msg" THEN 2 ELSE 1
Cells(m) == [i \in 1 .. Size(m) |-> [m |-> m, part |-> i]]

EmptyOut == [data |-> <<>>, sp |-> <<>>, cursor |-> 0, allowed |-> FALSE, want |-> TRUE]

NoPeer == [st |-> "none", out |-> EmptyOut, rd |-> FALSE, opening |-> FALSE,
           told |-> None, known |-> None, part |-> <<>>]

Init ==
    /\ conn = 0
    /\ cl = [hs |-> TRUE, out |-> [EmptyOut EXCEPT !.want = FALSE], rd |-> FALSE,
             reset |-> FALSE, retry |-> FALSE, timer |-> FALSE,
             list |-> 1, told |-> None, known |-> None]
    /\ sv = [c \in Conn |-> NoPeer]
    /\ srv = [list |-> 1, timer |-> FALSE, stuck |-> FALSE]
    /\ net = [c \in Conn |-> [up |-> FALSE, toS |-> <<>>, toC |-> <<>>]]
    /\ sent = 0 /\ received = <<>> /\ lost = FALSE

-----------------------------------------------------------------------------
(* The output buffer: _output_data, _output_msg_sp, _output_cursor,        *)
(* _output_allowed, and want for a pending ready_to_send().                *)

View(o) == SubSeq(o.data, o.cursor + 1, Len(o.data))

Ends_Early(sp, cursor) == {i \in 1 .. Len(sp) : i = 1 \/ sp[i] < cursor}
\* The boundaries that std::upper_bound() passes over.
Ends(sp, cursor) == {i \in 1 .. Len(sp) : sp[i] <= cursor}

AfterSend_NotShifted(o, n) ==
    LET cursor == o.cursor + n
        i == CHOOSE k \in Ends(o.sp, cursor) : \A j \in Ends(o.sp, cursor) : j <= k
        pos == o.sp[i]
    IN IF o.sp = <<>> THEN o
       ELSE IF cursor = Len(o.data)
       THEN [o EXCEPT !.data = <<>>, !.sp = <<>>, !.cursor = 0]
       ELSE [o EXCEPT !.data = SubSeq(o.data, pos + 1, Len(o.data)),
                      !.sp = SubSeq(@, i, Len(@)), !.cursor = cursor - pos]
AfterSend_Uncounted(o, n) ==
    LET cursor == o.cursor + n
        i == CHOOSE k \in Ends(o.sp, cursor) : \A j \in Ends(o.sp, cursor) : j <= k
        pos == o.sp[i]
    IN IF o.sp = <<>> THEN o
       ELSE IF cursor = Len(o.data)
       THEN [o EXCEPT !.data = <<>>, !.sp = <<>>, !.cursor = 0]
       ELSE [o EXCEPT !.data = SubSeq(o.data, pos + 1, Len(o.data)),
                      !.sp = [k \in 1 .. Len(o.sp) - i + 1 |-> o.sp[k + i - 1] - pos],
                      !.cursor = @ - pos]
\* after_send(): what is sent completely goes away, the cursor stays in the
\* message that is being sent.
AfterSend(o, n) ==
    LET cursor == o.cursor + n
        i == CHOOSE k \in Ends(o.sp, cursor) : \A j \in Ends(o.sp, cursor) : j <= k
        pos == o.sp[i]
    IN IF o.sp = <<>> THEN o
       ELSE IF cursor = Len(o.data)
       THEN [o EXCEPT !.data = <<>>, !.sp = <<>>, !.cursor = 0]
       ELSE [o EXCEPT !.data = SubSeq(o.data, pos + 1, Len(o.data)),
                      !.sp = [k \in 1 .. Len(o.sp) - i + 1 |-> o.sp[k + i - 1] - pos],
                      !.cursor = cursor - pos]

\* One more message in the buffer.
Push(o, m) == [o EXCEPT !.sp = Append(@, Len(o.data)), !.data = @ \o Cells(m)]
PushAll(o, ms) ==
    LET r[i \in 0 .. Len(ms)] == IF i = 0 THEN o ELSE Push(r[i - 1], ms[i])
    IN r[Len(ms)]

\* flush_buffer() for the messages of one callback: the first of them uses
\* up the permission to send.
Flushed(o, n) == IF o.allowed
                 THEN [AfterSend(o, n) EXCEPT !.allowed = FALSE, !.want = TRUE] ELSE o
Taken(o, n) == IF o.allowed THEN SubSeq(View(o), 1, n) ELSE <<>>
FlushSizes(o, ms) ==
    IF o.allowed /\ ms # <<>> THEN 0 .. Len(View(Push(o, Head(ms)))) ELSE {0}

\* output_message() for each of ms, the first with n cells sent at once; none
\* during the handshake.  Bus messages wait at the high-water mark, or time
\* out; see block_hwm in Post.
Output(o, hs, ms, n) ==
    IF hs \/ ms = <<>> THEN o ELSE PushAll(Flushed(Push(o, Head(ms)), n), Tail(ms))
OutputCells(o, hs, ms, n) ==
    IF hs \/ ms = <<>> THEN <<>> ELSE Taken(Push(o, Head(ms)), n)

\* What a write does to a stream: it may fail to reach a lost connection.
Fits(stream, cells) == Len(stream) + Len(cells) <= Room
Carry(up, stream, cells) == IF up THEN stream \o cells ELSE stream

-----------------------------------------------------------------------------
(* Lists of channels (AbstractBridge).                                     *)

\* send_mine_channels(): the update and the list as told.
Update(list, told, reset) ==
    IF told = None \/ reset THEN <<ChannelUpdate(Whole, list)>>
    ELSE IF told = list THEN <<>> ELSE <<ChannelUpdate(told, list)>>

\* receive(ChannelUpdate)
Apply(known, m) == IF m.a = Whole \/ m.a = known THEN m.b ELSE Wrong

\* What NewSession and ChannelReset make the other side send: its whole list.
Answer(m, list, told) ==
    IF m.t \in {"new", "reset"} THEN Update(list, told, TRUE) ELSE <<>>
Known(m, known) == IF m.t = "new" THEN None
                   ELSE IF m.t = "chan" THEN Apply(known, m) ELSE known

-----------------------------------------------------------------------------
(* The client.                                                             *)

\* bind(): its NewSession is not sent, the handshake is not over.
Bind ==
    /\ conn = 0 /\ conn' = 1
    /\ net' = [net EXCEPT ![1].up = TRUE]
    /\ cl' = [cl EXCEPT !.out.want = TRUE]
    /\ UNCHANGED <<sv, srv, sent, received, lost>>

Reconnected_Midway(k) ==
    [k EXCEPT !.reset = TRUE, !.hs = TRUE, !.rd = FALSE,
              !.out = [@ EXCEPT !.allowed = FALSE, !.want = TRUE]]
\* lost_connection(): a new connection, on which the message that was being
\* sent starts again ...
Reconnected(k) ==
    [k EXCEPT !.reset = TRUE, !.hs = TRUE, !.rd = FALSE,
              !.out = [@ EXCEPT !.allowed = FALSE, !.cursor = 0, !.want = TRUE]]
\* ... or none, and another try after two seconds.
NotReconnected(k) ==
    [k EXCEPT !.reset = TRUE, !.out.allowed = FALSE, !.retry = TRUE, !.timer = TRUE]

LostConnection(k) ==
    \/ /\ conn < MaxConn /\ conn' = conn + 1
       /\ net' = [net EXCEPT ![conn + 1].up = TRUE, ![conn].up = FALSE, ![conn].toC = <<>>]
       /\ cl' = Reconnected(k)
    \/ conn < MaxConn /\ cl' = NotReconnected(k) /\ UNCHANGED <<conn, net>>

\* clear_to_send() during the handshake: the request.
SendHandshake ==
    /\ conn # 0 /\ cl.out.want /\ cl.hs
    /\ LET k == [cl EXCEPT !.out.want = FALSE]
       IN IF net[conn].up
          THEN /\ net' = [net EXCEPT ![conn].toS = @ \o Cells(Get)]
               /\ cl' = [k EXCEPT !.rd = TRUE] /\ UNCHANGED conn
          ELSE LostConnection(k)
    /\ UNCHANGED <<sv, srv, sent, received, lost>>

\* BridgeTCPCommon::clear_to_send(), called when the network takes something
\* or is broken; only then may the write return 0.
ClearedToSend(o, n) ==
    LET r == AfterSend([o EXCEPT !.want = FALSE], n)
    IN IF r.data # <<>> THEN [r EXCEPT !.want = TRUE] ELSE [r EXCEPT !.allowed = TRUE]

ClientClearToSend ==
    /\ conn # 0 /\ cl.out.want /\ ~cl.hs
    /\ \/ \E n \in (IF cl.out.data = <<>> THEN {0} ELSE 1 .. Len(View(cl.out))) :
            LET cells == SubSeq(View(cl.out), 1, n)
            IN /\ net[conn].up => Fits(net[conn].toS, cells)
               /\ net' = [net EXCEPT ![conn].toS = Carry(net[conn].up, @, cells)]
               /\ cl' = [cl EXCEPT !.out = ClearedToSend(@, n)]
               /\ UNCHANGED conn
       \/ /\ cl.out.data # <<>> /\ ~net[conn].up
          /\ LostConnection([cl EXCEPT !.out.want = FALSE])
    /\ UNCHANGED <<sv, srv, sent, received, lost>>

\* receive_complete() with the response: the session is on, and after a loss
\* the server is asked for its list.
HandshakeDone ==
    /\ cl.hs /\ cl.rd /\ net[conn].toC # <<>>
    /\ cl' = [cl EXCEPT !.hs = FALSE,
                        !.out = [Output(@, FALSE, IF cl.reset THEN <<ChannelReset>> ELSE <<>>, 0)
                                 EXCEPT !.want = TRUE]]
    /\ net' = [net EXCEPT ![conn].toC = Tail(@)]
    /\ UNCHANGED <<conn, sv, srv, sent, received, lost>>

\* receive_complete() with a message of the server.
ClientReceive ==
    /\ ~cl.hs /\ cl.rd /\ net[conn].toC # <<>>
    /\ LET m == Head(net[conn].toC).m
           reply == Answer(m, cl.list, cl.told)
       IN \E n \in FlushSizes(cl.out, reply) :
          LET cells == OutputCells(cl.out, FALSE, reply, n) IN
          /\ net[conn].up => Fits(net[conn].toS, cells)
          /\ cl' = [cl EXCEPT !.known = Known(m, @),
                              !.told = IF reply = <<>> THEN @ ELSE cl.list,
                              !.out = Output(@, FALSE, reply, n)]
          /\ net' = [net EXCEPT ![conn].toC = Tail(@),
                                ![conn].toS = Carry(net[conn].up, @, cells)]
    /\ UNCHANGED <<conn, sv, srv, sent, received, lost>>

\* receive_complete() with nothing.
ClientClosed ==
    /\ conn # 0 /\ cl.rd /\ ~net[conn].up /\ net[conn].toC = <<>>
    /\ LostConnection([cl EXCEPT !.rd = FALSE])
    /\ UNCHANGED <<sv, srv, sent, received, lost>>

\* on_timeout(): the second try, or the change of the list is announced.  The
\* handshake drops the update, and the high-water mark may.
ClientTimeout ==
    /\ cl.timer
    /\ IF cl.retry
       THEN LostConnection([cl EXCEPT !.timer = FALSE, !.retry = FALSE])
            /\ UNCHANGED lost
       ELSE LET update == Update(cl.list, cl.told, FALSE)
                full == ~cl.hs /\ Len(View(cl.out)) > Hwm
                quiet == cl.hs \/ full
            IN \E n \in FlushSizes(cl.out, update) :
               LET cells == OutputCells(cl.out, quiet, update, n) IN
               /\ net[conn].up => Fits(net[conn].toS, cells)
               /\ cl' = [cl EXCEPT !.timer = FALSE, !.told = cl.list,
                                   !.out = Output(@, quiet, update, n)]
               /\ net' = [net EXCEPT ![conn].toS = Carry(net[conn].up, @, cells)]
               /\ lost' = (lost \/ (full /\ update # <<>>))
               /\ UNCHANGED conn
    /\ UNCHANGED <<sv, srv, sent, received>>

\* The broker's list changes: on_channels_update().
ClientListChanges ==
    /\ conn # 0 /\ cl.list + srv.list < MaxChanges + 2
    /\ cl' = [cl EXCEPT !.list = @ + 1, !.timer = TRUE]
    /\ UNCHANGED <<conn, sv, srv, net, sent, received, lost>>

\* output_message() of a thread of the bus.  Over the high-water mark it
\* waits, which is to not take this step, or gives up (block_hwm).
Post ==
    /\ conn # 0 /\ sent < MaxMsgs
    /\ sent' = sent + 1
    /\ LET m == <<Msg(sent + 1)>>
           quiet == cl.hs \/ Len(View(cl.out)) > Hwm
       IN \E n \in FlushSizes(cl.out, m) :
          LET cells == OutputCells(cl.out, quiet, m, n) IN
          /\ net[conn].up => Fits(net[conn].toS, cells)
          /\ cl' = [cl EXCEPT !.out = Output(@, quiet, m, n)]
          /\ net' = [net EXCEPT ![conn].toS = Carry(net[conn].up, @, cells)]
    /\ UNCHANGED <<conn, sv, srv, received, lost>>

-----------------------------------------------------------------------------
(* The server.  Where it needs the mutex of BridgeTCPServer it stops once  *)
(* that is stuck.                                                          *)

\* on_accept(): a peer that waits for the request.
Accept(c) ==
    /\ sv[c].st = "none" /\ c <= conn /\ ~srv.stuck
    /\ \A d \in 1 .. c - 1 : sv[d].st # "none"
    /\ sv' = [sv EXCEPT ![c].st = "handshake", ![c].rd = TRUE]
    /\ UNCHANGED <<conn, cl, srv, net, sent, received, lost>>

\* find_if() of handover(): the first peer with the same session id.
SameSession(c) ==
    {d \in 1 .. c - 1 : sv[d].st \in {"open", "lost"}}
HandsOver(c) ==
    /\ Resume /\ SameSession(c) # {}
    /\ LET d == CHOOSE x \in SameSession(c) : \A y \in SameSession(c) : x <= y
       IN sv[d].st # "lost"

\* receive_complete() with the request: the response goes out.  With a
\* session to hand over, Peer::reconnect() of the old peer destroys the
\* connection whose callback this is, under the server's mutex, and waits for
\* the end of that callback.
PeerHandshake(c) ==
    /\ sv[c].st = "handshake" /\ sv[c].rd /\ net[c].toS # <<>> /\ ~srv.stuck
    /\ net' = [net EXCEPT ![c].toS = Tail(@)]
    /\ LET o == Push(sv[c].out, Switching)
       IN IF HandsOver(c)
          THEN /\ sv' = [sv EXCEPT ![c] = [@ EXCEPT !.out = o, !.rd = FALSE]]
               /\ srv' = [srv EXCEPT !.stuck = TRUE]
          ELSE /\ sv' = [sv EXCEPT ![c] = [@ EXCEPT !.out = o, !.st = "open",
                                                             !.opening = TRUE]]
               /\ UNCHANGED srv
    /\ UNCHANGED <<conn, cl, sent, received, lost>>

\* initial_handshake(): NewSession, and the list unless it was told meanwhile.
Opening(told) == <<NewSession>> \o Update(srv.list, told, FALSE)

\* start_peer(), once _handshake is false.
StartPeer(c) ==
    /\ sv[c].opening
    /\ LET o == sv[c].out
           ms == Opening(sv[c].told)
       IN \E n \in FlushSizes(o, ms) :
          LET cells == OutputCells(o, FALSE, ms, n) IN
          /\ net[c].up => Fits(net[c].toC, cells)
          /\ sv' = [sv EXCEPT ![c] = [@ EXCEPT !.opening = FALSE, !.told = srv.list,
                                               !.out = Output(o, FALSE, ms, n)]]
          /\ net' = [net EXCEPT ![c].toC = Carry(net[c].up, @, cells)]
          /\ lost' = (lost \/ sv[c].told # None)
    /\ UNCHANGED <<conn, cl, srv, sent, received>>

PeerClearToSend(c) ==
    /\ sv[c].st \in {"handshake", "open"} /\ sv[c].out.want
    /\ LET o == sv[c].out
       IN \E n \in (IF o.data = <<>> THEN {0} ELSE 1 .. Len(View(o))) :
            LET cells == SubSeq(View(o), 1, n)
            IN /\ net[c].up => Fits(net[c].toC, cells)
               /\ net' = [net EXCEPT ![c].toC = Carry(net[c].up, @, cells)]
               /\ sv' = [sv EXCEPT ![c].out = ClearedToSend(@, n)]
    /\ UNCHANGED <<conn, cl, srv, sent, received, lost>>

\* receive_complete(): a cell of a message, or the last one of it.
PeerReceive(c) ==
    /\ sv[c].st = "open" /\ sv[c].rd /\ net[c].toS # <<>>
    /\ LET cell == Head(net[c].toS)
           m == cell.m
           whole == cell.part = Size(m)
           reply == IF whole THEN Answer(m, srv.list, sv[c].told) ELSE <<>>
       IN \E n \in FlushSizes(sv[c].out, reply) :
          LET cells == OutputCells(sv[c].out, FALSE, reply, n) IN
          /\ net[c].up => Fits(net[c].toC, cells)
          /\ sv' = [sv EXCEPT
                       ![c].part = IF whole THEN <<>> ELSE Append(@, cell),
                       ![c].known = IF whole THEN Known(m, @) ELSE @,
                       ![c].told = IF reply = <<>> THEN @ ELSE srv.list,
                       ![c].out = Output(@, FALSE, reply, n)]
          /\ net' = [net EXCEPT ![c].toS = Tail(@),
                                ![c].toC = Carry(net[c].up, @, cells)]
          /\ received' = IF whole /\ m.t = "msg" THEN Append(received, m.a) ELSE received
    /\ UNCHANGED <<conn, cl, srv, sent, lost>>

\* receive_complete() with nothing.  With a session timeout the peer stays
\* for a while, else it is close()d; then it is to be deleted.
PeerClosed(c) ==
    /\ sv[c].st \in {"handshake", "open"} /\ sv[c].rd
    /\ ~net[c].up /\ net[c].toS = <<>> /\ ~srv.stuck
    /\ IF SessionTimeout /\ sv[c].st = "open"
       THEN sv' = [sv EXCEPT ![c].rd = FALSE] /\ UNCHANGED srv
       ELSE /\ sv' = [sv EXCEPT ![c].st = "lost", ![c].rd = FALSE]
            /\ srv' = [srv EXCEPT !.timer = TRUE]
    /\ UNCHANGED <<conn, cl, net, sent, received, lost>>

\* Peer::on_timeout()
SessionEnds(c) ==
    /\ SessionTimeout /\ sv[c].st = "open" /\ ~sv[c].rd /\ ~srv.stuck
    /\ sv' = [sv EXCEPT ![c].st = "lost"]
    /\ srv' = [srv EXCEPT !.timer = TRUE]
    /\ UNCHANGED <<conn, cl, net, sent, received, lost>>

\* BridgeTCPServer::on_timeout(): the list goes to every peer that is not in
\* the handshake, each with what it may send at once, and lost peers are
\* deleted.  The first of these has no end: _send_mine_channels_flag is
\* never cleared.
ServerTimeout ==
    /\ srv.timer /\ ~srv.stuck
    /\ srv' = [srv EXCEPT !.timer = FALSE]
    /\ LET Told(c) == sv[c].st \in {"open", "lost"}
           update(c) == Update(srv.list, sv[c].told, FALSE)
           full(c) == Len(View(sv[c].out)) > Hwm
       IN /\ sv' = [c \in Conn |->
                      IF sv[c].st = "lost" THEN [NoPeer EXCEPT !.st = "gone", !.opening = sv[c].opening]
                      ELSE IF ~Told(c) THEN sv[c]
                      ELSE [sv[c] EXCEPT !.told = srv.list,
                                         !.out = Output(@, full(c), update(c), 0)]]
          /\ lost' = (lost \/ \E c \in Conn : Told(c) /\ full(c) /\ update(c) # <<>>)
    /\ UNCHANGED <<conn, cl, net, sent, received>>

ServerListChanges ==
    /\ cl.list + srv.list < MaxChanges + 2
    /\ srv' = [srv EXCEPT !.list = @ + 1, !.timer = TRUE]
    /\ UNCHANGED <<conn, cl, sv, net, sent, received, lost>>

-----------------------------------------------------------------------------

\* External: the connection breaks; what arrived can still be read.
Break == \E i, j \in 0 .. Room :
    /\ conn \in Conn /\ net[conn].up /\ conn < MaxConn
    /\ i <= Len(net[conn].toS) /\ j <= Len(net[conn].toC)
    /\ net' = [net EXCEPT ![conn] = [up |-> FALSE, toS |-> SubSeq(@.toS, 1, i),
                                     toC |-> SubSeq(@.toC, 1, j)]]
    /\ UNCHANGED <<conn, cl, sv, srv, sent, received, lost>>

Client ==
    \/ Bind \/ SendHandshake \/ HandshakeDone \/ ClientReceive
    \/ ClientClearToSend \/ ClientClosed \/ ClientTimeout
Peer(c) ==
    \/ Accept(c) \/ PeerHandshake(c) \/ StartPeer(c) \/ PeerReceive(c)
    \/ PeerClearToSend(c) \/ PeerClosed(c) \/ SessionEnds(c)

Callback == Client \/ (\E c \in Conn : Peer(c)) \/ ServerTimeout

Next ==
    \/ Callback
    \/ ClientListChanges \/ ServerListChanges \/ Post
    \/ Break

\* The network goes on calling back as long as something is due; so a
\* connection that keeps failing, which changes nothing, is made in the end.
Fairness == WF_vars(Callback)

Spec == Init /\ [][Next]_vars /\ Fairness

-----------------------------------------------------------------------------
(* Properties                                                              *)

Version == 1 .. MaxChanges + 1
Message == {Msg(n) : n \in 1 .. MaxMsgs} \cup {NewSession, ChannelReset, Get, Switching}
           \cup {ChannelUpdate(a, b) : a \in {Whole} \cup Version, b \in Version}
Cell == {x \in [m : Message, part : {1, 2}] : x.part <= Size(x.m)}
List == Wrong .. MaxChanges + 1
OutTyped(o) == /\ o.data \in Seq(Cell) /\ o.sp \in Seq(Nat) /\ o.cursor \in Nat
               /\ o.allowed \in BOOLEAN /\ o.want \in BOOLEAN

\* Every variable has its type; the client keeps one connection open.
TypeOK ==
    /\ conn \in 0 .. MaxConn /\ sent \in 0 .. MaxMsgs /\ lost \in BOOLEAN
    /\ received \in Seq(1 .. MaxMsgs)
    /\ OutTyped(cl.out) /\ {cl.list, cl.told, cl.known} \subseteq List
    /\ {cl.hs, cl.rd, cl.reset, cl.retry, cl.timer, srv.timer, srv.stuck} \subseteq BOOLEAN
    /\ \A c \in Conn :
         /\ OutTyped(sv[c].out) /\ {srv.list, sv[c].told, sv[c].known} \subseteq List
         /\ sv[c].st \in {"none", "handshake", "open", "lost", "gone"}
         /\ {sv[c].rd, sv[c].opening} \subseteq BOOLEAN /\ sv[c].part \in Seq(Cell)
         /\ net[c].up => c = conn
         /\ net[c].toS \in Seq(Cell) /\ net[c].toC \in Seq(Cell)

\* The boundaries are those of the messages in the buffer: the first message
\* starts at 0, the others where the one before ends, and the cursor is
\* inside the first one (bridge_tcp_common.cpp:65-113 says so in comments).
Sound(o) ==
    /\ (o.sp = <<>>) = (o.data = <<>>)
    /\ {o.sp[i] : i \in 1 .. Len(o.sp)} = {k - 1 : k \in {j \in 1 .. Len(o.data) : o.data[j].part = 1}}
    /\ \A i \in 1 .. Len(o.sp) - 1 : o.sp[i] < o.sp[i + 1]
    /\ IF o.data = <<>> THEN o.cursor = 0 ELSE o.cursor < Size(o.data[1].m)
OutputSound == Sound(cl.out) /\ \A c \in Conn : Sound(sv[c].out)

\* What a peer reads is made of whole messages: a second part comes after its
\* first part, also when the message was cut by the loss of a connection.
MessagesWhole ==
    \A c \in Conn :
        LET s == sv[c].part \o net[c].toS
        IN \A i \in 1 .. Len(s) :
             s[i].part = 2 => i > 1 /\ s[i - 1] = [s[i] EXCEPT !.part = 1]

\* A message that is sent again after a loss cannot have reached the server
\* as a whole: its broker gets no message twice.
OnceOnly == \A i, j \in 1 .. Len(received) : received[i] = received[j] => i = j

\* A second try that is due after the last connection was made; bounded away.
Spent == conn = MaxConn /\ cl.retry


\* network.h:251, of destroy(): "You cannot call destroy() from it".  No
\* callback waits for its own end, here with the server's mutex held.
NoSelfDestroy == ~srv.stuck
=============================================================================

---------------------------- MODULE ChannelSync ----------------------------
(***************************************************************************)
(* A network of brokers: what the bridges (src/zerobus/bridge.cpp) and the *)
(* brokers they belong to (local_bus.cpp) make of each other's lists of    *)
(* channels and serial ids, and how a path that closes a cycle is found    *)
(* and disabled.                                                           *)
(*                                                                         *)
(* A link is a TCP bridge: its client end lives as long as its broker, its *)
(* server end as long as the connection.  What one end sends is read by    *)
(* the other in that order.  A handler is one step; the threads that meet  *)
(* in send_mine_channels() are the subject of ChannelAnnounce, and what    *)
(* happens to a connection that of TcpSession.  A link can be lost when    *)
(* both ends know of it, and what was on its way is lost with it.          *)
(*                                                                         *)
(* A monitor of a bridge over the network sets a timer: due.  The serial   *)
(* id of a broker is its number, as the code compares them in some order.  *)
(* Left out: filters, groups and private messages.  Messages are not       *)
(* modelled: where one would go is a function of the state (see Hands).    *)
(***************************************************************************)
EXTENDS Integers, Sequences, FiniteSets

CONSTANTS
    Broker,      \* brokers, by their serial ids
    Link,        \* bridges
    Client,      \* [Link -> Broker]: who connects
    Server,      \* [Link -> Broker]: to whom
    Chan,        \* names of channels
    MaxCalls,    \* bound: subscribe() and unsubscribe() of local listeners
    MaxLosses    \* bound: links that are lost, each once

ASSUME BrokersNat == Broker \subseteq Nat \ {0}
ASSUME LinksTyped == Client \in [Link -> Broker] /\ Server \in [Link -> Broker]
ASSUME BoundsNat == MaxCalls \in Nat /\ MaxLosses \in Nat

End == Link \X {"client", "server"}
Other(e) == <<e[1], IF e[2] = "client" THEN "server" ELSE "client">>
At(e) == IF e[2] = "client" THEN Client[e[1]] ELSE Server[e[1]]
NoEnd == <<>>

VARIABLES
    up,      \* the connection of a link is made
    wire,    \* what an end has sent and the other not read
    lsn,     \* channels of the local listeners of a broker
    sub,     \* channels that an end subscribes at its broker
    told,    \* _cur_channels of an end
    hash,    \* _srl_hash: the serial id sent last, "" or none
    cycle,   \* _cycle_detected
    due,     \* the timers that are set: of a client end, or of a server
    source,  \* _serial_source of a broker
    cur,     \* _cur_serial
    calls,
    lost     \* _send_reset_on_connect: links that were lost before

vars == <<up, wire, lsn, sub, told, hash, cycle, due, source, cur, calls, lost>>

None == 0        \* no serial id sent yet
Unsaid == -1     \* "": the serial id for the end that it came from

Serial(b) == [t |-> "serial", n |-> b, l |-> {}]
ChannelUpdate(op, list) == [t |-> op, n |-> 0, l |-> list]
ChannelReset == [t |-> "reset", n |-> 0, l |-> {}]
NewSession == [t |-> "new", n |-> 0, l |-> {}]

Init ==
    /\ up = [l \in Link |-> FALSE]
    /\ wire = [e \in End |-> <<>>]
    /\ lsn = [b \in Broker |-> {}]
    /\ sub = [e \in End |-> {}]
    /\ told = [e \in End |-> {}]
    /\ hash = [e \in End |-> None]
    /\ cycle = [e \in End |-> FALSE]
    /\ due = {}
    /\ source = [b \in Broker |-> NoEnd]
    /\ cur = [b \in Broker |-> None]
    /\ calls = 0 /\ lost = {}

\* A server end is there while its link is up.
Exists(e) == e[2] = "client" \/ up[e[1]]
EndsAt(b) == {e \in End : At(e) = b /\ Exists(e)}

\* Monitors of a broker: its client ends, and its server for all its peers.
Monitor(e) == IF e[2] = "client" THEN <<"client", e[1]>> ELSE <<"server", At(e)>>
Monitors(b) == {Monitor(e) : e \in EndsAt(b)}
Announcers(m) == {e \in End : Exists(e) /\ Monitor(e) = m}

-----------------------------------------------------------------------------
(* The broker.  Handlers work on s, the record of the variables that they  *)
(* change, so that one can do several things in order.                     *)

State == [wire |-> wire, sub |-> sub, told |-> told, hash |-> hash,
          cycle |-> cycle, due |-> due, source |-> source, cur |-> cur]
Becomes(s) ==
    /\ wire' = s.wire /\ sub' = s.sub /\ told' = s.told /\ hash' = s.hash
    /\ cycle' = s.cycle /\ due' = s.due /\ source' = s.source /\ cur' = s.cur

\* unlock() with _channels_change: every monitor of the broker is called.
Changed(s, b) == [s EXCEPT !.due = @ \cup Monitors(b)]
ChangedIf(s, b, c) == IF c THEN Changed(s, b) ELSE s

\* get_active_channels(), can_export()
Exported(s, e) ==
    {c \in Chan : c \in lsn[At(e)] \/ \E f \in EndsAt(At(e)) \ {e} : c \in s.sub[f]}

Best(s, b) == IF s.source[b] = NoEnd THEN b ELSE s.cur[b]
GetSerial(s, e) == IF s.source[At(e)] = e THEN Unsaid ELSE Best(s, At(e))

Agrees_Always(s, e, n) == TRUE
\* What set_serial() returns: FALSE if the serial id is known already and
\* came over another way.
Agrees(s, e, n) == n = Best(s, At(e)) => s.source[At(e)] = e
SetSerial(s, e, n) ==
    IF n < Best(s, At(e)) THEN [s EXCEPT !.cur[At(e)] = n, !.source[At(e)] = e]
    ELSE ChangedIf(s, At(e), n # Best(s, At(e)))

\* unsubscribe_all_channels()
UnsubscribeAll(s, e) == ChangedIf([s EXCEPT !.sub[e] = {}], At(e), s.sub[e] # {})

\* update_subscribtion()
UpdateSubscription(s, e, op, list) ==
    LET old == s.sub[e]
        new == CASE op = "replace" -> list
                 [] op = "add" -> old \cup list
                 [] op = "erase" -> old \ list
        changed == CASE op = "replace" -> old # {} \/ list # {}
                     [] op = "add" -> list # {}
                     [] op = "erase" -> old \cap list # {}
    IN ChangedIf([s EXCEPT !.sub[e] = new], At(e), changed)

-----------------------------------------------------------------------------
(* The bridge.                                                             *)

\* Nothing is sent during the handshake of a client.
Send(s, e, ms) == IF up[e[1]] THEN [s EXCEPT !.wire[e] = @ \o ms] ELSE s

Difference_NoReset(old, new, reset) ==
    IF old = {}
    THEN IF new = {} THEN <<>> ELSE <<ChannelUpdate("replace", new)>>
    ELSE IF new = {} THEN <<ChannelUpdate("replace", {})>>
    ELSE (IF new \subseteq old THEN <<>> ELSE <<ChannelUpdate("add", new \ old)>>)
         \o (IF old \subseteq new THEN <<>> ELSE <<ChannelUpdate("erase", old \ new)>>)
\* process_mine_channels(): the update from the list that was told last.
Difference(old, new, reset) ==
    IF old = {} \/ reset
    THEN IF new = {} THEN <<>> ELSE <<ChannelUpdate("replace", new)>>
    ELSE IF new = {} THEN <<ChannelUpdate("replace", {})>>
    ELSE (IF new \subseteq old THEN <<>> ELSE <<ChannelUpdate("add", new \ old)>>)
         \o (IF old \subseteq new THEN <<>> ELSE <<ChannelUpdate("erase", old \ new)>>)

\* send_mine_channels()
SendMine(s, e, reset) ==
    LET n == GetSerial(s, e)
        serial == IF n \in {s.hash[e], Unsaid} THEN <<>> ELSE <<Serial(n)>>
        list == IF s.cycle[e] THEN {} ELSE Exported(s, e)
    IN Send([s EXCEPT !.hash[e] = n, !.told[e] = list], e,
            serial \o Difference(s.told[e], list, reset))

\* receive(UpdateSerial): a known serial id over another way closes a cycle,
\* any other one ends it.
ReceiveSerial(s, e, n) ==
    LET s1 == SetSerial(s, e, n)
        s2 == SendMine([s1 EXCEPT !.cycle[e] = ~@], e, FALSE)
    IN IF Agrees(s, e, n) # s.cycle[e] THEN s1
       ELSE IF s2.cycle[e] THEN UnsubscribeAll(s2, e)
       ELSE Send(s2, e, <<ChannelReset>>)

\* receive(NewSession): whatever was known of the other side is forgotten.
ReceiveNewSession(s, e) ==
    SendMine([UnsubscribeAll(s, e) EXCEPT !.hash[e] = None, !.cycle[e] = FALSE], e, TRUE)

Handle(s, e, m) ==
    CASE m.t = "serial" -> ReceiveSerial(s, e, m.n)
      [] m.t = "new" -> ReceiveNewSession(s, e)
      [] m.t = "reset" -> SendMine(s, e, TRUE)
      [] OTHER -> IF s.cycle[e] THEN s ELSE UpdateSubscription(s, e, m.t, m.l)

Receive(e) ==
    /\ up[e[1]] /\ wire[Other(e)] # <<>>
    /\ Becomes(Handle([State EXCEPT !.wire[Other(e)] = Tail(@)], e, Head(wire[Other(e)])))
    /\ UNCHANGED <<up, lsn, calls, lost>>

\* The timer: on_timeout() of the client or of the server.  What an end sends
\* leaves the others as they are.
Announce(m) ==
    /\ m \in due
    /\ LET A == Announcers(m)
           sent == [e \in A |-> SendMine(State, e, FALSE)]
       IN /\ wire' = [e \in End |-> IF e \in A THEN sent[e].wire[e] ELSE wire[e]]
          /\ told' = [e \in End |-> IF e \in A THEN sent[e].told[e] ELSE told[e]]
          /\ hash' = [e \in End |-> IF e \in A THEN sent[e].hash[e] ELSE hash[e]]
    /\ due' = due \ {m}
    /\ UNCHANGED <<up, lsn, sub, cycle, source, cur, calls, lost>>

\* A connection and the end of the handshake: the server has a new bridge,
\* which opens the session (initial_handshake); a client that was connected
\* before asks for the list.
Connect(l) ==
    /\ ~up[l]
    /\ up' = [up EXCEPT ![l] = TRUE]
    /\ LET e == <<l, "server">>
           n == Best(State, At(e))
           list == Exported(State, e)
       IN /\ wire' = [wire EXCEPT
               ![e] = <<NewSession, Serial(n)>> \o Difference({}, list, FALSE),
               ![Other(e)] = IF l \in lost THEN <<ChannelReset>> ELSE <<>>]
          /\ hash' = [hash EXCEPT ![e] = n]
          /\ told' = [told EXCEPT ![e] = list]
    /\ UNCHANGED <<lsn, sub, cycle, due, source, cur, calls, lost>>

\* A connection is lost: the bridge of the server is destroyed, and with it
\* what it subscribed (unsubscribe_all).
Lose(l) ==
    /\ up[l] /\ l \notin lost /\ Cardinality(lost) < MaxLosses /\ lost' = lost \cup {l}
    /\ LET e == <<l, "server">>
           gone == [State EXCEPT !.wire[e] = <<>>, !.wire[Other(e)] = <<>>,
                                 !.sub[e] = {}, !.cycle[e] = FALSE, !.told[e] = {},
                                 !.hash[e] = None,
                                 !.source[At(e)] = IF @ = e THEN NoEnd ELSE @]
           s == ChangedIf(gone, At(e), sub[e] # {} \/ source[At(e)] = e)
       IN Becomes(s)
    /\ up' = [up EXCEPT ![l] = FALSE]
    /\ UNCHANGED <<lsn, calls>>

\* subscribe() and unsubscribe() of a local listener
Subscribe(b, c) ==
    /\ calls < MaxCalls /\ calls' = calls + 1
    /\ lsn' = [lsn EXCEPT ![b] = @ \cup {c}]
    /\ Becomes(Changed(State, b)) /\ UNCHANGED <<up, lost>>
Unsubscribe(b, c) ==
    /\ calls < MaxCalls /\ calls' = calls + 1 /\ c \in lsn[b]
    /\ lsn' = [lsn EXCEPT ![b] = @ \ {c}]
    /\ Becomes(Changed(State, b)) /\ UNCHANGED <<up, lost>>

Exchange == (\E e \in End : Receive(e)) \/ (\E m \in {Monitor(f) : f \in End} : Announce(m))
Next ==
    \/ Exchange
    \/ \E l \in Link : Connect(l) \/ Lose(l)
    \/ \E b \in Broker, c \in Chan : Subscribe(b, c) \/ Unsubscribe(b, c)

Spec == Init /\ [][Next]_vars

-----------------------------------------------------------------------------
(* Properties                                                              *)

Quiet ==
    /\ due = {}
    /\ \A e \in End : up[e[1]] => wire[e] = <<>>

\* The ends to which a message for c goes from its broker (on_message), and
\* is taken at the other end (receive).
Hands(c) == {e \in End : up[e[1]] /\ c \in sub[e] /\ ~cycle[e] /\ ~cycle[Other(e)]}
\* From an end it goes on to those of the next broker, but never back.
NextHands(c, e) == {f \in Hands(c) : At(f) = At(Other(e)) /\ f # Other(e)}

Grow(c, S) == S \cup UNION {NextHands(c, e) : e \in S}
\* All the ends that a message passes that left its broker through those of S.
Passed(c, S) ==
    LET r[i \in 0 .. Cardinality(End)] == IF i = 0 THEN S ELSE Grow(c, r[i - 1])
    IN r[Cardinality(End)]
From(c, b) == {e \in Hands(c) : At(e) = b}

Joined(b, S) == S \cup {At(e) : e \in {f \in End : up[f[1]] /\ At(Other(f)) \in S}}
Network(b) ==
    LET r[i \in 0 .. Cardinality(Broker)] == IF i = 0 THEN {b} ELSE Joined(b, r[i - 1])
    IN r[Cardinality(Broker)]

\* README.md:414-416: "Every network must have one path to master node.
\* Multiple paths are detected as cycle and such path should be disabled."
\* At rest no message comes twice to any broker, so none goes round.
OnePath ==
    Quiet => \A c \in Chan, b \in Broker :
        LET P == Passed(c, From(c, b))
        IN \A e, f \in P : /\ At(Other(e)) # b
                           /\ At(Other(e)) = At(Other(f)) => e = f

\* A message for c from b finds every subscriber in the network.
Reaches(c, b) ==
    \A x \in Network(b) :
        c \in lsn[x] => x = b \/ \E e \in Passed(c, From(c, b)) : At(Other(e)) = x

\* README.md:414: "Every network must have one path to master node."  At rest,
\* with every link made, also one that was lost before, a message finds every
\* subscriber: enough links are left enabled, and every broker was told.
AllReached == Quiet /\ (\A l \in Link : up[l]) => \A c \in Chan, b \in Broker : Reaches(c, b)
=============================================================================

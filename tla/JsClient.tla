------------------------------ MODULE JsClient ------------------------------
(***************************************************************************)
(* A web page (src/javascript/client.js): its LocalBus, with one           *)
(* WebSocketBridge, and the socket that connects again 2 s after each      *)
(* close.  The server and its bridges are those of ChannelSync; the        *)
(* "client" ends are the connections the page makes, each of them once.    *)
(*                                                                         *)
(* The page has one thread.  An event, or a call of the program, is one    *)
(* step; what it passes to queueMicrotask() is a task, and all tasks are   *)
(* run before the next event.  The page and the server learn of a broken   *)
(* connection independently, so the server can hold a bridge of the old    *)
(* connection when the page has the next one.                              *)
(*                                                                         *)
(* Left out: groups, mailboxes and return paths of the page, and pages     *)
(* that have several bridges.                                              *)
(***************************************************************************)
EXTENDS ChannelSync

CONSTANTS
    PageId,   \* serial ids that the page may draw (#serial.my)
    Home,     \* the server's broker
    MaxPosts  \* bound: messages of the page

ASSUME PageIdTyped == PageId \subseteq Nat \ ({0} \cup Broker)
ASSUME HomeTyped == \A l \in Link : Server[l] = Home /\ Client[l] # Home
ASSUME ConnectionsNumbered == 1 \in Link /\ Link \subseteq Nat
ASSUME PostsNat == MaxPosts \in Nat

VARIABLES
    page,     \* LocalBus and AbstractBridge of the page
    ws,       \* #ws: which connection, and its state
    queue,    \* #send_queue
    posted,   \* messages that the page gave to its bridge
    received  \* messages that came to listeners of the server, with their
              \* connections

jsVars == <<page, ws, queue, posted, received>>
allVars == <<vars, jsVars>>

Msg(c, n) == [t |-> "msg", n |-> n, l |-> {c}]
ServerEnd(l) == <<l, "server">>

\* A new LocalBus, and its bridge; the tasks are those of both.
NewPage(id) ==
    [channels |-> [c \in Chan |-> {}], my |-> id, source |-> FALSE, current |-> None, notify |-> FALSE,
     cur |-> {}, cycle |-> FALSE, srl |-> None, tasks |-> <<>>]
Connecting(l) == [l |-> l, st |-> "connecting"]

JsInit ==
    /\ Init
    /\ \E id \in PageId : page = NewPage(id)
    /\ ws = Connecting(1) /\ queue = <<>>
    /\ posted = 0 /\ received = <<>>

-----------------------------------------------------------------------------
(* LocalBus of the page.  A channel is there when it has subscribers: the  *)
(* program's "listener", the "bridge".                                     *)

NotifyMonitors(p) ==
    IF p.notify THEN p
    ELSE [p EXCEPT !.notify = TRUE, !.tasks = Append(@, [do |-> "monitors"])]

\* subscribe()
Joins(p, c, x) == NotifyMonitors([p EXCEPT !.channels[c] = @ \cup {x}])
\* unsubscribe(): monitors are notified when nobody is left.
Leaves(p, c, x) ==
    IF p.channels[c] = {} THEN p
    ELSE LET q == [p EXCEPT !.channels[c] = @ \ {x}]
         IN IF q.channels[c] = {} THEN NotifyMonitors(q) ELSE q

\* The same for the bridge and each channel of a list: after the first change
\* that is notified, the others are not.
JoinsAll(p, list) ==
    LET With(c) == p.channels[c] \cup (IF c \in list THEN {"bridge"} ELSE {})
        q == [p EXCEPT !.channels = [c \in Chan |-> With(c)]]
    IN IF list = {} THEN p ELSE NotifyMonitors(q)
LeavesAll(p, list) ==
    LET Without(c) == p.channels[c] \ (IF c \in list THEN {"bridge"} ELSE {})
        q == [p EXCEPT !.channels = [c \in Chan |-> Without(c)]]
    IN IF \E c \in list : p.channels[c] = {"bridge"} THEN NotifyMonitors(q) ELSE q

\* get_active_channels() for the bridge
Active(p) == {c \in Chan : p.channels[c] \notin {{}, {"bridge"}}}

\* get_serial(), set_serial() for the bridge
PageSerial(p) == IF p.source THEN None ELSE p.my
BestOf(p) == IF p.source THEN p.current ELSE p.my
Accepts(p, n) == n = BestOf(p) => p.source
TakesSerial(p, n) == IF BestOf(p) > n THEN [p EXCEPT !.current = n, !.source = TRUE] ELSE p

-----------------------------------------------------------------------------
(* AbstractBridge and WebSocketBridge of the page.                         *)

\* WebSocketReconn.send(): a task for each message.
Sends(p, ms) ==
    [p EXCEPT !.tasks = @ \o [i \in DOMAIN ms |-> [do |-> "send", m |-> ms[i]]]]

\* What is told of the list, after the last one.
Differences(old, new) ==
    IF old = {} THEN IF new = {} THEN <<>> ELSE <<ChannelUpdate("replace", new)>>
    ELSE (IF new \subseteq old THEN <<>> ELSE <<ChannelUpdate("add", new \ old)>>)
         \o (IF old \subseteq new THEN <<>> ELSE <<ChannelUpdate("erase", old \ new)>>)

\* send_mine_channels()
Tells(p) ==
    LET n == PageSerial(p)
        list == IF p.cycle THEN {} ELSE Active(p)
    IN Sends([p EXCEPT !.srl = n, !.cur = list],
             (IF n \in {p.srl, None} THEN <<>> ELSE <<Serial(n)>>) \o Differences(p.cur, list))

\* What register_monitor() registers.
PageMonitor(p) == Tells([p EXCEPT !.notify = FALSE])
\* receive_reset()
TellsAnew(p) == Tells([p EXCEPT !.cur = {}])

NewSessionComes_NoReset(p) == Tells(LeavesAll(p, Chan))
\* #parse_new_session()
NewSessionComes(p) == TellsAnew(LeavesAll(p, Chan))

\* receive_update_serial()
SerialComes(p, n) ==
    LET q == Tells([TakesSerial(p, n) EXCEPT !.cycle = ~@])
    IN IF Accepts(p, n) # p.cycle THEN TakesSerial(p, n)
       ELSE IF q.cycle THEN LeavesAll(q, Chan)
       ELSE Sends(q, <<ChannelReset>>)

\* receive_channels()
UpdateComes(p, op, list) ==
    CASE op = "add" -> JoinsAll(p, list)
      [] op = "erase" -> LeavesAll(p, list)
      [] op = "replace" -> JoinsAll(LeavesAll(p, Chan), list)

\* #on_message()
Comes(p, m) ==
    CASE m.t = "new" -> NewSessionComes(p)
      [] m.t = "reset" -> TellsAnew(p)
      [] m.t = "serial" -> SerialComes(p, m.n)
      [] OTHER -> UpdateComes(p, m.t, m.l)

-----------------------------------------------------------------------------
(* Events of the page.                                                     *)

Idle == page.tasks = <<>>

\* onmessage
OnMessage ==
    LET e == ServerEnd(ws.l) IN
    /\ Idle /\ ws.st = "open" /\ wire[e] # <<>>
    /\ page' = Comes(page, Head(wire[e]))
    /\ wire' = [wire EXCEPT ![e] = Tail(@)]
    /\ UNCHANGED <<up, lsn, sub, told, hash, cycle, due, source, cur, calls, lost,
                   ws, queue, posted, received>>

OnOpen_QueueKept ==
    /\ Idle /\ ws.st = "connecting" /\ Connect(ws.l)
    /\ ws' = [ws EXCEPT !.st = "open"]
    /\ page' = Sends(page, queue)
    /\ UNCHANGED <<queue, posted, received>>
\* onopen: the server has accepted, and what was to be sent meanwhile is.
OnOpen ==
    /\ Idle /\ ws.st = "connecting" /\ Connect(ws.l)
    /\ ws' = [ws EXCEPT !.st = "open"]
    /\ page' = Sends(page, queue) /\ queue' = <<>>
    /\ UNCHANGED <<posted, received>>

\* onclose, and the timer that it sets.  An attempt that fails closes too, and
\* changes nothing but the time of the next one.
OnClose ==
    /\ Idle /\ ws.st = "open" /\ ws.l + 1 \in Link
    /\ ws' = [ws EXCEPT !.st = "closed"]
    /\ UNCHANGED <<vars, page, queue, posted, received>>
Reconnect ==
    /\ Idle /\ ws.st = "closed"
    /\ ws' = Connecting(ws.l + 1)
    /\ UNCHANGED <<vars, page, queue, posted, received>>

\* A task: monitors are called, the bridge gets a message, or one is sent;
\* that is in vain when the connection is broken already.
RunTask ==
    /\ ~Idle
    /\ LET x == Head(page.tasks)
           p == [page EXCEPT !.tasks = Tail(@)]
           e == <<ws.l, "client">>
       IN /\ page' = CASE x.do = "monitors" -> PageMonitor(p)
                       [] x.do = "on_message" -> Sends(p, <<x.m>>)
                       [] x.do = "send" -> p
          /\ queue' = IF x.do = "send" /\ ws.st # "open" THEN Append(queue, x.m) ELSE queue
          /\ wire' = IF x.do = "send" /\ ws.st = "open" /\ up[ws.l]
                     THEN [wire EXCEPT ![e] = Append(@, x.m)] ELSE wire
    /\ UNCHANGED <<up, lsn, sub, told, hash, cycle, due, source, cur, calls, lost,
                   ws, posted, received>>

\* subscribe() and unsubscribe() of the program
PageCalls ==
    /\ Idle /\ calls < MaxCalls /\ calls' = calls + 1
    /\ \E c \in Chan : \/ page' = Joins(page, c, "listener")
                       \/ /\ "listener" \in page.channels[c]
                          /\ page' = Leaves(page, c, "listener")
    /\ UNCHANGED <<up, wire, lsn, sub, told, hash, cycle, due, source, cur, lost,
                   ws, queue, posted, received>>

\* send_message() to a channel that the bridge has subscribed
Post(c) ==
    /\ Idle /\ posted < MaxPosts /\ "bridge" \in page.channels[c]
    /\ posted' = posted + 1
    /\ page' = [page EXCEPT !.tasks = Append(@, [do |-> "on_message", m |-> Msg(c, posted + 1)])]
    /\ UNCHANGED <<vars, ws, queue, received>>

-----------------------------------------------------------------------------
(* The server.                                                             *)

\* A message of the page comes to the server's bridge, and to the listeners
\* that there are unless the bridge is in a cycle.
ServerTakes(l) ==
    LET e == <<l, "client">>
        m == Head(wire[e])
    IN
    /\ up[l] /\ wire[e] # <<>> /\ m.t = "msg"
    /\ wire' = [wire EXCEPT ![e] = Tail(@)]
    /\ received' = IF ~cycle[ServerEnd(l)] /\ m.l \subseteq lsn[Home]
                   THEN Append(received, <<l, m.n>>) ELSE received
    /\ UNCHANGED <<up, lsn, sub, told, hash, cycle, due, source, cur, calls, lost,
                   page, ws, queue, posted>>

ServerReceives(l) ==
    /\ wire[<<l, "client">>] # <<>> /\ Head(wire[<<l, "client">>]).t # "msg"
    /\ Receive(ServerEnd(l)) /\ UNCHANGED jsVars

ServerCalls ==
    /\ \E c \in Chan : Subscribe(Home, c) \/ Unsubscribe(Home, c)
    /\ UNCHANGED jsVars
ServerLoses(l) == Lose(l) /\ UNCHANGED jsVars
ServerAnnounces == Announce(<<"server", Home>>) /\ UNCHANGED jsVars

JsNext ==
    \/ OnMessage \/ OnOpen \/ OnClose \/ Reconnect \/ RunTask \/ PageCalls
    \/ \E c \in Chan : Post(c)
    \/ \E l \in Link : ServerTakes(l) \/ ServerReceives(l) \/ ServerLoses(l)
    \/ ServerCalls \/ ServerAnnounces

JsSpec == JsInit /\ [][JsNext]_allVars

-----------------------------------------------------------------------------
(* Properties                                                              *)

\* Nothing is on its way, and the page's connection is the only one.
JsQuiet ==
    /\ Idle /\ ws.st = "open" /\ Quiet
    /\ {l \in Link : up[l]} = {ws.l}

\* After any losses, and although the server may have taken the page's own
\* serial id, from the bridge of its old connection, for a cycle
\* (client.js:442): at rest page and server have each other's lists.  More is
\* left in two cases.  A channel that the server has subscribed itself can
\* stay announced to it, since unsubscribe() (client.js:250) notifies when
\* nobody is left; and the page can keep what the server no longer has, since
\* a reset is not answered with an empty list (bridge.cpp:40).
ListsAgree ==
    JsQuiet =>
        LET known == sub[ServerEnd(ws.l)]
            bridged == {c \in Chan : "bridge" \in page.channels[c]}
        IN /\ Active(page) \subseteq known
           /\ known \ Active(page) \subseteq bridged
           /\ lsn[Home] \subseteq bridged

\* What the page sends comes once at most, and in order over each connection,
\* also when it waited for that in the queue (client.js:136-156).
ComesOnce ==
    \A i, j \in DOMAIN received : i < j =>
        /\ received[i][2] # received[j][2]
        /\ received[i][1] = received[j][1] => received[i][2] < received[j][2]
=============================================================================

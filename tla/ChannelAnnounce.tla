-------------------------- MODULE ChannelAnnounce --------------------------
(***************************************************************************)
(* How a bridge announces the channels of its broker to the other side     *)
(* (AbstractBridge::send_mine_channels, src/zerobus/bridge.cpp).           *)
(*                                                                         *)
(* The method may be called by several threads at once: by the thread that *)
(* changed a subscription (as a monitor of the bus), by the thread that    *)
(* received a request of the peer, by the one that noticed a cycle.  There *)
(* is no mutex; an atomic counter lets one caller in, the announcer, and   *)
(* makes it go round again for those it turned away.                       *)
(*                                                                         *)
(* The peer is external code here: it applies the announcements in the     *)
(* order they were sent, forgets everything and turns deaf while it has    *)
(* detected a cycle, and asks for a repetition afterwards; a new connection *)
(* loses what was in flight.                                               *)
(*                                                                         *)
(* Abstracted: filters (active is what they let through; a change of their *)
(* rules is one more change of it), the serial id sent along.              *)
(***************************************************************************)
EXTENDS Naturals, Sequences, SequencesExt, FiniteSets

CONSTANTS
    Thread,       \* threads that call the bridge
    Chan,         \* channel names
    Null,         \* nobody
    MaxCalls,     \* bound: calls of send_mine_channels()
    MaxPeerEvents \* bound: cycles and reconnections of the peer

\* A call that finds the announcer at work adds lock_flag, and reset_flag if it
\* asks for the whole list.
lock_flag == 1
reset_flag == 1024

ASSUME ThreadsFinite == IsFiniteSet(Thread)
ASSUME NullIsNoThread == Null \notin Thread
\* The count of callers has 10 bits: a round of the announcer must not see
\* more calls than that.
ASSUME CallsFitCounter == MaxCalls \in Nat /\ MaxCalls < reset_flag - 1
ASSUME EventsNat == MaxPeerEvents \in Nat

VARIABLES
    active,   \* channels of the broker that may be exported over this bridge
    cycle,    \* _cycle_detected
    bus,      \* owner of the broker's mutex
    lock,     \* _send_mine_channels_lock
    pc,       \* where a thread is in send_mine_channels()
    reset,    \* the local variable (and parameter) reset
    lst,      \* the list obtained from get_active_channels()
    cur,      \* _cur_channels: the list as last announced
    wire,     \* announcements in flight
    peer,     \* external: channels the peer believes we have
    deaf,     \* external: the peer has detected a cycle
    inbox,    \* messages of the peer in flight
    valid,    \* history: the peer has not forgotten the list since it got a whole one
    calls,    \* calls begun
    returned, \* calls that returned
    events    \* peer events so far

busVars   == <<active, cycle, bus>>
callVars  == <<pc, reset, lst>>
peerVars  == <<wire, peer, deaf, inbox, valid>>
counters  == <<calls, returned, events>>
vars == <<busVars, lock, callVars, cur, peerVars, counters>>

Update == [op: {"replace", "add", "erase"}, chans: SUBSET Chan]

Init ==
    /\ active = {} /\ cycle = FALSE /\ bus = Null
    /\ lock = 0
    /\ pc = [t \in Thread |-> "idle"]
    /\ reset = [t \in Thread |-> FALSE]
    /\ lst = [t \in Thread |-> {}]
    /\ cur = {}
    /\ wire = <<>> /\ peer = {} /\ deaf = FALSE /\ inbox = <<>> /\ valid = TRUE
    /\ calls = 0 /\ returned = 0 /\ events = 0

-----------------------------------------------------------------------------
(* Who calls send_mine_channels().                                         *)

CallAnnounce(t, whole) ==
    /\ pc[t] = "idle" /\ calls < MaxCalls
    /\ calls' = calls + 1
    /\ pc' = [pc EXCEPT ![t] = "enter"]
    /\ reset' = [reset EXCEPT ![t] = whole]

\* The subscriptions of the broker changed, and it notifies its monitors.  A
\* DirectBridge is called from LocalBus::unlock() with the mutex still held,
\* the network bridges from a timer, without it.
ChannelsUpdate(t) ==
    /\ CallAnnounce(t, FALSE)
    /\ bus = Null
    /\ active' \in SUBSET Chan \ {active}
    /\ bus' \in {t, Null}
    /\ UNCHANGED <<cycle, lock, lst, cur, peerVars, returned, events>>

\* receive(UpdateSerial) that turns _cycle_detected over.
ToggleCycle(t) ==
    /\ CallAnnounce(t, FALSE)
    /\ cycle' = ~cycle
    /\ UNCHANGED <<active, bus, lock, lst, cur, peerVars, returned, events>>

\* receive(ChannelReset)
ReceiveChannelReset(t) ==
    /\ inbox # <<>> /\ Head(inbox) = "ChannelReset"
    /\ CallAnnounce(t, TRUE)
    /\ inbox' = Tail(inbox)
    /\ UNCHANGED <<busVars, lock, lst, cur, wire, peer, deaf, valid, returned, events>>

\* receive(NewSession) breaks a cycle.
ReceiveNewSession(t) ==
    /\ inbox # <<>> /\ Head(inbox) = "NewSession"
    /\ CallAnnounce(t, TRUE)
    /\ cycle' = FALSE
    /\ inbox' = Tail(inbox)
    /\ UNCHANGED <<active, bus, lock, lst, cur, wire, peer, deaf, valid, returned, events>>

-----------------------------------------------------------------------------
(* send_mine_channels()                                                    *)

\* The call returns; a monitor's call was the last thing done under the mutex.
Return(t) ==
    /\ pc' = [pc EXCEPT ![t] = "idle"]
    /\ reset' = [reset EXCEPT ![t] = FALSE]
    /\ bus' = IF bus = t THEN Null ELSE bus
    /\ returned' = returned + 1

\* fetch_add: the first one in becomes the announcer.
Occupied_Never(old) == FALSE
Occupied(old) == old # 0

Enter(t) ==
    /\ pc[t] = "enter"
    /\ lock' = lock + lock_flag + (IF reset[t] THEN reset_flag ELSE 0)
    /\ IF Occupied(lock)
       THEN Return(t)
       ELSE pc' = [pc EXCEPT ![t] = "collect"] /\ UNCHANGED <<bus, reset, returned>>
    /\ UNCHANGED <<active, cycle, lst, cur, peerVars, calls, events>>

\* get_active_channels(), under the broker's mutex; not asked in a cycle.
Collect(t) ==
    /\ pc[t] = "collect"
    /\ cycle \/ bus \in {Null, t}
    /\ lst' = [lst EXCEPT ![t] = IF cycle THEN {} ELSE active]
    /\ pc' = [pc EXCEPT ![t] = "process"]
    /\ UNCHANGED <<busVars, lock, reset, cur, peerVars, counters>>

\* Nothing is sent for nothing.
Announce(op, chans) == IF chans = {} THEN <<>> ELSE <<[op |-> op, chans |-> chans]>>

\* The announcements that turn the list `before` into `now`.
ChangesOf_Swapped(before, now) == Announce("add", before \ now) \o Announce("erase", now \ before)
ChangesOf(before, now) == Announce("add", now \ before) \o Announce("erase", before \ now)

Announcements(now, whole) ==
    IF cur = {} \/ whole THEN Announce("replace", now)
    ELSE IF now = {} THEN <<[op |-> "replace", chans |-> {}]>>
    ELSE ChangesOf(cur, now)

\* process_mine_channels(): reads _cycle_detected once more.
Process(t) ==
    /\ pc[t] = "process"
    /\ LET now == IF cycle THEN {} ELSE lst[t]
       IN /\ wire' = wire \o Announcements(now, reset[t])
          /\ cur' = now
    /\ lst' = [lst EXCEPT ![t] = {}]
    /\ pc' = [pc EXCEPT ![t] = "release"]
    /\ UNCHANGED <<busVars, lock, reset, peer, deaf, inbox, valid, counters>>

\* exchange(0), and what the counter said: how many calls, how many resets.
Unlocked_Subtract == lock - 2 * lock_flag
Unlocked == 0
Again_Always(r) == r % reset_flag >= 1
Again_Never(r) == r % reset_flag > 2
Again(r) == r % reset_flag > 1

Release(t) ==
    /\ pc[t] = "release"
    /\ lock' = Unlocked
    /\ IF Again(lock)
       THEN /\ pc' = [pc EXCEPT ![t] = "enter"]
            /\ reset' = [reset EXCEPT ![t] = lock \div reset_flag > 1]
            /\ UNCHANGED <<bus, returned>>
       ELSE Return(t)
    /\ UNCHANGED <<active, cycle, lst, cur, peerVars, calls, events>>

-----------------------------------------------------------------------------
(* The other side.                                                         *)

\* receive(ChannelUpdate) of the peer: what it makes of an announcement.
Apply(known, u) ==
    IF u.op = "replace" THEN u.chans
    ELSE IF u.op = "add" THEN known \cup u.chans
    ELSE known \ u.chans

PeerReceives ==
    /\ wire # <<>>
    /\ wire' = Tail(wire)
    /\ IF deaf THEN UNCHANGED <<peer, valid>>
               ELSE /\ peer' = Apply(peer, Head(wire))
                    /\ valid' = (valid \/ Head(wire).op = "replace")
    /\ UNCHANGED <<busVars, lock, callVars, cur, deaf, inbox, counters>>

PeerEvent == events < MaxPeerEvents /\ events' = events + 1

\* receive(UpdateSerial) of the peer finds a cycle: the list is dropped ...
PeerFindsCycle ==
    /\ PeerEvent /\ ~deaf
    /\ deaf' = TRUE /\ peer' = {} /\ valid' = FALSE
    /\ UNCHANGED <<busVars, lock, callVars, cur, wire, inbox, calls, returned>>

\* ... or its end: the list is asked for.
PeerLeavesCycle ==
    /\ deaf
    /\ deaf' = FALSE
    /\ inbox' = Append(inbox, "ChannelReset")
    /\ UNCHANGED <<busVars, lock, callVars, cur, wire, peer, valid, counters>>

\* The connection breaks and is made again.
Reconnect ==
    /\ PeerEvent
    /\ wire' = <<>> /\ inbox' = <<"NewSession">>
    /\ peer' = {} /\ deaf' = FALSE /\ valid' = FALSE
    /\ UNCHANGED <<busVars, lock, callVars, cur, calls, returned>>

-----------------------------------------------------------------------------

ThreadStep(t) == Enter(t) \/ Collect(t) \/ Process(t) \/ Release(t)

Call(t) == ChannelsUpdate(t) \/ ToggleCycle(t) \/ ReceiveChannelReset(t) \/ ReceiveNewSession(t)

Peer == PeerReceives \/ PeerFindsCycle \/ PeerLeavesCycle \/ Reconnect

\* All calls of the bound are made and have returned.
Finished ==
    /\ calls = MaxCalls /\ \A t \in Thread : pc[t] = "idle"
    /\ UNCHANGED vars

Next == (\E t \in Thread : Call(t) \/ ThreadStep(t)) \/ Peer \/ Finished

\* A thread inside send_mine_channels() goes on.
Fairness == \A t \in Thread : WF_vars(ThreadStep(t))

Spec == Init /\ [][Next]_vars /\ Fairness

-----------------------------------------------------------------------------
(* Properties.                                                             *)

BusTyped == active \subseteq Chan /\ cycle \in BOOLEAN /\ bus \in Thread \cup {Null}
CallTyped ==
    /\ lock \in Nat
    /\ pc \in [Thread -> {"idle", "enter", "collect", "process", "release"}]
    /\ reset \in [Thread -> BOOLEAN]
    /\ lst \in [Thread -> SUBSET Chan]
    /\ cur \subseteq Chan
PeerTyped ==
    /\ wire \in Seq(Update) /\ peer \subseteq Chan /\ deaf \in BOOLEAN
    /\ inbox \in Seq({"ChannelReset", "NewSession"}) /\ valid \in BOOLEAN
CountsTyped == calls \in 0..MaxCalls /\ returned \in Nat /\ events \in 0..MaxPeerEvents

\* Every variable holds a value of its kind; the unsigned counter does not
\* fall below zero.
TypeOK == BusTyped /\ CallTyped /\ PeerTyped /\ CountsTyped

Announcing(t) == pc[t] \in {"collect", "process", "release"}

\* One thread at a time uses the bridge's lists (_cur_channels, _tmp,
\* _bus_channels), and the counter is zero exactly when none does: the lock is
\* not left taken.
OneAnnouncer ==
    /\ \A t, u \in Thread : Announcing(t) /\ Announcing(u) => t = u
    /\ lock # 0 <=> \E t \in Thread : Announcing(t)

\* What the peer should be told.
Wanted == IF cycle THEN {} ELSE active

\* No change is lost: when every caller has returned, the list as last
\* announced is the list as it is, although callers who found the announcer
\* at work returned at once.
NoLostUpdate == (\A t \in Thread : pc[t] = "idle") => cur = Wanted

\* What a peer that knows the channels k makes of the announcements w: the last
\* one about a channel decides.
Concerns(u, c) == u.op = "replace" \/ c \in u.chans
Settled(k, w) ==
    {c \in Chan :
       \/ c \in k /\ \A i \in DOMAIN w : ~Concerns(w[i], c)
       \/ \E i \in DOMAIN w : /\ c \in w[i].chans /\ w[i].op # "erase"
                              /\ \A j \in DOMAIN w : j > i => ~Concerns(w[j], c)}

\* The differences that are sent add up: a peer that has had a whole list and
\* not dropped it holds, after what is in flight, what was announced last.
PeerMirrors ==
    valid /\ ~deaf /\ cur # {} => Settled(peer, wire) = cur

\* With nothing under way and the peer listening, it knows our channels: a
\* reset sends the whole list.
PeerKnows ==
    /\ \A t \in Thread : pc[t] = "idle"
    /\ wire = <<>> /\ inbox = <<>> /\ ~deaf
    => peer = Wanted

\* Every call returns: no announcer goes round for ever, none is stuck.
CallsReturn == \A t \in Thread : pc[t] # "idle" ~> pc[t] = "idle"
=============================================================================

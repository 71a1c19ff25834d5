---------------------------- MODULE DirectBridge ----------------------------
(***************************************************************************)
(* Two brokers of one process joined by a DirectBridge                     *)
(* (src/zerobus/direct_bridge.cpp): two AbstractBridges, whose send()      *)
(* calls the receive() of the other one at once, by the same thread and    *)
(* with all the mutexes that it holds.  The bridges are monitors of their  *)
(* brokers, which call them from unlock() with the mutex still held.       *)
(*                                                                         *)
(* A call of the API, a handler and an announcement are steps of the       *)
(* thread: script[t] is what it has still to do, innermost call first, and *)
(* a step puts what it calls in front.  The mutex of a broker is recursive.*)
(*                                                                         *)
(* Channels and groups are both lists of listeners; a group has an owner   *)
(* too.  Groups go over the bridge: the bridge is a member in the broker   *)
(* of the owner, and the owner in the brokers of the members.              *)
(*                                                                         *)
(* Left out: messages and filters; serial ids, which ChannelSync has (one  *)
(* bridge between two brokers closes no cycle); the width of the counter   *)
(* of callers, which ChannelAnnounce has; callbacks, the identity of       *)
(* channel objects and the locks of channels, which LocalBus has: here     *)
(* programs call from their own threads.  They name groups and channels    *)
(* differently.                                                            *)
(***************************************************************************)
EXTENDS Naturals, Sequences, SequencesExt, FiniteSets

CONSTANTS
    Thread,
    Listener,     \* local listeners
    Home,         \* [Listener -> Side]: the broker of a listener
    Chan, Group,  \* names
    Bridge,       \* the bridge's own end, as a listener and as an owner
    Null,
    Early,        \* listeners that are used before connect(), too
    ConnectAlone, \* whether threads wait for connect()
    Calls,        \* the functions of the API that the program uses
    MaxCalls      \* bound: calls of the API

Side == {1, 2}
Other(b) == 3 - b
Name == Chan \cup Group

ASSUME HomesTyped == Home \in [Listener -> Side]
ASSUME NamesDiffer == Chan \cap Group = {}
ASSUME GroupsFinite == IsFiniteSet(Group)
ASSUME ActorsDiffer == Bridge \notin Listener /\ Null \notin Listener \cup Thread \cup {Bridge}
ASSUME AloneIsBool == ConnectAlone \in BOOLEAN
ASSUME EarlyIsListeners == Early \subseteq Listener
ASSUME CallsKnown ==
    Calls \subseteq {"subscribe", "unsubscribe", "unsubscribe_all", "add_to_group", "close_group"}
ASSUME BoundIsNat == MaxCalls \in Nat

VARIABLES
    listeners,  \* ChanDef::_listeners by broker and name; an empty one is not in the map
    owner,      \* ChanDef::_owner
    open,       \* listeners that have a mailbox
    told,       \* _cur_channels of the bridge at a broker
    callers,    \* _send_mine_channels_lock: callers, and how many want a reset
    connected,  \* DirectBridge::_connected
    changed,    \* _channels_change
    mutex,      \* who holds a broker's mutex
    depth,      \* _recursion
    script,     \* what a thread has to do
    calls

busVars == <<listeners, owner, open>>
bridgeVars == <<told, callers, connected>>
lockVars == <<mutex, depth>>
vars == <<busVars, bridgeVars, changed, lockVars, script, calls>>

-----------------------------------------------------------------------------
(* Steps: what is done, at which broker, by or for which listener.         *)

Step(op, b, who, names) == [op |-> op, at |-> b, who |-> who, names |-> names, target |-> Null]
Add(b, who, names) == Step("add", b, who, names)
Replace(b, who, names) == Step("replace", b, who, names)
Erase(b, who, names) == Step("erase", b, who, names)
UnsubscribeAll(b, who) == Step("unsubscribe_all_channels", b, who, {})
CloseGroup(b, who, g) == Step("close_group", b, who, {g})
AddToGroup(b, who, g, m) == [Step("add_to_group", b, who, {g}) EXCEPT !.target = m]
Unlock(b) == Step("unlock", b, Null, {})
Announce(b, whole) == Step(IF whole THEN "announce_all" ELSE "announce", b, Bridge, {})

Exported(b) == {c \in Chan : owner[b][c] = Null /\ listeners[b][c] \ {Bridge} # {}}
Subscribed(b, who) == {n \in Name : who \in listeners[b][n]}

Init ==
    /\ \E S \in SUBSET (Early \X Chan) :
          listeners = [b \in Side |-> [n \in Name |-> {l \in Listener : Home[l] = b /\ <<l, n>> \in S}]]
    /\ owner = [b \in Side |-> [n \in Name |-> Null]]
    /\ open = Listener
    /\ told = [b \in Side |-> {}]
    /\ callers = [b \in Side |-> [all |-> 0, resets |-> 0]]
    /\ connected = FALSE
    /\ changed = [b \in Side |-> FALSE]
    /\ mutex = [b \in Side |-> Null] /\ depth = [b \in Side |-> 0]
    /\ script = [t \in Thread |-> <<>>]
    /\ calls = 0

-----------------------------------------------------------------------------
(* What programs do.                                                       *)

Idle(t) == script[t] = <<>>
AtRest == \A t \in Thread : Idle(t)

Programs(l) ==
    LET b == Home[l]
    IN [ subscribe |-> {<<Add(b, l, {c})>> : c \in Chan},
         unsubscribe |-> {<<Erase(b, l, {n})>> : n \in Subscribed(b, l)},
         unsubscribe_all |-> {<<Step("leave", b, l, {})>>},
         add_to_group |-> {<<AddToGroup(b, l, g, m)>> : g \in Group, m \in Listener},
         close_group |-> {<<CloseGroup(b, l, g)>> : g \in Group} ]

Connecting(t) ==
    \E s \in ToSet(script[t]) :
        s.op \in {"unsubscribe_all_channels", "announce_all", "collect_all"} /\ s.who = Bridge

\* What a program uses: early listeners until it has connected the brokers, which
\* it does while no other thread is at work if ConnectAlone.
Usable ==
    IF ConnectAlone /\ \E t \in Thread : Connecting(t) THEN {}
    ELSE IF connected THEN Listener ELSE Early

Call(t) ==
    /\ Idle(t) /\ calls < MaxCalls /\ calls' = calls + 1
    /\ \E l \in Usable, f \in Calls : \E p \in Programs(l)[f] :
          script' = [script EXCEPT ![t] = p]
    /\ UNCHANGED <<busVars, bridgeVars, changed, lockVars>>

\* DirectBridge::connect(): a new session in both directions.
Connect(t) ==
    /\ Idle(t) /\ (ConnectAlone => AtRest) /\ ~connected /\ connected' = TRUE
    /\ script' = [script EXCEPT ![t] =
          <<UnsubscribeAll(2, Bridge), Announce(2, TRUE),
            UnsubscribeAll(1, Bridge), Announce(1, TRUE),
            Announce(1, FALSE), Announce(2, FALSE)>>]
    /\ UNCHANGED <<busVars, told, callers, changed, lockVars, calls>>

-----------------------------------------------------------------------------
(* The steps.  What a critical section calls comes before its Unlock.      *)

Does(t, op) == script[t] # <<>> /\ Head(script[t]).op = op
Continue(t, steps) == script' = [script EXCEPT ![t] = steps \o Tail(@)]
Acquire(t, b) ==
    /\ mutex[b] \in {Null, t}
    /\ mutex' = [mutex EXCEPT ![b] = t] /\ depth' = [depth EXCEPT ![b] = @ + 1]

\* unlock() of the outermost call notifies the monitors until nothing changes.
UnlockBus(t) ==
    /\ Does(t, "unlock")
    /\ LET b == Head(script[t]).at
           notify == depth[b] = 1 /\ changed[b]
       IN IF notify
          THEN /\ changed' = [changed EXCEPT ![b] = FALSE]
               /\ Continue(t, <<Announce(b, FALSE), Unlock(b)>>)
               /\ UNCHANGED lockVars
          ELSE /\ depth' = [depth EXCEPT ![b] = @ - 1]
               /\ mutex' = [mutex EXCEPT ![b] = IF depth[b] = 1 THEN Null ELSE t]
               /\ Continue(t, <<>>) /\ UNCHANGED changed
    /\ UNCHANGED <<busVars, bridgeVars, calls>>

With(b, who, names) ==
    [listeners EXCEPT ![b] = [n \in Name |-> IF n \in names THEN @[n] \cup {who} ELSE @[n]]]
Without(b, who, names) ==
    [listeners EXCEPT ![b] = [n \in Name |-> IF n \in names THEN @[n] \ {who} ELSE @[n]]]

\* subscribe() and receive(ChannelUpdate) with Operation::add
Subscribe(t) ==
    /\ Does(t, "add")
    /\ LET s == Head(script[t])
       IN /\ Acquire(t, s.at)
          /\ changed' = [changed EXCEPT ![s.at] = TRUE]
          /\ listeners' = With(s.at, s.who, s.names)
          /\ Continue(t, <<Unlock(s.at)>>)
    /\ UNCHANGED <<owner, open, bridgeVars, calls>>

\* The names that lose their last listener with who, and what ~ChanDef tells
\* the owner of one that is a group.
Emptied(b, who, names) == {n \in names : listeners[b][n] = {who}}
GroupsEmpty_Untold(b, gone) == <<>>
GroupsEmpty(b, gone) ==
    SetToSeq({Erase(Other(b), Bridge, {g}) : g \in {n \in gone : owner[b][n] = Bridge}})

Unsubscribe(t, b, who, names) ==
    LET gone == Emptied(b, who, names)
    IN /\ Acquire(t, b)
       /\ listeners' = Without(b, who, names)
       /\ owner' = [owner EXCEPT ![b] = [n \in Name |-> IF n \in gone THEN Null ELSE @[n]]]
       /\ changed' = [changed EXCEPT ![b] = @ \/ Subscribed(b, who) \cap names # {}]
       /\ Continue(t, GroupsEmpty(b, gone) \o <<Unlock(b)>>)
       /\ UNCHANGED <<open, bridgeVars, calls>>

\* unsubscribe(), receive(GroupEmpty), receive(ChannelUpdate) with
\* Operation::erase
UnsubscribeSome(t) ==
    /\ Does(t, "erase")
    /\ LET s == Head(script[t]) IN Unsubscribe(t, s.at, s.who, s.names)

\* unsubscribe_all_channels(), with groups
UnsubscribeAllChannels(t) ==
    /\ Does(t, "unsubscribe_all_channels")
    /\ LET s == Head(script[t]) IN Unsubscribe(t, s.at, s.who, Name)

\* receive(ChannelUpdate) with Operation::replace: channels only
ReplaceChannels(t) ==
    /\ Does(t, "replace")
    /\ LET s == Head(script[t])
           old == {c \in Subscribed(s.at, s.who) : owner[s.at][c] = Null}
       IN /\ Acquire(t, s.at)
          /\ changed' = [changed EXCEPT ![s.at] = @ \/ old # {} \/ s.names # {}]
          /\ listeners' = [Without(s.at, s.who, old) EXCEPT ![s.at] =
                [n \in Name |-> IF n \in s.names THEN @[n] \cup {s.who} ELSE @[n]]]
          /\ Continue(t, <<Unlock(s.at)>>)
    /\ UNCHANGED <<owner, open, bridgeVars, calls>>

\* add_to_group() with the lock held over on_add_to_group() of the member: of
\* the listener, which has a mailbox here, or of the bridge, over which the path
\* to it goes.  A bridge that is refused takes the group back from the other
\* side (receive(AddToGroup)).
AddMember(t) ==
    /\ Does(t, "add_to_group")
    /\ LET s == Head(script[t])
           b == s.at
           g == CHOOSE n \in s.names : TRUE
           local == Home[s.target] = b
           member == IF local THEN s.target ELSE Bridge
           found == IF local THEN s.target \in open ELSE s.who # Bridge
           admitted == found /\ owner[b][g] \in {Null, s.who}
       IN /\ Acquire(t, b)
          /\ IF admitted
             THEN /\ owner' = [owner EXCEPT ![b][g] = s.who]
                  /\ listeners' = With(b, member, {g})
                  /\ Continue(t, (IF local THEN <<>> ELSE <<AddToGroup(Other(b), Bridge, g, s.target)>>)
                                 \o <<Unlock(b)>>)
             ELSE /\ Continue(t, <<Unlock(b)>>
                                 \o IF s.who = Bridge THEN <<Erase(Other(b), Bridge, {g})>> ELSE <<>>)
                  /\ UNCHANGED <<owner, listeners>>
    /\ UNCHANGED <<open, bridgeVars, changed, calls>>

\* ~ChanDef of a closed group: its members are told, and a bridge tells the
\* other side.
Close(b, groups) ==
    /\ owner' = [owner EXCEPT ![b] = [n \in Name |-> IF n \in groups THEN Null ELSE @[n]]]
    /\ listeners' = [listeners EXCEPT ![b] = [n \in Name |-> IF n \in groups THEN {} ELSE @[n]]]
Closed(b, groups) ==
    SetToSeq({CloseGroup(Other(b), Bridge, g) : g \in {n \in groups : Bridge \in listeners[b][n]}})

\* close_group() takes no lock.
CloseOneGroup(t) ==
    /\ Does(t, "close_group")
    /\ LET s == Head(script[t])
           groups == {g \in s.names : owner[s.at][g] = s.who /\ listeners[s.at][g] # {}}
       IN /\ Close(s.at, groups)
          /\ changed' = [changed EXCEPT ![s.at] = @ \/ groups # {}]
          /\ Continue(t, Closed(s.at, groups))
    /\ UNCHANGED <<open, bridgeVars, lockVars, calls>>

\* unsubscribe_all(): the mailbox, the groups it owns, what it subscribes.
Leave(t) ==
    /\ Does(t, "leave")
    /\ LET s == Head(script[t])
           groups == {n \in Name : owner[s.at][n] = s.who}
       IN /\ Acquire(t, s.at)
          /\ open' = open \ {s.who}
          /\ Close(s.at, groups)
          /\ Continue(t, Closed(s.at, groups) \o <<UnsubscribeAll(s.at, s.who), Unlock(s.at)>>)
    /\ UNCHANGED <<bridgeVars, changed, calls>>

-----------------------------------------------------------------------------
(* send_mine_channels()                                                    *)

\* fetch_add: the first one announces, the others make it go round again.
Enter(t) ==
    /\ Does(t, "announce") \/ Does(t, "announce_all")
    /\ LET s == Head(script[t])
           whole == s.op = "announce_all"
       IN /\ callers' = [callers EXCEPT ![s.at] =
                [all |-> @.all + 1, resets |-> @.resets + IF whole THEN 1 ELSE 0]]
          /\ Continue(t, IF callers[s.at].all > 0 THEN <<>>
                         ELSE <<Step(IF whole THEN "collect_all" ELSE "collect", s.at, Bridge, {})>>)
    /\ UNCHANGED <<busVars, told, connected, changed, lockVars, calls>>

Updates(to, old, new, whole) ==
    IF old = {} \/ whole
    THEN IF new = {} THEN <<>> ELSE <<Replace(to, Bridge, new)>>
    ELSE IF new = {} THEN <<Replace(to, Bridge, {})>>
    ELSE (IF new \subseteq old THEN <<>> ELSE <<Add(to, Bridge, new \ old)>>)
         \o (IF old \subseteq new THEN <<>> ELSE <<Erase(to, Bridge, old \ new)>>)

\* get_active_channels(), whose own unlock() may have a change to notify of when
\* it is the outermost, and process_mine_channels() up to the calls of the other
\* side.
Collect(t) ==
    /\ Does(t, "collect") \/ Does(t, "collect_all")
    /\ LET s == Head(script[t])
           new == Exported(s.at)
           pending == depth[s.at] = 0 /\ changed[s.at]
       IN /\ mutex[s.at] \in {Null, t}
          /\ changed' = [changed EXCEPT ![s.at] = @ /\ ~pending]
          /\ callers' = [callers EXCEPT ![s.at].all = @ + IF pending THEN 1 ELSE 0]
          /\ Continue(t, Updates(Other(s.at), told[s.at], new, s.op = "collect_all")
                         \o <<Step("release", s.at, Bridge, new)>>)
    /\ UNCHANGED <<busVars, told, connected, lockVars, calls>>

Again_Never(c) == FALSE
Again(c) == c.all > 1

\* persist_channel_list(), and the exchange.
Release(t) ==
    /\ Does(t, "release")
    /\ LET s == Head(script[t])
           c == callers[s.at]
       IN /\ told' = [told EXCEPT ![s.at] = s.names]
          /\ callers' = [callers EXCEPT ![s.at] = [all |-> 0, resets |-> 0]]
          /\ Continue(t, IF Again(c) THEN <<Announce(s.at, c.resets > 1)>> ELSE <<>>)
    /\ UNCHANGED <<busVars, connected, changed, lockVars, calls>>

Work(t) ==
    \/ Subscribe(t) \/ UnsubscribeSome(t) \/ UnsubscribeAllChannels(t) \/ ReplaceChannels(t)
    \/ AddMember(t) \/ CloseOneGroup(t) \/ Leave(t)
    \/ UnlockBus(t) \/ Enter(t) \/ Collect(t) \/ Release(t)

Next == \E t \in Thread : Call(t) \/ Connect(t) \/ Work(t)

Spec == Init /\ [][Next]_vars

-----------------------------------------------------------------------------
(* Properties                                                              *)

\* monitor.h:10-12 and direct_bridge.h:7-8: at rest, after connect(), each
\* bridge subscribes exactly what local listeners of the other broker do: no
\* change was announced too early, in the wrong order, or not at all.
SidesAgree ==
    AtRest /\ connected => \A b \in Side : Subscribed(b, Bridge) \cap Chan = Exported(Other(b))

\* listener.h:74-81: when the last member of a group left, the bridge is taken
\* out of the group on the other side.  At rest, where a bridge is a member of a
\* group, there are members on the other side, in a group that the bridge owns.
ForwardedIsKnown ==
    AtRest => \A b \in Side : \A g \in Group \cap Subscribed(b, Bridge) :
        owner[Other(b)][g] = Bridge /\ listeners[Other(b)][g] # {}

\* listener.h:72-74: only when the last member of a group left, the owner is
\* told and the group erased.  At rest the other side knows the groups whose
\* members are here.
NobodyStranded ==
    AtRest => \A b \in Side, g \in Group :
        owner[b][g] = Bridge => Bridge \in listeners[Other(b)][g]

\* Two threads never wait for the mutexes that each other holds.
NoWaitCycle ==
    ~ \E t, u \in Thread, b \in Side :
        /\ t # u /\ mutex[b] = t /\ mutex[Other(b)] = u
        /\ Idle(t) = FALSE /\ Head(script[t]).op # "unlock" /\ Head(script[t]).at = Other(b)
        /\ Idle(u) = FALSE /\ Head(script[u]).op # "unlock" /\ Head(script[u]).at = b
=============================================================================

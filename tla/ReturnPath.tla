---------------------------- MODULE ReturnPath ----------------------------
(***************************************************************************)
(* Return paths: how one broker (src/zerobus/local_bus.cpp) learns which   *)
(* bridge leads to an address of another broker, uses that to route        *)
(* private messages, and forgets it.                                       *)
(*                                                                         *)
(* A message that comes in over a bridge teaches the broker a path to its  *)
(* sender (dispatch_message).  The table is a hash map whose items are     *)
(* also the nodes of a doubly linked list with two sentinels, _root and    *)
(* _last, the item touched last first.  A path goes away when the table is *)
(* full, when the other side reports that the receiver is gone             *)
(* (clear_return_path), or when its bridge is destroyed (remove_listener,  *)
(* a loop over the list, modelled one node at a time).                     *)
(*                                                                         *)
(* Abstracted: payloads; channels and groups, which module LocalBus has (a *)
(* channel's name counts as a local name here).                            *)
(***************************************************************************)
EXTENDS Naturals, Sequences, FiniteSets

CONSTANTS
    LocalId,   \* mailbox addresses that this broker hands out
    RemoteId,  \* addresses at other brokers
    Bridge,    \* bridges of this broker
    Thread,    \* threads that deliver what the bridges receive
    Root, End, \* the sentinels: _root, and the pseudo-node that ends in _last
    Null,
    Limit,     \* BackPathStorage::_limit
    MaxSends   \* bound: messages sent along a path

Id == LocalId \cup RemoteId
Sender == Id \cup {Null}   \* a message may have none

ASSUME IdsFinite == IsFiniteSet(LocalId) /\ IsFiniteSet(RemoteId)
ASSUME IdsDiffer == LocalId \cap RemoteId = {}
ASSUME NodesDiffer == Root # End /\ {Root, End, Null} \cap (Id \cup Bridge) = {}
                      /\ Null \notin {Root, End}
ASSUME LimitNotZero == Limit \in Nat \ {0}
ASSUME SendsNat == MaxSends \in Nat

VARIABLES
    mail,    \* _mailboxes_by_name: addresses registered now
    used,    \* local addresses handed out so far
    alive,   \* bridges that exist
    entries, \* keys of _entries
    links,   \* BackPathItem::next and ::prev of every node
    via,     \* BackPathItem::l
    leaving, \* bridge whose remove_listener() runs, under the bus mutex
    cursor,  \* its loop variable ptr
    msg,     \* message a thread has noted the sender of, and has to forward
    sent,    \* external: messages on their way over a bridge
    untold,  \* history: failed messages whose local sender was not notified
    sends    \* messages sent along a path so far

pathVars == <<entries, links, via>>
scanVars == <<leaving, cursor>>
mailVars == <<mail, used>>
sentVars == <<sent, untold, sends>>
vars == <<mailVars, alive, pathVars, scanVars, msg, sentVars>>

NoMsg == [from |-> Null, sender |-> Null, to |-> Null]

Init ==
    /\ mail = {} /\ used = {} /\ alive = Bridge
    /\ entries = {}
    /\ links = [next |-> [n \in Id \cup {Root} |-> IF n = Root THEN End ELSE Null],
                prev |-> [n \in Id \cup {End} |-> Null]]
    /\ via = [c \in Id |-> Null]
    /\ leaving = Null /\ cursor = Null
    /\ msg = [t \in Thread |-> NoMsg]
    /\ sent = {} /\ untold = {} /\ sends = 0

-----------------------------------------------------------------------------
(* The list.                                                               *)

\* BackPathItem::remove(): a node that was never linked has no neighbours.
Unlink(g, x) ==
    LET n == g.next[x]  p == g.prev[x]
    IN [next |-> IF p = Null THEN g.next ELSE [g.next EXCEPT ![p] = n],
        prev |-> IF n = Null THEN g.prev ELSE [g.prev EXCEPT ![n] = p]]

\* BackPathItem::promote(): out of its place and to the front.
Promote_Append(g, x) ==
    LET u == Unlink(g, x)
        e == IF u.prev[End] = Null THEN Root ELSE u.prev[End]
    IN [next |-> [u.next EXCEPT ![x] = End, ![e] = x],
        prev |-> [u.prev EXCEPT ![x] = e, ![End] = x]]
Promote(g, x) ==
    LET u == Unlink(g, x)
        f == u.next[Root]
    IN [next |-> [u.next EXCEPT ![x] = f, ![Root] = x],
        prev |-> [u.prev EXCEPT ![x] = Root, ![f] = x]]

\* Unlinked and destroyed.
Drop_Keep(g, x) == [next |-> [g.next EXCEPT ![g.prev[x]] = g.next[x], ![x] = Null],
                    prev |-> [g.prev EXCEPT ![x] = Null]]
Drop(g, x) ==
    LET u == Unlink(g, x)
    IN [next |-> [u.next EXCEPT ![x] = Null], prev |-> [u.prev EXCEPT ![x] = Null]]

\* _entries.erase() after remove().
ErasePath(x) ==
    /\ entries' = entries \ {x}
    /\ links' = Drop(links, x)
    /\ via' = [via EXCEPT ![x] = Null]

\* store_path() with a listener: refresh, or insert and evict.  One insertion
\* puts the table at most one item over the limit.
StorePath(c, b) ==
    LET g == Promote(links, c)
        victim == g.prev[End]
    IN IF Cardinality(entries \cup {c}) > Limit
       THEN /\ entries' = (entries \cup {c}) \ {victim}
            /\ links' = Drop(g, victim)
            /\ via' = [via EXCEPT ![c] = b, ![victim] = Null]
       ELSE /\ entries' = entries \cup {c}
            /\ links' = g
            /\ via' = [via EXCEPT ![c] = b]

-----------------------------------------------------------------------------

MutexFree == leaving = Null

\* get_mailbox(): a new address, unlike any other.
OpenMailbox(a) ==
    /\ MutexFree /\ a \notin used
    /\ mail' = mail \cup {a} /\ used' = used \cup {a}
    /\ UNCHANGED <<alive, pathVars, scanVars, msg, sentVars>>

\* remove_mailbox()
CloseMailbox(a) ==
    /\ MutexFree /\ a \in mail
    /\ mail' = mail \ {a}
    /\ UNCHANGED <<used, alive, pathVars, scanVars, msg, sentVars>>

\* dispatch_message() as AbstractBridge::receive(Message) calls it, up to the
\* release of the mutex.  The sender is empty, an address elsewhere, or a
\* local one whose message came back over a cycle of bridges.
NoteSender(t, b, s, r) ==
    /\ MutexFree /\ b \in alive /\ msg[t] = NoMsg
    /\ msg' = [msg EXCEPT ![t] = [from |-> b, sender |-> s, to |-> r]]
    /\ IF s = Null \/ s \in mail THEN UNCHANGED pathVars ELSE StorePath(s, b)
    /\ UNCHANGED <<mailVars, alive, scanVars, sentVars>>

\* A bridge sends the message, which need not have a sender: on_message(msg,
\* true) called with the mutex held.
SendOver(b, s, r) ==
    /\ sends < MaxSends /\ sends' = sends + 1
    /\ sent' = sent \cup {<<s, r, b>>}
    /\ UNCHANGED untold

\* The rest of dispatch_message(): forward_message_internal().  Mailboxes go
\* first, then the return path, else the bridge reports "no route".
Forward(t) ==
    /\ msg[t] # NoMsg
    /\ msg' = [msg EXCEPT ![t] = NoMsg]
    /\ LET r == msg[t].to
       IN \/ r \in mail /\ UNCHANGED sentVars
          \/ /\ r \notin mail /\ r \in entries /\ MutexFree
             /\ SendOver(via[r], msg[t].sender, r)
          \/ r \notin mail /\ r \notin entries /\ MutexFree /\ UNCHANGED sentVars
    /\ UNCHANGED <<mailVars, alive, pathVars, scanVars>>

\* send_message() of the owner of a local mailbox, to an address elsewhere.
SendMessage(s, r) ==
    /\ MutexFree /\ s \in mail /\ r \notin mail /\ r \in entries
    /\ SendOver(via[r], s, r)
    /\ UNCHANGED <<mailVars, alive, pathVars, scanVars, msg>>

\* Whether a report of bridge b is about the path in the table.
OwnPath_Any(b, r) == TRUE
OwnPath(b, r) == via[r] = b

\* clear_return_path(), on a NoRoute message from the bridge.
ClearReturnPath(b, s, r) ==
    /\ MutexFree /\ b \in alive /\ <<s, r, b>> \in sent
    /\ sent' = sent \ {<<s, r, b>>}
    /\ IF r \in entries /\ OwnPath(b, r)
       THEN \* passed on along the path to the sender, if there is one
            /\ ErasePath(r)
            /\ untold' = IF s \in mail THEN untold \cup {<<s, r>>} ELSE untold
       ELSE \* a mailbox of that address is notified
            UNCHANGED <<pathVars, untold>>
    /\ UNCHANGED <<mailVars, alive, scanVars, msg, sends>>

\* remove_listener(), called by unsubscribe_all() in the bridge's destructor;
\* by then none of the bridge's own callbacks runs.
BridgeLeaves(b) ==
    /\ MutexFree /\ b \in alive /\ \A t \in Thread : msg[t].from # b
    /\ leaving' = b
    /\ cursor' = links.next[Root]
    /\ UNCHANGED <<mailVars, alive, pathVars, msg, sentVars>>

\* One round of the loop: the next node is read before this one is erased.
After_Back(x) == IF via[x] = leaving THEN links.prev[x] ELSE links.next[x]
After_Erased(x) == IF via[x] = leaving THEN links.next[x] ELSE x
After_Skip(x) == IF via[x] = leaving /\ links.next[x] # End
                 THEN links.next[links.next[x]] ELSE links.next[x]
After(x) == links.next[x]

ScanPath ==
    /\ ~MutexFree /\ cursor # End
    /\ cursor' = After(cursor)
    /\ IF via[cursor] = leaving THEN ErasePath(cursor) ELSE UNCHANGED pathVars
    /\ UNCHANGED <<mailVars, alive, leaving, msg, sentVars>>

ScanEnd ==
    /\ ~MutexFree /\ cursor = End
    /\ alive' = alive \ {leaving}
    /\ sent' = {m \in sent : m[3] # leaving}
    /\ leaving' = Null /\ cursor' = Null
    /\ UNCHANGED <<mailVars, pathVars, msg, untold, sends>>

Next ==
    \/ \E a \in LocalId : OpenMailbox(a) \/ CloseMailbox(a)
    \/ \E t \in Thread, b \in Bridge, s \in RemoteId \cup used \cup {Null}, r \in Id :
         NoteSender(t, b, s, r)
    \/ \E t \in Thread : Forward(t)
    \/ \E s \in LocalId, r \in Id : SendMessage(s, r)
    \/ \E b \in Bridge, s \in Sender, r \in Id : ClearReturnPath(b, s, r)
    \/ \E b \in Bridge : BridgeLeaves(b)
    \/ ScanPath \/ ScanEnd

\* The loop goes on.
Fairness == WF_vars(ScanPath \/ ScanEnd)

Spec == Init /\ [][Next]_vars /\ Fairness

-----------------------------------------------------------------------------
(* Properties.                                                             *)

Links == [next: [Id \cup {Root} -> Id \cup {End, Null}],
          prev: [Id \cup {End} -> Id \cup {Root, Null}]]

MailTyped == mail \subseteq used /\ used \subseteq LocalId /\ alive \subseteq Bridge
PathTyped ==
    /\ entries \subseteq Id /\ links \in Links /\ via \in [Id -> Bridge \cup {Null}]
ScanTyped == leaving \in Bridge \cup {Null} /\ cursor \in Id \cup {End, Null}
SendTyped ==
    /\ msg \in [Thread -> [from: Bridge, sender: Sender, to: Id] \cup {NoMsg}]
    /\ sent \subseteq Sender \X Id \X Bridge /\ untold \subseteq Id \X Id
    /\ sends \in 0..MaxSends

\* Every variable holds a value of its kind.
TypeOK == MailTyped /\ PathTyped /\ ScanTyped /\ SendTyped

Linked(g, S) ==
    /\ g.next[Root] \in S \cup {End}
    /\ \A c \in S : /\ g.next[c] \in S \cup {End} /\ g.prev[g.next[c]] = c
                    /\ g.prev[c] \in S \cup {Root} /\ g.next[g.prev[c]] = c
    /\ g.next[Root] = End => g.prev[End] \in {Root, Null}
    /\ g.next[Root] # End => /\ g.prev[g.next[Root]] = Root
                             /\ g.prev[End] \in S /\ g.next[g.prev[End]] = End

\* The two directions of the list agree, and its nodes are the items in the
\* map: no pointer to an erased item is left.
LinksConsistent == Linked(links, entries)

\* The table never holds more than the limit.
WithinLimit == Cardinality(entries) <= Limit

\* No path leads to a bridge that was destroyed: send_message() would call it.
NoDanglingPath == \A c \in entries : via[c] \in alive

\* A path is lost only to a newer one in a full table, to its own bridge going
\* away, or to a report of that bridge about a message sent over it: a late
\* report of another bridge does not take it.
PathLossJustified ==
    [][\A c \in entries \ entries' :
         \/ Cardinality(entries) = Limit /\ links.next[c] = End /\ MutexFree
         \/ leaving = via[c]
         \/ \E s \in Sender : <<s, c, via[c]>> \in sent]_vars

\* The loop over the list ends, although it erases the nodes it stands on.
ScanEnds == leaving # Null ~> leaving = Null

\* Read from the front, the list g of the items S is s.
Reads(g, S, s) ==
    /\ s \in Seq(S) /\ \A c \in S : \E i \in DOMAIN s : s[i] = c
    /\ \A i, j \in DOMAIN s : s[i] = s[j] => i = j
    /\ g.next[Root] = IF s = <<>> THEN End ELSE s[1]
    /\ \A i \in DOMAIN s : g.next[s[i]] = IF i = Len(s) THEN End ELSE s[i + 1]
ListOrder == CHOOSE s \in [1 .. Cardinality(entries) -> entries] : Reads(links, entries, s)

\* Map and list together are the bounded table of module PathCache.
Table == INSTANCE PathCache WITH order <- ListOrder, via <- via
IsPathCache == Table!Spec

\* A local sender hears of a message that could not be delivered.
SenderIsTold == untold = {}
=============================================================================

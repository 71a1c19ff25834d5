------------------------------ MODULE LocalBus ------------------------------
(***************************************************************************)
(* The message broker of zerobus (src/zerobus/local_bus.cpp) as the        *)
(* threads of one process see it.                                          *)
(*                                                                         *)
(* A thread calls the bus either from its own code (an "outside" call) or  *)
(* from inside a listener's on_message callback.  Every API function is a  *)
(* short program of steps, kept in script[t]; each step is one critical    *)
(* section of the code.  The bus mutex is held from the first step that    *)
(* needs it to the program's "unlock" step.  Two queues per thread (the    *)
(* thread_local TLState) defer work while the thread is already running a  *)
(* broadcast: changes of a channel's listener list go to lq, messages to   *)
(* mq.  A channel is an object with an identity (a ChanDef behind a        *)
(* shared_ptr), distinct from its name in the map _channels: a queued      *)
(* change still refers to the object after the name was erased or reused,  *)
(* and most of what can go wrong here is a disagreement of the two.        *)
(*                                                                         *)
(* Abstracted: the message payload; the back path and bridges (module      *)
(* users see "no route"); monitors and the serial id, which only the       *)
(* bridges use; callbacks other than on_message, which make no bus call    *)
(* here.                                                                   *)
(***************************************************************************)
EXTENDS Naturals, Sequences, FiniteSets, SequencesExt

CONSTANTS
    Thread,        \* threads that use the bus
    Listener,      \* IListener objects
    Name,          \* channel names
    Chan,          \* identities of ChanDef objects
    Mbx,           \* identities of MbxDef objects, which stand for their addresses too
    Null,          \* nullptr
    OutsideCalls,  \* API functions called by a thread's own code
    CallbackCalls, \* API functions called inside on_message
    MaxCalls       \* bound: API calls in a behaviour

APIs == {"subscribe", "unsubscribe", "unsubscribe_all", "unsubcribe_private", "replace",
         "send", "post", "reply", "add_to_group", "close_group"}

ASSUME NamesFinite == IsFiniteSet(Name)
ASSUME IdentitiesDiffer ==
    /\ Null \notin Thread \cup Listener \cup Name \cup Chan \cup Mbx
    /\ Chan \cap Mbx = {}
ASSUME CallsKnown == OutsideCalls \subseteq APIs /\ CallbackCalls \subseteq APIs
ASSUME BoundIsNat == MaxCalls \in Nat

VARIABLES
    channels,   \* _channels: name -> ChanDef
    id,         \* ChanDef::_name
    owner,      \* ChanDef::_owner of a group
    listeners,  \* ChanDef::_listeners
    mailbox,    \* _mailboxes_by_ptr, and by value _mailboxes_by_name
    mbxOwner,   \* MbxDef::_owner
    disabled,   \* MbxDef::_disabled
    bus,        \* owner of the recursive mutex _mutex
    script,     \* rest of the API call a thread is in
    running,    \* TLState::_running
    lq,         \* TLState::_lsn_queue
    mq,         \* TLState::_msg_queue
    emptied,    \* channel_is_empty() about to be called by TLSLsnQueueItem::execute
    casting,    \* target whose broadcast() is executing (a channel's shared lock is held)
    todo,       \* listeners that broadcast() has still to call
    cb,         \* listener whose on_message is executing
    posted,     \* messages posted by the thread so far
    last,       \* number of the message being broadcast, or broadcast last
    calls,      \* API calls made so far
    intent,     \* history: subscriptions the callers have been told of
    gone        \* history: listeners unsubscribe_all has returned for

dirVars   == <<channels, id, owner, listeners>>
mbxVars   == <<mailbox, mbxOwner, disabled>>
queueVars == <<running, lq, mq, emptied>>
castVars  == <<casting, todo, cb, last>>
histVars  == <<intent, gone>>
counters  == <<posted, calls>>
vars == <<dirVars, mbxVars, bus, script, queueVars, castVars, counters, histVars>>

Target == Chan \cup Mbx

-----------------------------------------------------------------------------
(* The steps API programs are made of: op names the critical section.      *)

Step(op, l, x) == [op |-> op, lsn |-> l, arg |-> x]

LsnItem == [kind: {"add", "remove"}, lsn: Listener, chan: Chan]
             \cup [kind: {"mailbox"}, lsn: Listener, chan: {Null}]
MsgItem == [to: Target, from: Listener \cup {Null}, num: Nat]

Instr ==
    [op: {"subscribe_lk", "unsubscribe_lk"}, lsn: Listener, arg: Name]
      \cup [op: {"unsubscribe_all_channels_lk"}, lsn: Listener,
             arg: {"and_groups", "public"}]
      \cup [op: {"erase_mailbox_lk", "erase_groups_lk", "get_mailbox"},
             lsn: Listener, arg: {Null}]
      \cup [op: {"unlock"}, lsn: Listener \cup {Null}, arg: {Null}]
      \cup [op: {"find_channel", "close_group"}, lsn: Listener \cup {Null}, arg: Name]
      \cup [op: {"find_mailbox"}, lsn: Listener \cup {Null}, arg: Mbx]
      \cup [op: {"enqueue_msg"}, lsn: Listener \cup {Null}, arg: Target]
      \cup [op: {"add_to_group"}, lsn: Listener \cup {Null}, arg: Name \X Mbx]
      \cup [op: {"add_listener"}, lsn: Listener, arg: Chan]

Unlock == Step("unlock", Null, Null)

\* send_message(): an identified sender first gets itself a mailbox, under a
\* lock of its own, and only then is the route looked up.
SendCode(l, lookup) ==
    (IF l = Null THEN <<>> ELSE <<Step("get_mailbox", l, Null), Unlock>>) \o <<lookup>>

\* The programs of the API functions, for every argument.
Programs ==
    [ subscribe |->
        {<<Step("subscribe_lk", l, c), Unlock>> : l \in Listener, c \in Name},
      unsubscribe |->
        {<<Step("unsubscribe_lk", l, c), Unlock>> : l \in Listener, c \in Name},
      unsubscribe_all |->
        {<<Step("erase_mailbox_lk", l, Null), Step("erase_groups_lk", l, Null),
           Step("unsubscribe_all_channels_lk", l, "and_groups"), Step("unlock", l, Null)>>
           : l \in Listener},
      unsubcribe_private |->
        {<<Step("erase_mailbox_lk", l, Null), Unlock>> : l \in Listener},
      replace |->
        {<<Step("unsubscribe_all_channels_lk", l, "public"),
           Step("subscribe_lk", l, c), Unlock>> : l \in Listener, c \in Name},
      post |->
        {SendCode(Null, Step("find_channel", Null, c)) : c \in Name},
      send |->
        {SendCode(l, Step("find_channel", l, c)) : l \in Listener, c \in Name},
      reply |->
        {SendCode(l, Step("find_mailbox", l, m)) : l \in Listener, m \in Mbx},
      add_to_group |->
        {<<Step("add_to_group", l, <<c, m>>), Unlock>>
           : l \in Listener \cup {Null}, c \in Name, m \in Mbx},
      close_group |->
        {<<Step("close_group", l, c)>> : l \in Listener \cup {Null}, c \in Name} ]

-----------------------------------------------------------------------------
(* Readings of the state.                                                  *)

InCallback(t) == cb[t] # Null

\* Neither executing a broadcast nor a deferred change.
Outside(t) == ~running[t]

\* The step t executes next: an outside call waits while the changes it
\* enqueued are executed, a call from a callback goes on at once.
At(t, op) ==
    /\ script[t] # <<>> /\ Head(script[t]).op = op
    /\ Outside(t) \/ InCallback(t)

Lsn(t) == Head(script[t]).lsn
Arg(t) == Head(script[t]).arg

\* The mutex is recursive: a thread that holds it may enter again.
MayLock(t) == bus \in {Null, t}

\* Threads that hold the shared lock of channel o.
Readers(o) == {t \in Thread : casting[t] = o}

\* The unique lock of channel o is free.
MayWrite_Unguarded(o) == TRUE
MayWrite(o) == Readers(o) = {}

Mapped(c) == channels[c] # Null

\* ChanDef::has() on the channel registered under the name c.
Has(c, l) == Mapped(c) /\ l \in listeners[channels[c]]

\* Some shared_ptr refers to the target: the map, a queue, a running
\* broadcast or the local variable of a call.
Referenced(o) ==
    \/ \E c \in Name : channels[c] = o
    \/ \E l \in Listener : mailbox[l] = o
    \/ \E t \in Thread :
         \/ casting[t] = o \/ emptied[t] = o
         \/ \E item \in Range(lq[t]) : item.chan = o
         \/ \E item \in Range(mq[t]) : item.to = o
         \/ \E step \in Range(script[t]) : step.arg = o

FreshChan == {o \in Chan : ~Referenced(o)}
FreshMbx  == {m \in Mbx : ~Referenced(m)}

\* get_channel_lk(): the registered channel, or a new one.
GetChannel_NoCreate(c) == channels[c]
GetChannel(c) == IF Mapped(c) THEN channels[c] ELSE CHOOSE o \in FreshChan : TRUE

\* What get_channel_lk() leaves behind (the Chan bound must leave it a spare):
\* a new ChanDef starts without listeners.
RegisterChannel(c) ==
    LET o == GetChannel(c)
    IN /\ Mapped(c) \/ FreshChan # {}
       /\ channels' = [channels EXCEPT ![c] = o]
       /\ id' = [id EXCEPT ![o] = c]
       /\ listeners' = IF Mapped(c) THEN listeners ELSE [listeners EXCEPT ![o] = {}]

Init ==
    /\ channels = [c \in Name |-> Null]
    /\ id = [o \in Chan |-> Null]
    /\ owner = [o \in Chan |-> Null]
    /\ listeners = [o \in Chan |-> {}]
    /\ mailbox = [l \in Listener |-> Null]
    /\ mbxOwner = [m \in Mbx |-> Null]
    /\ disabled = [m \in Mbx |-> FALSE]
    /\ bus = Null
    /\ script = [t \in Thread |-> <<>>]
    /\ running = [t \in Thread |-> FALSE]
    /\ lq = [t \in Thread |-> <<>>]
    /\ mq = [t \in Thread |-> <<>>]
    /\ emptied = [t \in Thread |-> Null]
    /\ casting = [t \in Thread |-> Null]
    /\ todo = [t \in Thread |-> {}]
    /\ cb = [t \in Thread |-> Null]
    /\ posted = [t \in Thread |-> 0]
    /\ last = [t \in Thread |-> 0]
    /\ calls = 0
    /\ intent = {}
    /\ gone = {}

-----------------------------------------------------------------------------
(* API calls.                                                              *)

\* A thread enters an API function.
Call(t) ==
    /\ script[t] = <<>>
    /\ Outside(t) \/ InCallback(t)
    /\ calls < MaxCalls
    /\ calls' = calls + 1
    /\ \E api \in IF Outside(t) THEN OutsideCalls ELSE CallbackCalls :
         \E code \in Programs[api] : script' = [script EXCEPT ![t] = code]
    /\ UNCHANGED <<dirVars, mbxVars, bus, queueVars, castVars, posted, histVars>>

\* The step is done; the rest of the call follows.
Done(t) == script' = [script EXCEPT ![t] = Tail(@)]
Continue(t, rest) == script' = [script EXCEPT ![t] = rest]

\* Executing a step under the bus mutex.
Locked(t) == MayLock(t) /\ bus' = t

\* TLState::enqueue_lsn: an outside call executes the items at once, one by
\* one (the steps of RunListenerQueue), before its next step.
EnqueueLsn(t, items) ==
    /\ lq' = [lq EXCEPT ![t] = @ \o items]
    /\ running' = [running EXCEPT ![t] = @ \/ items # <<>>]
    /\ UNCHANGED <<mq, emptied>>

\* Entering a listener on the channel's list is always left to the queue ...
Enlist_AtOnce(t, l, o) ==
    /\ Continue(t, <<Step("add_listener", l, o)>> \o Tail(script[t]))
    /\ UNCHANGED queueVars
Enlist(t, l, o) ==
    /\ Done(t)
    /\ EnqueueLsn(t, <<[kind |-> "add", lsn |-> l, chan |-> o]>>)

\* subscribe_lk(): refused for a group.
Subscribe(t) ==
    /\ At(t, "subscribe_lk") /\ Locked(t)
    /\ LET l == Lsn(t)  c == Arg(t)  o == GetChannel(c)
       IN IF Mapped(c) /\ owner[o] # Null
          THEN Done(t) /\ UNCHANGED <<dirVars, queueVars, histVars>>
          ELSE /\ RegisterChannel(c)
               /\ owner' = [owner EXCEPT ![o] = Null]
               /\ Enlist(t, l, o)
               /\ intent' = intent \cup {<<l, c>>}
               /\ gone' = gone \ {l}
    /\ UNCHANGED <<mbxVars, castVars, counters>>

\* unsubscribe_lk()
Unsubscribe(t) ==
    /\ At(t, "unsubscribe_lk") /\ Locked(t) /\ Done(t)
    /\ LET l == Lsn(t)  c == Arg(t)
       IN /\ IF Has(c, l)
             THEN EnqueueLsn(t, <<[kind |-> "remove", lsn |-> l, chan |-> channels[c]]>>)
             ELSE UNCHANGED queueVars
          /\ intent' = intent \ {<<l, c>>}
    /\ UNCHANGED <<dirVars, mbxVars, castVars, counters, gone>>

\* The channels unsubscribe_all_channels_lk() takes the listener from: all it is
\* listed on, groups included, or the public ones; one removal for each.
ChannelsOf(l, which) ==
    {c \in Name : Has(c, l) /\ (which = "and_groups" \/ owner[channels[c]] = Null)}
Removals(l, which) ==
    LET order == SetToSeq(ChannelsOf(l, which))
    IN [i \in DOMAIN order |-> [kind |-> "remove", lsn |-> l, chan |-> channels[order[i]]]]

\* unsubscribe_all_channels_lk()
UnsubscribeAllChannels(t) ==
    /\ At(t, "unsubscribe_all_channels_lk") /\ Locked(t) /\ Done(t)
    /\ EnqueueLsn(t, Removals(Lsn(t), Arg(t)))
    /\ intent' = {s \in intent : s[1] # Lsn(t)}
    /\ UNCHANGED <<dirVars, mbxVars, castVars, counters, gone>>

\* MbxDef::disable()
Disable_Not(m) == UNCHANGED disabled
Disable(m) == disabled' = [disabled EXCEPT ![m] = TRUE]

RemovalOfMailbox_None(l) == <<>>
RemovalOfMailbox(l) == <<[kind |-> "mailbox", lsn |-> l, chan |-> Null]>>

\* erase_mailbox_lk()
EraseMailbox(t) ==
    /\ At(t, "erase_mailbox_lk") /\ Locked(t) /\ Done(t)
    /\ LET m == mailbox[Lsn(t)]
       IN IF m = Null
          THEN UNCHANGED <<disabled, queueVars>>
          ELSE /\ Disable(m)
               /\ EnqueueLsn(t, RemovalOfMailbox(Lsn(t)))
    /\ UNCHANGED <<dirVars, mailbox, mbxOwner, castVars, counters, histVars>>

\* erase_groups_lk()
EraseGroups(t) ==
    /\ At(t, "erase_groups_lk") /\ Locked(t) /\ Done(t)
    /\ LET mine == {c \in Name : Mapped(c) /\ owner[channels[c]] = Lsn(t)}
       IN /\ channels' = [c \in Name |-> IF c \in mine THEN Null ELSE channels[c]]
          /\ intent' = {s \in intent : s[2] \notin mine}
    /\ UNCHANGED <<id, owner, listeners, mbxVars, queueVars, castVars, counters, gone>>

\* add_to_group() up to the listener list.  The member is named by its mailbox;
\* with no owner given the group is a public channel.
AddToGroup(t) ==
    /\ At(t, "add_to_group") /\ Locked(t)
    /\ LET l == Lsn(t)  c == Arg(t)[1]
           member == {x \in Listener : mailbox[x] = Arg(t)[2]}
           o == GetChannel(c)
       IN IF member = {} \/ (Mapped(c) /\ owner[o] \notin {Null, l})
          THEN Done(t) /\ UNCHANGED <<dirVars, intent>>
          ELSE /\ RegisterChannel(c)
               /\ owner' = [owner EXCEPT ![o] = l]
               /\ \E x \in member :
                    /\ Continue(t, <<Step("add_listener", x, o)>> \o Tail(script[t]))
                    /\ intent' = IF l = Null THEN intent \cup {<<x, c>>} ELSE intent
    /\ UNCHANGED <<mbxVars, queueVars, castVars, counters, gone>>

\* The rest of add_to_group(): the new member is not queued, add_listener()
\* is called at once and waits for the channel with the bus mutex held.
AdmitMember(t) ==
    /\ At(t, "add_listener") /\ Locked(t) /\ Done(t)
    /\ MayWrite(Arg(t))
    /\ listeners' = [listeners EXCEPT ![Arg(t)] = @ \cup {Lsn(t)}]
    /\ gone' = gone \ {Lsn(t)}
    /\ UNCHANGED <<channels, id, owner, mbxVars, queueVars, castVars, counters, intent>>

\* close_group(): takes no lock.
CloseGroup(t) ==
    /\ At(t, "close_group") /\ Done(t)
    /\ LET c == Arg(t)
       IN IF Mapped(c) /\ owner[channels[c]] = Lsn(t)
          THEN /\ owner' = [owner EXCEPT ![channels[c]] = Null]
               /\ channels' = [channels EXCEPT ![c] = Null]
               /\ intent' = {s \in intent : s[2] # c}
          ELSE UNCHANGED <<channels, owner, intent>>
    /\ UNCHANGED <<bus, id, listeners, mbxVars, queueVars, castVars, counters, gone>>

\* get_mailbox() as send_message() calls it.
GetMailbox(t) ==
    /\ At(t, "get_mailbox") /\ Locked(t) /\ Done(t)
    /\ LET l == Lsn(t)  m == CHOOSE x \in FreshMbx : TRUE
       IN IF mailbox[l] # Null
          THEN UNCHANGED mbxVars
          ELSE /\ FreshMbx # {}
               /\ mailbox' = [mailbox EXCEPT ![l] = m]
               /\ mbxOwner' = [mbxOwner EXCEPT ![m] = l]
               /\ disabled' = [disabled EXCEPT ![m] = FALSE]
    /\ gone' = gone \ {Lsn(t)}
    /\ UNCHANGED <<dirVars, queueVars, castVars, counters, intent>>

\* forward_message_internal(): the mailbox lookup, made without a lock.  An
\* address not found is looked for among the channels and return paths, under
\* the lock, and there is no route.
Registered(m) == \E l \in Listener : mailbox[l] = m

FindMailbox(t) ==
    /\ At(t, "find_mailbox")
    /\ LET m == Arg(t)
       IN /\ Registered(m) \/ MayLock(t)
          /\ Continue(t, IF Registered(m) THEN <<Step("enqueue_msg", Lsn(t), m)>> ELSE <<>>)
    /\ UNCHANGED <<dirVars, mbxVars, bus, queueVars, castVars, counters, histVars>>

\* forward_message_internal(): the channel lookup, under the lock.  Only the
\* owner may post to a group.
FindChannel(t) ==
    /\ At(t, "find_channel") /\ Locked(t)
    /\ LET o == channels[Arg(t)]
       IN Continue(t, <<Unlock>> \o IF o # Null /\ owner[o] \in {Null, Lsn(t)}
                                       THEN <<Step("enqueue_msg", Lsn(t), o)>> ELSE <<>>)
    /\ UNCHANGED <<dirVars, mbxVars, queueVars, castVars, counters, histVars>>

\* TLState::enqueue_msg: an outside call broadcasts at once, a call from a
\* callback leaves the message to the broadcast that is running.
EnqueueMsg(t) ==
    /\ At(t, "enqueue_msg") /\ Done(t)
    /\ posted' = [posted EXCEPT ![t] = @ + 1]
    /\ mq' = [mq EXCEPT ![t] =
                Append(@, [to |-> Arg(t), from |-> Lsn(t), num |-> posted[t] + 1])]
    /\ running' = [running EXCEPT ![t] = TRUE]
    /\ UNCHANGED <<dirVars, mbxVars, bus, lq, emptied, castVars, calls, histVars>>

\* LocalBus::unlock() at the end of the scope, and the return of the call if
\* this was its last step.
UnlockBus(t) ==
    /\ At(t, "unlock") /\ Done(t)
    /\ bus' = Null
    /\ gone' = gone \cup ({Lsn(t)} \ {Null})
    /\ UNCHANGED <<dirVars, mbxVars, queueVars, castVars, counters, intent>>

-----------------------------------------------------------------------------
(* The queues of a thread: run_lsn_queue(), run_msg_queue().               *)

\* Between two items.
Draining(t) == running[t] /\ casting[t] = Null /\ emptied[t] = Null

\* The next deferred change is of this kind; the queued changes go before the
\* next message.
NextChange(t, kind) == Draining(t) /\ lq[t] # <<>> /\ Head(lq[t]).kind = kind

PopChange(t) == lq' = [lq EXCEPT ![t] = Tail(@)]

\* TLSLsnQueueItem::execute, add_listener(): under the channel's unique lock
\* alone.
AddListener(t) ==
    /\ NextChange(t, "add") /\ PopChange(t)
    /\ LET item == Head(lq[t])
       IN /\ MayWrite(item.chan)
          /\ listeners' = [listeners EXCEPT ![item.chan] = @ \cup {item.lsn}]
    /\ UNCHANGED <<channels, id, owner, mbxVars, bus, script, running, mq, emptied,
                   castVars, counters, histVars>>

\* What remove_listener() returns.
EmptyAfter_Before(o, l) == listeners[o] = {}
EmptyAfter_Always(o, l) == TRUE
EmptyAfter(o, l) == listeners[o] \ {l} = {}

\* TLSLsnQueueItem::execute, remove_listener(): reports whether the channel is
\* now empty; by then the lock is released.
RemoveListener(t) ==
    /\ NextChange(t, "remove") /\ PopChange(t)
    /\ LET item == Head(lq[t])
       IN /\ MayWrite(item.chan)
          /\ listeners' = [listeners EXCEPT ![item.chan] = @ \ {item.lsn}]
          /\ emptied' = [emptied EXCEPT ![t] = 
                          IF EmptyAfter(item.chan, item.lsn) THEN item.chan ELSE Null]
    /\ UNCHANGED <<channels, id, owner, mbxVars, bus, script, running, mq,
                   castVars, counters, histVars>>

\* channel_is_empty(chan->get_id()): erases whatever has that name now.
ChannelIsEmpty(t) ==
    /\ emptied[t] # Null /\ MayLock(t)
    /\ emptied' = [emptied EXCEPT ![t] = Null]
    /\ channels' = [c \in Name |-> IF c = id[emptied[t]] THEN Null ELSE channels[c]]
    /\ UNCHANGED <<id, owner, listeners, mbxVars, bus, script, running, lq, mq,
                   castVars, counters, histVars>>

\* TLSLsnQueueItem::execute, remove_mailbox(): whatever mailbox the listener
\* has now.
RemoveMailbox(t) ==
    /\ NextChange(t, "mailbox") /\ PopChange(t)
    /\ MayLock(t)
    /\ mailbox' = [mailbox EXCEPT ![Head(lq[t]).lsn] = Null]
    /\ UNCHANGED <<dirVars, mbxOwner, disabled, bus, script, running, mq, emptied,
                   castVars, counters, histVars>>

\* Whom a broadcast to the target calls: ChanDef::broadcast skips the sender,
\* MbxDef::broadcast calls the owner unless the mailbox was disabled.
Recipients(item) ==
    IF item.to \in Chan THEN listeners[item.to] \ {item.from}
    ELSE {l \in Listener : mbxOwner[item.to] = l /\ ~disabled[item.to]}

\* The message run_msg_queue() takes, and what it leaves.
TakeMsg_Newest(q) == [item |-> Last(q), rest |-> Front(q)]
TakeMsg_NoPop(q) == [item |-> Head(q), rest |-> q]
TakeMsg(q) == [item |-> Head(q), rest |-> Tail(q)]

\* TLSMsgQueueItem::execute: the broadcast of the next message begins.
Broadcast(t) ==
    /\ Draining(t) /\ lq[t] = <<>> /\ mq[t] # <<>> /\ script[t] = <<>>
    /\ LET item == TakeMsg(mq[t]).item
       IN /\ casting' = [casting EXCEPT ![t] = item.to]
          /\ todo' = [todo EXCEPT ![t] = Recipients(item)]
          /\ last' = [last EXCEPT ![t] = item.num]
    /\ mq' = [mq EXCEPT ![t] = TakeMsg(@).rest]
    /\ UNCHANGED <<dirVars, mbxVars, bus, script, running, lq, emptied, cb, counters, histVars>>

\* on_message() of one of the remaining listeners.  They are sorted by
\* address, so they may come in any order.
CallListener(t) ==
    /\ casting[t] # Null /\ ~InCallback(t)
    /\ \E l \in todo[t] :
         /\ cb' = [cb EXCEPT ![t] = l]
         /\ todo' = [todo EXCEPT ![t] = @ \ {l}]
    /\ UNCHANGED <<dirVars, mbxVars, bus, script, queueVars, casting, last, counters, histVars>>

\* on_message() returns.
ReturnFromCallback(t) ==
    /\ InCallback(t) /\ script[t] = <<>>
    /\ cb' = [cb EXCEPT ![t] = Null]
    /\ UNCHANGED <<dirVars, mbxVars, bus, script, queueVars, casting, todo, last, counters, histVars>>

\* Everybody was called: the shared lock and the reference are dropped.
EndBroadcast(t) ==
    /\ casting[t] # Null /\ ~InCallback(t) /\ todo[t] = {}
    /\ casting' = [casting EXCEPT ![t] = Null]
    /\ UNCHANGED <<dirVars, mbxVars, bus, script, queueVars, todo, cb, last, counters, histVars>>

\* The queues are drained (enqueue_lsn drains only the first of them).
StopRunning(t) ==
    /\ Draining(t) /\ lq[t] = <<>> /\ (mq[t] = <<>> \/ script[t] # <<>>)
    /\ running' = [running EXCEPT ![t] = FALSE]
    /\ UNCHANGED <<dirVars, mbxVars, bus, script, lq, mq, emptied, castVars, counters, histVars>>

-----------------------------------------------------------------------------

ApiStep(t) ==
    \/ Subscribe(t) \/ Unsubscribe(t) \/ UnsubscribeAllChannels(t)
    \/ EraseMailbox(t) \/ EraseGroups(t)
    \/ AddToGroup(t) \/ AdmitMember(t) \/ CloseGroup(t)
    \/ GetMailbox(t) \/ FindMailbox(t) \/ FindChannel(t) \/ EnqueueMsg(t)
    \/ UnlockBus(t)

QueueStep(t) ==
    \/ AddListener(t) \/ RemoveListener(t) \/ ChannelIsEmpty(t) \/ RemoveMailbox(t)
    \/ Broadcast(t) \/ CallListener(t) \/ ReturnFromCallback(t) \/ EndBroadcast(t)
    \/ StopRunning(t)

\* All calls of the bound are made and have returned.
Finished ==
    /\ calls = MaxCalls
    /\ \A t \in Thread : Outside(t) /\ script[t] = <<>>
    /\ UNCHANGED vars

Next == (\E t \in Thread : Call(t) \/ ApiStep(t) \/ QueueStep(t)) \/ Finished

\* A thread goes on with the call it is in (callbacks return); nobody has to
\* make another call.
Fairness == \A t \in Thread : WF_vars(ApiStep(t) \/ QueueStep(t))

Spec == Init /\ [][Next]_vars /\ Fairness

-----------------------------------------------------------------------------
(* Properties.                                                             *)

DirTyped ==
    /\ channels \in [Name -> Chan \cup {Null}]
    /\ id \in [Chan -> Name \cup {Null}]
    /\ owner \in [Chan -> Listener \cup {Null}]
    /\ listeners \in [Chan -> SUBSET Listener]
MbxTyped ==
    /\ mailbox \in [Listener -> Mbx \cup {Null}]
    /\ mbxOwner \in [Mbx -> Listener \cup {Null}]
    /\ disabled \in [Mbx -> BOOLEAN]
CallTyped ==
    /\ bus \in Thread \cup {Null}
    /\ script \in [Thread -> Seq(Instr)]
    /\ posted \in [Thread -> Nat]
    /\ calls \in 0..MaxCalls
QueuesTyped ==
    /\ running \in [Thread -> BOOLEAN]
    /\ lq \in [Thread -> Seq(LsnItem)]
    /\ mq \in [Thread -> Seq(MsgItem)]
    /\ emptied \in [Thread -> Chan \cup {Null}]
CastTyped ==
    /\ casting \in [Thread -> Target \cup {Null}]
    /\ todo \in [Thread -> SUBSET Listener]
    /\ cb \in [Thread -> Listener \cup {Null}]
    /\ last \in [Thread -> Nat]
HistTyped ==
    /\ intent \subseteq Listener \X Name
    /\ gone \subseteq Listener

\* Every variable holds values of its kind: the queues hold well-formed items,
\* the scripts known steps.
TypeOK == DirTyped /\ MbxTyped /\ CallTyped /\ QueuesTyped /\ CastTyped /\ HistTyped

CalledNowOrNext(t) == todo[t] \cup ({cb[t]} \ {Null})

\* A channel calls only its listeners: from the moment remove_listener() took
\* a listener off the list, no thread is in its callback for that channel or
\* goes on to it, whichever thread removed it.
CalledAreListed ==
    \A t \in Thread : casting[t] \in Chan => CalledNowOrNext(t) \subseteq listeners[casting[t]]

\* No channel is left behind empty: if a registered channel has no listener,
\* a queued or executing change will give it one or erase its name.
ChangePending(c, o) ==
    \E t \in Thread :
      \/ \E item \in Range(lq[t]) : item.chan = o
      \/ emptied[t] # Null /\ id[emptied[t]] = c
      \/ script[t] # <<>> /\ Head(script[t]).op = "add_listener" /\ Head(script[t]).arg = o
NoEmptyChannelLeft ==
    \A c \in Name, o \in Chan : channels[c] = o /\ listeners[o] = {} => ChangePending(c, o)

\* A thread's messages are broadcast in the order it posted them, those posted
\* inside callbacks (and so deferred) included.
PostedOrder ==
    \A t \in Thread : \A i \in DOMAIN mq[t] :
      /\ last[t] < mq[t][i].num
      /\ \A j \in 1..(i - 1) : mq[t][j].num < mq[t][i].num

\* Between critical sections the listener lists say exactly what the callers
\* were told.
Subscribed == {s \in Listener \X Name : Has(s[2], s[1]) /\ owner[channels[s[2]]] = Null}
SubscriptionsHonoured == bus = Null => intent = Subscribed

\* With every thread outside the bus, a subscription that was confirmed and not
\* withdrawn since is in force.
ConfirmedIsSubscribed ==
    (\A t \in Thread : Outside(t) /\ script[t] = <<>>) => intent \subseteq Subscribed

\* Once unsubscribe_all(l) has returned, and until l is used again, no
\* broadcast calls l and no channel lists it: the object may be destroyed.
GoneIsQuiet ==
    \A l \in gone : \A t \in Thread :
      /\ l \notin CalledNowOrNext(t)
      /\ \A o \in Chan : Referenced(o) => l \notin listeners[o]

\* No two threads wait for each other, and none for itself: one holds the bus
\* mutex and waits for a channel that the other is broadcasting to, while
\* that one waits for the bus mutex.
WantsChannel(t, o) ==
    \/ script[t] # <<>> /\ At(t, "add_listener") /\ Arg(t) = o
    \/ lq[t] # <<>> /\ Draining(t) /\ Head(lq[t]).chan = o
WantsBus(t) ==
    /\ script[t] # <<>>
    /\ Outside(t) \/ InCallback(t)
    /\ Head(script[t]).op \notin {"enqueue_msg", "close_group"}
    /\ Head(script[t]).op = "find_mailbox" => ~Registered(Arg(t))
NoWaitCycle ==
    \A t, u \in Thread :
      ~ (/\ bus = t /\ \E o \in Chan : WantsChannel(t, o) /\ casting[u] = o
         /\ t = u \/ (script[u] # <<>> /\ WantsBus(u)))

\* A mailbox that was disabled does not stay registered: its removal is queued.
DisabledMailboxRemoved ==
    \A l \in Listener : mailbox[l] # Null /\ disabled[mailbox[l]] =>
      \E t \in Thread : [kind |-> "mailbox", lsn |-> l, chan |-> Null] \in Range(lq[t])

\* Only a mailbox that was disabled is removed.
OnlyDisabledRemoved ==
    [][\A l \in Listener : mailbox[l] # Null /\ mailbox'[l] = Null => disabled[mailbox[l]]]_vars

\* Once a thread has begun to execute queued work it finishes it.
QueuesDrain == \A t \in Thread : running[t] ~> ~running[t]
=============================================================================

--------------------------- MODULE LocalBusProofs ---------------------------
(***************************************************************************)
(* Theorems about LocalBus, for every set of threads, listeners, names and *)
(* objects and every choice of API calls.                                  *)
(***************************************************************************)
EXTENDS LocalBus, TLAPS, FiniteSetTheorems, SequenceTheorems

-----------------------------------------------------------------------------
(* The operators the model is built from.                                  *)

\* The steps that occur in the programs have arguments of the right kind.
LEMMA StepsTyped ==
    /\ Unlock \in Instr
    /\ \A l \in Listener, c \in Name :
         /\ Step("subscribe_lk", l, c) \in Instr
         /\ Step("unsubscribe_lk", l, c) \in Instr
    /\ \A l \in Listener, b \in {"and_groups", "public"} : Step("unsubscribe_all_channels_lk", l, b) \in Instr
    /\ \A l \in Listener :
         /\ Step("erase_mailbox_lk", l, Null) \in Instr
         /\ Step("erase_groups_lk", l, Null) \in Instr
         /\ Step("get_mailbox", l, Null) \in Instr
         /\ Step("unlock", l, Null) \in Instr
         /\ \A o \in Chan : Step("add_listener", l, o) \in Instr
    /\ \A l \in Listener \cup {Null} :
         /\ \A c \in Name : /\ Step("find_channel", l, c) \in Instr
                            /\ Step("close_group", l, c) \in Instr
         /\ \A m \in Mbx : /\ Step("find_mailbox", l, m) \in Instr
                           /\ \A c \in Name : Step("add_to_group", l, <<c, m>>) \in Instr
         /\ \A o \in Target : Step("enqueue_msg", l, o) \in Instr
  BY DEF Step, Unlock, Instr

\* Every API function is a sequence of such steps.
LEMMA ProgramsTyped ==
    ASSUME NEW api \in APIs, NEW code \in Programs[api]
    PROVE  code \in Seq(Instr)
  <1>0. \A s1, s2, s3, s4 \in Instr :
          /\ <<s1>> \in Seq(Instr) /\ <<s1, s2>> \in Seq(Instr)
          /\ <<s1, s2, s3>> \in Seq(Instr) /\ <<s1, s2, s3, s4>> \in Seq(Instr)
    OBVIOUS
  <1>1. CASE api = "subscribe"
    <2>1. PICK l \in Listener, c \in Name :
            code = <<Step("subscribe_lk", l, c), Unlock>>
      BY <1>1 DEF Programs
    <2> QED
      BY <1>0, <2>1, StepsTyped
  <1>2. CASE api = "unsubscribe"
    <2>1. PICK l \in Listener, c \in Name :
            code = <<Step("unsubscribe_lk", l, c), Unlock>>
      BY <1>2 DEF Programs
    <2> QED
      BY <1>0, <2>1, StepsTyped
  <1>3. CASE api = "unsubscribe_all"
    <2>1. PICK l \in Listener :
            code = <<Step("erase_mailbox_lk", l, Null), Step("erase_groups_lk", l, Null),
                     Step("unsubscribe_all_channels_lk", l, "and_groups"),
                     Step("unlock", l, Null)>>
      BY <1>3 DEF Programs
    <2> QED
      BY <1>0, <2>1, StepsTyped
  <1>4. CASE api = "unsubcribe_private"
    <2>1. PICK l \in Listener :
            code = <<Step("erase_mailbox_lk", l, Null), Unlock>>
      BY <1>4 DEF Programs
    <2> QED
      BY <1>0, <2>1, StepsTyped
  <1>5. CASE api = "replace"
    <2>1. PICK l \in Listener, c \in Name :
            code = <<Step("unsubscribe_all_channels_lk", l, "public"),
                     Step("subscribe_lk", l, c), Unlock>>
      BY <1>5 DEF Programs
    <2> QED
      BY <1>0, <2>1, StepsTyped
  <1>6. CASE api = "post"
    <2>1. PICK c \in Name :
            code = SendCode(Null, Step("find_channel", Null, c))
      BY <1>6 DEF Programs
    <2> QED
      BY <1>0, <2>1, StepsTyped DEF SendCode
  <1>7. CASE api = "send"
    <2>1. PICK l \in Listener, c \in Name :
            code = SendCode(l, Step("find_channel", l, c))
      BY <1>7 DEF Programs
    <2> QED
      BY <1>0, <2>1, StepsTyped DEF SendCode
  <1>8. CASE api = "reply"
    <2>1. PICK l \in Listener, m \in Mbx :
            code = SendCode(l, Step("find_mailbox", l, m))
      BY <1>8 DEF Programs
    <2> QED
      BY <1>0, <2>1, StepsTyped DEF SendCode
  <1>9. CASE api = "add_to_group"
    <2>1. PICK l \in Listener \cup {Null}, c \in Name, m \in Mbx :
            code = <<Step("add_to_group", l, <<c, m>>), Unlock>>
      BY <1>9 DEF Programs
    <2> QED
      BY <1>0, <2>1, StepsTyped
  <1>10. CASE api = "close_group"
    <2>1. PICK l \in Listener \cup {Null}, c \in Name :
            code = <<Step("close_group", l, c)>>
      BY <1>10 DEF Programs
    <2> QED
      BY <1>0, <2>1, StepsTyped
  <1> QED
    BY <1>1, <1>2, <1>3, <1>4, <1>5, <1>6, <1>7, <1>8, <1>9, <1>10 DEF APIs

\* The argument of a step is of the kind its op names.
LEMMA StepArguments ==
    ASSUME NEW h \in Instr
    PROVE  /\ h.lsn \in Listener \cup {Null}
           /\ h.op \in {"subscribe_lk", "unsubscribe_lk"} => h.lsn \in Listener /\ h.arg \in Name
           /\ h.op \in {"unsubscribe_all_channels_lk", "erase_mailbox_lk", "erase_groups_lk",
                        "get_mailbox", "add_listener"} => h.lsn \in Listener
           /\ h.op \in {"find_channel", "close_group"} => h.arg \in Name
           /\ h.op = "find_mailbox" => h.arg \in Mbx
           /\ h.op = "enqueue_msg" => h.arg \in Target
           /\ h.op = "add_to_group" => h.arg \in Name \X Mbx
           /\ h.op = "add_listener" => h.arg \in Chan
  BY DEF Instr

\* The step a thread executes next, and the rest of its call.
LEMMA StepAtHand ==
    ASSUME CallTyped, NEW t \in Thread, NEW op, At(t, op)
    PROVE  /\ Head(script[t]) \in Instr
           /\ Head(script[t]).op = op
           /\ Tail(script[t]) \in Seq(Instr)
  BY DEF CallTyped, At

\* The same for the queues.
LEMMA ItemAtHand ==
    ASSUME QueuesTyped, NEW t \in Thread
    PROVE  /\ lq[t] # <<>> => Head(lq[t]) \in LsnItem /\ Tail(lq[t]) \in Seq(LsnItem)
           /\ mq[t] # <<>> => Head(mq[t]) \in MsgItem /\ Tail(mq[t]) \in Seq(MsgItem)
  BY DEF QueuesTyped

LEMMA ItemFields ==
    /\ \A i \in LsnItem :
         /\ i.lsn \in Listener
         /\ i.kind \in {"add", "remove"} => i.chan \in Chan
         /\ i.kind = "mailbox" => i.chan = Null
    /\ \A i \in MsgItem :
         i.to \in Target /\ i.num \in Nat /\ i.from \in Listener \cup {Null}
  BY DEF LsnItem, MsgItem

\* get_channel_lk() returns a channel.
LEMMA GetChannelTyped ==
    ASSUME DirTyped, NEW c \in Name, Mapped(c) \/ FreshChan # {}
    PROVE  GetChannel(c) \in Chan
  BY DEF DirTyped, Mapped, GetChannel, FreshChan

\* A finite set listed as a sequence.
LEMMA SetToSeqLists ==
    ASSUME NEW S, IsFiniteSet(S)
    PROVE  /\ SetToSeq(S) \in Seq(S)
           /\ DOMAIN SetToSeq(S) = 1..Cardinality(S)
  <1>1. Cardinality(S) \in Nat /\ ExistsBijection(1..Cardinality(S), S)
    BY FS_CardinalityType
  <1>2. \E f \in [1..Cardinality(S) -> S] : IsInjective(f)
    BY <1>1 DEF ExistsBijection, Bijection, Injection, IsInjective
  <1>3. SetToSeq(S) \in [1..Cardinality(S) -> S] /\ IsInjective(SetToSeq(S))
    BY <1>2 DEF SetToSeq
  <1> QED
    BY <1>1, <1>3

\* The removals unsubscribe_all_channels_lk() enqueues.
LEMMA RemovalsTyped ==
    ASSUME DirTyped, NEW l \in Listener, NEW which
    PROVE  Removals(l, which) \in Seq(LsnItem)
  <1> DEFINE from == ChannelsOf(l, which)
             order == SetToSeq(from)
  <1>1. IsFiniteSet(from)
    BY NamesFinite, FS_Subset DEF ChannelsOf
  <1>2. order \in Seq(from)
    BY <1>1, SetToSeqLists
  <1>3. \A c \in from : channels[c] \in Chan
    BY DEF DirTyped, ChannelsOf, Has, Mapped
  <1>4. \A i \in DOMAIN order :
          [kind |-> "remove", lsn |-> l, chan |-> channels[order[i]]] \in LsnItem
    <2> TAKE i \in DOMAIN order
    <2>1. order[i] \in from
      BY <1>2
    <2> QED
      BY <2>1, <1>3 DEF LsnItem
  <1> HIDE DEF order
  <1> QED
    BY <1>2, <1>4 DEF Removals, order

-----------------------------------------------------------------------------
(* Type correctness. *)

LEMMA InitTyped == Init => TypeOK
  BY BoundIsNat DEF Init, TypeOK, DirTyped, MbxTyped, CallTyped, QueuesTyped, CastTyped, HistTyped

\* What a step leaves alone keeps its type.
LEMMA FrameTyped ==
    ASSUME TypeOK
    PROVE  /\ UNCHANGED dirVars => DirTyped'
           /\ UNCHANGED mbxVars => MbxTyped'
           /\ UNCHANGED <<bus, script, counters>> => CallTyped'
           /\ UNCHANGED queueVars => QueuesTyped'
           /\ UNCHANGED castVars => CastTyped'
           /\ UNCHANGED histVars => HistTyped'
  BY DEF TypeOK, DirTyped, MbxTyped, CallTyped, QueuesTyped, CastTyped, HistTyped,
         dirVars, mbxVars, counters, queueVars, castVars, histVars

\* A step of a call that leaves the given rest of it.
LEMMA CallGoesOn ==
    ASSUME CallTyped, NEW t \in Thread, NEW rest \in Seq(Instr),
           Continue(t, rest), bus' \in Thread \cup {Null}, UNCHANGED counters
    PROVE  CallTyped'
  BY DEF CallTyped, Continue, counters

LEMMA CallStepDone ==
    ASSUME CallTyped, NEW t \in Thread, NEW op, At(t, op), Done(t),
           bus' \in Thread \cup {Null}, UNCHANGED counters
    PROVE  CallTyped'
  BY StepAtHand, CallGoesOn DEF Done, Continue

LEMMA EnqueueTyped ==
    ASSUME QueuesTyped, NEW t \in Thread, NEW items \in Seq(LsnItem), EnqueueLsn(t, items)
    PROVE  QueuesTyped'
  <1>1. lq[t] \o items \in Seq(LsnItem)
    BY DEF QueuesTyped
  <1>2. (running[t] \/ items # <<>>) \in BOOLEAN
    OBVIOUS
  <1> QED
    BY <1>1, <1>2 DEF QueuesTyped, EnqueueLsn

LEMMA CallKeepsTypes ==
    ASSUME TypeOK, NEW t \in Thread, Call(t)
    PROVE  TypeOK'
  <1>1. CallTyped'
    BY ProgramsTyped, CallsKnown, BoundIsNat DEF TypeOK, CallTyped, Call
  <1> QED
    BY <1>1, FrameTyped DEF TypeOK, Call

LEMMA SubscribeKeepsTypes ==
    ASSUME TypeOK, NEW t \in Thread, Subscribe(t)
    PROVE  TypeOK'
  <1>1. Lsn(t) \in Listener /\ Arg(t) \in Name
    BY StepAtHand, StepArguments DEF TypeOK, Subscribe, Lsn, Arg
  <1>2. CallTyped'
    BY CallStepDone DEF TypeOK, Subscribe, Locked, Enlist
  <1>3. CASE UNCHANGED <<dirVars, queueVars, histVars>>
    BY <1>2, <1>3, FrameTyped DEF TypeOK, Subscribe
  <1>4. CASE ~UNCHANGED <<dirVars, queueVars, histVars>>
    <2> DEFINE o == GetChannel(Arg(t))
    <2>1. /\ RegisterChannel(Arg(t)) /\ owner' = [owner EXCEPT ![o] = Null]
          /\ Enlist(t, Lsn(t), o)
          /\ intent' = intent \cup {<<Lsn(t), Arg(t)>>} /\ gone' = gone \ {Lsn(t)}
      BY <1>4 DEF Subscribe
    <2>2. o \in Chan
      BY <1>1, <2>1, GetChannelTyped DEF TypeOK, RegisterChannel
    <2>3. DirTyped'
      BY <1>1, <2>1, <2>2 DEF TypeOK, DirTyped, RegisterChannel
    <2>4. QueuesTyped'
      <3>1. <<[kind |-> "add", lsn |-> Lsn(t), chan |-> o]>> \in Seq(LsnItem)
        BY <1>1, <2>2 DEF LsnItem
      <3> QED
        BY <2>1, <3>1, EnqueueTyped DEF TypeOK, Enlist
    <2>5. HistTyped'
      BY <1>1, <2>1 DEF TypeOK, HistTyped
    <2> QED
      BY <1>2, <2>3, <2>4, <2>5, FrameTyped DEF TypeOK, Subscribe
  <1> QED
    BY <1>3, <1>4

LEMMA UnsubscribeKeepsTypes ==
    ASSUME TypeOK, NEW t \in Thread, Unsubscribe(t)
    PROVE  TypeOK'
  <1>1. Lsn(t) \in Listener /\ Arg(t) \in Name
    BY StepAtHand, StepArguments DEF TypeOK, Unsubscribe, Lsn, Arg
  <1>2. CallTyped'
    BY CallStepDone DEF TypeOK, Unsubscribe, Locked
  <1>3. ASSUME Has(Arg(t), Lsn(t)) PROVE QueuesTyped'
    <2>1. channels[Arg(t)] \in Chan
      BY <1>1, <1>3 DEF TypeOK, DirTyped, Has, Mapped
    <2>2. <<[kind |-> "remove", lsn |-> Lsn(t), chan |-> channels[Arg(t)]]>> \in Seq(LsnItem)
      BY <1>1, <2>1 DEF LsnItem
    <2> QED
      BY <1>3, <2>2, EnqueueTyped DEF TypeOK, Unsubscribe
  <1>4. HistTyped'
    BY DEF TypeOK, HistTyped, Unsubscribe
  <1> QED
    BY <1>1, <1>2, <1>3, <1>4, FrameTyped DEF TypeOK, Unsubscribe

LEMMA UnsubscribeAllChannelsKeepsTypes ==
    ASSUME TypeOK, NEW t \in Thread, UnsubscribeAllChannels(t)
    PROVE  TypeOK'
  <1>1. Lsn(t) \in Listener
    BY StepAtHand, StepArguments DEF TypeOK, UnsubscribeAllChannels, Lsn
  <1>2. CallTyped'
    BY CallStepDone DEF TypeOK, UnsubscribeAllChannels, Locked
  <1>3. QueuesTyped'
    BY <1>1, RemovalsTyped, EnqueueTyped DEF TypeOK, UnsubscribeAllChannels
  <1>4. HistTyped'
    BY DEF TypeOK, HistTyped, UnsubscribeAllChannels
  <1> QED
    BY <1>1, <1>2, <1>3, <1>4, FrameTyped DEF TypeOK, UnsubscribeAllChannels

LEMMA EraseMailboxKeepsTypes ==
    ASSUME TypeOK, NEW t \in Thread, EraseMailbox(t)
    PROVE  TypeOK'
  <1>1. Lsn(t) \in Listener
    BY StepAtHand, StepArguments DEF TypeOK, EraseMailbox, Lsn
  <1>2. CallTyped'
    BY CallStepDone DEF TypeOK, EraseMailbox, Locked
  <1>3. QueuesTyped'
    <2>1. RemovalOfMailbox(Lsn(t)) \in Seq(LsnItem)
      BY <1>1 DEF RemovalOfMailbox, LsnItem
    <2> QED
      BY <2>1, EnqueueTyped, FrameTyped DEF TypeOK, EraseMailbox
  <1>4. MbxTyped'
    BY DEF TypeOK, MbxTyped, EraseMailbox, Disable
  <1> QED
    BY <1>1, <1>2, <1>3, <1>4, FrameTyped DEF TypeOK, EraseMailbox

LEMMA EraseGroupsKeepsTypes ==
    ASSUME TypeOK, NEW t \in Thread, EraseGroups(t)
    PROVE  TypeOK'
  <1>1. CallTyped'
    BY CallStepDone DEF TypeOK, EraseGroups, Locked
  <1>2. DirTyped' /\ HistTyped'
    BY DEF TypeOK, DirTyped, HistTyped, EraseGroups
  <1> QED
    BY <1>1, <1>2, FrameTyped DEF TypeOK, EraseGroups

LEMMA AddToGroupKeepsTypes ==
    ASSUME TypeOK, NEW t \in Thread, AddToGroup(t)
    PROVE  TypeOK'
  <1>1. Lsn(t) \in Listener \cup {Null} /\ Arg(t)[1] \in Name
    BY StepAtHand, StepArguments DEF TypeOK, AddToGroup, Lsn, Arg
  <1>2. CASE Done(t) /\ UNCHANGED <<dirVars, intent>>
    <2>1. CallTyped'
      BY <1>2, CallStepDone DEF TypeOK, AddToGroup, Locked
    <2> QED
      BY <1>2, <2>1, FrameTyped DEF TypeOK, AddToGroup, histVars
  <1>3. CASE ~(Done(t) /\ UNCHANGED <<dirVars, intent>>)
    <2> DEFINE o == GetChannel(Arg(t)[1])
    <2>1. PICK x \in Listener :
            /\ RegisterChannel(Arg(t)[1]) /\ owner' = [owner EXCEPT ![o] = Lsn(t)]
            /\ Continue(t, <<Step("add_listener", x, o)>> \o Tail(script[t]))
            /\ intent' = IF Lsn(t) = Null THEN intent \cup {<<x, Arg(t)[1]>>} ELSE intent
      BY <1>3 DEF AddToGroup
    <2>2. o \in Chan
      BY <1>1, <2>1, GetChannelTyped DEF TypeOK, RegisterChannel
    <2>3. DirTyped'
      BY <1>1, <2>1, <2>2 DEF TypeOK, DirTyped, RegisterChannel
    <2>4. <<Step("add_listener", x, o)>> \o Tail(script[t]) \in Seq(Instr)
      BY <2>2, StepsTyped, StepAtHand DEF TypeOK, AddToGroup
    <2>5. CallTyped'
      BY <2>1, <2>4, CallGoesOn DEF TypeOK, AddToGroup, Locked
    <2>6. HistTyped'
      BY <1>1, <2>1 DEF TypeOK, HistTyped, AddToGroup
    <2> QED
      BY <2>3, <2>5, <2>6, FrameTyped DEF TypeOK, AddToGroup
  <1> QED
    BY <1>1, <1>2, <1>3, FrameTyped DEF TypeOK, AddToGroup

LEMMA AdmitMemberKeepsTypes ==
    ASSUME TypeOK, NEW t \in Thread, AdmitMember(t)
    PROVE  TypeOK'
  <1>1. Lsn(t) \in Listener /\ Arg(t) \in Chan
    BY StepAtHand, StepArguments DEF TypeOK, AdmitMember, Lsn, Arg
  <1>2. CallTyped'
    BY CallStepDone DEF TypeOK, AdmitMember, Locked
  <1>3. DirTyped' /\ HistTyped'
    BY <1>1 DEF TypeOK, DirTyped, HistTyped, AdmitMember
  <1> QED
    BY <1>1, <1>2, <1>3, FrameTyped DEF TypeOK, AdmitMember

LEMMA CloseGroupKeepsTypes ==
    ASSUME TypeOK, NEW t \in Thread, CloseGroup(t)
    PROVE  TypeOK'
  <1>1. Arg(t) \in Name
    BY StepAtHand, StepArguments DEF TypeOK, CloseGroup, Arg
  <1>2. CallTyped'
    BY CallStepDone DEF TypeOK, CallTyped, CloseGroup
  <1>3. DirTyped' /\ HistTyped'
    BY <1>1 DEF TypeOK, DirTyped, HistTyped, CloseGroup, Mapped
  <1> QED
    BY <1>1, <1>2, <1>3, FrameTyped DEF TypeOK, CloseGroup

LEMMA GetMailboxKeepsTypes ==
    ASSUME TypeOK, NEW t \in Thread, GetMailbox(t)
    PROVE  TypeOK'
  <1>1. Lsn(t) \in Listener
    BY StepAtHand, StepArguments DEF TypeOK, GetMailbox, Lsn
  <1>2. CallTyped'
    BY CallStepDone DEF TypeOK, GetMailbox, Locked
  <1>3. MbxTyped'
    BY <1>1, FrameTyped DEF TypeOK, MbxTyped, GetMailbox, FreshMbx, mbxVars
  <1>4. HistTyped'
    BY DEF TypeOK, HistTyped, GetMailbox
  <1> QED
    BY <1>1, <1>2, <1>3, <1>4, FrameTyped DEF TypeOK, GetMailbox

LEMMA FindMailboxKeepsTypes ==
    ASSUME TypeOK, NEW t \in Thread, FindMailbox(t)
    PROVE  TypeOK'
  <1>1. Lsn(t) \in Listener \cup {Null} /\ Arg(t) \in Mbx
    BY StepAtHand, StepArguments DEF TypeOK, FindMailbox, Lsn, Arg
  <1>2. <<Step("enqueue_msg", Lsn(t), Arg(t))>> \in Seq(Instr)
    BY <1>1, StepsTyped DEF Target
  <1>3. CallTyped'
    <2>1. PICK rest \in Seq(Instr) : Continue(t, rest)
      <3>1. <<>> \in Seq(Instr)
        OBVIOUS
      <3> QED
        BY <1>2, <3>1 DEF FindMailbox
    <2>2. bus' \in Thread \cup {Null} /\ UNCHANGED counters
      BY DEF TypeOK, CallTyped, FindMailbox
    <2> QED
      BY <2>1, <2>2, CallGoesOn DEF TypeOK
  <1> QED
    BY <1>1, <1>2, <1>3, FrameTyped DEF TypeOK, FindMailbox

LEMMA FindChannelKeepsTypes ==
    ASSUME TypeOK, NEW t \in Thread, FindChannel(t)
    PROVE  TypeOK'
  <1>1. Lsn(t) \in Listener \cup {Null} /\ Arg(t) \in Name
    BY StepAtHand, StepArguments DEF TypeOK, FindChannel, Lsn, Arg
  <1>2. ASSUME NEW o \in Chan PROVE <<Unlock>> \o <<Step("enqueue_msg", Lsn(t), o)>> \in Seq(Instr)
    BY <1>1, StepsTyped DEF Target
  <1>3. <<Unlock>> \o <<>> \in Seq(Instr)
    BY StepsTyped
  <1>4. CallTyped'
    <2> DEFINE o == channels[Arg(t)]
               found == o # Null /\ owner[o] \in {Null, Lsn(t)}
    <2>1. found => o \in Chan
      BY <1>1 DEF TypeOK, DirTyped
    <2>2. PICK rest \in Seq(Instr) : Continue(t, rest)
      <3>1. CASE found
        BY <2>1, <1>2, <3>1 DEF FindChannel
      <3>2. CASE ~found
        BY <1>3, <3>2 DEF FindChannel
      <3> QED
        BY <3>1, <3>2
    <2> QED
      BY <2>2, CallGoesOn DEF TypeOK, FindChannel, Locked
  <1> QED
    BY <1>1, <1>2, <1>3, <1>4, FrameTyped DEF TypeOK, FindChannel

LEMMA EnqueueMsgKeepsTypes ==
    ASSUME TypeOK, NEW t \in Thread, EnqueueMsg(t)
    PROVE  TypeOK'
  <1>1. Lsn(t) \in Listener \cup {Null} /\ Arg(t) \in Target
    BY StepAtHand, StepArguments DEF TypeOK, EnqueueMsg, Lsn, Arg
  <1>2. Tail(script[t]) \in Seq(Instr)
    BY StepAtHand DEF TypeOK, EnqueueMsg
  <1>3. CallTyped'
    BY <1>2 DEF TypeOK, CallTyped, EnqueueMsg, Done
  <1>4. [to |-> Arg(t), from |-> Lsn(t), num |-> posted[t] + 1] \in MsgItem
    BY <1>1 DEF TypeOK, CallTyped, MsgItem
  <1>5. QueuesTyped'
    BY <1>4 DEF TypeOK, QueuesTyped, EnqueueMsg
  <1> QED
    BY <1>1, <1>2, <1>3, <1>4, <1>5, FrameTyped DEF TypeOK, EnqueueMsg

LEMMA UnlockBusKeepsTypes ==
    ASSUME TypeOK, NEW t \in Thread, UnlockBus(t)
    PROVE  TypeOK'
  <1>1. Lsn(t) \in Listener \cup {Null}
    BY StepAtHand, StepArguments DEF TypeOK, UnlockBus, Lsn
  <1>2. CallTyped'
    BY CallStepDone DEF TypeOK, UnlockBus
  <1>3. HistTyped'
    BY <1>1 DEF TypeOK, HistTyped, UnlockBus
  <1> QED
    BY <1>1, <1>2, <1>3, FrameTyped DEF TypeOK, UnlockBus

LEMMA AddListenerKeepsTypes ==
    ASSUME TypeOK, NEW t \in Thread, AddListener(t)
    PROVE  TypeOK'
  <1>1. Head(lq[t]).chan \in Chan /\ Head(lq[t]).lsn \in Listener
    BY ItemAtHand, ItemFields DEF TypeOK, AddListener, NextChange
  <1>2. QueuesTyped'
    BY ItemAtHand DEF TypeOK, QueuesTyped, AddListener, NextChange, PopChange
  <1>3. DirTyped'
    BY <1>1 DEF TypeOK, DirTyped, AddListener
  <1>4. CallTyped'
    BY FrameTyped DEF AddListener
  <1> QED
    BY <1>1, <1>2, <1>3, <1>4, FrameTyped DEF TypeOK, AddListener

LEMMA RemoveListenerKeepsTypes ==
    ASSUME TypeOK, NEW t \in Thread, RemoveListener(t)
    PROVE  TypeOK'
  <1>1. Head(lq[t]).chan \in Chan /\ Head(lq[t]).lsn \in Listener
    BY ItemAtHand, ItemFields DEF TypeOK, RemoveListener, NextChange
  <1>2. QueuesTyped'
    BY <1>1, ItemAtHand DEF TypeOK, QueuesTyped, RemoveListener, NextChange, PopChange
  <1>3. DirTyped'
    BY <1>1 DEF TypeOK, DirTyped, RemoveListener
  <1> QED
    BY <1>1, <1>2, <1>3, FrameTyped DEF TypeOK, RemoveListener

LEMMA ChannelIsEmptyKeepsTypes ==
    ASSUME TypeOK, NEW t \in Thread, ChannelIsEmpty(t)
    PROVE  TypeOK'
  <1>1. DirTyped' /\ QueuesTyped'
    BY DEF TypeOK, DirTyped, QueuesTyped, ChannelIsEmpty
  <1> QED
    BY <1>1, FrameTyped DEF TypeOK, ChannelIsEmpty

LEMMA RemoveMailboxKeepsTypes ==
    ASSUME TypeOK, NEW t \in Thread, RemoveMailbox(t)
    PROVE  TypeOK'
  <1>1. QueuesTyped'
    BY ItemAtHand DEF TypeOK, QueuesTyped, RemoveMailbox, NextChange, PopChange
  <1>2. MbxTyped'
    BY DEF TypeOK, MbxTyped, RemoveMailbox
  <1> QED
    BY <1>1, <1>2, FrameTyped DEF TypeOK, RemoveMailbox

LEMMA BroadcastKeepsTypes ==
    ASSUME TypeOK, NEW t \in Thread, Broadcast(t)
    PROVE  TypeOK'
  <1>1. Head(mq[t]) \in MsgItem /\ Tail(mq[t]) \in Seq(MsgItem)
    BY ItemAtHand DEF TypeOK, Broadcast
  <1>2. Recipients(Head(mq[t])) \subseteq Listener
    BY <1>1, ItemFields DEF TypeOK, DirTyped, MbxTyped, Recipients, Target
  <1>3. CastTyped'
    BY <1>1, <1>2, ItemFields DEF TypeOK, CastTyped, Broadcast, TakeMsg
  <1>4. QueuesTyped'
    BY <1>1 DEF TypeOK, QueuesTyped, Broadcast, TakeMsg
  <1> QED
    BY <1>1, <1>2, <1>3, <1>4, FrameTyped DEF TypeOK, Broadcast

LEMMA CallListenerKeepsTypes ==
    ASSUME TypeOK, NEW t \in Thread, CallListener(t)
    PROVE  TypeOK'
  <1>1. CastTyped'
    BY DEF TypeOK, CastTyped, CallListener
  <1> QED
    BY <1>1, FrameTyped DEF TypeOK, CallListener

LEMMA ReturnFromCallbackKeepsTypes ==
    ASSUME TypeOK, NEW t \in Thread, ReturnFromCallback(t)
    PROVE  TypeOK'
  <1>1. CastTyped'
    BY DEF TypeOK, CastTyped, ReturnFromCallback
  <1> QED
    BY <1>1, FrameTyped DEF TypeOK, ReturnFromCallback

LEMMA EndBroadcastKeepsTypes ==
    ASSUME TypeOK, NEW t \in Thread, EndBroadcast(t)
    PROVE  TypeOK'
  <1>1. CastTyped'
    BY DEF TypeOK, CastTyped, EndBroadcast
  <1> QED
    BY <1>1, FrameTyped DEF TypeOK, EndBroadcast

LEMMA StopRunningKeepsTypes ==
    ASSUME TypeOK, NEW t \in Thread, StopRunning(t)
    PROVE  TypeOK'
  <1>1. QueuesTyped'
    BY DEF TypeOK, QueuesTyped, StopRunning
  <1> QED
    BY <1>1, FrameTyped DEF TypeOK, StopRunning

\* Every step keeps the types.
LEMMA NextKeepsTypes == TypeOK /\ [Next]_vars => TypeOK'
  <1> SUFFICES ASSUME TypeOK, [Next]_vars PROVE TypeOK'
    OBVIOUS
  <1>1. CASE UNCHANGED vars
    BY <1>1, FrameTyped DEF TypeOK, vars, counters
  <1>2. CASE Finished
    BY <1>1, <1>2 DEF Finished
  <1>3. ASSUME NEW t \in Thread, Call(t) PROVE TypeOK'
    BY <1>3, CallKeepsTypes
  <1>4. ASSUME NEW t \in Thread, ApiStep(t) PROVE TypeOK'
    BY <1>4, SubscribeKeepsTypes, UnsubscribeKeepsTypes, UnsubscribeAllChannelsKeepsTypes,
       EraseMailboxKeepsTypes, EraseGroupsKeepsTypes, AddToGroupKeepsTypes,
       AdmitMemberKeepsTypes, CloseGroupKeepsTypes, GetMailboxKeepsTypes,
       FindMailboxKeepsTypes, FindChannelKeepsTypes, EnqueueMsgKeepsTypes,
       UnlockBusKeepsTypes DEF ApiStep
  <1>5. ASSUME NEW t \in Thread, QueueStep(t) PROVE TypeOK'
    BY <1>5, AddListenerKeepsTypes, RemoveListenerKeepsTypes, ChannelIsEmptyKeepsTypes,
       RemoveMailboxKeepsTypes, BroadcastKeepsTypes, CallListenerKeepsTypes,
       ReturnFromCallbackKeepsTypes, EndBroadcastKeepsTypes, StopRunningKeepsTypes
       DEF QueueStep
  <1> QED
    BY <1>1, <1>2, <1>3, <1>4, <1>5 DEF Next

\* Every variable of the broker keeps its kind in every behaviour: the queues
\* hold well-formed items and a call only the steps it is made of, whatever the
\* threads do (TLState and the maps of LocalBus).
THEOREM TypeCorrect == Spec => []TypeOK
  <1>1. Init => TypeOK
    BY InitTyped
  <1>2. TypeOK /\ [Next]_vars => TypeOK'
    BY NextKeepsTypes
  <1> QED
    BY <1>1, <1>2, PTL DEF Spec

-----------------------------------------------------------------------------
(* Who is called.                                                          *)

\* A callback runs only inside a broadcast.
CallbackInBroadcast == \A t \in Thread : cb[t] # Null => casting[t] # Null

CallInv == TypeOK /\ CallbackInBroadcast /\ CalledAreListed

\* A new ChanDef is one that nothing refers to.
LEMMA NewChannelUnused ==
    ASSUME DirTyped, NEW c \in Name, ~Mapped(c), RegisterChannel(c)
    PROVE  GetChannel(c) \in Chan /\ ~Referenced(GetChannel(c))
  BY DEF RegisterChannel, GetChannel, FreshChan

\* Registering a channel empties nobody's list but the new channel's, which no
\* broadcast uses.
LEMMA RegisterKeepsLists ==
    ASSUME DirTyped, NEW c \in Name, RegisterChannel(c), NEW u \in Thread, casting[u] \in Chan
    PROVE  listeners'[casting[u]] = listeners[casting[u]]
  <1>1. CASE Mapped(c)
    BY <1>1 DEF RegisterChannel
  <1>2. CASE ~Mapped(c)
    <2>1. casting[u] # GetChannel(c)
      BY <1>2, NewChannelUnused DEF Referenced
    <2> QED
      BY <1>2, <2>1 DEF RegisterChannel, DirTyped
  <1> QED
    BY <1>1, <1>2

\* As long as no thread's broadcast moves on, it is enough that the lists of
\* the channels in use lose nobody.
LEMMA ListsGrow ==
    ASSUME CallInv, UNCHANGED <<casting, todo, cb>>,
           \A u \in Thread : casting[u] \in Chan =>
              listeners[casting[u]] \subseteq listeners'[casting[u]]
    PROVE  CallbackInBroadcast' /\ CalledAreListed'
  BY DEF CallInv, CallbackInBroadcast, CalledAreListed, CalledNowOrNext

LEMMA ApiStepKeepsCallInv ==
    ASSUME CallInv, NEW t \in Thread, ApiStep(t)
    PROVE  CallbackInBroadcast' /\ CalledAreListed'
  <1>1. UNCHANGED <<casting, todo, cb>>
    BY DEF ApiStep, Subscribe, Unsubscribe, UnsubscribeAllChannels, EraseMailbox, EraseGroups,
           AddToGroup, AdmitMember, CloseGroup, GetMailbox, FindMailbox, FindChannel,
           EnqueueMsg, UnlockBus, castVars
  <1>2. CASE UNCHANGED listeners
    BY <1>1, <1>2, ListsGrow
  <1>3. CASE Subscribe(t)
    <2>1. Arg(t) \in Name
      BY <1>3, StepAtHand, StepArguments DEF CallInv, TypeOK, Subscribe, Arg
    <2>2. UNCHANGED listeners \/ RegisterChannel(Arg(t))
      BY <1>3 DEF Subscribe, dirVars
    <2> QED
      BY <1>1, <2>1, <2>2, RegisterKeepsLists, ListsGrow DEF CallInv, TypeOK
  <1>4. CASE AddToGroup(t)
    <2>1. Arg(t)[1] \in Name
      BY <1>4, StepAtHand, StepArguments DEF CallInv, TypeOK, AddToGroup, Arg
    <2>2. UNCHANGED listeners \/ RegisterChannel(Arg(t)[1])
      BY <1>4 DEF AddToGroup, dirVars
    <2> QED
      BY <1>1, <2>1, <2>2, RegisterKeepsLists, ListsGrow DEF CallInv, TypeOK
  <1>5. CASE AdmitMember(t)
    <2>1. \A o \in Chan : listeners[o] \subseteq listeners'[o]
      BY <1>5 DEF AdmitMember, CallInv, TypeOK, DirTyped
    <2> QED
      BY <1>1, <2>1, ListsGrow
  <1> QED
    BY <1>2, <1>3, <1>4, <1>5 DEF ApiStep, Unsubscribe, UnsubscribeAllChannels, EraseMailbox,
       EraseGroups, CloseGroup, GetMailbox, FindMailbox, FindChannel, EnqueueMsg, UnlockBus,
       dirVars

LEMMA QueueStepKeepsCallInv ==
    ASSUME CallInv, NEW t \in Thread, QueueStep(t)
    PROVE  CallbackInBroadcast' /\ CalledAreListed'
  <1>1. CASE AddListener(t)
    <2>1. \A o \in Chan : listeners[o] \subseteq listeners'[o]
      BY <1>1 DEF AddListener, CallInv, TypeOK, DirTyped
    <2> QED
      BY <1>1, <2>1, ListsGrow DEF AddListener, castVars
  <1>2. CASE RemoveListener(t)
    <2>1. \A u \in Thread : casting[u] # Head(lq[t]).chan
      BY <1>2 DEF RemoveListener, MayWrite, Readers
    <2>2. \A u \in Thread : casting[u] \in Chan => listeners'[casting[u]] = listeners[casting[u]]
      BY <1>2, <2>1 DEF RemoveListener, CallInv, TypeOK, DirTyped
    <2> QED
      BY <1>2, <2>2, ListsGrow DEF RemoveListener, castVars
  <1>3. CASE Broadcast(t)
    <2>1. casting[t] = Null /\ cb[t] = Null
      BY <1>3 DEF Broadcast, Draining, CallInv, CallbackInBroadcast
    <2>2. TakeMsg(mq[t]).item.to \in Target
      BY <1>3, ItemAtHand, ItemFields DEF Broadcast, TakeMsg, CallInv, TypeOK
    <2>3. casting'[t] \in Chan => todo'[t] \subseteq listeners'[casting'[t]]
      BY <1>3 DEF Broadcast, Recipients, dirVars, CallInv, TypeOK, CastTyped
    <2>4. cb'[t] = Null
      BY <1>3, <2>1 DEF Broadcast
    <2>5. casting'[t] # Null
      BY <1>3, <2>2, IdentitiesDiffer DEF Broadcast, Target, CallInv, TypeOK, CastTyped
    <2>6. \A u \in Thread \ {t} : /\ casting'[u] = casting[u] /\ todo'[u] = todo[u]
                                /\ cb'[u] = cb[u]
      BY <1>3 DEF Broadcast, CallInv, TypeOK, CastTyped
    <2>7. UNCHANGED listeners
      BY <1>3 DEF Broadcast, dirVars
    <2> QED
      BY <2>3, <2>4, <2>5, <2>6, <2>7 DEF CallInv, CallbackInBroadcast, CalledAreListed,
         CalledNowOrNext
  <1>4. CASE CallListener(t)
    BY <1>4, IdentitiesDiffer DEF CallListener, dirVars, CallInv, TypeOK, CastTyped, CallbackInBroadcast,
       CalledAreListed, CalledNowOrNext
  <1>5. CASE ReturnFromCallback(t)
    BY <1>5 DEF ReturnFromCallback, dirVars, CallInv, TypeOK, CastTyped, CallbackInBroadcast,
       CalledAreListed, CalledNowOrNext
  <1>6. CASE EndBroadcast(t)
    BY <1>6, IdentitiesDiffer DEF EndBroadcast, InCallback, dirVars, CallInv, TypeOK, CastTyped,
       CallbackInBroadcast, CalledAreListed, CalledNowOrNext
  <1>7. CASE ChannelIsEmpty(t) \/ RemoveMailbox(t) \/ StopRunning(t)
    BY <1>7, ListsGrow DEF ChannelIsEmpty, RemoveMailbox, StopRunning, castVars, dirVars
  <1> QED
    BY <1>1, <1>2, <1>3, <1>4, <1>5, <1>6, <1>7 DEF QueueStep

\* ChanDef's lock does what it is for: a listener that is being called for a
\* channel, or is next to be, is still on the channel's list, so once
\* remove_listener() has returned nobody is in, or will enter, its callback for
\* that channel.
THEOREM OnlyListedAreCalled == Spec => []CalledAreListed
  <1>1. Init => CallInv
    BY InitTyped, IdentitiesDiffer DEF Init, CallInv, CallbackInBroadcast, CalledAreListed
  <1>2. CallInv /\ [Next]_vars => CallInv'
    <2> SUFFICES ASSUME CallInv, [Next]_vars PROVE CallbackInBroadcast' /\ CalledAreListed'
      BY NextKeepsTypes DEF CallInv
    <2>1. CASE UNCHANGED vars \/ Finished \/ \E t \in Thread : Call(t)
      BY <2>1, ListsGrow DEF Finished, Call, vars, castVars, dirVars
    <2> QED
      BY <2>1, ApiStepKeepsCallInv, QueueStepKeepsCallInv DEF Next
  <1>3. CallInv => CalledAreListed
    BY DEF CallInv
  <1> QED
    BY <1>1, <1>2, <1>3, PTL DEF Spec

-----------------------------------------------------------------------------
(* Order of a thread's messages.                                           *)

\* Numbers are given out in ascending order.
NumbersUsed ==
    \A t \in Thread :
      last[t] <= posted[t] /\ \A i \in DOMAIN mq[t] : mq[t][i].num <= posted[t]

OrderInv == TypeOK /\ NumbersUsed /\ PostedOrder

LEMMA EnqueueMsgKeepsOrder ==
    ASSUME OrderInv, NEW t \in Thread, EnqueueMsg(t)
    PROVE  NumbersUsed' /\ PostedOrder'
  <1> DEFINE q == mq[t]
             m == [to |-> Arg(t), from |-> Lsn(t), num |-> posted[t] + 1]
  <1>1. q \in Seq(MsgItem) /\ posted[t] \in Nat /\ last[t] \in Nat
    BY DEF OrderInv, TypeOK, QueuesTyped, CallTyped, CastTyped
  <1>2. \A i \in DOMAIN q : q[i].num \in Nat
    BY <1>1, ItemFields
  <1>3. mq'[t] = Append(q, m) /\ posted'[t] = posted[t] + 1 /\ last' = last
    BY DEF EnqueueMsg, OrderInv, TypeOK, QueuesTyped, CallTyped, castVars
  <1>4. \A u \in Thread \ {t} : mq'[u] = mq[u] /\ posted'[u] = posted[u]
    BY DEF EnqueueMsg, OrderInv, TypeOK, QueuesTyped, CallTyped
  <1>5. /\ DOMAIN mq'[t] = 1..(Len(q) + 1) /\ DOMAIN q = 1..Len(q) /\ Len(q) \in Nat
        /\ mq'[t][Len(q) + 1] = m
        /\ \A i \in 1..Len(q) : mq'[t][i] = q[i]
    BY <1>1, <1>3
  <1>6. \A i \in 1..(Len(q) + 1) : i \in 1..Len(q) \/ i = Len(q) + 1
    BY <1>5
  <1>7. NumbersUsed'
    <2>1. ASSUME NEW i \in DOMAIN mq'[t] PROVE mq'[t][i].num <= posted'[t]
      <3>1. CASE i \in 1..Len(q)
        <4>1. mq'[t][i] = q[i] /\ q[i].num \in Nat /\ q[i].num <= posted[t]
          BY <1>2, <1>5, <3>1 DEF OrderInv, NumbersUsed
        <4> QED
          BY <1>1, <1>3, <4>1
      <3>2. CASE i = Len(q) + 1
        BY <1>1, <1>3, <1>5, <3>2
      <3> QED
        BY <1>5, <1>6, <2>1, <3>1, <3>2
    <2>2. last'[t] <= posted'[t]
      BY <1>1, <1>3 DEF OrderInv, NumbersUsed
    <2> QED
      BY <1>3, <1>4, <2>1, <2>2 DEF OrderInv, NumbersUsed
  <1>8. ASSUME NEW i \in DOMAIN mq'[t]
        PROVE  /\ last[t] < mq'[t][i].num
               /\ \A j \in 1..(i - 1) : mq'[t][j].num < mq'[t][i].num
    <2>1. CASE i \in 1..Len(q)
      <3>1. \A j \in 1..(i - 1) : j \in 1..Len(q)
        BY <1>5, <2>1
      <3>2. mq'[t][i] = q[i] /\ \A j \in 1..(i - 1) : mq'[t][j] = q[j]
        BY <1>5, <2>1, <3>1
      <3> QED
        BY <1>5, <2>1, <3>2 DEF OrderInv, PostedOrder
    <2>2. CASE i = Len(q) + 1
      <3>1. mq'[t][i].num = posted[t] + 1 /\ last[t] <= posted[t]
        BY <1>5, <2>2 DEF OrderInv, NumbersUsed
      <3>2. ASSUME NEW j \in 1..(i - 1) PROVE mq'[t][j].num < posted[t] + 1
        <4>1. j \in 1..Len(q)
          BY <1>5, <2>2
        <4>2. mq'[t][j] = q[j] /\ q[j].num \in Nat /\ q[j].num <= posted[t]
          BY <1>2, <1>5, <4>1 DEF OrderInv, NumbersUsed
        <4> QED
          BY <1>1, <4>2
      <3> QED
        BY <1>1, <3>1, <3>2
    <2> QED
      BY <1>5, <1>6, <2>1, <2>2
  <1> QED
    BY <1>3, <1>4, <1>7, <1>8 DEF OrderInv, PostedOrder

LEMMA BroadcastKeepsOrder ==
    ASSUME OrderInv, NEW t \in Thread, Broadcast(t)
    PROVE  NumbersUsed' /\ PostedOrder'
  <1> DEFINE q == mq[t]
  <1>1. q \in Seq(MsgItem) /\ q # <<>> /\ posted[t] \in Nat
    BY DEF Broadcast, OrderInv, TypeOK, QueuesTyped, CallTyped
  <1>2. mq'[t] = Tail(q) /\ last'[t] = q[1].num /\ posted' = posted
    BY DEF Broadcast, TakeMsg, OrderInv, TypeOK, QueuesTyped, CastTyped, counters
  <1>3. \A u \in Thread \ {t} : mq'[u] = mq[u] /\ last'[u] = last[u]
    BY DEF Broadcast, OrderInv, TypeOK, QueuesTyped, CastTyped
  <1>4. /\ DOMAIN Tail(q) = 1..(Len(q) - 1) /\ DOMAIN q = 1..Len(q)
        /\ Len(q) \in Nat /\ 1 \in DOMAIN q
        /\ \A i \in 1..(Len(q) - 1) : Tail(q)[i] = q[i + 1] /\ i + 1 \in DOMAIN q
    BY <1>1
  <1>5. NumbersUsed'
    <2>1. last'[t] <= posted'[t]
      BY <1>2, <1>4 DEF OrderInv, NumbersUsed
    <2>2. \A i \in DOMAIN Tail(q) : Tail(q)[i].num <= posted'[t]
      BY <1>2, <1>4 DEF OrderInv, NumbersUsed
    <2> QED
      BY <1>2, <1>3, <2>1, <2>2 DEF OrderInv, NumbersUsed
  <1>6. ASSUME NEW i \in DOMAIN Tail(q)
        PROVE  /\ q[1].num < Tail(q)[i].num
               /\ \A j \in 1..(i - 1) : Tail(q)[j].num < Tail(q)[i].num
    <2>1. i + 1 \in DOMAIN q /\ 1 \in 1..((i + 1) - 1) /\ Tail(q)[i] = q[i + 1]
      BY <1>4
    <2>2. \A j \in 1..(i - 1) : j + 1 \in 1..((i + 1) - 1) /\ Tail(q)[j] = q[j + 1]
      BY <1>4
    <2> QED
      BY <2>1, <2>2 DEF OrderInv, PostedOrder
  <1> QED
    BY <1>2, <1>3, <1>5, <1>6 DEF OrderInv, PostedOrder

\* What a thread posts is broadcast in the order of posting: run_msg_queue()
\* neither drops nor overtakes a message that a callback left behind.
THEOREM MessagesInOrder == Spec => []PostedOrder
  <1>1. Init => OrderInv
    BY InitTyped DEF Init, OrderInv, NumbersUsed, PostedOrder
  <1>2. OrderInv /\ [Next]_vars => OrderInv'
    <2> SUFFICES ASSUME OrderInv, [Next]_vars PROVE NumbersUsed' /\ PostedOrder'
      BY NextKeepsTypes DEF OrderInv
    <2>1. CASE UNCHANGED <<mq, last, posted>>
      BY <2>1 DEF OrderInv, NumbersUsed, PostedOrder
    <2>2. ASSUME NEW t \in Thread, ApiStep(t) PROVE NumbersUsed' /\ PostedOrder'
      <3>1. EnqueueMsg(t) \/ UNCHANGED <<mq, last, posted>>
        BY <2>2 DEF ApiStep, Subscribe, Unsubscribe, UnsubscribeAllChannels, EraseMailbox,
           EraseGroups, AddToGroup, AdmitMember, CloseGroup, GetMailbox, FindMailbox,
           FindChannel, UnlockBus, castVars, counters, queueVars, Enlist, EnqueueLsn
      <3> QED
        BY <2>1, <3>1, EnqueueMsgKeepsOrder
    <2>3. ASSUME NEW t \in Thread, QueueStep(t) PROVE NumbersUsed' /\ PostedOrder'
      <3>1. Broadcast(t) \/ UNCHANGED <<mq, last, posted>>
        BY <2>3 DEF QueueStep, AddListener, RemoveListener, ChannelIsEmpty, RemoveMailbox,
           CallListener, ReturnFromCallback, EndBroadcast, StopRunning, castVars, counters,
           queueVars
      <3> QED
        BY <2>1, <3>1, BroadcastKeepsOrder
    <2> QED
      BY <2>1, <2>2, <2>3 DEF Next, Call, Finished, vars, castVars, counters, queueVars
  <1>3. OrderInv => PostedOrder
    BY DEF OrderInv
  <1> QED
    BY <1>1, <1>2, <1>3, PTL DEF Spec

-----------------------------------------------------------------------------
(* Nothing is left behind.                                                 *)

LEMMA RangeOfTail ==
    ASSUME NEW S, NEW s \in Seq(S), s # <<>>
    PROVE  Range(s) = {Head(s)} \cup Range(Tail(s))
  <1>1. /\ DOMAIN s = 1..Len(s) /\ Len(s) \in Nat \ {0}
        /\ DOMAIN Tail(s) = 1..(Len(s) - 1)
        /\ Head(s) = s[1]
        /\ \A i \in 1..(Len(s) - 1) : Tail(s)[i] = s[i + 1]
    OBVIOUS
  <1>2. \A i \in 1..Len(s) : i = 1 \/ (i - 1 \in 1..(Len(s) - 1) /\ (i - 1) + 1 = i)
    BY <1>1
  <1>3. \A i \in 1..(Len(s) - 1) : i + 1 \in 1..Len(s)
    BY <1>1
  <1>4. ASSUME NEW x \in Range(s) PROVE x \in {Head(s)} \cup Range(Tail(s))
    <2>1. PICK i \in 1..Len(s) : x = s[i]
      BY <1>1 DEF Range
    <2>2. CASE i = 1
      BY <1>1, <2>1, <2>2
    <2>3. CASE i - 1 \in 1..(Len(s) - 1) /\ (i - 1) + 1 = i
      <3>1. x = Tail(s)[i - 1]
        BY <1>1, <2>1, <2>3
      <3> QED
        BY <1>1, <2>3, <3>1 DEF Range
    <2> QED
      BY <1>2, <2>2, <2>3
  <1>5. Range(Tail(s)) \subseteq Range(s)
    BY <1>1, <1>3 DEF Range
  <1>6. Head(s) \in Range(s)
    BY <1>1 DEF Range
  <1> QED
    BY <1>4, <1>5, <1>6

LEMMA RangeOfConcat ==
    ASSUME NEW S, NEW s \in Seq(S), NEW u \in Seq(S)
    PROVE  Range(s) \cup Range(u) \subseteq Range(s \o u)
  <1>1. /\ DOMAIN s = 1..Len(s) /\ DOMAIN u = 1..Len(u) /\ Len(s) \in Nat /\ Len(u) \in Nat
        /\ DOMAIN (s \o u) = 1..(Len(s) + Len(u))
        /\ \A i \in 1..Len(s) : i \in 1..(Len(s) + Len(u)) /\ (s \o u)[i] = s[i]
        /\ \A i \in 1..Len(u) : /\ Len(s) + i \in 1..(Len(s) + Len(u))
                               /\ (s \o u)[Len(s) + i] = u[i]
    OBVIOUS
  <1> QED
    BY <1>1 DEF Range

\* A registered channel bears the name it is registered under.
NamesRight == \A c \in Name, o \in Chan : channels[c] = o => id[o] = c

LeakInv == TypeOK /\ NamesRight /\ NoEmptyChannelLeft

\* enqueue_lsn() only adds to the queue.
LEMMA EnqueueGrows ==
    ASSUME QueuesTyped, NEW t \in Thread, NEW items \in Seq(LsnItem), EnqueueLsn(t, items)
    PROVE  /\ \A u \in Thread : Range(lq[u]) \subseteq Range(lq'[u])
           /\ Range(items) \subseteq Range(lq'[t])
           /\ UNCHANGED emptied
  <1>1. lq[t] \in Seq(LsnItem) /\ lq'[t] = lq[t] \o items
    BY DEF QueuesTyped, EnqueueLsn
  <1>2. \A u \in Thread \ {t} : lq'[u] = lq[u]
    BY DEF QueuesTyped, EnqueueLsn
  <1>3. Range(lq[t]) \cup Range(items) \subseteq Range(lq'[t])
    BY <1>1, RangeOfConcat
  <1> QED
    BY <1>2, <1>3 DEF EnqueueLsn

\* A call of the API only adds to the thread's queue of changes, and only
\* erase_mailbox_lk() adds the removal of a mailbox.
LEMMA ApiStepEnqueues ==
    ASSUME TypeOK, NEW t \in Thread, ApiStep(t)
    PROVE  \/ UNCHANGED <<lq, emptied>> /\ (EnqueueMsg(t) \/ UNCHANGED running)
           \/ \E items \in Seq(LsnItem) :
                /\ EnqueueLsn(t, items)
                /\ EraseMailbox(t) \/ \A x \in Range(items) : x.kind # "mailbox"
  <1>1. CASE Unsubscribe(t)
    <2>1. Lsn(t) \in Listener /\ Arg(t) \in Name
      BY <1>1, StepAtHand, StepArguments DEF TypeOK, Unsubscribe, Lsn, Arg
    <2>2. CASE Has(Arg(t), Lsn(t))
      <3> DEFINE items == <<[kind |-> "remove", lsn |-> Lsn(t), chan |-> channels[Arg(t)]]>>
      <3>1. items \in Seq(LsnItem) /\ \A x \in Range(items) : x.kind # "mailbox"
        BY <2>1, <2>2 DEF TypeOK, DirTyped, Has, Mapped, LsnItem, Range
      <3> QED
        BY <1>1, <2>2, <3>1 DEF Unsubscribe
    <2> QED
      BY <1>1, <2>2 DEF Unsubscribe, queueVars
  <1>2. CASE UnsubscribeAllChannels(t)
    <2>1. Lsn(t) \in Listener
      BY <1>2, StepAtHand, StepArguments DEF TypeOK, UnsubscribeAllChannels, Lsn
    <2> DEFINE items == Removals(Lsn(t), Arg(t))
    <2>2. items \in Seq(LsnItem)
      BY <2>1, RemovalsTyped DEF TypeOK
    <2>3. \A x \in Range(items) : x.kind # "mailbox"
      BY DEF Removals, Range
    <2> QED
      BY <1>2, <2>2, <2>3 DEF UnsubscribeAllChannels
  <1>3. CASE EraseMailbox(t)
    <2>1. Lsn(t) \in Listener
      BY <1>3, StepAtHand, StepArguments DEF TypeOK, EraseMailbox, Lsn
    <2>2. RemovalOfMailbox(Lsn(t)) \in Seq(LsnItem)
      BY <2>1 DEF RemovalOfMailbox, LsnItem
    <2> QED
      BY <1>3, <2>2 DEF EraseMailbox, queueVars
  <1>4. CASE Subscribe(t)
    <2>1. Lsn(t) \in Listener /\ Arg(t) \in Name
      BY <1>4, StepAtHand, StepArguments DEF TypeOK, Subscribe, Lsn, Arg
    <2>2. CASE Enlist(t, Lsn(t), GetChannel(Arg(t))) /\ RegisterChannel(Arg(t))
      <3>1. GetChannel(Arg(t)) \in Chan
        BY <2>1, <2>2, GetChannelTyped DEF TypeOK, RegisterChannel
      <3> DEFINE items == <<[kind |-> "add", lsn |-> Lsn(t), chan |-> GetChannel(Arg(t))]>>
      <3>2. items \in Seq(LsnItem) /\ \A x \in Range(items) : x.kind # "mailbox"
        BY <2>1, <3>1 DEF LsnItem, Range
      <3> QED
        BY <2>2, <3>2 DEF Enlist
    <2> QED
      BY <1>4, <2>2 DEF Subscribe, queueVars
  <1> QED
    BY <1>1, <1>2, <1>3, <1>4 DEF ApiStep, EraseGroups, AddToGroup, AdmitMember, CloseGroup,
       GetMailbox, FindMailbox, FindChannel, EnqueueMsg, UnlockBus, queueVars

\* A step of a call that is not add_listener takes no pending change away.
LEMMA PendingKept ==
    ASSUME CallTyped, NEW t \in Thread, Head(script[t]).op # "add_listener",
           \A u \in Thread \ {t} : script'[u] = script[u],
           \A u \in Thread : Range(lq[u]) \subseteq Range(lq'[u]),
           UNCHANGED emptied,
           \A u \in Thread : emptied[u] # Null => id'[emptied[u]] = id[emptied[u]],
           NEW c, NEW o, ChangePending(c, o)
    PROVE  ChangePending(c, o)'
  <1>1. PICK u \in Thread :
          \/ \E item \in Range(lq[u]) : item.chan = o
          \/ emptied[u] # Null /\ id[emptied[u]] = c
          \/ script[u] # <<>> /\ Head(script[u]).op = "add_listener" /\ Head(script[u]).arg = o
    BY DEF ChangePending
  <1>2. CASE \E item \in Range(lq[u]) : item.chan = o
    BY <1>2 DEF ChangePending
  <1>3. CASE emptied[u] # Null /\ id[emptied[u]] = c
    BY <1>3 DEF ChangePending
  <1>4. CASE script[u] # <<>> /\ Head(script[u]).op = "add_listener" /\ Head(script[u]).arg = o
    BY <1>4 DEF ChangePending
  <1> QED
    BY <1>1, <1>2, <1>3, <1>4

\* Steps that register no channel and touch no list.
LEMMA ErasingKeepsLeakInv ==
    ASSUME LeakInv, UNCHANGED <<id, listeners>>,
           \A c \in Name : channels'[c] \in {channels[c], Null},
           \A c \in Name, o \in Chan :
              channels'[c] = o /\ ChangePending(c, o) => ChangePending(c, o)'
    PROVE  NamesRight' /\ NoEmptyChannelLeft'
  <1> SUFFICES ASSUME NEW c \in Name, NEW o \in Chan, channels'[c] = o
               PROVE  id'[o] = c /\ (listeners'[o] = {} => ChangePending(c, o)')
    BY DEF NamesRight, NoEmptyChannelLeft
  <1>1. channels[c] = o
    BY IdentitiesDiffer
  <1> QED
    BY <1>1 DEF LeakInv, NamesRight, NoEmptyChannelLeft

\* Registering a channel is safe when a change of it is pending afterwards.
LEMMA RegisteringKeepsLeakInv ==
    ASSUME LeakInv, NEW n \in Name, RegisterChannel(n), UNCHANGED emptied,
           NEW g, g = GetChannel(n), ChangePending(n, g)',
           \A c, o : /\ \A u \in Thread : emptied[u] # Null => id'[emptied[u]] = id[emptied[u]]
                     /\ ChangePending(c, o)
                     => ChangePending(c, o)'
    PROVE  NamesRight' /\ NoEmptyChannelLeft'
  <1>1. g \in Chan
    BY GetChannelTyped DEF LeakInv, TypeOK, RegisterChannel
  <1>2. channels'[n] = g /\ id'[g] = n
    BY <1>1 DEF RegisterChannel, LeakInv, TypeOK, DirTyped
  <1>3. \A c \in Name \ {n} : channels'[c] = channels[c]
    BY DEF RegisterChannel, LeakInv, TypeOK, DirTyped
  <1>4. \A c \in Name \ {n} : channels[c] # g
    <2>1. CASE Mapped(n)
      BY <2>1, <1>1 DEF GetChannel, LeakInv, NamesRight
    <2>2. CASE ~Mapped(n)
      BY <2>2, NewChannelUnused DEF Referenced, LeakInv, TypeOK
    <2> QED
      BY <2>1, <2>2
  <1>5. \A o \in Chan \ {g} : id'[o] = id[o] /\ listeners'[o] = listeners[o]
    BY DEF RegisterChannel, LeakInv, TypeOK, DirTyped
  <1>6. \A u \in Thread : emptied[u] # Null => id'[emptied[u]] = id[emptied[u]]
    <2>1. CASE Mapped(n)
      <3>1. id[g] = n
        BY <1>1, <2>1 DEF LeakInv, NamesRight, GetChannel
      <3> QED
        BY <1>2, <1>5, <3>1 DEF LeakInv, TypeOK, QueuesTyped
    <2>2. CASE ~Mapped(n)
      <3>1. \A u \in Thread : emptied[u] # g
        BY <2>2, NewChannelUnused DEF Referenced, LeakInv, TypeOK
      <3> QED
        BY <1>5, <3>1 DEF LeakInv, TypeOK, QueuesTyped
    <2> QED
      BY <2>1, <2>2
  <1> SUFFICES ASSUME NEW c \in Name, NEW o \in Chan, channels'[c] = o
               PROVE  id'[o] = c /\ (listeners'[o] = {} => ChangePending(c, o)')
    BY DEF NamesRight, NoEmptyChannelLeft
  <1>7. CASE c = n
    BY <1>2, <1>7
  <1>8. CASE c # n
    <2>1. channels[c] = o /\ o # g
      BY <1>3, <1>4, <1>8
    <2> QED
      BY <1>5, <1>6, <2>1 DEF LeakInv, NamesRight, NoEmptyChannelLeft
  <1> QED
    BY <1>7, <1>8

LEMMA ApiStepKeepsLeakInv ==
    ASSUME LeakInv, NEW t \in Thread, ApiStep(t)
    PROVE  NamesRight' /\ NoEmptyChannelLeft'
  <1>1. CASE Subscribe(t)
    <2>1. Lsn(t) \in Listener /\ Arg(t) \in Name /\ Head(script[t]).op = "subscribe_lk"
      BY <1>1, StepAtHand, StepArguments DEF LeakInv, TypeOK, Subscribe, Lsn, Arg
    <2>2. \A u \in Thread \ {t} : script'[u] = script[u]
      BY <1>1 DEF Subscribe, Enlist, Done, LeakInv, TypeOK, CallTyped
    <2>3. CASE UNCHANGED <<dirVars, queueVars, histVars>>
      BY <2>1, <2>2, <2>3, PendingKept, ErasingKeepsLeakInv
         DEF dirVars, queueVars, LeakInv, TypeOK
    <2>4. CASE ~UNCHANGED <<dirVars, queueVars, histVars>>
      <3> PICK n \in Name : n = Arg(t)
        BY <2>1
      <3>1. PICK g \in Chan : g = GetChannel(n) /\ RegisterChannel(n) /\ Enlist(t, Lsn(t), g)
        BY <1>1, <2>1, <2>4, GetChannelTyped DEF Subscribe, RegisterChannel, LeakInv, TypeOK
      <3> DEFINE item == [kind |-> "add", lsn |-> Lsn(t), chan |-> g]
      <3>2. <<item>> \in Seq(LsnItem) /\ item \in Range(<<item>>)
        BY <2>1 DEF LsnItem, Range
      <3>3. /\ \A u \in Thread : Range(lq[u]) \subseteq Range(lq'[u])
            /\ item \in Range(lq'[t]) /\ UNCHANGED emptied
        BY <3>1, <3>2, EnqueueGrows DEF Enlist, LeakInv, TypeOK
      <3>4. ChangePending(n, g)'
        BY <3>3 DEF ChangePending
      <3>5. \A c, o : /\ \A u \in Thread : emptied[u] # Null => id'[emptied[u]] = id[emptied[u]]
                      /\ ChangePending(c, o)
                      => ChangePending(c, o)'
        BY <2>1, <2>2, <3>3, PendingKept DEF LeakInv, TypeOK
      <3> QED
        BY <2>1, <3>1, <3>3, <3>4, <3>5, RegisteringKeepsLeakInv
    <2> QED
      BY <2>3, <2>4
  <1>2. CASE AddToGroup(t)
    <2>1. Arg(t)[1] \in Name /\ Head(script[t]).op = "add_to_group"
      BY <1>2, StepAtHand, StepArguments DEF LeakInv, TypeOK, AddToGroup, Arg
    <2>2. \A u \in Thread \ {t} : script'[u] = script[u]
      BY <1>2 DEF AddToGroup, Continue, Done, LeakInv, TypeOK, CallTyped
    <2>3. UNCHANGED <<lq, emptied>>
      BY <1>2 DEF AddToGroup, queueVars
    <2>4. CASE Done(t) /\ UNCHANGED <<dirVars, intent>>
      BY <2>1, <2>2, <2>3, <2>4, PendingKept, ErasingKeepsLeakInv
         DEF dirVars, LeakInv, TypeOK
    <2>5. CASE ~(Done(t) /\ UNCHANGED <<dirVars, intent>>)
      <3> PICK n \in Name : n = Arg(t)[1]
        BY <2>1
      <3>1. PICK g \in Chan, x \in Listener :
              /\ g = GetChannel(n) /\ RegisterChannel(n)
              /\ Continue(t, <<Step("add_listener", x, g)>> \o Tail(script[t]))
        BY <1>2, <2>1, <2>5, GetChannelTyped DEF AddToGroup, RegisterChannel, LeakInv, TypeOK
      <3>2. Tail(script[t]) \in Seq(Instr) /\ Step("add_listener", x, g) \in Instr
        BY <1>2, StepAtHand, StepsTyped DEF AddToGroup, LeakInv, TypeOK
      <3>3. script'[t] # <<>> /\ Head(script'[t]) = Step("add_listener", x, g)
        BY <3>1, <3>2 DEF Continue, LeakInv, TypeOK, CallTyped
      <3>4. ChangePending(n, g)'
        BY <3>3 DEF ChangePending, Step
      <3>5. \A c, o : /\ \A u \in Thread : emptied[u] # Null => id'[emptied[u]] = id[emptied[u]]
                      /\ ChangePending(c, o)
                      => ChangePending(c, o)'
        BY <2>1, <2>2, <2>3, PendingKept DEF LeakInv, TypeOK
      <3> QED
        BY <2>1, <2>3, <3>1, <3>4, <3>5, RegisteringKeepsLeakInv
    <2> QED
      BY <2>4, <2>5
  <1>3. CASE AdmitMember(t)
    <2>1. Head(script[t]).op = "add_listener" /\ Arg(t) = Head(script[t]).arg
      BY <1>3, StepAtHand DEF LeakInv, TypeOK, AdmitMember, Arg
    <2>2. /\ UNCHANGED <<channels, id, lq, emptied>>
          /\ \A u \in Thread \ {t} : script'[u] = script[u]
          /\ \A o \in Chan : listeners'[o] = {} => listeners[o] = {} /\ o # Arg(t)
      BY <1>3 DEF AdmitMember, queueVars, Done, LeakInv, TypeOK, DirTyped, CallTyped
    <2> SUFFICES ASSUME NEW c \in Name, NEW o \in Chan, channels'[c] = o, listeners'[o] = {}
                 PROVE  ChangePending(c, o)'
      BY <2>2 DEF LeakInv, NamesRight, NoEmptyChannelLeft
    <2>3. ChangePending(c, o) /\ o # Arg(t)
      BY <2>2 DEF LeakInv, NoEmptyChannelLeft
    <2> QED
      BY <2>1, <2>2, <2>3 DEF ChangePending
  <1>4. CASE ~(Subscribe(t) \/ AddToGroup(t) \/ AdmitMember(t))
    <2>1. PICK op \in {"unsubscribe_lk", "unsubscribe_all_channels_lk", "erase_mailbox_lk",
                       "erase_groups_lk", "close_group", "get_mailbox", "find_mailbox",
                       "find_channel", "enqueue_msg", "unlock"} : At(t, op)
      BY <1>4 DEF ApiStep, Unsubscribe, UnsubscribeAllChannels, EraseMailbox, EraseGroups,
         CloseGroup, GetMailbox, FindMailbox, FindChannel, EnqueueMsg, UnlockBus
    <2>2. Head(script[t]).op # "add_listener"
      BY <2>1 DEF At
    <2>3. \A u \in Thread \ {t} : script'[u] = script[u]
      BY <1>4 DEF ApiStep, Unsubscribe, UnsubscribeAllChannels, EraseMailbox, EraseGroups,
         CloseGroup, GetMailbox, FindMailbox, FindChannel, EnqueueMsg, UnlockBus,
         Done, Continue, LeakInv, TypeOK, CallTyped
    <2>4. UNCHANGED <<lq, emptied>> \/ \E items \in Seq(LsnItem) : EnqueueLsn(t, items)
      BY ApiStepEnqueues DEF LeakInv, TypeOK
    <2>5. (\A u \in Thread : Range(lq[u]) \subseteq Range(lq'[u])) /\ UNCHANGED emptied
      BY <2>4, EnqueueGrows DEF LeakInv, TypeOK
    <2>6. /\ UNCHANGED <<id, listeners>>
          /\ \A c \in Name : channels'[c] \in {channels[c], Null}
      BY <1>4 DEF ApiStep, Unsubscribe, UnsubscribeAllChannels, EraseMailbox, EraseGroups,
         CloseGroup, GetMailbox, FindMailbox, FindChannel, EnqueueMsg, UnlockBus, dirVars,
         LeakInv, TypeOK, DirTyped
    <2> QED
      BY <2>2, <2>3, <2>5, <2>6, PendingKept, ErasingKeepsLeakInv DEF LeakInv, TypeOK
  <1> QED
    BY <1>1, <1>2, <1>3, <1>4

LEMMA QueueStepKeepsLeakInv ==
    ASSUME LeakInv, NEW t \in Thread, QueueStep(t)
    PROVE  NamesRight' /\ NoEmptyChannelLeft'
  <1> SUFFICES ASSUME NEW c \in Name, NEW o \in Chan, channels'[c] = o
               PROVE  id'[o] = c /\ (listeners'[o] = {} => ChangePending(c, o)')
    BY DEF NamesRight, NoEmptyChannelLeft
  <1>1. /\ UNCHANGED <<id, script>>
        /\ channels[c] = o
      BY IdentitiesDiffer DEF QueueStep, AddListener, RemoveListener, ChannelIsEmpty,
         RemoveMailbox, Broadcast, CallListener, ReturnFromCallback, EndBroadcast,
         StopRunning, dirVars
  <1>2. id[o] = c
    BY <1>1 DEF LeakInv, NamesRight
  <1>3. listeners[o] = {} => ChangePending(c, o)
    BY <1>1 DEF LeakInv, NoEmptyChannelLeft
  <1>4. CASE AddListener(t) \/ RemoveListener(t) \/ RemoveMailbox(t)
    <2> DEFINE item == Head(lq[t])
    <2>1. lq[t] \in Seq(LsnItem) /\ lq[t] # <<>> /\ lq'[t] = Tail(lq[t])
      BY <1>4 DEF AddListener, RemoveListener, RemoveMailbox, NextChange, PopChange,
         LeakInv, TypeOK, QueuesTyped
    <2>2. \A u \in Thread \ {t} : lq'[u] = lq[u] /\ emptied'[u] = emptied[u]
      BY <1>4 DEF AddListener, RemoveListener, RemoveMailbox, PopChange, LeakInv, TypeOK,
         QueuesTyped
    <2>3. Range(lq[t]) = {item} \cup Range(lq'[t])
      BY <2>1, RangeOfTail
    <2>4. item \in LsnItem /\ emptied[t] = Null
      BY <2>1, <1>4 DEF AddListener, RemoveListener, RemoveMailbox, NextChange, Draining
    <2>5. CASE item.chan = o
      <3>1. CASE AddListener(t)
        BY <1>1, <1>2, <2>5, <3>1 DEF AddListener, LeakInv, TypeOK, DirTyped
      <3>2. CASE RemoveListener(t)
        <4>1. /\ listeners'[o] = listeners[o] \ {item.lsn}
              /\ emptied'[t] = IF listeners[o] \ {item.lsn} = {} THEN o ELSE Null
          BY <2>5, <3>2 DEF RemoveListener, EmptyAfter, LeakInv, TypeOK, DirTyped, QueuesTyped
        <4> QED
          BY <1>1, <1>2, <4>1, IdentitiesDiffer DEF ChangePending
      <3>3. CASE RemoveMailbox(t)
        BY <2>4, <2>5, <3>3, IdentitiesDiffer DEF RemoveMailbox, NextChange, LsnItem
      <3> QED
        BY <1>4, <3>1, <3>2, <3>3
    <2>6. CASE item.chan # o
      <3>1. listeners'[o] = listeners[o]
        BY <1>4, <2>6 DEF AddListener, RemoveListener, RemoveMailbox, dirVars, LeakInv, TypeOK,
           DirTyped
      <3>2. ChangePending(c, o) => ChangePending(c, o)'
        BY <1>1, <2>2, <2>3, <2>4, <2>6 DEF ChangePending
      <3> QED
        BY <1>1, <1>2, <1>3, <3>1, <3>2
    <2> QED
      BY <2>5, <2>6
  <1>5. CASE ChannelIsEmpty(t)
    <2>1. /\ UNCHANGED <<listeners, lq>>
          /\ emptied[t] # Null /\ id[emptied[t]] # c
          /\ \A u \in Thread \ {t} : emptied'[u] = emptied[u]
      BY <1>1, <1>5, IdentitiesDiffer DEF ChannelIsEmpty, LeakInv, TypeOK, QueuesTyped
    <2> QED
      BY <1>1, <1>2, <1>3, <2>1 DEF ChangePending
  <1>6. CASE Broadcast(t) \/ CallListener(t) \/ ReturnFromCallback(t) \/ EndBroadcast(t)
             \/ StopRunning(t)
    <2>1. UNCHANGED <<listeners, lq, emptied>>
      BY <1>6 DEF Broadcast, CallListener, ReturnFromCallback, EndBroadcast, StopRunning,
         dirVars, queueVars
    <2> QED
      BY <1>1, <1>2, <1>3, <2>1 DEF ChangePending
  <1> QED
    BY <1>4, <1>5, <1>6 DEF QueueStep

\* A channel that loses its last listener loses its name too, or is about to:
\* remove_listener() reports exactly the removals that emptied the list, and a
\* channel registered without listeners has one on the way.
THEOREM NoChannelLeaks == Spec => []NoEmptyChannelLeft
  <1>1. Init => LeakInv
    BY InitTyped, IdentitiesDiffer DEF Init, LeakInv, NamesRight, NoEmptyChannelLeft
  <1>2. LeakInv /\ [Next]_vars => LeakInv'
    <2> SUFFICES ASSUME LeakInv, [Next]_vars
                 PROVE  LeakInv'
      OBVIOUS
    <2>1. TypeOK'
      BY NextKeepsTypes DEF LeakInv
    <2>2. CASE \E t \in Thread : ApiStep(t)
      BY <2>1, <2>2, ApiStepKeepsLeakInv DEF LeakInv
    <2>3. CASE \E t \in Thread : QueueStep(t)
      BY <2>1, <2>3, QueueStepKeepsLeakInv DEF LeakInv
    <2>4. CASE \E t \in Thread : Call(t)
      <3>1. PICK t \in Thread : Call(t)
        BY <2>4
      <3>2. /\ UNCHANGED <<channels, id, listeners, lq, emptied>>
            /\ script[t] = <<>> /\ \A u \in Thread \ {t} : script'[u] = script[u]
        BY <3>1 DEF Call, dirVars, queueVars, LeakInv, TypeOK, CallTyped
      <3>3. \A c, o : ChangePending(c, o) => ChangePending(c, o)'
        BY <3>2 DEF ChangePending
      <3> QED
        BY <2>1, <3>2, <3>3 DEF LeakInv, NamesRight, NoEmptyChannelLeft
    <2>5. CASE UNCHANGED vars
      <3>1. UNCHANGED <<channels, id, listeners, lq, emptied, script>>
        BY <2>5 DEF vars, dirVars, queueVars
      <3> QED
        BY <2>1, <3>1 DEF LeakInv, NamesRight, NoEmptyChannelLeft, ChangePending
    <2> QED
      BY <2>2, <2>3, <2>4, <2>5 DEF Next, Finished
  <1>3. LeakInv => NoEmptyChannelLeft
    BY DEF LeakInv
  <1> QED
    BY <1>1, <1>2, <1>3, PTL DEF Spec

-----------------------------------------------------------------------------
(* Mailboxes.                                                              *)

\* The step that removes the mailbox of l.
Removal(l) == [kind |-> "mailbox", lsn |-> l, chan |-> Null]

\* A listener's mailbox is nobody else's.
MailboxesDiffer ==
    \A k, l \in Listener : mailbox[k] = mailbox[l] /\ mailbox[k] # Null => k = l

MailInv == TypeOK /\ MailboxesDiffer /\ DisabledMailboxRemoved

\* A new mailbox is one that no listener has.
LEMMA NewMailbox ==
    ASSUME TypeOK, NEW t \in Thread, GetMailbox(t)
    PROVE  /\ Lsn(t) \in Listener /\ UNCHANGED <<queueVars, castVars>>
           /\ \/ UNCHANGED mbxVars
              \/ /\ mailbox[Lsn(t)] = Null
                 /\ \E m \in Mbx : /\ mailbox' = [mailbox EXCEPT ![Lsn(t)] = m]
                                   /\ disabled' = [disabled EXCEPT ![m] = FALSE]
                                   /\ \A l \in Listener : mailbox[l] # m
  <1>1. Lsn(t) \in Listener
    BY StepAtHand, StepArguments DEF TypeOK, GetMailbox, Lsn
  <1>2. CASE mailbox[Lsn(t)] = Null
    <2> DEFINE m == CHOOSE x \in FreshMbx : TRUE
    <2>1. FreshMbx # {} /\ mailbox' = [mailbox EXCEPT ![Lsn(t)] = m]
          /\ disabled' = [disabled EXCEPT ![m] = FALSE]
      BY <1>2 DEF GetMailbox
    <2>2. m \in FreshMbx
      BY <2>1
    <2>3. m \in Mbx /\ \A l \in Listener : mailbox[l] # m
      BY <2>2 DEF FreshMbx, Referenced
    <2> QED
      BY <1>1, <1>2, <2>1, <2>3 DEF GetMailbox
  <1> QED
    BY <1>1, <1>2 DEF GetMailbox

LEMMA NextKeepsMailInv == MailInv /\ [Next]_vars => MailInv'
  <1> SUFFICES ASSUME MailInv, [Next]_vars
               PROVE  MailboxesDiffer' /\ DisabledMailboxRemoved'
    BY NextKeepsTypes DEF MailInv
  <1>0. TypeOK /\ MailboxesDiffer /\ DisabledMailboxRemoved
    BY DEF MailInv
  \* Steps that touch no mailbox and take nothing off a queue.
  <1>1. ASSUME UNCHANGED <<mailbox, disabled>>,
               \A u \in Thread : Range(lq[u]) \subseteq Range(lq'[u])
        PROVE  MailboxesDiffer' /\ DisabledMailboxRemoved'
    BY <1>0, <1>1 DEF MailboxesDiffer, DisabledMailboxRemoved
  <1>2. ASSUME NEW t \in Thread, ApiStep(t)
        PROVE  MailboxesDiffer' /\ DisabledMailboxRemoved'
    <2>1. \A u \in Thread : Range(lq[u]) \subseteq Range(lq'[u])
      BY <1>0, <1>2, ApiStepEnqueues, EnqueueGrows DEF TypeOK
    <2>2. CASE EraseMailbox(t)
      <3>1. Lsn(t) \in Listener
        BY <1>0, <2>2, StepAtHand, StepArguments DEF TypeOK, EraseMailbox, Lsn
      <3>2. CASE mailbox[Lsn(t)] = Null
        BY <1>1, <2>1, <2>2, <3>2 DEF EraseMailbox
      <3>3. CASE mailbox[Lsn(t)] # Null
        <4>1. /\ mailbox' = mailbox
              /\ disabled' = [disabled EXCEPT ![mailbox[Lsn(t)]] = TRUE]
              /\ EnqueueLsn(t, <<Removal(Lsn(t))>>)
          BY <2>2, <3>3 DEF EraseMailbox, Disable, RemovalOfMailbox, Removal
        <4>2. <<Removal(Lsn(t))>> \in Seq(LsnItem) /\ Removal(Lsn(t)) \in Range(<<Removal(Lsn(t))>>)
          BY <3>1 DEF Removal, LsnItem, Range
        <4>3. Removal(Lsn(t)) \in Range(lq'[t])
          BY <1>0, <4>1, <4>2, EnqueueGrows DEF TypeOK
        <4>4. \A l \in Listener \ {Lsn(t)} : mailbox[l] # Null => mailbox[l] # mailbox[Lsn(t)]
          BY <1>0, <3>1, <3>3 DEF MailboxesDiffer
        <4>5. \A l \in Listener \ {Lsn(t)} : mailbox[l] # Null => disabled'[mailbox[l]] = disabled[mailbox[l]]
          BY <1>0, <4>1, <4>4 DEF TypeOK, MbxTyped
        <4> QED
          BY <1>0, <2>1, <4>1, <4>3, <4>5 DEF MailboxesDiffer, DisabledMailboxRemoved, Removal
      <3> QED
        BY <3>2, <3>3
    <2>3. CASE GetMailbox(t)
      <3>1. CASE UNCHANGED mbxVars
        BY <1>1, <2>1, <3>1 DEF mbxVars
      <3>2. CASE ~UNCHANGED mbxVars
        <4>1. PICK m \in Mbx :
                /\ mailbox' = [mailbox EXCEPT ![Lsn(t)] = m]
                /\ disabled' = [disabled EXCEPT ![m] = FALSE]
                /\ \A l \in Listener : mailbox[l] # m
          BY <1>0, <2>3, <3>2, NewMailbox
        <4>2. Lsn(t) \in Listener
          BY <1>0, <2>3, NewMailbox
        <4>3. /\ mailbox'[Lsn(t)] = m /\ ~disabled'[m]
              /\ \A l \in Listener \ {Lsn(t)} :
                   /\ mailbox'[l] = mailbox[l] /\ mailbox[l] # m
                   /\ mailbox[l] # Null => disabled'[mailbox[l]] = disabled[mailbox[l]]
          BY <1>0, <4>1, <4>2 DEF TypeOK, MbxTyped
        <4> QED
          BY <1>0, <2>1, <4>2, <4>3 DEF MailboxesDiffer, DisabledMailboxRemoved
      <3> QED
        BY <3>1, <3>2
    <2>4. CASE ~(EraseMailbox(t) \/ GetMailbox(t))
      <3>1. UNCHANGED <<mailbox, disabled>>
        BY <1>2, <2>4 DEF ApiStep, Subscribe, Unsubscribe, UnsubscribeAllChannels, EraseGroups,
           AddToGroup, AdmitMember, CloseGroup, FindMailbox, FindChannel, EnqueueMsg, UnlockBus,
           mbxVars
      <3> QED
        BY <1>1, <2>1, <3>1
    <2> QED
      BY <2>2, <2>3, <2>4
  <1>3. ASSUME NEW t \in Thread, AddListener(t) \/ RemoveListener(t) \/ RemoveMailbox(t)
        PROVE  MailboxesDiffer' /\ DisabledMailboxRemoved'
    <2>1. lq[t] \in Seq(LsnItem) /\ lq[t] # <<>> /\ lq'[t] = Tail(lq[t])
      BY <1>0, <1>3 DEF AddListener, RemoveListener, RemoveMailbox, NextChange, PopChange,
         TypeOK, QueuesTyped
    <2>2. \A u \in Thread \ {t} : lq'[u] = lq[u]
      BY <1>0, <1>3 DEF AddListener, RemoveListener, RemoveMailbox, PopChange, TypeOK, QueuesTyped
    <2>3. Range(lq[t]) = {Head(lq[t])} \cup Range(lq'[t]) /\ Head(lq[t]) \in LsnItem
      BY <2>1, RangeOfTail
    <2>4. CASE RemoveMailbox(t)
      <3> DEFINE k == Head(lq[t]).lsn
      <3>1. /\ mailbox' = [mailbox EXCEPT ![k] = Null] /\ disabled' = disabled
            /\ Head(lq[t]).kind = "mailbox"
        BY <2>4 DEF RemoveMailbox, NextChange
      <3>2. \A l \in Listener : l # k => Removal(l) # Head(lq[t])
        BY DEF Removal
      <3>3. k \in Listener
        BY <2>3 DEF LsnItem
      <3>4. /\ mailbox'[k] = Null
            /\ \A l \in Listener \ {k} : mailbox'[l] = mailbox[l]
        BY <1>0, <3>1, <3>3 DEF TypeOK, MbxTyped
      <3> HIDE DEF k
      <3>5. MailboxesDiffer'
        BY <1>0, <3>3, <3>4 DEF MailboxesDiffer
      <3>6. DisabledMailboxRemoved'
        <4> SUFFICES ASSUME NEW l \in Listener, mailbox'[l] # Null, disabled'[mailbox'[l]]
                     PROVE  \E u \in Thread : Removal(l) \in Range(lq'[u])
          BY DEF DisabledMailboxRemoved, Removal
        <4>1. l # k
          BY <3>4
        <4>2. PICK u \in Thread : Removal(l) \in Range(lq[u])
          BY <1>0, <3>1, <3>4, <4>1 DEF DisabledMailboxRemoved, Removal
        <4> QED
          BY <2>2, <2>3, <3>2, <4>1, <4>2
      <3> QED
        BY <3>5, <3>6
    <2>5. CASE AddListener(t) \/ RemoveListener(t)
      <3>1. UNCHANGED <<mailbox, disabled>> /\ Head(lq[t]).kind # "mailbox"
        BY <2>5 DEF AddListener, RemoveListener, NextChange, mbxVars
      <3>2. \A l \in Listener : Removal(l) # Head(lq[t])
        BY <3>1 DEF Removal
      <3>3. \A u \in Thread, l \in Listener : Removal(l) \in Range(lq[u]) => Removal(l) \in Range(lq'[u])
        BY <2>2, <2>3, <3>2
      <3> QED
        BY <1>0, <3>1, <3>3 DEF MailboxesDiffer, DisabledMailboxRemoved, Removal
    <2> QED
      BY <1>3, <2>4, <2>5
  <1>4. CASE \/ \E t \in Thread : \/ Call(t) \/ ChannelIsEmpty(t) \/ Broadcast(t) \/ CallListener(t)
                                 \/ ReturnFromCallback(t) \/ EndBroadcast(t) \/ StopRunning(t)
             \/ UNCHANGED vars
    <2>1. UNCHANGED <<mailbox, disabled, lq>>
      BY <1>4 DEF Call, ChannelIsEmpty, Broadcast, CallListener, ReturnFromCallback, EndBroadcast,
         StopRunning, vars, mbxVars, queueVars
    <2> QED
      BY <1>1, <2>1
  <1> QED
    BY <1>2, <1>3, <1>4 DEF Next, QueueStep, Finished

\* A mailbox that erase_mailbox_lk() disabled does not stay registered: however
\* many threads use its owner, a removal of it is in some queue.
THEOREM DisabledGo == Spec => []DisabledMailboxRemoved
  <1>1. Init => MailInv
    BY InitTyped DEF Init, MailInv, MailboxesDiffer, DisabledMailboxRemoved
  <1>2. MailInv => DisabledMailboxRemoved
    BY DEF MailInv
  <1> QED
    BY <1>1, <1>2, NextKeepsMailInv, PTL DEF Spec

-----------------------------------------------------------------------------
(* One thread: what it removes.                                            *)

LEMMA ConcatRange ==
    ASSUME NEW S, NEW s \in Seq(S), NEW u \in Seq(S), NEW x \in Range(s \o u)
    PROVE  x \in Range(s) \cup Range(u)
  <1>1. /\ DOMAIN s = 1..Len(s) /\ DOMAIN u = 1..Len(u) /\ Len(s) \in Nat /\ Len(u) \in Nat
        /\ DOMAIN (s \o u) = 1..(Len(s) + Len(u))
        /\ \A i \in 1..(Len(s) + Len(u)) : (s \o u)[i] = IF i <= Len(s) THEN s[i] ELSE u[i - Len(s)]
    OBVIOUS
  <1>2. PICK i \in 1..(Len(s) + Len(u)) : x = (s \o u)[i]
    BY <1>1 DEF Range
  <1>3. CASE i <= Len(s)
    <2>1. i \in 1..Len(s)
      BY <1>1, <1>3
    <2> QED
      BY <1>1, <1>2, <1>3, <2>1 DEF Range
  <1>4. CASE ~(i <= Len(s))
    <2>1. i - Len(s) \in 1..Len(u)
      BY <1>1, <1>4
    <2> QED
      BY <1>1, <1>2, <1>4, <2>1 DEF Range
  <1> QED
    BY <1>3, <1>4

\* A thread that has a removal queued is running the queue, and until it has
\* executed the last of them no callback of its makes the listener a new mailbox.
RemovalsDue ==
    \A t \in Thread :
      /\ lq[t] # <<>> => running[t]
      /\ \A l \in Listener : Removal(l) \in Range(lq[t]) =>
           IF mailbox[l] = Null THEN casting[t] = Null ELSE disabled[mailbox[l]]

RemovalInv == MailInv /\ CallInv /\ RemovalsDue

LEMMA ApiStepKeepsRemovals ==
    ASSUME \A t, u \in Thread : t = u, RemovalInv, NEW t \in Thread, ApiStep(t)
    PROVE  RemovalsDue'
  <1>0. TypeOK /\ MailboxesDiffer /\ CallbackInBroadcast /\ RemovalsDue
    BY DEF RemovalInv, MailInv, CallInv
  <1>1. lq[t] \in Seq(LsnItem) /\ casting' = casting /\ lq \in [Thread -> Seq(LsnItem)]
        /\ running \in [Thread -> BOOLEAN]
    BY <1>0 DEF TypeOK, QueuesTyped, ApiStep, Subscribe, Unsubscribe, UnsubscribeAllChannels,
       EraseMailbox, EraseGroups, AddToGroup, AdmitMember, CloseGroup, GetMailbox, FindMailbox,
       FindChannel, EnqueueMsg, UnlockBus, castVars
  <1>2. lq'[t] # <<>> => running'[t]
    <2>1. CASE UNCHANGED <<lq, emptied>> /\ (EnqueueMsg(t) \/ UNCHANGED running)
      BY <1>0, <1>1, <2>1 DEF RemovalsDue, EnqueueMsg
    <2>2. ASSUME NEW items \in Seq(LsnItem), EnqueueLsn(t, items)
          PROVE  lq'[t] # <<>> => running'[t]
      <3>1. lq'[t] = lq[t] \o items /\ running'[t] = (running[t] \/ items # <<>>)
        BY <1>1, <2>2 DEF EnqueueLsn
      <3>2. CASE items = <<>>
        <4>1. lq'[t] = lq[t]
          BY <1>1, <3>1, <3>2, ConcatEmptySeq
        <4> QED
          BY <1>0, <3>1, <4>1 DEF RemovalsDue
      <3> QED
        BY <3>1, <3>2
    <2> QED
      BY <1>0, <2>1, <2>2, ApiStepEnqueues
  <1>3. CASE EraseMailbox(t)
    <2>1. Lsn(t) \in Listener
      BY <1>0, <1>3, StepAtHand, StepArguments DEF TypeOK, EraseMailbox, Lsn
    <2>2. CASE mailbox[Lsn(t)] = Null
      <3>1. UNCHANGED <<mailbox, disabled, lq>>
        BY <1>3, <2>2 DEF EraseMailbox, queueVars
      <3> QED
        BY <1>0, <1>1, <1>2, <3>1 DEF RemovalsDue
    <2>3. CASE mailbox[Lsn(t)] # Null
      <3>1. /\ mailbox' = mailbox
            /\ disabled' = [disabled EXCEPT ![mailbox[Lsn(t)]] = TRUE]
            /\ lq'[t] = lq[t] \o <<Removal(Lsn(t))>>
        BY <1>1, <1>3, <2>3 DEF EraseMailbox, Disable, RemovalOfMailbox, Removal, EnqueueLsn
      <3>2. <<Removal(Lsn(t))>> \in Seq(LsnItem) /\ Range(<<Removal(Lsn(t))>>) = {Removal(Lsn(t))}
        BY <2>1 DEF Removal, LsnItem, Range
      <3>3. \A l \in Listener : Removal(l) \in Range(lq'[t]) =>
               Removal(l) \in Range(lq[t]) \/ l = Lsn(t)
        <4> DEFINE r == <<Removal(Lsn(t))>>
        <4>1. \A x \in Range(lq'[t]) : x \in Range(lq[t]) \cup Range(r)
          <5>1. r \in Seq(LsnItem) /\ lq'[t] = lq[t] \o r
            BY <3>1, <3>2
          <5> HIDE DEF r
          <5> QED
            BY <1>1, <5>1, ConcatRange
        <4>2. \A l \in Listener : Removal(l) = Removal(Lsn(t)) => l = Lsn(t)
          BY DEF Removal
        <4> QED
          BY <3>2, <4>1, <4>2
      <3>4. disabled'[mailbox[Lsn(t)]]
            /\ \A l \in Listener : mailbox[l] # Null /\ disabled[mailbox[l]] => disabled'[mailbox[l]]
        BY <1>0, <2>1, <2>3, <3>1 DEF TypeOK, MbxTyped
      <3> QED
        BY <1>0, <1>1, <1>2, <2>3, <3>1, <3>3, <3>4 DEF RemovalsDue
    <2> QED
      BY <2>2, <2>3
  <1>4. CASE ~EraseMailbox(t)
    <2>1. \A l \in Listener : Removal(l) \in Range(lq'[t]) => Removal(l) \in Range(lq[t])
      <3>1. CASE UNCHANGED lq
        BY <3>1
      <3>2. ASSUME NEW items \in Seq(LsnItem), EnqueueLsn(t, items),
                   \A x \in Range(items) : x.kind # "mailbox"
            PROVE  \A l \in Listener : Removal(l) \in Range(lq'[t]) => Removal(l) \in Range(lq[t])
        <4>1. lq'[t] = lq[t] \o items
          BY <1>1, <3>2 DEF EnqueueLsn
        <4>2. \A l \in Listener : Removal(l) \notin Range(items)
          BY <3>2 DEF Removal
        <4> QED
          BY <1>1, <4>1, <4>2, ConcatRange
      <3> QED
        BY <1>0, <1>4, <3>1, <3>2, ApiStepEnqueues
    <2>2. CASE UNCHANGED <<mailbox, disabled>>
      BY <1>0, <1>1, <1>2, <2>1, <2>2 DEF RemovalsDue
    <2>3. CASE ~UNCHANGED <<mailbox, disabled>>
      <3>1. GetMailbox(t)
        BY <1>4, <2>3 DEF ApiStep, Subscribe, Unsubscribe, UnsubscribeAllChannels, EraseGroups,
           AddToGroup, AdmitMember, CloseGroup, FindMailbox, FindChannel, EnqueueMsg, UnlockBus,
           mbxVars
      <3>2. PICK m \in Mbx :
              /\ mailbox' = [mailbox EXCEPT ![Lsn(t)] = m]
              /\ disabled' = [disabled EXCEPT ![m] = FALSE]
              /\ \A l \in Listener : mailbox[l] # m
        BY <1>0, <2>3, <3>1, NewMailbox DEF mbxVars
      <3>3. Lsn(t) \in Listener /\ mailbox[Lsn(t)] = Null /\ UNCHANGED queueVars
        BY <1>0, <2>3, <3>1, NewMailbox DEF mbxVars
      <3>4. Removal(Lsn(t)) \notin Range(lq[t])
        <4>1. CASE Outside(t)
          <5>1. lq[t] = <<>>
            BY <1>0, <4>1 DEF RemovalsDue, Outside
          <5> QED
            BY <5>1 DEF Range
        <4>2. CASE InCallback(t)
          BY <1>0, <3>3, <4>2 DEF RemovalsDue, CallbackInBroadcast, InCallback
        <4> QED
          BY <3>1, <4>1, <4>2 DEF GetMailbox, At
      <3>5. \A l \in Listener \ {Lsn(t)} :
              /\ mailbox'[l] = mailbox[l]
              /\ mailbox[l] # Null => disabled'[mailbox[l]] = disabled[mailbox[l]]
        BY <1>0, <3>2, <3>3 DEF TypeOK, MbxTyped
      <3> QED
        BY <1>0, <1>1, <1>2, <2>1, <3>4, <3>5 DEF RemovalsDue
    <2> QED
      BY <2>2, <2>3
  <1> QED
    BY <1>3, <1>4

LEMMA QueueStepKeepsRemovals ==
    ASSUME \A t, u \in Thread : t = u, RemovalInv, NEW t \in Thread, QueueStep(t)
    PROVE  RemovalsDue'
  <1>0. TypeOK /\ MailboxesDiffer /\ CallbackInBroadcast /\ RemovalsDue
    BY DEF RemovalInv, MailInv, CallInv
  <1>1. CASE AddListener(t) \/ RemoveListener(t) \/ RemoveMailbox(t)
    <2>1. lq[t] \in Seq(LsnItem) /\ lq[t] # <<>> /\ lq'[t] = Tail(lq[t])
          /\ casting[t] = Null /\ running[t] /\ UNCHANGED <<casting, running, disabled>>
      BY <1>0, <1>1 DEF AddListener, RemoveListener, RemoveMailbox, NextChange, PopChange,
         Draining, TypeOK, QueuesTyped, castVars, mbxVars
    <2>2. Range(lq[t]) = {Head(lq[t])} \cup Range(lq'[t]) /\ Head(lq[t]) \in LsnItem
      BY <2>1, RangeOfTail
    <2>3. \A l \in Listener : mailbox'[l] \in {Null, mailbox[l]}
      BY <1>0, <1>1 DEF AddListener, RemoveListener, RemoveMailbox, TypeOK, MbxTyped, mbxVars
    <2> QED
      BY <1>0, <2>1, <2>2, <2>3 DEF RemovalsDue
  <1>2. CASE Broadcast(t) \/ StopRunning(t)
    <2>1. lq[t] = <<>> /\ lq' = lq
      BY <1>2 DEF Broadcast, StopRunning
    <2>2. lq'[t] = <<>> /\ Range(lq'[t]) = {}
      BY <2>1 DEF Range
    <2> QED
      BY <2>2 DEF RemovalsDue
  <1>3. CASE ChannelIsEmpty(t) \/ CallListener(t) \/ ReturnFromCallback(t) \/ EndBroadcast(t)
    <2>1. /\ UNCHANGED <<lq, running, mailbox, disabled>>
          /\ casting'[t] \in {Null, casting[t]}
      BY <1>0, <1>3 DEF ChannelIsEmpty, CallListener, ReturnFromCallback, EndBroadcast, mbxVars,
         queueVars, castVars, TypeOK, CastTyped
    <2> QED
      BY <1>0, <2>1 DEF RemovalsDue
  <1> QED
    BY <1>1, <1>2, <1>3 DEF QueueStep

LEMMA NextKeepsCallInv == CallInv /\ [Next]_vars => CallInv'
  <1> SUFFICES ASSUME CallInv, [Next]_vars
               PROVE  CallbackInBroadcast' /\ CalledAreListed'
    BY NextKeepsTypes DEF CallInv
  <1>1. CASE (\E t \in Thread : Call(t)) \/ UNCHANGED vars
    <2>1. UNCHANGED <<casting, todo, cb, listeners>>
      BY <1>1 DEF Call, vars, castVars, dirVars
    <2> QED
      BY <2>1, ListsGrow
  <1> QED
    BY <1>1, ApiStepKeepsCallInv, QueueStepKeepsCallInv DEF Next, Finished

\* In a program whose bus is used by one thread, erase_mailbox_lk() never costs a
\* listener a mailbox it got afterwards, although the removal is queued and names
\* the listener, not the mailbox: however often a callback withdraws the mailbox
\* and sends again, no removal is left when a new one is made.
THEOREM OneThreadRemovesDisabled ==
    ASSUME \A t, u \in Thread : t = u
    PROVE  Spec => OnlyDisabledRemoved
  <1>1. Init => RemovalInv
    <2> SUFFICES ASSUME Init PROVE RemovalInv
      OBVIOUS
    <2>1. MailInv
      BY InitTyped DEF Init, MailInv, MailboxesDiffer, DisabledMailboxRemoved
    <2>2. CallInv
      BY InitTyped, IdentitiesDiffer DEF Init, CallInv, CallbackInBroadcast, CalledAreListed
    <2>3. \A t \in Thread : lq[t] = <<>> /\ mailbox = [l \in Listener |-> Null] /\ casting[t] = Null
      BY DEF Init
    <2> QED
      BY <2>1, <2>2, <2>3 DEF RemovalInv, RemovalsDue
  <1>2. RemovalInv /\ [Next]_vars => RemovalInv'
    <2> SUFFICES ASSUME RemovalInv, [Next]_vars
                 PROVE  RemovalsDue'
      BY NextKeepsMailInv, NextKeepsCallInv DEF RemovalInv
    <2>1. CASE (\E t \in Thread : Call(t)) \/ UNCHANGED vars
      <3>1. UNCHANGED <<lq, running, mailbox, disabled, casting>>
        BY <2>1 DEF Call, vars, mbxVars, queueVars, castVars
      <3> QED
        BY <3>1 DEF RemovalInv, RemovalsDue
    <2> QED
      BY <2>1, ApiStepKeepsRemovals, QueueStepKeepsRemovals DEF Next, Finished
  <1>3. RemovalInv /\ [Next]_vars =>
          [\A l \in Listener : mailbox[l] # Null /\ mailbox'[l] = Null => disabled[mailbox[l]]]_vars
    <2> SUFFICES ASSUME RemovalInv, [Next]_vars, NEW l \in Listener,
                        mailbox[l] # Null, mailbox'[l] = Null
                 PROVE  disabled[mailbox[l]]
      OBVIOUS
    <2>0. TypeOK /\ RemovalsDue
      BY DEF RemovalInv, MailInv
    <2>1. PICK t \in Thread : RemoveMailbox(t)
      <3>1. ASSUME NEW t \in Thread, GetMailbox(t)
            PROVE  FALSE
        BY <2>0, <3>1, NewMailbox, IdentitiesDiffer DEF mbxVars, TypeOK, MbxTyped
      <3> QED
        BY <3>1 DEF Next, Call, ApiStep, QueueStep, Subscribe, Unsubscribe, UnsubscribeAllChannels,
           EraseMailbox, EraseGroups, AddToGroup, AdmitMember, CloseGroup, FindMailbox, FindChannel,
           EnqueueMsg, UnlockBus, AddListener, RemoveListener, ChannelIsEmpty, Broadcast,
           CallListener, ReturnFromCallback, EndBroadcast, StopRunning, Finished, vars, mbxVars
    <2>2. /\ lq[t] \in Seq(LsnItem) /\ lq[t] # <<>> /\ Head(lq[t]).kind = "mailbox"
          /\ mailbox' = [mailbox EXCEPT ![Head(lq[t]).lsn] = Null]
      BY <2>0, <2>1 DEF RemoveMailbox, NextChange, TypeOK, QueuesTyped
    <2>3. Head(lq[t]) \in LsnItem /\ Head(lq[t]) \in Range(lq[t])
      BY <2>2, RangeOfTail
    <2>4. Head(lq[t]).lsn = l
      BY <2>0, <2>2 DEF TypeOK, MbxTyped
    <2>5. Head(lq[t]) = Removal(l)
      BY <2>2, <2>3, <2>4 DEF LsnItem, Removal
    <2> QED
      BY <2>0, <2>3, <2>5 DEF RemovalsDue
  <1> QED
    BY <1>1, <1>2, <1>3, PTL DEF Spec, OnlyDisabledRemoved

-----------------------------------------------------------------------------
(* Who waits for whom.                                                     *)

\* The steps that do not wait for a channel with the bus mutex held.
Calm == {step \in Instr : step.op \notin {"add_to_group", "add_listener"}}

LEMMA CalmSteps ==
    /\ Unlock \in Calm
    /\ \A l \in Listener \cup {Null}, o \in Target : Step("enqueue_msg", l, o) \in Calm
    /\ \A x \in Instr : x \in Calm <=> x.op \notin {"add_to_group", "add_listener"}
  BY StepsTyped DEF Calm, Unlock, Step

\* Only the program of add_to_group() has such a step.
LEMMA CalmPrograms ==
    ASSUME NEW api \in APIs \ {"add_to_group"}, NEW code \in Programs[api]
    PROVE  code \in Seq(Calm)
  <1>1. /\ \A s1, s2, s3, s4 \in Calm :
             /\ <<s1>> \in Seq(Calm) /\ <<s1, s2>> \in Seq(Calm)
             /\ <<s1, s2, s3>> \in Seq(Calm) /\ <<s1, s2, s3, s4>> \in Seq(Calm)
    OBVIOUS
  <1>2. \A op, l, x : Step(op, l, x) \in Instr /\ op \notin {"add_to_group", "add_listener"}
                      => Step(op, l, x) \in Calm
    BY DEF Calm, Step
  <1>3. \A l \in Listener :
          /\ \A c \in Name : /\ Step("subscribe_lk", l, c) \in Calm
                             /\ Step("unsubscribe_lk", l, c) \in Calm
          /\ \A b \in {"and_groups", "public"} : Step("unsubscribe_all_channels_lk", l, b) \in Calm
          /\ Step("erase_mailbox_lk", l, Null) \in Calm /\ Step("erase_groups_lk", l, Null) \in Calm
          /\ Step("get_mailbox", l, Null) \in Calm /\ Step("unlock", l, Null) \in Calm
    BY <1>2, StepsTyped
  <1>4. \A l \in Listener \cup {Null} :
          /\ \A c \in Name : /\ Step("find_channel", l, c) \in Calm
                             /\ Step("close_group", l, c) \in Calm
          /\ \A m \in Mbx : Step("find_mailbox", l, m) \in Calm
    BY <1>2, StepsTyped
  <1>5. \A l \in Listener \cup {Null}, x \in Calm : SendCode(l, x) \in Seq(Calm)
    BY <1>1, <1>3, CalmSteps DEF SendCode
  <1>6. CASE api = "subscribe"
    <2>1. PICK l \in Listener, c \in Name :
            code = <<Step("subscribe_lk", l, c), Unlock>>
      BY <1>6 DEF Programs
    <2> QED
      BY <1>1, <1>3, CalmSteps, <2>1
  <1>7. CASE api = "unsubscribe"
    <2>1. PICK l \in Listener, c \in Name :
            code = <<Step("unsubscribe_lk", l, c), Unlock>>
      BY <1>7 DEF Programs
    <2> QED
      BY <1>1, <1>3, CalmSteps, <2>1
  <1>8. CASE api = "unsubscribe_all"
    <2>1. PICK l \in Listener :
            code = <<Step("erase_mailbox_lk", l, Null), Step("erase_groups_lk", l, Null),
                     Step("unsubscribe_all_channels_lk", l, "and_groups"),
                     Step("unlock", l, Null)>>
      BY <1>8 DEF Programs
    <2> QED
      BY <1>1, <1>3, CalmSteps, <2>1
  <1>9. CASE api = "unsubcribe_private"
    <2>1. PICK l \in Listener :
            code = <<Step("erase_mailbox_lk", l, Null), Unlock>>
      BY <1>9 DEF Programs
    <2> QED
      BY <1>1, <1>3, CalmSteps, <2>1
  <1>10. CASE api = "replace"
    <2>1. PICK l \in Listener, c \in Name :
            code = <<Step("unsubscribe_all_channels_lk", l, "public"),
                     Step("subscribe_lk", l, c), Unlock>>
      BY <1>10 DEF Programs
    <2> QED
      BY <1>1, <1>3, CalmSteps, <2>1
  <1>11. CASE api = "post"
    <2>1. PICK c \in Name :
            code = SendCode(Null, Step("find_channel", Null, c))
      BY <1>11 DEF Programs
    <2> QED
      BY <1>4, <1>5, <2>1
  <1>12. CASE api = "send"
    <2>1. PICK l \in Listener, c \in Name :
            code = SendCode(l, Step("find_channel", l, c))
      BY <1>12 DEF Programs
    <2> QED
      BY <1>4, <1>5, <2>1
  <1>13. CASE api = "reply"
    <2>1. PICK l \in Listener, m \in Mbx :
            code = SendCode(l, Step("find_mailbox", l, m))
      BY <1>13 DEF Programs
    <2> QED
      BY <1>4, <1>5, <2>1
  <1>14. CASE api = "close_group"
    <2>1. PICK l \in Listener \cup {Null}, c \in Name :
            code = <<Step("close_group", l, c)>>
      BY <1>14 DEF Programs
    <2> QED
      BY <1>1, <1>4, <2>1
  <1> QED
    BY <1>6, <1>7, <1>8, <1>9, <1>10, <1>11, <1>12, <1>13, <1>14 DEF APIs

\* During a broadcast the thread only executes calls made in callbacks.
CastInv ==
    /\ TypeOK /\ CallbackInBroadcast
    /\ \A t \in Thread : casting[t] # Null =>
         /\ running[t]
         /\ script[t] \in Seq(Calm)
         /\ cb[t] = Null \/ CallbackCalls = {} => script[t] = <<>>

LEMMA NextKeepsCastInv ==
    ASSUME "add_to_group" \notin CallbackCalls, CastInv, [Next]_vars
    PROVE  CastInv'
  <1>0. TypeOK /\ TypeOK' /\ CallbackInBroadcast
    BY NextKeepsTypes DEF CastInv
  <1>1. ASSUME NEW t \in Thread, Call(t)
        PROVE  CastInv'
    <2>1. UNCHANGED <<casting, running, cb>> /\ script[t] = <<>>
          /\ \A u \in Thread \ {t} : script'[u] = script[u]
      BY <1>0, <1>1 DEF Call, castVars, queueVars, TypeOK, CallTyped
    <2>2. casting[t] # Null => InCallback(t) /\ ~Outside(t)
      BY <1>1 DEF Call, Outside, CastInv
    <2>3. casting[t] # Null => script'[t] \in Seq(Calm) /\ CallbackCalls # {}
      <3> SUFFICES ASSUME casting[t] # Null
                   PROVE  script'[t] \in Seq(Calm) /\ CallbackCalls # {}
        OBVIOUS
      <3>1. PICK api \in CallbackCalls : \E code \in Programs[api] : script' = [script EXCEPT ![t] = code]
        BY <1>1, <2>2 DEF Call
      <3>2. api \in APIs \ {"add_to_group"}
        BY <3>1, CallsKnown
      <3> QED
        BY <1>0, <3>1, <3>2, CalmPrograms DEF TypeOK, CallTyped
    <2>4. CallbackInBroadcast'
      BY <1>0, <2>1 DEF CallbackInBroadcast
    <2> QED
      BY <1>0, <2>1, <2>2, <2>3, <2>4 DEF CastInv, InCallback
  <1>2. ASSUME NEW t \in Thread, ApiStep(t)
        PROVE  CastInv'
    <2>1. UNCHANGED <<casting, cb>> /\ script[t] # <<>> /\ (Outside(t) \/ InCallback(t))
          /\ \A u \in Thread \ {t} : script'[u] = script[u] /\ running'[u] = running[u]
      BY <1>0, <1>2 DEF ApiStep, Subscribe, Unsubscribe, UnsubscribeAllChannels, EraseMailbox,
         EraseGroups, AddToGroup, AdmitMember, CloseGroup, GetMailbox, FindMailbox, FindChannel,
         EnqueueMsg, UnlockBus, Enlist, EnqueueLsn, Done, Continue, At, castVars, queueVars,
         TypeOK, CallTyped, QueuesTyped
    <2>2. CallbackInBroadcast'
      BY <1>0, <2>1 DEF CallbackInBroadcast
    <2>3. CASE casting[t] = Null
      BY <1>0, <2>1, <2>2, <2>3 DEF CastInv
    <2>4. CASE casting[t] # Null
      <3>1. running[t] /\ script[t] \in Seq(Calm) /\ InCallback(t) /\ CallbackCalls # {}
        BY <2>1, <2>4 DEF CastInv, Outside
      <3>2. running'[t]
        BY <1>0, <1>2, <3>1 DEF ApiStep, Subscribe, Unsubscribe, UnsubscribeAllChannels,
           EraseMailbox, EraseGroups, AddToGroup, AdmitMember, CloseGroup, GetMailbox, FindMailbox,
           FindChannel, EnqueueMsg, UnlockBus, Enlist, EnqueueLsn, queueVars, TypeOK, QueuesTyped
      <3>3. Head(script[t]) \in Calm /\ Tail(script[t]) \in Seq(Calm) /\ Head(script[t]) \in Instr
        BY <2>1, <3>1 DEF Calm
      <3>4. ~AddToGroup(t) /\ ~AdmitMember(t)
        BY <3>3 DEF Calm, AddToGroup, AdmitMember, At
      <3>5. script'[t] \in Seq(Calm)
        <4>1. CASE FindMailbox(t)
          <5>1. Step("enqueue_msg", Lsn(t), Arg(t)) \in Calm
            BY <3>3, <4>1, StepArguments, CalmSteps DEF FindMailbox, At, Lsn, Arg, Target
          <5> QED
            BY <1>0, <4>1, <5>1 DEF FindMailbox, Continue, TypeOK, CallTyped
        <4>2. CASE FindChannel(t)
          <5> DEFINE o == channels[Arg(t)]
          <5>1. o # Null => Step("enqueue_msg", Lsn(t), o) \in Calm
            BY <1>0, <3>3, <4>2, StepArguments, CalmSteps
               DEF FindChannel, At, Lsn, Arg, Target, TypeOK, DirTyped
          <5>2. CASE o # Null /\ owner[o] \in {Null, Lsn(t)}
            <6>1. script'[t] = <<Unlock>> \o <<Step("enqueue_msg", Lsn(t), o)>>
              BY <1>0, <4>2, <5>2 DEF FindChannel, Continue, TypeOK, CallTyped
            <6>2. \A x, y \in Calm : <<x>> \o <<y>> \in Seq(Calm)
              OBVIOUS
            <6> QED
              BY <5>1, <5>2, <6>1, <6>2, CalmSteps
          <5>3. CASE ~(o # Null /\ owner[o] \in {Null, Lsn(t)})
            <6>1. script'[t] = <<Unlock>> \o <<>>
              BY <1>0, <4>2, <5>3 DEF FindChannel, Continue, TypeOK, CallTyped
            <6>2. \A x \in Calm : <<x>> \o <<>> \in Seq(Calm)
              OBVIOUS
            <6> QED
              BY <6>1, <6>2, CalmSteps
          <5> QED
            BY <5>2, <5>3
        <4>3. CASE ~FindMailbox(t) /\ ~FindChannel(t)
          <5>1. Done(t)
            BY <1>2, <3>4, <4>3 DEF ApiStep, Subscribe, Unsubscribe, UnsubscribeAllChannels,
               EraseMailbox, EraseGroups, CloseGroup, GetMailbox, EnqueueMsg, UnlockBus, Enlist
          <5> QED
            BY <1>0, <3>3, <5>1 DEF Done, TypeOK, CallTyped
        <4> QED
          BY <4>1, <4>2, <4>3
      <3> QED
        BY <1>0, <2>1, <2>2, <3>1, <3>2, <3>5 DEF CastInv, InCallback
    <2> QED
      BY <2>3, <2>4
  <1>3. ASSUME NEW t \in Thread, QueueStep(t)
        PROVE  CastInv'
    <2>1. UNCHANGED script /\ \A u \in Thread \ {t} : /\ casting'[u] = casting[u] /\ cb'[u] = cb[u]
                                                     /\ running'[u] = running[u]
      BY <1>0, <1>3 DEF QueueStep, AddListener, RemoveListener, ChannelIsEmpty, RemoveMailbox,
         Broadcast, CallListener, ReturnFromCallback, EndBroadcast, StopRunning, castVars,
         queueVars, TypeOK, QueuesTyped, CastTyped
    <2>2. CASE Broadcast(t)
      <3>1. script'[t] = <<>> /\ running'[t] /\ cb'[t] = cb[t] /\ casting[t] = Null
        BY <2>2 DEF Broadcast, Draining
      <3>2. cb'[t] = Null
        BY <1>0, <3>1 DEF CallbackInBroadcast
      <3>3. <<>> \in Seq(Calm)
        OBVIOUS
      <3> QED
        BY <1>0, <2>1, <3>1, <3>2, <3>3 DEF CastInv, CallbackInBroadcast
    <2>3. CASE ~Broadcast(t)
      <3>1. /\ casting'[t] # Null => casting'[t] = casting[t] /\ running'[t] = running[t]
            /\ cb'[t] = cb[t] \/ (script[t] = <<>> /\ casting[t] # Null)
            /\ cb'[t] # Null => casting'[t] # Null
        BY <1>0, <1>3, <2>3 DEF QueueStep, AddListener, RemoveListener, ChannelIsEmpty,
           RemoveMailbox, CallListener, ReturnFromCallback, EndBroadcast, StopRunning, castVars,
           queueVars, Draining, InCallback, CastInv, CallbackInBroadcast, TypeOK, QueuesTyped,
           CastTyped
      <3> QED
        BY <1>0, <2>1, <3>1 DEF CastInv, CallbackInBroadcast
    <2> QED
      BY <2>2, <2>3
  <1>4. CASE UNCHANGED vars
    BY <1>0, <1>4 DEF vars, castVars, queueVars, CastInv, CallbackInBroadcast
  <1> QED
    BY <1>1, <1>2, <1>3, <1>4 DEF Next, Finished

\* No thread waits for itself, and no two for each other, when callbacks do not
\* change groups and either one thread uses the bus or callbacks make no calls.
\* (With two threads and callbacks that subscribe, they do.)
THEOREM NobodyWaitsInACycle ==
    ASSUME "add_to_group" \notin CallbackCalls,
           CallbackCalls = {} \/ \A t, u \in Thread : t = u
    PROVE  Spec => []NoWaitCycle
  <1>1. Init => CastInv
    BY InitTyped DEF Init, CastInv, CallbackInBroadcast
  <1>2. CastInv => NoWaitCycle
    <2> SUFFICES ASSUME CastInv, NEW t \in Thread, NEW u \in Thread, bus = t,
                        NEW o \in Chan, WantsChannel(t, o), casting[u] = o,
                        t = u \/ (script[u] # <<>> /\ WantsBus(u))
                 PROVE  FALSE
      BY DEF NoWaitCycle
    <2>1. casting[u] # Null /\ running[u] /\ script[u] \in Seq(Calm)
          /\ (CallbackCalls = {} => script[u] = <<>>)
      BY IdentitiesDiffer DEF CastInv
    <2>2. t = u
      BY <2>1
    <2>3. ~Draining(t)
      BY <2>1, <2>2 DEF Draining
    <2>4. script[t] # <<>> /\ Head(script[t]).op = "add_listener"
      BY <2>3 DEF WantsChannel, At
    <2> QED
      BY <2>1, <2>2, <2>4 DEF Calm
  <1>3. CastInv /\ [Next]_vars => CastInv'
    BY NextKeepsCastInv
  <1> QED
    BY <1>1, <1>2, <1>3, PTL DEF Spec

-----------------------------------------------------------------------------
(* Calls made outside callbacks: what they promise.                        *)

\* Callbacks make no calls, and nobody uses groups.
PlainUse == CallbackCalls = {} /\ OutsideCalls \cap {"add_to_group", "close_group"} = {}

Plain == {step \in Instr : step.op \notin {"add_to_group", "add_listener", "close_group"}}

\* The steps after which a thread has the mutex.
Locking == {"subscribe_lk", "unsubscribe_lk", "unsubscribe_all_channels_lk", "erase_mailbox_lk",
            "erase_groups_lk", "get_mailbox", "find_channel"}

\* unlock() follows a step that has taken the mutex; the one that ends
\* unsubscribe_all() follows the step that removes the listener.
Follows(step, next) ==
    next.op = "unlock" =>
      /\ step.op \in Locking
      /\ next.lsn # Null => step = Step("unsubscribe_all_channels_lk", next.lsn, "and_groups")

InOrder(s) ==
    /\ \A i \in DOMAIN s : s[i] \in Plain
    /\ \A i \in DOMAIN s : i > 1 => Follows(s[i - 1], s[i])

\* A queued change of l on the channel registered as c.
Queued(kind, l, c) ==
    /\ Mapped(c)
    /\ \E t \in Thread : [kind |-> kind, lsn |-> l, chan |-> channels[c]] \in Range(lq[t])

\* The name of the object is its own or free.
NameKept(o) == id[o] \in Name /\ channels[id[o]] \in {Null, o}

ScriptsInOrder ==
    \A t \in Thread :
      /\ InOrder(script[t])
      /\ script[t] # <<>> /\ Head(script[t]).op = "unlock" =>
           /\ bus = t
           /\ Lsn(t) # Null =>
                /\ \A c \in Name : Has(c, Lsn(t)) => Queued("remove", Lsn(t), c)
                /\ \A i \in Range(lq[t]) : i.kind # "add"

\* Changes are executed under the mutex, taken by the call that enqueued them.
QueuesLocked ==
    \A t \in Thread : lq[t] # <<>> \/ emptied[t] # Null => running[t] /\ bus = t

DirectoryPlain ==
    /\ NamesRight
    /\ \A o \in Chan : owner[o] = Null
    /\ \A o \in Chan : listeners[o] # {} => \E c \in Name : channels[c] = o

\* A queue holds one addition or removals only.
QueuesFit ==
    \A t \in Thread :
      /\ \A i \in Range(lq[t]) :
           /\ i.kind = "remove" => NameKept(i.chan)
           /\ i.kind = "add" => /\ Tail(lq[t]) = <<>> /\ emptied[t] = Null
                                /\ id[i.chan] \in Name /\ channels[id[i.chan]] = i.chan
                                /\ i.lsn \notin gone
      /\ emptied[t] # Null => NameKept(emptied[t]) /\ listeners[emptied[t]] = {}

\* What callers were told is what the lists will say.
IntentQueued ==
    \A l \in Listener, c \in Name :
      <<l, c>> \in intent <=> Queued("add", l, c) \/ (Has(c, l) /\ ~Queued("remove", l, c))

GoneUnlisted == \A l \in gone, o \in Chan : l \notin listeners[o]

PromiseInv ==
    /\ ScriptsInOrder /\ QueuesLocked /\ DirectoryPlain /\ QueuesFit
    /\ IntentQueued /\ GoneUnlisted

OutsideInv == CastInv /\ PromiseInv

\* SetToSeq lists every element.
LEMMA SetToSeqCovers ==
    ASSUME NEW S, IsFiniteSet(S)
    PROVE  Range(SetToSeq(S)) = S
  <1> DEFINE n == Cardinality(S)
  <1>1. n \in Nat /\ ExistsBijection(1..n, S)
    BY FS_CardinalityType
  <1>2. \E f \in [1..n -> S] : IsInjective(f)
    BY <1>1 DEF ExistsBijection, Bijection, Injection, IsInjective
  <1>3. SetToSeq(S) \in [1..n -> S] /\ IsInjective(SetToSeq(S))
    BY <1>2 DEF SetToSeq
  <1>4. SetToSeq(S) \in Injection(1..n, S)
    BY <1>3 DEF Injection, IsInjective
  <1>5. Cardinality(1..n) = n
    BY <1>1, FS_Interval
  <1>6. SetToSeq(S) \in Surjection(1..n, S)
    BY <1>4, <1>5, FS_Injection
  <1> QED
    BY <1>3, <1>6 DEF Surjection, Range

\* unsubscribe_all_channels_lk() enqueues one removal for each of the channels.
LEMMA RemovalsCover ==
    ASSUME DirTyped, NEW l \in Listener, NEW which
    PROVE  /\ \A c \in ChannelsOf(l, which) :
                [kind |-> "remove", lsn |-> l, chan |-> channels[c]] \in Range(Removals(l, which))
           /\ \A i \in Range(Removals(l, which)) :
                \E c \in ChannelsOf(l, which) : i = [kind |-> "remove", lsn |-> l, chan |-> channels[c]]
  <1> DEFINE from == ChannelsOf(l, which)
             order == SetToSeq(from)
  <1>1. IsFiniteSet(from)
    BY NamesFinite, FS_Subset DEF ChannelsOf
  <1>2. Range(order) = from
    BY <1>1, SetToSeqCovers
  <1>3. Removals(l, which) = [i \in DOMAIN order |-> [kind |-> "remove", lsn |-> l, chan |-> channels[order[i]]]]
    BY DEF Removals
  <1> HIDE DEF order, from
  <1>4. \A c \in from : \E i \in DOMAIN order : order[i] = c
    BY <1>2 DEF Range
  <1>5. \A i \in DOMAIN order : order[i] \in from
    BY <1>2 DEF Range
  <1> QED
    BY <1>3, <1>4, <1>5 DEF Range, from


\* Concatenations of a few elements.
LEMMA ShortConcats ==
    ASSUME NEW S, NEW a \in S, NEW b \in S, NEW c \in S
    PROVE  /\ <<a>> \o <<b>> = <<a, b>>
           /\ <<a, b>> \o <<c>> = <<a, b, c>>
           /\ <<a>> \o <<>> = <<a>>
  <1>1. <<a>> \o <<b>> = <<a, b>>
    <2> DEFINE s == <<a>> \o <<b>>
               r == <<a, b>>
    <2>1. s \in Seq(S) /\ r \in Seq(S) /\ Len(s) = 2 /\ Len(r) = 2
      OBVIOUS
    <2>2. s[1] = r[1] /\ s[2] = r[2]
      OBVIOUS
    <2> HIDE DEF s, r
    <2>3. \A i \in 1..Len(s) : s[i] = r[i]
      BY <2>1, <2>2
    <2>4. s = r
      BY <2>1, <2>3, SeqEqual
    <2> QED
      BY <2>4 DEF s, r
  <1>2. <<a, b>> \o <<c>> = <<a, b, c>>
    <2> DEFINE s == <<a, b>> \o <<c>>
               r == <<a, b, c>>
    <2>1. s \in Seq(S) /\ r \in Seq(S) /\ Len(s) = 3 /\ Len(r) = 3
      OBVIOUS
    <2>2. s[1] = r[1] /\ s[2] = r[2] /\ s[3] = r[3]
      OBVIOUS
    <2> HIDE DEF s, r
    <2>3. \A i \in 1..Len(s) : s[i] = r[i]
      BY <2>1, <2>2
    <2>4. s = r
      BY <2>1, <2>3, SeqEqual
    <2> QED
      BY <2>4 DEF s, r
  <1>3. <<a>> \o <<>> = <<a>>
    OBVIOUS
  <1> QED
    BY <1>1, <1>2, <1>3

\* Which steps have nothing to do with groups.
LEMMA PlainSteps ==
    /\ Unlock \in Plain
    /\ \A l \in Listener \cup {Null} :
         /\ \A o \in Target : Step("enqueue_msg", l, o) \in Plain
         /\ \A c \in Name : Step("find_channel", l, c) \in Plain
         /\ \A m \in Mbx : Step("find_mailbox", l, m) \in Plain
    /\ \A l \in Listener :
         /\ \A c \in Name : /\ Step("subscribe_lk", l, c) \in Plain
                            /\ Step("unsubscribe_lk", l, c) \in Plain
         /\ \A b \in {"and_groups", "public"} : Step("unsubscribe_all_channels_lk", l, b) \in Plain
         /\ Step("erase_mailbox_lk", l, Null) \in Plain /\ Step("erase_groups_lk", l, Null) \in Plain
         /\ Step("get_mailbox", l, Null) \in Plain /\ Step("unlock", l, Null) \in Plain
  <1>1. \A op, l, x : /\ Step(op, l, x) \in Instr
                      /\ op \notin {"add_to_group", "add_listener", "close_group"}
                      => Step(op, l, x) \in Plain
    BY DEF Plain, Step
  <1>2. Unlock \in Plain
    BY StepsTyped DEF Unlock, Plain, Step
  <1> QED
    BY <1>1, <1>2, StepsTyped

\* Short sequences of such steps.
LEMMA ShortScripts ==
    /\ InOrder(<<>>)
    /\ \A a \in Plain : InOrder(<<a>>)
    /\ \A a, b \in Plain : Follows(a, b) => InOrder(<<a, b>>)
    /\ \A a, b, c \in Plain : Follows(a, b) /\ Follows(b, c) => InOrder(<<a, b, c>>)
    /\ \A a, b, c, d \in Plain :
         Follows(a, b) /\ Follows(b, c) /\ Follows(c, d) => InOrder(<<a, b, c, d>>)
  <1>1. InOrder(<<>>) /\ \A a \in Plain : InOrder(<<a>>)
    BY DEF InOrder
  <1>2. ASSUME NEW a \in Plain, NEW b \in Plain, Follows(a, b)
        PROVE  InOrder(<<a, b>>)
    <2> DEFINE s == <<a, b>>
    <2>1. DOMAIN s = 1..2 /\ s[1] = a /\ s[2] = b
      OBVIOUS
    <2> HIDE DEF s
    <2>2. \A i \in DOMAIN s : i = 1 \/ i = 2
      BY <2>1
    <2>3. \A i \in DOMAIN s : i > 1 => i = 2 /\ s[i - 1] = a /\ s[i] = b
      BY <2>1, <2>2
    <2>4. InOrder(s)
      BY <1>2, <2>1, <2>2, <2>3 DEF InOrder
    <2> QED
      BY <2>4 DEF s
  <1>3. ASSUME NEW a \in Plain, NEW b \in Plain, NEW c \in Plain, Follows(a, b), Follows(b, c)
        PROVE  InOrder(<<a, b, c>>)
    <2> DEFINE s == <<a, b, c>>
    <2>1. DOMAIN s = 1..3 /\ s[1] = a /\ s[2] = b /\ s[3] = c
      OBVIOUS
    <2> HIDE DEF s
    <2>2. \A i \in DOMAIN s : i = 1 \/ i = 2 \/ i = 3
      BY <2>1
    <2>3. \A i \in DOMAIN s : i > 1 => \/ s[i - 1] = a /\ s[i] = b
                                       \/ s[i - 1] = b /\ s[i] = c
      BY <2>1, <2>2
    <2>4. InOrder(s)
      BY <1>3, <2>1, <2>2, <2>3 DEF InOrder
    <2> QED
      BY <2>4 DEF s
  <1>4. ASSUME NEW a \in Plain, NEW b \in Plain, NEW c \in Plain, NEW d \in Plain,
               Follows(a, b), Follows(b, c), Follows(c, d)
        PROVE  InOrder(<<a, b, c, d>>)
    <2> DEFINE s == <<a, b, c, d>>
    <2>1. DOMAIN s = 1..4 /\ s[1] = a /\ s[2] = b /\ s[3] = c /\ s[4] = d
      OBVIOUS
    <2> HIDE DEF s
    <2>2. \A i \in DOMAIN s : i = 1 \/ i = 2 \/ i = 3 \/ i = 4
      BY <2>1
    <2>3. \A i \in DOMAIN s : i > 1 => \/ s[i - 1] = a /\ s[i] = b
                                       \/ s[i - 1] = b /\ s[i] = c
                                       \/ s[i - 1] = c /\ s[i] = d
      BY <2>1, <2>2
    <2>4. InOrder(s)
      BY <1>4, <2>1, <2>2, <2>3 DEF InOrder
    <2> QED
      BY <2>4 DEF s
  <1> QED
    BY <1>1, <1>2, <1>3, <1>4

\* What comes after what in the programs.
LEMMA StepsFollow ==
    /\ \A op, l, x : Step(op, l, x).op = op
    /\ \A step, op, l, x : op # "unlock" => Follows(step, Step(op, l, x))
    /\ \A op \in Locking : \A l, x : Follows(Step(op, l, x), Unlock)
    /\ \A l : Follows(Step("unsubscribe_all_channels_lk", l, "and_groups"), Step("unlock", l, Null))
    /\ \A step : step.op \in Locking => Follows(step, Unlock)
  BY DEF Follows, Step, Unlock, Locking

\* The functions that have nothing to do with groups.
LEMMA PlainPrograms ==
    ASSUME NEW api \in APIs \ {"add_to_group", "close_group"}, NEW code \in Programs[api]
    PROVE  InOrder(code) /\ Head(code).op # "unlock"
  <1>1. \A l \in Listener \cup {Null}, step \in Plain :
          step.op # "unlock" =>
            /\ InOrder(SendCode(l, step))
            /\ Head(SendCode(l, step)).op # "unlock"
    <2> SUFFICES ASSUME NEW l \in Listener \cup {Null}, NEW step \in Plain, step.op # "unlock"
                 PROVE  InOrder(SendCode(l, step)) /\ Head(SendCode(l, step)).op # "unlock"
      OBVIOUS
    <2>1. CASE l = Null
      <3>1. SendCode(l, step) = <<step>>
        BY <2>1 DEF SendCode
      <3> QED
        BY <3>1, ShortScripts
    <2>2. CASE l # Null
      <3>1. SendCode(l, step) = <<Step("get_mailbox", l, Null), Unlock, step>>
        <4>1. \A a, b, c \in Plain : <<a, b>> \o <<c>> = <<a, b, c>>
          BY ShortConcats
        <4> QED
          BY <2>2, <4>1, PlainSteps DEF SendCode
      <3>2. Follows(Step("get_mailbox", l, Null), Unlock) /\ Follows(Unlock, step)
        BY StepsFollow DEF Locking, Follows
      <3> QED
        BY <2>2, <3>1, <3>2, PlainSteps, ShortScripts, StepsFollow
    <2> QED
      BY <2>1, <2>2
  <1>2. CASE api = "subscribe"
    <2>1. PICK l \in Listener, c \in Name : code = <<Step("subscribe_lk", l, c), Unlock>>
      BY <1>2 DEF Programs
    <2>2. Follows(Step("subscribe_lk", l, c), Unlock)
      BY StepsFollow DEF Locking
    <2> QED
      BY <2>1, <2>2, PlainSteps, ShortScripts, StepsFollow
  <1>3. CASE api = "unsubscribe"
    <2>1. PICK l \in Listener, c \in Name : code = <<Step("unsubscribe_lk", l, c), Unlock>>
      BY <1>3 DEF Programs
    <2>2. Follows(Step("unsubscribe_lk", l, c), Unlock)
      BY StepsFollow DEF Locking
    <2> QED
      BY <2>1, <2>2, PlainSteps, ShortScripts, StepsFollow
  <1>4. CASE api = "unsubscribe_all"
    <2>1. PICK l \in Listener :
            code = <<Step("erase_mailbox_lk", l, Null), Step("erase_groups_lk", l, Null),
                     Step("unsubscribe_all_channels_lk", l, "and_groups"), Step("unlock", l, Null)>>
      BY <1>4 DEF Programs
    <2>2. /\ Follows(Step("erase_mailbox_lk", l, Null), Step("erase_groups_lk", l, Null))
          /\ Follows(Step("erase_groups_lk", l, Null),
                     Step("unsubscribe_all_channels_lk", l, "and_groups"))
          /\ Follows(Step("unsubscribe_all_channels_lk", l, "and_groups"), Step("unlock", l, Null))
      BY StepsFollow
    <2> QED
      BY <2>1, <2>2, PlainSteps, ShortScripts, StepsFollow
  <1>5. CASE api = "unsubcribe_private"
    <2>1. PICK l \in Listener : code = <<Step("erase_mailbox_lk", l, Null), Unlock>>
      BY <1>5 DEF Programs
    <2>2. Follows(Step("erase_mailbox_lk", l, Null), Unlock)
      BY StepsFollow DEF Locking
    <2> QED
      BY <2>1, <2>2, PlainSteps, ShortScripts, StepsFollow
  <1>6. CASE api = "replace"
    <2>1. PICK l \in Listener, c \in Name :
            code = <<Step("unsubscribe_all_channels_lk", l, "public"),
                     Step("subscribe_lk", l, c), Unlock>>
      BY <1>6 DEF Programs
    <2>2. /\ Follows(Step("unsubscribe_all_channels_lk", l, "public"), Step("subscribe_lk", l, c))
          /\ Follows(Step("subscribe_lk", l, c), Unlock)
      BY StepsFollow DEF Locking
    <2> QED
      BY <2>1, <2>2, PlainSteps, ShortScripts, StepsFollow
  <1>7. CASE api = "post"
    <2>1. PICK c \in Name : code = SendCode(Null, Step("find_channel", Null, c))
      BY <1>7 DEF Programs
    <2> QED
      BY <1>1, <2>1, PlainSteps, StepsFollow
  <1>8. CASE api = "send"
    <2>1. PICK l \in Listener, c \in Name : code = SendCode(l, Step("find_channel", l, c))
      BY <1>8 DEF Programs
    <2> QED
      BY <1>1, <2>1, PlainSteps, StepsFollow
  <1>9. CASE api = "reply"
    <2>1. PICK l \in Listener, m \in Mbx : code = SendCode(l, Step("find_mailbox", l, m))
      BY <1>9 DEF Programs
    <2> QED
      BY <1>1, <2>1, PlainSteps, StepsFollow
  <1> QED
    BY <1>2, <1>3, <1>4, <1>5, <1>6, <1>7, <1>8, <1>9 DEF APIs

\* What is left of a program is in order, too.
LEMMA InOrderTail ==
    ASSUME NEW s \in Seq(Instr), s # <<>>, InOrder(s)
    PROVE  /\ Head(s) \in Plain
           /\ InOrder(Tail(s))
           /\ Tail(s) # <<>> => Follows(Head(s), Head(Tail(s)))
  <1>1. /\ DOMAIN s = 1..Len(s) /\ Len(s) \in Nat \ {0}
        /\ DOMAIN Tail(s) = 1..(Len(s) - 1)
        /\ Head(s) = s[1]
        /\ \A i \in 1..(Len(s) - 1) : Tail(s)[i] = s[i + 1]
    OBVIOUS
  <1>2. \A i \in DOMAIN Tail(s) : i + 1 \in DOMAIN s /\ i + 1 > 1 /\ (i + 1) - 1 = i
    BY <1>1
  <1>3. \A i \in DOMAIN Tail(s) : Tail(s)[i] \in Plain
    BY <1>1, <1>2 DEF InOrder
  <1>4. \A i \in DOMAIN Tail(s) : i > 1 => Follows(Tail(s)[i - 1], Tail(s)[i])
    <2> SUFFICES ASSUME NEW i \in DOMAIN Tail(s), i > 1
                 PROVE  Follows(Tail(s)[i - 1], Tail(s)[i])
      OBVIOUS
    <2>1. Tail(s)[i - 1] = s[i] /\ Tail(s)[i] = s[i + 1]
      BY <1>1
    <2> QED
      BY <1>2, <2>1 DEF InOrder
  <1>5. Tail(s) # <<>> => Follows(Head(s), Head(Tail(s)))
    <2> SUFFICES ASSUME Tail(s) # <<>>
                 PROVE  Follows(Head(s), Head(Tail(s)))
      OBVIOUS
    <2>1. 2 \in DOMAIN s /\ Head(Tail(s)) = s[2] /\ 2 - 1 = 1 /\ 2 > 1
      BY <1>1
    <2> QED
      BY <1>1, <2>1 DEF InOrder
  <1>6. 1 \in DOMAIN s
    BY <1>1
  <1> QED
    BY <1>1, <1>3, <1>4, <1>5, <1>6 DEF InOrder

\* A call that is not made in a callback finds its thread's queue executed; and
\* if it gets the mutex, every queue.
LEMMA QueuesExecuted ==
    ASSUME PlainUse, OutsideInv, NEW t \in Thread, ApiStep(t)
    PROVE  /\ script[t] \in Seq(Instr) /\ script[t] # <<>>
           /\ Outside(t) /\ lq[t] = <<>> /\ emptied[t] = Null
           /\ ~AddToGroup(t) /\ ~AdmitMember(t) /\ ~CloseGroup(t)
           /\ MayLock(t) => \A u \in Thread : lq[u] = <<>> /\ emptied[u] = Null
  <1>1. script[t] \in Seq(Instr) /\ script[t] # <<>> /\ (Outside(t) \/ InCallback(t))
    BY DEF OutsideInv, CastInv, TypeOK, CallTyped, ApiStep, Subscribe, Unsubscribe,
       UnsubscribeAllChannels, EraseMailbox, EraseGroups, AddToGroup, AdmitMember, CloseGroup,
       GetMailbox, FindMailbox, FindChannel, EnqueueMsg, UnlockBus, At
  <1>2. Outside(t)
    BY <1>1 DEF PlainUse, OutsideInv, CastInv, CallbackInBroadcast, InCallback
  <1>3. lq[t] = <<>> /\ emptied[t] = Null
    BY <1>2 DEF OutsideInv, PromiseInv, QueuesLocked, Outside
  <1>4. Head(script[t]) \in Plain
    BY <1>1, InOrderTail DEF OutsideInv, PromiseInv, ScriptsInOrder
  <1>5. ~AddToGroup(t) /\ ~AdmitMember(t) /\ ~CloseGroup(t)
    BY <1>4 DEF Plain, AddToGroup, AdmitMember, CloseGroup, At
  <1>6. ASSUME MayLock(t), NEW u \in Thread
        PROVE  lq[u] = <<>> /\ emptied[u] = Null
    <2>1. u # t => bus # u
      BY <1>6, IdentitiesDiffer DEF MayLock
    <2> QED
      BY <1>3, <2>1 DEF OutsideInv, PromiseInv, QueuesLocked
  <1> QED
    BY <1>1, <1>2, <1>3, <1>5, <1>6

\* How the program of a call goes on, and that unlock() comes to be next only
\* when the thread has the mutex.
LEMMA ScriptGoesOn ==
    ASSUME PlainUse, OutsideInv, NEW t \in Thread, ApiStep(t)
    PROVE  /\ \A u \in Thread \ {t} : script'[u] = script[u]
           /\ InOrder(script'[t])
           /\ script'[t] # <<>> /\ Head(script'[t]).op = "unlock" =>
                /\ bus' = t
                /\ Follows(Head(script[t]), Head(script'[t]))
  <1>0. TypeOK /\ script \in [Thread -> Seq(Instr)] /\ script[t] \in Seq(Instr) /\ script[t] # <<>>
    BY QueuesExecuted DEF OutsideInv, CastInv, TypeOK, CallTyped
  <1>1. \A u \in Thread \ {t} : script'[u] = script[u]
    BY <1>0, QueuesExecuted DEF ApiStep, Subscribe, Unsubscribe, UnsubscribeAllChannels,
       EraseMailbox, EraseGroups, GetMailbox, FindMailbox, FindChannel, EnqueueMsg, UnlockBus,
       Done, Continue, Enlist
  <1>2. InOrder(script[t])
    BY DEF OutsideInv, PromiseInv, ScriptsInOrder
  <1>3. CASE FindMailbox(t)
    <2>1. Head(script[t]) \in Instr /\ Head(script[t]).op = "find_mailbox"
      BY <1>0, <1>3, StepAtHand DEF FindMailbox, TypeOK
    <2> DEFINE m == Step("enqueue_msg", Lsn(t), Arg(t))
    <2>2. m \in Plain /\ m.op # "unlock"
      BY <2>1, StepArguments, PlainSteps, StepsFollow DEF Lsn, Arg, Target
    <2>3. script'[t] = <<m>> \/ script'[t] = <<>>
      BY <1>0, <1>3 DEF FindMailbox, Continue
    <2> HIDE DEF m
    <2>4. InOrder(<<m>>) /\ Head(<<m>>) = m /\ InOrder(<<>>)
      BY <2>2, ShortScripts
    <2>5. CASE script'[t] = <<m>>
      BY <1>1, <2>2, <2>4, <2>5
    <2>6. CASE script'[t] = <<>>
      BY <1>1, <2>4, <2>6
    <2> QED
      BY <2>3, <2>5, <2>6
  <1>4. CASE FindChannel(t)
    <2> DEFINE o == channels[Arg(t)]
    <2>1. Head(script[t]) \in Instr /\ Head(script[t]).op = "find_channel"
      BY <1>0, <1>4, StepAtHand DEF FindChannel, TypeOK
    <2>2. Lsn(t) \in Listener \cup {Null} /\ o \in Chan \cup {Null}
      BY <1>0, <2>1, StepArguments DEF Lsn, Arg, TypeOK, DirTyped
    <2> DEFINE m == Step("enqueue_msg", Lsn(t), o)
    <2>3. o # Null => m \in Plain
      BY <2>2, PlainSteps DEF Target
    <2>4. o # Null => <<Unlock>> \o <<m>> = <<Unlock, m>>
      <3>1. \A a, b \in Plain : <<a>> \o <<b>> = <<a, b>>
        BY ShortConcats
      <3> HIDE DEF m
      <3> QED
        BY <2>3, <3>1, PlainSteps
    <2>5. <<Unlock>> \o <<>> = <<Unlock>>
      <3>1. \A a \in Plain : <<a>> \o <<>> = <<a>>
        OBVIOUS
      <3> QED
        BY <3>1, PlainSteps
    <2>6. bus' = t /\ (script'[t] = <<Unlock>> \/ (o # Null /\ script'[t] = <<Unlock, m>>))
      BY <1>0, <1>4, <2>4, <2>5 DEF FindChannel, Continue, Locked
    <2>7. Follows(Head(script[t]), Unlock) /\ Follows(Unlock, m)
      BY <2>1, StepsFollow DEF Locking
    <2> HIDE DEF m
    <2>8. InOrder(script'[t]) /\ Head(script'[t]) = Unlock
      <3>1. InOrder(<<Unlock>>) /\ Head(<<Unlock>>) = Unlock
        BY PlainSteps, ShortScripts
      <3>2. o # Null => InOrder(<<Unlock, m>>) /\ Head(<<Unlock, m>>) = Unlock
        BY <2>3, <2>7, PlainSteps, ShortScripts
      <3>3. CASE script'[t] = <<Unlock>>
        BY <3>1, <3>3
      <3>4. CASE o # Null /\ script'[t] = <<Unlock, m>>
        BY <3>2, <3>4
      <3> QED
        BY <2>6, <3>3, <3>4
    <2> QED
      BY <1>1, <2>6, <2>7, <2>8
  <1>5. CASE ~FindMailbox(t) /\ ~FindChannel(t)
    <2>1. script'[t] = Tail(script[t])
      <3>1. Done(t)
        BY <1>5, QueuesExecuted DEF ApiStep, Subscribe, Unsubscribe, UnsubscribeAllChannels,
           EraseMailbox, EraseGroups, GetMailbox, EnqueueMsg, UnlockBus, Enlist
      <3> QED
        BY <1>0, <3>1 DEF Done
    <2>2. Head(script[t]).op \in Locking => bus' = t
      BY <1>5, QueuesExecuted DEF ApiStep, Subscribe, Unsubscribe, UnsubscribeAllChannels,
         EraseMailbox, EraseGroups, GetMailbox, EnqueueMsg, UnlockBus, At, Locking, Locked
    <2>3. InOrder(Tail(script[t])) /\ (Tail(script[t]) # <<>> => Follows(Head(script[t]), Head(Tail(script[t]))))
      BY <1>0, <1>2, InOrderTail
    <2> QED
      BY <1>1, <2>1, <2>2, <2>3 DEF Follows
  <1> QED
    BY <1>3, <1>4, <1>5

\* Who does not take the mutex leaves it, unless it unlocks.
LEMMA BusTaken ==
    ASSUME PlainUse, OutsideInv, NEW t \in Thread, ApiStep(t), ~UnlockBus(t),
           NEW u \in Thread, u # t, bus = u
    PROVE  bus' = u /\ ~MayLock(t)
  <1>1. bus' = bus \/ Locked(t)
    BY QueuesExecuted DEF ApiStep, Subscribe, Unsubscribe, UnsubscribeAllChannels,
       EraseMailbox, EraseGroups, GetMailbox, FindMailbox, FindChannel, EnqueueMsg
  <1>2. ~MayLock(t)
    BY IdentitiesDiffer DEF MayLock
  <1> QED
    BY <1>1, <1>2 DEF Locked

\* Steps of a call that change neither the lists nor what is queued for them.
LEMMA QuietStep ==
    ASSUME PlainUse, OutsideInv, NEW t \in Thread, ApiStep(t),
           ~UnlockBus(t), ~UnsubscribeAllChannels(t),
           UNCHANGED <<dirVars, lq, emptied, intent>>, gone' \subseteq gone,
           \A u \in Thread : running[u] => running'[u]
    PROVE  PromiseInv'
  <1>0. PromiseInv
    BY DEF OutsideInv
  <1>1. UNCHANGED <<channels, id, owner, listeners>>
    BY DEF dirVars
  <1>2. \A c, l, kind : Has(c, l)' = Has(c, l) /\ Queued(kind, l, c)' = Queued(kind, l, c)
    BY <1>1 DEF Has, Queued, Mapped
  <1>3. lq[t] = <<>> /\ emptied[t] = Null
    BY QueuesExecuted
  <1>4. ScriptsInOrder'
    <2> SUFFICES ASSUME NEW u \in Thread
                 PROVE  /\ InOrder(script'[u])
                        /\ script'[u] # <<>> /\ Head(script'[u]).op = "unlock" =>
                             /\ bus' = u
                             /\ Lsn(u)' # Null =>
                                  /\ \A c \in Name : Has(c, Lsn(u))' => Queued("remove", Lsn(u), c)'
                                  /\ \A i \in Range(lq'[u]) : i.kind # "add"
      BY DEF ScriptsInOrder
    <2>1. CASE u = t
      <3>1. ASSUME script'[t] # <<>>, Head(script'[t]).op = "unlock"
            PROVE  Lsn(t)' = Null
        <4>1. Follows(Head(script[t]), Head(script'[t]))
          BY <3>1, ScriptGoesOn
        <4>2. Head(script[t]).op # "unsubscribe_all_channels_lk"
          BY QueuesExecuted DEF ApiStep, Subscribe, Unsubscribe, EraseMailbox, EraseGroups,
             GetMailbox, FindMailbox, FindChannel, EnqueueMsg, At
        <4> QED
          BY <3>1, <4>1, <4>2, StepsFollow DEF Follows, Lsn
      <3> QED
        BY <2>1, <3>1, ScriptGoesOn
    <2>2. CASE u # t
      <3>1. script'[u] = script[u] /\ Lsn(u)' = Lsn(u)
        BY <2>2, ScriptGoesOn DEF Lsn
      <3>2. bus = u => bus' = u
        BY <2>2, BusTaken
      <3> QED
        BY <1>0, <1>1, <1>2, <3>1, <3>2 DEF PromiseInv, ScriptsInOrder
    <2> QED
      BY <2>1, <2>2
  <1>5. QueuesLocked'
    <2> SUFFICES ASSUME NEW u \in Thread, lq[u] # <<>> \/ emptied[u] # Null
                 PROVE  running'[u] /\ bus' = u
      BY DEF QueuesLocked
    <2>1. running[u] /\ bus = u /\ u # t
      BY <1>0, <1>3 DEF PromiseInv, QueuesLocked
    <2> QED
      BY <2>1, BusTaken
  <1>6. DirectoryPlain'
    BY <1>0, <1>1 DEF PromiseInv, DirectoryPlain, NamesRight
  <1>7. QueuesFit'
    BY <1>0, <1>1 DEF PromiseInv, QueuesFit, NameKept
  <1>8. IntentQueued'
    BY <1>0, <1>2 DEF PromiseInv, IntentQueued
  <1>9. GoneUnlisted'
    BY <1>0, <1>1 DEF PromiseInv, GoneUnlisted
  <1> QED
    BY <1>4, <1>5, <1>6, <1>7, <1>8, <1>9 DEF PromiseInv

\* With every queue executed, what the callers were told is what the lists say.
LEMMA IntentIsListed ==
    ASSUME IntentQueued, \A u \in Thread : lq[u] = <<>>, NEW l \in Listener, NEW c \in Name
    PROVE  <<l, c>> \in intent <=> Has(c, l)
  <1>1. ~Queued("add", l, c) /\ ~Queued("remove", l, c)
    BY DEF Queued, Range
  <1> QED
    BY <1>1 DEF IntentQueued

\* Steps that queue the removals of what they withdraw.
LEMMA WithdrawalKeepsPromises ==
    ASSUME PlainUse, OutsideInv, NEW t \in Thread, ApiStep(t), Locked(t),
           UNCHANGED <<dirVars, emptied, gone>>,
           NEW items \in Seq(LsnItem),
           lq' = [lq EXCEPT ![t] = items],
           running' = [running EXCEPT ![t] = @ \/ items # <<>>],
           \A i \in Range(items) : i.kind # "add" /\ (i.kind = "remove" => NameKept(i.chan)),
           \A l \in Listener, c \in Name :
              <<l, c>> \in intent' <=>
                Has(c, l) /\ [kind |-> "remove", lsn |-> l, chan |-> channels[c]] \notin Range(items),
           \A l \in Listener : Head(script[t]) = Step("unsubscribe_all_channels_lk", l, "and_groups") =>
              \A c \in Name : Has(c, l) =>
                [kind |-> "remove", lsn |-> l, chan |-> channels[c]] \in Range(items)
    PROVE  PromiseInv'
  <1>0. PromiseInv /\ TypeOK
    BY DEF OutsideInv, CastInv
  <1>1. UNCHANGED <<channels, id, owner, listeners>> /\ bus' = t
    BY DEF dirVars, Locked
  <1>2. \A u \in Thread : lq[u] = <<>> /\ emptied[u] = Null
    BY QueuesExecuted DEF Locked
  <1>3. lq'[t] = items /\ (items # <<>> => running'[t])
        /\ \A u \in Thread \ {t} : lq'[u] = <<>>
    BY <1>0, <1>2 DEF TypeOK, QueuesTyped
  <1>4. \A c, l, kind : /\ Has(c, l)' = Has(c, l)
                        /\ Queued(kind, l, c)' <=>
                             Mapped(c) /\ [kind |-> kind, lsn |-> l, chan |-> channels[c]] \in Range(items)
    <2>1. \A u \in Thread \ {t} : Range(lq'[u]) = {}
      BY <1>3 DEF Range
    <2> QED
      BY <1>1, <1>3, <2>1 DEF Has, Queued, Mapped
  <1>5. ScriptsInOrder'
    <2> SUFFICES ASSUME NEW u \in Thread
                 PROVE  /\ InOrder(script'[u])
                        /\ script'[u] # <<>> /\ Head(script'[u]).op = "unlock" =>
                             /\ bus' = u
                             /\ Lsn(u)' # Null =>
                                  /\ \A c \in Name : Has(c, Lsn(u))' => Queued("remove", Lsn(u), c)'
                                  /\ \A i \in Range(lq'[u]) : i.kind # "add"
      BY DEF ScriptsInOrder
    <2>1. CASE u = t
      <3>1. ASSUME script'[t] # <<>>, Head(script'[t]).op = "unlock", Lsn(t)' # Null
            PROVE  \A c \in Name : Has(c, Lsn(t))' => Queued("remove", Lsn(t), c)'
        <4>1. Head(script[t]) = Step("unsubscribe_all_channels_lk", Lsn(t)', "and_groups")
          BY <3>1, ScriptGoesOn DEF Follows, Lsn
        <4>2. Lsn(t)' \in Listener
          <5>1. script[t] \in Seq(Instr) /\ script[t] # <<>>
            BY QueuesExecuted
          <5>2. Head(script[t]) \in Instr
            BY <5>1
          <5> QED
            BY <4>1, <5>2, StepArguments DEF Step
        <4>3. PICK l \in Listener : l = Lsn(t)'
          BY <4>2
        <4>4. \A c \in Name : Has(c, l) => Mapped(c)
          BY DEF Has
        <4>5. \A c \in Name : Has(c, l)' => Queued("remove", l, c)'
          BY <1>4, <4>1, <4>3, <4>4
        <4> QED
          BY <1>1, <1>4, <4>3, <4>5
      <3> QED
        BY <1>3, <2>1, <3>1, ScriptGoesOn
    <2>2. CASE u # t
      <3>1. script'[u] = script[u]
        BY <2>2, ScriptGoesOn
      <3>2. bus # u
        BY <2>2, IdentitiesDiffer DEF Locked, MayLock
      <3> QED
        BY <1>0, <3>1, <3>2 DEF PromiseInv, ScriptsInOrder
    <2> QED
      BY <2>1, <2>2
  <1>6. QueuesLocked'
    BY <1>1, <1>2, <1>3 DEF QueuesLocked
  <1>7. DirectoryPlain'
    BY <1>0, <1>1 DEF PromiseInv, DirectoryPlain, NamesRight
  <1>8. QueuesFit'
    <2>1. \A u \in Thread \ {t} : Range(lq'[u]) = {}
      BY <1>3 DEF Range
    <2> QED
      BY <1>1, <1>2, <1>3, <2>1 DEF QueuesFit, NameKept
  <1>9. IntentQueued'
    <2> SUFFICES ASSUME NEW l \in Listener, NEW c \in Name
                 PROVE  <<l, c>> \in intent' <=>
                          Queued("add", l, c)' \/ (Has(c, l)' /\ ~Queued("remove", l, c)')
      BY DEF IntentQueued
    <2>1. ~Queued("add", l, c)'
      BY <1>4
    <2>2. Has(c, l) => Mapped(c)
      BY DEF Has
    <2> QED
      BY <1>4, <2>1, <2>2
  <1>10. GoneUnlisted'
    BY <1>0, <1>1 DEF PromiseInv, GoneUnlisted
  <1> QED
    BY <1>5, <1>6, <1>7, <1>8, <1>9, <1>10 DEF PromiseInv

\* A registered channel has a name.
LEMMA RegisteredKeepsName ==
    ASSUME DirTyped, DirectoryPlain, NEW c \in Name, Mapped(c)
    PROVE  channels[c] \in Chan /\ id[channels[c]] = c /\ NameKept(channels[c])
  BY DEF DirTyped, DirectoryPlain, NamesRight, Mapped, NameKept

LEMMA UnsubscribeKeepsPromises ==
    ASSUME PlainUse, OutsideInv, NEW t \in Thread, Unsubscribe(t)
    PROVE  PromiseInv'
  <1>0. PromiseInv /\ TypeOK /\ ApiStep(t)
    BY DEF OutsideInv, CastInv, ApiStep
  <1>1. Lsn(t) \in Listener /\ Arg(t) \in Name /\ Head(script[t]).op = "unsubscribe_lk"
    BY <1>0, StepAtHand, StepArguments DEF TypeOK, Unsubscribe, Lsn, Arg
  <1>2. \A l : Head(script[t]) # Step("unsubscribe_all_channels_lk", l, "and_groups")
    BY <1>1, StepsFollow
  <1>3. \A u \in Thread : lq[u] = <<>>
    BY <1>0, QueuesExecuted DEF Unsubscribe, Locked
  <1>4. \A l \in Listener, c \in Name : <<l, c>> \in intent <=> Has(c, l)
    BY <1>0, <1>3, IntentIsListed DEF PromiseInv
  <1>5. Locked(t) /\ UNCHANGED <<dirVars, emptied, gone>> /\ intent' = intent \ {<<Lsn(t), Arg(t)>>}
    BY DEF Unsubscribe, EnqueueLsn, queueVars
  <1>6. CASE Has(Arg(t), Lsn(t))
    <2> DEFINE x == [kind |-> "remove", lsn |-> Lsn(t), chan |-> channels[Arg(t)]]
               items == <<x>>
    <2>1. channels[Arg(t)] \in Chan /\ id[channels[Arg(t)]] = Arg(t) /\ NameKept(channels[Arg(t)])
      BY <1>0, <1>1, <1>6, RegisteredKeepsName DEF Has, PromiseInv, TypeOK
    <2>2. x \in LsnItem
      BY <1>1, <2>1 DEF LsnItem
    <2>3. items \in Seq(LsnItem) /\ Range(items) = {x} /\ items # <<>>
      <3> HIDE DEF x
      <3> QED
        BY <2>2 DEF Range
    <2>4. EnqueueLsn(t, items)
      BY <1>6 DEF Unsubscribe
    <2>5. /\ lq' = [lq EXCEPT ![t] = items]
          /\ running' = [running EXCEPT ![t] = @ \/ items # <<>>]
      <3>1. lq[t] \o items = items
        BY <1>3, <2>3, ConcatEmptySeq
      <3> QED
        BY <2>4, <3>1 DEF EnqueueLsn
    <2>6. \A l \in Listener, c \in Name :
            <<l, c>> \in intent' <=>
              Has(c, l) /\ [kind |-> "remove", lsn |-> l, chan |-> channels[c]] \notin Range(items)
      <3> SUFFICES ASSUME NEW l \in Listener, NEW c \in Name
                   PROVE  <<l, c>> \in intent' <=>
                            Has(c, l) /\ [kind |-> "remove", lsn |-> l, chan |-> channels[c]] # x
        BY <2>3
      <3>1. <<l, c>> \in intent' <=> Has(c, l) /\ ~(l = Lsn(t) /\ c = Arg(t))
        BY <1>4, <1>5
      <3>2. Has(c, l) /\ channels[c] = channels[Arg(t)] => c = Arg(t)
        BY <1>0, <2>1, RegisteredKeepsName DEF Has, PromiseInv, TypeOK
      <3>3. [kind |-> "remove", lsn |-> l, chan |-> channels[c]] = x <=>
              l = Lsn(t) /\ channels[c] = channels[Arg(t)]
        OBVIOUS
      <3> QED
        BY <3>1, <3>2, <3>3
    <2>7. \A i \in Range(items) : i.kind # "add" /\ (i.kind = "remove" => NameKept(i.chan))
      BY <2>1, <2>3
    <2> HIDE DEF items
    <2> QED
      BY <1>0, <1>2, <1>5, <2>3, <2>5, <2>6, <2>7, WithdrawalKeepsPromises
  <1>7. CASE ~Has(Arg(t), Lsn(t))
    <2>1. intent' = intent
      BY <1>1, <1>4, <1>5, <1>7
    <2>2. UNCHANGED queueVars
      BY <1>7 DEF Unsubscribe
    <2>3. ~UnlockBus(t) /\ ~UnsubscribeAllChannels(t)
      BY <1>1 DEF UnlockBus, UnsubscribeAllChannels, At
    <2> QED
      BY <1>0, <1>5, <2>1, <2>2, <2>3, QuietStep DEF queueVars
  <1> QED
    BY <1>6, <1>7

LEMMA UnsubscribeAllKeepsPromises ==
    ASSUME PlainUse, OutsideInv, NEW t \in Thread, UnsubscribeAllChannels(t)
    PROVE  PromiseInv'
  <1>0. PromiseInv /\ TypeOK /\ DirTyped /\ ApiStep(t)
    BY DEF OutsideInv, CastInv, ApiStep, TypeOK
  <1>1. Lsn(t) \in Listener
    BY <1>0, StepAtHand, StepArguments DEF TypeOK, UnsubscribeAllChannels, Lsn
  <1> DEFINE items == Removals(Lsn(t), Arg(t))
  <1>2. items \in Seq(LsnItem)
    BY <1>0, <1>1, RemovalsTyped
  <1>3. \A u \in Thread : lq[u] = <<>>
    BY <1>0, QueuesExecuted DEF UnsubscribeAllChannels, Locked
  <1>4. \A l \in Listener, c \in Name : <<l, c>> \in intent <=> Has(c, l)
    BY <1>0, <1>3, IntentIsListed DEF PromiseInv
  <1>5. \A c : c \in ChannelsOf(Lsn(t), Arg(t)) <=> c \in Name /\ Has(c, Lsn(t))
    BY <1>0, RegisteredKeepsName DEF ChannelsOf, Has, PromiseInv, DirectoryPlain
  <1>6. /\ \A c \in Name : Has(c, Lsn(t)) =>
             [kind |-> "remove", lsn |-> Lsn(t), chan |-> channels[c]] \in Range(items)
        /\ \A i \in Range(items) : \E c \in Name :
             Has(c, Lsn(t)) /\ i = [kind |-> "remove", lsn |-> Lsn(t), chan |-> channels[c]]
    BY <1>0, <1>1, <1>5, RemovalsCover
  <1>7. Locked(t) /\ UNCHANGED <<dirVars, emptied, gone>> /\ EnqueueLsn(t, items)
        /\ intent' = {s \in intent : s[1] # Lsn(t)}
    BY DEF UnsubscribeAllChannels, EnqueueLsn
  <1> HIDE DEF items
  <1>8. /\ lq' = [lq EXCEPT ![t] = items]
        /\ running' = [running EXCEPT ![t] = @ \/ items # <<>>]
    <2>1. lq[t] \o items = items
      BY <1>2, <1>3, ConcatEmptySeq
    <2> QED
      BY <1>7, <2>1 DEF EnqueueLsn
  <1>9. \A i \in Range(items) : i.kind # "add" /\ (i.kind = "remove" => NameKept(i.chan))
    <2> SUFFICES ASSUME NEW i \in Range(items)
                 PROVE  i.kind # "add" /\ NameKept(i.chan)
      OBVIOUS
    <2>1. PICK c \in Name : Has(c, Lsn(t)) /\ i = [kind |-> "remove", lsn |-> Lsn(t), chan |-> channels[c]]
      BY <1>6
    <2>2. NameKept(channels[c])
      BY <1>0, <2>1, RegisteredKeepsName DEF Has, PromiseInv
    <2> QED
      BY <2>1, <2>2
  <1>10. \A l \in Listener, c \in Name :
           <<l, c>> \in intent' <=>
             Has(c, l) /\ [kind |-> "remove", lsn |-> l, chan |-> channels[c]] \notin Range(items)
    <2> SUFFICES ASSUME NEW l \in Listener, NEW c \in Name
                 PROVE  <<l, c>> \in intent' <=>
                          Has(c, l) /\ [kind |-> "remove", lsn |-> l, chan |-> channels[c]] \notin Range(items)
      OBVIOUS
    <2>1. <<l, c>> \in intent' <=> Has(c, l) /\ l # Lsn(t)
      BY <1>4, <1>7
    <2>2. l # Lsn(t) => [kind |-> "remove", lsn |-> l, chan |-> channels[c]] \notin Range(items)
      <3>1. ASSUME NEW i \in Range(items) PROVE i.lsn = Lsn(t)
        BY <1>6
      <3> QED
        BY <3>1
    <2> QED
      BY <1>6, <2>1, <2>2
  <1>11. \A l \in Listener : Head(script[t]) = Step("unsubscribe_all_channels_lk", l, "and_groups") => l = Lsn(t)
    BY DEF Step, Lsn
  <1> QED
    BY <1>0, <1>2, <1>6, <1>7, <1>8, <1>9, <1>10, <1>11, WithdrawalKeepsPromises

LEMMA EraseMailboxKeepsPromises ==
    ASSUME PlainUse, OutsideInv, NEW t \in Thread, EraseMailbox(t)
    PROVE  PromiseInv'
  <1>0. PromiseInv /\ TypeOK /\ ApiStep(t)
    BY DEF OutsideInv, CastInv, ApiStep
  <1>1. Lsn(t) \in Listener /\ Head(script[t]).op = "erase_mailbox_lk"
    BY <1>0, StepAtHand, StepArguments DEF TypeOK, EraseMailbox, Lsn
  <1>2. \A l : Head(script[t]) # Step("unsubscribe_all_channels_lk", l, "and_groups")
    BY <1>1, StepsFollow
  <1>3. \A u \in Thread : lq[u] = <<>>
    BY <1>0, QueuesExecuted DEF EraseMailbox, Locked
  <1>4. \A l \in Listener, c \in Name : <<l, c>> \in intent <=> Has(c, l)
    BY <1>0, <1>3, IntentIsListed DEF PromiseInv
  <1>5. Locked(t) /\ UNCHANGED <<dirVars, emptied, gone, intent>>
    BY DEF EraseMailbox, EnqueueLsn, queueVars, histVars
  <1>6. CASE mailbox[Lsn(t)] # Null
    <2> DEFINE x == [kind |-> "mailbox", lsn |-> Lsn(t), chan |-> Null]
               items == <<x>>
    <2>1. x \in LsnItem
      BY <1>1 DEF LsnItem
    <2>2. items \in Seq(LsnItem) /\ Range(items) = {x} /\ items # <<>>
      <3> HIDE DEF x
      <3> QED
        BY <2>1 DEF Range
    <2>3. EnqueueLsn(t, items)
      BY <1>6 DEF EraseMailbox, RemovalOfMailbox
    <2>4. /\ lq' = [lq EXCEPT ![t] = items]
          /\ running' = [running EXCEPT ![t] = @ \/ items # <<>>]
      <3>1. lq[t] \o items = items
        BY <1>3, <2>2, ConcatEmptySeq
      <3> QED
        BY <2>3, <3>1 DEF EnqueueLsn
    <2>5. \A l, o : [kind |-> "remove", lsn |-> l, chan |-> o] \notin Range(items)
      BY <2>2
    <2>6. \A i \in Range(items) : i.kind # "add" /\ i.kind # "remove"
      BY <2>2
    <2> HIDE DEF items
    <2> QED
      BY <1>0, <1>2, <1>4, <1>5, <2>2, <2>4, <2>5, <2>6, WithdrawalKeepsPromises
  <1>7. CASE mailbox[Lsn(t)] = Null
    <2>1. UNCHANGED queueVars
      BY <1>7 DEF EraseMailbox
    <2>2. ~UnlockBus(t) /\ ~UnsubscribeAllChannels(t)
      BY <1>1 DEF UnlockBus, UnsubscribeAllChannels, At
    <2> QED
      BY <1>0, <1>5, <2>1, <2>2, QuietStep DEF queueVars
  <1> QED
    BY <1>6, <1>7

\* The other steps under the mutex, and those of posting.
LEMMA PostingKeepsPromises ==
    ASSUME PlainUse, OutsideInv, NEW t \in Thread,
           EraseGroups(t) \/ GetMailbox(t) \/ FindMailbox(t) \/ FindChannel(t) \/ EnqueueMsg(t)
    PROVE  PromiseInv'
  <1>0. PromiseInv /\ TypeOK /\ ApiStep(t)
    BY DEF OutsideInv, CastInv, ApiStep
  <1>1. ~UnlockBus(t) /\ ~UnsubscribeAllChannels(t)
    BY DEF UnlockBus, UnsubscribeAllChannels, EraseGroups, GetMailbox, FindMailbox, FindChannel,
       EnqueueMsg, At
  <1>2. CASE EraseGroups(t)
    <2>1. Lsn(t) \in Listener
      BY <1>0, <1>2, StepAtHand, StepArguments DEF TypeOK, EraseGroups, Lsn
    <2> DEFINE mine == {c \in Name : Mapped(c) /\ owner[channels[c]] = Lsn(t)}
    <2>2. mine = {}
      <3> SUFFICES ASSUME NEW c \in mine PROVE FALSE
        OBVIOUS
      <3>1. owner[channels[c]] = Null
        BY <1>0, RegisteredKeepsName DEF PromiseInv, TypeOK, DirectoryPlain
      <3> QED
        BY <2>1, <3>1, IdentitiesDiffer
    <2>3. /\ channels' = [c \in Name |-> IF c \in mine THEN Null ELSE channels[c]]
          /\ intent' = {s \in intent : s[2] \notin mine}
          /\ UNCHANGED <<id, owner, listeners, queueVars, gone>>
      BY <1>2 DEF EraseGroups
    <2> HIDE DEF mine
    <2>4. channels' = channels /\ intent' = intent
      BY <1>0, <2>2, <2>3 DEF TypeOK, DirTyped
    <2> QED
      BY <1>0, <1>1, <2>3, <2>4, QuietStep DEF dirVars, queueVars
  <1>3. CASE EnqueueMsg(t)
    <2>1. UNCHANGED <<dirVars, lq, emptied, intent, gone>> /\ running' = [running EXCEPT ![t] = TRUE]
      BY <1>3 DEF EnqueueMsg, histVars
    <2>2. \A u \in Thread : running[u] => running'[u]
      BY <1>0, <2>1 DEF TypeOK, QueuesTyped
    <2> QED
      BY <1>0, <1>1, <2>1, <2>2, QuietStep
  <1>4. CASE GetMailbox(t) \/ FindMailbox(t) \/ FindChannel(t)
    <2>1. UNCHANGED <<dirVars, lq, emptied, running, intent>> /\ gone' \subseteq gone
      BY <1>4 DEF GetMailbox, FindMailbox, FindChannel, queueVars, histVars
    <2> QED
      BY <1>0, <1>1, <2>1, QuietStep
  <1> QED
    BY <1>2, <1>3, <1>4

\* When unsubscribe_all() returns, nobody lists the listener any more.
LEMMA UnlockKeepsPromises ==
    ASSUME PlainUse, OutsideInv, NEW t \in Thread, UnlockBus(t)
    PROVE  PromiseInv'
  <1>0. PromiseInv /\ TypeOK /\ ApiStep(t)
    BY DEF OutsideInv, CastInv, ApiStep
  <1>1. script[t] # <<>> /\ Head(script[t]).op = "unlock"
    BY DEF UnlockBus, At
  <1>2. bus = t /\ (Lsn(t) # Null => \A c \in Name : Has(c, Lsn(t)) => Queued("remove", Lsn(t), c))
    BY <1>0, <1>1 DEF PromiseInv, ScriptsInOrder
  <1>3. \A u \in Thread : lq[u] = <<>> /\ emptied[u] = Null
    BY <1>0, <1>2, QueuesExecuted DEF MayLock
  <1>4. UNCHANGED <<channels, id, owner, listeners, lq, emptied, intent>>
        /\ gone' = gone \cup ({Lsn(t)} \ {Null}) /\ bus' = Null
    BY DEF UnlockBus, dirVars, queueVars
  <1>5. GoneUnlisted'
    <2> SUFFICES ASSUME NEW l \in gone', NEW o \in Chan, l \in listeners[o]
                 PROVE  FALSE
      BY <1>4 DEF GoneUnlisted
    <2>1. l = Lsn(t) /\ l # Null
      BY <1>0, <1>4 DEF PromiseInv, GoneUnlisted
    <2>2. PICK c \in Name : channels[c] = o
      BY <1>0 DEF PromiseInv, DirectoryPlain
    <2>3. Has(c, l)
      BY <2>2, IdentitiesDiffer DEF Has, Mapped
    <2>4. Queued("remove", l, c)
      BY <1>2, <2>1, <2>3
    <2> QED
      BY <1>3, <2>4 DEF Queued, Range
  <1>6. ScriptsInOrder'
    <2> SUFFICES ASSUME NEW u \in Thread
                 PROVE  InOrder(script'[u]) /\ ~(script'[u] # <<>> /\ Head(script'[u]).op = "unlock")
      BY DEF ScriptsInOrder
    <2>1. CASE u = t
      <3>1. ~Follows(Head(script[t]), Head(script'[t])) \/ Head(script'[t]).op # "unlock"
        BY <1>1 DEF Follows, Locking
      <3> QED
        BY <1>0, <2>1, <3>1, ScriptGoesOn
    <2>2. CASE u # t
      BY <1>0, <1>2, <2>2, ScriptGoesOn DEF PromiseInv, ScriptsInOrder
    <2> QED
      BY <2>1, <2>2
  <1>7. QueuesLocked' /\ QueuesFit'
    <2>1. \A u \in Thread : lq'[u] = <<>> /\ emptied'[u] = Null /\ Range(lq'[u]) = {}
      BY <1>3, <1>4 DEF Range
    <2> QED
      BY <2>1 DEF QueuesLocked, QueuesFit
  <1>8. DirectoryPlain'
    BY <1>0, <1>4 DEF PromiseInv, DirectoryPlain, NamesRight
  <1>9. IntentQueued'
    BY <1>0, <1>4 DEF PromiseInv, IntentQueued, Queued, Has, Mapped
  <1> QED
    BY <1>5, <1>6, <1>7, <1>8, <1>9 DEF PromiseInv

\* A subscription is confirmed, and its execution queued.
LEMMA SubscribeKeepsPromises ==
    ASSUME PlainUse, OutsideInv, NEW t \in Thread, Subscribe(t)
    PROVE  PromiseInv'
  <1>0. PromiseInv /\ TypeOK /\ DirTyped /\ DirectoryPlain /\ ApiStep(t)
    BY DEF OutsideInv, CastInv, ApiStep, TypeOK, PromiseInv
  <1>1. Lsn(t) \in Listener /\ Arg(t) \in Name /\ Head(script[t]).op = "subscribe_lk"
    BY <1>0, StepAtHand, StepArguments DEF TypeOK, Subscribe, Lsn, Arg
  <1>2. PICK l0 \in Listener, c0 \in Name : l0 = Lsn(t) /\ c0 = Arg(t)
    BY <1>1
  <1> DEFINE o == GetChannel(c0)
             x == [kind |-> "add", lsn |-> l0, chan |-> o]
  <1>3. Mapped(c0) => owner[o] = Null
    BY <1>0, <1>2, RegisteredKeepsName DEF GetChannel, DirectoryPlain
  <1>4. /\ RegisterChannel(c0) /\ owner' = [owner EXCEPT ![o] = Null] /\ Enlist(t, l0, o)
        /\ intent' = intent \cup {<<l0, c0>>} /\ gone' = gone \ {l0}
        /\ bus' = t /\ MayLock(t)
    BY <1>2, <1>3 DEF Subscribe, Locked
  <1>5. o \in Chan
    BY <1>0, <1>4, GetChannelTyped DEF RegisterChannel
  <1>6. \A u \in Thread : lq[u] = <<>> /\ emptied[u] = Null
    BY <1>0, <1>4, QueuesExecuted
  <1>7. /\ channels' = [channels EXCEPT ![c0] = o]
        /\ id' = [id EXCEPT ![o] = c0]
        /\ listeners' = IF Mapped(c0) THEN listeners ELSE [listeners EXCEPT ![o] = {}]
    BY <1>4 DEF RegisterChannel
  <1>8. \A c \in Name : channels[c] = o => c = c0
    <2>1. CASE Mapped(c0)
      BY <1>0, <1>5, <2>1 DEF GetChannel, DirectoryPlain, NamesRight
    <2>2. CASE ~Mapped(c0)
      BY <1>0, <1>4, <2>2, NewChannelUnused DEF Referenced
    <2> QED
      BY <2>1, <2>2
  <1>9. <<x>> \in Seq(LsnItem) /\ Range(<<x>>) = {x} /\ <<x>> # <<>> /\ Tail(<<x>>) = <<>>
    <2>1. x \in LsnItem
      BY <1>5 DEF LsnItem
    <2> HIDE DEF x
    <2> QED
      BY <2>1 DEF Range
  <1>10. /\ lq'[t] = <<x>> /\ running'[t] /\ emptied' = emptied
         /\ \A u \in Thread \ {t} : lq'[u] = <<>>
    <2> HIDE DEF x
    <2>1. EnqueueLsn(t, <<x>>)
      BY <1>4 DEF Enlist, x
    <2>2. lq[t] \o <<x>> = <<x>>
      BY <1>6, <1>9, ConcatEmptySeq
    <2> QED
      BY <1>0, <1>6, <1>9, <2>1, <2>2 DEF EnqueueLsn, TypeOK, QueuesTyped
  <1> HIDE DEF o
  <1>11. \A c \in Name : channels'[c] = IF c = c0 THEN o ELSE channels[c]
    BY <1>0, <1>7 DEF DirTyped
  <1>12. \A u \in Thread \ {t} : Range(lq'[u]) = {}
    BY <1>10 DEF Range
  <1>13. ASSUME NEW l \in Listener, NEW c \in Name
         PROVE  Has(c, l)' <=> Has(c, l)
    <2>1. CASE c # c0
      <3>1. channels'[c] = channels[c] /\ channels[c] # o
        BY <1>8, <1>11, <2>1
      <3>2. channels[c] \in Chan \cup {Null}
        BY <1>0 DEF DirTyped
      <3>3. channels[c] \in Chan => listeners'[channels[c]] = listeners[channels[c]]
        BY <1>0, <1>7, <3>1 DEF DirTyped
      <3> QED
        BY <3>1, <3>2, <3>3 DEF Has, Mapped
    <2>2. CASE c = c0 /\ Mapped(c0)
      BY <1>7, <1>11, <2>2 DEF Has, Mapped, GetChannel, o
    <2>3. CASE c = c0 /\ ~Mapped(c0)
      <3>1. channels'[c] = o /\ listeners'[o] = {}
        BY <1>0, <1>5, <1>7, <1>11, <2>3 DEF DirTyped
      <3> QED
        BY <2>3, <3>1 DEF Has, Mapped
    <2> QED
      BY <2>1, <2>2, <2>3
  <1>14. \A l \in Listener, c \in Name : ~Queued("remove", l, c)'
    BY <1>9, <1>10, <1>12 DEF Queued
  <1>15. ASSUME NEW l \in Listener, NEW c \in Name
         PROVE  Queued("add", l, c)' <=> l = l0 /\ c = c0
    <2>1. channels'[c] = o <=> c = c0
      BY <1>8, <1>11
    <2>2. Queued("add", l, c)' => [kind |-> "add", lsn |-> l, chan |-> channels'[c]] = x
      BY <1>9, <1>10, <1>12 DEF Queued
    <2>3. l = l0 /\ c = c0 => Queued("add", l, c)'
      BY <1>5, <1>9, <1>10, <2>1, IdentitiesDiffer DEF Queued, Mapped
    <2> QED
      BY <2>1, <2>2, <2>3
  <1>16. IntentQueued'
    <2>1. \A l \in Listener, c \in Name : <<l, c>> \in intent <=> Has(c, l)
      BY <1>0, <1>6, IntentIsListed DEF PromiseInv
    <2>2. \A l \in Listener, c \in Name : <<l, c>> \in intent' <=> Has(c, l) \/ (l = l0 /\ c = c0)
      BY <1>4, <2>1
    <2> QED
      BY <1>13, <1>14, <1>15, <2>2 DEF IntentQueued
  <1>17. GoneUnlisted'
    <2>1. \A p \in Chan : listeners'[p] \subseteq listeners[p]
      BY <1>0, <1>7 DEF DirTyped
    <2> QED
      BY <1>0, <1>4, <2>1 DEF PromiseInv, GoneUnlisted
  <1>18. DirectoryPlain'
    <2>1. NamesRight'
      <3> SUFFICES ASSUME NEW c \in Name, NEW p \in Chan, channels'[c] = p
                   PROVE  id'[p] = c
        BY DEF NamesRight
      <3>1. CASE c = c0
        BY <1>0, <1>5, <1>7, <1>11, <3>1 DEF DirTyped
      <3>2. CASE c # c0
        <4>1. channels[c] = p /\ p # o
          BY <1>8, <1>11, <3>2
        <4> QED
          BY <1>0, <1>7, <4>1 DEF DirTyped, DirectoryPlain, NamesRight
      <3> QED
        BY <3>1, <3>2
    <2>2. \A p \in Chan : owner'[p] = Null
      BY <1>0, <1>4 DEF DirTyped, DirectoryPlain
    <2>3. ASSUME NEW p \in Chan, listeners'[p] # {}
          PROVE  \E c \in Name : channels'[c] = p
      <3>1. listeners[p] # {} /\ (Mapped(c0) \/ p # o)
        BY <1>0, <1>5, <1>7, <2>3 DEF DirTyped
      <3>2. PICK c \in Name : channels[c] = p
        BY <1>0, <3>1 DEF DirectoryPlain
      <3>3. c = c0 => Mapped(c0) /\ o = p
        BY <3>2, IdentitiesDiffer DEF Mapped, GetChannel, o
      <3> QED
        BY <1>11, <3>2, <3>3
    <2> QED
      BY <2>1, <2>2, <2>3 DEF DirectoryPlain
  <1>19. QueuesFit'
    <2>1. id'[o] = c0 /\ channels'[c0] = o
      BY <1>0, <1>5, <1>7, <1>11 DEF DirTyped
    <2>2. \A i \in Range(lq'[t]) : i = x
      BY <1>9, <1>10
    <2>3. x.kind = "add" /\ x.chan = o /\ x.lsn = l0 /\ Tail(lq'[t]) = <<>>
      BY <1>9, <1>10
    <2>4. \A u \in Thread : emptied'[u] = Null
      BY <1>6, <1>10
    <2>5. l0 \notin gone'
      BY <1>4
    <2> HIDE DEF x
    <2> QED
      BY <1>12, <2>1, <2>2, <2>3, <2>4, <2>5 DEF QueuesFit
  <1>20. QueuesLocked'
    BY <1>4, <1>6, <1>10 DEF QueuesLocked
  <1>21. ScriptsInOrder'
    <2> SUFFICES ASSUME NEW u \in Thread
                 PROVE  /\ InOrder(script'[u])
                        /\ script'[u] # <<>> /\ Head(script'[u]).op = "unlock" =>
                             bus' = u /\ Lsn(u)' = Null
      BY DEF ScriptsInOrder
    <2>1. CASE u = t
      <3>1. script'[t] # <<>> /\ Head(script'[t]).op = "unlock" => Lsn(t)' = Null
        BY <1>0, <1>1, ScriptGoesOn, StepsFollow DEF Follows, Lsn
      <3> QED
        BY <1>0, <2>1, <3>1, ScriptGoesOn
    <2>2. CASE u # t
      <3>1. script'[u] = script[u]
        BY <1>0, <2>2, ScriptGoesOn
      <3>2. bus # u
        BY <1>4, <2>2, IdentitiesDiffer DEF MayLock
      <3> QED
        BY <1>0, <3>1, <3>2 DEF PromiseInv, ScriptsInOrder
    <2> QED
      BY <2>1, <2>2
  <1> QED
    BY <1>16, <1>17, <1>18, <1>19, <1>20, <1>21 DEF PromiseInv

\* A change is executed: who executes one has the mutex, so that no other is
\* queued.
LEMMA ChangeAtHand ==
    ASSUME OutsideInv, NEW t \in Thread, lq[t] # <<>>
    PROVE  /\ bus = t
           /\ \A u \in Thread \ {t} : lq[u] = <<>> /\ emptied[u] = Null /\ Range(lq[u]) = {}
           /\ Head(lq[t]) \in LsnItem
           /\ Range(lq[t]) = {Head(lq[t])} \cup Range(Tail(lq[t]))
  <1>1. lq[t] \in Seq(LsnItem)
    BY DEF OutsideInv, CastInv, TypeOK, QueuesTyped
  <1>2. bus = t
    BY DEF OutsideInv, PromiseInv, QueuesLocked
  <1>3. \A u \in Thread \ {t} : lq[u] = <<>> /\ emptied[u] = Null
    BY <1>2 DEF OutsideInv, PromiseInv, QueuesLocked
  <1>4. \A u \in Thread \ {t} : Range(lq[u]) = {}
    BY <1>3 DEF Range
  <1>5. Head(lq[t]) \in LsnItem
    BY <1>1
  <1> QED
    BY <1>1, <1>2, <1>3, <1>4, <1>5, RangeOfTail

LEMMA AddListenerKeepsPromises ==
    ASSUME PlainUse, OutsideInv, NEW t \in Thread, AddListener(t)
    PROVE  PromiseInv'
  <1>0. PromiseInv /\ TypeOK /\ DirTyped /\ DirectoryPlain
    BY DEF OutsideInv, CastInv, TypeOK, PromiseInv
  <1> DEFINE i == Head(lq[t])
             o == i.chan
             l0 == i.lsn
  <1>1. lq[t] # <<>> /\ i.kind = "add"
    BY DEF AddListener, NextChange
  <1>2. /\ bus = t /\ i \in LsnItem /\ i \in Range(lq[t])
        /\ \A u \in Thread \ {t} : lq[u] = <<>> /\ emptied[u] = Null
    BY <1>1, ChangeAtHand
  <1>3. o \in Chan /\ l0 \in Listener
    BY <1>1, <1>2, ItemFields
  <1>4. /\ Tail(lq[t]) = <<>> /\ emptied[t] = Null
        /\ id[o] \in Name /\ channels[id[o]] = o /\ l0 \notin gone
    BY <1>0, <1>1, <1>2 DEF PromiseInv, QueuesFit
  <1>5. /\ listeners' = [listeners EXCEPT ![o] = @ \cup {l0}]
        /\ lq' = [lq EXCEPT ![t] = Tail(@)]
        /\ UNCHANGED <<channels, id, owner, bus, script, emptied, intent, gone>>
    BY DEF AddListener, PopChange, histVars
  <1>6. \A u \in Thread : lq'[u] = <<>> /\ emptied'[u] = Null /\ Range(lq'[u]) = {}
    <2>1. \A u \in Thread : lq'[u] = <<>> /\ emptied'[u] = Null
      BY <1>0, <1>2, <1>4, <1>5 DEF TypeOK, QueuesTyped
    <2> QED
      BY <2>1 DEF Range
  <1>7. \A c \in Name : channels[c] = o <=> c = id[o]
    BY <1>3, <1>4, <1>0 DEF DirectoryPlain, NamesRight
  <1>8. ASSUME NEW l \in Listener, NEW c \in Name
        PROVE  <<l, c>> \in intent <=> Has(c, l) \/ (l = l0 /\ c = id[o])
    <2>1. Queued("add", l, c) <=> l = l0 /\ c = id[o]
      <3>1. Range(lq[t]) = {i}
        <4>1. Range(lq[t]) = {i} \cup Range(Tail(lq[t]))
          BY <1>1, ChangeAtHand
        <4>2. Range(Tail(lq[t])) = {}
          BY <1>4 DEF Range
        <4> QED
          BY <4>1, <4>2
      <3>2. \A u \in Thread \ {t} : Range(lq[u]) = {}
        BY <1>2 DEF Range
      <3>3. Queued("add", l, c) <=> Mapped(c) /\ [kind |-> "add", lsn |-> l, chan |-> channels[c]] = i
        BY <3>1, <3>2 DEF Queued
      <3>4. i = [kind |-> "add", lsn |-> l0, chan |-> o]
        BY <1>1, <1>2 DEF LsnItem
      <3>5. [kind |-> "add", lsn |-> l, chan |-> channels[c]] = i <=> l = l0 /\ channels[c] = o
        BY <3>4
      <3>6. c = id[o] => Mapped(c)
        BY <1>3, <1>4, IdentitiesDiffer DEF Mapped
      <3> QED
        BY <1>7, <3>3, <3>5, <3>6
    <2>2. ~Queued("remove", l, c)
      <3>1. \A x \in Range(lq[t]) : x = i
        <4>1. Range(lq[t]) = {i} \cup Range(Tail(lq[t]))
          BY <1>1, ChangeAtHand
        <4>2. Range(Tail(lq[t])) = {}
          BY <1>4 DEF Range
        <4> QED
          BY <4>1, <4>2
      <3>2. \A u \in Thread \ {t} : Range(lq[u]) = {}
        BY <1>2 DEF Range
      <3> QED
        BY <1>1, <3>1, <3>2 DEF Queued
    <2> QED
      BY <1>0, <2>1, <2>2 DEF PromiseInv, IntentQueued
  <1> HIDE DEF i
  <1>9. \A p \in Chan : listeners'[p] = IF p = o THEN listeners[p] \cup {l0} ELSE listeners[p]
    BY <1>0, <1>3, <1>5 DEF DirTyped
  <1>10. ASSUME NEW l \in Listener, NEW c \in Name
         PROVE  Has(c, l)' <=> Has(c, l) \/ (l = l0 /\ c = id[o])
    <2>1. channels[c] \in Chan \cup {Null} /\ channels'[c] = channels[c]
      BY <1>0, <1>5 DEF DirTyped
    <2> QED
      BY <1>3, <1>7, <1>9, <2>1, IdentitiesDiffer DEF Has, Mapped
  <1>11. IntentQueued'
    <2>1. \A l \in Listener, c \in Name : \A k : ~Queued(k, l, c)'
      BY <1>6 DEF Queued
    <2> QED
      BY <1>5, <1>8, <1>10, <2>1 DEF IntentQueued
  <1>12. GoneUnlisted'
    BY <1>0, <1>4, <1>5, <1>9 DEF PromiseInv, GoneUnlisted
  <1>13. DirectoryPlain'
    <2>1. \A p \in Chan : listeners'[p] # {} => \E c \in Name : channels'[c] = p
      BY <1>0, <1>4, <1>5, <1>9 DEF DirectoryPlain
    <2> QED
      BY <1>0, <1>5, <2>1 DEF DirectoryPlain, NamesRight
  <1>14. QueuesFit' /\ QueuesLocked'
    BY <1>6 DEF QueuesFit, QueuesLocked
  <1>15. ScriptsInOrder'
    <2> SUFFICES ASSUME NEW u \in Thread, script[u] # <<>>, Head(script[u]).op = "unlock"
                 PROVE  bus = u /\ Lsn(u) = Null
      BY <1>0, <1>5 DEF PromiseInv, ScriptsInOrder, Lsn
    <2>1. bus = u /\ (Lsn(u) # Null => \A x \in Range(lq[u]) : x.kind # "add")
      BY <1>0 DEF PromiseInv, ScriptsInOrder
    <2> QED
      BY <1>1, <1>2, <2>1
  <1> QED
    BY <1>11, <1>12, <1>13, <1>14, <1>15 DEF PromiseInv

LEMMA RemoveListenerKeepsPromises ==
    ASSUME PlainUse, OutsideInv, NEW t \in Thread, RemoveListener(t)
    PROVE  PromiseInv'
  <1>0. PromiseInv /\ TypeOK /\ DirTyped /\ DirectoryPlain
    BY DEF OutsideInv, CastInv, TypeOK, PromiseInv
  <1> DEFINE i == Head(lq[t])
             o == i.chan
             l0 == i.lsn
  <1>1. lq[t] # <<>> /\ i.kind = "remove" /\ running[t]
    BY DEF RemoveListener, NextChange, Draining
  <1>2. /\ bus = t /\ i \in LsnItem /\ i \in Range(lq[t])
        /\ Range(lq[t]) = {i} \cup Range(Tail(lq[t]))
        /\ \A u \in Thread \ {t} : lq[u] = <<>> /\ emptied[u] = Null /\ Range(lq[u]) = {}
    BY <1>1, ChangeAtHand
  <1>3. o \in Chan /\ l0 \in Listener
    BY <1>1, <1>2, ItemFields
  <1>4. NameKept(o)
    BY <1>0, <1>1, <1>2 DEF PromiseInv, QueuesFit
  <1>5. /\ listeners' = [listeners EXCEPT ![o] = @ \ {l0}]
        /\ lq' = [lq EXCEPT ![t] = Tail(@)]
        /\ emptied' = [emptied EXCEPT ![t] = IF EmptyAfter(o, l0) THEN o ELSE Null]
        /\ UNCHANGED <<channels, id, owner, bus, script, running, intent, gone>>
    BY DEF RemoveListener, PopChange, histVars
  <1>6. /\ lq'[t] = Tail(lq[t]) /\ emptied'[t] = (IF EmptyAfter(o, l0) THEN o ELSE Null)
        /\ \A u \in Thread \ {t} : lq'[u] = lq[u] /\ emptied'[u] = emptied[u]
    BY <1>0, <1>5 DEF TypeOK, QueuesTyped
  <1>7. i = [kind |-> "remove", lsn |-> l0, chan |-> o]
    BY <1>1, <1>2 DEF LsnItem
  <1>8. \A x \in Range(lq[t]) : x.kind # "add"
    <2> SUFFICES ASSUME NEW x \in Range(lq[t]), x.kind = "add" PROVE FALSE
      OBVIOUS
    <2>1. Tail(lq[t]) = <<>>
      BY <1>0 DEF PromiseInv, QueuesFit
    <2>2. Range(Tail(lq[t])) = {}
      BY <2>1 DEF Range
    <2> QED
      BY <1>1, <1>2, <2>2
  <1> HIDE DEF i
  <1>9. \A p \in Chan : listeners'[p] = IF p = o THEN listeners[p] \ {l0} ELSE listeners[p]
    BY <1>0, <1>3, <1>5 DEF DirTyped
  <1>10. \A l \in Listener, c \in Name : ~Queued("add", l, c) /\ ~Queued("add", l, c)'
    <2>1. Range(lq'[t]) \subseteq Range(lq[t]) /\ \A u \in Thread \ {t} : Range(lq'[u]) = {}
      BY <1>2, <1>6
    <2>2. \A u \in Thread : \A x : x \in Range(lq[u]) \/ x \in Range(lq'[u]) => x.kind # "add"
      BY <1>2, <1>8, <2>1
    <2> QED
      BY <2>2 DEF Queued
  <1>11. ASSUME NEW l \in Listener, NEW c \in Name
         PROVE  (Has(c, l) /\ ~Queued("remove", l, c)) <=> (Has(c, l)' /\ ~Queued("remove", l, c)')
    <2>1. channels[c] \in Chan \cup {Null} /\ channels'[c] = channels[c]
      BY <1>0, <1>5 DEF DirTyped
    <2> DEFINE x == [kind |-> "remove", lsn |-> l, chan |-> channels[c]]
    <2>2. /\ Queued("remove", l, c) <=> Mapped(c) /\ x \in Range(lq[t])
          /\ Queued("remove", l, c)' <=> Mapped(c) /\ x \in Range(Tail(lq[t]))
      BY <1>2, <1>6, <2>1 DEF Queued, Mapped
    <2>3. x = i <=> l = l0 /\ channels[c] = o
      BY <1>7
    <2>4. Has(c, l)' <=> Has(c, l) /\ x # i
      BY <1>9, <2>1, <2>3, IdentitiesDiffer DEF Has, Mapped
    <2>5. Has(c, l) => Mapped(c)
      BY DEF Has
    <2> HIDE DEF x
    <2> QED
      BY <1>2, <2>2, <2>4, <2>5
  <1>12. IntentQueued'
    BY <1>0, <1>5, <1>10, <1>11 DEF PromiseInv, IntentQueued
  <1>13. GoneUnlisted'
    BY <1>0, <1>5, <1>9 DEF PromiseInv, GoneUnlisted
  <1>14. DirectoryPlain'
    <2>1. \A p \in Chan : listeners'[p] # {} => \E c \in Name : channels'[c] = p
      BY <1>0, <1>5, <1>9 DEF DirectoryPlain
    <2> QED
      BY <1>0, <1>5, <2>1 DEF DirectoryPlain, NamesRight
  <1>15. QueuesLocked'
    BY <1>1, <1>2, <1>5, <1>6 DEF QueuesLocked
  <1>16. QueuesFit'
    <2>1. \A x \in Range(lq'[t]) : x \in Range(lq[t])
      BY <1>2, <1>6
    <2>2. \A p : NameKept(p)' = NameKept(p)
      BY <1>5 DEF NameKept
    <2>3. emptied'[t] # Null => emptied'[t] = o /\ listeners'[o] = {}
      BY <1>3, <1>6, <1>9 DEF EmptyAfter
    <2>4. \A x \in Range(lq'[t]) : x.kind # "add" /\ (x.kind = "remove" => NameKept(x.chan)')
      BY <1>0, <1>8, <2>1, <2>2 DEF PromiseInv, QueuesFit
    <2>5. \A u \in Thread \ {t} : Range(lq'[u]) = {} /\ emptied'[u] = Null
      BY <1>2, <1>6
    <2> QED
      BY <1>4, <2>2, <2>3, <2>4, <2>5 DEF QueuesFit
  <1>17. ScriptsInOrder'
    <2> SUFFICES ASSUME NEW u \in Thread, script[u] # <<>>, Head(script[u]).op = "unlock"
                 PROVE  /\ bus = u
                        /\ Lsn(u) # Null =>
                             /\ \A c \in Name : Has(c, Lsn(u))' => Queued("remove", Lsn(u), c)'
                             /\ \A x \in Range(lq'[u]) : x.kind # "add"
      BY <1>0, <1>5 DEF PromiseInv, ScriptsInOrder, Lsn
    <2>1. bus = u /\ (Lsn(u) # Null => \A c \in Name : Has(c, Lsn(u)) => Queued("remove", Lsn(u), c))
      BY <1>0 DEF PromiseInv, ScriptsInOrder
    <2>2. u = t /\ \A x \in Range(lq'[t]) : x.kind # "add"
      BY <1>2, <1>6, <1>8, <2>1
    <2>3. Lsn(u) \in Listener \cup {Null}
      <3>1. Head(script[u]) \in Instr
        BY <1>0 DEF TypeOK, CallTyped
      <3> QED
        BY <3>1, StepArguments DEF Lsn
    <2>4. ASSUME Lsn(u) # Null, NEW c \in Name, Has(c, Lsn(u))'
          PROVE  Queued("remove", Lsn(u), c)'
      <3>1. PICK l \in Listener : l = Lsn(u)
        BY <2>3, <2>4
      <3>2. Has(c, l)'
        BY <1>5, <2>4, <3>1 DEF Has, Mapped, Lsn
      <3>3. Has(c, l)
        BY <1>0, <1>5, <1>9, <3>2 DEF Has, Mapped, DirTyped
      <3>4. Queued("remove", l, c)'
        BY <1>11, <2>1, <2>4, <3>1, <3>2, <3>3
      <3> QED
        BY <1>5, <3>1, <3>4 DEF Lsn, Queued, Mapped
    <2> QED
      BY <1>5, <2>1, <2>2, <2>4 DEF Lsn
  <1> QED
    BY <1>12, <1>13, <1>14, <1>15, <1>16, <1>17 DEF PromiseInv

\* channel_is_empty() erases the channel that was found empty, or nothing.
LEMMA ChannelIsEmptyKeepsPromises ==
    ASSUME PlainUse, OutsideInv, NEW t \in Thread, ChannelIsEmpty(t)
    PROVE  PromiseInv'
  <1>0. PromiseInv /\ TypeOK /\ DirTyped /\ DirectoryPlain
    BY DEF OutsideInv, CastInv, TypeOK, PromiseInv
  <1>1. emptied[t] # Null /\ emptied[t] \in Chan
    BY <1>0 DEF ChannelIsEmpty, TypeOK, QueuesTyped
  <1>2. PICK o \in Chan : o = emptied[t]
    BY <1>1
  <1>3. NameKept(o) /\ listeners[o] = {} /\ running[t] /\ bus = t
    BY <1>0, <1>1, <1>2 DEF PromiseInv, QueuesFit, QueuesLocked
  <1>4. \A u \in Thread \ {t} : lq[u] = <<>> /\ emptied[u] = Null
    BY <1>0, <1>3 DEF PromiseInv, QueuesLocked
  <1>5. /\ channels' = [c \in Name |-> IF c = id[o] THEN Null ELSE channels[c]]
        /\ emptied' = [emptied EXCEPT ![t] = Null]
        /\ UNCHANGED <<id, owner, listeners, bus, script, running, lq, intent, gone>>
    BY <1>2 DEF ChannelIsEmpty, histVars
  <1>6. \A c \in Name : channels'[c] = channels[c] \/ (channels'[c] = Null /\ channels[c] = o)
    <2>1. \A c \in Name : c = id[o] => channels[c] \in {Null, o}
      BY <1>3 DEF NameKept
    <2> QED
      BY <1>5, <2>1
  <1>7. \A u \in Thread : emptied'[u] = Null
    BY <1>0, <1>4, <1>5 DEF TypeOK, QueuesTyped
  <1>8. \A u \in Thread : \A x \in Range(lq[u]) : x.kind # "add"
    <2> SUFFICES ASSUME NEW u \in Thread, NEW x \in Range(lq[u]), x.kind = "add" PROVE FALSE
      OBVIOUS
    <2>1. emptied[u] = Null
      BY <1>0 DEF PromiseInv, QueuesFit
    <2>2. lq[u] = <<>>
      BY <1>1, <1>4, <2>1
    <2> QED
      BY <2>2 DEF Range
  <1>9. \A l \in Listener, c \in Name : ~Queued("add", l, c) /\ ~Queued("add", l, c)'
    BY <1>5, <1>8 DEF Queued
  <1>10. \A l, c : c \in Name => (Has(c, l)' <=> Has(c, l))
    <2> SUFFICES ASSUME NEW l, NEW c \in Name PROVE Has(c, l)' <=> Has(c, l)
      OBVIOUS
    <2>1. CASE channels'[c] = channels[c]
      BY <1>5, <2>1 DEF Has, Mapped
    <2>2. CASE channels'[c] = Null /\ channels[c] = o
      BY <1>3, <2>2 DEF Has, Mapped
    <2> QED
      BY <1>6, <2>1, <2>2
  <1>11. \A l, c : c \in Name /\ Has(c, l) => (Queued("remove", l, c)' <=> Queued("remove", l, c))
    <2> SUFFICES ASSUME NEW l, NEW c \in Name, Has(c, l)
                 PROVE  Queued("remove", l, c)' <=> Queued("remove", l, c)
      OBVIOUS
    <2>1. channels[c] # o
      BY <1>3 DEF Has
    <2>2. channels'[c] = channels[c]
      BY <1>6, <2>1
    <2> QED
      BY <1>5, <2>2 DEF Queued, Mapped
  <1>12. IntentQueued'
    BY <1>0, <1>5, <1>9, <1>10, <1>11 DEF PromiseInv, IntentQueued
  <1>13. GoneUnlisted'
    BY <1>0, <1>5 DEF PromiseInv, GoneUnlisted
  <1>14. DirectoryPlain'
    <2>1. ASSUME NEW p \in Chan, listeners'[p] # {}
          PROVE  \E c \in Name : channels'[c] = p
      <3>1. PICK c \in Name : channels[c] = p
        BY <1>0, <1>5, <2>1 DEF DirectoryPlain
      <3>2. p # o
        BY <1>3, <1>5, <2>1
      <3> QED
        BY <1>6, <3>1, <3>2
    <2>2. NamesRight'
      BY <1>0, <1>5, <1>6, IdentitiesDiffer DEF DirectoryPlain, NamesRight
    <2> QED
      BY <1>0, <1>5, <2>1, <2>2 DEF DirectoryPlain
  <1>15. QueuesLocked'
    BY <1>0, <1>5, <1>7 DEF PromiseInv, QueuesLocked
  <1>16. QueuesFit'
    <2>1. \A p : NameKept(p) => NameKept(p)'
      BY <1>5, <1>6 DEF NameKept
    <2> QED
      BY <1>0, <1>5, <1>7, <1>8, <2>1 DEF PromiseInv, QueuesFit
  <1>17. ScriptsInOrder'
    <2> SUFFICES ASSUME NEW u \in Thread, script[u] # <<>>, Head(script[u]).op = "unlock"
                 PROVE  /\ bus = u
                        /\ Lsn(u) # Null =>
                             /\ \A c \in Name : Has(c, Lsn(u))' => Queued("remove", Lsn(u), c)'
                             /\ \A x \in Range(lq[u]) : x.kind # "add"
      BY <1>0, <1>5 DEF PromiseInv, ScriptsInOrder, Lsn
    <2>1. bus = u /\ (Lsn(u) # Null => \A c \in Name : Has(c, Lsn(u)) => Queued("remove", Lsn(u), c))
      BY <1>0 DEF PromiseInv, ScriptsInOrder
    <2>2. PICK l : l = Lsn(u)
      OBVIOUS
    <2>3. Lsn(u)' = l
      BY <1>5, <2>2 DEF Lsn
    <2>4. l # Null => \A c \in Name : Has(c, l)' => Queued("remove", l, c)'
      BY <1>10, <1>11, <2>1, <2>2
    <2> QED
      BY <1>8, <2>1, <2>2, <2>3, <2>4
  <1> QED
    BY <1>12, <1>13, <1>14, <1>15, <1>16, <1>17 DEF PromiseInv

\* The rest of what a thread's queues do changes no list.
LEMMA CastingKeepsPromises ==
    ASSUME PlainUse, OutsideInv, NEW t \in Thread,
           \/ Broadcast(t) \/ CallListener(t) \/ ReturnFromCallback(t) \/ EndBroadcast(t)
           \/ StopRunning(t)
    PROVE  PromiseInv'
  <1>0. PromiseInv /\ TypeOK
    BY DEF OutsideInv, CastInv
  <1>1. UNCHANGED <<channels, id, owner, listeners, bus, script, lq, emptied, intent, gone>>
    BY DEF Broadcast, CallListener, ReturnFromCallback, EndBroadcast, StopRunning, dirVars,
       queueVars, histVars
  <1>2. \A u \in Thread : lq[u] # <<>> \/ emptied[u] # Null => running'[u] = running[u]
    BY <1>0 DEF Broadcast, CallListener, ReturnFromCallback, EndBroadcast, StopRunning, queueVars,
       Draining, TypeOK, QueuesTyped
  <1>3. \A c, l, kind : Has(c, l)' = Has(c, l) /\ Queued(kind, l, c)' = Queued(kind, l, c)
    BY <1>1 DEF Has, Queued, Mapped
  <1>4. QueuesLocked'
    BY <1>0, <1>1, <1>2 DEF PromiseInv, QueuesLocked
  <1>5. ScriptsInOrder'
    BY <1>0, <1>1, <1>3 DEF PromiseInv, ScriptsInOrder, Lsn
  <1> QED
    BY <1>0, <1>1, <1>3, <1>4, <1>5 DEF PromiseInv, DirectoryPlain, NamesRight, QueuesFit, NameKept,
       IntentQueued, GoneUnlisted

LEMMA RemoveMailboxKeepsPromises ==
    ASSUME PlainUse, OutsideInv, NEW t \in Thread, RemoveMailbox(t)
    PROVE  PromiseInv'
  <1>0. PromiseInv /\ TypeOK
    BY DEF OutsideInv, CastInv
  <1> DEFINE i == Head(lq[t])
  <1>1. lq[t] # <<>> /\ i.kind = "mailbox"
    BY DEF RemoveMailbox, NextChange
  <1>2. /\ UNCHANGED <<channels, id, owner, listeners, bus, script, running, emptied, intent, gone>>
        /\ lq' = [lq EXCEPT ![t] = Tail(@)]
    BY DEF RemoveMailbox, PopChange, dirVars, histVars
  <1>3. lq'[t] = Tail(lq[t]) /\ \A u \in Thread \ {t} : lq'[u] = lq[u]
    BY <1>0, <1>2 DEF TypeOK, QueuesTyped
  <1>4. Range(lq[t]) = {i} \cup Range(lq'[t])
    BY <1>1, <1>3, ChangeAtHand
  <1>5. \A u \in Thread : \A x : x.kind \in {"add", "remove"} => (x \in Range(lq'[u]) <=> x \in Range(lq[u]))
    BY <1>1, <1>3, <1>4
  <1>6. \A c, l, kind : kind \in {"add", "remove"} =>
          (Has(c, l)' <=> Has(c, l)) /\ (Queued(kind, l, c)' <=> Queued(kind, l, c))
    BY <1>2, <1>5 DEF Has, Queued, Mapped
  <1>7. \A u \in Thread : lq'[u] # <<>> => lq[u] # <<>>
    BY <1>1, <1>3
  <1>8. QueuesLocked'
    BY <1>0, <1>2, <1>7 DEF PromiseInv, QueuesLocked
  <1>9. \A u \in Thread : \A x \in Range(lq'[u]) : x \in Range(lq[u])
    BY <1>3, <1>4
  <1>10. ASSUME NEW u \in Thread, NEW x \in Range(lq'[u]), x.kind = "add" PROVE Tail(lq'[u]) = <<>>
    <2>1. Tail(lq[u]) = <<>>
      BY <1>0, <1>9, <1>10 DEF PromiseInv, QueuesFit
    <2>2. u # t
      <3>1. u = t => Range(lq'[t]) = {}
        BY <1>3, <2>1 DEF Range
      <3> QED
        BY <1>10, <3>1
    <2> QED
      BY <1>3, <2>1, <2>2
  <1>11. QueuesFit'
    BY <1>0, <1>2, <1>9, <1>10 DEF PromiseInv, QueuesFit, NameKept
  <1>12. ScriptsInOrder'
    BY <1>0, <1>2, <1>6, <1>9 DEF PromiseInv, ScriptsInOrder, Lsn
  <1>13. IntentQueued'
    BY <1>0, <1>2, <1>6 DEF PromiseInv, IntentQueued
  <1> QED
    BY <1>0, <1>2, <1>8, <1>11, <1>12, <1>13 DEF PromiseInv, DirectoryPlain, NamesRight, GoneUnlisted

LEMMA CallKeepsPromises ==
    ASSUME PlainUse, OutsideInv, NEW t \in Thread, Call(t)
    PROVE  PromiseInv'
  <1>0. PromiseInv /\ TypeOK
    BY DEF OutsideInv, CastInv
  <1>1. UNCHANGED <<channels, id, owner, listeners, bus, running, lq, emptied, intent, gone>>
    BY DEF Call, dirVars, queueVars, histVars
  <1>2. Outside(t)
    BY DEF Call, PlainUse
  <1>3. PICK api \in OutsideCalls : \E code \in Programs[api] : script' = [script EXCEPT ![t] = code]
    BY <1>2 DEF Call
  <1>4. PICK code \in Programs[api] : script' = [script EXCEPT ![t] = code]
    BY <1>3
  <1>5. InOrder(code) /\ Head(code).op # "unlock"
    BY CallsKnown, PlainPrograms DEF PlainUse
  <1>6. script'[t] = code /\ \A u \in Thread \ {t} : script'[u] = script[u]
    BY <1>0, <1>4 DEF TypeOK, CallTyped
  <1>7. \A c, l, kind : Has(c, l)' = Has(c, l) /\ Queued(kind, l, c)' = Queued(kind, l, c)
    BY <1>1 DEF Has, Queued, Mapped
  <1>8. ScriptsInOrder'
    BY <1>0, <1>1, <1>5, <1>6, <1>7 DEF PromiseInv, ScriptsInOrder, Lsn
  <1> QED
    BY <1>0, <1>1, <1>7, <1>8 DEF PromiseInv, DirectoryPlain, NamesRight, QueuesFit, NameKept,
       QueuesLocked, IntentQueued, GoneUnlisted

LEMMA NextKeepsOutsideInv ==
    ASSUME PlainUse, OutsideInv, [Next]_vars
    PROVE  OutsideInv'
  <1>1. CastInv'
    BY NextKeepsCastInv DEF PlainUse, OutsideInv
  <1>2. PromiseInv'
    <2>1. ASSUME NEW t \in Thread, ApiStep(t) PROVE PromiseInv'
      BY <2>1, QueuesExecuted, SubscribeKeepsPromises, UnsubscribeKeepsPromises,
         UnsubscribeAllKeepsPromises, EraseMailboxKeepsPromises, PostingKeepsPromises,
         UnlockKeepsPromises DEF ApiStep
    <2>2. ASSUME NEW t \in Thread, QueueStep(t) PROVE PromiseInv'
      BY <2>2, AddListenerKeepsPromises, RemoveListenerKeepsPromises, ChannelIsEmptyKeepsPromises,
         RemoveMailboxKeepsPromises, CastingKeepsPromises DEF QueueStep
    <2>3. CASE UNCHANGED vars
      <3>1. UNCHANGED <<channels, id, owner, listeners, bus, script, running, lq, emptied, intent, gone>>
        BY <2>3 DEF vars, dirVars, queueVars, histVars
      <3>2. \A c, l, kind : Has(c, l)' = Has(c, l) /\ Queued(kind, l, c)' = Queued(kind, l, c)
        BY <3>1 DEF Has, Queued, Mapped
      <3> QED
        BY <3>1, <3>2 DEF OutsideInv, PromiseInv, ScriptsInOrder, Lsn, DirectoryPlain, NamesRight,
           QueuesFit, NameKept, QueuesLocked, IntentQueued, GoneUnlisted
    <2> QED
      BY <2>1, <2>2, <2>3, CallKeepsPromises DEF Next, Finished
  <1> QED
    BY <1>1, <1>2 DEF OutsideInv

LEMMA InitOutsideInv == Init => OutsideInv
  <1> SUFFICES ASSUME Init PROVE OutsideInv
    OBVIOUS
  <1>1. CastInv
    BY InitTyped DEF Init, CastInv, CallbackInBroadcast
  <1>2. \A c \in Name : ~Mapped(c)
    BY DEF Init, Mapped
  <1>3. \A c \in Name : \A l, kind : ~Has(c, l) /\ ~Queued(kind, l, c)
    BY <1>2 DEF Has, Queued
  <1>4. \A t \in Thread : script[t] = <<>> /\ lq[t] = <<>> /\ emptied[t] = Null /\ Range(lq[t]) = {}
    BY DEF Init, Range
  <1>5. ScriptsInOrder
    BY <1>4, ShortScripts DEF ScriptsInOrder
  <1>6. QueuesLocked /\ QueuesFit
    BY <1>4 DEF QueuesLocked, QueuesFit
  <1>7. DirectoryPlain
    BY <1>2, IdentitiesDiffer DEF Init, DirectoryPlain, NamesRight, Mapped
  <1>8. IntentQueued /\ GoneUnlisted
    BY <1>3 DEF Init, IntentQueued, GoneUnlisted
  <1> QED
    BY <1>1, <1>5, <1>6, <1>7, <1>8 DEF OutsideInv, PromiseInv

\* As long as callbacks make no calls and nobody uses groups, what the callers of
\* subscribe() and the ways to unsubscribe were told is what the listener lists
\* say, whatever the threads do at the same time: a change is executed before the
\* bus mutex is given up, although the lists have locks of their own.
THEOREM CallersAreToldTheTruth ==
    ASSUME PlainUse
    PROVE  Spec => []SubscriptionsHonoured
  <1>1. OutsideInv /\ [Next]_vars => OutsideInv'
    BY NextKeepsOutsideInv
  <1>2. OutsideInv => SubscriptionsHonoured
    <2> SUFFICES ASSUME OutsideInv, bus = Null PROVE intent = Subscribed
      BY DEF SubscriptionsHonoured
    <2>1. TypeOK /\ PromiseInv
      BY DEF OutsideInv, CastInv
    <2>2. \A u \in Thread : lq[u] = <<>>
      BY <2>1, IdentitiesDiffer DEF PromiseInv, QueuesLocked
    <2>3. \A l \in Listener, c \in Name : <<l, c>> \in intent <=> Has(c, l)
      BY <2>1, <2>2, IntentIsListed DEF PromiseInv
    <2>4. \A l \in Listener, c \in Name : Has(c, l) => owner[channels[c]] = Null
      BY <2>1, RegisteredKeepsName DEF Has, PromiseInv, TypeOK, DirectoryPlain
    <2>5. intent \subseteq Listener \X Name /\ Subscribed \subseteq Listener \X Name
      BY <2>1 DEF TypeOK, HistTyped, Subscribed
    <2>6. \A l \in Listener, c \in Name : <<l, c>> \in intent <=> <<l, c>> \in Subscribed
      BY <2>3, <2>4 DEF Subscribed
    <2> QED
      BY <2>5, <2>6
  <1> QED
    BY <1>1, <1>2, InitOutsideInv, PTL DEF Spec

\* What a program does that never answers a sender in private.
PublicStep == {step \in Instr : /\ step.op # "find_mailbox"
                                /\ step.op = "enqueue_msg" => step.arg \in Chan}
PublicMsg == {item \in MsgItem : item.to \in Chan}

LEMMA PublicPrograms ==
    ASSUME NEW api \in APIs \ {"add_to_group", "close_group", "reply"}, NEW code \in Programs[api]
    PROVE  code \in Seq(PublicStep)
  <1>1. /\ \A s1, s2, s3, s4 \in PublicStep :
             /\ <<s1>> \in Seq(PublicStep) /\ <<s1, s2>> \in Seq(PublicStep)
             /\ <<s1, s2, s3>> \in Seq(PublicStep) /\ <<s1, s2, s3, s4>> \in Seq(PublicStep)
    OBVIOUS
  <1>2. \A op, l, x : Step(op, l, x) \in Instr /\ op \notin {"find_mailbox", "enqueue_msg"}
                      => Step(op, l, x) \in PublicStep
    BY DEF PublicStep, Step
  <1>3. Unlock \in PublicStep
    BY StepsTyped DEF PublicStep, Unlock, Step
  <1>4. \A l \in Listener :
          /\ \A c \in Name : /\ Step("subscribe_lk", l, c) \in PublicStep
                             /\ Step("unsubscribe_lk", l, c) \in PublicStep
          /\ \A b \in {"and_groups", "public"} :
               Step("unsubscribe_all_channels_lk", l, b) \in PublicStep
          /\ Step("erase_mailbox_lk", l, Null) \in PublicStep
          /\ Step("erase_groups_lk", l, Null) \in PublicStep
          /\ Step("get_mailbox", l, Null) \in PublicStep
          /\ Step("unlock", l, Null) \in PublicStep
    BY <1>2, StepsTyped
  <1>5. \A l \in Listener \cup {Null}, c \in Name : Step("find_channel", l, c) \in PublicStep
    BY <1>2, StepsTyped
  <1>6. \A l \in Listener \cup {Null}, step \in PublicStep : SendCode(l, step) \in Seq(PublicStep)
    <2>1. \A a, b, c \in PublicStep : <<a, b>> \o <<c>> \in Seq(PublicStep) /\ <<>> \o <<c>> \in Seq(PublicStep)
      OBVIOUS
    <2> QED
      BY <1>3, <1>4, <2>1 DEF SendCode
  <1>7. CASE api = "subscribe"
    <2>1. PICK l \in Listener, c \in Name : code = <<Step("subscribe_lk", l, c), Unlock>>
      BY <1>7 DEF Programs
    <2> QED
      BY <1>1, <1>3, <1>4, <2>1
  <1>8. CASE api = "unsubscribe"
    <2>1. PICK l \in Listener, c \in Name : code = <<Step("unsubscribe_lk", l, c), Unlock>>
      BY <1>8 DEF Programs
    <2> QED
      BY <1>1, <1>3, <1>4, <2>1
  <1>9. CASE api = "unsubscribe_all"
    <2>1. PICK l \in Listener :
            code = <<Step("erase_mailbox_lk", l, Null), Step("erase_groups_lk", l, Null),
                     Step("unsubscribe_all_channels_lk", l, "and_groups"), Step("unlock", l, Null)>>
      BY <1>9 DEF Programs
    <2> QED
      BY <1>1, <1>4, <2>1
  <1>10. CASE api = "unsubcribe_private"
    <2>1. PICK l \in Listener : code = <<Step("erase_mailbox_lk", l, Null), Unlock>>
      BY <1>10 DEF Programs
    <2> QED
      BY <1>1, <1>3, <1>4, <2>1
  <1>11. CASE api = "replace"
    <2>1. PICK l \in Listener, c \in Name :
            code = <<Step("unsubscribe_all_channels_lk", l, "public"),
                     Step("subscribe_lk", l, c), Unlock>>
      BY <1>11 DEF Programs
    <2> QED
      BY <1>1, <1>3, <1>4, <2>1
  <1>12. CASE api = "post"
    <2>1. PICK c \in Name : code = SendCode(Null, Step("find_channel", Null, c))
      BY <1>12 DEF Programs
    <2> QED
      BY <1>5, <1>6, <2>1
  <1>13. CASE api = "send"
    <2>1. PICK l \in Listener, c \in Name : code = SendCode(l, Step("find_channel", l, c))
      BY <1>13 DEF Programs
    <2> QED
      BY <1>5, <1>6, <2>1
  <1> QED
    BY <1>7, <1>8, <1>9, <1>10, <1>11, <1>12, <1>13 DEF APIs

\* Nothing is broadcast to a mailbox, and nobody is called between broadcasts.
PublicInv ==
    \A t \in Thread :
      /\ script[t] \in Seq(PublicStep) /\ mq[t] \in Seq(PublicMsg)
      /\ casting[t] \in Chan \cup {Null}
      /\ casting[t] = Null => todo[t] = {}

LEMMA NextKeepsPublicInv ==
    ASSUME PlainUse, "reply" \notin OutsideCalls, OutsideInv, PublicInv, [Next]_vars
    PROVE  PublicInv'
  <1>0. TypeOK /\ CallbackInBroadcast
    BY DEF OutsideInv, CastInv
  <1>1. ASSUME NEW t \in Thread, Call(t) PROVE PublicInv'
    <2>1. UNCHANGED <<mq, casting, todo>>
      BY <1>1 DEF Call, queueVars, castVars
    <2>2. Outside(t)
      BY <1>1 DEF Call, PlainUse
    <2>3. PICK api \in OutsideCalls : \E code \in Programs[api] : script' = [script EXCEPT ![t] = code]
      BY <1>1, <2>2 DEF Call
    <2>4. PICK code \in Programs[api] : script' = [script EXCEPT ![t] = code]
      BY <2>3
    <2>5. code \in Seq(PublicStep)
      BY CallsKnown, PublicPrograms DEF PlainUse
    <2> QED
      BY <1>0, <2>1, <2>4, <2>5 DEF TypeOK, CallTyped, PublicInv
  <1>2. ASSUME NEW t \in Thread, ApiStep(t) PROVE PublicInv'
    <2>1. /\ Head(script[t]) \in PublicStep /\ Tail(script[t]) \in Seq(PublicStep)
          /\ Head(script[t]) \in Instr
      <3>1. PICK s \in Seq(PublicStep) : s = script[t] /\ s # <<>>
        BY <1>2, QueuesExecuted DEF PublicInv
      <3>2. Head(s) \in PublicStep /\ Tail(s) \in Seq(PublicStep)
        BY <3>1
      <3> QED
        BY <3>1, <3>2 DEF PublicStep
    <2>2. UNCHANGED <<casting, todo>> /\ ~AddToGroup(t) /\ ~AdmitMember(t) /\ ~CloseGroup(t)
      BY <1>2, QueuesExecuted DEF ApiStep, Subscribe, Unsubscribe, UnsubscribeAllChannels,
         EraseMailbox, EraseGroups, GetMailbox, FindMailbox, FindChannel, EnqueueMsg, UnlockBus,
         castVars
    <2>3. \A u \in Thread \ {t} : script'[u] = script[u]
      BY <1>2, ScriptGoesOn
    <2>4. ~FindMailbox(t)
      BY <2>1 DEF FindMailbox, At, PublicStep
    <2>5. script'[t] \in Seq(PublicStep)
      <3>1. CASE FindChannel(t)
        <4> DEFINE o == channels[Arg(t)]
                   m == Step("enqueue_msg", Lsn(t), o)
        <4>1. Lsn(t) \in Listener \cup {Null} /\ o \in Chan \cup {Null}
          BY <1>0, <2>1, <3>1, StepArguments DEF FindChannel, At, Lsn, Arg, TypeOK, DirTyped
        <4>2. o # Null => m \in PublicStep
          <5>1. o # Null => m \in Instr /\ m.op = "enqueue_msg" /\ m.arg = o
            BY <4>1, StepsTyped DEF Target, Step
          <5> QED
            BY <4>1, <5>1 DEF PublicStep
        <4>3. Unlock \in PublicStep
          BY StepsTyped DEF PublicStep, Unlock, Step
        <4>4. script'[t] = <<Unlock>> \o <<>> \/ (o # Null /\ script'[t] = <<Unlock>> \o <<m>>)
          BY <1>0, <3>1 DEF FindChannel, Continue, TypeOK, CallTyped
        <4>5. \A a, b \in PublicStep : <<a>> \o <<>> \in Seq(PublicStep) /\ <<a>> \o <<b>> \in Seq(PublicStep)
          OBVIOUS
        <4> HIDE DEF m
        <4> QED
          BY <4>2, <4>3, <4>4, <4>5
      <3>2. CASE ~FindChannel(t)
        <4>1. Done(t)
          BY <1>2, <2>2, <2>4, <3>2 DEF ApiStep, Subscribe, Unsubscribe, UnsubscribeAllChannels,
             EraseMailbox, EraseGroups, GetMailbox, EnqueueMsg, UnlockBus, Enlist
        <4> QED
          BY <1>0, <2>1, <4>1 DEF Done, TypeOK, CallTyped
      <3> QED
        BY <3>1, <3>2
    <2>6. \A u \in Thread : mq'[u] \in Seq(PublicMsg)
      <3>1. CASE EnqueueMsg(t)
        <4> DEFINE m == [to |-> Arg(t), from |-> Lsn(t), num |-> posted[t] + 1]
        <4>1. Arg(t) \in Chan
          BY <2>1, <3>1 DEF EnqueueMsg, At, PublicStep, Arg
        <4>2. m \in PublicMsg
          <5>1. Lsn(t) \in Listener \cup {Null} /\ posted[t] + 1 \in Nat
            BY <1>0, <2>1, StepArguments DEF Lsn, TypeOK, CallTyped
          <5> QED
            BY <4>1, <5>1 DEF PublicMsg, MsgItem, Target
        <4>3. mq' = [mq EXCEPT ![t] = Append(@, m)]
          BY <3>1 DEF EnqueueMsg
        <4> HIDE DEF m
        <4>4. Append(mq[t], m) \in Seq(PublicMsg)
          BY <4>2 DEF PublicInv
        <4> QED
          BY <1>0, <4>3, <4>4 DEF PublicInv, TypeOK, QueuesTyped
      <3>2. CASE ~EnqueueMsg(t)
        <4>1. UNCHANGED mq
          BY <1>2, <2>2, <3>2 DEF ApiStep, Subscribe, Unsubscribe, UnsubscribeAllChannels,
             EraseMailbox, EraseGroups, GetMailbox, FindMailbox, FindChannel, UnlockBus, Enlist,
             EnqueueLsn, queueVars
        <4> QED
          BY <4>1 DEF PublicInv
      <3> QED
        BY <3>1, <3>2
    <2> QED
      BY <2>2, <2>3, <2>5, <2>6 DEF PublicInv
  <1>3. ASSUME NEW t \in Thread, QueueStep(t) PROVE PublicInv'
    <2>1. UNCHANGED script
      BY <1>3 DEF QueueStep, AddListener, RemoveListener, ChannelIsEmpty, RemoveMailbox, Broadcast,
         CallListener, ReturnFromCallback, EndBroadcast, StopRunning
    <2>2. CASE Broadcast(t)
      <3>1. mq[t] \in Seq(PublicMsg) /\ mq[t] # <<>>
        BY <2>2 DEF PublicInv, Broadcast
      <3>2. Head(mq[t]).to \in Chan /\ Tail(mq[t]) \in Seq(PublicMsg)
        BY <3>1 DEF PublicMsg
      <3>3. /\ casting' = [casting EXCEPT ![t] = Head(mq[t]).to]
            /\ mq' = [mq EXCEPT ![t] = Tail(@)]
            /\ \A u \in Thread \ {t} : todo'[u] = todo[u]
        BY <1>0, <2>2 DEF Broadcast, TakeMsg, TypeOK, CastTyped
      <3> QED
        BY <1>0, <2>1, <3>2, <3>3, IdentitiesDiffer DEF PublicInv, TypeOK, CastTyped, QueuesTyped
    <2>3. CASE ~Broadcast(t)
      <3>1. UNCHANGED mq /\ \A u \in Thread \ {t} : casting'[u] = casting[u] /\ todo'[u] = todo[u]
        BY <1>0, <1>3, <2>3 DEF QueueStep, AddListener, RemoveListener, ChannelIsEmpty,
           RemoveMailbox, CallListener, ReturnFromCallback, EndBroadcast, StopRunning, queueVars,
           castVars, TypeOK, CastTyped
      <3>2. /\ casting'[t] \in {casting[t], Null}
            /\ casting'[t] = Null => todo'[t] = {}
        BY <1>0, <1>3, <2>3 DEF QueueStep, AddListener, RemoveListener, ChannelIsEmpty,
           RemoveMailbox, CallListener, ReturnFromCallback, EndBroadcast, StopRunning, queueVars,
           castVars, TypeOK, CastTyped, PublicInv
      <3> QED
        BY <2>1, <3>1, <3>2 DEF PublicInv
    <2> QED
      BY <2>2, <2>3
  <1>4. CASE UNCHANGED vars
    BY <1>4 DEF vars, queueVars, castVars, PublicInv
  <1> QED
    BY <1>1, <1>2, <1>3, <1>4 DEF Next, Finished

\* When unsubscribe_all() has returned, a listener may be destroyed: no thread is
\* in its callback, and none will enter it, provided that callbacks make no calls
\* and nobody uses groups or private answers. (A broadcast to a mailbox is not
\* waited for.)
THEOREM UnsubscribedMayBeDestroyed ==
    ASSUME PlainUse, "reply" \notin OutsideCalls
    PROVE  Spec => []GoneIsQuiet
  <1> DEFINE Inv == OutsideInv /\ CallInv /\ PublicInv
  <1>1. Init => Inv
    <2> SUFFICES ASSUME Init PROVE CallInv /\ PublicInv
      BY InitOutsideInv
    <2>1. CallInv
      BY InitTyped, IdentitiesDiffer DEF Init, CallInv, CallbackInBroadcast, CalledAreListed
    <2>2. PublicInv
      <3>1. <<>> \in Seq(PublicStep) /\ <<>> \in Seq(PublicMsg)
        OBVIOUS
      <3> QED
        BY <3>1 DEF Init, PublicInv
    <2> QED
      BY <2>1, <2>2
  <1>2. Inv /\ [Next]_vars => Inv'
    BY NextKeepsOutsideInv, NextKeepsCallInv, NextKeepsPublicInv
  <1>3. Inv => GoneIsQuiet
    <2> SUFFICES ASSUME Inv, NEW l \in gone, NEW t \in Thread
                 PROVE  /\ l \notin CalledNowOrNext(t)
                        /\ \A o \in Chan : l \notin listeners[o]
      BY DEF GoneIsQuiet
    <2>1. \A o \in Chan : l \notin listeners[o]
      BY DEF OutsideInv, PromiseInv, GoneUnlisted
    <2>2. CASE casting[t] \in Chan
      BY <2>1, <2>2 DEF CallInv, CalledAreListed
    <2>3. CASE casting[t] = Null
      BY <2>1, <2>3 DEF CallInv, CallbackInBroadcast, PublicInv, CalledNowOrNext
    <2> QED
      BY <2>1, <2>2, <2>3 DEF PublicInv
  <1> QED
    BY <1>1, <1>2, <1>3, PTL DEF Spec

=============================================================================

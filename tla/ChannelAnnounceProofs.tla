----------------------- MODULE ChannelAnnounceProofs -----------------------
(***************************************************************************)
(* Theorems about send_mine_channels(), for any number of threads,         *)
(* channels and peer events: its lock excludes, and no change is lost.     *)
(***************************************************************************)
EXTENDS ChannelAnnounce, TLAPS, FiniteSetTheorems

LEMMA InitTyped == Init => TypeOK
  <1> SUFFICES ASSUME Init PROVE TypeOK
    OBVIOUS
  <1>1. BusTyped
    BY DEF Init, BusTyped
  <1>2. CallTyped
    BY DEF Init, CallTyped
  <1>3. PeerTyped
    <2>1. <<>> \in Seq(Update) /\ <<>> \in Seq({"ChannelReset", "NewSession"})
      OBVIOUS
    <2>2. {} \subseteq Chan /\ TRUE \in BOOLEAN /\ FALSE \in BOOLEAN
      OBVIOUS
    <2> QED
      BY <2>1, <2>2 DEF Init, PeerTyped
  <1>4. CountsTyped
    BY CallsFitCounter, EventsNat DEF Init, CountsTyped
  <1> QED
    BY <1>1, <1>2, <1>3, <1>4 DEF TypeOK

LEMMA AnnouncementsTyped ==
    ASSUME CallTyped, NEW now \in SUBSET Chan, NEW whole
    PROVE  Announcements(now, whole) \in Seq(Update)
  <1>1. \A op \in {"replace", "add", "erase"}, chans \in SUBSET Chan :
          Announce(op, chans) \in Seq(Update)
    <2> SUFFICES ASSUME NEW op \in {"replace", "add", "erase"}, NEW chans \in SUBSET Chan
                 PROVE  Announce(op, chans) \in Seq(Update)
      OBVIOUS
    <2>1. [op |-> op, chans |-> chans] \in Update
      BY DEF Update
    <2> QED
      BY <2>1 DEF Announce
  <1>2. <<[op |-> "replace", chans |-> {}]>> \in Seq(Update)
    BY DEF Update
  <1>3. ChangesOf(cur, now) \in Seq(Update)
    <2>1. now \ cur \in SUBSET Chan /\ cur \ now \in SUBSET Chan
      BY DEF CallTyped
    <2> QED
      BY <1>1, <2>1 DEF ChangesOf
  <1> QED
    BY <1>1, <1>2, <1>3 DEF Announcements

LEMMA TailTyped ==
    ASSUME NEW S, NEW s \in Seq(S), s # <<>>
    PROVE  Tail(s) \in Seq(S)
  OBVIOUS

LEMMA CallKeepsTypes ==
    ASSUME TypeOK, NEW t \in Thread, Call(t)
    PROVE  TypeOK'
  <1>1. CallAnnounce(t, FALSE) \/ CallAnnounce(t, TRUE)
    BY DEF Call, ChannelsUpdate, ToggleCycle, ReceiveChannelReset, ReceiveNewSession
  <1>2. UNCHANGED <<lock, lst, cur, wire, peer, deaf, valid, returned, events>>
    BY DEF Call, ChannelsUpdate, ToggleCycle, ReceiveChannelReset, ReceiveNewSession, peerVars
  <1>3. BusTyped'
    BY DEF Call, ChannelsUpdate, ToggleCycle, ReceiveChannelReset, ReceiveNewSession,
           BusTyped, TypeOK, busVars
  <1>4. CallTyped'
    BY <1>1, <1>2 DEF CallTyped, TypeOK, CallAnnounce
  <1>5. PeerTyped'
    <2>1. inbox' = inbox \/ (inbox' = Tail(inbox) /\ inbox # <<>>)
      BY DEF Call, ChannelsUpdate, ToggleCycle, ReceiveChannelReset, ReceiveNewSession, peerVars
    <2>2. inbox \in Seq({"ChannelReset", "NewSession"})
      BY DEF PeerTyped, TypeOK
    <2>3. inbox' \in Seq({"ChannelReset", "NewSession"})
      BY <2>1, <2>2, TailTyped
    <2> QED
      BY <1>2, <2>3 DEF PeerTyped, TypeOK
  <1>6. CountsTyped'
    BY <1>1, <1>2, CallsFitCounter DEF CountsTyped, TypeOK, CallAnnounce
  <1> QED
    BY <1>3, <1>4, <1>5, <1>6 DEF TypeOK

LEMMA ThreadStepKeepsTypes ==
    ASSUME TypeOK, NEW t \in Thread, ThreadStep(t)
    PROVE  TypeOK'
  <1>1. BusTyped'
    BY DEF ThreadStep, Enter, Collect, Process, Release, Return, busVars, BusTyped, TypeOK
  <1>2. CallTyped'
    <2>1. CASE Enter(t)
      <3>1. lock' \in Nat
        BY <2>1 DEF Enter, lock_flag, reset_flag, CallTyped, TypeOK
      <3>2. \E next \in {"idle", "collect"} : pc' = [pc EXCEPT ![t] = next]
        BY <2>1 DEF Enter, Return
      <3>3. reset' = reset \/ reset' = [reset EXCEPT ![t] = FALSE]
        BY <2>1 DEF Enter, Return
      <3>4. reset' \in [Thread -> BOOLEAN]
        BY <3>3 DEF CallTyped, TypeOK
      <3>5. UNCHANGED <<lst, cur>>
        BY <2>1 DEF Enter
      <3> QED
        BY <3>1, <3>2, <3>4, <3>5 DEF CallTyped, TypeOK
    <2>2. CASE Collect(t)
      BY <2>2 DEF Collect, CallTyped, BusTyped, TypeOK
    <2>3. CASE Process(t)
      BY <2>3 DEF Process, CallTyped, TypeOK
    <2>4. CASE Release(t)
      <3>1. lock' \in Nat /\ UNCHANGED <<lst, cur>>
        BY <2>4 DEF Release, Unlocked
      <3>2. \E next \in {"idle", "enter"} : pc' = [pc EXCEPT ![t] = next]
        BY <2>4 DEF Release, Return
      <3> DEFINE whole == lock \div reset_flag > 1
      <3>3. reset' = [reset EXCEPT ![t] = FALSE] \/ reset' = [reset EXCEPT ![t] = whole]
        BY <2>4 DEF Release, Return
      <3>4. whole \in BOOLEAN
        OBVIOUS
      <3> HIDE DEF whole
      <3>5. reset' \in [Thread -> BOOLEAN]
        BY <3>3, <3>4 DEF CallTyped, TypeOK
      <3> QED
        BY <3>1, <3>2, <3>5 DEF CallTyped, TypeOK
    <2> QED
      BY <2>1, <2>2, <2>3, <2>4 DEF ThreadStep
  <1>3. PeerTyped'
    <2>1. wire' \in Seq(Update)
      <3>1. CASE Process(t)
        <4>1. (IF cycle THEN {} ELSE lst[t]) \in SUBSET Chan
          BY DEF CallTyped, TypeOK
        <4> QED
          BY <3>1, <4>1, AnnouncementsTyped DEF Process, PeerTyped, TypeOK
      <3>2. CASE ~Process(t)
        BY <3>2 DEF ThreadStep, Enter, Collect, Release, peerVars, PeerTyped, TypeOK
      <3> QED
        BY <3>1, <3>2
    <2>2. UNCHANGED <<peer, deaf, inbox, valid>>
      BY DEF ThreadStep, Enter, Collect, Process, Release, peerVars
    <2> QED
      BY <2>1, <2>2 DEF PeerTyped, TypeOK
  <1>4. CountsTyped'
    BY DEF ThreadStep, Enter, Collect, Process, Release, Return, counters, CountsTyped, TypeOK
  <1> QED
    BY <1>1, <1>2, <1>3, <1>4 DEF TypeOK

LEMMA PeerKeepsTypes ==
    ASSUME TypeOK, Peer
    PROVE  TypeOK'
  <1> USE DEF Peer, PeerReceives, PeerFindsCycle, PeerLeavesCycle, Reconnect, PeerEvent
  <1>1. BusTyped' /\ CallTyped'
    BY DEF BusTyped, CallTyped, TypeOK, busVars, callVars
  <1>2. PeerTyped'
    <2>1. CASE PeerReceives
      <3>1. Head(wire) \in Update /\ wire' \in Seq(Update)
        BY <2>1 DEF PeerTyped, TypeOK
      <3>2. Apply(peer, Head(wire)) \subseteq Chan
        BY <3>1 DEF Apply, Update, PeerTyped, TypeOK
      <3>3. peer' \subseteq Chan /\ UNCHANGED <<deaf, inbox>>
        BY <2>1, <3>2 DEF PeerTyped, TypeOK
      <3>4. valid' \in BOOLEAN
        BY <2>1 DEF PeerTyped, TypeOK
      <3> QED
        BY <3>1, <3>3, <3>4 DEF PeerTyped, TypeOK
    <2>2. CASE PeerFindsCycle \/ PeerLeavesCycle
      <3>1. inbox' \in {inbox, Append(inbox, "ChannelReset")}
        BY <2>2
      <3>2. inbox' \in Seq({"ChannelReset", "NewSession"})
        BY <3>1 DEF PeerTyped, TypeOK
      <3>3. wire' = wire /\ peer' \in {peer, {}}
        BY <2>2
      <3>4. deaf' \in BOOLEAN
        BY <2>2
      <3>5. valid' \in BOOLEAN
        BY <2>2 DEF PeerTyped, TypeOK
      <3> QED
        BY <3>2, <3>3, <3>4, <3>5 DEF PeerTyped, TypeOK
    <2>3. CASE Reconnect
      <3>1. wire' \in Seq(Update) /\ inbox' \in Seq({"ChannelReset", "NewSession"})
        BY <2>3
      <3> QED
        BY <2>3, <3>1 DEF PeerTyped
    <2> QED
      BY <2>1, <2>2, <2>3
  <1>3. CountsTyped'
    BY EventsNat DEF CountsTyped, TypeOK, counters
  <1> QED
    BY <1>1, <1>2, <1>3 DEF TypeOK

LEMMA NextKeepsTypes == TypeOK /\ [Next]_vars => TypeOK'
  <1>1. ASSUME TypeOK, UNCHANGED vars
        PROVE  TypeOK'
    BY <1>1 DEF TypeOK, BusTyped, CallTyped, PeerTyped, CountsTyped, vars, busVars, callVars,
       peerVars, counters
  <1> QED
    BY <1>1, CallKeepsTypes, ThreadStepKeepsTypes, PeerKeepsTypes DEF Next, Finished

\* The state of send_mine_channels() and of its surroundings is well typed; in
\* particular the unsigned counter never falls below zero.
THEOREM TypeCorrect == Spec => []TypeOK
  BY InitTyped, NextKeepsTypes, PTL DEF Spec

-----------------------------------------------------------------------------
(* The lock.                                                               *)

LockInv == TypeOK /\ OneAnnouncer

LEMMA NextKeepsLock == LockInv /\ [Next]_vars => LockInv'
  <1> SUFFICES ASSUME LockInv, [Next]_vars
               PROVE  OneAnnouncer'
    BY NextKeepsTypes DEF LockInv
  <1> USE DEF LockInv
  <1>1. ASSUME NEW t \in Thread, Call(t)
        PROVE  OneAnnouncer'
    <2>1. lock' = lock /\ pc[t] = "idle" /\ pc' = [pc EXCEPT ![t] = "enter"]
      BY <1>1 DEF Call, ChannelsUpdate, ToggleCycle, ReceiveChannelReset, ReceiveNewSession,
         CallAnnounce
    <2> QED
      BY <2>1 DEF OneAnnouncer, Announcing, CallTyped, TypeOK
  <1>2. ASSUME NEW t \in Thread, Enter(t)
        PROVE  OneAnnouncer'
    <2>1. pc[t] = "enter" /\ lock \in Nat /\ lock' # 0
      BY <1>2 DEF Enter, lock_flag, reset_flag, CallTyped, TypeOK
    <2>2. CASE lock = 0
      <3>1. pc' = [pc EXCEPT ![t] = "collect"]
        BY <1>2, <2>2 DEF Enter, Occupied
      <3> QED
        BY <2>1, <2>2, <3>1 DEF OneAnnouncer, Announcing, CallTyped, TypeOK
    <2>3. CASE lock # 0
      <3>1. pc' = [pc EXCEPT ![t] = "idle"]
        BY <1>2, <2>3 DEF Enter, Occupied, Return
      <3> QED
        BY <2>1, <2>3, <3>1 DEF OneAnnouncer, Announcing, CallTyped, TypeOK
    <2> QED
      BY <2>2, <2>3
  <1>3. ASSUME NEW t \in Thread, Collect(t) \/ Process(t)
        PROVE  OneAnnouncer'
    <2>1. /\ lock' = lock /\ Announcing(t)
          /\ \E next \in {"process", "release"} : pc' = [pc EXCEPT ![t] = next]
      BY <1>3 DEF Collect, Process, Announcing
    <2> QED
      BY <2>1 DEF OneAnnouncer, Announcing, CallTyped, TypeOK
  <1>4. ASSUME NEW t \in Thread, Release(t)
        PROVE  OneAnnouncer'
    <2>1. /\ lock' = 0 /\ Announcing(t)
          /\ \E next \in {"enter", "idle"} : pc' = [pc EXCEPT ![t] = next]
      BY <1>4 DEF Release, Return, Unlocked, Announcing
    <2> QED
      BY <2>1 DEF OneAnnouncer, Announcing, CallTyped, TypeOK
  <1>5. ASSUME Peer \/ UNCHANGED vars
        PROVE  OneAnnouncer'
    <2>1. UNCHANGED <<lock, pc>>
      BY <1>5 DEF Peer, PeerReceives, PeerFindsCycle, PeerLeavesCycle, Reconnect, vars, callVars
    <2> QED
      BY <2>1 DEF OneAnnouncer, Announcing
  <1> QED
    BY <1>1, <1>2, <1>3, <1>4, <1>5 DEF Next, ThreadStep, Finished

\* The lists of the bridge are never used by two threads at once, and the lock
\* is free whenever nobody uses them.
THEOREM LockExcludes == Spec => []OneAnnouncer
  <1>1. Init => LockInv
    BY InitTyped DEF Init, LockInv, OneAnnouncer, Announcing
  <1>2. LockInv => OneAnnouncer
    BY DEF LockInv
  <1> QED
    BY <1>1, <1>2, NextKeepsLock, PTL DEF Spec

-----------------------------------------------------------------------------
(* Counting the calls.                                                     *)

Busy == {t \in Thread : pc[t] # "idle"}

\* The counter holds one for the announcer and one for every call it turned
\* away; it cannot overflow into the resets because every call returns once.
CountInv ==
    /\ Cardinality(Busy) + returned = calls
    /\ lock # 0 => lock % reset_flag \in 1..(1 + returned)

\* What a caller adds to the counter.
LEMMA EnterAdds ==
    ASSUME NEW t \in Thread, Enter(t)
    PROVE  lock' = lock + 1 + 0 \/ lock' = lock + 1 + 1024
  <1>1. CASE reset[t]
    BY <1>1 DEF Enter, lock_flag, reset_flag
  <1>2. CASE ~reset[t]
    BY <1>2 DEF Enter, lock_flag, reset_flag
  <1> QED
    BY <1>1, <1>2

LEMMA BusyGrows ==
    ASSUME CallTyped, NEW t \in Thread, pc[t] = "idle", NEW next, next # "idle",
           pc' = [pc EXCEPT ![t] = next]
    PROVE  /\ IsFiniteSet(Busy)
           /\ Cardinality(Busy') = Cardinality(Busy) + 1
  <1>1. Busy' = Busy \cup {t} /\ t \notin Busy
    BY DEF Busy, CallTyped
  <1>2. IsFiniteSet(Busy)
    BY ThreadsFinite, FS_Subset DEF Busy
  <1> QED
    BY <1>1, <1>2, FS_AddElement

LEMMA BusyShrinks ==
    ASSUME CallTyped, NEW t \in Thread, pc[t] # "idle",
           pc' = [pc EXCEPT ![t] = "idle"]
    PROVE  /\ IsFiniteSet(Busy)
           /\ Cardinality(Busy') = Cardinality(Busy) - 1
  <1>1. Busy' = Busy \ {t} /\ t \in Busy
    BY DEF Busy, CallTyped
  <1>2. IsFiniteSet(Busy)
    BY ThreadsFinite, FS_Subset DEF Busy
  <1> QED
    BY <1>1, <1>2, FS_RemoveElement

LEMMA BusyStays ==
    ASSUME CallTyped, NEW t \in Thread, pc[t] # "idle", NEW next, next # "idle",
           pc' = [pc EXCEPT ![t] = next]
    PROVE  Busy' = Busy
  BY DEF Busy, CallTyped

\* There is always room in the ten bits for one call more.
LEMMA RoomForCall ==
    ASSUME LockInv, CountInv, NEW t \in Thread, pc[t] # "idle"
    PROVE  returned < reset_flag - 2
  <1>1. Cardinality(Busy) \in Nat /\ Cardinality(Busy) # 0
    <2>1. IsFiniteSet(Busy) /\ t \in Busy
      BY ThreadsFinite, FS_Subset DEF Busy
    <2> QED
      BY <2>1, FS_CardinalityType, FS_EmptySet
  <1> QED
    BY <1>1, CallsFitCounter DEF CountInv, LockInv, TypeOK, CountsTyped, reset_flag

LEMMA NextKeepsCount == LockInv /\ CountInv /\ [Next]_vars => CountInv'
  <1> SUFFICES ASSUME LockInv, CountInv, [Next]_vars
               PROVE  CountInv'
    OBVIOUS
  <1> USE DEF LockInv, TypeOK
  <1>0. Cardinality(Busy) \in Nat /\ calls \in Nat /\ returned \in Nat /\ lock \in Nat
    <2>1. IsFiniteSet(Busy)
      BY ThreadsFinite, FS_Subset DEF Busy
    <2> QED
      BY <2>1, FS_CardinalityType, CallsFitCounter DEF CountsTyped, CallTyped
  <1>1. ASSUME NEW t \in Thread, Call(t)
        PROVE  CountInv'
    <2>1. /\ pc[t] = "idle" /\ pc' = [pc EXCEPT ![t] = "enter"]
          /\ calls' = calls + 1 /\ UNCHANGED <<lock, returned>>
      BY <1>1 DEF Call, ChannelsUpdate, ToggleCycle, ReceiveChannelReset, ReceiveNewSession,
         CallAnnounce
    <2>2. Cardinality(Busy') = Cardinality(Busy) + 1
      BY <2>1, BusyGrows
    <2> QED
      BY <1>0, <2>1, <2>2 DEF CountInv
  <1>2. ASSUME NEW t \in Thread, Enter(t)
        PROVE  CountInv'
    <2>1. /\ pc[t] = "enter" /\ calls' = calls
          /\ lock' = lock + 1 + 0 \/ lock' = lock + 1 + 1024
      BY <1>2, EnterAdds DEF Enter
    <2>2. CASE lock = 0
      <3>1. pc' = [pc EXCEPT ![t] = "collect"] /\ returned' = returned
        BY <1>2, <2>2 DEF Enter, Occupied
      <3>2. Busy' = Busy
        BY <2>1, <3>1, BusyStays
      <3>3. lock' % reset_flag = 1
        BY <2>1, <2>2 DEF reset_flag
      <3> QED
        BY <1>0, <2>1, <3>1, <3>2, <3>3 DEF CountInv
    <2>3. CASE lock # 0
      <3>1. pc' = [pc EXCEPT ![t] = "idle"] /\ returned' = returned + 1
        BY <1>2, <2>3 DEF Enter, Occupied, Return
      <3>2. Cardinality(Busy') = Cardinality(Busy) - 1
        BY <2>1, <3>1, BusyShrinks, ZenonT(40)
      <3>3. lock % 1024 \in 1..(1 + returned) /\ returned < 1022
        BY <2>1, <2>3, RoomForCall DEF CountInv, reset_flag
      <3>4. lock' % 1024 = (lock % 1024) + 1
        BY <1>0, <2>1, <3>3
      <3> QED
        BY <1>0, <2>1, <3>1, <3>2, <3>3, <3>4 DEF CountInv, reset_flag
    <2> QED
      BY <2>2, <2>3
  <1>3. ASSUME NEW t \in Thread, Collect(t) \/ Process(t)
        PROVE  CountInv'
    <2>1. /\ pc[t] # "idle" /\ UNCHANGED <<lock, calls, returned>>
          /\ \E next \in {"process", "release"} : pc' = [pc EXCEPT ![t] = next]
      BY <1>3 DEF Collect, Process, counters
    <2>2. Busy' = Busy
      BY <2>1, BusyStays
    <2> QED
      BY <2>1, <2>2 DEF CountInv
  <1>4. ASSUME NEW t \in Thread, Release(t)
        PROVE  CountInv'
    <2>1. lock' = 0 /\ pc[t] = "release" /\ calls' = calls
      BY <1>4 DEF Release, Unlocked
    <2>2. CASE pc' = [pc EXCEPT ![t] = "enter"] /\ returned' = returned
      <3>1. Busy' = Busy
        BY <2>1, <2>2, BusyStays
      <3> QED
        BY <2>1, <2>2, <3>1 DEF CountInv
    <2>3. CASE pc' = [pc EXCEPT ![t] = "idle"] /\ returned' = returned + 1
      <3>1. Cardinality(Busy') = Cardinality(Busy) - 1
        BY <2>1, <2>3, BusyShrinks
      <3> QED
        BY <1>0, <2>1, <2>3, <3>1 DEF CountInv
    <2> QED
      BY <1>4, <2>2, <2>3 DEF Release, Return
  <1>5. ASSUME Peer \/ UNCHANGED vars
        PROVE  CountInv'
    <2>1. UNCHANGED <<lock, pc, calls, returned>>
      BY <1>5 DEF Peer, PeerReceives, PeerFindsCycle, PeerLeavesCycle, Reconnect, vars, callVars,
         counters
    <2> QED
      BY <2>1 DEF CountInv, Busy
  <1> QED
    BY <1>1, <1>2, <1>3, <1>4, <1>5 DEF Next, ThreadStep, Finished

-----------------------------------------------------------------------------
(* Every change is seen.                                                   *)

WouldAnnounce(t) == IF cycle THEN {} ELSE lst[t]

\* Somebody has yet to look, or the announcer will go round again, or it has
\* the right list in hand, or the announced list is right and not about to be
\* replaced.
ChangeSeen ==
    \/ \E t \in Thread : pc[t] \in {"enter", "collect"}
    \/ \E t \in Thread : Announcing(t) /\ lock % reset_flag > 1
    \/ \E t \in Thread : pc[t] = "process" /\ WouldAnnounce(t) = Wanted
    \/ cur = Wanted /\ \A t \in Thread : pc[t] # "process"

UpdateInv == LockInv /\ CountInv /\ ChangeSeen

LEMMA NextKeepsChangeSeen == UpdateInv /\ [Next]_vars => ChangeSeen'
  <1> SUFFICES ASSUME UpdateInv, [Next]_vars
               PROVE  ChangeSeen'
    OBVIOUS
  <1> USE DEF UpdateInv, LockInv, TypeOK
  <1>1. ASSUME NEW t \in Thread, Call(t)
        PROVE  ChangeSeen'
    <2>1. pc' = [pc EXCEPT ![t] = "enter"]
      BY <1>1 DEF Call, ChannelsUpdate, ToggleCycle, ReceiveChannelReset, ReceiveNewSession,
         CallAnnounce
    <2>2. pc'[t] = "enter"
      BY <2>1 DEF CallTyped
    <2> QED
      BY <2>2 DEF ChangeSeen
  <1>2. ASSUME NEW t \in Thread, Enter(t)
        PROVE  ChangeSeen'
    <2>1. CASE lock = 0
      <3>1. pc' = [pc EXCEPT ![t] = "collect"]
        BY <1>2, <2>1 DEF Enter, Occupied
      <3>2. pc'[t] = "collect"
        BY <3>1 DEF CallTyped
      <3> QED
        BY <3>2 DEF ChangeSeen
    <2>2. CASE lock # 0
      <3>1. /\ pc[t] = "enter" /\ pc' = [pc EXCEPT ![t] = "idle"]
            /\ lock' = lock + 1 + 0 \/ lock' = lock + 1 + 1024
        BY <1>2, <2>2, EnterAdds DEF Enter, Occupied, Return
      <3>2. PICK u \in Thread : Announcing(u)
        BY <2>2 DEF OneAnnouncer
      <3>3. Announcing(u)'
        BY <3>1, <3>2 DEF Announcing, CallTyped
      <3>4. lock % 1024 \in 1..(1 + returned) /\ returned < 1022 /\ lock \in Nat /\ returned \in Nat
        BY <2>2, <3>1, RoomForCall DEF CountInv, reset_flag, CallTyped, CountsTyped
      <3>5. lock' % 1024 > 1
        BY <3>1, <3>4
      <3> QED
        BY <3>3, <3>5 DEF ChangeSeen, reset_flag
    <2> QED
      BY <2>1, <2>2
  <1>3. ASSUME NEW t \in Thread, Collect(t)
        PROVE  ChangeSeen'
    <2>1. pc'[t] = "process" /\ UNCHANGED <<cycle, active>>
      BY <1>3 DEF Collect, CallTyped, busVars
    <2>2. lst'[t] = Wanted
      BY <1>3 DEF Collect, CallTyped, Wanted
    <2>3. WouldAnnounce(t)' = Wanted'
      BY <2>1, <2>2 DEF WouldAnnounce, Wanted
    <2> QED
      BY <2>1, <2>3 DEF ChangeSeen
  <1>4. ASSUME NEW t \in Thread, Process(t)
        PROVE  ChangeSeen'
    <2>1. /\ pc[t] = "process" /\ pc' = [pc EXCEPT ![t] = "release"]
          /\ cur' = WouldAnnounce(t) /\ Wanted' = Wanted /\ lock' = lock
      BY <1>4 DEF Process, WouldAnnounce, Wanted, busVars
    <2>2. Announcing(t) /\ Announcing(t)'
      BY <2>1 DEF Announcing, CallTyped
    <2>3. \A u \in Thread : Announcing(u) => u = t
      BY <2>2 DEF OneAnnouncer
    <2>4. CASE lock % reset_flag > 1
      BY <2>1, <2>2, <2>4 DEF ChangeSeen
    <2>5. CASE WouldAnnounce(t) = Wanted
      <3>1. \A u \in Thread : pc'[u] # "process"
        BY <2>1, <2>3 DEF Announcing, CallTyped
      <3> QED
        BY <2>1, <2>5, <3>1 DEF ChangeSeen
    <2>6. CASE \E u \in Thread : pc[u] = "enter"
      BY <2>1, <2>6 DEF ChangeSeen, CallTyped
    <2> QED
      BY <2>1, <2>3, <2>4, <2>5, <2>6 DEF ChangeSeen, Announcing
  <1>5. ASSUME NEW t \in Thread, Release(t)
        PROVE  ChangeSeen'
    <2>1. /\ pc[t] = "release" /\ Wanted' = Wanted /\ cur' = cur
          /\ pc' = [pc EXCEPT ![t] = IF Again(lock) THEN "enter" ELSE "idle"]
      BY <1>5 DEF Release, Return, Wanted
    <2>2. \A u \in Thread : Announcing(u) => u = t
      BY <2>1 DEF OneAnnouncer, Announcing
    <2>3. CASE Again(lock)
      <3>1. pc'[t] = "enter"
        BY <2>1, <2>3 DEF CallTyped
      <3> QED
        BY <3>1 DEF ChangeSeen
    <2>4. CASE ~Again(lock) /\ \E u \in Thread : pc[u] = "enter"
      BY <2>1, <2>4 DEF ChangeSeen, CallTyped
    <2>5. CASE ~Again(lock) /\ \A u \in Thread : pc[u] # "enter"
      <3>1. cur = Wanted
        BY <2>1, <2>2, <2>5 DEF ChangeSeen, Again, Announcing
      <3>2. \A u \in Thread : pc'[u] # "process"
        BY <2>1, <2>2 DEF Announcing, CallTyped
      <3> QED
        BY <2>1, <3>1, <3>2 DEF ChangeSeen
    <2> QED
      BY <2>3, <2>4, <2>5
  <1>6. ASSUME Peer \/ UNCHANGED vars
        PROVE  ChangeSeen'
    <2>1. UNCHANGED <<lock, pc, cur, active, cycle, lst>>
      BY <1>6 DEF Peer, PeerReceives, PeerFindsCycle, PeerLeavesCycle, Reconnect, vars, callVars,
         busVars
    <2> QED
      BY <2>1 DEF ChangeSeen, Announcing, WouldAnnounce, Wanted
  <1> QED
    BY <1>1, <1>2, <1>3, <1>4, <1>5, <1>6 DEF Next, ThreadStep, Finished

\* When all callers have returned, the last announced list is the current one,
\* provided that no round of the announcer sees more callers than the counter
\* has room for.
THEOREM ChangesAnnounced == Spec => []NoLostUpdate
  <1>1. Init => UpdateInv
    <2> SUFFICES ASSUME Init PROVE UpdateInv
      OBVIOUS
    <2>1. LockInv
      BY InitTyped DEF Init, LockInv, OneAnnouncer, Announcing
    <2>2. Busy = {}
      BY DEF Init, Busy
    <2>3. CountInv
      BY <2>2, FS_EmptySet DEF Init, CountInv
    <2>4. ChangeSeen
      BY DEF Init, ChangeSeen, Wanted
    <2> QED
      BY <2>1, <2>3, <2>4 DEF UpdateInv
  <1>2. UpdateInv /\ [Next]_vars => UpdateInv'
    BY NextKeepsLock, NextKeepsCount, NextKeepsChangeSeen DEF UpdateInv
  <1>3. UpdateInv => NoLostUpdate
    BY DEF UpdateInv, ChangeSeen, NoLostUpdate, Announcing
  <1> QED
    BY <1>1, <1>2, <1>3, PTL DEF Spec

-----------------------------------------------------------------------------
(* What the peer is told.                                                  *)

\* To read announcements is to apply them, one after the other.
LEMMA NothingSettles ==
    ASSUME NEW k \in SUBSET Chan
    PROVE  Settled(k, <<>>) = k
  BY DEF Settled

LEMMA HeadSettles ==
    ASSUME NEW k \in SUBSET Chan, NEW w \in Seq(Update), w # <<>>
    PROVE  Settled(Apply(k, Head(w)), Tail(w)) = Settled(k, w)
  <1> DEFINE v == Tail(w)
             u == Head(w)
             l == Apply(k, u)
  <1>1. /\ DOMAIN w = 1 .. Len(w) /\ DOMAIN v = 1 .. Len(w) - 1 /\ Len(w) \in Nat
        /\ \A i \in DOMAIN v : v[i] = w[i + 1]
        /\ u = w[1] /\ 1 \in DOMAIN w /\ u \in Update
    OBVIOUS
  <1>2. \A i \in DOMAIN v : i + 1 \in DOMAIN w /\ i + 1 # 1
    BY <1>1
  <1>3. \A i \in DOMAIN w : i # 1 => i - 1 \in DOMAIN v /\ w[i] = v[i - 1]
    BY <1>1
  <1> SUFFICES ASSUME NEW c \in Chan
               PROVE  c \in Settled(l, v) <=> c \in Settled(k, w)
    BY DEF Settled
  <1>4. CASE \E i \in DOMAIN v : Concerns(v[i], c)
    <2>1. \E i \in DOMAIN w : Concerns(w[i], c)
      BY <1>1, <1>2, <1>4
    <2>2. ASSUME NEW i \in DOMAIN v, c \in v[i].chans, v[i].op # "erase",
                 \A j \in DOMAIN v : j > i => ~Concerns(v[j], c)
          PROVE  c \in Settled(k, w)
      <3>1. i + 1 \in DOMAIN w /\ c \in w[i + 1].chans /\ w[i + 1].op # "erase"
        BY <1>1, <1>2, <2>2
      <3>2. \A j \in DOMAIN w : j > i + 1 => ~Concerns(w[j], c)
        <4> SUFFICES ASSUME NEW j \in DOMAIN w, j > i + 1 PROVE ~Concerns(w[j], c)
          OBVIOUS
        <4>1. j - 1 \in DOMAIN v /\ w[j] = v[j - 1] /\ j - 1 > i
          BY <1>1, <1>3
        <4> QED
          BY <2>2, <4>1
      <3> QED
        BY <3>1, <3>2 DEF Settled
    <2>3. ASSUME NEW i \in DOMAIN w, c \in w[i].chans, w[i].op # "erase",
                 \A j \in DOMAIN w : j > i => ~Concerns(w[j], c)
          PROVE  c \in Settled(l, v)
      <3>1. i # 1
        <4>1. PICK h \in DOMAIN v : Concerns(v[h], c)
          BY <1>4
        <4>2. h + 1 \in DOMAIN w /\ h + 1 > 1 /\ Concerns(w[h + 1], c)
          BY <1>1, <1>2, <4>1
        <4> QED
          BY <2>3, <4>2
      <3>2. i - 1 \in DOMAIN v /\ c \in v[i - 1].chans /\ v[i - 1].op # "erase"
        BY <1>3, <2>3, <3>1
      <3>3. \A j \in DOMAIN v : j > i - 1 => ~Concerns(v[j], c)
        <4> SUFFICES ASSUME NEW j \in DOMAIN v, j > i - 1 PROVE ~Concerns(v[j], c)
          OBVIOUS
        <4>1. j + 1 \in DOMAIN w /\ v[j] = w[j + 1] /\ j + 1 > i
          BY <1>1, <1>2
        <4> QED
          BY <2>3, <4>1
      <3> QED
        BY <3>2, <3>3 DEF Settled
    <2> QED
      BY <1>4, <2>1, <2>2, <2>3 DEF Settled
  <1>5. CASE \A i \in DOMAIN v : ~Concerns(v[i], c)
    <2>1. \A i \in DOMAIN w : i # 1 => ~Concerns(w[i], c)
      BY <1>3, <1>5
    <2>2. c \in Settled(l, v) <=> c \in l
      BY <1>5 DEF Settled, Concerns
    <2>3. c \in Settled(k, w) <=> IF Concerns(u, c) THEN c \in u.chans /\ u.op # "erase" ELSE c \in k
      <3>1. \A j \in DOMAIN w : j > 1 => ~Concerns(w[j], c)
        BY <1>1, <2>1
      <3>2. \A i \in DOMAIN w : c \in w[i].chans => i = 1
        BY <2>1 DEF Concerns
      <3>3. (\A i \in DOMAIN w : ~Concerns(w[i], c)) <=> ~Concerns(u, c)
        BY <1>1, <2>1
      <3>4. (\E i \in DOMAIN w : /\ c \in w[i].chans /\ w[i].op # "erase"
                                /\ \A j \in DOMAIN w : j > i => ~Concerns(w[j], c))
            <=> c \in u.chans /\ u.op # "erase"
        BY <1>1, <3>1, <3>2
      <3> QED
        BY <3>3, <3>4 DEF Settled, Concerns
    <2>4. u.op \in {"replace", "add", "erase"}
      BY <1>1 DEF Update
    <2> QED
      BY <2>2, <2>3, <2>4 DEF Apply, Concerns
  <1> QED
    BY <1>4, <1>5

LEMMA LastSettles ==
    ASSUME NEW k \in SUBSET Chan, NEW w \in Seq(Update), NEW u \in Update
    PROVE  Settled(k, Append(w, u)) = Apply(Settled(k, w), u)
  <1> DEFINE v == Append(w, u)
             n == Len(w) + 1
  <1>1. /\ DOMAIN w = 1 .. Len(w) /\ DOMAIN v = 1 .. n /\ Len(w) \in Nat
        /\ \A i \in DOMAIN w : v[i] = w[i] /\ i \in DOMAIN v /\ i < n
        /\ v[n] = u /\ n \in DOMAIN v
        /\ \A i \in DOMAIN v : i # n => i \in DOMAIN w
    OBVIOUS
  <1>2. u.op \in {"replace", "add", "erase"} /\ u.chans \in SUBSET Chan
    BY DEF Update
  <1> HIDE DEF v, n
  <1>3. Settled(k, v) \subseteq Chan /\ Apply(Settled(k, w), u) \subseteq Chan
    BY <1>2 DEF Settled, Apply
  <1> SUFFICES ASSUME NEW c \in Chan
               PROVE  c \in Settled(k, v) <=> c \in Apply(Settled(k, w), u)
    BY <1>3 DEF v
  <1>4. CASE Concerns(u, c)
    <2>1. \A i \in DOMAIN v : (\A j \in DOMAIN v : j > i => ~Concerns(v[j], c)) => i = n
      BY <1>1, <1>4
    <2>2. \A j \in DOMAIN v : ~(j > n)
      BY <1>1
    <2>3. c \in Settled(k, v) <=> c \in u.chans /\ u.op # "erase"
      BY <1>1, <1>4, <2>1, <2>2 DEF Settled
    <2> QED
      BY <1>2, <1>4, <2>3 DEF Apply, Concerns
  <1>5. CASE ~Concerns(u, c)
    <2>1. (\A i \in DOMAIN v : ~Concerns(v[i], c)) <=> \A i \in DOMAIN w : ~Concerns(w[i], c)
      BY <1>1, <1>5
    <2>2. \A i \in DOMAIN w : (\A j \in DOMAIN v : j > i => ~Concerns(v[j], c))
                              <=> \A j \in DOMAIN w : j > i => ~Concerns(w[j], c)
      BY <1>1, <1>5
    <2>3. \A i \in DOMAIN v : c \in v[i].chans => i \in DOMAIN w
      BY <1>1, <1>5 DEF Concerns
    <2>4. c \in Settled(k, v) <=> c \in Settled(k, w)
      BY <1>1, <2>1, <2>2, <2>3 DEF Settled
    <2> QED
      BY <1>2, <1>5, <2>4 DEF Apply, Concerns
  <1> QED
    BY <1>4, <1>5

\* A whole list is on its way.
WholeSent(w) == \E i \in DOMAIN w : w[i].op = "replace"

\* A whole list in flight settles what the peer will believe, whatever it knows
\* and whether it listens by now.
MirrorInv ==
    /\ TypeOK
    /\ deaf => ~valid
    /\ cur # {} /\ (valid \/ WholeSent(wire)) => Settled(peer, wire) = cur

LEMMA PeerForgets ==
    ASSUME NEW k, NEW l, NEW w, WholeSent(w)
    PROVE  Settled(k, w) = Settled(l, w)
  BY DEF Settled, WholeSent, Concerns

\* Announcements with nothing in them change nothing, and are not sent.
LEMMA AnnounceSettles ==
    ASSUME NEW k \in SUBSET Chan, NEW w \in Seq(Update),
           NEW op \in {"add", "erase"}, NEW chans \in SUBSET Chan
    PROVE  /\ Announce(op, chans) \in Seq(Update)
           /\ Settled(k, w \o Announce(op, chans)) = Apply(Settled(k, w), [op |-> op, chans |-> chans])
  <1> DEFINE u == [op |-> op, chans |-> chans]
  <1>1. CASE chans = {}
    <2>1. Announce(op, chans) = <<>> /\ w \o <<>> = w
      BY <1>1 DEF Announce
    <2>2. Apply(Settled(k, w), u) = Settled(k, w)
      BY <1>1 DEF Apply
    <2> QED
      BY <2>1, <2>2
  <1>2. CASE chans # {}
    <2>1. u \in Update
      BY DEF Update
    <2>2. Announce(op, chans) = <<u>>
      BY <1>2 DEF Announce
    <2> HIDE DEF u
    <2>3. w \o <<u>> = Append(w, u) /\ <<u>> \in Seq(Update)
      BY <2>1
    <2>4. Settled(k, Append(w, u)) = Apply(Settled(k, w), u)
      BY <2>1, LastSettles
    <2> QED
      BY <2>2, <2>3, <2>4 DEF u
  <1> QED
    BY <1>1, <1>2

\* The differences turn the list before into the list now.
LEMMA ChangesSettle ==
    ASSUME NEW k \in SUBSET Chan, NEW w \in Seq(Update),
           NEW before \in SUBSET Chan, NEW now \in SUBSET Chan, Settled(k, w) = before
    PROVE  Settled(k, w \o ChangesOf(before, now)) = now
  <1>1. PICK added \in SUBSET Chan : added = now \ before
    OBVIOUS
  <1>2. PICK erased \in SUBSET Chan : erased = before \ now
    OBVIOUS
  <1> DEFINE more == Announce("add", added)
             less == Announce("erase", erased)
  <1>3. /\ more \in Seq(Update) /\ less \in Seq(Update)
        /\ Settled(k, w \o more) = Apply(Settled(k, w), [op |-> "add", chans |-> added])
    BY AnnounceSettles
  <1>4. w \o more \in Seq(Update) /\ w \o (more \o less) = (w \o more) \o less
    <2> HIDE DEF more, less
    <2> QED
      BY <1>3
  <1>5. Settled(k, (w \o more) \o less) = Apply(Settled(k, w \o more), [op |-> "erase", chans |-> erased])
    <2>1. PICK v \in Seq(Update) : v = w \o more
      BY <1>4
    <2>2. Settled(k, v \o less) = Apply(Settled(k, v), [op |-> "erase", chans |-> erased])
      BY AnnounceSettles
    <2> QED
      BY <2>1, <2>2
  <1>6. ChangesOf(before, now) = more \o less
    BY <1>1, <1>2 DEF ChangesOf
  <1>7. Apply(Apply(before, [op |-> "add", chans |-> added]), [op |-> "erase", chans |-> erased]) = now
    BY <1>1, <1>2 DEF Apply
  <1> QED
    BY <1>3, <1>4, <1>5, <1>6, <1>7

LEMMA AnnouncementsSettle ==
    ASSUME CallTyped, NEW k \in SUBSET Chan, NEW w \in Seq(Update),
           NEW now \in SUBSET Chan, now # {}, NEW whole \in BOOLEAN,
           cur = {} \/ whole \/ Settled(k, w) = cur
    PROVE  Settled(k, w \o Announcements(now, whole)) = now
  <1>1. CASE cur = {} \/ whole
    <2> DEFINE u == [op |-> "replace", chans |-> now]
    <2>1. u \in Update
      BY DEF Update
    <2>2. w \o Announcements(now, whole) = Append(w, u)
      BY <1>1, <2>1 DEF Announcements, Announce
    <2>3. Settled(k, Append(w, u)) = Apply(Settled(k, w), u)
      BY <2>1, LastSettles
    <2>4. Apply(Settled(k, w), u) = now
      BY DEF Apply
    <2> QED
      BY <2>2, <2>3, <2>4
  <1>2. CASE ~(cur = {} \/ whole)
    <2>1. Announcements(now, whole) = ChangesOf(cur, now)
      BY <1>2 DEF Announcements
    <2>2. cur \in SUBSET Chan /\ Settled(k, w) = cur
      BY <1>2 DEF CallTyped
    <2> QED
      BY <2>1, <2>2, ChangesSettle
  <1> QED
    BY <1>1, <1>2

LEMMA NextKeepsMirror == MirrorInv /\ [Next]_vars => MirrorInv'
  <1> SUFFICES ASSUME MirrorInv, [Next]_vars
               PROVE  /\ deaf' => ~valid'
                      /\ cur' # {} /\ (valid' \/ WholeSent(wire')) => Settled(peer', wire') = cur'
    BY NextKeepsTypes DEF MirrorInv, WholeSent, Settled, Concerns
  <1>0. TypeOK /\ wire \in Seq(Update) /\ peer \in SUBSET Chan
    <2>1. TypeOK
      BY DEF MirrorInv
    <2> QED
      BY <2>1 DEF TypeOK, PeerTyped
  <1>1. ASSUME UNCHANGED <<cur, wire, peer, deaf, valid>>
        PROVE  /\ deaf' => ~valid'
               /\ cur' # {} /\ (valid' \/ WholeSent(wire')) => Settled(peer', wire') = cur'
    BY <1>1, Zenon DEF MirrorInv
  <1>2. ASSUME NEW t \in Thread, Process(t), cur' # {}, valid' \/ WholeSent(wire')
        PROVE  Settled(peer', wire') = cur'
    <2> DEFINE now == IF cycle THEN {} ELSE lst[t]
               new == Announcements(now, reset[t])
    <2>1. /\ wire' = wire \o new /\ cur' = now /\ peer' = peer /\ valid' = valid
          /\ now \in SUBSET Chan /\ reset[t] \in BOOLEAN
      BY <1>0, <1>2 DEF Process, TypeOK, CallTyped
    <2>2. cur = {} \/ reset[t] \/ Settled(peer, wire) = cur
      <3> SUFFICES ASSUME cur # {}, ~reset[t], ~valid
                   PROVE  WholeSent(wire)
        BY DEF MirrorInv
      <3>1. new \in Seq(Update) /\ new = Announce("add", now \ cur) \o Announce("erase", cur \ now)
        BY <1>0, <1>2, <2>1, AnnouncementsTyped DEF Announcements, ChangesOf, TypeOK
      <3>2. \A i \in DOMAIN new : new[i].op # "replace"
        BY <3>1 DEF Announce
      <3>3. PICK i \in DOMAIN wire' : wire'[i].op = "replace"
        BY <1>2, <2>1 DEF WholeSent
      <3> HIDE DEF new
      <3>4. i \in DOMAIN wire \/ (i - Len(wire) \in DOMAIN new /\ wire'[i] = new[i - Len(wire)])
        BY <1>0, <2>1, <3>1, <3>3
      <3>5. i \in DOMAIN wire
        BY <3>2, <3>3, <3>4
      <3>6. wire'[i] = wire[i]
        BY <1>0, <2>1, <3>1, <3>5
      <3> QED
        BY <3>3, <3>5, <3>6 DEF WholeSent
    <2> HIDE DEF now
    <2> QED
      BY <1>0, <1>2, <2>1, <2>2, AnnouncementsSettle DEF TypeOK
  <1>3. CASE PeerReceives
    <2> DEFINE u == Head(wire)
    <2>1. /\ wire # <<>> /\ wire' = Tail(wire) /\ u \in Update /\ cur' = cur /\ deaf' = deaf
          /\ u = wire[1] /\ DOMAIN wire = 1 .. Len(wire) /\ Len(wire) \in Nat
          /\ DOMAIN wire' = 1 .. Len(wire) - 1 /\ \A i \in DOMAIN wire' : wire'[i] = wire[i + 1]
      BY <1>0, <1>3 DEF PeerReceives
    <2>2. WholeSent(wire') => WholeSent(wire)
      BY <2>1 DEF WholeSent
    <2>3. u.op = "replace" => WholeSent(wire)
      BY <1>0, <2>1 DEF WholeSent
    <2>4. Settled(Apply(peer, u), wire') = Settled(peer, wire)
      BY <1>0, <2>1, HeadSettles
    <2>5. CASE deaf
      <3>0. ~valid
        BY <2>5 DEF MirrorInv
      <3>1. UNCHANGED <<peer, valid>>
        BY <1>3, <2>5 DEF PeerReceives
      <3>2. WholeSent(wire') => Settled(peer', wire') = Settled(Apply(peer, u), wire')
        BY <3>1, PeerForgets
      <3> QED
        BY <2>1, <2>2, <2>4, <2>5, <3>0, <3>1, <3>2, Zenon DEF MirrorInv
    <2>6. CASE ~deaf
      <3>1. peer' = Apply(peer, u) /\ valid' = (valid \/ u.op = "replace")
        BY <1>3, <2>6 DEF PeerReceives
      <3> QED
        BY <2>1, <2>2, <2>3, <2>4, <2>6, <3>1, Zenon DEF MirrorInv
    <2> QED
      BY <2>5, <2>6
  <1>4. CASE PeerFindsCycle \/ PeerLeavesCycle
    <2>1. wire' = wire /\ cur' = cur
          /\ (~valid' \/ (deaf /\ valid' = valid))
      BY <1>4 DEF PeerFindsCycle, PeerLeavesCycle
    <2>2. WholeSent(wire) => Settled(peer', wire') = Settled(peer, wire)
      BY <2>1, PeerForgets
    <2>3. ~valid'
      BY <2>1, Zenon DEF MirrorInv
    <2> QED
      BY <2>1, <2>2, <2>3, Zenon DEF MirrorInv
  <1>5. CASE Reconnect
    <2>1. wire' = <<>> /\ valid' = FALSE
      BY <1>5 DEF Reconnect
    <2> QED
      BY <2>1 DEF WholeSent
  <1>6. ASSUME NEW t \in Thread, Call(t) \/ Enter(t) \/ Collect(t) \/ Release(t)
        PROVE  UNCHANGED <<cur, wire, peer, deaf, valid>>
    BY <1>6 DEF Call, ChannelsUpdate, ToggleCycle, ReceiveChannelReset, ReceiveNewSession,
       Enter, Collect, Release, peerVars
  <1>7. CASE UNCHANGED vars
    BY <1>1, <1>7 DEF vars, peerVars
  <1>8. ASSUME NEW t \in Thread, Process(t)
        PROVE  deaf' => ~valid'
    <2>1. deaf' = deaf /\ valid' = valid
      BY <1>8 DEF Process
    <2> QED
      BY <2>1, Zenon DEF MirrorInv
  <1> QED
    BY <1>1, <1>2, <1>3, <1>4, <1>5, <1>6, <1>7, <1>8 DEF Next, ThreadStep, Peer, Finished

\* A peer that listens and has had a whole list since it forgot the last one will
\* have, when it has read what is in flight, the list as last announced, whoever
\* announced it in how many rounds and differences.
THEOREM DifferencesAddUp == Spec => []PeerMirrors
  <1>1. Init => MirrorInv
    BY InitTyped DEF Init, MirrorInv
  <1>2. MirrorInv => PeerMirrors
    BY DEF MirrorInv, PeerMirrors
  <1> QED
    BY <1>1, <1>2, NextKeepsMirror, PTL DEF Spec

=============================================================================

-------------------------- MODULE NetContextProofs --------------------------
(***************************************************************************)
(* Theorems about the I/O context, for any number of workers, connections, *)
(* requests and events: the numbers of connections, their callbacks and    *)
(* timeouts are never mixed up.                                            *)
(***************************************************************************)
EXTENDS NetContext, TLAPS, FiniteSetTheorems, SequenceTheorems, WellFoundedInduction

-----------------------------------------------------------------------------
(* The inductive invariant.                                                *)

Record == [ident : -1 .. Cardinality(Peer), fd : PeerOrNull,
           flags : SUBSET Event_, cur : SUBSET Event_,
           recv : PeerOrNull, send : PeerOrNull, acc : PeerOrNull,
           tmo : PeerOrNull, at : 0 .. MaxTime, calls : Nat]

\* TypeOK without its count of callbacks, which is Counted.
VarsTyped ==
    /\ slots \in [Slot -> Record]
    /\ size \in 0 .. Cardinality(Peer) /\ free \in 0 .. size
    /\ tmset \subseteq (1 .. MaxTime) \X Slot
    /\ role \in Worker \cup {Null} /\ mx \in Worker \cup {Null}
    /\ actions \in Seq(Peer) /\ stop \subseteq Worker /\ wakes \subseteq Worker
    /\ interest \in [Peer -> SUBSET Event_] /\ level \subseteq Peer
    /\ life \in [Peer -> {"unborn", "live", "queued", "leaving", "gone"}]
    /\ handle \in [Peer -> Slot]
    /\ now \in 0 .. MaxTime /\ program \in Program
    /\ calls \in 0 .. program.requests /\ traffic \in 0 .. program.events

InCallback(h) == {t \in Worker : work[t].pc = "cb" /\ work[t].id = h}
Counted == \A h \in Slot : slots[h].calls = Cardinality(InCallback(h))

\* Places in the loop where a worker is at a slot, and where it has the mutex.
AtSlot == {"accept", "recv", "out", "apply"}
Locked == AtSlot \cup {"top", "timers", "event", "actions"}
Place == Locked \cup {"new", "wait", "woken", "cb", "acts", "end"}

WorkRecord ==
    [pc : Place, id : Slot \cup {NoIdent}, ev : SUBSET (Event_ \cup {"WAKE"}),
     due : 0 .. MaxTime + 1, peer : PeerOrNull,
     kind : {"none", "timeout", "accept", "data", "closed", "send"},
     next : {"none", "timers"} \cup AtSlot, mine : Seq(Peer)]
WorkTyped == work \in [Worker -> WorkRecord]

\* A worker in the locked part of the loop has the mutex.
MutexHeld == \A t \in Worker : work[t].pc \in Locked => mx = t

\* A number in use is that of one connection that exists, an unused one is on
\* the free list.
ExistingHaveSlots ==
    \A p \in Peer : Exists(p) => InUse(handle[p]) /\ slots[handle[p]].fd = p
SlotsHaveOwners ==
    \A h \in Slot : InUse(h) => \E p \in Peer : Exists(p) /\ handle[p] = h
FreeListExists == \E s \in Seq(Unused) : FreeListIs(s)

\* The callbacks stored in a slot are its connection's; an unused one has none.
CallbacksOf(h) == {slots[h].recv, slots[h].send, slots[h].acc, slots[h].tmo}
CallbacksOwned ==
    \A h \in Slot : CallbacksOf(h) \subseteq IF InUse(h) THEN {Null, slots[h].fd} ELSE {Null}

SlotsOwned == ExistingHaveSlots /\ SlotsHaveOwners /\ FreeListExists /\ CallbacksOwned

\* A worker at a slot, or in a callback, is at one that is in use.
WorkerOwns(t) ==
    /\ work[t].pc \in AtSlot => work[t].id \in Slot /\ InUse(work[t].id)
    /\ work[t].pc = "cb" => /\ work[t].peer \in Peer /\ Exists(work[t].peer)
                            /\ handle[work[t].peer] = work[t].id
                            /\ work[t].next # "none"
WorkersOwn == \A t \in Worker : WorkerOwns(t)

\* A connection waits for its destruction in one queue, and once.
Entries(s) == {s[i] : i \in DOMAIN s}
Once(s) == \A i, j \in DOMAIN s : s[i] = s[j] => i = j
QueuedOnce ==
    /\ Once(actions) /\ \A t \in Worker : Once(work[t].mine)
    /\ \A p \in Entries(actions) : life[p] = "queued"
    /\ \A t \in Worker : \A p \in Entries(work[t].mine) :
         /\ life[p] = "queued" /\ p \notin Entries(actions)
         /\ \A u \in Worker \ {t} : p \notin Entries(work[u].mine)

NetInv == /\ VarsTyped /\ Counted /\ WorkTyped /\ MutexHeld
          /\ SlotsOwned /\ WorkersOwn /\ QueuedOnce /\ TimersOwned

-----------------------------------------------------------------------------
(* What the parts rest on.                                                 *)

LEMMA PeerCount == Cardinality(Peer) \in Nat
  BY PeersFinite, FS_CardinalityType

LEMMA LeastNatural ==
    ASSUME NEW T \in SUBSET Nat, T # {}
    PROVE  \E m \in T : \A k \in T : m <= k
  <1> DEFINE R == {ss \in Nat \X Nat : ss[1] < ss[2]}
  <1>1. IsWellFoundedOn(R, Nat)
    BY NatLessThanWellFounded DEF OpToRel
  <1>2. \E x \in T : \A y \in T : ~ (<<y, x>> \in R)
    <2> HIDE DEF R
    <2> QED
      BY <1>1, WFMin
  <1>3. \A x, y \in T : ~ (<<y, x>> \in R) => x <= y
    <2> TAKE x, y \in T
    <2>1. y < x => <<y, x>> \in R
      OBVIOUS
    <2> HIDE DEF R
    <2> QED
      BY <2>1
  <1> HIDE DEF R
  <1> QED
    BY <1>2, <1>3

\* The time until which the worker with the role waits.
LEMMA NearestTyped ==
    ASSUME VarsTyped
    PROVE  /\ Nearest \in 0 .. MaxTime + 1
           /\ tmset # {} => /\ Nearest \in {e[1] : e \in tmset}
                            /\ \A e \in tmset : Nearest <= e[1]
  <1> DEFINE T == {e[1] : e \in tmset}
  <1>0. MaxTime \in Nat
    BY TimeNat
  <1>1. T \subseteq 1 .. MaxTime
    BY DEF VarsTyped
  <1>2. CASE tmset = {}
    BY <1>0, <1>2 DEF Nearest, Infinite
  <1>3. CASE tmset # {}
    <2>1. T # {} /\ T \in SUBSET Nat
      BY <1>0, <1>1, <1>3
    <2>2. \E m \in T : \A k \in T : m <= k
      <3> HIDE DEF T
      <3> QED
        BY <2>1, LeastNatural
    <2>3. \E x \in T : \A e \in tmset : x <= e[1]
      BY <2>2
    <2>4. Nearest \in T /\ \A e \in tmset : Nearest <= e[1]
      BY <2>3, <1>3 DEF Nearest
    <2> QED
      BY <1>0, <1>1, <2>4
  <1> QED
    BY <1>2, <1>3

\* The number a new connection gets is not in use; and it is a slot, since
\* each number up to size is in use for a connection or on the list.
LEMMA SlotCount ==
    ASSUME VarsTyped, SlotsOwned
    PROVE  /\ IsFiniteSet({p \in Peer : Exists(p)}) /\ IsFiniteSet(Unused)
           /\ Cardinality({p \in Peer : Exists(p)}) + Cardinality(Unused) = size
  <1> DEFINE E == {p \in Peer : Exists(p)}
             U == {h \in 0 .. size - 1 : InUse(h)}
             f == [p \in E |-> handle[p]]
  <1>1. size \in Nat /\ size <= Cardinality(Peer) /\ 0 .. size - 1 \subseteq Slot
    BY PeerCount DEF VarsTyped, Slot
  <1>2. IsFiniteSet(E)
    BY PeersFinite, FS_Subset
  <1>3. f \in Bijection(E, U)
    <2>1. f \in [E -> U]
      BY DEF SlotsOwned, ExistingHaveSlots, InUse
    <2>2. \A p, q \in E : f[p] = f[q] => p = q
      BY DEF SlotsOwned, ExistingHaveSlots
    <2>3. \A h \in U : \E p \in E : f[p] = h
      BY <1>1 DEF SlotsOwned, SlotsHaveOwners
    <2> HIDE DEF E, U, f
    <2> QED
      BY <2>1, <2>2, <2>3 DEF Bijection, Injection, Surjection, IsInjective
  <1>4. IsFiniteSet(U) /\ Cardinality(U) = Cardinality(E)
    BY <1>2, <1>3, FS_Bijection DEF ExistsBijection
  <1>5. IsFiniteSet(0 .. size - 1) /\ Cardinality(0 .. size - 1) = size
    BY <1>1, FS_Interval
  <1>6. IsFiniteSet(Unused)
    BY <1>5, FS_Subset DEF Unused
  <1>7. U \cup Unused = 0 .. size - 1 /\ U \cap Unused = {}
    BY DEF Unused
  <1>8. Cardinality(U \cup Unused) =
          Cardinality(U) + Cardinality(Unused) - Cardinality(U \cap Unused)
    BY <1>4, <1>6, FS_Union
  <1>9. Cardinality(U) \in Nat /\ Cardinality(Unused) \in Nat
    BY <1>4, <1>6, FS_CardinalityType
  <1> HIDE DEF U, E
  <1>10. Cardinality(U \cap Unused) = 0
    BY <1>7, FS_EmptySet
  <1>11. Cardinality(U) + Cardinality(Unused) = size
    <2>1. Cardinality(U \cup Unused) = size
      BY <1>5, <1>7
    <2> QED
      BY <1>8, <1>9, <1>10, <2>1
  <1>12. /\ IsFiniteSet(E) /\ IsFiniteSet(Unused)
         /\ Cardinality(E) + Cardinality(Unused) = size
    BY <1>2, <1>4, <1>6, <1>11
  <1> QED
    BY <1>12 DEF E

LEMMA RoomForOne ==
    ASSUME VarsTyped, SlotsOwned, NEW p \in Peer, life[p] = "unborn"
    PROVE  free \in Slot /\ ~InUse(free)
  <1>1. size \in Nat /\ size <= Cardinality(Peer) /\ Cardinality(Peer) \in Nat /\ free \in 0 .. size
    BY PeerCount DEF VarsTyped
  <1>2. PICK s \in Seq(Unused) : FreeListIs(s)
    BY DEF SlotsOwned, FreeListExists
  <1>3. CASE s # <<>>
    <2>1. free \in Unused
      BY <1>2, <1>3, ElementOfSeq, LenProperties, EmptySeq DEF FreeListIs
    <2> QED
      BY <1>1, <2>1 DEF Unused, Slot
  <1>4. CASE s = <<>>
    <2> DEFINE E == {q \in Peer : Exists(q)}
    <2>1. free = size /\ Unused = {}
      BY <1>2, <1>4 DEF FreeListIs
    <2>2. Cardinality(E) = size /\ IsFiniteSet(E)
      <3>1. Cardinality(Unused) = 0
        BY <2>1, FS_EmptySet
      <3>2. Cardinality(E) \in Nat
        BY SlotCount, FS_CardinalityType
      <3> QED
        BY SlotCount, <3>1, <3>2
    <2>3. p \notin E /\ E \cup {p} \subseteq Peer
      BY DEF Exists
    <2>4. Cardinality(E \cup {p}) = size + 1
      <3> HIDE DEF E
      <3> QED
        BY <2>2, <2>3, FS_AddElement
    <2>5. Cardinality(E \cup {p}) <= Cardinality(Peer)
      <3> HIDE DEF E
      <3> QED
        BY <2>3, PeersFinite, FS_Subset
    <2> QED
      BY <1>1, <2>1, <2>4, <2>5 DEF Slot, InUse
  <1> QED
    BY <1>3, <1>4

-----------------------------------------------------------------------------
(* Slots are taken and given back.                                         *)

\* What a callback, an event or a request changes of the slots.
SlotsKept ==
    /\ UNCHANGED <<size, free, handle>> /\ slots' \in [Slot -> Record]
    /\ \A p \in Peer : Exists(p)' <=> Exists(p)
    /\ \A h \in Slot : /\ slots'[h].ident = slots[h].ident /\ slots'[h].fd = slots[h].fd
                       /\ CallbacksOf(h)' \subseteq
                            CallbacksOf(h) \cup {Null} \cup (IF InUse(h) THEN {slots[h].fd} ELSE {})

LEMMA KeptStayOwned ==
    ASSUME VarsTyped, SlotsOwned, SlotsKept
    PROVE  SlotsOwned' /\ (\A h \in Slot : InUse(h)' <=> InUse(h)) /\ Unused' = Unused
  <1>1. \A h \in Slot : InUse(h)' <=> InUse(h)
    BY DEF SlotsKept, InUse
  <1>2. 0 .. size - 1 \subseteq Slot
    BY PeerCount DEF VarsTyped, Slot
  <1>3. Unused' = Unused
    BY <1>1, <1>2 DEF Unused, SlotsKept
  <1>4. \A p \in Peer : handle[p] \in Slot
    BY DEF VarsTyped
  <1>5. ExistingHaveSlots'
    BY <1>1, <1>4 DEF SlotsOwned, ExistingHaveSlots, SlotsKept
  <1>6. SlotsHaveOwners'
    BY <1>1 DEF SlotsOwned, SlotsHaveOwners, SlotsKept
  <1>7. FreeListExists'
    <2>1. PICK s \in Seq(Unused) : FreeListIs(s)
      BY DEF SlotsOwned, FreeListExists
    <2>2. \A i \in DOMAIN s : s[i] \in Slot
      BY <1>2, <2>1, ElementOfSeq, LenProperties DEF Unused
    <2>3. FreeListIs(s)'
      BY <1>3, <2>1, <2>2 DEF FreeListIs, SlotsKept
    <2> QED
      BY <1>3, <2>1, <2>3 DEF FreeListExists
  <1>8. CallbacksOwned'
    <2> SUFFICES ASSUME NEW h \in Slot
                 PROVE CallbacksOf(h)' \subseteq
                         IF InUse(h)' THEN {Null, slots'[h].fd} ELSE {Null}
      BY DEF CallbacksOwned
    <2>1. CallbacksOf(h) \subseteq IF InUse(h) THEN {Null, slots[h].fd} ELSE {Null}
      BY DEF SlotsOwned, CallbacksOwned
    <2> QED
      BY <1>1, <2>1 DEF SlotsKept
  <1> QED
    BY <1>1, <1>3, <1>5, <1>6, <1>7, <1>8 DEF SlotsOwned

\* alloc_socket_lk() for p, which is created: connect() and accept4().
SlotTaken(p) ==
    /\ life[p] = "unborn" /\ life' = [life EXCEPT ![p] = "live"]
    /\ handle' = [handle EXCEPT ![p] = free]
    /\ size' = IF free >= size THEN free + 1 ELSE size
    /\ free' = IF free >= size THEN free + 1 ELSE slots[free].ident
    /\ slots' \in [Slot -> Record]
    /\ slots'[free].ident = free /\ slots'[free].fd = p
    /\ \A h \in Slot \ {free} : slots'[h].ident = slots[h].ident /\ slots'[h].fd = slots[h].fd
    /\ \A h \in Slot : CallbacksOf(h)' \subseteq CallbacksOf(h) \cup {Null}

LEMMA TakenStayOwned ==
    ASSUME VarsTyped, SlotsOwned, NEW p \in Peer, SlotTaken(p)
    PROVE  /\ SlotsOwned' /\ free \in Slot /\ ~InUse(free)
           /\ \A h \in Slot : InUse(h)' <=> InUse(h) \/ h = free
           /\ size' \in 0 .. Cardinality(Peer) /\ free' \in 0 .. size'
  <1>1. size \in Nat /\ size <= Cardinality(Peer) /\ Cardinality(Peer) \in Nat /\ free \in 0 .. size
    BY PeerCount DEF VarsTyped
  <1>2. free \in Slot /\ ~InUse(free)
    BY RoomForOne DEF SlotTaken
  <1>3. /\ size' \in 0 .. Cardinality(Peer) /\ size' >= size /\ size' <= size + 1
        /\ free < size' /\ (free # size => size' = size)
    BY <1>1, <1>2 DEF Slot, SlotTaken
  <1>4. \A h \in Slot : InUse(h)' <=> InUse(h) \/ h = free
    BY <1>1, <1>2, <1>3 DEF InUse, SlotTaken, Slot
  <1>5. /\ 0 .. size - 1 \subseteq Slot /\ 0 .. size' - 1 \subseteq Slot
        /\ 0 .. size' - 1 = (0 .. size - 1) \cup {free}
    <2>1. CASE free = size
      <3>1. size' = size + 1
        BY <1>1, <1>3, <2>1
      <3> QED
        BY <1>1, <1>3, <2>1, <3>1 DEF Slot
    <2>2. CASE free # size
      <3>1. size' = size
        BY <1>3, <2>2
      <3> QED
        BY <1>1, <1>3, <2>2, <3>1 DEF Slot
    <2> QED
      BY <2>1, <2>2
  <1>6. Unused' = Unused \ {free}
    BY <1>4, <1>5, <1>2 DEF Unused
  <1>7. \A q \in Peer : handle[q] \in Slot /\ handle' \in [Peer -> Slot]
    BY <1>2 DEF VarsTyped, SlotTaken
  <1>8. \A q \in Peer : Exists(q)' <=> Exists(q) \/ q = p
    BY DEF Exists, SlotTaken, VarsTyped
  <1>8a. ~Exists(p)
    BY DEF Exists, SlotTaken
  <1>9. ExistingHaveSlots'
    <2> SUFFICES ASSUME NEW q \in Peer, Exists(q)'
                 PROVE InUse(handle[q])' /\ slots'[handle'[q]].fd = q
      BY DEF ExistingHaveSlots
    <2>1. CASE q = p
      BY <1>2, <1>4, <1>7, <2>1 DEF SlotTaken, VarsTyped, InUse
    <2>2. CASE q # p
      <3>1. handle'[q] = handle[q] /\ InUse(handle[q]) /\ slots[handle[q]].fd = q
        BY <1>7, <1>8, <2>2 DEF SlotTaken, VarsTyped, SlotsOwned, ExistingHaveSlots
      <3>2. handle[q] # free
        BY <1>2, <3>1
      <3>3. slots'[handle[q]].fd = q /\ slots'[handle[q]].ident = slots[handle[q]].ident
        BY <1>7, <3>1, <3>2 DEF SlotTaken
      <3> QED
        BY <1>1, <1>3, <3>1, <3>3 DEF InUse
    <2> QED
      BY <2>1, <2>2
  <1>10. SlotsHaveOwners'
    <2> SUFFICES ASSUME NEW h \in Slot, InUse(h)'
                 PROVE \E q \in Peer : Exists(q)' /\ handle'[q] = h
      BY DEF SlotsHaveOwners
    <2>1. CASE h = free
      BY <1>8, <2>1 DEF SlotTaken, VarsTyped
    <2>2. CASE h # free
      <3>1. PICK q \in Peer : Exists(q) /\ handle[q] = h
        BY <1>4, <2>2 DEF SlotsOwned, SlotsHaveOwners
      <3>2. q # p
        BY <1>8a, <3>1
      <3> QED
        BY <1>8, <3>1, <3>2 DEF SlotTaken, VarsTyped
    <2> QED
      BY <2>1, <2>2
  <1>11. PICK s \in Seq(Unused) : FreeListIs(s)
    BY DEF SlotsOwned, FreeListExists
  <1>12. FreeListExists' /\ free' \in 0 .. size'
    <2>1. CASE s = <<>>
      <3>1. free = size /\ Unused = {}
        BY <1>11, <2>1 DEF FreeListIs
      <3>2. size' = size + 1 /\ free' = size' /\ Unused' = {}
        BY <1>1, <1>6, <3>1 DEF SlotTaken
      <3>3. FreeListIs(<<>>)'
        BY <3>2, EmptySeq DEF FreeListIs
      <3>4. <<>> \in Seq(Unused')
        BY EmptySeq
      <3>5. free' \in 0 .. size'
        BY <1>1, <3>2
      <3> QED
        BY <3>3, <3>4, <3>5 DEF FreeListExists
    <2>2. CASE s # <<>>
      <3> DEFINE n == Len(s)
      <3>1. n \in Nat /\ n > 0 /\ DOMAIN s = 1 .. n
        BY <2>2, <1>11, EmptySeq, LenProperties
      <3>2. free = s[1] /\ free \in Unused
        BY <1>11, <2>2, <3>1, ElementOfSeq DEF FreeListIs
      <3>3. free < size /\ size' = size
        BY <1>1, <3>2 DEF Unused, SlotTaken
      <3>4. free' = IF 1 = n THEN size ELSE s[2]
        BY <1>1, <1>11, <3>1, <3>2, <3>3 DEF FreeListIs, SlotTaken
      <3> DEFINE r == Tail(s)
      <3>5. /\ r \in Seq(Unused) /\ Len(r) = n - 1 /\ DOMAIN r = 1 .. (n - 1)
            /\ \A i \in 1 .. (n - 1) : r[i] = s[i + 1]
        BY <1>11, <2>2, <3>1, HeadTailProperties, LenProperties
      <3>6. \A i, j \in 1 .. n : s[i] = s[j] => i = j
        BY <1>11, <3>1 DEF FreeListIs
      <3>7. \A i \in 1 .. n : s[i] \in Unused
        BY <1>11, <3>1, ElementOfSeq
      <3>8. \A i \in 1 .. n : slots[s[i]].ident = IF i = n THEN size ELSE s[i + 1]
        BY <1>11, <3>1 DEF FreeListIs
      <3>8a. \A h \in Unused : \E i \in 1 .. n : s[i] = h
        BY <1>11, <3>1 DEF FreeListIs
      <3> HIDE DEF n, r
      <3>9. \A i \in 1 .. (n - 1) : r[i] \in Unused'
        BY <1>6, <3>1, <3>2, <3>5, <3>6, <3>7
      <3>10. r \in Seq(Unused')
        <4>1. r \in [1 .. (n - 1) -> Unused']
          BY <3>5, <3>9, LenProperties
        <4> QED
          BY <4>1, <3>1, IsASeq
      <3>11. \A h \in Unused' : \E i \in 1 .. (n - 1) : r[i] = h
        <4> SUFFICES ASSUME NEW h \in Unused' PROVE \E i \in 1 .. (n - 1) : r[i] = h
          OBVIOUS
        <4>1. PICK i \in 1 .. n : s[i] = h
          BY <1>6, <3>8a
        <4>2. i # 1
          BY <1>6, <3>2, <4>1
        <4>3. i - 1 \in 1 .. (n - 1) /\ s[(i - 1) + 1] = h
          BY <3>1, <4>1, <4>2
        <4> QED
          BY <3>5, <4>3
      <3>12. \A i, j \in 1 .. (n - 1) : r[i] = r[j] => i = j
        <4> TAKE i, j \in 1 .. (n - 1)
        <4>1. i + 1 \in 1 .. n /\ j + 1 \in 1 .. n
          BY <3>1
        <4> QED
          BY <3>5, <3>6, <4>1
      <3>13. free' = IF r = <<>> THEN size' ELSE r[1]
        <4>1. CASE n = 1
          BY <3>3, <3>4, <3>5, <4>1, EmptySeq
        <4>2. CASE n # 1
          <5>1. 1 \in 1 .. (n - 1) /\ r # <<>>
            BY <3>1, <3>5, <4>2, EmptySeq
          <5>2. r[1] = s[1 + 1]
            BY <3>5, <5>1
          <5> QED
            BY <3>4, <4>2, <5>1, <5>2
        <4> QED
          BY <4>1, <4>2
      <3>14. \A i \in 1 .. (n - 1) : slots'[r[i]].ident = IF i = n - 1 THEN size' ELSE r[i + 1]
        <4> TAKE i \in 1 .. (n - 1)
        <4>1. i + 1 \in 1 .. n /\ r[i] = s[i + 1] /\ r[i] # free /\ r[i] \in Slot
          BY <1>5, <1>6, <3>1, <3>5, <3>9 DEF Unused
        <4>2. slots'[r[i]].ident = IF i + 1 = n THEN size ELSE s[(i + 1) + 1]
          BY <3>8, <4>1 DEF SlotTaken
        <4>3. i # n - 1 => i + 1 \in 1 .. (n - 1) /\ r[i + 1] = s[(i + 1) + 1]
          BY <3>1, <3>5
        <4> QED
          BY <3>1, <3>3, <4>2, <4>3
      <3>15. FreeListIs(r)'
        BY <3>5, <3>10, <3>11, <3>12, <3>13, <3>14 DEF FreeListIs
      <3>16. free' \in 0 .. size'
        <4>1. CASE n = 1
          BY <1>1, <3>3, <3>4, <4>1
        <4>2. CASE n # 1
          <5>1. s[2] \in Unused
            BY <3>1, <3>7, <4>2
          <5> QED
            BY <1>1, <3>3, <3>4, <4>2, <5>1 DEF Unused
        <4> QED
          BY <4>1, <4>2
      <3> QED
        BY <3>10, <3>15, <3>16 DEF FreeListExists
    <2> QED
      BY <2>1, <2>2
  <1>13. CallbacksOwned'
    <2> SUFFICES ASSUME NEW h \in Slot
                 PROVE CallbacksOf(h)' \subseteq
                         IF InUse(h)' THEN {Null, slots'[h].fd} ELSE {Null}
      BY DEF CallbacksOwned
    <2>1. CallbacksOf(h)' \subseteq CallbacksOf(h) \cup {Null}
      BY DEF SlotTaken
    <2>2. CallbacksOf(h) \subseteq IF InUse(h) THEN {Null, slots[h].fd} ELSE {Null}
      BY DEF SlotsOwned, CallbacksOwned
    <2>3. CASE h = free
      BY <1>2, <2>1, <2>2, <2>3
    <2>4. CASE h # free
      BY <1>4, <2>1, <2>2, <2>4 DEF SlotTaken
    <2> QED
      BY <2>3, <2>4
  <1> QED
    BY <1>2, <1>3, <1>4, <1>9, <1>10, <1>12, <1>13 DEF SlotsOwned

\* free_socket_lk() for p, which is destroyed.
LEMMA FreedStayOwned ==
    ASSUME VarsTyped, SlotsOwned, NEW p \in Peer, Exists(p), FreeSlot(handle[p]),
           life' = [life EXCEPT ![p] = "gone"], UNCHANGED handle
    PROVE  /\ SlotsOwned' /\ slots' \in [Slot -> Record]
           /\ size' = size /\ free' \in 0 .. size'
           /\ \A q \in Peer : Exists(q)' <=> Exists(q) /\ q # p
           /\ \A h \in Slot : InUse(h)' <=> InUse(h) /\ h # handle[p]
  <1>0. PICK k \in Slot : k = handle[p]
    BY DEF VarsTyped
  <1>1. size \in Nat /\ size <= Cardinality(Peer) /\ Cardinality(Peer) \in Nat /\ free \in 0 .. size
    BY PeerCount DEF VarsTyped
  <1>2. k \in Slot /\ InUse(k) /\ slots[k].fd = p
    BY <1>0 DEF SlotsOwned, ExistingHaveSlots
  <1>3. k \in 0 .. size - 1 /\ slots[k].ident = k /\ k # NoIdent
    BY <1>1, <1>2 DEF InUse, NoIdent
  <1>4. /\ slots' = [slots EXCEPT ![k] = [Blank EXCEPT !.ident = free]]
        /\ free' = k /\ size' = size
    BY <1>0 DEF FreeSlot
  <1>5. \A q \in Peer : Exists(q)' <=> Exists(q) /\ q # p
    BY DEF Exists, VarsTyped
  <1>6. 0 .. size - 1 \subseteq Slot
    BY <1>1 DEF Slot
  <1>7. PICK s \in Seq(Unused) : FreeListIs(s)
    BY DEF SlotsOwned, FreeListExists
  <1> DEFINE n == Len(s)
             S == Unused
  <1>8. n \in Nat /\ DOMAIN s = 1 .. n
    BY <1>7, LenProperties
  <1>9. free = IF s = <<>> THEN size ELSE s[1]
    BY <1>7 DEF FreeListIs
  <1>10. \A i \in 1 .. n : s[i] \in Unused
    BY <1>7, <1>8, ElementOfSeq
  <1>11. free # k
    <2>1. CASE s = <<>>
      BY <1>1, <1>3, <1>9, <2>1
    <2>2. CASE s # <<>>
      <3>1. free \in Unused
        BY <1>7, <1>8, <1>9, <1>10, <2>2, EmptySeq
      <3> QED
        BY <1>2, <3>1 DEF Unused
    <2> QED
      BY <2>1, <2>2
  <1>12. slots' \in [Slot -> Record]
    <2>1. [Blank EXCEPT !.ident = free] \in Record
      BY <1>1, TimeNat DEF Blank, Record, PeerOrNull
    <2> QED
      BY <1>4, <2>1 DEF VarsTyped
  <1>13. /\ slots'[k].ident = free /\ CallbacksOf(k)' = {Null}
         /\ \A h \in Slot \ {k} : slots'[h] = slots[h]
    BY <1>2, <1>4 DEF VarsTyped, Blank, CallbacksOf
  <1>14. \A h \in Slot : InUse(h)' <=> InUse(h) /\ h # k
    BY <1>4, <1>11, <1>13 DEF InUse
  <1>15. Unused' = S \cup {k} /\ k \notin S
    BY <1>2, <1>3, <1>4, <1>6, <1>14 DEF Unused
  <1>16. ExistingHaveSlots'
    <2> SUFFICES ASSUME NEW q \in Peer, Exists(q)'
                 PROVE InUse(handle[q])' /\ slots'[handle[q]].fd = q /\ handle'[q] = handle[q]
      BY DEF ExistingHaveSlots, InUse
    <2>1. Exists(q) /\ q # p /\ handle[q] \in Slot
      BY <1>5 DEF VarsTyped
    <2>2. InUse(handle[q]) /\ slots[handle[q]].fd = q
      BY <2>1 DEF SlotsOwned, ExistingHaveSlots
    <2>3. handle[q] # k
      BY <1>2, <2>1, <2>2
    <2> QED
      BY <1>13, <1>14, <2>1, <2>2, <2>3
  <1>17. SlotsHaveOwners'
    <2> SUFFICES ASSUME NEW h \in Slot, InUse(h)'
                 PROVE \E q \in Peer : Exists(q)' /\ handle'[q] = h
      BY DEF SlotsHaveOwners
    <2>1. PICK q \in Peer : Exists(q) /\ handle[q] = h
      BY <1>14 DEF SlotsOwned, SlotsHaveOwners
    <2>2. q # p
      BY <1>0, <1>14, <2>1
    <2> QED
      BY <1>5, <2>1, <2>2
  <1>18. FreeListExists'
    <2> DEFINE r == <<k>> \o s
    <2>1. s \in Seq(Unused') /\ <<k>> \in Seq(Unused') /\ Len(<<k>>) = 1 /\ <<k>>[1] = k
      <3>1. s \in [1 .. n -> Unused']
        BY <1>7, <1>8, <1>10, <1>15, LenProperties
      <3>2. s \in Seq(Unused')
        BY <1>8, <3>1, IsASeq
      <3> QED
        BY <1>15, <3>2
    <2>2. /\ r \in Seq(Unused') /\ Len(r) = n + 1 /\ DOMAIN r = 1 .. (n + 1) /\ r[1] = k
          /\ \A i \in 1 .. n : r[i + 1] = s[i]
      <3> HIDE DEF S
      <3>0. r \in Seq(Unused') /\ Len(r) = 1 + n
        BY <2>1, <1>8, ConcatProperties
      <3>1. r[1] = k
        BY <2>1, <1>8, ConcatProperties
      <3>2. \A i \in 1 .. n : r[i + 1] = s[i]
        <4> TAKE i \in 1 .. n
        <4>1. i + 1 \in 1 .. 1 + n /\ i + 1 > 1 /\ (i + 1) - 1 = i
          BY <1>8
        <4>2. r[i + 1] = s[(i + 1) - 1]
          BY <2>1, <1>8, <4>1, ConcatProperties
        <4> QED
          BY <4>1, <4>2
      <3>3. DOMAIN r = 1 .. (n + 1) /\ Len(r) = n + 1
        BY <1>8, <3>0, LenProperties
      <3> QED
        BY <3>0, <3>1, <3>2, <3>3
    <2>3. \A i, j \in 1 .. n : s[i] = s[j] => i = j
      BY <1>7, <1>8 DEF FreeListIs
    <2>4. \A i \in 1 .. n : slots[s[i]].ident = IF i = n THEN size ELSE s[i + 1]
      BY <1>7, <1>8 DEF FreeListIs
    <2>5. \A h \in Unused : \E i \in 1 .. n : s[i] = h
      BY <1>7, <1>8 DEF FreeListIs
    <2>6. s = <<>> <=> n = 0
      BY <1>7, <1>8, EmptySeq
    <2> HIDE DEF r, n
    <2>7. \A h \in Unused' : \E i \in 1 .. (n + 1) : r[i] = h
      <3> SUFFICES ASSUME NEW h \in Unused' PROVE \E i \in 1 .. (n + 1) : r[i] = h
        OBVIOUS
      <3>1. CASE h = k
        BY <1>8, <2>2, <3>1
      <3>2. CASE h # k
        <4>1. PICK i \in 1 .. n : s[i] = h
          BY <1>15, <2>5, <3>2
        <4>2. i + 1 \in 1 .. (n + 1)
          BY <1>8
        <4> QED
          BY <2>2, <4>1, <4>2
      <3> QED
        BY <3>1, <3>2
    <2>8. \A i \in 1 .. (n + 1) : i = 1 \/ (i - 1 \in 1 .. n /\ r[i] = s[i - 1] /\ r[i] # k)
      <3> TAKE i \in 1 .. (n + 1)
      <3> SUFFICES ASSUME i # 1 PROVE i - 1 \in 1 .. n /\ r[i] = s[i - 1] /\ r[i] # k
        OBVIOUS
      <3>1. i - 1 \in 1 .. n /\ (i - 1) + 1 = i
        BY <1>8
      <3>2. r[(i - 1) + 1] = s[i - 1]
        BY <2>2, <3>1
      <3> QED
        BY <1>10, <1>15, <3>1, <3>2
    <2>9. \A i, j \in 1 .. (n + 1) : r[i] = r[j] => i = j
      <3> TAKE i, j \in 1 .. (n + 1)
      <3> HAVE r[i] = r[j]
      <3>1. CASE i = 1 \/ j = 1
        BY <2>2, <2>8, <3>1
      <3>2. CASE i # 1 /\ j # 1
        <4>1. i - 1 = j - 1
          BY <2>3, <2>8, <3>2
        <4> QED
          BY <4>1, <1>8
      <3> QED
        BY <3>1, <3>2
    <2>10. \A i \in 1 .. (n + 1) : slots'[r[i]].ident = IF i = n + 1 THEN size' ELSE r[i + 1]
      <3> TAKE i \in 1 .. (n + 1)
      <3>1. CASE i = 1
        <4>1. slots'[r[i]].ident = free
          BY <1>13, <2>2, <3>1
        <4>2. CASE n = 0
          BY <1>4, <1>9, <2>6, <3>1, <4>1, <4>2
        <4>3. CASE n # 0
          <5>1. 1 \in 1 .. n /\ r[1 + 1] = s[1]
            BY <1>8, <2>2, <4>3
          <5> QED
            BY <1>8, <1>9, <2>6, <3>1, <4>1, <4>3, <5>1
        <4> QED
          BY <4>2, <4>3
      <3>2. CASE i # 1
        <4>1. i - 1 \in 1 .. n /\ r[i] = s[i - 1] /\ r[i] # k /\ r[i] \in Slot
          BY <1>6, <1>10, <2>8, <3>2 DEF Unused
        <4>2. slots'[r[i]].ident = IF i - 1 = n THEN size ELSE s[(i - 1) + 1]
          BY <1>13, <2>4, <4>1
        <4>3. i # n + 1 => i \in 1 .. n /\ (i - 1) + 1 = i /\ r[i + 1] = s[i]
          BY <1>8, <2>2
        <4> QED
          BY <1>4, <1>8, <4>2, <4>3
      <3> QED
        BY <3>1, <3>2
    <2>11. r # <<>>
      BY <1>8, <2>2, EmptySeq
    <2>12. FreeListIs(r)'
      BY <1>4, <2>2, <2>7, <2>9, <2>10, <2>11 DEF FreeListIs, r
    <2> QED
      BY <2>2, <2>12 DEF FreeListExists
  <1>19. CallbacksOwned'
    <2> SUFFICES ASSUME NEW h \in Slot
                 PROVE CallbacksOf(h)' \subseteq
                         IF InUse(h)' THEN {Null, slots'[h].fd} ELSE {Null}
      BY DEF CallbacksOwned
    <2>1. CASE h = k
      BY <1>13, <1>14, <2>1
    <2>2. CASE h # k
      <3>1. CallbacksOf(h)' = CallbacksOf(h) /\ slots'[h].fd = slots[h].fd
        BY <1>13, <2>2 DEF CallbacksOf
      <3> QED
        BY <1>14, <2>2, <3>1 DEF SlotsOwned, CallbacksOwned
    <2> QED
      BY <2>1, <2>2
  <1>20. free' \in 0 .. size'
    BY <1>1, <1>3, <1>4
  <1> QED
    BY <1>0, <1>4, <1>5, <1>12, <1>14, <1>16, <1>17, <1>18, <1>19, <1>20 DEF SlotsOwned

-----------------------------------------------------------------------------
(* Frames: what a step leaves alone.                                       *)

LEMMA CountKept ==
    ASSUME Counted,
           \A t \in Worker : /\ work'[t].pc = "cb" <=> work[t].pc = "cb"
                             /\ work[t].pc = "cb" => work'[t].id = work[t].id,
           \A h \in Slot : slots'[h].calls = slots[h].calls
    PROVE  Counted'
  <1>1. \A h \in Slot : InCallback(h)' = InCallback(h)
    BY DEF InCallback
  <1> QED
    BY <1>1 DEF Counted

LEMMA CountTyped ==
    ASSUME NEW h
    PROVE  IsFiniteSet(InCallback(h)) /\ Cardinality(InCallback(h)) \in Nat
  <1>1. IsFiniteSet(InCallback(h))
    BY WorkersFinite, FS_Subset DEF InCallback
  <1> QED
    BY <1>1, FS_CardinalityType

LEMMA CountEntered ==
    ASSUME Counted, NEW t \in Worker, NEW k \in Slot, work[t].pc # "cb",
           work'[t].pc = "cb", work'[t].id = k,
           \A u \in Worker \ {t} : work'[u] = work[u],
           slots'[k].calls = slots[k].calls + 1,
           \A h \in Slot \ {k} : slots'[h].calls = slots[h].calls
    PROVE  Counted'
  <1>1. InCallback(k)' = InCallback(k) \cup {t} /\ t \notin InCallback(k)
    BY DEF InCallback
  <1>2. \A h \in Slot \ {k} : InCallback(h)' = InCallback(h)
    BY DEF InCallback
  <1>3. Cardinality(InCallback(k) \cup {t}) = Cardinality(InCallback(k)) + 1
    BY <1>1, CountTyped, FS_AddElement
  <1> SUFFICES ASSUME NEW h \in Slot
               PROVE slots'[h].calls = Cardinality(InCallback(h)')
    BY DEF Counted
  <1>4. CASE h = k
    BY <1>1, <1>3, <1>4 DEF Counted
  <1>5. CASE h # k
    BY <1>2, <1>5 DEF Counted
  <1> QED
    BY <1>4, <1>5

LEMMA CountLeft ==
    ASSUME Counted, NEW t \in Worker, NEW k \in Slot, work[t].pc = "cb", work[t].id = k,
           work'[t].pc # "cb", \A u \in Worker \ {t} : work'[u] = work[u],
           slots'[k].calls = slots[k].calls - 1,
           \A h \in Slot \ {k} : slots'[h].calls = slots[h].calls
    PROVE  Counted' /\ slots'[k].calls \in Nat
  <1>1. InCallback(k)' = InCallback(k) \ {t} /\ t \in InCallback(k)
    BY DEF InCallback
  <1>2. \A h \in Slot \ {k} : InCallback(h)' = InCallback(h)
    BY DEF InCallback
  <1>3. Cardinality(InCallback(k) \ {t}) = Cardinality(InCallback(k)) - 1
    BY <1>1, CountTyped, FS_RemoveElement
  <1>4. Cardinality(InCallback(k) \ {t}) \in Nat
    <2>1. IsFiniteSet(InCallback(k) \ {t})
      BY CountTyped, FS_RemoveElement
    <2> QED
      BY <2>1, FS_CardinalityType
  <1>5. ASSUME NEW h \in Slot
        PROVE slots'[h].calls = Cardinality(InCallback(h)')
    <2>1. CASE h = k
      BY <1>1, <1>3, <2>1 DEF Counted
    <2>2. CASE h # k
      BY <1>2, <2>2 DEF Counted
    <2> QED
      BY <2>1, <2>2
  <1> QED
    BY <1>3, <1>4, <1>5 DEF Counted

LEMMA TimersKept ==
    ASSUME TimersOwned, VarsTyped,
           \A e \in tmset' : /\ e \in tmset /\ InUse(e[2])'
                             /\ slots'[e[2]].at = slots[e[2]].at
                             /\ slots'[e[2]].tmo = slots[e[2]].tmo
                             /\ slots'[e[2]].fd = slots[e[2]].fd
    PROVE  TimersOwned'
  BY DEF TimersOwned

LEMMA QueuesKept ==
    ASSUME QueuedOnce, actions' = actions,
           \A t \in Worker : work'[t].mine = work[t].mine \/ work'[t].mine = <<>>,
           \A p : life[p] = "queued" => life'[p] = "queued"
    PROVE  QueuedOnce'
  <1>0. Entries(<<>>) = {} /\ Once(<<>>)
    BY EmptySeq, LenProperties DEF Entries, Once
  <1>1. \A t \in Worker : /\ Entries(work'[t].mine) \subseteq Entries(work[t].mine)
                          /\ Once(work'[t].mine)
    BY <1>0 DEF QueuedOnce
  <1>2. Once(actions)' /\ \A t \in Worker : Once(work'[t].mine)
    BY <1>1 DEF QueuedOnce, Once
  <1>3. Entries(actions)' = Entries(actions)
    BY DEF Entries
  <1>4. \A p \in Entries(actions)' : life'[p] = "queued"
    BY <1>3 DEF QueuedOnce
  <1>5. ASSUME NEW t \in Worker, NEW p \in Entries(work'[t].mine)
        PROVE /\ life'[p] = "queued" /\ p \notin Entries(actions)'
              /\ \A u \in Worker \ {t} : p \notin Entries(work'[u].mine)
    <2>1. p \in Entries(work[t].mine)
      BY <1>1, <1>5
    <2> QED
      BY <1>1, <1>3, <2>1 DEF QueuedOnce
  <1> QED
    BY <1>2, <1>4, <1>5 DEF QueuedOnce, Once, Entries

\* A step of worker t that changes no other worker, and takes away no slot.
LEMMA OnlyWorker ==
    ASSUME NetInv, NEW t \in Worker, NEW w \in WorkRecord, work' = [work EXCEPT ![t] = w],
           mx = Null \/ mx = t, w.pc \in Locked => mx' = t,
           \A h \in Slot : InUse(h) => InUse(h)',
           \A p \in Peer : Exists(p) => Exists(p)' /\ handle'[p] = handle[p],
           w.pc \in AtSlot => w.id \in Slot /\ InUse(w.id),
           w.pc = "cb" => /\ w.peer \in Peer /\ Exists(w.peer)
                          /\ handle[w.peer] = w.id /\ w.next # "none"
    PROVE  WorkTyped' /\ MutexHeld' /\ WorkersOwn'
  <1>1. WorkTyped'
    BY DEF NetInv, WorkTyped
  <1>2. work'[t] = w /\ \A u \in Worker \ {t} : work'[u] = work[u]
    BY DEF NetInv, WorkTyped
  <1>3. \A u \in Worker \ {t} : work[u].pc \notin Locked
    BY WorkersFinite DEF NetInv, MutexHeld
  <1>4. MutexHeld'
    BY <1>2, <1>3 DEF MutexHeld
  <1>5. WorkerOwns(t)'
    BY <1>2 DEF WorkerOwns, InUse, Exists
  <1>6. ASSUME NEW u \in Worker \ {t} PROVE WorkerOwns(u)'
    <2>1. WorkerOwns(u) /\ work'[u] = work[u] /\ work[u].pc \notin AtSlot
      BY <1>2, <1>3 DEF NetInv, WorkersOwn, Locked
    <2> QED
      BY <2>1 DEF WorkerOwns, Exists
  <1>7. WorkersOwn'
    BY <1>5, <1>6 DEF WorkersOwn
  <1> QED
    BY <1>1, <1>4, <1>7

\* A step that changes no worker.
LEMMA NoWorker ==
    ASSUME NetInv, work' = work, mx' = mx,
           \A h \in Slot : InUse(h) => InUse(h)',
           \A p \in Peer : Exists(p) => Exists(p)' /\ handle'[p] = handle[p]
    PROVE  WorkTyped' /\ MutexHeld' /\ WorkersOwn'
  <1>1. WorkTyped' /\ MutexHeld'
    BY DEF NetInv, WorkTyped, MutexHeld
  <1>2. ASSUME NEW u \in Worker PROVE WorkerOwns(u)'
    <2>1. WorkerOwns(u) /\ work'[u] = work[u]
      BY DEF NetInv, WorkersOwn
    <2> QED
      BY <2>1 DEF WorkerOwns, InUse, Exists
  <1>3. WorkersOwn'
    BY <1>2 DEF WorkersOwn
  <1> QED
    BY <1>1, <1>3

\* A worker's step that changes neither which numbers are in use nor whose
\* they are, and at most removes timeouts.
LEMMA WorkerStep ==
    ASSUME NetInv, NEW t \in Worker, NEW w \in WorkRecord, work' = [work EXCEPT ![t] = w],
           mx = Null \/ mx = t, w.pc \in Locked => mx' = t,
           VarsTyped', Counted', SlotsKept, UNCHANGED <<life, actions>>,
           w.mine = work[t].mine \/ w.mine = <<>>,
           w.pc \in AtSlot => w.id \in Slot /\ InUse(w.id),
           w.pc = "cb" => /\ w.peer \in Peer /\ Exists(w.peer)
                          /\ handle[w.peer] = w.id /\ w.next # "none",
           \A e \in tmset' : /\ e \in tmset /\ slots'[e[2]].at = slots[e[2]].at
                             /\ slots'[e[2]].tmo = slots[e[2]].tmo
    PROVE  NetInv'
  <1>1. SlotsOwned' /\ \A h \in Slot : InUse(h)' <=> InUse(h)
    BY KeptStayOwned DEF NetInv
  <1>2. WorkTyped' /\ MutexHeld' /\ WorkersOwn'
    BY <1>1, OnlyWorker DEF SlotsKept
  <1>3. QueuedOnce'
    BY QueuesKept DEF NetInv, WorkTyped
  <1>4. TimersOwned'
    <2>1. ASSUME NEW e \in tmset'
          PROVE /\ e \in tmset /\ InUse(e[2])'
                /\ slots'[e[2]].at = slots[e[2]].at
                /\ slots'[e[2]].tmo = slots[e[2]].tmo
                /\ slots'[e[2]].fd = slots[e[2]].fd
      <3>1. e \in tmset /\ e[2] \in Slot /\ InUse(e[2])
        BY <2>1 DEF NetInv, VarsTyped, TimersOwned
      <3> QED
        BY <1>1, <3>1 DEF SlotsKept, InUse
    <2> QED
      BY <2>1, TimersKept DEF NetInv
  <1> QED
    BY <1>1, <1>2, <1>3, <1>4 DEF NetInv

\* The same of a step that leaves all slots alone and makes no callback.
LEMMA WorkerGoesOn ==
    ASSUME NetInv, NEW t \in Worker, NEW w \in WorkRecord, work' = [work EXCEPT ![t] = w],
           mx = Null \/ mx = t, w.pc \in Locked => mx' = t,
           VarsTyped', UNCHANGED <<slots, size, free, handle, life, actions, tmset>>,
           w.mine = work[t].mine \/ w.mine = <<>>,
           w.pc \in AtSlot => w.id \in Slot /\ InUse(w.id),
           w.pc # "cb" /\ work[t].pc # "cb"
    PROVE  NetInv'
  <1>1. SlotsKept
    BY DEF SlotsKept, NetInv, VarsTyped, CallbacksOf, Exists
  <1>2. Counted'
    BY CountKept DEF NetInv, WorkTyped
  <1> QED
    BY <1>1, <1>2, WorkerStep

-----------------------------------------------------------------------------
(* The invariant holds initially, and every step preserves it.             *)

LEMMA IdleTyped == IdleWork \in WorkRecord
  BY TimeNat, EmptySeq DEF IdleWork, WorkRecord, Place, PeerOrNull, Infinite

LEMMA InitHolds == Init => NetInv
  <1> SUFFICES ASSUME Init PROVE NetInv
    OBVIOUS
  <1>0. /\ Cardinality(Peer) \in Nat /\ MaxTime \in Nat
        /\ program \in Program /\ program.requests \in Nat /\ program.events \in Nat
    BY PeerCount, TimeNat, ProgramsUse DEF Init
  <1>1. VarsTyped
    <2>1. Blank \in Record
      BY <1>0 DEF Blank, Record, PeerOrNull, NoIdent
    <2>2. Peer # {} => 0 \in Slot
      BY PeersFinite, FS_EmptySet, <1>0 DEF Slot
    <2> QED
      BY <1>0, <2>1, <2>2, EmptySeq DEF Init, VarsTyped
  <1>2. IdleWork \in WorkRecord
    BY IdleTyped
  <1>3. WorkTyped
    BY <1>2 DEF Init, WorkTyped
  <1>4. \A t \in Worker : work[t].pc = "new" /\ work[t].mine = <<>>
    BY DEF Init, IdleWork
  <1>5. MutexHeld /\ WorkersOwn
    BY <1>4 DEF MutexHeld, WorkersOwn, WorkerOwns, Locked, AtSlot
  <1>6. Counted
    <2>1. \A h \in Slot : InCallback(h) = {} /\ slots[h].calls = 0
      BY <1>4 DEF InCallback, Init, Blank
    <2> QED
      BY <2>1, FS_EmptySet DEF Counted
  <1>7. Unused = {} /\ \A h \in Slot : ~InUse(h)
    BY DEF Init, Unused, InUse
  <1>8. \A p \in Peer : ~Exists(p)
    BY DEF Init, Exists
  <1>9. FreeListExists
    <2>1. <<>> \in Seq(Unused) /\ DOMAIN <<>> = {}
      BY EmptySeq
    <2>2. FreeListIs(<<>>)
      BY <1>7, <2>1 DEF FreeListIs, Init
    <2> QED
      BY <2>1, <2>2 DEF FreeListExists
  <1>10. CallbacksOwned
    BY <1>7 DEF Init, CallbacksOwned, CallbacksOf, Blank
  <1>11. SlotsOwned
    BY <1>7, <1>8, <1>9, <1>10 DEF SlotsOwned, ExistingHaveSlots, SlotsHaveOwners
  <1>12. QueuedOnce /\ TimersOwned
    <2>1. Entries(<<>>) = {} /\ Once(<<>>)
      BY EmptySeq DEF Entries, Once
    <2> QED
      BY <1>4, <2>1 DEF Init, QueuedOnce, TimersOwned
  <1> QED
    BY <1>1, <1>3, <1>5, <1>6, <1>11, <1>12 DEF NetInv

LEMMA WaitingKeeps ==
    ASSUME NetInv, NEW t \in Worker, Waiting(t)
    PROVE  NetInv'
  <1>0. /\ work[t] \in WorkRecord /\ work[t].pc = "wait" /\ mx = Null
        /\ IdleWork \in WorkRecord
    BY IdleTyped DEF NetInv, WorkTyped, Waiting, FetchEvent, FetchWake, WaitEnds
  <1>1. CASE \E p \in Peer : FetchEvent(t, p)
    <2>1. PICK p \in Peer :
            /\ work' = [work EXCEPT ![t] = [IdleWork EXCEPT !.pc = "woken", !.id = handle[p],
                                                           !.ev = Ready(p)]]
            /\ interest' = IF p \in level THEN interest ELSE [interest EXCEPT ![p] = {}]
            /\ UNCHANGED <<slotVars, tmset, role, actions, mx, stop, wakes, level, wire,
                           userVars, countVars>>
      BY <1>1 DEF FetchEvent
    <2> DEFINE w == [IdleWork EXCEPT !.pc = "woken", !.id = handle[p], !.ev = Ready(p)]
    <2>2. Ready(p) \subseteq Event_ /\ handle[p] \in Slot
      BY DEF Ready, NetInv, VarsTyped
    <2>3. w \in WorkRecord
      BY <1>0, <2>2 DEF WorkRecord, Place
    <2>4. w.pc = "woken" /\ w.mine = <<>>
      BY DEF IdleWork
    <2>5. VarsTyped'
      BY <2>1 DEF NetInv, VarsTyped, slotVars, userVars, countVars
    <2> HIDE DEF w
    <2> QED
      BY <1>0, <2>1, <2>3, <2>4, <2>5, WorkerGoesOn
         DEF slotVars, userVars, countVars, Locked, AtSlot, w
  <1>2. CASE FetchWake(t) \/ WaitEnds(t)
    <2>1. PICK w \in WorkRecord :
            work' = [work EXCEPT ![t] = w] /\ w.pc = "woken" /\ w.mine = <<>>
      <3>1. CASE FetchWake(t)
        <4> DEFINE w == [IdleWork EXCEPT !.pc = "woken", !.ev = {"WAKE"}]
        <4>1. w \in WorkRecord /\ w.pc = "woken" /\ w.mine = <<>>
          BY <1>0 DEF WorkRecord, Place, IdleWork
        <4> QED
          BY <3>1, <4>1 DEF FetchWake
      <3>2. CASE WaitEnds(t)
        <4> DEFINE w == [IdleWork EXCEPT !.pc = "woken"]
        <4>1. w \in WorkRecord /\ w.pc = "woken" /\ w.mine = <<>>
          BY <1>0 DEF WorkRecord, Place, IdleWork
        <4> QED
          BY <3>2, <4>1 DEF WaitEnds
      <3> QED
        BY <1>2, <3>1, <3>2
    <2>2. UNCHANGED <<slotVars, tmset, role, actions, mx, stop, wakes, osVars,
                      userVars, countVars>>
      BY <1>2 DEF FetchWake, WaitEnds
    <2>3. VarsTyped'
      BY <2>2 DEF NetInv, VarsTyped, slotVars, osVars, userVars, countVars
    <2> QED
      BY <1>0, <2>1, <2>2, <2>3, WorkerGoesOn
         DEF slotVars, userVars, countVars, Locked, AtSlot
  <1> QED
    BY <1>1, <1>2 DEF Waiting

\* A change of the slot of a connection, to callbacks of its own or none.
LEMMA SlotChanged ==
    ASSUME VarsTyped, NEW h \in Slot, InUse(h), NEW r \in Record, slots' = [slots EXCEPT ![h] = r],
           r.ident = slots[h].ident, r.fd = slots[h].fd,
           {r.recv, r.send, r.acc, r.tmo} \subseteq CallbacksOf(h) \cup {Null, slots[h].fd},
           UNCHANGED <<size, free, handle, life>>
    PROVE  /\ SlotsKept /\ slots'[h] = r
           /\ \A k \in Slot \ {h} : slots'[k] = slots[k]
  <1>1. /\ slots' \in [Slot -> Record] /\ slots'[h] = r
        /\ \A k \in Slot \ {h} : slots'[k] = slots[k]
    BY DEF VarsTyped
  <1>2. \A p \in Peer : Exists(p)' <=> Exists(p)
    BY DEF Exists
  <1>3. ASSUME NEW k \in Slot
        PROVE /\ slots'[k].ident = slots[k].ident /\ slots'[k].fd = slots[k].fd
              /\ CallbacksOf(k)' \subseteq
                   CallbacksOf(k) \cup {Null} \cup (IF InUse(k) THEN {slots[k].fd} ELSE {})
    <2>1. CASE k = h
      BY <1>1, <2>1 DEF CallbacksOf
    <2>2. CASE k # h
      BY <1>1, <2>2 DEF CallbacksOf
    <2> QED
      BY <2>1, <2>2
  <1> QED
    BY <1>1, <1>2, <1>3 DEF SlotsKept

\* Where Goto and Done lead.
LEMMA GotoTyped ==
    ASSUME NetInv, NEW t \in Worker, NEW c \in Place
    PROVE  /\ [work[t] EXCEPT !.pc = c] \in WorkRecord
           /\ [work EXCEPT ![t].pc = c] = [work EXCEPT ![t] = [work[t] EXCEPT !.pc = c]]
           /\ [work[t] EXCEPT !.pc = c].pc = c /\ [work[t] EXCEPT !.pc = c].id = work[t].id
           /\ [work[t] EXCEPT !.pc = c].mine = work[t].mine
  BY DEF NetInv, WorkTyped, WorkRecord

LEMMA DoneTyped ==
    LET w == [IdleWork EXCEPT !.pc = "actions"]
    IN  w \in WorkRecord /\ w.pc = "actions" /\ w.mine = <<>>
  BY IdleTyped DEF WorkRecord, Place, Locked, IdleWork

LEMMA LockingKeeps ==
    ASSUME NetInv, NEW t \in Worker, Locking(t)
    PROVE  NetInv'
  <1>1. CASE Begin(t) \/ ActionsDone(t) \/ (Relock(t) /\ "WAKE" \notin work[t].ev)
    <2>1. PICK c \in {"top", "actions", "timers", "event"} : work' = [work EXCEPT ![t].pc = c]
      BY <1>1 DEF Begin, ActionsDone, Relock, Goto
    <2>2. /\ mx = Null /\ mx' = t /\ work[t].pc # "cb"
          /\ UNCHANGED <<slotVars, tmset, actions, stop, osVars, userVars, countVars>>
          /\ role' \in {role, Null} /\ wakes' = wakes
      BY <1>1 DEF Begin, ActionsDone, Relock
    <2>3. VarsTyped'
      BY <2>2 DEF NetInv, VarsTyped, slotVars, osVars, userVars, countVars
    <2> QED
      BY <2>1, <2>2, <2>3, GotoTyped, WorkerGoesOn
         DEF slotVars, userVars, Locked, AtSlot, Place
  <1>2. CASE Relock(t) /\ "WAKE" \in work[t].ev
    <2>1. /\ mx = Null /\ mx' = t /\ work[t].pc # "cb" /\ Done(t)
          /\ UNCHANGED <<slotVars, tmset, actions, stop, osVars, userVars, countVars>>
          /\ role' \in {role, Null} /\ wakes' \subseteq wakes
      BY <1>2 DEF Relock
    <2>2. VarsTyped'
      BY <2>1 DEF NetInv, VarsTyped, slotVars, osVars, userVars, countVars
    <2> QED
      BY <2>1, <2>2, DoneTyped, WorkerGoesOn
         DEF slotVars, userVars, Locked, AtSlot, Place, Done
  <1>3. CASE CallbackReturns(t)
    <2> DEFINE h == work[t].id
               w == [work[t] EXCEPT !.pc = work[t].next, !.peer = Null, !.kind = "none"]
    <2>1. /\ work[t] \in WorkRecord /\ work[t].pc = "cb" /\ mx = Null /\ mx' = t
          /\ slots' = [slots EXCEPT ![h].calls = @ - 1]
          /\ work' = [work EXCEPT ![t] = w]
          /\ UNCHANGED <<size, free, tmset, role, actions, stop, wakes, osVars, userVars,
                         countVars>>
      BY <1>3 DEF CallbackReturns, NetInv, WorkTyped, WorkRecord
    <2>2. /\ work[t].peer \in Peer /\ Exists(work[t].peer) /\ handle[work[t].peer] = h
          /\ work[t].next \in {"timers"} \cup AtSlot
      BY <2>1 DEF NetInv, WorkersOwn, WorkerOwns, WorkRecord
    <2>3. h \in Slot /\ InUse(h)
      BY <2>2 DEF NetInv, VarsTyped, SlotsOwned, ExistingHaveSlots
    <2>4. /\ w \in WorkRecord /\ w.pc \in {"timers"} \cup AtSlot /\ w.mine = work[t].mine
          /\ w.id = h
      BY <2>1, <2>2 DEF WorkRecord, Place, Locked, PeerOrNull
    <2> DEFINE r == [slots[h] EXCEPT !.calls = @ - 1]
    <2>5. /\ slots[h] \in Record /\ slots[h].calls \in Nat /\ slots' = [slots EXCEPT ![h] = r]
          /\ slots'[h] = r /\ \A k \in Slot \ {h} : slots'[k] = slots[k]
      BY <2>1, <2>3 DEF NetInv, VarsTyped, Record
    <2>5a. /\ r.calls = slots[h].calls - 1 /\ r.ident = slots[h].ident /\ r.fd = slots[h].fd
           /\ {r.recv, r.send, r.acc, r.tmo} \subseteq CallbacksOf(h) \cup {Null, slots[h].fd}
           /\ r.at = slots[h].at /\ r.tmo = slots[h].tmo
      BY <2>5 DEF Record, CallbacksOf
    <2>6. Counted' /\ slots'[h].calls \in Nat
      <3>1. work'[t] = w /\ w.pc # "cb" /\ \A u \in Worker \ {t} : work'[u] = work[u]
        BY <2>1, <2>4 DEF NetInv, WorkTyped, AtSlot
      <3>2. Counted /\ work[t].id = h
        BY DEF NetInv
      <3> HIDE DEF h, w, r
      <3> QED
        BY <2>1, <2>3, <2>5, <2>5a, <3>1, <3>2, CountLeft
    <2>7. r \in Record
      BY <2>5, <2>6 DEF Record
    <2>8. SlotsKept
      <3> HIDE DEF h, r
      <3>1. VarsTyped /\ UNCHANGED <<size, free, handle, life>>
        BY <2>1 DEF NetInv, userVars
      <3> QED
        BY <2>3, <2>5, <2>5a, <2>7, <3>1, SlotChanged
    <2>9. VarsTyped'
      BY <2>1, <2>8 DEF NetInv, VarsTyped, SlotsKept, osVars, userVars, countVars
    <2>10. \A e \in tmset' : /\ e \in tmset /\ slots'[e[2]].at = slots[e[2]].at
                             /\ slots'[e[2]].tmo = slots[e[2]].tmo
      <3> HIDE DEF h, r
      <3> QED
        BY <2>1, <2>5, <2>5a DEF NetInv, VarsTyped
    <2>11. w.pc # "cb" /\ (w.pc \in Locked => mx' = t)
      BY <2>1, <2>4 DEF AtSlot
    <2> HIDE DEF w, h
    <2> QED
      BY <2>1, <2>3, <2>4, <2>6, <2>8, <2>9, <2>10, <2>11, WorkerStep DEF userVars
  <1> QED
    BY <1>1, <1>2, <1>3 DEF Locking

\* Who is called through a slot.
LEMMA Owner ==
    ASSUME NetInv, NEW h \in Slot, InUse(h), NEW p \in CallbacksOf(h), p # Null
    PROVE  p = slots[h].fd /\ p \in Peer /\ Exists(p) /\ handle[p] = h
  <1>1. p = slots[h].fd
    BY DEF NetInv, SlotsOwned, CallbacksOwned
  <1>2. PICK q \in Peer : Exists(q) /\ handle[q] = h
    BY DEF NetInv, SlotsOwned, SlotsHaveOwners
  <1>3. slots[h].fd = q
    BY <1>2 DEF NetInv, SlotsOwned, ExistingHaveSlots
  <1> QED
    BY <1>1, <1>2, <1>3

\* The variables that no part of the invariant but VarsTyped is about.
RestTyped ==
    /\ role \in Worker \cup {Null} /\ mx \in Worker \cup {Null}
    /\ stop \subseteq Worker /\ wakes \subseteq Worker
    /\ interest \in [Peer -> SUBSET Event_] /\ level \subseteq Peer
    /\ now \in 0 .. MaxTime /\ program \in Program
    /\ calls \in 0 .. program.requests /\ traffic \in 0 .. program.events

\* A worker under the mutex changes flags and requests of the slot it is at.
LEMMA SlotStep ==
    ASSUME NetInv, NEW t \in Worker, NEW w \in WorkRecord, work' = [work EXCEPT ![t] = w],
           mx = t, mx' = t, work[t].pc # "cb", w.pc # "cb", RestTyped',
           w.mine = work[t].mine \/ w.mine = <<>>, w.pc \in AtSlot => w.id = work[t].id,
           NEW h \in Slot, h = work[t].id, InUse(h),
           NEW r \in Record, slots' = [slots EXCEPT ![h] = r],
           r.ident = slots[h].ident, r.fd = slots[h].fd, r.calls = slots[h].calls,
           r.tmo = slots[h].tmo, r.at = slots[h].at,
           {r.recv, r.send, r.acc} \subseteq CallbacksOf(h) \cup {Null, slots[h].fd},
           UNCHANGED <<size, free, handle, life, actions, tmset>>
    PROVE  NetInv'
  <1>1. {r.recv, r.send, r.acc, r.tmo} \subseteq CallbacksOf(h) \cup {Null, slots[h].fd}
    BY DEF CallbacksOf
  <1>2. /\ SlotsKept /\ slots'[h] = r
        /\ \A k \in Slot \ {h} : slots'[k] = slots[k]
    BY <1>1, SlotChanged DEF NetInv
  <1>3. VarsTyped'
    BY <1>2 DEF NetInv, VarsTyped, RestTyped, SlotsKept
  <1>4. Counted'
    <2>1. \A k \in Slot : slots'[k].calls = slots[k].calls
      BY <1>2
    <2>2. \A u \in Worker : /\ work'[u].pc = "cb" <=> work[u].pc = "cb"
                            /\ work[u].pc = "cb" => work'[u].id = work[u].id
      BY DEF NetInv, WorkTyped
    <2> QED
      BY <2>1, <2>2, CountKept DEF NetInv
  <1>5. \A e \in tmset' : /\ e \in tmset /\ slots'[e[2]].at = slots[e[2]].at
                          /\ slots'[e[2]].tmo = slots[e[2]].tmo
    BY <1>2 DEF NetInv, VarsTyped
  <1> QED
    BY <1>2, <1>3, <1>4, <1>5, WorkerStep

\* A worker calls back: invoke_cb().
LEMMA CallStep ==
    ASSUME NetInv, NEW t \in Worker, NEW h \in Slot, InUse(h), NEW p \in CallbacksOf(h), p # Null,
           NEW kind \in {"timeout", "accept", "data", "closed", "send"},
           NEW next \in {"timers"} \cup AtSlot,
           mx = t, work[t].pc # "cb", Called(t, h, p, kind, next), RestTyped',
           NEW r \in Record, slots' = [slots EXCEPT ![h] = r],
           r.ident = slots[h].ident, r.fd = slots[h].fd, r.calls = slots[h].calls + 1,
           r.at = slots[h].at,
           {r.recv, r.send, r.acc, r.tmo} \subseteq CallbacksOf(h) \cup {Null},
           tmset' \subseteq tmset, r.tmo = slots[h].tmo \/ \A e \in tmset' : e[2] # h,
           UNCHANGED <<size, free, handle, life, actions>>
    PROVE  NetInv'
  <1> DEFINE w == [work[t] EXCEPT !.pc = "cb", !.id = h, !.peer = p, !.kind = kind, !.next = next]
  <1>1. p \in Peer /\ Exists(p) /\ handle[p] = h
    BY Owner
  <1>2. work[t] \in WorkRecord /\ work' = [work EXCEPT ![t] = w] /\ mx' = Null
    BY DEF NetInv, WorkTyped, Called, WorkRecord
  <1>3. /\ w \in WorkRecord /\ w.pc = "cb" /\ w.id = h /\ w.peer = p /\ w.next = next
        /\ w.mine = work[t].mine
    BY <1>1, <1>2 DEF WorkRecord, Place, PeerOrNull
  <1>4. /\ SlotsKept /\ slots'[h] = r
        /\ \A k \in Slot \ {h} : slots'[k] = slots[k]
    BY SlotChanged DEF NetInv
  <1>5. VarsTyped'
    BY <1>4 DEF NetInv, VarsTyped, RestTyped, SlotsKept
  <1>6. Counted'
    <2>1. work'[t] = w /\ \A u \in Worker \ {t} : work'[u] = work[u]
      BY <1>2 DEF NetInv, WorkTyped
    <2> HIDE DEF w
    <2> QED
      BY <1>3, <1>4, <2>1, CountEntered DEF NetInv
  <1>7. \A e \in tmset' : /\ e \in tmset /\ slots'[e[2]].at = slots[e[2]].at
                          /\ slots'[e[2]].tmo = slots[e[2]].tmo
    BY <1>4 DEF NetInv, VarsTyped
  <1>8. w.next # "none" /\ "cb" \notin Locked /\ "cb" \notin AtSlot
    BY <1>3 DEF AtSlot, Locked
  <1> HIDE DEF w
  <1> QED
    BY <1>1, <1>2, <1>3, <1>4, <1>5, <1>6, <1>7, <1>8, WorkerStep

LEMMA AtItsSlot ==
    ASSUME NetInv, NEW t \in Worker, work[t].pc \in AtSlot
    PROVE  /\ mx = t /\ work[t].id \in Slot /\ InUse(work[t].id)
           /\ slots[work[t].id] \in Record /\ slots[work[t].id].calls \in Nat
  BY DEF NetInv, MutexHeld, Locked, WorkersOwn, WorkerOwns, VarsTyped, Record

LEMMA RestNow == NetInv => RestTyped
  BY DEF NetInv, VarsTyped, RestTyped

LEMMA TopKeeps ==
    ASSUME NetInv, NEW t \in Worker, Top(t)
    PROVE  NetInv'
  <1>1. /\ work[t].pc = "top" /\ mx = t /\ mx' = Null /\ work[t] \in WorkRecord
        /\ UNCHANGED <<slotVars, tmset, actions, stop, wakes, osVars, userVars, countVars>>
        /\ role' \in {role, t}
    BY DEF Top, NetInv, WorkTyped
  <1>2. VarsTyped'
    BY <1>1 DEF NetInv, VarsTyped, slotVars, osVars, userVars, countVars
  <1>3. CASE t \in stop
    <2>1. work' = [work EXCEPT ![t].pc = "end"]
      BY <1>3 DEF Top, Goto
    <2> DEFINE w == [work[t] EXCEPT !.pc = "end"]
    <2>2. /\ work' = [work EXCEPT ![t] = w] /\ w \in WorkRecord /\ w.pc = "end"
          /\ w.mine = work[t].mine
      BY <1>1, <2>1 DEF NetInv, WorkTyped, WorkRecord, Place
    <2> HIDE DEF w
    <2> QED
      BY <1>1, <1>2, <2>2, WorkerGoesOn DEF slotVars, userVars, Locked, AtSlot
  <1>4. CASE t \notin stop
    <2>1. PICK d \in 0 .. MaxTime + 1 : work' = [work EXCEPT ![t].pc = "wait", ![t].due = d]
      <3>1. Nearest \in 0 .. MaxTime + 1
        BY NearestTyped DEF NetInv
      <3>2. Infinite \in 0 .. MaxTime + 1
        BY TimeNat DEF Infinite
      <3> QED
        BY <1>4, <3>1, <3>2 DEF Top
    <2> DEFINE w == [work[t] EXCEPT !.pc = "wait", !.due = d]
    <2>2. /\ work' = [work EXCEPT ![t] = w] /\ w \in WorkRecord /\ w.pc = "wait"
          /\ w.mine = work[t].mine
      BY <1>1, <2>1 DEF NetInv, WorkTyped, WorkRecord, Place
    <2> HIDE DEF w
    <2> QED
      BY <1>1, <1>2, <2>2, WorkerGoesOn DEF slotVars, userVars, Locked, AtSlot
  <1> QED
    BY <1>3, <1>4

LEMMA TimersKeeps ==
    ASSUME NetInv, NEW t \in Worker, Timers(t)
    PROVE  NetInv'
  <1>1. /\ work[t].pc = "timers" /\ mx = t
        /\ UNCHANGED <<size, free, role, actions, stop, wakes, osVars, userVars, countVars>>
    BY DEF Timers
  <1>2. CASE Nearest > now
    <2>1. Done(t) /\ UNCHANGED <<slots, tmset, mx>>
      BY <1>2 DEF Timers
    <2>2. VarsTyped'
      BY <1>1, <2>1 DEF NetInv, VarsTyped, osVars, userVars, countVars
    <2> QED
      BY <1>1, <2>1, <2>2, DoneTyped, WorkerGoesOn DEF userVars, AtSlot, Done
  <1>3. CASE ~ (Nearest > now)
    <2>1. PICK e \in tmset :
            /\ tmset' = tmset \ {e}
            /\ IF InUse(e[2]) /\ slots[e[2]].tmo # Null
               THEN /\ slots' = [slots EXCEPT ![e[2]].tmo = Null, ![e[2]].calls = @ + 1]
                    /\ Called(t, e[2], slots[e[2]].tmo, "timeout", "timers")
               ELSE UNCHANGED <<slots, work, mx>>
      BY <1>3 DEF Timers
    <2> DEFINE h == e[2]
               r == [slots[h] EXCEPT !.tmo = Null, !.calls = @ + 1]
    <2>2. /\ h \in Slot /\ InUse(h) /\ slots[h].tmo # Null /\ slots[h].at = e[1]
          /\ e = <<e[1], e[2]>>
      BY <2>1 DEF NetInv, VarsTyped, TimersOwned
    <2>3. /\ slots' = [slots EXCEPT ![h].tmo = Null, ![h].calls = @ + 1]
          /\ Called(t, h, slots[h].tmo, "timeout", "timers")
      BY <2>1, <2>2
    <2>4. /\ slots[h] \in Record /\ slots[h].calls \in Nat
          /\ slots' = [slots EXCEPT ![h] = r]
      BY <2>2, <2>3 DEF NetInv, VarsTyped, Record
    <2>5. /\ r \in Record /\ r.ident = slots[h].ident /\ r.fd = slots[h].fd
          /\ r.calls = slots[h].calls + 1 /\ r.at = slots[h].at
          /\ {r.recv, r.send, r.acc, r.tmo} \subseteq CallbacksOf(h) \cup {Null}
      <3>1. r \in Record
        <4>1. Null \in PeerOrNull /\ slots[h].calls + 1 \in Nat
          BY <2>4 DEF PeerOrNull
        <4> HIDE DEF h
        <4> QED
          BY <2>4, <4>1 DEF Record
      <3>2. /\ r.ident = slots[h].ident /\ r.fd = slots[h].fd
            /\ r.calls = slots[h].calls + 1 /\ r.at = slots[h].at
            /\ r.tmo = Null /\ r.recv = slots[h].recv /\ r.send = slots[h].send
            /\ r.acc = slots[h].acc
        BY <2>4 DEF Record
      <3> QED
        BY <3>1, <3>2 DEF CallbacksOf
    <2>6. slots[h].tmo \in CallbacksOf(h)
      BY DEF CallbacksOf
    <2>7. \A x \in tmset' : x[2] # h
      <3> SUFFICES ASSUME NEW x \in tmset', x[2] = h PROVE FALSE
        OBVIOUS
      <3>1. x \in tmset /\ x # e
        BY <2>1
      <3>2. x = <<x[1], x[2]>> /\ x[1] = slots[h].at
        BY <3>1 DEF NetInv, VarsTyped, TimersOwned
      <3> QED
        BY <2>2, <3>1, <3>2
    <2>8. RestTyped'
      BY <1>1, <2>3, RestNow DEF RestTyped, Called, osVars, countVars
    <2>9. tmset' \subseteq tmset /\ UNCHANGED <<size, free, handle, life, actions>>
      BY <1>1, <2>1 DEF userVars
    <2> HIDE DEF h, r
    <2> QED
      BY <1>1, <2>2, <2>3, <2>4, <2>5, <2>6, <2>7, <2>8, <2>9, CallStep
  <1> QED
    BY <1>2, <1>3

LEMMA EventKeeps ==
    ASSUME NetInv, NEW t \in Worker, Event(t)
    PROVE  NetInv'
  <1>1. /\ work[t].pc = "event" /\ mx = t /\ mx' = t
        /\ UNCHANGED <<size, free, tmset, role, actions, stop, wakes, osVars, userVars, countVars>>
    BY DEF Event
  <1>2. RestTyped'
    BY <1>1, RestNow DEF RestTyped, osVars, countVars
  <1>3. CASE InUse(work[t].id)
    <2> DEFINE h == work[t].id
               r == [slots[h] EXCEPT !.cur = {}]
    <2>1. PICK c \in {"accept", "out"} : work' = [work EXCEPT ![t].pc = c]
      BY <1>3 DEF Event, Goto
    <2>2. h \in Slot /\ slots[h] \in Record
      <3>1. h \in 0 .. size - 1
        BY <1>3 DEF InUse
      <3> QED
        BY <3>1, PeerCount DEF Slot, NetInv, VarsTyped
    <2>3. slots' = [slots EXCEPT ![h] = r]
      BY <1>3, <2>2 DEF Event, NetInv, VarsTyped
    <2>4. /\ r \in Record /\ r.ident = slots[h].ident /\ r.fd = slots[h].fd
          /\ r.calls = slots[h].calls /\ r.at = slots[h].at /\ r.tmo = slots[h].tmo
          /\ {r.recv, r.send, r.acc} \subseteq CallbacksOf(h) \cup {Null, slots[h].fd}
      BY <2>2 DEF Record, CallbacksOf
    <2> DEFINE w == [work[t] EXCEPT !.pc = c]
    <2>5. /\ work' = [work EXCEPT ![t] = w] /\ w \in WorkRecord /\ w.pc # "cb"
          /\ w.mine = work[t].mine /\ w.id = h /\ work[t].pc # "cb"
      BY <1>1, <2>1, GotoTyped DEF Place, Locked, AtSlot
    <2>6. UNCHANGED <<size, free, handle, life, actions, tmset>>
      BY <1>1 DEF userVars
    <2>7. InUse(h) /\ h = work[t].id
      BY <1>3
    <2> HIDE DEF h, r, w
    <2> QED
      BY <1>1, <1>2, <2>2, <2>3, <2>4, <2>5, <2>6, <2>7, SlotStep
  <1>4. CASE ~InUse(work[t].id)
    <2>1. Done(t) /\ UNCHANGED slots
      BY <1>4 DEF Event
    <2>2. VarsTyped'
      BY <1>1, <2>1 DEF NetInv, VarsTyped, osVars, userVars, countVars
    <2> QED
      BY <1>1, <2>1, <2>2, DoneTyped, WorkerGoesOn DEF userVars, AtSlot, Done
  <1> QED
    BY <1>3, <1>4

LEMMA AcceptKeeps ==
    ASSUME NetInv, NEW t \in Worker, Accept(t)
    PROVE  NetInv'
  <1>0. PICK h \in Slot : h = work[t].id
    BY AtItsSlot DEF Accept, AtSlot
  <1>1. /\ work[t].pc = "accept" /\ mx = t /\ InUse(h)
        /\ slots[h] \in Record /\ slots[h].calls \in Nat /\ slots[h].acc # Null
        /\ UNCHANGED <<tmset, role, actions, stop, wakes, countVars>>
    BY <1>0, AtItsSlot DEF Accept, AtSlot
  <1>2. PICK n \in Peer :
        /\ life[n] = "unborn"
        /\ LET s == [slots EXCEPT ![h].flags = @ \ {"IN"}, ![h].acc = Null,
                                  ![h].calls = @ + 1]
           IN slots' = [s EXCEPT ![free].ident = free, ![free].fd = n]
        /\ size' = IF free >= size THEN free + 1 ELSE size
        /\ free' = IF free >= size THEN free + 1 ELSE slots[free].ident
        /\ handle' = [handle EXCEPT ![n] = free]
        /\ life' = [life EXCEPT ![n] = "live"]
        /\ Register(n)
        /\ Called(t, h, slots[h].acc, "accept", "recv")
    <2>1. program.peers \subseteq Peer
      BY ProgramsUse DEF NetInv, VarsTyped
    <2> QED
      BY <1>0, <2>1 DEF Accept
  <1>3. free \in Slot /\ ~InUse(free) /\ free # h
    BY <1>1, <1>2, RoomForOne DEF NetInv
  <1> DEFINE r == [slots[h] EXCEPT !.flags = @ \ {"IN"}, !.acc = Null, !.calls = @ + 1]
             q == [slots[free] EXCEPT !.ident = free, !.fd = n]
  <1>4. slots[free] \in Record /\ free \in -1 .. Cardinality(Peer)
    <2>1. slots[free] \in Record
      BY <1>3 DEF NetInv, VarsTyped
    <2>2. free \in -1 .. Cardinality(Peer)
      BY <1>3, PeerCount DEF Slot
    <2> QED
      BY <2>1, <2>2
  <1>5. r \in Record
    <2>1. Null \in PeerOrNull /\ slots[h].calls + 1 \in Nat
      BY <1>1 DEF PeerOrNull
    <2> QED
      BY <1>1, <2>1 DEF Record
  <1>6. q \in Record
    <2>1. n \in PeerOrNull
      BY DEF PeerOrNull
    <2> QED
      BY <1>4, <2>1 DEF Record
  <1>7. slots' = [slots EXCEPT ![h] = r, ![free] = q]
    BY <1>1, <1>2, <1>3, <1>4 DEF NetInv, VarsTyped, Record
  <1>8. /\ slots' \in [Slot -> Record] /\ slots'[h] = r /\ slots'[free] = q
        /\ \A k \in Slot \ {h, free} : slots'[k] = slots[k]
    BY <1>3, <1>5, <1>6, <1>7 DEF NetInv, VarsTyped
  <1>9. /\ r.ident = slots[h].ident /\ r.fd = slots[h].fd /\ r.at = slots[h].at
        /\ r.tmo = slots[h].tmo /\ r.recv = slots[h].recv /\ r.send = slots[h].send
        /\ r.acc = Null /\ r.calls = slots[h].calls + 1
    BY <1>1 DEF Record
  <1>10. /\ q.ident = free /\ q.fd = n /\ q.calls = slots[free].calls
         /\ q.tmo = slots[free].tmo /\ q.recv = slots[free].recv
         /\ q.send = slots[free].send /\ q.acc = slots[free].acc
    BY <1>4 DEF Record
  <1> HIDE DEF r, q
  <1>11. SlotTaken(n)
    <2>1. \A k \in Slot : CallbacksOf(k)' \subseteq CallbacksOf(k) \cup {Null}
      <3> TAKE k \in Slot
      <3>1. CASE k = h
        BY <1>8, <1>9, <3>1 DEF CallbacksOf
      <3>2. CASE k = free
        BY <1>8, <1>10, <3>2 DEF CallbacksOf
      <3>3. CASE k \notin {h, free}
        BY <1>8, <3>3 DEF CallbacksOf
      <3> QED
        BY <3>1, <3>2, <3>3
    <2>2. \A k \in Slot \ {free} : slots'[k].ident = slots[k].ident /\ slots'[k].fd = slots[k].fd
      BY <1>8, <1>9
    <2> QED
      BY <1>2, <1>8, <1>10, <2>1, <2>2 DEF SlotTaken
  <1>12. /\ SlotsOwned' /\ \A k \in Slot : InUse(k) => InUse(k)'
         /\ size' \in 0 .. Cardinality(Peer) /\ free' \in 0 .. size'
    BY <1>11, TakenStayOwned DEF NetInv
  <1>13. VarsTyped'
    <2>1. handle' \in [Peer -> Slot] /\ life' \in [Peer -> {"unborn", "live", "queued", "leaving", "gone"}]
      BY <1>2, <1>3 DEF NetInv, VarsTyped
    <2>2. interest' \in [Peer -> SUBSET Event_] /\ level' \subseteq Peer /\ mx' = Null
      BY <1>2 DEF NetInv, VarsTyped, Register, Event_, Called
    <2> QED
      BY <1>1, <1>8, <1>12, <2>1, <2>2 DEF NetInv, VarsTyped, countVars
  <1> DEFINE w == [work[t] EXCEPT !.pc = "cb", !.id = h, !.peer = slots[h].acc,
                                  !.kind = "accept", !.next = "recv"]
  <1>14. slots[h].acc \in Peer /\ Exists(slots[h].acc) /\ handle[slots[h].acc] = h
    <2>1. slots[h].acc \in CallbacksOf(h)
      BY DEF CallbacksOf
    <2> QED
      BY <1>1, <2>1, Owner
  <1>15. /\ work[t] \in WorkRecord /\ work' = [work EXCEPT ![t] = w] /\ mx' = Null
         /\ work'[t] = w /\ \A u \in Worker \ {t} : work'[u] = work[u]
    BY <1>2 DEF NetInv, WorkTyped, Called, WorkRecord
  <1>16. /\ w \in WorkRecord /\ w.pc = "cb" /\ w.id = h /\ w.peer = slots[h].acc
         /\ w.next = "recv" /\ w.mine = work[t].mine
    BY <1>14, <1>15 DEF WorkRecord, Place, PeerOrNull, AtSlot
  <1> HIDE DEF w
  <1>17. Counted'
    <2>1. slots'[h].calls = slots[h].calls + 1 /\ work[t].pc # "cb"
      BY <1>1, <1>8, <1>9
    <2>2. \A k \in Slot \ {h} : slots'[k].calls = slots[k].calls
      BY <1>8, <1>10
    <2> QED
      BY <1>15, <1>16, <2>1, <2>2, CountEntered DEF NetInv
  <1>18. \A p \in Peer : Exists(p) => Exists(p)' /\ handle'[p] = handle[p]
    BY <1>2 DEF NetInv, VarsTyped, Exists
  <1>19. WorkTyped' /\ MutexHeld' /\ WorkersOwn'
    BY <1>1, <1>12, <1>14, <1>15, <1>16, <1>18, OnlyWorker DEF Locked, AtSlot
  <1>20. QueuedOnce'
    BY <1>1, <1>2, <1>15, <1>16, QueuesKept DEF NetInv, VarsTyped
  <1>21. TimersOwned'
    <2>1. ASSUME NEW e \in tmset'
          PROVE /\ e \in tmset /\ InUse(e[2])'
                /\ slots'[e[2]].at = slots[e[2]].at
                /\ slots'[e[2]].tmo = slots[e[2]].tmo
                /\ slots'[e[2]].fd = slots[e[2]].fd
      <3>1. e \in tmset /\ e[2] \in Slot /\ InUse(e[2])
        BY <1>1, <2>1 DEF NetInv, VarsTyped, TimersOwned
      <3>2. e[2] # free
        BY <1>3, <3>1
      <3>3. InUse(e[2])'
        BY <1>12, <3>1 DEF InUse
      <3> QED
        BY <1>8, <1>9, <3>1, <3>2, <3>3
    <2> QED
      BY <2>1, TimersKept DEF NetInv
  <1> QED
    BY <1>12, <1>13, <1>17, <1>19, <1>20, <1>21 DEF NetInv

\* The flags and requests of a slot after a request was answered.
LEMMA Answered ==
    ASSUME NEW r \in Record, NEW F \in SUBSET Event_
    PROVE  /\ [r EXCEPT !.flags = F] \in Record
           /\ [r EXCEPT !.flags = F, !.acc = Null] \in Record
           /\ [r EXCEPT !.flags = F, !.recv = Null, !.calls = r.calls + 1] \in Record
           /\ [r EXCEPT !.flags = F, !.send = Null, !.calls = r.calls + 1] \in Record
  <1>1. Null \in PeerOrNull /\ r.calls + 1 \in Nat
    BY DEF PeerOrNull, Record
  <1> QED
    BY <1>1 DEF Record

LEMMA AcceptFailsKeeps ==
    ASSUME NetInv, NEW t \in Worker, AcceptFails(t)
    PROVE  NetInv'
  <1> DEFINE h == work[t].id
             r == [slots[h] EXCEPT !.flags = @ \ {"IN"}, !.acc = Null]
             w == [work[t] EXCEPT !.pc = "recv"]
  <1>1. /\ work[t].pc = "accept" /\ mx = t /\ mx' = t /\ h \in Slot /\ InUse(h)
        /\ slots[h] \in Record
        /\ UNCHANGED <<size, free, tmset, role, actions, stop, wakes, osVars, userVars, countVars>>
    BY AtItsSlot DEF AcceptFails, AtSlot
  <1>2. slots' = [slots EXCEPT ![h] = r]
    BY <1>1 DEF AcceptFails, NetInv, VarsTyped
  <1>3. r \in Record
    <2>1. slots[h].flags \ {"IN"} \in SUBSET Event_
      BY <1>1 DEF Record
    <2> QED
      BY <1>1, <2>1, Answered
  <1>4. /\ r.ident = slots[h].ident /\ r.fd = slots[h].fd
        /\ r.calls = slots[h].calls /\ r.at = slots[h].at /\ r.tmo = slots[h].tmo
        /\ {r.recv, r.send, r.acc} \subseteq CallbacksOf(h) \cup {Null, slots[h].fd}
    BY <1>1 DEF Record, CallbacksOf
  <1>5. /\ work' = [work EXCEPT ![t] = w] /\ w \in WorkRecord /\ w.pc # "cb"
        /\ w.mine = work[t].mine /\ w.id = h /\ work[t].pc # "cb"
    BY <1>1, GotoTyped DEF AcceptFails, Goto, Place, Locked, AtSlot
  <1>6. RestTyped' /\ UNCHANGED <<size, free, handle, life, actions, tmset>>
    BY <1>1, RestNow DEF RestTyped, osVars, userVars, countVars
  <1>7. h = work[t].id
    OBVIOUS
  <1> HIDE DEF h, r, w
  <1> QED
    BY <1>1, <1>2, <1>3, <1>4, <1>5, <1>6, <1>7, SlotStep

\* A worker goes on to another place at its slot, which it leaves alone.
LEMMA PlaceStep ==
    ASSUME NetInv, NEW t \in Worker, work[t].pc \in AtSlot, NEW c \in AtSlot, Goto(t, c),
           UNCHANGED <<slots, mx, size, free, tmset, role, actions, stop, wakes,
                       interest, level, userVars, countVars>>
    PROVE  NetInv'
  <1>1. /\ mx = t /\ work[t].id \in Slot /\ InUse(work[t].id)
    BY AtItsSlot
  <1>2. VarsTyped'
    BY DEF NetInv, VarsTyped, userVars, countVars
  <1> DEFINE w == [work[t] EXCEPT !.pc = c]
  <1>3. /\ work' = [work EXCEPT ![t] = w] /\ w \in WorkRecord /\ w.pc = c
        /\ w.mine = work[t].mine /\ w.id = work[t].id
    BY GotoTyped DEF Goto, Place, Locked
  <1>4. c # "cb" /\ work[t].pc # "cb"
    BY DEF AtSlot
  <1> HIDE DEF w
  <1> QED
    BY <1>1, <1>2, <1>3, <1>4, WorkerGoesOn DEF userVars

LEMMA ReceiveKeeps ==
    ASSUME NetInv, NEW t \in Worker, Receive(t)
    PROVE  NetInv'
  <1> DEFINE h == work[t].id
             r == [slots[h] EXCEPT !.flags = @ \ {"IN"}, !.recv = Null, !.calls = @ + 1]
  <1>1. /\ work[t].pc \in AtSlot /\ mx = t /\ h \in Slot /\ InUse(h)
        /\ slots[h] \in Record /\ slots[h].calls \in Nat
        /\ UNCHANGED <<size, free, tmset, role, actions, stop, wakes, interest, level,
                       userVars, countVars>>
    BY AtItsSlot DEF Receive, AtSlot
  <1>2. CASE slots[h].recv = Null
    <2>1. Goto(t, "out") /\ UNCHANGED <<slots, mx>> /\ "out" \in AtSlot
      BY <1>2 DEF Receive, AtSlot
    <2> QED
      BY <1>1, <2>1, PlaceStep
  <1>3. CASE slots[h].recv # Null
    <2>1. PICK kind \in {"data", "closed"} : Called(t, h, slots[h].recv, kind, "out")
      BY <1>3 DEF Receive
    <2>2. slots' = [slots EXCEPT ![h] = r]
      BY <1>1, <1>3 DEF Receive, NetInv, VarsTyped
    <2>3. r \in Record
      <3>1. slots[h].flags \ {"IN"} \in SUBSET Event_
        BY <1>1 DEF Record
      <3> QED
        BY <1>1, <3>1, Answered
    <2>4. /\ r.ident = slots[h].ident /\ r.fd = slots[h].fd
          /\ r.calls = slots[h].calls + 1 /\ r.at = slots[h].at /\ r.tmo = slots[h].tmo
          /\ r.recv = Null /\ r.send = slots[h].send /\ r.acc = slots[h].acc
      BY <1>1 DEF Record
    <2>5. {r.recv, r.send, r.acc, r.tmo} \subseteq CallbacksOf(h) \cup {Null}
      BY <2>4 DEF CallbacksOf
    <2>6. slots[h].recv \in CallbacksOf(h) /\ "out" \in AtSlot /\ work[t].pc # "cb"
      BY <1>1 DEF CallbacksOf, AtSlot
    <2>7. RestTyped' /\ UNCHANGED <<size, free, handle, life, actions, tmset>>
      BY <1>1, <2>1, RestNow DEF RestTyped, Called, userVars, countVars
    <2> HIDE DEF h, r
    <2> QED
      BY <1>1, <1>3, <2>1, <2>2, <2>3, <2>4, <2>5, <2>6, <2>7, CallStep, ZenonT(40)
  <1> QED
    BY <1>2, <1>3

LEMMA ClearToSendKeeps ==
    ASSUME NetInv, NEW t \in Worker, ClearToSend(t)
    PROVE  NetInv'
  <1> DEFINE h == work[t].id
  <1>1. /\ work[t].pc \in AtSlot /\ mx = t /\ h \in Slot /\ InUse(h)
        /\ slots[h] \in Record /\ slots[h].calls \in Nat
        /\ UNCHANGED <<size, free, tmset, role, actions, stop, wakes, osVars,
                       userVars, countVars>>
        /\ "apply" \in AtSlot /\ work[t].pc # "cb"
    BY AtItsSlot DEF ClearToSend, AtSlot
  <1>2. slots[h].flags \ {"OUT"} \in SUBSET Event_
    BY <1>1 DEF Record
  <1>3. UNCHANGED <<size, free, handle, life, actions, tmset>>
    BY <1>1 DEF userVars
  <1>4. CASE "OUT" \notin work[t].ev
    <2>1. Goto(t, "apply") /\ UNCHANGED <<slots, mx>>
      BY <1>4 DEF ClearToSend
    <2> QED
      BY <1>1, <2>1, PlaceStep DEF osVars
  <1>5. CASE "OUT" \in work[t].ev /\ slots[h].send # Null
    <2> DEFINE r == [slots[h] EXCEPT !.flags = @ \ {"OUT"}, !.send = Null, !.calls = @ + 1]
    <2>1. Called(t, h, slots[h].send, "send", "apply")
      BY <1>5 DEF ClearToSend
    <2>2. slots' = [slots EXCEPT ![h] = r]
      BY <1>1, <1>5 DEF ClearToSend, NetInv, VarsTyped
    <2>3. r \in Record
      BY <1>1, <1>2, Answered
    <2>4. /\ r.ident = slots[h].ident /\ r.fd = slots[h].fd
          /\ r.calls = slots[h].calls + 1 /\ r.at = slots[h].at /\ r.tmo = slots[h].tmo
          /\ r.recv = slots[h].recv /\ r.send = Null /\ r.acc = slots[h].acc
      BY <1>1 DEF Record
    <2>5. {r.recv, r.send, r.acc, r.tmo} \subseteq CallbacksOf(h) \cup {Null}
      BY <2>4 DEF CallbacksOf
    <2>6. slots[h].send \in CallbacksOf(h)
      BY DEF CallbacksOf
    <2>7. RestTyped'
      BY <1>1, <2>1, RestNow DEF RestTyped, Called, osVars, countVars
    <2> HIDE DEF h, r
    <2> QED
      BY <1>1, <1>3, <1>5, <2>1, <2>2, <2>3, <2>4, <2>5, <2>6, <2>7, CallStep
  <1>6. CASE "OUT" \in work[t].ev /\ slots[h].send = Null
    <2> DEFINE r == [slots[h] EXCEPT !.flags = @ \ {"OUT"}]
               w == [work[t] EXCEPT !.pc = "apply"]
    <2>1. Goto(t, "apply") /\ mx' = mx /\ slots' = [slots EXCEPT ![h] = r]
      BY <1>1, <1>6 DEF ClearToSend, NetInv, VarsTyped
    <2>2. r \in Record
      BY <1>1, <1>2, Answered
    <2>3. /\ r.ident = slots[h].ident /\ r.fd = slots[h].fd
          /\ r.calls = slots[h].calls /\ r.at = slots[h].at /\ r.tmo = slots[h].tmo
          /\ {r.recv, r.send, r.acc} \subseteq CallbacksOf(h) \cup {Null, slots[h].fd}
      BY <1>1 DEF Record, CallbacksOf
    <2>4. /\ work' = [work EXCEPT ![t] = w] /\ w \in WorkRecord /\ w.pc # "cb"
          /\ w.mine = work[t].mine /\ w.id = h
      BY <1>1, <2>1, GotoTyped DEF Goto, Place, Locked, AtSlot
    <2>5. RestTyped' /\ h = work[t].id
      BY <1>1, <2>1, RestNow DEF RestTyped, osVars, countVars
    <2> HIDE DEF h, r, w
    <2> QED
      BY <1>1, <1>3, <2>1, <2>2, <2>3, <2>4, <2>5, SlotStep
  <1> QED
    BY <1>4, <1>5, <1>6

\* apply_flags_lk()
LEMMA ArmTyped ==
    ASSUME NetInv, NEW h \in Slot, NEW s \in Record, Arm(h, s)
    PROVE  /\ [s EXCEPT !.cur = s.flags] \in Record
           /\ slots' = [slots EXCEPT ![h] = [s EXCEPT !.cur = s.flags]]
           /\ interest' \in [Peer -> SUBSET Event_] /\ level' \subseteq Peer
  <1>1. s.flags \subseteq Event_ /\ s.flags \cup {"HUP"} \subseteq Event_
    BY DEF Record, Event_
  <1> QED
    BY <1>1 DEF Arm, Record, NetInv, VarsTyped

LEMMA ApplyFlagsKeeps ==
    ASSUME NetInv, NEW t \in Worker, ApplyFlags(t)
    PROVE  NetInv'
  <1> DEFINE h == work[t].id
             r == [slots[h] EXCEPT !.cur = slots[h].flags]
             w == [IdleWork EXCEPT !.pc = "actions"]
  <1>1. /\ work[t].pc = "apply" /\ mx = t /\ h \in Slot /\ InUse(h)
        /\ slots[h] \in Record
        /\ Arm(h, slots[h]) /\ work' = [work EXCEPT ![t] = w]
        /\ UNCHANGED <<size, free, tmset, role, actions, mx, stop, wakes, wire,
                       userVars, countVars>>
    BY AtItsSlot DEF ApplyFlags, AtSlot, Done
  <1>2. /\ r \in Record /\ slots' = [slots EXCEPT ![h] = r]
        /\ interest' \in [Peer -> SUBSET Event_] /\ level' \subseteq Peer
    BY <1>1, ArmTyped
  <1>3. /\ r.ident = slots[h].ident /\ r.fd = slots[h].fd
        /\ r.calls = slots[h].calls /\ r.at = slots[h].at /\ r.tmo = slots[h].tmo
        /\ {r.recv, r.send, r.acc} \subseteq CallbacksOf(h) \cup {Null, slots[h].fd}
    BY <1>1 DEF Record, CallbacksOf
  <1>4. w \in WorkRecord /\ w.pc = "actions" /\ w.mine = <<>>
    BY DoneTyped
  <1>5. RestTyped' /\ UNCHANGED <<size, free, handle, life, actions, tmset>>
    BY <1>1, <1>2, RestNow DEF RestTyped, userVars, countVars
  <1>6. w.pc \notin AtSlot /\ w.pc # "cb" /\ work[t].pc # "cb" /\ mx' = t /\ h = work[t].id
    BY <1>1, <1>4 DEF AtSlot
  <1> HIDE DEF h, r, w
  <1> QED
    BY <1>1, <1>2, <1>3, <1>4, <1>5, <1>6, SlotStep

LEMMA TakeActionsKeeps ==
    ASSUME NetInv, NEW t \in Worker, TakeActions(t)
    PROVE  NetInv'
  <1>1. /\ work[t].pc = "actions" /\ mx = t
        /\ UNCHANGED <<slotVars, tmset, role, stop, wakes, osVars, userVars, countVars>>
    BY DEF TakeActions
  <1>2. CASE actions = <<>>
    <2>1. work' = [work EXCEPT ![t].pc = "top"] /\ UNCHANGED <<actions, mx>>
      BY <1>2 DEF TakeActions, Goto
    <2>2. VarsTyped'
      BY <1>1, <2>1 DEF NetInv, VarsTyped, slotVars, osVars, userVars, countVars
    <2> DEFINE w == [work[t] EXCEPT !.pc = "top"]
    <2>3. /\ work' = [work EXCEPT ![t] = w] /\ w \in WorkRecord /\ w.pc = "top"
          /\ w.mine = work[t].mine
      BY <2>1, GotoTyped DEF Place, Locked
    <2> HIDE DEF w
    <2> QED
      BY <1>1, <2>1, <2>2, <2>3, WorkerGoesOn DEF slotVars, userVars, AtSlot
  <1>3. CASE actions # <<>>
    <2> DEFINE w == [work[t] EXCEPT !.pc = "acts", !.mine = actions]
    <2>1. actions' = <<>> /\ mx' = Null /\ work[t] \in WorkRecord
      BY <1>3 DEF TakeActions, NetInv, WorkTyped
    <2>2. /\ work' = [work EXCEPT ![t] = w] /\ w \in WorkRecord /\ w.pc = "acts"
          /\ w.mine = actions
      BY <1>3, <2>1 DEF TakeActions, NetInv, WorkTyped, WorkRecord, VarsTyped, Place
    <2>3. w.pc \notin Locked /\ w.pc \notin AtSlot /\ w.pc # "cb" /\ work[t].pc # "cb"
      BY <1>1, <2>2 DEF Locked, AtSlot
    <2>4. work'[t] = w /\ \A u \in Worker \ {t} : work'[u] = work[u]
      BY <2>2 DEF NetInv, WorkTyped
    <2> HIDE DEF w
    <2>5. VarsTyped'
      BY <1>1, <2>1, EmptySeq DEF NetInv, VarsTyped, slotVars, osVars, userVars, countVars
    <2>6. SlotsKept
      BY <1>1 DEF SlotsKept, NetInv, VarsTyped, CallbacksOf, Exists, slotVars, userVars
    <2>7. SlotsOwned' /\ \A h \in Slot : InUse(h)' <=> InUse(h)
      BY <2>6, KeptStayOwned DEF NetInv
    <2>8. WorkTyped' /\ MutexHeld' /\ WorkersOwn'
      BY <1>1, <2>1, <2>2, <2>3, <2>6, <2>7, OnlyWorker DEF SlotsKept
    <2>9. Counted'
      <3>1. \A h \in Slot : slots'[h].calls = slots[h].calls
        BY <1>1 DEF slotVars
      <3>2. \A u \in Worker : /\ work'[u].pc = "cb" <=> work[u].pc = "cb"
                              /\ work[u].pc = "cb" => work'[u].id = work[u].id
        BY <2>3, <2>4
      <3> QED
        BY <3>1, <3>2, CountKept DEF NetInv
    <2>10. TimersOwned'
      BY <1>1 DEF NetInv, TimersOwned, InUse, slotVars
    <2>11. QueuedOnce'
      <3>1. Entries(actions') = {} /\ Once(actions')
        BY <2>1, EmptySeq DEF Entries, Once
      <3>2. life' = life /\ work'[t].mine = actions
        BY <1>1, <2>2, <2>4 DEF userVars
      <3>3. \A u \in Worker : Once(work'[u].mine)
        BY <2>4, <3>2 DEF NetInv, QueuedOnce
      <3>4. ASSUME NEW u \in Worker, NEW p \in Entries(work'[u].mine)
            PROVE /\ life[p] = "queued"
                  /\ \A v \in Worker \ {u} : p \notin Entries(work'[v].mine)
        <4>1. CASE u = t
          BY <2>4, <3>2, <3>4, <4>1 DEF NetInv, QueuedOnce
        <4>2. CASE u # t
          BY <2>4, <3>2, <3>4, <4>2 DEF NetInv, QueuedOnce
        <4> QED
          BY <4>1, <4>2
      <3> QED
        BY <3>1, <3>2, <3>3, <3>4 DEF QueuedOnce, Entries, Once
    <2> QED
      BY <2>5, <2>7, <2>8, <2>9, <2>10, <2>11 DEF NetInv
  <1> QED
    BY <1>2, <1>3

LEMMA HoldingKeeps ==
    ASSUME NetInv, NEW t \in Worker, Holding(t)
    PROVE  NetInv'
  BY TopKeeps, TimersKeeps, EventKeeps, AcceptKeeps, AcceptFailsKeeps, ReceiveKeeps,
     ClearToSendKeeps, ApplyFlagsKeeps, TakeActionsKeeps DEF Holding

\* What destroy() does once it may, for a worker or a thread of the program.
LEMMA DestroyKeeps ==
    ASSUME NetInv, NEW p \in Peer, Exists(p), Destroy(p), RestTyped', UNCHANGED <<handle, actions>>,
           \A u \in Worker : /\ work'[u].pc = "cb" <=> work[u].pc = "cb"
                             /\ work[u].pc = "cb" => work'[u].id = work[u].id
    PROVE  /\ VarsTyped' /\ Counted' /\ SlotsOwned' /\ TimersOwned' /\ mx = Null
           /\ \A q \in Peer : Exists(q)' <=> Exists(q) /\ q # p
           /\ \A u \in Worker : /\ work[u].pc \notin Locked
                                /\ work[u].pc = "cb" => work[u].peer # p
  <1>1. PICK h \in Slot : h = handle[p]
    BY DEF NetInv, VarsTyped
  <1>2. /\ mx = Null /\ slots[h].calls = 0 /\ FreeSlot(h)
        /\ tmset' = tmset \ {<<slots[h].at, h>>} /\ life' = [life EXCEPT ![p] = "gone"]
        /\ slots' = [slots EXCEPT ![h] = [Blank EXCEPT !.ident = free]]
    BY <1>1 DEF Destroy, Quiet, FreeSlot
  <1>3. /\ SlotsOwned' /\ slots' \in [Slot -> Record]
        /\ size' = size /\ free' \in 0 .. size'
        /\ \A q \in Peer : Exists(q)' <=> Exists(q) /\ q # p
        /\ \A k \in Slot : InUse(k)' <=> InUse(k) /\ k # h
    BY <1>1, <1>2, FreedStayOwned DEF NetInv
  <1>4. VarsTyped'
    BY <1>2, <1>3 DEF RestTyped, NetInv, VarsTyped
  <1>5. \A k \in Slot \ {h} : slots'[k] = slots[k]
    BY <1>2 DEF NetInv, VarsTyped
  <1>6. Counted'
    <2>1. slots'[h].calls = 0
      BY <1>1, <1>2 DEF NetInv, VarsTyped, Blank
    <2>2. \A k \in Slot : slots'[k].calls = slots[k].calls
      BY <1>2, <1>5, <2>1
    <2> QED
      BY <2>2, CountKept DEF NetInv
  <1>7. TimersOwned'
    <2>1. ASSUME NEW e \in tmset'
          PROVE /\ e \in tmset /\ InUse(e[2])'
                /\ slots'[e[2]].at = slots[e[2]].at
                /\ slots'[e[2]].tmo = slots[e[2]].tmo
                /\ slots'[e[2]].fd = slots[e[2]].fd
      <3>1. /\ e \in tmset /\ e[2] \in Slot /\ InUse(e[2]) /\ e = <<e[1], e[2]>>
            /\ slots[e[2]].at = e[1]
        BY <1>2, <2>1 DEF NetInv, VarsTyped, TimersOwned
      <3>2. e[2] # h
        BY <1>2, <2>1, <3>1
      <3>3. InUse(e[2])'
        BY <1>3, <3>1, <3>2 DEF InUse
      <3> QED
        BY <1>5, <3>1, <3>2, <3>3
    <2> QED
      BY <2>1, TimersKept DEF NetInv
  <1>8. ASSUME NEW u \in Worker, work[u].pc = "cb", work[u].peer = p
        PROVE FALSE
    <2>1. u \in InCallback(h)
      BY <1>1, <1>8 DEF NetInv, WorkersOwn, WorkerOwns, InCallback
    <2>2. Cardinality(InCallback(h)) = 0
      BY <1>2 DEF NetInv, Counted
    <2> QED
      BY <2>1, <2>2, CountTyped, FS_EmptySet
  <1>9. \A u \in Worker : work[u].pc \notin Locked
    BY <1>2, WorkersFinite DEF NetInv, MutexHeld
  <1> QED
    BY <1>2, <1>3, <1>4, <1>6, <1>7, <1>8, <1>9

LEMMA RunActionKeeps ==
    ASSUME NetInv, NEW t \in Worker, RunAction(t)
    PROVE  NetInv'
  <1> DEFINE m == work[t].mine
             w == [work[t] EXCEPT !.mine = IF t \in stop THEN <<>> ELSE Tail(@),
                                  !.pc = IF t \in stop THEN "end" ELSE "acts"]
  <1>1. /\ work[t].pc = "acts" /\ m # <<>> /\ Destroy(Head(m)) /\ work[t] \in WorkRecord
        /\ work' = [work EXCEPT ![t] = w]
        /\ UNCHANGED <<role, actions, mx, stop, wakes, wire, handle, countVars>>
    BY DEF RunAction, NetInv, WorkTyped, WorkRecord
  <1>2. /\ m \in Seq(Peer) /\ Len(m) \in Nat /\ Len(m) > 0 /\ DOMAIN m = 1 .. Len(m)
        /\ Head(m) = m[1]
        /\ Tail(m) \in Seq(Peer) /\ DOMAIN Tail(m) = 1 .. (Len(m) - 1)
        /\ \A i \in 1 .. (Len(m) - 1) : Tail(m)[i] = m[i + 1]
    <2>1. m \in Seq(Peer)
      BY <1>1 DEF WorkRecord
    <2> HIDE DEF m
    <2> QED
      BY <1>1, <2>1, LenProperties, EmptySeq, HeadTailProperties
  <1>3. PICK p \in Peer : p = Head(m)
    BY <1>2, ElementOfSeq
  <1>4. p \in Entries(m) /\ life[p] = "queued"
    <2>1. 1 \in DOMAIN m
      BY <1>2
    <2>2. p \in Entries(m)
      BY <1>2, <1>3, <2>1 DEF Entries
    <2> QED
      BY <2>2 DEF NetInv, QueuedOnce
  <1>5. /\ w \in WorkRecord /\ w.pc \in {"acts", "end"}
        /\ w.mine = IF t \in stop THEN <<>> ELSE Tail(m)
    BY <1>1, <1>2, EmptySeq DEF WorkRecord, Place
  <1>6. work'[t] = w /\ \A u \in Worker \ {t} : work'[u] = work[u]
    BY <1>1 DEF NetInv, WorkTyped
  <1> HIDE DEF w
  <1>7. \A u \in Worker : /\ work'[u].pc = "cb" <=> work[u].pc = "cb"
                          /\ work[u].pc = "cb" => work'[u].id = work[u].id
    BY <1>1, <1>5, <1>6
  <1>8. RestTyped'
    BY <1>1, RestNow DEF Destroy, RestTyped, NetInv, VarsTyped, countVars
  <1>9. /\ VarsTyped' /\ Counted' /\ SlotsOwned' /\ TimersOwned' /\ mx = Null
        /\ \A q \in Peer : Exists(q)' <=> Exists(q) /\ q # p
        /\ \A u \in Worker : /\ work[u].pc \notin Locked
                             /\ work[u].pc = "cb" => work[u].peer # p
    <2>1. Exists(p) /\ Destroy(p) /\ UNCHANGED <<handle, actions>>
      BY <1>1, <1>3, <1>4 DEF Exists
    <2> QED
      BY <1>7, <1>8, <2>1, DestroyKeeps
  <1>10. WorkTyped'
    BY <1>1, <1>5 DEF NetInv, WorkTyped
  <1>11. \A u \in Worker : work'[u].pc \notin Locked
    BY <1>5, <1>6, <1>9 DEF Locked, AtSlot
  <1>12. MutexHeld'
    BY <1>11 DEF MutexHeld
  <1>13. WorkersOwn'
    <2> SUFFICES ASSUME NEW u \in Worker PROVE WorkerOwns(u)'
      BY DEF WorkersOwn
    <2>1. work'[u].pc \notin AtSlot
      BY <1>11 DEF Locked
    <2>2. CASE u = t
      BY <1>5, <1>6, <2>1, <2>2 DEF WorkerOwns
    <2>3. CASE u # t
      <3>1. WorkerOwns(u) /\ work'[u] = work[u] /\ handle' = handle
        BY <1>1, <1>6, <2>3 DEF NetInv, WorkersOwn
      <3>2. work[u].pc = "cb" => work[u].peer \in Peer /\ Exists(work[u].peer) /\ work[u].peer # p
        BY <1>9, <3>1 DEF WorkerOwns
      <3>3. \A q \in Peer : Exists(q) /\ q # p => Exists(q)'
        BY <1>9
      <3> QED
        BY <2>1, <3>1, <3>2, <3>3 DEF WorkerOwns, Exists
    <2> QED
      BY <2>2, <2>3
  <1>14. QueuedOnce'
    <2>1. Once(m) /\ \A u \in Worker : Once(work[u].mine)
      BY DEF NetInv, QueuedOnce
    <2>2. /\ Once(Tail(m)) /\ Entries(Tail(m)) \subseteq Entries(m) \ {p}
      <3>1. ASSUME NEW i \in 1 .. (Len(m) - 1)
            PROVE i + 1 \in 1 .. Len(m) /\ Tail(m)[i] = m[i + 1] /\ m[i + 1] # p
        <4>1. i + 1 \in 1 .. Len(m) /\ 1 \in 1 .. Len(m) /\ i + 1 # 1
          BY <1>2
        <4>2. m[i + 1] # m[1]
          BY <1>2, <2>1, <4>1 DEF Once
        <4> QED
          BY <1>2, <1>3, <4>1, <4>2
      <3> HIDE DEF m
      <3>2. ASSUME NEW i \in 1 .. (Len(m) - 1), NEW j \in 1 .. (Len(m) - 1), Tail(m)[i] = Tail(m)[j]
            PROVE i = j
        <4>1. i + 1 = j + 1
          BY <1>2, <2>1, <3>1, <3>2 DEF Once
        <4> QED
          BY <4>1
      <3> QED
        BY <1>2, <3>1, <3>2 DEF Once, Entries
    <2>3. Once(<<>>) /\ Entries(<<>>) = {}
      BY EmptySeq DEF Once, Entries
    <2>4. /\ Once(work'[t].mine) /\ Entries(work'[t].mine) \subseteq Entries(m) \ {p}
      BY <1>5, <1>6, <2>2, <2>3
    <2>5. ASSUME NEW u \in Worker
          PROVE /\ Once(work'[u].mine)
                /\ Entries(work'[u].mine) \subseteq Entries(work[u].mine) \ {p}
      <3>1. CASE u = t
        BY <2>4, <3>1
      <3>2. CASE u # t
        <4>1. p \notin Entries(work[u].mine)
          BY <1>4, <3>2 DEF NetInv, QueuedOnce
        <4> QED
          BY <1>6, <2>1, <3>2, <4>1
      <3> QED
        BY <3>1, <3>2
    <2>6. p \notin Entries(actions) /\ actions' = actions
      BY <1>1, <1>4 DEF NetInv, QueuedOnce
    <2>7. \A q : life[q] = "queued" /\ q # p => life'[q] = "queued"
      BY <1>1, <1>3 DEF Destroy
    <2>8. ASSUME NEW u \in Worker, NEW q \in Entries(work'[u].mine)
          PROVE /\ life'[q] = "queued" /\ q \notin Entries(actions)'
                /\ \A v \in Worker \ {u} : q \notin Entries(work'[v].mine)
      <3>1. q \in Entries(work[u].mine) /\ q # p
        BY <2>5, <2>8
      <3>2. Entries(actions)' = Entries(actions)
        BY <2>6 DEF Entries
      <3> QED
        BY <2>5, <2>7, <3>1, <3>2 DEF NetInv, QueuedOnce
    <2>9. Once(actions)' /\ \A q \in Entries(actions)' : life'[q] = "queued"
      <3>1. Entries(actions)' = Entries(actions) /\ Once(actions)' = Once(actions)
        BY <2>6 DEF Entries, Once
      <3> QED
        BY <2>6, <2>7, <3>1 DEF NetInv, QueuedOnce
    <2>10. \A u \in Worker : Once(work'[u].mine)
      BY <2>5
    <2> HIDE DEF m
    <2> QED
      BY <2>8, <2>9, <2>10 DEF QueuedOnce, Entries, Once
  <1> QED
    BY <1>9, <1>10, <1>12, <1>13, <1>14 DEF NetInv

\* A step that is about the kernel, time or requests to stop only.
LEMMA Untouched ==
    ASSUME NetInv, RestTyped',
           UNCHANGED <<slots, size, free, tmset, actions, mx, work, life, handle>>
    PROVE  NetInv'
  <1>1. VarsTyped'
    BY DEF NetInv, VarsTyped, RestTyped
  <1>2. SlotsKept
    BY DEF SlotsKept, NetInv, VarsTyped, CallbacksOf, Exists
  <1>3. SlotsOwned' /\ \A h \in Slot : InUse(h)' <=> InUse(h)
    BY <1>2, KeptStayOwned DEF NetInv
  <1>4. WorkTyped' /\ MutexHeld' /\ WorkersOwn'
    BY <1>2, <1>3, NoWorker DEF SlotsKept
  <1>5. Counted' /\ QueuedOnce'
    BY CountKept, QueuesKept DEF NetInv
  <1>6. TimersOwned'
    BY DEF NetInv, TimersOwned, InUse
  <1> QED
    BY <1>1, <1>3, <1>4, <1>5, <1>6 DEF NetInv

LEMMA RequestStopKeeps ==
    ASSUME NetInv, NEW t \in Worker, RequestStop(t)
    PROVE  NetInv'
  <1>1. /\ stop' = stop \cup {t} /\ wakes' = wakes \cup {t}
        /\ UNCHANGED <<slotVars, tmset, role, actions, mx, work, osVars, userVars, countVars>>
    BY DEF RequestStop
  <1>2. RestTyped'
    BY <1>1, RestNow DEF RestTyped, osVars, countVars
  <1> QED
    BY <1>1, <1>2, Untouched DEF slotVars, userVars

-----------------------------------------------------------------------------
(* Steps of the program and of the other sides.                            *)

\* The timeout of p, whose slot h becomes r, is the one it asked for.
TimerFits(p, h, r) ==
    /\ tmset' \subseteq (1 .. MaxTime) \X Slot
    /\ \A e \in tmset' : \/ e \in tmset /\ (e[2] = h => r.at = e[1] /\ r.tmo = slots[h].tmo)
                         \/ e[2] = h /\ e[1] = r.at /\ r.tmo = p

\* A step that is about flags, requests and the timeout of one connection.
LEMMA PeerStep ==
    ASSUME NetInv, NEW p \in Peer, Exists(p), NEW h \in Slot, h = handle[p],
           NEW r \in Record, slots' = [slots EXCEPT ![h] = r],
           r.ident = slots[h].ident, r.fd = slots[h].fd, r.calls = slots[h].calls,
           {r.recv, r.send, r.acc, r.tmo} \subseteq CallbacksOf(h) \cup {p},
           TimerFits(p, h, r), RestTyped', UNCHANGED <<size, free, handle, life, actions, mx, work>>
    PROVE  NetInv'
  <1>1. InUse(h) /\ slots[h].fd = p /\ p # Null
    BY PeersFinite DEF NetInv, SlotsOwned, ExistingHaveSlots
  <1>2. /\ SlotsKept /\ slots'[h] = r
        /\ \A k \in Slot \ {h} : slots'[k] = slots[k]
    <2>1. {r.recv, r.send, r.acc, r.tmo} \subseteq CallbacksOf(h) \cup {Null, slots[h].fd}
      BY <1>1
    <2> QED
      BY <1>1, <2>1, SlotChanged DEF NetInv
  <1>3. SlotsOwned' /\ \A k \in Slot : InUse(k)' <=> InUse(k)
    BY <1>2, KeptStayOwned DEF NetInv
  <1>4. VarsTyped'
    BY <1>2 DEF NetInv, VarsTyped, RestTyped, SlotsKept, TimerFits
  <1>5. Counted'
    <2>1. \A k \in Slot : slots'[k].calls = slots[k].calls
      BY <1>2
    <2> QED
      BY <2>1, CountKept DEF NetInv
  <1>6. WorkTyped' /\ MutexHeld' /\ WorkersOwn'
    BY <1>2, <1>3, NoWorker DEF SlotsKept
  <1>7. QueuedOnce'
    BY QueuesKept DEF NetInv
  <1>8. TimersOwned'
    <2> SUFFICES ASSUME NEW e \in tmset'
                 PROVE /\ InUse(e[2])' /\ slots'[e[2]].at = e[1]
                       /\ slots'[e[2]].tmo # Null /\ slots'[e[2]].tmo = slots'[e[2]].fd
      BY DEF TimersOwned, InUse
    <2>0. \/ e \in tmset /\ (e[2] = h => r.at = e[1] /\ r.tmo = slots[h].tmo)
          \/ e[2] = h /\ e[1] = r.at /\ r.tmo = p
      BY DEF TimerFits
    <2>1. CASE e \in tmset /\ (e[2] = h => r.at = e[1] /\ r.tmo = slots[h].tmo)
      <3>1. /\ e[2] \in Slot /\ InUse(e[2]) /\ slots[e[2]].at = e[1]
            /\ slots[e[2]].tmo # Null /\ slots[e[2]].tmo = slots[e[2]].fd
        BY <2>1 DEF NetInv, VarsTyped, TimersOwned
      <3>2. InUse(e[2])'
        BY <1>3, <3>1 DEF InUse
      <3> QED
        BY <1>2, <2>1, <3>1, <3>2
    <2>2. CASE e[2] = h /\ e[1] = r.at /\ r.tmo = p
      <3>1. InUse(e[2])'
        BY <1>1, <1>3, <2>2 DEF InUse
      <3> QED
        BY <1>1, <1>2, <2>2, <3>1
    <2> QED
      BY <2>0, <2>1, <2>2
  <1> QED
    BY <1>3, <1>4, <1>5, <1>6, <1>7, <1>8 DEF NetInv

LEMMA Caller ==
    ASSUME NetInv, NEW p \in Peer, NEW name, MayCall(p, name), CountCall(p, name)
    PROVE  /\ Exists(p) /\ handle[p] \in Slot /\ slots[handle[p]] \in Record
           /\ calls' \in 0 .. program.requests /\ UNCHANGED <<now, traffic, program>>
  <1>1. program.requests \in Nat
    BY ProgramsUse DEF NetInv, VarsTyped
  <1> QED
    BY <1>1 DEF MayCall, CountCall, Exists, NetInv, VarsTyped

\* receive(), ready_to_send(), accept(): a request of p stored, its flag armed.
LEMMA RequestKeeps ==
    ASSUME NetInv, NEW p \in Peer, NEW name, MayCall(p, name), CountCall(p, name),
           NEW s \in Record, Arm(handle[p], s),
           s.ident = slots[handle[p]].ident, s.fd = slots[handle[p]].fd,
           s.calls = slots[handle[p]].calls, s.at = slots[handle[p]].at,
           s.tmo = slots[handle[p]].tmo,
           {s.recv, s.send, s.acc} \subseteq CallbacksOf(handle[p]) \cup {p},
           UNCHANGED <<size, free, tmset, workVars, userVars>>
    PROVE  NetInv'
  <1> DEFINE h == handle[p]
             r == [s EXCEPT !.cur = s.flags]
  <1>1. /\ Exists(p) /\ h \in Slot
        /\ calls' \in 0 .. program.requests /\ UNCHANGED <<now, traffic, program>>
    BY Caller
  <1>2. /\ r \in Record /\ slots' = [slots EXCEPT ![h] = r]
        /\ interest' \in [Peer -> SUBSET Event_] /\ level' \subseteq Peer
    BY <1>1, ArmTyped
  <1>3. /\ r.ident = s.ident /\ r.fd = s.fd /\ r.calls = s.calls /\ r.at = s.at /\ r.tmo = s.tmo
        /\ r.recv = s.recv /\ r.send = s.send /\ r.acc = s.acc
    BY DEF Record
  <1>4. {r.recv, r.send, r.acc, r.tmo} \subseteq CallbacksOf(h) \cup {p}
    BY <1>3 DEF CallbacksOf
  <1>5. RestTyped' /\ UNCHANGED <<size, free, handle, life, actions, mx, work>>
    BY <1>1, <1>2, RestNow DEF RestTyped, workVars, userVars
  <1>6. TimerFits(p, h, r)
    BY <1>3 DEF NetInv, VarsTyped, TimersOwned, TimerFits
  <1>8. h = handle[p]
    OBVIOUS
  <1> HIDE DEF h, r
  <1> QED
    BY <1>1, <1>2, <1>3, <1>4, <1>5, <1>6, <1>8, PeerStep

LEMMA RequestsKeep ==
    ASSUME NetInv, NEW p \in Peer, RequestReceive(p) \/ RequestSend(p) \/ RequestAccept(p)
    PROVE  NetInv'
  <1> DEFINE h == handle[p]
  <1>1. /\ UNCHANGED <<size, free, tmset, workVars, userVars>>
        /\ \E name : MayCall(p, name) /\ CountCall(p, name)
    BY DEF RequestReceive, RequestSend, RequestAccept
  <1>2. h \in Slot /\ slots[h] \in Record /\ p \in PeerOrNull
    BY <1>1, Caller DEF PeerOrNull
  <1>3. slots[h].flags \cup {"IN"} \subseteq Event_ /\ slots[h].flags \cup {"OUT"} \subseteq Event_
    BY <1>2 DEF Record, Event_
  <1>4. CASE RequestReceive(p)
    <2> DEFINE s == [slots[h] EXCEPT !.flags = @ \cup {"IN"}, !.recv = p]
    <2>1. Arm(h, s) /\ MayCall(p, "receive") /\ CountCall(p, "receive")
      BY <1>4 DEF RequestReceive
    <2>2. s \in Record
      BY <1>2, <1>3 DEF Record
    <2>3. /\ s.ident = slots[h].ident /\ s.fd = slots[h].fd
          /\ s.calls = slots[h].calls /\ s.at = slots[h].at /\ s.tmo = slots[h].tmo
          /\ {s.recv, s.send, s.acc} \subseteq CallbacksOf(h) \cup {p}
      BY <1>2 DEF Record, CallbacksOf
    <2> HIDE DEF s
    <2> QED
      BY <1>1, <2>1, <2>2, <2>3, RequestKeeps
  <1>5. CASE RequestSend(p)
    <2> DEFINE s == [slots[h] EXCEPT !.flags = @ \cup {"OUT"}, !.send = p]
    <2>1. Arm(h, s) /\ MayCall(p, "ready_to_send") /\ CountCall(p, "ready_to_send")
      BY <1>5 DEF RequestSend
    <2>2. s \in Record
      BY <1>2, <1>3 DEF Record
    <2>3. /\ s.ident = slots[h].ident /\ s.fd = slots[h].fd
          /\ s.calls = slots[h].calls /\ s.at = slots[h].at /\ s.tmo = slots[h].tmo
          /\ {s.recv, s.send, s.acc} \subseteq CallbacksOf(h) \cup {p}
      BY <1>2 DEF Record, CallbacksOf
    <2> HIDE DEF s
    <2> QED
      BY <1>1, <2>1, <2>2, <2>3, RequestKeeps
  <1>6. CASE RequestAccept(p)
    <2> DEFINE s == [slots[h] EXCEPT !.flags = @ \cup {"IN"}, !.acc = p]
    <2>1. Arm(h, s) /\ MayCall(p, "accept") /\ CountCall(p, "accept")
      BY <1>6 DEF RequestAccept
    <2>2. s \in Record
      BY <1>2, <1>3 DEF Record
    <2>3. /\ s.ident = slots[h].ident /\ s.fd = slots[h].fd
          /\ s.calls = slots[h].calls /\ s.at = slots[h].at /\ s.tmo = slots[h].tmo
          /\ {s.recv, s.send, s.acc} \subseteq CallbacksOf(h) \cup {p}
      BY <1>2 DEF Record, CallbacksOf
    <2> HIDE DEF s
    <2> QED
      BY <1>1, <2>1, <2>2, <2>3, RequestKeeps
  <1> QED
    BY <1>4, <1>5, <1>6

LEMMA ReconnectKeeps ==
    ASSUME NetInv, NEW p \in Peer, Reconnect(p)
    PROVE  NetInv'
  <1> DEFINE h == handle[p]
             r == [slots[h] EXCEPT !.flags = {}, !.cur = {}]
  <1>1. /\ Exists(p) /\ h \in Slot /\ slots[h] \in Record
        /\ calls' \in 0 .. program.requests /\ UNCHANGED <<now, traffic, program>>
    BY Caller DEF Reconnect
  <1>2. slots' = [slots EXCEPT ![h] = r] /\ r \in Record
    BY <1>1 DEF Reconnect, NetInv, VarsTyped, Record
  <1>3. /\ r.ident = slots[h].ident /\ r.fd = slots[h].fd /\ r.calls = slots[h].calls
        /\ r.at = slots[h].at /\ r.tmo = slots[h].tmo
        /\ {r.recv, r.send, r.acc, r.tmo} \subseteq CallbacksOf(h) \cup {p}
    BY <1>1 DEF Record, CallbacksOf
  <1>4. RestTyped' /\ UNCHANGED <<size, free, handle, life, actions, mx, work, tmset>>
    BY <1>1, RestNow DEF RestTyped, workVars, userVars, Register, Event_, Reconnect
  <1>5. TimerFits(p, h, r)
    BY <1>3, <1>4 DEF NetInv, VarsTyped, TimersOwned, TimerFits
  <1>8. h = handle[p]
    OBVIOUS
  <1> HIDE DEF h, r
  <1> QED
    BY <1>1, <1>2, <1>3, <1>4, <1>5, <1>8, PeerStep

LEMMA SetTimeoutKeeps ==
    ASSUME NetInv, NEW p \in Peer, NEW tp \in 1 .. MaxTime, SetTimeout(p, tp)
    PROVE  NetInv'
  <1> DEFINE h == handle[p]
             r == [slots[h] EXCEPT !.tmo = p, !.at = tp]
  <1>1. /\ Exists(p) /\ h \in Slot /\ slots[h] \in Record
        /\ calls' \in 0 .. program.requests /\ UNCHANGED <<now, traffic, program>>
    BY Caller DEF SetTimeout
  <1>2. slots' = [slots EXCEPT ![h] = r]
    BY <1>1 DEF SetTimeout, NetInv, VarsTyped, Record
  <1>3. r \in Record
    <2>1. p \in PeerOrNull /\ tp \in 0 .. MaxTime
      BY TimeNat DEF PeerOrNull
    <2> QED
      BY <1>1, <2>1 DEF Record
  <1>4. /\ r.ident = slots[h].ident /\ r.fd = slots[h].fd /\ r.calls = slots[h].calls
        /\ r.at = tp /\ r.tmo = p /\ r.recv = slots[h].recv /\ r.send = slots[h].send
        /\ r.acc = slots[h].acc
    BY <1>1 DEF Record
  <1>5. {r.recv, r.send, r.acc, r.tmo} \subseteq CallbacksOf(h) \cup {p}
    BY <1>4 DEF CallbacksOf
  <1>6. RestTyped' /\ UNCHANGED <<size, free, handle, life, actions, mx, work>>
    BY <1>1, RestNow DEF RestTyped, osVars, userVars, SetTimeout
  <1>7. TimerFits(p, h, r)
    <2>1. tmset' = (tmset \ {<<slots[h].at, h>>}) \cup {<<tp, h>>}
      BY DEF SetTimeout
    <2>2. \A e \in tmset : e = <<e[1], e[2]>> /\ slots[e[2]].at = e[1]
      BY DEF NetInv, VarsTyped, TimersOwned
    <2>3. tmset \subseteq (1 .. MaxTime) \X Slot
      BY DEF NetInv, VarsTyped
    <2> HIDE DEF h, r
    <2> QED
      BY <1>1, <1>4, <2>1, <2>2, <2>3 DEF TimerFits
  <1>8. h = handle[p]
    OBVIOUS
  <1> HIDE DEF h, r
  <1> QED
    BY <1>1, <1>2, <1>3, <1>4, <1>5, <1>6, <1>7, <1>8, PeerStep

LEMMA SmallCallsKeep ==
    ASSUME NetInv, NEW p \in Peer, Send(p) \/ ClearTimeout(p)
    PROVE  NetInv'
  <1>1. calls' \in 0 .. program.requests /\ UNCHANGED <<now, traffic, program>>
    BY Caller DEF Send, ClearTimeout
  <1>2. CASE Send(p)
    <2>1. UNCHANGED <<slotVars, tmset, workVars, interest, level, userVars>>
      BY <1>2 DEF Send
    <2>2. RestTyped'
      BY <1>1, <2>1, RestNow DEF RestTyped, workVars
    <2> QED
      BY <2>1, <2>2, Untouched DEF slotVars, workVars, userVars
  <1>3. CASE ClearTimeout(p)
    <2>1. UNCHANGED <<slotVars, workVars, osVars, userVars>> /\ tmset' \subseteq tmset
      BY <1>3 DEF ClearTimeout
    <2>2. VarsTyped'
      BY <1>1, <2>1 DEF NetInv, VarsTyped, slotVars, workVars, osVars, userVars
    <2>3. SlotsKept
      BY <2>1 DEF SlotsKept, NetInv, VarsTyped, CallbacksOf, Exists, slotVars, userVars
    <2>4. SlotsOwned' /\ \A h \in Slot : InUse(h)' <=> InUse(h)
      BY <2>3, KeptStayOwned DEF NetInv
    <2>5. WorkTyped' /\ MutexHeld' /\ WorkersOwn'
      BY <2>1, <2>3, <2>4, NoWorker DEF SlotsKept, workVars
    <2>6. Counted' /\ QueuedOnce'
      BY <2>1, CountKept, QueuesKept DEF NetInv, slotVars, workVars, userVars
    <2>7. TimersOwned'
      BY <2>1 DEF NetInv, TimersOwned, InUse, slotVars
    <2> QED
      BY <2>2, <2>4, <2>5, <2>6, <2>7 DEF NetInv
  <1> QED
    BY <1>2, <1>3

LEMMA CreatedKeeps ==
    ASSUME NetInv, NEW p \in Peer, Created(p)
    PROVE  NetInv'
  <1>1. /\ life[p] = "unborn" /\ life' = [life EXCEPT ![p] = "live"] /\ Alloc(p) /\ Register(p)
        /\ UNCHANGED <<tmset, workVars, wire, countVars>>
    BY DEF Created
  <1>2. free \in Slot /\ ~InUse(free) /\ slots[free] \in Record
        /\ free \in -1 .. Cardinality(Peer) /\ p \in PeerOrNull
    <2>1. free \in Slot /\ ~InUse(free)
      BY <1>1, RoomForOne DEF NetInv
    <2>2. slots[free] \in Record
      BY <2>1 DEF NetInv, VarsTyped
    <2>3. free \in -1 .. Cardinality(Peer)
      BY <2>1, PeerCount DEF Slot
    <2> QED
      BY <2>1, <2>2, <2>3 DEF PeerOrNull
  <1> DEFINE q == [slots[free] EXCEPT !.ident = free, !.fd = p]
  <1>3. q \in Record
    BY <1>2 DEF Record
  <1>4. slots' = [slots EXCEPT ![free] = q]
    BY <1>1, <1>2 DEF Alloc, NetInv, VarsTyped, Record
  <1>5. /\ slots' \in [Slot -> Record] /\ slots'[free] = q
        /\ \A k \in Slot \ {free} : slots'[k] = slots[k]
    BY <1>2, <1>3, <1>4 DEF NetInv, VarsTyped
  <1>6. /\ q.ident = free /\ q.fd = p /\ q.calls = slots[free].calls
        /\ q.tmo = slots[free].tmo /\ q.recv = slots[free].recv
        /\ q.send = slots[free].send /\ q.acc = slots[free].acc
    BY <1>2 DEF Record
  <1> HIDE DEF q
  <1>7. SlotTaken(p)
    <2>1. \A k \in Slot : CallbacksOf(k)' \subseteq CallbacksOf(k) \cup {Null}
      <3> TAKE k \in Slot
      <3>1. CASE k = free
        BY <1>5, <1>6, <3>1 DEF CallbacksOf
      <3>2. CASE k # free
        BY <1>5, <3>2 DEF CallbacksOf
      <3> QED
        BY <3>1, <3>2
    <2> QED
      BY <1>1, <1>5, <1>6, <2>1 DEF SlotTaken, Alloc
  <1>8. /\ SlotsOwned' /\ \A k \in Slot : InUse(k) => InUse(k)'
        /\ size' \in 0 .. Cardinality(Peer) /\ free' \in 0 .. size'
    BY <1>7, TakenStayOwned DEF NetInv
  <1>9. VarsTyped'
    <2>1. /\ handle' \in [Peer -> Slot]
          /\ life' \in [Peer -> {"unborn", "live", "queued", "leaving", "gone"}]
      BY <1>1, <1>2 DEF NetInv, VarsTyped, Alloc
    <2>2. interest' \in [Peer -> SUBSET Event_] /\ level' \subseteq Peer
      BY <1>1 DEF NetInv, VarsTyped, Register, Event_
    <2> QED
      BY <1>1, <1>5, <1>8, <2>1, <2>2 DEF NetInv, VarsTyped, workVars, countVars
  <1>10. Counted'
    <2>1. \A k \in Slot : slots'[k].calls = slots[k].calls
      BY <1>5, <1>6
    <2> QED
      BY <1>1, <2>1, CountKept DEF NetInv, workVars
  <1>11. \A r \in Peer : Exists(r) => Exists(r)' /\ handle'[r] = handle[r]
    BY <1>1 DEF NetInv, VarsTyped, Exists, Alloc
  <1>12. WorkTyped' /\ MutexHeld' /\ WorkersOwn'
    BY <1>1, <1>8, <1>11, NoWorker DEF workVars
  <1>13. QueuedOnce'
    BY <1>1, QueuesKept DEF NetInv, VarsTyped, workVars
  <1>14. TimersOwned'
    <2>1. ASSUME NEW e \in tmset'
          PROVE /\ e \in tmset /\ InUse(e[2])'
                /\ slots'[e[2]].at = slots[e[2]].at
                /\ slots'[e[2]].tmo = slots[e[2]].tmo
                /\ slots'[e[2]].fd = slots[e[2]].fd
      <3>1. e \in tmset /\ e[2] \in Slot /\ InUse(e[2]) /\ e[2] # free
        BY <1>1, <1>2, <2>1 DEF NetInv, VarsTyped, TimersOwned
      <3>2. InUse(e[2])'
        BY <1>8, <3>1 DEF InUse
      <3> QED
        BY <1>5, <3>1, <3>2
    <2> QED
      BY <2>1, TimersKept DEF NetInv
  <1> QED
    BY <1>8, <1>9, <1>10, <1>12, <1>13, <1>14 DEF NetInv

LEMMA DestroyReturnsKeeps ==
    ASSUME NetInv, NEW p \in Peer, DestroyReturns(p)
    PROVE  NetInv'
  <1>1. /\ life[p] = "leaving" /\ Exists(p) /\ Destroy(p) /\ work' = work /\ mx' = mx
        /\ UNCHANGED <<workVars, wire, handle, countVars>>
    BY DEF DestroyReturns, Exists, workVars
  <1>2. RestTyped'
    BY <1>1, RestNow DEF Destroy, RestTyped, NetInv, VarsTyped, workVars, countVars
  <1>3. /\ VarsTyped' /\ Counted' /\ SlotsOwned' /\ TimersOwned' /\ mx = Null
        /\ \A q \in Peer : Exists(q)' <=> Exists(q) /\ q # p
        /\ \A u \in Worker : /\ work[u].pc \notin Locked
                             /\ work[u].pc = "cb" => work[u].peer # p
    BY <1>1, <1>2, DestroyKeeps DEF workVars
  <1>4. WorkTyped' /\ MutexHeld'
    BY <1>1 DEF NetInv, WorkTyped, MutexHeld
  <1>5. WorkersOwn'
    <2> SUFFICES ASSUME NEW u \in Worker PROVE WorkerOwns(u)'
      BY DEF WorkersOwn
    <2>1. WorkerOwns(u) /\ work'[u] = work[u] /\ handle' = handle /\ work[u].pc \notin AtSlot
      BY <1>1, <1>3 DEF NetInv, WorkersOwn, Locked
    <2>2. work[u].pc = "cb" => work[u].peer \in Peer /\ Exists(work[u].peer) /\ work[u].peer # p
      BY <1>3, <2>1 DEF WorkerOwns
    <2>3. \A q \in Peer : Exists(q) /\ q # p => Exists(q)'
      BY <1>3
    <2> QED
      BY <2>1, <2>2, <2>3 DEF WorkerOwns, Exists
  <1>6. QueuedOnce'
    BY <1>1, QueuesKept DEF NetInv, VarsTyped, Destroy, workVars
  <1> QED
    BY <1>3, <1>4, <1>5, <1>6 DEF NetInv

\* What destroy() and enqueue() do first: the life of p changes, no more.
LEMMA LeavingKeeps ==
    ASSUME NetInv, NEW p \in Peer, life[p] = "live",
           NEW l \in {"leaving", "queued"}, life' = [life EXCEPT ![p] = l],
           UNCHANGED <<slots, size, free, tmset, mx, work, handle>>, actions' \in Seq(Peer),
           RestTyped', QueuedOnce'
    PROVE  NetInv'
  <1>1. SlotsKept
    BY DEF SlotsKept, NetInv, VarsTyped, CallbacksOf, Exists
  <1>2. SlotsOwned' /\ \A h \in Slot : InUse(h)' <=> InUse(h)
    BY <1>1, KeptStayOwned DEF NetInv
  <1>3. WorkTyped' /\ MutexHeld' /\ WorkersOwn'
    BY <1>1, <1>2, NoWorker DEF SlotsKept
  <1>4. VarsTyped'
    BY DEF NetInv, VarsTyped, RestTyped
  <1>5. Counted'
    BY CountKept DEF NetInv
  <1>6. TimersOwned'
    BY DEF NetInv, TimersOwned, InUse
  <1> QED
    BY <1>2, <1>3, <1>4, <1>5, <1>6 DEF NetInv

LEMMA DestroyCallKeeps ==
    ASSUME NetInv, NEW p \in Peer, DestroyCall(p)
    PROVE  NetInv'
  <1>1. /\ life[p] = "live" /\ life' = [life EXCEPT ![p] = "leaving"]
        /\ UNCHANGED <<slotVars, tmset, workVars, osVars, handle, countVars>>
    BY DEF DestroyCall
  <1>2. RestTyped' /\ actions' \in Seq(Peer)
    BY <1>1, RestNow DEF RestTyped, workVars, osVars, countVars, NetInv, VarsTyped
  <1>3. QueuedOnce'
    BY <1>1, QueuesKept DEF NetInv, VarsTyped, workVars
  <1> QED
    BY <1>1, <1>2, <1>3, LeavingKeeps DEF slotVars, workVars

LEMMA EnqueueKeeps ==
    ASSUME NetInv, NEW p \in Peer, Enqueue(p)
    PROVE  NetInv'
  <1>1. /\ life[p] = "live" /\ life' = [life EXCEPT ![p] = "queued"]
        /\ actions' = Append(actions, p) /\ wakes' \subseteq (wakes \cup {role}) \ {Null}
        /\ UNCHANGED <<slotVars, tmset, role, mx, work, stop, osVars, handle, countVars>>
    BY WorkersFinite DEF Enqueue, NetInv, VarsTyped
  <1> DEFINE n == Len(actions)
  <1>2. /\ actions \in Seq(Peer) /\ n \in Nat /\ DOMAIN actions = 1 .. n
        /\ actions' \in Seq(Peer) /\ DOMAIN actions' = 1 .. (n + 1)
        /\ actions'[n + 1] = p /\ \A i \in 1 .. n : actions'[i] = actions[i]
    <2>1. actions \in Seq(Peer)
      BY DEF NetInv, VarsTyped
    <2> QED
      BY <1>1, <2>1, AppendProperties, LenProperties
  <1>3. RestTyped'
    BY <1>1, RestNow DEF RestTyped, osVars, countVars, NetInv, VarsTyped
  <1>4. p \notin Entries(actions) /\ \A u \in Worker : p \notin Entries(work[u].mine)
    BY <1>1 DEF NetInv, QueuedOnce
  <1>5. \A i \in 1 .. n : actions[i] # p
    BY <1>2, <1>4 DEF Entries
  <1> HIDE DEF n
  <1>6. Entries(actions') = Entries(actions) \cup {p}
    <2>1. 1 .. (n + 1) = (1 .. n) \cup {n + 1}
      BY <1>2
    <2> QED
      BY <1>2, <2>1 DEF Entries
  <1>7. Once(actions')
    <2> SUFFICES ASSUME NEW i \in 1 .. (n + 1), NEW j \in 1 .. (n + 1), actions'[i] = actions'[j]
                 PROVE i = j
      BY <1>2 DEF Once
    <2>1. \A k \in 1 .. (n + 1) : k \in 1 .. n \/ k = n + 1
      BY <1>2
    <2> QED
      BY <1>2, <1>5, <2>1 DEF NetInv, QueuedOnce, Once
  <1>8. QueuedOnce'
    <2>1. life'[p] = "queued" /\ \A q : life[q] = "queued" => life'[q] = "queued"
      BY <1>1 DEF NetInv, VarsTyped
    <2>2. ASSUME NEW u \in Worker, NEW q \in Entries(work[u].mine)
          PROVE /\ life'[q] = "queued" /\ q \notin Entries(actions')
                /\ \A v \in Worker \ {u} : q \notin Entries(work[v].mine)
      BY <1>4, <1>6, <2>1, <2>2 DEF NetInv, QueuedOnce
    <2>3. \A q \in Entries(actions') : life'[q] = "queued"
      BY <1>6, <2>1 DEF NetInv, QueuedOnce
    <2>4. work' = work /\ \A u \in Worker : Once(work[u].mine)
      BY <1>1 DEF NetInv, QueuedOnce
    <2> QED
      BY <1>7, <2>2, <2>3, <2>4, SMTT(30) DEF QueuedOnce, Entries, Once
  <1> QED
    BY <1>1, <1>2, <1>3, <1>8, LeavingKeeps DEF slotVars

LEMMA OthersKeep ==
    ASSUME NetInv, (\E p \in Peer : OtherSide(p)) \/ Tick
    PROVE  NetInv'
  <1>1. /\ UNCHANGED <<slotVars, tmset, workVars, interest, level, userVars, calls, program>>
        /\ now' \in 0 .. MaxTime /\ traffic' \in 0 .. program.events
    <2>1. program.events \in Nat
      BY ProgramsUse DEF NetInv, VarsTyped
    <2> QED
      BY <2>1, TimeNat DEF OtherSide, DataArrives, RoomAppears, OtherCloses, Remote, CountEvent,
         Tick, osVars, NetInv, VarsTyped
  <1>2. RestTyped'
    BY <1>1, RestNow DEF RestTyped, workVars
  <1> QED
    BY <1>1, <1>2, Untouched DEF slotVars, workVars, userVars

LEMMA NextKeeps == NetInv /\ [Next]_vars => NetInv'
  <1> SUFFICES ASSUME NetInv, [Next]_vars PROVE NetInv'
    OBVIOUS
  <1>1. ASSUME NEW t \in Worker, Work(t) \/ RequestStop(t)
        PROVE NetInv'
    BY <1>1, LockingKeeps, HoldingKeeps, WaitingKeeps, RunActionKeeps, RequestStopKeeps DEF Work
  <1>2. ASSUME NEW p \in Peer, Call(p)
        PROVE NetInv'
    BY <1>2, CreatedKeeps, ReconnectKeeps, RequestsKeep, SmallCallsKeep, SetTimeoutKeeps,
       DestroyCallKeeps, DestroyReturnsKeeps, EnqueueKeeps
       DEF Call, Connect, CreateServer, ConnectSpecial
  <1>3. CASE (\E p \in Peer : OtherSide(p)) \/ Tick
    BY <1>3, OthersKeep
  <1>4. CASE UNCHANGED vars
    <2>1. RestTyped'
      BY <1>4, RestNow DEF RestTyped, vars, workVars, osVars, countVars
    <2> QED
      BY <1>4, <2>1, Untouched DEF vars, slotVars, workVars, userVars
  <1> QED
    BY <1>1, <1>2, <1>3, <1>4 DEF Next

-----------------------------------------------------------------------------
(* The theorems.                                                           *)

\* Sockets, timeouts, workers and the queue of actions have their types, and
\* the count of callbacks of a slot, on which destroy() waits, is that of the
\* workers which are in one (invoke_cb).
THEOREM TypeCorrect == Spec => []TypeOK
  <1>1. NetInv => TypeOK
    BY DEF NetInv, VarsTyped, Counted, TypeOK, Record, InCallback
  <1> QED
    BY <1>1, InitHolds, NextKeeps, PTL DEF Spec

\* No callback of a connection starts or runs once its destroy() has returned,
\* whatever events of it were fetched before, and although its number may have
\* been given to another (destroy, process_event_lk).
THEOREM DestroyedAreSilent == Spec => []GoneIsSilent
  <1>1. NetInv => GoneIsSilent
    BY DEF NetInv, WorkersOwn, WorkerOwns, GoneIsSilent
  <1> QED
    BY <1>1, InitHolds, NextKeeps, PTL DEF Spec

\* A timeout in the set is that of the connection which has the number now,
\* and the one it asked for last (set_timeout, clear_timeout, destroy).
THEOREM TimersHaveOwners == Spec => []TimersOwned
  <1>1. NetInv => TimersOwned
    BY DEF NetInv
  <1> QED
    BY <1>1, InitHolds, NextKeeps, PTL DEF Spec

\* In every order of connecting, accepting and destroying, each connection has
\* a number of its own, and the others are on the free list, once each
\* (alloc_socket_lk, free_socket_lk).
THEOREM FreeListNeverBroken == Spec => []FreeListSound
  <1>1. ASSUME NetInv PROVE FreeListSound
    <2>1. PICK s \in Seq(Unused) : FreeListIs(s)
      BY <1>1 DEF NetInv, SlotsOwned, FreeListExists
    <2> DEFINE n == Len(s)
    <2>2. /\ n \in Nat /\ DOMAIN s = 1 .. n /\ s \in [1 .. n -> Unused]
      BY <2>1, LenProperties
    <2>3. s \in Bijection(1 .. n, Unused)
      BY <2>1, <2>2 DEF FreeListIs, Bijection, Injection, Surjection, IsInjective
    <2>4. Cardinality(Unused) = n
      BY <2>2, <2>3, FS_CountingElements DEF ExistsBijection
    <2>5. \E z \in [1 .. Cardinality(Unused) -> Unused] : FreeListIs(z)
      BY <2>1, <2>2, <2>4
    <2>6. Cardinality({p \in Peer : Exists(p)}) + Cardinality(Unused) = size
      BY <1>1, SlotCount DEF NetInv
    <2> QED
      BY <1>1, <2>5, <2>6 DEF FreeListSound, NetInv, SlotsOwned, ExistingHaveSlots
  <1> QED
    BY <1>1, InitHolds, NextKeeps, PTL DEF Spec
=============================================================================

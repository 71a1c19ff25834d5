------------------------- MODULE DirectBridgeProofs -------------------------
(***************************************************************************)
(* What two brokers that are joined know of each other at rest: of groups, *)
(* and of channels.                                                        *)
(***************************************************************************)
EXTENDS DirectBridge, SequenceTheorems, FiniteSetTheorems, TLAPS

-----------------------------------------------------------------------------
(* Steps, and how often a script has one.                                  *)

Ops == {"add", "replace", "erase", "unsubscribe_all_channels", "close_group", "add_to_group",
        "leave", "unlock", "announce", "announce_all", "collect", "collect_all", "release"}
Member == Listener \cup {Bridge}
StepType == [op : Ops, at : Side, who : Member \cup {Null}, names : SUBSET Name,
             target : Listener \cup {Null}]

Places(q, S) == {i \in DOMAIN q : q[i] \in S}
Count(q, S) == Cardinality(Places(q, S))

LEMMA PlacesFinite ==
    ASSUME NEW X, NEW q \in Seq(X), NEW S
    PROVE  /\ IsFiniteSet(Places(q, S)) /\ Count(q, S) \in Nat
           /\ Places(q, S) \subseteq 1 .. Len(q)
  <1>1. Places(q, S) \subseteq 1 .. Len(q) /\ Len(q) \in Nat
    BY DEF Places
  <1>2. IsFiniteSet(1 .. Len(q))
    BY <1>1, FS_Interval
  <1> QED
    BY <1>1, <1>2, FS_Subset, FS_CardinalityType DEF Count

LEMMA CountConcat ==
    ASSUME NEW X, NEW r \in Seq(X), NEW q \in Seq(X), NEW S
    PROVE  Count(r \o q, S) = Count(r, S) + Count(q, S)
  <1> DEFINE A == Places(r, S)
             B == Places(q, S)
             n == Len(r)
             C == {i + n : i \in B}
             f == [i \in B |-> i + n]
  <1>1. /\ IsFiniteSet(A) /\ IsFiniteSet(B) /\ A \subseteq 1 .. n /\ B \subseteq 1 .. Len(q)
        /\ n \in Nat /\ Len(q) \in Nat
    BY PlacesFinite
  <1>2. IsFiniteSet(C) /\ Cardinality(C) = Cardinality(B)
    <2>1. f \in [B -> C]
      OBVIOUS
    <2>2. \A i, j \in B : f[i] = f[j] => i = j
      BY <1>1
    <2>3. \A k \in C : \E i \in B : f[i] = k
      OBVIOUS
    <2> HIDE DEF f, B, C
    <2>4. f \in Bijection(B, C)
      BY <2>1, <2>2, <2>3 DEF Bijection, Injection, Surjection, IsInjective
    <2> QED
      BY <2>4, <1>1, FS_Bijection DEF ExistsBijection, B
  <1>3. A \cap C = {}
    BY <1>1
  <1>4. /\ r \o q \in Seq(X) /\ Len(r \o q) = n + Len(q)
        /\ \A i \in 1 .. n + Len(q) : (r \o q)[i] = IF i <= n THEN r[i] ELSE q[i - n]
    BY ConcatProperties
  <1>5. Places(r \o q, S) = A \cup C
    <2> HIDE DEF C
    <2>1. DOMAIN (r \o q) = 1 .. n + Len(q) /\ DOMAIN r = 1 .. n /\ DOMAIN q = 1 .. Len(q)
      BY <1>4
    <2>2. ASSUME NEW i \in Places(r \o q, S)
          PROVE  i \in A \cup C
      <3>1. i \in 1 .. n + Len(q) /\ (r \o q)[i] \in S
        BY <2>1, <2>2 DEF Places
      <3>2. CASE i <= n
        BY <3>1, <3>2, <2>1, <1>4, <1>1 DEF Places
      <3>3. CASE i > n
        <4>1. i - n \in 1 .. Len(q) /\ q[i - n] \in S /\ (i - n) + n = i
          BY <3>1, <3>3, <1>4, <1>1
        <4>2. i - n \in B
          BY <4>1, <2>1 DEF Places
        <4> QED
          BY <4>1, <4>2 DEF C
      <3> QED
        BY <3>1, <3>2, <3>3, <1>1
    <2>3. ASSUME NEW i \in A
          PROVE  i \in Places(r \o q, S)
      <3>1. i \in 1 .. n /\ r[i] \in S
        BY <2>1, <2>3 DEF Places
      <3>2. i \in 1 .. n + Len(q) /\ (r \o q)[i] \in S
        BY <3>1, <1>4, <1>1
      <3> QED
        BY <3>2, <2>1 DEF Places
    <2>4. ASSUME NEW i \in C
          PROVE  i \in Places(r \o q, S)
      <3>1. PICK j \in B : i = j + n
        BY <2>4 DEF C
      <3>2. j \in 1 .. Len(q) /\ q[j] \in S
        BY <2>1 DEF Places
      <3>3. i \in 1 .. n + Len(q) /\ ~(i <= n) /\ i - n = j
        BY <3>1, <3>2, <1>1
      <3>4. (r \o q)[i] \in S
        BY <3>2, <3>3, <1>4
      <3> QED
        BY <3>3, <3>4, <2>1 DEF Places
    <2> QED
      BY <2>2, <2>3, <2>4
  <1>6. Cardinality(A \cup C) = Cardinality(A) + Cardinality(C)
    <2>1. Cardinality(A \cap C) = 0
      BY <1>3, FS_EmptySet
    <2>2. Cardinality(A) \in Nat /\ Cardinality(C) \in Nat
      BY <1>1, <1>2, FS_CardinalityType
    <2>3. Cardinality(A \cup C) = Cardinality(A) + Cardinality(C) - Cardinality(A \cap C)
      BY <1>1, <1>2, FS_Union
    <2> HIDE DEF A, C
    <2> QED
      BY <2>1, <2>2, <2>3
  <1> QED
    BY <1>2, <1>5, <1>6 DEF Count

LEMMA CountEmpty ==
    ASSUME NEW S
    PROVE  Count(<<>>, S) = 0
  <1>1. Places(<<>>, S) = {}
    BY DEF Places
  <1> QED
    BY <1>1, FS_EmptySet DEF Count

LEMMA CountOne ==
    ASSUME NEW x, NEW S
    PROVE  Count(<<x>>, S) = IF x \in S THEN 1 ELSE 0
  <1>1. Places(<<x>>, S) = IF x \in S THEN {1} ELSE {}
    BY DEF Places
  <1>2. Cardinality({1}) = 1 /\ Cardinality({}) = 0
    BY FS_EmptySet, FS_Singleton
  <1> QED
    BY <1>1, <1>2 DEF Count

LEMMA CountTwo ==
    ASSUME NEW X, NEW x \in X, NEW y \in X, NEW S
    PROVE  /\ <<x, y>> \in Seq(X) /\ ToSet(<<x, y>>) = {x, y}
           /\ Count(<<x, y>>, S) = (IF x \in S THEN 1 ELSE 0) + IF y \in S THEN 1 ELSE 0
  <1> DEFINE q == <<x, y>>
             w == <<y>>
  <1>1. q \in Seq(X) /\ w \in Seq(X) /\ Len(q) = 2 /\ Len(w) = 1 /\ q[1] = x /\ q[2] = y /\ w[1] = y
    OBVIOUS
  <1>2. Places(q, S) = (IF x \in S THEN {1} ELSE {}) \cup IF y \in S THEN {2} ELSE {}
    BY <1>1 DEF Places
  <1>3. /\ IsFiniteSet({1}) /\ Cardinality({1}) = 1 /\ IsFiniteSet({2}) /\ Cardinality({2}) = 1
        /\ Cardinality({}) = 0
    BY FS_EmptySet, FS_Singleton
  <1>4. Cardinality({1} \cup {2}) = 2
    BY <1>3, FS_AddElement
  <1>5. Count(q, S) = (IF x \in S THEN 1 ELSE 0) + IF y \in S THEN 1 ELSE 0
    BY <1>2, <1>3, <1>4 DEF Count
  <1>6. ToSet(q) = {x, y}
    BY <1>1 DEF ToSet
  <1> QED
    BY <1>1, <1>5, <1>6

LEMMA CountNone ==
    ASSUME NEW X, NEW q \in Seq(X), NEW S
    PROVE  Count(q, S) = 0 <=> \A s \in ToSet(q) : s \notin S
  <1>1. IsFiniteSet(Places(q, S))
    BY PlacesFinite
  <1>2. Count(q, S) = 0 <=> Places(q, S) = {}
    BY <1>1, FS_EmptySet DEF Count
  <1> QED
    BY <1>2 DEF Places, ToSet

\* A script is its head and the rest.
LEMMA HeadAndTail ==
    ASSUME NEW X, NEW q \in Seq(X), q # <<>>
    PROVE  /\ Head(q) \in X /\ Tail(q) \in Seq(X)
           /\ q = <<Head(q)>> \o Tail(q)
           /\ ToSet(q) = {Head(q)} \cup ToSet(Tail(q))
           /\ \A S : Count(q, S) = Count(Tail(q), S) + IF Head(q) \in S THEN 1 ELSE 0
  <1>1. /\ Head(q) \in X /\ Tail(q) \in Seq(X) /\ Len(Tail(q)) = Len(q) - 1
        /\ \A i \in 1 .. Len(Tail(q)) : Tail(q)[i] = q[i + 1]
        /\ Len(q) \in Nat \ {0} /\ Head(q) = q[1]
    BY HeadTailProperties
  <1> DEFINE h == <<Head(q)>>
             w == Tail(q)
  <1>2. h \in Seq(X) /\ Len(h) = 1 /\ h[1] = q[1] /\ ToSet(h) = {Head(q)}
    BY <1>1 DEF ToSet
  <1> HIDE DEF h, w
  <1>3. /\ h \o w \in Seq(X) /\ Len(h \o w) = Len(q)
        /\ \A i \in 1 .. Len(q) : (h \o w)[i] = IF i <= 1 THEN h[i] ELSE w[i - 1]
    <2>1. Len(h) + Len(w) = Len(q)
      BY <1>1, <1>2 DEF w
    <2>2. w \in Seq(X)
      BY <1>1 DEF w
    <2>3. /\ h \o w \in Seq(X) /\ Len(h \o w) = Len(h) + Len(w)
          /\ \A i \in 1 .. Len(h) + Len(w) : (h \o w)[i] = IF i <= Len(h) THEN h[i] ELSE w[i - Len(h)]
      BY <1>2, <2>2, ConcatProperties
    <2> QED
      BY <1>2, <2>1, <2>3
  <1>4. \A i \in 1 .. Len(q) : (h \o w)[i] = q[i]
    BY <1>1, <1>2, <1>3 DEF w
  <1>5. q = h \o w
    BY <1>3, <1>4, SeqEqual
  <1>6. ToSet(q) = {Head(q)} \cup ToSet(w)
    <2>1. DOMAIN q = 1 .. Len(q) /\ DOMAIN w = 1 .. Len(q) - 1
      BY <1>1 DEF w
    <2>2. \A i \in DOMAIN q : i = 1 \/ (i - 1 \in DOMAIN w /\ w[i - 1] = q[i])
      BY <2>1, <1>1 DEF w
    <2>3. \A i \in DOMAIN w : i + 1 \in DOMAIN q /\ w[i] = q[i + 1]
      BY <2>1, <1>1 DEF w
    <2>4. 1 \in DOMAIN q
      BY <2>1, <1>1
    <2> QED
      BY <2>2, <2>3, <2>4, <1>1 DEF ToSet
  <1>7. ASSUME NEW S
        PROVE  Count(q, S) = Count(w, S) + IF Head(q) \in S THEN 1 ELSE 0
    <2>1. Count(h \o w, S) = Count(h, S) + Count(w, S)
      BY <1>1, <1>2, CountConcat DEF w
    <2>2. Count(h, S) = IF Head(q) \in S THEN 1 ELSE 0
      BY CountOne DEF h
    <2>3. Count(w, S) \in Nat
      BY <1>1, PlacesFinite DEF w
    <2> QED
      BY <1>5, <2>1, <2>2, <2>3
  <1> QED
    BY <1>1, <1>5, <1>6, <1>7 DEF h, w

LEMMA ToSetConcat ==
    ASSUME NEW X, NEW r \in Seq(X), NEW q \in Seq(X)
    PROVE  ToSet(r \o q) = ToSet(r) \cup ToSet(q)
  <1>1. /\ r \o q \in Seq(X) /\ Len(r \o q) = Len(r) + Len(q)
        /\ \A i \in 1 .. Len(r) + Len(q) : (r \o q)[i] = IF i <= Len(r) THEN r[i] ELSE q[i - Len(r)]
    BY ConcatProperties
  <1>2. Len(r) \in Nat /\ Len(q) \in Nat /\ DOMAIN r = 1 .. Len(r) /\ DOMAIN q = 1 .. Len(q)
        /\ DOMAIN (r \o q) = 1 .. Len(r) + Len(q)
    BY <1>1
  <1>3. \A i \in DOMAIN (r \o q) : (r \o q)[i] \in ToSet(r) \cup ToSet(q)
    BY <1>1, <1>2 DEF ToSet
  <1>4. \A i \in DOMAIN r : i \in DOMAIN (r \o q) /\ (r \o q)[i] = r[i]
    BY <1>1, <1>2
  <1>5. \A i \in DOMAIN q : i + Len(r) \in DOMAIN (r \o q) /\ (r \o q)[i + Len(r)] = q[i]
    BY <1>1, <1>2
  <1> QED
    BY <1>3, <1>4, <1>5 DEF ToSet

\* A finite set listed as a sequence.
LEMMA SetToSeqLists ==
    ASSUME NEW S, IsFiniteSet(S)
    PROVE  /\ SetToSeq(S) \in Seq(S)
           /\ ToSet(SetToSeq(S)) = S
  <1> DEFINE n == Cardinality(S)
             q == SetToSeq(S)
  <1>1. n \in Nat /\ ExistsBijection(1 .. n, S)
    BY FS_CardinalityType
  <1>2. \E f \in [1 .. n -> S] : IsInjective(f)
    BY <1>1 DEF ExistsBijection, Bijection, Injection, IsInjective
  <1>3. q \in [1 .. n -> S] /\ IsInjective(q)
    BY <1>2 DEF SetToSeq
  <1> HIDE DEF n, q
  <1>4. q \in Injection(1 .. n, S)
    BY <1>3 DEF Injection, IsInjective
  <1>5. IsFiniteSet(1 .. n) /\ Cardinality(1 .. n) = n
    BY <1>1, FS_Interval
  <1> QED
    <2>1. ToSet(q) \subseteq S
      BY <1>3 DEF ToSet
    <2>2. q \in Surjection(1 .. n, ToSet(q))
      BY <1>3 DEF ToSet, Surjection
    <2>3. q \in Bijection(1 .. n, ToSet(q))
      BY <2>2, <1>4 DEF Bijection, Injection, Surjection, ToSet
    <2>4. Cardinality(ToSet(q)) = n
      BY <2>3, <1>5, FS_Bijection DEF ExistsBijection
    <2>5. ToSet(q) = S
      BY <2>1, <2>4, FS_Subset DEF n
    <2> QED
      BY <1>3, <1>1, <2>5 DEF q

-----------------------------------------------------------------------------
(* Types, and the mutexes.                                                 *)

\* Who does a step, and to what.
Fits(s) ==
    /\ s.op \in {"add", "replace", "release"} => s.names \subseteq Chan
    /\ s.op \in {"replace", "announce", "announce_all", "collect", "collect_all", "release"}
       => s.who = Bridge
    /\ s.op \in {"add", "erase", "unsubscribe_all_channels"} => s.who \in Member
    /\ s.op \in {"add_to_group", "close_group"} =>
         s.who \in Member /\ \E g \in Group : s.names = {g}
    /\ s.op = "add_to_group" => s.target \in Listener
    /\ s.op = "leave" => s.who \in Listener
    /\ s.op = "unlock" => s.who = Null
ValidStep == {s \in StepType : Fits(s)}

TypeOK ==
    /\ listeners \in [Side -> [Name -> SUBSET Member]]
    /\ owner \in [Side -> [Name -> Member \cup {Null}]]
    /\ told \in [Side -> SUBSET Chan]
    /\ callers \in [Side -> [all : Nat, resets : Nat]]
    /\ connected \in BOOLEAN
    /\ changed \in [Side -> BOOLEAN]
    /\ mutex \in [Side -> Thread \cup {Null}]
    /\ depth \in [Side -> Nat]
    /\ script \in [Thread -> Seq(ValidStep)]

\* Only groups have owners; who owns one has members, and is none of them.
Owned ==
    /\ \A b \in Side, c \in Chan : owner[b][c] = Null
    /\ \A b \in Side, g \in Group :
         /\ owner[b][g] = Null <=> listeners[b][g] = {}
         /\ owner[b][g] = Bridge => Bridge \notin listeners[b][g]

\* The depth of a mutex is the number of times that its thread will unlock it.
Unlocks(b) == {s \in StepType : s.op = "unlock" /\ s.at = b}
Locked ==
    /\ \A b \in Side, t \in Thread :
         Count(script[t], Unlocks(b)) = IF mutex[b] = t THEN depth[b] ELSE 0
    /\ \A b \in Side : mutex[b] = Null <=> depth[b] = 0

BusInv == TypeOK /\ Owned /\ Locked

LEMMA Sides == /\ \A b \in Side : Other(b) \in Side /\ Other(b) # b /\ Other(Other(b)) = b
               /\ \A a, b \in Side : a = b \/ a = Other(b)
               /\ Other(1) = 2 /\ Other(2) = 1
  BY DEF Side, Other

\* The steps that there are.
LEMMA StepFields ==
    ASSUME NEW b, NEW op, NEW who, NEW names
    PROVE  LET s == Step(op, b, who, names)
           IN s.op = op /\ s.at = b /\ s.who = who /\ s.names = names
  BY DEF Step

LEMMA StepsFit ==
    ASSUME NEW b \in Side
    PROVE  /\ \A who \in Member, names \in SUBSET Chan :
                /\ Add(b, who, names) \in ValidStep
                /\ Replace(b, Bridge, names) \in ValidStep
                /\ Step("release", b, Bridge, names) \in ValidStep
           /\ \A who \in Member, names \in SUBSET Name : Erase(b, who, names) \in ValidStep
           /\ \A who \in Member : UnsubscribeAll(b, who) \in ValidStep
           /\ \A who \in Member, g \in Group :
                /\ CloseGroup(b, who, g) \in ValidStep
                /\ \A m \in Listener : AddToGroup(b, who, g, m) \in ValidStep
           /\ \A l \in Listener : Step("leave", b, l, {}) \in ValidStep
           /\ Unlock(b) \in ValidStep
           /\ \A op \in {"announce", "announce_all", "collect", "collect_all"} : Step(op, b, Bridge, {}) \in ValidStep
  BY DEF Step, Add, Replace, Erase, UnsubscribeAll, CloseGroup, AddToGroup, Unlock,
         ValidStep, StepType, Fits, Ops, Member, Name

LEMMA AtHand ==
    ASSUME TypeOK, NEW t \in Thread, script[t] # <<>>
    PROVE  /\ script[t] \in Seq(ValidStep) /\ Head(script[t]) \in ValidStep
           /\ Head(script[t]) \in ToSet(script[t])
           /\ Head(script[t]) \in StepType /\ Fits(Head(script[t])) /\ Head(script[t]).at \in Side
  <1>1. script[t] \in Seq(ValidStep)
    BY DEF TypeOK
  <1>2. /\ Head(script[t]) \in ValidStep
        /\ ToSet(script[t]) = {Head(script[t])} \cup ToSet(Tail(script[t]))
    BY <1>1, HeadAndTail
  <1>3. Head(script[t]) \in StepType /\ Fits(Head(script[t])) /\ Head(script[t]).at \in Side
    BY <1>2 DEF ValidStep, StepType
  <1> QED
    BY <1>1, <1>2, <1>3

\* What a thread has to do after a step.
LEMMA Continues ==
    ASSUME TypeOK, NEW t \in Thread, script[t] # <<>>, NEW r \in Seq(ValidStep), Continue(t, r)
    PROVE  /\ script' \in [Thread -> Seq(ValidStep)]
           /\ \A u \in Thread \ {t} : script'[u] = script[u]
           /\ Head(script[t]) \in ValidStep /\ Tail(script[t]) \in Seq(ValidStep)
           /\ script'[t] = r \o Tail(script[t])
           /\ ToSet(script[t]) = {Head(script[t])} \cup ToSet(Tail(script[t]))
           /\ ToSet(script'[t]) = ToSet(r) \cup ToSet(Tail(script[t]))
           /\ \A S : /\ Count(script[t], S) =
                          Count(Tail(script[t]), S) + IF Head(script[t]) \in S THEN 1 ELSE 0
                     /\ Count(script'[t], S) = Count(r, S) + Count(Tail(script[t]), S)
                     /\ Count(r, S) \in Nat /\ Count(Tail(script[t]), S) \in Nat
  <1>1. script[t] \in Seq(ValidStep) /\ script \in [Thread -> Seq(ValidStep)]
    BY DEF TypeOK
  <1> DEFINE q == script[t]
             w == Tail(script[t])
  <1>2. /\ Head(q) \in ValidStep /\ w \in Seq(ValidStep)
        /\ ToSet(q) = {Head(q)} \cup ToSet(w)
        /\ \A S : Count(q, S) = Count(w, S) + IF Head(q) \in S THEN 1 ELSE 0
    BY <1>1, HeadAndTail
  <1>3. script' = [script EXCEPT ![t] = r \o w]
    BY DEF Continue
  <1> HIDE DEF q, w
  <1>4. r \o w \in Seq(ValidStep)
    BY <1>2, ConcatProperties
  <1>5. ToSet(r \o w) = ToSet(r) \cup ToSet(w)
    BY <1>2, ToSetConcat
  <1>6. \A S : Count(r \o w, S) = Count(r, S) + Count(w, S) /\ Count(r, S) \in Nat /\ Count(w, S) \in Nat
    BY <1>2, CountConcat, PlacesFinite
  <1>7. /\ script' \in [Thread -> Seq(ValidStep)] /\ script'[t] = r \o w
        /\ \A u \in Thread \ {t} : script'[u] = script[u]
    BY <1>1, <1>3, <1>4
  <1> QED
    BY <1>2, <1>5, <1>6, <1>7 DEF q, w

LEMMA CountAfter ==
    ASSUME TypeOK, NEW t \in Thread, script[t] # <<>>, NEW r \in Seq(ValidStep), Continue(t, r), NEW S
    PROVE  /\ Count(script'[t], S) =
                Count(r, S) + Count(script[t], S) - (IF Head(script[t]) \in S THEN 1 ELSE 0)
           /\ Count(r, S) \in Nat /\ Count(script[t], S) \in Nat
           /\ \A u \in Thread \ {t} : Count(script'[u], S) = Count(script[u], S)
  <1>1. /\ Count(script[t], S) =
             Count(Tail(script[t]), S) + IF Head(script[t]) \in S THEN 1 ELSE 0
        /\ Count(script'[t], S) = Count(r, S) + Count(Tail(script[t]), S)
        /\ Count(r, S) \in Nat /\ Count(Tail(script[t]), S) \in Nat
    BY Continues
  <1>2. \A u \in Thread \ {t} : script'[u] = script[u]
    BY Continues
  <1> QED
    BY <1>1, <1>2

\* How often the mutex of a broker is unlocked.
Locking(r, b) == \A x \in Side : Count(r, Unlocks(x)) = IF x = b THEN 1 ELSE 0
NotLocking(r) == \A x \in Side : Count(r, Unlocks(x)) = 0
Unlocking(s) == s.op = "unlock"

LEMMA LockTaken ==
    ASSUME BusInv, NEW t \in Thread, script[t] # <<>>, ~Unlocking(Head(script[t])),
           NEW b \in Side, Acquire(t, b),
           NEW r \in Seq(ValidStep), Locking(r, b), Continue(t, r)
    PROVE  Locked' /\ mutex' \in [Side -> Thread \cup {Null}] /\ depth' \in [Side -> Nat]
  <1> USE ActorsDiffer DEF BusInv
  <1>1. /\ \A u \in Thread \ {t} : script'[u] = script[u]
        /\ \A x \in Side : /\ Count(script'[t], Unlocks(x)) =
                                Count(r, Unlocks(x)) + Count(script[t], Unlocks(x))
    <2>1. \A x \in Side : Head(script[t]) \notin Unlocks(x)
      BY DEF Unlocks, Unlocking
    <2> QED
      BY <2>1, Continues
  <1>2. /\ mutex \in [Side -> Thread \cup {Null}] /\ depth \in [Side -> Nat]
        /\ mutex[b] \in {Null, t}
        /\ mutex' = [mutex EXCEPT ![b] = t] /\ depth' = [depth EXCEPT ![b] = @ + 1]
    BY DEF Acquire, TypeOK
  <1>3. mutex' \in [Side -> Thread \cup {Null}] /\ depth' \in [Side -> Nat]
    BY <1>2
  <1>4. ASSUME NEW x \in Side, NEW u \in Thread
        PROVE  Count(script'[u], Unlocks(x)) = IF mutex'[x] = u THEN depth'[x] ELSE 0
    <2>1. Count(script[u], Unlocks(x)) = IF mutex[x] = u THEN depth[x] ELSE 0
      BY DEF Locked
    <2>2. mutex[x] = Null => depth[x] = 0
      BY DEF Locked
    <2>3. CASE u = t
      BY <2>1, <2>2, <2>3, <1>1, <1>2 DEF Locking
    <2>4. CASE u # t
      BY <2>1, <2>2, <2>4, <1>1, <1>2
    <2> QED
      BY <2>3, <2>4
  <1>5. \A x \in Side : mutex'[x] = Null <=> depth'[x] = 0
    BY <1>2 DEF Locked
  <1> QED
    BY <1>3, <1>4, <1>5 DEF Locked

LEMMA LockKept ==
    ASSUME BusInv, NEW t \in Thread, script[t] # <<>>, ~Unlocking(Head(script[t])),
           UNCHANGED lockVars, NEW r \in Seq(ValidStep), NotLocking(r), Continue(t, r)
    PROVE  Locked' /\ mutex' \in [Side -> Thread \cup {Null}] /\ depth' \in [Side -> Nat]
  <1> USE DEF BusInv
  <1>1. /\ \A u \in Thread \ {t} : script'[u] = script[u]
        /\ \A x \in Side : Count(script'[t], Unlocks(x)) = Count(script[t], Unlocks(x))
    <2>1. \A x \in Side : Head(script[t]) \notin Unlocks(x)
      BY DEF Unlocks, Unlocking
    <2> QED
      BY <2>1, Continues DEF NotLocking
  <1>2. mutex' = mutex /\ depth' = depth
    BY DEF lockVars
  <1>3. Locked'
    BY <1>1, <1>2 DEF Locked
  <1> QED
    BY <1>2, <1>3 DEF TypeOK

LEMMA UnlockBusLocks ==
    ASSUME BusInv, NEW t \in Thread, UnlockBus(t)
    PROVE  /\ Locked' /\ TypeOK'
           /\ \E b \in Side, r \in Seq(ValidStep) :
                /\ Continue(t, r) /\ script[t] # <<>>
                /\ Head(script[t]).op = "unlock" /\ Head(script[t]).at = b
                /\ mutex[b] = t
                /\ \/ /\ changed[b] /\ changed' = [changed EXCEPT ![b] = FALSE]
                      /\ r = <<Step("announce", b, Bridge, {}), Unlock(b)>> /\ UNCHANGED lockVars
                   \/ /\ ~(depth[b] = 1 /\ changed[b]) /\ UNCHANGED changed /\ r = <<>>
                      /\ depth' = [depth EXCEPT ![b] = @ - 1]
                      /\ mutex' = [mutex EXCEPT ![b] = IF depth[b] = 1 THEN Null ELSE t]
  <1> USE ActorsDiffer DEF BusInv
  <1> PICK s : s = Head(script[t])
    OBVIOUS
  <1> PICK b : b = s.at
    OBVIOUS
  <1>1. script[t] # <<>> /\ s.op = "unlock"
    BY DEF UnlockBus, Does
  <1>2. script[t] \in Seq(ValidStep)
    BY DEF TypeOK
  <1>3. s \in ValidStep /\ b \in Side
    BY <1>1, AtHand
  <1>4. /\ mutex \in [Side -> Thread \cup {Null}] /\ depth \in [Side -> Nat]
        /\ changed \in [Side -> BOOLEAN]
    BY DEF TypeOK
  <1>5. \A x \in Side : s \in Unlocks(x) <=> x = b
    BY <1>1, <1>3 DEF Unlocks, ValidStep
  <1>h. PICK h : h = Step("announce", b, Bridge, {})
    OBVIOUS
  <1>k. PICK k : k = Unlock(b)
    OBVIOUS
  <1>w. PICK two : two = <<h, k>>
    OBVIOUS
  <1>6. mutex[b] = t /\ depth[b] > 0
    <2>1. s \in ToSet(script[t]) /\ s \in Unlocks(b)
      BY <1>1, <1>3, <1>5, AtHand
    <2>2. Count(script[t], Unlocks(b)) # 0
      BY <1>2, <2>1, CountNone
    <2>3. Count(script[t], Unlocks(b)) = IF mutex[b] = t THEN depth[b] ELSE 0
      BY <1>3 DEF Locked
    <2> QED
      BY <2>2, <2>3, <1>3, <1>4
  <1>7. two \in Seq(ValidStep) /\ <<>> \in Seq(ValidStep)
    <2>1. h \in ValidStep /\ k \in ValidStep
      BY <1>3, <1>h, <1>k, StepsFit
    <2> QED
      BY <2>1, <1>w
  <1>8. \A x \in Side : Count(two, Unlocks(x)) = IF x = b THEN 1 ELSE 0
    <2>1. h \in ValidStep /\ k \in ValidStep /\ h.op = "announce" /\ k.op = "unlock" /\ k.at = b
      BY <1>3, <1>h, <1>k, StepsFit DEF Unlock, Step
    <2>2. \A S : Count(<<h, k>>, S) = (IF h \in S THEN 1 ELSE 0) + IF k \in S THEN 1 ELSE 0
      BY <2>1, CountTwo
    <2>3. \A x \in Side : h \notin Unlocks(x) /\ (k \in Unlocks(x) <=> x = b)
      BY <2>1 DEF Unlocks, ValidStep
    <2> QED
      BY <2>2, <2>3, <1>w
  <1>9. UNCHANGED <<listeners, owner, told, callers, connected>>
    BY DEF UnlockBus, busVars, bridgeVars
  <1> DEFINE notify == depth[b] = 1 /\ changed[b]
  <1>10. CASE notify
    <2>1. Continue(t, two) /\ UNCHANGED lockVars /\ changed' = [changed EXCEPT ![b] = FALSE]
      BY <1>10, <1>h, <1>k, <1>w DEF UnlockBus, Announce
    <2>2. Locked'
      <3>1. /\ \A u \in Thread \ {t} : script'[u] = script[u]
            /\ \A x \in Side : Count(script'[t], Unlocks(x)) = Count(script[t], Unlocks(x))
        <4>1. \A x \in Side : /\ Count(two, Unlocks(x)) = IF s \in Unlocks(x) THEN 1 ELSE 0
          BY <1>8, <1>5
        <4>2. \A u \in Thread \ {t} : script'[u] = script[u]
          BY <1>1, <1>7, <2>1, Continues
        <4>3. ASSUME NEW x \in Side
              PROVE  Count(script'[t], Unlocks(x)) = Count(script[t], Unlocks(x))
          <5>1. /\ Count(script'[t], Unlocks(x)) = Count(two, Unlocks(x)) + Count(script[t], Unlocks(x))
                                                     - (IF s \in Unlocks(x) THEN 1 ELSE 0)
                /\ Count(script[t], Unlocks(x)) \in Nat
            BY <1>1, <1>7, <2>1, CountAfter
          <5> QED
            BY <4>1, <5>1
        <4> QED
          BY <4>2, <4>3
      <3>2. mutex' = mutex /\ depth' = depth
        BY <2>1 DEF lockVars
      <3> QED
        BY <3>1, <3>2 DEF Locked
    <2>3. TypeOK'
      <3>1. script' \in [Thread -> Seq(ValidStep)]
        BY <1>1, <1>7, <2>1, Continues
      <3> QED
        BY <3>1, <2>1, <1>4, <1>9 DEF TypeOK, lockVars
    <2> QED
      BY <1>1, <1>3, <1>6, <1>7, <1>10, <2>1, <2>2, <2>3, <1>h, <1>k, <1>w
  <1>11. CASE ~notify
    <2>1. /\ Continue(t, <<>>) /\ UNCHANGED changed
          /\ depth' = [depth EXCEPT ![b] = @ - 1]
          /\ mutex' = [mutex EXCEPT ![b] = IF depth[b] = 1 THEN Null ELSE t]
      BY <1>11 DEF UnlockBus
    <2>2. /\ script' \in [Thread -> Seq(ValidStep)]
          /\ \A u \in Thread \ {t} : script'[u] = script[u]
          /\ \A x \in Side : Count(script'[t], Unlocks(x)) =
                               Count(script[t], Unlocks(x)) - IF x = b THEN 1 ELSE 0
      <3>1. /\ script' \in [Thread -> Seq(ValidStep)]
            /\ \A u \in Thread \ {t} : script'[u] = script[u]
        BY <1>1, <1>7, <2>1, Continues
      <3>2. ASSUME NEW x \in Side
            PROVE  Count(script'[t], Unlocks(x)) = Count(script[t], Unlocks(x)) - IF x = b THEN 1 ELSE 0
        <4>e. PICK none : none = <<>>
          OBVIOUS
        <4>n. none \in Seq(ValidStep) /\ Continue(t, none)
          BY <1>7, <2>1, <4>e
        <4>s. PICK S : S = Unlocks(x)
          OBVIOUS
        <4>1. /\ Count(script'[t], S) = Count(none, S) + Count(script[t], S) - (IF s \in S THEN 1 ELSE 0)
              /\ Count(script[t], S) \in Nat
          BY <1>1, <4>n, CountAfter
        <4>2. Count(none, Unlocks(x)) = 0
          BY <4>e, CountEmpty
        <4> QED
          BY <1>5, <4>1, <4>2, <4>s
      <3> QED
        BY <3>1, <3>2
    <2>3. mutex' \in [Side -> Thread \cup {Null}] /\ depth' \in [Side -> Nat]
      BY <1>3, <1>4, <1>6, <2>1
    <2>4. ASSUME NEW x \in Side, NEW u \in Thread
          PROVE  Count(script'[u], Unlocks(x)) = IF mutex'[x] = u THEN depth'[x] ELSE 0
      <3>1. Count(script[u], Unlocks(x)) = IF mutex[x] = u THEN depth[x] ELSE 0
        BY DEF Locked
      <3>2. CASE x = b
        <4>1. mutex'[b] = (IF depth[b] = 1 THEN Null ELSE t) /\ depth'[b] = depth[b] - 1
          BY <2>1, <1>3, <1>4
        <4>2. CASE u = t
          <5>1. Count(script'[t], Unlocks(b)) = depth[b] - 1 /\ Null # t
            BY <3>1, <3>2, <4>2, <2>2, <1>3, <1>6
          <5> QED
            BY <3>2, <4>1, <4>2, <5>1, <1>3, <1>4
        <4>3. CASE u # t
          BY <3>1, <3>2, <4>1, <4>3, <2>2, <1>6
        <4> QED
          BY <4>2, <4>3
      <3>3. CASE x # b
        <4>1. mutex'[x] = mutex[x] /\ depth'[x] = depth[x]
          BY <2>1, <3>3, <1>3, <1>4
        <4>2. Count(script'[u], Unlocks(x)) = Count(script[u], Unlocks(x))
          <5>1. CASE u = t
            BY <2>2, <3>1, <3>3, <5>1, <1>4
          <5>2. CASE u # t
            BY <2>2, <5>2
          <5> QED
            BY <5>1, <5>2
        <4> QED
          BY <3>1, <4>1, <4>2
      <3> QED
        BY <3>2, <3>3
    <2>5. \A x \in Side : mutex'[x] = Null <=> depth'[x] = 0
      BY <2>1, <1>3, <1>4, <1>6 DEF Locked
    <2>6. TypeOK'
      BY <2>1, <2>2, <2>3, <1>9 DEF TypeOK
    <2> QED
      BY <1>1, <1>3, <1>6, <1>7, <1>11, <2>1, <2>4, <2>5, <2>6 DEF Locked
  <1> QED
    BY <1>10, <1>11
-----------------------------------------------------------------------------
(* What the steps are: which step of a script is done, what comes instead. *)

\* The lists of steps that take a script on.
LEMMA JustUnlock ==
    ASSUME NEW b \in Side
    PROVE  /\ <<Unlock(b)>> \in Seq(ValidStep) /\ ToSet(<<Unlock(b)>>) = {Unlock(b)}
           /\ Locking(<<Unlock(b)>>, b)
  <1> PICK k : k = Unlock(b)
    OBVIOUS
  <1>1. k \in ValidStep /\ k.op = "unlock" /\ k.at = b
    BY StepsFit DEF Unlock, Step
  <1>2. \A x \in Side : k \in Unlocks(x) <=> x = b
    BY <1>1 DEF Unlocks, ValidStep
  <1>3. \A x \in Side : Count(<<k>>, Unlocks(x)) = IF x = b THEN 1 ELSE 0
    BY <1>2, CountOne
  <1>4. <<k>> \in Seq(ValidStep) /\ ToSet(<<k>>) = {k}
    BY <1>1 DEF ToSet
  <1> QED
    BY <1>3, <1>4 DEF Locking

LEMMA NoUnlocks ==
    ASSUME NEW r \in Seq(ValidStep), \A x \in ToSet(r) : x.op # "unlock"
    PROVE  NotLocking(r)
  <1>1. \A x \in Side : \A s \in ToSet(r) : s \notin Unlocks(x)
    BY DEF Unlocks
  <1> QED
    BY <1>1, CountNone DEF NotLocking

LEMMA UnlockAround ==
    ASSUME NEW b \in Side, NEW r \in Seq(ValidStep), NotLocking(r)
    PROVE  /\ r \o <<Unlock(b)>> \in Seq(ValidStep) /\ Locking(r \o <<Unlock(b)>>, b)
           /\ ToSet(r \o <<Unlock(b)>>) = ToSet(r) \cup {Unlock(b)}
           /\ <<Unlock(b)>> \o r \in Seq(ValidStep) /\ Locking(<<Unlock(b)>> \o r, b)
           /\ ToSet(<<Unlock(b)>> \o r) = ToSet(r) \cup {Unlock(b)}
  <1> PICK w : w = <<Unlock(b)>>
    OBVIOUS
  <1>1. w \in Seq(ValidStep) /\ ToSet(w) = {Unlock(b)} /\ Locking(w, b)
    BY JustUnlock
  <1>2. r \o w \in Seq(ValidStep) /\ w \o r \in Seq(ValidStep)
    BY <1>1, ConcatProperties
  <1>3. ToSet(r \o w) = ToSet(r) \cup ToSet(w) /\ ToSet(w \o r) = ToSet(w) \cup ToSet(r)
    BY <1>1, ToSetConcat
  <1>4. ASSUME NEW x \in Side
        PROVE  Count(r \o w, Unlocks(x)) = (IF x = b THEN 1 ELSE 0)
               /\ Count(w \o r, Unlocks(x)) = IF x = b THEN 1 ELSE 0
    <2> PICK S : S = Unlocks(x)
      OBVIOUS
    <2>1. Count(r \o w, S) = Count(r, S) + Count(w, S) /\ Count(w \o r, S) = Count(w, S) + Count(r, S)
      BY <1>1, CountConcat
    <2>2. Count(r, S) = 0 /\ Count(w, S) = IF x = b THEN 1 ELSE 0
      BY <1>1 DEF Locking, NotLocking
    <2> QED
      BY <2>1, <2>2
  <1> QED
    BY <1>1, <1>2, <1>3, <1>4 DEF Locking

LEMMA NoSteps == <<>> \in Seq(ValidStep) /\ NotLocking(<<>>) /\ ToSet(<<>>) = {}
  <1>1. <<>> \in Seq(ValidStep) /\ ToSet(<<>>) = {}
    BY DEF ToSet
  <1> QED
    BY <1>1, NoUnlocks

LEMMA OneStep ==
    ASSUME NEW x \in ValidStep, x.op # "unlock"
    PROVE  <<x>> \in Seq(ValidStep) /\ NotLocking(<<x>>) /\ ToSet(<<x>>) = {x}
  <1> PICK r : r = <<x>>
    OBVIOUS
  <1>1. r \in Seq(ValidStep) /\ ToSet(r) = {x}
    BY DEF ToSet
  <1> QED
    BY <1>1, NoUnlocks

LEMMA StepsConcat ==
    ASSUME NEW p \in Seq(ValidStep), NEW q \in Seq(ValidStep)
    PROVE  /\ p \o q \in Seq(ValidStep)
           /\ ToSet(p \o q) = ToSet(p) \cup ToSet(q)
           /\ NotLocking(p) /\ NotLocking(q) => NotLocking(p \o q)
  <1>1. p \o q \in Seq(ValidStep)
    BY ConcatProperties
  <1>2. ToSet(p \o q) = ToSet(p) \cup ToSet(q)
    BY ToSetConcat
  <1>3. ASSUME NotLocking(p), NotLocking(q), NEW x \in Side
        PROVE  Count(p \o q, Unlocks(x)) = 0
    <2> PICK S : S = Unlocks(x)
      OBVIOUS
    <2>1. Count(p \o q, S) = Count(p, S) + Count(q, S)
      BY CountConcat
    <2>2. Count(p, S) = 0 /\ Count(q, S) = 0
      BY <1>3 DEF NotLocking
    <2> QED
      BY <2>1, <2>2
  <1> QED
    BY <1>1, <1>2, <1>3 DEF NotLocking

\* One step for each group.
LEMMA StepsOfGroups ==
    ASSUME NEW G \in SUBSET Group, NEW f \in [G -> ValidStep], \A g \in G : f[g].op # "unlock"
    PROVE  LET r == SetToSeq({f[g] : g \in G})
           IN r \in Seq(ValidStep) /\ NotLocking(r) /\ ToSet(r) = {f[g] : g \in G}
  <1> PICK S : S = {f[g] : g \in G}
    OBVIOUS
  <1>1. IsFiniteSet(G)
    BY GroupsFinite, FS_Subset
  <1>2. f \in Surjection(G, S)
    BY DEF Surjection
  <1>3. IsFiniteSet(S)
    BY <1>1, <1>2, FS_Surjection
  <1> PICK r : r = SetToSeq(S)
    OBVIOUS
  <1>4. r \in Seq(S) /\ ToSet(r) = S
    BY <1>3, SetToSeqLists
  <1>5. S \subseteq ValidStep
    OBVIOUS
  <1>6. r \in Seq(ValidStep)
    BY <1>4, <1>5, SeqMonotonic
  <1>7. NotLocking(r)
    BY <1>4, <1>6, NoUnlocks
  <1> QED
    BY <1>4, <1>6, <1>7

\* The groups that the bridge owns and that get empty.
LEMMA EmptyTold ==
    ASSUME BusInv, NEW b \in Side, NEW names \in SUBSET Name
    PROVE  LET r == GroupsEmpty(b, names)
           IN /\ r \in Seq(ValidStep) /\ NotLocking(r)
              /\ ToSet(r) = {Erase(Other(b), Bridge, {g}) : g \in {n \in names : owner[b][n] = Bridge}}
  <1> DEFINE G == {n \in names : owner[b][n] = Bridge}
             e == [g \in G |-> Erase(Other(b), Bridge, {g})]
  <1>1. G \subseteq Group
    BY ActorsDiffer DEF BusInv, Owned, Name
  <1>2. Other(b) \in Side /\ Bridge \in Member
    BY Sides DEF Member
  <1>3. e \in [G -> ValidStep] /\ \A g \in G : e[g].op # "unlock"
    <2>1. \A g \in G : Erase(Other(b), Bridge, {g}) \in ValidStep
      BY <1>1, <1>2, StepsFit DEF Name
    <2>2. \A g \in G : Erase(Other(b), Bridge, {g}).op # "unlock"
      BY DEF Erase, Step
    <2> QED
      BY <2>1, <2>2
  <1>4. {e[g] : g \in G} = {Erase(Other(b), Bridge, {g}) : g \in G}
    OBVIOUS
  <1>5. GroupsEmpty(b, names) = SetToSeq({e[g] : g \in G})
    BY <1>4 DEF GroupsEmpty
  <1> HIDE DEF G, e
  <1>6. /\ SetToSeq({e[g] : g \in G}) \in Seq(ValidStep) /\ NotLocking(SetToSeq({e[g] : g \in G}))
        /\ ToSet(SetToSeq({e[g] : g \in G})) = {e[g] : g \in G}
    BY <1>1, <1>3, StepsOfGroups
  <1>7. ToSet(GroupsEmpty(b, names)) = {Erase(Other(b), Bridge, {g}) : g \in G}
    BY <1>4, <1>5, <1>6
  <1> QED
    BY <1>5, <1>6, <1>7 DEF G

\* The groups that are closed and have the bridge as a member.
LEMMA CloseTold ==
    ASSUME BusInv, NEW b \in Side, NEW names \in SUBSET Name, \A n \in names : owner[b][n] # Null
    PROVE  LET r == Closed(b, names)
           IN /\ r \in Seq(ValidStep) /\ NotLocking(r)
              /\ ToSet(r) = {CloseGroup(Other(b), Bridge, g) :
                    g \in {n \in names : Bridge \in listeners[b][n]}}
  <1> DEFINE G == {n \in names : Bridge \in listeners[b][n]}
             e == [g \in G |-> CloseGroup(Other(b), Bridge, g)]
  <1>1. G \subseteq Group
    BY ActorsDiffer DEF BusInv, Owned, Name
  <1>2. Other(b) \in Side /\ Bridge \in Member
    BY Sides DEF Member
  <1>3. e \in [G -> ValidStep] /\ \A g \in G : e[g].op # "unlock"
    <2>1. \A g \in G : CloseGroup(Other(b), Bridge, g) \in ValidStep
      BY <1>1, <1>2, StepsFit
    <2>2. \A g \in G : CloseGroup(Other(b), Bridge, g).op # "unlock"
      BY DEF CloseGroup, Step
    <2> QED
      BY <2>1, <2>2
  <1>4. {e[g] : g \in G} = {CloseGroup(Other(b), Bridge, g) : g \in G}
    OBVIOUS
  <1>5. Closed(b, names) = SetToSeq({e[g] : g \in G})
    BY <1>4 DEF Closed
  <1> HIDE DEF G, e
  <1>6. /\ SetToSeq({e[g] : g \in G}) \in Seq(ValidStep) /\ NotLocking(SetToSeq({e[g] : g \in G}))
        /\ ToSet(SetToSeq({e[g] : g \in G})) = {e[g] : g \in G}
    BY <1>1, <1>3, StepsOfGroups
  <1>7. ToSet(Closed(b, names)) = {CloseGroup(Other(b), Bridge, g) : g \in G}
    BY <1>4, <1>5, <1>6
  <1> QED
    BY <1>5, <1>6, <1>7 DEF G

\* A step that takes a thread's script on, at the broker of its head.
Goes(t, r) == script[t] # <<>> /\ r \in Seq(ValidStep) /\ Continue(t, r)
Enters(t, b, r) == b \in Side /\ Acquire(t, b) /\ Locking(r, b)

LEMMA SubscribeEffect ==
    ASSUME BusInv, NEW t \in Thread, Subscribe(t), NEW s, s = Head(script[t])
    PROVE  /\ s.op = "add" /\ s \in ValidStep
           /\ \E r : Goes(t, r) /\ Enters(t, s.at, r) /\ ToSet(r) = {Unlock(s.at)}
  <1>1. script[t] # <<>> /\ s.op = "add"
    BY DEF Subscribe, Does
  <1>2. s \in ValidStep /\ s.at \in Side
    BY <1>1, AtHand DEF BusInv
  <1>3. Continue(t, <<Unlock(s.at)>>) /\ Acquire(t, s.at)
    BY DEF Subscribe
  <1> QED
    BY <1>1, <1>2, <1>3, JustUnlock DEF Goes, Enters

LEMMA ReplaceEffect ==
    ASSUME BusInv, NEW t \in Thread, ReplaceChannels(t), NEW s, s = Head(script[t])
    PROVE  /\ s.op = "replace" /\ s \in ValidStep
           /\ \E r : Goes(t, r) /\ Enters(t, s.at, r) /\ ToSet(r) = {Unlock(s.at)}
  <1>1. script[t] # <<>> /\ s.op = "replace"
    BY DEF ReplaceChannels, Does
  <1>2. s \in ValidStep /\ s.at \in Side
    BY <1>1, AtHand DEF BusInv
  <1>3. Continue(t, <<Unlock(s.at)>>) /\ Acquire(t, s.at)
    BY DEF ReplaceChannels
  <1> QED
    BY <1>1, <1>2, <1>3, JustUnlock DEF Goes, Enters

\* What a step tells the other side: the owner of groups that got empty, and the
\* members of groups that were closed.
TellsEmpty(r, b, who, names) ==
    ToSet(r) = {Unlock(b)} \cup {Erase(Other(b), Bridge, {g}) :
                 g \in {n \in Emptied(b, who, names) : owner[b][n] = Bridge}}
TellsClosed(r, b, groups) ==
    ToSet(r) = {CloseGroup(Other(b), Bridge, g) : g \in {n \in groups : Bridge \in listeners[b][n]}}
Leaving(x, names) ==
    \/ x.op = "erase" /\ names = x.names
    \/ x.op = "unsubscribe_all_channels" /\ names = Name
OpenGroups(b, who, names) == {g \in names : owner[b][g] = who /\ listeners[b][g] # {}}
OwnGroups(b, who) == {n \in Name : owner[b][n] = who}

\* unsubscribe() and unsubscribe_all_channels()
LEMMA UnsubscribeEffect ==
    ASSUME BusInv, NEW t \in Thread, UnsubscribeSome(t) \/ UnsubscribeAllChannels(t),
           NEW s, s = Head(script[t])
    PROVE  /\ s \in ValidStep /\ s.at \in Side /\ s.who \in Member
           /\ \E r \in Seq(ValidStep), names \in SUBSET Name :
                /\ Leaving(s, names)
                /\ Unsubscribe(t, s.at, s.who, names)
                /\ Goes(t, r) /\ Enters(t, s.at, r)
                /\ TellsEmpty(r, s.at, s.who, names)
  <1>1. script[t] # <<>> /\ s.op \in {"erase", "unsubscribe_all_channels"}
    BY DEF UnsubscribeSome, UnsubscribeAllChannels, Does
  <1>2. s \in ValidStep /\ s \in StepType /\ s.at \in Side /\ Fits(s)
    BY <1>1, AtHand DEF BusInv
  <1>3. s.who \in Member /\ s.names \subseteq Name
    BY <1>1, <1>2 DEF Fits, StepType
  <1>4. PICK names \in SUBSET Name :
          /\ Leaving(s, names)
          /\ Unsubscribe(t, s.at, s.who, names)
    <2>1. CASE UnsubscribeSome(t)
      <3>1. Leaving(s, s.names) /\ Unsubscribe(t, s.at, s.who, s.names)
        BY <2>1 DEF UnsubscribeSome, Does, Leaving
      <3> QED
        BY <3>1, <1>3
    <2>2. CASE UnsubscribeAllChannels(t)
      <3>1. Leaving(s, Name) /\ Unsubscribe(t, s.at, s.who, Name)
        BY <2>2 DEF UnsubscribeAllChannels, Does, Leaving
      <3> QED
        BY <3>1
    <2> QED
      BY <2>1, <2>2
  <1>5. PICK gone : gone = Emptied(s.at, s.who, names)
    OBVIOUS
  <1>6. gone \in SUBSET Name
    BY <1>5 DEF Emptied
  <1>7. PICK e : e = GroupsEmpty(s.at, gone)
    OBVIOUS
  <1>8. /\ e \in Seq(ValidStep) /\ NotLocking(e)
        /\ ToSet(e) = {Erase(Other(s.at), Bridge, {g}) : g \in {n \in gone : owner[s.at][n] = Bridge}}
    BY <1>2, <1>6, <1>7, EmptyTold
  <1>9. Continue(t, e \o <<Unlock(s.at)>>) /\ Acquire(t, s.at)
    BY <1>4, <1>5, <1>7 DEF Unsubscribe
  <1>10. PICK r : r = e \o <<Unlock(s.at)>>
    OBVIOUS
  <1>11. r \in Seq(ValidStep) /\ Locking(r, s.at) /\ ToSet(r) = ToSet(e) \cup {Unlock(s.at)}
    BY <1>2, <1>8, <1>10, UnlockAround
  <1>12. Goes(t, r) /\ Enters(t, s.at, r)
    BY <1>1, <1>2, <1>9, <1>10, <1>11 DEF Goes, Enters
  <1> QED
    <2>1. TellsEmpty(r, s.at, s.who, names)
      BY <1>5, <1>8, <1>11 DEF TellsEmpty
    <2> QED
      BY <1>2, <1>3, <1>4, <1>11, <1>12, <2>1

\* A member is added to a group; a step ends with a change if groups were closed.
Admits(b, g, who, m) == owner' = [owner EXCEPT ![b][g] = who] /\ listeners' = With(b, m, {g})
Admission(b, who, m, g, r) ==
    \/ /\ owner[b][g] \in {Null, who} /\ Admits(b, g, who, m)
       /\ ToSet(r) = {Unlock(b)}
    \/ /\ owner[b][g] \in {Null, who} /\ who # Bridge /\ Admits(b, g, who, Bridge)
       /\ ToSet(r) = {Unlock(b), AddToGroup(Other(b), Bridge, g, m)}
    \/ /\ UNCHANGED <<owner, listeners>>
       /\ ToSet(r) = {Unlock(b)} \cup IF who = Bridge THEN {Erase(Other(b), Bridge, {g})} ELSE {}
Marks(b, groups) == changed' = [changed EXCEPT ![b] = @ \/ groups # {}]

\* add_to_group(): a local member, one behind the bridge, or none.
LEMMA AddMemberEffect ==
    ASSUME BusInv, NEW t \in Thread, AddMember(t), NEW s, s = Head(script[t])
    PROVE  /\ s.op = "add_to_group" /\ s \in ValidStep /\ s.at \in Side
           /\ s.who \in Member /\ s.target \in Listener
           /\ \E r \in Seq(ValidStep), g \in Group :
                /\ s.names = {g} /\ Goes(t, r) /\ Enters(t, s.at, r)
                /\ Admission(s.at, s.who, s.target, g, r)
  <1>1. script[t] # <<>> /\ s.op = "add_to_group"
    BY DEF AddMember, Does
  <1>2. s \in ValidStep /\ s.at \in Side /\ Fits(s)
    BY <1>1, AtHand DEF BusInv
  <1>3. PICK g \in Group : s.names = {g}
    BY <1>1, <1>2 DEF Fits
  <1>4. s.who \in Member /\ s.target \in Listener
    BY <1>1, <1>2 DEF Fits
  <1>5. (CHOOSE n \in s.names : TRUE) = g
    BY <1>3
  <1>6. Acquire(t, s.at)
    BY DEF AddMember
  <1>b. PICK b : b = s.at
    OBVIOUS
  <1> DEFINE local == Home[s.target] = b
             member == IF local THEN s.target ELSE Bridge
             found == IF local THEN s.target \in open ELSE s.who # Bridge
             admitted == found /\ owner[b][g] \in {Null, s.who}
  <1>7. CASE admitted
    <2>1. /\ Admits(b, g, s.who, member)
          /\ Continue(t, (IF local THEN <<>> ELSE <<AddToGroup(Other(b), Bridge, g, s.target)>>)
                         \o <<Unlock(b)>>)
      BY <1>5, <1>7, <1>b DEF AddMember, Admits
    <2>2. CASE local
      <3>1. PICK m : m = <<>>
        OBVIOUS
      <3>2. PICK r : r = m \o <<Unlock(b)>>
        OBVIOUS
      <3>3. /\ r \in Seq(ValidStep) /\ Locking(r, b) /\ ToSet(r) = {Unlock(b)}
        <4>1. m \in Seq(ValidStep) /\ NotLocking(m) /\ ToSet(m) = {}
          BY <3>1, NoSteps
        <4>2. /\ r \in Seq(ValidStep) /\ Locking(r, b) /\ ToSet(r) = ToSet(m) \cup {Unlock(b)}
          BY <1>2, <1>b, <3>2, <4>1, UnlockAround
        <4> QED
          BY <4>1, <4>2
      <3>4. Continue(t, r)
        BY <2>1, <2>2, <3>1, <3>2
      <3>5. Goes(t, r) /\ Enters(t, s.at, r)
        BY <1>1, <1>2, <1>6, <1>b, <3>3, <3>4 DEF Goes, Enters
      <3>6. owner[b][g] \in {Null, s.who} /\ Admits(b, g, s.who, s.target)
        BY <1>7, <2>1, <2>2
      <3> QED
        BY <1>1, <1>2, <1>3, <1>4, <1>b, <2>1, <3>3, <3>5, <3>6 DEF Admission
    <2>3. CASE ~local
      <3>1. PICK x : x = AddToGroup(Other(b), Bridge, g, s.target)
        OBVIOUS
      <3>2. PICK m : m = <<x>>
        OBVIOUS
      <3>3. PICK r : r = m \o <<Unlock(b)>>
        OBVIOUS
      <3>4. x \in ValidStep /\ x.op # "unlock"
        <4>1. Other(b) \in Side /\ Bridge \in Member
          BY <1>2, <1>b, Sides DEF Member
        <4> QED
          BY <3>1, <4>1, <1>4, StepsFit DEF AddToGroup, Step
      <3>5. m \in Seq(ValidStep) /\ NotLocking(m) /\ ToSet(m) = {x}
        BY <3>2, <3>4, OneStep
      <3>6. r \in Seq(ValidStep) /\ Locking(r, b) /\ ToSet(r) = {Unlock(b), x}
        <4>1. /\ r \in Seq(ValidStep) /\ Locking(r, b) /\ ToSet(r) = ToSet(m) \cup {Unlock(b)}
          BY <1>2, <1>b, <3>3, <3>5, UnlockAround
        <4> QED
          BY <3>5, <4>1
      <3>7. Continue(t, r)
        BY <2>1, <2>3, <3>1, <3>2, <3>3
      <3>8. Goes(t, r) /\ Enters(t, s.at, r)
        BY <1>1, <1>2, <1>6, <1>b, <3>6, <3>7 DEF Goes, Enters
      <3>9. owner[b][g] \in {Null, s.who} /\ s.who # Bridge /\ Admits(b, g, s.who, Bridge)
        BY <1>7, <2>1, <2>3
      <3>10. Admission(s.at, s.who, s.target, g, r)
        BY <1>b, <2>1, <3>1, <3>6, <3>9 DEF Admission
      <3> HIDE DEF local, member, found, admitted
      <3> QED
        BY <1>1, <1>2, <1>3, <1>4, <3>6, <3>8, <3>10
    <2> QED
      BY <2>2, <2>3
  <1>8. CASE ~admitted
    <2>1. /\ UNCHANGED <<owner, listeners>>
          /\ Continue(t, <<Unlock(b)>> \o IF s.who = Bridge THEN <<Erase(Other(b), Bridge, {g})>> ELSE <<>>)
      BY <1>5, <1>8, <1>b DEF AddMember
    <2>2. PICK m : m = IF s.who = Bridge THEN <<Erase(Other(b), Bridge, {g})>> ELSE <<>>
      OBVIOUS
    <2>3. /\ m \in Seq(ValidStep) /\ NotLocking(m)
          /\ ToSet(m) = IF s.who = Bridge THEN {Erase(Other(b), Bridge, {g})} ELSE {}
      <3>1. CASE s.who = Bridge
        <4>1. PICK x : x = Erase(Other(b), Bridge, {g})
          OBVIOUS
        <4>2. x \in ValidStep /\ x.op # "unlock"
          <5>1. Other(b) \in Side /\ Bridge \in Member /\ {g} \in SUBSET Name
            BY <1>2, <1>b, Sides DEF Member, Name
          <5> QED
            BY <4>1, <5>1, StepsFit DEF Erase, Step
        <4>3. m = <<x>>
          BY <2>2, <3>1, <4>1
        <4>4. m \in Seq(ValidStep) /\ NotLocking(m) /\ ToSet(m) = {x}
          BY <4>2, <4>3, OneStep
        <4> QED
          BY <3>1, <4>1, <4>4
      <3>2. CASE s.who # Bridge
        <4>1. m = <<>>
          BY <2>2, <3>2
        <4> QED
          BY <3>2, <4>1, NoSteps
      <3> QED
        BY <3>1, <3>2
    <2>4. PICK r : r = <<Unlock(b)>> \o m
      OBVIOUS
    <2>5. r \in Seq(ValidStep) /\ Locking(r, b) /\ ToSet(r) = ToSet(m) \cup {Unlock(b)}
      BY <1>2, <1>b, <2>3, <2>4, UnlockAround
    <2>6. Continue(t, r)
      BY <2>1, <2>2, <2>4
    <2>7. Goes(t, r) /\ Enters(t, s.at, r)
      BY <1>1, <1>2, <1>6, <1>b, <2>5, <2>6 DEF Goes, Enters
    <2>8. Admission(s.at, s.who, s.target, g, r) /\ r \in Seq(ValidStep)
      BY <1>b, <2>1, <2>3, <2>5 DEF Admission
    <2> HIDE DEF local, member, found, admitted
    <2> QED
      BY <1>1, <1>2, <1>3, <1>4, <2>7, <2>8
  <1> QED
    BY <1>7, <1>8
\* close_group(), without the mutex.
LEMMA CloseOneGroupEffect ==
    ASSUME BusInv, NEW t \in Thread, CloseOneGroup(t), NEW s, s = Head(script[t])
    PROVE  /\ s.op = "close_group" /\ s \in ValidStep /\ s.at \in Side /\ s.who \in Member
           /\ \E r \in Seq(ValidStep), groups \in SUBSET Group :
                /\ groups = OpenGroups(s.at, s.who, s.names)
                /\ Goes(t, r) /\ NotLocking(r) /\ UNCHANGED lockVars
                /\ Close(s.at, groups)
                /\ Marks(s.at, groups)
                /\ TellsClosed(r, s.at, groups)
  <1>1. script[t] # <<>> /\ s.op = "close_group"
    BY DEF CloseOneGroup, Does
  <1>2. s \in ValidStep /\ s.at \in Side /\ Fits(s)
    BY <1>1, AtHand DEF BusInv
  <1>3. s.who \in Member /\ s.names \subseteq Group
    BY <1>1, <1>2 DEF Fits
  <1>4. PICK groups : groups = OpenGroups(s.at, s.who, s.names)
    OBVIOUS
  <1>5. groups \in SUBSET Group /\ groups \in SUBSET Name
    BY <1>3, <1>4 DEF Name, OpenGroups
  <1>6. \A n \in groups : owner[s.at][n] # Null
    BY <1>3, <1>4, ActorsDiffer DEF Member, OpenGroups
  <1>7. PICK r : r = Closed(s.at, groups)
    OBVIOUS
  <1>8. /\ r \in Seq(ValidStep) /\ NotLocking(r)
        /\ TellsClosed(r, s.at, groups)
    BY <1>2, <1>5, <1>6, <1>7, CloseTold DEF TellsClosed
  <1>9. /\ Continue(t, r) /\ Close(s.at, groups) /\ UNCHANGED lockVars
        /\ Marks(s.at, groups)
    BY <1>4, <1>7 DEF CloseOneGroup, Marks, OpenGroups
  <1>10. Goes(t, r)
    BY <1>1, <1>8, <1>9 DEF Goes
  <1> QED
    BY <1>1, <1>2, <1>3, <1>4, <1>5, <1>8, <1>9, <1>10

\* unsubscribe_all(): the members of its groups are told first.
Leaves(t, b, who, r, first, rest, groups) ==
    /\ r \in Seq(ValidStep) /\ first \in Seq(ValidStep) /\ rest \in Seq(ValidStep)
    /\ groups \subseteq Group /\ groups = OwnGroups(b, who)
    /\ Goes(t, r) /\ Enters(t, b, r) /\ r = first \o rest
    /\ Close(b, groups)
    /\ TellsClosed(first, b, groups)
    /\ ToSet(rest) = {UnsubscribeAll(b, who), Unlock(b)}
    /\ ToSet(r) = ToSet(first) \cup ToSet(rest)

LEMMA LeaveEffect ==
    ASSUME BusInv, NEW t \in Thread, Leave(t), NEW s, s = Head(script[t])
    PROVE  /\ s.op = "leave" /\ s \in ValidStep /\ s.at \in Side /\ s.who \in Listener
           /\ \E r, first, rest, groups : Leaves(t, s.at, s.who, r, first, rest, groups)
  <1>1. script[t] # <<>> /\ s.op = "leave"
    BY DEF Leave, Does
  <1>2. s \in ValidStep /\ s.at \in Side /\ Fits(s)
    BY <1>1, AtHand DEF BusInv
  <1>3. s.who \in Listener /\ s.who \in Member
    BY <1>1, <1>2 DEF Fits, Member
  <1>4. PICK groups : groups = OwnGroups(s.at, s.who)
    OBVIOUS
  <1>5. groups \in SUBSET Name /\ \A n \in groups : owner[s.at][n] # Null
    BY <1>3, <1>4, ActorsDiffer DEF OwnGroups
  <1>6. groups \in SUBSET Group
    BY <1>2, <1>5 DEF BusInv, Owned, Name
  <1>7. PICK first : first = Closed(s.at, groups)
    OBVIOUS
  <1>8. /\ first \in Seq(ValidStep) /\ NotLocking(first)
        /\ TellsClosed(first, s.at, groups)
    BY <1>2, <1>5, <1>7, CloseTold DEF TellsClosed
  <1>9. PICK u : u = UnsubscribeAll(s.at, s.who)
    OBVIOUS
  <1>10. PICK k : k = Unlock(s.at)
    OBVIOUS
  <1>11. PICK rest : rest = <<u, k>>
    OBVIOUS
  <1>12. /\ u \in ValidStep /\ u.op = "unsubscribe_all_channels"
         /\ k \in ValidStep /\ k.op = "unlock" /\ k.at = s.at
    BY <1>2, <1>3, <1>9, <1>10, StepsFit DEF UnsubscribeAll, Unlock, Step
  <1>13. /\ rest \in Seq(ValidStep) /\ ToSet(rest) = {u, k}
    BY <1>11, <1>12, CountTwo
  <1>14. Locking(rest, s.at)
    <2>1. \A x \in Side : u \notin Unlocks(x) /\ (k \in Unlocks(x) <=> x = s.at)
      BY <1>12 DEF Unlocks, ValidStep
    <2>2. ASSUME NEW x \in Side
          PROVE  Count(rest, Unlocks(x)) = IF x = s.at THEN 1 ELSE 0
      <3> PICK S : S = Unlocks(x)
        OBVIOUS
      <3>1. Count(<<u, k>>, S) = (IF u \in S THEN 1 ELSE 0) + IF k \in S THEN 1 ELSE 0
        BY <1>12, CountTwo
      <3> QED
        BY <1>11, <2>1, <3>1
    <2> QED
      BY <2>2 DEF Locking
  <1>15. PICK r : r = first \o rest
    OBVIOUS
  <1>16. /\ r \in Seq(ValidStep) /\ ToSet(r) = ToSet(first) \cup ToSet(rest)
    BY <1>8, <1>13, <1>15, ConcatProperties, ToSetConcat
  <1>17. Locking(r, s.at)
    <2>1. ASSUME NEW x \in Side
          PROVE  Count(r, Unlocks(x)) = IF x = s.at THEN 1 ELSE 0
      <3> PICK S : S = Unlocks(x)
        OBVIOUS
      <3>1. Count(r, S) = Count(first, S) + Count(rest, S)
        BY <1>8, <1>13, <1>15, CountConcat
      <3>2. Count(first, S) = 0 /\ Count(rest, S) = IF x = s.at THEN 1 ELSE 0
        BY <1>8, <1>14 DEF Locking, NotLocking
      <3> QED
        BY <3>1, <3>2
    <2> QED
      BY <2>1 DEF Locking
  <1>18. /\ Continue(t, r) /\ Close(s.at, groups) /\ Acquire(t, s.at)
    BY <1>4, <1>7, <1>9, <1>10, <1>11, <1>15 DEF Leave, OwnGroups
  <1>19. Goes(t, r) /\ Enters(t, s.at, r)
    BY <1>1, <1>2, <1>16, <1>17, <1>18 DEF Goes, Enters
  <1>20. ToSet(rest) = {UnsubscribeAll(s.at, s.who), Unlock(s.at)}
    BY <1>9, <1>10, <1>13
  <1>21. r = first \o rest
    BY <1>15
  <1>22. groups = OwnGroups(s.at, s.who)
    BY <1>4
  <1>23. Leaves(t, s.at, s.who, r, first, rest, groups)
    BY <1>6, <1>8, <1>13, <1>16, <1>18, <1>19, <1>20, <1>21, <1>22 DEF Leaves
  <1> QED
    BY <1>1, <1>2, <1>3, <1>23

\* send_mine_channels(): the first one collects the list.
LEMMA EnterEffect ==
    ASSUME BusInv, NEW t \in Thread, Enter(t), NEW s, s = Head(script[t])
    PROVE  /\ s.op \in {"announce", "announce_all"} /\ s \in ValidStep /\ s.at \in Side
           /\ callers' = [callers EXCEPT ![s.at] =
                [all |-> @.all + 1, resets |-> @.resets + IF s.op = "announce_all" THEN 1 ELSE 0]]
           /\ UNCHANGED <<busVars, told, connected, changed, lockVars, calls>>
           /\ \E r \in Seq(ValidStep) :
                /\ Goes(t, r) /\ NotLocking(r)
                /\ \/ callers[s.at].all > 0 /\ r = <<>>
                   \/ /\ ~(callers[s.at].all > 0)
                      /\ r = <<Step(IF s.op = "announce_all" THEN "collect_all" ELSE "collect",
                                    s.at, Bridge, {})>>
  <1>1. script[t] # <<>> /\ s.op \in {"announce", "announce_all"}
    BY DEF Enter, Does
  <1>2. s \in ValidStep /\ s.at \in Side /\ Fits(s)
    BY <1>1, AtHand DEF BusInv
  <1>3. /\ callers' = [callers EXCEPT ![s.at] =
             [all |-> @.all + 1, resets |-> @.resets + IF s.op = "announce_all" THEN 1 ELSE 0]]
        /\ UNCHANGED <<busVars, told, connected, changed, lockVars, calls>>
        /\ Continue(t, IF callers[s.at].all > 0 THEN <<>>
             ELSE <<Step(IF s.op = "announce_all" THEN "collect_all" ELSE "collect", s.at, Bridge, {})>>)
    BY DEF Enter
  <1>4. PICK x : x = Step(IF s.op = "announce_all" THEN "collect_all" ELSE "collect", s.at, Bridge, {})
    OBVIOUS
  <1>5. x \in ValidStep /\ x.op # "unlock"
    BY <1>2, <1>4, StepsFit DEF Step
  <1>6. CASE callers[s.at].all > 0
    <2>1. PICK r : r = <<>>
      OBVIOUS
    <2>2. r \in Seq(ValidStep) /\ NotLocking(r)
      BY <2>1, NoSteps
    <2>3. Continue(t, r)
      BY <1>3, <1>6, <2>1
    <2> QED
      BY <1>1, <1>2, <1>3, <1>6, <2>1, <2>2, <2>3 DEF Goes
  <1>7. CASE ~(callers[s.at].all > 0)
    <2>1. PICK r : r = <<x>>
      OBVIOUS
    <2>2. r \in Seq(ValidStep) /\ NotLocking(r)
      BY <1>5, <2>1, OneStep
    <2>3. Continue(t, r)
      BY <1>3, <1>4, <1>7, <2>1
    <2>4. Goes(t, r)
      BY <1>1, <2>2, <2>3 DEF Goes
    <2>5. r = <<Step(IF s.op = "announce_all" THEN "collect_all" ELSE "collect", s.at, Bridge, {})>>
      BY <1>4, <2>1
    <2> QED
      BY <1>1, <1>2, <1>3, <1>7, <2>2, <2>4, <2>5
  <1> QED
    BY <1>6, <1>7

\* The updates from one list to another.
UpdateList(b, old, new, op) == Updates(b, old, new, op = "collect_all")

ListOfUpdates(q, b, old, new, op) ==
    LET whole == old = {} \/ op = "collect_all"
    IN /\ whole /\ new = {} => ToSet(q) = {}
       /\ whole /\ new # {} => ToSet(q) = {Replace(b, Bridge, new)}
       /\ ~whole /\ new = {} => ToSet(q) = {Replace(b, Bridge, {})}
       /\ ~whole /\ new # {} => ToSet(q) =
             (IF new \subseteq old THEN {} ELSE {Add(b, Bridge, new \ old)})
             \cup (IF old \subseteq new THEN {} ELSE {Erase(b, Bridge, old \ new)})

LEMMA UpdatesListed ==
    ASSUME NEW b \in Side, NEW old \in SUBSET Chan, NEW new \in SUBSET Chan, NEW op,
           NEW r, r = UpdateList(b, old, new, op)
    PROVE  r \in Seq(ValidStep) /\ NotLocking(r) /\ ListOfUpdates(r, b, old, new, op)
  <1>f. /\ Replace(b, Bridge, new) \in ValidStep /\ Replace(b, Bridge, new).op # "unlock"
        /\ Replace(b, Bridge, {}) \in ValidStep /\ Replace(b, Bridge, {}).op # "unlock"
        /\ Add(b, Bridge, new \ old) \in ValidStep /\ Add(b, Bridge, new \ old).op # "unlock"
        /\ Erase(b, Bridge, old \ new) \in ValidStep /\ Erase(b, Bridge, old \ new).op # "unlock"
    <2>1. Bridge \in Member /\ {} \in SUBSET Chan /\ new \ old \in SUBSET Chan
          /\ old \ new \in SUBSET Name
      BY DEF Member, Name
    <2>2. /\ Replace(b, Bridge, new) \in ValidStep /\ Replace(b, Bridge, {}) \in ValidStep
          /\ Add(b, Bridge, new \ old) \in ValidStep /\ Erase(b, Bridge, old \ new) \in ValidStep
      BY <2>1, StepsFit
    <2> QED
      BY <2>2 DEF Replace, Add, Erase, Step
  <1> PICK p : p = Replace(b, Bridge, new)
    OBVIOUS
  <1> PICK z : z = Replace(b, Bridge, {})
    OBVIOUS
  <1> PICK a : a = Add(b, Bridge, new \ old)
    OBVIOUS
  <1> PICK e : e = Erase(b, Bridge, old \ new)
    OBVIOUS
  <1>1. \A x \in {p, z, a, e} : <<x>> \in Seq(ValidStep) /\ NotLocking(<<x>>) /\ ToSet(<<x>>) = {x}
    BY <1>f, OneStep
  <1>2. <<>> \in Seq(ValidStep) /\ NotLocking(<<>>) /\ ToSet(<<>>) = {}
    BY NoSteps
  <1> DEFINE whole == old = {} \/ op = "collect_all"
  <1>4. CASE whole /\ new = {}
    <2>1. r = <<>>
      BY <1>4 DEF UpdateList, Updates
    <2> QED
      BY <1>2, <1>4, <2>1 DEF ListOfUpdates
  <1>5. CASE whole /\ new # {}
    <2>1. r = <<p>>
      BY <1>5 DEF UpdateList, Updates
    <2> QED
      BY <1>1, <1>5, <2>1 DEF ListOfUpdates
  <1>6. CASE ~whole /\ new = {}
    <2>1. r = <<z>>
      BY <1>6 DEF UpdateList, Updates
    <2> QED
      BY <1>1, <1>6, <2>1 DEF ListOfUpdates
  <1>7. CASE ~whole /\ new # {}
    <2>1. PICK u : u = IF new \subseteq old THEN <<>> ELSE <<a>>
      OBVIOUS
    <2>2. PICK v : v = IF old \subseteq new THEN <<>> ELSE <<e>>
      OBVIOUS
    <2>3. r = u \o v
      BY <1>7, <2>1, <2>2 DEF UpdateList, Updates
    <2>4. /\ u \in Seq(ValidStep) /\ NotLocking(u)
          /\ ToSet(u) = IF new \subseteq old THEN {} ELSE {a}
      BY <1>1, <1>2, <2>1
    <2>5. /\ v \in Seq(ValidStep) /\ NotLocking(v)
          /\ ToSet(v) = IF old \subseteq new THEN {} ELSE {e}
      BY <1>1, <1>2, <2>2
    <2>6. /\ u \o v \in Seq(ValidStep) /\ ToSet(u \o v) = ToSet(u) \cup ToSet(v)
          /\ NotLocking(u \o v)
      BY <2>4, <2>5, StepsConcat
    <2>7. r \in Seq(ValidStep) /\ ToSet(r) = ToSet(u) \cup ToSet(v) /\ NotLocking(r)
      BY <2>3, <2>6
    <2> QED
      BY <1>7, <2>4, <2>5, <2>7 DEF ListOfUpdates
  <1> QED
    BY <1>4, <1>5, <1>6, <1>7

LEMMA CollectEffect ==
    ASSUME BusInv, NEW t \in Thread, Collect(t), NEW s, s = Head(script[t])
    PROVE  /\ s.op \in {"collect", "collect_all"} /\ s \in ValidStep /\ s.at \in Side
           /\ mutex[s.at] \in {Null, t}
           /\ Exported(s.at) \in SUBSET Chan
           /\ UNCHANGED <<busVars, told, connected, lockVars, calls>>
           /\ \E r \in Seq(ValidStep), first \in Seq(ValidStep) :
                /\ Goes(t, r) /\ NotLocking(r)
                /\ first = UpdateList(Other(s.at), told[s.at], Exported(s.at), s.op)
                /\ r = first \o <<Step("release", s.at, Bridge, Exported(s.at))>>
                /\ ToSet(r) = ToSet(first) \cup {Step("release", s.at, Bridge, Exported(s.at))}
  <1>1. script[t] # <<>> /\ s.op \in {"collect", "collect_all"}
    BY DEF Collect, Does
  <1>2. s \in ValidStep /\ s.at \in Side /\ Fits(s)
    BY <1>1, AtHand DEF BusInv
  <1>3. PICK new : new = Exported(s.at)
    OBVIOUS
  <1>4. new \in SUBSET Chan
    BY <1>3 DEF Exported
  <1>5. PICK first : first = UpdateList(Other(s.at), told[s.at], new, s.op)
    OBVIOUS
  <1>6. first \in Seq(ValidStep) /\ NotLocking(first)
    <2>1. Other(s.at) \in Side /\ told[s.at] \in SUBSET Chan
      BY <1>2, Sides DEF BusInv, TypeOK
    <2>2. PICK b, old, op : b = Other(s.at) /\ old = told[s.at] /\ op = s.op
      OBVIOUS
    <2>3. b \in Side /\ old \in SUBSET Chan /\ first = UpdateList(b, old, new, op)
      BY <1>5, <2>1, <2>2
    <2> QED
      BY <1>4, <2>3, UpdatesListed
  <1>7. PICK x : x = Step("release", s.at, Bridge, new)
    OBVIOUS
  <1>8. x \in ValidStep /\ x.op # "unlock"
    <2>1. x \in ValidStep
      BY <1>2, <1>4, <1>7, StepsFit DEF Member
    <2> QED
      BY <1>7, <2>1, StepFields
  <1>9. PICK w : w = <<x>>
    OBVIOUS
  <1>10. w \in Seq(ValidStep) /\ NotLocking(w) /\ ToSet(w) = {x}
    BY <1>8, <1>9, OneStep
  <1>11. PICK r : r = first \o w
    OBVIOUS
  <1>12. r \in Seq(ValidStep) /\ ToSet(r) = ToSet(first) \cup {x}
    BY <1>6, <1>10, <1>11, ConcatProperties, ToSetConcat
  <1>13. NotLocking(r)
    <2>1. ASSUME NEW y \in Side
          PROVE  Count(r, Unlocks(y)) = 0
      <3> PICK S : S = Unlocks(y)
        OBVIOUS
      <3>1. Count(r, S) = Count(first, S) + Count(w, S) /\ Count(first, S) = 0 /\ Count(w, S) = 0
        BY <1>6, <1>10, <1>11, CountConcat DEF NotLocking
      <3> QED
        BY <3>1
    <2> QED
      BY <2>1 DEF NotLocking
  <1>14. /\ Continue(t, r) /\ mutex[s.at] \in {Null, t}
         /\ UNCHANGED <<busVars, told, connected, lockVars, calls>>
    BY <1>3, <1>5, <1>7, <1>9, <1>11 DEF Collect, UpdateList
  <1>15. Goes(t, r)
    BY <1>1, <1>12, <1>14 DEF Goes
  <1>16. /\ first = UpdateList(Other(s.at), told[s.at], Exported(s.at), s.op)
         /\ r = first \o <<Step("release", s.at, Bridge, Exported(s.at))>>
         /\ ToSet(r) = ToSet(first) \cup {Step("release", s.at, Bridge, Exported(s.at))}
    BY <1>3, <1>5, <1>7, <1>9, <1>11, <1>12
  <1> QED
    BY <1>1, <1>2, <1>3, <1>4, <1>6, <1>12, <1>13, <1>14, <1>15, <1>16

LEMMA ReleaseEffect ==
    ASSUME BusInv, NEW t \in Thread, Release(t), NEW s, s = Head(script[t])
    PROVE  /\ s.op = "release" /\ s \in ValidStep /\ s.at \in Side /\ s.names \in SUBSET Chan
           /\ UNCHANGED <<busVars, connected, changed, lockVars, calls>>
           /\ told' = [told EXCEPT ![s.at] = s.names]
           /\ callers' = [callers EXCEPT ![s.at] = [all |-> 0, resets |-> 0]]
           /\ \E r \in Seq(ValidStep) :
                /\ Goes(t, r) /\ NotLocking(r)
                /\ \/ ~(callers[s.at].all > 1) /\ r = <<>>
                   \/ /\ callers[s.at].all > 1
                      /\ r = <<Step(IF callers[s.at].resets > 1 THEN "announce_all" ELSE "announce",
                                    s.at, Bridge, {})>>
  <1>1. script[t] # <<>> /\ s.op = "release"
    BY DEF Release, Does
  <1>2. s \in ValidStep /\ s.at \in Side /\ Fits(s) /\ s \in StepType
    BY <1>1, AtHand DEF BusInv
  <1>3. s.names \in SUBSET Chan
    BY <1>1, <1>2 DEF Fits
  <1>4. /\ UNCHANGED <<busVars, connected, changed, lockVars, calls>>
        /\ told' = [told EXCEPT ![s.at] = s.names]
        /\ callers' = [callers EXCEPT ![s.at] = [all |-> 0, resets |-> 0]]
        /\ Continue(t, IF callers[s.at].all > 1
              THEN <<Step(IF callers[s.at].resets > 1 THEN "announce_all" ELSE "announce", s.at, Bridge, {})>>
              ELSE <<>>)
    BY DEF Release, Again, Announce
  <1>5. PICK x : x = Step(IF callers[s.at].resets > 1 THEN "announce_all" ELSE "announce", s.at, Bridge, {})
    OBVIOUS
  <1>6. x \in ValidStep /\ x.op # "unlock"
    BY <1>2, <1>5, StepsFit DEF Step
  <1>7. CASE ~(callers[s.at].all > 1)
    <2>1. PICK r : r = <<>>
      OBVIOUS
    <2>2. r \in Seq(ValidStep) /\ NotLocking(r)
      BY <2>1, NoSteps
    <2>3. Continue(t, r)
      BY <1>4, <1>7, <2>1
    <2> QED
      BY <1>1, <1>2, <1>3, <1>4, <1>7, <2>1, <2>2, <2>3 DEF Goes
  <1>8. CASE callers[s.at].all > 1
    <2>1. PICK r : r = <<x>>
      OBVIOUS
    <2>2. r \in Seq(ValidStep) /\ NotLocking(r)
      BY <1>6, <2>1, OneStep
    <2>3. Continue(t, r)
      BY <1>4, <1>5, <1>8, <2>1
    <2>4. Goes(t, r)
      BY <1>1, <2>2, <2>3 DEF Goes
    <2>5. r = <<Step(IF callers[s.at].resets > 1 THEN "announce_all" ELSE "announce", s.at, Bridge, {})>>
      BY <1>5, <2>1
    <2> QED
      BY <1>1, <1>2, <1>3, <1>4, <1>8, <2>2, <2>4, <2>5
  <1> QED
    BY <1>7, <1>8
-----------------------------------------------------------------------------
(* Who is listed after a step, and the invariant of the brokers.           *)

\* Who is listed after names lost or gained a listener, or groups were closed.
Gains(b, who, names) ==
    \A a \in Side, n \in Name : listeners'[a][n] =
        IF a = b /\ n \in names THEN listeners[a][n] \cup {who} ELSE listeners[a][n]
Loses(b, who, names) ==
    \A a \in Side, n \in Name :
        /\ listeners'[a][n] = IF a = b /\ n \in names THEN listeners[a][n] \ {who} ELSE listeners[a][n]
        /\ owner'[a][n] = IF a = b /\ n \in names /\ listeners[a][n] = {who} THEN Null ELSE owner[a][n]
Clears(b, groups) ==
    \A a \in Side, n \in Name :
        /\ listeners'[a][n] = IF a = b /\ n \in groups THEN {} ELSE listeners[a][n]
        /\ owner'[a][n] = IF a = b /\ n \in groups THEN Null ELSE owner[a][n]

LEMMA WithTyped ==
    ASSUME TypeOK, NEW b \in Side, NEW who \in Member, NEW names \in SUBSET Name,
           NEW w, w = With(b, who, names)
    PROVE  w \in [Side -> [Name -> SUBSET Member]]
  <1>1. listeners \in [Side -> [Name -> SUBSET Member]]
    BY DEF TypeOK
  <1>2. PICK f : f = [n \in Name |-> IF n \in names THEN listeners[b][n] \cup {who} ELSE listeners[b][n]]
    OBVIOUS
  <1>3. /\ f \in [Name -> SUBSET Member]
        /\ \A n \in Name : f[n] = IF n \in names THEN listeners[b][n] \cup {who} ELSE listeners[b][n]
    BY <1>1, <1>2
  <1>4. w = [listeners EXCEPT ![b] = f]
    BY <1>2 DEF With
  <1> QED
    BY <1>1, <1>3, <1>4

LEMMA WithFields ==
    ASSUME TypeOK, NEW b \in Side, NEW who \in Member, NEW names \in SUBSET Name,
           NEW w, w = With(b, who, names)
    PROVE  \A a \in Side, n \in Name :
             w[a][n] = IF a = b /\ n \in names THEN listeners[a][n] \cup {who} ELSE listeners[a][n]
  <1>1. listeners \in [Side -> [Name -> SUBSET Member]]
    BY DEF TypeOK
  <1>2. PICK f : f = [n \in Name |-> IF n \in names THEN listeners[b][n] \cup {who} ELSE listeners[b][n]]
    OBVIOUS
  <1>3. /\ f \in [Name -> SUBSET Member]
        /\ \A n \in Name : f[n] = IF n \in names THEN listeners[b][n] \cup {who} ELSE listeners[b][n]
    BY <1>1, <1>2
  <1>4. w = [listeners EXCEPT ![b] = f]
    BY <1>2 DEF With
  <1> QED
    BY <1>1, <1>3, <1>4

LEMMA WithoutTyped ==
    ASSUME TypeOK, NEW b \in Side, NEW who \in Member, NEW names \in SUBSET Name,
           NEW w, w = Without(b, who, names)
    PROVE  w \in [Side -> [Name -> SUBSET Member]]
  <1>1. listeners \in [Side -> [Name -> SUBSET Member]]
    BY DEF TypeOK
  <1>2. PICK f : f = [n \in Name |-> IF n \in names THEN listeners[b][n] \ {who} ELSE listeners[b][n]]
    OBVIOUS
  <1>3. /\ f \in [Name -> SUBSET Member]
        /\ \A n \in Name : f[n] = IF n \in names THEN listeners[b][n] \ {who} ELSE listeners[b][n]
    BY <1>1, <1>2
  <1>4. w = [listeners EXCEPT ![b] = f]
    BY <1>2 DEF Without
  <1> QED
    BY <1>1, <1>3, <1>4

LEMMA WithoutFields ==
    ASSUME TypeOK, NEW b \in Side, NEW who \in Member, NEW names \in SUBSET Name,
           NEW w, w = Without(b, who, names)
    PROVE  \A a \in Side, n \in Name :
             w[a][n] = IF a = b /\ n \in names THEN listeners[a][n] \ {who} ELSE listeners[a][n]
  <1>1. listeners \in [Side -> [Name -> SUBSET Member]]
    BY DEF TypeOK
  <1>2. PICK f : f = [n \in Name |-> IF n \in names THEN listeners[b][n] \ {who} ELSE listeners[b][n]]
    OBVIOUS
  <1>3. /\ f \in [Name -> SUBSET Member]
        /\ \A n \in Name : f[n] = IF n \in names THEN listeners[b][n] \ {who} ELSE listeners[b][n]
    BY <1>1, <1>2
  <1>4. w = [listeners EXCEPT ![b] = f]
    BY <1>2 DEF Without
  <1> QED
    BY <1>1, <1>3, <1>4

LEMMA CloseFields ==
    ASSUME BusInv, NEW b \in Side, NEW groups \in SUBSET Group, Close(b, groups)
    PROVE  /\ listeners' \in [Side -> [Name -> SUBSET Member]]
           /\ owner' \in [Side -> [Name -> Member \cup {Null}]]
           /\ Clears(b, groups)
           /\ Owned'
  <1>1. /\ listeners \in [Side -> [Name -> SUBSET Member]]
        /\ owner \in [Side -> [Name -> Member \cup {Null}]]
    BY DEF BusInv, TypeOK
  <1>2. PICK f, k : /\ f = [n \in Name |-> IF n \in groups THEN {} ELSE listeners[b][n]]
                    /\ k = [n \in Name |-> IF n \in groups THEN Null ELSE owner[b][n]]
    OBVIOUS
  <1>3. /\ f \in [Name -> SUBSET Member] /\ k \in [Name -> Member \cup {Null}]
        /\ \A n \in Name : f[n] = IF n \in groups THEN {} ELSE listeners[b][n]
        /\ \A n \in Name : k[n] = IF n \in groups THEN Null ELSE owner[b][n]
    BY <1>1, <1>2
  <1>4. listeners' = [listeners EXCEPT ![b] = f] /\ owner' = [owner EXCEPT ![b] = k]
    BY <1>2 DEF Close
  <1>5. \A a \in Side, n \in Name :
          /\ listeners'[a][n] = IF a = b /\ n \in groups THEN {} ELSE listeners[a][n]
          /\ owner'[a][n] = IF a = b /\ n \in groups THEN Null ELSE owner[a][n]
    BY <1>1, <1>3, <1>4
  <1>6. Owned'
    BY <1>5, ActorsDiffer DEF BusInv, Owned, Name, Member
  <1> QED
    BY <1>1, <1>3, <1>4, <1>5, <1>6 DEF Clears

LEMMA UnsubscribeLists ==
    ASSUME BusInv, NEW t, NEW b \in Side, NEW who \in Member, NEW names \in SUBSET Name,
           Unsubscribe(t, b, who, names)
    PROVE  Loses(b, who, names)
  <1>1. /\ listeners \in [Side -> [Name -> SUBSET Member]]
        /\ owner \in [Side -> [Name -> Member \cup {Null}]]
        /\ changed \in [Side -> BOOLEAN]
    BY DEF BusInv, TypeOK
  <1>2. PICK k : k = [n \in Name |-> IF n \in Emptied(b, who, names) THEN Null ELSE owner[b][n]]
    OBVIOUS
  <1>3. /\ k \in [Name -> Member \cup {Null}]
        /\ \A n \in Name : k[n] = IF n \in names /\ listeners[b][n] = {who} THEN Null ELSE owner[b][n]
    BY <1>1, <1>2 DEF Emptied
  <1>4. owner' = [owner EXCEPT ![b] = k] /\ listeners' = Without(b, who, names)
    BY <1>2 DEF Unsubscribe
  <1>5. /\ listeners' \in [Side -> [Name -> SUBSET Member]]
        /\ owner' \in [Side -> [Name -> Member \cup {Null}]]
        /\ \A a \in Side, n \in Name :
             /\ listeners'[a][n] = IF a = b /\ n \in names THEN listeners[a][n] \ {who} ELSE listeners[a][n]
             /\ owner'[a][n] = IF a = b /\ n \in names /\ listeners[a][n] = {who} THEN Null ELSE owner[a][n]
    <2>1. /\ owner' \in [Side -> [Name -> Member \cup {Null}]]
          /\ \A a \in Side, n \in Name :
               owner'[a][n] = IF a = b /\ n \in names /\ listeners[a][n] = {who} THEN Null ELSE owner[a][n]
      BY <1>1, <1>3, <1>4
    <2>2. TypeOK
      BY DEF BusInv
    <2>3. /\ listeners' \in [Side -> [Name -> SUBSET Member]]
          /\ \A a \in Side, n \in Name : listeners'[a][n] =
               IF a = b /\ n \in names THEN listeners[a][n] \ {who} ELSE listeners[a][n]
      <3>1. PICK w : w = Without(b, who, names)
        OBVIOUS
      <3>2. w \in [Side -> [Name -> SUBSET Member]]
        BY <2>2, <3>1, WithoutTyped
      <3>3. \A a \in Side, n \in Name : w[a][n] =
              IF a = b /\ n \in names THEN listeners[a][n] \ {who} ELSE listeners[a][n]
        BY <2>2, <3>1, WithoutFields
      <3>4. listeners' = w
        BY <1>4, <3>1
      <3> QED
        BY <3>2, <3>3, <3>4
    <2> QED
      BY <2>1, <2>3
  <1> QED
    BY <1>5 DEF Loses

LEMMA UnsubscribeFields ==
    ASSUME BusInv, NEW t, NEW b \in Side, NEW who \in Member, NEW names \in SUBSET Name,
           Unsubscribe(t, b, who, names)
    PROVE  /\ listeners' \in [Side -> [Name -> SUBSET Member]]
           /\ owner' \in [Side -> [Name -> Member \cup {Null}]]
           /\ changed' \in [Side -> BOOLEAN]
           /\ Owned'
           /\ \A a \in Side : a # b => changed'[a] = changed[a]
           /\ changed[b] => changed'[b]
           /\ Subscribed(b, who) \cap names # {} => changed'[b]
  <1>1. /\ listeners \in [Side -> [Name -> SUBSET Member]]
        /\ owner \in [Side -> [Name -> Member \cup {Null}]]
        /\ changed \in [Side -> BOOLEAN]
    BY DEF BusInv, TypeOK
  <1>2. PICK k : k = [n \in Name |-> IF n \in Emptied(b, who, names) THEN Null ELSE owner[b][n]]
    OBVIOUS
  <1>3. /\ k \in [Name -> Member \cup {Null}]
        /\ \A n \in Name : k[n] = IF n \in names /\ listeners[b][n] = {who} THEN Null ELSE owner[b][n]
    BY <1>1, <1>2 DEF Emptied
  <1>4. owner' = [owner EXCEPT ![b] = k] /\ listeners' = Without(b, who, names)
    BY <1>2 DEF Unsubscribe
  <1>5. /\ listeners' \in [Side -> [Name -> SUBSET Member]]
        /\ owner' \in [Side -> [Name -> Member \cup {Null}]]
        /\ \A a \in Side, n \in Name :
             /\ listeners'[a][n] = IF a = b /\ n \in names THEN listeners[a][n] \ {who} ELSE listeners[a][n]
             /\ owner'[a][n] = IF a = b /\ n \in names /\ listeners[a][n] = {who} THEN Null ELSE owner[a][n]
    <2>1. /\ owner' \in [Side -> [Name -> Member \cup {Null}]]
          /\ \A a \in Side, n \in Name :
               owner'[a][n] = IF a = b /\ n \in names /\ listeners[a][n] = {who} THEN Null ELSE owner[a][n]
      BY <1>1, <1>3, <1>4
    <2>2. TypeOK
      BY DEF BusInv
    <2>3. /\ listeners' \in [Side -> [Name -> SUBSET Member]]
          /\ \A a \in Side, n \in Name : listeners'[a][n] =
               IF a = b /\ n \in names THEN listeners[a][n] \ {who} ELSE listeners[a][n]
      <3>1. PICK w : w = Without(b, who, names)
        OBVIOUS
      <3>2. w \in [Side -> [Name -> SUBSET Member]]
        BY <2>2, <3>1, WithoutTyped
      <3>3. \A a \in Side, n \in Name : w[a][n] =
              IF a = b /\ n \in names THEN listeners[a][n] \ {who} ELSE listeners[a][n]
        BY <2>2, <3>1, WithoutFields
      <3>4. listeners' = w
        BY <1>4, <3>1
      <3> QED
        BY <3>2, <3>3, <3>4
    <2> QED
      BY <2>1, <2>3
  <1>6. Owned'
    <2>1. ASSUME NEW a \in Side, NEW c \in Chan
          PROVE  owner'[a][c] = Null
      <3>1. owner[a][c] = Null
        BY DEF BusInv, Owned
      <3>2. owner'[a][c] = IF a = b /\ c \in names /\ listeners[a][c] = {who} THEN Null ELSE owner[a][c]
        BY <1>5 DEF Name
      <3> QED
        BY <3>1, <3>2
    <2>2. ASSUME NEW a \in Side, NEW g \in Group
          PROVE  /\ owner'[a][g] = Null <=> listeners'[a][g] = {}
                 /\ owner'[a][g] = Bridge => Bridge \notin listeners'[a][g]
      <3>1. /\ owner[a][g] = Null <=> listeners[a][g] = {}
            /\ owner[a][g] = Bridge => Bridge \notin listeners[a][g]
        BY DEF BusInv, Owned
      <3>2. /\ listeners'[a][g] = IF a = b /\ g \in names THEN listeners[a][g] \ {who} ELSE listeners[a][g]
            /\ owner'[a][g] = IF a = b /\ g \in names /\ listeners[a][g] = {who} THEN Null ELSE owner[a][g]
        BY <1>5 DEF Name
      <3> QED
        BY <3>1, <3>2, ActorsDiffer
    <2> QED
      BY <2>1, <2>2 DEF Owned
  <1>7. changed' = [changed EXCEPT ![b] = @ \/ Subscribed(b, who) \cap names # {}]
    BY DEF Unsubscribe
  <1>8. /\ changed' \in [Side -> BOOLEAN]
        /\ \A a \in Side : a # b => changed'[a] = changed[a]
        /\ changed'[b] <=> (changed[b] \/ Subscribed(b, who) \cap names # {})
    BY <1>1, <1>7
  <1> QED
    BY <1>5, <1>6, <1>8

LEMMA BusNext ==
    ASSUME BusInv, NEW t \in Thread, ~Unlocking(Head(script[t])), NEW r, Goes(t, r),
           \/ \E b \in Side : Enters(t, b, r)
           \/ NotLocking(r) /\ UNCHANGED lockVars,
           listeners' \in [Side -> [Name -> SUBSET Member]],
           owner' \in [Side -> [Name -> Member \cup {Null}]],
           told' \in [Side -> SUBSET Chan],
           callers' \in [Side -> [all : Nat, resets : Nat]],
           connected' \in BOOLEAN,
           changed' \in [Side -> BOOLEAN],
           Owned'
    PROVE  BusInv'
  <1>1. r \in Seq(ValidStep) /\ script[t] # <<>> /\ Continue(t, r)
    BY DEF Goes
  <1>2. Locked' /\ mutex' \in [Side -> Thread \cup {Null}] /\ depth' \in [Side -> Nat]
    BY <1>1, LockTaken, LockKept DEF Enters
  <1>3. script' \in [Thread -> Seq(ValidStep)]
    BY <1>1, Continues DEF BusInv
  <1> QED
    BY <1>2, <1>3 DEF BusInv, TypeOK
LEMMA SubscribeFields ==
    ASSUME BusInv, NEW t \in Thread, Subscribe(t), NEW s, s = Head(script[t])
    PROVE  /\ UNCHANGED <<owner, told, callers, connected>>
           /\ changed' = [changed EXCEPT ![s.at] = TRUE]
           /\ s.names \subseteq Chan /\ s.who \in Member
           /\ Gains(s.at, s.who, s.names)
           /\ BusInv'
  <1> PICK r : Goes(t, r) /\ Enters(t, s.at, r) /\ s.op = "add" /\ s \in ValidStep
    BY SubscribeEffect
  <1>1. Fits(s) /\ s.at \in Side
    BY DEF ValidStep, StepType
  <1>2. s.names \subseteq Chan /\ s.who \in Member /\ s.names \in SUBSET Name
    BY <1>1 DEF Fits, Name
  <1>3. TypeOK /\ Owned
    BY DEF BusInv
  <1>4. PICK w : w = With(s.at, s.who, s.names)
    OBVIOUS
  <1>5. PICK b, who, names : b = s.at /\ who = s.who /\ names = s.names
    OBVIOUS
  <1>6. b \in Side /\ who \in Member /\ names \in SUBSET Name /\ w = With(b, who, names)
    BY <1>1, <1>2, <1>4, <1>5
  <1>7. w \in [Side -> [Name -> SUBSET Member]]
    BY <1>3, <1>6, WithTyped
  <1>8. \A a \in Side, n \in Name :
          w[a][n] = IF a = b /\ n \in names THEN listeners[a][n] \cup {who} ELSE listeners[a][n]
    BY <1>3, <1>6, WithFields
  <1>9. /\ listeners' = w /\ changed' = [changed EXCEPT ![s.at] = TRUE]
        /\ UNCHANGED <<owner, told, callers, connected>>
    BY <1>4 DEF Subscribe, bridgeVars
  <1>10. Owned'
    <2>1. \A a \in Side, g \in Group : listeners'[a][g] = listeners[a][g]
      BY <1>2, <1>5, <1>8, <1>9, NamesDiffer DEF Name
    <2> QED
      BY <1>3, <1>9, <2>1 DEF Owned
  <1>11. BusInv'
    <2>1. /\ owner' \in [Side -> [Name -> Member \cup {Null}]] /\ told' \in [Side -> SUBSET Chan]
          /\ callers' \in [Side -> [all : Nat, resets : Nat]] /\ connected' \in BOOLEAN
      BY <1>3, <1>9 DEF TypeOK
    <2>2. changed' \in [Side -> BOOLEAN]
      BY <1>1, <1>3, <1>9 DEF TypeOK
    <2>3. ~Unlocking(Head(script[t])) /\ listeners' \in [Side -> [Name -> SUBSET Member]]
      BY <1>7, <1>9 DEF Unlocking
    <2> QED
      BY <1>1, <1>10, <2>1, <2>2, <2>3, BusNext
  <1> QED
    BY <1>2, <1>5, <1>8, <1>9, <1>11 DEF Gains

\* The channels that the bridge subscribes at broker b are replaced.
Replaces(b, names) ==
    \A a \in Side, c \in Chan :
        listeners'[a][c] = IF a # b THEN listeners[a][c]
                           ELSE IF c \in names THEN listeners[a][c] \cup {Bridge}
                           ELSE listeners[a][c] \ {Bridge}

LEMMA ReplaceFields ==
    ASSUME BusInv, NEW t \in Thread, ReplaceChannels(t), NEW s, s = Head(script[t])
    PROVE  /\ UNCHANGED <<owner, told, callers, connected>>
           /\ \A a \in Side : a # s.at => changed'[a] = changed[a]
           /\ s.names \subseteq Chan /\ s.who = Bridge
           /\ \A a \in Side, g \in Group : listeners'[a][g] = listeners[a][g]
           /\ Replaces(s.at, s.names)
           /\ changed[s.at] => changed'[s.at]
           /\ BusInv'
  <1> PICK r : Goes(t, r) /\ Enters(t, s.at, r) /\ s.op = "replace" /\ s \in ValidStep
    BY ReplaceEffect
  <1>1. Fits(s) /\ s.at \in Side
    BY DEF ValidStep, StepType
  <1>2. s.names \subseteq Chan /\ s.who = Bridge
    BY <1>1 DEF Fits
  <1>3. TypeOK /\ Owned
    BY DEF BusInv
  <1>4. PICK b, names : b = s.at /\ names = s.names
    OBVIOUS
  <1>5. PICK old : old = {c \in Subscribed(b, Bridge) : owner[b][c] = Null}
    OBVIOUS
  <1>6. old = {c \in Chan : Bridge \in listeners[b][c]}
    BY <1>1, <1>3, <1>4, <1>5 DEF Subscribed, Owned, Name
  <1>o. old \in SUBSET Name
    BY <1>6 DEF Name
  <1>7. PICK w : w = Without(b, Bridge, old)
    OBVIOUS
  <1>8. b \in Side /\ Bridge \in Member
    BY <1>1, <1>4 DEF Member
  <1>9. w \in [Side -> [Name -> SUBSET Member]]
    BY <1>3, <1>o, <1>7, <1>8, WithoutTyped
  <1>10. \A a \in Side, n \in Name :
           w[a][n] = IF a = b /\ n \in old THEN listeners[a][n] \ {Bridge} ELSE listeners[a][n]
    <2>1. PICK who : who = Bridge
      OBVIOUS
    <2>2. who \in Member /\ w = Without(b, who, old)
      BY <1>7, <1>8, <2>1
    <2>3. \A a \in Side, n \in Name :
            w[a][n] = IF a = b /\ n \in old THEN listeners[a][n] \ {who} ELSE listeners[a][n]
      BY <1>3, <1>o, <1>8, <2>2, WithoutFields
    <2> QED
      BY <2>1, <2>3
  <1>11. PICK f : f = [n \in Name |-> IF n \in names THEN w[b][n] \cup {Bridge} ELSE w[b][n]]
    OBVIOUS
  <1>12. /\ listeners' = [w EXCEPT ![b] = f]
         /\ changed' = [changed EXCEPT ![b] = @ \/ old # {} \/ names # {}]
         /\ UNCHANGED <<owner, told, callers, connected>>
    BY <1>2, <1>4, <1>5, <1>7, <1>11 DEF ReplaceChannels, bridgeVars
  <1>13. /\ listeners' \in [Side -> [Name -> SUBSET Member]]
         /\ \A a \in Side, n \in Name : listeners'[a][n] =
              IF a = b /\ n \in names THEN w[a][n] \cup {Bridge} ELSE w[a][n]
    <2>1. /\ f \in [Name -> SUBSET Member]
          /\ \A n \in Name : f[n] = IF n \in names THEN w[b][n] \cup {Bridge} ELSE w[b][n]
      BY <1>8, <1>9, <1>11
    <2> QED
      BY <1>8, <1>9, <1>12, <2>1
  <1>14. \A a \in Side, g \in Group : listeners'[a][g] = listeners[a][g]
    <2>1. \A g \in Group : g \in Name /\ g \notin names /\ g \notin old
      BY <1>2, <1>4, <1>6, NamesDiffer DEF Name
    <2> QED
      BY <2>1, <1>10, <1>13
  <1>15. Replaces(b, names)
    <2>0. SUFFICES ASSUME NEW a \in Side, NEW c \in Chan
                   PROVE  listeners'[a][c] =
                            IF a # b THEN listeners[a][c]
                            ELSE IF c \in names THEN listeners[a][c] \cup {Bridge}
                            ELSE listeners[a][c] \ {Bridge}
      BY DEF Replaces
    <2>1. c \in Name /\ (c \in old <=> Bridge \in listeners[b][c])
      BY <1>6 DEF Name
    <2>2. /\ w[a][c] = IF a = b /\ c \in old THEN listeners[a][c] \ {Bridge} ELSE listeners[a][c]
          /\ listeners'[a][c] = IF a = b /\ c \in names THEN w[a][c] \cup {Bridge} ELSE w[a][c]
      BY <1>10, <1>13, <2>1
    <2> QED
      BY <2>1, <2>2
  <1>16. Owned'
    BY <1>3, <1>12, <1>14 DEF Owned
  <1>17. changed \in [Side -> BOOLEAN]
    BY <1>3 DEF TypeOK
  <1>18. /\ changed' \in [Side -> BOOLEAN] /\ \A a \in Side : a # b => changed'[a] = changed[a]
         /\ changed[b] => changed'[b]
    BY <1>8, <1>12, <1>17
  <1>19. BusInv'
    <2>1. /\ owner' \in [Side -> [Name -> Member \cup {Null}]] /\ told' \in [Side -> SUBSET Chan]
          /\ callers' \in [Side -> [all : Nat, resets : Nat]] /\ connected' \in BOOLEAN
      BY <1>3, <1>12 DEF TypeOK
    <2>2. ~Unlocking(Head(script[t]))
      BY DEF Unlocking
    <2> QED
      BY <1>1, <1>13, <1>16, <1>18, <2>1, <2>2, BusNext
  <1> QED
    BY <1>2, <1>4, <1>12, <1>14, <1>15, <1>18, <1>19
\* A member that joins a group.
OthersSame(b, g) ==
    \A a \in Side, n \in Name : ~(a = b /\ n = g) =>
        listeners'[a][n] = listeners[a][n] /\ owner'[a][n] = owner[a][n]

LEMMA JoinedFields ==
    ASSUME BusInv, NEW b \in Side, NEW g \in Group, NEW who \in Member, NEW m \in Member,
           owner[b][g] \in {Null, who}, ~(who = Bridge /\ m = Bridge),
           Admits(b, g, who, m)
    PROVE  /\ listeners' \in [Side -> [Name -> SUBSET Member]]
           /\ owner' \in [Side -> [Name -> Member \cup {Null}]]
           /\ OthersSame(b, g)
           /\ listeners'[b][g] = listeners[b][g] \cup {m} /\ owner'[b][g] = who
           /\ Owned'
  <1>1. TypeOK /\ Owned /\ g \in Name /\ {g} \in SUBSET Name
    BY DEF BusInv, Name
  <1>t. TypeOK
    BY DEF BusInv
  <1>0. owner' = [owner EXCEPT ![b][g] = who] /\ listeners' = With(b, m, {g})
    BY DEF Admits
  <1>2. PICK w, names : w = listeners' /\ names = {g}
    OBVIOUS
  <1>3. names \in SUBSET Name /\ w = With(b, m, names)
    BY <1>0, <1>1, <1>2
  <1>4. w \in [Side -> [Name -> SUBSET Member]]
    BY <1>t, <1>3, WithTyped
  <1>5. \A a \in Side, n \in Name :
          w[a][n] = IF a = b /\ n \in names THEN listeners[a][n] \cup {m} ELSE listeners[a][n]
    <2>1. PICK p : p = m
      OBVIOUS
    <2>2. p \in Member /\ w = With(b, p, names) /\ names \in SUBSET Name
      BY <1>3, <2>1
    <2>3. \A a \in Side, n \in Name :
            w[a][n] = IF a = b /\ n \in names THEN listeners[a][n] \cup {p} ELSE listeners[a][n]
      BY <1>t, <2>2, WithFields
    <2> QED
      BY <2>1, <2>3
  <1>6. /\ \A a \in Side, n \in Name : a # b \/ n # g => w[a][n] = listeners[a][n]
        /\ w[b][g] = listeners[b][g] \cup {m}
    BY <1>1, <1>2, <1>5
  <1>7. /\ owner' \in [Side -> [Name -> Member \cup {Null}]]
        /\ \A a \in Side, n \in Name : a # b \/ n # g => owner'[a][n] = owner[a][n]
        /\ owner'[b][g] = who
    BY <1>0, <1>1 DEF TypeOK
  <1>8. Owned'
    <2>1. \A a \in Side, c \in Chan : owner'[a][c] = Null
      <3>1. \A c \in Chan : c \in Name /\ c # g
        BY NamesDiffer DEF Name
      <3> QED
        BY <1>1, <1>7, <3>1 DEF Owned
    <2>2. ASSUME NEW a \in Side, NEW n \in Group
          PROVE  /\ owner'[a][n] = Null <=> listeners'[a][n] = {}
                 /\ owner'[a][n] = Bridge => Bridge \notin listeners'[a][n]
      <3>1. /\ owner[a][n] = Null <=> listeners[a][n] = {}
            /\ owner[a][n] = Bridge => Bridge \notin listeners[a][n]
            /\ n \in Name
        BY <1>1 DEF Owned, Name
      <3>2. CASE a # b \/ n # g
        BY <3>1, <3>2, <1>2, <1>6, <1>7
      <3>3. CASE a = b /\ n = g
        <4>1. owner'[a][n] = who /\ listeners'[a][n] = listeners[a][n] \cup {m} /\ who # Null
          BY <3>3, <1>2, <1>6, <1>7, ActorsDiffer DEF Member
        <4>2. who = Bridge => Bridge \notin listeners[a][n] /\ m # Bridge
          BY <3>1, <3>3
        <4> QED
          BY <4>1, <4>2
      <3> QED
        BY <3>2, <3>3
    <2> QED
      BY <2>1, <2>2 DEF Owned
  <1> QED
    BY <1>2, <1>4, <1>6, <1>7, <1>8 DEF OthersSame

Joins(b, who, m, g, r) ==
    \/ /\ owner[b][g] \in {Null, who} /\ owner'[b][g] = who
       /\ listeners'[b][g] = listeners[b][g] \cup {m}
       /\ ToSet(r) = {Unlock(b)}
    \/ /\ owner[b][g] \in {Null, who} /\ who # Bridge /\ owner'[b][g] = who
       /\ listeners'[b][g] = listeners[b][g] \cup {Bridge}
       /\ ToSet(r) = {Unlock(b), AddToGroup(Other(b), Bridge, g, m)}
    \/ /\ UNCHANGED <<owner, listeners>>
       /\ ToSet(r) = {Unlock(b)} \cup IF who = Bridge THEN {Erase(Other(b), Bridge, {g})} ELSE {}

LEMMA AddMemberFields ==
    ASSUME BusInv, NEW t \in Thread, AddMember(t), NEW s, s = Head(script[t])
    PROVE  /\ UNCHANGED <<told, callers, connected, changed>>
           /\ s.op = "add_to_group" /\ s.at \in Side /\ s.who \in Member /\ s.target \in Listener
           /\ BusInv'
           /\ \E r \in Seq(ValidStep), g \in Group :
                /\ s.names = {g} /\ Goes(t, r) /\ Enters(t, s.at, r)
                /\ OthersSame(s.at, g) /\ Joins(s.at, s.who, s.target, g, r)
  <1>1. /\ s.op = "add_to_group" /\ s \in ValidStep /\ s.at \in Side
        /\ s.who \in Member /\ s.target \in Listener
    BY AddMemberEffect
  <1>2. PICK r \in Seq(ValidStep), g \in Group :
                /\ s.names = {g} /\ Goes(t, r) /\ Enters(t, s.at, r)
                /\ Admission(s.at, s.who, s.target, g, r)
    BY AddMemberEffect
  <1>3. TypeOK /\ Owned /\ g \in Name
    BY DEF BusInv, Name
  <1>4. UNCHANGED <<told, callers, connected, changed>>
    BY DEF AddMember, bridgeVars
  <1>5. /\ told' \in [Side -> SUBSET Chan] /\ callers' \in [Side -> [all : Nat, resets : Nat]]
        /\ connected' \in BOOLEAN /\ changed' \in [Side -> BOOLEAN] /\ ~Unlocking(Head(script[t]))
    BY <1>1, <1>3, <1>4 DEF TypeOK, Unlocking
  <1>6. PICK b, who, m : b = s.at /\ who = s.who /\ m = s.target
    OBVIOUS
  <1>7. ASSUME NEW x \in Member, owner[b][g] \in {Null, who}, ~(who = Bridge /\ x = Bridge),
               Admits(b, g, who, x)
        PROVE  /\ BusInv' /\ OthersSame(b, g)
               /\ listeners'[b][g] = listeners[b][g] \cup {x} /\ owner'[b][g] = who
    <2>1. b \in Side /\ who \in Member
      BY <1>1, <1>6
    <2>2. /\ listeners' \in [Side -> [Name -> SUBSET Member]]
          /\ owner' \in [Side -> [Name -> Member \cup {Null}]] /\ Owned'
      BY <2>1, <1>7, JoinedFields
    <2>3. /\ OthersSame(b, g)
          /\ listeners'[b][g] = listeners[b][g] \cup {x} /\ owner'[b][g] = who
      BY <2>1, <1>7, JoinedFields
    <2>4. BusInv'
      BY <2>2, <1>2, <1>5, <1>1, BusNext
    <2> QED
      BY <2>3, <2>4
  <1>8. BusInv' /\ OthersSame(b, g) /\ Joins(b, who, m, g, r)
    <2>1. CASE /\ owner[b][g] \in {Null, who} /\ Admits(b, g, who, m)
               /\ ToSet(r) = {Unlock(b)}
      <3>1. m \in Member /\ ~(who = Bridge /\ m = Bridge)
        BY <1>1, <1>6, ActorsDiffer DEF Member
      <3>2. /\ BusInv' /\ OthersSame(b, g)
            /\ listeners'[b][g] = listeners[b][g] \cup {m} /\ owner'[b][g] = who
        BY <3>1, <1>7, <2>1
      <3> QED
        BY <2>1, <3>2 DEF Joins
    <2>2. CASE /\ owner[b][g] \in {Null, who} /\ who # Bridge /\ Admits(b, g, who, Bridge)
               /\ ToSet(r) = {Unlock(b), AddToGroup(Other(b), Bridge, g, m)}
      <3>1. PICK x : x = Bridge
        OBVIOUS
      <3>2. x \in Member /\ ~(who = Bridge /\ x = Bridge)
        BY <2>2, <3>1 DEF Member
      <3>3. /\ BusInv' /\ OthersSame(b, g)
            /\ listeners'[b][g] = listeners[b][g] \cup {x} /\ owner'[b][g] = who
        BY <3>1, <3>2, <1>7, <2>2
      <3> QED
        BY <2>2, <3>1, <3>3 DEF Joins
    <2>3. CASE /\ UNCHANGED <<owner, listeners>>
               /\ ToSet(r) = {Unlock(b)} \cup IF who = Bridge THEN {Erase(Other(b), Bridge, {g})} ELSE {}
      <3>1. /\ listeners' \in [Side -> [Name -> SUBSET Member]]
            /\ owner' \in [Side -> [Name -> Member \cup {Null}]] /\ Owned'
        BY <1>3, <2>3 DEF TypeOK, Owned
      <3>2. BusInv'
        BY <3>1, <1>2, <1>5, <1>1, BusNext
      <3>3. OthersSame(b, g)
        BY <2>3 DEF OthersSame
      <3> QED
        BY <2>3, <3>2, <3>3 DEF Joins
    <2> QED
      BY <1>2, <1>6, <2>1, <2>2, <2>3 DEF Admission
  <1> QED
    BY <1>1, <1>2, <1>4, <1>6, <1>8

LEMMA UnsubscribeKeeps ==
    ASSUME BusInv, NEW t \in Thread, UnsubscribeSome(t) \/ UnsubscribeAllChannels(t)
    PROVE  BusInv' /\ UNCHANGED <<told, callers, connected>>
  <1>1. PICK s : s = Head(script[t])
    OBVIOUS
  <1>2. s.at \in Side /\ s.who \in Member
    BY <1>1, UnsubscribeEffect
  <1>3. PICK r \in Seq(ValidStep), names \in SUBSET Name :
          /\ Leaving(s, names)
          /\ Unsubscribe(t, s.at, s.who, names) /\ Goes(t, r) /\ Enters(t, s.at, r)
    BY <1>1, UnsubscribeEffect
  <1>4. /\ listeners' \in [Side -> [Name -> SUBSET Member]]
        /\ owner' \in [Side -> [Name -> Member \cup {Null}]]
        /\ changed' \in [Side -> BOOLEAN] /\ Owned'
    BY <1>2, <1>3, UnsubscribeFields
  <1>5. UNCHANGED <<told, callers, connected>>
    BY <1>3 DEF Unsubscribe, bridgeVars
  <1>6. /\ told' \in [Side -> SUBSET Chan] /\ callers' \in [Side -> [all : Nat, resets : Nat]]
        /\ connected' \in BOOLEAN /\ ~Unlocking(Head(script[t]))
    BY <1>1, <1>3, <1>5 DEF BusInv, TypeOK, Unlocking, Leaving
  <1> QED
    BY <1>2, <1>3, <1>4, <1>5, <1>6, BusNext

LEMMA CloseOneGroupKeeps ==
    ASSUME BusInv, NEW t \in Thread, CloseOneGroup(t)
    PROVE  BusInv' /\ UNCHANGED <<told, callers, connected>>
  <1>1. PICK s : s = Head(script[t])
    OBVIOUS
  <1>2. s.at \in Side /\ s.op = "close_group"
    BY <1>1, CloseOneGroupEffect
  <1>3. PICK r \in Seq(ValidStep), groups \in SUBSET Group :
          /\ Goes(t, r) /\ NotLocking(r) /\ UNCHANGED lockVars /\ Close(s.at, groups)
          /\ Marks(s.at, groups)
    BY <1>1, CloseOneGroupEffect
  <1>4. /\ listeners' \in [Side -> [Name -> SUBSET Member]]
        /\ owner' \in [Side -> [Name -> Member \cup {Null}]] /\ Owned'
    BY <1>2, <1>3, CloseFields
  <1>5. UNCHANGED <<told, callers, connected>>
    BY DEF CloseOneGroup, bridgeVars
  <1>6. changed' \in [Side -> BOOLEAN]
    BY <1>2, <1>3 DEF BusInv, TypeOK, Marks
  <1>7. /\ told' \in [Side -> SUBSET Chan] /\ callers' \in [Side -> [all : Nat, resets : Nat]]
        /\ connected' \in BOOLEAN /\ ~Unlocking(Head(script[t]))
    BY <1>1, <1>2, <1>5 DEF BusInv, TypeOK, Unlocking
  <1> QED
    BY <1>3, <1>4, <1>5, <1>6, <1>7, BusNext

LEMMA LeaveKeeps ==
    ASSUME BusInv, NEW t \in Thread, Leave(t)
    PROVE  BusInv' /\ UNCHANGED <<told, callers, connected, changed>>
  <1>1. PICK s : s = Head(script[t])
    OBVIOUS
  <1>2. s.at \in Side /\ s.op = "leave"
    BY <1>1, LeaveEffect
  <1>l. PICK r, first, rest, groups : Leaves(t, s.at, s.who, r, first, rest, groups)
    BY <1>1, LeaveEffect
  <1>3. groups \in SUBSET Group /\ Goes(t, r) /\ Enters(t, s.at, r) /\ Close(s.at, groups)
    BY <1>l DEF Leaves
  <1>4. /\ listeners' \in [Side -> [Name -> SUBSET Member]]
        /\ owner' \in [Side -> [Name -> Member \cup {Null}]] /\ Owned'
    BY <1>2, <1>3, CloseFields
  <1>5. UNCHANGED <<told, callers, connected, changed>>
    BY DEF Leave, bridgeVars
  <1>6. /\ told' \in [Side -> SUBSET Chan] /\ callers' \in [Side -> [all : Nat, resets : Nat]]
        /\ connected' \in BOOLEAN /\ changed' \in [Side -> BOOLEAN] /\ ~Unlocking(Head(script[t]))
    BY <1>1, <1>2, <1>5 DEF BusInv, TypeOK, Unlocking
  <1> QED
    BY <1>2, <1>3, <1>4, <1>5, <1>6, BusNext
LEMMA EnterKeeps ==
    ASSUME BusInv, NEW t \in Thread, Enter(t)
    PROVE  BusInv'
  <1>1. PICK s : s = Head(script[t])
    OBVIOUS
  <1>2. /\ s.op \in {"announce", "announce_all"} /\ s.at \in Side
        /\ callers' = [callers EXCEPT ![s.at] =
             [all |-> @.all + 1, resets |-> @.resets + IF s.op = "announce_all" THEN 1 ELSE 0]]
        /\ UNCHANGED <<busVars, told, connected, changed, lockVars, calls>>
    BY <1>1, EnterEffect
  <1>3. PICK r \in Seq(ValidStep) : Goes(t, r) /\ NotLocking(r)
    BY <1>1, EnterEffect
  <1>4. TypeOK /\ Owned
    BY DEF BusInv
  <1>5. callers' \in [Side -> [all : Nat, resets : Nat]]
    <2>1. callers[s.at].all \in Nat /\ callers[s.at].resets \in Nat
      BY <1>2, <1>4 DEF TypeOK
    <2>2. PICK x : x = [all |-> callers[s.at].all + 1,
                        resets |-> callers[s.at].resets + IF s.op = "announce_all" THEN 1 ELSE 0]
      OBVIOUS
    <2>3. x \in [all : Nat, resets : Nat]
      BY <2>1, <2>2
    <2>4. callers' = [callers EXCEPT ![s.at] = x]
      BY <1>2, <2>2
    <2> QED
      BY <1>2, <1>4, <2>3, <2>4 DEF TypeOK
  <1>6. /\ told' \in [Side -> SUBSET Chan] /\ connected' \in BOOLEAN /\ changed' \in [Side -> BOOLEAN]
        /\ listeners' \in [Side -> [Name -> SUBSET Member]]
        /\ owner' \in [Side -> [Name -> Member \cup {Null}]] /\ Owned'
        /\ UNCHANGED lockVars /\ ~Unlocking(Head(script[t]))
    BY <1>1, <1>2, <1>4 DEF TypeOK, Owned, Unlocking, busVars
  <1> QED
    BY <1>3, <1>5, <1>6, BusNext

LEMMA CollectKeeps ==
    ASSUME BusInv, NEW t \in Thread, Collect(t)
    PROVE  BusInv'
  <1>1. PICK s : s = Head(script[t])
    OBVIOUS
  <1>2. /\ s.op \in {"collect", "collect_all"} /\ s.at \in Side
        /\ UNCHANGED <<busVars, told, connected, lockVars, calls>>
    BY <1>1, CollectEffect
  <1>3. PICK r \in Seq(ValidStep) : Goes(t, r) /\ NotLocking(r)
    BY <1>1, CollectEffect
  <1>4. TypeOK /\ Owned
    BY DEF BusInv
  <1>5. PICK pending : pending \in BOOLEAN /\ (pending <=> depth[s.at] = 0 /\ changed[s.at])
    OBVIOUS
  <1>6. /\ changed' = [changed EXCEPT ![s.at] = @ /\ ~pending]
        /\ callers' = [callers EXCEPT ![s.at].all = @ + IF pending THEN 1 ELSE 0]
    BY <1>1, <1>5 DEF Collect
  <1>7. callers' \in [Side -> [all : Nat, resets : Nat]] /\ changed' \in [Side -> BOOLEAN]
    <2>1. /\ callers \in [Side -> [all : Nat, resets : Nat]] /\ changed \in [Side -> BOOLEAN]
          /\ callers[s.at] \in [all : Nat, resets : Nat]
      BY <1>2, <1>4 DEF TypeOK
    <2>2. PICK x : x = [callers[s.at] EXCEPT !.all = @ + IF pending THEN 1 ELSE 0]
      OBVIOUS
    <2>3. x \in [all : Nat, resets : Nat]
      <3>1. PICK k, c : k = (IF pending THEN 1 ELSE 0) /\ c = callers[s.at]
        OBVIOUS
      <3>2. k \in Nat /\ c \in [all : Nat, resets : Nat]
        BY <2>1, <3>1
      <3>3. x = [c EXCEPT !.all = @ + k]
        BY <2>2, <3>1
      <3> QED
        BY <3>2, <3>3
    <2>4. callers' = [callers EXCEPT ![s.at] = x]
      BY <1>6, <2>2
    <2>5. callers' \in [Side -> [all : Nat, resets : Nat]]
      BY <2>1, <2>3, <2>4
    <2>6. changed' \in [Side -> BOOLEAN]
      BY <1>2, <1>6, <2>1
    <2> QED
      BY <2>5, <2>6
  <1>8. /\ told' \in [Side -> SUBSET Chan] /\ connected' \in BOOLEAN
        /\ listeners' \in [Side -> [Name -> SUBSET Member]]
        /\ owner' \in [Side -> [Name -> Member \cup {Null}]] /\ Owned'
        /\ UNCHANGED lockVars /\ ~Unlocking(Head(script[t]))
    BY <1>1, <1>2, <1>4 DEF TypeOK, Owned, Unlocking, busVars
  <1> QED
    BY <1>3, <1>7, <1>8, BusNext

LEMMA ReleaseKeeps ==
    ASSUME BusInv, NEW t \in Thread, Release(t)
    PROVE  BusInv'
  <1>1. PICK s : s = Head(script[t])
    OBVIOUS
  <1>2. /\ s.op = "release" /\ s.at \in Side /\ s.names \in SUBSET Chan
        /\ UNCHANGED <<busVars, connected, changed, lockVars, calls>>
        /\ told' = [told EXCEPT ![s.at] = s.names]
        /\ callers' = [callers EXCEPT ![s.at] = [all |-> 0, resets |-> 0]]
    BY <1>1, ReleaseEffect
  <1>3. PICK r \in Seq(ValidStep) : Goes(t, r) /\ NotLocking(r)
    BY <1>1, ReleaseEffect
  <1>4. TypeOK /\ Owned
    BY DEF BusInv
  <1>5. told' \in [Side -> SUBSET Chan] /\ callers' \in [Side -> [all : Nat, resets : Nat]]
    BY <1>2, <1>4 DEF TypeOK
  <1>6. /\ connected' \in BOOLEAN /\ changed' \in [Side -> BOOLEAN]
        /\ listeners' \in [Side -> [Name -> SUBSET Member]]
        /\ owner' \in [Side -> [Name -> Member \cup {Null}]] /\ Owned'
        /\ UNCHANGED lockVars /\ ~Unlocking(Head(script[t]))
    BY <1>1, <1>2, <1>4 DEF TypeOK, Owned, Unlocking, busVars
  <1> QED
    BY <1>3, <1>5, <1>6, BusNext

LEMMA UnlockBusKeeps ==
    ASSUME BusInv, NEW t \in Thread, UnlockBus(t)
    PROVE  BusInv'
  <1>1. Locked' /\ TypeOK'
    BY UnlockBusLocks
  <1>2. Owned'
    BY DEF UnlockBus, busVars, BusInv, Owned
  <1> QED
    BY <1>1, <1>2 DEF BusInv

\* A call of the program is one step of an idle thread, by a listener at its broker.
LEMMA CallEffect ==
    ASSUME BusInv, NEW t \in Thread, Call(t)
    PROVE  /\ Idle(t) /\ UNCHANGED <<busVars, bridgeVars, changed, lockVars>>
           /\ \E x \in ValidStep :
                /\ script' = [script EXCEPT ![t] = <<x>>]
                /\ x.op \in {"add", "erase", "leave", "add_to_group", "close_group"}
                /\ x.op = "close_group" => "close_group" \in Calls
                /\ x.who \in Usable /\ x.who \in Listener /\ x.at = Home[x.who]
  <1>1. Idle(t) /\ UNCHANGED <<busVars, bridgeVars, changed, lockVars>>
    BY DEF Call
  <1>2. PICK l \in Usable, f \in Calls : \E p \in Programs(l)[f] : script' = [script EXCEPT ![t] = p]
    BY DEF Call
  <1>3. PICK p \in Programs(l)[f] : script' = [script EXCEPT ![t] = p]
    BY <1>2
  <1>4. l \in Listener /\ l \in Member
    BY EarlyIsListeners DEF Usable, Member
  <1>5. PICK b : b = Home[l]
    OBVIOUS
  <1>6. b \in Side
    BY <1>4, <1>5, HomesTyped
  <1>7. /\ Programs(l).subscribe = {<<Add(b, l, {c})>> : c \in Chan}
        /\ Programs(l).unsubscribe = {<<Erase(b, l, {n})>> : n \in Subscribed(b, l)}
        /\ Programs(l).unsubscribe_all = {<<Step("leave", b, l, {})>>}
        /\ Programs(l).add_to_group = {<<AddToGroup(b, l, g, m)>> : g \in Group, m \in Listener}
        /\ Programs(l).close_group = {<<CloseGroup(b, l, g)>> : g \in Group}
    BY <1>5 DEF Programs
  <1>8. CASE f = "subscribe"
    <2>1. PICK c \in Chan : p = <<Add(b, l, {c})>>
      BY <1>3, <1>7, <1>8
    <2>2. PICK x : x = Add(b, l, {c})
      OBVIOUS
    <2>3. {c} \in SUBSET Chan
      OBVIOUS
    <2>4. x \in ValidStep
      BY <1>4, <1>6, <2>2, <2>3, StepsFit
    <2>5. x.op = "add" /\ x.who = l /\ x.at = b
      BY <2>2 DEF Add, Step
    <2> QED
      BY <1>1, <1>3, <1>4, <1>5, <2>1, <2>2, <2>4, <2>5
  <1>9. CASE f = "unsubscribe"
    <2>1. PICK n \in Subscribed(b, l) : p = <<Erase(b, l, {n})>>
      BY <1>3, <1>7, <1>9
    <2>2. PICK x : x = Erase(b, l, {n})
      OBVIOUS
    <2>3. {n} \in SUBSET Name
      BY DEF Subscribed
    <2>4. x \in ValidStep
      BY <1>4, <1>6, <2>2, <2>3, StepsFit
    <2>5. x.op = "erase" /\ x.who = l /\ x.at = b
      BY <2>2 DEF Erase, Step
    <2> QED
      BY <1>1, <1>3, <1>4, <1>5, <2>1, <2>2, <2>4, <2>5
  <1>10. CASE f = "unsubscribe_all"
    <2>1. p = <<Step("leave", b, l, {})>>
      BY <1>3, <1>7, <1>10
    <2>2. PICK x : x = Step("leave", b, l, {})
      OBVIOUS
    <2>4. x \in ValidStep
      BY <1>4, <1>6, <2>2, StepsFit
    <2>5. x.op = "leave" /\ x.who = l /\ x.at = b
      BY <2>2 DEF Step
    <2> QED
      BY <1>1, <1>3, <1>4, <1>5, <2>1, <2>2, <2>4, <2>5
  <1>11. CASE f = "add_to_group"
    <2>1. PICK g \in Group, m \in Listener : p = <<AddToGroup(b, l, g, m)>>
      BY <1>3, <1>7, <1>11
    <2>2. PICK x : x = AddToGroup(b, l, g, m)
      OBVIOUS
    <2>4. x \in ValidStep
      BY <1>4, <1>6, <2>2, StepsFit
    <2>5. x.op = "add_to_group" /\ x.who = l /\ x.at = b
      BY <2>2 DEF AddToGroup, Step
    <2> QED
      BY <1>1, <1>3, <1>4, <1>5, <2>1, <2>2, <2>4, <2>5
  <1>12. CASE f = "close_group"
    <2>1. PICK g \in Group : p = <<CloseGroup(b, l, g)>>
      BY <1>3, <1>7, <1>12
    <2>2. PICK x : x = CloseGroup(b, l, g)
      OBVIOUS
    <2>4. x \in ValidStep
      BY <1>4, <1>6, <2>2, StepsFit
    <2>5. x.op = "close_group" /\ x.who = l /\ x.at = b
      BY <2>2 DEF CloseGroup, Step
    <2> QED
      BY <1>1, <1>3, <1>4, <1>5, <1>12, <2>1, <2>2, <2>4, <2>5
  <1> QED
    BY <1>8, <1>9, <1>10, <1>11, <1>12, CallsKnown

\* What connect() does, as a list of steps.
ConnectScript ==
    <<UnsubscribeAll(2, Bridge), Step("announce_all", 2, Bridge, {}),
      UnsubscribeAll(1, Bridge), Step("announce_all", 1, Bridge, {}),
      Step("announce", 1, Bridge, {}), Step("announce", 2, Bridge, {})>>

LEMMA ConnectSteps ==
    /\ ConnectScript \in Seq(ValidStep) /\ Len(ConnectScript) = 6
    /\ ConnectScript[1] = UnsubscribeAll(2, Bridge)
    /\ ConnectScript[2] = Step("announce_all", 2, Bridge, {})
    /\ ConnectScript[3] = UnsubscribeAll(1, Bridge)
    /\ ConnectScript[4] = Step("announce_all", 1, Bridge, {})
    /\ ConnectScript[5] = Step("announce", 1, Bridge, {})
    /\ ConnectScript[6] = Step("announce", 2, Bridge, {})
    /\ ToSet(ConnectScript) = {ConnectScript[i] : i \in 1 .. 6}
    /\ NotLocking(ConnectScript)
  <1>1. PICK p1, p2, p3, p4, p5, p6 :
          /\ p1 = UnsubscribeAll(2, Bridge)
          /\ p2 = Step("announce_all", 2, Bridge, {})
          /\ p3 = UnsubscribeAll(1, Bridge)
          /\ p4 = Step("announce_all", 1, Bridge, {})
          /\ p5 = Step("announce", 1, Bridge, {})
          /\ p6 = Step("announce", 2, Bridge, {})
    OBVIOUS
  <1>2. 1 \in Side /\ 2 \in Side /\ Bridge \in Member
    BY DEF Side, Member
  <1>3. \A x \in {p1, p2, p3, p4, p5, p6} : x \in ValidStep
    BY <1>1, <1>2, StepsFit
  <1>4. \A x \in {p1, p2, p3, p4, p5, p6} : x.op # "unlock"
    BY <1>1 DEF UnsubscribeAll, Step
  <1>5. PICK q : q = <<p1, p2, p3, p4, p5, p6>>
    OBVIOUS
  <1>6. q = ConnectScript
    BY <1>1, <1>5 DEF ConnectScript
  <1>7. /\ q \in Seq(ValidStep) /\ Len(q) = 6
        /\ q[1] = p1 /\ q[2] = p2 /\ q[3] = p3 /\ q[4] = p4 /\ q[5] = p5 /\ q[6] = p6
    BY <1>3, <1>5
  <1>8. ToSet(q) = {q[i] : i \in 1 .. 6}
    BY <1>7 DEF ToSet
  <1>9. NotLocking(q)
    <2>1. \A x \in ToSet(q) : x \in {p1, p2, p3, p4, p5, p6}
      BY <1>7, <1>8
    <2> QED
      BY <1>4, <1>7, <2>1, NoUnlocks
  <1> QED
    BY <1>1, <1>6, <1>7, <1>8, <1>9

LEMMA ConnectEffect ==
    ASSUME BusInv, NEW t \in Thread, Connect(t)
    PROVE  /\ Idle(t) /\ (ConnectAlone => AtRest) /\ ~connected /\ connected' = TRUE
           /\ script' = [script EXCEPT ![t] = ConnectScript]
           /\ UNCHANGED <<busVars, told, callers, changed, lockVars, calls>>
  BY DEF Connect, ConnectScript, Announce

LEMMA IdleCounts ==
    ASSUME NEW t, Idle(t), NEW S
    PROVE  Count(script[t], S) = 0
  BY CountEmpty DEF Idle

\* A call or connect() gives an idle thread something to do.
LEMMA StartsKeep ==
    ASSUME BusInv, NEW t \in Thread, Idle(t), NEW q \in Seq(ValidStep), NotLocking(q),
           script' = [script EXCEPT ![t] = q],
           UNCHANGED <<busVars, told, callers, changed, lockVars>>, connected' \in BOOLEAN
    PROVE  BusInv'
  <1>1. TypeOK'
    BY DEF BusInv, TypeOK, busVars, lockVars
  <1>2. Owned'
    BY DEF BusInv, Owned, busVars
  <1>3. Locked'
    <2>1. mutex' = mutex /\ depth' = depth
      BY DEF lockVars
    <2>2. script \in [Thread -> Seq(ValidStep)]
      BY DEF BusInv, TypeOK
    <2>3. \A u \in Thread, b \in Side : Count(script'[u], Unlocks(b)) = Count(script[u], Unlocks(b))
      <3>1. \A u \in Thread : script'[u] = IF u = t THEN q ELSE script[u]
        BY <2>2
      <3>2. \A b \in Side : Count(script[t], Unlocks(b)) = 0 /\ Count(q, Unlocks(b)) = 0
        BY IdleCounts DEF NotLocking
      <3> QED
        BY <3>1, <3>2
    <2> QED
      BY <2>1, <2>3 DEF BusInv, Locked
  <1> QED
    BY <1>1, <1>2, <1>3 DEF BusInv

LEMMA CallKeeps ==
    ASSUME BusInv, NEW t \in Thread, Call(t)
    PROVE  BusInv'
  <1>1. Idle(t) /\ UNCHANGED <<busVars, bridgeVars, changed, lockVars>>
    BY CallEffect
  <1>2. PICK x \in ValidStep :
          /\ script' = [script EXCEPT ![t] = <<x>>]
          /\ x.op \in {"add", "erase", "leave", "add_to_group", "close_group"}
    BY CallEffect
  <1>3. PICK q : q = <<x>>
    OBVIOUS
  <1>4. q \in Seq(ValidStep) /\ NotLocking(q)
    BY <1>2, <1>3, OneStep
  <1>5. connected' \in BOOLEAN /\ UNCHANGED <<busVars, told, callers, changed, lockVars>>
    BY <1>1 DEF BusInv, TypeOK, bridgeVars
  <1>6. script' = [script EXCEPT ![t] = q]
    BY <1>2, <1>3
  <1> QED
    BY <1>1, <1>4, <1>5, <1>6, StartsKeep

LEMMA ConnectKeeps ==
    ASSUME BusInv, NEW t \in Thread, Connect(t)
    PROVE  BusInv'
  <1>1. /\ Idle(t) /\ connected' \in BOOLEAN
        /\ script' = [script EXCEPT ![t] = ConnectScript]
        /\ UNCHANGED <<busVars, told, callers, changed, lockVars>>
    BY ConnectEffect
  <1>2. PICK q : q = ConnectScript
    OBVIOUS
  <1>3. q \in Seq(ValidStep) /\ NotLocking(q) /\ script' = [script EXCEPT ![t] = q]
    BY <1>1, <1>2, ConnectSteps
  <1> QED
    BY <1>1, <1>3, StartsKeep

LEMMA SubscribeKeeps ==
    ASSUME BusInv, NEW t \in Thread, Subscribe(t) \/ ReplaceChannels(t) \/ AddMember(t)
    PROVE  BusInv' /\ UNCHANGED <<told, callers, connected>>
  <1>1. PICK s : s = Head(script[t])
    OBVIOUS
  <1> QED
    BY <1>1, SubscribeFields, ReplaceFields, AddMemberFields

LEMMA BusStep == BusInv /\ [Next]_vars => BusInv'
  <1> SUFFICES ASSUME BusInv, [Next]_vars
               PROVE  BusInv'
    OBVIOUS
  <1>1. CASE UNCHANGED vars
    BY <1>1 DEF vars, busVars, bridgeVars, lockVars, BusInv, TypeOK, Owned, Locked
  <1>2. ASSUME NEW t \in Thread, Call(t) \/ Connect(t) \/ Work(t)
        PROVE  BusInv'
    <2>1. CASE Call(t) \/ Connect(t)
      BY <2>1, CallKeeps, ConnectKeeps
    <2>2. CASE Work(t)
      BY <2>2, SubscribeKeeps, UnsubscribeKeeps, CloseOneGroupKeeps, LeaveKeeps, UnlockBusKeeps,
         EnterKeeps, CollectKeeps, ReleaseKeeps DEF Work
    <2> QED
      BY <1>2, <2>1, <2>2
  <1> QED
    BY <1>1, <1>2 DEF Next

LEMMA BusInit == Init => BusInv
  <1> SUFFICES ASSUME Init
               PROVE  BusInv
    OBVIOUS
  <1>1. PICK S \in SUBSET (Early \X Chan) :
          listeners = [b \in Side |-> [n \in Name |-> {l \in Listener : Home[l] = b /\ <<l, n>> \in S}]]
    BY DEF Init
  <1>2. \A b \in Side, n \in Name :
          /\ listeners[b][n] = {l \in Listener : Home[l] = b /\ <<l, n>> \in S}
          /\ owner[b][n] = Null
    BY <1>1 DEF Init
  <1>3. TypeOK
    <2>1. listeners \in [Side -> [Name -> SUBSET Member]]
      BY <1>1 DEF Member
    <2>2. owner \in [Side -> [Name -> Member \cup {Null}]]
      BY DEF Init
    <2>3. callers \in [Side -> [all : Nat, resets : Nat]]
      BY DEF Init
    <2>4. /\ told \in [Side -> SUBSET Chan] /\ connected \in BOOLEAN
          /\ changed \in [Side -> BOOLEAN]
      BY DEF Init
    <2>5. mutex \in [Side -> Thread \cup {Null}] /\ depth \in [Side -> Nat]
      BY DEF Init
    <2>6. script \in [Thread -> Seq(ValidStep)]
      BY DEF Init
    <2> QED
      BY <2>1, <2>2, <2>3, <2>4, <2>5, <2>6 DEF TypeOK
  <1>4. Owned
    <2>1. \A b \in Side, g \in Group : listeners[b][g] = {}
      <3>1. ASSUME NEW b \in Side, NEW g \in Group, NEW l \in listeners[b][g]
            PROVE  FALSE
        <4>1. <<l, g>> \in S /\ S \subseteq Early \X Chan
          BY <1>2, <3>1 DEF Name
        <4>2. g \in Chan
          BY <4>1
        <4> QED
          BY <4>2, NamesDiffer
      <3> QED
        BY <3>1
    <2>2. \A b \in Side : \A c \in Chan : owner[b][c] = Null
      BY <1>2 DEF Name
    <2>3. \A b \in Side, g \in Group : owner[b][g] = Null
      BY <1>2 DEF Name
    <2> QED
      BY <2>1, <2>2, <2>3, ActorsDiffer DEF Owned
  <1>5. Locked
    <2>1. \A t \in Thread : Idle(t)
      BY DEF Init, Idle
    <2>2. \A b \in Side, t \in Thread : Count(script[t], Unlocks(b)) = 0
      BY <2>1, IdleCounts
    <2>3. \A b \in Side : mutex[b] = Null /\ depth[b] = 0
      BY DEF Init
    <2> QED
      BY <2>2, <2>3 DEF Locked
  <1> QED
    BY <1>3, <1>4, <1>5 DEF BusInv

\* The types, what owners and members of a group there are, and who will unlock a
\* mutex.
THEOREM BusAlways == Spec => []BusInv
  BY BusInit, BusStep, PTL DEF Spec

-----------------------------------------------------------------------------
(* Groups.  A bridge that is a member stands for members behind it, which    *)
(* the group on the other side has, or will have, or it will be taken out.   *)

\* What closes groups comes first in a script: it was put there by a step that
\* closed them on its own side and still holds the mutex.
CloseFirst(q) ==
    \A i, j \in DOMAIN q : i < j /\ q[j].op = "close_group" => q[i].op = "close_group"
ClosesFirst == \A t \in Thread : CloseFirst(script[t])
Behind(x, t) ==
    /\ x.who = Bridge /\ mutex[Other(x.at)] = t
    /\ \A g \in x.names : listeners[Other(x.at)][g] = {}
ClosedBehind ==
    \A t \in Thread : \A x \in ToSet(script[t]) : x.op = "close_group" => Behind(x, t)

\* The group on the other side, and a thread that will ask it for a member, or
\* that will take the bridge out.
Known(b, g) == owner[Other(b)][g] = Bridge /\ listeners[Other(b)][g] # {}
Asks(x, b, g) == x.op = "add_to_group" /\ x.at = Other(b) /\ x.who = Bridge /\ x.names = {g}
TakesBack(x, b, g) == x.op = "erase" /\ x.at = b /\ x.who = Bridge /\ g \in x.names
Pending(b, g) == \E t \in Thread : \E x \in ToSet(script[t]) : Asks(x, b, g) \/ TakesBack(x, b, g)
Forwarded ==
    \A b \in Side, g \in Group : Bridge \in listeners[b][g] => Known(b, g) \/ Pending(b, g)

GroupInv == ClosesFirst /\ ClosedBehind /\ Forwarded

NoClose(q) == \A x \in ToSet(q) : x.op # "close_group"

LEMMA CloseFirstTail ==
    ASSUME NEW q \in Seq(ValidStep), q # <<>>, CloseFirst(q)
    PROVE  CloseFirst(Tail(q)) /\ (Head(q).op # "close_group" => NoClose(Tail(q)))
  <1>1. /\ Tail(q) \in Seq(ValidStep) /\ Len(Tail(q)) = Len(q) - 1
        /\ \A i \in 1 .. Len(Tail(q)) : Tail(q)[i] = q[i + 1]
        /\ Len(q) \in Nat \ {0} /\ Head(q) = q[1]
    BY HeadTailProperties
  <1>2. DOMAIN q = 1 .. Len(q) /\ DOMAIN Tail(q) = 1 .. Len(q) - 1
    BY <1>1
  <1>3. \A i \in DOMAIN Tail(q) : i + 1 \in DOMAIN q /\ Tail(q)[i] = q[i + 1] /\ 1 \in DOMAIN q /\ 1 < i + 1
    BY <1>1, <1>2
  <1>4. CloseFirst(Tail(q))
    <2>1. ASSUME NEW i \in DOMAIN Tail(q), NEW j \in DOMAIN Tail(q), i < j, Tail(q)[j].op = "close_group"
          PROVE  Tail(q)[i].op = "close_group"
      <3>1. i + 1 < j + 1
        BY <2>1, <1>2
      <3> QED
        BY <2>1, <3>1, <1>3 DEF CloseFirst
    <2> QED
      BY <2>1 DEF CloseFirst
  <1>5. ASSUME Head(q).op # "close_group", NEW x \in ToSet(Tail(q)), x.op = "close_group"
        PROVE  FALSE
    <2>1. PICK i \in DOMAIN Tail(q) : x = Tail(q)[i]
      BY DEF ToSet
    <2> QED
      BY <2>1, <1>1, <1>3, <1>5 DEF CloseFirst
  <1> QED
    BY <1>4, <1>5 DEF NoClose

LEMMA CloseFirstConcat ==
    ASSUME NEW p \in Seq(ValidStep), NEW q \in Seq(ValidStep),
           \/ CloseFirst(p) /\ NoClose(q)
           \/ (\A x \in ToSet(p) : x.op = "close_group") /\ CloseFirst(q)
    PROVE  CloseFirst(p \o q)
  <1>1. /\ p \o q \in Seq(ValidStep) /\ Len(p \o q) = Len(p) + Len(q)
        /\ \A i \in 1 .. Len(p) + Len(q) : (p \o q)[i] = IF i <= Len(p) THEN p[i] ELSE q[i - Len(p)]
    BY ConcatProperties
  <1>2. PICK w : w = p \o q
    OBVIOUS
  <1>3. /\ Len(p) \in Nat /\ Len(q) \in Nat /\ DOMAIN p = 1 .. Len(p) /\ DOMAIN q = 1 .. Len(q)
        /\ DOMAIN w = 1 .. Len(p) + Len(q)
    BY <1>1, <1>2
  <1>4. \A i \in DOMAIN w : \/ i \in DOMAIN p /\ w[i] = p[i]
                            \/ i > Len(p) /\ i - Len(p) \in DOMAIN q /\ w[i] = q[i - Len(p)]
    BY <1>1, <1>2, <1>3
  <1>5. ASSUME NEW i \in DOMAIN w, NEW j \in DOMAIN w, i < j, w[j].op = "close_group"
        PROVE  w[i].op = "close_group"
    <2>1. CASE j \in DOMAIN p /\ w[j] = p[j]
      <3>1. i \in DOMAIN p /\ w[i] = p[i]
        BY <2>1, <1>3, <1>4, <1>5
      <3> QED
        BY <2>1, <3>1, <1>5 DEF CloseFirst, ToSet
    <2>2. CASE j > Len(p) /\ j - Len(p) \in DOMAIN q /\ w[j] = q[j - Len(p)]
      <3>1. ~NoClose(q)
        BY <2>2, <1>5 DEF NoClose, ToSet
      <3>2. (\A x \in ToSet(p) : x.op = "close_group") /\ CloseFirst(q)
        BY <3>1
      <3>3. CASE i \in DOMAIN p /\ w[i] = p[i]
        BY <3>2, <3>3 DEF ToSet
      <3>4. CASE i > Len(p) /\ i - Len(p) \in DOMAIN q /\ w[i] = q[i - Len(p)]
        <4>1. i - Len(p) < j - Len(p)
          BY <1>3, <1>5
        <4> QED
          BY <2>2, <3>2, <3>4, <4>1, <1>5 DEF CloseFirst
      <3> QED
        BY <3>3, <3>4, <1>4
    <2> QED
      BY <2>1, <2>2, <1>4
  <1> QED
    BY <1>2, <1>5 DEF CloseFirst

LEMMA CloseFirstPlain ==
    ASSUME NEW q \in Seq(ValidStep), NoClose(q) \/ \A x \in ToSet(q) : x.op = "close_group"
    PROVE  CloseFirst(q)
  BY DEF CloseFirst, NoClose, ToSet

\* What is in the scripts after a step.
LEMMA ScriptAfter ==
    ASSUME BusInv, NEW t \in Thread, NEW r, Goes(t, r)
    PROVE  /\ \A u \in Thread : \A x \in ToSet(script[u]) :
                x \in ToSet(script'[u]) \/ (u = t /\ x = Head(script[t]))
           /\ \A u \in Thread : \A x \in ToSet(script'[u]) :
                x \in ToSet(script[u]) \/ (u = t /\ x \in ToSet(r))
           /\ \A x \in ToSet(script'[t]) : x \in ToSet(r) \/ x \in ToSet(Tail(script[t]))
           /\ ToSet(r) \subseteq ToSet(script'[t])
           /\ Tail(script[t]) \in Seq(ValidStep) /\ script[t] \in Seq(ValidStep)
           /\ script'[t] = r \o Tail(script[t])
           /\ \A u \in Thread \ {t} : script'[u] = script[u]
  <1>1. TypeOK /\ script[t] # <<>> /\ r \in Seq(ValidStep) /\ Continue(t, r)
    BY DEF BusInv, Goes
  <1>2. /\ \A u \in Thread \ {t} : script'[u] = script[u]
        /\ Tail(script[t]) \in Seq(ValidStep)
        /\ script'[t] = r \o Tail(script[t])
        /\ ToSet(script[t]) = {Head(script[t])} \cup ToSet(Tail(script[t]))
        /\ ToSet(script'[t]) = ToSet(r) \cup ToSet(Tail(script[t]))
    BY <1>1, Continues
  <1>3. script[t] \in Seq(ValidStep)
    BY <1>1 DEF TypeOK
  <1> QED
    BY <1>2, <1>3

LEMMA ClosesAfter ==
    ASSUME BusInv, ClosesFirst, NEW t \in Thread, NEW r, Goes(t, r), CloseFirst(r),
           Head(script[t]).op # "close_group"
    PROVE  ClosesFirst' /\ \A x \in ToSet(script'[t]) : x.op = "close_group" => x \in ToSet(r)
  <1>1. /\ r \in Seq(ValidStep) /\ script[t] # <<>> /\ script[t] \in Seq(ValidStep)
        /\ Tail(script[t]) \in Seq(ValidStep)
        /\ script'[t] = r \o Tail(script[t])
        /\ \A u \in Thread \ {t} : script'[u] = script[u]
        /\ \A x \in ToSet(script'[t]) : x \in ToSet(r) \/ x \in ToSet(Tail(script[t]))
    BY ScriptAfter DEF Goes
  <1>2. NoClose(Tail(script[t]))
    BY <1>1, CloseFirstTail DEF ClosesFirst
  <1>3. CloseFirst(r \o Tail(script[t]))
    BY <1>1, <1>2, CloseFirstConcat
  <1>4. \A u \in Thread : CloseFirst(script'[u])
    BY <1>1, <1>3 DEF ClosesFirst
  <1> QED
    BY <1>1, <1>2, <1>4 DEF ClosesFirst, CloseFirst, NoClose

\* A step leaves the brokers alone whose mutexes other threads hold.
Polite(t) ==
    \A b \in Side : mutex[b] \notin {Null, t} =>
        mutex'[b] = mutex[b] /\ \A g \in Group : listeners[b][g] = {} => listeners'[b][g] = {}

LEMMA BehindAfter ==
    ASSUME BusInv, ClosesFirst, ClosedBehind, NEW t \in Thread, NEW r, Goes(t, r), CloseFirst(r),
           Head(script[t]).op # "close_group", Polite(t),
           \A x \in ToSet(r) : x.op = "close_group" =>
               x.who = Bridge /\ mutex'[Other(x.at)] = t
               /\ \A g \in x.names : listeners'[Other(x.at)][g] = {}
    PROVE  ClosesFirst' /\ ClosedBehind'
  <1>1. ClosesFirst' /\ \A x \in ToSet(script'[t]) : x.op = "close_group" => x \in ToSet(r)
    BY ClosesAfter
  <1>2. ASSUME NEW u \in Thread, NEW x \in ToSet(script'[u]), x.op = "close_group"
        PROVE  x.who = Bridge /\ mutex'[Other(x.at)] = u
               /\ \A g \in x.names : listeners'[Other(x.at)][g] = {}
    <2>1. CASE u = t
      BY <1>1, <1>2, <2>1
    <2>2. CASE u # t
      <3>1. x \in ToSet(script[u])
        BY <2>2, ScriptAfter
      <3>2. Behind(x, u)
        BY <3>1, <1>2 DEF ClosedBehind
      <3>3. Other(x.at) \in Side /\ x.names \subseteq Group
        <4>1. script[u] \in Seq(ValidStep)
          BY DEF BusInv, TypeOK
        <4>2. x \in ValidStep
          BY <3>1, <4>1 DEF ToSet
        <4> QED
          BY <4>2, <1>2, Sides DEF ValidStep, Fits, StepType
      <3>4. mutex[Other(x.at)] \notin {Null, t}
        BY <2>2, <3>2, ActorsDiffer DEF Behind
      <3> QED
        BY <3>2, <3>3, <3>4 DEF Behind, Polite
    <2> QED
      BY <2>1, <2>2
  <1> QED
    BY <1>1, <1>2 DEF ClosedBehind, Behind

\* The steps with a mutex are polite.
LEMMA LockedIsPolite ==
    ASSUME BusInv, NEW t \in Thread, NEW b \in Side,
           Acquire(t, b), \A a \in Side, g \in Group : a # b => listeners'[a][g] = listeners[a][g]
    PROVE  Polite(t) /\ mutex'[b] = t
  BY DEF Acquire, Polite, BusInv, TypeOK

\* A member of a group that is known stays so, unless the step sees to it.
LEMMA ForwardedAfter ==
    ASSUME BusInv, Forwarded, NEW t \in Thread, NEW r, Goes(t, r),
           \A b \in Side, g \in Group : Bridge \in listeners'[b][g] =>
             \/ owner'[Other(b)][g] = Bridge /\ listeners'[Other(b)][g] # {}
             \/ \E x \in ToSet(r) : Asks(x, b, g) \/ TakesBack(x, b, g)
             \/ /\ Bridge \in listeners[b][g] /\ ~Known(b, g)
                /\ ~Asks(Head(script[t]), b, g) /\ ~TakesBack(Head(script[t]), b, g)
    PROVE  Forwarded'
  <1>1. ASSUME NEW b \in Side, NEW g \in Group, Bridge \in listeners'[b][g],
               \E x \in ToSet(r) : Asks(x, b, g) \/ TakesBack(x, b, g)
        PROVE  Pending(b, g)'
    <2>1. PICK x \in ToSet(r) : Asks(x, b, g) \/ TakesBack(x, b, g)
      BY <1>1
    <2>2. x \in ToSet(script'[t])
      BY ScriptAfter
    <2> QED
      BY <2>1, <2>2 DEF Pending, Asks, TakesBack
  <1>2. ASSUME NEW b \in Side, NEW g \in Group, Pending(b, g),
               ~Asks(Head(script[t]), b, g) /\ ~TakesBack(Head(script[t]), b, g)
        PROVE  Pending(b, g)'
    <2>1. PICK u \in Thread : \E x \in ToSet(script[u]) : Asks(x, b, g) \/ TakesBack(x, b, g)
      BY <1>2 DEF Pending
    <2>2. PICK x \in ToSet(script[u]) : Asks(x, b, g) \/ TakesBack(x, b, g)
      BY <2>1
    <2>3. x \in ToSet(script'[u])
      BY <1>2, <2>2, ScriptAfter
    <2> QED
      BY <2>2, <2>3 DEF Pending, Asks, TakesBack
  <1> QED
    BY <1>1, <1>2 DEF Forwarded, Known
\* Steps that touch no group.
LEMMA GroupsAlone ==
    ASSUME BusInv, GroupInv, NEW t \in Thread, NEW r, Goes(t, r), NoClose(r),
           Head(script[t]).op \notin {"close_group", "add_to_group", "erase"}, Polite(t),
           \A a \in Side, g \in Group : listeners'[a][g] = listeners[a][g] /\ owner'[a][g] = owner[a][g]
    PROVE  GroupInv'
  <1>1. r \in Seq(ValidStep)
    BY DEF Goes
  <1>2. CloseFirst(r)
    BY <1>1, CloseFirstPlain
  <1>3. ClosesFirst' /\ ClosedBehind'
    BY <1>2, BehindAfter DEF GroupInv, NoClose
  <1>4. \A b \in Side, g \in Group : Bridge \in listeners'[b][g] =>
             \/ owner'[Other(b)][g] = Bridge /\ listeners'[Other(b)][g] # {}
             \/ /\ Bridge \in listeners[b][g] /\ ~Known(b, g)
                /\ ~Asks(Head(script[t]), b, g) /\ ~TakesBack(Head(script[t]), b, g)
    BY Sides DEF Known, Asks, TakesBack
  <1>5. Forwarded'
    BY <1>4, ForwardedAfter DEF GroupInv
  <1> QED
    BY <1>3, <1>5 DEF GroupInv

LEMMA SubscribeGroups ==
    ASSUME BusInv, GroupInv, NEW t \in Thread, Subscribe(t)
    PROVE  GroupInv'
  <1>1. PICK s : s = Head(script[t])
    OBVIOUS
  <1>2. PICK r : Goes(t, r) /\ Enters(t, s.at, r) /\ ToSet(r) = {Unlock(s.at)}
    BY <1>1, SubscribeEffect
  <1>3. s.op = "add"
    BY <1>1, SubscribeEffect
  <1>4. \A a \in Side, g \in Group : listeners'[a][g] = listeners[a][g] /\ owner'[a][g] = owner[a][g]
    <2>1. UNCHANGED owner /\ s.names \subseteq Chan /\ Gains(s.at, s.who, s.names)
      BY <1>1, SubscribeFields
    <2> QED
      BY <2>1, NamesDiffer DEF Name, Gains
  <1>5. Polite(t)
    BY <1>2, <1>4, LockedIsPolite DEF Enters
  <1>6. NoClose(r)
    BY <1>2 DEF NoClose, Unlock, Step
  <1> QED
    BY <1>1, <1>2, <1>3, <1>4, <1>5, <1>6, GroupsAlone

LEMMA ReplaceGroups ==
    ASSUME BusInv, GroupInv, NEW t \in Thread, ReplaceChannels(t)
    PROVE  GroupInv'
  <1>1. PICK s : s = Head(script[t])
    OBVIOUS
  <1>2. PICK r : Goes(t, r) /\ Enters(t, s.at, r) /\ ToSet(r) = {Unlock(s.at)}
    BY <1>1, ReplaceEffect
  <1>3. s.op = "replace"
    BY <1>1, ReplaceEffect
  <1>4. \A a \in Side, g \in Group : listeners'[a][g] = listeners[a][g] /\ owner'[a][g] = owner[a][g]
    BY <1>1, ReplaceFields
  <1>5. Polite(t)
    BY <1>2, <1>4, LockedIsPolite DEF Enters
  <1>6. NoClose(r)
    BY <1>2 DEF NoClose, Unlock, Step
  <1> QED
    BY <1>1, <1>2, <1>3, <1>4, <1>5, <1>6, GroupsAlone

\* Steps of the announcer, and of unlock().
LEMMA AnnounceGroups ==
    ASSUME BusInv, GroupInv, NEW t \in Thread, NEW r, Goes(t, r), NoClose(r),
           Head(script[t]).op \in {"unlock", "announce", "announce_all", "collect", "collect_all", "release"},
           UNCHANGED <<listeners, owner>>,
           \A b \in Side : mutex[b] \notin {Null, t} => mutex'[b] = mutex[b]
    PROVE  GroupInv'
  BY GroupsAlone DEF Polite

LEMMA UnlockGroups ==
    ASSUME BusInv, GroupInv, NEW t \in Thread, UnlockBus(t)
    PROVE  GroupInv'
  <1>1. PICK b \in Side, r \in Seq(ValidStep) :
          /\ Continue(t, r) /\ script[t] # <<>>
          /\ Head(script[t]).op = "unlock" /\ mutex[b] = t
          /\ \/ r = <<Step("announce", b, Bridge, {}), Unlock(b)>> /\ UNCHANGED lockVars
             \/ r = <<>> /\ mutex' = [mutex EXCEPT ![b] = IF depth[b] = 1 THEN Null ELSE t]
    BY UnlockBusLocks
  <1>2. UNCHANGED <<listeners, owner>>
    BY DEF UnlockBus, busVars
  <1>3. Goes(t, r)
    BY <1>1 DEF Goes
  <1>4. \A a \in Side : mutex[a] \notin {Null, t} => mutex'[a] = mutex[a]
    BY <1>1 DEF BusInv, TypeOK, lockVars
  <1>5. NoClose(r)
    <2>1. CASE r = <<>>
      BY <2>1 DEF NoClose, ToSet
    <2>2. CASE r = <<Step("announce", b, Bridge, {}), Unlock(b)>>
      <3>1. PICK h, k : h = Step("announce", b, Bridge, {}) /\ k = Unlock(b)
        OBVIOUS
      <3>2. h \in ValidStep /\ k \in ValidStep /\ h.op # "close_group" /\ k.op # "close_group"
        BY <3>1, StepsFit DEF Unlock, Step
      <3>3. ToSet(<<h, k>>) = {h, k}
        BY <3>2, CountTwo
      <3> QED
        BY <2>2, <3>1, <3>2, <3>3 DEF NoClose
    <2> QED
      BY <1>1, <2>1, <2>2
  <1> QED
    BY <1>1, <1>2, <1>3, <1>4, <1>5, AnnounceGroups

LEMMA OneNoClose ==
    ASSUME NEW x, x.op # "close_group"
    PROVE  NoClose(<<x>>) /\ NoClose(<<>>)
  BY DEF NoClose, ToSet

LEMMA EnterGroups ==
    ASSUME BusInv, GroupInv, NEW t \in Thread, Enter(t)
    PROVE  GroupInv'
  <1>1. PICK s : s = Head(script[t])
    OBVIOUS
  <1>2. /\ s.op \in {"announce", "announce_all"}
        /\ UNCHANGED <<busVars, told, connected, changed, lockVars, calls>>
    BY <1>1, EnterEffect
  <1>3. PICK r \in Seq(ValidStep) :
          /\ Goes(t, r)
          /\ r = <<>> \/ r = <<Step(IF s.op = "announce_all" THEN "collect_all" ELSE "collect", s.at, Bridge, {})>>
    BY <1>1, EnterEffect
  <1>4. NoClose(r)
    <2>1. PICK x : x = Step(IF s.op = "announce_all" THEN "collect_all" ELSE "collect", s.at, Bridge, {})
      OBVIOUS
    <2>2. x.op # "close_group"
      BY <2>1 DEF Step
    <2> QED
      BY <1>3, <2>1, <2>2, OneNoClose
  <1>5. /\ UNCHANGED <<listeners, owner>>
        /\ \A b \in Side : mutex[b] \notin {Null, t} => mutex'[b] = mutex[b]
    BY <1>2 DEF busVars, lockVars
  <1> QED
    BY <1>1, <1>2, <1>3, <1>4, <1>5, AnnounceGroups

LEMMA ReleaseGroups ==
    ASSUME BusInv, GroupInv, NEW t \in Thread, Release(t)
    PROVE  GroupInv'
  <1>1. PICK s : s = Head(script[t])
    OBVIOUS
  <1>2. /\ s.op = "release"
        /\ UNCHANGED <<busVars, connected, changed, lockVars, calls>>
    BY <1>1, ReleaseEffect
  <1>3. PICK r \in Seq(ValidStep) :
          /\ Goes(t, r)
          /\ \/ r = <<>>
             \/ r = <<Step(IF callers[s.at].resets > 1 THEN "announce_all" ELSE "announce", s.at, Bridge, {})>>
    BY <1>1, ReleaseEffect
  <1>4. NoClose(r)
    <2>1. PICK x : x = Step(IF callers[s.at].resets > 1 THEN "announce_all" ELSE "announce", s.at, Bridge, {})
      OBVIOUS
    <2>2. x.op # "close_group"
      BY <2>1 DEF Step
    <2> QED
      BY <1>3, <2>1, <2>2, OneNoClose
  <1>5. /\ UNCHANGED <<listeners, owner>>
        /\ \A b \in Side : mutex[b] \notin {Null, t} => mutex'[b] = mutex[b]
    BY <1>2 DEF busVars, lockVars
  <1> QED
    BY <1>1, <1>2, <1>3, <1>4, <1>5, AnnounceGroups

\* What an announcer has to do after it has collected a list.
LEMMA CollectSteps ==
    ASSUME BusInv, NEW t \in Thread, Collect(t), NEW s, s = Head(script[t])
    PROVE  \E r \in Seq(ValidStep), first \in Seq(ValidStep) :
             /\ Goes(t, r)
             /\ r = first \o <<Step("release", s.at, Bridge, Exported(s.at))>>
             /\ ToSet(r) = ToSet(first) \cup {Step("release", s.at, Bridge, Exported(s.at))}
             /\ first = UpdateList(Other(s.at), told[s.at], Exported(s.at), s.op)
             /\ \A x \in ToSet(first) :
                  /\ x.op \in {"add", "erase", "replace"} /\ x.at = Other(s.at) /\ x.who = Bridge
                  /\ x.names \subseteq Chan
  <1>1. s.at \in Side /\ Exported(s.at) \in SUBSET Chan
    BY CollectEffect
  <1>2. PICK r \in Seq(ValidStep), first \in Seq(ValidStep) :
          /\ Goes(t, r)
          /\ r = first \o <<Step("release", s.at, Bridge, Exported(s.at))>>
          /\ ToSet(r) = ToSet(first) \cup {Step("release", s.at, Bridge, Exported(s.at))}
          /\ first = UpdateList(Other(s.at), told[s.at], Exported(s.at), s.op)
    BY CollectEffect
  <1>3. PICK b, old, new, op : b = Other(s.at) /\ old = told[s.at] /\ new = Exported(s.at) /\ op = s.op
    OBVIOUS
  <1>4. b \in Side /\ old \in SUBSET Chan /\ new \in SUBSET Chan
    BY <1>1, <1>3, Sides DEF BusInv, TypeOK
  <1>5. ToSet(first) \subseteq {Replace(b, Bridge, new), Replace(b, Bridge, {}), Add(b, Bridge, new \ old),
                                Erase(b, Bridge, old \ new)}
    <2>1. first = UpdateList(b, old, new, op)
      BY <1>2, <1>3
    <2>2. CASE (old = {} \/ op = "collect_all") /\ new = {}
      BY <2>1, <2>2, <1>4, UpdatesListed DEF ListOfUpdates
    <2>3. CASE (old = {} \/ op = "collect_all") /\ new # {}
      BY <2>1, <2>3, <1>4, UpdatesListed DEF ListOfUpdates
    <2>4. CASE ~(old = {} \/ op = "collect_all") /\ new = {}
      BY <2>1, <2>4, <1>4, UpdatesListed DEF ListOfUpdates
    <2>5. CASE ~(old = {} \/ op = "collect_all") /\ new # {}
      BY <2>1, <2>5, <1>4, UpdatesListed DEF ListOfUpdates
    <2> QED
      BY <2>2, <2>3, <2>4, <2>5
  <1>6. \A x \in ToSet(first) :
          /\ x.op \in {"add", "erase", "replace"} /\ x.at = b /\ x.who = Bridge
          /\ x.names \subseteq Chan
    BY <1>4, <1>5 DEF Replace, Add, Erase, Step
  <1> QED
    BY <1>2, <1>3, <1>6

LEMMA CollectGroups ==
    ASSUME BusInv, GroupInv, NEW t \in Thread, Collect(t)
    PROVE  GroupInv'
  <1>1. PICK s : s = Head(script[t])
    OBVIOUS
  <1>2. /\ s.op \in {"collect", "collect_all"}
        /\ UNCHANGED <<busVars, told, connected, lockVars, calls>>
    BY <1>1, CollectEffect
  <1>3. PICK r \in Seq(ValidStep), first \in Seq(ValidStep) :
          /\ Goes(t, r)
          /\ ToSet(r) = ToSet(first) \cup {Step("release", s.at, Bridge, Exported(s.at))}
          /\ \A x \in ToSet(first) : x.op \in {"add", "erase", "replace"}
    BY <1>1, CollectSteps
  <1>4. NoClose(r)
    BY <1>3 DEF NoClose, Step
  <1>5. /\ UNCHANGED <<listeners, owner>>
        /\ \A b \in Side : mutex[b] \notin {Null, t} => mutex'[b] = mutex[b]
    BY <1>2 DEF busVars, lockVars
  <1> QED
    BY <1>1, <1>2, <1>3, <1>4, <1>5, AnnounceGroups
LEMMA UnsubscribeGroups ==
    ASSUME BusInv, GroupInv, NEW t \in Thread, UnsubscribeSome(t) \/ UnsubscribeAllChannels(t)
    PROVE  GroupInv'
  <1>1. PICK s : s = Head(script[t])
    OBVIOUS
  <1>2. s.at \in Side /\ s.who \in Member
    BY <1>1, UnsubscribeEffect
  <1>3. PICK r \in Seq(ValidStep), names \in SUBSET Name :
          /\ Leaving(s, names)
          /\ Unsubscribe(t, s.at, s.who, names)
          /\ Goes(t, r) /\ Enters(t, s.at, r)
          /\ TellsEmpty(r, s.at, s.who, names)
    BY <1>1, UnsubscribeEffect
  <1>4. PICK b, who : b = s.at /\ who = s.who
    OBVIOUS
  <1>5. b \in Side /\ who \in Member /\ Unsubscribe(t, b, who, names)
    BY <1>2, <1>3, <1>4
  <1>6. \A a \in Side, g \in Group :
          /\ listeners'[a][g] = IF a = b /\ g \in names THEN listeners[a][g] \ {who} ELSE listeners[a][g]
          /\ owner'[a][g] = IF a = b /\ g \in names /\ listeners[a][g] = {who} THEN Null ELSE owner[a][g]
    <2>1. Loses(b, who, names)
      BY <1>5, UnsubscribeLists
    <2> QED
      BY <2>1 DEF Name, Loses
  <1>7. Polite(t)
    <2>1. \A a \in Side, g \in Group : a # b => listeners'[a][g] = listeners[a][g]
      BY <1>6
    <2>2. Acquire(t, b)
      BY <1>3, <1>4 DEF Enters
    <2> QED
      BY <1>5, <2>1, <2>2, LockedIsPolite
  <1>8. NoClose(r)
    BY <1>3 DEF TellsEmpty, NoClose, Unlock, Erase, Step
  <1>9. CloseFirst(r)
    BY <1>8, CloseFirstPlain
  <1>10. ClosesFirst' /\ ClosedBehind'
    BY <1>1, <1>3, <1>7, <1>8, <1>9, BehindAfter DEF GroupInv, NoClose, Leaving
  <1>11. ASSUME NEW c \in Side, NEW g \in Group, Bridge \in listeners'[c][g]
         PROVE  \/ owner'[Other(c)][g] = Bridge /\ listeners'[Other(c)][g] # {}
                \/ \E x \in ToSet(r) : Asks(x, c, g) \/ TakesBack(x, c, g)
                \/ /\ Bridge \in listeners[c][g] /\ ~Known(c, g)
                   /\ ~Asks(Head(script[t]), c, g) /\ ~TakesBack(Head(script[t]), c, g)
    <2>1. Bridge \in listeners[c][g] /\ Other(c) \in Side
      BY <1>6, <1>11, Sides
    <2>2. ~Asks(s, c, g) /\ ~TakesBack(s, c, g)
      <3>1. ~Asks(s, c, g)
        BY <1>3 DEF Asks, Leaving
      <3>2. ASSUME TakesBack(s, c, g)
            PROVE  FALSE
        <4>1. c = b /\ who = Bridge /\ g \in names
          BY <1>3, <1>4, <3>2 DEF TakesBack, Leaving
        <4> QED
          BY <4>1, <1>6, <1>11
      <3> QED
        BY <3>1, <3>2
    <2>3. CASE ~Known(c, g)
      BY <1>1, <2>1, <2>2, <2>3
    <2>4. CASE Known(c, g)
      <3>1. owner[Other(c)][g] = Bridge /\ listeners[Other(c)][g] # {}
        BY <2>4 DEF Known
      <3>2. CASE Other(c) = b /\ g \in names /\ listeners[b][g] = {who}
        <4>1. g \in Emptied(b, who, names) /\ owner[b][g] = Bridge /\ Other(b) = c
          BY <3>1, <3>2, Sides DEF Emptied
        <4>2. PICK x : x = Erase(c, Bridge, {g})
          OBVIOUS
        <4>3. x \in ToSet(r)
          BY <1>3, <1>4, <4>1, <4>2 DEF TellsEmpty
        <4>4. TakesBack(x, c, g)
          BY <4>2 DEF TakesBack, Erase, Step
        <4> QED
          BY <4>3, <4>4
      <3>3. CASE ~(Other(c) = b /\ g \in names /\ listeners[b][g] = {who})
        <4>1. owner'[Other(c)][g] = Bridge
          BY <1>6, <2>1, <3>1, <3>3
        <4>2. listeners'[Other(c)][g] # {}
          <5>1. CASE Other(c) = b /\ g \in names
            <6>1. PICK y \in listeners[b][g] : y # who
              BY <3>1, <3>3, <5>1
            <6>2. listeners'[b][g] = listeners[b][g] \ {who}
              BY <1>5, <1>6, <5>1
            <6> QED
              BY <5>1, <6>1, <6>2
          <5>2. CASE ~(Other(c) = b /\ g \in names)
            BY <1>6, <2>1, <3>1, <5>2
          <5> QED
            BY <5>1, <5>2
        <4> QED
          BY <4>1, <4>2
      <3> QED
        BY <3>2, <3>3
    <2> QED
      BY <2>3, <2>4
  <1>12. Forwarded'
    BY <1>3, <1>11, ForwardedAfter DEF GroupInv
  <1> QED
    BY <1>10, <1>12 DEF GroupInv

LEMMA AddMemberGroups ==
    ASSUME BusInv, GroupInv, NEW t \in Thread, AddMember(t)
    PROVE  GroupInv'
  <1>1. PICK s : s = Head(script[t])
    OBVIOUS
  <1>2. s.op = "add_to_group" /\ s.at \in Side /\ s.who \in Member /\ s.target \in Listener
    BY <1>1, AddMemberFields
  <1>3. PICK r \in Seq(ValidStep), g \in Group :
          /\ s.names = {g} /\ Goes(t, r) /\ Enters(t, s.at, r)
          /\ OthersSame(s.at, g) /\ Joins(s.at, s.who, s.target, g, r)
    BY <1>1, AddMemberFields
  <1>4. PICK b, who, m : b = s.at /\ who = s.who /\ m = s.target
    OBVIOUS
  <1>5. /\ b \in Side /\ who \in Member /\ m # Bridge
        /\ OthersSame(b, g) /\ Joins(b, who, m, g, r) /\ Acquire(t, b)
    BY <1>2, <1>3, <1>4, ActorsDiffer DEF Enters
  <1>6. \A a \in Side, n \in Group : ~(a = b /\ n = g) =>
          listeners'[a][n] = listeners[a][n] /\ owner'[a][n] = owner[a][n]
    BY <1>5 DEF OthersSame, Name
  <1>7. Polite(t)
    BY <1>5, <1>6, LockedIsPolite
  <1>8. NoClose(r)
    BY <1>5 DEF Joins, NoClose, Unlock, Erase, AddToGroup, Step
  <1>9. CloseFirst(r)
    BY <1>8, CloseFirstPlain
  <1>10. ClosesFirst' /\ ClosedBehind'
    BY <1>1, <1>2, <1>3, <1>7, <1>8, <1>9, BehindAfter DEF GroupInv, NoClose
  <1>11. ASSUME NEW c \in Side, NEW n \in Group, Bridge \in listeners'[c][n]
         PROVE  \/ owner'[Other(c)][n] = Bridge /\ listeners'[Other(c)][n] # {}
                \/ \E x \in ToSet(r) : Asks(x, c, n) \/ TakesBack(x, c, n)
                \/ /\ Bridge \in listeners[c][n] /\ ~Known(c, n)
                   /\ ~Asks(Head(script[t]), c, n) /\ ~TakesBack(Head(script[t]), c, n)
    <2>1. Other(c) \in Side /\ Other(c) # c /\ Other(Other(c)) = c
      BY Sides
    <2>2. ~TakesBack(s, c, n)
      BY <1>2 DEF TakesBack
    <2>3. Asks(s, c, n) <=> Other(c) = b /\ who = Bridge /\ n = g
      BY <1>2, <1>3, <1>4 DEF Asks
    <2>4. CASE /\ owner[b][g] \in {Null, who} /\ owner'[b][g] = who
               /\ listeners'[b][g] = listeners[b][g] \cup {m}
      <3>1. Bridge \in listeners[c][n]
        BY <1>5, <1>6, <1>11, <2>4
      <3>2. CASE Other(c) = b /\ n = g
        <4>1. CASE who = Bridge
          BY <2>4, <3>2, <4>1
        <4>2. CASE who # Bridge
          <5>1. ~Known(c, n) /\ ~Asks(s, c, n)
            BY <2>3, <2>4, <3>2, <4>2, ActorsDiffer DEF Known
          <5> QED
            BY <1>1, <2>2, <3>1, <5>1
        <4> QED
          BY <4>1, <4>2
      <3>3. CASE ~(Other(c) = b /\ n = g)
        <4>1. owner'[Other(c)][n] = owner[Other(c)][n] /\ listeners'[Other(c)][n] = listeners[Other(c)][n]
          BY <1>6, <2>1, <3>3
        <4>2. ~Asks(s, c, n)
          BY <2>3, <3>3
        <4> QED
          BY <1>1, <2>2, <3>1, <4>1, <4>2 DEF Known
      <3> QED
        BY <3>2, <3>3
    <2>5. CASE /\ owner[b][g] \in {Null, who} /\ who # Bridge /\ owner'[b][g] = who
               /\ listeners'[b][g] = listeners[b][g] \cup {Bridge}
               /\ ToSet(r) = {Unlock(b), AddToGroup(Other(b), Bridge, g, m)}
      <3>1. ~Asks(s, c, n)
        BY <2>3, <2>5
      <3>2. CASE c = b /\ n = g
        <4>1. PICK x : x = AddToGroup(Other(b), Bridge, g, m)
          OBVIOUS
        <4>2. x \in ToSet(r)
          BY <2>5, <4>1
        <4>3. Asks(x, c, n)
          BY <3>2, <4>1 DEF Asks, AddToGroup, Step
        <4> QED
          BY <4>2, <4>3
      <3>3. CASE ~(c = b /\ n = g)
        <4>1. Bridge \in listeners[c][n]
          BY <1>6, <1>11, <3>3
        <4>2. CASE Other(c) = b /\ n = g
          <5>1. ~Known(c, n)
            BY <2>5, <4>2, ActorsDiffer DEF Known
          <5> QED
            BY <1>1, <2>2, <3>1, <4>1, <5>1
        <4>3. CASE ~(Other(c) = b /\ n = g)
          <5>1. owner'[Other(c)][n] = owner[Other(c)][n] /\ listeners'[Other(c)][n] = listeners[Other(c)][n]
            BY <1>6, <2>1, <4>3
          <5> QED
            BY <1>1, <2>2, <3>1, <4>1, <5>1 DEF Known
        <4> QED
          BY <4>2, <4>3
      <3> QED
        BY <3>2, <3>3
    <2>6. CASE /\ UNCHANGED <<owner, listeners>>
               /\ ToSet(r) = {Unlock(b)} \cup IF who = Bridge THEN {Erase(Other(b), Bridge, {g})} ELSE {}
      <3>1. Bridge \in listeners[c][n]
        BY <1>11, <2>6
      <3>2. CASE Asks(s, c, n)
        <4>1. Other(b) = c /\ who = Bridge /\ n = g
          BY <2>1, <2>3, <3>2
        <4>2. PICK x : x = Erase(Other(b), Bridge, {g})
          OBVIOUS
        <4>3. x \in ToSet(r)
          BY <2>6, <4>1, <4>2
        <4>4. TakesBack(x, c, n)
          BY <4>1, <4>2 DEF TakesBack, Erase, Step
        <4> QED
          BY <4>3, <4>4
      <3>3. CASE ~Asks(s, c, n)
        BY <1>1, <2>2, <2>6, <3>1, <3>3 DEF Known
      <3> QED
        BY <3>2, <3>3
    <2> QED
      BY <1>5, <2>4, <2>5, <2>6 DEF Joins
  <1>12. Forwarded'
    BY <1>3, <1>11, ForwardedAfter DEF GroupInv
  <1> QED
    BY <1>10, <1>12 DEF GroupInv

\* The bridge closes a group that its members have left on the other side, and is
\* itself no member of it.
LEMMA CloseOneGroupGroups ==
    ASSUME BusInv, GroupInv, NEW t \in Thread, CloseOneGroup(t)
    PROVE  GroupInv'
  <1>1. PICK s : s = Head(script[t])
    OBVIOUS
  <1>2. s.op = "close_group" /\ s.at \in Side
    BY <1>1, CloseOneGroupEffect
  <1>3. PICK r \in Seq(ValidStep), groups \in SUBSET Group :
          /\ groups = OpenGroups(s.at, s.who, s.names)
          /\ Goes(t, r) /\ UNCHANGED lockVars /\ Close(s.at, groups)
          /\ TellsClosed(r, s.at, groups)
    BY <1>1, CloseOneGroupEffect
  <1>4. PICK b : b = s.at
    OBVIOUS
  <1>5. b \in Side /\ Close(b, groups) /\ Other(b) \in Side
    BY <1>2, <1>3, <1>4, Sides
  <1>6. \A a \in Side, g \in Group :
          /\ listeners'[a][g] = IF a = b /\ g \in groups THEN {} ELSE listeners[a][g]
          /\ owner'[a][g] = IF a = b /\ g \in groups THEN Null ELSE owner[a][g]
    <2>1. Clears(b, groups)
      BY <1>5, CloseFields
    <2> QED
      BY <2>1 DEF Clears, Name
  <1>7. s \in ToSet(script[t]) /\ script[t] # <<>> /\ script[t] \in Seq(ValidStep)
    BY <1>1, <1>3, AtHand DEF Goes, BusInv
  <1>8. s.who = Bridge /\ mutex[Other(b)] = t /\ \A g \in s.names : listeners[Other(b)][g] = {}
    BY <1>2, <1>4, <1>7 DEF GroupInv, ClosedBehind, Behind
  <1>9. ToSet(r) = {}
    BY <1>3, <1>4, <1>5, <1>8 DEF BusInv, Owned, TellsClosed, OpenGroups
  <1>10. ClosesFirst'
    <2>1. CloseFirst(Tail(script[t])) /\ Tail(script[t]) \in Seq(ValidStep)
      BY <1>7, CloseFirstTail, ScriptAfter, <1>3 DEF GroupInv, ClosesFirst
    <2>2. CloseFirst(r \o Tail(script[t]))
      BY <1>9, <2>1, CloseFirstConcat
    <2>3. \A u \in Thread : CloseFirst(script'[u])
      BY <1>3, <2>2, ScriptAfter DEF GroupInv, ClosesFirst
    <2> QED
      BY <2>3 DEF ClosesFirst, CloseFirst
  <1>11. ClosedBehind'
    <2>1. ASSUME NEW u \in Thread, NEW x \in ToSet(script'[u]), x.op = "close_group"
          PROVE  x.who = Bridge /\ mutex'[Other(x.at)] = u
                 /\ \A g \in x.names : listeners'[Other(x.at)][g] = {}
      <3>1. x \in ToSet(script[u])
        BY <1>3, <1>9, ScriptAfter
      <3>2. Behind(x, u)
        BY <2>1, <3>1 DEF GroupInv, ClosedBehind
      <3>3. Other(x.at) \in Side /\ x.names \subseteq Group
        <4>1. script[u] \in Seq(ValidStep)
          BY DEF BusInv, TypeOK
        <4>2. x \in ValidStep
          BY <3>1, <4>1 DEF ToSet
        <4> QED
          BY <4>2, <2>1, Sides DEF ValidStep, Fits, StepType
      <3> QED
        BY <1>3, <1>6, <3>2, <3>3 DEF Behind, lockVars
    <2> QED
      BY <2>1 DEF ClosedBehind, Behind
  <1>12. ASSUME NEW c \in Side, NEW g \in Group, Bridge \in listeners'[c][g]
         PROVE  \/ owner'[Other(c)][g] = Bridge /\ listeners'[Other(c)][g] # {}
                \/ \E x \in ToSet(r) : Asks(x, c, g) \/ TakesBack(x, c, g)
                \/ /\ Bridge \in listeners[c][g] /\ ~Known(c, g)
                   /\ ~Asks(Head(script[t]), c, g) /\ ~TakesBack(Head(script[t]), c, g)
    <2>1. Bridge \in listeners[c][g] /\ Other(c) \in Side
      BY <1>6, <1>12, Sides
    <2>2. ~Asks(s, c, g) /\ ~TakesBack(s, c, g)
      BY <1>2 DEF Asks, TakesBack
    <2>3. ~(Other(c) = b /\ g \in groups)
      BY <1>3, <1>4, <1>8, <2>1, Sides DEF OpenGroups
    <2>4. owner'[Other(c)][g] = owner[Other(c)][g] /\ listeners'[Other(c)][g] = listeners[Other(c)][g]
      BY <1>6, <2>1, <2>3
    <2> QED
      BY <1>1, <2>1, <2>2, <2>4 DEF Known
  <1>13. Forwarded'
    BY <1>3, <1>12, ForwardedAfter DEF GroupInv
  <1> QED
    BY <1>10, <1>11, <1>13 DEF GroupInv

LEMMA LeaveGroups ==
    ASSUME BusInv, GroupInv, NEW t \in Thread, Leave(t)
    PROVE  GroupInv'
  <1>1. PICK s : s = Head(script[t])
    OBVIOUS
  <1>2. s.op = "leave" /\ s.at \in Side /\ s.who \in Listener
    BY <1>1, LeaveEffect
  <1>l. PICK r, first, rest, groups : Leaves(t, s.at, s.who, r, first, rest, groups)
    BY <1>1, LeaveEffect
  <1>3. /\ r \in Seq(ValidStep) /\ first \in Seq(ValidStep) /\ rest \in Seq(ValidStep)
        /\ groups \in SUBSET Group /\ groups = OwnGroups(s.at, s.who)
        /\ Goes(t, r) /\ Enters(t, s.at, r) /\ r = first \o rest
        /\ Close(s.at, groups)
        /\ TellsClosed(first, s.at, groups)
        /\ ToSet(rest) = {UnsubscribeAll(s.at, s.who), Unlock(s.at)}
        /\ ToSet(r) = ToSet(first) \cup ToSet(rest)
    BY <1>l DEF Leaves
  <1>4. PICK b : b = s.at
    OBVIOUS
  <1>5. b \in Side /\ Close(b, groups) /\ Other(b) \in Side /\ Other(Other(b)) = b /\ Acquire(t, b)
    BY <1>2, <1>3, <1>4, Sides DEF Enters
  <1>6. \A a \in Side, g \in Group :
          /\ listeners'[a][g] = IF a = b /\ g \in groups THEN {} ELSE listeners[a][g]
          /\ owner'[a][g] = IF a = b /\ g \in groups THEN Null ELSE owner[a][g]
    <2>1. Clears(b, groups)
      BY <1>3, <1>5, CloseFields
    <2> QED
      BY <2>1 DEF Clears, Name
  <1>7. Polite(t) /\ mutex'[b] = t
    BY <1>5, <1>6, LockedIsPolite
  <1>8. NoClose(rest)
    BY <1>3 DEF NoClose, UnsubscribeAll, Unlock, Step
  <1>9. \A x \in ToSet(first) : x.op = "close_group"
    BY <1>3 DEF TellsClosed, CloseGroup, Step
  <1>10. CloseFirst(r)
    BY <1>3, <1>8, <1>9, CloseFirstPlain, CloseFirstConcat
  <1>11. ASSUME NEW x \in ToSet(r), x.op = "close_group"
         PROVE  x.who = Bridge /\ mutex'[Other(x.at)] = t
                /\ \A g \in x.names : listeners'[Other(x.at)][g] = {}
    <2>1. x \in ToSet(first)
      BY <1>3, <1>8, <1>11 DEF NoClose
    <2>2. PICK g \in groups : x = CloseGroup(Other(b), Bridge, g)
      BY <1>3, <1>4, <2>1 DEF TellsClosed
    <2>3. x.who = Bridge /\ x.at = Other(b) /\ x.names = {g}
      BY <2>2 DEF CloseGroup, Step
    <2> QED
      BY <1>3, <1>5, <1>6, <1>7, <2>3
  <1>12. ClosesFirst' /\ ClosedBehind'
    BY <1>1, <1>2, <1>3, <1>7, <1>10, <1>11, BehindAfter DEF GroupInv
  <1>13. ASSUME NEW c \in Side, NEW g \in Group, Bridge \in listeners'[c][g]
         PROVE  \/ owner'[Other(c)][g] = Bridge /\ listeners'[Other(c)][g] # {}
                \/ \E x \in ToSet(r) : Asks(x, c, g) \/ TakesBack(x, c, g)
                \/ /\ Bridge \in listeners[c][g] /\ ~Known(c, g)
                   /\ ~Asks(Head(script[t]), c, g) /\ ~TakesBack(Head(script[t]), c, g)
    <2>1. Bridge \in listeners[c][g] /\ Other(c) \in Side
      BY <1>6, <1>13, Sides
    <2>2. ~Asks(s, c, g) /\ ~TakesBack(s, c, g)
      BY <1>2 DEF Asks, TakesBack
    <2>3. CASE Other(c) = b /\ g \in groups
      <3>1. ~Known(c, g)
        BY <1>2, <1>3, <1>4, <2>3, ActorsDiffer DEF Known, OwnGroups
      <3> QED
        BY <1>1, <2>1, <2>2, <3>1
    <2>4. CASE ~(Other(c) = b /\ g \in groups)
      <3>1. owner'[Other(c)][g] = owner[Other(c)][g] /\ listeners'[Other(c)][g] = listeners[Other(c)][g]
        BY <1>6, <2>1, <2>4
      <3> QED
        BY <1>1, <2>1, <2>2, <3>1 DEF Known
    <2> QED
      BY <2>3, <2>4
  <1>14. Forwarded'
    BY <1>3, <1>13, ForwardedAfter DEF GroupInv
  <1> QED
    BY <1>12, <1>14 DEF GroupInv

\* A thread that was idle has something to do that closes nothing.
LEMMA StartsGroups ==
    ASSUME BusInv, GroupInv, NEW t \in Thread, Idle(t), NEW q \in Seq(ValidStep), NoClose(q),
           script' = [script EXCEPT ![t] = q], UNCHANGED <<listeners, owner, mutex>>
    PROVE  GroupInv'
  <1>1. \A u \in Thread : script'[u] = IF u = t THEN q ELSE script[u]
    BY DEF BusInv, TypeOK
  <1>2. ToSet(script[t]) = {}
    BY DEF Idle, ToSet
  <1>3. ClosesFirst'
    <2>1. \A u \in Thread : CloseFirst(script'[u])
      BY <1>1, CloseFirstPlain DEF GroupInv, ClosesFirst
    <2> QED
      BY <2>1 DEF ClosesFirst, CloseFirst
  <1>4. ClosedBehind'
    <2>1. ASSUME NEW u \in Thread, NEW x \in ToSet(script'[u]), x.op = "close_group"
          PROVE  Behind(x, u)
      BY <1>1, <2>1 DEF GroupInv, ClosedBehind, NoClose
    <2> QED
      BY <2>1 DEF ClosedBehind, Behind
  <1>5. \A b \in Side, g \in Group : Pending(b, g) => Pending(b, g)'
    <2>1. ASSUME NEW b \in Side, NEW g \in Group, Pending(b, g)
          PROVE  Pending(b, g)'
      <3>1. PICK u \in Thread : \E x \in ToSet(script[u]) : Asks(x, b, g) \/ TakesBack(x, b, g)
        BY <2>1 DEF Pending
      <3>2. u # t
        BY <1>2, <3>1
      <3>3. script'[u] = script[u]
        BY <1>1, <3>2
      <3> QED
        BY <3>1, <3>3 DEF Pending, Asks, TakesBack
    <2> QED
      BY <2>1
  <1>6. Forwarded'
    BY <1>5 DEF GroupInv, Forwarded, Known
  <1> QED
    BY <1>3, <1>4, <1>6 DEF GroupInv

LEMMA CallGroups ==
    ASSUME BusInv, GroupInv, "close_group" \notin Calls, NEW t \in Thread, Call(t) \/ Connect(t)
    PROVE  GroupInv'
  <1>1. CASE Call(t)
    <2>1. Idle(t) /\ UNCHANGED <<busVars, bridgeVars, changed, lockVars>>
      BY <1>1, CallEffect
    <2>2. PICK x \in ValidStep :
            /\ script' = [script EXCEPT ![t] = <<x>>]
            /\ x.op = "close_group" => "close_group" \in Calls
            /\ x.op \in {"add", "erase", "leave", "add_to_group", "close_group"}
      BY <1>1, CallEffect
    <2>3. PICK q : q = <<x>>
      OBVIOUS
    <2>4. q \in Seq(ValidStep) /\ NoClose(q) /\ script' = [script EXCEPT ![t] = q]
      BY <2>2, <2>3, OneStep, OneNoClose
    <2>5. UNCHANGED <<listeners, owner, mutex>>
      BY <2>1 DEF busVars, lockVars
    <2> QED
      BY <2>1, <2>4, <2>5, StartsGroups
  <1>2. CASE Connect(t)
    <2>1. /\ Idle(t) /\ script' = [script EXCEPT ![t] = ConnectScript]
          /\ UNCHANGED <<busVars, told, callers, changed, lockVars, calls>>
      BY <1>2, ConnectEffect
    <2>2. ConnectScript \in Seq(ValidStep)
      BY ConnectSteps
    <2>3. NoClose(ConnectScript)
      <3>1. ASSUME NEW i \in 1 .. 6
            PROVE  ConnectScript[i].op # "close_group"
        <4>1. i = 1 \/ i = 2 \/ i = 3 \/ i = 4 \/ i = 5 \/ i = 6
          OBVIOUS
        <4> QED
          BY <4>1, ConnectSteps DEF UnsubscribeAll, Step
      <3> QED
        BY <3>1, ConnectSteps DEF NoClose
    <2>4. UNCHANGED <<listeners, owner, mutex>>
      BY <2>1 DEF busVars, lockVars
    <2> QED
      BY <2>1, <2>2, <2>3, <2>4, StartsGroups
  <1> QED
    BY <1>1, <1>2

LEMMA GroupStep ==
    ASSUME "close_group" \notin Calls, BusInv, GroupInv, [Next]_vars
    PROVE  GroupInv'
  <1>1. CASE UNCHANGED vars
    BY <1>1 DEF vars, busVars, lockVars, GroupInv, ClosesFirst, CloseFirst, ClosedBehind, Behind,
                Forwarded, Known, Pending
  <1>2. ASSUME NEW t \in Thread, Call(t) \/ Connect(t) \/ Work(t)
        PROVE  GroupInv'
    <2>1. CASE Call(t) \/ Connect(t)
      BY <2>1, CallGroups
    <2>2. CASE Work(t)
      BY <2>2, SubscribeGroups, ReplaceGroups, UnsubscribeGroups, AddMemberGroups,
         CloseOneGroupGroups, LeaveGroups, UnlockGroups, EnterGroups, CollectGroups, ReleaseGroups
         DEF Work
    <2> QED
      BY <1>2, <2>1, <2>2
  <1> QED
    BY <1>1, <1>2 DEF Next

LEMMA GroupInit == Init => GroupInv
  <1> SUFFICES ASSUME Init
               PROVE  GroupInv
    OBVIOUS
  <1>1. BusInv
    BY BusInit
  <1>2. \A t \in Thread : script[t] = <<>>
    BY DEF Init
  <1>3. \A t \in Thread : ToSet(script[t]) = {} /\ CloseFirst(script[t])
    BY <1>2 DEF ToSet, CloseFirst
  <1>4. \A b \in Side, g \in Group : listeners[b][g] = {}
    <2>1. \A b \in Side, g \in Group : owner[b][g] = Null
      BY DEF Init, Name
    <2> QED
      BY <1>1, <2>1 DEF BusInv, Owned
  <1> QED
    BY <1>3, <1>4 DEF GroupInv, ClosesFirst, ClosedBehind, Forwarded

LEMMA GroupsAtRest == BusInv /\ GroupInv => ForwardedIsKnown
  <1> SUFFICES ASSUME BusInv, GroupInv, AtRest,
                      NEW b \in Side, NEW g \in Group \cap Subscribed(b, Bridge)
               PROVE  owner[Other(b)][g] = Bridge /\ listeners[Other(b)][g] # {}
    BY DEF ForwardedIsKnown
  <1>1. Bridge \in listeners[b][g]
    BY DEF Subscribed
  <1>2. ~Pending(b, g)
    BY DEF AtRest, Idle, Pending, ToSet
  <1> QED
    BY <1>1, <1>2 DEF GroupInv, Forwarded, Known

\* listener.h:72-81: at rest a bridge that is a member of a group stands for
\* members on the other side, in every instance whose programs close groups with
\* unsubscribe_all only.  Without that condition it does not hold.
THEOREM ForwardedIsAlwaysKnown ==
    ASSUME "close_group" \notin Calls
    PROVE  Spec => []ForwardedIsKnown
  <1>1. Init => BusInv /\ GroupInv
    BY BusInit, GroupInit
  <1>2. (BusInv /\ GroupInv) /\ [Next]_vars => (BusInv /\ GroupInv)'
    BY BusStep, GroupStep
  <1>3. BusInv /\ GroupInv => ForwardedIsKnown
    BY GroupsAtRest
  <1> QED
    BY <1>1, <1>2, <1>3, PTL DEF Spec

-----------------------------------------------------------------------------
(* What a bridge subscribes is what the other one announced.               *)

\* What is to be done by some thread; what the bridge subscribes at each broker,
\* and what listeners do.
Due == UNION {ToSet(script[t]) : t \in Thread}
Taken == [b \in Side |-> {c \in Chan : Bridge \in listeners[b][c]}]
Offered == [b \in Side |-> Exported(b)]

\* A change of a broker's channels that comes over the bridge; a step of an
\* announcement whose counter is up; a step before the list is collected.
Update(x, b) ==
    /\ x.op \in {"add", "erase", "replace"} /\ x.at = b /\ x.who = Bridge
    /\ x.op = "erase" => x.names \cap Chan # {}
Runs(a) == {x \in StepType : x.op \in {"collect", "collect_all", "release"} /\ x.at = a}
Looks(x, a) == x.op \in {"announce", "announce_all", "collect", "collect_all"} /\ x.at = a
Releasing(x, a) == x.op = "release" /\ x.at = a

\* The steps that only connect() makes.  While the first broker's whole list is to
\* be announced, the two are not joined.
Drops(x, b) == x.op = "unsubscribe_all_channels" /\ x.at = b /\ x.who = Bridge
Whole(x) == x.op \in {"announce_all", "collect_all"} /\ x.at = 1
JoinStep(x) == x.op \in {"announce_all", "collect_all"} \/ Drops(x, 1) \/ Drops(x, 2)
Joining == \E x \in Due : Whole(x)
Beginning == \E x \in Due : Drops(x, 2)
Apart == ~connected \/ Joining

\* The counter is up while, and only while, one thread is at an announcement.
OneRuns ==
    \A a \in Side :
        /\ callers[a].all = 0 => \A t \in Thread : Count(script[t], Runs(a)) = 0
        /\ callers[a].all # 0 =>
             \E t \in Thread : /\ Count(script[t], Runs(a)) = 1
                               /\ \A u \in Thread \ {t} : Count(script[u], Runs(a)) = 0

\* The order of what a thread has to do.
MayPrecede(x, y) ==
    /\ Whole(x) => y.op = "announce"
    /\ x.op = "announce_all" => ~(y.op = "announce_all" /\ y.at = x.at)
    /\ x.op = "release" => ~Update(y, Other(x.at))
Ordered(q) == \A i, j \in 1 .. Len(q) : i < j => MayPrecede(q[i], q[j])
InOrder ==
    /\ \A t \in Thread : Ordered(script[t])
    /\ \A t \in Thread, a \in Side :
         (\E x \in ToSet(script[t]) : Update(x, Other(a))) => \E y \in ToSet(script[t]) : Releasing(y, a)

\* connect() works alone, and once.
Alone ==
    /\ (\E x \in Due : JoinStep(x)) => connected /\ Joining
    /\ Joining => /\ \A t, u \in Thread : t = u \/ script[t] = <<>> \/ script[u] = <<>>
                  /\ \A x \in Due : x.who \notin Listener
    /\ Beginning => \A t \in Thread : script[t] \in {<<>>, ConnectScript}
    /\ \A a \in Side :
         /\ callers[a].resets <= 1
         /\ ~connected => callers[a].resets = 0
         /\ \A x \in Due : x.op = "announce_all" /\ x.at = a => callers[a].resets = 0

\* Until the brokers are joined, nothing is subscribed at the second one.
Quiet ==
    Apart =>
      /\ Offered[2] = {} /\ Taken[1] = {} /\ told[2] = {}
      /\ \A x \in Due : /\ ~Update(x, 1)
                        /\ Releasing(x, 2) => x.names = {}
                        /\ x.who \in Listener => x.at = 1

\* The updates in U, done at broker b where T is subscribed, make it L.
Adding(U, b, c) == \E x \in U : Update(x, b) /\ x.op = "add" /\ c \in x.names
Erasing(U, b, c) == \E x \in U : Update(x, b) /\ x.op = "erase" /\ c \in x.names
Replacing(U, b) == \E x \in U : Update(x, b) /\ x.op = "replace"
Brings(T, U, b, L) ==
    /\ \A c \in Chan : ~(Adding(U, b, c) /\ Erasing(U, b, c))
    /\ Replacing(U, b) => \A x \in U : Update(x, b) => x.op = "replace" /\ x.names = L
    /\ ~Replacing(U, b) =>
         \A c \in Chan : c \in L <=> (c \in T \/ Adding(U, b, c)) /\ ~Erasing(U, b, c)

\* The list that was announced last, or is being announced.
Listed(a, L) ==
    \/ \E x \in Due : Releasing(x, a) /\ x.names = L
    \/ (\A x \in Due : ~Releasing(x, a)) /\ L = told[a]
Exact(a) == \A L \in SUBSET Chan : Listed(a, L) => Brings(Taken[Other(a)], Due, Other(a), L)
Partial ==
    /\ Taken[2] \subseteq Offered[1]
    /\ \A x \in Due : Update(x, 2) /\ x.op # "erase" => x.names \subseteq Offered[1]
Agreed ==
    /\ ~Joining => \A a \in Side : Exact(a)
    /\ Joining /\ ~Beginning => Partial

\* A list that is not the one announced will be looked at again.
Fresh(a) ==
    \/ Listed(a, Offered[a])
    \/ changed[a] /\ mutex[a] # Null
    \/ \E x \in Due : Looks(x, a)
    \/ callers[a].all > 1
Watched == connected => \A a \in Side : Fresh(a)

ChanInv == OneRuns /\ InOrder /\ Alone /\ Quiet /\ Agreed /\ Watched

\* Updates that are done, and updates that are begun.
LEMMA SameUpdates ==
    ASSUME NEW b, NEW T, NEW U, NEW V, NEW L, Brings(T, U, b, L),
           \A x \in V : Update(x, b) => x \in U, \A x \in U : Update(x, b) => x \in V
    PROVE  Brings(T, V, b, L)
  <1>1. \A c : (Adding(V, b, c) <=> Adding(U, b, c)) /\ (Erasing(V, b, c) <=> Erasing(U, b, c))
    BY DEF Adding, Erasing
  <1>2. Replacing(V, b) <=> Replacing(U, b)
    BY DEF Replacing
  <1> QED
    BY <1>1, <1>2 DEF Brings

LEMMA NoUpdates ==
    ASSUME NEW b, NEW T \in SUBSET Chan, NEW U, NEW L \in SUBSET Chan,
           \A x \in U : ~Update(x, b)
    PROVE  Brings(T, U, b, L) <=> L = T
  <1>1. \A c : ~Adding(U, b, c) /\ ~Erasing(U, b, c)
    BY DEF Adding, Erasing
  <1>2. ~Replacing(U, b)
    BY DEF Replacing
  <1> QED
    BY <1>1, <1>2 DEF Brings

\* What the bridge subscribes at a broker after an update.
Outcome(x, T) ==
    IF x.op = "add" THEN T \cup x.names ELSE IF x.op = "erase" THEN T \ x.names ELSE x.names

LEMMA UpdateDone ==
    ASSUME NEW b, NEW T \in SUBSET Chan, NEW U, NEW V, NEW L \in SUBSET Chan, Brings(T, U, b, L),
           NEW s \in U, Update(s, b), s.op # "erase" => s.names \subseteq Chan,
           \A x \in V : Update(x, b) => x \in U,
           \A x \in U : Update(x, b) => x \in V \/ x = s
    PROVE  Brings(Outcome(s, T), V, b, L)
  <1>1. \A c : /\ Adding(V, b, c) => Adding(U, b, c)
               /\ Erasing(V, b, c) => Erasing(U, b, c)
               /\ Adding(U, b, c) => Adding(V, b, c) \/ (s.op = "add" /\ c \in s.names)
               /\ Erasing(U, b, c) => Erasing(V, b, c) \/ (s.op = "erase" /\ c \in s.names)
    BY DEF Adding, Erasing
  <1>2. Replacing(V, b) => Replacing(U, b)
    BY DEF Replacing
  <1>3. \A c \in Chan : ~(Adding(V, b, c) /\ Erasing(V, b, c))
    BY <1>1 DEF Brings
  <1>4. ASSUME Replacing(V, b)
        PROVE  \A x \in V : Update(x, b) => x.op = "replace" /\ x.names = L
    BY <1>2, <1>4 DEF Brings
  <1>5. ASSUME ~Replacing(V, b), NEW c \in Chan
        PROVE  c \in L <=> (c \in Outcome(s, T) \/ Adding(V, b, c)) /\ ~Erasing(V, b, c)
    <2>1. CASE s.op = "replace"
      <3>1. Replacing(U, b)
        BY <2>1 DEF Replacing
      <3>2. s.names = L /\ \A x \in U : Update(x, b) => x.op = "replace"
        BY <3>1 DEF Brings
      <3>3. \A x \in V : ~Update(x, b)
        BY <1>5, <3>2 DEF Replacing
      <3> QED
        BY <2>1, <3>2, <3>3 DEF Outcome, Adding, Erasing
    <2>2. CASE s.op # "replace"
      <3>1. ~Replacing(U, b)
        BY <2>2 DEF Brings
      <3>2. /\ c \in L <=> (c \in T \/ Adding(U, b, c)) /\ ~Erasing(U, b, c)
            /\ ~(Adding(U, b, c) /\ Erasing(U, b, c))
        BY <3>1 DEF Brings
      <3>3. CASE s.op = "add"
        <4>1. c \in s.names => Adding(U, b, c)
          BY <3>3 DEF Adding
        <4> QED
          BY <1>1, <3>2, <3>3, <4>1 DEF Outcome
      <3>4. CASE s.op = "erase"
        <4>1. c \in s.names => Erasing(U, b, c)
          BY <3>4 DEF Erasing
        <4> QED
          BY <1>1, <3>2, <3>4, <4>1 DEF Outcome
      <3> QED
        BY <2>2, <3>3, <3>4 DEF Update
    <2> QED
      BY <2>1, <2>2
  <1> QED
    BY <1>3, <1>4, <1>5 DEF Brings

LEMMA ListBrings ==
    ASSUME NEW b \in Side, NEW old \in SUBSET Chan, NEW new \in SUBSET Chan, NEW op,
           NEW T \in SUBSET Chan, op # "collect_all" => T = old, op = "collect_all" => T \subseteq new,
           NEW V, NEW first, first = UpdateList(b, old, new, op),
           \A x \in V : Update(x, b) => x \in ToSet(first), ToSet(first) \subseteq V
    PROVE  Brings(T, V, b, new)
  <1> DEFINE whole == old = {} \/ op = "collect_all"
  <1>1. /\ whole /\ new = {} => ToSet(first) = {}
        /\ whole /\ new # {} => ToSet(first) = {Replace(b, Bridge, new)}
        /\ ~whole /\ new = {} => ToSet(first) = {Replace(b, Bridge, {})}
        /\ ~whole /\ new # {} => ToSet(first) =
              (IF new \subseteq old THEN {} ELSE {Add(b, Bridge, new \ old)})
              \cup (IF old \subseteq new THEN {} ELSE {Erase(b, Bridge, old \ new)})
    <2>1. ListOfUpdates(first, b, old, new, op)
      BY UpdatesListed
    <2> QED
      BY <2>1 DEF ListOfUpdates
  <1>2. CASE whole /\ new = {}
    <2>1. \A x \in V : ~Update(x, b)
      BY <1>1, <1>2
    <2>2. T = new
      BY <1>2
    <2> QED
      BY <2>1, <2>2, NoUpdates
  <1>3. CASE (whole /\ new # {}) \/ (~whole /\ new = {})
    <2>1. PICK x : x = Replace(b, Bridge, new)
      OBVIOUS
    <2>2. ToSet(first) = {x}
      BY <1>1, <1>3, <2>1
    <2>3. x.op = "replace" /\ x.names = new /\ Update(x, b)
      BY <2>1 DEF Replace, Step, Update
    <2>4. \A y \in V : Update(y, b) => y = x
      BY <2>2
    <2>5. x \in V
      BY <2>2
    <2> HIDE <2>1
    <2>6. Replacing(V, b)
      BY <2>3, <2>5 DEF Replacing
    <2>7. \A c : ~Adding(V, b, c)
      BY <2>3, <2>4 DEF Adding
    <2> QED
      BY <2>3, <2>4, <2>6, <2>7 DEF Brings
  <1>4. CASE ~whole /\ new # {}
    <2>1. PICK a : a = Add(b, Bridge, new \ old)
      OBVIOUS
    <2>2. PICK e : e = Erase(b, Bridge, old \ new)
      OBVIOUS
    <2>3. ToSet(first) = (IF new \subseteq old THEN {} ELSE {a}) \cup (IF old \subseteq new THEN {} ELSE {e})
      BY <1>1, <1>4, <2>1, <2>2
    <2>4. /\ a.op = "add" /\ a.names = new \ old /\ Update(a, b)
          /\ e.op = "erase" /\ e.names = old \ new /\ ((old \ new # {}) => Update(e, b))
      BY <2>1, <2>2 DEF Add, Erase, Step, Update
    <2>5. \A y \in V : Update(y, b) => y = a \/ y = e
      BY <2>3
    <2>6. /\ ~(new \subseteq old) => a \in V
          /\ ~(old \subseteq new) => e \in V
      BY <2>3
    <2> HIDE <2>1, <2>2, <2>3, <1>1
    <2>7. \A c : Adding(V, b, c) <=> c \in new \ old
      <3>1. \A c : Adding(V, b, c) => c \in new \ old
        BY <2>4, <2>5 DEF Adding
      <3>2. ASSUME NEW c \in new \ old PROVE Adding(V, b, c)
        <4>1. a \in V
          BY <2>6
        <4> QED
          BY <2>4, <4>1 DEF Adding
      <3> QED
        BY <3>1, <3>2
    <2>8. \A c : Erasing(V, b, c) <=> c \in old \ new
      <3>1. \A c : Erasing(V, b, c) => c \in old \ new
        BY <2>4, <2>5 DEF Erasing
      <3>2. ASSUME NEW c \in old \ new PROVE Erasing(V, b, c)
        <4>1. e \in V
          BY <2>6
        <4> QED
          BY <2>4, <4>1 DEF Erasing
      <3> QED
        BY <3>1, <3>2
    <2>9. ~Replacing(V, b)
      BY <2>4, <2>5 DEF Replacing
    <2>10. T = old
      BY <1>4
    <2> QED
      BY <2>7, <2>8, <2>9, <2>10 DEF Brings
  <1> QED
    BY <1>2, <1>3, <1>4

LEMMA ListPartial ==
    ASSUME NEW b \in Side, NEW old \in SUBSET Chan, NEW new \in SUBSET Chan, NEW op,
           NEW first, first = UpdateList(b, old, new, op)
    PROVE  /\ \A x \in ToSet(first) : x.op # "erase" => x.names \subseteq new
           /\ old = {} /\ new = {} => ToSet(first) = {}
  <1> DEFINE whole == old = {} \/ op = "collect_all"
  <1>1. /\ whole /\ new = {} => ToSet(first) = {}
        /\ whole /\ new # {} => ToSet(first) = {Replace(b, Bridge, new)}
        /\ ~whole /\ new = {} => ToSet(first) = {Replace(b, Bridge, {})}
        /\ ~whole /\ new # {} => ToSet(first) =
              (IF new \subseteq old THEN {} ELSE {Add(b, Bridge, new \ old)})
              \cup (IF old \subseteq new THEN {} ELSE {Erase(b, Bridge, old \ new)})
    <2>1. ListOfUpdates(first, b, old, new, op)
      BY UpdatesListed
    <2> QED
      BY <2>1 DEF ListOfUpdates
  <1>2. ToSet(first) \subseteq {Replace(b, Bridge, new), Replace(b, Bridge, {}), Add(b, Bridge, new \ old),
                                Erase(b, Bridge, old \ new)}
    BY <1>1
  <1>3. /\ Replace(b, Bridge, new).names = new /\ Replace(b, Bridge, {}).names = {}
        /\ Add(b, Bridge, new \ old).names = new \ old /\ Erase(b, Bridge, old \ new).op = "erase"
    BY DEF Replace, Add, Erase, Step
  <1> QED
    BY <1>1, <1>2, <1>3

\* The order of the steps in a script.
LEMMA OrderedTail ==
    ASSUME NEW q \in Seq(ValidStep), q # <<>>, Ordered(q)
    PROVE  Ordered(Tail(q)) /\ \A y \in ToSet(Tail(q)) : MayPrecede(Head(q), y)
  <1>1. PICK w : w = Tail(q)
    OBVIOUS
  <1>2. /\ w \in Seq(ValidStep) /\ Len(w) = Len(q) - 1
        /\ \A i \in 1 .. Len(w) : w[i] = q[i + 1]
        /\ Len(q) \in Nat \ {0} /\ Head(q) = q[1]
    BY <1>1, HeadTailProperties
  <1>3. \A i \in 1 .. Len(w) : i + 1 \in 1 .. Len(q) /\ w[i] = q[i + 1] /\ 1 \in 1 .. Len(q) /\ 1 < i + 1
    BY <1>2
  <1>4. ASSUME NEW i \in 1 .. Len(w), NEW j \in 1 .. Len(w), i < j
        PROVE  MayPrecede(w[i], w[j])
    <2>1. i + 1 < j + 1
      BY <1>4
    <2> QED
      BY <1>3, <2>1 DEF Ordered
  <1>5. ASSUME NEW y \in ToSet(w)
        PROVE  MayPrecede(Head(q), y)
    <2>1. PICK i \in 1 .. Len(w) : y = w[i]
      BY <1>2 DEF ToSet
    <2> QED
      BY <2>1, <1>2, <1>3 DEF Ordered
  <1> QED
    BY <1>1, <1>4, <1>5 DEF Ordered

LEMMA OrderedConcat ==
    ASSUME NEW p \in Seq(ValidStep), NEW q \in Seq(ValidStep), Ordered(p), Ordered(q),
           \A x \in ToSet(p), y \in ToSet(q) : MayPrecede(x, y)
    PROVE  Ordered(p \o q)
  <1>1. PICK w : w = p \o q
    OBVIOUS
  <1>2. /\ w \in Seq(ValidStep) /\ Len(w) = Len(p) + Len(q)
        /\ \A i \in 1 .. Len(p) + Len(q) : w[i] = IF i <= Len(p) THEN p[i] ELSE q[i - Len(p)]
        /\ Len(p) \in Nat /\ Len(q) \in Nat
    BY <1>1, ConcatProperties
  <1>3. \A i \in 1 .. Len(w) : \/ i \in 1 .. Len(p) /\ w[i] = p[i] /\ p[i] \in ToSet(p)
                               \/ /\ i > Len(p) /\ i - Len(p) \in 1 .. Len(q) /\ w[i] = q[i - Len(p)]
                                  /\ q[i - Len(p)] \in ToSet(q)
    BY <1>2 DEF ToSet
  <1>4. ASSUME NEW i \in 1 .. Len(w), NEW j \in 1 .. Len(w), i < j
        PROVE  MayPrecede(w[i], w[j])
    <2>1. CASE i \in 1 .. Len(p) /\ w[i] = p[i] /\ p[i] \in ToSet(p)
      <3>1. CASE j \in 1 .. Len(p) /\ w[j] = p[j]
        BY <2>1, <3>1, <1>4 DEF Ordered
      <3>2. CASE w[j] \in ToSet(q)
        BY <2>1, <3>2
      <3> QED
        BY <3>1, <3>2, <1>3
    <2>2. CASE i > Len(p) /\ i - Len(p) \in 1 .. Len(q) /\ w[i] = q[i - Len(p)]
      <3>1. j - Len(p) \in 1 .. Len(q) /\ w[j] = q[j - Len(p)] /\ i - Len(p) < j - Len(p)
        BY <2>2, <1>2, <1>3, <1>4
      <3> QED
        BY <2>2, <3>1 DEF Ordered
    <2> QED
      BY <2>1, <2>2, <1>3
  <1> QED
    BY <1>1, <1>4 DEF Ordered

\* Steps that may stand before any.
Modest(x) == x.op \notin {"announce_all", "collect_all", "release"}

LEMMA ModestOrdered ==
    ASSUME NEW q \in Seq(ValidStep), (\A x \in ToSet(q) : Modest(x)) \/ Len(q) = 1
    PROVE  Ordered(q)
  <1>1. \A i \in 1 .. Len(q) : q[i] \in ToSet(q)
    BY DEF ToSet
  <1>2. CASE Len(q) = 1
    BY <1>2 DEF Ordered
  <1>3. CASE \A x \in ToSet(q) : Modest(x)
    BY <1>1, <1>3 DEF Ordered, Modest, MayPrecede, Whole
  <1> QED
    BY <1>2, <1>3

LEMMA OrderAfter ==
    ASSUME BusInv, InOrder, NEW t \in Thread, NEW r, Goes(t, r), Ordered(r),
           \A x \in ToSet(r), y \in ToSet(Tail(script[t])) : Modest(x) \/ MayPrecede(x, y)
    PROVE  /\ \A u \in Thread : Ordered(script'[u])
           /\ \A y \in ToSet(Tail(script[t])) : MayPrecede(Head(script[t]), y)
  <1>1. r \in Seq(ValidStep) /\ script[t] \in Seq(ValidStep) /\ script[t] # <<>>
    BY ScriptAfter DEF Goes
  <1>2. PICK w : w = Tail(script[t])
    OBVIOUS
  <1>3. /\ w \in Seq(ValidStep) /\ script'[t] = r \o w
        /\ \A u \in Thread \ {t} : script'[u] = script[u]
    BY <1>2, ScriptAfter
  <1>4. Ordered(w) /\ \A y \in ToSet(w) : MayPrecede(Head(script[t]), y)
    BY <1>1, <1>2, OrderedTail DEF InOrder
  <1>5. \A x \in ToSet(r), y \in ToSet(w) : MayPrecede(x, y)
    BY <1>2 DEF Modest, MayPrecede, Whole
  <1>6. Ordered(r \o w)
    BY <1>1, <1>3, <1>4, <1>5, OrderedConcat
  <1> QED
    BY <1>2, <1>3, <1>4, <1>6 DEF InOrder

\* What is due after a step.
LEMMA DueNow ==
    ASSUME BusInv
    PROVE  /\ Due \subseteq ValidStep
           /\ \A t \in Thread : /\ ToSet(script[t]) \subseteq Due
                                /\ script[t] # <<>> => Head(script[t]) \in Due
  <1>1. \A t \in Thread : script[t] \in Seq(ValidStep)
    BY DEF BusInv, TypeOK
  <1>2. \A t \in Thread : ToSet(script[t]) \subseteq ValidStep
    BY <1>1 DEF ToSet
  <1>3. \A t \in Thread : script[t] # <<>> => Head(script[t]) \in ToSet(script[t])
    BY AtHand DEF BusInv
  <1> QED
    BY <1>2, <1>3 DEF Due

LEMMA DueAfter ==
    ASSUME BusInv, NEW t \in Thread, NEW r, Goes(t, r)
    PROVE  /\ Due \subseteq ValidStep /\ Due' \subseteq ValidStep
           /\ Head(script[t]) \in Due
           /\ \A x \in Due' : x \in Due \/ x \in ToSet(r)
           /\ \A x \in Due : x \in Due' \/ x = Head(script[t])
           /\ ToSet(r) \subseteq Due'
  <1>1. Due \subseteq ValidStep /\ Head(script[t]) \in Due
    BY DueNow DEF Goes
  <1>2. /\ \A u \in Thread : \A x \in ToSet(script[u]) :
             x \in ToSet(script'[u]) \/ (u = t /\ x = Head(script[t]))
        /\ \A u \in Thread : \A x \in ToSet(script'[u]) :
             x \in ToSet(script[u]) \/ (u = t /\ x \in ToSet(r))
        /\ ToSet(r) \subseteq ToSet(script'[t])
    BY ScriptAfter
  <1>3. /\ \A x \in Due' : x \in Due \/ x \in ToSet(r)
        /\ \A x \in Due : x \in Due' \/ x = Head(script[t])
        /\ ToSet(r) \subseteq Due'
    BY <1>2 DEF Due
  <1>4. ToSet(r) \subseteq ValidStep
    BY DEF Goes, ToSet
  <1> QED
    BY <1>1, <1>3, <1>4

\* The script of connect() begins with the only step of its kind.
LEMMA BeginningEnds ==
    ASSUME BusInv, Alone, NEW t \in Thread, NEW r, Goes(t, r), \A x \in ToSet(r) : ~Drops(x, 2)
    PROVE  /\ ~Beginning'
           /\ Beginning => /\ Head(script[t]) = UnsubscribeAll(2, Bridge)
                           /\ \A x \in Due : x = Head(script[t]) \/ ~Update(x, 2)
  <1>1. \A y \in ToSet(ConnectScript) : y = UnsubscribeAll(2, Bridge) \/ (~Drops(y, 2) /\ ~Update(y, 2))
    <2>1. PICK c : c = ConnectScript
      OBVIOUS
    <2>2. /\ c[1] = UnsubscribeAll(2, Bridge) /\ c[3].op = "unsubscribe_all_channels" /\ c[3].at = 1
          /\ c[2].op = "announce_all" /\ c[4].op = "announce_all"
          /\ c[5].op = "announce" /\ c[6].op = "announce"
      BY <2>1, ConnectSteps DEF UnsubscribeAll, Step
    <2>3. ToSet(c) = {c[i] : i \in 1 .. 6}
      BY <2>1, ConnectSteps
    <2>4. \A i \in 1 .. 6 : c[i] \in {c[1], c[2], c[3], c[4], c[5], c[6]}
      <3>1. \A i \in 1 .. 6 : i = 1 \/ i = 2 \/ i = 3 \/ i = 4 \/ i = 5 \/ i = 6
        OBVIOUS
      <3> QED
        BY <3>1
    <2>5. \A y \in {c[2], c[3], c[4], c[5], c[6]} : ~Drops(y, 2) /\ ~Update(y, 2)
      BY <2>2 DEF Drops, Update
    <2> QED
      BY <2>1, <2>2, <2>3, <2>4, <2>5
  <1>2. \A y \in ToSet(Tail(ConnectScript)) : ~Drops(y, 2)
    <2>1. PICK c : c = ConnectScript
      OBVIOUS
    <2>2. PICK w : w = Tail(c)
      OBVIOUS
    <2>3. /\ c \in Seq(ValidStep) /\ Len(c) = 6
          /\ c[2].op = "announce_all" /\ c[3].at = 1 /\ c[4].op = "announce_all"
          /\ c[5].op = "announce" /\ c[6].op = "announce"
      BY <2>1, ConnectSteps DEF UnsubscribeAll, Step
    <2>4. w \in Seq(ValidStep) /\ Len(w) = 5 /\ \A i \in 1 .. 5 : w[i] = c[i + 1]
      <3>1. c # <<>>
        BY <2>3
      <3>2. /\ w \in Seq(ValidStep) /\ Len(w) = Len(c) - 1
            /\ \A i \in 1 .. Len(w) : w[i] = c[i + 1]
        BY <2>2, <2>3, <3>1, HeadTailProperties
      <3> QED
        BY <2>3, <3>2
    <2>5. \A i \in 1 .. 5 : ~Drops(w[i], 2)
      <3>1. \A i \in 1 .. 5 : i = 1 \/ i = 2 \/ i = 3 \/ i = 4 \/ i = 5
        OBVIOUS
      <3> QED
        BY <3>1, <2>3, <2>4 DEF Drops
    <2> QED
      BY <2>1, <2>2, <2>4, <2>5 DEF ToSet
  <1>3. Head(ConnectScript) = UnsubscribeAll(2, Bridge)
    BY DEF ConnectScript
  <1>4. /\ script[t] # <<>>
        /\ \A u \in Thread \ {t} : script'[u] = script[u]
        /\ \A x \in ToSet(script'[t]) : x \in ToSet(r) \/ x \in ToSet(Tail(script[t]))
    BY ScriptAfter DEF Goes
  <1>5. CASE Beginning
    <2>1. Joining /\ \A u \in Thread : script[u] \in {<<>>, ConnectScript}
      BY <1>5 DEF Alone, Beginning, JoinStep
    <2>2. script[t] = ConnectScript /\ \A u \in Thread \ {t} : script[u] = <<>>
      BY <1>4, <2>1 DEF Alone
    <2>3. ToSet(<<>>) = {}
      BY NoSteps
    <2>4. \A u \in Thread : \A x \in ToSet(script'[u]) : ~Drops(x, 2)
      BY <1>2, <1>4, <2>2, <2>3
    <2>5. ~Beginning'
      BY <2>4 DEF Beginning, Due
    <2>6. \A x \in Due : x \in ToSet(ConnectScript)
      BY <2>2, <2>3 DEF Due
    <2> QED
      BY <1>1, <1>3, <2>2, <2>5, <2>6
  <1>6. CASE ~Beginning
    <2>1. \A x \in Due' : x \in Due \/ x \in ToSet(r)
      BY DueAfter
    <2> QED
      BY <1>6, <2>1 DEF Beginning
  <1> QED
    BY <1>5, <1>6

\* Who is at an announcement after a step.
LEMMA RunsKept ==
    ASSUME BusInv, OneRuns, NEW t \in Thread, NEW r, Goes(t, r),
           \A a \in Side : Count(r, Runs(a)) = IF Head(script[t]) \in Runs(a) THEN 1 ELSE 0,
           \A a \in Side : callers'[a].all = 0 <=> callers[a].all = 0
    PROVE  OneRuns'
  <1>1. TypeOK /\ script[t] # <<>> /\ r \in Seq(ValidStep) /\ Continue(t, r)
    BY DEF BusInv, Goes
  <1>2. ASSUME NEW a \in Side
        PROVE  \A u \in Thread : Count(script'[u], Runs(a)) = Count(script[u], Runs(a))
    <2>1. PICK S : S = Runs(a)
      OBVIOUS
    <2>2. /\ Count(script'[t], S) =
               Count(r, S) + Count(script[t], S) - (IF Head(script[t]) \in S THEN 1 ELSE 0)
          /\ Count(r, S) \in Nat /\ Count(script[t], S) \in Nat
          /\ \A u \in Thread \ {t} : Count(script'[u], S) = Count(script[u], S)
      BY <1>1, CountAfter
    <2>3. Count(r, S) = IF Head(script[t]) \in S THEN 1 ELSE 0
      BY <2>1
    <2>4. Count(script'[t], S) = Count(script[t], S)
      BY <2>2, <2>3
    <2> QED
      BY <2>1, <2>2, <2>4
  <1> QED
    BY <1>2 DEF OneRuns

LEMMA NoRuns ==
    ASSUME NEW r \in Seq(ValidStep), NEW a,
           \A x \in ToSet(r) : x.op \notin {"collect", "collect_all", "release"} \/ x.at # a
    PROVE  Count(r, Runs(a)) = 0
  <1>1. \A x \in ToSet(r) : x \notin Runs(a)
    BY DEF Runs
  <1> QED
    BY <1>1, CountNone

\* A thread that has done its part of an announcement.
LEMMA OnlyOneRuns ==
    ASSUME BusInv, OneRuns, NEW t \in Thread, script[t] # <<>>, NEW a \in Side,
           Head(script[t]) \in Runs(a)
    PROVE  /\ callers[a].all # 0
           /\ \A u \in Thread \ {t} : \A x \in ToSet(script[u]) : x \notin Runs(a)
           /\ \A x \in ToSet(Tail(script[t])) : x \notin Runs(a)
  <1>1. PICK S : S = Runs(a)
    OBVIOUS
  <1>2. \A u \in Thread : script[u] \in Seq(ValidStep)
    BY DEF BusInv, TypeOK
  <1>3. PICK w : w = Tail(script[t])
    OBVIOUS
  <1>4. w \in Seq(ValidStep) /\ Count(script[t], S) = Count(w, S) + 1 /\ Count(w, S) \in Nat
    <2>1. w \in Seq(ValidStep) /\ Count(script[t], S) = Count(w, S) + IF Head(script[t]) \in S THEN 1 ELSE 0
      BY <1>2, <1>3, HeadAndTail
    <2>2. Count(w, S) \in Nat
      BY <2>1, PlacesFinite
    <2> QED
      BY <1>1, <2>1, <2>2
  <1>5. \A v \in Thread : Count(script[v], S) \in Nat
    BY <1>2, PlacesFinite
  <1>6. callers[a].all # 0
    BY <1>1, <1>4 DEF OneRuns
  <1>7. PICK v \in Thread : Count(script[v], S) = 1 /\ \A u \in Thread \ {v} : Count(script[u], S) = 0
    BY <1>1, <1>6 DEF OneRuns
  <1>8. v = t /\ Count(w, S) = 0
    BY <1>4, <1>7
  <1>9. \A x \in ToSet(w) : x \notin S
    BY <1>4, <1>8, CountNone
  <1>10. ASSUME NEW u \in Thread \ {t} PROVE \A x \in ToSet(script[u]) : x \notin S
    <2>1. Count(script[u], S) = 0 /\ script[u] \in Seq(ValidStep)
      BY <1>2, <1>7, <1>8
    <2> QED
      BY <2>1, CountNone
  <1> QED
    BY <1>1, <1>3, <1>6, <1>9, <1>10

-----------------------------------------------------------------------------
(* Calls and what they come to, without announcements.                     *)

PlainOps == {"add", "erase", "replace", "unsubscribe_all_channels", "add_to_group", "close_group",
             "leave"}
PlainSteps(s, r) ==
    \A x \in ToSet(r) :
        /\ x.op \in {"unlock", "erase", "close_group", "add_to_group", "unsubscribe_all_channels"}
        /\ ~Update(x, 1) /\ ~Update(x, 2) /\ ~Drops(x, 1) /\ ~Drops(x, 2)
        /\ x.who \in Listener => s.who \in Listener /\ x.at = s.at
PlainLists(s) ==
    /\ \A a \in Side : \/ Offered'[a] = Offered[a]
                       \/ a = s.at /\ s.who \in Listener /\ changed'[a] /\ mutex'[a] # Null
    /\ \A a \in Side : changed[a] /\ mutex[a] # Null => changed'[a] /\ mutex'[a] # Null
    /\ \A a \in Side : a # s.at \/ (~Update(s, a) /\ ~Drops(s, a)) => Taken'[a] = Taken[a]
    /\ Drops(s, s.at) => Taken'[s.at] = {}
    /\ Update(s, s.at) => Taken'[s.at] = Outcome(s, Taken[s.at])
Plain(t, s, r) ==
    /\ s = Head(script[t]) /\ s.at \in Side /\ s.op \in PlainOps /\ Goes(t, r)
    /\ UNCHANGED <<told, callers, connected>>
    /\ PlainSteps(s, r) /\ PlainLists(s)

LEMMA PlainDue ==
    ASSUME BusInv, NEW t \in Thread, NEW s, NEW r, Plain(t, s, r)
    PROVE  /\ s \in Due /\ Due \subseteq ValidStep /\ Due' \subseteq ValidStep
           /\ \A x \in Due' : x \in Due \/ x \in ToSet(r)
           /\ \A x \in Due : x \in Due' \/ x = s
           /\ \A x \in ToSet(r) : Modest(x) /\ x.op # "announce" /\ x.op # "collect"
           /\ \A a \in Side, x \in ToSet(r) : ~Update(x, a) /\ ~Looks(x, a) /\ ~Releasing(x, a)
           /\ \A x \in ToSet(r) : ~JoinStep(x) /\ ~Whole(x)
           /\ ~Whole(s) /\ \A a \in Side : ~Releasing(s, a) /\ ~Looks(s, a)
  <1>1. s = Head(script[t]) /\ Goes(t, r) /\ PlainSteps(s, r) /\ s.op \in PlainOps
    BY DEF Plain
  <1>2. /\ s \in Due /\ Due \subseteq ValidStep /\ Due' \subseteq ValidStep
        /\ \A x \in Due' : x \in Due \/ x \in ToSet(r)
        /\ \A x \in Due : x \in Due' \/ x = s
    BY <1>1, DueAfter
  <1>3. \A x \in ToSet(r) : /\ x.op \in {"unlock", "erase", "close_group", "add_to_group", "unsubscribe_all_channels"}
                            /\ ~Update(x, 1) /\ ~Update(x, 2) /\ ~Drops(x, 1) /\ ~Drops(x, 2)
    BY <1>1 DEF PlainSteps
  <1>4. \A x \in ToSet(r) : Modest(x) /\ x.op # "announce" /\ x.op # "collect"
    BY <1>3 DEF Modest
  <1>5. \A a \in Side, x \in ToSet(r) : ~Update(x, a) /\ ~Looks(x, a) /\ ~Releasing(x, a)
    BY <1>3 DEF Side, Looks, Releasing
  <1>6. \A x \in ToSet(r) : ~JoinStep(x) /\ ~Whole(x)
    BY <1>3 DEF JoinStep, Whole
  <1>7. ~Whole(s) /\ \A a \in Side : ~Releasing(s, a) /\ ~Looks(s, a)
    BY <1>1 DEF PlainOps, Whole, Releasing, Looks
  <1> QED
    BY <1>2, <1>4, <1>5, <1>6, <1>7

LEMMA PlainOrder ==
    ASSUME BusInv, InOrder, OneRuns, NEW t \in Thread, NEW s, NEW r, Plain(t, s, r)
    PROVE  InOrder' /\ OneRuns'
  <1>1. /\ s = Head(script[t]) /\ Goes(t, r) /\ r \in Seq(ValidStep) /\ s.op \in PlainOps
        /\ callers' = callers
    BY DEF Plain, Goes
  <1>2. /\ \A x \in ToSet(r) : Modest(x) /\ x.op # "announce" /\ x.op # "collect"
        /\ \A a \in Side, x \in ToSet(r) : ~Update(x, a)
        /\ \A a \in Side : ~Releasing(s, a)
    BY PlainDue
  <1>3. \A u \in Thread : Ordered(script'[u])
    <2>1. Ordered(r)
      BY <1>1, <1>2, ModestOrdered
    <2> QED
      BY <1>1, <1>2, <2>1, OrderAfter
  <1>4. ASSUME NEW u \in Thread, NEW a \in Side, NEW x \in ToSet(script'[u]), Update(x, Other(a))
        PROVE  \E y \in ToSet(script'[u]) : Releasing(y, a)
    <2>1. /\ x \in ToSet(script[u]) \/ (u = t /\ x \in ToSet(r))
          /\ \A y \in ToSet(script[u]) : y \in ToSet(script'[u]) \/ (u = t /\ y = Head(script[t]))
      BY <1>1, ScriptAfter
    <2>2. x \in ToSet(script[u])
      BY <1>2, <1>4, <2>1, Sides
    <2>3. PICK y \in ToSet(script[u]) : Releasing(y, a)
      BY <2>2, <1>4 DEF InOrder
    <2> QED
      BY <1>1, <1>2, <2>1, <2>3
  <1>5. InOrder'
    BY <1>3, <1>4 DEF InOrder
  <1>6. \A a \in Side : Count(r, Runs(a)) = 0 /\ s \notin Runs(a)
    <2>1. \A x \in ToSet(r) : x.op \notin {"collect", "collect_all", "release"}
      BY <1>2 DEF Modest
    <2>2. \A a \in Side : Count(r, Runs(a)) = 0
      BY <1>1, <2>1, NoRuns
    <2> QED
      BY <1>1, <2>2 DEF Runs, PlainOps
  <1>7. OneRuns'
    BY <1>1, <1>6, RunsKept
  <1> QED
    BY <1>5, <1>7

LEMMA PlainAlone ==
    ASSUME BusInv, Alone, NEW t \in Thread, NEW s, NEW r, Plain(t, s, r)
    PROVE  Alone' /\ (Joining' <=> Joining) /\ ~Beginning'
  <1>1. /\ s = Head(script[t]) /\ Goes(t, r) /\ s.op \in PlainOps /\ s \in Due
        /\ callers' = callers /\ connected' = connected /\ PlainSteps(s, r)
    BY PlainDue DEF Plain
  <1>2. /\ \A x \in Due' : x \in Due \/ x \in ToSet(r)
        /\ \A x \in Due : x \in Due' \/ x = s
        /\ \A x \in ToSet(r) : ~JoinStep(x) /\ ~Whole(x)
        /\ ~Whole(s)
    BY PlainDue
  <1>3. Joining' <=> Joining
    BY <1>2 DEF Joining
  <1>4. (\E x \in Due' : JoinStep(x)) => connected' /\ Joining'
    BY <1>1, <1>2, <1>3 DEF Alone
  <1>5. ASSUME Joining
        PROVE  /\ \A u, v \in Thread : u = v \/ script'[u] = <<>> \/ script'[v] = <<>>
               /\ \A x \in Due' : x.who \notin Listener
    <2>1. script[t] # <<>> /\ \A u \in Thread \ {t} : script'[u] = script[u]
      BY <1>1, ScriptAfter DEF Goes
    <2>2. \A u \in Thread \ {t} : script'[u] = <<>>
      BY <1>5, <2>1 DEF Alone
    <2>3. \A x \in ToSet(r) : x.who \notin Listener
      BY <1>1, <1>5 DEF PlainSteps, Alone
    <2> QED
      BY <1>2, <1>5, <2>2, <2>3 DEF Alone
  <1>6. ~Beginning'
    <2>1. \A x \in ToSet(r) : ~Drops(x, 2)
      BY <1>1 DEF PlainSteps
    <2> QED
      BY <1>1, <2>1, BeginningEnds
  <1>7. \A x \in Due' : x.op = "announce_all" => x \in Due
    BY <1>2 DEF JoinStep
  <1>8. Alone'
    BY <1>1, <1>3, <1>4, <1>5, <1>6, <1>7 DEF Alone
  <1> QED
    BY <1>3, <1>6, <1>8

LEMMA ListsTyped ==
    ASSUME NEW b \in Side
    PROVE  /\ Taken[b] \in SUBSET Chan /\ Offered[b] \in SUBSET Chan
           /\ Taken'[b] \in SUBSET Chan /\ Offered'[b] \in SUBSET Chan
           /\ Offered[b] = Exported(b)
  BY DEF Taken, Offered, Exported

LEMMA PlainQuiet ==
    ASSUME BusInv, Alone, Quiet, NEW t \in Thread, NEW s, NEW r, Plain(t, s, r)
    PROVE  Quiet'
  <1>1. /\ s = Head(script[t]) /\ s \in Due /\ s.at \in Side
        /\ told' = told /\ connected' = connected /\ PlainSteps(s, r) /\ PlainLists(s)
    BY PlainDue DEF Plain
  <1>2. /\ \A x \in Due' : x \in Due \/ x \in ToSet(r)
        /\ \A a \in Side, x \in ToSet(r) : ~Releasing(x, a)
    BY PlainDue
  <1>3. Joining' <=> Joining
    BY PlainAlone
  <1>4. Apart' <=> Apart
    BY <1>1, <1>3 DEF Apart
  <1>5. SUFFICES ASSUME Apart
                 PROVE  /\ Offered'[2] = {} /\ Taken'[1] = {} /\ told'[2] = {}
                        /\ \A x \in Due' : /\ ~Update(x, 1)
                                           /\ Releasing(x, 2) => x.names = {}
                                           /\ x.who \in Listener => x.at = 1
    BY <1>4 DEF Quiet
  <1>6. /\ Offered[2] = {} /\ Taken[1] = {} /\ told[2] = {}
        /\ \A x \in Due : /\ ~Update(x, 1)
                          /\ Releasing(x, 2) => x.names = {}
                          /\ x.who \in Listener => x.at = 1
    BY <1>5 DEF Quiet
  <1>7. 1 \in Side /\ 2 \in Side /\ 1 # 2
    BY DEF Side
  <1>8. Offered'[2] = {}
    BY <1>1, <1>6, <1>7 DEF PlainLists
  <1>9. Taken'[1] = {}
    BY <1>1, <1>6, <1>7 DEF PlainLists
  <1>10. \A x \in ToSet(r) : /\ ~Update(x, 1) /\ ~Releasing(x, 2)
                             /\ x.who \in Listener => x.at = 1
    BY <1>1, <1>2, <1>6, <1>7 DEF PlainSteps
  <1> QED
    BY <1>1, <1>2, <1>6, <1>8, <1>9, <1>10

\* Which lists are announced, and what becomes of them.
LEMMA ListedSame ==
    ASSUME NEW a \in Side, told'[a] = told[a],
           \A x \in Due' : Releasing(x, a) => x \in Due, \A x \in Due : Releasing(x, a) => x \in Due'
    PROVE  \A L : Listed(a, L)' <=> Listed(a, L)
  BY DEF Listed

LEMMA PlainExact ==
    ASSUME BusInv, NEW t \in Thread, NEW s, NEW r, Plain(t, s, r),
           NEW a \in Side, Exact(a), ~Drops(s, Other(a))
    PROVE  Exact(a)'
  <1>1. s \in Due /\ s \in ValidStep /\ told' = told /\ s.at \in Side /\ PlainLists(s)
    BY PlainDue DEF Plain
  <1>2. /\ \A x \in Due' : x \in Due \/ x \in ToSet(r)
        /\ \A x \in Due : x \in Due' \/ x = s
        /\ \A x \in ToSet(r) : ~Releasing(x, a) /\ ~Update(x, Other(a))
        /\ ~Releasing(s, a)
    BY PlainDue, Sides
  <1>3. \A L : Listed(a, L)' <=> Listed(a, L)
    BY <1>1, <1>2, ListedSame
  <1>4. PICK b \in Side : b = Other(a)
    BY Sides
  <1>5. PICK U : U = Due
    OBVIOUS
  <1>6. PICK V : V = Due'
    OBVIOUS
  <1>7. PICK T : T = Taken[b]
    OBVIOUS
  <1>8. ASSUME NEW L \in SUBSET Chan, Listed(a, L)'
        PROVE  Brings(Taken'[b], V, b, L)
    <2>1. Brings(T, U, b, L)
      BY <1>3, <1>4, <1>5, <1>7, <1>8 DEF Exact
    <2>2. T \in SUBSET Chan
      BY <1>7, ListsTyped
    <2>3. CASE Update(s, b)
      <3>1. Taken'[b] = Outcome(s, T)
        BY <1>1, <1>7, <2>3 DEF PlainLists, Update
      <3>2. s.op # "erase" => s.names \subseteq Chan
        BY <1>1, <2>3 DEF Update, ValidStep, Fits
      <3>3. s \in U /\ \A x \in V : Update(x, b) => x \in U
        BY <1>1, <1>2, <1>4, <1>5, <1>6
      <3>4. \A x \in U : Update(x, b) => x \in V \/ x = s
        BY <1>2, <1>5, <1>6
      <3>5. Brings(Outcome(s, T), V, b, L)
        BY <2>1, <2>2, <2>3, <3>2, <3>3, <3>4, UpdateDone
      <3> QED
        BY <3>1, <3>5
    <2>4. CASE ~Update(s, b)
      <3>1. Taken'[b] = T
        BY <1>1, <1>4, <1>7, <2>4 DEF PlainLists
      <3>2. \A x \in V : Update(x, b) => x \in U
        BY <1>2, <1>4, <1>5, <1>6
      <3>3. \A x \in U : Update(x, b) => x \in V
        BY <1>2, <1>5, <1>6, <2>4
      <3>4. Brings(T, V, b, L)
        BY <2>1, <3>2, <3>3, SameUpdates
      <3> QED
        BY <3>1, <3>4
    <2> QED
      BY <2>3, <2>4
  <1> QED
    BY <1>4, <1>6, <1>8 DEF Exact

LEMMA PlainAgreed ==
    ASSUME BusInv, Alone, Agreed, NEW t \in Thread, NEW s, NEW r, Plain(t, s, r)
    PROVE  Agreed'
  <1>1. /\ s = Head(script[t]) /\ s \in Due /\ s \in ValidStep /\ Goes(t, r)
        /\ s.at \in Side /\ PlainLists(s) /\ PlainSteps(s, r)
    BY PlainDue DEF Plain
  <1>2. (Joining' <=> Joining) /\ ~Beginning'
    BY PlainAlone
  <1>3. CASE ~Joining
    <2>1. ~Drops(s, 1) /\ ~Drops(s, 2)
      BY <1>1, <1>3 DEF Alone, JoinStep
    <2>2. \A a \in Side : ~Drops(s, Other(a))
      BY <2>1 DEF Side, Other
    <2>3. \A a \in Side : Exact(a)'
      BY <1>3, <2>2, PlainExact DEF Agreed
    <2> QED
      BY <1>2, <1>3, <2>3 DEF Agreed
  <1>4. CASE Joining
    <2>1. Offered'[1] = Offered[1]
      <3>1. s.who \notin Listener /\ 1 \in Side
        BY <1>1, <1>4 DEF Alone, Side
      <3> QED
        BY <1>1, <3>1 DEF PlainLists
    <2>2. 2 \in Side /\ Taken[2] \in SUBSET Chan
      BY ListsTyped DEF Side
    <2>3. /\ \A x \in Due' : x \in Due \/ x \in ToSet(r)
          /\ \A x \in ToSet(r) : ~Update(x, 2) /\ ~Drops(x, 2)
      BY <1>1, PlainDue DEF PlainSteps
    <2>4. CASE Beginning
      <3>1. Head(script[t]) = UnsubscribeAll(2, Bridge) /\ \A x \in Due : x = s \/ ~Update(x, 2)
        BY <1>1, <2>3, <2>4, BeginningEnds
      <3>2. Drops(s, 2) /\ ~Update(s, 2) /\ s.at = 2
        BY <1>1, <3>1 DEF UnsubscribeAll, Step, Drops, Update
      <3>3. Taken'[2] = {}
        BY <1>1, <3>2 DEF PlainLists
      <3>4. \A x \in Due' : ~Update(x, 2)
        BY <2>3, <3>1, <3>2
      <3>5. Partial'
        BY <3>3, <3>4 DEF Partial
      <3> QED
        BY <1>2, <1>4, <3>5 DEF Agreed
    <2>5. CASE ~Beginning
      <3>1. Partial
        BY <1>4, <2>5 DEF Agreed
      <3>2. \A x \in Due' : Update(x, 2) /\ x.op # "erase" => x.names \subseteq Offered'[1]
        BY <2>1, <2>3, <3>1 DEF Partial
      <3>3. Taken'[2] \subseteq Offered[1]
        <4>1. CASE Update(s, 2)
          <5>1. s.at = 2
            BY <4>1 DEF Update
          <5>2. Taken'[2] = Outcome(s, Taken[2])
            BY <1>1, <4>1, <5>1 DEF PlainLists
          <5> QED
            BY <1>1, <3>1, <4>1, <5>2 DEF Partial, Outcome, Update
        <4>2. CASE Drops(s, 2)
          <5>1. s.at = 2
            BY <4>2 DEF Drops
          <5> QED
            BY <1>1, <4>2, <5>1 DEF PlainLists
        <4>3. CASE ~Update(s, 2) /\ ~Drops(s, 2)
          <5>1. Taken'[2] = Taken[2]
            BY <1>1, <2>2, <4>3 DEF PlainLists
          <5> QED
            BY <3>1, <5>1 DEF Partial
        <4> QED
          BY <4>1, <4>2, <4>3
      <3>4. Partial'
        BY <2>1, <3>2, <3>3 DEF Partial
      <3> QED
        BY <1>2, <1>4, <3>4 DEF Agreed
    <2> QED
      BY <2>4, <2>5
  <1> QED
    BY <1>3, <1>4

LEMMA PlainWatched ==
    ASSUME BusInv, Watched, NEW t \in Thread, NEW s, NEW r, Plain(t, s, r)
    PROVE  Watched'
  <1>1. told' = told /\ callers' = callers /\ connected' = connected /\ PlainLists(s)
    BY DEF Plain
  <1>2. ASSUME NEW a \in Side, Fresh(a)
        PROVE  Fresh(a)'
    <2>1. /\ \A x \in Due' : x \in Due \/ x \in ToSet(r)
          /\ \A x \in Due : x \in Due' \/ x = s
          /\ \A x \in ToSet(r) : ~Looks(x, a) /\ ~Releasing(x, a)
          /\ ~Looks(s, a) /\ ~Releasing(s, a)
      BY PlainDue
    <2>2. CASE \E x \in Due : Looks(x, a)
      BY <2>1, <2>2 DEF Fresh
    <2>3. CASE callers[a].all > 1
      BY <1>1, <2>3 DEF Fresh
    <2>4. CASE changed[a] /\ mutex[a] # Null
      BY <1>1, <2>4 DEF Fresh, PlainLists
    <2>5. CASE Listed(a, Offered[a])
      <3>1. CASE Offered'[a] = Offered[a]
        <4>1. Listed(a, Offered[a])'
          <5>1. PICK L : L = Offered[a]
            OBVIOUS
          <5>2. Listed(a, L)' <=> Listed(a, L)
            BY <1>1, <2>1, ListedSame
          <5> QED
            BY <2>5, <3>1, <5>1, <5>2
        <4> QED
          BY <4>1 DEF Fresh
      <3>2. CASE changed'[a] /\ mutex'[a] # Null
        BY <3>2 DEF Fresh
      <3> QED
        BY <1>1, <3>1, <3>2 DEF PlainLists
    <2> QED
      BY <1>2, <2>2, <2>3, <2>4, <2>5 DEF Fresh
  <1> QED
    BY <1>1, <1>2 DEF Watched

LEMMA PlainKeeps ==
    ASSUME BusInv, ChanInv, NEW t \in Thread, NEW s, NEW r, Plain(t, s, r)
    PROVE  ChanInv'
  BY PlainOrder, PlainAlone, PlainQuiet, PlainAgreed, PlainWatched DEF ChanInv

\* Lists after a step that changes some listeners.
LEMMA ListenersOnly ==
    ASSUME NEW a \in Side, \A c \in Chan : Bridge \in listeners'[a][c] <=> Bridge \in listeners[a][c]
    PROVE  Taken'[a] = Taken[a]
  BY DEF Taken

LEMMA BridgeOnly ==
    ASSUME BusInv, Owned', NEW a \in Side,
           \A c \in Chan : listeners'[a][c] \ {Bridge} = listeners[a][c] \ {Bridge}
    PROVE  Offered'[a] = Offered[a]
  <1>1. \A c \in Chan : owner[a][c] = Null /\ owner'[a][c] = Null
    BY DEF BusInv, Owned
  <1>2. Exported(a)' = Exported(a)
    BY <1>1 DEF Exported
  <1> QED
    BY <1>2 DEF Offered

LEMMA ChannelsSame ==
    ASSUME BusInv, Owned', NEW a \in Side, \A c \in Chan : listeners'[a][c] = listeners[a][c]
    PROVE  Taken'[a] = Taken[a] /\ Offered'[a] = Offered[a]
  BY ListenersOnly, BridgeOnly

LEMMA Acquired ==
    ASSUME BusInv, NEW t \in Thread, NEW b \in Side, Acquire(t, b)
    PROVE  mutex'[b] # Null /\ \A a \in Side : mutex[a] # Null => mutex'[a] # Null
  BY ActorsDiffer DEF Acquire, BusInv, TypeOK

LEMMA SubscribePlain ==
    ASSUME BusInv, NEW t \in Thread, Subscribe(t)
    PROVE  \E s, r : Plain(t, s, r)
  <1>1. PICK s : s = Head(script[t])
    OBVIOUS
  <1>2. PICK r : Goes(t, r) /\ Enters(t, s.at, r) /\ ToSet(r) = {Unlock(s.at)}
    BY <1>1, SubscribeEffect
  <1>3. s.op = "add" /\ s.at \in Side /\ Acquire(t, s.at)
    BY <1>1, <1>2, SubscribeEffect DEF Enters
  <1>4. /\ UNCHANGED <<told, callers, connected>>
        /\ changed' = [changed EXCEPT ![s.at] = TRUE]
        /\ s.names \subseteq Chan /\ s.who \in Member
        /\ Gains(s.at, s.who, s.names)
        /\ BusInv'
    BY <1>1, SubscribeFields
  <1>5. PICK b, who, names : b = s.at /\ who = s.who /\ names = s.names
    OBVIOUS
  <1>6. \A a \in Side, c \in Chan : listeners'[a][c] =
          IF a = b /\ c \in names THEN listeners[a][c] \cup {who} ELSE listeners[a][c]
    <2>1. Gains(b, who, names)
      BY <1>4, <1>5
    <2> QED
      BY <2>1 DEF Gains, Name
  <1>7. Owned' /\ changed \in [Side -> BOOLEAN] /\ b \in Side
    BY <1>3, <1>4, <1>5 DEF BusInv, TypeOK
  <1>8. PlainSteps(s, r)
    BY <1>2, ActorsDiffer DEF PlainSteps, Unlock, Step, Update, Drops
  <1>9. \A a \in Side : a # b => Taken'[a] = Taken[a] /\ Offered'[a] = Offered[a]
    BY <1>6, <1>7, ChannelsSame
  <1>10. CASE who = Bridge
    <2>1. Offered'[b] = Offered[b]
      BY <1>6, <1>7, <1>10, BridgeOnly
    <2>2. Taken'[b] = Taken[b] \cup names
      BY <1>4, <1>5, <1>6, <1>7, <1>10 DEF Taken
    <2>3. Update(s, b) /\ ~Drops(s, b) /\ Taken'[b] = Outcome(s, Taken[b])
      BY <1>3, <1>5, <1>10, <2>2 DEF Update, Drops, Outcome
    <2>4. PlainLists(s)
      BY <1>3, <1>4, <1>5, <1>7, <1>9, <2>1, <2>3, Acquired DEF PlainLists
    <2> QED
      BY <1>1, <1>2, <1>3, <1>4, <1>8, <2>4 DEF Plain, PlainOps
  <1>11. CASE who # Bridge
    <2>1. Taken'[b] = Taken[b]
      BY <1>6, <1>7, <1>11, ListenersOnly
    <2>2. ~Update(s, b) /\ ~Drops(s, b) /\ s.who \in Listener
      BY <1>4, <1>5, <1>11 DEF Update, Drops, Member
    <2>3. changed'[b]
      BY <1>4, <1>5, <1>7
    <2>4. PlainLists(s)
      BY <1>3, <1>4, <1>5, <1>7, <1>9, <2>1, <2>2, <2>3, Acquired DEF PlainLists
    <2> QED
      BY <1>1, <1>2, <1>3, <1>4, <1>8, <2>4 DEF Plain, PlainOps
  <1> QED
    BY <1>10, <1>11

LEMMA ReplacePlain ==
    ASSUME BusInv, NEW t \in Thread, ReplaceChannels(t)
    PROVE  \E s, r : Plain(t, s, r)
  <1>1. PICK s : s = Head(script[t])
    OBVIOUS
  <1>2. PICK r : Goes(t, r) /\ Enters(t, s.at, r) /\ ToSet(r) = {Unlock(s.at)}
    BY <1>1, ReplaceEffect
  <1>3. s.op = "replace" /\ s.at \in Side /\ Acquire(t, s.at)
    BY <1>1, <1>2, ReplaceEffect DEF Enters
  <1>4. /\ UNCHANGED <<told, callers, connected>>
        /\ \A a \in Side : changed[a] => changed'[a]
        /\ s.names \subseteq Chan /\ s.who = Bridge
        /\ BusInv'
    BY <1>1, ReplaceFields
  <1>5. PICK b, names : b = s.at /\ names = s.names
    OBVIOUS
  <1>6. \A a \in Side, c \in Chan :
          listeners'[a][c] = IF a # b THEN listeners[a][c]
                             ELSE IF c \in names THEN listeners[a][c] \cup {Bridge}
                             ELSE listeners[a][c] \ {Bridge}
    <2>1. Replaces(s.at, s.names)
      BY <1>1, ReplaceFields
    <2>2. Replaces(b, names)
      BY <1>5, <2>1
    <2> QED
      BY <2>2 DEF Replaces
  <1>7. Owned' /\ b \in Side
    BY <1>3, <1>4, <1>5 DEF BusInv
  <1>8. PlainSteps(s, r)
    BY <1>2, ActorsDiffer DEF PlainSteps, Unlock, Step, Update, Drops
  <1>9. \A a \in Side : a # b => Taken'[a] = Taken[a] /\ Offered'[a] = Offered[a]
    BY <1>6, <1>7, ChannelsSame
  <1>10. Offered'[b] = Offered[b]
    BY <1>6, <1>7, BridgeOnly
  <1>11. Taken'[b] = names
    <2>1. \A c \in Chan : Bridge \in listeners'[b][c] <=> c \in names
      BY <1>6, <1>7
    <2>2. Taken'[b] = {c \in Chan : Bridge \in listeners'[b][c]}
      BY <1>7 DEF Taken
    <2> QED
      BY <1>4, <1>5, <2>1, <2>2
  <1>12. Update(s, b) /\ ~Drops(s, b) /\ Taken'[b] = Outcome(s, Taken[b])
    BY <1>3, <1>4, <1>5, <1>11 DEF Update, Drops, Outcome
  <1>13. PlainLists(s)
    BY <1>3, <1>4, <1>5, <1>7, <1>9, <1>10, <1>12, Acquired DEF PlainLists
  <1> QED
    BY <1>1, <1>2, <1>3, <1>4, <1>8, <1>13 DEF Plain, PlainOps

LEMMA UnsubscribePlain ==
    ASSUME BusInv, NEW t \in Thread, UnsubscribeSome(t) \/ UnsubscribeAllChannels(t)
    PROVE  \E s, r : Plain(t, s, r)
  <1>1. PICK s : s = Head(script[t])
    OBVIOUS
  <1>2. s.at \in Side /\ s.who \in Member
    BY <1>1, UnsubscribeEffect
  <1>3. PICK r \in Seq(ValidStep), names \in SUBSET Name :
          /\ Leaving(s, names)
          /\ Unsubscribe(t, s.at, s.who, names)
          /\ Goes(t, r) /\ Enters(t, s.at, r)
          /\ TellsEmpty(r, s.at, s.who, names)
    BY <1>1, UnsubscribeEffect
  <1>4. PICK b, who : b = s.at /\ who = s.who
    OBVIOUS
  <1>5. b \in Side /\ who \in Member /\ Unsubscribe(t, b, who, names) /\ Acquire(t, b)
    BY <1>2, <1>3, <1>4 DEF Enters
  <1>6. \A a \in Side, c \in Chan : listeners'[a][c] =
          IF a = b /\ c \in names THEN listeners[a][c] \ {who} ELSE listeners[a][c]
    <2>1. Loses(b, who, names)
      BY <1>5, UnsubscribeLists
    <2> QED
      BY <2>1 DEF Name, Loses
  <1>7. BusInv' /\ Owned' /\ UNCHANGED <<told, callers, connected>>
    BY UnsubscribeKeeps DEF BusInv
  <1>8. /\ \A a \in Side : changed[a] => changed'[a]
        /\ Subscribed(b, who) \cap names # {} => changed'[b]
    BY <1>5, UnsubscribeFields
  <1>9. PlainSteps(s, r)
    <2>1. TellsEmpty(r, b, who, names)
      BY <1>3, <1>4
    <2>2. ASSUME NEW n \in Emptied(b, who, names), owner[b][n] = Bridge
          PROVE  n \notin Chan
      BY <1>5, <2>2, ActorsDiffer DEF BusInv, Owned
    <2>3. \A x \in ToSet(r) : x = Unlock(b) \/ \E g : g \notin Chan /\ x = Erase(Other(b), Bridge, {g})
      BY <2>1, <2>2 DEF TellsEmpty
    <2> QED
      BY <2>3, ActorsDiffer DEF PlainSteps, Unlock, Erase, Step, Update, Drops
  <1>10. \A a \in Side : a # b => Taken'[a] = Taken[a] /\ Offered'[a] = Offered[a]
    BY <1>6, <1>7, ChannelsSame
  <1>11. CASE who = Bridge
    <2>1. Offered'[b] = Offered[b]
      BY <1>5, <1>6, <1>7, <1>11, BridgeOnly
    <2>2. Taken'[b] = Taken[b] \ names
      BY <1>5, <1>6, <1>11 DEF Taken
    <2>3. CASE s.op = "erase" /\ names = s.names
      <3>1. Update(s, b) => Taken'[b] = Outcome(s, Taken[b])
        BY <2>2, <2>3 DEF Outcome
      <3>2. ~Update(s, b) => names \cap Chan = {}
        BY <1>4, <1>11, <2>3 DEF Update
      <3>3. ~Update(s, b) => Taken'[b] = Taken[b]
        BY <1>5, <2>2, <3>2, ListsTyped
      <3>4. ~Drops(s, b)
        BY <2>3 DEF Drops
      <3>5. PlainLists(s)
        BY <1>4, <1>5, <1>8, <1>10, <2>1, <3>1, <3>3, <3>4, Acquired DEF PlainLists
      <3> QED
        BY <1>1, <1>2, <1>3, <1>7, <1>9, <2>3, <3>5 DEF Plain, PlainOps
    <2>4. CASE s.op = "unsubscribe_all_channels" /\ names = Name
      <3>1. Taken'[b] = {}
        BY <1>5, <2>2, <2>4, ListsTyped DEF Name
      <3>2. Drops(s, b) /\ ~Update(s, b)
        BY <1>4, <1>11, <2>4 DEF Drops, Update
      <3>3. PlainLists(s)
        BY <1>4, <1>5, <1>8, <1>10, <2>1, <3>1, <3>2, Acquired DEF PlainLists
      <3> QED
        BY <1>1, <1>2, <1>3, <1>7, <1>9, <2>4, <3>3 DEF Plain, PlainOps
    <2> QED
      BY <1>3, <2>3, <2>4 DEF Leaving
  <1>12. CASE who # Bridge
    <2>1. Taken'[b] = Taken[b]
      BY <1>5, <1>6, <1>12, ListenersOnly
    <2>2. ~Update(s, b) /\ ~Drops(s, b) /\ s.who \in Listener
      BY <1>4, <1>5, <1>12 DEF Update, Drops, Member
    <2>3. changed'[b] \/ Offered'[b] = Offered[b]
      <3>1. CASE Subscribed(b, who) \cap names # {}
        BY <3>1, <1>8
      <3>2. CASE Subscribed(b, who) \cap names = {}
        <4>1. \A c \in Chan : listeners'[b][c] = listeners[b][c]
          BY <1>5, <1>6, <3>2 DEF Subscribed, Name
        <4> QED
          BY <1>5, <1>7, <4>1, ChannelsSame
      <3> QED
        BY <3>1, <3>2
    <2>4. PlainLists(s)
      BY <1>4, <1>5, <1>8, <1>10, <2>1, <2>2, <2>3, Acquired DEF PlainLists
    <2> QED
      BY <1>1, <1>2, <1>3, <1>7, <1>9, <2>4 DEF Plain, PlainOps, Leaving
  <1> QED
    BY <1>11, <1>12

\* Groups are no channels.
LEMMA GroupsPlain ==
    ASSUME BusInv, BusInv', NEW t \in Thread, NEW s, NEW r, s = Head(script[t]), s.at \in Side,
           s.op \in {"add_to_group", "close_group", "leave"}, Goes(t, r), PlainSteps(s, r),
           UNCHANGED <<told, callers, connected>>,
           \A a \in Side, c \in Chan : listeners'[a][c] = listeners[a][c],
           \A a \in Side : changed[a] => changed'[a],
           Acquire(t, s.at) \/ UNCHANGED lockVars
    PROVE  Plain(t, s, r)
  <1>1. \A a \in Side : Taken'[a] = Taken[a] /\ Offered'[a] = Offered[a]
    BY ChannelsSame DEF BusInv
  <1>2. \A a \in Side : mutex[a] # Null => mutex'[a] # Null
    BY Acquired DEF lockVars
  <1>3. \A a : ~Update(s, a) /\ ~Drops(s, a)
    BY DEF Update, Drops
  <1>4. PlainLists(s)
    BY <1>1, <1>2, <1>3 DEF PlainLists
  <1> QED
    BY <1>4 DEF Plain, PlainOps

LEMMA AddMemberPlain ==
    ASSUME BusInv, NEW t \in Thread, AddMember(t)
    PROVE  \E s, r : Plain(t, s, r)
  <1>1. PICK s : s = Head(script[t])
    OBVIOUS
  <1>2. /\ UNCHANGED <<told, callers, connected, changed>> /\ BusInv'
        /\ s.op = "add_to_group" /\ s.at \in Side /\ s.who \in Member /\ s.target \in Listener
    BY <1>1, AddMemberFields
  <1>3. PICK r \in Seq(ValidStep), g \in Group :
          /\ s.names = {g} /\ Goes(t, r) /\ Enters(t, s.at, r)
          /\ OthersSame(s.at, g) /\ Joins(s.at, s.who, s.target, g, r)
    BY <1>1, AddMemberFields
  <1>4. PICK b, who, m : b = s.at /\ who = s.who /\ m = s.target
    OBVIOUS
  <1>5. g \notin Chan
    BY NamesDiffer
  <1>6. \A a \in Side, c \in Chan : listeners'[a][c] = listeners[a][c]
    BY <1>3, <1>5 DEF OthersSame, Name
  <1>7. PlainSteps(s, r)
    <2>1. ToSet(r) \subseteq {Unlock(b), AddToGroup(Other(b), Bridge, g, m), Erase(Other(b), Bridge, {g})}
      BY <1>3, <1>4 DEF Joins
    <2>2. /\ Unlock(b).op = "unlock" /\ Unlock(b).who = Null
          /\ AddToGroup(Other(b), Bridge, g, m).op = "add_to_group"
          /\ AddToGroup(Other(b), Bridge, g, m).who = Bridge
          /\ Erase(Other(b), Bridge, {g}).op = "erase" /\ Erase(Other(b), Bridge, {g}).who = Bridge
          /\ Erase(Other(b), Bridge, {g}).names = {g}
      BY DEF Unlock, AddToGroup, Erase, Step
    <2>3. \A x \in ToSet(r) : \/ x.op = "unlock" /\ x.who = Null
                              \/ x.op = "add_to_group" /\ x.who = Bridge
                              \/ x.op = "erase" /\ x.who = Bridge /\ x.names = {g}
      BY <2>1, <2>2
    <2> QED
      BY <1>5, <2>3, ActorsDiffer DEF PlainSteps, Update, Drops
  <1>8. Acquire(t, s.at)
    BY <1>3 DEF Enters
  <1> QED
    BY <1>1, <1>2, <1>3, <1>6, <1>7, <1>8, GroupsPlain

LEMMA CloseOneGroupPlain ==
    ASSUME BusInv, NEW t \in Thread, CloseOneGroup(t)
    PROVE  \E s, r : Plain(t, s, r)
  <1>1. PICK s : s = Head(script[t])
    OBVIOUS
  <1>2. s.at \in Side /\ s.op = "close_group"
    BY <1>1, CloseOneGroupEffect
  <1>3. PICK r \in Seq(ValidStep), groups \in SUBSET Group :
          /\ Goes(t, r) /\ UNCHANGED lockVars /\ Close(s.at, groups)
          /\ Marks(s.at, groups) /\ TellsClosed(r, s.at, groups)
    BY <1>1, CloseOneGroupEffect
  <1>4. BusInv' /\ UNCHANGED <<told, callers, connected>>
    BY CloseOneGroupKeeps
  <1>5. \A a \in Side, c \in Chan : listeners'[a][c] = listeners[a][c]
    <2>1. Clears(s.at, groups)
      BY <1>2, <1>3, CloseFields
    <2> QED
      BY <1>3, <2>1, NamesDiffer DEF Clears, Name
  <1>6. \A a \in Side : changed[a] => changed'[a]
    BY <1>2, <1>3 DEF Marks, BusInv, TypeOK
  <1>7. PlainSteps(s, r)
    <2>1. \A x \in ToSet(r) : \E g : x = CloseGroup(Other(s.at), Bridge, g)
      BY <1>3 DEF TellsClosed
    <2> QED
      BY <2>1, ActorsDiffer DEF PlainSteps, CloseGroup, Step, Update, Drops
  <1> QED
    BY <1>1, <1>2, <1>3, <1>4, <1>5, <1>6, <1>7, GroupsPlain

LEMMA LeavePlain ==
    ASSUME BusInv, NEW t \in Thread, Leave(t)
    PROVE  \E s, r : Plain(t, s, r)
  <1>1. PICK s : s = Head(script[t])
    OBVIOUS
  <1>2. s.at \in Side /\ s.op = "leave" /\ s.who \in Listener
    BY <1>1, LeaveEffect
  <1>3. PICK r, first, rest, groups : Leaves(t, s.at, s.who, r, first, rest, groups)
    BY <1>1, LeaveEffect
  <1>4. /\ groups \in SUBSET Group /\ Goes(t, r) /\ Acquire(t, s.at) /\ Close(s.at, groups)
        /\ TellsClosed(first, s.at, groups)
        /\ ToSet(rest) = {UnsubscribeAll(s.at, s.who), Unlock(s.at)}
        /\ ToSet(r) = ToSet(first) \cup ToSet(rest)
    BY <1>3 DEF Leaves, Enters
  <1>5. BusInv' /\ UNCHANGED <<told, callers, connected, changed>>
    BY LeaveKeeps
  <1>6. \A a \in Side, c \in Chan : listeners'[a][c] = listeners[a][c]
    <2>1. Clears(s.at, groups)
      BY <1>2, <1>4, CloseFields
    <2> QED
      BY <1>4, <2>1, NamesDiffer DEF Clears, Name
  <1>7. PlainSteps(s, r)
    <2>1. \A x \in ToSet(first) : \E g : x = CloseGroup(Other(s.at), Bridge, g)
      BY <1>4 DEF TellsClosed
    <2>2. PlainSteps(s, first)
      BY <2>1, ActorsDiffer DEF PlainSteps, CloseGroup, Step, Update, Drops
    <2>3. PlainSteps(s, rest)
      <3>1. \A x \in ToSet(rest) : x = UnsubscribeAll(s.at, s.who) \/ x = Unlock(s.at)
        BY <1>4
      <3> QED
        BY <1>2, <3>1, ActorsDiffer DEF PlainSteps, UnsubscribeAll, Unlock, Step, Update, Drops
    <2> QED
      BY <1>4, <2>2, <2>3 DEF PlainSteps
  <1> QED
    BY <1>1, <1>2, <1>4, <1>5, <1>6, <1>7, GroupsPlain

LEMMA PlainWork ==
    ASSUME BusInv, ChanInv, NEW t \in Thread,
           \/ Subscribe(t) \/ UnsubscribeSome(t) \/ UnsubscribeAllChannels(t) \/ ReplaceChannels(t)
           \/ AddMember(t) \/ CloseOneGroup(t) \/ Leave(t)
    PROVE  ChanInv'
  <1>1. \E s, r : Plain(t, s, r)
    BY SubscribePlain, UnsubscribePlain, ReplacePlain, AddMemberPlain, CloseOneGroupPlain, LeavePlain
  <1> QED
    BY <1>1, PlainKeeps

-----------------------------------------------------------------------------
(* Steps of the announcer, and of unlock(), which change no list.          *)

AnnounceOps == {"unlock", "announce", "announce_all", "collect", "collect_all", "release"}
Announcing(t, s, r) ==
    /\ s = Head(script[t]) /\ s.at \in Side /\ s.op \in AnnounceOps /\ Goes(t, r)
    /\ UNCHANGED <<busVars, connected>>
    /\ \A x \in ToSet(r) : /\ x.who \notin Listener
                           /\ x.op \notin {"announce_all", "unsubscribe_all_channels"}

LEMMA AnnouncingDue ==
    ASSUME BusInv, NEW t \in Thread, NEW s, NEW r, Announcing(t, s, r)
    PROVE  /\ s \in Due /\ Due \subseteq ValidStep /\ Due' \subseteq ValidStep
           /\ \A x \in Due' : x \in Due \/ x \in ToSet(r)
           /\ \A x \in Due : x \in Due' \/ x = s
           /\ ToSet(r) \subseteq Due'
           /\ Taken' = Taken /\ Offered' = Offered /\ connected' = connected
           /\ \A a : ~Update(s, a) /\ ~Drops(s, a)
  <1>1. s = Head(script[t]) /\ Goes(t, r) /\ s.op \in AnnounceOps /\ UNCHANGED <<busVars, connected>>
    BY DEF Announcing
  <1>2. /\ s \in Due /\ Due \subseteq ValidStep /\ Due' \subseteq ValidStep
        /\ \A x \in Due' : x \in Due \/ x \in ToSet(r)
        /\ \A x \in Due : x \in Due' \/ x = s
        /\ ToSet(r) \subseteq Due'
    BY <1>1, DueAfter
  <1>3. Taken' = Taken
    BY <1>1 DEF Taken, busVars
  <1>4. Offered' = Offered
    BY <1>1 DEF Offered, Exported, busVars
  <1>5. \A a : ~Update(s, a) /\ ~Drops(s, a)
    BY <1>1 DEF Update, Drops, AnnounceOps
  <1> QED
    BY <1>1, <1>2, <1>3, <1>4, <1>5

LEMMA AnnouncingAlone ==
    ASSUME BusInv, Alone, NEW t \in Thread, NEW s, NEW r, Announcing(t, s, r),
           (\E x \in Due' : JoinStep(x)) => Joining', Joining' => Joining,
           \A a \in Side : /\ callers'[a].resets <= 1
                           /\ ~connected => callers'[a].resets = 0
                           /\ \A x \in Due' : x.op = "announce_all" /\ x.at = a => callers'[a].resets = 0
    PROVE  Alone' /\ ~Beginning /\ ~Beginning'
  <1>1. /\ s = Head(script[t]) /\ Goes(t, r) /\ s \in Due /\ connected' = connected
        /\ \A x \in Due' : x \in Due \/ x \in ToSet(r)
        /\ \A x \in ToSet(r) : x.who \notin Listener /\ ~Drops(x, 2)
        /\ ~Drops(s, 2)
    BY AnnouncingDue DEF Announcing, Drops
  <1>2. ~Beginning' /\ (Beginning => Head(script[t]) = UnsubscribeAll(2, Bridge))
    BY <1>1, BeginningEnds
  <1>3. ~Beginning
    <2>1. Drops(UnsubscribeAll(2, Bridge), 2)
      BY DEF Drops, UnsubscribeAll, Step
    <2> QED
      BY <1>1, <1>2, <2>1
  <1>4. (\E x \in Due' : JoinStep(x)) => connected' /\ Joining'
    <2>1. Joining => connected
      BY DEF Alone, Joining, JoinStep, Whole
    <2> QED
      BY <1>1, <2>1
  <1>5. ASSUME Joining'
        PROVE  /\ \A u, v \in Thread : u = v \/ script'[u] = <<>> \/ script'[v] = <<>>
               /\ \A x \in Due' : x.who \notin Listener
    <2>1. Joining /\ script[t] # <<>> /\ \A u \in Thread \ {t} : script'[u] = script[u]
      BY <1>1, <1>5, ScriptAfter DEF Goes
    <2>2. \A u \in Thread \ {t} : script'[u] = <<>>
      BY <2>1 DEF Alone
    <2>3. \A x \in Due : x.who \notin Listener
      BY <2>1 DEF Alone
    <2> QED
      BY <1>1, <2>2, <2>3
  <1>6. Alone'
    BY <1>1, <1>2, <1>4, <1>5 DEF Alone
  <1> QED
    BY <1>2, <1>3, <1>6

LEMMA AnnouncingOrder ==
    ASSUME BusInv, InOrder, NEW t \in Thread, NEW s, NEW r, Announcing(t, s, r), Ordered(r),
           \A x \in ToSet(r), y \in ToSet(Tail(script[t])) : Modest(x) \/ MayPrecede(x, y),
           \A x \in ToSet(r), a \in Side : Update(x, Other(a)) => \E y \in ToSet(r) : Releasing(y, a)
    PROVE  InOrder' /\ \A y \in ToSet(Tail(script[t])) : MayPrecede(s, y)
  <1>1. s = Head(script[t]) /\ Goes(t, r) /\ r \in Seq(ValidStep) /\ s.op \in AnnounceOps
    BY DEF Announcing, Goes
  <1>2. /\ \A u \in Thread : Ordered(script'[u])
        /\ \A y \in ToSet(Tail(script[t])) : MayPrecede(s, y)
    BY <1>1, OrderAfter
  <1>3. /\ \A u \in Thread : \A x \in ToSet(script[u]) :
             x \in ToSet(script'[u]) \/ (u = t /\ x = Head(script[t]))
        /\ \A u \in Thread \ {t} : script'[u] = script[u]
        /\ \A x \in ToSet(script'[t]) : x \in ToSet(r) \/ x \in ToSet(Tail(script[t]))
        /\ ToSet(r) \subseteq ToSet(script'[t])
    BY <1>1, ScriptAfter
  <1>4. ToSet(script[t]) = {s} \cup ToSet(Tail(script[t]))
    BY <1>1, HeadAndTail, ScriptAfter DEF Goes
  <1>5. ASSUME NEW u \in Thread, NEW a \in Side, NEW x \in ToSet(script'[u]), Update(x, Other(a))
        PROVE  \E y \in ToSet(script'[u]) : Releasing(y, a)
    <2>1. CASE u # t
      BY <1>3, <1>5, <2>1 DEF InOrder
    <2>2. CASE u = t /\ x \in ToSet(r)
      BY <1>3, <1>5, <2>2
    <2>3. CASE u = t /\ x \in ToSet(Tail(script[t]))
      <3>1. x \in ToSet(script[t]) /\ MayPrecede(s, x)
        BY <1>2, <1>4, <2>3
      <3>2. PICK y \in ToSet(script[t]) : Releasing(y, a)
        BY <1>5, <3>1 DEF InOrder
      <3>3. y # s
        BY <1>5, <3>1, <3>2 DEF MayPrecede, Releasing
      <3> QED
        BY <1>1, <1>3, <2>3, <3>2, <3>3
    <2> QED
      BY <1>3, <2>1, <2>2, <2>3
  <1> QED
    BY <1>2, <1>5 DEF InOrder

\* Steps that neither announce nor do an update.
Same(a) ==
    /\ \A x \in Due' : Releasing(x, a) \/ Update(x, a) => x \in Due
    /\ \A x \in Due : Releasing(x, a) \/ Update(x, a) => x \in Due'

LEMMA ExactSame ==
    ASSUME NEW a \in Side, Exact(a), \A b \in Side : Same(b), told' = told, Taken' = Taken
    PROVE  Exact(a)'
  <1>1. \A L : Listed(a, L)' <=> Listed(a, L)
    BY ListedSame DEF Same
  <1>2. PICK b \in Side : b = Other(a)
    BY Sides
  <1>3. PICK U, V, T : U = Due /\ V = Due' /\ T = Taken[b]
    OBVIOUS
  <1>4. /\ \A x \in V : Update(x, b) => x \in U
        /\ \A x \in U : Update(x, b) => x \in V
    BY <1>2, <1>3 DEF Same
  <1>5. ASSUME NEW L \in SUBSET Chan, Listed(a, L)'
        PROVE  Brings(T, V, b, L)
    <2>1. Brings(T, U, b, L)
      BY <1>1, <1>2, <1>3, <1>5 DEF Exact
    <2> QED
      BY <1>4, <2>1, SameUpdates
  <1> QED
    BY <1>2, <1>3, <1>5 DEF Exact

LEMMA AgreedSame ==
    ASSUME Agreed, ~Beginning, ~Beginning', Joining' <=> Joining, \A b \in Side : Same(b),
           told' = told, Taken' = Taken, Offered' = Offered
    PROVE  Agreed'
  <1>1. CASE ~Joining
    BY <1>1, ExactSame DEF Agreed
  <1>2. CASE Joining
    <2>1. Partial
      BY <1>2 DEF Agreed
    <2>2. 2 \in Side
      BY DEF Side
    <2>3. Partial'
      BY <2>1, <2>2 DEF Partial, Same
    <2> QED
      BY <1>2, <2>3 DEF Agreed
  <1> QED
    BY <1>1, <1>2

LEMMA QuietSame ==
    ASSUME Quiet, Joining' <=> Joining, connected' = connected, \A b \in Side : Same(b),
           \A x \in Due' : x.who \in Listener => x \in Due,
           told' = told, Taken' = Taken, Offered' = Offered
    PROVE  Quiet'
  <1>1. Apart' <=> Apart
    BY DEF Apart
  <1>2. 1 \in Side /\ 2 \in Side
    BY DEF Side
  <1> QED
    BY <1>1, <1>2 DEF Quiet, Same

LEMMA UnlockChan ==
    ASSUME BusInv, ChanInv, NEW t \in Thread, UnlockBus(t)
    PROVE  ChanInv'
  <1>1. PICK b \in Side, r \in Seq(ValidStep) :
          /\ Continue(t, r) /\ script[t] # <<>>
          /\ Head(script[t]).op = "unlock" /\ Head(script[t]).at = b
          /\ mutex[b] = t
          /\ \/ /\ changed[b] /\ changed' = [changed EXCEPT ![b] = FALSE]
                /\ r = <<Step("announce", b, Bridge, {}), Unlock(b)>> /\ UNCHANGED lockVars
             \/ /\ ~(depth[b] = 1 /\ changed[b]) /\ UNCHANGED changed /\ r = <<>>
                /\ mutex' = [mutex EXCEPT ![b] = IF depth[b] = 1 THEN Null ELSE t]
    BY UnlockBusLocks
  <1>2. PICK s : s = Head(script[t])
    OBVIOUS
  <1>3. UNCHANGED <<busVars, told, callers, connected>> /\ Goes(t, r)
    BY <1>1 DEF UnlockBus, bridgeVars, Goes
  <1>4. PICK h, k : h = Step("announce", b, Bridge, {}) /\ k = Unlock(b)
    OBVIOUS
  <1>5. /\ h \in ValidStep /\ h.op = "announce" /\ h.at = b /\ h.who = Bridge
        /\ k \in ValidStep /\ k.op = "unlock" /\ k.who = Null
    <2>1. h \in ValidStep /\ k \in ValidStep
      BY <1>4, StepsFit
    <2> QED
      BY <1>4, <2>1 DEF Unlock, Step
  <1>6. (r = <<>> /\ ToSet(r) = {}) \/ (r = <<h, k>> /\ ToSet(r) = {h, k})
    <2>1. ToSet(<<h, k>>) = {h, k}
      BY <1>5, CountTwo
    <2> QED
      BY <1>1, <1>4, <2>1, NoSteps
  <1>7. \A x \in ToSet(r) : x.op \in {"announce", "unlock"} /\ x.who \notin Listener
    BY <1>5, <1>6, ActorsDiffer
  <1>8. Announcing(t, s, r)
    BY <1>1, <1>2, <1>3, <1>7 DEF Announcing, AnnounceOps
  <1>9. /\ \A x \in Due' : x \in Due \/ x \in ToSet(r)
        /\ \A x \in Due : x \in Due' \/ x = s
        /\ ToSet(r) \subseteq Due'
        /\ Taken' = Taken /\ Offered' = Offered
    BY <1>8, AnnouncingDue
  <1>10. \A x \in ToSet(r) \cup {s} : ~JoinStep(x) /\ ~Whole(x) /\ Modest(x)
                                      /\ \A a \in Side : ~Update(x, a) /\ ~Releasing(x, a) /\ x \notin Runs(a)
    BY <1>1, <1>2, <1>7 DEF JoinStep, Whole, Modest, Update, Releasing, Runs, Drops
  <1>11. (Joining' <=> Joining) /\ ((\E x \in Due' : JoinStep(x)) => \E x \in Due : JoinStep(x))
    BY <1>9, <1>10 DEF Joining
  <1>12. \A a \in Side : Same(a)
    BY <1>9, <1>10 DEF Same
  <1>13. Alone' /\ ~Beginning /\ ~Beginning'
    <2>1. \A x \in Due' : x.op = "announce_all" => x \in Due
      BY <1>7, <1>9
    <2> QED
      BY <1>3, <1>8, <1>11, <2>1, AnnouncingAlone DEF ChanInv, Alone
  <1>14. InOrder'
    <2>1. Ordered(r)
      BY <1>10, ModestOrdered
    <2>2. \A x \in ToSet(r), a \in Side : ~Update(x, Other(a))
      BY <1>10, Sides
    <2> QED
      BY <1>8, <1>10, <2>1, <2>2, AnnouncingOrder DEF ChanInv
  <1>15. OneRuns'
    <2>1. \A x \in ToSet(r) : x.op \notin {"collect", "collect_all", "release"}
      BY <1>7
    <2>2. \A a \in Side : Count(r, Runs(a)) = 0
      BY <2>1, NoRuns
    <2>3. \A a \in Side : Head(script[t]) \notin Runs(a)
      BY <1>2, <1>10
    <2> QED
      BY <1>3, <2>2, <2>3, RunsKept DEF ChanInv
  <1>16. Agreed' /\ Quiet'
    <2>1. \A x \in Due' : x.who \in Listener => x \in Due
      BY <1>7, <1>9
    <2> QED
      BY <1>3, <1>9, <1>11, <1>12, <1>13, <2>1, AgreedSame, QuietSame DEF ChanInv
  <1>17. ASSUME NEW a \in Side, Fresh(a)
         PROVE  Fresh(a)'
    <2>1. CASE \E x \in Due : Looks(x, a)
      <3>1. \A x \in Due : Looks(x, a) => x \in Due'
        BY <1>1, <1>2, <1>9 DEF Looks
      <3> QED
        BY <2>1, <3>1 DEF Fresh
    <2>2. CASE callers[a].all > 1
      BY <1>3, <2>2 DEF Fresh
    <2>3. CASE Listed(a, Offered[a])
      <3>1. PICK L : L = Offered[a]
        OBVIOUS
      <3>2. Listed(a, L)' <=> Listed(a, L)
        BY <1>3, <1>12, ListedSame DEF Same
      <3>3. Listed(a, Offered[a])'
        BY <1>9, <2>3, <3>1, <3>2
      <3> QED
        BY <3>3 DEF Fresh
    <2>4. CASE changed[a] /\ mutex[a] # Null
      <3>1. /\ changed \in [Side -> BOOLEAN] /\ mutex \in [Side -> Thread \cup {Null}]
            /\ t # Null
        BY ActorsDiffer DEF BusInv, TypeOK
      <3>2. CASE r = <<>>
        <4>1. changed' = changed /\ mutex' = [mutex EXCEPT ![b] = IF depth[b] = 1 THEN Null ELSE t]
              /\ ~(depth[b] = 1 /\ changed[b])
          BY <1>1, <3>2
        <4>2. changed'[a] /\ mutex'[a] # Null
          BY <2>4, <3>1, <4>1
        <4> QED
          BY <4>2 DEF Fresh
      <3>3. CASE r = <<h, k>>
        <4>1. CASE a = b
          <5>1. h \in Due' /\ Looks(h, a)
            BY <1>5, <1>6, <1>9, <3>3, <4>1 DEF Looks
          <5> QED
            BY <5>1 DEF Fresh
        <4>2. CASE a # b
          <5>1. changed'[a] = changed[a] /\ mutex'[a] = mutex[a]
            BY <1>1, <1>4, <3>1, <3>3, <4>2 DEF lockVars
          <5> QED
            BY <2>4, <5>1 DEF Fresh
        <4> QED
          BY <4>1, <4>2
      <3> QED
        BY <1>6, <3>2, <3>3
    <2> QED
      BY <1>17, <2>1, <2>2, <2>3, <2>4 DEF Fresh
  <1>18. Watched'
    BY <1>3, <1>17 DEF ChanInv, Watched
  <1> QED
    BY <1>13, <1>14, <1>15, <1>16, <1>18 DEF ChanInv

\* Each side is told once that everything is to be announced.
LEMMA WholeOnce ==
    ASSUME BusInv, Alone, InOrder, NEW t \in Thread, NEW s, NEW r, Announcing(t, s, r),
           s.op = "announce_all"
    PROVE  /\ Joining /\ connected /\ callers[s.at].resets = 0
           /\ \A x \in Due' : ~(x.op = "announce_all" /\ x.at = s.at)
           /\ Whole(s) => \A u \in Thread, a \in Side : \A x \in ToSet(script[u]) : x \notin Runs(a)
  <1>1. /\ s = Head(script[t]) /\ Goes(t, r) /\ s \in Due /\ s.at \in Side
        /\ \A x \in ToSet(r) : x.op # "announce_all"
    BY AnnouncingDue DEF Announcing
  <1>2. Joining /\ connected /\ callers[s.at].resets = 0
    BY <1>1 DEF Alone, JoinStep
  <1>3. script[t] # <<>> /\ \A u \in Thread \ {t} : script[u] = <<>>
    BY <1>1, <1>2 DEF Alone, Goes
  <1>4. /\ \A u \in Thread \ {t} : script'[u] = script[u]
        /\ \A x \in ToSet(script'[t]) : x \in ToSet(r) \/ x \in ToSet(Tail(script[t]))
        /\ script[t] \in Seq(ValidStep)
    BY <1>1, ScriptAfter
  <1>5. \A y \in ToSet(Tail(script[t])) : MayPrecede(s, y)
    BY <1>1, <1>3, <1>4, OrderedTail DEF InOrder
  <1>6. ToSet(<<>>) = {}
    BY NoSteps
  <1>7. \A u \in Thread : \A x \in ToSet(script'[u]) : ~(x.op = "announce_all" /\ x.at = s.at)
    BY <1>1, <1>3, <1>4, <1>5, <1>6 DEF MayPrecede
  <1>8. \A x \in Due' : ~(x.op = "announce_all" /\ x.at = s.at)
    BY <1>7 DEF Due
  <1>9. ASSUME Whole(s)
        PROVE  \A u \in Thread, a \in Side : \A x \in ToSet(script[u]) : x \notin Runs(a)
    <2>1. ToSet(script[t]) = {s} \cup ToSet(Tail(script[t]))
      BY <1>1, <1>3, <1>4, HeadAndTail
    <2>2. \A x \in ToSet(script[t]) : x.op \in {"announce", "announce_all"}
      BY <1>5, <1>9, <2>1 DEF MayPrecede
    <2>3. \A u \in Thread : \A x \in ToSet(script[u]) : x.op \in {"announce", "announce_all"}
      BY <1>3, <1>6, <2>2
    <2> QED
      BY <2>3 DEF Runs
  <1> QED
    BY <1>2, <1>8, <1>9

\* send_mine_channels(): what the one that finds the counter at zero does.
LEMMA NoRunsAny ==
    ASSUME NEW q \in Seq(ValidStep), NEW a, \A x \in ToSet(q) : x \notin Runs(a)
    PROVE  Count(q, Runs(a)) = 0
  BY CountNone

LEMMA RunsBegun ==
    ASSUME BusInv, OneRuns, NEW t \in Thread, NEW r, Goes(t, r), NEW b \in Side,
           \A a \in Side : Head(script[t]) \notin Runs(a),
           \A a \in Side : Count(r, Runs(a)) = IF a = b THEN 1 ELSE 0,
           callers[b].all = 0, callers'[b].all # 0,
           \A a \in Side : a # b => callers'[a].all = callers[a].all
    PROVE  OneRuns'
  <1>1. TypeOK /\ script[t] # <<>> /\ r \in Seq(ValidStep) /\ Continue(t, r)
    BY DEF BusInv, Goes
  <1>6. ASSUME NEW a \in Side
        PROVE  /\ Count(script'[t], Runs(a)) = Count(script[t], Runs(a)) + IF a = b THEN 1 ELSE 0
               /\ \A u \in Thread \ {t} : Count(script'[u], Runs(a)) = Count(script[u], Runs(a))
    <2>1. PICK S : S = Runs(a)
      OBVIOUS
    <2>2. /\ Count(script'[t], S) =
               Count(r, S) + Count(script[t], S) - (IF Head(script[t]) \in S THEN 1 ELSE 0)
          /\ Count(r, S) \in Nat /\ Count(script[t], S) \in Nat
          /\ \A u \in Thread \ {t} : Count(script'[u], S) = Count(script[u], S)
      BY <1>1, CountAfter
    <2>3. Count(r, S) = (IF a = b THEN 1 ELSE 0) /\ Head(script[t]) \notin S
      BY <2>1
    <2>4. Count(script'[t], S) = Count(script[t], S) + IF a = b THEN 1 ELSE 0
      BY <2>2, <2>3
    <2> QED
      BY <2>1, <2>2, <2>4
  <1>7. \A u \in Thread : Count(script[u], Runs(b)) = 0
    BY DEF OneRuns
  <1>8. Count(script'[t], Runs(b)) = 1 /\ \A u \in Thread \ {t} : Count(script'[u], Runs(b)) = 0
    BY <1>6, <1>7
  <1>9. ASSUME NEW a \in Side, a # b
        PROVE  \A u \in Thread : Count(script'[u], Runs(a)) = Count(script[u], Runs(a))
    <2>1. script[t] \in Seq(ValidStep)
      BY <1>1 DEF TypeOK
    <2>2. PICK S : S = Runs(a)
      OBVIOUS
    <2>3. Count(script[t], S) \in Nat
      BY <2>1, PlacesFinite
    <2>4. Count(script'[t], S) = Count(script[t], S) + 0 /\ \A u \in Thread \ {t} : Count(script'[u], S) = Count(script[u], S)
      BY <1>6, <1>9, <2>2
    <2> QED
      BY <2>2, <2>3, <2>4
  <1>11. ASSUME NEW a \in Side
         PROVE  /\ callers'[a].all = 0 => \A u \in Thread : Count(script'[u], Runs(a)) = 0
                /\ callers'[a].all # 0 =>
                     \E v \in Thread : /\ Count(script'[v], Runs(a)) = 1
                                       /\ \A u \in Thread \ {v} : Count(script'[u], Runs(a)) = 0
    <2>1. CASE a = b
      BY <1>8, <2>1
    <2>2. CASE a # b
      BY <1>9, <2>2 DEF OneRuns
    <2> QED
      BY <2>1, <2>2
  <1> QED
    BY <1>11 DEF OneRuns

LEMMA EnterChan ==
    ASSUME BusInv, ChanInv, NEW t \in Thread, Enter(t)
    PROVE  ChanInv'
  <1>1. PICK s : s = Head(script[t])
    OBVIOUS
  <1>2. /\ s.op \in {"announce", "announce_all"} /\ s \in ValidStep /\ s.at \in Side
        /\ callers' = [callers EXCEPT ![s.at] =
                [all |-> @.all + 1, resets |-> @.resets + IF s.op = "announce_all" THEN 1 ELSE 0]]
        /\ UNCHANGED <<busVars, told, connected, changed, lockVars, calls>>
    BY <1>1, EnterEffect
  <1>3. PICK r \in Seq(ValidStep) :
          /\ Goes(t, r)
          /\ \/ callers[s.at].all > 0 /\ r = <<>>
             \/ /\ ~(callers[s.at].all > 0)
                /\ r = <<Step(IF s.op = "announce_all" THEN "collect_all" ELSE "collect", s.at, Bridge, {})>>
    BY <1>1, EnterEffect
  <1>4. PICK b, op : b = s.at /\ op = IF s.op = "announce_all" THEN "collect_all" ELSE "collect"
    OBVIOUS
  <1>5. PICK x : x = Step(op, b, Bridge, {})
    OBVIOUS
  <1>6. x \in ValidStep /\ x.op = op /\ x.at = b /\ x.who = Bridge /\ b \in Side
    <2>1. x \in ValidStep
      BY <1>2, <1>4, <1>5, StepsFit
    <2> QED
      BY <1>2, <1>4, <1>5, <2>1 DEF Step
  <1>7. /\ callers \in [Side -> [all : Nat, resets : Nat]]
        /\ callers'[b].all = callers[b].all + 1
        /\ callers'[b].resets = callers[b].resets + IF s.op = "announce_all" THEN 1 ELSE 0
        /\ \A a \in Side : a # b => callers'[a] = callers[a]
        /\ callers[b].all \in Nat /\ callers[b].resets \in Nat
    <2>1. callers \in [Side -> [all : Nat, resets : Nat]]
      BY DEF BusInv, TypeOK
    <2> QED
      BY <1>2, <1>4, <1>6, <2>1
  <1>8. \/ callers[b].all > 0 /\ r = <<>> /\ ToSet(r) = {}
        \/ callers[b].all = 0 /\ r = <<x>> /\ ToSet(r) = {x}
    <2>1. ToSet(<<x>>) = {x}
      BY <1>4, <1>6, OneStep
    <2> QED
      BY <1>3, <1>4, <1>5, <1>7, <2>1, NoSteps
  <1>9. op \in {"collect", "collect_all"} /\ (op = "collect_all" <=> s.op = "announce_all")
    BY <1>2, <1>4
  <1>10. Announcing(t, s, r)
    BY <1>1, <1>2, <1>3, <1>6, <1>8, <1>9, ActorsDiffer DEF Announcing, AnnounceOps
  <1>11. /\ \A y \in Due' : y \in Due \/ y \in ToSet(r)
         /\ \A y \in Due : y \in Due' \/ y = s
         /\ ToSet(r) \subseteq Due' /\ s \in Due
         /\ Taken' = Taken /\ Offered' = Offered
    BY <1>10, AnnouncingDue
  <1>12. \A y \in ToSet(r) \cup {s} : \A a \in Side : ~Update(y, a) /\ ~Releasing(y, a)
    BY <1>2, <1>6, <1>8, <1>9 DEF Update, Releasing
  <1>13. \A a \in Side : Same(a)
    BY <1>11, <1>12 DEF Same
  <1>14. s.op = "announce_all" =>
           /\ Joining /\ connected /\ callers[b].resets = 0
           /\ \A y \in Due' : ~(y.op = "announce_all" /\ y.at = b)
           /\ Whole(s) => \A u \in Thread, a \in Side : \A y \in ToSet(script[u]) : y \notin Runs(a)
    BY <1>4, <1>10, WholeOnce DEF ChanInv
  <1>15. Whole(s) => r = <<x>>
    <2>1. ASSUME Whole(s), callers[b].all # 0
          PROVE  FALSE
      <3>1. \A u \in Thread : \A y \in ToSet(script[u]) : y \notin Runs(b)
        BY <1>2, <1>6, <1>14, <2>1 DEF Whole
      <3>2. \A u \in Thread : script[u] \in Seq(ValidStep)
        BY DEF BusInv, TypeOK
      <3>3. \A u \in Thread : Count(script[u], Runs(b)) = 0
        BY <3>1, <3>2, NoRunsAny
      <3>4. \E u \in Thread : Count(script[u], Runs(b)) = 1
        BY <1>6, <2>1 DEF ChanInv, OneRuns
      <3> QED
        BY <3>3, <3>4
    <2> QED
      BY <1>8, <2>1
  <1>16. Joining' <=> Joining
    <2>1. Whole(x) <=> Whole(s)
      BY <1>2, <1>4, <1>6, <1>9 DEF Whole
    <2>2. Whole(s) => x \in Due'
      BY <1>8, <1>11, <1>15
    <2>3. \A y \in ToSet(r) : y = x
      BY <1>8
    <2> QED
      BY <1>11, <2>1, <2>2, <2>3 DEF Joining
  <1>17. (\E y \in Due' : JoinStep(y)) => Joining'
    <2>1. \A y \in ToSet(r) : JoinStep(y) => JoinStep(s)
      BY <1>6, <1>8, <1>9 DEF JoinStep, Drops
    <2> QED
      BY <1>11, <1>16, <2>1 DEF ChanInv, Alone
  <1>18. ASSUME NEW a \in Side
         PROVE  /\ callers'[a].resets <= 1
                /\ ~connected => callers'[a].resets = 0
                /\ \A y \in Due' : y.op = "announce_all" /\ y.at = a => callers'[a].resets = 0
    <2>1. /\ callers[a].resets <= 1
          /\ ~connected => callers[a].resets = 0
          /\ \A y \in Due : y.op = "announce_all" /\ y.at = a => callers[a].resets = 0
      BY DEF ChanInv, Alone
    <2>2. \A y \in Due' : y.op = "announce_all" => y \in Due
      BY <1>6, <1>8, <1>9, <1>11
    <2>3. CASE a # b
      BY <1>7, <2>1, <2>2, <2>3
    <2>4. CASE a = b /\ s.op = "announce"
      BY <1>7, <2>1, <2>2, <2>4
    <2>5. CASE a = b /\ s.op = "announce_all"
      BY <1>7, <1>14, <2>5
    <2> QED
      BY <1>2, <2>3, <2>4, <2>5
  <1>19. Alone' /\ ~Beginning /\ ~Beginning'
    BY <1>10, <1>16, <1>17, <1>18, AnnouncingAlone DEF ChanInv
  <1>20. InOrder'
    <2>1. Ordered(r)
      <3>1. CASE r = <<>>
        BY <1>3, <1>8, <3>1, ModestOrdered
      <3>2. CASE r = <<x>>
        BY <1>3, <3>2, ModestOrdered
      <3> QED
        BY <1>8, <3>1, <3>2
    <2>2. \A y \in ToSet(r), a \in Side : ~Update(y, Other(a))
      BY <1>12, Sides
    <2>3. \A y \in ToSet(Tail(script[t])) : MayPrecede(s, y)
      BY <1>1, <1>3, OrderedTail, ScriptAfter DEF ChanInv, InOrder, Goes
    <2>4. \A y \in ToSet(Tail(script[t])) : MayPrecede(x, y)
      BY <1>2, <1>4, <1>6, <1>9, <2>3 DEF MayPrecede, Whole
    <2>5. \A z \in ToSet(r), y \in ToSet(Tail(script[t])) : MayPrecede(z, y)
      BY <1>8, <2>4
    <2> QED
      BY <1>10, <2>1, <2>2, <2>5, AnnouncingOrder DEF ChanInv
  <1>21. OneRuns'
    <2>1. CASE callers[b].all > 0 /\ r = <<>> /\ ToSet(r) = {}
      <3>1. \A a \in Side : Count(r, Runs(a)) = 0
        BY <1>3, <2>1, NoRunsAny
      <3>2. \A a \in Side : Head(script[t]) \notin Runs(a)
        BY <1>1, <1>2 DEF Runs
      <3>3. \A a \in Side : callers'[a].all = 0 <=> callers[a].all = 0
        BY <1>7, <2>1
      <3> QED
        BY <1>3, <3>1, <3>2, <3>3, RunsKept DEF ChanInv
    <2>2. CASE callers[b].all = 0 /\ r = <<x>>
      <3>1. \A a \in Side : x \in Runs(a) <=> a = b
        BY <1>6, <1>9 DEF Runs, ValidStep
      <3>2. \A a \in Side : Count(<<x>>, Runs(a)) = IF a = b THEN 1 ELSE 0
        BY <3>1, CountOne
      <3>3. \A a \in Side : Count(r, Runs(a)) = IF a = b THEN 1 ELSE 0
        BY <2>2, <3>2
      <3>4. callers'[b].all # 0 /\ \A a \in Side : a # b => callers'[a].all = callers[a].all
        BY <1>7, <2>2
      <3>5. \A a \in Side : Head(script[t]) \notin Runs(a)
        BY <1>1, <1>2 DEF Runs
      <3> HIDE <2>2
      <3>6. callers[b].all = 0
        BY <2>2
      <3> QED
        BY <1>3, <1>6, <3>3, <3>4, <3>5, <3>6, RunsBegun DEF ChanInv
    <2> QED
      BY <1>8, <2>1, <2>2
  <1>22. Agreed' /\ Quiet'
    <2>1. \A y \in Due' : y.who \in Listener => y \in Due
      BY <1>6, <1>8, <1>11, ActorsDiffer
    <2> QED
      BY <1>2, <1>11, <1>13, <1>16, <1>19, <2>1, AgreedSame, QuietSame DEF ChanInv
  <1>23. ASSUME NEW a \in Side, Fresh(a)
         PROVE  Fresh(a)'
    <2>1. CASE a = b
      <3>1. CASE r = <<>>
        <4>1. callers'[b].all > 1
          BY <1>7, <1>8, <3>1
        <4> QED
          BY <2>1, <4>1 DEF Fresh
      <3>2. CASE r = <<x>>
        <4>1. x \in Due' /\ Looks(x, a)
          BY <1>6, <1>8, <1>9, <1>11, <2>1, <3>2 DEF Looks
        <4> QED
          BY <4>1 DEF Fresh
      <3> QED
        BY <1>8, <3>1, <3>2
    <2>2. CASE a # b
      <3>1. CASE \E y \in Due : Looks(y, a)
        <4>1. ~Looks(s, a)
          BY <1>4, <2>2 DEF Looks
        <4> QED
          BY <1>11, <3>1, <4>1 DEF Fresh
      <3>2. CASE callers[a].all > 1
        BY <1>7, <2>2, <3>2 DEF Fresh
      <3>3. CASE changed[a] /\ mutex[a] # Null
        BY <1>2, <3>3 DEF Fresh, lockVars
      <3>4. CASE Listed(a, Offered[a])
        <4>1. PICK L : L = Offered[a]
          OBVIOUS
        <4>2. Listed(a, L)' <=> Listed(a, L)
          BY <1>2, <1>13, ListedSame DEF Same
        <4>3. Listed(a, Offered[a])'
          BY <1>11, <3>4, <4>1, <4>2
        <4> QED
          BY <4>3 DEF Fresh
      <3> QED
        BY <1>23, <3>1, <3>2, <3>3, <3>4 DEF Fresh
    <2> QED
      BY <2>1, <2>2
  <1>24. Watched'
    BY <1>2, <1>23 DEF ChanInv, Watched
  <1> QED
    BY <1>19, <1>20, <1>21, <1>22, <1>24 DEF ChanInv

\* process_mine_channels(): the updates, and the list that they bring about.
CollectDone(t, s, r, first, rel) ==
    /\ Announcing(t, s, r) /\ s.op \in {"collect", "collect_all"}
    /\ first \in Seq(ValidStep) /\ rel \in ValidStep /\ r = first \o <<rel>>
    /\ ToSet(r) = ToSet(first) \cup {rel}
    /\ first = UpdateList(Other(s.at), told[s.at], Offered[s.at], s.op)
    /\ rel.op = "release" /\ rel.at = s.at /\ rel.who = Bridge /\ rel.names = Offered[s.at]
    /\ \A x \in ToSet(first) :
         x.op \in {"add", "erase", "replace"} /\ x.at = Other(s.at) /\ x.who = Bridge

LEMMA CollectDoes ==
    ASSUME BusInv, NEW t \in Thread, Collect(t)
    PROVE  /\ UNCHANGED <<told, lockVars>>
           /\ \E s, r, first, rel : CollectDone(t, s, r, first, rel)
  <1>1. PICK s : s = Head(script[t])
    OBVIOUS
  <1>2. /\ s.op \in {"collect", "collect_all"} /\ s.at \in Side /\ Exported(s.at) \in SUBSET Chan
        /\ UNCHANGED <<busVars, told, connected, lockVars, calls>>
    BY <1>1, CollectEffect
  <1>3. PICK r \in Seq(ValidStep), first \in Seq(ValidStep) :
          /\ Goes(t, r)
          /\ r = first \o <<Step("release", s.at, Bridge, Exported(s.at))>>
          /\ ToSet(r) = ToSet(first) \cup {Step("release", s.at, Bridge, Exported(s.at))}
          /\ first = UpdateList(Other(s.at), told[s.at], Exported(s.at), s.op)
          /\ \A x \in ToSet(first) :
               x.op \in {"add", "erase", "replace"} /\ x.at = Other(s.at) /\ x.who = Bridge
    BY <1>1, CollectSteps
  <1>4. PICK rel : rel = Step("release", s.at, Bridge, Exported(s.at))
    OBVIOUS
  <1>5. Offered[s.at] = Exported(s.at)
    BY <1>2, ListsTyped
  <1>6. rel \in ValidStep
    BY <1>2, <1>4, StepsFit DEF Member
  <1>7. rel.op = "release" /\ rel.at = s.at /\ rel.who = Bridge /\ rel.names = Exported(s.at)
    BY <1>4 DEF Step
  <1>8. ToSet(r) = ToSet(first) \cup {rel} /\ r = first \o <<rel>>
    BY <1>3, <1>4
  <1>9. \A x \in ToSet(r) : x.op \in {"add", "erase", "replace", "release"} /\ x.who = Bridge
    BY <1>3, <1>7, <1>8
  <1>10. Announcing(t, s, r)
    BY <1>1, <1>2, <1>3, <1>9, ActorsDiffer DEF Announcing, AnnounceOps
  <1>11. first = UpdateList(Other(s.at), told[s.at], Offered[s.at], s.op)
    BY <1>3, <1>5
  <1> HIDE <1>4
  <1>12. CollectDone(t, s, r, first, rel)
    BY <1>2, <1>3, <1>5, <1>6, <1>7, <1>8, <1>10, <1>11 DEF CollectDone
  <1> QED
    BY <1>2, <1>12

LEMMA CollectDue ==
    ASSUME BusInv, OneRuns, InOrder, NEW t \in Thread, NEW s, NEW r, NEW first, NEW rel,
           CollectDone(t, s, r, first, rel), told' = told
    PROVE  /\ \A y \in Due : ~Releasing(y, s.at) /\ ~Update(y, Other(s.at))
           /\ \A y \in Due' : Releasing(y, s.at) => y = rel
           /\ \A y \in Due' : Update(y, Other(s.at)) => y \in ToSet(first)
           /\ rel \in Due' /\ ToSet(first) \subseteq Due'
           /\ \A L : Listed(s.at, L) <=> L = told[s.at]
           /\ \A L : Listed(s.at, L)' <=> L = Offered[s.at]
           /\ \A y \in Due' : Releasing(y, Other(s.at)) \/ Update(y, s.at) => y \in Due
           /\ \A y \in Due : Releasing(y, Other(s.at)) \/ Update(y, s.at) => y \in Due'
           /\ \A L : Listed(Other(s.at), L)' <=> Listed(Other(s.at), L)
  <1>1. /\ Announcing(t, s, r) /\ s.op \in {"collect", "collect_all"}
        /\ ToSet(r) = ToSet(first) \cup {rel}
        /\ rel.op = "release" /\ rel.at = s.at /\ rel.names = Offered[s.at]
        /\ \A x \in ToSet(first) : x.op \in {"add", "erase", "replace"} /\ x.at = Other(s.at)
    BY DEF CollectDone
  <1>2. s = Head(script[t]) /\ Goes(t, r) /\ s.at \in Side /\ script[t] # <<>>
    BY <1>1 DEF Announcing, Goes
  <1>3. PICK a : a = s.at
    OBVIOUS
  <1>4. PICK b : b = Other(a)
    OBVIOUS
  <1>5. a \in Side /\ b \in Side /\ a # b /\ Other(b) = a
    BY <1>2, <1>3, <1>4, Sides
  <1>6. /\ Due \subseteq ValidStep /\ Due' \subseteq ValidStep
        /\ \A y \in Due' : y \in Due \/ y \in ToSet(r)
        /\ \A y \in Due : y \in Due' \/ y = s
        /\ ToSet(r) \subseteq Due'
    BY <1>1, AnnouncingDue
  <1>7. s \in Runs(a)
    <2>1. s \in StepType
      BY <1>2, AtHand DEF BusInv
    <2> QED
      BY <1>1, <1>3, <2>1 DEF Runs
  <1>8. /\ \A u \in Thread \ {t} : \A x \in ToSet(script[u]) : x \notin Runs(a)
        /\ \A x \in ToSet(Tail(script[t])) : x \notin Runs(a)
    BY <1>2, <1>5, <1>7, OnlyOneRuns
  <1>9. ToSet(script[t]) = {s} \cup ToSet(Tail(script[t]))
    BY <1>2, HeadAndTail, ScriptAfter
  <1>10. \A x \in ValidStep : Releasing(x, a) => x \in Runs(a)
    BY DEF Releasing, Runs, ValidStep
  <1>11. \A u \in Thread : \A y \in ToSet(script[u]) : ~Releasing(y, a)
    <2>1. \A u \in Thread : ToSet(script[u]) \subseteq ValidStep
      BY <1>6 DEF Due
    <2>2. ~Releasing(s, a)
      BY <1>1 DEF Releasing
    <2> QED
      BY <1>8, <1>9, <1>10, <2>1, <2>2
  <1>12. \A y \in Due : ~Releasing(y, a) /\ ~Update(y, b)
    BY <1>4, <1>5, <1>11 DEF InOrder, Due
  <1>13. \A y \in ToSet(r) : (Releasing(y, a) => y = rel) /\ (Update(y, b) => y \in ToSet(first))
    BY <1>1 DEF Releasing, Update
  <1>14. \A y \in Due' : (Releasing(y, a) => y = rel) /\ (Update(y, b) => y \in ToSet(first))
    BY <1>6, <1>12, <1>13
  <1>15. rel \in Due' /\ ToSet(first) \subseteq Due' /\ Releasing(rel, a)
    BY <1>1, <1>3, <1>6 DEF Releasing
  <1>16. \A L : Listed(a, L) <=> L = told[a]
    BY <1>12 DEF Listed
  <1>17. \A L : Listed(a, L)' <=> L = Offered[a]
    BY <1>1, <1>3, <1>14, <1>15 DEF Listed
  <1>18. \A y \in ToSet(r) \cup {s} : ~Releasing(y, b) /\ ~Update(y, a)
    BY <1>1, <1>3, <1>4, <1>5 DEF Releasing, Update
  <1>19. /\ \A y \in Due' : Releasing(y, b) \/ Update(y, a) => y \in Due
         /\ \A y \in Due : Releasing(y, b) \/ Update(y, a) => y \in Due'
    BY <1>6, <1>18
  <1>20. \A L : Listed(b, L)' <=> Listed(b, L)
    BY <1>5, <1>19, ListedSame
  <1> QED
    BY <1>3, <1>4, <1>12, <1>14, <1>15, <1>16, <1>17, <1>19, <1>20

LEMMA CollectOrder ==
    ASSUME BusInv, OneRuns, InOrder, NEW t \in Thread, NEW s, NEW r, NEW first, NEW rel,
           CollectDone(t, s, r, first, rel), told' = told,
           \A a \in Side : callers'[a].all = 0 <=> callers[a].all = 0
    PROVE  OneRuns' /\ InOrder' /\ \A y \in ToSet(Tail(script[t])) : MayPrecede(s, y)
  <1>1. PICK w : w = <<rel>>
    OBVIOUS
  <1>2. /\ Announcing(t, s, r) /\ s.op \in {"collect", "collect_all"}
        /\ first \in Seq(ValidStep) /\ rel \in ValidStep /\ r = first \o w
        /\ ToSet(r) = ToSet(first) \cup {rel}
        /\ rel.op = "release" /\ rel.at = s.at
        /\ \A x \in ToSet(first) : x.op \in {"add", "erase", "replace"} /\ x.at = Other(s.at)
    BY <1>1 DEF CollectDone
  <1>3. s = Head(script[t]) /\ Goes(t, r) /\ s.at \in Side /\ script[t] # <<>> /\ r \in Seq(ValidStep)
    BY <1>2 DEF Announcing, Goes
  <1>4. w \in Seq(ValidStep) /\ ToSet(w) = {rel} /\ Len(w) = 1
    BY <1>1, <1>2, OneStep
  <1>5. \A x \in ToSet(first) : Modest(x)
    BY <1>2 DEF Modest
  <1>6. Ordered(r)
    <2>1. Ordered(first) /\ Ordered(w)
      BY <1>2, <1>4, <1>5, ModestOrdered
    <2>2. \A x \in ToSet(first), y \in ToSet(w) : MayPrecede(x, y)
      BY <1>5 DEF Modest, MayPrecede, Whole
    <2> QED
      BY <1>2, <1>4, <2>1, <2>2, OrderedConcat
  <1>7. \A y \in ToSet(Tail(script[t])) : MayPrecede(rel, y)
    <2>1. \A y \in Due : ~Update(y, Other(s.at))
      BY CollectDue
    <2>2. ToSet(Tail(script[t])) \subseteq Due
      <3>1. ToSet(script[t]) = {s} \cup ToSet(Tail(script[t])) /\ ToSet(script[t]) \subseteq Due
        BY <1>3, HeadAndTail, ScriptAfter, DueNow
      <3> QED
        BY <3>1
    <2> QED
      BY <1>2, <2>1, <2>2 DEF MayPrecede, Whole
  <1>8. \A x \in ToSet(r), y \in ToSet(Tail(script[t])) : Modest(x) \/ MayPrecede(x, y)
    BY <1>2, <1>5, <1>7
  <1>9. \A x \in ToSet(r), a \in Side : Update(x, Other(a)) => \E y \in ToSet(r) : Releasing(y, a)
    <2>1. ASSUME NEW x \in ToSet(r), NEW a \in Side, Update(x, Other(a))
          PROVE  Releasing(rel, a)
      <3>1. x.at = Other(s.at) /\ x.at = Other(a)
        BY <1>2, <2>1 DEF Update
      <3>2. a = s.at
        BY <1>3, <3>1, Sides
      <3> QED
        BY <1>2, <3>2 DEF Releasing
    <2> QED
      BY <1>2, <2>1
  <1>10. InOrder' /\ \A y \in ToSet(Tail(script[t])) : MayPrecede(s, y)
    BY <1>2, <1>6, <1>8, <1>9, AnnouncingOrder
  <1>11. ASSUME NEW a \in Side
         PROVE  Count(r, Runs(a)) = IF Head(script[t]) \in Runs(a) THEN 1 ELSE 0
    <2>1. PICK S : S = Runs(a)
      OBVIOUS
    <2>2. \A x \in ToSet(first) : x \notin S
      BY <1>2, <2>1 DEF Runs
    <2>3. rel \in S <=> s \in S
      <3>1. s \in ValidStep
        BY <1>3, AtHand DEF BusInv
      <3> QED
        BY <1>2, <2>1, <3>1 DEF Runs, ValidStep
    <2>4. Count(w, S) = IF rel \in S THEN 1 ELSE 0
      BY <1>1, CountOne
    <2>5. Count(first, S) = 0
      BY <1>2, <2>2, CountNone
    <2>6. Count(r, S) = Count(first, S) + Count(w, S)
      BY <1>2, <1>4, CountConcat
    <2>7. Count(r, S) = IF s \in S THEN 1 ELSE 0
      BY <2>3, <2>4, <2>5, <2>6
    <2> QED
      BY <1>3, <2>1, <2>7
  <1>12. OneRuns'
    BY <1>3, <1>11, RunsKept
  <1> QED
    BY <1>10, <1>12

\* The first broker's whole list is the last that connect() announces.
LEMMA CollectWhole ==
    ASSUME BusInv, Alone, NEW t \in Thread, NEW s, NEW r, NEW first, NEW rel,
           CollectDone(t, s, r, first, rel), Whole(s),
           \A y \in ToSet(Tail(script[t])) : MayPrecede(s, y)
    PROVE  Joining /\ \A x \in Due' : x \in ToSet(r) \/ x.op = "announce"
  <1>1. s = Head(script[t]) /\ Goes(t, r) /\ s \in Due
    BY AnnouncingDue DEF CollectDone, Announcing
  <1>2. Joining
    BY <1>1 DEF Joining
  <1>3. script[t] # <<>> /\ \A u \in Thread \ {t} : script[u] = <<>>
    BY <1>1, <1>2 DEF Alone, Goes
  <1>4. /\ \A u \in Thread \ {t} : script'[u] = script[u]
        /\ \A x \in ToSet(script'[t]) : x \in ToSet(r) \/ x \in ToSet(Tail(script[t]))
    BY <1>1, ScriptAfter
  <1>5. \A u \in Thread : \A x \in ToSet(script'[u]) : x \in ToSet(r) \/ x.op = "announce"
    BY <1>3, <1>4, NoSteps DEF MayPrecede
  <1> QED
    BY <1>2, <1>5 DEF Due

LEMMA CollectAlone ==
    ASSUME BusInv, Alone, NEW t \in Thread, NEW s, NEW r, NEW first, NEW rel,
           CollectDone(t, s, r, first, rel),
           \A y \in ToSet(Tail(script[t])) : MayPrecede(s, y),
           \A a \in Side : callers'[a].resets = callers[a].resets
    PROVE  /\ Alone' /\ ~Beginning /\ ~Beginning'
           /\ Joining' <=> Joining /\ ~Whole(s)
  <1>1. /\ Announcing(t, s, r) /\ s.op \in {"collect", "collect_all"}
        /\ ToSet(r) = ToSet(first) \cup {rel} /\ rel.op = "release"
        /\ \A x \in ToSet(first) : x.op \in {"add", "erase", "replace"}
    BY DEF CollectDone
  <1>2. /\ s \in Due
        /\ \A x \in Due' : x \in Due \/ x \in ToSet(r)
        /\ \A x \in Due : x \in Due' \/ x = s
    BY <1>1, AnnouncingDue
  <1>3. \A x \in ToSet(r) : ~JoinStep(x) /\ ~Whole(x) /\ x.op # "announce_all"
    BY <1>1 DEF JoinStep, Whole, Drops
  <1>4. Whole(s) => \A x \in Due' : ~JoinStep(x) /\ ~Whole(x)
    <2>1. Whole(s) => \A x \in Due' : x \in ToSet(r) \/ x.op = "announce"
      BY CollectWhole
    <2>2. \A x : x.op = "announce" => ~JoinStep(x) /\ ~Whole(x)
      BY DEF JoinStep, Whole, Drops
    <2> QED
      BY <1>3, <2>1, <2>2
  <1>5. Joining' <=> Joining /\ ~Whole(s)
    BY <1>2, <1>3, <1>4 DEF Joining
  <1>6. (\E x \in Due' : JoinStep(x)) => Joining'
    BY <1>2, <1>3, <1>4, <1>5 DEF Alone
  <1>7. \A x \in Due' : x.op = "announce_all" => x \in Due
    BY <1>2, <1>3
  <1>8. Alone' /\ ~Beginning /\ ~Beginning'
    BY <1>1, <1>5, <1>6, <1>7, AnnouncingAlone DEF Alone
  <1> QED
    BY <1>5, <1>8

\* Nothing is announced of the second broker until the two are joined.
LEMMA CollectQuiet ==
    ASSUME BusInv, Quiet, NEW t \in Thread, NEW s, NEW r, NEW first, NEW rel,
           CollectDone(t, s, r, first, rel), told' = told, Joining' => Joining
    PROVE  Quiet'
  <1>1. /\ Announcing(t, s, r) /\ s.at \in Side
        /\ ToSet(r) = ToSet(first) \cup {rel}
        /\ first = UpdateList(Other(s.at), told[s.at], Offered[s.at], s.op)
        /\ rel.op = "release" /\ rel.at = s.at /\ rel.who = Bridge /\ rel.names = Offered[s.at]
        /\ \A x \in ToSet(first) : x.op # "release" /\ x.at = Other(s.at) /\ x.who = Bridge
    BY DEF CollectDone, Announcing
  <1>2. /\ \A x \in Due' : x \in Due \/ x \in ToSet(r)
        /\ Taken' = Taken /\ Offered' = Offered /\ connected' = connected
    BY <1>1, AnnouncingDue
  <1>3. Apart' => Apart
    BY <1>2 DEF Apart
  <1>4. SUFFICES ASSUME Apart
                 PROVE  /\ Offered[2] = {} /\ Taken[1] = {} /\ told[2] = {}
                        /\ \A x \in Due' : /\ ~Update(x, 1)
                                           /\ Releasing(x, 2) => x.names = {}
                                           /\ x.who \in Listener => x.at = 1
    BY <1>2, <1>3 DEF Quiet
  <1>5. /\ Offered[2] = {} /\ Taken[1] = {} /\ told[2] = {}
        /\ \A x \in Due : /\ ~Update(x, 1)
                          /\ Releasing(x, 2) => x.names = {}
                          /\ x.who \in Listener => x.at = 1
    BY <1>4 DEF Quiet
  <1>6. Releasing(rel, 2) => rel.names = {}
    BY <1>1, <1>5 DEF Releasing
  <1>7. \A x \in ToSet(first) : ~Update(x, 1)
    <2>1. CASE s.at = 1
      BY <1>1, <2>1, Sides DEF Update
    <2>2. CASE s.at = 2
      <3>1. PICK b, old, new, op : b = Other(s.at) /\ old = told[s.at] /\ new = Offered[s.at] /\ op = s.op
        OBVIOUS
      <3>2. old = {} /\ new = {} /\ b \in Side /\ first = UpdateList(b, old, new, op)
        BY <1>1, <1>5, <2>2, <3>1, Sides
      <3>3. old \in SUBSET Chan /\ new \in SUBSET Chan
        BY <3>2
      <3>4. ToSet(first) = {}
        BY <3>2, <3>3, ListPartial
      <3> QED
        BY <3>4
    <2> QED
      BY <1>1, <2>1, <2>2 DEF Side
  <1>8. ~Update(rel, 1)
    BY <1>1 DEF Update
  <1>9. \A x \in ToSet(r) : /\ ~Update(x, 1)
                            /\ Releasing(x, 2) => x.names = {}
                            /\ x.who \notin Listener
    BY <1>1, <1>6, <1>7, <1>8, ActorsDiffer DEF Releasing
  <1> QED
    BY <1>2, <1>5, <1>9

LEMMA CollectExact ==
    ASSUME BusInv, OneRuns, InOrder, NEW t \in Thread, NEW s, NEW r, NEW first, NEW rel,
           CollectDone(t, s, r, first, rel), told' = told,
           s.op # "collect_all" => Taken[Other(s.at)] = told[s.at],
           s.op = "collect_all" => Taken[Other(s.at)] \subseteq Offered[s.at]
    PROVE  Exact(s.at)'
  <1>1. /\ first = UpdateList(Other(s.at), told[s.at], Offered[s.at], s.op) /\ s.at \in Side
        /\ Taken' = Taken
    BY AnnouncingDue DEF CollectDone, Announcing
  <1>2. PICK a, b, old, new, op, T, V :
          /\ a = s.at /\ b = Other(a) /\ old = told[a] /\ new = Offered[a] /\ op = s.op
          /\ T = Taken[b] /\ V = Due'
    OBVIOUS
  <1>3. /\ a \in Side /\ b \in Side /\ old \in SUBSET Chan /\ new \in SUBSET Chan /\ T \in SUBSET Chan
        /\ op # "collect_all" => T = old
        /\ op = "collect_all" => T \subseteq new
        /\ first = UpdateList(b, old, new, op)
    BY <1>1, <1>2, ListsTyped, Sides DEF BusInv, TypeOK
  <1>4. /\ \A x \in V : Update(x, b) => x \in ToSet(first)
        /\ ToSet(first) \subseteq V
        /\ \A L : Listed(a, L)' <=> L = new
    BY <1>2, CollectDue
  <1>5. Brings(T, V, b, new)
    BY <1>3, <1>4, ListBrings
  <1>6. \A L \in SUBSET Chan : Listed(a, L)' => Brings(T, V, b, L)
    BY <1>4, <1>5
  <1>7. Exact(a)'
    BY <1>1, <1>2, <1>6 DEF Exact
  <1> QED
    BY <1>2, <1>7

LEMMA CollectElsewhere ==
    ASSUME BusInv, OneRuns, InOrder, NEW t \in Thread, NEW s, NEW r, NEW first, NEW rel,
           CollectDone(t, s, r, first, rel), told' = told, Exact(Other(s.at))
    PROVE  Exact(Other(s.at))'
  <1>1. Taken' = Taken /\ s.at \in Side
    BY AnnouncingDue DEF CollectDone, Announcing
  <1>2. PICK a, b, U, V, T : a = s.at /\ b = Other(a) /\ U = Due /\ V = Due' /\ T = Taken[a]
    OBVIOUS
  <1>3. a = Other(b) /\ b \in Side
    BY <1>1, <1>2, Sides
  <1>4. /\ \A y \in V : Update(y, a) => y \in U
        /\ \A y \in U : Update(y, a) => y \in V
        /\ \A L : Listed(b, L)' <=> Listed(b, L)
    BY <1>2, CollectDue
  <1>5. ASSUME NEW L \in SUBSET Chan, Listed(b, L)'
        PROVE  Brings(T, V, a, L)
    <2>1. Brings(T, U, a, L)
      BY <1>2, <1>3, <1>4, <1>5 DEF Exact
    <2> QED
      BY <1>4, <2>1, SameUpdates
  <1>6. Exact(b)'
    BY <1>1, <1>2, <1>3, <1>5 DEF Exact
  <1> QED
    BY <1>2, <1>6

LEMMA CollectAgreed ==
    ASSUME BusInv, OneRuns, InOrder, Alone, Quiet, Agreed,
           NEW t \in Thread, NEW s, NEW r, NEW first, NEW rel,
           CollectDone(t, s, r, first, rel), told' = told,
           \A y \in ToSet(Tail(script[t])) : MayPrecede(s, y),
           ~Beginning, ~Beginning', Joining' <=> Joining /\ ~Whole(s)
    PROVE  Agreed'
  <1>1. /\ Announcing(t, s, r) /\ s.at \in Side /\ s.op \in {"collect", "collect_all"} /\ s \in Due
        /\ Taken' = Taken /\ Offered' = Offered
        /\ ToSet(r) = ToSet(first) \cup {rel}
        /\ first = UpdateList(Other(s.at), told[s.at], Offered[s.at], s.op)
        /\ rel.op = "release" /\ rel.at = s.at
        /\ \A x \in ToSet(first) : x.op # "release" /\ x.at = Other(s.at)
    BY AnnouncingDue DEF CollectDone, Announcing
  <1>2. CASE ~Joining
    <2>1. s.op = "collect"
      BY <1>1, <1>2 DEF Alone, JoinStep
    <2>2. Taken[Other(s.at)] = told[s.at]
      <3>1. PICK a, b, old, T, U : a = s.at /\ b = Other(a) /\ old = told[a] /\ T = Taken[b] /\ U = Due
        OBVIOUS
      <3>2. a \in Side /\ b \in Side /\ old \in SUBSET Chan /\ T \in SUBSET Chan
        BY <1>1, <3>1, Sides, ListsTyped DEF BusInv, TypeOK
      <3>3. Listed(a, old) /\ \A y \in U : ~Update(y, b)
        BY <3>1, CollectDue
      <3>4. Brings(T, U, b, old)
        BY <1>2, <3>1, <3>2, <3>3 DEF Agreed, Exact
      <3>5. old = T
        BY <3>2, <3>3, <3>4, NoUpdates
      <3> QED
        BY <3>1, <3>5
    <2>3. Exact(s.at)'
      BY <2>1, <2>2, CollectExact
    <2>4. Exact(Other(s.at))'
      <3>1. Exact(Other(s.at))
        BY <1>1, <1>2, Sides DEF Agreed
      <3> QED
        BY <3>1, CollectElsewhere
    <2>5. \A a \in Side : a = s.at \/ a = Other(s.at)
      BY <1>1, Sides
    <2>6. \A a \in Side : Exact(a)'
      BY <2>3, <2>4, <2>5
    <2> QED
      BY <1>2, <2>6 DEF Agreed
  <1>3. CASE Joining /\ Whole(s)
    <2>1. s.at = 1 /\ s.op = "collect_all" /\ Other(s.at) = 2 /\ 1 \in Side /\ 2 \in Side
      BY <1>1, <1>3, Sides DEF Whole, Side
    <2>2. Taken[2] \subseteq Offered[1]
      BY <1>3 DEF Agreed, Partial
    <2>3. Exact(1)'
      BY <2>1, <2>2, CollectExact
    <2>4. \A x \in Due' : x \in ToSet(r) \/ x.op = "announce"
      BY <1>3, CollectWhole
    <2>5. \A x \in Due' : ~Update(x, 1) /\ ~Releasing(x, 2)
      BY <1>1, <2>1, <2>4 DEF Update, Releasing
    <2>6. told[2] = {} /\ Taken[1] = {}
      BY <1>3 DEF Quiet, Apart
    <2>7. Exact(2)'
      <3>1. \A L \in SUBSET Chan : Listed(2, L)' => L = {}
        BY <2>5, <2>6 DEF Listed
      <3>2. PICK T, V : T = {} /\ V = Due'
        OBVIOUS
      <3>3. T \in SUBSET Chan /\ \A x \in V : ~Update(x, 1)
        BY <2>5, <3>2
      <3>4. Brings(T, V, 1, T)
        BY <3>3, NoUpdates
      <3>5. \A L \in SUBSET Chan : Listed(2, L)' => Brings(T, V, 1, L)
        BY <3>1, <3>2, <3>4
      <3>6. Taken'[1] = T /\ Other(2) = 1
        BY <1>1, <2>6, <3>2, Sides
      <3> QED
        BY <3>2, <3>5, <3>6 DEF Exact
    <2>8. \A a \in Side : Exact(a)'
      BY <2>3, <2>7 DEF Side
    <2> QED
      BY <1>3, <2>8 DEF Agreed
  <1>4. CASE Joining /\ ~Whole(s)
    <2>1. Partial
      BY <1>4 DEF Agreed
    <2>2. ASSUME NEW x \in Due', Update(x, 2), x.op # "erase"
          PROVE  x.names \subseteq Offered[1]
      <3>1. CASE x \in Due
        BY <2>1, <2>2, <3>1 DEF Partial
      <3>2. CASE x \in ToSet(first)
        <4>1. x.at = Other(s.at) /\ x.at = 2
          BY <1>1, <2>2, <3>2 DEF Update
        <4>2. s.at = 1
          BY <1>1, <4>1, Sides DEF Side
        <4>3. PICK b, old, new, op : b = 2 /\ old = told[1] /\ new = Offered[1] /\ op = s.op
          OBVIOUS
        <4>4. /\ b \in Side /\ old \in SUBSET Chan /\ new \in SUBSET Chan
              /\ first = UpdateList(b, old, new, op)
          BY <1>1, <4>1, <4>2, <4>3, Sides, ListsTyped DEF BusInv, TypeOK
        <4>5. \A y \in ToSet(first) : y.op # "erase" => y.names \subseteq new
          BY <4>4, ListPartial
        <4> QED
          BY <2>2, <3>2, <4>3, <4>5
      <3>3. CASE x = rel
        BY <1>1, <2>2, <3>3 DEF Update
      <3> QED
        BY <1>1, <3>1, <3>2, <3>3, AnnouncingDue
    <2>3. Partial'
      BY <1>1, <2>1, <2>2 DEF Partial
    <2> QED
      BY <1>4, <2>3 DEF Agreed
  <1> QED
    BY <1>2, <1>3, <1>4

LEMMA CollectChan ==
    ASSUME BusInv, ChanInv, NEW t \in Thread, Collect(t)
    PROVE  ChanInv'
  <1>1. told' = told /\ mutex' = mutex
    BY CollectDoes DEF lockVars
  <1>2. PICK s, r, first, rel : CollectDone(t, s, r, first, rel)
    BY CollectDoes
  <1>3. /\ Announcing(t, s, r) /\ s = Head(script[t]) /\ s.at \in Side /\ script[t] # <<>>
        /\ s.op \in {"collect", "collect_all"}
    BY <1>2 DEF CollectDone, Announcing, Goes
  <1>4. PICK a, n : a = s.at /\ n = (IF depth[s.at] = 0 /\ changed[s.at] THEN 1 ELSE 0)
    OBVIOUS
  <1>5. /\ callers' = [callers EXCEPT ![a].all = @ + n]
        /\ \A b \in Side : b # a => changed'[b] = changed[b]
    <2>1. /\ changed' = [changed EXCEPT ![a] = @ /\ ~(depth[a] = 0 /\ changed[a])]
          /\ callers' = [callers EXCEPT ![a].all = @ + n]
      BY <1>3, <1>4 DEF Collect
    <2>2. changed \in [Side -> BOOLEAN]
      BY DEF BusInv, TypeOK
    <2> QED
      BY <1>4, <2>1, <2>2
  <1>6. callers[a].all # 0
    <2>1. s \in Runs(a)
      BY <1>3, <1>4, AtHand DEF Runs, BusInv
    <2> QED
      BY <1>3, <1>4, <2>1, OnlyOneRuns DEF ChanInv
  <1>7. \A b \in Side : /\ callers'[b].resets = callers[b].resets
                        /\ callers'[b].all = 0 <=> callers[b].all = 0
                        /\ callers'[b].all >= callers[b].all
    <2>1. n \in Nat /\ a \in Side
      BY <1>3, <1>4
    <2>2. callers \in [Side -> [all : Nat, resets : Nat]]
      BY DEF BusInv, TypeOK
    <2> HIDE <1>4
    <2> QED
      BY <1>5, <1>6, <2>1, <2>2
  <1>8. OneRuns' /\ InOrder' /\ \A y \in ToSet(Tail(script[t])) : MayPrecede(s, y)
    BY <1>1, <1>2, <1>7, CollectOrder DEF ChanInv
  <1>9. /\ Alone' /\ ~Beginning /\ ~Beginning'
        /\ Joining' <=> Joining /\ ~Whole(s)
    BY <1>2, <1>7, <1>8, CollectAlone DEF ChanInv
  <1>10. Quiet'
    BY <1>1, <1>2, <1>9, CollectQuiet DEF ChanInv
  <1>11. Agreed'
    BY <1>1, <1>2, <1>8, <1>9, CollectAgreed DEF ChanInv
  <1>12. Offered' = Offered /\ connected' = connected /\ \A x \in Due : x \in Due' \/ x = s
    BY <1>3, AnnouncingDue
  <1>13. ASSUME NEW b \in Side, Fresh(b)
         PROVE  Fresh(b)'
    <2>1. CASE b = s.at
      <3>1. \A L : Listed(s.at, L)' <=> L = Offered[s.at]
        BY <1>1, <1>2, CollectDue DEF ChanInv
      <3>2. Listed(s.at, Offered[s.at])'
        BY <1>12, <3>1
      <3> QED
        BY <2>1, <3>2 DEF Fresh
    <2>2. CASE b # s.at
      <3>1. b = Other(s.at)
        BY <1>3, <2>2, Sides
      <3>2. CASE Listed(b, Offered[b])
        <4>1. \A L : Listed(Other(s.at), L)' <=> Listed(Other(s.at), L)
          BY <1>1, <1>2, CollectDue DEF ChanInv
        <4>2. \A L : Listed(b, L)' <=> Listed(b, L)
          BY <3>1, <4>1
        <4>3. Listed(b, Offered[b])'
          BY <1>12, <3>2, <4>2
        <4> QED
          BY <4>3 DEF Fresh
      <3>3. CASE \E x \in Due : Looks(x, b)
        BY <1>12, <2>2, <3>3 DEF Fresh, Looks
      <3>4. CASE callers[b].all > 1
        <4>1. callers'[b].all > 1
          <5>1. callers'[b] = callers[b]
            BY <1>4, <1>5, <2>2
          <5> QED
            BY <3>4, <5>1
        <4> QED
          BY <4>1 DEF Fresh
      <3>5. CASE changed[b] /\ mutex[b] # Null
        BY <1>1, <1>4, <1>5, <2>2, <3>5 DEF Fresh
      <3> QED
        BY <1>13, <3>2, <3>3, <3>4, <3>5 DEF Fresh
    <2> QED
      BY <2>1, <2>2
  <1>14. Watched'
    BY <1>12, <1>13 DEF ChanInv, Watched
  <1> QED
    BY <1>8, <1>9, <1>10, <1>11, <1>14 DEF ChanInv

\* persist_channel_list(): the list that was being announced was the last one.
LEMMA RunsEnded ==
    ASSUME BusInv, OneRuns, NEW t \in Thread, NEW r, Goes(t, r), NEW b \in Side,
           \A a \in Side : Head(script[t]) \in Runs(a) <=> a = b,
           \A a \in Side : Count(r, Runs(a)) = 0,
           callers'[b].all = 0,
           \A a \in Side : a # b => callers'[a].all = callers[a].all
    PROVE  OneRuns'
  <1>1. TypeOK /\ script[t] # <<>> /\ r \in Seq(ValidStep) /\ Continue(t, r)
    BY DEF BusInv, Goes
  <1>2. ASSUME NEW a \in Side
        PROVE  /\ Count(script'[t], Runs(a)) = Count(script[t], Runs(a)) - IF a = b THEN 1 ELSE 0
               /\ \A u \in Thread \ {t} : Count(script'[u], Runs(a)) = Count(script[u], Runs(a))
               /\ \A u \in Thread : Count(script[u], Runs(a)) \in Nat
    <2>1. PICK S : S = Runs(a)
      OBVIOUS
    <2>2. /\ Count(script'[t], S) =
               Count(r, S) + Count(script[t], S) - (IF Head(script[t]) \in S THEN 1 ELSE 0)
          /\ Count(r, S) \in Nat /\ Count(script[t], S) \in Nat
          /\ \A u \in Thread \ {t} : Count(script'[u], S) = Count(script[u], S)
      BY <1>1, CountAfter
    <2>3. Count(r, S) = 0 /\ (Head(script[t]) \in S <=> a = b)
      BY <2>1
    <2>4. Count(script'[t], S) = Count(script[t], S) - IF a = b THEN 1 ELSE 0
      BY <2>2, <2>3
    <2>5. \A u \in Thread : script[u] \in Seq(ValidStep)
      BY <1>1 DEF TypeOK
    <2>6. \A u \in Thread : Count(script[u], S) \in Nat
      BY <2>5, PlacesFinite
    <2> QED
      BY <2>1, <2>2, <2>4, <2>6
  <1>3. /\ Count(script[t], Runs(b)) # 0
        /\ \A u \in Thread : script[u] \in Seq(ValidStep)
    <2>1. \A u \in Thread : script[u] \in Seq(ValidStep)
      BY <1>1 DEF TypeOK
    <2>2. PICK S, w : S = Runs(b) /\ w = Tail(script[t])
      OBVIOUS
    <2>3. w \in Seq(ValidStep) /\ Count(script[t], S) = Count(w, S) + IF Head(script[t]) \in S THEN 1 ELSE 0
      BY <1>1, <2>1, <2>2, HeadAndTail
    <2>4. Count(w, S) \in Nat /\ Head(script[t]) \in S
      BY <2>2, <2>3, PlacesFinite
    <2>5. Count(script[t], S) # 0
      BY <2>3, <2>4
    <2> QED
      BY <2>1, <2>2, <2>5
  <1>4. PICK v \in Thread : /\ Count(script[v], Runs(b)) = 1
                            /\ \A u \in Thread \ {v} : Count(script[u], Runs(b)) = 0
    BY <1>3 DEF OneRuns
  <1>5. v = t
    BY <1>3, <1>4
  <1>6. \A u \in Thread : Count(script'[u], Runs(b)) = 0
    BY <1>2, <1>4, <1>5
  <1>7. ASSUME NEW a \in Side, a # b
        PROVE  \A u \in Thread : Count(script'[u], Runs(a)) = Count(script[u], Runs(a))
    <2>1. Count(script'[t], Runs(a)) = Count(script[t], Runs(a)) - 0 /\ Count(script[t], Runs(a)) \in Nat
      BY <1>2, <1>7
    <2> QED
      BY <1>2, <2>1
  <1>8. ASSUME NEW a \in Side
        PROVE  /\ callers'[a].all = 0 => \A u \in Thread : Count(script'[u], Runs(a)) = 0
               /\ callers'[a].all # 0 =>
                    \E w \in Thread : /\ Count(script'[w], Runs(a)) = 1
                                      /\ \A u \in Thread \ {w} : Count(script'[u], Runs(a)) = 0
    <2>1. CASE a = b
      BY <1>6, <2>1
    <2>2. CASE a # b
      BY <1>7, <2>2 DEF OneRuns
    <2> QED
      BY <2>1, <2>2
  <1> QED
    BY <1>8 DEF OneRuns

LEMMA ReleaseChan ==
    ASSUME BusInv, ChanInv, NEW t \in Thread, Release(t)
    PROVE  ChanInv'
  <1>1. PICK s : s = Head(script[t])
    OBVIOUS
  <1>2. /\ s.op = "release" /\ s \in ValidStep /\ s.at \in Side /\ s.names \in SUBSET Chan
        /\ UNCHANGED <<busVars, connected, changed, lockVars, calls>>
        /\ told' = [told EXCEPT ![s.at] = s.names]
        /\ callers' = [callers EXCEPT ![s.at] = [all |-> 0, resets |-> 0]]
    BY <1>1, ReleaseEffect
  <1>3. PICK r \in Seq(ValidStep) :
          /\ Goes(t, r)
          /\ \/ ~(callers[s.at].all > 1) /\ r = <<>>
             \/ /\ callers[s.at].all > 1
                /\ r = <<Step(IF callers[s.at].resets > 1 THEN "announce_all" ELSE "announce", s.at, Bridge, {})>>
    BY <1>1, ReleaseEffect
  <1>4. PICK a, b : a = s.at /\ b = Other(a)
    OBVIOUS
  <1>5. a \in Side /\ b \in Side /\ a # b /\ Other(b) = a /\ \A c \in Side : c = a \/ c = b
    BY <1>2, <1>4, Sides
  <1>6. ~(callers[a].resets > 1)
    <2>1. callers[a].resets \in Nat
      BY <1>5 DEF BusInv, TypeOK
    <2> QED
      BY <1>5, <2>1 DEF ChanInv, Alone
  <1>7. PICK x : x = Step("announce", a, Bridge, {})
    OBVIOUS
  <1>8. x \in ValidStep /\ x.op = "announce" /\ x.at = a /\ x.who = Bridge
    <2>1. x \in ValidStep
      BY <1>5, <1>7, StepsFit
    <2> QED
      BY <1>7, <2>1 DEF Step
  <1>9. \/ ~(callers[a].all > 1) /\ ToSet(r) = {}
        \/ callers[a].all > 1 /\ ToSet(r) = {x}
    <2>1. ToSet(<<x>>) = {x}
      BY <1>8, OneStep
    <2> QED
      BY <1>3, <1>4, <1>6, <1>7, <2>1, NoSteps
  <1>10. \A y \in ToSet(r) : y.op = "announce" /\ y.who = Bridge
    BY <1>8, <1>9
  <1>11. Announcing(t, s, r)
    BY <1>1, <1>2, <1>3, <1>10, ActorsDiffer DEF Announcing, AnnounceOps
  <1>12. /\ \A y \in Due' : y \in Due \/ y \in ToSet(r)
         /\ \A y \in Due : y \in Due' \/ y = s
         /\ ToSet(r) \subseteq Due' /\ s \in Due
         /\ Due \subseteq ValidStep /\ Due' \subseteq ValidStep
         /\ Taken' = Taken /\ Offered' = Offered
    BY <1>11, AnnouncingDue
  <1>13. \A y \in ToSet(r) : Modest(y) /\ ~JoinStep(y) /\ ~Whole(y) /\ \A c \in Side : y \notin Runs(c) /\ ~Update(y, c) /\ ~Releasing(y, c)
    BY <1>10 DEF Modest, JoinStep, Whole, Drops, Runs, Update, Releasing
  <1>14. ~JoinStep(s) /\ ~Whole(s) /\ (\A c : ~Looks(s, c) /\ ~Update(s, c)) /\ ~Releasing(s, b) /\ Releasing(s, a)
    BY <1>2, <1>4, <1>5 DEF JoinStep, Whole, Drops, Looks, Update, Releasing
  <1>15. \A c \in Side : s \in Runs(c) <=> c = a
    BY <1>2, <1>4 DEF Runs, ValidStep
  <1>16. /\ \A u \in Thread \ {t} : \A y \in ToSet(script[u]) : y \notin Runs(a)
         /\ \A y \in ToSet(Tail(script[t])) : y \notin Runs(a)
    BY <1>1, <1>3, <1>5, <1>15, OnlyOneRuns DEF ChanInv, Goes
  <1>17. \A y \in Due' : ~Releasing(y, a)
    <2>1. \A u \in Thread : \A y \in ToSet(script'[u]) : y \notin Runs(a)
      <3>1. /\ \A u \in Thread \ {t} : script'[u] = script[u]
            /\ \A y \in ToSet(script'[t]) : y \in ToSet(r) \/ y \in ToSet(Tail(script[t]))
        BY <1>3, ScriptAfter
      <3> QED
        BY <1>5, <1>13, <1>16, <3>1
    <2>2. \A y \in Due' : y \notin Runs(a)
      BY <2>1 DEF Due
    <2>3. \A y \in ValidStep : Releasing(y, a) => y \in Runs(a)
      BY DEF Releasing, Runs, ValidStep
    <2> QED
      BY <1>12, <2>2, <2>3
  <1>18. \A y \in Due : Releasing(y, a) => y = s
    BY <1>12, <1>17
  <1>19. told'[a] = s.names /\ told'[b] = told[b]
    <2>1. told \in [Side -> SUBSET Chan]
      BY DEF BusInv, TypeOK
    <2> QED
      BY <1>2, <1>4, <1>5, <2>1
  <1>20. \A L : Listed(a, L)' <=> Listed(a, L)
    <2>1. \A L : Listed(a, L) <=> L = s.names
      BY <1>12, <1>14, <1>18 DEF Listed
    <2>2. \A L : Listed(a, L)' <=> L = s.names
      BY <1>17, <1>19 DEF Listed
    <2> QED
      BY <2>1, <2>2
  <1>21. \A L : Listed(b, L)' <=> Listed(b, L)
    <2>1. /\ \A y \in Due' : Releasing(y, b) => y \in Due
          /\ \A y \in Due : Releasing(y, b) => y \in Due'
      BY <1>5, <1>12, <1>13, <1>14
    <2> QED
      BY <1>5, <1>19, <2>1, ListedSame
  <1>22. \A c \in Side : \A L : Listed(c, L)' <=> Listed(c, L)
    BY <1>5, <1>20, <1>21
  <1>23. /\ \A c \in Side : \A y \in Due' : Update(y, c) => y \in Due
         /\ \A c \in Side : \A y \in Due : Update(y, c) => y \in Due'
    BY <1>12, <1>13, <1>14
  <1>24. (Joining' <=> Joining) /\ ((\E y \in Due' : JoinStep(y)) => \E y \in Due : JoinStep(y))
    BY <1>12, <1>13, <1>14 DEF Joining
  <1>25. /\ callers'[a].all = 0 /\ callers'[a].resets = 0
         /\ \A c \in Side : c # a => callers'[c] = callers[c]
    <2>1. callers \in [Side -> [all : Nat, resets : Nat]]
      BY DEF BusInv, TypeOK
    <2> QED
      BY <1>2, <1>4, <1>5, <2>1
  <1>26. Alone' /\ ~Beginning /\ ~Beginning'
    <2>1. \A y \in Due' : y.op = "announce_all" => y \in Due
      BY <1>10, <1>12
    <2>2. ASSUME NEW c \in Side
          PROVE  /\ callers'[c].resets <= 1
                 /\ ~connected => callers'[c].resets = 0
                 /\ \A y \in Due' : y.op = "announce_all" /\ y.at = c => callers'[c].resets = 0
      <3>1. CASE c = a
        BY <1>25, <3>1
      <3>2. CASE c # a
        BY <1>25, <2>1, <3>2 DEF ChanInv, Alone
      <3> QED
        BY <3>1, <3>2
    <2> QED
      BY <1>11, <1>24, <2>2, AnnouncingAlone DEF ChanInv, Alone
  <1>27. InOrder'
    <2>1. Ordered(r)
      BY <1>13, <1>3, ModestOrdered
    <2>2. \A y \in ToSet(r), c \in Side : ~Update(y, Other(c))
      BY <1>13, Sides
    <2> QED
      BY <1>11, <1>13, <2>1, <2>2, AnnouncingOrder DEF ChanInv
  <1>28. OneRuns'
    <2>1. \A c \in Side : Count(r, Runs(c)) = 0
      BY <1>13, <1>3, NoRunsAny
    <2>2. \A c \in Side : Head(script[t]) \in Runs(c) <=> c = a
      BY <1>1, <1>15
    <2>3. \A c \in Side : c # a => callers'[c].all = callers[c].all
      BY <1>25
    <2> QED
      BY <1>3, <1>5, <1>25, <2>1, <2>2, <2>3, RunsEnded DEF ChanInv
  <1>29. Quiet'
    <2>1. Apart' <=> Apart
      BY <1>2, <1>24 DEF Apart
    <2>2. Apart => told'[2] = {}
      <3>1. CASE a = 2
        BY <1>12, <1>14, <1>19, <3>1 DEF ChanInv, Quiet
      <3>2. CASE b = 2
        BY <1>19, <3>2 DEF ChanInv, Quiet
      <3> QED
        BY <1>5, <3>1, <3>2 DEF Side
    <2>3. 1 \in Side /\ 2 \in Side
      BY DEF Side
    <2>4. \A y \in ToSet(r) : y.who \notin Listener
      BY <1>10, ActorsDiffer
    <2> QED
      BY <1>12, <1>13, <2>1, <2>2, <2>3, <2>4 DEF ChanInv, Quiet
  <1>30. Agreed'
    <2>1. ASSUME NEW c \in Side, Exact(c)
          PROVE  Exact(c)'
      <3>1. PICK d \in Side : d = Other(c)
        BY Sides
      <3>2. PICK U, V, T : U = Due /\ V = Due' /\ T = Taken[d]
        OBVIOUS
      <3>3. /\ \A y \in V : Update(y, d) => y \in U
            /\ \A y \in U : Update(y, d) => y \in V
        BY <1>23, <3>1, <3>2
      <3>4. ASSUME NEW L \in SUBSET Chan, Listed(c, L)'
            PROVE  Brings(T, V, d, L)
        <4>1. Brings(T, U, d, L)
          BY <1>22, <2>1, <3>1, <3>2, <3>4 DEF Exact
        <4> QED
          BY <3>3, <4>1, SameUpdates
      <3> QED
        BY <1>12, <3>1, <3>2, <3>4 DEF Exact
    <2>2. CASE ~Joining
      BY <1>24, <2>1, <2>2 DEF ChanInv, Agreed
    <2>3. CASE Joining
      <3>1. Partial
        BY <1>26, <2>3 DEF ChanInv, Agreed
      <3>2. 2 \in Side
        BY DEF Side
      <3>3. Partial'
        BY <1>12, <1>23, <3>1, <3>2 DEF Partial
      <3> QED
        BY <1>24, <2>3, <3>3 DEF Agreed
    <2> QED
      BY <2>2, <2>3
  <1>31. ASSUME NEW c \in Side, Fresh(c)
         PROVE  Fresh(c)'
    <2>1. CASE Listed(c, Offered[c])
      <3>1. PICK L : L = Offered[c]
        OBVIOUS
      <3>2. Listed(c, L)' <=> Listed(c, L)
        BY <1>22
      <3>3. Listed(c, Offered[c])'
        BY <1>12, <2>1, <3>1, <3>2
      <3> QED
        BY <3>3 DEF Fresh
    <2>2. CASE \E y \in Due : Looks(y, c)
      BY <1>12, <1>14, <2>2 DEF Fresh
    <2>3. CASE changed[c] /\ mutex[c] # Null
      BY <1>2, <2>3 DEF Fresh, lockVars
    <2>4. CASE callers[c].all > 1
      <3>1. CASE c = a
        <4>1. x \in Due' /\ Looks(x, c)
          BY <1>8, <1>9, <1>12, <2>4, <3>1 DEF Looks
        <4> QED
          BY <4>1 DEF Fresh
      <3>2. CASE c # a
        BY <1>25, <2>4, <3>2 DEF Fresh
      <3> QED
        BY <3>1, <3>2
    <2> QED
      BY <1>31, <2>1, <2>2, <2>3, <2>4 DEF Fresh
  <1>32. Watched'
    BY <1>2, <1>31 DEF ChanInv, Watched
  <1> QED
    BY <1>26, <1>27, <1>28, <1>29, <1>30, <1>32 DEF ChanInv
-----------------------------------------------------------------------------
(* Calls of the program, connect(), and the theorem.                       *)

LEMMA StartDue ==
    ASSUME BusInv, NEW t \in Thread, Idle(t), NEW q \in Seq(ValidStep),
           script' = [script EXCEPT ![t] = q]
    PROVE  /\ script[t] = <<>> /\ script'[t] = q /\ \A u \in Thread \ {t} : script'[u] = script[u]
           /\ \A x \in Due' : x \in Due \/ x \in ToSet(q)
           /\ Due \subseteq Due' /\ ToSet(q) \subseteq Due'
  <1>1. script \in [Thread -> Seq(ValidStep)]
    BY DEF BusInv, TypeOK
  <1>2. script[t] = <<>> /\ script'[t] = q /\ \A u \in Thread \ {t} : script'[u] = script[u]
    BY <1>1 DEF Idle
  <1>3. ToSet(<<>>) = {}
    BY NoSteps
  <1>4. \A u \in Thread : ToSet(script[u]) \subseteq ToSet(script'[u])
    BY <1>2, <1>3
  <1>5. \A u \in Thread : \A x \in ToSet(script'[u]) : x \in ToSet(script[u]) \/ x \in ToSet(q)
    BY <1>2
  <1>6. ToSet(q) \subseteq ToSet(script'[t])
    BY <1>2
  <1>7. /\ \A x \in Due' : x \in Due \/ x \in ToSet(q)
        /\ Due \subseteq Due' /\ ToSet(q) \subseteq Due'
    BY <1>4, <1>5, <1>6 DEF Due
  <1> QED
    BY <1>2, <1>7

LEMMA StartOrder ==
    ASSUME BusInv, OneRuns, InOrder, NEW t \in Thread, Idle(t), NEW q \in Seq(ValidStep),
           script' = [script EXCEPT ![t] = q], callers' = callers, Ordered(q),
           \A x \in ToSet(q), a \in Side : ~Update(x, a) /\ x \notin Runs(a)
    PROVE  OneRuns' /\ InOrder'
  <1>1. script[t] = <<>> /\ script'[t] = q /\ \A u \in Thread \ {t} : script'[u] = script[u]
    BY StartDue
  <1>2. \A a \in Side : Count(q, Runs(a)) = 0 /\ Count(script[t], Runs(a)) = 0
    BY NoRunsAny, IdleCounts
  <1>3. \A u \in Thread, a \in Side : Count(script'[u], Runs(a)) = Count(script[u], Runs(a))
    BY <1>1, <1>2
  <1>4. OneRuns'
    BY <1>3 DEF OneRuns
  <1>5. \A u \in Thread : Ordered(script'[u])
    BY <1>1 DEF InOrder
  <1>6. \A x \in ToSet(q), a \in Side : ~Update(x, Other(a))
    BY Sides
  <1>7. ASSUME NEW u \in Thread, NEW a \in Side, NEW x \in ToSet(script'[u]), Update(x, Other(a))
        PROVE  \E y \in ToSet(script'[u]) : Releasing(y, a)
    <2>1. CASE u = t
      BY <1>1, <1>6, <1>7, <2>1
    <2>2. CASE u # t
      BY <1>1, <1>7, <2>2 DEF InOrder
    <2> QED
      BY <2>1, <2>2
  <1> QED
    BY <1>4, <1>5, <1>7 DEF InOrder

LEMMA NotWhileJoining ==
    ASSUME BusInv, ConnectAlone, NEW l \in Usable
    PROVE  ~Joining
  <1>1. ASSUME Joining PROVE FALSE
    <2>1. PICK y \in Due : Whole(y)
      BY <1>1 DEF Joining
    <2>2. PICK u \in Thread : y \in ToSet(script[u])
      BY <2>1 DEF Due
    <2>3. y \in ValidStep
      BY <2>1, DueNow
    <2>4. y.op \in {"announce_all", "collect_all"} /\ y.who = Bridge
      BY <2>1, <2>3 DEF Whole, ValidStep, Fits
    <2>5. Connecting(u)
      BY <2>2, <2>4 DEF Connecting
    <2> QED
      BY <2>5 DEF Usable
  <1> QED
    BY <1>1

LEMMA CallChan ==
    ASSUME BusInv, ChanInv, ConnectAlone, \A l \in Early : Home[l] = 1,
           NEW t \in Thread, Call(t)
    PROVE  ChanInv'
  <1>1. Idle(t) /\ UNCHANGED <<busVars, bridgeVars, changed, lockVars>>
    BY CallEffect
  <1>2. PICK x \in ValidStep :
          /\ script' = [script EXCEPT ![t] = <<x>>]
          /\ x.op \in {"add", "erase", "leave", "add_to_group", "close_group"}
          /\ x.who \in Usable /\ x.who \in Listener /\ x.at = Home[x.who]
    BY CallEffect
  <1>3. PICK q : q = <<x>>
    OBVIOUS
  <1>4. q \in Seq(ValidStep) /\ ToSet(q) = {x} /\ Len(q) = 1 /\ script' = [script EXCEPT ![t] = q]
    BY <1>2, <1>3, OneStep
  <1>5. /\ Taken' = Taken /\ Offered' = Offered /\ told' = told /\ callers' = callers
        /\ connected' = connected /\ changed' = changed /\ mutex' = mutex
    BY <1>1 DEF busVars, bridgeVars, lockVars, Taken, Offered, Exported
  <1>6. /\ \A y \in Due' : y \in Due \/ y = x
        /\ \A y \in Due : y \in Due'
    BY <1>1, <1>4, StartDue
  <1>7. /\ ~JoinStep(x) /\ ~Whole(x) /\ ~Drops(x, 2)
        /\ \A a \in Side : ~Update(x, a) /\ ~Releasing(x, a) /\ x \notin Runs(a)
    BY <1>2, ActorsDiffer DEF JoinStep, Whole, Drops, Update, Releasing, Runs
  <1>8. ~Joining
    BY <1>2, NotWhileJoining
  <1>9. \A y \in Due : ~JoinStep(y)
    BY <1>8 DEF ChanInv, Alone
  <1>10. ~Joining' /\ ~Beginning /\ ~Beginning' /\ \A y \in Due' : ~JoinStep(y)
    BY <1>6, <1>7, <1>8, <1>9 DEF Joining, Beginning, JoinStep
  <1>11. \A a \in Side : Same(a)
    BY <1>6, <1>7 DEF Same
  <1>12. Alone'
    <2>1. \A y \in Due' : y.op # "announce_all"
      BY <1>10 DEF JoinStep
    <2> QED
      BY <1>5, <1>10, <2>1 DEF ChanInv, Alone
  <1>13. OneRuns' /\ InOrder'
    <2>1. Ordered(q)
      BY <1>4, ModestOrdered
    <2>2. \A y \in ToSet(q), a \in Side : ~Update(y, a) /\ y \notin Runs(a)
      BY <1>4, <1>7
    <2> QED
      BY <1>1, <1>4, <1>5, <2>1, <2>2, StartOrder DEF ChanInv
  <1>14. Quiet'
    <2>1. Apart' <=> Apart
      BY <1>5, <1>8, <1>10 DEF Apart
    <2>2. Apart => x.at = 1
      <3>1. Apart => x.who \in Early
        BY <1>2, <1>8 DEF Apart, Usable
      <3> QED
        BY <1>2, <3>1
    <2>3. 1 \in Side /\ 2 \in Side
      BY DEF Side
    <2> QED
      BY <1>5, <1>6, <1>7, <2>1, <2>2, <2>3 DEF ChanInv, Quiet
  <1>15. Agreed'
    BY <1>5, <1>8, <1>10, <1>11, AgreedSame DEF ChanInv
  <1>16. ASSUME NEW a \in Side, Fresh(a)
         PROVE  Fresh(a)'
    <2>1. CASE Listed(a, Offered[a])
      <3>1. PICK L : L = Offered[a]
        OBVIOUS
      <3>2. Listed(a, L)' <=> Listed(a, L)
        BY <1>5, <1>11, ListedSame DEF Same
      <3>3. Listed(a, Offered[a])'
        BY <1>5, <2>1, <3>1, <3>2
      <3> QED
        BY <3>3 DEF Fresh
    <2>2. CASE ~Listed(a, Offered[a])
      BY <1>5, <1>6, <1>16, <2>2 DEF Fresh
    <2> QED
      BY <2>1, <2>2
  <1>17. Watched'
    BY <1>5, <1>16 DEF ChanInv, Watched
  <1> QED
    BY <1>12, <1>13, <1>14, <1>15, <1>17 DEF ChanInv

LEMMA ConnectChan ==
    ASSUME BusInv, ChanInv, ConnectAlone, NEW t \in Thread, Connect(t)
    PROVE  ChanInv'
  <1>1. /\ Idle(t) /\ AtRest /\ ~connected /\ connected' = TRUE
        /\ script' = [script EXCEPT ![t] = ConnectScript]
        /\ UNCHANGED <<busVars, told, callers, changed, lockVars, calls>>
    BY ConnectEffect
  <1>2. PICK c : c = ConnectScript
    OBVIOUS
  <1>3. /\ c \in Seq(ValidStep) /\ Len(c) = 6
        /\ c[1] = UnsubscribeAll(2, Bridge) /\ c[2] = Step("announce_all", 2, Bridge, {})
        /\ c[3] = UnsubscribeAll(1, Bridge) /\ c[4] = Step("announce_all", 1, Bridge, {})
        /\ c[5] = Step("announce", 1, Bridge, {}) /\ c[6] = Step("announce", 2, Bridge, {})
        /\ ToSet(c) = {c[i] : i \in 1 .. 6}
    BY <1>2, ConnectSteps
  <1>4. /\ c[1].op = "unsubscribe_all_channels" /\ c[1].at = 2 /\ c[1].who = Bridge
        /\ c[2].op = "announce_all" /\ c[2].at = 2 /\ c[2].who = Bridge
        /\ c[3].op = "unsubscribe_all_channels" /\ c[3].at = 1 /\ c[3].who = Bridge
        /\ c[4].op = "announce_all" /\ c[4].at = 1 /\ c[4].who = Bridge
        /\ c[5].op = "announce" /\ c[5].at = 1 /\ c[5].who = Bridge
        /\ c[6].op = "announce" /\ c[6].at = 2 /\ c[6].who = Bridge
    BY <1>3 DEF UnsubscribeAll, Step
  <1>5. \A i \in 1 .. 6 : i = 1 \/ i = 2 \/ i = 3 \/ i = 4 \/ i = 5 \/ i = 6
    OBVIOUS
  <1>6. /\ ToSet(c) = {c[1], c[2], c[3], c[4], c[5], c[6]}
        /\ \A i \in 1 .. 6 : c[i] \in ToSet(c)
    BY <1>3, <1>5
  <1>7. \A u \in Thread : script[u] = <<>>
    BY <1>1 DEF AtRest, Idle
  <1>8. Due = {}
    BY <1>7, NoSteps DEF Due
  <1>9. /\ script'[t] = c /\ \A u \in Thread \ {t} : script'[u] = <<>>
        /\ \A x \in Due' : x \in ToSet(c)
        /\ ToSet(c) \subseteq Due'
    <2>1. script' = [script EXCEPT ![t] = c]
      BY <1>1, <1>2
    <2> QED
      BY <1>1, <1>3, <1>7, <1>8, <2>1, StartDue
  <1>10. \A x \in ToSet(c) : /\ x.who = Bridge
                             /\ x.op \in {"unsubscribe_all_channels", "announce_all", "announce"}
                             /\ \A a \in Side : ~Update(x, a) /\ ~Releasing(x, a) /\ x \notin Runs(a)
    BY <1>4, <1>6 DEF Update, Releasing, Runs
  <1>11. /\ Taken' = Taken /\ Offered' = Offered /\ told' = told /\ callers' = callers
    BY <1>1 DEF busVars, Taken, Offered, Exported
  <1>12. Joining' /\ Beginning'
    <2>1. c[4] \in Due' /\ Whole(c[4])
      BY <1>4, <1>6, <1>9 DEF Whole
    <2>2. c[1] \in Due' /\ Drops(c[1], 2)
      BY <1>4, <1>6, <1>9 DEF Drops
    <2> QED
      BY <2>1, <2>2 DEF Joining, Beginning
  <1>13. Alone'
    <2>1. \A u, v \in Thread : u = v \/ script'[u] = <<>> \/ script'[v] = <<>>
      BY <1>9
    <2>2. \A x \in Due' : x.who \notin Listener
      BY <1>9, <1>10, ActorsDiffer
    <2>3. \A u \in Thread : script'[u] \in {<<>>, ConnectScript}
      BY <1>2, <1>9
    <2>4. \A a \in Side : callers'[a].resets = 0
      BY <1>1, <1>11 DEF ChanInv, Alone
    <2> QED
      BY <1>1, <1>12, <2>1, <2>2, <2>3, <2>4 DEF Alone
  <1>14. OneRuns' /\ InOrder'
    <2>1. Ordered(c)
      <3>1. ASSUME NEW i \in 1 .. 6, NEW j \in 1 .. 6, i < j
            PROVE  MayPrecede(c[i], c[j])
        <4>1. i = 4 => j = 5 \/ j = 6
          BY <1>5, <3>1
        <4>2. i = 2 => j = 3 \/ j = 4 \/ j = 5 \/ j = 6
          BY <1>5, <3>1
        <4>3. CASE i = 4
          BY <1>4, <4>1, <4>3 DEF MayPrecede
        <4>4. CASE i = 2
          BY <1>4, <4>2, <4>4 DEF MayPrecede, Whole
        <4>5. CASE i # 2 /\ i # 4
          BY <1>4, <1>5, <4>5 DEF MayPrecede, Whole
        <4> QED
          BY <4>3, <4>4, <4>5
      <3> QED
        BY <1>3, <3>1 DEF Ordered
    <2>2. \A x \in ToSet(c), a \in Side : ~Update(x, a) /\ x \notin Runs(a)
      BY <1>10
    <2>3. script' = [script EXCEPT ![t] = c]
      BY <1>1, <1>2
    <2> QED
      BY <1>1, <1>3, <1>11, <2>1, <2>2, <2>3, StartOrder DEF ChanInv
  <1>15. Quiet'
    <2>1. Offered[2] = {} /\ Taken[1] = {} /\ told[2] = {}
      BY <1>1 DEF ChanInv, Quiet, Apart
    <2>2. 1 \in Side /\ 2 \in Side
      BY DEF Side
    <2> QED
      BY <1>9, <1>10, <1>11, <2>1, <2>2, ActorsDiffer DEF Quiet
  <1>16. Agreed'
    BY <1>12 DEF Agreed
  <1>17. \A a \in Side : Fresh(a)'
    <2>1. c[5] \in Due' /\ Looks(c[5], 1) /\ c[6] \in Due' /\ Looks(c[6], 2)
      BY <1>4, <1>6, <1>9 DEF Looks
    <2>2. \A a \in Side : \E x \in Due' : Looks(x, a)
      BY <2>1 DEF Side
    <2> QED
      BY <2>2 DEF Fresh
  <1>18. Watched'
    BY <1>17 DEF Watched
  <1> QED
    BY <1>13, <1>14, <1>15, <1>16, <1>18 DEF ChanInv

LEMMA ChanStep ==
    ASSUME ConnectAlone, \A l \in Early : Home[l] = 1
    PROVE  BusInv /\ ChanInv /\ [Next]_vars => ChanInv'
  <1> SUFFICES ASSUME BusInv, ChanInv, [Next]_vars
               PROVE  ChanInv'
    OBVIOUS
  <1>1. CASE UNCHANGED vars
    <2>1. /\ UNCHANGED <<listeners, owner, told, callers, connected, changed, mutex, script>>
      BY <1>1 DEF vars, busVars, bridgeVars, lockVars
    <2>2. Due' = Due /\ Taken' = Taken /\ Offered' = Offered
      BY <2>1 DEF Due, Taken, Offered, Exported
    <2>3. OneRuns' /\ InOrder'
      BY <2>1 DEF ChanInv, OneRuns, InOrder
    <2>4. (Joining' <=> Joining) /\ (Beginning' <=> Beginning)
      BY <2>2 DEF Joining, Beginning
    <2>5. Alone'
      BY <2>1, <2>2, <2>4 DEF ChanInv, Alone
    <2>6. Quiet'
      BY <2>1, <2>2, <2>4 DEF ChanInv, Quiet, Apart
    <2>7. \A a : \A L : Listed(a, L)' <=> Listed(a, L)
      BY <2>1, <2>2 DEF Listed
    <2>8. Agreed'
      BY <2>2, <2>4, <2>7 DEF ChanInv, Agreed, Exact, Partial
    <2>9. Watched'
      BY <2>1, <2>2, <2>7 DEF ChanInv, Watched, Fresh
    <2> QED
      BY <2>3, <2>5, <2>6, <2>8, <2>9 DEF ChanInv
  <1>2. ASSUME NEW t \in Thread, Call(t) \/ Connect(t) \/ Work(t)
        PROVE  ChanInv'
    <2>1. CASE Call(t) \/ Connect(t)
      BY <2>1, CallChan, ConnectChan
    <2>2. CASE Work(t)
      BY <2>2, PlainWork, UnlockChan, EnterChan, CollectChan, ReleaseChan DEF Work
    <2> QED
      BY <1>2, <2>1, <2>2
  <1> QED
    BY <1>1, <1>2 DEF Next

LEMMA ChanInit ==
    ASSUME \A l \in Early : Home[l] = 1
    PROVE  Init => ChanInv
  <1> SUFFICES ASSUME Init
               PROVE  ChanInv
    OBVIOUS
  <1>1. /\ \A t \in Thread : script[t] = <<>>
        /\ \A b \in Side : told[b] = {} /\ callers[b].all = 0 /\ callers[b].resets = 0
        /\ ~connected
    BY DEF Init
  <1>2. PICK S \in SUBSET (Early \X Chan) :
          listeners = [b \in Side |-> [n \in Name |-> {l \in Listener : Home[l] = b /\ <<l, n>> \in S}]]
    BY DEF Init
  <1>3. Due = {}
    BY <1>1, NoSteps DEF Due
  <1>4. \A b \in Side : Taken[b] = {}
    <2>1. \A b \in Side, n \in Name : Bridge \notin listeners[b][n]
      BY <1>2, ActorsDiffer
    <2> QED
      BY <2>1 DEF Taken, Name
  <1>5. Offered[2] = {}
    <2>1. \A n \in Name : listeners[2][n] = {}
      <3>1. 2 \in Side
        BY DEF Side
      <3>2. ASSUME NEW n \in Name, NEW l \in listeners[2][n]
            PROVE  FALSE
        <4>1. Home[l] = 2 /\ <<l, n>> \in S
          BY <1>2, <3>1, <3>2
        <4>2. l \in Early
          BY <4>1
        <4> QED
          BY <4>1, <4>2
      <3> QED
        BY <3>2
    <2> QED
      BY <2>1 DEF Offered, Exported, Side, Name
  <1>6. OneRuns
    <2>1. \A a \in Side, t \in Thread : Count(script[t], Runs(a)) = 0
      BY <1>1, IdleCounts DEF Idle
    <2> QED
      BY <1>1, <2>1 DEF OneRuns
  <1>7. InOrder
    <2>1. Ordered(<<>>)
      BY NoSteps, ModestOrdered
    <2> QED
      BY <1>1, <2>1, NoSteps DEF InOrder
  <1>8. ~Joining /\ ~Beginning
    BY <1>3 DEF Joining, Beginning
  <1>9. Alone
    BY <1>1, <1>3, <1>8 DEF Alone
  <1>10. Quiet
    BY <1>1, <1>3, <1>4, <1>5 DEF Quiet, Side
  <1>11. ASSUME NEW a \in Side
         PROVE  Exact(a)
    <2>1. PICK b \in Side : b = Other(a)
      BY Sides
    <2>2. PICK U, T : U = Due /\ T = {}
      OBVIOUS
    <2>3. T \in SUBSET Chan /\ \A x \in U : ~Update(x, b)
      BY <1>3, <2>2
    <2>4. Brings(T, U, b, T)
      BY <2>3, NoUpdates
    <2>5. \A L : Listed(a, L) => L = {}
      BY <1>1, <1>3 DEF Listed
    <2> QED
      BY <1>4, <2>1, <2>2, <2>4, <2>5 DEF Exact
  <1>12. Agreed
    BY <1>8, <1>11 DEF Agreed
  <1>13. Watched
    BY <1>1 DEF Watched
  <1> QED
    BY <1>6, <1>7, <1>9, <1>10, <1>12, <1>13 DEF ChanInv

LEMMA ChanAtRest == BusInv /\ ChanInv => SidesAgree
  <1> SUFFICES ASSUME BusInv, ChanInv, AtRest, connected, NEW b \in Side
               PROVE  Subscribed(b, Bridge) \cap Chan = Exported(Other(b))
    BY DEF SidesAgree
  <1>1. \A t \in Thread : script[t] = <<>>
    BY DEF AtRest, Idle
  <1>2. Due = {}
    BY <1>1, NoSteps DEF Due
  <1>3. PICK a \in Side : a = Other(b) /\ b = Other(a)
    BY Sides
  <1>4. PICK L, T, U : L = told[a] /\ T = Taken[b] /\ U = Due
    OBVIOUS
  <1>5. L \in SUBSET Chan /\ T \in SUBSET Chan /\ \A x \in U : ~Update(x, b)
    BY <1>2, <1>4, ListsTyped DEF BusInv, TypeOK
  <1>6. \A M : Listed(a, M) <=> M = L
    BY <1>2, <1>4 DEF Listed
  <1>7. Exact(a)
    BY <1>2 DEF ChanInv, Agreed, Joining
  <1>8. Brings(T, U, b, L)
    BY <1>3, <1>4, <1>5, <1>6, <1>7 DEF Exact
  <1>9. L = T
    BY <1>5, <1>8, NoUpdates
  <1>10. \A t \in Thread, x \in Side :
           Count(script[t], Unlocks(x)) = 0 /\ Count(script[t], Runs(x)) = 0
    BY IdleCounts DEF AtRest
  <1>11. mutex[a] = Null
    <2>1. \A t \in Thread : mutex[a] = t => depth[a] = 0
      BY <1>10 DEF BusInv, Locked
    <2> QED
      BY <2>1 DEF BusInv, Locked, TypeOK
  <1>12. callers[a].all = 0
    BY <1>10 DEF ChanInv, OneRuns
  <1>13. Listed(a, Offered[a])
    BY <1>2, <1>11, <1>12 DEF ChanInv, Watched, Fresh
  <1>14. Offered[a] = T
    BY <1>6, <1>9, <1>13
  <1>15. Subscribed(b, Bridge) \cap Chan = T
    BY <1>4 DEF Subscribed, Taken, Name
  <1> QED
    BY <1>3, <1>14, <1>15 DEF Offered

\* monitor.h:10-12 and direct_bridge.h:7-8: every change of a broker's channels is
\* announced, in an order that the other side can use, whatever threads change
\* meanwhile: once both are at rest, each bridge subscribes exactly what local
\* listeners of the other broker do.  It holds of programs that connect while no
\* thread is at work, with nothing subscribed at the second broker.
THEOREM SidesAlwaysAgree ==
    ASSUME ConnectAlone, \A l \in Early : Home[l] = 1
    PROVE  Spec => []SidesAgree
  <1>1. Init => BusInv /\ ChanInv
    BY BusInit, ChanInit
  <1>2. BusInv /\ ChanInv /\ [Next]_vars => (BusInv /\ ChanInv)'
    BY BusStep, ChanStep
  <1>3. BusInv /\ ChanInv => SidesAgree
    BY ChanAtRest
  <1> QED
    BY <1>1, <1>2, <1>3, PTL DEF Spec
=============================================================================

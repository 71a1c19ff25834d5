--------------------------- MODULE JsClientProofs ---------------------------
(***************************************************************************)
(* A theorem about the page and its server, for any channels, connections, *)
(* losses and bounds: what the page posts comes to the server once at      *)
(* most, and in order over each connection.                                *)
(***************************************************************************)
EXTENDS JsClient, TLAPS, SequenceTheorems

-----------------------------------------------------------------------------
(* Types.                                                                  *)

\* What bridges tell each other, and what a listener sent.
Notice == [t : {"serial", "add", "erase", "replace", "reset", "new"}, n : Int, l : SUBSET Chan]
Posting == [t : {"msg"}, n : Nat, l : SUBSET Chan]
Message == Notice \cup Posting

ServerState == [wire : [End -> Seq(Message)], sub : [End -> SUBSET Chan], told : [End -> SUBSET Chan],
                hash : [End -> Int], cycle : [End -> BOOLEAN], due : SUBSET {Monitor(e) : e \in End},
                source : [Broker -> End \cup {NoEnd}], cur : [Broker -> Int]]

\* Tasks that tell the server something, and those with a message.
Chore == [do : {"monitors"}] \cup [do : {"send"}, m : Notice]
Delivery == [do : {"on_message", "send"}, m : Posting]
Task == Chore \cup Delivery

Page == [channels : [Chan -> SUBSET {"listener", "bridge"}], my : Int, source : BOOLEAN,
         current : Int, notify : BOOLEAN, cur : SUBSET Chan, cycle : BOOLEAN, srl : Int,
         tasks : Seq(Task)]

\* The server's ends send no messages.
SyncTyped ==
    /\ State \in ServerState
    /\ up \in [Link -> BOOLEAN]
    /\ lsn \in [Broker -> SUBSET Chan]
    /\ \A l \in Link : wire[ServerEnd(l)] \in Seq(Notice)

PageTyped ==
    /\ page \in Page
    /\ ws \in [l : Link, st : {"connecting", "open", "closed"}]
    /\ queue \in Seq(Message)
    /\ posted \in Nat
    /\ received \in Seq(Link \X Nat)

\* A message is handed to the bridge before anything else is done; with the
\* connection open, nothing waits for that; a closed one has a next.
PageSound ==
    /\ \A i \in DOMAIN page.tasks : page.tasks[i].do = "on_message" => Len(page.tasks) = 1
    /\ ws.st = "open" => queue = <<>>
    /\ ws.st = "closed" => ws.l + 1 \in Link

-----------------------------------------------------------------------------
(* Where the numbers of the messages are.                                  *)

Numbers(s) == {s[i].n : i \in {j \in DOMAIN s : s[j].t = "msg"}}
A \prec B == \A a \in A, b \in B : a < b
Rising(s) == \A i, j \in DOMAIN s : i < j /\ s[i].t = "msg" /\ s[j].t = "msg" => s[i].n < s[j].n

\* What the tasks carry; anything but a message stands for a task that has none.
Burden(x) == IF x.do = "monitors" THEN ChannelReset ELSE x.m
Carried(tasks) == [i \in DOMAIN tasks |-> Burden(tasks[i])]

Out(l) == wire[<<l, "client">>]
Got(l) == {received[i][2] : i \in {j \in DOMAIN received : received[j][1] = l}}
Sent(l) == Got(l) \cup Numbers(Out(l))
Waiting == Numbers(queue) \cup Numbers(Carried(page.tasks))

\* The numbers go up along each connection, from there to the next one, and from
\* all of them to the queue and the tasks.
Queued ==
    /\ Rising(queue) /\ Rising(Carried(page.tasks))
    /\ Numbers(queue) \prec Numbers(Carried(page.tasks))
    /\ \A n \in Waiting : n <= posted
Flows ==
    \A l \in Link : Rising(Out(l)) /\ Got(l) \prec Numbers(Out(l))
Ordered ==
    /\ \A l \in Link : Sent(l) # {} => l <= ws.l
    /\ \A l \in Link : \A n \in Sent(l) : n <= posted
    /\ \A l \in Link : Sent(l) \prec Waiting
    /\ \A l, k \in Link : l < k => Sent(l) \prec Sent(k)
Arrived ==
    \A i, j \in DOMAIN received :
        i < j /\ received[i][1] = received[j][1] => received[i][2] < received[j][2]

Inv ==
    /\ SyncTyped /\ PageTyped /\ PageSound
    /\ Queued /\ Flows /\ Ordered /\ Arrived

-----------------------------------------------------------------------------
(* Numbers of sequences of messages.                                       *)

LEMMA NumbersTyped ==
    ASSUME NEW s \in Seq(Message)
    PROVE  /\ Numbers(s) \subseteq Nat
           /\ \A n : n \in Numbers(s) <=> \E i \in 1 .. Len(s) : s[i].t = "msg" /\ n = s[i].n
           /\ \A i \in 1 .. Len(s) : s[i] \in Message /\ (s[i].t = "msg" => s[i].n \in Nat)
  <1>1. /\ DOMAIN s = 1 .. Len(s)
        /\ \A i \in 1 .. Len(s) : s[i] \in Message
    OBVIOUS
  <1>2. \A m \in Message : m.t = "msg" => m.n \in Nat
    BY DEF Message, Notice, Posting
  <1> QED
    BY <1>1, <1>2 DEF Numbers

LEMMA NoticesHaveNone ==
    ASSUME NEW s \in Seq(Notice)
    PROVE  s \in Seq(Message) /\ Numbers(s) = {} /\ Rising(s)
  <1>1. DOMAIN s = 1 .. Len(s) /\ \A i \in DOMAIN s : s[i] \in Notice
    OBVIOUS
  <1>2. \A m \in Notice : m.t # "msg"
    BY DEF Notice
  <1>3. s \in Seq(Message)
    BY SeqMonotonic, Notice \subseteq Message DEF Message
  <1> QED
    BY <1>1, <1>2, <1>3 DEF Numbers, Rising

LEMMA OneNumber ==
    ASSUME NEW m \in Message
    PROVE  /\ <<m>> \in Seq(Message) /\ Rising(<<m>>)
           /\ Numbers(<<m>>) = IF m.t = "msg" THEN {m.n} ELSE {}
  <1>1. /\ <<m>> \in Seq(Message) /\ Len(<<m>>) = 1 /\ <<m>>[1] = m
        /\ DOMAIN <<m>> = 1 .. 1
    OBVIOUS
  <1>2. \A i : i \in 1 .. 1 <=> i = 1
    OBVIOUS
  <1>3. Rising(<<m>>)
    BY <1>1, <1>2 DEF Rising
  <1>4. Numbers(<<m>>) = IF m.t = "msg" THEN {m.n} ELSE {}
    BY <1>1, <1>2 DEF Numbers
  <1> QED
    BY <1>1, <1>3, <1>4

LEMMA NumbersOfConcat ==
    ASSUME NEW s \in Seq(Message), NEW u \in Seq(Message)
    PROVE  /\ s \o u \in Seq(Message)
           /\ Numbers(s \o u) = Numbers(s) \cup Numbers(u)
           /\ Rising(s \o u) <=> Rising(s) /\ Rising(u) /\ Numbers(s) \prec Numbers(u)
  <1> DEFINE v == s \o u
             k == Len(s)
             n == Len(u)
  <1>1. /\ v \in Seq(Message) /\ Len(v) = k + n /\ k \in Nat /\ n \in Nat
        /\ DOMAIN v = 1 .. k + n /\ DOMAIN s = 1 .. k /\ DOMAIN u = 1 .. n
    BY ConcatProperties
  <1>2. /\ \A i \in 1 .. k : i \in 1 .. k + n /\ v[i] = s[i]
        /\ \A i \in 1 .. n : k + i \in 1 .. k + n /\ v[k + i] = u[i]
    BY <1>1
  <1>3. \A i \in 1 .. k + n : i \in 1 .. k \/ \E j \in 1 .. n : i = k + j
    <2> SUFFICES ASSUME NEW i \in 1 .. k + n, i \notin 1 .. k
                 PROVE  i - k \in 1 .. n /\ i = k + (i - k)
      OBVIOUS
    <2> QED
      BY <1>1
  <1> HIDE DEF v, k, n
  <1>4. Numbers(v) = Numbers(s) \cup Numbers(u)
    <2>1. \A x : x \in Numbers(v) <=> \E i \in 1 .. k + n : v[i].t = "msg" /\ x = v[i].n
      BY <1>1 DEF Numbers
    <2>2. \A x : x \in Numbers(s) <=> \E i \in 1 .. k : s[i].t = "msg" /\ x = s[i].n
      BY <1>1 DEF Numbers
    <2>3. \A x : x \in Numbers(u) <=> \E i \in 1 .. n : u[i].t = "msg" /\ x = u[i].n
      BY <1>1 DEF Numbers
    <2>4. ASSUME NEW x \in Numbers(v)
          PROVE  x \in Numbers(s) \cup Numbers(u)
      <3>1. PICK i \in 1 .. k + n : v[i].t = "msg" /\ x = v[i].n
        BY <2>1, <2>4
      <3>2. CASE i \in 1 .. k
        BY <3>1, <3>2, <1>2, <2>2
      <3>3. CASE i \notin 1 .. k
        BY <3>1, <3>3, <1>2, <1>3, <2>3
      <3> QED
        BY <3>2, <3>3
    <2>5. \A x \in Numbers(s) : x \in Numbers(v)
      BY <1>2, <2>1, <2>2
    <2>6. \A x \in Numbers(u) : x \in Numbers(v)
      BY <1>2, <2>1, <2>3
    <2> QED
      BY <2>4, <2>5, <2>6
  <1>5. ASSUME Rising(v)
        PROVE  Rising(s) /\ Rising(u) /\ Numbers(s) \prec Numbers(u)
    <2>1. Rising(s)
      BY <1>1, <1>2, <1>5 DEF Rising
    <2>2. Rising(u)
      <3> SUFFICES ASSUME NEW i \in 1 .. n, NEW j \in 1 .. n, i < j,
                          u[i].t = "msg", u[j].t = "msg"
                   PROVE  u[i].n < u[j].n
        BY <1>1 DEF Rising
      <3>1. k + i < k + j
        BY <1>1
      <3> QED
        BY <3>1, <1>1, <1>2, <1>5 DEF Rising
    <2>3. Numbers(s) \prec Numbers(u)
      <3> SUFFICES ASSUME NEW i \in 1 .. k, NEW j \in 1 .. n, s[i].t = "msg", u[j].t = "msg"
                   PROVE  s[i].n < u[j].n
        BY <1>1 DEF Numbers, \prec
      <3>1. i < k + j
        BY <1>1
      <3> QED
        BY <3>1, <1>1, <1>2, <1>5 DEF Rising
    <2> QED
      BY <2>1, <2>2, <2>3
  <1>6. ASSUME Rising(s), Rising(u), Numbers(s) \prec Numbers(u)
        PROVE  Rising(v)
    <2> SUFFICES ASSUME NEW i \in 1 .. k + n, NEW j \in 1 .. k + n, i < j,
                        v[i].t = "msg", v[j].t = "msg"
                 PROVE  v[i].n < v[j].n
      BY <1>1 DEF Rising
    <2>1. CASE j \in 1 .. k
      <3>1. i \in 1 .. k
        BY <2>1, <1>1
      <3> QED
        BY <3>1, <2>1, <1>1, <1>2, <1>6 DEF Rising
    <2>2. CASE i \in 1 .. k /\ j \notin 1 .. k
      <3>1. PICK y \in 1 .. n : j = k + y
        BY <2>2, <1>3
      <3>2. s[i].n \in Numbers(s) /\ u[y].n \in Numbers(u)
        BY <2>2, <3>1, <1>1, <1>2 DEF Numbers
      <3> QED
        BY <3>1, <3>2, <2>2, <1>2, <1>6 DEF \prec
    <2>3. CASE i \notin 1 .. k /\ j \notin 1 .. k
      <3>1. PICK x \in 1 .. n : i = k + x
        BY <2>3, <1>3
      <3>2. PICK y \in 1 .. n : j = k + y
        BY <2>3, <1>3
      <3>3. x < y
        BY <3>1, <3>2, <1>1
      <3> QED
        BY <3>1, <3>2, <3>3, <1>1, <1>2, <1>6 DEF Rising
    <2> QED
      BY <2>1, <2>2, <2>3
  <1> QED
    BY <1>1, <1>4, <1>5, <1>6 DEF v

LEMMA FirstAndRest ==
    ASSUME NEW S, NEW s \in Seq(S), s # <<>>
    PROVE  /\ Head(s) \in S /\ Tail(s) \in Seq(S)
           /\ s = <<Head(s)>> \o Tail(s)
  <1>1. /\ Head(s) \in S /\ Tail(s) \in Seq(S) /\ Len(Tail(s)) = Len(s) - 1
        /\ \A i \in 1 .. Len(Tail(s)) : Tail(s)[i] = s[i + 1]
    BY HeadTailProperties
  <1>2. /\ <<Head(s)>> \in Seq(S) /\ Len(<<Head(s)>>) = 1 /\ <<Head(s)>>[1] = s[1]
        /\ Len(s) \in Nat \ {0}
    BY <1>1, EmptySeq
  <1> DEFINE h == <<Head(s)>>
             r == Tail(s)
  <1> HIDE DEF h, r
  <1>3. h \o r \in Seq(S) /\ Len(h \o r) = Len(s)
        /\ \A i \in 1 .. Len(s) : (h \o r)[i] = IF i <= 1 THEN h[i] ELSE r[i - 1]
    <2>1. h \in Seq(S) /\ r \in Seq(S) /\ Len(h) = 1 /\ Len(r) = Len(s) - 1
      BY <1>1, <1>2 DEF h, r
    <2>2. h \o r \in Seq(S) /\ Len(h \o r) = Len(h) + Len(r)
          /\ \A i \in 1 .. Len(h) + Len(r) : (h \o r)[i] = IF i <= Len(h) THEN h[i] ELSE r[i - Len(h)]
      BY <2>1, ConcatProperties
    <2> QED
      BY <2>1, <2>2, <1>2
  <1>4. ASSUME NEW i \in 1 .. Len(s)
        PROVE  (h \o r)[i] = s[i]
    <2>1. CASE i = 1
      BY <2>1, <1>3, <1>2 DEF h
    <2>2. CASE i # 1
      <3>1. i - 1 \in 1 .. Len(r) /\ ~(i <= 1) /\ (i - 1) + 1 = i
        BY <2>2, <1>1, <1>2 DEF r
      <3>2. r[i - 1] = s[i]
        BY <3>1, <1>1 DEF r
      <3> QED
        BY <3>1, <3>2, <1>3
    <2> QED
      BY <2>1, <2>2
  <1>5. h \o r = s
    BY <1>3, <1>4, SeqEqual
  <1> QED
    BY <1>1, <1>5 DEF h, r

\* The first message is before the others.
LEMMA NumbersOfRest ==
    ASSUME NEW s \in Seq(Message), s # <<>>, Rising(s)
    PROVE  /\ Numbers(s) = Numbers(<<Head(s)>>) \cup Numbers(Tail(s))
           /\ Rising(Tail(s)) /\ Numbers(<<Head(s)>>) \prec Numbers(Tail(s))
  <1>1. Head(s) \in Message /\ Tail(s) \in Seq(Message) /\ s = <<Head(s)>> \o Tail(s)
    BY FirstAndRest
  <1>2. <<Head(s)>> \in Seq(Message)
    BY <1>1, OneNumber
  <1> QED
    BY <1>1, <1>2, NumbersOfConcat

-----------------------------------------------------------------------------
(* What the handlers of the page do to its tasks: they only add some that  *)
(* carry no messages.                                                      *)

AddsChores(p, q) == q \in Page /\ \E ts \in Seq(Chore) : q.tasks = p.tasks \o ts

LEMMA TasksTyped ==
    /\ Chore \subseteq Task /\ Delivery \subseteq Task
    /\ \A x \in Chore : x.do \in {"monitors", "send"} /\ Burden(x) \in Notice
    /\ \A x \in Task : Burden(x) \in Message
    /\ \A x \in Task : x.do = "on_message" => x.m \in Posting
    /\ \A x \in Task : x.do \in {"monitors", "on_message", "send"}
    /\ [do |-> "monitors"] \in Chore
    /\ \A m \in Notice : [do |-> "send", m |-> m] \in Chore
    /\ \A m \in Message : [do |-> "send", m |-> m] \in Task
    /\ \A m \in Posting : [do |-> "send", m |-> m] \in Task /\ [do |-> "on_message", m |-> m] \in Task
  <1>1. ChannelReset \in Notice
    BY DEF ChannelReset, Notice
  <1>2. /\ \A x \in [do : {"monitors"}] : x.do = "monitors"
        /\ \A x \in [do : {"send"}, m : Notice] : x.do = "send" /\ x.m \in Notice
        /\ \A x \in Delivery : x.do \in {"on_message", "send"} /\ x.m \in Posting
    BY DEF Delivery
  <1>3. \A x \in Chore : x.do \in {"monitors", "send"} /\ Burden(x) \in Notice
    BY <1>1, <1>2 DEF Chore, Burden
  <1>4. \A x \in Task : Burden(x) \in Message
    BY <1>2, <1>3 DEF Task, Message, Burden
  <1>5. \A x \in Task : /\ x.do = "on_message" => x.m \in Posting
                        /\ x.do \in {"monitors", "on_message", "send"}
    BY <1>2, <1>3 DEF Task
  <1>6. /\ [do |-> "monitors"] \in Chore
        /\ \A m \in Notice : [do |-> "send", m |-> m] \in Chore
        /\ \A m \in Posting : /\ [do |-> "send", m |-> m] \in Delivery
                              /\ [do |-> "on_message", m |-> m] \in Delivery
    BY DEF Chore, Delivery
  <1> QED
    BY <1>3, <1>4, <1>5, <1>6 DEF Task, Message

LEMMA NothingAdded ==
    ASSUME NEW p \in Page, NEW q \in Page, q.tasks = p.tasks
    PROVE  AddsChores(p, q)
  <1>1. p.tasks \in Seq(Task) /\ <<>> \in Seq(Chore)
    BY DEF Page
  <1>2. p.tasks \o <<>> = p.tasks
    BY <1>1, ConcatEmptySeq
  <1> QED
    BY <1>1, <1>2 DEF AddsChores

LEMMA AddedBoth ==
    ASSUME NEW p \in Page, NEW q, NEW r, AddsChores(p, q), AddsChores(q, r)
    PROVE  AddsChores(p, r)
  <1>1. PICK a \in Seq(Chore) : q.tasks = p.tasks \o a
    BY DEF AddsChores
  <1>2. PICK b \in Seq(Chore) : r.tasks = q.tasks \o b
    BY DEF AddsChores
  <1>3. p.tasks \in Seq(Task) /\ a \in Seq(Task) /\ b \in Seq(Task)
    BY TasksTyped, SeqMonotonic DEF Page
  <1>4. r.tasks = p.tasks \o (a \o b)
    <2>1. \A t \in Seq(Task) : (t \o a) \o b = t \o (a \o b)
      BY <1>3, ConcatAssociative
    <2> QED
      BY <1>1, <1>2, <1>3, <2>1
  <1>5. a \o b \in Seq(Chore)
    BY ConcatProperties
  <1> QED
    BY <1>4, <1>5 DEF AddsChores

LEMMA NotifyAdds ==
    ASSUME NEW p \in Page
    PROVE  AddsChores(p, NotifyMonitors(p))
  <1> DEFINE x == [do |-> "monitors"]
             q == [p EXCEPT !.notify = TRUE, !.tasks = Append(@, x)]
  <1>1. x \in Chore /\ x \in Task /\ p.tasks \in Seq(Task)
    BY TasksTyped DEF Page
  <1> HIDE DEF x
  <1>2. Append(p.tasks, x) \in Seq(Task) /\ Append(p.tasks, x) = p.tasks \o <<x>>
        /\ <<x>> \in Seq(Chore)
    BY <1>1, AppendProperties, AppendIsConcat
  <1>3. q \in Page /\ q.tasks = p.tasks \o <<x>>
    BY <1>2 DEF Page
  <1>4. AddsChores(p, q)
    BY <1>2, <1>3 DEF AddsChores
  <1> QED
    BY <1>4, NothingAdded DEF NotifyMonitors, x

LEMMA SubscribingAdds ==
    ASSUME NEW p \in Page, NEW list \in SUBSET Chan
    PROVE  /\ \A c \in Chan : /\ AddsChores(p, Joins(p, c, "listener"))
                              /\ AddsChores(p, Leaves(p, c, "listener"))
           /\ AddsChores(p, JoinsAll(p, list)) /\ AddsChores(p, LeavesAll(p, list))
  <1>0. p.channels \in [Chan -> SUBSET {"listener", "bridge"}]
    BY DEF Page
  <1>1. \A f \in [Chan -> SUBSET {"listener", "bridge"}] :
          LET q == [p EXCEPT !.channels = f]
          IN q \in Page /\ AddsChores(p, q) /\ AddsChores(p, NotifyMonitors(q))
    <2> SUFFICES ASSUME NEW f \in [Chan -> SUBSET {"listener", "bridge"}]
                 PROVE  LET q == [p EXCEPT !.channels = f]
                        IN q \in Page /\ AddsChores(p, q) /\ AddsChores(p, NotifyMonitors(q))
      OBVIOUS
    <2> DEFINE q == [p EXCEPT !.channels = f]
    <2>1. q \in Page /\ q.tasks = p.tasks
      BY DEF Page
    <2> HIDE DEF q
    <2>2. AddsChores(p, q) /\ AddsChores(q, NotifyMonitors(q))
      BY <2>1, NothingAdded, NotifyAdds
    <2> QED
      BY <2>1, <2>2, AddedBoth DEF q
  <1>2. AddsChores(p, p)
    BY NothingAdded
  <1>3. ASSUME NEW c \in Chan
        PROVE  AddsChores(p, Joins(p, c, "listener"))
    <2>1. [p.channels EXCEPT ![c] = @ \cup {"listener"}] \in [Chan -> SUBSET {"listener", "bridge"}]
      BY <1>0
    <2>2. [p EXCEPT !.channels[c] = @ \cup {"listener"}]
            = [p EXCEPT !.channels = [p.channels EXCEPT ![c] = @ \cup {"listener"}]]
      OBVIOUS
    <2> QED
      BY <2>1, <2>2, <1>1 DEF Joins
  <1>4. ASSUME NEW c \in Chan
        PROVE  AddsChores(p, Leaves(p, c, "listener"))
    <2>1. [p.channels EXCEPT ![c] = @ \ {"listener"}] \in [Chan -> SUBSET {"listener", "bridge"}]
      BY <1>0
    <2>2. [p EXCEPT !.channels[c] = @ \ {"listener"}]
            = [p EXCEPT !.channels = [p.channels EXCEPT ![c] = @ \ {"listener"}]]
      OBVIOUS
    <2> QED
      BY <2>1, <2>2, <1>1, <1>2 DEF Leaves
  <1>5. AddsChores(p, JoinsAll(p, list))
    <2>1. [d \in Chan |-> p.channels[d] \cup (IF d \in list THEN {"bridge"} ELSE {})]
            \in [Chan -> SUBSET {"listener", "bridge"}]
      BY <1>0
    <2> QED
      BY <2>1, <1>1, <1>2 DEF JoinsAll
  <1>6. AddsChores(p, LeavesAll(p, list))
    <2>1. [d \in Chan |-> p.channels[d] \ (IF d \in list THEN {"bridge"} ELSE {})]
            \in [Chan -> SUBSET {"listener", "bridge"}]
      BY <1>0
    <2> QED
      BY <2>1, <1>1, <1>2 DEF LeavesAll
  <1> QED
    BY <1>3, <1>4, <1>5, <1>6

LEMMA SendTasks ==
    ASSUME NEW S, NEW ms \in Seq(S)
    PROVE  LET ts == [i \in DOMAIN ms |-> [do |-> "send", m |-> ms[i]]]
           IN /\ ts \in Seq([do : {"send"}, m : S])
              /\ Len(ts) = Len(ms) /\ DOMAIN ts = DOMAIN ms
  <1> DEFINE ts == [i \in DOMAIN ms |-> [do |-> "send", m |-> ms[i]]]
  <1>1. DOMAIN ms = 1 .. Len(ms) /\ Len(ms) \in Nat /\ \A i \in 1 .. Len(ms) : ms[i] \in S
    OBVIOUS
  <1>2. ts \in [1 .. Len(ms) -> [do : {"send"}, m : S]]
    BY <1>1
  <1> QED
    BY <1>1, <1>2

LEMMA SendsAdds ==
    ASSUME NEW p \in Page, NEW ms \in Seq(Notice)
    PROVE  AddsChores(p, Sends(p, ms))
  <1> DEFINE ts == [i \in DOMAIN ms |-> [do |-> "send", m |-> ms[i]]]
  <1>1. ts \in Seq(Chore)
    <2>1. ts \in Seq([do : {"send"}, m : Notice])
      BY SendTasks
    <2> HIDE DEF ts
    <2> QED
      BY <2>1, SeqMonotonic DEF Chore
  <1> HIDE DEF ts
  <1>2. ts \in Seq(Task) /\ p.tasks \in Seq(Task)
    BY <1>1, TasksTyped, SeqMonotonic DEF Page
  <1>3. p.tasks \o ts \in Seq(Task)
    BY <1>2, ConcatProperties
  <1>4. [p EXCEPT !.tasks = @ \o ts] \in Page /\ [p EXCEPT !.tasks = @ \o ts].tasks = p.tasks \o ts
    BY <1>3 DEF Page
  <1> QED
    BY <1>1, <1>4 DEF AddsChores, Sends, ts

LEMMA DifferencesTyped ==
    ASSUME NEW old \in SUBSET Chan, NEW new \in SUBSET Chan
    PROVE  Differences(old, new) \in Seq(Notice)
  <1>1. \A list \in SUBSET Chan, op \in {"add", "erase", "replace"} :
          ChannelUpdate(op, list) \in Notice
    BY DEF ChannelUpdate, Notice
  <1>2. /\ ChannelUpdate("replace", new) \in Notice
        /\ ChannelUpdate("add", new \ old) \in Notice
        /\ ChannelUpdate("erase", old \ new) \in Notice
    BY <1>1
  <1> DEFINE a == IF new \subseteq old THEN <<>> ELSE <<ChannelUpdate("add", new \ old)>>
             b == IF old \subseteq new THEN <<>> ELSE <<ChannelUpdate("erase", old \ new)>>
  <1>3. a \in Seq(Notice) /\ b \in Seq(Notice)
    BY <1>2
  <1>4. a \o b \in Seq(Notice)
    BY <1>3, ConcatProperties
  <1>5. <<>> \in Seq(Notice) /\ <<ChannelUpdate("replace", new)>> \in Seq(Notice)
    BY <1>2
  <1> QED
    BY <1>4, <1>5 DEF Differences

LEMMA TellsAdds ==
    ASSUME NEW p \in Page
    PROVE  AddsChores(p, Tells(p))
  <1> DEFINE n == PageSerial(p)
             list == IF p.cycle THEN {} ELSE Active(p)
             q == [p EXCEPT !.srl = n, !.cur = list]
             a == IF n \in {p.srl, None} THEN <<>> ELSE <<Serial(n)>>
             b == Differences(p.cur, list)
  <1>1. n \in Int /\ list \in SUBSET Chan /\ p.cur \in SUBSET Chan
    BY DEF Page, PageSerial, None, Active
  <1> HIDE DEF n, list
  <1>2. a \in Seq(Notice)
    <2>1. Serial(n) \in Notice
      BY <1>1 DEF Serial, Notice
    <2>2. <<>> \in Seq(Notice) /\ <<Serial(n)>> \in Seq(Notice)
      BY <2>1
    <2> QED
      BY <2>2
  <1>3. b \in Seq(Notice)
    BY <1>1, DifferencesTyped
  <1>4. q \in Page /\ q.tasks = p.tasks
    BY <1>1 DEF Page
  <1> HIDE DEF a, b, q
  <1>5. a \o b \in Seq(Notice)
    BY <1>2, <1>3, ConcatProperties
  <1>6. AddsChores(p, q) /\ AddsChores(q, Sends(q, a \o b))
    BY <1>4, <1>5, NothingAdded, SendsAdds
  <1> QED
    BY <1>6, AddedBoth DEF Tells, n, list, q, a, b

LEMMA SerialAdds ==
    ASSUME NEW p \in Page, NEW n \in Int
    PROVE  AddsChores(p, SerialComes(p, n))
  <1> DEFINE t == TakesSerial(p, n)
             u == [t EXCEPT !.cycle = ~@]
             q == Tells(u)
  <1>1. t \in Page /\ t.tasks = p.tasks
    BY DEF TakesSerial, Page
  <1> HIDE DEF t
  <1>2. u \in Page /\ u.tasks = p.tasks
    BY <1>1 DEF Page
  <1> HIDE DEF u
  <1>3. AddsChores(p, t) /\ AddsChores(p, u) /\ AddsChores(u, q)
    BY <1>1, <1>2, NothingAdded, TellsAdds
  <1> HIDE DEF q
  <1>4. q \in Page /\ AddsChores(p, q)
    <2>1. q \in Page
      BY <1>3 DEF AddsChores
    <2> QED
      BY <2>1, <1>3, AddedBoth
  <1>5. AddsChores(p, LeavesAll(q, Chan)) /\ AddsChores(p, Sends(q, <<ChannelReset>>))
    <2>1. <<ChannelReset>> \in Seq(Notice)
      BY DEF ChannelReset, Notice
    <2>2. AddsChores(q, LeavesAll(q, Chan))
      BY <1>4, SubscribingAdds
    <2>3. AddsChores(q, Sends(q, <<ChannelReset>>))
      BY <2>1, <1>4, SendsAdds
    <2> QED
      BY <2>2, <2>3, <1>4, AddedBoth
  <1> QED
    BY <1>3, <1>5 DEF SerialComes, t, u, q

LEMMA ComesAdds ==
    ASSUME NEW p \in Page, NEW m \in Notice
    PROVE  AddsChores(p, Comes(p, m))
  <1>1. m.t \in {"serial", "add", "erase", "replace", "reset", "new"} /\ m.n \in Int /\ m.l \in SUBSET Chan
    BY DEF Notice
  <1>2. AddsChores(p, TellsAnew(p)) /\ TellsAnew(p) \in Page
    <2> DEFINE q == [p EXCEPT !.cur = {}]
    <2>1. q \in Page /\ q.tasks = p.tasks
      BY DEF Page
    <2> HIDE DEF q
    <2>2. AddsChores(p, q) /\ AddsChores(q, Tells(q))
      BY <2>1, NothingAdded, TellsAdds
    <2>3. AddsChores(p, Tells(q))
      BY <2>2, AddedBoth
    <2> QED
      BY <2>3 DEF TellsAnew, AddsChores, q
  <1>3. \A q \in Page : AddsChores(q, TellsAnew(q))
    <2> SUFFICES ASSUME NEW r \in Page
                 PROVE  AddsChores(r, TellsAnew(r))
      OBVIOUS
    <2> DEFINE q == [r EXCEPT !.cur = {}]
    <2>1. q \in Page /\ q.tasks = r.tasks
      BY DEF Page
    <2> HIDE DEF q
    <2>2. AddsChores(r, q) /\ AddsChores(q, Tells(q))
      BY <2>1, NothingAdded, TellsAdds
    <2> QED
      BY <2>2, AddedBoth DEF TellsAnew, q
  <1>4. \A q \in Page, list \in SUBSET Chan :
          /\ AddsChores(q, LeavesAll(q, list)) /\ LeavesAll(q, list) \in Page
          /\ AddsChores(q, JoinsAll(q, list))
    BY SubscribingAdds DEF AddsChores
  <1>5. AddsChores(p, NewSessionComes(p))
    <2> DEFINE q == LeavesAll(p, Chan)
    <2>1. q \in Page /\ AddsChores(p, q)
      BY <1>4
    <2> HIDE DEF q
    <2>2. AddsChores(q, TellsAnew(q))
      BY <2>1, <1>3
    <2> QED
      BY <2>1, <2>2, AddedBoth DEF NewSessionComes, q
  <1>6. \A list \in SUBSET Chan, op \in {"add", "erase", "replace"} :
          AddsChores(p, UpdateComes(p, op, list))
    <2> SUFFICES ASSUME NEW list \in SUBSET Chan
                 PROVE  AddsChores(p, JoinsAll(LeavesAll(p, Chan), list))
      BY <1>4 DEF UpdateComes
    <2> DEFINE q == LeavesAll(p, Chan)
    <2>1. q \in Page /\ AddsChores(p, q)
      BY <1>4
    <2> HIDE DEF q
    <2>2. AddsChores(q, JoinsAll(q, list))
      BY <2>1, <1>4
    <2>3. AddsChores(p, JoinsAll(q, list))
      BY <2>1, <2>2, AddedBoth
    <2> QED
      BY <2>3 DEF q
  <1>7. CASE m.t = "new"
    BY <1>5, <1>7 DEF Comes
  <1>8. CASE m.t = "reset"
    BY <1>2, <1>8 DEF Comes
  <1>9. CASE m.t = "serial"
    BY <1>1, <1>9, SerialAdds DEF Comes
  <1>10. CASE m.t \in {"add", "erase", "replace"}
    <2>1. Comes(p, m) = UpdateComes(p, m.t, m.l)
      BY <1>10 DEF Comes
    <2> QED
      BY <2>1, <1>1, <1>6, <1>10
  <1> QED
    BY <1>1, <1>7, <1>8, <1>9, <1>10

LEMMA MonitorAdds ==
    ASSUME NEW p \in Page
    PROVE  AddsChores(p, PageMonitor(p))
  <1> DEFINE q == [p EXCEPT !.notify = FALSE]
  <1>1. q \in Page /\ q.tasks = p.tasks
    BY DEF Page
  <1> HIDE DEF q
  <1>2. AddsChores(p, q) /\ AddsChores(q, Tells(q))
    BY <1>1, NothingAdded, TellsAdds
  <1> QED
    BY <1>2, AddedBoth DEF PageMonitor, q

-----------------------------------------------------------------------------
(* What the tasks carry.                                                   *)

LEMMA CarriedTyped ==
    ASSUME NEW ts \in Seq(Task)
    PROVE  /\ Carried(ts) \in Seq(Message) /\ Len(Carried(ts)) = Len(ts)
           /\ DOMAIN Carried(ts) = 1 .. Len(ts)
           /\ \A i \in 1 .. Len(ts) : Carried(ts)[i] = Burden(ts[i])
  <1>1. DOMAIN ts = 1 .. Len(ts) /\ Len(ts) \in Nat /\ \A i \in 1 .. Len(ts) : ts[i] \in Task
    OBVIOUS
  <1>2. \A i \in 1 .. Len(ts) : Burden(ts[i]) \in Message
    BY <1>1, TasksTyped
  <1>3. Carried(ts) \in [1 .. Len(ts) -> Message]
    BY <1>1, <1>2 DEF Carried
  <1> QED
    BY <1>1, <1>3 DEF Carried

LEMMA CarriedConcat ==
    ASSUME NEW ts \in Seq(Task), NEW us \in Seq(Task)
    PROVE  Carried(ts \o us) = Carried(ts) \o Carried(us)
  <1> DEFINE v == ts \o us
             x == Carried(v)
             y == Carried(ts) \o Carried(us)
             k == Len(ts)
             n == Len(us)
  <1>1. /\ v \in Seq(Task) /\ Len(v) = k + n /\ k \in Nat /\ n \in Nat
        /\ \A i \in 1 .. k + n : v[i] = IF i <= k THEN ts[i] ELSE us[i - k]
    BY ConcatProperties
  <1> HIDE DEF v
  <1>2. /\ x \in Seq(Message) /\ Len(x) = k + n
        /\ \A i \in 1 .. k + n : x[i] = Burden(v[i])
    BY <1>1, CarriedTyped
  <1>3. /\ y \in Seq(Message) /\ Len(y) = k + n
        /\ \A i \in 1 .. k + n : y[i] = IF i <= k THEN Carried(ts)[i] ELSE Carried(us)[i - k]
    <2> DEFINE a == Carried(ts)
               b == Carried(us)
    <2>1. a \in Seq(Message) /\ b \in Seq(Message) /\ Len(a) = k /\ Len(b) = n
      BY CarriedTyped
    <2> HIDE DEF a, b, k, n
    <2>2. /\ a \o b \in Seq(Message) /\ Len(a \o b) = Len(a) + Len(b)
          /\ \A i \in 1 .. Len(a) + Len(b) : (a \o b)[i] = IF i <= Len(a) THEN a[i] ELSE b[i - Len(a)]
      BY <2>1, ConcatProperties
    <2> QED
      BY <2>1, <2>2 DEF a, b
  <1>4. /\ \A i \in 1 .. k : Carried(ts)[i] = Burden(ts[i])
        /\ \A i \in 1 .. n : Carried(us)[i] = Burden(us[i])
    BY CarriedTyped
  <1> HIDE DEF x, y
  <1>5. ASSUME NEW i \in 1 .. k + n
        PROVE  x[i] = y[i]
    <2>1. CASE i <= k
      <3>1. i \in 1 .. k
        BY <2>1, <1>1
      <3>2. x[i] = Burden(ts[i]) /\ y[i] = Carried(ts)[i]
        BY <2>1, <1>1, <1>2, <1>3
      <3> QED
        BY <3>1, <3>2, <1>4
    <2>2. CASE ~(i <= k)
      <3>1. i - k \in 1 .. n
        BY <2>2, <1>1
      <3>2. x[i] = Burden(us[i - k]) /\ y[i] = Carried(us)[i - k]
        BY <2>2, <1>1, <1>2, <1>3
      <3> QED
        BY <3>1, <3>2, <1>4
    <2> QED
      BY <2>1, <2>2
  <1>6. x = y
    <2> HIDE DEF k, n
    <2> QED
      BY <1>2, <1>3, <1>5, SeqEqual
  <1> QED
    BY <1>6 DEF x, y, v

LEMMA CarriedNone ==
    ASSUME NEW ts \in Seq(Chore)
    PROVE  ts \in Seq(Task) /\ Numbers(Carried(ts)) = {} /\ Rising(Carried(ts))
  <1>1. ts \in Seq(Task)
    BY TasksTyped, SeqMonotonic
  <1>2. /\ Len(Carried(ts)) = Len(ts) /\ Len(ts) \in Nat /\ DOMAIN Carried(ts) = 1 .. Len(ts)
        /\ \A i \in 1 .. Len(ts) : Carried(ts)[i] = Burden(ts[i])
    BY <1>1, CarriedTyped
  <1>3. \A i \in 1 .. Len(ts) : ts[i] \in Chore
    OBVIOUS
  <1>4. \A i \in 1 .. Len(ts) : Carried(ts)[i].t # "msg"
    BY <1>2, <1>3, TasksTyped DEF Notice
  <1> QED
    BY <1>1, <1>2, <1>4 DEF Numbers, Rising

LEMMA CarriedRest ==
    ASSUME NEW ts \in Seq(Task), ts # <<>>
    PROVE  /\ Head(ts) \in Task /\ Tail(ts) \in Seq(Task)
           /\ Carried(ts) = <<Burden(Head(ts))>> \o Carried(Tail(ts))
  <1>1. Head(ts) \in Task /\ Tail(ts) \in Seq(Task) /\ ts = <<Head(ts)>> \o Tail(ts)
    BY FirstAndRest
  <1>2. <<Head(ts)>> \in Seq(Task)
    BY <1>1
  <1>3. Carried(ts) = Carried(<<Head(ts)>>) \o Carried(Tail(ts))
    BY <1>1, <1>2, CarriedConcat
  <1>4. Carried(<<Head(ts)>>) = <<Burden(Head(ts))>>
    <2> DEFINE x == Head(ts)
    <2> HIDE DEF x
    <2>1. \A i : i \in DOMAIN <<x>> <=> i = 1
      OBVIOUS
    <2>2. <<x>>[1] = x
      OBVIOUS
    <2>3. Carried(<<x>>) = <<Burden(x)>>
      BY <2>1, <2>2 DEF Carried
    <2> QED
      BY <2>3 DEF x
  <1> QED
    BY <1>1, <1>3, <1>4

\* What OnOpen does with the queue.
LEMMA CarriedSends ==
    ASSUME NEW ms \in Seq(Message)
    PROVE  LET ts == [i \in DOMAIN ms |-> [do |-> "send", m |-> ms[i]]]
           IN ts \in Seq(Task) /\ Carried(ts) = ms /\ \A i \in DOMAIN ts : ts[i].do = "send"
  <1> DEFINE ts == [i \in DOMAIN ms |-> [do |-> "send", m |-> ms[i]]]
  <1>1. DOMAIN ms = 1 .. Len(ms) /\ Len(ms) \in Nat /\ \A i \in 1 .. Len(ms) : ms[i] \in Message
    OBVIOUS
  <1>2. \A i \in 1 .. Len(ms) : ts[i] \in Task /\ Burden(ts[i]) = ms[i] /\ ts[i].do = "send"
    BY <1>1, TasksTyped DEF Burden
  <1>3. ts \in [1 .. Len(ms) -> Task]
    BY <1>1, <1>2
  <1>4. ts \in Seq(Task) /\ Len(ts) = Len(ms)
    BY <1>1, <1>3
  <1> HIDE DEF ts
  <1>5. Carried(ts) = ms
    <2>1. /\ Carried(ts) \in Seq(Message) /\ Len(Carried(ts)) = Len(ms)
          /\ \A i \in 1 .. Len(ms) : Carried(ts)[i] = ms[i]
      BY <1>2, <1>4, CarriedTyped
    <2> QED
      BY <2>1, SeqEqual
  <1> QED
    BY <1>1, <1>2, <1>3, <1>4, <1>5 DEF ts

-----------------------------------------------------------------------------
(* What the handlers of a bridge of the server do to the wires: they only  *)
(* write, and to their own, what is no message of a listener.              *)

Speaks(s, u, e) ==
    /\ u \in ServerState
    /\ \A f \in End \ {e} : u.wire[f] = s.wire[f]
    /\ \E ms \in Seq(Notice) : u.wire[e] = s.wire[e] \o ms

LEMMA EndsTyped ==
    /\ \A e \in End : At(e) \in Broker /\ Other(e) \in End /\ e[1] \in Link
    /\ \A l \in Link : /\ <<l, "client">> \in End /\ ServerEnd(l) \in End
                       /\ ServerEnd(l)[1] = l /\ ServerEnd(l) # <<l, "client">>
                       /\ Other(ServerEnd(l)) = <<l, "client">> /\ Other(<<l, "client">>) = ServerEnd(l)
    /\ \A l, k \in Link : l # k => <<l, "client">> # <<k, "client">> /\ ServerEnd(l) # ServerEnd(k)
    /\ \A l, k \in Link : ServerEnd(l) # <<k, "client">>
    /\ \A e \in End : \E l \in Link : e = <<l, "client">> \/ e = ServerEnd(l)
    /\ \A b : Monitors(b) \subseteq {Monitor(e) : e \in End}
  BY LinksTyped DEF End, At, Other, ServerEnd, Monitors, EndsAt

LEMMA SaysNothing ==
    ASSUME NEW s \in ServerState, NEW u \in ServerState, NEW e \in End, u.wire = s.wire
    PROVE  Speaks(s, u, e)
  <1>1. s.wire[e] \in Seq(Message) /\ <<>> \in Seq(Notice)
    BY DEF ServerState
  <1>2. s.wire[e] \o <<>> = s.wire[e]
    BY <1>1, ConcatEmptySeq
  <1> QED
    BY <1>1, <1>2 DEF Speaks

LEMMA SaysBoth ==
    ASSUME NEW s \in ServerState, NEW u, NEW v, NEW e \in End, Speaks(s, u, e), Speaks(u, v, e)
    PROVE  Speaks(s, v, e)
  <1>1. PICK a \in Seq(Notice) : u.wire[e] = s.wire[e] \o a
    BY DEF Speaks
  <1>2. PICK b \in Seq(Notice) : v.wire[e] = u.wire[e] \o b
    BY DEF Speaks
  <1>3. s.wire[e] \in Seq(Message) /\ a \in Seq(Message) /\ b \in Seq(Message)
    BY NoticesHaveNone DEF ServerState
  <1>4. v.wire[e] = s.wire[e] \o (a \o b)
    <2>1. \A w \in Seq(Message) : (w \o a) \o b = w \o (a \o b)
      BY <1>3, ConcatAssociative
    <2> QED
      BY <1>1, <1>2, <1>3, <2>1
  <1>5. a \o b \in Seq(Notice)
    BY ConcatProperties
  <1> QED
    BY <1>4, <1>5 DEF Speaks

LEMMA SendSpeaks ==
    ASSUME NEW s \in ServerState, NEW e \in End, NEW ms \in Seq(Notice)
    PROVE  Speaks(s, Send(s, e, ms), e)
  <1> DEFINE w == s.wire[e] \o ms
             u == [s EXCEPT !.wire[e] = @ \o ms]
  <1>1. w \in Seq(Message)
    <2>1. s.wire[e] \in Seq(Message) /\ ms \in Seq(Message)
      BY NoticesHaveNone DEF ServerState
    <2> QED
      BY <2>1, ConcatProperties
  <1>2. u = [s EXCEPT !.wire = [s.wire EXCEPT ![e] = w]]
    OBVIOUS
  <1> HIDE DEF w
  <1>3. [s.wire EXCEPT ![e] = w] \in [End -> Seq(Message)]
    BY <1>1 DEF ServerState
  <1>4. u \in ServerState /\ u.wire = [s.wire EXCEPT ![e] = w]
    BY <1>2, <1>3 DEF ServerState
  <1>5. u.wire[e] = w /\ \A f \in End \ {e} : u.wire[f] = s.wire[f]
    BY <1>4 DEF ServerState
  <1> HIDE DEF u
  <1>6. Speaks(s, u, e)
    BY <1>4, <1>5 DEF Speaks, w
  <1> QED
    BY <1>6, SaysNothing DEF Send, u

LEMMA DifferenceTyped ==
    ASSUME NEW old \in SUBSET Chan, NEW new \in SUBSET Chan, NEW reset \in BOOLEAN
    PROVE  Difference(old, new, reset) \in Seq(Notice)
  <1>1. \A list \in SUBSET Chan, op \in {"add", "erase", "replace"} :
          ChannelUpdate(op, list) \in Notice
    BY DEF ChannelUpdate, Notice
  <1>2. /\ ChannelUpdate("replace", new) \in Notice
        /\ ChannelUpdate("replace", {}) \in Notice
        /\ ChannelUpdate("add", new \ old) \in Notice
        /\ ChannelUpdate("erase", old \ new) \in Notice
    BY <1>1
  <1> DEFINE a == IF new \subseteq old THEN <<>> ELSE <<ChannelUpdate("add", new \ old)>>
             b == IF old \subseteq new THEN <<>> ELSE <<ChannelUpdate("erase", old \ new)>>
  <1>3. a \in Seq(Notice) /\ b \in Seq(Notice)
    BY <1>2
  <1>4. a \o b \in Seq(Notice)
    BY <1>3, ConcatProperties
  <1>5. /\ <<>> \in Seq(Notice) /\ <<ChannelUpdate("replace", new)>> \in Seq(Notice)
        /\ <<ChannelUpdate("replace", {})>> \in Seq(Notice)
    BY <1>2
  <1> QED
    BY <1>4, <1>5 DEF Difference

LEMMA BrokerSaysNothing ==
    ASSUME NEW s \in ServerState, NEW e \in End
    PROVE  /\ \A b, c : Speaks(s, ChangedIf(s, b, c), e) /\ ChangedIf(s, b, c) \in ServerState
           /\ Speaks(s, UnsubscribeAll(s, e), e)
           /\ \A n \in Int : Speaks(s, SetSerial(s, e, n), e)
           /\ \A op \in {"add", "erase", "replace"}, list \in SUBSET Chan :
                Speaks(s, UpdateSubscription(s, e, op, list), e)
  <1>1. ASSUME NEW u \in ServerState, u.wire = s.wire, NEW b, NEW c
        PROVE  ChangedIf(u, b, c) \in ServerState /\ Speaks(s, ChangedIf(u, b, c), e)
    <2>1. Changed(u, b) \in ServerState /\ Changed(u, b).wire = u.wire
      BY EndsTyped DEF Changed, ServerState
    <2>2. ChangedIf(u, b, c) \in ServerState /\ ChangedIf(u, b, c).wire = s.wire
      BY <2>1, <1>1 DEF ChangedIf
    <2> QED
      BY <2>2, SaysNothing
  <1>2. \A x \in SUBSET Chan : [s EXCEPT !.sub[e] = x] \in ServerState
                               /\ [s EXCEPT !.sub[e] = x].wire = s.wire
    BY DEF ServerState
  <1>3. Speaks(s, UnsubscribeAll(s, e), e)
    BY <1>1, <1>2 DEF UnsubscribeAll
  <1>4. ASSUME NEW n \in Int
        PROVE  Speaks(s, SetSerial(s, e, n), e)
    <2>1. At(e) \in Broker
      BY EndsTyped
    <2> DEFINE u == [s EXCEPT !.cur[At(e)] = n, !.source[At(e)] = e]
    <2>2. u \in ServerState /\ u.wire = s.wire
      BY <2>1 DEF ServerState
    <2> HIDE DEF u
    <2>3. Speaks(s, u, e)
      BY <2>2, SaysNothing
    <2> QED
      BY <2>3, <1>1 DEF SetSerial, u
  <1>5. ASSUME NEW op \in {"add", "erase", "replace"}, NEW list \in SUBSET Chan
        PROVE  Speaks(s, UpdateSubscription(s, e, op, list), e)
    <2> DEFINE old == s.sub[e]
               new == CASE op = "replace" -> list
                        [] op = "add" -> old \cup list
                        [] op = "erase" -> old \ list
    <2>1. old \in SUBSET Chan
      BY DEF ServerState
    <2>2. new \in SUBSET Chan
      BY <2>1
    <2> HIDE DEF new
    <2> QED
      BY <2>2, <1>1, <1>2 DEF UpdateSubscription, new
  <1> QED
    BY <1>1, <1>3, <1>4, <1>5

LEMMA SendMineSpeaks ==
    ASSUME NEW s \in ServerState, NEW e \in End, NEW reset \in BOOLEAN,
           lsn \in [Broker -> SUBSET Chan]
    PROVE  Speaks(s, SendMine(s, e, reset), e)
  <1> DEFINE n == GetSerial(s, e)
             serial == IF n \in {s.hash[e], Unsaid} THEN <<>> ELSE <<Serial(n)>>
             list == IF s.cycle[e] THEN {} ELSE Exported(s, e)
             u == [s EXCEPT !.hash[e] = n, !.told[e] = list]
             d == Difference(s.told[e], list, reset)
  <1>1. At(e) \in Broker /\ At(e) \in Int /\ s.cur[At(e)] \in Int
    BY EndsTyped, BrokersNat DEF ServerState
  <1>2. n \in Int /\ list \in SUBSET Chan /\ s.told[e] \in SUBSET Chan
    BY <1>1 DEF GetSerial, Best, Unsaid, Exported, ServerState
  <1> HIDE DEF n, list
  <1>3. serial \in Seq(Notice)
    <2>1. Serial(n) \in Notice
      BY <1>2 DEF Serial, Notice
    <2>2. <<>> \in Seq(Notice) /\ <<Serial(n)>> \in Seq(Notice)
      BY <2>1
    <2> QED
      BY <2>2
  <1>4. d \in Seq(Notice)
    BY <1>2, DifferenceTyped
  <1>5. u \in ServerState /\ u.wire = s.wire
    BY <1>2 DEF ServerState
  <1> HIDE DEF serial, d, u
  <1>6. serial \o d \in Seq(Notice)
    BY <1>3, <1>4, ConcatProperties
  <1>7. Speaks(s, u, e) /\ Speaks(u, Send(u, e, serial \o d), e)
    BY <1>5, <1>6, SaysNothing, SendSpeaks
  <1> QED
    BY <1>7, SaysBoth DEF SendMine, n, list, serial, d, u

LEMMA HandleSpeaks ==
    ASSUME NEW s \in ServerState, NEW e \in End, NEW m \in Notice,
           lsn \in [Broker -> SUBSET Chan]
    PROVE  Speaks(s, Handle(s, e, m), e)
  <1>1. m.t \in {"serial", "add", "erase", "replace", "reset", "new"} /\ m.n \in Int /\ m.l \in SUBSET Chan
    BY DEF Notice
  <1>2. CASE m.t = "serial"
    <2> DEFINE s1 == SetSerial(s, e, m.n)
               t1 == [s1 EXCEPT !.cycle[e] = ~@]
               s2 == SendMine(t1, e, FALSE)
    <2>1. Speaks(s, s1, e) /\ s1 \in ServerState
      BY <1>1, BrokerSaysNothing DEF Speaks
    <2> HIDE DEF s1
    <2>2. t1 \in ServerState /\ t1.wire = s1.wire
      BY <2>1 DEF ServerState
    <2> HIDE DEF t1
    <2>3. Speaks(s1, t1, e) /\ Speaks(t1, s2, e) /\ s2 \in ServerState
      BY <2>1, <2>2, SaysNothing, SendMineSpeaks DEF Speaks
    <2> HIDE DEF s2
    <2>4. Speaks(s, t1, e)
      BY <2>1, <2>3, SaysBoth
    <2>5. Speaks(s, s2, e)
      BY <2>3, <2>4, SaysBoth
    <2>6. <<ChannelReset>> \in Seq(Notice)
      BY DEF ChannelReset, Notice
    <2>7. Speaks(s2, UnsubscribeAll(s2, e), e) /\ Speaks(s2, Send(s2, e, <<ChannelReset>>), e)
      BY <2>3, <2>6, BrokerSaysNothing, SendSpeaks
    <2>8. Speaks(s, UnsubscribeAll(s2, e), e) /\ Speaks(s, Send(s2, e, <<ChannelReset>>), e)
      BY <2>5, <2>7, SaysBoth
    <2>9. Speaks(s, ReceiveSerial(s, e, m.n), e)
      BY <2>1, <2>8 DEF ReceiveSerial, s1, t1, s2
    <2> QED
      BY <2>9, <1>2 DEF Handle
  <1>3. CASE m.t = "new"
    <2> DEFINE s1 == UnsubscribeAll(s, e)
               t1 == [s1 EXCEPT !.hash[e] = None, !.cycle[e] = FALSE]
    <2>1. Speaks(s, s1, e) /\ s1 \in ServerState
      BY BrokerSaysNothing DEF Speaks
    <2> HIDE DEF s1
    <2>2. t1 \in ServerState /\ t1.wire = s1.wire
      <3>1. \A n \in Int, b \in BOOLEAN :
              LET t == [s1 EXCEPT !.hash[e] = n, !.cycle[e] = b]
              IN t \in ServerState /\ t.wire = s1.wire
        BY <2>1 DEF ServerState
      <3>2. None \in Int /\ FALSE \in BOOLEAN
        BY DEF None
      <3> QED
        BY <3>1, <3>2, Zenon
    <2> HIDE DEF t1
    <2>3. Speaks(s1, t1, e) /\ Speaks(t1, SendMine(t1, e, TRUE), e)
      BY <2>1, <2>2, SaysNothing, SendMineSpeaks
    <2>4. Speaks(s, t1, e)
      BY <2>1, <2>3, SaysBoth
    <2>5. Speaks(s, SendMine(t1, e, TRUE), e)
      BY <2>3, <2>4, SaysBoth
    <2> QED
      BY <2>5, <1>3 DEF Handle, ReceiveNewSession, s1, t1
  <1>4. CASE m.t = "reset"
    BY <1>4, SendMineSpeaks DEF Handle
  <1>5. CASE m.t \in {"add", "erase", "replace"}
    <2>1. Speaks(s, s, e)
      BY SaysNothing
    <2>2. Speaks(s, UpdateSubscription(s, e, m.t, m.l), e)
      BY <1>1, <1>5, BrokerSaysNothing
    <2> QED
      BY <2>1, <2>2, <1>5 DEF Handle
  <1> QED
    BY <1>1, <1>2, <1>3, <1>4, <1>5

-----------------------------------------------------------------------------
(* The types, and what the steps do to the wires of the page's ends.       *)

\* Messages on a connection may only get fewer.
Dwindles(l) ==
    /\ Numbers(Out(l)') \subseteq Numbers(Out(l))
    /\ Rising(Out(l)) => Rising(Out(l)')

LEMMA BecomesTyped ==
    ASSUME NEW s \in ServerState, Becomes(s)
    PROVE  State' = s /\ State' \in ServerState /\ wire' = s.wire
  BY DEF Becomes, State, ServerState

LEMMA OnlyWire ==
    ASSUME SyncTyped, wire' \in [End -> Seq(Message)],
           UNCHANGED <<up, lsn, sub, told, hash, cycle, due, source, cur>>,
           \A l \in Link : wire'[ServerEnd(l)] \in Seq(Notice)
    PROVE  SyncTyped'
  BY DEF SyncTyped, State, ServerState, ServerEnd

LEMMA RestDwindles ==
    ASSUME NEW l \in Link, SyncTyped,
           Out(l)' = Out(l) \/ (Out(l) # <<>> /\ Out(l)' = Tail(Out(l))) \/ Out(l)' \in Seq(Notice)
    PROVE  Dwindles(l)
  <1>1. Out(l) \in Seq(Message)
    BY EndsTyped DEF SyncTyped, State, ServerState, Out
  <1>2. CASE Out(l)' = Out(l)
    BY <1>2 DEF Dwindles
  <1>3. CASE Out(l) # <<>> /\ Out(l)' = Tail(Out(l))
    <2>1. Out(l) = <<Head(Out(l))>> \o Tail(Out(l)) /\ Tail(Out(l)) \in Seq(Message)
          /\ <<Head(Out(l))>> \in Seq(Message)
      BY <1>1, <1>3, FirstAndRest, OneNumber
    <2>2. /\ Numbers(Out(l)) = Numbers(<<Head(Out(l))>>) \cup Numbers(Tail(Out(l)))
          /\ Rising(Out(l)) => Rising(Tail(Out(l)))
      BY <2>1, NumbersOfConcat
    <2> QED
      BY <2>2, <1>3 DEF Dwindles
  <1>4. CASE Out(l)' \in Seq(Notice)
    BY <1>4, NoticesHaveNone DEF Dwindles
  <1> QED
    BY <1>2, <1>3, <1>4

LEMMA ReceiveKeeps ==
    ASSUME SyncTyped, NEW l \in Link, ServerReceives(l)
    PROVE  SyncTyped' /\ \A k \in Link : Dwindles(k)
  <1> DEFINE e == ServerEnd(l)
             c == <<l, "client">>
             w == [wire EXCEPT ![c] = Tail(@)]
             s == [State EXCEPT !.wire[c] = Tail(@)]
             m == Head(wire[c])
             u == Handle(s, e, m)
  <1>1. /\ Other(e) = c /\ e \in End /\ c \in End /\ e # c
        /\ wire \in [End -> Seq(Message)] /\ State \in ServerState
        /\ lsn \in [Broker -> SUBSET Chan]
    BY EndsTyped DEF SyncTyped, State, ServerState
  <1>2. wire[c] # <<>> /\ m.t # "msg" /\ Becomes(u) /\ UNCHANGED <<up, lsn>>
    BY <1>1 DEF ServerReceives, Receive
  <1>3. m \in Notice /\ Tail(wire[c]) \in Seq(Message)
    <2>1. m \in Message /\ Tail(wire[c]) \in Seq(Message)
      BY <1>1, <1>2, FirstAndRest
    <2> HIDE DEF m
    <2> QED
      BY <2>1, <1>2 DEF Message, Posting
  <1>4. w \in [End -> Seq(Message)] /\ w[c] = Tail(wire[c]) /\ \A f \in End \ {c} : w[f] = wire[f]
    BY <1>1, <1>3
  <1> HIDE DEF w
  <1>5. s \in ServerState /\ s.wire = w
    <2>1. s = [State EXCEPT !.wire = w] /\ s.wire = w
      BY DEF State, w
    <2> HIDE DEF s
    <2> QED
      BY <2>1, <1>1, <1>4 DEF ServerState
  <1> HIDE DEF m, s
  <1>6. Speaks(s, u, e)
    BY <1>1, <1>3, <1>5, HandleSpeaks
  <1> HIDE DEF u
  <1>7. State' \in ServerState /\ wire' = u.wire
    BY <1>2, <1>6, BecomesTyped DEF Speaks
  <1>8. PICK ms \in Seq(Notice) : wire'[e] = wire[e] \o ms
    BY <1>1, <1>4, <1>5, <1>6, <1>7 DEF Speaks
  <1>9. \A f \in End \ {e, c} : wire'[f] = wire[f]
    BY <1>4, <1>5, <1>6, <1>7 DEF Speaks
  <1>10. wire'[c] = Tail(wire[c])
    BY <1>1, <1>4, <1>5, <1>6, <1>7 DEF Speaks
  <1>11. ASSUME NEW k \in Link
         PROVE  wire'[ServerEnd(k)] \in Seq(Notice)
    <2>1. wire[ServerEnd(k)] \in Seq(Notice)
      BY DEF SyncTyped
    <2>2. CASE k = l
      BY <2>1, <2>2, <1>8, ConcatProperties
    <2>3. CASE k # l
      BY <2>1, <2>3, <1>9, EndsTyped
    <2> QED
      BY <2>2, <2>3
  <1>12. ASSUME NEW k \in Link
         PROVE  Dwindles(k)
    <2>1. CASE k = l
      BY <2>1, <1>2, <1>10, RestDwindles DEF Out
    <2>2. CASE k # l
      <3>1. <<k, "client">> \in End \ {e, c}
        BY <2>2, EndsTyped
      <3> QED
        BY <3>1, <1>9, RestDwindles DEF Out
    <2> QED
      BY <2>1, <2>2
  <1> QED
    BY <1>2, <1>7, <1>11, <1>12 DEF SyncTyped

LEMMA AnnounceKeeps ==
    ASSUME SyncTyped, ServerAnnounces
    PROVE  SyncTyped' /\ \A k \in Link : Dwindles(k)
  <1> DEFINE A == Announcers(<<"server", Home>>)
             After(e) == SendMine(State, e, FALSE)
  <1>1. /\ State \in ServerState /\ lsn \in [Broker -> SUBSET Chan]
        /\ wire \in [End -> Seq(Message)] /\ told \in [End -> SUBSET Chan] /\ hash \in [End -> Int]
    BY DEF SyncTyped, State, ServerState
  <1>2. \A e \in End : Speaks(State, After(e), e)
    BY <1>1, SendMineSpeaks
  <1> HIDE DEF After
  <1>3. ASSUME NEW e \in End
        PROVE  /\ After(e).wire[e] \in Seq(Message) /\ After(e).told[e] \in SUBSET Chan
               /\ After(e).hash[e] \in Int
               /\ wire[e] \in Seq(Notice) => After(e).wire[e] \in Seq(Notice)
    <2>1. After(e) \in ServerState
      BY <1>2 DEF Speaks
    <2>2. PICK ms \in Seq(Notice) : After(e).wire[e] = wire[e] \o ms
      BY <1>2 DEF Speaks, State
    <2>3. wire[e] \in Seq(Notice) => After(e).wire[e] \in Seq(Notice)
      BY <2>2, ConcatProperties
    <2> QED
      BY <2>1, <2>3 DEF ServerState
  <1>4. /\ wire' = [e \in End |-> IF e \in A THEN After(e).wire[e] ELSE wire[e]]
        /\ told' = [e \in End |-> IF e \in A THEN After(e).told[e] ELSE told[e]]
        /\ hash' = [e \in End |-> IF e \in A THEN After(e).hash[e] ELSE hash[e]]
        /\ due' \subseteq due
        /\ UNCHANGED <<up, lsn, sub, cycle, source, cur>>
    BY DEF ServerAnnounces, Announce, After
  <1>5. \A l \in Link : <<l, "client">> \notin A
    BY DEF Announcers, Monitor
  <1> HIDE DEF A
  <1>6. /\ wire' \in [End -> Seq(Message)] /\ told' \in [End -> SUBSET Chan]
        /\ hash' \in [End -> Int]
    BY <1>1, <1>3, <1>4
  <1>7. State' \in ServerState
    BY <1>1, <1>4, <1>6 DEF State, ServerState
  <1>8. \A l \in Link : wire'[ServerEnd(l)] \in Seq(Notice)
    BY <1>3, <1>4, EndsTyped DEF SyncTyped
  <1>9. \A l \in Link : Out(l)' = Out(l)
    BY <1>4, <1>5, EndsTyped DEF Out
  <1> QED
    BY <1>4, <1>7, <1>8, <1>9, RestDwindles DEF SyncTyped

LEMMA ServerCallsKeep ==
    ASSUME SyncTyped, ServerCalls
    PROVE  SyncTyped' /\ \A k \in Link : Dwindles(k)
  <1>1. State \in ServerState /\ lsn \in [Broker -> SUBSET Chan]
    BY DEF SyncTyped
  <1>2. Changed(State, Home) \in ServerState /\ Changed(State, Home).wire = wire
    <2>1. Monitors(Home) \subseteq {Monitor(e) : e \in End} /\ State.wire = wire
      BY EndsTyped DEF State
    <2> QED
      BY <1>1, <2>1 DEF Changed, ServerState
  <1>3. /\ Becomes(Changed(State, Home)) /\ up' = up
        /\ \E c \in Chan : \/ lsn' = [lsn EXCEPT ![Home] = @ \cup {c}]
                           \/ lsn' = [lsn EXCEPT ![Home] = @ \ {c}]
    BY DEF ServerCalls, Subscribe, Unsubscribe
  <1>4. lsn' \in [Broker -> SUBSET Chan]
    BY <1>1, <1>3
  <1>5. State' \in ServerState /\ wire' = wire
    BY <1>2, <1>3, BecomesTyped
  <1>6. \A k \in Link : Out(k)' = Out(k)
    BY <1>5 DEF Out
  <1> QED
    BY <1>3, <1>4, <1>5, <1>6, RestDwindles DEF SyncTyped

LEMMA LoseKeeps ==
    ASSUME SyncTyped, NEW l \in Link, ServerLoses(l)
    PROVE  SyncTyped' /\ \A k \in Link : Dwindles(k)
  <1> DEFINE e == ServerEnd(l)
             c == <<l, "client">>
             gone == [State EXCEPT !.wire[e] = <<>>, !.wire[c] = <<>>,
                                   !.sub[e] = {}, !.cycle[e] = FALSE, !.told[e] = {},
                                   !.hash[e] = None,
                                   !.source[At(e)] = IF @ = e THEN NoEnd ELSE @]
             w == [wire EXCEPT ![e] = <<>>, ![c] = <<>>]
             u == ChangedIf(gone, At(e), sub[e] # {} \/ source[At(e)] = e)
  <1>1. /\ Other(e) = c /\ e \in End /\ c \in End /\ e # c /\ At(e) \in Broker
        /\ State \in ServerState
    BY EndsTyped DEF SyncTyped
  <1>typed. /\ wire \in [End -> Seq(Message)] /\ sub \in [End -> SUBSET Chan]
        /\ told \in [End -> SUBSET Chan] /\ hash \in [End -> Int] /\ cycle \in [End -> BOOLEAN]
        /\ source \in [Broker -> End \cup {NoEnd}]
    BY <1>1 DEF State, ServerState
  <1>2. Becomes(u) /\ up' = [up EXCEPT ![l] = FALSE] /\ UNCHANGED lsn
    BY <1>1 DEF ServerLoses, Lose, ServerEnd
  <1>3. w \in [End -> Seq(Message)] /\ w[e] = <<>> /\ w[c] = <<>>
        /\ \A f \in End \ {e, c} : w[f] = wire[f]
    <2> HIDE DEF e, c
    <2>1. <<>> \in Seq(Message)
      OBVIOUS
    <2> QED
      BY <2>1, <1>1, <1>typed
  <1>4. /\ "due" \in DOMAIN gone /\ gone.wire = w /\ gone.due = due /\ gone.cur = cur
        /\ gone.sub = [sub EXCEPT ![e] = {}] /\ gone.cycle = [cycle EXCEPT ![e] = FALSE]
        /\ gone.told = [told EXCEPT ![e] = {}] /\ gone.hash = [hash EXCEPT ![e] = None]
        /\ gone.source = [source EXCEPT ![At(e)] = IF @ = e THEN NoEnd ELSE @]
    <2> HIDE DEF e, c
    <2>1. "due" \in DOMAIN gone /\ gone.wire = w /\ gone.due = due /\ gone.cur = cur
      BY DEF State
    <2>2. gone.sub = [sub EXCEPT ![e] = {}] /\ gone.cycle = [cycle EXCEPT ![e] = FALSE]
          /\ gone.told = [told EXCEPT ![e] = {}] /\ gone.hash = [hash EXCEPT ![e] = None]
      BY DEF State
    <2>3. gone.source = [source EXCEPT ![At(e)] = IF @ = e THEN NoEnd ELSE @]
      BY DEF State
    <2> QED
      BY <2>1, <2>2, <2>3
  <1> HIDE DEF gone, w
  <1>5. /\ u.wire = w /\ u.sub = gone.sub /\ u.told = gone.told /\ u.hash = gone.hash
        /\ u.cycle = gone.cycle /\ u.source = gone.source /\ u.cur = cur
        /\ u.due \in SUBSET {Monitor(f) : f \in End}
    <2>1. due \in SUBSET {Monitor(f) : f \in End} /\ Monitors(At(e)) \subseteq {Monitor(f) : f \in End}
      BY <1>1, EndsTyped DEF State, ServerState
    <2> HIDE DEF e, c
    <2> QED
      BY <2>1, <1>4 DEF ChangedIf, Changed
  <1> HIDE DEF u
  <1>6. State' \in ServerState /\ wire' = w
    <2>1. /\ sub' \in [End -> SUBSET Chan] /\ told' \in [End -> SUBSET Chan]
          /\ hash' \in [End -> Int] /\ cycle' \in [End -> BOOLEAN]
          /\ source' \in [Broker -> End \cup {NoEnd}]
      <3>1. None \in Int
        BY DEF None
      <3> HIDE DEF e, c
      <3> QED
        BY <3>1, <1>1, <1>2, <1>4, <1>5, <1>typed DEF Becomes
    <2>2. due' \in SUBSET {Monitor(f) : f \in End} /\ cur' \in [Broker -> Int] /\ wire' = w
      BY <1>1, <1>2, <1>5 DEF Becomes, State, ServerState
    <2> QED
      BY <2>1, <2>2, <1>3 DEF State, ServerState
  <1>7. up' \in [Link -> BOOLEAN]
    BY <1>2 DEF SyncTyped
  <1>emptied. /\ wire'[e] = <<>> /\ wire'[c] = <<>> /\ <<>> \in Seq(Notice)
        /\ \A k \in Link \ {l} : /\ wire'[ServerEnd(k)] = wire[ServerEnd(k)]
                                /\ wire'[<<k, "client">>] = wire[<<k, "client">>]
    <2>1. \A k \in Link \ {l} : ServerEnd(k) \in End \ {e, c} /\ <<k, "client">> \in End \ {e, c}
      BY EndsTyped
    <2> QED
      BY <2>1, <1>3, <1>6
  <1> HIDE DEF e, c
  <1>8. ASSUME NEW k \in Link
        PROVE  wire'[ServerEnd(k)] \in Seq(Notice)
    <2>1. CASE k = l
      BY <2>1, <1>emptied DEF e
    <2>2. CASE k # l
      BY <2>2, <1>emptied DEF SyncTyped
    <2> QED
      BY <2>1, <2>2
  <1>9. ASSUME NEW k \in Link
        PROVE  Out(k)' = Out(k) \/ Out(k)' \in Seq(Notice)
    <2>1. CASE k = l
      BY <2>1, <1>emptied DEF Out, c
    <2>2. CASE k # l
      BY <2>2, <1>emptied DEF Out
    <2> QED
      BY <2>1, <2>2
  <1> QED
    BY <1>2, <1>6, <1>7, <1>8, <1>9, RestDwindles DEF SyncTyped

LEMMA ConnectKeeps ==
    ASSUME SyncTyped, NEW l \in Link, Connect(l)
    PROVE  SyncTyped' /\ \A k \in Link : Dwindles(k)
  <1> DEFINE e == ServerEnd(l)
             c == <<l, "client">>
             n == Best(State, At(e))
             list == Exported(State, e)
             d == Difference({}, list, FALSE)
             a == <<NewSession, Serial(n)>> \o d
             b == IF l \in lost THEN <<ChannelReset>> ELSE <<>>
  <1>1. /\ Other(e) = c /\ e \in End /\ c \in End /\ e # c /\ At(e) \in Broker
        /\ State \in ServerState
    BY EndsTyped DEF SyncTyped
  <1>2. n \in Int /\ list \in SUBSET Chan
    <2> HIDE DEF e
    <2>1. ASSUME NEW s \in ServerState
          PROVE  Best(s, At(e)) \in Int /\ Exported(s, e) \in SUBSET Chan
      <3>1. PICK x \in Broker : x = At(e)
        BY <1>1
      <3>2. x \in Int /\ s.cur[x] \in Int
        BY BrokersNat DEF ServerState
      <3> QED
        BY <3>1, <3>2 DEF Best, Exported
    <2> QED
      BY <2>1, <1>1
  <1>3. /\ wire' = [wire EXCEPT ![e] = a, ![c] = b]
        /\ hash' = [hash EXCEPT ![e] = n] /\ told' = [told EXCEPT ![e] = list]
        /\ up' = [up EXCEPT ![l] = TRUE]
        /\ UNCHANGED <<lsn, sub, cycle, due, source, cur>>
    BY <1>1 DEF Connect, ServerEnd
  <1> HIDE DEF n, list
  <1>4. d \in Seq(Notice)
    BY <1>2, DifferenceTyped
  <1>5. <<NewSession, Serial(n)>> \in Seq(Notice)
    <2>1. NewSession \in Notice /\ Serial(n) \in Notice
      BY <1>2 DEF NewSession, Serial, Notice
    <2> QED
      BY <2>1
  <1>6. b \in Seq(Notice)
    <2>1. ChannelReset \in Notice
      BY DEF ChannelReset, Notice
    <2>2. <<ChannelReset>> \in Seq(Notice) /\ <<>> \in Seq(Notice)
      BY <2>1
    <2> QED
      BY <2>2
  <1> HIDE DEF d, b
  <1>7. a \in Seq(Notice)
    BY <1>4, <1>5, ConcatProperties
  <1> HIDE DEF a
  <1>8. a \in Seq(Message) /\ b \in Seq(Message)
    BY <1>6, <1>7, NoticesHaveNone
  <1>9. /\ wire' \in [End -> Seq(Message)] /\ wire'[e] = a /\ wire'[c] = b
        /\ \A f \in End \ {e, c} : wire'[f] = wire[f]
    BY <1>1, <1>3, <1>8 DEF State, ServerState
  <1>10. hash' \in [End -> Int] /\ told' \in [End -> SUBSET Chan] /\ up' \in [Link -> BOOLEAN]
    BY <1>1, <1>2, <1>3 DEF SyncTyped, State, ServerState
  <1>11. State' \in ServerState
    BY <1>1, <1>3, <1>9, <1>10 DEF State, ServerState
  <1>12. \A k \in Link : wire'[ServerEnd(k)] \in Seq(Notice)
    BY <1>7, <1>9, EndsTyped DEF SyncTyped
  <1>13. \A k \in Link : Out(k)' = Out(k) \/ Out(k)' \in Seq(Notice)
    BY <1>6, <1>9, EndsTyped DEF Out
  <1> QED
    BY <1>3, <1>10, <1>11, <1>12, <1>13, RestDwindles DEF SyncTyped

-----------------------------------------------------------------------------
(* The numbers.                                                            *)

LEMMA LinksAreNumbers == \A l \in Link : l \in Int
  BY ConnectionsNumbered

LEMMA PlacesTyped ==
    ASSUME SyncTyped, PageTyped
    PROVE  /\ ws.l \in Link /\ page.tasks \in Seq(Task) /\ queue \in Seq(Message)
           /\ Carried(page.tasks) \in Seq(Message)
           /\ \A l \in Link : Out(l) \in Seq(Message) /\ Got(l) \subseteq Nat /\ Sent(l) \subseteq Nat
           /\ Waiting \subseteq Nat
  <1>1. ws.l \in Link /\ page.tasks \in Seq(Task) /\ queue \in Seq(Message)
    BY DEF PageTyped, Page
  <1>2. Carried(page.tasks) \in Seq(Message)
    BY <1>1, CarriedTyped
  <1>3. \A l \in Link : Out(l) \in Seq(Message)
    BY EndsTyped DEF SyncTyped, State, ServerState, Out
  <1>4. \A l \in Link : Got(l) \subseteq Nat
    <2>1. DOMAIN received = 1 .. Len(received) /\ \A i \in 1 .. Len(received) : received[i][2] \in Nat
      BY DEF PageTyped
    <2> QED
      BY <2>1 DEF Got
  <1> QED
    BY <1>1, <1>2, <1>3, <1>4, NumbersTyped DEF Sent, Waiting

LEMMA AddedCarry ==
    ASSUME NEW q \in Page, NEW r, AddsChores(q, r)
    PROVE  /\ Numbers(Carried(r.tasks)) = Numbers(Carried(q.tasks))
           /\ Rising(Carried(q.tasks)) => Rising(Carried(r.tasks))
           /\ (\A i \in DOMAIN q.tasks : q.tasks[i].do # "on_message")
                => \A i \in DOMAIN r.tasks : r.tasks[i].do # "on_message"
  <1>1. PICK ts \in Seq(Chore) : r.tasks = q.tasks \o ts
    BY DEF AddsChores
  <1> DEFINE a == q.tasks
  <1>2. a \in Seq(Task) /\ ts \in Seq(Task) /\ Numbers(Carried(ts)) = {} /\ Rising(Carried(ts))
    BY CarriedNone DEF Page
  <1> HIDE DEF a
  <1>3. /\ Carried(a \o ts) = Carried(a) \o Carried(ts)
        /\ Carried(a) \in Seq(Message) /\ Carried(ts) \in Seq(Message)
    BY <1>2, CarriedConcat, CarriedTyped
  <1>4. /\ Numbers(Carried(a \o ts)) = Numbers(Carried(a))
        /\ Rising(Carried(a)) => Rising(Carried(a \o ts))
    <2>1. /\ Numbers(Carried(a \o ts)) = Numbers(Carried(a)) \cup Numbers(Carried(ts))
          /\ Rising(Carried(a \o ts)) <=>
               Rising(Carried(a)) /\ Rising(Carried(ts)) /\ Numbers(Carried(a)) \prec Numbers(Carried(ts))
      BY <1>3, NumbersOfConcat
    <2>2. Numbers(Carried(a)) \prec {}
      BY DEF \prec
    <2> QED
      BY <1>2, <2>1, <2>2
  <1>5. ASSUME \A i \in DOMAIN a : a[i].do # "on_message", NEW i \in DOMAIN (a \o ts)
        PROVE  (a \o ts)[i].do # "on_message"
    <2>1. /\ Len(a \o ts) = Len(a) + Len(ts) /\ i \in 1 .. Len(a) + Len(ts)
          /\ (a \o ts)[i] = IF i <= Len(a) THEN a[i] ELSE ts[i - Len(a)]
          /\ DOMAIN a = 1 .. Len(a) /\ Len(a) \in Nat /\ Len(ts) \in Nat
      BY <1>2, <1>5, ConcatProperties
    <2>2. CASE i <= Len(a)
      BY <2>1, <2>2, <1>5
    <2>3. CASE ~(i <= Len(a))
      <3>1. i - Len(a) \in 1 .. Len(ts)
        BY <2>1, <2>3
      <3>2. ts[i - Len(a)] \in Chore
        BY <3>1
      <3> QED
        BY <2>1, <2>3, <3>2, TasksTyped
    <2> QED
      BY <2>2, <2>3
  <1> QED
    BY <1>1, <1>4, <1>5 DEF a

\* What is sent goes up with the connections, if only what was waiting is sent, in
\* front of the rest, on the last connection.
LEMMA OrderKept ==
    ASSUME SyncTyped, PageTyped, SyncTyped', PageTyped', Queued, Ordered,
           NEW h, h \subseteq Waiting, h \prec Waiting', h # {} => ws' = ws,
           NEW x \in Link, x = ws.l, Sent(x)' \subseteq Sent(x) \cup h,
           \A l \in Link \ {x} : Sent(l)' \subseteq Sent(l),
           Waiting' \subseteq Waiting, ws.l <= ws'.l, posted' = posted
    PROVE  Ordered'
  <1>1. /\ ws.l \in Link /\ ws'.l \in Link /\ Waiting \subseteq Nat
        /\ \A l \in Link : Sent(l) \subseteq Nat
        /\ \A l \in Link : Sent(l)' \subseteq Sent(l) \/ (l = x /\ Sent(l)' \subseteq Sent(l) \cup h)
    BY PlacesTyped DEF PageTyped
  <1> USE LinksAreNumbers
  <1>2. ASSUME NEW l \in Link, Sent(l)' # {}
        PROVE  l <= ws'.l
    <2>1. Sent(l) # {} \/ l = ws.l
      BY <1>1, <1>2
    <2>2. l <= ws.l
      BY <1>1, <2>1 DEF Ordered
    <2> QED
      BY <1>1, <2>2
  <1>3. ASSUME NEW l \in Link, NEW n \in Sent(l)'
        PROVE  n <= posted'
    <2>1. n \in Sent(l) \/ n \in h
      BY <1>1, <1>3
    <2> QED
      BY <2>1 DEF Ordered, Queued
  <1>4. ASSUME NEW l \in Link
        PROVE  Sent(l)' \prec Waiting'
    <2> SUFFICES ASSUME NEW a \in Sent(l)', NEW b \in Waiting'
                 PROVE  a < b
      BY DEF \prec
    <2>1. a \in Sent(l) \/ a \in h
      BY <1>1
    <2> QED
      BY <2>1 DEF Ordered, \prec
  <1>5. ASSUME NEW l \in Link, NEW k \in Link, l < k
        PROVE  Sent(l)' \prec Sent(k)'
    <2> SUFFICES ASSUME NEW a \in Sent(l)', NEW b \in Sent(k)'
                 PROVE  a < b
      BY DEF \prec
    <2>1. CASE a \in Sent(l) /\ b \in Sent(k)
      BY <2>1, <1>5 DEF Ordered, \prec
    <2>2. CASE a \notin Sent(l)
      <3>1. a \in h /\ l = ws.l
        BY <2>2, <1>1
      <3>2. k <= ws'.l /\ ws'.l = ws.l
        BY <3>1, <1>2
      <3> QED
        BY <3>1, <3>2, <1>1, <1>5
    <2>3. CASE a \in Sent(l) /\ b \notin Sent(k)
      <3>1. b \in Waiting
        BY <2>3, <1>1
      <3> QED
        BY <2>3, <3>1 DEF Ordered, \prec
    <2> QED
      BY <2>1, <2>2, <2>3
  <1> QED
    BY <1>2, <1>3, <1>4, <1>5 DEF Ordered

\* Steps that send nothing and receive nothing
LEMMA NothingSent ==
    ASSUME SyncTyped, PageTyped, SyncTyped', PageTyped', Queued, Queued', Flows, Ordered, Arrived,
           received' = received, posted' = posted, ws.l <= ws'.l, Waiting' \subseteq Waiting,
           \A l \in Link : Dwindles(l)
    PROVE  (Flows /\ Ordered /\ Arrived)'
  <1>1. \A l \in Link : Got(l)' = Got(l)
    BY DEF Got
  <1>2. \A l \in Link : Sent(l)' \subseteq Sent(l)
    BY <1>1 DEF Sent, Dwindles
  <1>3. Flows'
    BY <1>1 DEF Flows, Dwindles, \prec
  <1>4. Ordered'
    <2>1. {} \prec Waiting'
      BY DEF \prec
    <2>2. PICK x \in Link : x = ws.l
      BY PlacesTyped
    <2>3. {} \subseteq Waiting /\ Sent(x)' \subseteq Sent(x) \cup {}
      BY <1>2
    <2> QED
      BY <1>2, <2>1, <2>2, <2>3, OrderKept
  <1>5. Arrived'
    BY DEF Arrived
  <1> QED
    BY <1>3, <1>4, <1>5

-----------------------------------------------------------------------------
(* The steps of the page.                                                  *)

\* A step that only adds to the tasks, or takes one first that carries nothing.
LEMMA ChoresKeep ==
    ASSUME SyncTyped, PageTyped, Queued,
           NEW q \in Page, AddsChores(q, page'), queue' = queue, posted' = posted,
           Rising(Carried(q.tasks)), Numbers(Carried(q.tasks)) \subseteq Numbers(Carried(page.tasks)),
           \A i \in DOMAIN q.tasks : q.tasks[i].do # "on_message"
    PROVE  /\ Queued' /\ Waiting' \subseteq Waiting /\ page' \in Page
           /\ \A i \in DOMAIN page'.tasks : page'.tasks[i].do # "on_message"
  <1>1. /\ page' \in Page
        /\ Numbers(Carried(page'.tasks)) = Numbers(Carried(q.tasks))
        /\ Rising(Carried(page'.tasks))
        /\ \A i \in DOMAIN page'.tasks : page'.tasks[i].do # "on_message"
    BY AddedCarry DEF AddsChores
  <1>2. Waiting' \subseteq Waiting
    BY <1>1 DEF Waiting
  <1>3. Queued'
    BY <1>1, <1>2 DEF Queued, \prec
  <1> QED
    BY <1>1, <1>2, <1>3

LEMMA IdleCarries ==
    ASSUME PageTyped, Idle
    PROVE  /\ page \in Page /\ page.tasks = <<>> /\ Carried(page.tasks) = <<>>
           /\ Numbers(Carried(page.tasks)) = {} /\ Rising(Carried(page.tasks))
           /\ \A i \in DOMAIN page.tasks : page.tasks[i].do # "on_message"
  <1>1. page \in Page /\ page.tasks = <<>> /\ DOMAIN <<>> = {}
    BY DEF PageTyped, Idle
  <1>2. Carried(<<>>) = <<>>
    BY <1>1 DEF Carried
  <1> QED
    BY <1>1, <1>2 DEF Numbers, Rising

\* Steps that leave the server alone, but for the wires
LEMMA OnMessageKeeps ==
    ASSUME Inv, OnMessage
    PROVE  Inv'
  <1> DEFINE l == ws.l
             e == ServerEnd(l)
             m == Head(wire[e])
  <1> USE DEF Inv
  <1>1. Idle /\ wire[e] # <<>> /\ l \in Link /\ e \in End
    BY EndsTyped DEF OnMessage, PageTyped
  <1>2. /\ page' = Comes(page, m) /\ wire' = [wire EXCEPT ![e] = Tail(@)]
        /\ UNCHANGED <<up, lsn, sub, told, hash, cycle, due, source, cur, calls, lost,
                       ws, queue, posted, received>>
    BY DEF OnMessage
  <1>3. wire[e] \in Seq(Notice) /\ wire \in [End -> Seq(Message)]
    BY <1>1 DEF SyncTyped, State, ServerState
  <1>4. m \in Notice /\ Tail(wire[e]) \in Seq(Notice)
    BY <1>1, <1>3, FirstAndRest
  <1> HIDE DEF m
  <1>5. /\ wire'[e] = Tail(wire[e]) /\ wire' \in [End -> Seq(Message)]
        /\ \A f \in End \ {e} : wire'[f] = wire[f]
    <2>1. Tail(wire[e]) \in Seq(Message)
      BY <1>4, NoticesHaveNone
    <2> HIDE DEF e
    <2> QED
      BY <2>1, <1>1, <1>2, <1>3
  <1>6. SyncTyped'
    <2>1. ASSUME NEW k \in Link
          PROVE  wire'[ServerEnd(k)] \in Seq(Notice)
      <3>1. CASE k = l
        BY <3>1, <1>4, <1>5
      <3>2. CASE k # l
        <4>1. ServerEnd(k) \in End \ {e} /\ wire[ServerEnd(k)] \in Seq(Notice)
          BY <1>1, <3>2, EndsTyped DEF SyncTyped
        <4> QED
          BY <4>1, <1>5
      <3> QED
        BY <3>1, <3>2
    <2> QED
      BY <2>1, <1>2, <1>5, OnlyWire
  <1>7. \A k \in Link : Dwindles(k)
    <2>1. \A k \in Link : <<k, "client">> \in End \ {e}
      BY <1>1, EndsTyped
    <2> QED
      BY <2>1, <1>5, RestDwindles DEF Out
  <1>8. /\ Queued' /\ Waiting' \subseteq Waiting /\ page' \in Page
        /\ \A i \in DOMAIN page'.tasks : page'.tasks[i].do # "on_message"
    <2>1. page \in Page /\ AddsChores(page, page')
      BY <1>2, <1>4, ComesAdds DEF PageTyped
    <2> QED
      BY <2>1, <1>1, <1>2, IdleCarries, ChoresKeep
  <1>9. PageTyped' /\ PageSound'
    BY <1>2, <1>8 DEF PageTyped, PageSound
  <1>10. ws.l <= ws'.l
    BY <1>1, <1>2, LinksAreNumbers
  <1> QED
    BY <1>2, <1>6, <1>7, <1>8, <1>9, <1>10, NothingSent

LEMMA PageCallsKeep ==
    ASSUME Inv, PageCalls
    PROVE  Inv'
  <1> USE DEF Inv
  <1>1. Idle /\ ws.l \in Link
    BY DEF PageCalls, PageTyped
  <1>2. /\ UNCHANGED <<up, wire, lsn, sub, told, hash, cycle, due, source, cur, lost,
                       ws, queue, posted, received>>
        /\ \E c \in Chan : page' = Joins(page, c, "listener") \/ page' = Leaves(page, c, "listener")
    BY DEF PageCalls
  <1>3. SyncTyped'
    BY <1>2 DEF SyncTyped, State
  <1>4. \A k \in Link : Dwindles(k)
    BY <1>2, RestDwindles DEF Out
  <1>5. /\ Queued' /\ Waiting' \subseteq Waiting /\ page' \in Page
        /\ \A i \in DOMAIN page'.tasks : page'.tasks[i].do # "on_message"
    <2>1. page \in Page /\ AddsChores(page, page')
      BY <1>2, SubscribingAdds, {} \in SUBSET Chan DEF PageTyped
    <2> QED
      BY <2>1, <1>1, <1>2, IdleCarries, ChoresKeep
  <1>6. PageTyped' /\ PageSound'
    BY <1>2, <1>5 DEF PageTyped, PageSound
  <1>7. ws.l <= ws'.l
    BY <1>1, <1>2, LinksAreNumbers
  <1> QED
    BY <1>2, <1>3, <1>4, <1>5, <1>6, <1>7, NothingSent

LEMMA CloseAndReconnectKeep ==
    ASSUME Inv, OnClose \/ Reconnect
    PROVE  Inv'
  <1> USE DEF Inv
  <1>1. UNCHANGED <<up, wire, lsn, sub, told, hash, cycle, due, source, cur, page, queue, posted, received>>
    BY DEF OnClose, Reconnect, vars
  <1>2. /\ ws' \in [l : Link, st : {"connecting", "open", "closed"}]
        /\ ws.l <= ws'.l /\ ws'.st # "open"
        /\ ws'.st = "closed" => ws'.l + 1 \in Link
    <2>1. ws \in [l : Link, st : {"connecting", "open", "closed"}] /\ ws.l \in Link /\ ws.l \in Int
      BY LinksAreNumbers DEF PageTyped
    <2>2. CASE OnClose
      <3>1. ws' = [ws EXCEPT !.st = "closed"] /\ ws.l + 1 \in Link
        BY <2>2 DEF OnClose
      <3>2. ws'.l = ws.l /\ ws'.st = "closed"
        BY <2>1, <3>1
      <3> QED
        BY <2>1, <3>1, <3>2
    <2>3. CASE Reconnect
      <3>1. ws' = [l |-> ws.l + 1, st |-> "connecting"] /\ ws.l + 1 \in Link
        BY <2>3 DEF Reconnect, Connecting, PageSound
      <3>2. ws'.l = ws.l + 1 /\ ws'.st = "connecting"
        BY <3>1
      <3> QED
        BY <2>1, <3>1, <3>2
    <2> QED
      BY <2>2, <2>3
  <1>3. SyncTyped' /\ \A k \in Link : Dwindles(k)
    BY <1>1, RestDwindles DEF SyncTyped, State, Out
  <1>4. PageTyped' /\ PageSound'
    BY <1>1, <1>2 DEF PageTyped, PageSound
  <1>5. Queued' /\ Waiting' \subseteq Waiting
    BY <1>1 DEF Queued, Waiting
  <1> QED
    BY <1>1, <1>2, <1>3, <1>4, <1>5, NothingSent

\* What the queue held is sent before anything else, in its order.
LEMMA OnOpenKeeps ==
    ASSUME Inv, OnOpen
    PROVE  Inv'
  <1> USE DEF Inv
  <1> DEFINE ts == [i \in DOMAIN queue |-> [do |-> "send", m |-> queue[i]]]
  <1>1. Idle /\ ws.l \in Link /\ Connect(ws.l) /\ queue \in Seq(Message)
    BY DEF OnOpen, PageTyped
  <1>2. /\ ws' = [ws EXCEPT !.st = "open"] /\ page' = Sends(page, queue) /\ queue' = <<>>
        /\ UNCHANGED <<posted, received>>
    BY DEF OnOpen
  <1>3. SyncTyped' /\ \A k \in Link : Dwindles(k)
    BY <1>1, ConnectKeeps
  <1>4. ts \in Seq(Task) /\ Carried(ts) = queue /\ \A i \in DOMAIN ts : ts[i].do = "send"
    BY <1>1, CarriedSends
  <1>5. page' = [page EXCEPT !.tasks = @ \o ts] /\ page.tasks = <<>> /\ page \in Page
    BY <1>1, <1>2, IdleCarries DEF Sends
  <1> HIDE DEF ts
  <1>6. page' \in Page /\ page'.tasks = ts
    <2>1. <<>> \o ts = ts
      BY <1>4, ConcatEmptySeq
    <2> QED
      BY <2>1, <1>4, <1>5 DEF Page
  <1>7. PageTyped' /\ PageSound'
    <2>1. <<>> \in Seq(Message)
      OBVIOUS
    <2> QED
      BY <2>1, <1>2, <1>4, <1>6 DEF PageTyped, PageSound
  <1>8. Queued' /\ Waiting' \subseteq Waiting
    <2>1. Numbers(queue') = {} /\ Rising(queue')
      BY <1>2 DEF Numbers, Rising
    <2>2. Waiting' \subseteq Waiting
      BY <2>1, <1>4, <1>6 DEF Waiting
    <2> QED
      BY <2>1, <2>2, <1>2, <1>4, <1>6 DEF Queued, \prec
  <1>9. ws.l <= ws'.l
    BY <1>1, <1>2, LinksAreNumbers DEF PageTyped
  <1> QED
    BY <1>2, <1>3, <1>7, <1>8, <1>9, NothingSent

LEMMA PostKeeps ==
    ASSUME Inv, NEW c \in Chan, Post(c)
    PROVE  Inv'
  <1> USE DEF Inv
  <1> DEFINE n == posted + 1
             m == Msg(c, n)
             x == [do |-> "on_message", m |-> m]
  <1>1. Idle /\ posted \in Nat /\ posted' = n /\ n \in Nat
    BY DEF Post, PageTyped
  <1>2. /\ page' = [page EXCEPT !.tasks = Append(@, x)]
        /\ UNCHANGED <<up, wire, lsn, sub, told, hash, cycle, due, source, cur, ws, queue, received>>
    BY DEF Post, vars
  <1>3. m \in Posting /\ m.t = "msg" /\ m.n = n
    BY <1>1 DEF Msg, Posting
  <1> HIDE DEF m, n
  <1>4. x \in Task /\ Burden(x) = m
    BY <1>3, TasksTyped DEF Burden
  <1>5. page' \in Page /\ page'.tasks = <<x>>
    <2>1. page \in Page /\ page.tasks = <<>>
      BY <1>1, IdleCarries
    <2> HIDE DEF x
    <2>2. Append(<<>>, x) = <<x>> /\ <<x>> \in Seq(Task)
      BY <1>4
    <2> QED
      BY <2>1, <2>2, <1>2 DEF Page
  <1> HIDE DEF x
  <1>6. Carried(<<x>>) = <<m>>
    <2>1. DOMAIN <<x>> = {1} /\ <<x>>[1] = x
      OBVIOUS
    <2>2. DOMAIN <<m>> = {1} /\ <<m>>[1] = m
      OBVIOUS
    <2>3. Carried(<<x>>) = [i \in {1} |-> m]
      BY <2>1, <1>4 DEF Carried
    <2> QED
      BY <2>2, <2>3
  <1>7. Numbers(Carried(page'.tasks)) = {n} /\ Rising(Carried(page'.tasks))
    <2>1. m \in Message
      BY <1>3 DEF Message
    <2> QED
      BY <2>1, <1>3, <1>5, <1>6, OneNumber
  <1>8. Waiting \subseteq Nat /\ Waiting' \subseteq Waiting \cup {n} /\ Numbers(queue) \subseteq Waiting
    BY <1>2, <1>7, PlacesTyped DEF Waiting
  <1>9. \A k \in Waiting : k < n
    BY <1>1, <1>8 DEF Queued, n
  <1>10. Queued'
    <2>1. \A k \in Waiting' : k <= posted'
      BY <1>1, <1>8, <1>9
    <2>2. Numbers(queue') \prec Numbers(Carried(page'.tasks))
      BY <1>2, <1>7, <1>8, <1>9 DEF \prec
    <2> QED
      BY <2>1, <2>2, <1>2, <1>7 DEF Queued
  <1>11. \A l \in Link : Out(l)' = Out(l) /\ Got(l)' = Got(l) /\ Sent(l)' = Sent(l) /\ Sent(l) \subseteq Nat
    BY <1>2, PlacesTyped DEF Out, Got, Sent
  <1>12. Ordered'
    <2>1. \A l \in Link : \A k \in Sent(l) : k <= posted' /\ k < n
      BY <1>1, <1>11 DEF Ordered, n
    <2>2. \A l \in Link : Sent(l)' \prec Waiting'
      BY <2>1, <1>8, <1>11 DEF Ordered, \prec
    <2> QED
      BY <2>1, <2>2, <1>2, <1>11 DEF Ordered, \prec
  <1>13. Flows' /\ Arrived'
    BY <1>2, <1>11 DEF Flows, Arrived
  <1>14. SyncTyped'
    BY <1>2 DEF SyncTyped, State
  <1>15. PageTyped' /\ PageSound'
    <2>1. Len(<<x>>) = 1
      OBVIOUS
    <2> QED
      BY <2>1, <1>1, <1>2, <1>5 DEF PageTyped, PageSound
  <1> QED
    BY <1>10, <1>12, <1>13, <1>14, <1>15

-----------------------------------------------------------------------------
(* Tasks, and what the server takes.                                       *)

\* The first task is gone: what it carries was before the rest.
LEMMA FirstTask ==
    ASSUME SyncTyped, PageTyped, Queued, ~Idle
    PROVE  LET x == Head(page.tasks)
               p == [page EXCEPT !.tasks = Tail(@)]
           IN /\ x \in Task /\ p \in Page /\ p.tasks = Tail(page.tasks)
              /\ Burden(x) \in Message
              /\ Numbers(Carried(page.tasks)) = Numbers(<<Burden(x)>>) \cup Numbers(Carried(p.tasks))
              /\ Rising(Carried(p.tasks))
              /\ Numbers(<<Burden(x)>>) \prec Numbers(Carried(p.tasks))
  <1> DEFINE ts == page.tasks
             x == Head(ts)
             p == [page EXCEPT !.tasks = Tail(@)]
  <1>1. page \in Page /\ ts \in Seq(Task) /\ ts # <<>>
    BY DEF PageTyped, Page, Idle
  <1>2. p.tasks = Tail(ts)
    BY <1>1 DEF Page
  <1>3. x \in Task /\ Tail(ts) \in Seq(Task) /\ Carried(ts) = <<Burden(x)>> \o Carried(Tail(ts))
    BY <1>1, CarriedRest
  <1>4. p \in Page
    BY <1>1, <1>3 DEF Page
  <1>5. Burden(x) \in Message /\ <<Burden(x)>> \in Seq(Message) /\ Carried(Tail(ts)) \in Seq(Message)
    BY <1>3, TasksTyped, CarriedTyped, OneNumber
  <1>6. Rising(Carried(ts))
    BY DEF Queued
  <1> HIDE DEF x, p, ts
  <1>7. /\ Numbers(Carried(ts)) = Numbers(<<Burden(x)>>) \cup Numbers(Carried(Tail(ts)))
        /\ Rising(Carried(Tail(ts))) /\ Numbers(<<Burden(x)>>) \prec Numbers(Carried(Tail(ts)))
    BY <1>3, <1>5, <1>6, NumbersOfConcat
  <1> QED
    BY <1>2, <1>3, <1>4, <1>5, <1>7 DEF x, p, ts

\* A message that is handed to the bridge is never behind another task.
LEMMA RestIsPlain ==
    ASSUME PageTyped, PageSound, ~Idle
    PROVE  \A i \in DOMAIN Tail(page.tasks) : Tail(page.tasks)[i].do # "on_message"
  <1> DEFINE ts == page.tasks
             r == Tail(ts)
  <1>1. /\ ts \in Seq(Task) /\ ts # <<>>
        /\ Len(Tail(ts)) = Len(ts) - 1 /\ Len(ts) \in Nat \ {0}
        /\ \A i \in 1 .. Len(Tail(ts)) : Tail(ts)[i] = ts[i + 1]
        /\ Tail(ts) \in Seq(Task)
    BY HeadTailProperties, EmptySeq DEF Idle, PageTyped, Page
  <1> HIDE DEF ts, r
  <1>2. \A i \in DOMAIN ts : ts[i].do = "on_message" => Len(ts) = 1
    BY DEF PageSound, ts
  <1>3. /\ DOMAIN r = 1 .. Len(r) /\ DOMAIN ts = 1 .. Len(ts) /\ Len(r) = Len(ts) - 1
        /\ Len(ts) \in Nat \ {0}
        /\ \A i \in 1 .. Len(r) : r[i] = ts[i + 1]
    BY <1>1 DEF r
  <1>4. ASSUME NEW i \in DOMAIN r, r[i].do = "on_message"
        PROVE  FALSE
    <2>1. i + 1 \in DOMAIN ts /\ ts[i + 1].do = "on_message" /\ Len(ts) # 1
      BY <1>3, <1>4
    <2> QED
      BY <2>1, <1>2
  <1> QED
    BY <1>4 DEF r, ts

\* Monitors are called.
LEMMA MonitorTaskKeeps ==
    ASSUME Inv, RunTask, Head(page.tasks).do = "monitors"
    PROVE  Inv'
  <1> USE DEF Inv
  <1> DEFINE x == Head(page.tasks)
             p == [page EXCEPT !.tasks = Tail(@)]
  <1>1. /\ ~Idle /\ page' = PageMonitor(p)
        /\ UNCHANGED <<up, wire, lsn, sub, told, hash, cycle, due, source, cur, ws, queue, posted, received>>
    BY DEF RunTask
  <1>2. /\ x \in Task /\ p \in Page /\ p.tasks = Tail(page.tasks) /\ Burden(x) \in Message
        /\ Numbers(Carried(page.tasks)) = Numbers(<<Burden(x)>>) \cup Numbers(Carried(p.tasks))
        /\ Rising(Carried(p.tasks))
    BY <1>1, FirstTask
  <1>3. \A i \in DOMAIN p.tasks : p.tasks[i].do # "on_message"
    BY <1>1, <1>2, RestIsPlain
  <1> HIDE DEF p, x
  <1>4. /\ Queued' /\ Waiting' \subseteq Waiting /\ page' \in Page
        /\ \A i \in DOMAIN page'.tasks : page'.tasks[i].do # "on_message"
    <2>1. AddsChores(p, page')
      BY <1>1, <1>2, MonitorAdds
    <2> QED
      BY <2>1, <1>1, <1>2, <1>3, ChoresKeep
  <1>5. SyncTyped' /\ \A k \in Link : Dwindles(k)
    BY <1>1, RestDwindles DEF SyncTyped, State, Out
  <1>6. PageTyped' /\ PageSound'
    BY <1>1, <1>4 DEF PageTyped, PageSound
  <1>7. ws.l <= ws'.l
    BY <1>1, LinksAreNumbers DEF PageTyped
  <1> QED
    BY <1>1, <1>4, <1>5, <1>6, <1>7, NothingSent

\* The bridge gets a message, and sends it.
LEMMA MessageTaskKeeps ==
    ASSUME Inv, RunTask, Head(page.tasks).do = "on_message"
    PROVE  Inv'
  <1> USE DEF Inv
  <1> DEFINE x == Head(page.tasks)
             p == [page EXCEPT !.tasks = Tail(@)]
             y == [do |-> "send", m |-> x.m]
  <1>1. /\ ~Idle /\ page' = Sends(p, <<x.m>>)
        /\ UNCHANGED <<up, wire, lsn, sub, told, hash, cycle, due, source, cur, ws, queue, posted, received>>
    BY DEF RunTask
  <1>2. /\ x \in Task /\ p \in Page /\ p.tasks = Tail(page.tasks)
        /\ Numbers(Carried(page.tasks)) = Numbers(<<Burden(x)>>) \cup Numbers(Carried(p.tasks))
    BY <1>1, FirstTask
  <1>3. x.m \in Posting /\ Burden(x) = x.m /\ x.do = "on_message"
    BY <1>2, TasksTyped DEF Burden
  <1>4. p.tasks = <<>>
    <2>1. page.tasks \in Seq(Task) /\ page.tasks # <<>> /\ Head(page.tasks) = page.tasks[1]
      BY <1>1 DEF Idle, PageTyped, Page
    <2>2. 1 \in DOMAIN page.tasks
      <3>1. Len(page.tasks) \in Nat \ {0} /\ DOMAIN page.tasks = 1 .. Len(page.tasks)
        BY <2>1, EmptySeq
      <3> QED
        BY <3>1
    <2>3. Len(page.tasks) = 1
      BY <2>1, <2>2, <1>3 DEF PageSound
    <2>4. Len(Tail(page.tasks)) = 0 /\ Tail(page.tasks) \in Seq(Task)
      BY <2>1, <2>3, HeadTailProperties
    <2>5. \A r \in Seq(Task) : Len(r) = 0 => r = <<>>
      OBVIOUS
    <2>6. Tail(page.tasks) = <<>>
      BY <2>4, <2>5, Zenon
    <2> HIDE DEF p
    <2> QED
      BY <2>6, <1>2, Zenon
  <1> HIDE DEF p, x
  <1>5. y \in Task /\ Burden(y) = x.m /\ y.do = "send"
    BY <1>3, TasksTyped DEF Burden
  <1>6. page' \in Page /\ page'.tasks = <<y>>
    <2>1. DOMAIN <<x.m>> = {1} /\ <<x.m>>[1] = x.m /\ DOMAIN <<y>> = {1} /\ <<y>>[1] = y
      OBVIOUS
    <2>2. [i \in DOMAIN <<x.m>> |-> [do |-> "send", m |-> <<x.m>>[i]]] = <<y>>
      <3> DEFINE a == [i \in DOMAIN <<x.m>> |-> [do |-> "send", m |-> <<x.m>>[i]]]
      <3>1. DOMAIN a = {1} /\ a[1] = y
        BY <2>1
      <3>2. a = [i \in {1} |-> y]
        BY <2>1
      <3>3. <<y>> = [i \in {1} |-> y]
        BY <2>1
      <3> QED
        BY <3>2, <3>3
    <2>3. page' = [p EXCEPT !.tasks = @ \o <<y>>]
      BY <1>1, <2>2 DEF Sends
    <2> HIDE DEF y
    <2>4. <<>> \o <<y>> = <<y>> /\ <<y>> \in Seq(Task)
      BY <1>5, ConcatEmptySeq
    <2> QED
      BY <2>3, <2>4, <1>2, <1>4 DEF Page
  <1> HIDE DEF y
  <1>7. Carried(<<y>>) = <<x.m>>
    <2>1. DOMAIN <<y>> = {1} /\ <<y>>[1] = y
      OBVIOUS
    <2>2. DOMAIN <<x.m>> = {1} /\ <<x.m>>[1] = x.m
      OBVIOUS
    <2>3. Carried(<<y>>) = [i \in {1} |-> x.m]
      BY <2>1, <1>5 DEF Carried
    <2> QED
      BY <2>2, <2>3
  <1>8. /\ Numbers(Carried(page'.tasks)) \subseteq Numbers(Carried(page.tasks))
        /\ Rising(Carried(page'.tasks))
    <2>1. x.m \in Message
      BY <1>3 DEF Message
    <2> QED
      BY <2>1, <1>2, <1>3, <1>6, <1>7, OneNumber
  <1>9. Queued' /\ Waiting' \subseteq Waiting
    <2>1. Waiting' \subseteq Waiting
      BY <1>1, <1>8 DEF Waiting
    <2> QED
      BY <2>1, <1>1, <1>8 DEF Queued, \prec
  <1>10. SyncTyped' /\ \A k \in Link : Dwindles(k)
    BY <1>1, RestDwindles DEF SyncTyped, State, Out
  <1>11. PageTyped' /\ PageSound'
    <2>1. Len(<<y>>) = 1
      OBVIOUS
    <2> QED
      BY <2>1, <1>1, <1>6 DEF PageTyped, PageSound
  <1>12. ws.l <= ws'.l
    BY <1>1, LinksAreNumbers DEF PageTyped
  <1> QED
    BY <1>1, <1>9, <1>10, <1>11, <1>12, NothingSent

\* A message or an update is sent, put into the queue, or lost with a connection
\* that is broken already.
LEMMA SendTaskKeeps ==
    ASSUME Inv, RunTask, Head(page.tasks).do = "send"
    PROVE  Inv'
  <1> USE DEF Inv
  <1> DEFINE x == Head(page.tasks)
             p == [page EXCEPT !.tasks = Tail(@)]
             l == ws.l
             c == <<l, "client">>
             m == x.m
             h == Numbers(<<m>>)
             rest == Numbers(Carried(p.tasks))
  <1>1. /\ ~Idle /\ page' = p /\ l \in Link /\ c \in End
        /\ queue' = IF ws.st # "open" THEN Append(queue, m) ELSE queue
        /\ wire' = IF ws.st = "open" /\ up[l] THEN [wire EXCEPT ![c] = Append(@, m)] ELSE wire
        /\ UNCHANGED <<up, lsn, sub, told, hash, cycle, due, source, cur, ws, posted, received>>
    BY EndsTyped DEF RunTask, PageTyped
  <1>2. /\ x \in Task /\ p \in Page /\ p.tasks = Tail(page.tasks) /\ Burden(x) = m /\ m \in Message
        /\ Numbers(Carried(page.tasks)) = h \cup rest
        /\ Rising(Carried(p.tasks)) /\ h \prec rest
    <2>1. Burden(x) = m
      BY DEF Burden
    <2> QED
      BY <2>1, <1>1, FirstTask
  <1>3. \A i \in DOMAIN p.tasks : p.tasks[i].do # "on_message"
    BY <1>1, <1>2, RestIsPlain
  <1> HIDE DEF p, x, m
  <1>4. /\ queue \in Seq(Message) /\ Out(l) \in Seq(Message)
        /\ <<m>> \in Seq(Message) /\ Rising(<<m>>)
        /\ Waiting \subseteq Nat /\ Sent(l) \subseteq Nat
    BY <1>1, <1>2, PlacesTyped, OneNumber
  <1>5. /\ h \subseteq Waiting /\ rest \subseteq Waiting /\ Numbers(queue) \subseteq Waiting
        /\ Numbers(queue) \prec h /\ Numbers(queue) \prec rest
        /\ Sent(l) \prec h
    BY <1>1, <1>2 DEF Waiting, Queued, Ordered, \prec
  <1> HIDE DEF h, rest
  <1>6. \A s \in Seq(Message) : Append(s, m) = s \o <<m>> /\ Append(s, m) \in Seq(Message)
    BY <1>2, AppendIsConcat, AppendProperties
  <1>7. ws' = ws /\ ws.l <= ws'.l
    BY <1>1, LinksAreNumbers
  <1>8. CASE ws.st # "open"
    <2>1. queue' = queue \o <<m>> /\ queue' \in Seq(Message) /\ wire' = wire
      BY <1>1, <1>4, <1>6, <1>8
    <2>2. Numbers(queue') = Numbers(queue) \cup h /\ Rising(queue')
      <3>1. Rising(queue)
        BY DEF Queued
      <3> QED
        BY <3>1, <2>1, <1>4, <1>5, NumbersOfConcat DEF h
    <2>3. Waiting' \subseteq Waiting
      BY <2>2, <1>1, <1>5 DEF Waiting, rest
    <2>4. Queued'
      <3>1. Numbers(queue') \prec rest
        BY <2>2, <1>2, <1>5 DEF \prec
      <3> QED
        BY <3>1, <2>2, <2>3, <1>1, <1>2 DEF Queued, rest
    <2>5. SyncTyped' /\ \A k \in Link : Dwindles(k)
      BY <2>1, <1>1, RestDwindles DEF SyncTyped, State, Out
    <2>6. PageTyped' /\ PageSound'
      BY <2>1, <1>1, <1>2, <1>3, <1>8 DEF PageTyped, PageSound
    <2> QED
      BY <2>3, <2>4, <2>5, <2>6, <1>1, <1>7, NothingSent
  <1>9. ASSUME ws.st = "open"
        PROVE  Queued' /\ Waiting' = rest /\ PageTyped' /\ PageSound'
    <2>1. queue' = <<>> /\ queue = <<>>
      BY <1>1, <1>9 DEF PageSound
    <2>2. Numbers(queue') = {} /\ Rising(queue')
      BY <2>1 DEF Numbers, Rising
    <2>3. Waiting' = rest
      BY <2>2, <1>1 DEF Waiting, rest
    <2>4. Queued'
      BY <2>2, <2>3, <1>1, <1>2, <1>5 DEF Queued, rest, \prec
    <2>5. PageTyped' /\ PageSound'
      BY <2>1, <1>1, <1>2, <1>3, <1>9 DEF PageTyped, PageSound
    <2> QED
      BY <2>3, <2>4, <2>5
  <1>10. CASE ws.st = "open" /\ ~up[l]
    <2>1. wire' = wire
      BY <1>1, <1>10
    <2>2. SyncTyped' /\ \A k \in Link : Dwindles(k)
      BY <2>1, <1>1, RestDwindles DEF SyncTyped, State, Out
    <2>3. Waiting' \subseteq Waiting
      BY <1>5, <1>9, <1>10
    <2> QED
      BY <2>2, <2>3, <1>1, <1>7, <1>9, <1>10, NothingSent
  <1>11. CASE ws.st = "open" /\ up[l]
    <2>1. wire \in [End -> Seq(Message)] /\ Out(l) = wire[c]
      BY DEF SyncTyped, State, ServerState, Out
    <2>2. Append(wire[c], m) \in Seq(Message) /\ Append(wire[c], m) = wire[c] \o <<m>>
      BY <2>1, <1>1, <1>6
    <2>3. wire' = [wire EXCEPT ![c] = wire[c] \o <<m>>]
      BY <2>2, <1>1, <1>11
    <2>4. /\ wire' \in [End -> Seq(Message)] /\ wire'[c] = wire[c] \o <<m>>
          /\ \A f \in End \ {c} : wire'[f] = wire[f]
      <3> HIDE DEF c
      <3> QED
        BY <2>1, <2>2, <2>3, <1>1
    <2> PICK y \in Link : y = l
      BY <1>1
    <2>5. Out(y)' = Out(y) \o <<m>> /\ \A k \in Link \ {y} : Out(k)' = Out(k)
      <3>1. \A k \in Link \ {y} : <<k, "client">> \in End \ {c}
        BY EndsTyped
      <3> QED
        BY <3>1, <2>4 DEF Out
    <2>6. SyncTyped'
      <3>1. \A k \in Link : ServerEnd(k) \in End \ {c}
        BY <1>1, EndsTyped
      <3>2. \A k \in Link : wire'[ServerEnd(k)] \in Seq(Notice)
        BY <3>1, <2>4 DEF SyncTyped
      <3> QED
        BY <3>2, <2>4, <1>1, OnlyWire
    <2>7. /\ Numbers(Out(y)') = Numbers(Out(y)) \cup h
          /\ Rising(Out(y)')
      <3>1. Rising(Out(y)) /\ Numbers(Out(y)) \prec h
        BY <1>5 DEF Flows, Sent, \prec
      <3>2. Out(y) \in Seq(Message)
        BY PlacesTyped
      <3> DEFINE o == Out(y)
      <3>3. /\ Numbers(o \o <<m>>) = Numbers(o) \cup h
            /\ Rising(o \o <<m>>) <=> Rising(o) /\ Rising(<<m>>) /\ Numbers(o) \prec h
        <4> HIDE DEF o
        <4>1. o \in Seq(Message)
          BY <3>2 DEF o
        <4> QED
          BY <4>1, <1>4, NumbersOfConcat DEF h
      <3> QED
        BY <3>1, <3>3, <2>5, <1>4
    <2>8. \A k \in Link : Got(k)' = Got(k)
      BY <1>1 DEF Got
    <2>9. Flows'
      <3>1. Got(y) \prec h
        BY <1>5 DEF Sent, \prec
      <3>2. Got(y)' \prec Numbers(Out(y)')
        BY <3>1, <2>7, <2>8 DEF Flows, \prec
      <3> QED
        BY <3>2, <2>5, <2>7, <2>8 DEF Flows
    <2>10. Ordered'
      <3>1. Sent(y)' \subseteq Sent(y) \cup h
        BY <2>7, <2>8 DEF Sent
      <3>2. \A k \in Link \ {y} : Sent(k)' \subseteq Sent(k)
        BY <2>5, <2>8 DEF Sent
      <3>3. Waiting' \subseteq Waiting /\ h \prec Waiting'
        BY <1>2, <1>5, <1>9, <1>11
      <3> QED
        BY <3>1, <3>2, <3>3, <2>6, <1>1, <1>5, <1>7, <1>9, <1>11, OrderKept
    <2>11. Arrived'
      BY <1>1 DEF Arrived
    <2> QED
      BY <2>6, <2>9, <2>10, <2>11, <1>9, <1>11
  <1> QED
    BY <1>8, <1>10, <1>11

\* A message comes to the server: it is later than all that came over this
\* connection, and earlier than what is still on it.
LEMMA ServerTakesKeeps ==
    ASSUME Inv, NEW l \in Link, ServerTakes(l)
    PROVE  Inv'
  <1> USE DEF Inv
  <1> DEFINE c == <<l, "client">>
             m == Head(Out(l))
             r == <<l, m.n>>
  <1>1. /\ c \in End /\ wire[c] = Out(l) /\ Out(l) # <<>> /\ m.t = "msg"
        /\ wire' = [wire EXCEPT ![c] = Tail(@)]
        /\ received' = received \/ received' = Append(received, r)
        /\ UNCHANGED <<up, lsn, sub, told, hash, cycle, due, source, cur, page, ws, queue, posted>>
    BY EndsTyped DEF ServerTakes, Out
  <1>2. /\ Out(l) \in Seq(Message) /\ wire \in [End -> Seq(Message)]
        /\ Rising(Out(l)) /\ Got(l) \prec Numbers(Out(l))
    BY PlacesTyped DEF SyncTyped, State, ServerState, Flows
  <1>3. m \in Message /\ Tail(Out(l)) \in Seq(Message)
        /\ Numbers(Out(l)) = Numbers(<<m>>) \cup Numbers(Tail(Out(l)))
        /\ Rising(Tail(Out(l))) /\ Numbers(<<m>>) \prec Numbers(Tail(Out(l)))
    BY <1>1, <1>2, FirstAndRest, NumbersOfRest
  <1> HIDE DEF m
  <1>4. Numbers(<<m>>) = {m.n} /\ m.n \in Nat
    BY <1>1, <1>3, OneNumber DEF Message, Notice, Posting
  <1>5. /\ wire' \in [End -> Seq(Message)] /\ wire'[c] = Tail(Out(l))
        /\ \A f \in End \ {c} : wire'[f] = wire[f]
    <2> HIDE DEF c
    <2> QED
      BY <1>1, <1>2, <1>3
  <1>6. Out(l)' = Tail(Out(l)) /\ \A k \in Link \ {l} : Out(k)' = Out(k)
    <2>1. \A k \in Link \ {l} : <<k, "client">> \in End \ {c}
      BY EndsTyped
    <2> QED
      BY <2>1, <1>5 DEF Out
  <1>7. SyncTyped'
    <2>1. \A k \in Link : ServerEnd(k) \in End \ {c}
      BY <1>1, EndsTyped
    <2>2. \A k \in Link : wire'[ServerEnd(k)] \in Seq(Notice)
      BY <2>1, <1>5 DEF SyncTyped
    <2> QED
      BY <2>2, <1>1, <1>5, OnlyWire
  <1>8. /\ received \in Seq(Link \X Nat) /\ received' \in Seq(Link \X Nat)
        /\ DOMAIN received = 1 .. Len(received) /\ Len(received) \in Nat
        /\ \A i \in 1 .. Len(received) : received[i] \in Link \X Nat
    <2>1. received \in Seq(Link \X Nat) /\ r \in Link \X Nat
      BY <1>4 DEF PageTyped
    <2> DEFINE S == Link \X Nat
    <2> HIDE DEF r, S
    <2>2. received \in Seq(S) /\ r \in S
      BY <2>1 DEF S
    <2>3. received' \in Seq(S)
      BY <2>2, <1>1, AppendProperties
    <2>4. DOMAIN received = 1 .. Len(received) /\ Len(received) \in Nat
          /\ \A i \in 1 .. Len(received) : received[i] \in S
      BY <2>2
    <2> QED
      BY <2>2, <2>3, <2>4 DEF S
  <1>9. CASE received' = received
    <2>1. PageTyped' /\ PageSound' /\ Queued' /\ Waiting' \subseteq Waiting
      BY <1>1, <1>9 DEF PageTyped, PageSound, Queued, Waiting
    <2>2. \A k \in Link : Dwindles(k)
      BY <1>1, <1>6, RestDwindles
    <2>3. ws.l <= ws'.l
      BY <1>1, LinksAreNumbers DEF PageTyped
    <2> QED
      BY <2>1, <2>2, <2>3, <1>1, <1>7, <1>9, NothingSent
  <1>10. CASE received' = Append(received, r)
    <2> DEFINE n == Len(received)
    <2>1. /\ DOMAIN received' = 1 .. n + 1 /\ received'[n + 1] = r /\ r[1] = l /\ r[2] = m.n
          /\ \A i \in 1 .. n : received'[i] = received[i]
      <3>1. r \in Link \X Nat /\ r[1] = l /\ r[2] = m.n
        BY <1>4
      <3> HIDE DEF r
      <3>2. Len(received') = n + 1 /\ received'[n + 1] = r /\ \A i \in 1 .. n : received'[i] = received[i]
        BY <3>1, <1>8, <1>10, AppendProperties
      <3> QED
        BY <3>1, <3>2, <1>8
    <2> HIDE DEF n, r
    <2>2. DOMAIN received = 1 .. n /\ n \in Nat
      BY <1>8 DEF n
    <2>3. \A i : i \in 1 .. n + 1 <=> i \in 1 .. n \/ i = n + 1
      BY <2>2
    <2>4. Got(l)' = Got(l) \cup {m.n} /\ \A k \in Link \ {l} : Got(k)' = Got(k)
      <3>1. \A k, z : z \in Got(k) <=> \E i \in 1 .. n : received[i][1] = k /\ z = received[i][2]
        BY <2>2 DEF Got
      <3>2. \A k \in Link : \A z :
              z \in Got(k)' <=> \E i \in 1 .. n + 1 : received'[i][1] = k /\ z = received'[i][2]
        BY <2>1 DEF Got
      <3>3. \A k \in Link : \A z : z \in Got(k)' <=> z \in Got(k) \/ (k = l /\ z = m.n)
        BY <3>1, <3>2, <2>1, <2>3
      <3> QED
        BY <3>3
    <2>5. m.n \in Numbers(Out(l)) /\ \A k \in Link : Sent(k)' \subseteq Sent(k)
      BY <2>4, <1>3, <1>4, <1>6 DEF Sent
    <2>6. Flows'
      <3>1. Rising(Out(l)') /\ Got(l)' \prec Numbers(Out(l)')
        BY <2>4, <1>2, <1>3, <1>4, <1>6 DEF \prec
      <3> QED
        BY <3>1, <2>4, <1>6 DEF Flows
    <2>7. PageTyped' /\ PageSound' /\ Queued' /\ Waiting' = Waiting
      BY <1>1, <1>8 DEF PageTyped, PageSound, Queued, Waiting
    <2>8. Ordered'
      <3>1. PICK y \in Link : y = ws.l
        BY PlacesTyped
      <3>2. ws.l <= ws'.l
        BY <1>1, LinksAreNumbers DEF PageTyped
      <3>3. {} \subseteq Waiting /\ {} \prec Waiting' /\ Sent(y)' \subseteq Sent(y) \cup {}
        BY <2>5 DEF \prec
      <3> QED
        BY <3>1, <3>2, <3>3, <2>5, <2>7, <1>1, <1>7, OrderKept
    <2>9. Arrived'
      <3> SUFFICES ASSUME NEW i \in 1 .. n + 1, NEW j \in 1 .. n + 1, i < j,
                          received'[i][1] = received'[j][1]
                   PROVE  received'[i][2] < received'[j][2]
        BY <2>1 DEF Arrived
      <3>1. CASE j \in 1 .. n
        <4>1. i \in 1 .. n
          BY <3>1, <2>2
        <4> QED
          BY <3>1, <4>1, <2>1, <2>2 DEF Arrived
      <3>2. CASE j = n + 1
        <4>1. i \in 1 .. n
          BY <3>2, <2>2, <2>3
        <4>2. received[i][2] \in Got(l)
          BY <3>2, <4>1, <2>1, <2>2 DEF Got
        <4>3. received[i][2] < m.n
          BY <4>2, <2>5, <1>2 DEF \prec
        <4> QED
          BY <3>2, <4>1, <4>3, <2>1
      <3> QED
        BY <3>1, <3>2, <2>3
    <2> QED
      BY <2>6, <2>7, <2>8, <2>9, <1>7
  <1> QED
    BY <1>1, <1>9, <1>10

-----------------------------------------------------------------------------
(* The theorem.                                                            *)

LEMMA InvInit == JsInit => Inv
  <1> SUFFICES ASSUME JsInit
               PROVE  Inv
    OBVIOUS
  <1>1. Init /\ ws = [l |-> 1, st |-> "connecting"] /\ queue = <<>> /\ posted = 0 /\ received = <<>>
    BY DEF JsInit, Connecting
  <1>2. PICK id \in PageId : page = NewPage(id)
    BY DEF JsInit
  <1>3. wire = [e \in End |-> <<>>]
    BY <1>1 DEF Init
  <1>4. SyncTyped
    <2>1. /\ up \in [Link -> BOOLEAN] /\ lsn \in [Broker -> SUBSET Chan]
          /\ sub \in [End -> SUBSET Chan] /\ told \in [End -> SUBSET Chan]
          /\ hash \in [End -> Int] /\ cycle \in [End -> BOOLEAN] /\ due = {}
          /\ source \in [Broker -> End \cup {NoEnd}] /\ cur \in [Broker -> Int]
      BY <1>1 DEF Init, None
    <2>2. wire \in [End -> Seq(Message)]
      <3>1. <<>> \in Seq(Message)
        OBVIOUS
      <3> QED
        BY <3>1, <1>3
    <2>3. \A l \in Link : wire[ServerEnd(l)] \in Seq(Notice)
      <3>1. <<>> \in Seq(Notice)
        OBVIOUS
      <3> QED
        BY <3>1, <1>3, EndsTyped
    <2>4. State \in ServerState
      BY <2>1, <2>2 DEF State, ServerState
    <2> QED
      BY <2>1, <2>3, <2>4 DEF SyncTyped
  <1>5. PageTyped /\ page.tasks = <<>>
    <2>1. id \in Int
      BY PageIdTyped
    <2>2. <<>> \in Seq(Task) /\ <<>> \in Seq(Message) /\ <<>> \in Seq(Link \X Nat)
      OBVIOUS
    <2>3. page \in Page /\ page.tasks = <<>>
      BY <1>2, <2>1, <2>2 DEF NewPage, Page, None
    <2> QED
      BY <1>1, <2>2, <2>3, ConnectionsNumbered DEF PageTyped
  <1>6. DOMAIN <<>> = {} /\ Carried(<<>>) = <<>>
    BY DEF Carried
  <1>7. PageSound
    BY <1>1, <1>5, <1>6 DEF PageSound
  <1>8. Numbers(<<>>) = {} /\ Rising(<<>>)
    BY <1>6 DEF Numbers, Rising
  <1>9. Waiting = {}
    BY <1>1, <1>5, <1>6, <1>8 DEF Waiting
  <1>10. Queued
    BY <1>1, <1>5, <1>6, <1>8, <1>9 DEF Queued, \prec
  <1>11. \A l \in Link : Out(l) = <<>> /\ Got(l) = {} /\ Sent(l) = {}
    BY <1>1, <1>3, <1>6, <1>8, EndsTyped DEF Out, Got, Sent
  <1>12. Flows /\ Ordered /\ Arrived
    BY <1>1, <1>6, <1>8, <1>11 DEF Flows, Ordered, Arrived, \prec
  <1> QED
    BY <1>4, <1>5, <1>7, <1>10, <1>12 DEF Inv

LEMMA ServerKeeps ==
    ASSUME Inv, UNCHANGED jsVars, SyncTyped', \A k \in Link : Dwindles(k)
    PROVE  Inv'
  <1> USE DEF Inv
  <1>1. UNCHANGED <<page, ws, queue, posted, received>>
    BY DEF jsVars
  <1>2. PageTyped' /\ PageSound' /\ Queued' /\ Waiting' \subseteq Waiting
    BY <1>1 DEF PageTyped, PageSound, Queued, Waiting
  <1>3. ws.l <= ws'.l
    BY <1>1, LinksAreNumbers DEF PageTyped
  <1> QED
    BY <1>1, <1>2, <1>3, NothingSent

LEMMA InvNext == Inv /\ [JsNext]_allVars => Inv'
  <1> SUFFICES ASSUME Inv, [JsNext]_allVars
               PROVE  Inv'
    OBVIOUS
  <1>1. CASE OnMessage
    BY <1>1, OnMessageKeeps
  <1>2. CASE OnOpen
    BY <1>2, OnOpenKeeps
  <1>3. CASE OnClose \/ Reconnect
    BY <1>3, CloseAndReconnectKeep
  <1>4. CASE RunTask
    <2>1. Head(page.tasks).do \in {"monitors", "on_message", "send"}
      <3>1. ~Idle
        BY <1>4 DEF RunTask
      <3>2. Head(page.tasks) \in Task
        BY <3>1, FirstTask DEF Inv
      <3> QED
        BY <3>2, TasksTyped
    <2> QED
      BY <1>4, <2>1, MonitorTaskKeeps, MessageTaskKeeps, SendTaskKeeps
  <1>5. CASE PageCalls
    BY <1>5, PageCallsKeep
  <1>6. ASSUME NEW c \in Chan, Post(c)
        PROVE  Inv'
    BY <1>6, PostKeeps
  <1>7. ASSUME NEW l \in Link, ServerTakes(l)
        PROVE  Inv'
    BY <1>7, ServerTakesKeeps
  <1>8. ASSUME NEW l \in Link, ServerReceives(l)
        PROVE  Inv'
    <2>1. UNCHANGED jsVars
      BY <1>8 DEF ServerReceives
    <2> QED
      BY <1>8, <2>1, ReceiveKeeps, ServerKeeps DEF Inv
  <1>9. ASSUME NEW l \in Link, ServerLoses(l)
        PROVE  Inv'
    <2>1. UNCHANGED jsVars
      BY <1>9 DEF ServerLoses
    <2> QED
      BY <1>9, <2>1, LoseKeeps, ServerKeeps DEF Inv
  <1>10. CASE ServerCalls
    <2>1. UNCHANGED jsVars
      BY <1>10 DEF ServerCalls
    <2> QED
      BY <1>10, <2>1, ServerCallsKeep, ServerKeeps DEF Inv
  <1>11. CASE ServerAnnounces
    <2>1. UNCHANGED jsVars
      BY <1>11 DEF ServerAnnounces
    <2> QED
      BY <1>11, <2>1, AnnounceKeeps, ServerKeeps DEF Inv
  <1>12. CASE UNCHANGED allVars
    <2>1. UNCHANGED jsVars /\ UNCHANGED vars
      BY <1>12 DEF allVars
    <2>2. SyncTyped' /\ \A k \in Link : Dwindles(k)
      BY <2>1, RestDwindles DEF Inv, vars, SyncTyped, State, Out
    <2> QED
      BY <2>1, <2>2, ServerKeeps
  <1> QED
    BY <1>1, <1>2, <1>3, <1>4, <1>5, <1>6, <1>7, <1>8, <1>9, <1>10, <1>11, <1>12 DEF JsNext

\* What a page posts comes to the listeners of the server once at most, and in
\* order over each connection, also when it waited in the queue for a connection
\* (client.js:136-156), when connections are lost, and when the server still
\* reads from an old one.
THEOREM PostsComeOnce == JsSpec => []ComesOnce
  <1>1. Inv => ComesOnce
    <2> SUFFICES ASSUME Inv, NEW i \in DOMAIN received, NEW j \in DOMAIN received, i < j
                 PROVE  /\ received[i][2] # received[j][2]
                        /\ received[i][1] = received[j][1] => received[i][2] < received[j][2]
      BY DEF ComesOnce
    <2> DEFINE l == received[i][1]
               k == received[j][1]
    <2>1. /\ l \in Link /\ k \in Link /\ l \in Int /\ k \in Int
          /\ received[i][2] \in Nat /\ received[j][2] \in Nat
      BY LinksAreNumbers DEF Inv, PageTyped
    <2>2. received[i][2] \in Sent(l) /\ received[j][2] \in Sent(k)
      BY DEF Sent, Got
    <2>3. l = k => received[i][2] < received[j][2]
      BY DEF Inv, Arrived
    <2> HIDE DEF l, k
    <2>4. CASE l < k
      BY <2>1, <2>2, <2>4 DEF Inv, Ordered, \prec, l, k
    <2>5. CASE k < l
      BY <2>1, <2>2, <2>5 DEF Inv, Ordered, \prec, l, k
    <2>6. CASE l = k
      BY <2>1, <2>3, <2>6 DEF l, k
    <2>7. l < k \/ k < l \/ l = k
      BY <2>1
    <2>8. received[i][2] # received[j][2]
      BY <2>4, <2>5, <2>6, <2>7, <2>1, <2>2
    <2> QED
      BY <2>3, <2>8 DEF l, k
  <1> QED
    BY <1>1, InvInit, InvNext, PTL DEF JsSpec
=============================================================================

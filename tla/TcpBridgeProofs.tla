-------------------------- MODULE TcpBridgeProofs --------------------------
(***************************************************************************)
(* The output buffer of a TCP bridge: lemmas about View, AfterSend, Push   *)
(* and Output.  Then the invariant of a session and the steps of its       *)
(* client: what is given to the bridge, sent, read, and given up with a    *)
(* connection.  The server's steps and the theorems are in                 *)
(* TcpSessionProofs.                                                       *)
(***************************************************************************)
EXTENDS TcpSession, SequenceTheorems, WellFoundedInduction, TLAPS

Buffer == [data : Seq(Cell), sp : Seq(Nat), cursor : Nat, allowed : BOOLEAN, want : BOOLEAN]

\* Whole messages after each other.
Framed(d) == \A i \in 1 .. Len(d) :
    /\ d[i].part = 2 => i > 1 /\ d[i - 1] = [d[i] EXCEPT !.part = 1]
    /\ d[i].part < Size(d[i].m) => i < Len(d) /\ d[i + 1] = [d[i] EXCEPT !.part = 2]

Increasing(s) == \A j, k \in 1 .. Len(s) : j < k => s[j] < s[k]

\* The elements of s are the positions where messages of d start.
Starts(d, s) ==
    /\ \A k \in 1 .. Len(s) : s[k] \in Nat /\ s[k] < Len(d) /\ d[s[k] + 1].part = 1
    /\ \A k \in 1 .. Len(d) : d[k].part = 1 => \E j \in 1 .. Len(s) : s[j] = k - 1

\* A buffer.
Good(o) ==
    /\ o \in Buffer /\ Framed(o.data) /\ Sound(o)
    /\ Increasing(o.sp)

-----------------------------------------------------------------------------
(* Messages and their cells.                                               *)

LEMMA MessagesTyped ==
    /\ NewSession \in Message /\ ChannelReset \in Message /\ Get \in Message
    /\ Switching \in Message
    /\ \A n \in 1 .. MaxMsgs : Msg(n) \in Message
    /\ \A a \in Version \cup {Whole}, b \in Version : ChannelUpdate(a, b) \in Message
    /\ \A m \in Message : /\ m = [t |-> m.t, a |-> m.a, b |-> m.b]
                          /\ m.t = "msg" => m.a \in 1 .. MaxMsgs /\ m = Msg(m.a)
                          /\ m.t = "chan" => m.b \in Version
  <1>1. /\ NewSession \in Message /\ ChannelReset \in Message /\ Get \in Message
        /\ Switching \in Message
        /\ \A n \in 1 .. MaxMsgs : Msg(n) \in Message
    BY DEF Message
  <1>2. \A a \in Version \cup {Whole}, b \in Version : ChannelUpdate(a, b) \in Message
    BY DEF Message
  <1>3. ASSUME NEW m \in Message
        PROVE  /\ m = [t |-> m.t, a |-> m.a, b |-> m.b]
               /\ m.t = "msg" => m.a \in 1 .. MaxMsgs /\ m = Msg(m.a)
               /\ m.t = "chan" => m.b \in Version
    <2>1. \/ \E n \in 1 .. MaxMsgs : m = Msg(n)
          \/ m \in {NewSession, ChannelReset, Get, Switching}
          \/ \E a \in {Whole} \cup Version, b \in Version : m = ChannelUpdate(a, b)
      BY DEF Message
    <2>2. CASE \E n \in 1 .. MaxMsgs : m = Msg(n)
      BY <2>2 DEF Msg
    <2>3. CASE m \in {NewSession, ChannelReset, Get, Switching}
      BY <2>3 DEF NewSession, ChannelReset, Get, Switching
    <2>4. CASE \E a \in {Whole} \cup Version, b \in Version : m = ChannelUpdate(a, b)
      BY <2>4 DEF ChannelUpdate
    <2> QED
      BY <2>1, <2>2, <2>3, <2>4
  <1> QED
    BY <1>1, <1>2, <1>3

LEMMA FunctionSeq ==
    ASSUME NEW S, NEW n \in Nat, NEW f \in [1 .. n -> S]
    PROVE  f \in Seq(S) /\ Len(f) = n
  <1>1. f \in Seq(S)
    BY SeqDef
  <1>2. DOMAIN f = 1 .. n /\ DOMAIN f = 1 .. Len(f) /\ Len(f) \in Nat
    BY <1>1, LenProperties
  <1> QED
    BY <1>1, <1>2

LEMMA CellsOf ==
    ASSUME NEW m \in Message
    PROVE  /\ Size(m) \in {1, 2} /\ Cells(m) \in Seq(Cell) /\ Len(Cells(m)) = Size(m)
           /\ \A i \in 1 .. Size(m) : Cells(m)[i] = [m |-> m, part |-> i]
           /\ Framed(Cells(m))
  <1>1. Size(m) \in {1, 2}
    BY DEF Size
  <1>2. \A i \in 1 .. Size(m) : Cells(m)[i] = [m |-> m, part |-> i] /\ Cells(m)[i] \in Cell
    BY <1>1 DEF Cells, Cell
  <1>3. Cells(m) = [i \in 1 .. Size(m) |-> [m |-> m, part |-> i]]
    BY DEF Cells
  <1>4. Cells(m) \in Seq(Cell) /\ Len(Cells(m)) = Size(m)
    <2>1. Cells(m) \in [1 .. Size(m) -> Cell]
      BY <1>2, <1>3
    <2>2. Size(m) \in Nat
      BY <1>1
    <2> QED
      BY <2>1, <2>2, IsASeq, LenProperties
  <1>5. Framed(Cells(m))
    <2> SUFFICES ASSUME NEW i \in 1 .. Size(m)
                 PROVE  /\ i = 2 => i > 1 /\ Cells(m)[i - 1] = [m |-> m, part |-> 1]
                        /\ i < Size(m) => Cells(m)[i + 1] = [m |-> m, part |-> 2]
      BY <1>1, <1>2, <1>4 DEF Framed
    <2> QED
      BY <1>1, <1>2
  <1> QED
    BY <1>1, <1>2, <1>4, <1>5

LEMMA CellTyped ==
    ASSUME NEW x \in Cell
    PROVE  /\ x.m \in Message /\ x.part \in {1, 2} /\ Size(x.m) \in {1, 2}
           /\ x.part <= Size(x.m)
  BY DEF Cell, Size

LEMMA CellParts ==
    ASSUME NEW x \in Cell
    PROVE  /\ x = [m |-> x.m, part |-> x.part]
           /\ [x EXCEPT !.part = 1] = [m |-> x.m, part |-> 1]
           /\ [x EXCEPT !.part = 2] = [m |-> x.m, part |-> 2]
  BY DEF Cell, Size

LEMMA FramedJoins ==
    ASSUME NEW d \in Seq(Cell), NEW e \in Seq(Cell), Framed(d), Framed(e)
    PROVE  Framed(d \o e)
  <1> DEFINE u == d \o e
  <1>1. /\ u \in Seq(Cell) /\ Len(u) = Len(d) + Len(e) /\ Len(d) \in Nat /\ Len(e) \in Nat
        /\ \A i \in 1 .. Len(d) : u[i] = d[i]
        /\ \A i \in 1 .. Len(e) : u[Len(d) + i] = e[i]
    BY ConcatProperties, LenProperties
  <1> HIDE DEF u
  <1> SUFFICES ASSUME NEW i \in 1 .. Len(u)
               PROVE  /\ u[i].part = 2 => i > 1 /\ u[i - 1] = [u[i] EXCEPT !.part = 1]
                      /\ u[i].part < Size(u[i].m) =>
                            i < Len(u) /\ u[i + 1] = [u[i] EXCEPT !.part = 2]
    BY DEF Framed, u
  <1>2. CASE i <= Len(d)
    <2>1. i \in 1 .. Len(d) /\ u[i] = d[i]
      BY <1>1, <1>2
    <2>2. i > 1 => u[i - 1] = d[i - 1]
      BY <1>1, <2>1
    <2>3. i < Len(d) => u[i + 1] = d[i + 1]
      BY <1>1, <2>1
    <2> QED
      BY <1>1, <2>1, <2>2, <2>3 DEF Framed
  <1>3. CASE i > Len(d)
    <2>1. PICK k \in 1 .. Len(e) : i = Len(d) + k
      <3>1. i - Len(d) \in 1 .. Len(e) /\ i = Len(d) + (i - Len(d))
        BY <1>1, <1>3
      <3> QED
        BY <3>1
    <2>2. u[i] = e[k]
      BY <1>1, <2>1
    <2>3. k > 1 => u[i - 1] = e[k - 1]
      <3>1. k > 1 => k - 1 \in 1 .. Len(e) /\ i - 1 = Len(d) + (k - 1)
        BY <1>1, <2>1
      <3> QED
        BY <1>1, <3>1
    <2>4. k < Len(e) => u[i + 1] = e[k + 1]
      <3>1. k < Len(e) => k + 1 \in 1 .. Len(e) /\ i + 1 = Len(d) + (k + 1)
        BY <1>1, <2>1
      <3> QED
        BY <1>1, <3>1
    <2> QED
      BY <1>1, <2>1, <2>2, <2>3, <2>4 DEF Framed
  <1>4. i \in Nat /\ Len(d) \in Nat
    BY <1>1
  <1> QED
    BY <1>2, <1>3, <1>4

LEMMA FramedRest ==
    ASSUME NEW d \in Seq(Cell), Framed(d), NEW k \in 0 .. Len(d),
           k < Len(d) => d[k + 1].part = 1
    PROVE  /\ SubSeq(d, k + 1, Len(d)) \in Seq(Cell)
           /\ Len(SubSeq(d, k + 1, Len(d))) = Len(d) - k
           /\ \A i \in 1 .. Len(d) - k : SubSeq(d, k + 1, Len(d))[i] = d[k + i]
           /\ Framed(SubSeq(d, k + 1, Len(d)))
  <1> DEFINE e == SubSeq(d, k + 1, Len(d))
  <1>0. Len(d) \in Nat /\ k \in Nat /\ k <= Len(d) /\ \A i \in 1 .. Len(d) : d[i] \in Cell
    BY LenProperties, ElementOfSeq
  <1>1. e \in Seq(Cell)
    <2>1. \A i \in k + 1 .. Len(d) : d[i] \in Cell
      BY <1>0
    <2> QED
      BY <1>0, <2>1, SubSeqProperties
  <1>2. Len(e) = Len(d) - k
    BY <1>0, SubSeqProperties
  <1>3. \A i \in 1 .. Len(d) - k : e[i] = d[k + i]
    <2> TAKE i \in 1 .. Len(d) - k
    <2>1. e[i] = d[(k + 1) + i - 1]
      BY <1>0, SubSeqProperties
    <2>2. (k + 1) + i - 1 = k + i
      BY <1>0
    <2> QED
      BY <2>1, <2>2
  <1> HIDE DEF e
  <1>4. Framed(e)
    <2> SUFFICES ASSUME NEW i \in 1 .. Len(e)
                 PROVE  /\ e[i].part = 2 => i > 1 /\ e[i - 1] = [e[i] EXCEPT !.part = 1]
                        /\ e[i].part < Size(e[i].m) =>
                              i < Len(e) /\ e[i + 1] = [e[i] EXCEPT !.part = 2]
      BY DEF Framed
    <2>1. k + i \in 1 .. Len(d) /\ e[i] = d[k + i]
      BY <1>0, <1>2, <1>3
    <2>2. i > 1 => e[i - 1] = d[(k + i) - 1]
      <3>1. i > 1 => i - 1 \in 1 .. Len(d) - k /\ k + (i - 1) = (k + i) - 1
        BY <1>0, <1>2
      <3> QED
        BY <1>3, <3>1
    <2>3. i < Len(e) => e[i + 1] = d[(k + i) + 1]
      <3>1. i < Len(e) => i + 1 \in 1 .. Len(d) - k /\ k + (i + 1) = (k + i) + 1
        BY <1>0, <1>2
      <3> QED
        BY <1>3, <3>1
    <2>4. i = 1 => d[k + i].part = 1
      BY <1>0, <1>2
    <2>5. i < Len(e) <=> k + i < Len(d)
      BY <1>0, <1>2
    <2>6. i \in Nat /\ (i = 1 \/ i > 1)
      BY <1>0, <1>2
    <2>7. /\ d[k + i].part = 2 => d[(k + i) - 1] = [d[k + i] EXCEPT !.part = 1]
          /\ d[k + i].part < Size(d[k + i].m) =>
                k + i < Len(d) /\ d[(k + i) + 1] = [d[k + i] EXCEPT !.part = 2]
      BY <2>1 DEF Framed
    <2>8. e[i].part = 2 => i > 1
      BY <2>1, <2>4, <2>6
    <2> QED
      BY <2>1, <2>2, <2>3, <2>5, <2>7, <2>8
  <1> QED
    BY <1>1, <1>2, <1>3, <1>4 DEF e

-----------------------------------------------------------------------------
(* The output buffer.                                                      *)

\* What Sound says of a buffer, in terms of positions.
LEMMA Boundaries ==
    ASSUME NEW o, Good(o)
    PROVE  /\ o.data \in Seq(Cell) /\ o.sp \in Seq(Nat) /\ o.cursor \in Nat
           /\ o.allowed \in BOOLEAN /\ o.want \in BOOLEAN
           /\ Len(o.data) \in Nat /\ Len(o.sp) \in Nat
           /\ \A i \in 1 .. Len(o.data) : o.data[i] \in Cell
           /\ \A i \in 1 .. Len(o.sp) : o.sp[i] \in Nat /\ o.sp[i] < Len(o.data)
                                        /\ o.data[o.sp[i] + 1].part = 1
           /\ \A k \in 1 .. Len(o.data) :
                o.data[k].part = 1 => \E i \in 1 .. Len(o.sp) : o.sp[i] = k - 1
           /\ o.data # <<>> => o.data[1].part = 1
           /\ o.cursor \in {0, 1} /\ o.cursor <= Len(o.data)
           /\ o.cursor = 1 => /\ Len(o.data) >= 2 /\ o.data[1].part = 1
                              /\ o.data[1].part < Size(o.data[1].m)
  <1>1. /\ o.data \in Seq(Cell) /\ o.sp \in Seq(Nat) /\ o.cursor \in Nat
        /\ o.allowed \in BOOLEAN /\ o.want \in BOOLEAN
    BY DEF Good, Buffer
  <1>2. /\ Len(o.data) \in Nat /\ Len(o.sp) \in Nat
        /\ \A i \in 1 .. Len(o.data) : o.data[i] \in Cell
        /\ \A i \in 1 .. Len(o.sp) : o.sp[i] \in Nat
    BY <1>1, LenProperties, ElementOfSeq
  <1>3. {o.sp[i] : i \in 1 .. Len(o.sp)}
            = {k - 1 : k \in {j \in 1 .. Len(o.data) : o.data[j].part = 1}}
    BY DEF Good, Sound
  <1>4. ASSUME NEW i \in 1 .. Len(o.sp)
        PROVE  o.sp[i] < Len(o.data) /\ o.data[o.sp[i] + 1].part = 1
    <2>1. o.sp[i] \in {k - 1 : k \in {j \in 1 .. Len(o.data) : o.data[j].part = 1}}
      BY <1>3
    <2>2. PICK k \in 1 .. Len(o.data) : o.data[k].part = 1 /\ o.sp[i] = k - 1
      BY <2>1
    <2>3. o.sp[i] + 1 = k
      BY <1>2, <2>2
    <2> QED
      BY <1>2, <2>2, <2>3
  <1>5. ASSUME NEW k \in 1 .. Len(o.data), o.data[k].part = 1
        PROVE  \E i \in 1 .. Len(o.sp) : o.sp[i] = k - 1
    <2>1. k - 1 \in {o.sp[i] : i \in 1 .. Len(o.sp)}
      BY <1>3, <1>5
    <2> QED
      BY <2>1
  <1>6. o.data # <<>> => Len(o.data) >= 1 /\ o.data[1] \in Cell /\ o.data[1].part = 1
    <2> HAVE o.data # <<>>
    <2>1. Len(o.data) >= 1 /\ 1 \in 1 .. Len(o.data)
      BY <1>1, <1>2, EmptySeq
    <2>2. o.data[1] \in Cell
      BY <1>2, <2>1
    <2>3. o.data[1].part \in {1, 2}
      BY <2>2, CellTyped
    <2>4. o.data[1].part # 2
      <3>1. \A i \in 1 .. Len(o.data) : o.data[i].part = 2 => i > 1
        BY DEF Good, Framed
      <3> QED
        BY <2>1, <3>1
    <2> QED
      BY <2>1, <2>2, <2>3, <2>4
  <1>7. o.data = <<>> => o.cursor = 0
    BY DEF Good, Sound
  <1>8. o.data # <<>> => o.cursor < Size(o.data[1].m) /\ Size(o.data[1].m) \in {1, 2}
    BY <1>6, CellTyped DEF Good, Sound
  <1>9. o.cursor = 1 => /\ Len(o.data) >= 2 /\ o.data[1].part = 1
                        /\ o.data[1].part < Size(o.data[1].m)
    <2> HAVE o.cursor = 1
    <2>1. o.data # <<>> /\ Size(o.data[1].m) = 2
      BY <1>7, <1>8
    <2>2. 1 < Len(o.data)
      <3>1. 1 \in 1 .. Len(o.data) /\ o.data[1].part < Size(o.data[1].m)
        BY <1>2, <1>6, <2>1
      <3> QED
        BY <3>1 DEF Good, Framed
    <2> QED
      BY <1>2, <1>6, <2>1, <2>2
  <1>10. o.cursor \in {0, 1} /\ o.cursor <= Len(o.data)
    BY <1>1, <1>2, <1>7, <1>8, <1>9
  <1> QED
    BY <1>1, <1>2, <1>4, <1>5, <1>6, <1>9, <1>10

LEMMA GoodIf ==
    ASSUME NEW o \in Buffer, Framed(o.data), Increasing(o.sp), Starts(o.data, o.sp),
           (o.sp = <<>>) = (o.data = <<>>),
           o.data = <<>> => o.cursor = 0,
           o.data # <<>> => o.cursor < Size(o.data[1].m)
    PROVE  Good(o)
  <1> DEFINE A == {o.sp[i] : i \in 1 .. Len(o.sp)}
             B == {k - 1 : k \in {j \in 1 .. Len(o.data) : o.data[j].part = 1}}
  <1>0. Len(o.data) \in Nat /\ Len(o.sp) \in Nat
    BY LenProperties DEF Buffer
  <1>1. A \subseteq B
    <2> SUFFICES ASSUME NEW i \in 1 .. Len(o.sp) PROVE o.sp[i] \in B
      OBVIOUS
    <2>1. o.sp[i] \in Nat /\ o.sp[i] < Len(o.data) /\ o.data[o.sp[i] + 1].part = 1
      BY DEF Starts
    <2>2. o.sp[i] + 1 \in 1 .. Len(o.data) /\ (o.sp[i] + 1) - 1 = o.sp[i]
      BY <1>0, <2>1
    <2> QED
      BY <2>1, <2>2
  <1>2. B \subseteq A
    BY DEF Starts
  <1>3. \A i \in 1 .. Len(o.sp) - 1 : o.sp[i] < o.sp[i + 1]
    <2> TAKE i \in 1 .. Len(o.sp) - 1
    <2>1. i \in 1 .. Len(o.sp) /\ i + 1 \in 1 .. Len(o.sp) /\ i < i + 1
      BY <1>0
    <2> QED
      BY <2>1 DEF Increasing
  <1> QED
    BY <1>1, <1>2, <1>3 DEF Good, Sound

LEMMA PushGood ==
    ASSUME NEW o, Good(o), NEW m \in Message
    PROVE  /\ Good(Push(o, m))
           /\ Push(o, m).data = o.data \o Cells(m)
           /\ Push(o, m).cursor = o.cursor
           /\ Push(o, m).allowed = o.allowed /\ Push(o, m).want = o.want
  <1> DEFINE d == o.data
             s == o.sp
             e == Cells(m)
             q == Push(o, m)
  <1>1. /\ d \in Seq(Cell) /\ s \in Seq(Nat) /\ Len(d) \in Nat /\ Len(s) \in Nat
        /\ \A i \in 1 .. Len(s) : s[i] \in Nat /\ s[i] < Len(d) /\ d[s[i] + 1].part = 1
        /\ \A k \in 1 .. Len(d) : d[k].part = 1 => \E i \in 1 .. Len(s) : s[i] = k - 1
    BY Boundaries
  <1>2. /\ e \in Seq(Cell) /\ Len(e) \in {1, 2} /\ Framed(e) /\ Len(e) = Size(m)
        /\ \A i \in 1 .. Len(e) : e[i] = [m |-> m, part |-> i]
    BY CellsOf
  <1>3. /\ q.data = d \o e /\ q.sp = Append(s, Len(d)) /\ q.cursor = o.cursor
        /\ q.allowed = o.allowed /\ q.want = o.want
    BY DEF Push, Good, Buffer
  <1>4. /\ d \o e \in Seq(Cell) /\ Len(d \o e) = Len(d) + Len(e)
        /\ \A i \in 1 .. Len(d) : (d \o e)[i] = d[i]
        /\ \A i \in 1 .. Len(e) : (d \o e)[Len(d) + i] = e[i]
    BY <1>1, <1>2, ConcatProperties, LenProperties
  <1>5. /\ Append(s, Len(d)) \in Seq(Nat) /\ Len(Append(s, Len(d))) = Len(s) + 1
        /\ \A i \in 1 .. Len(s) : Append(s, Len(d))[i] = s[i]
        /\ Append(s, Len(d))[Len(s) + 1] = Len(d)
    BY <1>1, AppendProperties
  <1>6. q \in Buffer
    <2>1. o \in Buffer /\ d \o e \in Seq(Cell) /\ Append(s, Len(d)) \in Seq(Nat)
      BY <1>4, <1>5 DEF Good
    <2> QED
      BY <2>1 DEF Push, Buffer
  <1>7. Framed(q.data)
    BY <1>1, <1>2, <1>3, FramedJoins DEF Good
  <1>8. Increasing(q.sp)
    <2> SUFFICES ASSUME NEW i \in 1 .. Len(s) + 1, NEW j \in 1 .. Len(s) + 1, i < j
                 PROVE  Append(s, Len(d))[i] < Append(s, Len(d))[j]
      BY <1>3, <1>5 DEF Increasing
    <2>1. i \in 1 .. Len(s)
      BY <1>1
    <2>2. CASE j \in 1 .. Len(s)
      BY <1>5, <2>1, <2>2 DEF Good, Increasing
    <2>3. CASE j = Len(s) + 1
      BY <1>1, <1>5, <2>1, <2>3
    <2>4. j \in 1 .. Len(s) \/ j = Len(s) + 1
      <3>1. Len(s) \in Nat /\ j \in 1 .. Len(s) + 1
        BY <1>1
      <3> HIDE DEF s
      <3> QED
        BY <3>1
    <2> QED
      BY <2>2, <2>3, <2>4
  <1>9. Starts(q.data, q.sp)
    <2>1. ASSUME NEW i \in 1 .. Len(q.sp)
          PROVE  q.sp[i] \in Nat /\ q.sp[i] < Len(q.data) /\ q.data[q.sp[i] + 1].part = 1
      <3>1. CASE i \in 1 .. Len(s)
        <4>1. q.sp[i] = s[i] /\ s[i] \in Nat /\ s[i] < Len(d)
          BY <1>1, <1>3, <1>5, <3>1
        <4>2. s[i] + 1 \in 1 .. Len(d)
          BY <1>1, <4>1
        <4>3. q.data[s[i] + 1].part = 1
          BY <1>1, <1>3, <1>4, <3>1, <4>2
        <4> HIDE DEF d, s, e, q
        <4> QED
          BY <1>1, <1>2, <1>3, <1>4, <4>1, <4>3
      <3>2. CASE i = Len(s) + 1
        <4>1. q.sp[i] = Len(d)
          BY <1>3, <1>5, <3>2
        <4>2. q.data[Len(d) + 1] = e[1] /\ e[1].part = 1
          BY <1>1, <1>2, <1>3, <1>4
        <4> HIDE DEF d, s, e, q
        <4> QED
          BY <1>1, <1>2, <1>3, <1>4, <4>1, <4>2
      <3>3. i \in 1 .. Len(s) \/ i = Len(s) + 1
        <4>1. Len(s) \in Nat /\ i \in 1 .. Len(s) + 1
          BY <1>1, <1>3, <1>5
        <4> HIDE DEF s
        <4> QED
          BY <4>1
      <3> QED
        BY <3>1, <3>2, <3>3
    <2>2. ASSUME NEW k \in 1 .. Len(q.data), q.data[k].part = 1
          PROVE  \E j \in 1 .. Len(q.sp) : q.sp[j] = k - 1
      <3>1. CASE k \in 1 .. Len(d)
        <4>1. d[k].part = 1
          BY <1>3, <1>4, <2>2, <3>1
        <4>2. PICK i \in 1 .. Len(s) : s[i] = k - 1
          BY <1>1, <3>1, <4>1
        <4>3. i \in 1 .. Len(q.sp) /\ q.sp[i] = k - 1
          BY <1>1, <1>3, <1>5, <4>2
        <4> QED
          BY <4>3
      <3>2. CASE k > Len(d)
        <4>1. k - Len(d) \in 1 .. Len(e) /\ k = Len(d) + (k - Len(d))
          BY <1>1, <1>2, <1>3, <1>4, <3>2
        <4>2. q.data[k] = e[k - Len(d)]
          BY <1>3, <1>4, <4>1
        <4>3. k - Len(d) = 1
          BY <1>2, <2>2, <4>1, <4>2
        <4>4. q.sp[Len(s) + 1] = k - 1 /\ Len(s) + 1 \in 1 .. Len(q.sp)
          BY <1>1, <1>3, <1>5, <4>3
        <4> QED
          BY <4>4
      <3>3. k \in Nat /\ (k <= Len(d) => k \in 1 .. Len(d))
        BY <1>1
      <3> QED
        BY <1>1, <3>1, <3>2, <3>3
    <2> HIDE DEF q
    <2> QED
      BY <2>1, <2>2 DEF Starts
  <1>10. q.sp # <<>> /\ q.data # <<>>
    <2>1. Len(q.sp) > 0 /\ Len(q.data) > 0
      BY <1>1, <1>2, <1>3, <1>4, <1>5
    <2> QED
      BY <2>1, EmptySeq
  <1>11. q.cursor < Size(q.data[1].m)
    <2>1. CASE d = <<>>
      <3>1. q.cursor = 0
        BY <1>3, <2>1 DEF Good, Sound
      <3>2. q.data = e /\ e[1].m = m
        BY <1>2, <1>3, <1>4, <2>1, ConcatEmptySeq
      <3> QED
        BY <1>2, <3>1, <3>2
    <2>2. CASE d # <<>>
      <3>1. 1 \in 1 .. Len(d)
        BY <1>1, <2>2, EmptySeq
      <3>2. q.data[1] = d[1]
        BY <1>3, <1>4, <3>1
      <3> QED
        BY <1>3, <2>2, <3>2 DEF Good, Sound
    <2> QED
      BY <2>1, <2>2
  <1> HIDE DEF q
  <1>12. Good(q)
    BY <1>6, <1>7, <1>8, <1>9, <1>10, <1>11, GoodIf
  <1> QED
    BY <1>3, <1>12 DEF q

\* A set of numbers up to n has a greatest one.
LEMMA LeastNatural ==
    ASSUME NEW T \in SUBSET Nat, T # {}
    PROVE  \E m \in T : \A k \in T : m <= k
  <1> DEFINE R == {ss \in Nat \X Nat : ss[1] < ss[2]}
  <1>1. IsWellFoundedOn(R, Nat)
    BY NatLessThanWellFounded DEF OpToRel
  <1>2. \E x \in T : \A y \in T : ~ (<<y, x>> \in R)
    <2> HIDE DEF R
    <2> QED
      BY <1>1, WFMin
  <1>3. \A x, y \in T : ~ (<<y, x>> \in R) => x <= y
    <2> TAKE x, y \in T
    <2>1. y < x => <<y, x>> \in R
      OBVIOUS
    <2> HIDE DEF R
    <2> QED
      BY <2>1
  <1> HIDE DEF R
  <1> QED
    BY <1>2, <1>3

LEMMA Greatest ==
    ASSUME NEW n \in Nat, NEW S \in SUBSET (1 .. n), S # {}
    PROVE  \E m \in S : \A k \in S : k <= m
  <1> DEFINE T == {n - k : k \in S}
  <1>1. T \in SUBSET Nat /\ T # {}
    OBVIOUS
  <1>2. PICK m \in T : \A k \in T : m <= k
    BY <1>1, LeastNatural
  <1>3. PICK k \in S : m = n - k
    BY <1>2
  <1>4. \A j \in S : n - k <= n - j
    BY <1>2, <1>3
  <1>5. \A j \in S : j <= k
    BY <1>4
  <1> QED
    BY <1>5

\* Where the messages before c are cut off: the cells ...
LEMMA CutCells ==
    ASSUME NEW d \in Seq(Cell), Framed(d), NEW c \in Nat, NEW pos \in Nat,
           pos <= c, c < Len(d), d[pos + 1].part = 1,
           \A k \in 1 .. Len(d) : pos < k - 1 /\ k - 1 <= c => d[k].part # 1
    PROVE  c - pos < Size(d[pos + 1].m)
  <1> DEFINE L == Len(d)
  <1>1. L \in Nat /\ pos < L /\ \A k \in 1 .. L : d[k] \in Cell
    BY LenProperties, ElementOfSeq
  <1>2. \A i \in 1 .. L :
          /\ d[i].part = 2 => i > 1 /\ d[i - 1] = [m |-> d[i].m, part |-> 1]
          /\ d[i].part < Size(d[i].m) => d[i + 1] = [m |-> d[i].m, part |-> 2]
    <2> SUFFICES ASSUME NEW i \in 1 .. L
                 PROVE  /\ d[i].part = 2 => i > 1 /\ d[i - 1] = [m |-> d[i].m, part |-> 1]
                        /\ d[i].part < Size(d[i].m) => d[i + 1] = [m |-> d[i].m, part |-> 2]
      OBVIOUS
    <2>1. d[i] \in Cell
      BY <1>1
    <2>2. /\ [d[i] EXCEPT !.part = 1] = [m |-> d[i].m, part |-> 1]
          /\ [d[i] EXCEPT !.part = 2] = [m |-> d[i].m, part |-> 2]
      BY <2>1, CellParts
    <2> QED
      BY <2>2 DEF Framed
  <1>3. \A k \in 1 .. L : pos < k - 1 /\ k - 1 <= c => d[k].part # 1
    OBVIOUS
  <1>4. c < L
    OBVIOUS
  <1> HIDE DEF L
  <1>5. d[pos + 1] \in Cell /\ Size(d[pos + 1].m) \in {1, 2}
    <2>1. pos + 1 \in 1 .. L
      BY <1>1
    <2>2. d[pos + 1] \in Cell
      BY <1>1, <2>1
    <2> QED
      BY <2>2, CellTyped
  <1>6. CASE Size(d[pos + 1].m) = 1
    <2> SUFFICES ASSUME pos + 1 <= c PROVE FALSE
      BY <1>6
    <2>1. pos + 2 \in 1 .. L /\ (pos + 2) - 1 = pos + 1
      BY <1>1, <1>4
    <2>2. d[pos + 2].part # 1 /\ d[pos + 2] \in Cell
      BY <1>1, <1>3, <2>1
    <2>3. d[pos + 2].part = 2 /\ d[pos + 2].part <= Size(d[pos + 2].m)
      BY <2>2, CellTyped
    <2>4. d[pos + 1] = [m |-> d[pos + 2].m, part |-> 1]
      BY <1>2, <2>1, <2>3
    <2> QED
      BY <1>6, <2>3, <2>4
  <1>7. CASE Size(d[pos + 1].m) = 2
    <2> SUFFICES ASSUME pos + 2 <= c PROVE FALSE
      BY <1>7
    <2>1. /\ pos + 1 \in 1 .. L /\ pos + 2 \in 1 .. L /\ pos + 3 \in 1 .. L
          /\ (pos + 1) + 1 = pos + 2 /\ (pos + 3) - 1 = pos + 2 /\ pos < pos + 2
      BY <1>1, <1>4
    <2>2. d[pos + 2].part = 2
      <3>1. d[pos + 1].part < Size(d[pos + 1].m)
        BY <1>7
      <3>2. d[(pos + 1) + 1] = [m |-> d[pos + 1].m, part |-> 2]
        BY <1>2, <2>1, <3>1
      <3> QED
        BY <2>1, <3>2
    <2>3. d[pos + 3] \in Cell /\ d[pos + 3].part # 1
      BY <1>1, <1>3, <2>1
    <2>4. d[pos + 3].part = 2
      BY <2>3, CellTyped
    <2>5. d[pos + 2].part = 1
      <3>1. d[(pos + 3) - 1] = [m |-> d[pos + 3].m, part |-> 1]
        BY <1>2, <2>1, <2>4
      <3> QED
        BY <2>1, <3>1
    <2> QED
      BY <2>2, <2>5
  <1> QED
    BY <1>5, <1>6, <1>7

\* ... and the boundaries, from the i-th on.
From(s, i) == [k \in 1 .. Len(s) - i + 1 |-> s[k + i - 1] - s[i]]

LEMMA CutBoundaries ==
    ASSUME NEW s \in Seq(Nat), Increasing(s), NEW i \in 1 .. Len(s)
    PROVE  /\ From(s, i) \in Seq(Nat) /\ Increasing(From(s, i))
           /\ Len(From(s, i)) = Len(s) - i + 1 /\ Len(s) - i + 1 \in Nat /\ Len(s) - i + 1 > 0
           /\ \A k \in 1 .. Len(s) - i + 1 :
                k + i - 1 \in i .. Len(s) /\ From(s, i)[k] = s[k + i - 1] - s[i]
  <1> DEFINE N == Len(s)
             M == N - i + 1
             e == From(s, i)
  <1>1. N \in Nat /\ i \in Nat /\ i >= 1 /\ i <= N
    BY LenProperties
  <1>2. \A k \in 1 .. N : s[k] \in Nat
    BY ElementOfSeq
  <1>3. \A j, k \in 1 .. N : j < k => s[j] < s[k]
    BY DEF Increasing
  <1>4. e = [k \in 1 .. M |-> s[k + i - 1] - s[i]]
    BY DEF From
  <1> HIDE DEF N, e
  <1>5. M \in Nat /\ M > 0 /\ \A k \in 1 .. M : k + i - 1 \in i .. N /\ k + i - 1 \in 1 .. N
    BY <1>1
  <1>6. \A k \in 1 .. M : e[k] = s[k + i - 1] - s[i]
    BY <1>4
  <1>7. \A k \in i .. N : k \in 1 .. N /\ s[k] - s[i] \in Nat
    <2> TAKE k \in i .. N
    <2>1. k \in 1 .. N /\ i \in 1 .. N /\ (k = i \/ i < k)
      BY <1>1
    <2>2. s[k] \in Nat /\ s[i] \in Nat /\ s[i] <= s[k]
      BY <1>2, <1>3, <2>1
    <2> QED
      BY <2>1, <2>2
  <1>8. e \in [1 .. M -> Nat]
    BY <1>4, <1>5, <1>7
  <1>9. e \in Seq(Nat) /\ Len(e) = M
    BY <1>5, <1>8, FunctionSeq
  <1>10. ASSUME NEW j \in 1 .. M, NEW k \in 1 .. M, j < k
         PROVE  e[j] < e[k]
    <2>1. j + i - 1 \in 1 .. N /\ k + i - 1 \in 1 .. N /\ j + i - 1 < k + i - 1
      BY <1>1, <1>5, <1>10
    <2>2. s[j + i - 1] < s[k + i - 1] /\ s[j + i - 1] \in Nat /\ s[k + i - 1] \in Nat
          /\ s[i] \in Nat
      BY <1>1, <1>2, <1>3, <2>1
    <2>3. e[j] = s[j + i - 1] - s[i] /\ e[k] = s[k + i - 1] - s[i]
      BY <1>6
    <2> QED
      BY <2>2, <2>3
  <1> QED
    BY <1>5, <1>6, <1>9, <1>10 DEF N, e, Increasing

LEMMA CutStarts ==
    ASSUME NEW d \in Seq(Cell), NEW s \in Seq(Nat), Increasing(s), Starts(d, s),
           NEW i \in 1 .. Len(s), NEW d2, d2 = SubSeq(d, s[i] + 1, Len(d)), Framed(d)
    PROVE  Starts(d2, From(s, i))
  <1> DEFINE pos == s[i]
             L == Len(d)
             N == Len(s)
             M == N - i + 1
             e == From(s, i)
  <1>1. pos \in 0 .. L /\ pos \in Nat /\ pos < L /\ d[pos + 1].part = 1 /\ L \in Nat
    BY LenProperties DEF Starts
  <1>2. Len(d2) = L - pos /\ \A k \in 1 .. L - pos : d2[k] = d[pos + k]
    BY <1>1, FramedRest
  <1>3. /\ Len(e) = M /\ e \in Seq(Nat)
        /\ \A k \in 1 .. M : k + i - 1 \in i .. N /\ e[k] = s[k + i - 1] - pos
    BY CutBoundaries
  <1>4. N \in Nat /\ i \in Nat /\ i >= 1 /\ i <= N
    BY LenProperties
  <1>5. \A k \in 1 .. N : s[k] \in Nat /\ s[k] < L /\ d[s[k] + 1].part = 1
    BY DEF Starts
  <1>6. \A k \in 1 .. L : d[k].part = 1 => \E j \in 1 .. N : s[j] = k - 1
    BY DEF Starts
  <1>7. \A j \in 1 .. N : j < i => s[j] < pos
    BY DEF Increasing
  <1>8. \A k \in 1 .. M : e[k] \in Nat
    BY <1>3, ElementOfSeq
  <1> HIDE DEF pos, L, N, e
  <1>9. ASSUME NEW k \in 1 .. M
        PROVE  e[k] + 1 \in 1 .. L - pos /\ d2[e[k] + 1].part = 1
    <2>1. k + i - 1 \in 1 .. N /\ e[k] = s[k + i - 1] - pos /\ e[k] \in Nat
      BY <1>3, <1>4, <1>8
    <2>2. s[k + i - 1] \in Nat /\ s[k + i - 1] < L /\ d[s[k + i - 1] + 1].part = 1
      BY <1>5, <2>1
    <2>3. e[k] + 1 \in 1 .. L - pos /\ pos + (e[k] + 1) = s[k + i - 1] + 1
      <3> DEFINE x == s[k + i - 1]
      <3>1. x \in Nat /\ x < L /\ e[k] = x - pos /\ e[k] \in Nat
        BY <2>1, <2>2
      <3> HIDE DEF x
      <3>2. e[k] + 1 \in 1 .. L - pos /\ pos + (e[k] + 1) = x + 1
        BY <1>1, <3>1
      <3> QED
        BY <3>2 DEF x
    <2>4. d2[e[k] + 1] = d[pos + (e[k] + 1)]
      BY <1>2, <2>3
    <2> QED
      BY <2>2, <2>3, <2>4
  <1>10. ASSUME NEW k \in 1 .. L - pos, d2[k].part = 1
         PROVE  \E j \in 1 .. M : e[j] = k - 1
    <2>1. d2[k] = d[pos + k] /\ pos + k \in 1 .. L /\ k \in Nat /\ k >= 1
      <3>1. d2[k] = d[pos + k]
        BY <1>2
      <3>2. k \in Nat /\ k >= 1 /\ pos + k \in 1 .. L
        BY <1>1
      <3> QED
        BY <3>1, <3>2
    <2>2. PICK j \in 1 .. N : s[j] = (pos + k) - 1
      BY <1>6, <1>10, <2>1
    <2>3. ~ (j < i)
      BY <1>1, <1>7, <2>1, <2>2
    <2>4. j - i + 1 \in 1 .. M /\ (j - i + 1) + i - 1 = j
      BY <1>4, <2>3
    <2>5. e[j - i + 1] = s[(j - i + 1) + i - 1] - pos
      BY <1>3, <2>4
    <2>6. e[j - i + 1] = k - 1
      BY <1>1, <2>1, <2>2, <2>4, <2>5
    <2> QED
      BY <2>4, <2>6
  <1>11. \A k \in 1 .. M : e[k] < L - pos
    <2> TAKE k \in 1 .. M
    <2>1. e[k] \in Nat /\ e[k] + 1 \in 1 .. L - pos
      BY <1>8, <1>9
    <2> QED
      BY <1>1, <2>1
  <1> QED
    BY <1>2, <1>3, <1>8, <1>9, <1>10, <1>11 DEF Starts, e

LEMMA CutInside ==
    ASSUME NEW d \in Seq(Cell), Framed(d), NEW s \in Seq(Nat), Increasing(s), Starts(d, s),
           NEW c \in Nat, c < Len(d), NEW i \in 1 .. Len(s), s[i] <= c,
           \A k \in 1 .. Len(s) : k > i => s[k] > c
    PROVE  c - s[i] < Size(d[s[i] + 1].m)
  <1>1. s[i] \in Nat /\ d[s[i] + 1].part = 1
    BY DEF Starts
  <1>2. ASSUME NEW k \in 1 .. Len(d), s[i] < k - 1, k - 1 <= c, d[k].part = 1
        PROVE  FALSE
    <2>1. PICK j \in 1 .. Len(s) : s[j] = k - 1
      BY <1>2 DEF Starts
    <2>2. j < i => s[j] < s[i]
      BY DEF Increasing
    <2>3. Len(s) \in Nat /\ s[j] \in Nat
      BY LenProperties, ElementOfSeq
    <2>4. j > i => s[j] > c
      OBVIOUS
    <2>5. j < i \/ j = i \/ j > i
      BY <2>3
    <2> QED
      BY <1>1, <1>2, <2>1, <2>2, <2>3, <2>4, <2>5
  <1> QED
    BY <1>1, <1>2, CutCells

\* after_send() of n cells that are in the buffer: it forgets the messages
\* before pos, which are sent, and nothing else.
AfterPos(o, n, pos) ==
    /\ pos <= o.cursor + n
    /\ AfterSend(o, n).data = SubSeq(o.data, pos + 1, Len(o.data))
    /\ AfterSend(o, n).cursor = o.cursor + n - pos

LEMMA AfterSendGood ==
    ASSUME NEW o, Good(o), NEW n \in Nat, o.cursor + n <= Len(o.data)
    PROVE  /\ Good(AfterSend(o, n))
           /\ \E pos \in 0 .. Len(o.data) : AfterPos(o, n, pos)
           /\ AfterSend(o, n).allowed = o.allowed /\ AfterSend(o, n).want = o.want
  <1> DEFINE d == o.data
             s == o.sp
             c == o.cursor + n
             q == AfterSend(o, n)
  <1>1. /\ d \in Seq(Cell) /\ s \in Seq(Nat) /\ o.cursor \in Nat /\ Framed(d)
        /\ Len(d) \in Nat /\ Len(s) \in Nat /\ c \in Nat /\ c <= Len(d)
        /\ Starts(d, s) /\ Increasing(s) /\ (d # <<>> => d[1].part = 1)
    BY Boundaries DEF Good, Starts
  <1>2. (s = <<>>) = (d = <<>>) /\ o \in Buffer
    BY DEF Good, Sound
  <1>3. q = IF s = <<>> THEN o
            ELSE IF c = Len(d)
            THEN [o EXCEPT !.data = <<>>, !.sp = <<>>, !.cursor = 0]
            ELSE LET i == CHOOSE k \in Ends(s, c) : \A j \in Ends(s, c) : j <= k
                 IN [o EXCEPT !.data = SubSeq(d, s[i] + 1, Len(d)), !.sp = From(s, i),
                              !.cursor = c - s[i]]
    BY DEF AfterSend, From
  <1>4. ASSUME NEW pos \in Nat, pos <= c, q.data = SubSeq(d, pos + 1, Len(d)),
               q.cursor = c - pos
        PROVE  AfterPos(o, n, pos)
    BY <1>1, <1>4 DEF AfterPos
  <1> HIDE DEF d, s, c, q
  <1>5. CASE s = <<>>
    <2>1. q = o
      BY <1>3, <1>5
    <2>2. d = <<>> /\ Len(d) = 0
      BY <1>2, <1>5, EmptySeq
    <2>3. c = 0 /\ o.cursor = 0
      BY <1>1, <2>2 DEF c
    <2>4. SubSeq(d, 0 + 1, Len(d)) = d
      BY <1>1, SubSeqFull
    <2>5. AfterPos(o, n, 0)
      BY <1>4, <2>1, <2>3, <2>4 DEF d
    <2>6. 0 \in 0 .. Len(d)
      BY <2>2
    <2> QED
      BY <2>1, <2>5, <2>6 DEF q, d
  <1>6. CASE s # <<>> /\ c = Len(d)
    <2>1. q = [o EXCEPT !.data = <<>>, !.sp = <<>>, !.cursor = 0]
      BY <1>3, <1>6
    <2>2. <<>> \in Seq(Cell) /\ <<>> \in Seq(Nat) /\ Len(<<>>) = 0
      BY EmptySeq
    <2>3. q \in Buffer /\ q.data = <<>> /\ q.sp = <<>> /\ q.cursor = 0
          /\ q.allowed = o.allowed /\ q.want = o.want
      BY <1>2, <2>1, <2>2 DEF Buffer
    <2>4. Framed(q.data) /\ Increasing(q.sp) /\ Starts(q.data, q.sp)
      BY <2>2, <2>3 DEF Framed, Increasing, Starts
    <2>5. Good(q)
      BY <2>3, <2>4, GoodIf
    <2>6. SubSeq(d, Len(d) + 1, Len(d)) = <<>>
      BY <1>1, SubSeqEmpty
    <2>7. AfterPos(o, n, Len(d)) /\ Len(d) \in 0 .. Len(d)
      <3>1. Len(d) <= c /\ c - Len(d) = 0 /\ Len(d) \in 0 .. Len(d)
        BY <1>1, <1>6
      <3> QED
        BY <1>1, <1>4, <2>3, <2>6, <3>1
    <2> QED
      BY <2>3, <2>5, <2>7 DEF q, d
  <1>7. CASE s # <<>> /\ c < Len(d)
    <2> DEFINE E == Ends(s, c)
               i == CHOOSE k \in E : \A j \in E : j <= k
               pos == s[i]
               d2 == SubSeq(d, pos + 1, Len(d))
    <2>1. E = {k \in 1 .. Len(s) : s[k] <= c}
      BY DEF Ends
    <2>2. E # {}
      <3>1. d[1].part = 1 /\ 1 \in 1 .. Len(d)
        BY <1>1, <1>2, <1>7
      <3>2. PICK k \in 1 .. Len(s) : s[k] = 1 - 1
        BY <3>1, <1>1 DEF Starts
      <3>3. s[k] <= c
        BY <1>1, <3>2
      <3> HIDE DEF E
      <3> QED
        BY <2>1, <3>2, <3>3
    <2>3. i \in E /\ \A j \in E : j <= i
      <3>1. \E k \in E : \A j \in E : j <= k
        BY <1>1, <2>1, <2>2, Greatest
      <3> QED
        BY <3>1
    <2>4. q = [o EXCEPT !.data = d2, !.sp = From(s, i), !.cursor = c - pos]
      BY <1>1, <1>3, <1>7
    <2> HIDE DEF i, E
    <2>5. /\ i \in 1 .. Len(s) /\ s[i] <= c
          /\ \A k \in 1 .. Len(s) : s[k] <= c => k <= i
      BY <2>1, <2>3
    <2>6. \A k \in 1 .. Len(s) : s[k] \in Nat /\ (k > i => s[k] > c)
      <3> TAKE k \in 1 .. Len(s)
      <3>1. s[k] \in Nat
        BY <1>1 DEF Starts
      <3>2. i \in Nat /\ k \in Nat
        BY <1>1, <2>5
      <3>3. s[k] <= c => k <= i
        BY <2>5
      <3> QED
        BY <1>1, <3>1, <3>2, <3>3
    <2>7. pos \in 0 .. Len(d) /\ pos \in Nat /\ d[pos + 1].part = 1 /\ pos < Len(d)
      BY <1>1, <2>5 DEF Starts
    <2>8. c - pos < Size(d[pos + 1].m)
      BY <1>1, <1>7, <2>5, <2>6, CutInside
    <2>9. From(s, i) \in Seq(Nat) /\ Increasing(From(s, i)) /\ Len(From(s, i)) > 0
      BY <1>1, <2>5, CutBoundaries
    <2>10. Starts(d2, From(s, i))
      BY <1>1, <2>5, CutStarts
    <2>11. /\ d2 \in Seq(Cell) /\ Framed(d2) /\ Len(d2) = Len(d) - pos
           /\ \A k \in 1 .. Len(d) - pos : d2[k] = d[pos + k]
      BY <1>1, <2>7, FramedRest
    <2> HIDE DEF pos, d2
    <2>12. Len(d2) > 0 /\ d2[1] = d[pos + 1] /\ c - pos \in Nat
      <3>1. 1 \in 1 .. Len(d) - pos /\ Len(d) - pos > 0
        BY <1>1, <2>7
      <3>2. pos <= c
        BY <2>5 DEF pos
      <3> QED
        BY <1>1, <2>7, <2>11, <3>1, <3>2
    <2>13. /\ q \in Buffer /\ q.data = d2 /\ q.sp = From(s, i) /\ q.cursor = c - pos
           /\ q.allowed = o.allowed /\ q.want = o.want
      BY <1>2, <2>4, <2>9, <2>11, <2>12 DEF Buffer
    <2>14. d2 # <<>> /\ From(s, i) # <<>>
      BY <2>9, <2>12, EmptySeq
    <2>15. Good(q)
      BY <2>8, <2>9, <2>10, <2>11, <2>12, <2>13, <2>14, GoodIf
    <2>16. AfterPos(o, n, pos)
      BY <1>4, <2>5, <2>7, <2>13 DEF d2, pos
    <2> QED
      BY <2>7, <2>13, <2>15, <2>16 DEF q, d
  <1>8. c = Len(d) \/ c < Len(d)
    BY <1>1
  <1> QED
    BY <1>5, <1>6, <1>7, <1>8

LEMMA ViewOf ==
    ASSUME NEW o, Good(o), NEW n \in Nat
    PROVE  /\ View(o) \in Seq(Cell) /\ Len(View(o)) = Len(o.data) - o.cursor
           /\ o.cursor + n <= Len(o.data) =>
                /\ SubSeq(View(o), 1, n) = SubSeq(o.data, o.cursor + 1, o.cursor + n)
                /\ SubSeq(View(o), 1, n) \in Seq(Cell)
  <1> DEFINE d == o.data
             k == o.cursor
             v == View(o)
  <1>1. d \in Seq(Cell) /\ k \in Nat /\ k <= Len(d) /\ Len(d) \in Nat
        /\ \A i \in 1 .. Len(d) : d[i] \in Cell
    BY Boundaries
  <1>2. v = SubSeq(d, k + 1, Len(d))
    BY DEF View
  <1> HIDE DEF d, k, v
  <1>3. /\ v \in Seq(Cell) /\ Len(v) = Len(d) - k
        /\ \A i \in 1 .. Len(d) - k : v[i] = d[k + i]
    <2>1. \A i \in k + 1 .. Len(d) : d[i] \in Cell
      BY <1>1
    <2>2. \A i \in 1 .. Len(d) - (k + 1) + 1 : v[i] = d[(k + 1) + i - 1]
      BY <1>1, <1>2, <2>1, SubSeqProperties
    <2>3. v \in Seq(Cell) /\ Len(v) = IF k + 1 <= Len(d) THEN Len(d) - (k + 1) + 1 ELSE 0
      BY <1>1, <1>2, <2>1, SubSeqProperties
    <2>4. Len(d) - (k + 1) + 1 = Len(d) - k
      BY <1>1
    <2>5. Len(v) = Len(d) - k
      <3> DEFINE N == Len(d)
      <3>1. N \in Nat /\ k \in Nat /\ k <= N
        BY <1>1
      <3>2. Len(v) = IF k + 1 <= N THEN N - (k + 1) + 1 ELSE 0
        BY <2>3
      <3> HIDE DEF N
      <3>3. k + 1 <= N \/ k = N
        BY <3>1
      <3>4. Len(v) = N - k
        BY <3>1, <3>2, <3>3
      <3> QED
        BY <3>4 DEF N
    <2>6. ASSUME NEW i \in 1 .. Len(d) - k
          PROVE  v[i] = d[k + i]
      <3>1. v[i] = d[(k + 1) + i - 1]
        BY <2>2, <2>4
      <3>2. (k + 1) + i - 1 = k + i
        BY <1>1
      <3> QED
        BY <3>1, <3>2
    <2> QED
      BY <2>3, <2>5, <2>6
  <1>4. ASSUME k + n <= Len(d)
        PROVE  /\ SubSeq(v, 1, n) = SubSeq(d, k + 1, k + n)
               /\ SubSeq(v, 1, n) \in Seq(Cell)
    <2> DEFINE x == SubSeq(v, 1, n)
               y == SubSeq(d, k + 1, k + n)
    <2>1. \A i \in 1 .. n : i \in 1 .. Len(v) /\ i \in 1 .. Len(d) - k /\ v[i] \in Cell
      <3>1. \A i \in 1 .. n : i \in 1 .. Len(v) /\ i \in 1 .. Len(d) - k
        BY <1>1, <1>3, <1>4
      <3> QED
        BY <1>3, <3>1, ElementOfSeq
    <2>2. /\ x \in Seq(Cell) /\ Len(x) = IF 1 <= n THEN n - 1 + 1 ELSE 0
          /\ \A i \in 1 .. n - 1 + 1 : x[i] = v[1 + i - 1]
      BY <2>1, SubSeqProperties
    <2>3. \A i \in k + 1 .. k + n : d[i] \in Cell
      BY <1>1, <1>4
    <2>4. /\ y \in Seq(Cell) /\ Len(y) = IF k + 1 <= k + n THEN (k + n) - (k + 1) + 1 ELSE 0
          /\ \A i \in 1 .. (k + n) - (k + 1) + 1 : y[i] = d[(k + 1) + i - 1]
      BY <1>1, <2>3, SubSeqProperties
    <2> HIDE DEF x, y
    <2>5. Len(x) = n /\ Len(y) = n /\ n - 1 + 1 = n /\ (k + n) - (k + 1) + 1 = n
      BY <1>1, <2>2, <2>4
    <2>6. ASSUME NEW i \in 1 .. n
          PROVE  x[i] = y[i]
      <3>1. 1 + i - 1 = i /\ (k + 1) + i - 1 = k + i
        BY <1>1
      <3>2. x[i] = v[i] /\ y[i] = d[k + i]
        BY <2>2, <2>4, <2>5, <3>1
      <3> QED
        BY <1>3, <2>1, <3>2
    <2>7. x = y
      BY <2>2, <2>4, <2>5, <2>6, SeqEqual
    <2> QED
      BY <2>2, <2>7 DEF x, y
  <1> QED
    BY <1>3, <1>4 DEF v, d, k

LEMMA PushAllOne ==
    ASSUME NEW o, NEW ms \in Seq(Message), Len(ms) <= 1
    PROVE  PushAll(o, ms) = IF Len(ms) = 0 THEN o ELSE Push(o, ms[1])
  <1> DEFINE N == Len(ms)
             Rec(f) == f = [i \in 0 .. N |-> IF i = 0 THEN o ELSE Push(f[i - 1], ms[i])]
             g == [i \in 0 .. N |-> IF i = 0 THEN o ELSE Push(o, ms[1])]
             r == CHOOSE f : Rec(f)
  <1>1. N \in {0, 1}
    <2>1. N \in Nat /\ N <= 1
      BY LenProperties
    <2> HIDE DEF N
    <2> QED
      BY <2>1
  <1>2. PushAll(o, ms) = r[N]
    BY DEF PushAll
  <1> HIDE DEF N
  <1>3. Rec(g)
    <2>1. \A i \in 0 .. N : g[i] = IF i = 0 THEN o ELSE Push(g[i - 1], ms[i])
      <3> TAKE i \in 0 .. N
      <3>1. CASE i = 0
        BY <3>1
      <3>2. CASE i = 1
        <4>1. 1 - 1 = 0 /\ g[0] = o /\ g[1] = Push(o, ms[1])
          BY <1>1, <3>2
        <4> QED
          BY <3>2, <4>1
      <3> QED
        BY <1>1, <3>1, <3>2
    <2> QED
      BY <2>1
  <1>4. Rec(r)
    BY <1>3
  <1> HIDE DEF r
  <1>5. r[0] = o
    BY <1>1, <1>4
  <1>6. N = 1 => r[1] = Push(o, ms[1])
    <2>1. N = 1 => r[1] = Push(r[1 - 1], ms[1])
      BY <1>4
    <2> QED
      BY <1>5, <2>1
  <1> QED
    BY <1>1, <1>2, <1>5, <1>6 DEF N

\* What one step does to a buffer: ext is added to it, w is written, and the
\* messages before pos are forgotten.
Wrote(o, ext, w, o2) == \E n, pos \in Nat :
    /\ o.cursor + n <= Len(o.data \o ext) /\ pos <= o.cursor + n
    /\ w = SubSeq(o.data \o ext, o.cursor + 1, o.cursor + n)
    /\ o2.data = SubSeq(o.data \o ext, pos + 1, Len(o.data \o ext))
    /\ o2.cursor = o.cursor + n - pos

LEMMA WroteNothing ==
    ASSUME NEW o, Good(o), NEW o2, NEW ext \in Seq(Cell),
           o2.data = o.data \o ext, o2.cursor = o.cursor
    PROVE  Wrote(o, ext, <<>>, o2)
  <1> DEFINE d == o.data \o ext
  <1>1. d \in Seq(Cell) /\ Len(d) \in Nat /\ o.cursor \in Nat /\ o.cursor <= Len(d)
    BY Boundaries, ConcatProperties, LenProperties
  <1>2. o.cursor + 0 <= Len(d) /\ 0 <= o.cursor + 0 /\ o.cursor = o.cursor + 0 - 0
    BY <1>1
  <1>3. SubSeq(d, o.cursor + 1, o.cursor + 0) = <<>>
    BY <1>1, SubSeqEmpty
  <1>4. d = SubSeq(d, 0 + 1, Len(d))
    BY <1>1, SubSeqFull
  <1> QED
    BY <1>2, <1>3, <1>4 DEF Wrote

LEMMA WroteSome ==
    ASSUME NEW o, Good(o), NEW ext \in Seq(Cell), NEW p, Good(p), NEW n \in Nat,
           p.data = o.data \o ext, p.cursor = o.cursor, n <= Len(View(p))
    PROVE  /\ Good(AfterSend(p, n)) /\ SubSeq(View(p), 1, n) \in Seq(Cell)
           /\ AfterSend(p, n).allowed = p.allowed /\ AfterSend(p, n).want = p.want
           /\ \A o2 : o2.data = AfterSend(p, n).data /\ o2.cursor = AfterSend(p, n).cursor
                      => Wrote(o, ext, SubSeq(View(p), 1, n), o2)
  <1>1. /\ p.cursor \in Nat /\ Len(p.data) \in Nat
    BY Boundaries
  <1>2. p.cursor + n <= Len(p.data)
    BY <1>1, ViewOf
  <1>3. /\ SubSeq(View(p), 1, n) \in Seq(Cell)
        /\ SubSeq(View(p), 1, n) = SubSeq(p.data, p.cursor + 1, p.cursor + n)
    BY <1>2, ViewOf
  <1>4. Good(AfterSend(p, n)) /\ AfterSend(p, n).allowed = p.allowed
        /\ AfterSend(p, n).want = p.want
    BY <1>2, AfterSendGood
  <1>5. PICK pos \in 0 .. Len(p.data) : AfterPos(p, n, pos)
    BY <1>2, AfterSendGood
  <1>6. pos \in Nat
    BY <1>1
  <1> QED
    BY <1>1, <1>2, <1>3, <1>4, <1>5, <1>6 DEF Wrote, AfterPos

\* A buffer that changes its flags only.
LEMMA FlagsFree ==
    ASSUME NEW o, Good(o), NEW a \in BOOLEAN, NEW b \in BOOLEAN
    PROVE  /\ Good([o EXCEPT !.allowed = a, !.want = b])
           /\ Good([o EXCEPT !.allowed = a]) /\ Good([o EXCEPT !.want = b])
  <1>1. o \in Buffer
    BY DEF Good
  <1>2. ASSUME NEW p \in Buffer, p.data = o.data, p.sp = o.sp, p.cursor = o.cursor
        PROVE  Good(p)
    BY <1>2 DEF Good, Sound
  <1>3. /\ [o EXCEPT !.allowed = a, !.want = b] \in Buffer
        /\ [o EXCEPT !.allowed = a] \in Buffer /\ [o EXCEPT !.want = b] \in Buffer
    BY <1>1 DEF Buffer
  <1> QED
    BY <1>1, <1>2, <1>3 DEF Buffer

\* flush_buffer() with a message that was added.
LEMMA FlushedWrote ==
    ASSUME NEW o, Good(o), NEW m \in Message, NEW n \in Nat,
           o.allowed => n <= Len(View(Push(o, m)))
    PROVE  /\ Good(Flushed(Push(o, m), n)) /\ Taken(Push(o, m), n) \in Seq(Cell)
           /\ Wrote(o, Cells(m), Taken(Push(o, m), n), Flushed(Push(o, m), n))
  <1> DEFINE p == Push(o, m)
  <1>1. /\ Good(p) /\ p.data = o.data \o Cells(m) /\ p.cursor = o.cursor
        /\ p.allowed = o.allowed
    BY PushGood
  <1>2. Cells(m) \in Seq(Cell)
    BY CellsOf
  <1>3. CASE o.allowed
    <2> DEFINE q == AfterSend(p, n)
               f == [q EXCEPT !.allowed = FALSE, !.want = TRUE]
    <2>1. Flushed(p, n) = f /\ Taken(p, n) = SubSeq(View(p), 1, n)
      BY <1>1, <1>3 DEF Flushed, Taken
    <2>2. Good(q) /\ SubSeq(View(p), 1, n) \in Seq(Cell)
      BY <1>1, <1>2, <1>3, WroteSome
    <2>3. Good(f)
      BY <2>2, FlagsFree
    <2>4. f.data = q.data /\ f.cursor = q.cursor
      BY <2>2 DEF Good, Buffer
    <2>5. Wrote(o, Cells(m), SubSeq(View(p), 1, n), f)
      <3> HIDE DEF q, f, p
      <3>1. q = AfterSend(p, n)
        BY DEF q
      <3> QED
        BY <1>1, <1>2, <1>3, <2>4, <3>1, WroteSome DEF p
    <2> QED
      BY <2>1, <2>2, <2>3, <2>5
  <1>4. CASE ~ o.allowed
    <2>1. Flushed(p, n) = p /\ Taken(p, n) = <<>>
      BY <1>1, <1>4 DEF Flushed, Taken
    <2> QED
      BY <1>1, <1>2, <2>1, WroteNothing, EmptySeq
  <1> QED
    BY <1>3, <1>4

\* output_message() of some messages.
LEMMA OutputGood ==
    ASSUME NEW o, Good(o), NEW hs \in BOOLEAN, NEW ms \in Seq(Message), Len(ms) <= 2,
           NEW n \in FlushSizes(o, ms) \cup {0}
    PROVE  Good(Output(o, hs, ms, n)) /\ OutputCells(o, hs, ms, n) \in Seq(Cell)
  <1>1. CASE hs \/ ms = <<>>
    BY <1>1, EmptySeq DEF Output, OutputCells
  <1>2. CASE ~ hs /\ ms # <<>>
    <2> DEFINE p == Push(o, Head(ms))
               f == Flushed(p, n)
    <2>1. Head(ms) \in Message /\ Tail(ms) \in Seq(Message) /\ Len(Tail(ms)) = Len(ms) - 1
      BY <1>2, HeadTailProperties
    <2>2. n \in Nat /\ (o.allowed => n <= Len(View(p)))
      <3>1. Good(p)
        BY <2>1, PushGood
      <3>2. Len(View(p)) \in Nat
        BY <3>1, ViewOf, LenProperties
      <3> QED
        BY <1>2, <3>2 DEF FlushSizes
    <2>3. Good(f) /\ Taken(p, n) \in Seq(Cell)
      BY <2>1, <2>2, FlushedWrote
    <2>4. Output(o, hs, ms, n) = PushAll(f, Tail(ms)) /\ OutputCells(o, hs, ms, n) = Taken(p, n)
      BY <1>2 DEF Output, OutputCells
    <2>5. Len(Tail(ms)) \in Nat /\ Len(Tail(ms)) <= 1
      <3>1. Len(ms) \in Nat
        BY LenProperties
      <3>2. Len(Tail(ms)) \in Nat
        BY <2>1, LenProperties
      <3> QED
        BY <2>1, <3>1, <3>2
    <2> HIDE DEF f
    <2>6. PushAll(f, Tail(ms)) = IF Len(Tail(ms)) = 0 THEN f ELSE Push(f, Tail(ms)[1])
      BY <2>1, <2>5, PushAllOne
    <2>7. Len(Tail(ms)) # 0 => Tail(ms)[1] \in Message
      <3>1. Len(Tail(ms)) # 0 => 1 \in 1 .. Len(Tail(ms))
        <4> DEFINE N == Len(Tail(ms))
        <4>1. N \in Nat
          BY <2>5
        <4> HIDE DEF N
        <4>2. N # 0 => 1 \in 1 .. N
          BY <4>1
        <4> QED
          BY <4>2 DEF N
      <3> QED
        BY <2>1, <3>1, ElementOfSeq
    <2>8. Good(PushAll(f, Tail(ms)))
      BY <2>3, <2>6, <2>7, PushGood
    <2> QED
      BY <2>3, <2>4, <2>8
  <1> QED
    BY <1>1, <1>2

\* The cells that a message adds, if it goes out at all.
Extension(hs, ms) == IF hs \/ ms = <<>> THEN <<>> ELSE Cells(Head(ms))

LEMMA OutputWrote ==
    ASSUME NEW o, Good(o), NEW hs \in BOOLEAN, NEW ms \in Seq(Message), Len(ms) <= 1,
           NEW n \in FlushSizes(o, ms) \cup {0}
    PROVE  Wrote(o, Extension(hs, ms), OutputCells(o, hs, ms, n), Output(o, hs, ms, n))
  <1>1. CASE hs \/ ms = <<>>
    <2>1. o.data \o <<>> = o.data
      BY Boundaries, ConcatEmptySeq
    <2> QED
      BY <1>1, <2>1, WroteNothing, EmptySeq DEF Output, OutputCells, Extension
  <1>2. CASE ~ hs /\ ms # <<>>
    <2> DEFINE p == Push(o, Head(ms))
               f == Flushed(p, n)
    <2>1. Head(ms) \in Message /\ Tail(ms) \in Seq(Message) /\ Len(Tail(ms)) = Len(ms) - 1
      BY <1>2, HeadTailProperties
    <2>2. n \in Nat /\ (o.allowed => n <= Len(View(p)))
      <3>1. Good(p)
        BY <2>1, PushGood
      <3>2. Len(View(p)) \in Nat
        BY <3>1, ViewOf, LenProperties
      <3> QED
        BY <1>2, <3>2 DEF FlushSizes
    <2>3. Wrote(o, Cells(Head(ms)), Taken(p, n), f)
      BY <2>1, <2>2, FlushedWrote
    <2>4. Len(Tail(ms)) = 0
      <3>1. Len(ms) \in Nat /\ Len(Tail(ms)) \in Nat
        BY <2>1, LenProperties
      <3> QED
        BY <2>1, <3>1
    <2> HIDE DEF f
    <2>5. PushAll(f, Tail(ms)) = f
      <3>1. Len(Tail(ms)) <= 1
        BY <2>4
      <3> QED
        BY <2>1, <2>4, <3>1, PushAllOne
    <2> QED
      BY <1>2, <2>3, <2>5 DEF Output, OutputCells, Extension, f
  <1> QED
    BY <1>1, <1>2

-----------------------------------------------------------------------------
(* What is written.                                                        *)

\* A piece of a sequence of cells.
LEMMA Piece ==
    ASSUME NEW s \in Seq(Cell), NEW a \in Nat, NEW b \in Nat, a <= b, b <= Len(s)
    PROVE  /\ SubSeq(s, a + 1, b) \in Seq(Cell) /\ Len(SubSeq(s, a + 1, b)) = b - a
           /\ \A i \in 1 .. b - a : SubSeq(s, a + 1, b)[i] = s[a + i]
  <1>1. Len(s) \in Nat
    BY LenProperties
  <1>2. ASSUME NEW i \in a + 1 .. b
        PROVE  s[i] \in Cell
    <2>1. i \in 1 .. Len(s)
      BY <1>1
    <2> QED
      BY <2>1, ElementOfSeq
  <1>3. a + 1 \in Int /\ b \in Int
    OBVIOUS
  <1> DEFINE q == SubSeq(s, a + 1, b)
  <1>4. /\ q \in Seq(Cell) /\ Len(q) = IF a + 1 <= b THEN b - (a + 1) + 1 ELSE 0
        /\ \A i \in 1 .. b - (a + 1) + 1 : q[i] = s[(a + 1) + i - 1]
    BY <1>2, <1>3, SubSeqProperties
  <1> HIDE DEF q
  <1>5. Len(q) = b - a /\ b - (a + 1) + 1 = b - a
    BY <1>4
  <1>6. ASSUME NEW i \in 1 .. b - a
        PROVE  q[i] = s[a + i]
    <2>1. (a + 1) + i - 1 = a + i
      OBVIOUS
    <2> QED
      BY <1>4, <1>5, <2>1
  <1> QED
    BY <1>4, <1>5, <1>6 DEF q

\* Of the cells d, n from at on are written, as w, and all but the first pos
\* stay in the buffer o2; of those that are written the first part of a
\* message at most.
Sends(d, at, w, o2, n, pos) ==
    /\ Len(d) \in Nat /\ at \in {0, 1} /\ at + n <= Len(d) /\ pos <= at + n
    /\ w \in Seq(Cell) /\ Len(w) = n /\ \A i \in 1 .. n : w[i] = d[at + i]
    /\ Len(o2.data) = Len(d) - pos
    /\ \A i \in 1 .. Len(d) - pos : o2.data[i] = d[pos + i]
    /\ o2.cursor = at + n - pos /\ o2.cursor \in {0, 1}
    /\ \A i \in 1 .. Len(d) : pos < i /\ i <= at + n => i = pos + 1 /\ d[i].part = 1
    /\ o2.cursor = 1 => pos + 1 \in 1 .. Len(d)

\* The cells of a buffer to which ext is added, those that are written, and
\* those that stay.
LEMMA WroteCells ==
    ASSUME NEW o, Good(o), NEW ext \in Seq(Cell), NEW w, NEW o2, Good(o2),
           Wrote(o, ext, w, o2), NEW d, d = o.data \o ext
    PROVE  \E n, pos \in Nat : Sends(d, o.cursor, w, o2, n, pos)
  <1>1. PICK n \in Nat, pos \in Nat :
          /\ o.cursor + n <= Len(d) /\ pos <= o.cursor + n
          /\ w = SubSeq(d, o.cursor + 1, o.cursor + n)
          /\ o2.data = SubSeq(d, pos + 1, Len(d)) /\ o2.cursor = o.cursor + n - pos
    BY DEF Wrote
  <1> DEFINE L == Len(d)
             k == o.cursor
  <1>2. d \in Seq(Cell) /\ L \in Nat /\ k \in {0, 1}
    BY Boundaries, ConcatProperties, LenProperties
  <1>3. \A i \in 1 .. L : d[i] \in Cell
    BY <1>2, ElementOfSeq
  <1>4. k + n <= L /\ pos <= k + n
    BY <1>1
  <1>5. w = SubSeq(d, k + 1, k + n) /\ o2.data = SubSeq(d, pos + 1, L)
    BY <1>1
  <1>6. o2.cursor = k + n - pos
    BY <1>1
  <1> HIDE DEF L, k
  <1>7. w \in Seq(Cell) /\ Len(w) = n /\ \A i \in 1 .. n : w[i] = d[k + i]
    <2>1. k \in Nat /\ k + n \in Nat /\ k <= k + n /\ k + n <= Len(d)
      BY <1>2, <1>4 DEF L
    <2>2. (k + n) - k = n
      BY <1>2
    <2>3. LET q == SubSeq(d, k + 1, k + n)
          IN  q \in Seq(Cell) /\ Len(q) = (k + n) - k /\ \A i \in 1 .. (k + n) - k : q[i] = d[k + i]
      BY <1>2, <2>1, Piece
    <2> QED
      BY <1>5, <2>2, <2>3
  <1>8. Len(o2.data) = L - pos /\ \A i \in 1 .. L - pos : o2.data[i] = d[pos + i]
    <2>1. pos <= L /\ L \in Nat /\ L <= Len(d)
      BY <1>2, <1>4 DEF L
    <2>2. LET q == SubSeq(d, pos + 1, L)
          IN  Len(q) = L - pos /\ \A i \in 1 .. L - pos : q[i] = d[pos + i]
      BY <1>2, <2>1, Piece
    <2> QED
      BY <1>5, <2>2
  <1>9. /\ o2.cursor \in {0, 1} /\ o2.cursor <= Len(o2.data)
        /\ o2.data # <<>> => o2.data[1].part = 1
    BY Boundaries
  <1>10. pos < L => d[pos + 1].part = 1
    <2> HAVE pos < L
    <2>1. Len(o2.data) > 0 /\ 1 \in 1 .. L - pos
      BY <1>2, <1>8
    <2>2. o2.data # <<>>
      BY <2>1, EmptySeq
    <2>3. o2.data[1] = d[pos + 1]
      BY <1>8, <2>1
    <2> QED
      BY <1>9, <2>2, <2>3
  <1>11. ASSUME NEW i \in 1 .. L, pos < i, i <= k + n
         PROVE  i = pos + 1 /\ d[i].part = 1
    <2>1. k + n - pos \in {0, 1}
      BY <1>6, <1>9
    <2>2. i = pos + 1 /\ pos < L
      BY <1>2, <1>4, <1>11, <2>1
    <2> QED
      BY <1>10, <2>2
  <1>12. o2.cursor = 1 => pos + 1 \in 1 .. L /\ d[pos + 1].part = 1
    <2>1. o2.cursor = 1 => pos < L /\ pos + 1 \in 1 .. L
      BY <1>2, <1>8, <1>9
    <2> QED
      BY <1>10, <2>1
  <1>13. Sends(d, k, w, o2, n, pos)
    BY <1>2, <1>4, <1>6, <1>7, <1>8, <1>9, <1>11, <1>12 DEF L, Sends
  <1> QED
    BY <1>13 DEF k

\* clear_to_send() with something to send, or with nothing.
LEMMA ClearedWrote ==
    ASSUME NEW o, Good(o), NEW n \in Nat, n <= Len(View(o))
    PROVE  /\ Good(ClearedToSend(o, n)) /\ SubSeq(View(o), 1, n) \in Seq(Cell)
           /\ Wrote(o, <<>>, SubSeq(View(o), 1, n), ClearedToSend(o, n))
  <1> DEFINE p == [o EXCEPT !.want = FALSE]
             r == AfterSend(p, n)
  <1>1. Good(p) /\ p.data = o.data /\ p.cursor = o.cursor
    BY FlagsFree DEF Good, Buffer
  <1>2. o.data \in Seq(Cell) /\ <<>> \in Seq(Cell)
    BY Boundaries, EmptySeq
  <1>3. p.data = o.data \o <<>> /\ View(p) = View(o)
    BY <1>1, <1>2, ConcatEmptySeq DEF View
  <1> HIDE DEF p
  <1>4. /\ Good(r) /\ SubSeq(View(o), 1, n) \in Seq(Cell)
        /\ \A o2 : o2.data = r.data /\ o2.cursor = r.cursor
                   => Wrote(o, <<>>, SubSeq(View(o), 1, n), o2)
    BY <1>1, <1>2, <1>3, WroteSome
  <1>5. r \in Buffer
    BY <1>4 DEF Good
  <1> HIDE DEF r
  <1>6. Good([r EXCEPT !.want = TRUE]) /\ Good([r EXCEPT !.allowed = TRUE])
    BY <1>4, FlagsFree
  <1>7. /\ [r EXCEPT !.want = TRUE].data = r.data /\ [r EXCEPT !.want = TRUE].cursor = r.cursor
        /\ [r EXCEPT !.allowed = TRUE].data = r.data
        /\ [r EXCEPT !.allowed = TRUE].cursor = r.cursor
    BY <1>5 DEF Buffer
  <1>8. ClearedToSend(o, n) \in {[r EXCEPT !.want = TRUE], [r EXCEPT !.allowed = TRUE]}
    BY DEF ClearedToSend, p, r
  <1> QED
    BY <1>4, <1>6, <1>7, <1>8

-----------------------------------------------------------------------------
(* Messages about the lists of channels.                                   *)

\* At most one message, and none of the bus.
Quiet(ms) == ms \in Seq(Message) /\ Len(ms) <= 1 /\ (ms # <<>> => Head(ms).t # "msg")

LEMMA OneQuiet ==
    ASSUME NEW m \in Message, m.t # "msg"
    PROVE  Quiet(<<m>>) /\ Quiet(<<>>)
  BY EmptySeq DEF Quiet

LEMMA UpdateQuiet ==
    ASSUME NEW list \in Version, NEW told \in Version \cup {None}, NEW reset \in BOOLEAN
    PROVE  Quiet(Update(list, told, reset))
  <1>1. \A a \in Version \cup {Whole} : ChannelUpdate(a, list) \in Message
                                       /\ ChannelUpdate(a, list).t # "msg"
    BY MessagesTyped DEF ChannelUpdate
  <1>2. \A a \in Version \cup {Whole} : Quiet(<<ChannelUpdate(a, list)>>)
    BY <1>1, OneQuiet
  <1>3. Quiet(<<>>)
    BY MessagesTyped, OneQuiet DEF Get
  <1>4. CASE told = None \/ reset
    BY <1>2, <1>4 DEF Update
  <1>5. CASE ~ (told = None \/ reset)
    BY <1>2, <1>3, <1>5 DEF Update
  <1> QED
    BY <1>4, <1>5

LEMMA AnswerQuiet ==
    ASSUME NEW m, NEW list \in Version, NEW told \in Version \cup {None}
    PROVE  Quiet(Answer(m, list, told))
  <1>1. Quiet(<<>>)
    BY MessagesTyped, OneQuiet DEF Get
  <1> QED
    BY <1>1, UpdateQuiet DEF Answer

LEMMA KnownTyped ==
    ASSUME NEW m \in Message, NEW known \in List
    PROVE  Known(m, known) \in List
  <1>1. None \in List /\ Wrong \in List /\ \A v \in Version : v \in List
    BY BoundsNat DEF List, None, Wrong, Version
  <1>2. m.t = "chan" => m.b \in Version
    BY MessagesTyped
  <1> QED
    BY <1>1, <1>2 DEF Known, Apply

-----------------------------------------------------------------------------
(* The invariant.                                                          *)

Connection == [up : BOOLEAN, toS : Seq(Cell), toC : Seq(Cell)]
PeerType == [st : {"none", "handshake", "open", "lost", "gone"}, out : Buffer, rd : BOOLEAN,
             opening : BOOLEAN, told : Version \cup {None}, known : List, part : Seq(Cell)]
ClientType == [hs : BOOLEAN, out : Buffer, rd : BOOLEAN, reset : BOOLEAN, retry : BOOLEAN,
               timer : BOOLEAN, list : Version, told : Version \cup {None}, known : List]

VarsTyped ==
    /\ conn \in 0 .. MaxConn /\ sent \in 0 .. MaxMsgs /\ lost \in BOOLEAN
    /\ received \in Seq(1 .. sent)
    /\ cl \in ClientType /\ sv \in [Conn -> PeerType] /\ net \in [Conn -> Connection]
    /\ srv \in [list : Version, timer : BOOLEAN, stuck : BOOLEAN]
    /\ cl.list + srv.list <= MaxChanges + 2

BuffersGood == Good(cl.out) /\ \A c \in Conn : Good(sv[c].out)

\* Connections are made one after the other, and only the last is up.
OneByOne ==
    /\ conn = 0 => ~cl.rd /\ ~cl.timer /\ cl.hs
    /\ \A c \in Conn : c > conn => /\ net[c] = [up |-> FALSE, toS |-> <<>>, toC |-> <<>>]
                                   /\ sv[c].st = "none"
    /\ \A c \in Conn : net[c].up => c = conn
    /\ \A c \in Conn : sv[c].st \in {"none", "handshake"} => ~ sv[c].opening

GetCell == [m |-> Get, part |-> 1]
Fresh(c) == sv[c].st = "none" \/ (sv[c].st = "handshake" /\ sv[c].rd)

\* Nothing but the request is sent before the response, so that a peer takes
\* nothing else for it; and who has given up a connection has read it all.
Handshakes ==
    /\ \A c \in Conn : Fresh(c) =>
         /\ sv[c].part = <<>> /\ sv[c].out.data = <<>> /\ net[c].toC = <<>>
         /\ net[c].toS \in {<<>>, <<GetCell>>}
         /\ c = conn => cl.hs
    /\ cl.hs => cl.out.cursor = 0
    /\ conn \in Conn /\ net[conn].up /\ cl.hs /\ cl.out.want => net[conn].toS = <<>>
    /\ \A c \in Conn : sv[c].st \in {"lost", "gone"} \/ (sv[c].st = "open" /\ ~sv[c].rd)
                       => net[c].toS = <<>> /\ ~net[c].up

\* What a peer has of a message, and what it can read after it.
Stream(c) == sv[c].part \o net[c].toS
WholeStream(s) ==
    \A i \in 1 .. Len(s) : s[i].part = 2 => i > 1 /\ s[i - 1] = [s[i] EXCEPT !.part = 1]

\* A message that is sent in part goes on where the stream ends.
Continued ==
    conn \in Conn /\ net[conn].up /\ cl.out.cursor = 1 =>
        Stream(conn) # <<>> /\ Stream(conn)[Len(Stream(conn))] = cl.out.data[1]

\* The last cell of a bus message.  It is in one place only: in the client's
\* buffer (lane 0), on its way on a connection, or, as a received message, at
\* the server's broker (lane -1).
Final(x) == x.m.t = "msg" /\ x.part = 2
Lane == -1 .. MaxConn
Received(r) == [i \in 1 .. Len(r) |-> [m |-> Msg(r[i]), part |-> 2]]
Lanes(d, n, r) ==
    [k \in Lane |-> IF k = 0 THEN d ELSE IF k = -1 THEN Received(r) ELSE n[k].toS]
Once(F, s) ==
    \A j, k \in Lane : \A i \in 1 .. Len(F[j]), h \in 1 .. Len(F[k]) :
        Final(F[j][i]) => F[j][i].m.a <= s /\ (F[k][h] = F[j][i] => j = k /\ i = h)
Places == Once(Lanes(cl.out.data, net, received), sent)

SessionInv ==
    /\ VarsTyped /\ BuffersGood /\ OneByOne /\ Handshakes
    /\ Continued /\ MessagesWhole /\ Places

-----------------------------------------------------------------------------
(* Places.                                                                 *)

\* g tells from where in F what is in G has come.
Moved(F, G, g) ==
    \A k \in Lane : \A i \in 1 .. Len(G[k]) : Final(G[k][i]) =>
        /\ g[k][i][1] \in Lane /\ g[k][i][2] \in 1 .. Len(F[g[k][i][1]])
        /\ G[k][i] = F[g[k][i][1]][g[k][i][2]]
OneToOne(G, g) ==
    \A j, k \in Lane : \A i \in 1 .. Len(G[j]), h \in 1 .. Len(G[k]) :
        /\ Final(G[j][i]) /\ Final(G[k][h])
        /\ g[j][i][1] = g[k][h][1] /\ g[j][i][2] = g[k][h][2]
        => j = k /\ i = h

LEMMA OnceMoved ==
    ASSUME NEW F, NEW s, Once(F, s), NEW G, NEW g, Moved(F, G, g), OneToOne(G, g)
    PROVE  Once(G, s)
  <1> SUFFICES ASSUME NEW j \in Lane, NEW k \in Lane, NEW i \in 1 .. Len(G[j]),
                      NEW h \in 1 .. Len(G[k]), Final(G[j][i])
               PROVE  G[j][i].m.a <= s /\ (G[k][h] = G[j][i] => j = k /\ i = h)
    BY DEF Once
  <1> DEFINE j1 == g[j][i][1]
             i1 == g[j][i][2]
             k1 == g[k][h][1]
             h1 == g[k][h][2]
  <1>1. j1 \in Lane /\ i1 \in 1 .. Len(F[j1]) /\ G[j][i] = F[j1][i1]
    BY DEF Moved
  <1>2. Final(G[k][h]) => k1 \in Lane /\ h1 \in 1 .. Len(F[k1]) /\ G[k][h] = F[k1][h1]
    BY DEF Moved
  <1>3. Final(G[k][h]) /\ j1 = k1 /\ i1 = h1 => j = k /\ i = h
    BY DEF OneToOne
  <1> HIDE DEF j1, i1, k1, h1
  <1>4. G[j][i].m.a <= s
    BY <1>1, <1>1 DEF Once
  <1>5. ASSUME G[k][h] = G[j][i]
        PROVE  j = k /\ i = h
    <2>1. Final(G[k][h])
      BY <1>5
    <2>2. F[k1][h1] = F[j1][i1] /\ Final(F[j1][i1])
      BY <1>1, <1>2, <1>5, <2>1
    <2>3. j1 = k1 /\ i1 = h1
      BY <1>1, <1>2, <2>1, <2>2 DEF Once
    <2> QED
      BY <1>3, <2>1, <2>3
  <1> QED
    BY <1>4, <1>5

\* A new message in the buffer.
LEMMA OnceExtended ==
    ASSUME NEW F, NEW s \in Nat, Once(F, s), NEW s2 \in Nat, s <= s2, 0 \in Lane,
           NEW G, \A k \in Lane : F[k] \in Seq(Cell), NEW ext \in Seq(Cell),
           G[0] = F[0] \o ext, \A k \in Lane : k # 0 => G[k] = F[k],
           \A i \in 1 .. Len(ext) : Final(ext[i]) => s < ext[i].m.a /\ ext[i].m.a <= s2,
           \A i, h \in 1 .. Len(ext) : Final(ext[i]) /\ ext[h] = ext[i] => i = h
    PROVE  Once(G, s2)
  <1>1. /\ Len(F[0]) \in Nat /\ Len(ext) \in Nat /\ Len(G[0]) = Len(F[0]) + Len(ext)
        /\ \A i \in 1 .. Len(F[0]) : G[0][i] = F[0][i]
        /\ \A i \in 1 .. Len(ext) : G[0][Len(F[0]) + i] = ext[i]
    BY ConcatProperties, LenProperties
  <1> DEFINE L == Len(F[0])
             Old(k, i) == i \in 1 .. Len(F[k]) /\ G[k][i] = F[k][i]
             New(k, i) == k = 0 /\ i - L \in 1 .. Len(ext) /\ G[k][i] = ext[i - L]
  <1>2. ASSUME NEW k \in Lane, NEW i \in 1 .. Len(G[k])
        PROVE  Old(k, i) \/ New(k, i)
    <2>1. CASE k # 0
      BY <2>1
    <2>2. CASE k = 0
      <3>1. i \in 1 .. L \/ i - L \in 1 .. Len(ext)
        BY <1>1, <2>2
      <3>2. CASE i \in 1 .. L
        BY <1>1, <2>2, <3>2
      <3>3. CASE i - L \in 1 .. Len(ext)
        <4>1. G[0][L + (i - L)] = ext[i - L] /\ L + (i - L) = i
          BY <1>1, <3>3
        <4> QED
          BY <2>2, <3>3, <4>1
      <3> QED
        BY <3>1, <3>2, <3>3
    <2> QED
      BY <2>1, <2>2
  <1>3. \A k \in Lane : \A i \in 1 .. Len(F[k]) : Final(F[k][i]) => F[k][i].m.a \in Nat /\ F[k][i].m.a <= s
    <2> TAKE k \in Lane
    <2> TAKE i \in 1 .. Len(F[k])
    <2> HAVE Final(F[k][i])
    <2>1. F[k][i] \in Cell
      BY ElementOfSeq
    <2>2. F[k][i].m \in Message
      BY <2>1, CellTyped
    <2>3. F[k][i].m.a \in 1 .. MaxMsgs
      BY <2>2, MessagesTyped DEF Final
    <2> QED
      BY <2>3, BoundsNat DEF Once
  <1> SUFFICES ASSUME NEW j \in Lane, NEW k \in Lane, NEW i \in 1 .. Len(G[j]),
                      NEW h \in 1 .. Len(G[k]), Final(G[j][i])
               PROVE  G[j][i].m.a <= s2 /\ (G[k][h] = G[j][i] => j = k /\ i = h)
    BY DEF Once
  <1>4. (Old(j, i) \/ New(j, i)) /\ (Old(k, h) \/ New(k, h))
    BY <1>2
  <1>5. CASE Old(j, i) /\ Old(k, h)
    BY <1>3, <1>5, SMTT(30) DEF Once
  <1>6. CASE Old(j, i) /\ New(k, h)
    <2>1. F[j][i].m.a \in Nat /\ F[j][i].m.a <= s
      BY <1>3, <1>6
    <2>2. Final(ext[h - L]) => s < ext[h - L].m.a
      BY <1>6
    <2>3. Final(F[j][i]) /\ G[j][i] = F[j][i] /\ G[k][h] = ext[h - L]
      BY <1>6
    <2> HIDE DEF Old, New, L
    <2>4. F[j][i] # ext[h - L]
      BY <2>1, <2>2, <2>3
    <2>5. F[j][i].m.a <= s2
      BY <2>1
    <2> QED
      BY <2>3, <2>4, <2>5
  <1>7. CASE New(j, i) /\ Old(k, h)
    <2>1. s < ext[i - L].m.a /\ ext[i - L].m.a <= s2
      BY <1>7
    <2>2. Final(F[k][h]) => F[k][h].m.a \in Nat /\ F[k][h].m.a <= s
      BY <1>3, <1>7
    <2>3. Final(ext[i - L]) /\ G[j][i] = ext[i - L] /\ G[k][h] = F[k][h]
      BY <1>7
    <2> HIDE DEF Old, New, L
    <2>4. F[k][h] # ext[i - L]
      BY <2>1, <2>2, <2>3, SMTT(30)
    <2> QED
      BY <2>1, <2>3, <2>4
  <1>8. CASE New(j, i) /\ New(k, h)
    <2>1. ext[i - L].m.a <= s2
      BY <1>8
    <2>2. ext[h - L] = ext[i - L] => i - L = h - L
      BY <1>8
    <2>3. i \in Int /\ h \in Int /\ L \in Int
      BY <1>1
    <2>4. G[j][i] = ext[i - L] /\ G[k][h] = ext[h - L] /\ j = k
      BY <1>8
    <2> HIDE DEF Old, New, L
    <2> QED
      BY <2>1, <2>2, <2>3, <2>4
  <1> QED
    BY <1>4, <1>5, <1>6, <1>7, <1>8

\* What is read or cut off: in every lane off cells go away at the front.
LEMMA OnceShrunk ==
    ASSUME NEW F, NEW s, Once(F, s), NEW G, NEW off \in [Lane -> Nat],
           \A k \in Lane : \A i \in 1 .. Len(G[k]) :
             \/ ~ Final(G[k][i])
             \/ i + off[k] \in 1 .. Len(F[k]) /\ G[k][i] = F[k][i + off[k]]
    PROVE  Once(G, s)
  <1> DEFINE g == [k \in Lane |-> [i \in Nat |-> <<k, i + off[k]>>]]
  <1>1. \A k \in Lane : \A i \in 1 .. Len(G[k]) : g[k][i][1] = k /\ g[k][i][2] = i + off[k]
    OBVIOUS
  <1> HIDE DEF g
  <1>2. Moved(F, G, g)
    BY <1>1 DEF Moved
  <1>3. OneToOne(G, g)
    <2> SUFFICES ASSUME NEW j \in Lane, NEW k \in Lane, NEW i \in 1 .. Len(G[j]),
                        NEW h \in 1 .. Len(G[k]), g[j][i][1] = g[k][h][1],
                        g[j][i][2] = g[k][h][2]
                 PROVE  j = k /\ i = h
      BY DEF OneToOne
    <2>0. /\ g[j][i][1] = j /\ g[j][i][2] = i + off[j]
          /\ g[k][h][1] = k /\ g[k][h][2] = h + off[k]
      BY <1>1
    <2>1. j = k
      BY <2>0
    <2>2. i + off[j] = h + off[k]
      BY <2>0
    <2>3. off[j] \in Nat
      OBVIOUS
    <2> QED
      BY <2>1, <2>2, <2>3
  <1> QED
    BY <1>2, <1>3, OnceMoved

\* What is written: m of n cells from at on are added to lane c, and the
\* first pos cells of the buffer go away.  Of what is written only a first
\* part stays in the buffer.
Writes(F, G, c, at, m, n, pos) ==
    /\ m <= n /\ at + n <= Len(F[0])
    /\ Len(G[0]) = Len(F[0]) - pos /\ \A i \in 1 .. Len(F[0]) - pos : G[0][i] = F[0][pos + i]
    /\ Len(G[c]) = Len(F[c]) + m /\ \A i \in 1 .. Len(F[c]) : G[c][i] = F[c][i]
    /\ \A i \in 1 .. m : G[c][Len(F[c]) + i] = F[0][at + i]
    /\ \A k \in Lane : k # 0 /\ k # c => G[k] = F[k]
    /\ \A i \in 1 .. Len(F[0]) : pos < i /\ i <= at + n => F[0][i].part = 1

LEMMA OnceWritten ==
    ASSUME NEW F, NEW s, Once(F, s), NEW G, 0 \in Lane, NEW c \in Lane, c # 0,
           NEW at \in Nat, NEW m \in Nat, NEW n \in Nat, NEW pos \in Nat,
           NEW L \in Nat, L = Len(F[0]), NEW Lc \in Nat, Lc = Len(F[c]),
           Writes(F, G, c, at, m, n, pos)
    PROVE  Once(G, s)
  <1> DEFINE g == [k \in Lane |-> [i \in Nat |->
                     IF k = 0 THEN <<0, pos + i>>
                     ELSE IF k = c /\ i > Lc THEN <<0, at + (i - Lc)>> ELSE <<k, i>>]]
             Kept(k, i) == k = 0 /\ g[k][i][1] = 0 /\ g[k][i][2] = pos + i /\ pos + i \in 1 .. L
             Sent(k, i) == /\ k = c /\ g[k][i][1] = 0 /\ i - Lc \in 1 .. m
                           /\ g[k][i][2] = at + (i - Lc) /\ at + (i - Lc) \in 1 .. L
             Same(k, i) == g[k][i][1] = k /\ g[k][i][2] = i /\ i \in 1 .. Len(F[k]) /\ k # 0
             Cell0(k, i) == G[k][i] = F[g[k][i][1]][g[k][i][2]]
  <1>0. \A k \in Lane, i \in Nat :
          /\ k = 0 => g[k][i][1] = 0 /\ g[k][i][2] = pos + i
          /\ k = c /\ i > Lc => g[k][i][1] = 0 /\ g[k][i][2] = at + (i - Lc)
          /\ k # 0 /\ ~ (k = c /\ i > Lc) => g[k][i][1] = k /\ g[k][i][2] = i
    OBVIOUS
  <1> HIDE DEF g
  <1>a. m <= n /\ at + n <= L
    BY DEF Writes
  <1>b. Len(G[0]) = L - pos /\ \A i \in 1 .. L - pos : G[0][i] = F[0][pos + i]
    BY DEF Writes
  <1>c. /\ Len(G[c]) = Lc + m /\ \A i \in 1 .. Lc : G[c][i] = F[c][i]
        /\ \A i \in 1 .. m : G[c][Lc + i] = F[0][at + i]
    BY DEF Writes
  <1>d. \A k \in Lane : k # 0 /\ k # c => G[k] = F[k]
    BY DEF Writes
  <1>e. \A i \in 1 .. L : pos < i /\ i <= at + n => F[0][i].part = 1
    BY DEF Writes
  <1>1. ASSUME NEW k \in Lane, NEW i \in 1 .. Len(G[k])
        PROVE  (Kept(k, i) \/ Sent(k, i) \/ Same(k, i)) /\ Cell0(k, i)
    <2>0. i \in Nat
      OBVIOUS
    <2>1. CASE k = 0
      <3>1. i \in 1 .. L - pos
        BY <1>b, <2>1
      <3>2. pos + i \in 1 .. L
        BY <3>1
      <3>3. g[k][i][1] = 0 /\ g[k][i][2] = pos + i
        BY <1>0, <2>0, <2>1
      <3> QED
        BY <1>b, <2>1, <3>1, <3>2, <3>3
    <2>2. CASE k = c /\ i > Lc
      <3>1. i - Lc \in 1 .. m /\ Lc + (i - Lc) = i
        BY <1>c, <2>2
      <3>2. at + (i - Lc) \in 1 .. L
        <4>1. PICK y \in 1 .. m : y = i - Lc
          BY <3>1
        <4>2. at + y \in 1 .. L
          BY <1>a
        <4> QED
          BY <4>1, <4>2
      <3>3. g[k][i][1] = 0 /\ g[k][i][2] = at + (i - Lc)
        BY <1>0, <2>0, <2>2
      <3>4. G[c][i] = F[0][at + (i - Lc)]
        BY <1>c, <3>1
      <3> QED
        BY <2>2, <3>1, <3>2, <3>3, <3>4
    <2>3. CASE k # 0 /\ ~ (k = c /\ i > Lc)
      <3>1. g[k][i][1] = k /\ g[k][i][2] = i
        BY <1>0, <2>0, <2>3
      <3>2. i \in 1 .. Len(F[k]) /\ G[k][i] = F[k][i]
        BY <1>c, <1>d, <2>0, <2>3, SMTT(30)
      <3> QED
        BY <2>3, <3>1, <3>2
    <2> QED
      BY <2>1, <2>2, <2>3
  <1>2. Moved(F, G, g)
    <2> SUFFICES ASSUME NEW k \in Lane, NEW i \in 1 .. Len(G[k])
                 PROVE  /\ g[k][i][1] \in Lane /\ g[k][i][2] \in 1 .. Len(F[g[k][i][1]])
                        /\ Cell0(k, i)
      BY DEF Moved
    <2>1. (Kept(k, i) \/ Sent(k, i) \/ Same(k, i)) /\ Cell0(k, i)
      BY <1>1
    <2> QED
      BY <2>1
  <1>f. ASSUME NEW x \in Nat, NEW y \in 1 .. m, pos + x \in 1 .. L, x > 0, pos + x = at + y
        PROVE  F[0][pos + x].part = 1
    <2>1. pos < pos + x /\ at + y <= at + n
      BY <1>a, <1>f
    <2>2. pos + x <= at + n
      BY <1>f, <2>1
    <2> QED
      BY <1>e, <1>f, <2>1, <2>2
  <1>3. OneToOne(G, g)
    <2> SUFFICES ASSUME NEW j \in Lane, NEW k \in Lane, NEW i \in 1 .. Len(G[j]),
                        NEW h \in 1 .. Len(G[k]), Final(G[j][i]), Final(G[k][h]),
                        g[j][i][1] = g[k][h][1], g[j][i][2] = g[k][h][2]
                 PROVE  j = k /\ i = h
      BY DEF OneToOne
    <2>1. /\ Kept(j, i) \/ Sent(j, i) \/ Same(j, i)
          /\ Kept(k, h) \/ Sent(k, h) \/ Same(k, h)
          /\ Cell0(j, i) /\ Cell0(k, h)
      BY <1>1
    <2>2. i \in Nat /\ h \in Nat /\ i > 0 /\ h > 0
      OBVIOUS
    <2>5. CASE Kept(j, i) /\ Kept(k, h)
      <3>1. j = k /\ pos + i = pos + h
        BY <2>5
      <3> QED
        BY <2>2, <3>1
    <2>6. CASE Sent(j, i) /\ Sent(k, h)
      <3>1. j = k /\ at + (i - Lc) = at + (h - Lc)
        BY <2>6
      <3> QED
        BY <2>2, <3>1
    <2>7. CASE Same(j, i) /\ Same(k, h)
      BY <2>7
    <2>8. CASE Kept(j, i) /\ Sent(k, h)
      <3>1. h - Lc \in 1 .. m /\ pos + i = at + (h - Lc) /\ pos + i \in 1 .. L
        BY <2>8
      <3>2. F[0][pos + i].part = 1
        BY <1>f, <2>2, <3>1
      <3>3. G[j][i] = F[0][pos + i]
        BY <2>1, <2>8
      <3> HIDE DEF Kept, Sent, Same, Cell0
      <3> QED
        BY <3>2, <3>3 DEF Final
    <2>9. CASE Sent(j, i) /\ Kept(k, h)
      <3>1. i - Lc \in 1 .. m /\ pos + h = at + (i - Lc) /\ pos + h \in 1 .. L
        BY <2>9
      <3>2. F[0][pos + h].part = 1
        BY <1>f, <2>2, <3>1
      <3>3. G[k][h] = F[0][pos + h]
        BY <2>1, <2>9
      <3> HIDE DEF Kept, Sent, Same, Cell0
      <3> QED
        BY <3>2, <3>3 DEF Final
    <2>10. CASE Same(j, i) /\ ~ Same(k, h)
      BY <2>1, <2>10
    <2>11. CASE Same(k, h) /\ ~ Same(j, i)
      BY <2>1, <2>11
    <2> QED
      BY <2>1, <2>5, <2>6, <2>7, <2>8, <2>9, <2>10, <2>11
  <1> QED
    BY <1>2, <1>3, OnceMoved

\* A message is received: the first cell of lane c goes to lane -1.
Receives(F, G, c) ==
    /\ Len(G[-1]) = Len(F[-1]) + 1 /\ \A i \in 1 .. Len(F[-1]) : G[-1][i] = F[-1][i]
    /\ G[-1][Len(F[-1]) + 1] = F[c][1]
    /\ Len(G[c]) = Len(F[c]) - 1 /\ \A i \in 1 .. Len(F[c]) - 1 : G[c][i] = F[c][i + 1]
    /\ \A k \in Lane : k # -1 /\ k # c => G[k] = F[k]

LEMMA OnceReceived ==
    ASSUME NEW F, NEW s, Once(F, s), NEW G, -1 \in Lane, NEW c \in Lane, c # -1,
           NEW L \in Nat, L = Len(F[-1]), NEW Lc \in Nat, Lc = Len(F[c]), Lc > 0,
           Receives(F, G, c)
    PROVE  Once(G, s)
  <1> DEFINE g == [k \in Lane |-> [i \in Nat |->
                     IF k = c THEN <<c, i + 1>>
                     ELSE IF k = -1 /\ i = L + 1 THEN <<c, 1>> ELSE <<k, i>>]]
             Rest(k, i) == k = c /\ g[k][i][1] = c /\ g[k][i][2] = i + 1 /\ i + 1 \in 1 .. Lc /\ i > 0
             Got(k, i) == k = -1 /\ i = L + 1 /\ g[k][i][1] = c /\ g[k][i][2] = 1
             Same(k, i) == g[k][i][1] = k /\ g[k][i][2] = i /\ i \in 1 .. Len(F[k]) /\ k # c
             Cell0(k, i) == G[k][i] = F[g[k][i][1]][g[k][i][2]]
  <1>0. \A k \in Lane, i \in Nat :
          /\ k = c => g[k][i][1] = c /\ g[k][i][2] = i + 1
          /\ k = -1 /\ i = L + 1 => g[k][i][1] = c /\ g[k][i][2] = 1
          /\ k # c /\ ~ (k = -1 /\ i = L + 1) => g[k][i][1] = k /\ g[k][i][2] = i
    OBVIOUS
  <1> HIDE DEF g
  <1>a. /\ Len(G[-1]) = L + 1 /\ \A i \in 1 .. L : G[-1][i] = F[-1][i]
        /\ G[-1][L + 1] = F[c][1]
    BY DEF Receives
  <1>b. Len(G[c]) = Lc - 1 /\ \A i \in 1 .. Lc - 1 : G[c][i] = F[c][i + 1]
    BY DEF Receives
  <1>c. \A k \in Lane : k # -1 /\ k # c => G[k] = F[k]
    BY DEF Receives
  <1>d. \A i \in Nat \ {0} : i <= L + 1 => i = L + 1 \/ i \in 1 .. L
    OBVIOUS
  <1>1. ASSUME NEW k \in Lane, NEW i \in 1 .. Len(G[k])
        PROVE  (Rest(k, i) \/ Got(k, i) \/ Same(k, i)) /\ Cell0(k, i)
    <2>0. i \in Nat /\ i > 0
      OBVIOUS
    <2>1. CASE k = c
      <3>1. i \in 1 .. Lc - 1 /\ i + 1 \in 1 .. Lc
        BY <1>b, <2>1
      <3>2. g[k][i][1] = c /\ g[k][i][2] = i + 1
        BY <1>0, <2>0, <2>1
      <3> QED
        BY <1>b, <2>0, <2>1, <3>1, <3>2
    <2>2. CASE k = -1 /\ i = L + 1
      <3>1. g[k][i][1] = c /\ g[k][i][2] = 1
        BY <1>0, <2>0, <2>2
      <3> QED
        BY <1>a, <2>2, <3>1
    <2>3. CASE k # c /\ ~ (k = -1 /\ i = L + 1)
      <3>1. g[k][i][1] = k /\ g[k][i][2] = i
        BY <1>0, <2>0, <2>3
      <3>2. i \in 1 .. Len(F[k]) /\ G[k][i] = F[k][i]
        <4>1. CASE k = -1
          <5>1. i <= L + 1 /\ i # L + 1
            BY <1>a, <2>0, <2>3, <4>1
          <5>2. i \in 1 .. L
            BY <1>d, <2>0, <5>1
          <5>3. G[-1][i] = F[-1][i] /\ i \in 1 .. Len(F[-1])
            BY <1>a, <5>2
          <5> QED
            BY <4>1, <5>3
        <4>2. CASE k # -1
          BY <1>c, <2>3, <4>2
        <4> QED
          BY <4>1, <4>2
      <3> QED
        BY <2>3, <3>1, <3>2
    <2> QED
      BY <2>1, <2>2, <2>3
  <1>2. Moved(F, G, g)
    <2> SUFFICES ASSUME NEW k \in Lane, NEW i \in 1 .. Len(G[k])
                 PROVE  /\ g[k][i][1] \in Lane /\ g[k][i][2] \in 1 .. Len(F[g[k][i][1]])
                        /\ Cell0(k, i)
      BY DEF Moved
    <2>1. (Rest(k, i) \/ Got(k, i) \/ Same(k, i)) /\ Cell0(k, i)
      BY <1>1
    <2> QED
      BY <2>1, SMTT(30)
  <1>3. OneToOne(G, g)
    <2> SUFFICES ASSUME NEW j \in Lane, NEW k \in Lane, NEW i \in 1 .. Len(G[j]),
                        NEW h \in 1 .. Len(G[k]),
                        g[j][i][1] = g[k][h][1], g[j][i][2] = g[k][h][2]
                 PROVE  j = k /\ i = h
      BY SMTT(30) DEF OneToOne
    <2>1. /\ Rest(j, i) \/ Got(j, i) \/ Same(j, i)
          /\ Rest(k, h) \/ Got(k, h) \/ Same(k, h)
      BY <1>1
    <2>2. i \in Int /\ h \in Int
      OBVIOUS
    <2> QED
      BY <2>1, <2>2
  <1> QED
    BY <1>2, <1>3, OnceMoved

-----------------------------------------------------------------------------
(* Streams.                                                                *)

\* w is n cells of d from at on; they go on where the stream s ends.
CopyOf(w, d, at, n) == Len(w) = n /\ \A i \in 1 .. n : w[i] = d[at + i]
GoesOn(s, d, at) == at = 1 => s # <<>> /\ s[Len(s)] = d[1]

LEMMA Joined ==
    ASSUME NEW s \in Seq(Cell), NEW w \in Seq(Cell), NEW n, Len(w) = n
    PROVE  /\ Len(s) \in Nat /\ s \o w \in Seq(Cell) /\ Len(s \o w) = Len(s) + n
           /\ \A i \in 1 .. Len(s) : (s \o w)[i] = s[i]
           /\ \A i \in 1 .. n : (s \o w)[Len(s) + i] = w[i]
  <1> DEFINE L == Len(s)
             r == s \o w
  <1>1. L \in Nat /\ n \in Nat
    BY LenProperties
  <1>2. /\ r \in Seq(Cell) /\ Len(r) = L + n
        /\ \A i \in 1 .. L + n : r[i] = IF i <= L THEN s[i] ELSE w[i - L]
    BY ConcatProperties
  <1> HIDE DEF L, r
  <1>3. \A i \in 1 .. L : r[i] = s[i]
    BY <1>1, <1>2
  <1>4. ASSUME NEW i \in 1 .. n
        PROVE  r[L + i] = w[i]
    <2>1. L + i \in 1 .. L + n /\ ~ (L + i <= L) /\ (L + i) - L = i
      BY <1>1
    <2> QED
      BY <1>2, <2>1
  <1> QED
    BY <1>1, <1>2, <1>3, <1>4 DEF L, r

LEMMA StreamGoesOn ==
    ASSUME NEW s \in Seq(Cell), WholeStream(s), NEW d \in Seq(Cell), Framed(d),
           NEW at \in {0, 1}, NEW n \in Nat, at + n <= Len(d),
           GoesOn(s, d, at), NEW w \in Seq(Cell), CopyOf(w, d, at, n)
    PROVE  WholeStream(s \o w)
  <1> DEFINE L == Len(s)
             r == s \o w
  <1>1. /\ L \in Nat /\ Len(r) = L + n /\ \A i \in 1 .. L : r[i] = s[i]
        /\ \A i \in 1 .. n : r[L + i] = w[i]
    BY Joined DEF CopyOf
  <1>2. at = 1 => L > 0 /\ r[L] = d[1]
    <2> HAVE at = 1
    <2>1. L # 0 /\ s[L] = d[1]
      BY EmptySeq DEF GoesOn
    <2>2. L > 0 /\ L \in 1 .. L
      BY <1>1, <2>1
    <2>3. r[L] = s[L]
      BY <1>1, <2>2
    <2> QED
      BY <2>1, <2>2, <2>3
  <1>3. Len(d) \in Nat
    BY LenProperties
  <1>4. \A i \in 1 .. L : s[i].part = 2 => i > 1 /\ s[i - 1] = [s[i] EXCEPT !.part = 1]
    BY DEF WholeStream
  <1>5. \A i \in 1 .. Len(d) : d[i].part = 2 => i > 1 /\ d[i - 1] = [d[i] EXCEPT !.part = 1]
    BY DEF Framed
  <1> HIDE DEF L, r
  <1> SUFFICES ASSUME NEW i \in 1 .. L + n, r[i].part = 2
               PROVE  i > 1 /\ r[i - 1] = [r[i] EXCEPT !.part = 1]
    BY <1>1 DEF WholeStream, r
  <1>6. CASE i \in 1 .. L
    <2>1. s[i].part = 2
      BY <1>1, <1>6
    <2>2. i > 1 /\ s[i - 1] = [s[i] EXCEPT !.part = 1]
      BY <1>4, <1>6, <2>1
    <2>3. i - 1 \in 1 .. L
      BY <1>1, <1>6, <2>2
    <2> QED
      BY <1>1, <1>6, <2>2, <2>3
  <1>7. CASE i > L
    <2>1. PICK j \in 1 .. n : i = L + j
      <3>1. i - L \in 1 .. n /\ i = L + (i - L)
        BY <1>1, <1>7
      <3> QED
        BY <3>1
    <2>2. r[i] = d[at + j] /\ at + j \in 1 .. Len(d)
      <3>1. r[i] = w[j] /\ w[j] = d[at + j]
        BY <1>1, <2>1 DEF CopyOf
      <3>2. at + j \in 1 .. Len(d)
        BY <1>3
      <3> QED
        BY <3>1, <3>2
    <2>3. at + j > 1 /\ d[at + j - 1] = [d[at + j] EXCEPT !.part = 1]
      BY <1>5, <2>2
    <2>4. CASE j = 1
      <3>1. at = 1
        BY <2>3, <2>4
      <3>2. r[L] = d[1] /\ L > 0
        BY <1>2, <3>1
      <3>3. i - 1 = L /\ at + j - 1 = 1
        BY <1>1, <2>1, <2>4, <3>1
      <3>4. i > 1
        BY <1>1, <3>2, <3>3
      <3> QED
        BY <2>2, <2>3, <3>2, <3>3, <3>4
    <2>5. CASE j > 1
      <3>1. j - 1 \in 1 .. n
        BY <2>5
      <3>2. r[L + (j - 1)] = d[at + (j - 1)]
        BY <1>1, <3>1 DEF CopyOf
      <3>3. L + (j - 1) = i - 1 /\ at + (j - 1) = at + j - 1 /\ i > 1
        BY <1>1, <2>1, <2>5
      <3> QED
        BY <2>2, <2>3, <3>2, <3>3
    <2> QED
      BY <2>4, <2>5
  <1>8. i \in 1 .. L \/ i > L
    BY <1>1
  <1> QED
    BY <1>6, <1>7, <1>8

\* The last cell of a stream that goes on is the one that the cursor is in.
LEMMA StreamEnd ==
    ASSUME NEW s \in Seq(Cell), NEW d, NEW at \in {0, 1}, NEW n \in Nat, NEW pos \in Nat,
           GoesOn(s, d, at), NEW w \in Seq(Cell), CopyOf(w, d, at, n),
           at + n - pos = 1
    PROVE  s \o w # <<>> /\ (s \o w)[Len(s \o w)] = d[pos + 1]
  <1> DEFINE L == Len(s)
             r == s \o w
  <1>1. /\ L \in Nat /\ r \in Seq(Cell) /\ Len(r) = L + n /\ \A i \in 1 .. L : r[i] = s[i]
        /\ \A i \in 1 .. n : r[L + i] = w[i]
    BY Joined DEF CopyOf
  <1>2. CASE n = 0
    <2>1. at = 1 /\ pos = 0
      BY <1>2
    <2>2. L # 0 /\ s[L] = d[1]
      BY <2>1, EmptySeq DEF GoesOn
    <2>3. L \in 1 .. L /\ Len(r) = L /\ pos + 1 = 1
      BY <1>1, <1>2, <2>1, <2>2
    <2>4. r[L] = s[L] /\ r # <<>>
      BY <1>1, <2>2, <2>3, EmptySeq
    <2> HIDE DEF r, L
    <2> QED
      BY <2>2, <2>3, <2>4 DEF r
  <1>3. CASE n > 0
    <2>1. n \in 1 .. n /\ at + n = pos + 1 /\ Len(r) = L + n /\ Len(r) # 0
      BY <1>1, <1>3
    <2>2. r[L + n] = d[at + n] /\ r # <<>>
      BY <1>1, <2>1, EmptySeq DEF CopyOf
    <2> HIDE DEF r, L
    <2> QED
      BY <2>1, <2>2 DEF r
  <1> QED
    BY <1>2, <1>3

-----------------------------------------------------------------------------
(* Lanes and streams of a state.                                           *)

LEMMA ConnNumbers ==
    /\ MaxConn \in Nat /\ Conn \subseteq Nat /\ 0 \notin Conn /\ -1 \notin Conn
    /\ -1 \in Lane /\ 0 \in Lane /\ \A c \in Conn : c \in Lane
    /\ \A k \in Lane : k = 0 \/ k = -1 \/ k \in Conn
  BY SizesPositive DEF Conn, Lane

LEMMA LanesOf ==
    ASSUME NEW d \in Seq(Cell), NEW n \in [Conn -> Connection], NEW r \in Seq(1 .. MaxMsgs)
    PROVE  /\ Lanes(d, n, r)[0] = d /\ Lanes(d, n, r)[-1] = Received(r)
           /\ \A c \in Conn : Lanes(d, n, r)[c] = n[c].toS
           /\ \A k \in Lane : Lanes(d, n, r)[k] \in Seq(Cell)
           /\ Len(Received(r)) = Len(r)
           /\ \A i \in 1 .. Len(r) : Received(r)[i] = [m |-> Msg(r[i]), part |-> 2]
  <1> DEFINE F == Lanes(d, n, r)
  <1>1. F[0] = d /\ F[-1] = Received(r)
    BY ConnNumbers DEF Lanes
  <1>2. \A c \in Conn : F[c] = n[c].toS /\ n[c].toS \in Seq(Cell)
    <2> TAKE c \in Conn
    <2>1. c \in Lane /\ c # 0 /\ c # -1
      BY ConnNumbers
    <2>2. n[c] \in Connection
      OBVIOUS
    <2> QED
      BY <2>1, <2>2 DEF Lanes, Connection
  <1>3. Received(r) \in Seq(Cell) /\ Len(Received(r)) = Len(r)
    <2>1. Len(r) \in Nat
      BY LenProperties
    <2>2. ASSUME NEW i \in 1 .. Len(r)
          PROVE  [m |-> Msg(r[i]), part |-> 2] \in Cell
      <3>1. Msg(r[i]) \in Message
        BY ElementOfSeq, MessagesTyped
      <3>2. Size(Msg(r[i])) = 2
        BY DEF Size, Msg
      <3> QED
        BY <3>1, <3>2 DEF Cell
    <2>3. Received(r) \in [1 .. Len(r) -> Cell]
      BY <2>2 DEF Received
    <2> QED
      BY <2>1, <2>3, FunctionSeq
  <1>4. \A i \in 1 .. Len(r) : Received(r)[i] = [m |-> Msg(r[i]), part |-> 2]
    BY DEF Received
  <1> HIDE DEF F
  <1>5. \A k \in Lane : F[k] \in Seq(Cell)
    BY <1>1, <1>2, <1>3, ConnNumbers
  <1> QED
    BY <1>1, <1>2, <1>3, <1>4, <1>5 DEF F

\* The types that the arguments need.
LEMMA Typed ==
    ASSUME VarsTyped
    PROVE  /\ net \in [Conn -> Connection] /\ received \in Seq(1 .. MaxMsgs)
           /\ sent \in Nat /\ conn \in Nat
           /\ \A c \in Conn : /\ net[c].up \in BOOLEAN /\ net[c].toS \in Seq(Cell)
                              /\ net[c].toC \in Seq(Cell)
                              /\ sv[c].part \in Seq(Cell) /\ Stream(c) \in Seq(Cell)
  <1>1. received \in Seq(1 .. MaxMsgs)
    <2>1. received \in Seq(1 .. sent) /\ sent \in 0 .. MaxMsgs
      BY DEF VarsTyped
    <2>2. 1 .. sent \subseteq 1 .. MaxMsgs
      BY <2>1, BoundsNat
    <2> QED
      BY <2>1, <2>2, SeqMonotonic
  <1>2. ASSUME NEW c \in Conn
        PROVE  /\ net[c].up \in BOOLEAN /\ net[c].toS \in Seq(Cell) /\ net[c].toC \in Seq(Cell)
               /\ sv[c].part \in Seq(Cell) /\ Stream(c) \in Seq(Cell)
    <2>1. net[c] \in Connection /\ sv[c] \in PeerType
      BY DEF VarsTyped
    <2>2. /\ net[c].up \in BOOLEAN /\ net[c].toS \in Seq(Cell) /\ net[c].toC \in Seq(Cell)
          /\ sv[c].part \in Seq(Cell)
      BY <2>1 DEF Connection, PeerType
    <2> QED
      BY <2>2, ConcatProperties DEF Stream
  <1> QED
    BY <1>1, <1>2 DEF VarsTyped

LEMMA WholeStreams == MessagesWhole <=> \A c \in Conn : WholeStream(Stream(c))
  BY DEF MessagesWhole, WholeStream, Stream

\* Cells that are new in the client's buffer.
NewCells(ext, s, s2) ==
    /\ ext \in Seq(Cell) /\ Framed(ext)
    /\ \A i \in 1 .. Len(ext) : Final(ext[i]) => s < ext[i].m.a /\ ext[i].m.a <= s2
    /\ \A i, h \in 1 .. Len(ext) : Final(ext[i]) /\ ext[h] = ext[i] => i = h

\* The client adds ext to its buffer and writes w.
ClientSends(ext, w) ==
    /\ conn \in Conn /\ conn' = conn /\ received' = received
    /\ sent' \in Nat /\ sent <= sent' /\ NewCells(ext, sent, sent')
    /\ Wrote(cl.out, ext, w, cl'.out) /\ Good(cl'.out)
    /\ net' \in [Conn -> Connection]
    /\ \A c \in Conn : c # conn => net'[c] = net[c]
    /\ net'[conn].up = net[conn].up
    /\ net'[conn].toS = IF net[conn].up THEN net[conn].toS \o w ELSE net[conn].toS
    /\ \A c \in Conn : sv'[c].part = sv[c].part

LEMMA ClientSendsOnce ==
    ASSUME SessionInv, NEW ext, NEW w, ClientSends(ext, w)
    PROVE  Continued' /\ MessagesWhole' /\ Places'
  <1>0. PICK o, o2, at, k, up, toS, part :
          /\ o = cl.out /\ o2 = cl'.out /\ at = o.cursor /\ k = conn
          /\ up = net[k].up /\ toS = net[k].toS /\ part = sv[k].part
    OBVIOUS
  <1>1. Good(o) /\ Good(o2) /\ ext \in Seq(Cell) /\ Framed(ext)
    BY <1>0 DEF SessionInv, BuffersGood, ClientSends, NewCells
  <1>2. o.data \in Seq(Cell) /\ Framed(o.data) /\ Len(o.data) \in Nat
    BY <1>1, Boundaries DEF Good
  <1>3. PICK d : d = o.data \o ext
    OBVIOUS
  <1>4. d \in Seq(Cell) /\ Framed(d)
    BY <1>1, <1>2, <1>3, FramedJoins, ConcatProperties
  <1>5. PICK n \in Nat, pos \in Nat : Sends(d, at, w, o2, n, pos)
    <2>1. Wrote(o, ext, w, o2)
      BY <1>0 DEF ClientSends
    <2>2. at = o.cursor
      BY <1>0
    <2> QED
      BY <1>1, <1>3, <2>1, <2>2, WroteCells
  <1>a. w \in Seq(Cell) /\ Len(w) = n /\ \A i \in 1 .. n : w[i] = d[at + i]
    BY <1>5 DEF Sends
  <1>b. at \in {0, 1} /\ at + n <= Len(d) /\ Len(d) \in Nat
    BY <1>5 DEF Sends
  <1>c. /\ Len(o2.data) = Len(d) - pos
        /\ \A i \in 1 .. Len(d) - pos : o2.data[i] = d[pos + i]
    BY <1>5 DEF Sends
  <1>d. o2.cursor = at + n - pos /\ (o2.cursor = 1 => pos + 1 \in 1 .. Len(d))
    BY <1>5 DEF Sends
  <1>e. \A i \in 1 .. Len(d) : pos < i /\ i <= at + n => d[i].part = 1
    BY <1>5 DEF Sends
  <1>6. /\ net \in [Conn -> Connection] /\ received \in Seq(1 .. MaxMsgs) /\ sent \in Nat
        /\ k \in Conn /\ up \in BOOLEAN /\ toS \in Seq(Cell)
        /\ part \in Seq(Cell) /\ Stream(k) \in Seq(Cell) /\ Stream(k) = part \o toS
    BY <1>0, Typed DEF SessionInv, ClientSends, Stream
  <1>s. w \in Seq(Cell) /\ toS \in Seq(Cell) /\ part \in Seq(Cell) /\ Stream(k) \in Seq(Cell)
    BY <1>6, <1>a
  <1>l. Len(w) = n
    BY <1>a
  <1>n. net \in [Conn -> Connection] /\ received \in Seq(1 .. MaxMsgs)
    BY <1>6
  <1>k. k \in Conn /\ up \in BOOLEAN
    BY <1>6
  <1>7. CopyOf(w, d, at, n)
    BY <1>a DEF CopyOf
  <1>8. up => GoesOn(Stream(k), d, at)
    <2> HAVE up
    <2>1. at = 1 => Stream(k) # <<>> /\ Stream(k)[Len(Stream(k))] = o.data[1]
      BY <1>0, <1>6 DEF SessionInv, Continued
    <2>2. at = 1 => 1 \in 1 .. Len(o.data)
      <3>1. o.cursor <= Len(o.data) /\ Len(o.data) \in Nat
        BY <1>1, Boundaries
      <3>2. at = o.cursor
        BY <1>0
      <3> QED
        BY <3>1, <3>2
    <2>3. \A i \in 1 .. Len(o.data) : d[i] = o.data[i]
      BY <1>1, <1>2, <1>3, Joined
    <2> QED
      BY <2>1, <2>2, <2>3 DEF GoesOn
  <1>9. /\ up => Stream(k)' = Stream(k) \o w
        /\ ~ up => Stream(k)' = Stream(k)
        /\ \A c \in Conn : c # k => Stream(c)' = Stream(c)
    <2>1. net'[k].up = up /\ net'[k].toS = IF up THEN toS \o w ELSE toS
      BY <1>0 DEF ClientSends
    <2>2. \A c \in Conn : sv'[c].part = sv[c].part /\ (c # k => net'[c] = net[c])
      BY <1>0 DEF ClientSends
    <2>3. part \o (toS \o w) = (part \o toS) \o w
      BY <1>s, ConcatAssociative, SMTT(30)
    <2>4. Stream(k)' = part \o (net'[k].toS)
      BY <1>0, <1>6, <2>2 DEF Stream
    <2>5. \A c \in Conn : c # k => Stream(c)' = Stream(c)
      BY <2>2 DEF Stream
    <2>6. up => Stream(k)' = Stream(k) \o w
      BY <1>6, <2>1, <2>3, <2>4
    <2>7. ~ up => Stream(k)' = Stream(k)
      BY <1>6, <2>1, <2>4
    <2> QED
      BY <2>5, <2>6, <2>7
  <1>10. Continued'
    <2>0. conn' = k /\ o2 = cl'.out /\ net'[k].up = up
      BY <1>0 DEF ClientSends
    <2> SUFFICES ASSUME up, o2.cursor = 1
                 PROVE  Stream(k)' # <<>> /\ (Stream(k)')[Len(Stream(k)')] = o2.data[1]
      BY <2>0 DEF Continued
    <2>2. at + n - pos = 1
      BY <1>d
    <2>3. /\ Stream(k) \o w # <<>>
          /\ (Stream(k) \o w)[Len(Stream(k) \o w)] = d[pos + 1]
      BY <1>b, <1>s, <1>7, <1>8, <2>2, StreamEnd, SMTT(30)
    <2>4. o2.data[1] = d[pos + 1]
      <3>1. 1 \in 1 .. Len(d) - pos
        BY <1>b, <1>d
      <3> QED
        BY <1>c, <3>1
    <2> QED
      BY <1>9, <2>3, <2>4
  <1>11. MessagesWhole'
    <2>1. \A c \in Conn : WholeStream(Stream(c))
      BY WholeStreams DEF SessionInv
    <2>2. up => WholeStream(Stream(k) \o w)
      BY <1>4, <1>s, <1>b, <1>k, <1>7, <1>8, <2>1, StreamGoesOn
    <2>3. ASSUME NEW c \in Conn
          PROVE  WholeStream(Stream(c)')
      <3>1. CASE c = k
        BY <1>k, <1>9, <2>1, <2>2, <3>1
      <3>2. CASE c # k
        BY <1>9, <2>1, <3>2
      <3> QED
        BY <3>1, <3>2
    <2>4. (\A c \in Conn : WholeStream(Stream(c)))'
      BY <2>3 DEF WholeStream
    <2> QED
      BY <2>4, WholeStreams, PTL
  <1>12. Places'
    <2>1. PICK F : F = Lanes(o.data, net, received)
      OBVIOUS
    <2>2. PICK F1 : F1 = Lanes(d, net, received)
      OBVIOUS
    <2>3. PICK G : G = Lanes(o2.data, net', received)
      OBVIOUS
    <2>4. PICK s2 : s2 = sent'
      OBVIOUS
    <2>5. /\ F[0] = o.data /\ F1[0] = d /\ G[0] = o2.data
          /\ F[-1] = Received(received) /\ F1[-1] = Received(received)
          /\ G[-1] = Received(received)
          /\ \A c \in Conn : F[c] = net[c].toS /\ F1[c] = net[c].toS /\ G[c] = net'[c].toS
          /\ \A h \in Lane : F[h] \in Seq(Cell) /\ F1[h] \in Seq(Cell)
      <3>1. o2.data \in Seq(Cell) /\ net' \in [Conn -> Connection]
        BY <1>1, Boundaries DEF ClientSends
      <3>2. /\ F[0] = o.data /\ F[-1] = Received(received)
            /\ \A c \in Conn : F[c] = net[c].toS
            /\ \A i \in Lane : F[i] \in Seq(Cell)
        BY <1>2, <1>n, <2>1, LanesOf
      <3>3. /\ F1[0] = d /\ F1[-1] = Received(received)
            /\ \A c \in Conn : F1[c] = net[c].toS
            /\ \A i \in Lane : F1[i] \in Seq(Cell)
        BY <1>4, <1>n, <2>2, LanesOf
      <3>4. /\ G[0] = o2.data /\ G[-1] = Received(received)
            /\ \A c \in Conn : G[c] = net'[c].toS
        BY <1>n, <2>3, <3>1, LanesOf
      <3> QED
        BY <3>2, <3>3, <3>4
    <2>6. Once(F, sent)
      BY <1>0, <2>1 DEF SessionInv, Places
    <2>7. Once(F1, s2)
      <3>1. s2 \in Nat /\ sent <= s2
        BY <2>4 DEF ClientSends
      <3>2. /\ \A i \in 1 .. Len(ext) : Final(ext[i]) => sent < ext[i].m.a /\ ext[i].m.a <= s2
            /\ \A i, h \in 1 .. Len(ext) : Final(ext[i]) /\ ext[h] = ext[i] => i = h
        BY <2>4 DEF ClientSends, NewCells
      <3>3. F1[0] = F[0] \o ext /\ \A h \in Lane : h # 0 => F1[h] = F[h]
        BY <1>3, <2>5, ConnNumbers
      <3> QED
        BY <1>1, <1>6, <2>5, <2>6, <3>1, <3>2, <3>3, ConnNumbers, OnceExtended
    <2>8. PICK m \in Nat : m = IF up THEN n ELSE 0
      OBVIOUS
    <2>9. PICK Lc : Lc = Len(toS)
      OBVIOUS
    <2>10. Lc \in Nat
      BY <1>6, <2>9, LenProperties
    <2>11. /\ Len(G[k]) = Lc + m /\ \A i \in 1 .. Lc : G[k][i] = toS[i]
           /\ \A i \in 1 .. m : G[k][Lc + i] = d[at + i]
      <3>1. CASE up
        <4>1. G[k] = toS \o w
          BY <1>0, <1>6, <2>5, <3>1 DEF ClientSends
        <4>2. /\ Len(toS \o w) = Lc + n /\ \A i \in 1 .. Lc : (toS \o w)[i] = toS[i]
              /\ \A i \in 1 .. n : (toS \o w)[Lc + i] = w[i]
          <5>1. toS \in Seq(Cell) /\ w \in Seq(Cell) /\ Len(w) = n
            BY <1>s, <1>l
          <5>2. /\ Len(toS \o w) = Len(toS) + n
                /\ \A i \in 1 .. Len(toS) : (toS \o w)[i] = toS[i]
                /\ \A i \in 1 .. n : (toS \o w)[Len(toS) + i] = w[i]
            BY <5>1, Joined
          <5> QED
            BY <2>9, <5>2
        <4>3. m = n
          BY <2>8, <3>1
        <4> QED
          BY <1>a, <4>1, <4>2, <4>3
      <3>2. CASE ~ up
        <4>1. G[k] = toS /\ m = 0
          BY <1>0, <1>6, <2>5, <2>8, <3>2 DEF ClientSends
        <4> QED
          BY <2>9, <2>10, <4>1
      <3> QED
        BY <3>1, <3>2
    <2>12. Writes(F1, G, k, at, m, n, pos)
      <3>1. m <= n
        BY <2>8
      <3>2. F1[k] = toS /\ F1[0] = d /\ G[0] = o2.data
        BY <1>0, <1>k, <2>5
      <3>3. ASSUME NEW h \in Lane, h # 0, h # k
            PROVE  G[h] = F1[h]
        <4>1. h = -1 \/ h \in Conn
          BY <3>3, ConnNumbers
        <4>2. h \in Conn => net'[h] = net[h]
          BY <1>0, <3>3 DEF ClientSends
        <4> QED
          BY <2>5, <4>1, <4>2
      <3> QED
        BY <1>b, <1>c, <1>e, <2>9, <2>11, <3>1, <3>2, <3>3 DEF Writes
    <2>13. Once(G, s2)
      <3>1. k \in Lane /\ k # 0 /\ 0 \in Lane
        BY <1>6, ConnNumbers
      <3>2. at \in Nat /\ Len(d) \in Nat /\ Len(d) = Len(F1[0]) /\ Lc = Len(F1[k])
        BY <1>0, <1>b, <1>k, <2>5, <2>9
      <3> QED
        BY <2>7, <2>10, <2>12, <3>1, <3>2, OnceWritten
    <2> QED
      BY <1>0, <2>3, <2>4, <2>13 DEF Places, ClientSends
  <1> QED
    BY <1>10, <1>11, <1>12

\* Nothing that is on its way is new, and nothing changes its place.
FewerPlaces ==
    /\ cl'.out.data = cl.out.data /\ cl'.out.data \in Seq(Cell)
    /\ sent' = sent /\ received' = received /\ net' \in [Conn -> Connection]
    /\ \A c \in Conn : \A i \in 1 .. Len(net'[c].toS) :
         \/ ~ Final(net'[c].toS[i])
         \/ i \in 1 .. Len(net[c].toS) /\ net'[c].toS[i] = net[c].toS[i]

LEMMA FewerPlacesOnce ==
    ASSUME SessionInv, FewerPlaces
    PROVE  Places'
  <1>1. PICK F, G, s : /\ F = Lanes(cl.out.data, net, received) /\ s = sent
                       /\ G = Lanes(cl'.out.data, net', received)
    OBVIOUS
  <1>2. net \in [Conn -> Connection] /\ received \in Seq(1 .. MaxMsgs)
    BY Typed DEF SessionInv
  <1>3. net' \in [Conn -> Connection] /\ cl'.out.data \in Seq(Cell) /\ cl.out.data = cl'.out.data
    BY DEF FewerPlaces
  <1>4. F[0] = cl.out.data /\ F[-1] = Received(received) /\ \A c \in Conn : F[c] = net[c].toS
    BY <1>1, <1>2, <1>3, LanesOf
  <1>5. G[0] = cl.out.data /\ G[-1] = Received(received) /\ \A c \in Conn : G[c] = net'[c].toS
    BY <1>1, <1>2, <1>3, LanesOf
  <1>6. Once(F, s)
    BY <1>1 DEF SessionInv, Places
  <1>7. PICK off : off = [k \in Lane |-> 0]
    OBVIOUS
  <1>8. off \in [Lane -> Nat] /\ \A k \in Lane : off[k] = 0
    BY <1>7
  <1>9. ASSUME NEW k \in Lane, NEW i \in 1 .. Len(G[k])
        PROVE  ~ Final(G[k][i]) \/ (i \in 1 .. Len(F[k]) /\ G[k][i] = F[k][i])
    <2>1. CASE k \in Conn
      BY <1>4, <1>5, <2>1 DEF FewerPlaces
    <2>2. CASE k = 0 \/ k = -1
      BY <1>4, <1>5, <2>2
    <2> QED
      BY <2>1, <2>2, ConnNumbers
  <1>10. Once(G, s)
    <2>1. ASSUME NEW k \in Lane, NEW i \in 1 .. Len(G[k])
          PROVE  ~ Final(G[k][i]) \/ (i + off[k] \in 1 .. Len(F[k]) /\ G[k][i] = F[k][i + off[k]])
      <3>1. i + off[k] = i
        BY <1>8
      <3> QED
        BY <1>9, <3>1
    <2> QED
      BY <1>6, <1>8, <2>1, OnceShrunk
  <1> QED
    BY <1>1, <1>10 DEF Places, FewerPlaces

\* The buffer, what a peer has read and what is on its way stay.
Still ==
    /\ cl'.out.data = cl.out.data /\ sent' = sent /\ received' = received
    /\ net' \in [Conn -> Connection]
    /\ \A c \in Conn : net'[c].toS = net[c].toS /\ sv'[c].part = sv[c].part
    /\ \/ cl'.out.cursor = 0
       \/ /\ conn' = conn /\ cl'.out.cursor = cl.out.cursor
          /\ conn \in Conn /\ net'[conn].up => net[conn].up

LEMMA StillOnce ==
    ASSUME SessionInv, Still
    PROVE  Continued' /\ MessagesWhole' /\ Places'
  <1>1. \A c \in Conn : Stream(c)' = Stream(c)
    BY DEF Still, Stream
  <1>2. Continued'
    <2>1. CASE cl'.out.cursor = 0
      BY <2>1 DEF Continued
    <2>2. CASE /\ conn' = conn /\ cl'.out.cursor = cl.out.cursor
               /\ conn \in Conn /\ net'[conn].up => net[conn].up
      <3> SUFFICES ASSUME NEW k \in Conn, k = conn, net'[k].up, cl.out.cursor = 1
                   PROVE  Stream(k)' # <<>> /\ (Stream(k)')[Len(Stream(k)')] = cl'.out.data[1]
        BY <2>2 DEF Continued
      <3>1. Stream(k) # <<>> /\ Stream(k)[Len(Stream(k))] = cl.out.data[1]
        BY <2>2 DEF SessionInv, Continued
      <3> QED
        BY <1>1, <3>1 DEF Still
    <2> QED
      BY <2>1, <2>2 DEF Still
  <1>3. MessagesWhole'
    <2>1. \A c \in Conn : WholeStream(Stream(c))
      BY WholeStreams DEF SessionInv
    <2>2. (\A c \in Conn : WholeStream(Stream(c)))'
      BY <1>1, <2>1 DEF WholeStream
    <2> QED
      BY <2>2, WholeStreams, PTL
  <1>4. FewerPlaces
    <2>1. cl.out.data \in Seq(Cell)
      BY Boundaries DEF SessionInv, BuffersGood
    <2> QED
      BY <2>1 DEF Still, FewerPlaces
  <1> QED
    BY <1>2, <1>3, <1>4, FewerPlacesOnce

-----------------------------------------------------------------------------
(* The client loses its connection.                                        *)

\* k is the client but for its timer and what it asks of the network.
SameClient(k) ==
    /\ k \in ClientType /\ Good(k.out) /\ k.list = cl.list /\ k.hs = cl.hs
    /\ k.out.data = cl.out.data /\ k.out.cursor = cl.out.cursor
    /\ k.out.want => cl.out.want

LEMMA ReconnectedGood ==
    ASSUME NEW k \in ClientType, Good(k.out)
    PROVE  /\ Reconnected(k) \in ClientType /\ Good(Reconnected(k).out)
           /\ Reconnected(k).out.data = k.out.data /\ Reconnected(k).out.cursor = 0
           /\ Reconnected(k).hs = TRUE /\ Reconnected(k).list = k.list
           /\ NotReconnected(k) \in ClientType /\ Good(NotReconnected(k).out)
           /\ NotReconnected(k).out.data = k.out.data
           /\ NotReconnected(k).out.cursor = k.out.cursor
           /\ NotReconnected(k).out.want = k.out.want
           /\ NotReconnected(k).hs = k.hs /\ NotReconnected(k).list = k.list
  <1> DEFINE o == [k.out EXCEPT !.allowed = FALSE, !.cursor = 0, !.want = TRUE]
             q == [k.out EXCEPT !.allowed = FALSE]
  <1>1. k.out \in Buffer
    BY DEF Good
  <1>2. o \in Buffer /\ o.data = k.out.data /\ o.sp = k.out.sp /\ o.cursor = 0
    BY <1>1 DEF Buffer
  <1>3. q \in Buffer /\ q.data = k.out.data /\ q.cursor = k.out.cursor /\ q.want = k.out.want
    BY <1>1 DEF Buffer
  <1>4. Good(q)
    BY FlagsFree
  <1>5. Good(o)
    <2> HIDE DEF o
    <2>1. o.data # <<>> => 0 < Size(o.data[1].m)
      <3> HAVE o.data # <<>>
      <3>1. k.out.cursor < Size(k.out.data[1].m) /\ k.out.cursor \in Nat
        BY <1>2, Boundaries DEF Good, Sound
      <3>2. Size(k.out.data[1].m) \in {1, 2}
        BY DEF Size
      <3> QED
        BY <1>2, <3>2
    <2>2. Framed(o.data) /\ Increasing(o.sp)
      BY <1>2 DEF Good
    <2>3. Starts(o.data, o.sp) /\ (o.sp = <<>>) = (o.data = <<>>)
      <3>1. Starts(k.out.data, k.out.sp)
        BY Boundaries DEF Starts
      <3>2. (k.out.sp = <<>>) = (k.out.data = <<>>)
        BY DEF Good, Sound
      <3> QED
        BY <1>2, <3>1, <3>2
    <2>4. o.data # <<>> => o.cursor < Size(o.data[1].m)
      BY <1>2, <2>1
    <2>5. o \in Buffer /\ (o.data = <<>> => o.cursor = 0)
      BY <1>2
    <2> QED
      BY <2>2, <2>3, <2>4, <2>5, GoodIf
  <1>6. /\ Reconnected(k).out = o /\ Reconnected(k) \in ClientType
        /\ Reconnected(k).hs = TRUE /\ Reconnected(k).list = k.list
    <2>1. Reconnected(k) = [k EXCEPT !.reset = TRUE, !.hs = TRUE, !.rd = FALSE, !.out = o]
      BY DEF Reconnected, ClientType
    <2> HIDE DEF o
    <2> QED
      BY <1>2, <2>1 DEF ClientType
  <1>7. /\ NotReconnected(k).out = q /\ NotReconnected(k) \in ClientType
        /\ NotReconnected(k).hs = k.hs /\ NotReconnected(k).list = k.list
    <2>1. NotReconnected(k) = [k EXCEPT !.reset = TRUE, !.out = q, !.retry = TRUE, !.timer = TRUE]
      BY DEF NotReconnected, ClientType
    <2> HIDE DEF q
    <2> QED
      BY <1>3, <2>1 DEF ClientType
  <1> QED
    BY <1>2, <1>3, <1>4, <1>5, <1>6, <1>7

LEMMA ClientLoses ==
    ASSUME SessionInv, conn \in Conn, NEW k, SameClient(k), LostConnection(k),
           UNCHANGED <<sv, srv, sent, received>>, lost' \in BOOLEAN
    PROVE  SessionInv'
  <1>1. /\ k \in ClientType /\ Good(k.out) /\ k.list = cl.list /\ k.hs = cl.hs
        /\ k.out.data = cl.out.data /\ k.out.cursor = cl.out.cursor
        /\ k.out.want => cl.out.want
    BY DEF SameClient
  <1> DEFINE r == Reconnected(k)
             q == NotReconnected(k)
  <1>2. /\ r \in ClientType /\ Good(r.out) /\ r.out.data = cl.out.data /\ r.out.cursor = 0
        /\ r.hs = TRUE /\ r.list = cl.list
        /\ q \in ClientType /\ Good(q.out) /\ q.out.data = cl.out.data
        /\ q.out.cursor = cl.out.cursor /\ q.out.want = k.out.want
        /\ q.hs = cl.hs /\ q.list = cl.list
    BY <1>1, ReconnectedGood
  <1>3. VarsTyped /\ BuffersGood /\ OneByOne /\ Handshakes
    BY DEF SessionInv
  <1> HIDE DEF r, q
  <1>4. net \in [Conn -> Connection] /\ conn \in Nat /\ conn \in Conn /\ MaxConn \in Nat
    BY <1>3, ConnNumbers DEF VarsTyped
  <1>5. CASE /\ conn < MaxConn /\ conn' = conn + 1 /\ cl' = r
             /\ net' = [net EXCEPT ![conn + 1].up = TRUE, ![conn].up = FALSE, ![conn].toC = <<>>]
    <2>0. PICK a, b : a = conn /\ b = conn + 1
      OBVIOUS
    <2>1. a \in Conn /\ b \in Conn /\ a # b /\ conn' = b /\ b > a
      BY <1>4, <1>5, <2>0 DEF Conn
    <2>2. net[b] = [up |-> FALSE, toS |-> <<>>, toC |-> <<>>] /\ sv[b].st = "none"
      BY <1>3, <2>0, <2>1 DEF OneByOne
    <2>3. net' = [[net EXCEPT ![b] = [net[b] EXCEPT !.up = TRUE]]
                   EXCEPT ![a] = [net[a] EXCEPT !.up = FALSE, !.toC = <<>>]]
      BY <1>4, <1>5, <2>0, <2>1 DEF Connection
    <2>4. net[a] \in Connection /\ net[b] \in Connection /\ <<>> \in Seq(Cell)
      BY <1>4, <2>1, EmptySeq
    <2>5. /\ net' \in [Conn -> Connection]
          /\ net'[a].up = FALSE /\ net'[a].toS = net[a].toS /\ net'[a].toC = <<>>
          /\ net'[b].up = TRUE /\ net'[b].toS = <<>> /\ net'[b].toC = <<>>
          /\ \A c \in Conn : c # a /\ c # b => net'[c] = net[c]
      <3>1. PICK x, y : /\ x = [net[b] EXCEPT !.up = TRUE]
                        /\ y = [net[a] EXCEPT !.up = FALSE, !.toC = <<>>]
        OBVIOUS
      <3>2. x \in Connection /\ x.up = TRUE /\ x.toS = <<>> /\ x.toC = <<>>
        <4>0. x = [[up |-> FALSE, toS |-> <<>>, toC |-> <<>>] EXCEPT !.up = TRUE]
          BY <2>2, <3>1, Zenon
        <4>1. x = [up |-> TRUE, toS |-> <<>>, toC |-> <<>>]
          BY <4>0
        <4> QED
          BY <2>4, <4>1 DEF Connection
      <3>3. y \in Connection /\ y.up = FALSE /\ y.toS = net[a].toS /\ y.toC = <<>>
        BY <2>4, <3>1 DEF Connection
      <3>4. net' = [[net EXCEPT ![b] = x] EXCEPT ![a] = y]
        BY <2>3, <3>1
      <3>5. /\ net' \in [Conn -> Connection] /\ net'[a] = y /\ net'[b] = x
            /\ \A c \in Conn : c # a /\ c # b => net'[c] = net[c]
        BY <1>4, <2>1, <3>2, <3>3, <3>4
      <3> QED
        BY <3>2, <3>3, <3>5
    <2>6. VarsTyped'
      <3>1. conn' \in 0 .. MaxConn
        BY <2>1 DEF Conn
      <3>2. cl' \in ClientType /\ cl'.list = cl.list
        BY <1>2, <1>5
      <3> QED
        BY <1>3, <2>5, <3>1, <3>2 DEF VarsTyped
    <2>7. BuffersGood'
      BY <1>2, <1>3, <1>5 DEF BuffersGood
    <2>8. OneByOne'
      <3>1. \A c \in Conn : c > b => c # a /\ c # b /\ c > a
        BY <2>0, <1>4, ConnNumbers
      <3>2. \A c \in Conn : net'[c].up => c = b
        BY <1>3, <2>0, <2>5 DEF OneByOne
      <3>3. b # 0
        BY <2>1, ConnNumbers
      <3> QED
        BY <1>3, <2>0, <2>1, <2>5, <3>1, <3>2, <3>3 DEF OneByOne
    <2>9. Handshakes'
      <3>1. cl'.hs = TRUE /\ cl'.out.cursor = 0
        BY <1>2, <1>5
      <3>2. ASSUME NEW c \in Conn, Fresh(c)
            PROVE  /\ sv[c].part = <<>> /\ sv[c].out.data = <<>> /\ net'[c].toC = <<>>
                   /\ net'[c].toS \in {<<>>, <<GetCell>>}
        BY <1>3, <2>5, <3>2 DEF Handshakes
      <3>3. ASSUME NEW c \in Conn, sv[c].st \in {"lost", "gone"} \/ (sv[c].st = "open" /\ ~sv[c].rd)
            PROVE  net'[c].toS = <<>> /\ ~ net'[c].up
        <4>1. c # b
          BY <2>2, <3>3
        <4> QED
          BY <1>3, <2>5, <3>3, <4>1 DEF Handshakes
      <3>4. net'[conn'].toS = <<>>
        BY <2>1, <2>5
      <3> QED
        BY <3>1, <3>2, <3>3, <3>4 DEF Handshakes, Fresh
    <2>10. Still
      <3>1. \A c \in Conn : net'[c].toS = net[c].toS
        BY <2>2, <2>5
      <3> QED
        BY <1>2, <1>5, <2>5, <3>1 DEF Still
    <2> QED
      BY <2>6, <2>7, <2>8, <2>9, <2>10, StillOnce DEF SessionInv
  <1>6. CASE conn < MaxConn /\ cl' = q /\ UNCHANGED <<conn, net>>
    <2>1. VarsTyped'
      BY <1>2, <1>3, <1>6 DEF VarsTyped
    <2>2. BuffersGood'
      BY <1>2, <1>3, <1>6 DEF BuffersGood
    <2>3. OneByOne'
      BY <1>3, <1>4, <1>6, ConnNumbers DEF OneByOne
    <2>4. Handshakes'
      BY <1>1, <1>2, <1>3, <1>6 DEF Handshakes, Fresh
    <2>5. Still
      BY <1>2, <1>4, <1>6 DEF Still
    <2> QED
      BY <2>1, <2>2, <2>3, <2>4, <2>5, StillOnce DEF SessionInv
  <1> QED
    BY <1>5, <1>6 DEF LostConnection, r, q

-----------------------------------------------------------------------------
(* The client sends.                                                       *)

\* Messages that are new for the client's buffer.
LEMMA QuietCells ==
    ASSUME NEW hs \in BOOLEAN, NEW ms, Quiet(ms), NEW s
    PROVE  NewCells(Extension(hs, ms), s, s)
  <1>1. CASE hs \/ ms = <<>>
    <2>1. Extension(hs, ms) = <<>>
      BY <1>1 DEF Extension
    <2>2. <<>> \in Seq(Cell) /\ Len(<<>>) = 0
      BY EmptySeq
    <2> QED
      BY <2>1, <2>2 DEF NewCells, Framed
  <1>2. CASE ~ hs /\ ms # <<>>
    <2>1. Head(ms) \in Message /\ Head(ms).t # "msg"
      BY <1>2, HeadTailProperties DEF Quiet
    <2>2. PICK m \in Message : m = Head(ms) /\ m.t # "msg"
      BY <2>1
    <2>3. /\ Cells(m) \in Seq(Cell) /\ Len(Cells(m)) = Size(m) /\ Framed(Cells(m))
          /\ \A i \in 1 .. Size(m) : Cells(m)[i] = [m |-> m, part |-> i]
      BY CellsOf
    <2>4. ASSUME NEW i \in 1 .. Len(Cells(m))
          PROVE  ~ Final(Cells(m)[i])
      <3>1. Cells(m)[i].m = m
        BY <2>3
      <3> QED
        BY <2>2, <3>1 DEF Final
    <2>5. Extension(hs, ms) = Cells(m)
      BY <1>2, <2>2 DEF Extension
    <2> QED
      BY <2>3, <2>4, <2>5 DEF NewCells
  <1> QED
    BY <1>1, <1>2

LEMMA BusCells ==
    ASSUME NEW hs \in BOOLEAN, NEW s \in Nat, s + 1 \in 1 .. MaxMsgs
    PROVE  /\ <<Msg(s + 1)>> \in Seq(Message) /\ Len(<<Msg(s + 1)>>) = 1
           /\ NewCells(Extension(hs, <<Msg(s + 1)>>), s, s + 1)
  <1>1. PICK m \in Message : m = Msg(s + 1)
    BY MessagesTyped
  <1>2. m.t = "msg" /\ m.a = s + 1 /\ Size(m) = 2
    BY <1>1 DEF Msg, Size
  <1>3. /\ Cells(m) \in Seq(Cell) /\ Len(Cells(m)) = 2 /\ Framed(Cells(m))
        /\ \A i \in 1 .. 2 : Cells(m)[i] = [m |-> m, part |-> i]
    BY <1>2, CellsOf
  <1>4. \A i \in 1 .. 2 : Cells(m)[i].m = m /\ Cells(m)[i].part = i
    BY <1>3
  <1>5. NewCells(Cells(m), s, s + 1)
    <2>1. \A i \in 1 .. 2 : Final(Cells(m)[i]) => s < Cells(m)[i].m.a /\ Cells(m)[i].m.a <= s + 1
      BY <1>2, <1>4
    <2>2. \A i, h \in 1 .. 2 : Cells(m)[h] = Cells(m)[i] => i = h
      BY <1>4
    <2> QED
      BY <1>3, <2>1, <2>2 DEF NewCells
  <1>6. NewCells(<<>>, s, s + 1)
    BY EmptySeq DEF NewCells, Framed
  <1>7. Extension(hs, <<m>>) = IF hs THEN <<>> ELSE Cells(m)
    BY DEF Extension
  <1> QED
    BY <1>1, <1>5, <1>6, <1>7

\* What a step that sends leaves as it is.
ClientKeeps(w) ==
    /\ UNCHANGED <<sv, srv>> /\ cl' \in ClientType /\ cl'.list = cl.list /\ cl'.hs = cl.hs
    /\ sent' \in 0 .. MaxMsgs /\ lost' \in BOOLEAN
    /\ cl.hs => cl'.out.cursor = cl.out.cursor /\ (cl'.out.want => cl.out.want) /\ w = <<>>
    /\ net'[conn].toC = net[conn].toC \/ ~ cl.hs

LEMMA ClientSendsKeeps ==
    ASSUME SessionInv, NEW ext, NEW w, ClientSends(ext, w), ClientKeeps(w)
    PROVE  SessionInv'
  <1>1. VarsTyped /\ BuffersGood /\ OneByOne /\ Handshakes
    BY DEF SessionInv
  <1>2. PICK k \in Conn : k = conn /\ k # 0
    BY ConnNumbers DEF ClientSends
  <1>3. /\ conn' = k /\ net'[k].up = net[k].up /\ \A c \in Conn : c # k => net'[c] = net[c]
        /\ net'[k].toS = IF net[k].up THEN net[k].toS \o w ELSE net[k].toS
        /\ net' \in [Conn -> Connection] /\ received' = received
    BY <1>2 DEF ClientSends
  <1>4. /\ sv' = sv /\ srv' = srv /\ cl'.hs = cl.hs /\ cl'.list = cl.list /\ cl' \in ClientType
        /\ cl.hs => cl'.out.cursor = cl.out.cursor /\ (cl'.out.want => cl.out.want)
        /\ net'[k].toC = net[k].toC \/ ~ cl.hs
    BY <1>2 DEF ClientKeeps
  <1>5. cl.hs \/ ~ net[k].up => net'[k].toS = net[k].toS
    <2>1. net[k].toS \in Seq(Cell)
      BY <1>1, Typed
    <2>2. cl.hs => net[k].toS \o w = net[k].toS
      BY <2>1, ConcatEmptySeq DEF ClientKeeps
    <2> QED
      BY <1>3, <2>2
  <1>6. VarsTyped'
    <2>1. PICK s, s2 : s = sent /\ s2 = sent'
      OBVIOUS
    <2>2. received \in Seq(1 .. s) /\ s \in Nat /\ s2 \in Nat /\ s <= s2
      BY <1>1, <2>1, Typed DEF VarsTyped, ClientSends
    <2>3. received \in Seq(1 .. s2)
      <3>1. 1 .. s \subseteq 1 .. s2
        BY <2>2
      <3> QED
        BY <2>2, <3>1, SeqMonotonic
    <2>4. received' \in Seq(1 .. sent')
      BY <1>3, <2>1, <2>3
    <2>5. sent' \in 0 .. MaxMsgs /\ lost' \in BOOLEAN
      BY DEF ClientKeeps
    <2>6. conn' \in 0 .. MaxConn
      BY <1>1, <1>2, <1>3 DEF VarsTyped
    <2> QED
      BY <1>1, <1>3, <1>4, <2>4, <2>5, <2>6 DEF VarsTyped
  <1>7. BuffersGood'
    BY <1>1, <1>4 DEF BuffersGood, ClientSends
  <1>8. OneByOne'
    <2>1. \A c \in Conn : c > k => c # k
      BY ConnNumbers
    <2> QED
      BY <1>1, <1>2, <1>3, <1>4, <2>1 DEF OneByOne
  <1>9. Handshakes'
    <2>1. ASSUME NEW c \in Conn, Fresh(c)
          PROVE  /\ sv[c].part = <<>> /\ sv[c].out.data = <<>> /\ net'[c].toC = <<>>
                 /\ net'[c].toS \in {<<>>, <<GetCell>>} /\ (c = k => cl.hs)
      <3>1. /\ sv[c].part = <<>> /\ sv[c].out.data = <<>> /\ net[c].toC = <<>>
            /\ net[c].toS \in {<<>>, <<GetCell>>} /\ (c = k => cl.hs)
        BY <1>1, <1>2, <2>1 DEF Handshakes
      <3> QED
        BY <1>3, <1>4, <1>5, <3>1
    <2>2. cl'.hs => cl'.out.cursor = 0
      BY <1>1, <1>4 DEF Handshakes
    <2>3. net'[k].up /\ cl'.hs /\ cl'.out.want => net'[k].toS = <<>>
      BY <1>1, <1>2, <1>3, <1>4, <1>5 DEF Handshakes
    <2>4. ASSUME NEW c \in Conn, sv[c].st \in {"lost", "gone"} \/ (sv[c].st = "open" /\ ~sv[c].rd)
          PROVE  net'[c].toS = <<>> /\ ~ net'[c].up
      <3>1. net[c].toS = <<>> /\ ~ net[c].up
        BY <1>1, <2>4 DEF Handshakes
      <3> QED
        BY <1>3, <1>5, <3>1
    <2> QED
      BY <1>3, <1>4, <2>1, <2>2, <2>3, <2>4 DEF Handshakes, Fresh
  <1> QED
    BY <1>6, <1>7, <1>8, <1>9, ClientSendsOnce DEF SessionInv

-----------------------------------------------------------------------------
(* The steps of the client.                                                *)

LEMMA ClientTyped ==
    ASSUME SessionInv
    PROVE  /\ cl \in ClientType /\ Good(cl.out) /\ cl.out \in Buffer
           /\ cl.hs \in BOOLEAN /\ cl.rd \in BOOLEAN /\ cl.reset \in BOOLEAN
           /\ cl.list \in Version /\ cl.told \in Version \cup {None} /\ cl.known \in List
           /\ net \in [Conn -> Connection] /\ sent \in 0 .. MaxMsgs /\ lost \in BOOLEAN
           /\ NewCells(<<>>, sent, sent) /\ sent \in Nat
           /\ conn # 0 => conn \in Conn
  <1>1. /\ cl \in ClientType /\ net \in [Conn -> Connection] /\ sent \in 0 .. MaxMsgs
        /\ lost \in BOOLEAN /\ conn \in 0 .. MaxConn
    BY DEF SessionInv, VarsTyped
  <1>2. Good(cl.out)
    BY DEF SessionInv, BuffersGood
  <1>3. NewCells(<<>>, sent, sent)
    BY EmptySeq DEF NewCells, Framed
  <1>4. conn # 0 => conn \in Conn
    BY <1>1, ConnNumbers DEF Conn
  <1> QED
    BY <1>1, <1>2, <1>3, <1>4 DEF ClientType

\* What output_message() does for the client.
LEMMA ClientOutput ==
    ASSUME SessionInv, NEW hs \in BOOLEAN, NEW ms \in Seq(Message), Len(ms) <= 1,
           NEW n \in FlushSizes(cl.out, ms) \cup {0}, NEW o, o = Output(cl.out, hs, ms, n),
           NEW w, w = OutputCells(cl.out, hs, ms, n)
    PROVE  /\ Good(o) /\ o \in Buffer /\ w \in Seq(Cell)
           /\ Wrote(cl.out, Extension(hs, ms), w, o)
           /\ hs => o = cl.out /\ w = <<>>
  <1>1. Good(cl.out)
    BY ClientTyped
  <1>2. Good(o) /\ w \in Seq(Cell)
    <2>1. Len(ms) <= 2
      BY LenProperties
    <2> QED
      BY <1>1, <2>1, OutputGood
  <1>3. Wrote(cl.out, Extension(hs, ms), w, o)
    BY <1>1, OutputWrote
  <1>4. hs => o = cl.out /\ w = <<>>
    BY DEF Output, OutputCells
  <1> QED
    BY <1>2, <1>3, <1>4 DEF Good

\* The stream to the server in net' when w is written and toC is read.
NetWrites(n1, n2, k, w) ==
    \/ n2 = [n1 EXCEPT ![k].toS = Carry(n1[k].up, @, w)]
    \/ /\ n2 = [n1 EXCEPT ![k].toC = Tail(@), ![k].toS = Carry(n1[k].up, @, w)]
       /\ n1[k].toC # <<>>

LEMMA NetSends ==
    ASSUME NEW n1 \in [Conn -> Connection], NEW k \in Conn, NEW w \in Seq(Cell), NEW n2,
           NetWrites(n1, n2, k, w)
    PROVE  /\ n2 \in [Conn -> Connection] /\ n2[k].up = n1[k].up
           /\ n2[k].toS = IF n1[k].up THEN n1[k].toS \o w ELSE n1[k].toS
           /\ \A c \in Conn : c # k => n2[c] = n1[c]
           /\ n2[k].toC \in {n1[k].toC, Tail(n1[k].toC)}
  <1>1. n1[k] \in Connection
    OBVIOUS
  <1>2. n1[k].toS \in Seq(Cell) /\ n1[k].toC \in Seq(Cell) /\ n1[k].up \in BOOLEAN
    BY <1>1 DEF Connection
  <1>3. PICK s : s = IF n1[k].up THEN n1[k].toS \o w ELSE n1[k].toS
    OBVIOUS
  <1>4. s \in Seq(Cell) /\ s = Carry(n1[k].up, n1[k].toS, w)
    BY <1>2, <1>3, ConcatProperties DEF Carry
  <1>5. n1[k].toC # <<>> => Tail(n1[k].toC) \in Seq(Cell)
    BY <1>2, HeadTailProperties
  <1>6. PICK t : n2 = [n1 EXCEPT ![k] = [n1[k] EXCEPT !.toC = t, !.toS = s]]
                 /\ t \in Seq(Cell) /\ t \in {n1[k].toC, Tail(n1[k].toC)}
    <2>1. CASE n2 = [n1 EXCEPT ![k].toS = Carry(n1[k].up, @, w)]
      <3>1. [n1[k] EXCEPT !.toC = n1[k].toC, !.toS = s] = [n1[k] EXCEPT !.toS = s]
        BY <1>1 DEF Connection
      <3>2. n2 = [n1 EXCEPT ![k] = [n1[k] EXCEPT !.toS = s]]
        BY <1>4, <2>1
      <3>3. n2 = [n1 EXCEPT ![k] = [n1[k] EXCEPT !.toC = n1[k].toC, !.toS = s]]
        BY <3>1, <3>2
      <3> QED
        BY <1>2, <3>3
    <2>2. CASE /\ n2 = [n1 EXCEPT ![k].toC = Tail(@), ![k].toS = Carry(n1[k].up, @, w)]
               /\ n1[k].toC # <<>>
      <3>1. n2 = [n1 EXCEPT ![k] = [n1[k] EXCEPT !.toC = Tail(n1[k].toC), !.toS = s]]
        BY <1>1, <1>4, <2>2 DEF Connection
      <3> QED
        BY <1>5, <2>2, <3>1
    <2> QED
      BY <2>1, <2>2 DEF NetWrites
  <1>7. PICK x : x = [n1[k] EXCEPT !.toC = t, !.toS = s]
    OBVIOUS
  <1>8. x \in Connection /\ x.up = n1[k].up /\ x.toS = s /\ x.toC = t
    BY <1>1, <1>4, <1>6, <1>7 DEF Connection
  <1>9. /\ n2 \in [Conn -> Connection] /\ n2[k] = x
        /\ \A c \in Conn : c # k => n2[c] = n1[c]
    BY <1>6, <1>7, <1>8
  <1> QED
    BY <1>3, <1>6, <1>8, <1>9

LEMMA PostKeeps ==
    ASSUME SessionInv, Post
    PROVE  SessionInv'
  <1> DEFINE m == <<Msg(sent + 1)>>
             hs == cl.hs \/ Len(View(cl.out)) > Hwm
  <1>1. PICK n \in FlushSizes(cl.out, m) :
          /\ cl' = [cl EXCEPT !.out = Output(@, hs, m, n)]
          /\ net' = [net EXCEPT ![conn].toS = Carry(net[conn].up, @, OutputCells(cl.out, hs, m, n))]
    BY DEF Post
  <1>2. /\ conn # 0 /\ sent < MaxMsgs /\ sent' = sent + 1
        /\ UNCHANGED <<conn, sv, srv, received, lost>>
    BY DEF Post
  <1>3. PICK o, w : o = Output(cl.out, hs, m, n) /\ w = OutputCells(cl.out, hs, m, n)
    OBVIOUS
  <1>4. /\ conn \in Conn /\ sent \in Nat /\ sent \in 0 .. MaxMsgs /\ lost \in BOOLEAN
        /\ cl \in ClientType /\ net \in [Conn -> Connection] /\ Good(cl.out)
    BY <1>2, ClientTyped
  <1>5. hs \in BOOLEAN /\ sent + 1 \in 1 .. MaxMsgs
    BY <1>2, <1>4, ClientTyped, BoundsNat
  <1> HIDE DEF hs
  <1>6. /\ m \in Seq(Message) /\ Len(m) <= 1 /\ NewCells(Extension(hs, m), sent, sent')
    BY <1>2, <1>4, <1>5, BusCells
  <1>7. /\ Good(o) /\ o \in Buffer /\ w \in Seq(Cell)
        /\ Wrote(cl.out, Extension(hs, m), w, o) /\ (hs => o = cl.out /\ w = <<>>)
    BY <1>3, <1>5, <1>6, ClientOutput
  <1>8. /\ cl' \in ClientType /\ cl'.out = o /\ cl'.hs = cl.hs /\ cl'.list = cl.list
    BY <1>1, <1>3, <1>4, <1>7 DEF ClientType
  <1>9. /\ net' \in [Conn -> Connection] /\ net'[conn].up = net[conn].up
        /\ net'[conn].toS = IF net[conn].up THEN net[conn].toS \o w ELSE net[conn].toS
        /\ \A c \in Conn : c # conn => net'[c] = net[c]
        /\ net'[conn].toC = net[conn].toC
    <2>1. PICK k \in Conn : k = conn
      BY <1>4
    <2>2. net' = [net EXCEPT ![k].toS = Carry(net[k].up, @, w)]
      BY <1>1, <1>3, <2>1
    <2>3. net'[k].toC = net[k].toC
      BY <1>4, <2>2 DEF Connection
    <2>4. NetWrites(net, net', k, w)
      BY <2>2 DEF NetWrites
    <2>5. w \in Seq(Cell) /\ net \in [Conn -> Connection]
      BY <1>4, <1>7
    <2>6. /\ net' \in [Conn -> Connection] /\ net'[k].up = net[k].up
          /\ net'[k].toS = IF net[k].up THEN net[k].toS \o w ELSE net[k].toS
          /\ \A c \in Conn : c # k => net'[c] = net[c]
      BY <2>4, <2>5, NetSends
    <2> QED
      BY <2>1, <2>3, <2>6
  <1>10. ClientSends(Extension(hs, m), w)
    BY <1>2, <1>4, <1>6, <1>7, <1>8, <1>9 DEF ClientSends
  <1>11. ClientKeeps(w)
    <2>1. cl.hs => hs
      BY DEF hs
    <2>2. sent' \in 0 .. MaxMsgs
      BY <1>2, <1>4, BoundsNat
    <2>3. cl.hs => cl'.out = cl.out /\ w = <<>>
      BY <1>7, <1>8, <2>1
    <2>4. lost' \in BOOLEAN /\ UNCHANGED <<sv, srv>>
      BY <1>2, <1>4
    <2> QED
      BY <1>8, <1>9, <2>2, <2>3, <2>4 DEF ClientKeeps
  <1> QED
    BY <1>10, <1>11, ClientSendsKeeps

\* A client that asks for nothing, or reads or waits for nothing.
LEMMA WantFree ==
    ASSUME cl \in ClientType, Good(cl.out)
    PROVE  /\ SameClient([cl EXCEPT !.out.want = FALSE])
           /\ SameClient([cl EXCEPT !.rd = FALSE])
           /\ SameClient([cl EXCEPT !.timer = FALSE, !.retry = FALSE])
  <1>1. PICK o : o = [cl.out EXCEPT !.want = FALSE]
    OBVIOUS
  <1>2. cl.out \in Buffer
    BY DEF Good
  <1>3. /\ Good(o) /\ o \in Buffer /\ o.data = cl.out.data /\ o.cursor = cl.out.cursor
        /\ o.want = FALSE
    BY <1>1, <1>2, FlagsFree DEF Buffer, Good
  <1>4. [cl EXCEPT !.out.want = FALSE] = [cl EXCEPT !.out = o]
    BY <1>1
  <1>5. SameClient([cl EXCEPT !.out = o])
    BY <1>3 DEF SameClient, ClientType
  <1>6. SameClient([cl EXCEPT !.rd = FALSE])
    BY DEF SameClient, ClientType
  <1>7. SameClient([cl EXCEPT !.timer = FALSE, !.retry = FALSE])
    BY DEF SameClient, ClientType
  <1> QED
    BY <1>4, <1>5, <1>6, <1>7

LEMMA ClientNet ==
    ASSUME SessionInv, conn \in Conn, NEW w \in Seq(Cell), NetWrites(net, net', conn, w)
    PROVE  /\ net' \in [Conn -> Connection] /\ net'[conn].up = net[conn].up
           /\ net'[conn].toS = IF net[conn].up THEN net[conn].toS \o w ELSE net[conn].toS
           /\ \A c \in Conn : c # conn => net'[c] = net[c]
  <1>1. PICK k \in Conn : k = conn
    OBVIOUS
  <1>2. net \in [Conn -> Connection]
    BY ClientTyped
  <1>3. NetWrites(net, net', k, w)
    BY <1>1
  <1>4. /\ net' \in [Conn -> Connection] /\ net'[k].up = net[k].up
        /\ net'[k].toS = IF net[k].up THEN net[k].toS \o w ELSE net[k].toS
        /\ \A c \in Conn : c # k => net'[c] = net[c]
    BY <1>2, <1>3, NetSends
  <1> QED
    BY <1>1, <1>4

LEMMA ClientClearToSendKeeps ==
    ASSUME SessionInv, ClientClearToSend
    PROVE  SessionInv'
  <1>1. /\ conn # 0 /\ cl.out.want /\ ~cl.hs /\ UNCHANGED <<sv, srv, sent, received, lost>>
    BY DEF ClientClearToSend
  <1>2. /\ conn \in Conn /\ sent \in Nat /\ sent \in 0 .. MaxMsgs /\ lost \in BOOLEAN
        /\ cl \in ClientType /\ net \in [Conn -> Connection] /\ Good(cl.out)
        /\ NewCells(<<>>, sent, sent) /\ cl.out \in Buffer
    BY <1>1, ClientTyped
  <1>3. ASSUME NEW n \in (IF cl.out.data = <<>> THEN {0} ELSE 1 .. Len(View(cl.out))),
               net' = [net EXCEPT ![conn].toS = Carry(net[conn].up, @, SubSeq(View(cl.out), 1, n))],
               cl' = [cl EXCEPT !.out = ClearedToSend(@, n)], UNCHANGED conn
        PROVE  SessionInv'
    <2>1. n \in Nat /\ n <= Len(View(cl.out))
      <3>1. Len(View(cl.out)) \in Nat
        <4>1. View(cl.out) \in Seq(Cell)
          BY <1>2, ViewOf
        <4> QED
          BY <4>1, LenProperties
      <3> QED
        BY <3>1
    <2>2. PICK o, w : o = ClearedToSend(cl.out, n) /\ w = SubSeq(View(cl.out), 1, n)
      OBVIOUS
    <2>3. Good(o) /\ o \in Buffer /\ w \in Seq(Cell) /\ Wrote(cl.out, <<>>, w, o)
      BY <1>2, <2>1, <2>2, ClearedWrote DEF Good
    <2>4. /\ cl' \in ClientType /\ cl'.out = o /\ cl'.hs = cl.hs /\ cl'.list = cl.list
      BY <1>2, <1>3, <2>2, <2>3 DEF ClientType
    <2>5. NetWrites(net, net', conn, w)
      BY <1>3, <2>2 DEF NetWrites
    <2>6. ClientSends(<<>>, w)
      <3>1. /\ net' \in [Conn -> Connection] /\ net'[conn].up = net[conn].up
            /\ net'[conn].toS = IF net[conn].up THEN net[conn].toS \o w ELSE net[conn].toS
            /\ \A c \in Conn : c # conn => net'[c] = net[c]
        BY <1>2, <2>3, <2>5, ClientNet
      <3>2. conn' = conn /\ sent' = sent
        BY <1>1, <1>3
      <3> QED
        BY <1>1, <1>2, <2>3, <2>4, <3>1, <3>2 DEF ClientSends
    <2>7. ClientKeeps(w)
      BY <1>1, <1>2, <2>4 DEF ClientKeeps
    <2> QED
      BY <2>6, <2>7, ClientSendsKeeps
  <1>4. ASSUME LostConnection([cl EXCEPT !.out.want = FALSE])
        PROVE  SessionInv'
    <2>1. SameClient([cl EXCEPT !.out.want = FALSE])
      BY <1>2, WantFree
    <2> QED
      BY <1>1, <1>2, <1>4, <2>1, ClientLoses
  <1> QED
    BY <1>3, <1>4 DEF ClientClearToSend

LEMMA SendHandshakeKeeps ==
    ASSUME SessionInv, SendHandshake
    PROVE  SessionInv'
  <1> DEFINE k == [cl EXCEPT !.out.want = FALSE]
  <1>1. conn # 0 /\ cl.out.want /\ cl.hs /\ UNCHANGED <<sv, srv, sent, received, lost>>
    BY DEF SendHandshake
  <1>2. /\ conn \in Conn /\ sent \in 0 .. MaxMsgs /\ lost \in BOOLEAN
        /\ cl \in ClientType /\ net \in [Conn -> Connection] /\ Good(cl.out)
    BY <1>1, ClientTyped
  <1>3. SameClient(k)
    BY <1>2, WantFree
  <1>4. CASE ~ net[conn].up
    BY <1>1, <1>2, <1>3, <1>4, ClientLoses DEF SendHandshake
  <1>5. CASE net[conn].up
    <2>1. PICK a \in Conn : a = conn
      BY <1>2
    <2>2. VarsTyped /\ BuffersGood /\ OneByOne /\ Handshakes
      BY DEF SessionInv
    <2>3. /\ net' = [net EXCEPT ![a].toS = @ \o Cells(Get)]
          /\ cl' = [k EXCEPT !.rd = TRUE] /\ conn' = a
      BY <1>5, <2>1 DEF SendHandshake
    <2>4. net[a].toS = <<>>
      BY <1>1, <1>2, <1>5, <2>1, <2>2 DEF Handshakes
    <2>5. /\ Cells(Get) \in Seq(Cell) /\ Len(Cells(Get)) = 1 /\ Cells(Get)[1] = GetCell
          /\ Framed(Cells(Get))
      <3>1. Size(Get) = 1
        BY DEF Size, Get
      <3> QED
        <4>1. Get \in Message
          BY MessagesTyped
        <4>2. /\ Cells(Get) \in Seq(Cell) /\ Len(Cells(Get)) = Size(Get) /\ Framed(Cells(Get))
              /\ \A i \in 1 .. Size(Get) : Cells(Get)[i] = [m |-> Get, part |-> i]
          BY <4>1, CellsOf
        <4>3. Cells(Get)[1] = GetCell
          BY <3>1, <4>2 DEF GetCell
        <4> QED
          BY <3>1, <4>2, <4>3
    <2>6. Cells(Get) = <<GetCell>>
      BY <2>5
    <2>7. <<>> \o Cells(Get) = Cells(Get)
      BY <2>5, ConcatEmptySeq
    <2>8. /\ net' \in [Conn -> Connection] /\ net'[a].up = net[a].up
          /\ net'[a].toS = <<GetCell>> /\ net'[a].toC = net[a].toC
          /\ \A c \in Conn : c # a => net'[c] = net[c]
      <3>1. net' = [net EXCEPT ![a] = [net[a] EXCEPT !.toS = <<GetCell>>]]
        BY <2>3, <2>4, <2>6, <2>7
      <3>2. net[a] \in Connection /\ <<GetCell>> \in Seq(Cell)
        BY <1>2, <2>5, <2>6
      <3> QED
        BY <1>2, <3>1, <3>2 DEF Connection
    <2>9. /\ cl' \in ClientType /\ Good(cl'.out) /\ cl'.hs = cl.hs /\ cl'.list = cl.list
          /\ cl'.out.data = cl.out.data /\ cl'.out.cursor = cl.out.cursor /\ cl'.out.want = FALSE
      <3>1. k \in ClientType /\ k.out.want = FALSE
        BY <1>2 DEF ClientType, Buffer
      <3>2. cl' \in ClientType /\ cl'.out = k.out /\ cl'.hs = k.hs /\ cl'.list = k.list
        <4> HIDE DEF k
        <4> QED
          BY <2>3, <3>1 DEF ClientType
      <3> HIDE DEF k
      <3> QED
        BY <1>3, <3>1, <3>2 DEF SameClient
    <2>10. cl'.out.cursor = 0
      BY <1>1, <2>2, <2>9 DEF Handshakes
    <2>11. VarsTyped'
      BY <1>1, <2>1, <2>2, <2>3, <2>8, <2>9 DEF VarsTyped
    <2>12. BuffersGood'
      BY <1>1, <2>2, <2>9 DEF BuffersGood
    <2>13. OneByOne'
      <3>1. \A c \in Conn : c > a => c # a
        BY ConnNumbers
      <3>2. a # 0
        BY ConnNumbers
      <3> QED
        BY <1>1, <2>1, <2>2, <2>3, <2>8, <3>1, <3>2 DEF OneByOne
    <2>14. Handshakes'
      <3>1. ASSUME NEW c \in Conn, Fresh(c)
            PROVE  /\ sv[c].part = <<>> /\ sv[c].out.data = <<>> /\ net'[c].toC = <<>>
                   /\ net'[c].toS \in {<<>>, <<GetCell>>}
        <4>1. /\ sv[c].part = <<>> /\ sv[c].out.data = <<>> /\ net[c].toC = <<>>
              /\ net[c].toS \in {<<>>, <<GetCell>>}
          BY <2>2, <3>1 DEF Handshakes
        <4> QED
          BY <2>8, <4>1
      <3>2. ASSUME NEW c \in Conn, sv[c].st \in {"lost", "gone"} \/ (sv[c].st = "open" /\ ~sv[c].rd)
            PROVE  net'[c].toS = <<>> /\ ~ net'[c].up
        <4>1. net[c].toS = <<>> /\ ~ net[c].up
          BY <2>2, <3>2 DEF Handshakes
        <4>2. c # a
          BY <1>5, <2>1, <4>1
        <4> QED
          BY <2>8, <4>1, <4>2
      <3>3. sv' = sv /\ cl'.hs = TRUE /\ cl'.out.want = FALSE
        BY <1>1, <1>2, <2>9 DEF ClientType
      <3> QED
        BY <2>10, <3>1, <3>2, <3>3 DEF Handshakes, Fresh
    <2>15. Continued'
      BY <2>10 DEF Continued
    <2>16. MessagesWhole'
      <3>1. \A c \in Conn : WholeStream(Stream(c)) /\ Stream(c) \in Seq(Cell)
        BY <2>2, WholeStreams, Typed DEF SessionInv
      <3>2. Stream(a)' = Stream(a) \o Cells(Get)
        <4>1. sv[a].part \in Seq(Cell)
          BY <2>2, Typed
        <4>2. Stream(a) = sv[a].part
          BY <2>4, <4>1, ConcatEmptySeq DEF Stream
        <4> QED
          BY <1>1, <2>6, <2>8, <4>2 DEF Stream
      <3>3. WholeStream(Stream(a) \o Cells(Get))
        <4>1. PICK s, g : s = Stream(a) /\ g = Cells(Get)
          OBVIOUS
        <4>2. GoesOn(s, g, 0) /\ CopyOf(g, g, 0, 1)
          BY <2>5, <4>1 DEF GoesOn, CopyOf
        <4>3. /\ s \in Seq(Cell) /\ WholeStream(s) /\ g \in Seq(Cell) /\ Framed(g)
              /\ 0 + 1 <= Len(g) /\ 0 \in {0, 1} /\ 1 \in Nat
          <5>1. s \in Seq(Cell) /\ WholeStream(s)
            BY <3>1, <4>1
          <5>2. g \in Seq(Cell) /\ Framed(g) /\ Len(g) = 1
            BY <2>5, <4>1
          <5> QED
            BY <5>1, <5>2
        <4>4. WholeStream(s \o g)
          BY <4>2, <4>3, StreamGoesOn
        <4> QED
          BY <4>1, <4>4
      <3>4. ASSUME NEW c \in Conn
            PROVE  WholeStream(Stream(c)')
        <4>1. CASE c = a
          BY <3>2, <3>3, <4>1
        <4>2. CASE c # a
          <5>1. Stream(c)' = Stream(c)
            BY <1>1, <2>8, <4>2 DEF Stream
          <5> QED
            BY <3>1, <5>1
        <4> QED
          BY <4>1, <4>2
      <3>5. (\A c \in Conn : WholeStream(Stream(c)))'
        BY <3>4 DEF WholeStream
      <3> QED
        BY <3>5, WholeStreams, PTL
    <2>17. FewerPlaces
      <3>1. ~ Final(GetCell) /\ Len(<<GetCell>>) = 1
        BY DEF Final, GetCell, Get
      <3>2. ASSUME NEW c \in Conn, NEW i \in 1 .. Len(net'[c].toS)
            PROVE  \/ ~ Final(net'[c].toS[i])
                   \/ i \in 1 .. Len(net[c].toS) /\ net'[c].toS[i] = net[c].toS[i]
        <4>1. CASE c = a
          BY <2>8, <3>1, <4>1
        <4>2. CASE c # a
          BY <2>8, <4>2
        <4> QED
          BY <4>1, <4>2
      <3>3. cl.out.data \in Seq(Cell)
        BY <1>2, Boundaries
      <3> QED
        BY <1>1, <2>8, <2>9, <3>2, <3>3 DEF FewerPlaces
    <2> QED
      BY <2>11, <2>12, <2>13, <2>14, <2>15, <2>16, <2>17, FewerPlacesOnce DEF SessionInv
  <1> QED
    BY <1>4, <1>5

LEMMA ClientReceiveKeeps ==
    ASSUME SessionInv, ClientReceive
    PROVE  SessionInv'
  <1> DEFINE m == Head(net[conn].toC).m
             reply == Answer(m, cl.list, cl.told)
  <1>1. PICK n \in FlushSizes(cl.out, reply) :
          /\ cl' = [cl EXCEPT !.known = Known(m, @),
                              !.told = IF reply = <<>> THEN @ ELSE cl.list,
                              !.out = Output(@, FALSE, reply, n)]
          /\ net' = [net EXCEPT ![conn].toC = Tail(@),
                      ![conn].toS = Carry(net[conn].up, @, OutputCells(cl.out, FALSE, reply, n))]
    BY DEF ClientReceive
  <1>2. /\ ~cl.hs /\ cl.rd /\ net[conn].toC # <<>>
        /\ UNCHANGED <<conn, sv, srv, sent, received, lost>>
    BY DEF ClientReceive
  <1>3. /\ cl \in ClientType /\ Good(cl.out) /\ cl.list \in Version
        /\ cl.told \in Version \cup {None} /\ cl.known \in List /\ net \in [Conn -> Connection]
        /\ sent \in 0 .. MaxMsgs /\ lost \in BOOLEAN /\ sent \in Nat /\ (conn # 0 => conn \in Conn)
    BY ClientTyped
  <1>4. conn \in Conn
    BY <1>2, <1>3 DEF SessionInv, OneByOne
  <1>5. m \in Message
    <2>1. net[conn].toC \in Seq(Cell)
      BY <1>4, Typed DEF SessionInv
    <2>2. Head(net[conn].toC) \in Cell
      BY <1>2, <2>1, HeadTailProperties
    <2> QED
      BY <2>2, CellTyped
  <1>6. Quiet(reply) /\ Known(m, cl.known) \in List
    BY <1>3, <1>5, AnswerQuiet, KnownTyped
  <1> HIDE DEF m, reply
  <1>7. PICK o, w : o = Output(cl.out, FALSE, reply, n) /\ w = OutputCells(cl.out, FALSE, reply, n)
    OBVIOUS
  <1>8. /\ Good(o) /\ o \in Buffer /\ w \in Seq(Cell)
        /\ Wrote(cl.out, Extension(FALSE, reply), w, o)
    <2>1. reply \in Seq(Message) /\ Len(reply) <= 1 /\ FALSE \in BOOLEAN
      BY <1>6 DEF Quiet
    <2> QED
      BY <1>7, <2>1, ClientOutput
  <1>9. /\ cl' \in ClientType /\ cl'.out = o /\ cl'.hs = cl.hs /\ cl'.list = cl.list
    <2>1. PICK kn, tl : kn = Known(m, cl.known) /\ tl = IF reply = <<>> THEN cl.told ELSE cl.list
      OBVIOUS
    <2>2. kn \in List /\ tl \in Version \cup {None}
      BY <1>3, <1>6, <2>1
    <2>3. cl' = [cl EXCEPT !.known = kn, !.told = tl, !.out = o]
      BY <1>1, <1>7, <2>1
    <2> QED
      BY <1>3, <1>8, <2>2, <2>3 DEF ClientType
  <1>10. NetWrites(net, net', conn, w)
    BY <1>1, <1>2, <1>7 DEF NetWrites
  <1>11. ClientSends(Extension(FALSE, reply), w)
    <2>1. NewCells(Extension(FALSE, reply), sent, sent')
      BY <1>2, <1>6, QuietCells
    <2>2. /\ net' \in [Conn -> Connection] /\ net'[conn].up = net[conn].up
          /\ net'[conn].toS = IF net[conn].up THEN net[conn].toS \o w ELSE net[conn].toS
          /\ \A c \in Conn : c # conn => net'[c] = net[c]
      BY <1>4, <1>8, <1>10, ClientNet
    <2>3. UNCHANGED <<conn, sv, sent, received>>
      BY <1>2
    <2>4. Good(cl'.out) /\ Wrote(cl.out, Extension(FALSE, reply), w, cl'.out)
      BY <1>8, <1>9
    <2>5. PICK ext : ext = Extension(FALSE, reply)
      OBVIOUS
    <2>6. NewCells(ext, sent, sent') /\ Good(cl'.out) /\ Wrote(cl.out, ext, w, cl'.out)
      BY <2>1, <2>4, <2>5
    <2>7. ClientSends(ext, w)
      BY <1>3, <1>4, <2>2, <2>3, <2>6 DEF ClientSends
    <2> QED
      BY <2>5, <2>7
  <1>12. ClientKeeps(w)
    BY <1>2, <1>3, <1>9 DEF ClientKeeps
  <1> QED
    BY <1>11, <1>12, ClientSendsKeeps

LEMMA ClientClosedKeeps ==
    ASSUME SessionInv, ClientClosed
    PROVE  SessionInv'
  <1>1. /\ conn # 0 /\ LostConnection([cl EXCEPT !.rd = FALSE])
        /\ UNCHANGED <<sv, srv, sent, received, lost>>
    BY DEF ClientClosed
  <1>2. conn \in Conn /\ lost \in BOOLEAN /\ SameClient([cl EXCEPT !.rd = FALSE])
    BY <1>1, ClientTyped, WantFree
  <1> QED
    BY <1>1, <1>2, ClientLoses

LEMMA ClientTimeoutKeeps ==
    ASSUME SessionInv, ClientTimeout
    PROVE  SessionInv'
  <1>1. cl.timer /\ UNCHANGED <<sv, srv, sent, received>>
    BY DEF ClientTimeout
  <1>2. /\ cl \in ClientType /\ Good(cl.out) /\ cl.list \in Version /\ cl.hs \in BOOLEAN
        /\ cl.told \in Version \cup {None} /\ net \in [Conn -> Connection]
        /\ sent \in 0 .. MaxMsgs /\ lost \in BOOLEAN /\ sent \in Nat /\ (conn # 0 => conn \in Conn)
    BY ClientTyped
  <1>3. conn \in Conn
    BY <1>1, <1>2 DEF SessionInv, OneByOne
  <1>4. CASE cl.retry
    <2>1. SameClient([cl EXCEPT !.timer = FALSE, !.retry = FALSE])
      BY <1>2, WantFree
    <2>2. LostConnection([cl EXCEPT !.timer = FALSE, !.retry = FALSE]) /\ lost' = lost
      BY <1>4 DEF ClientTimeout
    <2> QED
      BY <1>1, <1>2, <1>3, <2>1, <2>2, ClientLoses
  <1>5. CASE ~ cl.retry
    <2> DEFINE update == Update(cl.list, cl.told, FALSE)
               full == ~cl.hs /\ Len(View(cl.out)) > Hwm
               quiet == cl.hs \/ full
    <2>1. PICK n \in FlushSizes(cl.out, update) :
            /\ net' = [net EXCEPT ![conn].toS = Carry(net[conn].up, @, OutputCells(cl.out, quiet, update, n))]
            /\ cl' = [cl EXCEPT !.timer = FALSE, !.told = cl.list,
                                !.out = Output(@, quiet, update, n)]
            /\ lost' = (lost \/ (full /\ update # <<>>))
            /\ UNCHANGED conn
      BY <1>5 DEF ClientTimeout
    <2>2. Quiet(update) /\ quiet \in BOOLEAN /\ full \in BOOLEAN /\ (cl.hs => quiet)
      BY <1>2, UpdateQuiet
    <2> HIDE DEF update, full, quiet
    <2>3. PICK o, w : o = Output(cl.out, quiet, update, n) /\ w = OutputCells(cl.out, quiet, update, n)
      OBVIOUS
    <2>4. /\ Good(o) /\ o \in Buffer /\ w \in Seq(Cell)
          /\ Wrote(cl.out, Extension(quiet, update), w, o)
          /\ quiet => o = cl.out /\ w = <<>>
      <3>1. update \in Seq(Message) /\ Len(update) <= 1
        BY <2>2 DEF Quiet
      <3> QED
        BY <2>2, <2>3, <3>1, ClientOutput
    <2>5. cl' \in ClientType /\ cl'.out = o /\ cl'.hs = cl.hs /\ cl'.list = cl.list
      BY <1>2, <2>1, <2>3, <2>4 DEF ClientType
    <2>6. NetWrites(net, net', conn, w)
      BY <2>1, <2>3 DEF NetWrites
    <2>7. ClientSends(Extension(quiet, update), w)
      <3>1. NewCells(Extension(quiet, update), sent, sent')
        BY <1>1, <2>2, QuietCells
      <3>2. /\ net' \in [Conn -> Connection] /\ net'[conn].up = net[conn].up
            /\ net'[conn].toS = IF net[conn].up THEN net[conn].toS \o w ELSE net[conn].toS
            /\ \A c \in Conn : c # conn => net'[c] = net[c]
        BY <1>3, <2>4, <2>6, ClientNet
      <3>3. conn' = conn
        BY <2>1
      <3> QED
        BY <1>1, <1>2, <1>3, <2>4, <2>5, <3>1, <3>2, <3>3 DEF ClientSends
    <2>8. ClientKeeps(w)
      <3>1. lost' \in BOOLEAN
        BY <1>2, <2>1, <2>2
      <3>2. cl.hs => cl'.out = cl.out /\ w = <<>>
        BY <2>2, <2>4, <2>5
      <3>3. net'[conn].toC = net[conn].toC
        BY <1>2, <1>3, <2>1 DEF Connection
      <3> QED
        BY <1>1, <1>2, <2>5, <3>1, <3>2, <3>3 DEF ClientKeeps
    <2> QED
      BY <2>7, <2>8, ClientSendsKeeps
  <1> QED
    BY <1>4, <1>5

LEMMA ClientListChangesKeeps ==
    ASSUME SessionInv, ClientListChanges
    PROVE  SessionInv'
  <1>1. /\ conn # 0 /\ cl.list + srv.list < MaxChanges + 2
        /\ cl' = [cl EXCEPT !.list = @ + 1, !.timer = TRUE]
        /\ UNCHANGED <<conn, sv, srv, net, sent, received, lost>>
    BY DEF ClientListChanges
  <1>2. VarsTyped /\ BuffersGood /\ OneByOne /\ Handshakes
    BY DEF SessionInv
  <1>3. cl \in ClientType /\ cl.list \in Version /\ srv.list \in Version
    BY <1>2, ClientTyped DEF VarsTyped
  <1>4. cl.list + 1 \in Version /\ (cl.list + 1) + srv.list <= MaxChanges + 2
    BY <1>1, <1>3, BoundsNat DEF Version
  <1>5. /\ cl' \in ClientType /\ cl'.list = cl.list + 1 /\ cl'.out = cl.out /\ cl'.hs = cl.hs
        /\ cl'.rd = cl.rd
    BY <1>1, <1>3, <1>4 DEF ClientType
  <1>6. VarsTyped'
    BY <1>1, <1>2, <1>4, <1>5 DEF VarsTyped
  <1>7. BuffersGood' /\ OneByOne' /\ Handshakes'
    BY <1>1, <1>2, <1>5 DEF BuffersGood, OneByOne, Handshakes, Fresh
  <1>8. Still
    BY <1>1, <1>5, ClientTyped DEF Still
  <1> QED
    BY <1>6, <1>7, <1>8, StillOnce DEF SessionInv

LEMMA BindKeeps ==
    ASSUME SessionInv, Bind
    PROVE  SessionInv'
  <1>1. /\ conn = 0 /\ conn' = 1 /\ net' = [net EXCEPT ![1].up = TRUE]
        /\ cl' = [cl EXCEPT !.out.want = TRUE]
        /\ UNCHANGED <<sv, srv, sent, received, lost>>
    BY DEF Bind
  <1>2. VarsTyped /\ BuffersGood /\ OneByOne /\ Handshakes
    BY DEF SessionInv
  <1>3. cl \in ClientType /\ Good(cl.out) /\ cl.out \in Buffer /\ net \in [Conn -> Connection]
    BY ClientTyped
  <1>4. 1 \in Conn /\ 1 \in 0 .. MaxConn
    BY SizesPositive DEF Conn
  <1>5. \A c \in Conn : /\ net[c] = [up |-> FALSE, toS |-> <<>>, toC |-> <<>>]
                        /\ sv[c].st = "none" /\ c > 0
    BY <1>1, <1>2, ConnNumbers DEF OneByOne, Conn
  <1>6. /\ net' \in [Conn -> Connection] /\ net'[1].up = TRUE
        /\ \A c \in Conn : net'[c].toS = <<>> /\ net'[c].toC = <<>> /\ net[c].toS = <<>>
        /\ \A c \in Conn : c # 1 => net'[c] = net[c] /\ ~ net'[c].up
    <2>1. net[1] \in Connection
      BY <1>3, <1>4
    <2>2. PICK x : x = [net[1] EXCEPT !.up = TRUE]
      OBVIOUS
    <2>3. x \in Connection /\ x.up = TRUE /\ x.toS = net[1].toS /\ x.toC = net[1].toC
      BY <2>1, <2>2 DEF Connection
    <2>4. net' = [net EXCEPT ![1] = x]
      BY <1>1, <2>2
    <2>5. \A c \in Conn : net[c].toS = <<>> /\ net[c].toC = <<>> /\ ~ net[c].up
      BY <1>5
    <2>6. /\ net' \in [Conn -> Connection] /\ net'[1] = x
          /\ \A c \in Conn : c # 1 => net'[c] = net[c]
      BY <1>3, <1>4, <2>3, <2>4
    <2> QED
      BY <1>4, <2>3, <2>5, <2>6
  <1>7. /\ cl' \in ClientType /\ Good(cl'.out) /\ cl'.out.data = cl.out.data
        /\ cl'.out.cursor = cl.out.cursor /\ cl'.hs = cl.hs /\ cl'.list = cl.list
    <2>1. PICK o : o = [cl.out EXCEPT !.want = TRUE]
      OBVIOUS
    <2>2. Good(o) /\ o \in Buffer /\ o.data = cl.out.data /\ o.cursor = cl.out.cursor
      BY <1>3, <2>1, FlagsFree DEF Buffer, Good
    <2>3. cl' = [cl EXCEPT !.out = o]
      BY <1>1, <2>1
    <2> QED
      BY <1>3, <2>2, <2>3 DEF ClientType
  <1>8. cl.hs /\ cl.out.cursor = 0
    BY <1>1, <1>2 DEF OneByOne, Handshakes
  <1>9. VarsTyped'
    BY <1>1, <1>2, <1>4, <1>6, <1>7 DEF VarsTyped
  <1>10. BuffersGood'
    BY <1>1, <1>2, <1>7 DEF BuffersGood
  <1>11. OneByOne'
    <2>1. conn' # 0 /\ \A c \in Conn : c > 1 => c # 1
      BY <1>1, ConnNumbers
    <2>2. \A c \in Conn : c # 1 => net'[c] = [up |-> FALSE, toS |-> <<>>, toC |-> <<>>]
      BY <1>5, <1>6
    <2>3. \A c \in Conn : sv'[c].st = "none"
      BY <1>1, <1>5
    <2>4. \A c \in Conn : net'[c].up => c = 1
      BY <1>6
    <2>5. \A c \in Conn : sv'[c].st \in {"none", "handshake"} => ~ sv'[c].opening
      BY <1>1, <1>2 DEF OneByOne
    <2> QED
      BY <1>1, <2>1, <2>2, <2>3, <2>4, <2>5 DEF OneByOne
  <1>12. Handshakes'
    <2>1. ASSUME NEW c \in Conn, Fresh(c)
          PROVE  /\ sv[c].part = <<>> /\ sv[c].out.data = <<>>
      BY <1>2, <2>1 DEF Handshakes
    <2> QED
      BY <1>1, <1>5, <1>6, <1>7, <1>8, <2>1 DEF Handshakes, Fresh
  <1>13. Still
    BY <1>1, <1>6, <1>7, <1>8 DEF Still
  <1> QED
    BY <1>9, <1>10, <1>11, <1>12, <1>13, StillOnce DEF SessionInv

LEMMA HandshakeDoneKeeps ==
    ASSUME SessionInv, HandshakeDone
    PROVE  SessionInv'
  <1> DEFINE ms == IF cl.reset THEN <<ChannelReset>> ELSE <<>>
  <1>1. /\ cl.hs /\ cl.rd /\ net[conn].toC # <<>>
        /\ cl' = [cl EXCEPT !.hs = FALSE, !.out = [Output(@, FALSE, ms, 0) EXCEPT !.want = TRUE]]
        /\ net' = [net EXCEPT ![conn].toC = Tail(@)]
        /\ UNCHANGED <<conn, sv, srv, sent, received, lost>>
    BY DEF HandshakeDone
  <1>2. /\ cl \in ClientType /\ Good(cl.out) /\ net \in [Conn -> Connection]
        /\ sent \in Nat /\ (conn # 0 => conn \in Conn)
    BY ClientTyped
  <1>3. PICK k \in Conn : k = conn /\ k # 0
    BY <1>1, <1>2 DEF SessionInv, OneByOne
  <1>4. VarsTyped /\ BuffersGood /\ OneByOne /\ Handshakes
    BY DEF SessionInv
  <1>5. Quiet(ms)
    <2>1. ChannelReset \in Message /\ ChannelReset.t # "msg"
      BY MessagesTyped DEF ChannelReset
    <2> QED
      BY <2>1, OneQuiet
  <1> HIDE DEF ms
  <1>6. PICK o, q, w : /\ o = Output(cl.out, FALSE, ms, 0) /\ w = OutputCells(cl.out, FALSE, ms, 0)
                       /\ q = [o EXCEPT !.want = TRUE]
    OBVIOUS
  <1>7. /\ Good(o) /\ o \in Buffer /\ w \in Seq(Cell)
        /\ Wrote(cl.out, Extension(FALSE, ms), w, o)
    <2>1. ms \in Seq(Message) /\ Len(ms) <= 1 /\ FALSE \in BOOLEAN
      BY <1>5 DEF Quiet
    <2>2. 0 \in FlushSizes(cl.out, ms) \cup {0}
      OBVIOUS
    <2> QED
      BY <1>6, <2>1, <2>2, ClientOutput
  <1>8. /\ Good(q) /\ q \in Buffer /\ q.data = o.data /\ q.cursor = o.cursor
    BY <1>6, <1>7, FlagsFree DEF Buffer, Good
  <1>9. Wrote(cl.out, Extension(FALSE, ms), w, q)
    BY <1>7, <1>8 DEF Wrote
  <1>10. w = <<>>
    BY <1>6, SubSeqEmpty DEF OutputCells, Taken
  <1>11. /\ cl' \in ClientType /\ cl'.out = q /\ cl'.hs = FALSE /\ cl'.list = cl.list
    BY <1>1, <1>2, <1>6, <1>8 DEF ClientType
  <1>12. net[k] \in Connection /\ net[k].toS \in Seq(Cell) /\ net[k].toC \in Seq(Cell)
    BY <1>2 DEF Connection
  <1>13. /\ net' \in [Conn -> Connection] /\ net'[k].up = net[k].up /\ net'[k].toS = net[k].toS
         /\ \A c \in Conn : c # k => net'[c] = net[c]
    <2>1. Tail(net[k].toC) \in Seq(Cell)
      BY <1>1, <1>3, <1>12, HeadTailProperties
    <2> QED
      BY <1>1, <1>2, <1>3, <1>12, <2>1 DEF Connection
  <1>14. ClientSends(Extension(FALSE, ms), w)
    <2>1. NewCells(Extension(FALSE, ms), sent, sent')
      BY <1>1, <1>5, QuietCells
    <2>2. net[k].toS \o w = net[k].toS
      BY <1>10, <1>12, ConcatEmptySeq
    <2>3. net'[k].toS = IF net[k].up THEN net[k].toS \o w ELSE net[k].toS
      BY <1>13, <2>2
    <2>4. UNCHANGED <<conn, sv, sent, received>>
      BY <1>1
    <2>5. Good(cl'.out) /\ Wrote(cl.out, Extension(FALSE, ms), w, cl'.out)
      BY <1>8, <1>9, <1>11
    <2>6. /\ net' \in [Conn -> Connection] /\ net'[conn].up = net[conn].up
          /\ net'[conn].toS = IF net[conn].up THEN net[conn].toS \o w ELSE net[conn].toS
          /\ \A c \in Conn : c # conn => net'[c] = net[c]
      BY <1>3, <1>13, <2>3
    <2>7. PICK ext : ext = Extension(FALSE, ms)
      OBVIOUS
    <2>8. NewCells(ext, sent, sent') /\ Good(cl'.out) /\ Wrote(cl.out, ext, w, cl'.out)
      BY <2>1, <2>5, <2>7
    <2>9. ClientSends(ext, w)
      BY <1>2, <1>3, <2>4, <2>6, <2>8 DEF ClientSends
    <2> QED
      BY <2>7, <2>9
  <1>15. VarsTyped'
    BY <1>1, <1>4, <1>11, <1>13 DEF VarsTyped
  <1>16. BuffersGood'
    BY <1>1, <1>4, <1>8, <1>11 DEF BuffersGood
  <1>17. OneByOne'
    <2>1. \A c \in Conn : c > k => c # k
      BY ConnNumbers
    <2> QED
      BY <1>1, <1>3, <1>4, <1>13, <2>1 DEF OneByOne
  <1>18. Handshakes'
    <2>1. ~ Fresh(k)
      BY <1>1, <1>3, <1>4 DEF Handshakes
    <2>2. ASSUME NEW c \in Conn, Fresh(c)
          PROVE  /\ sv[c].part = <<>> /\ sv[c].out.data = <<>> /\ net'[c].toC = <<>>
                 /\ net'[c].toS \in {<<>>, <<GetCell>>} /\ c # k
      BY <1>4, <1>13, <2>1, <2>2 DEF Handshakes
    <2>3. ASSUME NEW c \in Conn, sv[c].st \in {"lost", "gone"} \/ (sv[c].st = "open" /\ ~sv[c].rd)
          PROVE  net'[c].toS = <<>> /\ ~ net'[c].up
      BY <1>4, <1>13, <2>3 DEF Handshakes
    <2> QED
      BY <1>1, <1>3, <1>11, <2>2, <2>3 DEF Handshakes, Fresh
  <1> QED
    BY <1>14, <1>15, <1>16, <1>17, <1>18, ClientSendsOnce DEF SessionInv

=============================================================================
